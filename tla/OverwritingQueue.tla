--------------------------- MODULE OverwritingQueue ---------------------------
(***************************************************************************)
(* The queue of sdk/log/batch.go as its callers see it: a bounded FIFO     *)
(* queue that drops its oldest element when a new one does not fit, and    *)
(* that accepts nothing once it is closed.  LogQueue is the ring it is     *)
(* built on.  Every operation runs under the mutex of the queue.           *)
(***************************************************************************)
EXTENDS Integers, SequencesExt

CONSTANTS
  Records,   (* the log records                                            *)
  Capacity   (* the maximum number of records the queue holds              *)

(* newRing panics later on for a size of 0 or less.                        *)
ASSUME CapacityPositive == Capacity \in Nat \ {0}

VARIABLES
  items,     (* the records held, oldest first                             *)
  sealed     (* queue.closed                                               *)

queueVars == <<items, sealed>>

QueueInit == items = <<>> /\ sealed = FALSE

(* The record that has to go for one more to fit: <<>> or <<oldest>>.      *)
Displaced == IF Len(items) = Capacity THEN <<Head(items)>> ELSE <<>>

Enqueue(r) ==
  /\ ~sealed
  /\ items' = SubSeq(items, Len(Displaced) + 1, Len(items)) \o <<r>>
  /\ UNCHANGED sealed

EnqueueRefused == sealed /\ UNCHANGED queueVars

(* Dequeue into a buffer of n records; Flush takes all of them.            *)
Taken(n) == SubSeq(items, 1, IF n < Len(items) THEN n ELSE Len(items))
Dequeue_Copies(n) == UNCHANGED queueVars
Dequeue(n) ==
  /\ items' = SubSeq(items, Len(Taken(n)) + 1, Len(items))
  /\ UNCHANGED sealed

Flush == items' = <<>> /\ UNCHANGED sealed

Close == sealed' = TRUE /\ UNCHANGED items

QueueNext ==
  \/ \E r \in Records : Enqueue(r)
  \/ \E n \in 0..Capacity : Dequeue(n)
  \/ Flush
  \/ Close

QueueSpec == QueueInit /\ [][QueueNext]_queueVars
=============================================================================
