------------------------------- MODULE LogQueue -------------------------------
(***************************************************************************)
(* The queue of sdk/log/batch.go on the ring of sdk/log/ring.go: Capacity  *)
(* ring elements in a circle, a read and a write pointer (element numbers  *)
(* here) that meet both when the queue is empty and when it is full, and   *)
(* len to tell which.                                                      *)
(***************************************************************************)
EXTENDS Integers

CONSTANTS
  Records,   (* the log records                                            *)
  NoRecord,  (* logdata.Record{}                                           *)
  Capacity   (* queue.cap                                                  *)

ASSUME RingAssumption == Capacity \in Nat \ {0} /\ NoRecord \notin Records

VARIABLES
  value,     (* the Value of each ring element                             *)
  read,      (* queue.read                                                 *)
  write,     (* queue.write                                                *)
  size,      (* queue.len                                                  *)
  closed     (* queue.closed; the counter of dropped records, kept for     *)
             (* logging, is left out                                       *)

ringVars == <<value, read, write, size, closed>>

Slots == 0..Capacity - 1

(* r.Next(): newRing links the last element to the first.                  *)
Succ(p) == (p + 1) % Capacity

RingInit ==
  /\ value = [p \in Slots |-> NoRecord]
  /\ read = 0 /\ write = 0 /\ size = 0
  /\ closed = FALSE

ReadAfter(full) == IF full THEN Succ(read) ELSE read

LenAfter(full) == IF full THEN Capacity ELSE size + 1

Accepting_Always == TRUE
Accepting == ~closed

Enqueue(r) ==
  LET full == size = Capacity IN
  /\ Accepting
  /\ value' = [value EXCEPT ![write] = r]
  /\ write' = Succ(write)
  /\ size' = LenAfter(full)
  /\ read' = ReadAfter(full)
  /\ UNCHANGED closed

(* The k elements from read on, which Dequeue and Flush clear.             *)
Used(k) == {(read + i) % Capacity : i \in 0..k - 1}

Cleared(k) == [p \in Slots |-> IF p \in Used(k) THEN NoRecord ELSE value[p]]

Take(k) ==
  /\ value' = Cleared(k)
  /\ read' = (read + k) % Capacity
  /\ size' = size - k
  /\ UNCHANGED <<write, closed>>

Dequeue(n) == Take(IF n < size THEN n ELSE size)

Flush == Take(size)

Close == closed' = TRUE /\ UNCHANGED <<value, read, write, size>>

RingNext ==
  \/ \E r \in Records : Enqueue(r)
  \/ \E n \in 0..Capacity : Dequeue(n)
  \/ Flush
  \/ Close

RingSpec == RingInit /\ [][RingNext]_ringVars

-----------------------------------------------------------------------------
(* The records held, oldest first.                                         *)
Held == [i \in 1..size |-> value[(read + i - 1) % Capacity]]

RingTypeOK ==
  /\ value \in [Slots -> Records \union {NoRecord}]
  /\ read \in Slots /\ write \in Slots /\ size \in 0..Capacity
  /\ closed \in BOOLEAN

(* The pointers stay len elements apart, through wrap-around and overflow, *)
(* and exactly the elements between them hold records: no record is kept   *)
(* from the garbage collector after it has left the queue.                 *)
RingShape ==
  /\ RingTypeOK
  /\ write = (read + size) % Capacity
  /\ \A p \in Slots : value[p] # NoRecord <=> p \in Used(size)

(* The ring implements the bounded queue that overwrites its oldest        *)
(* record, and keeps its shape.                                            *)
Abstract == INSTANCE OverwritingQueue WITH items <- Held, sealed <- closed
ImplementsQueue == Abstract!QueueSpec /\ []RingShape
=============================================================================
