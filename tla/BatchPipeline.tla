---------------------------- MODULE BatchPipeline ----------------------------
(***************************************************************************)
(* What a batching processor promises, whatever its goroutines do: the     *)
(* items it accepts are handed to the exporter at most once each, in the   *)
(* order of acceptance and in batches of at most MaxBatch, one call of the *)
(* exporter for each batch, and none after the exporter is shut down.  A   *)
(* processor that is not Lossy hands over all of them.                     *)
(***************************************************************************)
EXTENDS Naturals, SequencesExt

CONSTANTS
  Items,    (* what the application may hand to the processor              *)
  MaxBatch, (* the most items in one call of the exporter                  *)
  Lossy     (* the processor may drop items it has accepted                *)

VARIABLES
  pending,    (* accepted and not yet handed to the exporter               *)
  attempted,  (* handed to the exporter                                    *)
  down        (* the exporter is shut down                                 *)

vars == <<pending, attempted, down>>

Init == pending = <<>> /\ attempted = <<>> /\ down = FALSE

Accept(x) ==
  /\ x \notin ToSet(pending) \union ToSet(attempted)
  /\ pending' = Append(pending, x)
  /\ UNCHANGED <<attempted, down>>

(* One call of the exporter, with the k oldest pending items.              *)
Attempt(k) ==
  /\ ~down
  /\ k <= Len(pending)
  /\ attempted' = attempted \o SubSeq(pending, 1, k)
  /\ pending' = SubSeq(pending, k + 1, Len(pending))
  /\ UNCHANGED down

(* A full queue drops an item to accept another.                           *)
Displace(i, x) ==
  /\ Lossy
  /\ x \notin ToSet(pending) \union ToSet(attempted)
  /\ pending' = Append(RemoveAt(pending, i), x)
  /\ UNCHANGED <<attempted, down>>

(* The k oldest items are given up.                                        *)
Discard(k) ==
  /\ Lossy
  /\ k <= Len(pending)
  /\ pending' = SubSeq(pending, k + 1, Len(pending))
  /\ UNCHANGED <<attempted, down>>

ShutDown == ~down /\ down' = TRUE /\ UNCHANGED <<pending, attempted>>

Next ==
  \/ \E x \in Items : Accept(x)
  \/ \E k \in 1..MaxBatch : Attempt(k)
  \/ \E i \in DOMAIN pending, x \in Items : Displace(i, x)
  \/ \E k \in DOMAIN pending : Discard(k)
  \/ ShutDown

Spec == Init /\ [][Next]_vars
=============================================================================
