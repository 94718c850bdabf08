----------------------- MODULE LogBatchProcessorProofs -----------------------
(***************************************************************************)
(* Proofs about LogBatchProcessor, for every set of records and of calls   *)
(* and for every capacity and batch size.                                  *)
(***************************************************************************)
EXTENDS LogBatchProcessor, SharedLemmas

USE CapacityPositive, CallsAssumption, BatchSizeNatural DEF Calls

-----------------------------------------------------------------------------
(* What the steps that move records do to the sequences.                   *)

(* Enqueueing takes off the record that is displaced, if any, and appends  *)
(* the new one.                                                            *)
LEMMA EnqueueItems ==
  ASSUME NEW r \in Records, TypeOK, Enqueue(r), r \notin ToSet(items), IsInjective(items)
  PROVE  /\ items' \in Seq(Records) /\ Len(items') <= Capacity /\ IsInjective(items')
         /\ ToSet(Displaced) \subseteq ToSet(items)
         /\ ToSet(items') = (ToSet(items) \ ToSet(Displaced)) \union {r}
         /\ Len(items') > Len(items) \/ Len(items') = Capacity
<1> DEFINE d == Len(Displaced)
           rest == SubSeq(items, d + 1, Len(items))
           new == <<r>>
<1>1. items \in Seq(Records) /\ Len(items) <= Capacity /\ Len(items) \in Nat
  BY DEF TypeOK
<1>2. d \in 0..Len(items) /\ Displaced = SubSeq(items, 1, d) /\ (d = 0 \/ Len(items) = Capacity)
      /\ (Len(items) = Capacity => d = 1)
  <2>1. CASE Len(items) = Capacity
    <3>1. Displaced = <<items[1]>> /\ d = 1  BY <2>1, <1>1 DEF Displaced
    <3>2. SubSeq(items, 1, 1) = <<items[1]>>
      <4>1. 1 \in 1..Len(items)  BY <1>1, <2>1
      <4>2. SubSeq(items, 1, 0) = <<>>  BY SubSeqEmpty
      <4>3. SubSeq(items, 1, 1) = SubSeq(items, 1, 1 - 1) \o <<items[1]>>
        BY <1>1, <4>1, SubSeqRecursiveSecond
      <4>4. <<items[1]>> \in Seq(Records)  BY <1>1, <4>1
      <4>5. <<>> \o <<items[1]>> = <<items[1]>>  BY <4>4, ConcatEmptySeq
      <4>6. 1 - 1 = 0  OBVIOUS
      <4>7. QED  BY <4>2, <4>3, <4>5, <4>6
    <3>3. QED  BY <2>1, <3>1, <3>2
  <2>2. CASE Len(items) # Capacity  BY <2>2, <1>1 DEF Displaced
  <2>3. QED  BY <2>1, <2>2
<1>3. items' = rest \o new  BY DEF Enqueue
<1> HIDE DEF d
<1>4. Splits(Records, items, d, Displaced, rest)  BY <1>1, <1>2, FrontAndRest
<1> HIDE DEF rest
<1>5. new \in Seq(Records) /\ Len(new) = 1 /\ ToSet(new) = {r} /\ IsInjective(new)
  BY DEF ToSet, IsInjective
<1> HIDE DEF new
<1>6. items' \in Seq(Records) /\ Len(items') = Len(rest) + 1
      /\ ToSet(items') = ToSet(rest) \union {r} /\ IsInjective(items')
  <2>1. rest \in Seq(Records) /\ IsInjective(rest) /\ ToSet(rest) \intersect {r} = {}
    BY <1>4 DEF Splits
  <2>2. rest \o new \in Seq(Records) /\ Len(rest \o new) = Len(rest) + Len(new)
    BY <1>5, <2>1, ConcatProperties
  <2>3. ToSet(rest \o new) = ToSet(rest) \union ToSet(new)  BY <1>5, <2>1, ConcatElements
  <2>4. IsInjective(rest \o new)  BY <1>5, <2>1, ConcatInjective
  <2>5. QED  BY <1>3, <1>5, <2>2, <2>3, <2>4
<1>7. Len(rest) = Len(items) - d  BY <1>4 DEF Splits
<1>8. Len(items') <= Capacity /\ (Len(items') > Len(items) \/ Len(items') = Capacity)
  BY <1>1, <1>2, <1>6, <1>7
<1>9. ToSet(Displaced) \subseteq ToSet(items) /\ ToSet(rest) = ToSet(items) \ ToSet(Displaced)
  BY <1>4 DEF Splits
<1>10. QED  BY <1>6, <1>8, <1>9

(* Dequeueing takes the oldest records; Taken(n) has none only if nothing  *)
(* is asked for or there is nothing.                                       *)
LEMMA DequeueItems ==
  ASSUME NEW n \in Nat, TypeOK, Dequeue(n)
  PROVE  /\ Splits(Records, items, Len(Taken(n)), Taken(n), items')
         /\ Len(Taken(n)) \in 0..Len(items)
         /\ n # 0 /\ Taken(n) = <<>> => items' = <<>>
<1> DEFINE k == IF n < Len(items) THEN n ELSE Len(items)
<1>1. items \in Seq(Records) /\ Len(items) \in Nat  BY DEF TypeOK
<1>2. k \in 0..Len(items)  BY <1>1
<1>3. Taken(n) = SubSeq(items, 1, k)  BY DEF Taken
<1>4. n # 0 /\ k = 0 => Len(items) = 0  BY <1>1
<1> HIDE DEF k
<1>5. Splits(Records, items, k, Taken(n), SubSeq(items, k + 1, Len(items)))
  BY <1>1, <1>2, <1>3, FrontAndRest
<1>6. Len(Taken(n)) = k  BY <1>5 DEF Splits
<1>7. Splits(Records, items, k, Taken(n), items')  BY <1>5, <1>6 DEF Dequeue
<1>8. items' \in Seq(Records) /\ Len(items') = Len(items) - k  BY <1>7 DEF Splits
<1>9. Taken(n) = <<>> => k = 0  BY <1>6
<1>10. n # 0 /\ Taken(n) = <<>> => items' = <<>>
  <2>1. SUFFICES ASSUME n # 0, Taken(n) = <<>> PROVE items' = <<>>  OBVIOUS
  <2>2. Len(items') = 0  BY <1>1, <1>2, <1>4, <1>8, <1>9, <2>1
  <2>3. QED  BY <1>8, <2>2, EmptySeq
<1>11. QED  BY <1>2, <1>6, <1>7, <1>10

(* A call of the exporter takes the oldest of the records in hand.         *)
LEMMA ChunkWork ==
  ASSUME TypeOK, ChunkCall
  PROVE  /\ Splits(Records, work, Len(Chunk), Chunk, work')
         /\ Len(Chunk) \in 1..Len(work) /\ (BatchSize # 0 => Len(Chunk) <= BatchSize)
<1> DEFINE k == IF BatchSize = 0 \/ Len(work) < BatchSize THEN Len(work) ELSE BatchSize
<1>1. work \in Seq(Records) /\ Len(work) \in Nat /\ work # <<>>
  BY DEF TypeOK, ChunkCall, ChunksOut
<1>2. Len(work) # 0  BY <1>1, EmptySeq
<1>3. k \in 1..Len(work) /\ k \in 0..Len(work) /\ (BatchSize # 0 => k <= BatchSize)
  BY <1>1, <1>2
<1>4. Chunk = SubSeq(work, 1, k)
  <2>1. SubSeq(work, 1, Len(work)) = work  BY <1>1, SubSeqFull
  <2>2. QED  BY <2>1 DEF Chunk
<1> HIDE DEF k
<1>5. Splits(Records, work, k, Chunk, SubSeq(work, k + 1, Len(work)))
  BY <1>1, <1>3, <1>4, FrontAndRest
<1>6. Len(Chunk) = k  BY <1>5 DEF Splits
<1>7. work' = SubSeq(work, k + 1, Len(work))  BY <1>6 DEF ChunkCall
<1>8. QED  BY <1>3, <1>5, <1>6, <1>7

-----------------------------------------------------------------------------
(* The inductive invariant: one lemma for each action, one step for each   *)
(* conjunct.                                                               *)

LEMMA InitIInv == Init => IInv
<1> SUFFICES ASSUME Init PROVE IInv
  OBVIOUS
<1> USE DEF Init, QueueInit
<1>1. ToSet(<<>>) = {} /\ IsInjective(<<>>)  BY DEF ToSet, IsInjective
<1>2. TypeOK
  <2>1. /\ items \in Seq(Records) /\ Len(items) <= Capacity
        /\ work \in Seq(Records) /\ attempted \in Seq(Records)
    OBVIOUS
  <2>2. worker \in WorkerPhases  BY DEF WorkerPhases
  <2>3. emit \in [Records -> EmitPhases]  BY DEF EmitPhases
  <2>4. flush \in [Flushers -> FlushPhases] /\ closer \in [Closers -> CloserPhases]
    BY DEF FlushPhases, CloserPhases
  <2>5. /\ resp \in [Calls -> {"none", "ok", "failed"}]
        /\ lost \in [Records -> {"no", "full"} \union Calls]
        /\ before \in [Calls -> SUBSET Records]
    OBVIOUS
  <2>6. QED  BY <2>1, <2>2, <2>3, <2>4, <2>5 DEF TypeOK
<1>3. OnePlace  BY <1>1 DEF OnePlace, Accepted, Lost
<1>4. WorkerServes /\ ShutdownSeals /\ ServedOnce
  BY DEF WorkerServes, ShutdownSeals, ServedOnce
<1>5. RequestCovers  BY DEF RequestCovers, Covered
<1>6. SignalComing  BY DEF SignalComing
<1>7. QED  BY <1>2, <1>3, <1>4, <1>5, <1>6 DEF IInv

(* OnEmit reads stopped.                                                  *)
LEMMA EmitCheckIInv ==
  ASSUME NEW r \in Records, IInv, EmitCheck(r)
  PROVE  IInv'
<1> USE DEF IInv, queueVars, requestVars, chunkVars, exportVars
<1>1. TypeOK'  BY DEF EmitCheck, TypeOK, WorkerPhases, EmitPhases, FlushPhases, CloserPhases
<1>2. OnePlace'
  <2>1. Accepted' = Accepted /\ UNCHANGED <<items, work, attempted, lost>>
    BY DEF Accepted, EmitCheck, TypeOK
  <2>2. QED  BY <2>1 DEF OnePlace, Lost, IsInjective
<1>3. WorkerServes'  BY DEF EmitCheck, TypeOK, WorkerServes
<1>4. ShutdownSeals'  BY DEF EmitCheck, TypeOK, WorkerServes, ShutdownSeals
<1>5. ServedOnce'  BY DEF EmitCheck, TypeOK, WorkerServes, ShutdownSeals, ServedOnce
<1>6. RequestCovers'
  BY DEF EmitCheck, TypeOK, WorkerServes, ServedOnce, RequestCovers, Accepted, Covered
<1>7. SignalComing'  BY DEF EmitCheck, TypeOK, WorkerServes, SignalComing
<1>8. QED  BY <1>1, <1>2, <1>3, <1>4, <1>5, <1>6, <1>7

(* OnEmit fills exportTrigger.                                            *)
LEMMA EmitSignalIInv ==
  ASSUME NEW r \in Records, IInv, EmitSignal(r)
  PROVE  IInv'
<1> USE DEF IInv, queueVars, requestVars, chunkVars, exportVars
<1>1. TypeOK'
  BY DEF EmitSignal, TypeOK, WorkerPhases, EmitPhases, FlushPhases, CloserPhases
<1>2. OnePlace'
  <2>1. Accepted' = Accepted /\ UNCHANGED <<items, work, attempted, lost>>
    BY DEF Accepted, EmitSignal, TypeOK
  <2>2. QED  BY <2>1 DEF OnePlace, Lost, IsInjective
<1>3. WorkerServes'  BY DEF EmitSignal, TypeOK, WorkerServes
<1>4. ShutdownSeals'  BY DEF EmitSignal, TypeOK, WorkerServes, ShutdownSeals
<1>5. ServedOnce'  BY DEF EmitSignal, TypeOK, WorkerServes, ShutdownSeals, ServedOnce
<1>6. RequestCovers'
  BY DEF EmitSignal, TypeOK, WorkerServes, ServedOnce, RequestCovers, Accepted, Covered
<1>7. SignalComing'  BY DEF EmitSignal, TypeOK, WorkerServes, SignalComing
<1>8. QED  BY <1>1, <1>2, <1>3, <1>4, <1>5, <1>6, <1>7

(* OnEmit puts the record in the queue, where the oldest makes room for it *)
(* if need be, or is refused.                                              *)
LEMMA EmitEnqueueIInv ==
  ASSUME NEW r \in Records, IInv, EmitEnqueue(r)
  PROVE  IInv'
<1> USE DEF IInv, queueVars, requestVars, chunkVars, exportVars
<1>0. /\ UNCHANGED <<stopped, trigger, mailbox, done, timer, worker, request, work, more,
                     failed, flush, closer, resp, before, ctxDone, attempted>>
      /\ r \notin Accepted /\ emit[r] = "checked"
  BY DEF EmitEnqueue, Accepted
<1>1. CASE EnqueueRefused /\ emit' = [emit EXCEPT ![r] = "refused"] /\ UNCHANGED lost
  <2>1. Accepted' = Accepted /\ UNCHANGED <<items, sealed>>
    BY <1>0, <1>1 DEF EnqueueRefused, Accepted, TypeOK
  <2>2. TypeOK'  BY <1>0, <1>1, <2>1 DEF TypeOK, EmitPhases
  <2>3. OnePlace'  BY <1>0, <1>1, <2>1 DEF OnePlace, Lost, IsInjective
  <2>4. WorkerServes' /\ ShutdownSeals' /\ ServedOnce'
    BY <1>0, <2>1 DEF WorkerServes, ShutdownSeals, ServedOnce
  <2>5. RequestCovers'  BY <1>0, <1>1, <2>1 DEF RequestCovers, Covered
  <2>6. SignalComing'  BY <1>0, <1>1, <2>1 DEF SignalComing, TypeOK
  <2>7. QED  BY <2>2, <2>3, <2>4, <2>5, <2>6
<1>2. CASE /\ Enqueue(r) /\ lost' = LostTo(Displaced, "full")
           /\ emit' = [emit EXCEPT ![r] = IF Signals(Len(items')) THEN "trigger" ELSE "accepted"]
  <2>1. r \notin ToSet(items) \union ToSet(work) \union ToSet(attempted) \union Lost
    BY <1>0 DEF OnePlace
  <2>2. IsInjective(items)  BY DEF OnePlace
  <2>3. /\ items' \in Seq(Records) /\ Len(items') <= Capacity /\ IsInjective(items')
        /\ ToSet(Displaced) \subseteq ToSet(items)
        /\ ToSet(items') = (ToSet(items) \ ToSet(Displaced)) \union {r}
        /\ Len(items') > Len(items) \/ Len(items') = Capacity
    BY <1>2, <2>1, <2>2, EnqueueItems
  <2>4. ~sealed /\ ~sealed'  BY <1>2 DEF Enqueue
  <2>5. Accepted' = Accepted \union {r}  BY <1>0, <1>2 DEF Accepted, TypeOK
  <2>6. /\ \A x \in Records : lost'[x] = IF x \in ToSet(Displaced) THEN "full" ELSE lost[x]
        /\ lost' \in [Records -> {"no", "full"} \union Calls]
    BY <1>2 DEF LostTo, TypeOK
  <2>7. ToSet(Displaced) \subseteq Records
    BY <2>3 DEF OnePlace, Accepted
  <2>8. Lost' = Lost \union ToSet(Displaced)  BY <2>6, <2>7 DEF Lost
  <2>9. TypeOK'
    <3>1. emit' \in [Records -> EmitPhases]  BY <1>2 DEF TypeOK, EmitPhases
    <3>2. sealed' \in BOOLEAN  BY <1>2 DEF Enqueue, TypeOK
    <3>3. QED  BY <1>0, <2>3, <2>6, <3>1, <3>2 DEF TypeOK
  <2>10. OnePlace'
    <3>1. UNCHANGED <<work, attempted>>  BY <1>0
    <3>2. QED  BY <2>1, <2>3, <2>5, <2>8, <3>1 DEF OnePlace
  <2>11. WorkerServes' /\ ShutdownSeals' /\ ServedOnce'
    BY <1>0, <2>4 DEF WorkerServes, ShutdownSeals, ServedOnce
  <2>12. RequestCovers'
    <3>1. \A x \in Calls : before[x] \subseteq Accepted /\ r \notin before[x]
      BY <1>0 DEF RequestCovers
    <3>2. ASSUME NEW x \in Calls, Covered(x) PROVE Covered(x)'
      BY <1>0, <2>6, <3>1, <3>2 DEF Covered, Accepted
    <3>3. \A x \in Records : lost'[x] \in Calls => lost[x] = lost'[x]  BY <2>6
    <3>4. QED  BY <1>0, <2>3, <2>5, <3>1, <3>2, <3>3 DEF RequestCovers
  <2>13. SignalComing'
    BY <1>2 DEF SignalComing, Signals, TypeOK
  <2>14. QED  BY <2>9, <2>10, <2>11, <2>12, <2>13
<1>3. QED  BY <1>1, <1>2 DEF EmitEnqueue

(* The worker takes the request of a Shutdown.                            *)
LEMMA ServeShutdownIInv ==
  ASSUME IInv, ServeShutdown
  PROVE  IInv'
<1> USE DEF IInv, queueVars, requestVars, chunkVars, exportVars
<1>1. TypeOK'
  BY DEF ServeShutdown, Serve, TypeOK, WorkerPhases, EmitPhases, FlushPhases, CloserPhases
<1>2. OnePlace'
  <2>1. Accepted' = Accepted /\ UNCHANGED <<items, work, attempted, lost>>
    BY DEF Accepted, ServeShutdown, Serve, TypeOK
  <2>2. QED  BY <2>1 DEF OnePlace, Lost, IsInjective
<1>3. WorkerServes'  BY DEF ServeShutdown, Serve, TypeOK, WorkerServes
<1>4. ShutdownSeals'
  <2>1. PICK c \in mailbox : c \in Closers /\ request' = c
    BY DEF ServeShutdown, Serve, TypeOK
  <2>2. sealed /\ worker' = "flush" /\ ~done
    BY <2>1 DEF ServeShutdown, Serve, TypeOK, ShutdownSeals, ServedOnce
  <2>3. UNCHANGED <<items, sealed, closer, done, resp>>  BY DEF ServeShutdown, Serve
  <2>4. QED  BY <2>1, <2>2, <2>3 DEF ShutdownSeals
<1>5. ServedOnce'
  BY DEF ServeShutdown, Serve, TypeOK, WorkerServes, ShutdownSeals, ServedOnce
<1>6. RequestCovers'
  BY DEF ServeShutdown, Serve, TypeOK, WorkerServes, ServedOnce,
         RequestCovers, Accepted, Covered
<1>7. SignalComing'  BY DEF ServeShutdown, Serve, TypeOK, WorkerServes, SignalComing
<1>8. QED  BY <1>1, <1>2, <1>3, <1>4, <1>5, <1>6, <1>7

(* The worker takes the request of a ForceFlush.                          *)
LEMMA ServeFlushIInv ==
  ASSUME NEW f \in Flushers, IInv, ServeFlush(f)
  PROVE  IInv'
<1> USE DEF IInv, queueVars, requestVars, chunkVars, exportVars
<1>1. TypeOK'
  BY DEF ServeFlush, Serve, TypeOK, WorkerPhases, EmitPhases, FlushPhases, CloserPhases
<1>2. OnePlace'
  <2>1. Accepted' = Accepted /\ UNCHANGED <<items, work, attempted, lost>>
    BY DEF Accepted, ServeFlush, Serve, TypeOK
  <2>2. QED  BY <2>1 DEF OnePlace, Lost, IsInjective
<1>3. WorkerServes'  BY DEF ServeFlush, Serve, TypeOK, WorkerServes
<1>4. ShutdownSeals'  BY DEF ServeFlush, Serve, TypeOK, WorkerServes, ShutdownSeals
<1>5. ServedOnce'  BY DEF ServeFlush, Serve, TypeOK, WorkerServes, ShutdownSeals, ServedOnce
<1>6. RequestCovers'
  BY DEF ServeFlush, Serve, TypeOK, WorkerServes, ServedOnce,
         RequestCovers, Accepted, Covered
<1>7. SignalComing'  BY DEF ServeFlush, Serve, TypeOK, WorkerServes, SignalComing
<1>8. QED  BY <1>1, <1>2, <1>3, <1>4, <1>5, <1>6, <1>7

(* The worker finds no request in a probe or a poll.                      *)
LEMMA NothingWaitingIInv ==
  ASSUME IInv, NothingWaiting
  PROVE  IInv'
<1> USE DEF IInv, queueVars, requestVars, chunkVars, exportVars
<1>1. TypeOK'
  BY DEF NothingWaiting, Serve, TypeOK, WorkerPhases, EmitPhases, FlushPhases, CloserPhases
<1>2. OnePlace'
  <2>1. Accepted' = Accepted /\ UNCHANGED <<items, work, attempted, lost>>
    BY DEF Accepted, NothingWaiting, Serve, TypeOK
  <2>2. QED  BY <2>1 DEF OnePlace, Lost, IsInjective
<1>3. WorkerServes'  BY DEF NothingWaiting, Serve, TypeOK, WorkerServes
<1>4. ShutdownSeals'  BY DEF NothingWaiting, Serve, TypeOK, WorkerServes, ShutdownSeals
<1>5. ServedOnce'
  BY DEF NothingWaiting, Serve, TypeOK, WorkerServes, ShutdownSeals, ServedOnce
<1>6. RequestCovers'
  BY DEF NothingWaiting, Serve, TypeOK, WorkerServes, ServedOnce,
         RequestCovers, Accepted, Covered
<1>7. SignalComing'  BY DEF NothingWaiting, Serve, TypeOK, WorkerServes, SignalComing
<1>8. QED  BY <1>1, <1>2, <1>3, <1>4, <1>5, <1>6, <1>7

(* The timer or the signal wakes the worker.                              *)
LEMMA WakeIInv ==
  ASSUME IInv, Wake
  PROVE  IInv'
<1> USE DEF IInv, queueVars, requestVars, chunkVars, exportVars
<1>1. TypeOK'
  BY DEF Wake, Serve, ResetTimer, TypeOK, WorkerPhases,
         EmitPhases, FlushPhases, CloserPhases
<1>2. OnePlace'
  <2>1. Accepted' = Accepted /\ UNCHANGED <<items, work, attempted, lost>>
    BY DEF Accepted, Wake, Serve, ResetTimer, TypeOK
  <2>2. QED  BY <2>1 DEF OnePlace, Lost, IsInjective
<1>3. WorkerServes'  BY DEF Wake, Serve, ResetTimer, TypeOK, WorkerServes
<1>4. ShutdownSeals'  BY DEF Wake, Serve, ResetTimer, TypeOK, WorkerServes, ShutdownSeals
<1>5. ServedOnce'
  BY DEF Wake, Serve, ResetTimer, TypeOK, WorkerServes, ShutdownSeals, ServedOnce
<1>6. RequestCovers'
  BY DEF Wake, Serve, ResetTimer, TypeOK, WorkerServes,
         ServedOnce, RequestCovers, Accepted, Covered
<1>7. SignalComing'  BY DEF Wake, Serve, ResetTimer, TypeOK, WorkerServes, SignalComing
<1>8. QED  BY <1>1, <1>2, <1>3, <1>4, <1>5, <1>6, <1>7

(* exportBatch takes a batch, and finds out whether another one is ready.  *)
LEMMA ExportBatchIInv ==
  ASSUME IInv, ExportBatch
  PROVE  IInv'
<1> USE DEF IInv, queueVars, requestVars, chunkVars, exportVars
<1>0. /\ UNCHANGED <<sealed, stopped, trigger, mailbox, done, timer, request, failed, emit,
                     flush, closer, resp, before, ctxDone, attempted, lost>>
      /\ worker = "dequeue" /\ request = Nobody /\ work = <<>>
      /\ worker' = IF work' = <<>> THEN "probe" ELSE "chunk"
  BY DEF ExportBatch, Dequeue, WorkerServes
<1>1. /\ Splits(Records, items, Len(work'), work', items')
      /\ Len(work') \in 0..Len(items)
      /\ BatchSize # 0 /\ work' = <<>> => items' = <<>>
  BY DequeueItems DEF ExportBatch
<1>2. /\ work' \in Seq(Records) /\ items' \in Seq(Records) /\ Len(items') <= Len(items)
      /\ Len(work') <= Capacity
  BY <1>1 DEF Splits, TypeOK
<1>3. TypeOK'
  <2>1. worker' \in WorkerPhases /\ more' \in BOOLEAN
    BY <1>0 DEF ExportBatch, WorkerPhases
  <2>2. QED  BY <1>0, <1>2, <2>1 DEF TypeOK
<1>4. OnePlace'
  <2>1. ToSet(work) = {}  BY <1>0 DEF ToSet
  <2>2. /\ ToSet(items) = ToSet(work') \union ToSet(items')
        /\ ToSet(work') \intersect ToSet(items') = {}
        /\ IsInjective(work') /\ IsInjective(items')
    BY <1>1 DEF Splits, OnePlace
  <2>3. Accepted' = Accepted /\ Lost' = Lost  BY <1>0 DEF Accepted, Lost
  <2>4. attempted' = attempted  BY <1>0
  <2>5. QED  BY <2>1, <2>2, <2>3, <2>4 DEF OnePlace
<1>5. WorkerServes'  BY <1>0, <1>2 DEF WorkerServes, ExportBatch
<1>6. ShutdownSeals'  BY <1>0 DEF ShutdownSeals
<1>7. ServedOnce'  BY <1>0 DEF ServedOnce
<1>8. RequestCovers'  BY <1>0 DEF RequestCovers, Covered, Accepted
<1>9. SignalComing'
  <2>1. SUFFICES ASSUME BatchSize # 0, Len(items') >= BatchSize PROVE more'
    BY DEF SignalComing
  <2>2. work' # <<>>  BY <1>1, <2>1
  <2>3. QED  BY <2>1, <2>2 DEF ExportBatch, Retrigger
<1>10. QED  BY <1>3, <1>4, <1>5, <1>6, <1>7, <1>8, <1>9

(* A request takes the whole queue, unless its context is already done.    *)
LEMMA FlushQueueIInv ==
  ASSUME IInv, FlushQueue
  PROVE  IInv'
<1> USE DEF IInv, queueVars, requestVars, chunkVars, exportVars
<1>0. /\ UNCHANGED <<sealed, stopped, trigger, mailbox, done, timer, request, more, emit,
                     flush, closer, resp, before, ctxDone, attempted, lost>>
      /\ worker = "flush" /\ work = <<>> /\ ~more /\ request \in Calls
  BY DEF FlushQueue, Flush, WorkerServes
<1>1. ToSet(<<>>) = {} /\ IsInjective(<<>>) /\ <<>> \in Seq(Records) /\ Len(<<>>) = 0
  BY DEF ToSet, IsInjective
<1>2. CASE /\ GivesUp /\ failed' = TRUE /\ worker' = "respond" /\ UNCHANGED <<items, work>>
  <2>1. request \in Flushers /\ request \notin Closers  BY <1>2 DEF GivesUp
  <2>2. TypeOK'  BY <1>0, <1>2 DEF TypeOK, WorkerPhases
  <2>3. OnePlace'  BY <1>0, <1>2 DEF OnePlace, Accepted, Lost, IsInjective
  <2>4. WorkerServes' /\ ServedOnce'  BY <1>0, <1>2 DEF WorkerServes, ServedOnce
  <2>5. ShutdownSeals'  BY <1>0, <1>2, <2>1 DEF ShutdownSeals
  <2>6. RequestCovers'  BY <1>0, <1>2 DEF RequestCovers, Covered, Accepted
  <2>7. SignalComing'  BY <1>0, <1>2 DEF SignalComing
  <2>8. QED  BY <2>2, <2>3, <2>4, <2>5, <2>6, <2>7
<1>3. CASE /\ items' = <<>> /\ work' = items /\ worker' = "chunk" /\ UNCHANGED failed
  <2>1. TypeOK'  BY <1>0, <1>1, <1>3 DEF TypeOK, WorkerPhases
  <2>2. OnePlace'
    <3>1. Accepted' = Accepted /\ Lost' = Lost /\ attempted' = attempted
      BY <1>0 DEF Accepted, Lost
    <3>2. ToSet(items') = {} /\ ToSet(work') = ToSet(items) /\ ToSet(work) = {}
          /\ IsInjective(items') /\ IsInjective(work')
      BY <1>0, <1>1, <1>3 DEF OnePlace
    <3>3. QED  BY <3>1, <3>2 DEF OnePlace
  <2>3. WorkerServes' /\ ServedOnce'  BY <1>0, <1>3 DEF WorkerServes, ServedOnce, TypeOK
  <2>4. ShutdownSeals'  BY <1>0, <1>3 DEF ShutdownSeals
  <2>5. RequestCovers'
    <3>1. ToSet(items') = {}  BY <1>1, <1>3
    <3>2. QED  BY <1>0, <1>3, <3>1 DEF RequestCovers, Covered, Accepted
  <2>6. SignalComing'  BY <1>0, <1>1, <1>3 DEF SignalComing
  <2>7. QED  BY <2>1, <2>2, <2>3, <2>4, <2>5, <2>6
<1>4. QED  BY <1>2, <1>3 DEF FlushQueue, Flush

(* The exporter is called with the next chunk.                             *)
LEMMA ChunkCallIInv ==
  ASSUME IInv, ChunkCall
  PROVE  IInv'
<1> USE DEF IInv, queueVars, requestVars, chunkVars, exportVars
<1>0. /\ UNCHANGED <<items, sealed, stopped, trigger, mailbox, done, timer, request, more,
                     failed, emit, flush, closer, resp, before, ctxDone, lost>>
      /\ worker = "chunk" /\ worker' = "call" /\ attempted' = attempted \o Chunk
  BY DEF ChunkCall
<1>1. /\ Chunk \in Seq(Records) /\ work' \in Seq(Records) /\ Len(work') <= Len(work)
      /\ ToSet(work) = ToSet(Chunk) \union ToSet(work')
      /\ ToSet(Chunk) \intersect ToSet(work') = {}
      /\ IsInjective(Chunk) /\ IsInjective(work')
  <2>1. IsInjective(work)  BY DEF OnePlace
  <2>2. Splits(Records, work, Len(Chunk), Chunk, work') /\ Len(Chunk) \in 1..Len(work)
    BY ChunkWork
  <2>3. work \in Seq(Records) /\ Len(work) \in Nat  BY DEF TypeOK
  <2>4. QED  BY <2>1, <2>2, <2>3 DEF Splits
<1>2. /\ attempted' \in Seq(Records)
      /\ ToSet(attempted') = ToSet(attempted) \union ToSet(Chunk) /\ IsInjective(attempted')
  <2>1. attempted \in Seq(Records) /\ IsInjective(attempted)  BY DEF TypeOK, OnePlace
  <2>2. ToSet(attempted) \intersect ToSet(Chunk) = {}  BY <1>1 DEF OnePlace
  <2>3. /\ attempted \o Chunk \in Seq(Records)
        /\ ToSet(attempted \o Chunk) = ToSet(attempted) \union ToSet(Chunk)
    BY <1>1, <2>1, ConcatProperties, ConcatElements
  <2>4. IsInjective(attempted \o Chunk)  BY <1>1, <2>1, <2>2, ConcatInjective
  <2>5. QED  BY <1>0, <2>3, <2>4
<1>3. TypeOK'  BY <1>0, <1>1, <1>2 DEF TypeOK, WorkerPhases
<1>4. OnePlace'
  <2>1. Accepted' = Accepted /\ Lost' = Lost /\ items' = items  BY <1>0 DEF Accepted, Lost
  <2>2. QED  BY <1>1, <1>2, <2>1 DEF OnePlace
<1>5. WorkerServes'
  <2>1. Len(work) \in Nat /\ Len(work') \in Nat  BY <1>1 DEF TypeOK
  <2>2. QED  BY <1>0, <1>1, <2>1 DEF WorkerServes
<1>6. ShutdownSeals' /\ ServedOnce'  BY <1>0 DEF ShutdownSeals, ServedOnce
<1>7. RequestCovers'
  <2>1. ASSUME NEW x \in Calls, Covered(x) PROVE Covered(x)'
    BY <1>0, <1>2, <2>1 DEF Covered
  <2>2. QED  BY <1>0, <2>1 DEF RequestCovers, Accepted
<1>8. SignalComing'  BY <1>0 DEF SignalComing
<1>9. QED  BY <1>3, <1>4, <1>5, <1>6, <1>7, <1>8

(* The exporter returns.                                                  *)
LEMMA ChunkReturnIInv ==
  ASSUME IInv, ChunkReturn
  PROVE  IInv'
<1> USE DEF IInv, queueVars, requestVars, chunkVars, exportVars
<1>1. TypeOK'
  BY DEF ChunkReturn, TypeOK, WorkerPhases, EmitPhases, FlushPhases, CloserPhases
<1>2. OnePlace'
  <2>1. Accepted' = Accepted /\ UNCHANGED <<items, work, attempted, lost>>
    BY DEF Accepted, ChunkReturn, TypeOK
  <2>2. QED  BY <2>1 DEF OnePlace, Lost, IsInjective
<1>3. WorkerServes'  BY DEF ChunkReturn, TypeOK, WorkerServes
<1>4. ShutdownSeals'  BY DEF ChunkReturn, TypeOK, WorkerServes, ShutdownSeals
<1>5. ServedOnce'  BY DEF ChunkReturn, TypeOK, WorkerServes, ShutdownSeals, ServedOnce
<1>6. RequestCovers'
  BY DEF ChunkReturn, TypeOK, WorkerServes, ServedOnce, RequestCovers, Accepted, Covered
<1>7. SignalComing'  BY DEF ChunkReturn, TypeOK, WorkerServes, SignalComing
<1>8. QED  BY <1>1, <1>2, <1>3, <1>4, <1>5, <1>6, <1>7

(* A request whose context ended abandons what it took, and its caller     *)
(* will learn of it; a scheduled export abandons nothing.                  *)
LEMMA ChunksDoneIInv ==
  ASSUME IInv, ChunksDone
  PROVE  IInv'
<1> USE DEF IInv, queueVars, requestVars, chunkVars, exportVars
<1>0. /\ UNCHANGED <<items, sealed, stopped, mailbox, done, timer, request, emit,
                     flush, closer, resp, before, ctxDone, attempted>>
      /\ worker = "chunk" /\ lost' = LostTo(work, request) /\ work' = <<>> /\ ~more'
      /\ worker' = AfterChunks /\ failed' = (request # Nobody /\ Fails)
      /\ trigger' = (trigger \/ (request = Nobody /\ more))
  BY DEF ChunksDone
<1>1. work = <<>> \/ (request \in Calls /\ request \in ctxDone)
  <2>1. request \in ctxDone => request \in Calls  BY DEF TypeOK
  <2>2. ChunksOut \/ Interrupted  BY DEF ChunksDone
  <2>3. CASE ChunksOut  BY <2>3 DEF ChunksOut
  <2>4. CASE Interrupted  BY <2>1, <2>4 DEF Interrupted
  <2>5. QED  BY <2>2, <2>3, <2>4
<1>2. ToSet(<<>>) = {} /\ IsInjective(<<>>) /\ <<>> \in Seq(Records) /\ Len(<<>>) = 0
  BY DEF ToSet, IsInjective
<1>3. /\ lost' \in [Records -> {"no", "full"} \union Calls]
      /\ \A r \in Records : lost'[r] = IF r \in ToSet(work) THEN request ELSE lost[r]
      /\ \A r \in ToSet(work) : request \in Calls
  <2>1. \A r \in Records : r \in ToSet(work) => request \in Calls  BY <1>1, <1>2
  <2>2. \A r \in ToSet(work) : request \in Calls  BY <1>1, <1>2
  <2>3. QED  BY <1>0, <2>1, <2>2 DEF LostTo, TypeOK
<1>4. ToSet(work) \subseteq Records /\ ToSet(work) \intersect Lost = {}
  BY DEF OnePlace, Accepted
<1>5. request \in Calls => worker' \in {"stopping", "respond"}
  BY <1>0 DEF AfterChunks
<1>6. TypeOK'
  <2>1. worker' \in WorkerPhases  BY <1>0 DEF AfterChunks, WorkerPhases, TypeOK
  <2>2. failed' \in BOOLEAN /\ trigger' \in BOOLEAN  BY <1>0 DEF TypeOK
  <2>3. work' \in Seq(Records) /\ more' \in BOOLEAN
    <3>1. more' = FALSE  BY DEF ChunksDone
    <3>2. QED  BY <1>0, <1>2, <3>1
  <2>4. QED  BY <1>0, <1>3, <2>1, <2>2, <2>3 DEF TypeOK
<1>7. OnePlace'
  <2>1. Lost' = Lost \union ToSet(work)
    <3>1. \A r \in ToSet(work) : request # "no"  BY <1>1, <1>2
    <3>2. QED  BY <1>3, <1>4, <3>1 DEF Lost
  <2>2. Accepted' = Accepted /\ UNCHANGED <<items, attempted>>  BY <1>0 DEF Accepted
  <2>3. ToSet(work') = {} /\ IsInjective(work')  BY <1>0, <1>2
  <2>4. QED  BY <2>1, <2>2, <2>3 DEF OnePlace
<1>8. WorkerServes'
  BY <1>0, <1>2 DEF WorkerServes, AfterChunks, TypeOK
<1>9. ShutdownSeals' /\ ServedOnce'
  BY <1>0 DEF ShutdownSeals, ServedOnce, AfterChunks, TypeOK
<1>10. RequestCovers'
  <2>1. \A x \in Calls : before[x] \subseteq Accepted /\ before[x] \subseteq Records
    BY DEF RequestCovers, Accepted
  <2>2. ASSUME NEW x \in Calls, x # request, Covered(x) PROVE Covered(x)'
    <3>1. ASSUME NEW r \in before[x], r \notin ToSet(attempted) PROVE lost'[r] \notin {"no", x}
      BY <1>3, <2>1, <2>2, <3>1 DEF Covered
    <3>2. QED  BY <1>0, <3>1 DEF Covered
  <2>3. ASSUME request \in Calls, ~failed' PROVE Covered(request)'
    <3>1. work = <<>> /\ ToSet(work) = {}  BY <1>0, <1>1, <1>2, <2>3 DEF Fails
    <3>2. ASSUME NEW r \in before[request], r \notin ToSet(attempted)
          PROVE  lost'[r] \notin {"no", request}
      <4>1. r \in Records /\ r \in Lost
        BY <1>0, <2>1, <2>3, <3>1, <3>2 DEF RequestCovers, OnePlace
      <4>2. resp[request] = "none"  BY <2>3 DEF ServedOnce
      <4>3. lost[r] # request  BY <1>0, <2>3, <4>1, <4>2 DEF RequestCovers
      <4>4. QED  BY <1>3, <3>1, <4>1, <4>3 DEF Lost
    <3>3. QED  BY <1>0, <3>2 DEF Covered
  <2>4. ASSUME NEW x \in Calls, resp[x] = "ok" PROVE Covered(x)'
    BY <2>2, <2>4 DEF RequestCovers, ServedOnce
  <2>5. ASSUME NEW f \in Flushers, flush[f] = "aborted" PROVE Covered(f)'
    BY <2>2, <2>5 DEF RequestCovers, ServedOnce
  <2>6. ASSUME NEW r \in Records, lost'[r] \in Calls
        PROVE  /\ lost'[r] \in ctxDone
               /\ \/ resp[lost'[r]] = "failed"
                  \/ request = lost'[r] /\ worker' \in {"stopping", "respond"} /\ failed'
    <3>1. CASE r \in ToSet(work)
      <4>1. request \in Calls /\ request \in ctxDone  BY <1>1, <1>2, <3>1
      <4>2. QED  BY <1>0, <1>3, <1>5, <3>1, <4>1 DEF Fails
    <3>2. CASE r \notin ToSet(work)  BY <1>0, <1>3, <2>6, <3>2 DEF RequestCovers
    <3>3. QED  BY <3>1, <3>2
  <2>7. worker' \notin {"chunk", "call"}  BY <1>0 DEF AfterChunks, TypeOK
  <2>8. UNCHANGED <<before, request, resp, flush, ctxDone>> /\ Accepted' = Accepted
    BY <1>0 DEF Accepted
  <2>9. QED  BY <2>1, <2>3, <2>4, <2>5, <2>6, <2>7, <2>8 DEF RequestCovers
<1>11. SignalComing'
  BY <1>0 DEF SignalComing, WorkerServes
<1>12. QED  BY <1>6, <1>7, <1>8, <1>9, <1>10, <1>11

(* The worker closes done, after its exporter is shut down.               *)
LEMMA CloseDoneIInv ==
  ASSUME IInv, CloseDone
  PROVE  IInv'
<1> USE DEF IInv, queueVars, requestVars, chunkVars, exportVars
<1>1. TypeOK'  BY DEF CloseDone, TypeOK, WorkerPhases, EmitPhases, FlushPhases, CloserPhases
<1>2. OnePlace'
  <2>1. Accepted' = Accepted /\ UNCHANGED <<items, work, attempted, lost>>
    BY DEF Accepted, CloseDone, TypeOK
  <2>2. QED  BY <2>1 DEF OnePlace, Lost, IsInjective
<1>3. WorkerServes'  BY DEF CloseDone, TypeOK, WorkerServes
<1>4. ShutdownSeals'  BY DEF CloseDone, TypeOK, WorkerServes, ShutdownSeals
<1>5. ServedOnce'  BY DEF CloseDone, TypeOK, WorkerServes, ShutdownSeals, ServedOnce
<1>6. RequestCovers'
  BY DEF CloseDone, TypeOK, WorkerServes, ServedOnce, RequestCovers, Accepted, Covered
<1>7. SignalComing'  BY DEF CloseDone, TypeOK, WorkerServes, SignalComing
<1>8. QED  BY <1>1, <1>2, <1>3, <1>4, <1>5, <1>6, <1>7

(* The worker answers the request.                                        *)
LEMMA RespondIInv ==
  ASSUME IInv, Respond
  PROVE  IInv'
<1> USE DEF IInv, queueVars, requestVars, chunkVars, exportVars
<1>1. TypeOK'  BY DEF Respond, TypeOK, WorkerPhases, EmitPhases, FlushPhases, CloserPhases
<1>2. OnePlace'
  <2>1. Accepted' = Accepted /\ UNCHANGED <<items, work, attempted, lost>>
    BY DEF Accepted, Respond, TypeOK
  <2>2. QED  BY <2>1 DEF OnePlace, Lost, IsInjective
<1>3. WorkerServes'  BY DEF Respond, TypeOK, WorkerServes
<1>4. ShutdownSeals'  BY DEF Respond, TypeOK, WorkerServes, ShutdownSeals
<1>5. ServedOnce'  BY DEF Respond, TypeOK, WorkerServes, ShutdownSeals, ServedOnce
<1>6. RequestCovers'
  BY DEF Respond, TypeOK, WorkerServes, ServedOnce, RequestCovers, Accepted, Covered
<1>7. SignalComing'  BY DEF Respond, TypeOK, WorkerServes, SignalComing
<1>8. QED  BY <1>1, <1>2, <1>3, <1>4, <1>5, <1>6, <1>7

(* The timer fires.                                                       *)
LEMMA TimerFireIInv ==
  ASSUME IInv, TimerFire
  PROVE  IInv'
<1> USE DEF IInv, queueVars, requestVars, chunkVars, exportVars
<1>1. TypeOK'  BY DEF TimerFire, TypeOK, WorkerPhases, EmitPhases, FlushPhases, CloserPhases
<1>2. OnePlace'
  <2>1. Accepted' = Accepted /\ UNCHANGED <<items, work, attempted, lost>>
    BY DEF Accepted, TimerFire, TypeOK
  <2>2. QED  BY <2>1 DEF OnePlace, Lost, IsInjective
<1>3. WorkerServes'  BY DEF TimerFire, TypeOK, WorkerServes
<1>4. ShutdownSeals'  BY DEF TimerFire, TypeOK, WorkerServes, ShutdownSeals
<1>5. ServedOnce'  BY DEF TimerFire, TypeOK, WorkerServes, ShutdownSeals, ServedOnce
<1>6. RequestCovers'
  BY DEF TimerFire, TypeOK, WorkerServes, ServedOnce, RequestCovers, Accepted, Covered
<1>7. SignalComing'  BY DEF TimerFire, TypeOK, WorkerServes, SignalComing
<1>8. QED  BY <1>1, <1>2, <1>3, <1>4, <1>5, <1>6, <1>7

(* ForceFlush begins.                                                     *)
LEMMA FlushStartIInv ==
  ASSUME NEW f \in Flushers, IInv, FlushStart(f)
  PROVE  IInv'
<1> USE DEF IInv, queueVars, requestVars, chunkVars, exportVars
<1>1. TypeOK'
  <2>1. \E p \in FlushPhases : flush' = [flush EXCEPT ![f] = p]
    BY DEF FlushStart, FlushPhases
  <2>2. Accepted \subseteq Records  BY DEF Accepted
  <2>3. QED  BY <2>1, <2>2 DEF FlushStart, TypeOK
<1>2. OnePlace'
  <2>1. Accepted' = Accepted /\ UNCHANGED <<items, work, attempted, lost>>
    BY DEF Accepted, FlushStart, TypeOK
  <2>2. QED  BY <2>1 DEF OnePlace, Lost, IsInjective
<1>3. WorkerServes'  BY DEF FlushStart, TypeOK, WorkerServes
<1>4. ShutdownSeals'  BY DEF FlushStart, TypeOK, WorkerServes, ShutdownSeals
<1>5. ServedOnce'  BY DEF FlushStart, TypeOK, WorkerServes, ShutdownSeals, ServedOnce
<1>6. RequestCovers'
  BY DEF FlushStart, TypeOK, WorkerServes, ServedOnce, RequestCovers, Accepted, Covered
<1>7. SignalComing'  BY DEF FlushStart, TypeOK, WorkerServes, SignalComing
<1>8. QED  BY <1>1, <1>2, <1>3, <1>4, <1>5, <1>6, <1>7

(* A ForceFlush returns.                                                  *)
LEMMA FlushReturnIInv ==
  ASSUME NEW f \in Flushers, IInv, FlushReturn(f)
  PROVE  IInv'
<1> USE DEF IInv, queueVars, requestVars, chunkVars, exportVars
<1>1. TypeOK'
  BY DEF FlushReturn, FlushAbort, TypeOK, WorkerPhases,
         EmitPhases, FlushPhases, CloserPhases
<1>2. OnePlace'
  <2>1. Accepted' = Accepted /\ UNCHANGED <<items, work, attempted, lost>>
    BY DEF Accepted, FlushReturn, FlushAbort, TypeOK
  <2>2. QED  BY <2>1 DEF OnePlace, Lost, IsInjective
<1>3. WorkerServes'  BY DEF FlushReturn, FlushAbort, TypeOK, WorkerServes
<1>4. ShutdownSeals'  BY DEF FlushReturn, FlushAbort, TypeOK, WorkerServes, ShutdownSeals
<1>5. ServedOnce'
  BY DEF FlushReturn, FlushAbort, TypeOK, WorkerServes, ShutdownSeals, ServedOnce
<1>6. RequestCovers'
  <2>1. ASSUME FlushAbort(f) PROVE Covered(f)
    <3>1. /\ ToSet(items) = {} /\ ToSet(work) = {}
      BY <2>1 DEF FlushAbort, ShutdownSeals, WorkerServes, ToSet
    <3>2. f # request /\ resp[f] = "none"  BY <2>1 DEF FlushAbort, ServedOnce
    <3>3. ASSUME NEW r \in before[f], r \notin ToSet(attempted) PROVE lost[r] \notin {"no", f}
      <4>1. r \in Records /\ r \in Lost
        BY <3>1, <3>3 DEF OnePlace, RequestCovers, Accepted
      <4>2. QED  BY <3>2, <4>1 DEF Lost, RequestCovers
    <3>4. QED  BY <3>3 DEF Covered
  <2>2. UNCHANGED <<items, worker, request, failed, emit, resp, before, ctxDone, attempted, lost>>
    BY DEF FlushReturn
  <2>3. ASSUME NEW g \in Flushers, flush'[g] = "aborted" PROVE Covered(g)
    <3>1. CASE flush[g] = "aborted"  BY <3>1 DEF RequestCovers
    <3>2. CASE flush[g] # "aborted"
      <4>1. g = f  BY <2>3, <3>2 DEF FlushReturn, FlushAbort, TypeOK
      <4>2. resp[f] # "aborted"  BY DEF TypeOK
      <4>3. FlushAbort(f)  BY <2>3, <3>2, <4>1, <4>2 DEF FlushReturn, TypeOK
      <4>4. QED  BY <2>1, <4>1, <4>3
    <3>3. QED  BY <3>1, <3>2
  <2>4. \A x \in Calls : Covered(x)' = Covered(x)  BY <2>2 DEF Covered
  <2>5. QED  BY <2>2, <2>3, <2>4 DEF RequestCovers, Accepted
<1>7. SignalComing'  BY DEF FlushReturn, FlushAbort, TypeOK, WorkerServes, SignalComing
<1>8. QED  BY <1>1, <1>2, <1>3, <1>4, <1>5, <1>6, <1>7

(* Shutdown begins, and only the first goes on.                           *)
LEMMA ShutdownStartIInv ==
  ASSUME NEW c \in Closers, IInv, ShutdownStart(c)
  PROVE  IInv'
<1> USE DEF IInv, queueVars, requestVars, chunkVars, exportVars
<1>1. TypeOK'
  <2>1. \E p \in CloserPhases : closer' = [closer EXCEPT ![c] = p]
    BY DEF ShutdownStart, CloserPhases
  <2>2. Accepted \subseteq Records  BY DEF Accepted
  <2>3. QED  BY <2>1, <2>2 DEF ShutdownStart, TypeOK
<1>2. OnePlace'
  <2>1. Accepted' = Accepted /\ UNCHANGED <<items, work, attempted, lost>>
    BY DEF Accepted, ShutdownStart, TypeOK
  <2>2. QED  BY <2>1 DEF OnePlace, Lost, IsInjective
<1>3. WorkerServes'  BY DEF ShutdownStart, TypeOK, WorkerServes
<1>4. ShutdownSeals'  BY DEF ShutdownStart, TypeOK, WorkerServes, ShutdownSeals
<1>5. ServedOnce'  BY DEF ShutdownStart, TypeOK, WorkerServes, ShutdownSeals, ServedOnce
<1>6. RequestCovers'
  BY DEF ShutdownStart, TypeOK, WorkerServes, ServedOnce, RequestCovers, Accepted, Covered
<1>7. SignalComing'  BY DEF ShutdownStart, TypeOK, WorkerServes, SignalComing
<1>8. QED  BY <1>1, <1>2, <1>3, <1>4, <1>5, <1>6, <1>7

(* Shutdown closes the queue.                                             *)
LEMMA ShutdownCloseIInv ==
  ASSUME NEW c \in Closers, IInv, ShutdownClose(c)
  PROVE  IInv'
<1> USE DEF IInv, queueVars, requestVars, chunkVars, exportVars
<1>1. TypeOK'
  BY DEF ShutdownClose, Close, TypeOK, WorkerPhases, EmitPhases, FlushPhases, CloserPhases
<1>2. OnePlace'
  <2>1. Accepted' = Accepted /\ UNCHANGED <<items, work, attempted, lost>>
    BY DEF Accepted, ShutdownClose, Close, TypeOK
  <2>2. QED  BY <2>1 DEF OnePlace, Lost, IsInjective
<1>3. WorkerServes'  BY DEF ShutdownClose, Close, TypeOK, WorkerServes
<1>4. ShutdownSeals'  BY DEF ShutdownClose, Close, TypeOK, WorkerServes, ShutdownSeals
<1>5. ServedOnce'
  BY DEF ShutdownClose, Close, TypeOK, WorkerServes, ShutdownSeals, ServedOnce
<1>6. RequestCovers'
  BY DEF ShutdownClose, Close, TypeOK, WorkerServes, ServedOnce,
         RequestCovers, Accepted, Covered
<1>7. SignalComing'  BY DEF ShutdownClose, Close, TypeOK, WorkerServes, SignalComing
<1>8. QED  BY <1>1, <1>2, <1>3, <1>4, <1>5, <1>6, <1>7

(* Shutdown sends its request.                                            *)
LEMMA ShutdownSendIInv ==
  ASSUME NEW c \in Closers, IInv, ShutdownSend(c)
  PROVE  IInv'
<1> USE DEF IInv, queueVars, requestVars, chunkVars, exportVars
<1>1. TypeOK'
  BY DEF ShutdownSend, Sent, TypeOK, WorkerPhases, EmitPhases, FlushPhases, CloserPhases
<1>2. OnePlace'
  <2>1. Accepted' = Accepted /\ UNCHANGED <<items, work, attempted, lost>>
    BY DEF Accepted, ShutdownSend, Sent, TypeOK
  <2>2. QED  BY <2>1 DEF OnePlace, Lost, IsInjective
<1>3. WorkerServes'  BY DEF ShutdownSend, Sent, TypeOK, WorkerServes
<1>4. ShutdownSeals'  BY DEF ShutdownSend, Sent, TypeOK, WorkerServes, ShutdownSeals
<1>5. ServedOnce'
  BY DEF ShutdownSend, Sent, TypeOK, WorkerServes, ShutdownSeals, ServedOnce
<1>6. RequestCovers'
  BY DEF ShutdownSend, Sent, TypeOK, WorkerServes, ServedOnce,
         RequestCovers, Accepted, Covered
<1>7. SignalComing'  BY DEF ShutdownSend, Sent, TypeOK, WorkerServes, SignalComing
<1>8. QED  BY <1>1, <1>2, <1>3, <1>4, <1>5, <1>6, <1>7

(* Shutdown returns.                                                      *)
LEMMA ShutdownReturnIInv ==
  ASSUME NEW c \in Closers, IInv, ShutdownReturn(c)
  PROVE  IInv'
<1> USE DEF IInv, queueVars, requestVars, chunkVars, exportVars
<1>1. TypeOK'
  <2>1. \E p \in CloserPhases : closer' = [closer EXCEPT ![c] = p]
    BY DEF ShutdownReturn, CloserPhases, TypeOK
  <2>2. QED  BY <2>1 DEF ShutdownReturn, TypeOK
<1>2. OnePlace'
  <2>1. Accepted' = Accepted /\ UNCHANGED <<items, work, attempted, lost>>
    BY DEF Accepted, ShutdownReturn, TypeOK
  <2>2. QED  BY <2>1 DEF OnePlace, Lost, IsInjective
<1>3. WorkerServes'  BY DEF ShutdownReturn, TypeOK, WorkerServes
<1>4. ShutdownSeals'  BY DEF ShutdownReturn, TypeOK, WorkerServes, ShutdownSeals
<1>5. ServedOnce'
  <2>1. UNCHANGED <<mailbox, request, resp, flush>>  BY DEF ShutdownReturn
  <2>2. closer[c] = "awaiting" /\ closer'[c] \in {"cancelled", "ok", "failed"}
    BY DEF ShutdownReturn, TypeOK
  <2>3. closer'[c] \in {"ok", "failed"} => resp[c] = closer'[c]
    BY DEF ShutdownReturn, TypeOK
  <2>4. \A d \in Closers : d # c => closer'[d] = closer[d]  BY DEF ShutdownReturn, TypeOK
  <2>5. mailbox \subseteq Closers  BY DEF TypeOK
  <2>6. QED  BY <2>1, <2>2, <2>3, <2>4, <2>5 DEF ServedOnce
<1>6. RequestCovers'
  BY DEF ShutdownReturn, TypeOK, WorkerServes, ServedOnce, RequestCovers, Accepted, Covered
<1>7. SignalComing'  BY DEF ShutdownReturn, TypeOK, WorkerServes, SignalComing
<1>8. QED  BY <1>1, <1>2, <1>3, <1>4, <1>5, <1>6, <1>7

(* The context of a call ends.                                            *)
LEMMA CtxDoneIInv ==
  ASSUME NEW x \in Calls, IInv, CtxDone(x)
  PROVE  IInv'
<1> USE DEF IInv, queueVars, requestVars, chunkVars, exportVars
<1>1. TypeOK'  BY DEF CtxDone, TypeOK, WorkerPhases, EmitPhases, FlushPhases, CloserPhases
<1>2. OnePlace'
  <2>1. Accepted' = Accepted /\ UNCHANGED <<items, work, attempted, lost>>
    BY DEF Accepted, CtxDone, TypeOK
  <2>2. QED  BY <2>1 DEF OnePlace, Lost, IsInjective
<1>3. WorkerServes'  BY DEF CtxDone, TypeOK, WorkerServes
<1>4. ShutdownSeals'  BY DEF CtxDone, TypeOK, WorkerServes, ShutdownSeals
<1>5. ServedOnce'  BY DEF CtxDone, TypeOK, WorkerServes, ShutdownSeals, ServedOnce
<1>6. RequestCovers'
  BY DEF CtxDone, TypeOK, WorkerServes, ServedOnce, RequestCovers, Accepted, Covered
<1>7. SignalComing'  BY DEF CtxDone, TypeOK, WorkerServes, SignalComing
<1>8. QED  BY <1>1, <1>2, <1>3, <1>4, <1>5, <1>6, <1>7

LEMMA NextIInv == IInv /\ [Next]_vars => IInv'
<1> SUFFICES ASSUME IInv, [Next]_vars PROVE IInv'
  OBVIOUS
<1>1. CASE UNCHANGED vars
  <2>1. /\ UNCHANGED <<items, sealed, stopped, trigger, mailbox, done, timer, worker, request,
                       work, more, failed, emit, flush, closer, resp, before, ctxDone,
                       attempted, lost>>
    BY <1>1 DEF vars, queueVars, requestVars, chunkVars, exportVars
  <2>2. TypeOK'  BY <2>1 DEF IInv, TypeOK
  <2>3. OnePlace'  BY <2>1 DEF IInv, OnePlace, Accepted, Lost, IsInjective
  <2>4. WorkerServes' /\ ShutdownSeals' /\ ServedOnce'
    BY <2>1 DEF IInv, WorkerServes, ShutdownSeals, ServedOnce
  <2>5. RequestCovers'  BY <2>1 DEF IInv, RequestCovers, Covered, Accepted
  <2>6. SignalComing'  BY <2>1 DEF IInv, SignalComing
  <2>7. QED  BY <2>2, <2>3, <2>4, <2>5, <2>6 DEF IInv
<1>2. CASE \E r \in Records : EmitCheck(r) \/ EmitStep(r)
  BY <1>2, EmitCheckIInv, EmitEnqueueIInv, EmitSignalIInv DEF EmitStep
<1>3. CASE WorkerStep
  BY <1>3, ServeShutdownIInv, ServeFlushIInv, NothingWaitingIInv, WakeIInv, ExportBatchIInv,
     FlushQueueIInv, ChunkCallIInv, ChunkReturnIInv, ChunksDoneIInv, CloseDoneIInv, RespondIInv
  DEF WorkerStep
<1>4. CASE TimerFire  BY <1>4, TimerFireIInv
<1>5. CASE \E f \in Flushers : FlushStart(f) \/ FlushReturn(f)
  BY <1>5, FlushStartIInv, FlushReturnIInv
<1>6. CASE \E c \in Closers : ShutdownStart(c) \/ ShutdownStep(c)
  BY <1>6, ShutdownStartIInv, ShutdownCloseIInv, ShutdownSendIInv, ShutdownReturnIInv
  DEF ShutdownStep
<1>7. CASE \E x \in Calls : CtxDone(x)  BY <1>7, CtxDoneIInv
<1>8. CASE Terminated  BY <1>1, <1>8 DEF Terminated
<1>9. QED  BY <1>1, <1>2, <1>3, <1>4, <1>5, <1>6, <1>7, <1>8 DEF Next

-----------------------------------------------------------------------------
(* The inductive invariant holds in every reachable state.                 *)
THEOREM IInvAlways == Spec => []IInv
<1>1. QED  BY InitIInv, NextIInv, PTL DEF Spec

(* Every variable keeps its type: the queue never holds more than its      *)
(* capacity.                                                               *)
THEOREM TypeCorrect == Spec => []TypeOK
<1>1. IInv => TypeOK  BY DEF IInv
<1>2. QED  BY <1>1, IInvAlways, PTL

(* Every accepted record is in exactly one place, once: queued, in the     *)
(* worker's hands, handed to the exporter, or lost for a known reason.     *)
THEOREM NoRecordTwice == Spec => []OnePlace
<1>1. IInv => OnePlace  BY DEF IInv
<1>2. QED  BY <1>1, IInvAlways, PTL

(* A nil from ForceFlush or Shutdown, and a ForceFlush that Shutdown       *)
(* overtakes, leave nothing accepted before the call behind; what a        *)
(* request abandons it does not answer with nil.                           *)
THEOREM NilHasCovered == Spec => []CallCovers
<1>1. IInv => CallCovers
  BY DEF IInv, TypeOK, ServedOnce, RequestCovers, CallCovers
<1>2. QED  BY <1>1, IInvAlways, PTL

(* A Shutdown that has its answer saw done closed, and a stopped worker    *)
(* leaves no record behind.                                                *)
THEOREM StoppedLeavesNothing == Spec => []StoppedIsEmpty
<1>1. IInv => StoppedIsEmpty
  BY DEF IInv, TypeOK, ServedOnce, ShutdownSeals, WorkerServes, StoppedIsEmpty
<1>2. QED  BY <1>1, IInvAlways, PTL

(* A worker with nothing in hand has been signalled about a full batch, or *)
(* is about to be: for every size of a batch but 0, with which exportBatch *)
(* takes nothing.                                                          *)
THEOREM FullBatchSignalled == BatchSize # 0 => (Spec => []FullBatchWakes)
<1> SUFFICES ASSUME BatchSize # 0 PROVE Spec => []FullBatchWakes
  OBVIOUS
<1>1. IInv => FullBatchWakes
  BY DEF IInv, WorkerServes, SignalComing, FullBatchWakes
<1>2. QED  BY <1>1, IInvAlways, PTL

-----------------------------------------------------------------------------
(* The refinement: what is in the worker's hands, then what is queued, is  *)
(* pending.                                                                *)

LEMMA PendingParts ==
  ASSUME TypeOK
  PROVE  /\ work \in Seq(Records) /\ items \in Seq(Records) /\ attempted \in Seq(Records)
         /\ Len(work) \in Nat /\ Len(items) \in Nat
         /\ Pending \in Seq(Records) /\ Len(Pending) = Len(work) + Len(items)
         /\ ToSet(Pending) = ToSet(work) \union ToSet(items)
<1>1. work \in Seq(Records) /\ items \in Seq(Records) /\ attempted \in Seq(Records)
  BY DEF TypeOK
<1>2. Len(work) \in Nat /\ Len(items) \in Nat  BY <1>1
<1>3. Pending \in Seq(Records) /\ Len(Pending) = Len(work) + Len(items)
  BY <1>1, ConcatProperties DEF Pending
<1>4. ToSet(Pending) = ToSet(work) \union ToSet(items)  BY <1>1, ConcatElements DEF Pending
<1>5. QED  BY <1>1, <1>2, <1>3, <1>4

(* A record that is put in the queue is pending: for good in a queue with  *)
(* room, in the place of the oldest one queued in a full queue.            *)
LEMMA EnqueueImplements ==
  ASSUME IInv, NEW r \in Records, EmitEnqueue(r), Enqueue(r)
  PROVE  Pipeline!Next
<1>1. /\ TypeOK /\ r \notin Accepted /\ UNCHANGED <<work, attempted, done>>
  BY DEF IInv, EmitEnqueue, chunkVars, Accepted
<1>2. /\ work \in Seq(Records) /\ items \in Seq(Records)
      /\ r \notin ToSet(Pending) \union ToSet(attempted)
  BY <1>1, PendingParts DEF IInv, OnePlace
<1>3. Pending' = work \o (SubSeq(items, Len(Displaced) + 1, Len(items)) \o <<r>>)
  BY <1>1 DEF Enqueue, Pending
<1>4. CASE Len(items) # Capacity
  <2>1. Displaced = <<>>  BY <1>4 DEF Displaced
  <2>2. SubSeq(items, Len(Displaced) + 1, Len(items)) = items
    <3>1. Len(Displaced) + 1 = 1  BY <2>1
    <3>2. QED  BY <1>2, <3>1, SubSeqFull
  <2>3. Pending' = Append(Pending, r)
    <3>1. work \o (items \o <<r>>) = Append(work \o items, r)  BY <1>2, ConcatAppend
    <3>2. QED  BY <1>3, <2>2, <3>1 DEF Pending
  <2>4. Pipeline!Accept(r)
    BY <1>1, <1>2, <2>3 DEF Pipeline!Accept, Pipeline!ToSet, ToSet
  <2>5. QED  BY <2>4 DEF Pipeline!Next
<1>5. CASE Len(items) = Capacity
  <2> DEFINE i == Len(work) + 1
  <2>1. items # <<>>
    <3>1. Len(items) # 0  BY <1>5
    <3>2. QED  BY <3>1
  <2>2. SubSeq(items, Len(Displaced) + 1, Len(items)) = Tail(items)
    <3>1. Len(Displaced) + 1 = 2  BY <1>5 DEF Displaced
    <3>2. QED  BY <1>2, <2>1, <3>1, TailIsSubSeq
  <2>3. i \in DOMAIN Pending /\ RemoveAt(Pending, i) = work \o Tail(items)
    BY <1>2, <2>1, RemoveFirstOfSecond DEF Pending
  <2>4. Tail(items) \in Seq(Records)  BY <1>2, <2>1, HeadTailProperties
  <2>5. Pending' = Append(work \o Tail(items), r)
    <3>1. work \o (Tail(items) \o <<r>>) = Append(work \o Tail(items), r)
      BY <1>2, <2>4, ConcatAppend
    <3>2. QED  BY <1>3, <2>2, <3>1
  <2>6. Pending' = Append(Pipeline!RemoveAt(Pending, i), r)
    BY <2>3, <2>5 DEF RemoveAt, Pipeline!RemoveAt
  <2>7. Pipeline!Displace(i, r)
    BY <1>1, <1>2, <2>6 DEF Pipeline!Displace, Pipeline!ToSet, ToSet
  <2>8. QED  BY <2>3, <2>7 DEF Pipeline!Next
<1>6. QED  BY <1>4, <1>5

(* A call of the exporter attempts the chunk.                              *)
LEMMA ChunkCallImplements ==
  ASSUME IInv, IInv', ChunkCall
  PROVE  Pipeline!Next
<1> DEFINE k == Len(Chunk)
<1>0. /\ TypeOK /\ TypeOK' /\ UNCHANGED <<items, done>> /\ worker = "chunk"
      /\ attempted' = attempted \o Chunk
  BY DEF IInv, ChunkCall, queueVars
<1>1. /\ Chunk \in Seq(Records) /\ work' \in Seq(Records) /\ work = Chunk \o work'
      /\ k \in 1..Len(work) /\ (BatchSize # 0 => k <= BatchSize)
  BY <1>0, ChunkWork DEF Splits
<1>2. Pending = Chunk \o Pending'
  <2>1. Chunk \in Seq(Records) /\ work' \in Seq(Records) /\ items \in Seq(Records)
    BY <1>0, <1>1, PendingParts
  <2>2. (Chunk \o work') \o items = Chunk \o (work' \o items)
    BY <2>1, ConcatAssociative
  <2>3. Pending' = work' \o items  BY <1>0 DEF Pending
  <2>4. Pending = (Chunk \o work') \o items  BY <1>1 DEF Pending
  <2>5. QED  BY <2>2, <2>3, <2>4
<1>3. Pending' \in Seq(Records)
  BY <1>0, <1>1, PendingParts, ConcatProperties DEF Pending
<1>4. /\ k \in Nat /\ k <= Len(Pending) /\ SubSeq(Pending, 1, k) = Chunk
      /\ SubSeq(Pending, k + 1, Len(Pending)) = Pending'
  BY <1>1, <1>2, <1>3, SplitConcat
<1>5. ~done  BY <1>0 DEF IInv, ShutdownSeals
<1>6. k \in 1..(IF BatchSize = 0 THEN Capacity ELSE BatchSize)
  <2>1. Len(work) <= Capacity /\ Len(work) \in Nat
    BY <1>0, PendingParts DEF IInv, WorkerServes
  <2>2. QED  BY <1>1, <1>4, <2>1
<1>7. Pipeline!Attempt(k)  BY <1>0, <1>4, <1>5 DEF Pipeline!Attempt
<1>8. QED  BY <1>6, <1>7 DEF Pipeline!Next

(* Every other step of the processor discards what it abandons, shuts the  *)
(* exporter down, or moves records within what is pending.                 *)
LEMMA StepImplements ==
  IInv /\ IInv' /\ [Next]_vars => [Pipeline!Next]_(Pipeline!vars)
<1> SUFFICES ASSUME IInv, IInv', [Next]_vars
             PROVE  Pipeline!Next \/ UNCHANGED <<Pending, attempted, done>>
  BY DEF Pipeline!vars
<1> USE DEF queueVars, requestVars, chunkVars, exportVars
<1>0. TypeOK /\ TypeOK' /\ WorkerServes  BY DEF IInv
<1>1. ASSUME UNCHANGED <<items, work, attempted, done>>
      PROVE  UNCHANGED <<Pending, attempted, done>>
  BY <1>1 DEF Pending
<1>2. ASSUME NEW r \in Records, EmitStep(r)
      PROVE  Pipeline!Next \/ UNCHANGED <<Pending, attempted, done>>
  <2>1. CASE EmitEnqueue(r) /\ Enqueue(r)  BY <2>1, EnqueueImplements
  <2>2. CASE EmitEnqueue(r) /\ ~Enqueue(r)  BY <1>1, <2>2 DEF EmitEnqueue, EnqueueRefused
  <2>3. CASE EmitSignal(r)  BY <1>1, <2>3 DEF EmitSignal
  <2>4. QED  BY <1>2, <2>1, <2>2, <2>3 DEF EmitStep
<1>3. ASSUME ExportBatch PROVE UNCHANGED <<Pending, attempted, done>>
  <2>1. work = <<>> /\ UNCHANGED <<attempted, done>>
    BY <1>0, <1>3 DEF ExportBatch, WorkerServes
  <2>2. items = work' \o items'  BY <1>0, <1>3, DequeueItems DEF ExportBatch, Splits
  <2>3. <<>> \o items = items  BY <1>0, PendingParts, ConcatEmptySeq
  <2>4. QED  BY <2>1, <2>2, <2>3 DEF Pending
<1>4. ASSUME FlushQueue PROVE UNCHANGED <<Pending, attempted, done>>
  <2>1. work = <<>> /\ UNCHANGED <<attempted, done>>
    BY <1>0, <1>4 DEF FlushQueue, WorkerServes
  <2>2. <<>> \o items = items /\ items \o <<>> = items
    BY <1>0, PendingParts, ConcatEmptySeq
  <2>3. UNCHANGED <<items, work>> \/ (work' = items /\ items' = <<>>)
    BY <1>4 DEF FlushQueue, Flush
  <2>4. QED  BY <2>1, <2>2, <2>3 DEF Pending
<1>5. ASSUME ChunksDone PROVE Pipeline!Next \/ UNCHANGED <<Pending, attempted, done>>
  <2>1. work' = <<>> /\ UNCHANGED <<items, attempted, done>>  BY <1>5 DEF ChunksDone
  <2>2. CASE work = <<>>  BY <1>1, <2>1, <2>2
  <2>3. CASE work # <<>>
    <3> DEFINE k == Len(work)
    <3>1. <<>> \o items = items  BY <1>0, PendingParts, ConcatEmptySeq
    <3>2. Pending' = items  BY <2>1, <3>1 DEF Pending
    <3>3. /\ k <= Len(Pending) /\ SubSeq(Pending, k + 1, Len(Pending)) = items
      BY <1>0, PendingParts, SplitConcat DEF Pending
    <3>4. k \in DOMAIN Pending
      <4>1. k # 0  BY <1>0, <2>3, PendingParts, EmptySeq
      <4>2. k \in 1..Len(Pending)  BY <1>0, <3>3, <4>1, PendingParts
      <4>3. QED  BY <1>0, <4>2, PendingParts, LenProperties
    <3>5. Pipeline!Discard(k)  BY <2>1, <3>2, <3>3 DEF Pipeline!Discard
    <3>6. QED  BY <3>4, <3>5 DEF Pipeline!Next
  <2>4. QED  BY <2>2, <2>3
<1>6. ASSUME CloseDone PROVE Pipeline!Next
  <2>1. /\ ~done /\ done' = TRUE /\ UNCHANGED <<Pending, attempted>>
    BY <1>6 DEF CloseDone, IInv, ShutdownSeals, Pending
  <2>2. Pipeline!ShutDown  BY <2>1 DEF Pipeline!ShutDown
  <2>3. QED  BY <2>2 DEF Pipeline!Next
<1>7. ASSUME WorkerStep PROVE Pipeline!Next \/ UNCHANGED <<Pending, attempted, done>>
  <2>1. CASE ServeShutdown \/ (\E f \in Flushers : ServeFlush(f)) \/ NothingWaiting \/ Wake
    BY <1>1, <2>1 DEF ServeShutdown, ServeFlush, NothingWaiting, Wake, Serve
  <2>2. CASE ChunkCall  BY <2>2, ChunkCallImplements
  <2>3. CASE ChunkReturn \/ Respond  BY <1>1, <2>3 DEF ChunkReturn, Respond
  <2>4. QED  BY <1>3, <1>4, <1>5, <1>6, <1>7, <2>1, <2>2, <2>3 DEF WorkerStep
<1>8. ASSUME NEW c \in Closers, ShutdownStart(c) \/ ShutdownStep(c)
      PROVE  UNCHANGED <<Pending, attempted, done>>

  BY <1>1, <1>8
     DEF ShutdownStart, ShutdownStep, ShutdownClose, ShutdownSend, ShutdownReturn, Close
<1>9. ASSUME NEW f \in Flushers, FlushStart(f) \/ FlushReturn(f)
      PROVE  UNCHANGED <<Pending, attempted, done>>
  BY <1>1, <1>9 DEF FlushStart, FlushReturn
<1>10. ASSUME \/ UNCHANGED vars \/ TimerFire \/ Terminated
              \/ \E r \in Records : EmitCheck(r)
              \/ \E x \in Calls : CtxDone(x)
       PROVE  UNCHANGED <<Pending, attempted, done>>
  BY <1>1, <1>10 DEF vars, TimerFire, Terminated, EmitCheck, CtxDone
<1>11. QED  BY <1>2, <1>7, <1>8, <1>9, <1>10 DEF Next

(* The processor implements the lossy pipeline: what it hands to the       *)
(* exporter is what it accepted, in that order, at most once, in chunks of *)
(* at most a batch, and nothing after the exporter is shut down.           *)
THEOREM ProcessorImplementsPipeline == Spec => ImplementsPipeline
<1>1. Init => Pipeline!Init
  <2>1. <<>> \o <<>> = <<>>  OBVIOUS
  <2>2. QED  BY <2>1 DEF Init, QueueInit, Pipeline!Init, Pending
<1>2. QED
  BY <1>1, IInvAlways, StepImplements, PTL DEF Spec, ImplementsPipeline, Pipeline!Spec
==============================================================================
