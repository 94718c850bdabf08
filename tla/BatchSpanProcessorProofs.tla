---------------------- MODULE BatchSpanProcessorProofs ----------------------
(***************************************************************************)
(* Proofs about BatchSpanProcessor, for every set of spans and of calls    *)
(* and for every queue and batch size.                                     *)
(***************************************************************************)
EXTENDS BatchSpanProcessor, SharedLemmas

USE KindsDisjoint, SizesPositive

-----------------------------------------------------------------------------
(* The spans of a queue that also holds the markers of ForceFlush calls.   *)

(* The function that SpansIn is read from is the one its recursion says.   *)
LEMMA SpansUpToDef ==
  ASSUME NEW q
  PROVE  /\ SpansUpTo(q) \in [Nat -> Seq(Spans)]
         /\ SpansUpTo(q)[0] = <<>>
         /\ \A n \in Nat : SpansUpTo(q)[n + 1] =
              IF q[n + 1] \in Spans THEN Append(SpansUpTo(q)[n], q[n + 1])
              ELSE SpansUpTo(q)[n]
<1> DEFINE none == <<>>
           step == [n \in Nat |-> [s \in Seq(Spans) |->
                      IF q[n] \in Spans THEN Append(s, q[n]) ELSE s]]
           Unfolds(f) == f = [n \in Nat |-> IF n = 0 THEN <<>>
                                ELSE IF q[n] \in Spans THEN Append(f[n - 1], q[n])
                                ELSE f[n - 1]]
<1>1. none \in Seq(Spans)  OBVIOUS
<1>2. \A n \in Nat, s \in Seq(Spans) :
        (IF q[n] \in Spans THEN Append(s, q[n]) ELSE s) \in Seq(Spans)
  OBVIOUS
<1>3. step \in [Nat -> [Seq(Spans) -> Seq(Spans)]]  BY <1>2
<1>4. \A n \in Nat, s \in Seq(Spans) :
        step[n][s] = IF q[n] \in Spans THEN Append(s, q[n]) ELSE s
  OBVIOUS
<1> HIDE DEF none, step
<1>5. PICK g : Recursion(Seq(Spans), none, step, g)
  BY <1>1, <1>3, RecursionOnNat
<1>6. /\ g \in [Nat -> Seq(Spans)] /\ g[0] = <<>>
      /\ \A n \in Nat : g[n + 1] = IF q[n + 1] \in Spans THEN Append(g[n], q[n + 1]) ELSE g[n]
  <2>1. /\ g \in [Nat -> Seq(Spans)] /\ g[0] = none
        /\ \A n \in Nat : g[n + 1] = step[n + 1][g[n]]
    BY <1>5 DEF Recursion
  <2>2. \A n \in Nat : n + 1 \in Nat /\ g[n] \in Seq(Spans)  BY <2>1
  <2>3. QED  BY <1>4, <2>1, <2>2 DEF none
<1>7. ASSUME NEW n \in Nat
      PROVE  g[n] = IF n = 0 THEN <<>>
                    ELSE IF q[n] \in Spans THEN Append(g[n - 1], q[n]) ELSE g[n - 1]
  <2>1. CASE n = 0  BY <2>1, <1>6
  <2>2. CASE n # 0
    <3>1. n - 1 \in Nat /\ (n - 1) + 1 = n  BY <2>2
    <3>2. QED  BY <3>1, <2>2, <1>6
  <2>3. QED  BY <2>1, <2>2
<1>8. Unfolds(g)
  <2>1. g = [n \in Nat |-> g[n]]  BY <1>6
  <2>2. QED  BY <1>7, <2>1
<1>9. Unfolds(SpansUpTo(q))
  <2>1. SpansUpTo(q) = CHOOSE f : Unfolds(f)  BY DEF SpansUpTo
  <2> HIDE DEF Unfolds
  <2>2. QED  BY <1>8, <2>1
<1> DEFINE f == SpansUpTo(q)
<1>10. f = [n \in Nat |-> IF n = 0 THEN <<>>
           ELSE IF q[n] \in Spans THEN Append(f[n - 1], q[n]) ELSE f[n - 1]]
  BY <1>9
<1> HIDE DEF f
<1>11. f[0] = <<>>  BY <1>10
<1>12. ASSUME NEW n \in Nat
       PROVE  f[n + 1] = IF q[n + 1] \in Spans THEN Append(f[n], q[n + 1]) ELSE f[n]
  <2>1. n + 1 \in Nat /\ n + 1 # 0 /\ (n + 1) - 1 = n  OBVIOUS
  <2>2. QED  BY <1>10, <2>1
<1>13. f \in [Nat -> Seq(Spans)]
  <2> DEFINE T == {n \in Nat : f[n] \in Seq(Spans)}
  <2>1. 0 \in T
    <3>1. f[0] \in Seq(Spans)  BY <1>11
    <3>2. QED  BY <3>1
  <2>2. ASSUME NEW n \in Nat, n \in T PROVE n + 1 \in T
    <3>1. f[n] \in Seq(Spans)  BY <2>2
    <3>2. CASE q[n + 1] \in Spans
      <4>1. f[n + 1] = Append(f[n], q[n + 1])  BY <1>12, <3>2
      <4>2. f[n + 1] \in Seq(Spans)  BY <3>1, <3>2, <4>1, AppendProperties
      <4>3. QED  BY <4>2
    <3>3. CASE q[n + 1] \notin Spans
      <4>1. f[n + 1] = f[n]  BY <1>12, <3>3
      <4>2. QED  BY <3>1, <4>1
    <3>4. QED  BY <3>2, <3>3
  <2>3. Nat \subseteq T
    <3> HIDE DEF T
    <3>1. QED  BY <2>1, <2>2, SetInduction
  <2>4. f = [n \in Nat |-> f[n]]  BY <1>10
  <2>5. QED  BY <2>3, <2>4
<1>14. QED  BY <1>11, <1>12, <1>13 DEF f

(* The spans of an empty queue, and whose they are in any other.           *)
LEMMA SpansInElements ==
  ASSUME NEW S, NEW q \in Seq(S)
  PROVE  /\ SpansIn(q) \in Seq(Spans)
         /\ q = <<>> => SpansIn(q) = <<>>
         /\ ToSet(SpansIn(q)) \subseteq ToSet(q)
<1> DEFINE f == SpansUpTo(q)
           T == {n \in Nat : n <= Len(q) => ToSet(f[n]) \subseteq ToSet(q)}
<1>1. Len(q) \in Nat  OBVIOUS
<1>2. /\ f \in [Nat -> Seq(Spans)] /\ f[0] = <<>>
      /\ \A n \in Nat : f[n + 1] = IF q[n + 1] \in Spans THEN Append(f[n], q[n + 1]) ELSE f[n]
  BY SpansUpToDef
<1> HIDE DEF f
<1>3. 0 \in T
  <2>1. ToSet(f[0]) = {}  BY <1>2 DEF ToSet
  <2>2. QED  BY <2>1
<1>4. ASSUME NEW n \in Nat, n \in T PROVE n + 1 \in T
  <2> SUFFICES ASSUME n + 1 <= Len(q) PROVE ToSet(f[n + 1]) \subseteq ToSet(q)
    OBVIOUS
  <2>0. n <= Len(q)  BY <1>1
  <2>1. ToSet(f[n]) \subseteq ToSet(q) /\ f[n] \in Seq(Spans)
    <3>1. f[n] \in Seq(Spans)  BY <1>2
    <3>2. QED  BY <1>4, <2>0, <3>1
  <2>2. CASE q[n + 1] \in Spans
    <3>1. f[n + 1] = Append(f[n], q[n + 1])  BY <1>2, <2>2
    <3>2. ToSet(f[n + 1]) = ToSet(f[n]) \union {q[n + 1]}
      BY <2>1, <2>2, <3>1, AppendElements
    <3>3. q[n + 1] \in ToSet(q)  BY <1>1 DEF ToSet
    <3>4. QED  BY <2>1, <3>2, <3>3
  <2>3. CASE q[n + 1] \notin Spans
    <3>1. f[n + 1] = f[n]  BY <1>2, <2>3
    <3>2. QED  BY <2>1, <3>1
  <2>4. QED  BY <2>2, <2>3
<1>5. Nat \subseteq T
  <2> HIDE DEF T
  <2>1. QED  BY <1>3, <1>4, SetInduction
<1>6. SpansIn(q) = f[Len(q)]  BY DEF SpansIn, f
<1>7. SpansIn(q) \in Seq(Spans)  BY <1>1, <1>2, <1>6
<1>8. q = <<>> => Len(q) = 0  OBVIOUS
<1>9. ToSet(SpansIn(q)) \subseteq ToSet(q)  BY <1>1, <1>5, <1>6
<1>10. QED  BY <1>2, <1>6, <1>7, <1>8, <1>9

(* What joins the queue joins its spans at the end if it is one.           *)
LEMMA SpansInAppend ==
  ASSUME NEW S, NEW q \in Seq(S), NEW x \in S
  PROVE  SpansIn(Append(q, x)) =
           IF x \in Spans THEN Append(SpansIn(q), x) ELSE SpansIn(q)
<1> DEFINE p == Append(q, x)
           f == SpansUpTo(q)
           g == SpansUpTo(p)
           T == {n \in Nat : n <= Len(q) => g[n] = f[n]}
<1>1. /\ Len(q) \in Nat /\ Len(p) = Len(q) + 1 /\ p[Len(q) + 1] = x
      /\ \A i \in 1..Len(q) : p[i] = q[i]
  BY AppendProperties
<1>2. /\ f[0] = <<>>
      /\ \A n \in Nat : f[n + 1] = IF q[n + 1] \in Spans THEN Append(f[n], q[n + 1]) ELSE f[n]
  BY SpansUpToDef
<1>3. /\ g[0] = <<>>
      /\ \A n \in Nat : g[n + 1] = IF p[n + 1] \in Spans THEN Append(g[n], p[n + 1]) ELSE g[n]
  BY SpansUpToDef
<1>4. SpansIn(q) = f[Len(q)] /\ SpansIn(p) = g[Len(q) + 1]  BY <1>1 DEF SpansIn
<1> HIDE DEF f, g, p
<1>5. 0 \in T  BY <1>2, <1>3
<1>6. ASSUME NEW n \in Nat, n \in T PROVE n + 1 \in T
  <2> SUFFICES ASSUME n + 1 <= Len(q) PROVE g[n + 1] = f[n + 1]
    OBVIOUS
  <2>1. g[n] = f[n] /\ n + 1 \in 1..Len(q)  BY <1>1, <1>6
  <2>2. p[n + 1] = q[n + 1]  BY <1>1, <2>1
  <2>3. QED  BY <1>2, <1>3, <2>1, <2>2
<1>7. Nat \subseteq T
  <2> HIDE DEF T
  <2>1. QED  BY <1>5, <1>6, SetInduction
<1>8. g[Len(q)] = f[Len(q)]  BY <1>1, <1>7
<1>9. QED  BY <1>1, <1>3, <1>4, <1>8 DEF p

(* What leaves the head of the queue leaves its spans if it is one.        *)
LEMMA SpansInTail ==
  ASSUME NEW S, NEW q \in Seq(S), q # <<>>
  PROVE  SpansIn(q) = (IF Head(q) \in Spans THEN <<Head(q)>> ELSE <<>>) \o SpansIn(Tail(q))
<1> DEFINE t == Tail(q)
           h == IF Head(q) \in Spans THEN <<Head(q)>> ELSE <<>>
           f == SpansUpTo(t)
           g == SpansUpTo(q)
           T == {n \in Nat : n <= Len(t) => g[n + 1] = h \o f[n]}
<1>1. /\ t \in Seq(S) /\ Len(t) \in Nat /\ Len(q) = Len(t) + 1 /\ Head(q) = q[1]
      /\ \A i \in 1..Len(t) : t[i] = q[i + 1]
  BY HeadTailProperties
<1>2. h \in Seq(Spans)  OBVIOUS
<1>3. /\ f \in [Nat -> Seq(Spans)] /\ f[0] = <<>>
      /\ \A n \in Nat : f[n + 1] = IF t[n + 1] \in Spans THEN Append(f[n], t[n + 1]) ELSE f[n]
  BY SpansUpToDef
<1>4. /\ g[0] = <<>>
      /\ \A n \in Nat : g[n + 1] = IF q[n + 1] \in Spans THEN Append(g[n], q[n + 1]) ELSE g[n]
  BY SpansUpToDef
<1>5. SpansIn(t) = f[Len(t)] /\ SpansIn(q) = g[Len(t) + 1]  BY <1>1 DEF SpansIn
<1> HIDE DEF f, g, t
<1>6. 0 \in T
  <2>1. g[0 + 1] = IF q[0 + 1] \in Spans THEN Append(g[0], q[0 + 1]) ELSE g[0]  BY <1>4
  <2>2. g[0 + 1] = h  BY <1>1, <1>4, <2>1
  <2> HIDE DEF h
  <2>3. h \o f[0] = h  BY <1>2, <1>3, ConcatEmptySeq
  <2>4. QED  BY <2>2, <2>3
<1> HIDE DEF h
<1>7. ASSUME NEW n \in Nat, n \in T PROVE n + 1 \in T
  <2> SUFFICES ASSUME n + 1 <= Len(t) PROVE g[(n + 1) + 1] = h \o f[n + 1]
    OBVIOUS
  <2>1. g[n + 1] = h \o f[n] /\ n + 1 \in 1..Len(t) /\ n + 1 \in Nat  BY <1>1, <1>7
  <2>2. t[n + 1] = q[(n + 1) + 1]  BY <1>1, <2>1
  <2>3. g[(n + 1) + 1] = IF t[n + 1] \in Spans THEN Append(g[n + 1], t[n + 1]) ELSE g[n + 1]
    BY <1>4, <2>1, <2>2
  <2>4. f[n] \in Seq(Spans)  BY <1>3
  <2>5. CASE t[n + 1] \in Spans
    <3>1. ASSUME NEW a \in Seq(Spans), NEW x \in Spans
          PROVE  Append(h \o a, x) = h \o Append(a, x)
      <4>1. (h \o a) \in Seq(Spans) /\ <<x>> \in Seq(Spans)  BY <1>2
      <4>2. Append(h \o a, x) = (h \o a) \o <<x>>  BY <4>1, AppendIsConcat
      <4>3. Append(a, x) = a \o <<x>>  BY AppendIsConcat
      <4>4. QED  BY <1>2, <4>1, <4>2, <4>3, ConcatAssociative
    <3>2. f[n + 1] = Append(f[n], t[n + 1])  BY <1>3, <2>5
    <3>3. QED  BY <2>1, <2>3, <2>4, <2>5, <3>1, <3>2
  <2>6. CASE t[n + 1] \notin Spans
    <3>1. f[n + 1] = f[n]  BY <1>3, <2>6
    <3>2. QED  BY <2>1, <2>3, <2>6, <3>1
  <2>7. QED  BY <2>5, <2>6
<1>8. Nat \subseteq T
  <2> HIDE DEF T
  <2>1. QED  BY <1>6, <1>7, SetInduction
<1>9. g[Len(t) + 1] = h \o f[Len(t)]  BY <1>1, <1>8
<1>10. QED  BY <1>5, <1>9 DEF h, t

-----------------------------------------------------------------------------
(* Type correctness.                                                       *)

(* NewBatchSpanProcessor gives every variable a value of its type.         *)
LEMMA InitTypeOK == Init => TypeOK
BY DEF Init, TypeOK, Threads, StopPhases, WorkerPhases, ExportPhases, SpanPhases,
       FlushPhases, CloserPhases

(* No step of the worker, a call, a goroutine or the timer takes a variable *)
(* out of its type.                                                        *)
LEMMA NextTypeOK == TypeOK /\ [Next]_vars => TypeOK'
<1> SUFFICES ASSUME TypeOK, [Next]_vars PROVE TypeOK'
  OBVIOUS
<1> USE DEF TypeOK, Threads, StopPhases, WorkerPhases, ExportPhases, SpanPhases,
            FlushPhases, CloserPhases, workVars, flushVars, stopVars
<1>1. ASSUME NEW s \in Spans, OnEndCheck(s) PROVE TypeOK'
  BY <1>1 DEF OnEndCheck
<1>2. ASSUME NEW s \in Spans, OnEndEnqueue(s) PROVE TypeOK'
  <2>1. CASE Room /\ queue' = Append(queue, s)
    <3>1. queue' \in Seq(Spans \union Flushers) /\ Len(queue') <= QueueSize
      BY <2>1 DEF Room
    <3>2. QED  BY <1>2, <2>1, <3>1 DEF OnEndEnqueue
  <2>2. CASE UNCHANGED queue
    BY <1>2, <2>2 DEF OnEndEnqueue
  <2>3. QED  BY <1>2, <2>1, <2>2 DEF OnEndEnqueue
<1>3. ASSUME NEW t \in Threads, ExportReset(t) PROVE TypeOK'
  BY <1>3 DEF ExportReset
<1>4. ASSUME NEW t \in Threads, ExportNothing(t) PROVE TypeOK'
  BY <1>4 DEF ExportNothing, ExportDone
<1>5. ASSUME NEW t \in Threads, ExportCall(t) PROVE TypeOK'
  BY <1>5 DEF ExportCall
<1>6. ASSUME NEW t \in Threads, ExportReturn(t) PROVE TypeOK'
  BY <1>6 DEF ExportReturn, ExportDone, BatchAfter
<1>7. ASSUME WorkerReceive PROVE TypeOK'
  <2>1. queue' \in Seq(Spans \union Flushers) /\ Len(queue') <= QueueSize
    <3>1. queue # <<>> /\ queue \in Seq(Spans \union Flushers)  BY <1>7 DEF WorkerReceive
    <3>2. QED  BY <1>7, <3>1, TailElements DEF WorkerReceive
  <2>2. CASE Head(queue) \in Spans /\ UNCHANGED closed
    <3>1. hand' = <<Head(queue)>> /\ received' = Append(received, Head(queue))
      BY <1>7, <2>2 DEF WorkerReceive
    <3>2. hand' \in Seq(Spans) /\ Len(hand') <= 1 /\ received' \in Seq(Spans)
      BY <2>2, <3>1
    <3>3. QED  BY <1>7, <2>1, <2>2, <3>2 DEF WorkerReceive
  <2>3. CASE Head(queue) \in Flushers /\ UNCHANGED <<hand, received>>
    BY <1>7, <2>1, <2>3 DEF WorkerReceive
  <2>4. QED  BY <1>7, <2>2, <2>3 DEF WorkerReceive
<1>8. CASE WorkerAppend
  BY <1>8 DEF WorkerAppend
<1>9. CASE WorkerTimer
  BY <1>9 DEF WorkerTimer
<1>10. CASE WorkerStop
  BY <1>10 DEF WorkerStop
<1>11. CASE WorkerDrained
  BY <1>11 DEF WorkerDrained
<1>12. CASE WorkerExit
  BY <1>12 DEF WorkerExit
<1>13. CASE TimerFire
  BY <1>13 DEF TimerFire
<1>14. ASSUME NEW f \in Flushers, FlushStart(f) PROVE TypeOK'
  <2>1. (CASE f \in ctxDone -> "cancelled"
           [] f \notin ctxDone /\ stopped -> "ignored"
           [] OTHER -> "enqueue") \in FlushPhases
    OBVIOUS
  <2>2. Accepted \in SUBSET Spans  BY DEF Accepted
  <2>3. QED  BY <1>14, <2>1, <2>2 DEF FlushStart
<1>15. ASSUME NEW f \in Flushers, FlushEnqueue(f) PROVE TypeOK'
  BY <1>15 DEF FlushEnqueue, Room
<1>16. ASSUME NEW f \in Flushers, FlushExport(f) PROVE TypeOK'
  BY <1>16 DEF FlushExport
<1>17. ASSUME NEW f \in Flushers, FlushAborted(f) \/ FlushCancelled(f) \/ FlushFinished(f)
       PROVE  TypeOK'
  BY <1>17 DEF FlushAborted, FlushCancelled, FlushFinished, FlushReturn
<1>18. ASSUME NEW c \in Closers, ShutdownFirst(c) PROVE TypeOK'
  BY <1>18 DEF ShutdownFirst, Accepted
<1>19. ASSUME NEW c \in Closers, ShutdownAgain(c) \/ ShutdownReturn(c) PROVE TypeOK'
  <2>1. PICK r \in CloserPhases : closer' = [closer EXCEPT ![c] = r]
    BY <1>19 DEF ShutdownAgain, ShutdownReturn
  <2>2. closer' \in [Closers -> CloserPhases]  BY <2>1
  <2>3. UNCHANGED <<queue, timer, export, span, ctxDone, stop, early, workVars, flushVars>>
    BY <1>19 DEF ShutdownAgain, ShutdownReturn
  <2>4. QED  BY <2>2, <2>3
<1>20. CASE CloseStopCh \/ StopExporter
  BY <1>20 DEF CloseStopCh, StopExporter
<1>21. ASSUME NEW x \in Flushers \union Closers, CtxDone(x) PROVE TypeOK'
  BY <1>21 DEF CtxDone
<1>22. CASE UNCHANGED vars
  BY <1>22 DEF vars
<1>23. QED
  BY <1>1, <1>2, <1>3, <1>4, <1>5, <1>6, <1>7, <1>8, <1>9, <1>10, <1>11, <1>12,
     <1>13, <1>14, <1>15, <1>16, <1>17, <1>18, <1>19, <1>20, <1>21, <1>22
  DEF Next, Export, WorkerStep, FlushStep, Terminated

(* Every variable of the processor always has its type.                    *)
THEOREM TypeCorrect == Spec => []TypeOK
BY InitTypeOK, NextTypeOK, PTL DEF Spec
-----------------------------------------------------------------------------
(* The inductive invariant.                                                *)

(* The goroutine of a ForceFlush exists only after its marker was reached:  *)
(* until then it has no part in exportSpans.                               *)
LEMMA NextFlushBeforeExport ==
  TypeOK /\ FlushBeforeExport /\ [Next]_vars => FlushBeforeExport'
<1> SUFFICES ASSUME TypeOK, FlushBeforeExport, [Next]_vars,
                    NEW g \in Flushers, flush'[g] \in {"idle", "enqueue", "wait"}
             PROVE  export'[g] = "idle" /\ wait'[g] = "none"
  BY DEF FlushBeforeExport
<1> USE DEF FlushBeforeExport, TypeOK, Threads, workVars, flushVars, stopVars
<1>1. ASSUME NEW s \in Spans, OnEndCheck(s) \/ OnEndEnqueue(s)
      PROVE  export'[g] = "idle" /\ wait'[g] = "none"
  BY <1>1 DEF OnEndCheck, OnEndEnqueue
<1>2. ASSUME NEW t \in Threads, Export(t)
      PROVE  export'[g] = "idle" /\ wait'[g] = "none"
  BY <1>2 DEF Export, ExportReset, ExportNothing, ExportCall, ExportReturn, ExportDone
<1>3. ASSUME WorkerStep \/ TimerFire PROVE export'[g] = "idle" /\ wait'[g] = "none"
  BY <1>3 DEF WorkerStep, WorkerReceive, WorkerAppend, WorkerTimer, WorkerStop,
              WorkerDrained, WorkerExit, TimerFire
<1>4. ASSUME NEW f \in Flushers, FlushStart(f) \/ FlushEnqueue(f) \/ FlushExport(f)
      PROVE  export'[g] = "idle" /\ wait'[g] = "none"
  BY <1>4 DEF FlushStart, FlushEnqueue, FlushExport
<1>5. ASSUME NEW f \in Flushers, FlushAborted(f) \/ FlushCancelled(f) \/ FlushFinished(f)
      PROVE  export'[g] = "idle" /\ wait'[g] = "none"
  BY <1>5 DEF FlushAborted, FlushCancelled, FlushFinished, FlushReturn
<1>6. ASSUME NEW c \in Closers,
             ShutdownFirst(c) \/ ShutdownAgain(c) \/ ShutdownReturn(c)
      PROVE  export'[g] = "idle" /\ wait'[g] = "none"
  BY <1>6 DEF ShutdownFirst, ShutdownAgain, ShutdownReturn
<1>7. ASSUME CloseStopCh \/ StopExporter PROVE export'[g] = "idle" /\ wait'[g] = "none"
  BY <1>7 DEF CloseStopCh, StopExporter
<1>8. ASSUME NEW x \in Flushers \union Closers, CtxDone(x)
      PROVE  export'[g] = "idle" /\ wait'[g] = "none"
  BY <1>8 DEF CtxDone
<1>9. CASE UNCHANGED vars
  BY <1>9 DEF vars
<1>10. QED
  BY <1>1, <1>2, <1>3, <1>4, <1>5, <1>6, <1>7, <1>8, <1>9
  DEF Next, FlushStep, Terminated

(* A processor that NewBatchSpanProcessor returned satisfies IInv.          *)
LEMMA InitIInv == Init => IInv
<1> SUFFICES ASSUME Init PROVE IInv
  OBVIOUS
<1>1. MutexFree  BY DEF Init, MutexFree, Threads
<1>2. OneCall /\ CallHasSpans /\ SpansInOrder
  BY <1>1 DEF Init, OneCall, CallHasSpans, SpansInOrder, Unsent, Threads
<1>3. Len(batch) = 0 /\ MaxBatch > 0  BY DEF Init
<1>4. BatchBound /\ WorkerHasRoom
  BY <1>3 DEF Init, BatchBound, WorkerHasRoom, Threads
<1>5. Accepted = {}  BY DEF Init, Accepted
<1>6. QueuedKept /\ early \subseteq Accepted  BY <1>5 DEF Init, QueuedKept
<1>7. WorkerEnds  BY DEF Init, WorkerEnds
<1>8. FlushBeforeExport  BY DEF Init, FlushBeforeExport, Threads
<1>9. QED  BY InitTypeOK, <1>2, <1>4, <1>6, <1>7, <1>8 DEF IInv

(* A step that only a call of ForceFlush or Shutdown, the timer or a       *)
(* context takes part in leaves all that IInv speaks of unchanged.         *)
LEMMA Bystander ==
  ASSUME IInv, TypeOK', FlushBeforeExport',
         UNCHANGED <<queue, batch, stop, worker, hand, export, span, received,
                     attempted, early>>
  PROVE  IInv'
<1>1. MutexFree' = MutexFree /\ Accepted' = Accepted /\ Unsent' = Unsent /\ stopCh' = stopCh
  BY DEF MutexFree, Accepted, Unsent, stopCh
<1>2. QED
  BY <1>1 DEF IInv, OneCall, CallHasSpans, SpansInOrder, BatchBound, WorkerHasRoom,
              QueuedKept, WorkerEnds

(* Every step preserves IInv: the actions that touch the queue, the batch,  *)
(* the mutex or the worker one by one, the others by Bystander.            *)
LEMMA NextIInv == IInv /\ [Next]_vars => IInv'
<1> SUFFICES ASSUME IInv, [Next]_vars PROVE IInv'
  OBVIOUS
<1> USE DEF workVars, flushVars, stopVars
<1>0. TypeOK /\ TypeOK' /\ FlushBeforeExport'
  BY NextTypeOK, NextFlushBeforeExport DEF IInv
<1>1. ASSUME NEW s \in Spans, OnEndCheck(s) PROVE IInv'
  <2>1. /\ MutexFree' = MutexFree /\ Unsent' = Unsent /\ stopCh' = stopCh
    BY <1>1 DEF OnEndCheck, MutexFree, Unsent, stopCh
  <2>2. Accepted' = Accepted
    BY <1>0, <1>1 DEF OnEndCheck, Accepted, TypeOK
  <2>3. QED
    BY <1>0, <1>1, <2>1, <2>2 DEF OnEndCheck, IInv, OneCall, CallHasSpans, SpansInOrder,
       BatchBound, WorkerHasRoom, QueuedKept, WorkerEnds
<1>2. ASSUME NEW s \in Spans, OnEndEnqueue(s) PROVE IInv'
  <2>1. /\ MutexFree' = MutexFree /\ Unsent' = Unsent /\ stopCh' = stopCh
        /\ Accepted \subseteq Accepted' /\ Accepted' \subseteq Accepted \union {s}
    BY <1>0, <1>2 DEF OnEndEnqueue, MutexFree, Unsent, stopCh, Accepted, TypeOK
  <2>2. QueuedKept'
    <3>1. CASE Room /\ queue' = Append(queue, s)
      <4>1. queue \in Seq(Spans \union Flushers)  BY <1>0 DEF TypeOK
      <4>2. ToSet(queue') = ToSet(queue) \union {s}
        BY <3>1, <4>1, AppendElements
      <4>3. QED  BY <1>2, <2>1, <4>2 DEF OnEndEnqueue, QueuedKept, IInv
    <3>2. CASE ~Room
      <4>1. Accepted' = Accepted /\ queue' = queue
        BY <1>0, <1>2, <3>2 DEF OnEndEnqueue, Accepted, TypeOK
      <4>2. QED  BY <1>2, <4>1 DEF OnEndEnqueue, QueuedKept, IInv
    <3>3. QED  BY <1>2, <3>1, <3>2 DEF OnEndEnqueue
  <2>3. QED
    BY <1>0, <1>2, <2>1, <2>2 DEF OnEndEnqueue, IInv, OneCall, CallHasSpans, SpansInOrder,
       BatchBound, WorkerHasRoom, WorkerEnds
<1>3. ASSUME NEW t \in Threads, ExportReset(t) PROVE IInv'
  <2>1. /\ MutexFree' = MutexFree /\ export[t] = "reset"
        /\ \A u \in Threads : (export'[u] = "call" <=> export[u] = "call")
                             /\ (export'[u] = "idle" <=> export[u] = "idle")
    BY <1>0, <1>3 DEF ExportReset, MutexFree, TypeOK
  <2>2. Worker \in Threads /\ Accepted' = Accepted /\ Unsent' = Unsent /\ stopCh' = stopCh
    BY <1>3, <2>1 DEF ExportReset, Threads, Accepted, Unsent, stopCh
  <2>3. QED
    BY <1>0, <1>3, <2>1, <2>2 DEF ExportReset, IInv, OneCall, CallHasSpans, SpansInOrder,
       BatchBound, WorkerHasRoom, QueuedKept, WorkerEnds
<1>4. ASSUME NEW t \in Threads, ExportNothing(t) PROVE IInv'
  <2>1. /\ MutexFree /\ MutexFree' /\ export[t] = "lock" /\ batch = <<>> /\ Len(batch) = 0
        /\ export' = [export EXCEPT ![t] = "idle"]
    BY <1>0, <1>4 DEF ExportNothing, ExportDone, MutexFree, TypeOK
  <2>2. Worker \in Threads /\ Accepted' = Accepted /\ Unsent' = Unsent /\ stopCh' = stopCh
    BY <1>4, <2>1 DEF ExportNothing, Threads, Accepted, Unsent, stopCh
  <2>3. OneCall'  BY <2>1 DEF OneCall, MutexFree
  <2>4. WorkerHasRoom' /\ WorkerEnds'
    BY <1>0, <1>4, <2>1, <2>2 DEF ExportNothing, IInv, WorkerHasRoom, WorkerEnds, TypeOK
  <2>5. QED
    BY <1>0, <1>4, <2>1, <2>2, <2>3, <2>4 DEF ExportNothing, IInv, CallHasSpans,
       SpansInOrder, BatchBound, QueuedKept
<1>5. ASSUME NEW t \in Threads, ExportCall(t) PROVE IInv'
  <2>1. /\ MutexFree /\ ~MutexFree' /\ export[t] = "lock" /\ batch # <<>>
        /\ export' = [export EXCEPT ![t] = "call"]
    BY <1>0, <1>5 DEF ExportCall, MutexFree, TypeOK
  <2>2. /\ Worker \in Threads /\ Accepted' = Accepted /\ stopCh' = stopCh
        /\ Unsent = batch /\ Unsent' = <<>>
    BY <1>5, <2>1 DEF ExportCall, Threads, Accepted, Unsent, stopCh
  <2>3. OneCall'  BY <1>0, <2>1 DEF OneCall, MutexFree, TypeOK
  <2>4. SpansInOrder'
    <3>1. received = attempted \o batch \o hand  BY <2>2 DEF IInv, SpansInOrder
    <3>2. received' = received /\ attempted' = attempted \o batch /\ hand' = hand
      BY <1>5 DEF ExportCall
    <3>3. (attempted \o batch) \in Seq(Spans)
      <4>1. attempted \in Seq(Spans) /\ batch \in Seq(Spans)  BY <1>0 DEF TypeOK
      <4>2. QED  BY <4>1, ConcatProperties
    <3>4. (attempted \o batch) \o <<>> = attempted \o batch  BY <3>3, ConcatEmptySeq
    <3>5. QED  BY <2>2, <3>1, <3>2, <3>4 DEF SpansInOrder
  <2>5. WorkerHasRoom' /\ WorkerEnds'
    BY <1>0, <1>5, <2>1, <2>2 DEF ExportCall, IInv, WorkerHasRoom, WorkerEnds, TypeOK
  <2>6. QED
    BY <1>0, <1>5, <2>1, <2>2, <2>3, <2>4, <2>5 DEF ExportCall, IInv, CallHasSpans,
       BatchBound, QueuedKept
<1>6. ASSUME NEW t \in Threads, ExportReturn(t) PROVE IInv'
  <2>1. /\ ~MutexFree /\ export[t] = "call" /\ batch' = <<>> /\ Len(batch') = 0
        /\ export' = [export EXCEPT ![t] = "idle"]
    BY <1>0, <1>6 DEF ExportReturn, ExportDone, BatchAfter, MutexFree, TypeOK
  <2>2. MutexFree' /\ OneCall'
    BY <1>0, <2>1 DEF IInv, OneCall, MutexFree, TypeOK
  <2>3. /\ Worker \in Threads /\ Accepted' = Accepted /\ stopCh' = stopCh
        /\ Unsent = <<>> /\ Unsent' = <<>>
    BY <1>6, <2>1, <2>2 DEF ExportReturn, Threads, Accepted, Unsent, stopCh
  <2>4. WorkerHasRoom' /\ WorkerEnds'
    BY <1>0, <1>6, <2>1, <2>3 DEF ExportReturn, IInv, WorkerHasRoom, WorkerEnds, TypeOK
  <2>5. QED
    BY <1>0, <1>6, <2>1, <2>2, <2>3, <2>4 DEF ExportReturn, IInv, CallHasSpans,
       SpansInOrder, BatchBound, QueuedKept
<1>7. ASSUME WorkerReceive PROVE IInv'
  <2>1. /\ MutexFree' = MutexFree /\ Unsent' = Unsent /\ stopCh' = stopCh
        /\ Accepted' = Accepted
    BY <1>7 DEF WorkerReceive, MutexFree, Unsent, stopCh, Accepted
  <2>2. /\ hand = <<>> /\ export[Worker] = "idle" /\ worker \in {"process", "drain"}
        /\ queue \in Seq(Spans \union Flushers) /\ queue # <<>> /\ queue' = Tail(queue)
    BY <1>0, <1>7 DEF WorkerReceive, WorkerFree, TypeOK
  <2>3. ToSet(queue) = {Head(queue)} \union ToSet(queue')
    BY <2>2, TailElements
  <2>4. SpansInOrder' /\ QueuedKept' /\ ToSet(received) \subseteq ToSet(received')
    <3>1. CASE Head(queue) \in Spans
      <4>1. hand' = <<Head(queue)>> /\ received' = Append(received, Head(queue))
            /\ attempted' = attempted
        BY <1>7, <3>1 DEF WorkerReceive
      <4>2. ToSet(received') = ToSet(received) \union {Head(queue)}
        BY <1>0, <3>1, <4>1, AppendElements DEF TypeOK
      <4>3. (attempted \o Unsent) \in Seq(Spans)
        <5>1. attempted \in Seq(Spans) /\ Unsent \in Seq(Spans)  BY <1>0 DEF TypeOK, Unsent
        <5>2. QED  BY <5>1, ConcatProperties
      <4>4. received = attempted \o Unsent
        <5>1. received = attempted \o Unsent \o <<>>  BY <2>2 DEF IInv, SpansInOrder
        <5>2. QED  BY <5>1, <4>3, ConcatEmptySeq
      <4>5. received' = attempted \o Unsent \o <<Head(queue)>>
        BY <3>1, <4>1, <4>3, <4>4, AppendIsConcat
      <4>6. QED
        BY <2>1, <2>3, <4>1, <4>2, <4>5 DEF SpansInOrder, QueuedKept, IInv
    <3>2. CASE Head(queue) \in Flushers
      <4>1. UNCHANGED <<hand, received, attempted>> /\ Head(queue) \notin Spans
        BY <1>7, <3>2 DEF WorkerReceive
      <4>2. QED
        BY <2>1, <2>3, <4>1 DEF SpansInOrder, QueuedKept, IInv, Accepted
    <3>3. QED  BY <1>7, <3>1, <3>2 DEF WorkerReceive
  <2>5. QED
    BY <1>0, <1>7, <2>1, <2>2, <2>4 DEF WorkerReceive, IInv, OneCall, CallHasSpans,
       BatchBound, WorkerHasRoom, WorkerEnds
<1>8. ASSUME WorkerAppend PROVE IInv'
  <2>1. /\ hand # <<>> /\ hand' = <<>> /\ batch' = batch \o hand
        /\ MutexFree /\ export[Worker] = "idle"
        /\ worker \in {"process", "drain"} /\ Len(batch) < MaxBatch
    BY <1>8 DEF WorkerAppend, IInv, WorkerHasRoom
  <2>2. /\ MutexFree' /\ OneCall' /\ Worker \in Threads
    BY <1>0, <1>8, <2>1 DEF WorkerAppend, MutexFree, OneCall, Threads, TypeOK
  <2>3. /\ Accepted' = Accepted /\ stopCh' = stopCh /\ Unsent = batch /\ Unsent' = batch'
    BY <1>8, <2>1, <2>2 DEF WorkerAppend, Accepted, Unsent, stopCh
  <2>4. SpansInOrder'
    <3>1. received = attempted \o batch \o hand  BY <2>3 DEF IInv, SpansInOrder
    <3>2. received' = received /\ attempted' = attempted
      BY <1>8 DEF WorkerAppend
    <3>3. attempted \in Seq(Spans) /\ batch \in Seq(Spans) /\ hand \in Seq(Spans)
      BY <1>0 DEF TypeOK
    <3>4. /\ (batch \o hand) \in Seq(Spans)
          /\ (attempted \o batch) \o hand = attempted \o (batch \o hand)
      BY <3>3, ConcatProperties, ConcatAssociative
    <3>5. (attempted \o (batch \o hand)) \in Seq(Spans)
      BY <3>3, <3>4, ConcatProperties
    <3>6. received' = attempted' \o batch' \o hand'
      BY <2>1, <3>1, <3>2, <3>4, <3>5, ConcatEmptySeq
    <3>7. QED  BY <2>3, <3>6 DEF SpansInOrder
  <2>5. Len(batch') = Len(batch) + 1 /\ Len(batch) \in Nat
    BY <1>0, <2>1 DEF TypeOK
  <2>6. BatchBound'  BY <2>1, <2>5 DEF BatchBound
  <2>7. WorkerHasRoom'
    <3>1. CASE ShouldExport(batch')
      BY <1>0, <1>8, <2>1, <2>2, <3>1 DEF WorkerAppend, WorkerHasRoom, TypeOK
    <3>2. CASE ~ShouldExport(batch')
      <4>1. Len(batch') < MaxBatch  BY <2>1, <2>5, <3>2 DEF ShouldExport
      <4>2. QED  BY <2>1, <4>1 DEF WorkerHasRoom
    <3>3. QED  BY <3>1, <3>2
  <2>8. WorkerEnds'
    BY <1>8, <2>1, <2>3 DEF WorkerAppend, IInv, WorkerEnds
  <2>9. QED
    BY <1>0, <1>8, <2>2, <2>3, <2>4, <2>6, <2>7, <2>8 DEF WorkerAppend, IInv,
       CallHasSpans, QueuedKept
<1>9. ASSUME WorkerTimer PROVE IInv'
  <2>1. /\ worker = "process" /\ hand = <<>> /\ export[Worker] = "idle"
        /\ export' = [export EXCEPT ![Worker] = "reset"] /\ Worker \in Threads
    BY <1>9 DEF WorkerTimer, WorkerFree, Threads
  <2>2. MutexFree' = MutexFree /\ OneCall'
    BY <1>0, <2>1 DEF MutexFree, OneCall, IInv, TypeOK
  <2>3. Accepted' = Accepted /\ Unsent' = Unsent /\ stopCh' = stopCh
    BY <1>9, <2>2 DEF WorkerTimer, Accepted, Unsent, stopCh
  <2>4. QED
    BY <1>0, <1>9, <2>1, <2>2, <2>3 DEF WorkerTimer, IInv, CallHasSpans, SpansInOrder,
       BatchBound, WorkerHasRoom, QueuedKept, WorkerEnds, TypeOK
<1>10. ASSUME WorkerStop PROVE IInv'
  <2>1. /\ MutexFree' = MutexFree /\ Accepted' = Accepted /\ Unsent' = Unsent
        /\ stopCh' = stopCh /\ stopCh /\ worker = "process" /\ worker' = "drain"
        /\ hand = <<>>
    BY <1>10 DEF WorkerStop, WorkerFree, MutexFree, Accepted, Unsent, stopCh
  <2>2. QED
    BY <1>0, <1>10, <2>1 DEF WorkerStop, IInv, OneCall, CallHasSpans, SpansInOrder,
       BatchBound, WorkerHasRoom, QueuedKept, WorkerEnds
<1>11. ASSUME WorkerDrained PROVE IInv'
  <2>1. /\ worker = "drain" /\ hand = <<>> /\ export[Worker] = "idle" /\ queue = <<>>
        /\ export' = [export EXCEPT ![Worker] = "reset"] /\ Worker \in Threads
        /\ worker' = "final"
    BY <1>11 DEF WorkerDrained, Drained, WorkerFree, Threads
  <2>2. MutexFree' = MutexFree /\ OneCall'
    BY <1>0, <2>1 DEF MutexFree, OneCall, IInv, TypeOK
  <2>3. Accepted' = Accepted /\ Unsent' = Unsent /\ stopCh' = stopCh
    BY <1>11, <2>2 DEF WorkerDrained, Accepted, Unsent, stopCh
  <2>4. early \subseteq ToSet(received)
    <3>1. ToSet(queue) = {}  BY <2>1 DEF ToSet
    <3>2. QED  BY <3>1 DEF IInv, QueuedKept
  <2>5. QED
    BY <1>0, <1>11, <2>1, <2>2, <2>3, <2>4 DEF WorkerDrained, IInv, CallHasSpans,
       SpansInOrder, BatchBound, WorkerHasRoom, QueuedKept, WorkerEnds, TypeOK
<1>12. ASSUME WorkerExit PROVE IInv'
  <2>1. /\ worker = "final" /\ worker' = "done" /\ hand = <<>> /\ export[Worker] = "idle"
        /\ MutexFree' = MutexFree /\ Accepted' = Accepted /\ Unsent' = Unsent
        /\ stopCh' = stopCh
    BY <1>12 DEF WorkerExit, WorkerFree, MutexFree, Accepted, Unsent, stopCh
  <2>2. QED
    BY <1>0, <1>12, <2>1 DEF WorkerExit, IInv, OneCall, CallHasSpans, SpansInOrder,
       BatchBound, WorkerHasRoom, QueuedKept, WorkerEnds
<1>13. CASE TimerFire
  BY <1>0, <1>13, Bystander DEF TimerFire
<1>14. ASSUME NEW f \in Flushers, FlushStart(f) PROVE IInv'
  BY <1>0, <1>14, Bystander DEF FlushStart
<1>15. ASSUME NEW f \in Flushers, FlushEnqueue(f) PROVE IInv'
  <2>1. ToSet(queue') = ToSet(queue) \union {f}
    <3>1. queue \in Seq(Spans \union Flushers) /\ queue' = Append(queue, f)
      BY <1>0, <1>15 DEF FlushEnqueue, TypeOK
    <3>2. QED  BY <3>1, AppendElements
  <2>2. /\ MutexFree' = MutexFree /\ Accepted' = Accepted /\ Unsent' = Unsent
        /\ stopCh' = stopCh
    BY <1>15 DEF FlushEnqueue, MutexFree, Accepted, Unsent, stopCh
  <2>3. QED
    BY <1>0, <1>15, <2>1, <2>2 DEF FlushEnqueue, IInv, OneCall, CallHasSpans,
       SpansInOrder, BatchBound, WorkerHasRoom, QueuedKept, WorkerEnds
<1>16. ASSUME NEW f \in Flushers, FlushExport(f) PROVE IInv'
  <2>1. export' = [export EXCEPT ![f] = "reset"] /\ f \in Threads /\ f # Worker
    BY <1>16 DEF FlushExport, Threads
  <2>2. export[f] = "idle"
    BY <1>16 DEF FlushExport, IInv, FlushBeforeExport
  <2>3. /\ MutexFree' = MutexFree
        /\ \A u \in Threads : (export'[u] = "call" <=> export[u] = "call")
        /\ export'[Worker] = export[Worker]
    BY <1>0, <2>1, <2>2 DEF MutexFree, TypeOK
  <2>4. Accepted' = Accepted /\ Unsent' = Unsent /\ stopCh' = stopCh
    BY <1>16, <2>3 DEF FlushExport, Accepted, Unsent, stopCh
  <2>5. QED
    BY <1>0, <1>16, <2>3, <2>4 DEF FlushExport, IInv, OneCall, CallHasSpans, SpansInOrder,
       BatchBound, WorkerHasRoom, QueuedKept, WorkerEnds
<1>17. ASSUME NEW f \in Flushers, FlushAborted(f) \/ FlushCancelled(f) \/ FlushFinished(f)
       PROVE  IInv'
  BY <1>0, <1>17, Bystander DEF FlushAborted, FlushCancelled, FlushFinished, FlushReturn
<1>18. ASSUME NEW c \in Closers, ShutdownFirst(c) PROVE IInv'
  <2>1. /\ MutexFree' = MutexFree /\ Accepted' = Accepted /\ Unsent' = Unsent
        /\ early' = Accepted /\ stop = "running" /\ stop' = "stopped"
    BY <1>18 DEF ShutdownFirst, stopped, MutexFree, Accepted, Unsent
  <2>2. worker = "process"
    BY <2>1 DEF IInv, WorkerEnds, stopCh
  <2>3. QED
    BY <1>0, <1>18, <2>1, <2>2 DEF ShutdownFirst, IInv, OneCall, CallHasSpans,
       SpansInOrder, BatchBound, WorkerHasRoom, QueuedKept, WorkerEnds
<1>19. ASSUME NEW c \in Closers, ShutdownAgain(c) \/ ShutdownReturn(c) PROVE IInv'
  BY <1>0, <1>19, Bystander DEF ShutdownAgain, ShutdownReturn
<1>20. ASSUME CloseStopCh \/ StopExporter PROVE IInv'
  <2>1. /\ MutexFree' = MutexFree /\ Accepted' = Accepted /\ Unsent' = Unsent
        /\ (stopCh => stopCh')
    BY <1>20 DEF CloseStopCh, StopExporter, MutexFree, Accepted, Unsent, stopCh
  <2>2. QED
    BY <1>0, <1>20, <2>1 DEF CloseStopCh, StopExporter, IInv, OneCall, CallHasSpans,
       SpansInOrder, BatchBound, WorkerHasRoom, QueuedKept, WorkerEnds
<1>21. ASSUME NEW x \in Flushers \union Closers, CtxDone(x) PROVE IInv'
  BY <1>0, <1>21, Bystander DEF CtxDone
<1>22. CASE UNCHANGED vars
  BY <1>0, <1>22, Bystander DEF vars
<1>23. QED
  BY <1>1, <1>2, <1>3, <1>4, <1>5, <1>6, <1>7, <1>8, <1>9, <1>10, <1>11, <1>12,
     <1>13, <1>14, <1>15, <1>16, <1>17, <1>18, <1>19, <1>20, <1>21, <1>22
  DEF Next, Export, WorkerStep, FlushStep, Terminated

(* The invariant holds throughout: the source of the theorems below.       *)
THEOREM IInvAlways == Spec => []IInv
BY InitIInv, NextIInv, PTL DEF Spec

(* exportSpans (called by the worker and by the goroutines of ForceFlush)  *)
(* hands every span the worker takes from the queue to the exporter at     *)
(* most once and in the order of the queue.                                *)
THEOREM SpansStayInOrder == Spec => []SpansInOrder
<1>1. IInv => SpansInOrder  BY DEF IInv
<1>2. QED  BY <1>1, IInvAlways, PTL

(* bsp.batch, and with it every call of the exporter, never exceeds        *)
(* MaxExportBatchSize.                                                     *)
THEOREM BatchBounded == Spec => []BatchBound
<1>1. IInv => BatchBound  BY DEF IInv
<1>2. QED  BY <1>1, IInvAlways, PTL

(* With the worker gone and batch empty, what was received is what was     *)
(* handed over.                                                            *)
LEMMA ShutdownHandsOver == IInv => ShutdownFlushes
<1> SUFFICES ASSUME IInv, stop = "down"
             PROVE  MutexFree /\ batch = <<>> /\ early \subseteq ToSet(attempted)
  BY DEF ShutdownFlushes
<1>1. hand = <<>> /\ batch = <<>> /\ early \subseteq ToSet(received)
  BY DEF IInv, WorkerEnds
<1>2. MutexFree  BY <1>1 DEF IInv, CallHasSpans
<1>3. received = attempted
  <2>1. received = (attempted \o <<>>) \o <<>>
    BY <1>1, <1>2 DEF IInv, SpansInOrder, Unsent
  <2>2. attempted \in Seq(Spans)  BY DEF IInv, TypeOK
  <2>3. QED  BY <2>1, <2>2, ConcatEmptySeq
<1>4. QED  BY <1>1, <1>2, <1>3

(* When Shutdown shuts the exporter down, every span queued before         *)
(* Shutdown was called has been handed to it, no call of it is in progress *)
(* and none can follow, because batch is empty and the worker is gone.     *)
THEOREM ShutdownHasFlushed == Spec => []ShutdownFlushes
BY ShutdownHandsOver, IInvAlways, PTL

-----------------------------------------------------------------------------
(* What a ForceFlush that returns nil has covered.                         *)

(* No call has begun: FlushInv holds.                                      *)
LEMMA InitFlushInv == Init => FlushInv
<1> SUFFICES ASSUME Init PROVE FlushInv
  OBVIOUS
<1>1. IInv /\ MutexFree  BY InitIInv DEF Init, MutexFree, Threads
<1>2. queue = <<>> /\ DOMAIN queue = {} /\ ToSet(queue) = {} /\ closed = {}
  BY DEF Init, ToSet
<1>3. \A f \in Flushers : before[f] = {} /\ flush[f] = "idle"  BY DEF Init
<1>4. QED
  BY <1>1, <1>2, <1>3 DEF FlushInv, BeforeAccepted, MarkerBehind, MarkerSent, MarkerFirst,
     MarkerReceived, ExportCovers, CallHandsOver, ResultAwaited

(* A step that leaves the queue, the batch, the markers and the results    *)
(* alone and starts no flush and no export of one preserves FlushInv.      *)
LEMMA FlushBystander ==
  ASSUME FlushInv, IInv',
         UNCHANGED <<queue, batch, closed, wait, received, attempted, before>>,
         Accepted' = Accepted, MutexFree' = MutexFree,
         \A f \in Flushers : export[f] = "idle" => export'[f] = "idle",
         \A f \in Flushers : flush'[f] \in {"idle", "enqueue"} => flush[f] \in {"idle", "enqueue"},
         \A f \in Flushers : flush'[f] = "exported" => flush[f] = "exported" \/ wait[f] # "none"
  PROVE  FlushInv'
<1>1. BeforeAccepted' /\ MarkerBehind' /\ MarkerReceived' /\ ExportCovers' /\ CallHandsOver'
  BY DEF FlushInv, BeforeAccepted, MarkerBehind, MarkerReceived, ExportCovers, CallHandsOver
<1>2. MarkerSent'  BY DEF FlushInv, MarkerSent
<1>3. MarkerFirst'  BY DEF FlushInv, MarkerFirst
<1>4. ResultAwaited'  BY DEF FlushInv, ResultAwaited
<1>5. QED  BY <1>1, <1>2, <1>3, <1>4 DEF FlushInv

(* A span that joins the queue joins it behind the markers that are there. *)
LEMMA EnqueueFlushInv ==
  ASSUME FlushInv, TypeOK, IInv', NEW s \in Spans, OnEndEnqueue(s)
  PROVE  FlushInv'
<1> USE DEF workVars, flushVars, stopVars
<1>1. /\ UNCHANGED <<batch, closed, wait, received, attempted, before, flush, export>>
      /\ Accepted \subseteq Accepted' /\ MutexFree' = MutexFree
  BY DEF OnEndEnqueue, MutexFree, Accepted, TypeOK
<1>2. BeforeAccepted' /\ MarkerReceived' /\ ExportCovers' /\ CallHandsOver' /\ ResultAwaited'
  BY <1>1 DEF FlushInv, BeforeAccepted, MarkerReceived, ExportCovers, CallHandsOver,
              ResultAwaited
<1>3. queue \in Seq(Spans \union Flushers) /\ s \notin Flushers  BY DEF TypeOK
<1>4. CASE queue' = Append(queue, s)
  <2>1. /\ DOMAIN queue = 1..Len(queue) /\ DOMAIN queue' = 1..Len(queue) + 1
        /\ Len(queue) \in Nat
        /\ \A i \in 1..Len(queue) : queue'[i] = queue[i]
        /\ queue'[Len(queue) + 1] = s
    BY <1>3, <1>4, AppendProperties, LenProperties
  <2>2. MarkerBehind'
    <3> SUFFICES ASSUME NEW f \in Flushers, NEW i \in DOMAIN queue', queue'[i] = f
                 PROVE  before[f] \subseteq ToSet(received) \union {queue'[j] : j \in 1..i - 1}
      BY <1>1 DEF MarkerBehind
    <3>1. i \in 1..Len(queue) /\ queue[i] = f  BY <2>1, <1>3
    <3>2. before[f] \subseteq ToSet(received) \union {queue[j] : j \in 1..i - 1}
      BY <2>1, <3>1 DEF FlushInv, MarkerBehind
    <3>3. \A j \in 1..i - 1 : queue[j] = queue'[j]  BY <2>1, <3>1
    <3>4. QED  BY <3>2, <3>3
  <2>3. ToSet(queue') = ToSet(queue) \union {s}  BY <1>3, <1>4, AppendElements
  <2>4. MarkerSent' /\ MarkerFirst'
    BY <1>1, <1>3, <2>3 DEF FlushInv, MarkerSent, MarkerFirst
  <2>5. QED  BY <1>2, <2>2, <2>4 DEF FlushInv
<1>5. CASE UNCHANGED queue
  BY <1>1, <1>2, <1>5 DEF FlushInv, MarkerBehind, MarkerSent, MarkerFirst
<1>6. QED  BY <1>4, <1>5 DEF OnEndEnqueue

(* exportSpans: a goroutine of a flush is past its marker, and whatever    *)
(* result it sends is sent with nothing left to hand over.                 *)
LEMMA ExportFlushInv ==
  ASSUME FlushInv, TypeOK, IInv', NEW t \in Threads,
         ExportNothing(t) \/ ExportCall(t) \/ ExportReturn(t)
  PROVE  FlushInv'
<1> USE DEF workVars, flushVars, stopVars
<1>1. /\ UNCHANGED <<queue, closed, received, before, flush, span>>
      /\ Accepted' = Accepted /\ export[t] # "idle"
      /\ \A f \in Flushers : f # t => export'[f] = export[f] /\ wait'[f] = wait[f]
  BY DEF ExportNothing, ExportCall, ExportReturn, ExportDone, Accepted, TypeOK, Threads
<1>2. BeforeAccepted' /\ MarkerBehind' /\ MarkerSent'
  BY <1>1 DEF FlushInv, BeforeAccepted, MarkerBehind, MarkerSent
<1>3. MarkerFirst'  BY <1>1 DEF FlushInv, MarkerFirst
<1>4. ResultAwaited'
  <2>1. \A f \in Flushers : wait'[f] = wait[f] \/ wait'[f] \in {"nil", "err"}
    BY DEF ExportNothing, ExportCall, ExportReturn, ExportDone, TypeOK
  <2>2. QED  BY <1>1, <2>1 DEF FlushInv, ResultAwaited
<1>5. CASE ExportNothing(t)
  <2>1. /\ batch = <<>> /\ ToSet(batch) = {} /\ MutexFree /\ MutexFree'
        /\ UNCHANGED <<batch, attempted>>
    BY <1>5 DEF ExportNothing, ExportDone, MutexFree, TypeOK, ToSet
  <2>2. MarkerReceived' /\ ExportCovers' /\ CallHandsOver'
    BY <1>1, <2>1 DEF FlushInv, MarkerReceived, ExportCovers, CallHandsOver
  <2>3. QED  BY <1>2, <1>3, <1>4, <2>2 DEF FlushInv
<1>6. CASE ExportCall(t)
  <2>1. attempted' = attempted \o batch /\ UNCHANGED <<batch, wait>>
    BY <1>6 DEF ExportCall
  <2>2. attempted \in Seq(Spans) /\ batch \in Seq(Spans)  BY DEF TypeOK
  <2>3. ToSet(attempted') = ToSet(attempted) \union ToSet(batch)
    BY <2>1, <2>2, ConcatElements
  <2>4. MarkerReceived' /\ ExportCovers' /\ CallHandsOver'
    BY <1>1, <2>1, <2>3 DEF FlushInv, MarkerReceived, ExportCovers, CallHandsOver
  <2>5. QED  BY <1>2, <1>3, <1>4, <2>4 DEF FlushInv
<1>7. CASE ExportReturn(t)
  <2>1. /\ ~MutexFree /\ batch' = <<>> /\ ToSet(batch') = {} /\ attempted' = attempted
    BY <1>7 DEF ExportReturn, BatchAfter, MutexFree, ToSet
  <2>2. ToSet(batch) \subseteq ToSet(attempted)  BY <2>1 DEF FlushInv, CallHandsOver
  <2>3. \A f \in closed : before[f] \subseteq ToSet(attempted)
    BY <2>2 DEF FlushInv, MarkerReceived
  <2>4. MarkerReceived' /\ ExportCovers' /\ CallHandsOver'
    BY <1>1, <2>1, <2>3 DEF MarkerReceived, ExportCovers, CallHandsOver
  <2>5. QED  BY <1>2, <1>3, <1>4, <2>4 DEF FlushInv
<1>8. QED  BY <1>5, <1>6, <1>7

(* The worker takes the head of the queue: what was behind it comes one    *)
(* step closer, and a marker that is taken has no span in front of it.     *)
LEMMA ReceiveFlushInv ==
  ASSUME FlushInv, TypeOK, IInv', WorkerReceive
  PROVE  FlushInv'
<1> USE DEF workVars, flushVars, stopVars
<1>1. /\ UNCHANGED <<batch, wait, attempted, before, flush, export, span>>
      /\ Accepted' = Accepted /\ MutexFree' = MutexFree
      /\ queue # <<>> /\ queue' = Tail(queue) /\ hand = <<>>
  BY DEF WorkerReceive, WorkerFree, Accepted, MutexFree
<1>2. BeforeAccepted' /\ CallHandsOver' /\ ResultAwaited'
  BY <1>1 DEF FlushInv, BeforeAccepted, CallHandsOver, ResultAwaited
<1>3. queue \in Seq(Spans \union Flushers) /\ received \in Seq(Spans)  BY DEF TypeOK
<1>4. /\ DOMAIN queue = 1..Len(queue) /\ DOMAIN queue' = 1..Len(queue) - 1
      /\ Len(queue) \in Nat \ {0} /\ queue' \in Seq(Spans \union Flushers)
      /\ \A i \in 1..Len(queue) - 1 : queue'[i] = queue[i + 1]
      /\ Head(queue) = queue[1]
  <2>1. /\ Tail(queue) \in Seq(Spans \union Flushers) /\ Len(Tail(queue)) = Len(queue) - 1
        /\ \A i \in 1..Len(Tail(queue)) : Tail(queue)[i] = queue[i + 1]
    BY <1>1, <1>3, HeadTailProperties
  <2>2. Head(queue) = queue[1] /\ Len(queue) \in Nat \ {0}  BY <1>1, <1>3
  <2>3. DOMAIN queue = 1..Len(queue) /\ DOMAIN Tail(queue) = 1..Len(queue) - 1
    BY <1>3, <2>1, LenProperties
  <2>4. QED  BY <1>1, <2>1, <2>2, <2>3
<1>5. ToSet(queue) = {Head(queue)} \union ToSet(queue')
  BY <1>1, <1>3, TailElements
<1>6. /\ ToSet(received) \subseteq ToSet(received')
      /\ Head(queue) \in Spans => Head(queue) \in ToSet(received')
  <2>1. CASE Head(queue) \in Spans
    <3>1. received' = Append(received, Head(queue))  BY <2>1, KindsDisjoint DEF WorkerReceive
    <3>2. ToSet(received') = ToSet(received) \union {Head(queue)}
      BY <1>3, <2>1, <3>1, AppendElements
    <3>3. QED  BY <3>2
  <2>2. CASE Head(queue) \notin Spans
    BY <2>2 DEF WorkerReceive
  <2>3. QED  BY <2>1, <2>2
<1>7. MarkerBehind'
  <2> SUFFICES ASSUME NEW f \in Flushers, NEW i \in DOMAIN queue', queue'[i] = f
               PROVE  before[f] \subseteq ToSet(received') \union {queue'[j] : j \in 1..i - 1}
    BY <1>1 DEF MarkerBehind
  <2>1. i + 1 \in DOMAIN queue /\ queue[i + 1] = f /\ i \in Nat \ {0}  BY <1>4
  <2>2. before[f] \subseteq ToSet(received) \union {queue[j] : j \in 1..i}
    BY <2>1 DEF FlushInv, MarkerBehind
  <2>3. ASSUME NEW j \in 1..i, queue[j] \in Spans
        PROVE  queue[j] \in ToSet(received') \union {queue'[k] : k \in 1..i - 1}
    <3>1. CASE j = 1  BY <1>4, <1>6, <2>3, <3>1
    <3>2. CASE j # 1
      <4>1. j - 1 \in 1..i - 1 /\ j - 1 \in 1..Len(queue) - 1 /\ (j - 1) + 1 = j
        BY <1>4, <2>1, <3>2
      <4>2. queue'[j - 1] = queue[j]  BY <1>4, <4>1
      <4>3. QED  BY <4>1, <4>2
    <3>3. QED  BY <3>1, <3>2
  <2>4. before[f] \subseteq Spans  BY DEF TypeOK
  <2>5. ASSUME NEW x \in before[f]
        PROVE  x \in ToSet(received') \union {queue'[k] : k \in 1..i - 1}
    <3>1. CASE x \in ToSet(received)  BY <1>6, <3>1
    <3>2. CASE x \in {queue[j] : j \in 1..i}
      <4>1. PICK j \in 1..i : x = queue[j]  BY <3>2
      <4>2. QED  BY <2>3, <2>4, <4>1
    <3>3. QED  BY <2>2, <3>1, <3>2
  <2>6. QED  BY <2>5
<1>8. closed' \subseteq closed \union ({Head(queue)} \intersect Flushers) /\ closed \subseteq closed'
  BY DEF WorkerReceive
<1>9. MarkerSent'
  <2>1. \A f \in Flushers : f \in ToSet(queue') \union closed' => f \in ToSet(queue) \union closed
    BY <1>5, <1>8
  <2>2. QED  BY <1>1, <2>1 DEF FlushInv, MarkerSent
<1>10. MarkerFirst'  BY <1>1, <1>5, <1>8 DEF FlushInv, MarkerFirst
<1>11. ASSUME NEW f \in closed', f \notin closed
       PROVE  /\ before[f] \subseteq ToSet(attempted) \union ToSet(batch)
              /\ wait[f] = "none"
  <2>1. f = Head(queue) /\ f \in Flushers /\ f \in ToSet(queue)  BY <1>5, <1>8, <1>11
  <2>2. wait[f] = "none"  BY <1>11, <2>1 DEF FlushInv, MarkerFirst
  <2>3. before[f] \subseteq ToSet(received)
    <3>1. 1 \in DOMAIN queue /\ queue[1] = f  BY <1>4, <2>1
    <3>2. before[f] \subseteq ToSet(received) \union {queue[j] : j \in 1..1 - 1}
      BY <2>1, <3>1 DEF FlushInv, MarkerBehind
    <3>3. 1..1 - 1 = {}  OBVIOUS
    <3>4. QED  BY <3>2, <3>3
  <2>4. received = attempted \o Unsent
    <3>1. attempted \in Seq(Spans) /\ Unsent \in Seq(Spans)  BY DEF TypeOK, Unsent
    <3>2. received = (attempted \o Unsent) \o <<>>
      BY <1>1 DEF FlushInv, IInv, SpansInOrder
    <3>3. QED  BY <3>1, <3>2, ConcatProperties, ConcatEmptySeq
  <2>5. ToSet(received) = ToSet(attempted) \union ToSet(Unsent)
    <3>1. attempted \in Seq(Spans) /\ Unsent \in Seq(Spans)  BY DEF TypeOK, Unsent
    <3>2. QED  BY <2>4, <3>1, ConcatElements
  <2>6. ToSet(Unsent) \subseteq ToSet(batch)  BY DEF Unsent, ToSet
  <2>7. QED  BY <2>2, <2>3, <2>5, <2>6
<1>12. MarkerReceived' /\ ExportCovers'
  BY <1>1, <1>11 DEF FlushInv, MarkerReceived, ExportCovers
<1>13. QED  BY <1>2, <1>7, <1>9, <1>10, <1>12 DEF FlushInv

(* The steps of a ForceFlush: one that begins has no marker yet, and the   *)
(* marker joins the queue behind every span queued so far.                 *)
LEMMA CallFlushInv ==
  ASSUME FlushInv, TypeOK, IInv', NEW g \in Flushers,
         FlushStart(g) \/ FlushEnqueue(g) \/ FlushExport(g)
  PROVE  FlushInv'
<1> USE DEF workVars, flushVars, stopVars
<1>1. /\ UNCHANGED <<batch, closed, wait, received, attempted, span>>
      /\ Accepted' = Accepted
  BY DEF FlushStart, FlushEnqueue, FlushExport, Accepted
<1>2. CASE FlushStart(g)
  <2>1. /\ UNCHANGED <<queue, export>> /\ MutexFree' = MutexFree
        /\ flush[g] = "idle" /\ g \notin ToSet(queue) \union closed
        /\ \A f \in Flushers : f # g => before'[f] = before[f] /\ flush'[f] = flush[f]
        /\ before'[g] = Accepted /\ flush'[g] # "exported"
    BY <1>2 DEF FlushStart, MutexFree, FlushInv, MarkerSent, TypeOK
  <2>2. BeforeAccepted' /\ MarkerSent' /\ MarkerFirst' /\ ResultAwaited'
    BY <1>1, <2>1 DEF FlushInv, BeforeAccepted, MarkerSent, MarkerFirst, ResultAwaited
  <2>3. \A f \in closed : f \in Flushers /\ before'[f] = before[f]  BY <2>1 DEF TypeOK
  <2>4. MarkerReceived' /\ ExportCovers' /\ CallHandsOver'
    BY <1>1, <2>1, <2>3 DEF FlushInv, MarkerReceived, ExportCovers, CallHandsOver
  <2>5. \A i \in DOMAIN queue : queue[i] # g  BY <2>1 DEF ToSet
  <2>6. MarkerBehind'  BY <1>1, <2>1, <2>5 DEF FlushInv, MarkerBehind
  <2>7. QED  BY <2>2, <2>4, <2>6 DEF FlushInv
<1>3. CASE FlushEnqueue(g)
  <2>1. /\ UNCHANGED <<export, before>> /\ MutexFree' = MutexFree
        /\ flush[g] = "enqueue" /\ flush' = [flush EXCEPT ![g] = "wait"]
        /\ queue' = Append(queue, g)
    BY <1>3 DEF FlushEnqueue, MutexFree
  <2>2. BeforeAccepted' /\ MarkerReceived' /\ ExportCovers' /\ CallHandsOver' /\ ResultAwaited'
    BY <1>1, <2>1 DEF FlushInv, BeforeAccepted, MarkerReceived, ExportCovers, CallHandsOver,
                      ResultAwaited, TypeOK
  <2>3. queue \in Seq(Spans \union Flushers)  BY DEF TypeOK
  <2>4. /\ DOMAIN queue = 1..Len(queue) /\ DOMAIN queue' = 1..Len(queue) + 1
        /\ Len(queue) \in Nat
        /\ \A i \in 1..Len(queue) : queue'[i] = queue[i]
        /\ queue'[Len(queue) + 1] = g
    BY <2>1, <2>3, AppendProperties, LenProperties
  <2>5. MarkerBehind'
    <3> SUFFICES ASSUME NEW f \in Flushers, NEW i \in DOMAIN queue', queue'[i] = f
                 PROVE  before[f] \subseteq ToSet(received) \union {queue'[j] : j \in 1..i - 1}
      BY <1>1, <2>1 DEF MarkerBehind
    <3>1. \A j \in 1..i - 1 : j \in 1..Len(queue) /\ queue[j] = queue'[j]  BY <2>4
    <3>2. CASE i \in 1..Len(queue)
      <4>1. before[f] \subseteq ToSet(received) \union {queue[j] : j \in 1..i - 1}
        BY <2>4, <3>2 DEF FlushInv, MarkerBehind
      <4>2. QED  BY <3>1, <4>1
    <3>3. CASE i = Len(queue) + 1
      <4>1. before[f] \subseteq ToSet(received) \union ToSet(queue)
        BY DEF FlushInv, BeforeAccepted, IInv, QueuedKept
      <4>2. i - 1 = Len(queue)  BY <2>4, <3>3
      <4>3. ToSet(queue) \subseteq {queue'[j] : j \in 1..i - 1}  BY <2>4, <3>1, <4>2 DEF ToSet
      <4>4. QED  BY <4>1, <4>3
    <3>4. QED  BY <2>4, <3>2, <3>3
  <2>6. ToSet(queue') = ToSet(queue) \union {g}  BY <2>1, <2>3, AppendElements
  <2>7. MarkerSent'
    BY <1>1, <2>1, <2>6 DEF FlushInv, MarkerSent, TypeOK
  <2>8. MarkerFirst'
    <3>1. wait[g] = "none" /\ export[g] = "idle"
      BY <2>1 DEF FlushInv, IInv, FlushBeforeExport
    <3>2. QED  BY <1>1, <2>1, <2>6, <3>1 DEF FlushInv, MarkerFirst
  <2>9. QED  BY <2>2, <2>5, <2>7, <2>8 DEF FlushInv
<1>4. CASE FlushExport(g)
  <2>1. /\ UNCHANGED <<queue, before>> /\ export' = [export EXCEPT ![g] = "reset"]
        /\ flush' = [flush EXCEPT ![g] = "await"]
        /\ g \in closed \/ flush[g] = "enqueue"
        /\ flush[g] \in {"wait", "enqueue"}
    BY <1>4 DEF FlushExport, MarkerReached
  <2>2. export[g] = "idle"  BY <2>1 DEF FlushInv, IInv, FlushBeforeExport
  <2>3. MutexFree' = MutexFree  BY <2>1, <2>2 DEF MutexFree, TypeOK
  <2>4. BeforeAccepted' /\ MarkerBehind' /\ MarkerReceived' /\ ExportCovers' /\ CallHandsOver'
    BY <1>1, <2>1, <2>3 DEF FlushInv, BeforeAccepted, MarkerBehind, MarkerReceived,
       ExportCovers, CallHandsOver
  <2>5. MarkerSent' /\ ResultAwaited'
    BY <1>1, <2>1 DEF FlushInv, MarkerSent, ResultAwaited, TypeOK
  <2>6. g \notin closed => g \notin ToSet(queue)  BY <2>1 DEF FlushInv, MarkerSent
  <2>7. MarkerFirst'  BY <1>1, <2>1, <2>6 DEF FlushInv, MarkerFirst, TypeOK
  <2>8. QED  BY <2>4, <2>5, <2>7 DEF FlushInv
<1>5. QED  BY <1>2, <1>3, <1>4

(* Every step preserves FlushInv.                                          *)
LEMMA NextFlushInv == FlushInv /\ [Next]_vars => FlushInv'
<1> SUFFICES ASSUME FlushInv, [Next]_vars PROVE FlushInv'
  OBVIOUS
<1> USE DEF workVars, flushVars, stopVars
<1>0. TypeOK /\ TypeOK' /\ IInv'
  BY NextTypeOK, NextIInv DEF FlushInv, IInv
<1>1. ASSUME NEW s \in Spans, OnEndCheck(s) PROVE FlushInv'
  <2>1. Accepted' = Accepted  BY <1>0, <1>1 DEF OnEndCheck, Accepted, TypeOK
  <2>2. MutexFree' = MutexFree  BY <1>1 DEF OnEndCheck, MutexFree
  <2>3. QED  BY <1>0, <1>1, <2>1, <2>2, FlushBystander DEF OnEndCheck
<1>2. ASSUME NEW s \in Spans, OnEndEnqueue(s) PROVE FlushInv'
  BY <1>0, <1>2, EnqueueFlushInv
<1>3. ASSUME NEW t \in Threads, ExportReset(t) PROVE FlushInv'
  <2>1. export[t] = "reset" /\ export' = [export EXCEPT ![t] = "lock"]  BY <1>3 DEF ExportReset
  <2>2. MutexFree' = MutexFree  BY <1>0, <2>1 DEF MutexFree, TypeOK
  <2>3. \A f \in Flushers : export[f] = "idle" => export'[f] = "idle"
    BY <1>0, <2>1 DEF TypeOK, Threads
  <2>4. Accepted' = Accepted  BY <1>3 DEF ExportReset, Accepted
  <2>5. QED  BY <1>0, <1>3, <2>2, <2>3, <2>4, FlushBystander DEF ExportReset
<1>4. ASSUME NEW t \in Threads, ExportNothing(t) \/ ExportCall(t) \/ ExportReturn(t)
      PROVE  FlushInv'
  BY <1>0, <1>4, ExportFlushInv
<1>5. CASE WorkerReceive
  BY <1>0, <1>5, ReceiveFlushInv
<1>6. ASSUME WorkerAppend PROVE FlushInv'
  <2>1. /\ UNCHANGED <<queue, closed, wait, received, attempted, before, flush, span>>
        /\ Accepted' = Accepted /\ MutexFree /\ MutexFree' /\ batch' = batch \o hand
        /\ \A f \in Flushers : export'[f] = export[f]
    BY <1>0, <1>6, KindsDisjoint DEF WorkerAppend, Accepted, MutexFree, TypeOK, Threads
  <2>2. batch \in Seq(Spans) /\ hand \in Seq(Spans)  BY <1>0 DEF TypeOK
  <2>3. ToSet(batch') = ToSet(batch) \union ToSet(hand)  BY <2>1, <2>2, ConcatElements
  <2>4. BeforeAccepted' /\ MarkerBehind' /\ MarkerSent' /\ MarkerFirst'
    BY <2>1 DEF FlushInv, BeforeAccepted, MarkerBehind, MarkerSent, MarkerFirst
  <2>5. MarkerReceived' /\ ExportCovers' /\ CallHandsOver' /\ ResultAwaited'
    BY <2>1, <2>3 DEF FlushInv, MarkerReceived, ExportCovers, CallHandsOver, ResultAwaited
  <2>6. QED  BY <1>0, <2>4, <2>5 DEF FlushInv
<1>7. ASSUME WorkerTimer \/ WorkerStop \/ WorkerDrained \/ WorkerExit PROVE FlushInv'
  <2>1. /\ UNCHANGED <<queue, batch, closed, wait, received, attempted, before, flush, span>>
        /\ export[Worker] = "idle"
        /\ export' = export \/ export' = [export EXCEPT ![Worker] = "reset"]
    BY <1>7 DEF WorkerTimer, WorkerStop, WorkerDrained, WorkerExit, WorkerFree
  <2>2. MutexFree' = MutexFree  BY <1>0, <2>1 DEF MutexFree, TypeOK
  <2>3. \A f \in Flushers : export'[f] = export[f]
    BY <1>0, <2>1, KindsDisjoint DEF TypeOK, Threads
  <2>4. Accepted' = Accepted  BY <2>1 DEF Accepted
  <2>5. QED  BY <1>0, <2>1, <2>2, <2>3, <2>4, FlushBystander
<1>8. ASSUME NEW f \in Flushers, FlushStart(f) \/ FlushEnqueue(f) \/ FlushExport(f)
      PROVE  FlushInv'
  BY <1>0, <1>8, CallFlushInv
<1>9. ASSUME NEW f \in Flushers, FlushAborted(f) \/ FlushCancelled(f) \/ FlushFinished(f)
      PROVE  FlushInv'
  <2>1. /\ UNCHANGED <<queue, batch, closed, wait, received, attempted, before, export, span>>
        /\ \E r \in {"aborted", "cancelled", "exported", "failed"} :
             /\ flush' = [flush EXCEPT ![f] = r]
             /\ r = "exported" => wait[f] # "none"
    BY <1>9 DEF FlushAborted, FlushCancelled, FlushFinished, FlushReturn
  <2>2. /\ \A g \in Flushers : flush'[g] \in {"idle", "enqueue"} => flush[g] \in {"idle", "enqueue"}
        /\ \A g \in Flushers : flush'[g] = "exported" => flush[g] = "exported" \/ wait[g] # "none"
    BY <1>0, <2>1 DEF TypeOK
  <2>3. Accepted' = Accepted /\ MutexFree' = MutexFree  BY <2>1 DEF Accepted, MutexFree
  <2>4. QED  BY <1>0, <2>1, <2>2, <2>3, FlushBystander
<1>10. ASSUME UNCHANGED <<queue, batch, closed, wait, received, attempted, before, flush,
                          export, span>>
       PROVE  FlushInv'
  <2>1. Accepted' = Accepted /\ MutexFree' = MutexFree  BY <1>10 DEF Accepted, MutexFree
  <2>2. QED  BY <1>0, <1>10, <2>1, FlushBystander
<1>11. CASE TimerFire  BY <1>10, <1>11 DEF TimerFire
<1>12. ASSUME NEW c \in Closers,
              ShutdownFirst(c) \/ ShutdownAgain(c) \/ ShutdownReturn(c)
       PROVE  FlushInv'
  BY <1>10, <1>12 DEF ShutdownFirst, ShutdownAgain, ShutdownReturn
<1>13. CASE CloseStopCh \/ StopExporter  BY <1>10, <1>13 DEF CloseStopCh, StopExporter
<1>14. ASSUME NEW x \in Flushers \union Closers, CtxDone(x) PROVE FlushInv'
  BY <1>10, <1>14 DEF CtxDone
<1>15. CASE UNCHANGED vars  BY <1>10, <1>15 DEF vars
<1>16. QED
  BY <1>1, <1>2, <1>3, <1>4, <1>5, <1>6, <1>7, <1>8, <1>9, <1>11, <1>12, <1>13, <1>14, <1>15
  DEF Next, Export, WorkerStep, FlushStep, Terminated

(* FlushInv holds throughout.                                              *)
THEOREM FlushInvAlways == Spec => []FlushInv
BY InitFlushInv, NextFlushInv, PTL DEF Spec

(* No call has begun: NilInv holds.                                        *)
LEMMA InitNilInv == Init => NilInv
<1> SUFFICES ASSUME Init PROVE NilInv
  OBVIOUS
<1>1. \A f \in Flushers : flush[f] = "idle"  BY DEF Init
<1>2. QED
  BY <1>1, InitFlushInv DEF NilInv, ExportReason, BeforeShutdown, NilAfterStop

(* A step that lets no flush begin, pass its marker or return nil leaves   *)
(* the reasons for their nils as they are.                                 *)
LEMMA NilBystander ==
  ASSUME NilInv, FlushInv', UNCHANGED <<flush, before>>,
         closed \subseteq closed', ctxDone \subseteq ctxDone',
         stopCh => stopCh',
         \/ stopped' = stopped /\ early' = early
         \/ stopped' /\ Accepted \subseteq early'
  PROVE  NilInv'
<1> USE DEF NilInv
<1>1. ExportReason'  BY DEF ExportReason
<1>2. BeforeShutdown'  BY DEF BeforeShutdown, FlushInv, BeforeAccepted
<1>3. NilAfterStop'  BY DEF NilAfterStop
<1>4. QED  BY <1>1, <1>2, <1>3

(* The steps of a ForceFlush: past the check of stopped its spans are the  *)
(* ones Shutdown finds, and each step that leads to a nil has its reason.  *)
LEMMA CallNilInv ==
  ASSUME NilInv, TypeOK, FlushInv', NEW g \in Flushers, FlushStart(g) \/ FlushStep(g)
  PROVE  NilInv'
<1> USE DEF workVars, flushVars, stopVars, NilInv
<1>1. /\ UNCHANGED <<closed, ctxDone, stop, early>>
      /\ \A f \in Flushers : f # g => flush'[f] = flush[f] /\ before'[f] = before[f]
  BY DEF FlushStart, FlushStep, FlushEnqueue, FlushExport, FlushAborted, FlushCancelled,
         FlushFinished, FlushReturn, TypeOK
<1>2. stopped' = stopped /\ stopCh' = stopCh  BY <1>1 DEF stopped, stopCh
<1>3. ExportReason'
  <2>1. flush'[g] \in {"await", "exported"} => g \in closed \union ctxDone
    BY DEF FlushStart, FlushStep, FlushEnqueue, FlushExport, FlushAborted, FlushCancelled,
           FlushFinished, FlushReturn, MarkerReached, ExportReason, TypeOK
  <2>2. QED  BY <1>1, <2>1 DEF ExportReason
<1>4. BeforeShutdown'
  <2>1. CASE FlushStart(g)
    <3>1. stopped => flush'[g] \in {"cancelled", "ignored"}
      BY <2>1 DEF FlushStart, TypeOK
    <3>2. QED  BY <1>1, <1>2, <3>1 DEF BeforeShutdown
  <2>2. CASE FlushStep(g)
    <3>1. /\ flush[g] \in {"enqueue", "wait", "await"} /\ before' = before
          /\ flush'[g] \in {"enqueue", "wait", "aborted"} => flush[g] \in {"enqueue", "wait"}
      BY <2>2 DEF FlushStep, FlushEnqueue, FlushExport, FlushAborted, FlushCancelled,
                  FlushFinished, FlushReturn, TypeOK
    <3>2. QED  BY <1>1, <1>2, <3>1 DEF BeforeShutdown
  <2>3. QED  BY <2>1, <2>2
<1>5. NilAfterStop'
  <2>1. /\ flush'[g] = "aborted" => stopCh
        /\ flush'[g] = "ignored" => stopped
    BY DEF FlushStart, FlushStep, FlushEnqueue, FlushExport, FlushAborted, FlushCancelled,
           FlushFinished, FlushReturn, TypeOK
  <2>2. QED  BY <1>1, <1>2, <2>1 DEF NilAfterStop
<1>6. QED  BY <1>3, <1>4, <1>5

(* Every step preserves NilInv.                                            *)
LEMMA NextNilInv == NilInv /\ [Next]_vars => NilInv'
<1> SUFFICES ASSUME NilInv, [Next]_vars PROVE NilInv'
  OBVIOUS
<1> USE DEF workVars, flushVars, stopVars
<1>0. TypeOK /\ FlushInv'  BY NextFlushInv DEF NilInv, FlushInv, IInv
<1>1. ASSUME UNCHANGED <<flush, before, ctxDone, stop, early>>, closed \subseteq closed'
      PROVE  NilInv'
  <2>1. stopped' = stopped /\ stopCh' = stopCh  BY <1>1 DEF stopped, stopCh
  <2>2. QED  BY <1>0, <1>1, <2>1, NilBystander
<1>2. ASSUME NEW s \in Spans, OnEndCheck(s) \/ OnEndEnqueue(s) PROVE NilInv'
  BY <1>1, <1>2 DEF OnEndCheck, OnEndEnqueue
<1>3. ASSUME NEW t \in Threads, Export(t) PROVE NilInv'
  BY <1>1, <1>3 DEF Export, ExportReset, ExportNothing, ExportCall, ExportReturn
<1>4. CASE WorkerReceive
  <2>1. closed \subseteq closed'  BY <1>4 DEF WorkerReceive
  <2>2. QED  BY <1>1, <1>4, <2>1 DEF WorkerReceive
<1>5. CASE WorkerAppend \/ WorkerTimer \/ WorkerStop \/ WorkerDrained \/ WorkerExit
  BY <1>1, <1>5 DEF WorkerAppend, WorkerTimer, WorkerStop, WorkerDrained, WorkerExit
<1>6. CASE TimerFire  BY <1>1, <1>6 DEF TimerFire
<1>7. ASSUME NEW f \in Flushers, FlushStart(f) \/ FlushStep(f) PROVE NilInv'
  BY <1>0, <1>7, CallNilInv
<1>8. ASSUME NEW c \in Closers, ShutdownFirst(c) PROVE NilInv'
  <2>1. /\ UNCHANGED <<flush, before, closed, ctxDone>> /\ early' = Accepted
        /\ stop = "running" /\ stop' = "stopped"
    BY <1>8 DEF ShutdownFirst, stopped
  <2>2. ~stopCh /\ stopped'  BY <2>1 DEF stopCh, stopped
  <2>3. QED  BY <1>0, <2>1, <2>2, NilBystander
<1>9. ASSUME NEW c \in Closers, ShutdownAgain(c) \/ ShutdownReturn(c) PROVE NilInv'
  BY <1>1, <1>9 DEF ShutdownAgain, ShutdownReturn
<1>10. CASE CloseStopCh \/ StopExporter
  <2>1. /\ UNCHANGED <<flush, before, closed, ctxDone, early>>
        /\ stop \in {"stopped", "signalled"} /\ stop' \in {"signalled", "down"}
    BY <1>10 DEF CloseStopCh, StopExporter
  <2>2. stopped' = stopped /\ stopCh'  BY <2>1 DEF stopped, stopCh
  <2>3. QED  BY <1>0, <2>1, <2>2, NilBystander
<1>11. ASSUME NEW x \in Flushers \union Closers, CtxDone(x) PROVE NilInv'
  <2>1. UNCHANGED <<flush, before, closed, stop, early>> /\ ctxDone \subseteq ctxDone'
    BY <1>11 DEF CtxDone
  <2>2. stopped' = stopped /\ stopCh' = stopCh  BY <2>1 DEF stopped, stopCh
  <2>3. QED  BY <1>0, <2>1, <2>2, NilBystander
<1>12. CASE UNCHANGED vars  BY <1>1, <1>12 DEF vars
<1>13. QED
  BY <1>2, <1>3, <1>4, <1>5, <1>6, <1>7, <1>8, <1>9, <1>10, <1>11, <1>12
  DEF Next, WorkerStep, Terminated

(* What every nil of ForceFlush says of the spans queued before the call.  *)
(* After its export they have been handed over, whichever goroutine did it *)
(* and in whatever batches, unless the context ended before the marker was *)
(* sent; a nil from the case for stopCh leaves them to Shutdown, which     *)
(* hands them over before it shuts the exporter down; and a nil without    *)
(* doing anything comes only after Shutdown has been called.               *)
THEOREM FlushHasCovered == Spec => []FlushCovers
<1>1. ASSUME NilInv PROVE FlushCovers
  <2> SUFFICES ASSUME NEW f \in Flushers
               PROVE  /\ flush[f] = "exported" =>
                           before[f] \subseteq ToSet(attempted) \/ f \in ctxDone \ closed
                      /\ flush[f] = "aborted" =>
                           stopCh /\ (stop = "down" => before[f] \subseteq ToSet(attempted))
                      /\ flush[f] = "ignored" => stopped
    BY DEF FlushCovers
  <2>1. flush[f] = "exported" => before[f] \subseteq ToSet(attempted) \/ f \in ctxDone \ closed
    BY <1>1 DEF NilInv, ExportReason, FlushInv, ExportCovers, ResultAwaited
  <2>2. ASSUME flush[f] = "aborted", stop = "down" PROVE before[f] \subseteq ToSet(attempted)
    <3>1. before[f] \subseteq early  BY <1>1, <2>2 DEF NilInv, BeforeShutdown, stopped
    <3>2. early \subseteq ToSet(attempted)
      BY <1>1, <2>2, ShutdownHandsOver DEF NilInv, FlushInv, ShutdownFlushes
    <3>3. QED  BY <3>1, <3>2
  <2>3. QED  BY <1>1, <2>1, <2>2 DEF NilInv, NilAfterStop
<1>2. QED  BY <1>1, InitNilInv, NextNilInv, PTL DEF Spec

-----------------------------------------------------------------------------
(* The processor implements BatchPipeline.                                 *)

(* What is pending, and that a span no one has queued is not part of it.   *)
LEMMA PendingElements ==
  ASSUME TypeOK, SpansInOrder
  PROVE  /\ Unsent \in Seq(Spans) /\ SpansIn(queue) \in Seq(Spans) /\ Pending \in Seq(Spans)
         /\ Pending = Unsent \o (hand \o SpansIn(queue))
         /\ ToSet(Pending) \union ToSet(attempted)
              \subseteq ToSet(received) \union (ToSet(queue) \intersect Spans)
<1>1. /\ Unsent \in Seq(Spans) /\ hand \in Seq(Spans) /\ attempted \in Seq(Spans)
      /\ queue \in Seq(Spans \union Flushers)
  BY DEF TypeOK, Unsent
<1>2. /\ SpansIn(queue) \in Seq(Spans)
      /\ ToSet(SpansIn(queue)) \subseteq ToSet(queue)
  BY <1>1, SpansInElements
<1>3. ToSet(SpansIn(queue)) \subseteq Spans  BY <1>2 DEF ToSet
<1>4. /\ (Unsent \o hand) \in Seq(Spans)
      /\ ToSet(Unsent \o hand) = ToSet(Unsent) \union ToSet(hand)
  BY <1>1, ConcatProperties, ConcatElements
<1>5. Pending \in Seq(Spans)  BY <1>2, <1>4, ConcatProperties DEF Pending
<1>6. ToSet(Pending) = ToSet(Unsent) \union ToSet(hand) \union ToSet(SpansIn(queue))
  <2> DEFINE front == Unsent \o hand
  <2>1. /\ front \in Seq(Spans) /\ ToSet(front) = ToSet(Unsent) \union ToSet(hand)
        /\ Pending = front \o SpansIn(queue)
    BY <1>4 DEF Pending
  <2> HIDE DEF front
  <2>2. ToSet(Pending) = ToSet(front) \union ToSet(SpansIn(queue))
    BY <1>2, <2>1, ConcatElements
  <2>3. QED  BY <2>1, <2>2
<1>7. ToSet(received) = ToSet(attempted) \union ToSet(Unsent) \union ToSet(hand)
  <2>1. /\ (attempted \o Unsent) \in Seq(Spans)
        /\ ToSet(attempted \o Unsent) = ToSet(attempted) \union ToSet(Unsent)
    BY <1>1, ConcatProperties, ConcatElements
  <2> DEFINE front == attempted \o Unsent
  <2>2. received = front \o hand  BY DEF SpansInOrder
  <2>3. front \in Seq(Spans) /\ ToSet(front) = ToSet(attempted) \union ToSet(Unsent)
    BY <2>1
  <2> HIDE DEF front
  <2>4. ToSet(received) = ToSet(front) \union ToSet(hand)  BY <1>1, <2>2, <2>3, ConcatElements
  <2>5. QED  BY <2>3, <2>4
<1>8. Pending = Unsent \o (hand \o SpansIn(queue))
  BY <1>1, <1>2, ConcatAssociative DEF Pending
<1>9. QED  BY <1>1, <1>2, <1>3, <1>5, <1>6, <1>7, <1>8

(* No step but the enqueueing of a span adds one to what is known of.      *)
LEMMA NextOnlyAccepted == TypeOK /\ OnlyAccepted /\ [Next]_vars => OnlyAccepted'
<1> SUFFICES ASSUME TypeOK, OnlyAccepted, [Next]_vars PROVE OnlyAccepted'
  OBVIOUS
<1> USE DEF workVars, flushVars, stopVars
<1>0. queue \in Seq(Spans \union Flushers) /\ received \in Seq(Spans)  BY DEF TypeOK
<1>1. ASSUME NEW s \in Spans, OnEndCheck(s) PROVE OnlyAccepted'
  <2>1. Accepted' = Accepted  BY <1>1 DEF OnEndCheck, Accepted, TypeOK
  <2>2. QED  BY <1>1, <2>1 DEF OnEndCheck, OnlyAccepted
<1>2. ASSUME NEW s \in Spans, OnEndEnqueue(s) PROVE OnlyAccepted'
  <2>1. CASE queue' = Append(queue, s) /\ span' = [span EXCEPT ![s] = "queued"]
    <3>1. ToSet(queue') = ToSet(queue) \union {s}  BY <1>0, <2>1, AppendElements
    <3>2. Accepted' = Accepted \union {s}  BY <2>1 DEF Accepted, TypeOK
    <3>3. QED  BY <1>2, <3>1, <3>2 DEF OnEndEnqueue, OnlyAccepted
  <2>2. CASE UNCHANGED queue /\ span' = [span EXCEPT ![s] = "dropped"]
    <3>1. Accepted' = Accepted  BY <1>2, <2>2 DEF OnEndEnqueue, Accepted, TypeOK
    <3>2. QED  BY <1>2, <2>2, <3>1 DEF OnEndEnqueue, OnlyAccepted
  <2>3. QED  BY <1>2, <2>1, <2>2 DEF OnEndEnqueue
<1>3. ASSUME WorkerReceive PROVE OnlyAccepted'
  <2>1. queue # <<>> /\ queue' = Tail(queue) /\ Accepted' = Accepted
    BY <1>3 DEF WorkerReceive, Accepted
  <2>2. ToSet(queue) = {Head(queue)} \union ToSet(queue')
    BY <1>0, <2>1, TailElements
  <2>3. CASE Head(queue) \in Spans /\ received' = Append(received, Head(queue))
    <3>1. ToSet(received') = ToSet(received) \union {Head(queue)}
      BY <1>0, <2>3, AppendElements
    <3>2. QED  BY <2>1, <2>2, <2>3, <3>1 DEF OnlyAccepted
  <2>4. CASE UNCHANGED received
    BY <2>1, <2>2, <2>4 DEF OnlyAccepted
  <2>5. QED  BY <1>3, <2>3, <2>4 DEF WorkerReceive
<1>4. ASSUME NEW f \in Flushers, FlushEnqueue(f) PROVE OnlyAccepted'
  <2>1. queue' = Append(queue, f) /\ UNCHANGED <<received, span>>  BY <1>4 DEF FlushEnqueue
  <2>2. ToSet(queue') = ToSet(queue) \union {f}  BY <1>0, <2>1, AppendElements
  <2>3. QED  BY <2>1, <2>2, KindsDisjoint DEF OnlyAccepted, Accepted
<1>5. ASSUME UNCHANGED <<queue, received, span>> PROVE OnlyAccepted'
  BY <1>5 DEF OnlyAccepted, Accepted
<1>6. ASSUME NEW t \in Threads, Export(t) PROVE OnlyAccepted'
  BY <1>5, <1>6 DEF Export, ExportReset, ExportNothing, ExportCall, ExportReturn
<1>7. ASSUME WorkerAppend \/ WorkerTimer \/ WorkerStop \/ WorkerDrained \/ WorkerExit \/ TimerFire
      PROVE  OnlyAccepted'
  BY <1>5, <1>7 DEF WorkerAppend, WorkerTimer, WorkerStop, WorkerDrained, WorkerExit, TimerFire
<1>8. ASSUME NEW f \in Flushers,
             \/ FlushStart(f) \/ FlushExport(f)
             \/ FlushAborted(f) \/ FlushCancelled(f) \/ FlushFinished(f)
      PROVE  OnlyAccepted'
  BY <1>5, <1>8 DEF FlushStart, FlushExport, FlushAborted, FlushCancelled, FlushFinished,
                    FlushReturn
<1>9. ASSUME NEW c \in Closers,
             ShutdownFirst(c) \/ ShutdownAgain(c) \/ ShutdownReturn(c)
      PROVE  OnlyAccepted'
  BY <1>5, <1>9 DEF ShutdownFirst, ShutdownAgain, ShutdownReturn
<1>10. CASE CloseStopCh \/ StopExporter  BY <1>5, <1>10 DEF CloseStopCh, StopExporter
<1>11. ASSUME NEW x \in Flushers \union Closers, CtxDone(x) PROVE OnlyAccepted'
  BY <1>5, <1>11 DEF CtxDone
<1>12. CASE UNCHANGED vars  BY <1>5, <1>12 DEF vars
<1>13. QED
  BY <1>1, <1>2, <1>3, <1>4, <1>6, <1>7, <1>8, <1>9, <1>10, <1>11, <1>12
  DEF Next, WorkerStep, FlushStep, Terminated

(* Every step of the processor is one of the pipeline or leaves what the   *)
(* pipeline speaks of unchanged.                                           *)
LEMMA StepImplements ==
  IInv /\ OnlyAccepted /\ IInv' /\ [Next]_vars => [Pipeline!Next]_(Pipeline!vars)
<1> SUFFICES ASSUME IInv, OnlyAccepted, IInv', [Next]_vars
             PROVE  Pipeline!Next \/ UNCHANGED <<Pending, attempted, stop = "down">>
  BY DEF Pipeline!vars
<1> USE DEF workVars, flushVars, stopVars
<1>0. /\ TypeOK /\ TypeOK' /\ SpansInOrder
      /\ queue \in Seq(Spans \union Flushers) /\ hand \in Seq(Spans)
      /\ batch \in Seq(Spans) /\ attempted \in Seq(Spans)
  BY DEF IInv, TypeOK
<1>1. /\ Unsent \in Seq(Spans) /\ SpansIn(queue) \in Seq(Spans) /\ Pending \in Seq(Spans)
      /\ Pending = Unsent \o (hand \o SpansIn(queue))
      /\ ToSet(Pending) \union ToSet(attempted) \subseteq Accepted
  BY <1>0, PendingElements DEF OnlyAccepted
<1>2. ASSUME NEW s \in Spans, OnEndEnqueue(s), queue' = Append(queue, s) PROVE Pipeline!Next
  <2>1. /\ s \notin Accepted /\ UNCHANGED <<hand, attempted, stop>> /\ Unsent' = Unsent
    BY <1>2 DEF OnEndEnqueue, Accepted, Unsent, MutexFree
  <2>2. SpansIn(queue') = Append(SpansIn(queue), s)  BY <1>0, <1>2, SpansInAppend
  <2>3. (Unsent \o hand) \in Seq(Spans)  BY <1>0, <1>1, ConcatProperties
  <2>4. Pending' = Append(Pending, s)
    <3>1. <<s>> \in Seq(Spans)  OBVIOUS
    <3>2. Append(SpansIn(queue), s) = SpansIn(queue) \o <<s>>  BY <1>1, AppendIsConcat
    <3>3. Append(Pending, s) = Pending \o <<s>>  BY <1>1, AppendIsConcat
    <3>4. (Unsent \o hand) \o (SpansIn(queue) \o <<s>>)
            = ((Unsent \o hand) \o SpansIn(queue)) \o <<s>>
      BY <1>1, <2>3, <3>1, ConcatAssociative
    <3>5. QED  BY <2>1, <2>2, <3>2, <3>3, <3>4 DEF Pending
  <2>5. Pipeline!Accept(s)
    BY <1>1, <2>1, <2>4 DEF Pipeline!Accept, Pipeline!ToSet, ToSet
  <2>6. QED  BY <2>5 DEF Pipeline!Next
<1>3. ASSUME NEW t \in Threads, ExportCall(t) PROVE Pipeline!Next
  <2>1. /\ export[t] = "lock" /\ batch # <<>> /\ MutexFree /\ ~MutexFree'
        /\ attempted' = attempted \o batch /\ UNCHANGED <<queue, hand, stop>>
        /\ Unsent = batch /\ Unsent' = <<>>
    BY <1>0, <1>3 DEF ExportCall, MutexFree, Unsent, TypeOK
  <2> DEFINE rest == hand \o SpansIn(queue)
             k == Len(batch)
  <2>2. stop # "down"  BY <2>1 DEF IInv, WorkerEnds
  <2>3. k \in 1..MaxBatch  BY <1>0, <2>1 DEF IInv, BatchBound
  <2>4. rest \in Seq(Spans)  BY <1>0, <1>1, ConcatProperties
  <2>5. Pending = batch \o rest  BY <1>1, <2>1
  <2>6. Pending' = rest
    <3>1. <<>> \o hand = hand  BY <1>0, ConcatEmptySeq
    <3>2. QED  BY <2>1, <3>1 DEF Pending
  <2> HIDE DEF rest
  <2>7. /\ k <= Len(Pending) /\ SubSeq(Pending, 1, k) = batch
        /\ SubSeq(Pending, k + 1, Len(Pending)) = rest
    BY <1>0, <2>4, <2>5, SplitConcat
  <2>8. Pipeline!Attempt(k)  BY <2>1, <2>2, <2>6, <2>7 DEF Pipeline!Attempt
  <2>9. QED  BY <2>3, <2>8 DEF Pipeline!Next
<1>4. ASSUME StopExporter PROVE Pipeline!Next
  <2>1. /\ stop # "down" /\ stop' = "down" /\ attempted' = attempted /\ Pending' = Pending
    BY <1>4 DEF StopExporter, Pending, Unsent, MutexFree
  <2>2. Pipeline!ShutDown  BY <2>1 DEF Pipeline!ShutDown
  <2>3. QED  BY <2>2 DEF Pipeline!Next
<1>5. ASSUME UNCHANGED <<queue, batch, hand, attempted, export>>, stop' = "down" <=> stop = "down"
      PROVE  UNCHANGED <<Pending, attempted, stop = "down">>
  BY <1>5 DEF Pending, Unsent, MutexFree
<1>6. ASSUME UNCHANGED <<hand, attempted>>, Unsent' = Unsent, SpansIn(queue') = SpansIn(queue),
             stop' = stop
      PROVE  UNCHANGED <<Pending, attempted, stop = "down">>
  BY <1>6 DEF Pending
<1>7. ASSUME NEW t \in Threads, ExportReset(t) \/ ExportNothing(t) \/ ExportReturn(t)
      PROVE  UNCHANGED <<Pending, attempted, stop = "down">>
  <2>1. UNCHANGED <<queue, hand, attempted, stop>>
    BY <1>7 DEF ExportReset, ExportNothing, ExportReturn
  <2>2. CASE ExportReset(t) \/ ExportNothing(t)
    <3>1. /\ export[t] # "call" /\ batch' = batch
          /\ export' = [export EXCEPT ![t] = "lock"] \/ export' = [export EXCEPT ![t] = "idle"]
      BY <2>2 DEF ExportReset, ExportNothing, ExportDone
    <3>2. MutexFree' = MutexFree  BY <1>0, <3>1 DEF MutexFree, TypeOK
    <3>3. QED  BY <1>6, <2>1, <3>1, <3>2 DEF Unsent
  <2>3. CASE ExportReturn(t)
    <3>1. ~MutexFree /\ batch' = <<>>
      BY <2>3 DEF ExportReturn, BatchAfter, MutexFree
    <3>2. Unsent' = <<>> /\ Unsent = <<>>  BY <3>1 DEF Unsent
    <3>3. QED  BY <1>6, <2>1, <3>2
  <2>4. QED  BY <1>7, <2>2, <2>3
<1>8. ASSUME WorkerReceive PROVE UNCHANGED <<Pending, attempted, stop = "down">>
  <2>1. /\ queue # <<>> /\ queue' = Tail(queue) /\ hand = <<>>
        /\ UNCHANGED <<attempted, stop>> /\ Unsent' = Unsent
    BY <1>8 DEF WorkerReceive, WorkerFree, Unsent, MutexFree
  <2>2. SpansIn(queue) = (IF Head(queue) \in Spans THEN <<Head(queue)>> ELSE <<>>) \o SpansIn(queue')
    BY <1>0, <2>1, SpansInTail
  <2>3. SpansIn(queue') \in Seq(Spans)
    <3>1. queue' \in Seq(Spans \union Flushers)  BY <1>0 DEF TypeOK
    <3>2. QED  BY <3>1, SpansInElements
  <2>4. CASE Head(queue) \in Spans /\ hand' = <<Head(queue)>>
    <3>1. Pending = Unsent \o SpansIn(queue)
      BY <1>1, <2>1, ConcatEmptySeq DEF Pending
    <3>2. SpansIn(queue) = <<Head(queue)>> \o SpansIn(queue')  BY <2>2, <2>4
    <3>3. <<Head(queue)>> \in Seq(Spans)  BY <2>4
    <3>4. (Unsent \o <<Head(queue)>>) \o SpansIn(queue')
            = Unsent \o (<<Head(queue)>> \o SpansIn(queue'))
      BY <1>1, <2>3, <3>3, ConcatAssociative
    <3>5. Pending' = (Unsent \o <<Head(queue)>>) \o SpansIn(queue')
      BY <2>1, <2>4 DEF Pending
    <3>6. QED  BY <2>1, <3>1, <3>2, <3>4, <3>5
  <2>5. CASE Head(queue) \notin Spans /\ hand' = hand
    <3>1. SpansIn(queue) = SpansIn(queue')  BY <2>2, <2>3, <2>5, ConcatEmptySeq
    <3>2. QED  BY <1>6, <2>1, <2>5, <3>1
  <2>6. QED  BY <1>8, <2>4, <2>5, KindsDisjoint DEF WorkerReceive
<1>9. ASSUME WorkerAppend PROVE UNCHANGED <<Pending, attempted, stop = "down">>
  <2>1. /\ hand # <<>> /\ export[Worker] = "idle" /\ MutexFree
        /\ UNCHANGED <<queue, attempted, stop>> /\ batch' = batch \o hand /\ hand' = <<>>
        /\ \/ export' = [export EXCEPT ![Worker] = "reset"]
           \/ export' = export
    BY <1>9 DEF WorkerAppend, IInv, WorkerHasRoom
  <2>2. MutexFree'  BY <1>0, <2>1 DEF MutexFree, TypeOK
  <2>3. Unsent = batch /\ Unsent' = batch \o hand  BY <2>1, <2>2 DEF Unsent
  <2>4. (batch \o hand) \o <<>> = batch \o hand
    BY <1>0, ConcatProperties, ConcatEmptySeq
  <2>5. QED  BY <2>1, <2>3, <2>4 DEF Pending
<1>10. ASSUME WorkerTimer \/ WorkerStop \/ WorkerDrained \/ WorkerExit
       PROVE  UNCHANGED <<Pending, attempted, stop = "down">>
  <2>1. /\ UNCHANGED <<queue, batch, hand, attempted, stop>>
        /\ export[Worker] = "idle"
        /\ export' = export \/ export' = [export EXCEPT ![Worker] = "reset"]
    BY <1>10 DEF WorkerTimer, WorkerStop, WorkerDrained, WorkerExit, WorkerFree
  <2>2. MutexFree' = MutexFree  BY <1>0, <2>1 DEF MutexFree, TypeOK
  <2>3. QED  BY <1>6, <2>1, <2>2 DEF Unsent
<1>11. ASSUME NEW f \in Flushers, FlushEnqueue(f)
       PROVE  UNCHANGED <<Pending, attempted, stop = "down">>
  <2>1. /\ queue' = Append(queue, f) /\ f \notin Spans
        /\ UNCHANGED <<hand, attempted, stop, batch, export>>
    BY <1>11, KindsDisjoint DEF FlushEnqueue
  <2>2. SpansIn(queue') = SpansIn(queue)  BY <1>0, <2>1, SpansInAppend
  <2>3. Unsent' = Unsent  BY <2>1 DEF Unsent, MutexFree
  <2>4. QED  BY <1>6, <2>1, <2>2, <2>3
<1>12. ASSUME NEW f \in Flushers, FlushExport(f)
       PROVE  UNCHANGED <<Pending, attempted, stop = "down">>
  <2>1. /\ UNCHANGED <<queue, batch, hand, attempted, stop>>
        /\ export' = [export EXCEPT ![f] = "reset"] /\ export[f] = "idle"
    BY <1>12 DEF FlushExport, IInv, FlushBeforeExport
  <2>2. MutexFree' = MutexFree  BY <1>0, <2>1 DEF MutexFree, TypeOK
  <2>3. QED  BY <1>6, <2>1, <2>2 DEF Unsent
<1>13. ASSUME NEW s \in Spans, OnEndCheck(s) \/ OnEndEnqueue(s), UNCHANGED queue
       PROVE  UNCHANGED <<Pending, attempted, stop = "down">>
  BY <1>5, <1>13 DEF OnEndCheck, OnEndEnqueue
<1>14. ASSUME NEW f \in Flushers,
              FlushStart(f) \/ FlushAborted(f) \/ FlushCancelled(f) \/ FlushFinished(f)
       PROVE  UNCHANGED <<Pending, attempted, stop = "down">>
  BY <1>5, <1>14 DEF FlushStart, FlushAborted, FlushCancelled, FlushFinished, FlushReturn
<1>15. ASSUME NEW c \in Closers,
              ShutdownFirst(c) \/ ShutdownAgain(c) \/ ShutdownReturn(c)
       PROVE  UNCHANGED <<Pending, attempted, stop = "down">>
  BY <1>5, <1>15 DEF ShutdownFirst, ShutdownAgain, ShutdownReturn, stopped
<1>16. ASSUME TimerFire \/ CloseStopCh \/ UNCHANGED vars
       PROVE  UNCHANGED <<Pending, attempted, stop = "down">>
  BY <1>5, <1>16 DEF TimerFire, CloseStopCh, vars
<1>17. ASSUME NEW x \in Flushers \union Closers, CtxDone(x)
       PROVE  UNCHANGED <<Pending, attempted, stop = "down">>
  BY <1>5, <1>17 DEF CtxDone
<1>18. ASSUME NEW s \in Spans, OnEndCheck(s) \/ OnEndEnqueue(s)
       PROVE  Pipeline!Next \/ UNCHANGED <<Pending, attempted, stop = "down">>
  BY <1>2, <1>13, <1>18 DEF OnEndCheck, OnEndEnqueue
<1>19. QED
  BY <1>3, <1>4, <1>7, <1>8, <1>9, <1>10, <1>11, <1>12, <1>14, <1>15, <1>16, <1>17, <1>18
  DEF Next, Export, WorkerStep, FlushStep, Terminated

(* The batching span processor does what BatchPipeline promises: it hands  *)
(* the spans it accepts to the exporter once each, in the order of         *)
(* acceptance, in batches of at most MaxExportBatchSize, loses none of     *)
(* them, and calls the exporter no more once that is shut down.            *)
THEOREM ProcessorImplementsPipeline == Spec => ImplementsPipeline
<1>1. Init => Pipeline!Init
  <2> SUFFICES ASSUME Init PROVE Pipeline!Init
    OBVIOUS
  <2>1. queue = <<>> /\ queue \in Seq(Spans) /\ hand = <<>> /\ batch = <<>>  BY DEF Init
  <2>2. SpansIn(queue) = <<>>  BY <2>1, SpansInElements
  <2>3. Unsent = <<>>  BY <2>1 DEF Unsent
  <2>4. Pending = <<>>  BY <2>1, <2>2, <2>3 DEF Pending
  <2>5. QED  BY <2>4 DEF Init, Pipeline!Init
<1>2. Init => OnlyAccepted
  BY DEF Init, OnlyAccepted, ToSet
<1>3. IInv => TypeOK  BY DEF IInv
<1>4. Spec => []OnlyAccepted
  BY <1>2, <1>3, NextOnlyAccepted, IInvAlways, PTL DEF Spec
<1>5. QED
  BY <1>1, <1>4, StepImplements, IInvAlways, PTL DEF Spec, ImplementsPipeline, Pipeline!Spec
=============================================================================
