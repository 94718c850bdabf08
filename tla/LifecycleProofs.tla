---------------------------- MODULE LifecycleProofs ----------------------------
(***************************************************************************)
(* Proofs about what a call of Shutdown may meet: the gate of the logger   *)
(* provider, for every finite set of operations; the tracer provider; and  *)
(* an exporter with its client and retries, for every set of calls.  The   *)
(* three share no variable, and each has a specification of its own.       *)
(***************************************************************************)
EXTENDS LoggerProvider, TracerProvider, Export, FiniteSetTheorems, TLAPS

(* The operations inside the processor are finitely many, and none of them *)
(* is inside when their number is 0.                                       *)
LEMMA InsideFinite ==
  ASSUME NEW P, P \subseteq Ops
  PROVE  IsFiniteSet(P) /\ Cardinality(P) \in Nat /\ (Cardinality(P) = 0 <=> P = {})
<1>1. IsFiniteSet(P)  BY FS_Subset, GateAssumption
<1>2. QED  BY <1>1, FS_CardinalityType, FS_EmptySet

(* beginProcessorOperation admits an operation that was outside: the set   *)
(* it counts grows by one.                                                 *)
LEMMA BeginInside ==
  ASSUME TypeOK, NEW o \in Ops, op[o] = "idle", op' = [op EXCEPT ![o] = "inside"]
  PROVE  Cardinality(Inside') = Cardinality(Inside) + 1
<1>1. Inside' = Inside \union {o} /\ o \notin Inside /\ Inside \subseteq Ops
  BY DEF TypeOK, Inside
<1>2. IsFiniteSet(Inside)  BY <1>1, InsideFinite
<1>3. QED  BY <1>1, <1>2, FS_AddElement

(* endProcessorOperation takes one out of it.                              *)
LEMMA EndInside ==
  ASSUME TypeOK, NEW o \in Ops, op[o] = "inside", op' = [op EXCEPT ![o] = "done"]
  PROVE  Cardinality(Inside') = Cardinality(Inside) - 1
<1>1. Inside' = Inside \ {o} /\ o \in Inside /\ Inside \subseteq Ops
  BY DEF TypeOK, Inside
<1>2. IsFiniteSet(Inside)  BY <1>1, InsideFinite
<1>3. QED  BY <1>1, <1>2, FS_RemoveElement

(* An operation that is refused, or any other step that leaves the         *)
(* operations alone, does not change the set.                              *)
LEMMA RefusedInside ==
  ASSUME TypeOK, NEW o \in Ops, op[o] = "idle", op' = [op EXCEPT ![o] = "refused"]
  PROVE  Inside' = Inside
BY DEF TypeOK, Inside

-----------------------------------------------------------------------------
(* The inductive invariant holds in a new provider.                        *)
LEMMA InitIInv == Init => IInv
<1> SUFFICES ASSUME Init PROVE IInv
  OBVIOUS
<1>1. Inside = {}  BY DEF Init, Inside
<1>2. CountExact  BY <1>1, FS_EmptySet DEF Init, CountExact
<1>3. TypeOK /\ DrainExact /\ OneShutdown /\ CloserKnows
  BY DEF Init, TypeOK, DrainExact, OneShutdown, CloserKnows, OpPhases, CloserPhases
<1>4. QED  BY <1>2, <1>3 DEF IInv

(* Every step preserves it.                                                *)
LEMMA NextIInv == IInv /\ [Next]_vars => IInv'
<1> SUFFICES ASSUME IInv, [Next]_vars PROVE IInv'
  OBVIOUS
<1> USE DEF TypeOK, OpPhases, CloserPhases, CountExact, DrainExact, OneShutdown, CloserKnows
<1>0. TypeOK /\ active = Cardinality(Inside)
  BY DEF IInv
<1>1. ASSUME NEW o \in Ops, Begin(o) PROVE IInv'
  <2>1. CASE Admits
    <3>1. op' = [op EXCEPT ![o] = "inside"] /\ active' = active + 1 /\ op[o] = "idle"
      BY <1>1, <2>1 DEF Begin
    <3>2. CountExact'  BY <1>0, <3>1, BeginInside
    <3>3. QED  BY <1>1, <2>1, <3>1, <3>2 DEF IInv, Begin, Admits
  <2>2. CASE ~Admits
    <3>1. op' = [op EXCEPT ![o] = "refused"] /\ active' = active /\ op[o] = "idle"
      BY <1>1, <2>2 DEF Begin
    <3>2. CountExact'  BY <1>0, <3>1, RefusedInside
    <3>3. QED  BY <1>1, <3>1, <3>2 DEF IInv, Begin
  <2>3. QED  BY <2>1, <2>2
<1>2. ASSUME NEW o \in Ops, End(o) PROVE IInv'
  <2>1. op' = [op EXCEPT ![o] = "done"] /\ active' = active - 1 /\ op[o] = "inside"
    BY <1>2 DEF End
  <2>2. CountExact'  BY <1>0, <2>1, EndInside
  <2>3. active' \in Nat /\ active # 0
    <3>1. o \in Inside /\ Inside \subseteq Ops  BY <2>1 DEF Inside
    <3>2. Cardinality(Inside) # 0  BY <3>1, InsideFinite
    <3>3. QED  BY <1>0, <2>1, <3>2
  <2>4. stopped => drained = "open"
    BY <2>3 DEF IInv
  <2>5. QED  BY <1>2, <2>1, <2>2, <2>3, <2>4 DEF IInv, End, LastOut, Closed
<1>3. ASSUME NEW c \in Closers, ShutdownStart(c) PROVE IInv'
  <2>1. CountExact'  BY <1>0, <1>3 DEF ShutdownStart, Inside
  <2>2. CASE First
    <3>1. \A d \in Closers : closer[d] \in {"idle", "noop"}
      BY <2>2 DEF IInv, First
    <3>2. QED  BY <1>3, <2>1, <2>2, <3>1 DEF IInv, ShutdownStart
  <2>3. CASE ~First
    BY <1>3, <2>1, <2>3 DEF IInv, ShutdownStart
  <2>4. QED  BY <2>2, <2>3
<1>4. ASSUME NEW c \in Closers, ShutdownCheck(c) PROVE IInv'
  BY <1>4 DEF IInv, ShutdownCheck, Inside
<1>5. ASSUME NEW c \in Closers, ShutdownWait(c) PROVE IInv'
  BY <1>5 DEF IInv, ShutdownWait, MayCancel, Inside
<1>6. ASSUME NEW c \in Closers, ShutdownReturn(c) PROVE IInv'
  BY <1>6 DEF IInv, ShutdownReturn, Inside
<1>7. ASSUME NEW c \in Closers, CtxDone(c) PROVE IInv'
  BY <1>7 DEF IInv, CtxDone, Inside
<1>8. CASE UNCHANGED vars
  BY <1>8 DEF IInv, vars, Inside
<1>9. QED
  BY <1>1, <1>2, <1>3, <1>4, <1>5, <1>6, <1>7, <1>8 DEF Next, ShutdownStep, Terminated

-----------------------------------------------------------------------------
(* The counter is exact, the channel is closed at the right moment only,   *)
(* and one call of Shutdown at most goes on, in every reachable state.     *)
THEOREM GateInvariant == Spec => []IInv
<1>1. QED  BY InitIInv, NextIInv, PTL DEF Spec

(* No operation is inside the processor while it is being shut down or     *)
(* afterwards.                                                             *)
THEOREM ShutdownIsAlone == Spec => []ShutdownAlone
<1>1. IInv => ShutdownAlone
  <2> SUFFICES ASSUME IInv, NEW c \in Closers, closer[c] \in {"calling", "returned"}
               PROVE  Inside = {}
    BY DEF ShutdownAlone
  <2>1. Cardinality(Inside) = 0
    BY DEF IInv, CloserKnows, DrainExact, CountExact
  <2>2. QED  BY <2>1, InsideFinite DEF Inside
<1>2. QED  BY <1>1, GateInvariant, PTL

(* At most one call of Shutdown goes on to the processor.                  *)
THEOREM ShutsDownOnce == Spec => []OneShutdown
<1>1. IInv => OneShutdown  BY DEF IInv
<1>2. QED  BY <1>1, GateInvariant, PTL

(* A Shutdown that waits gives up only while an operation is inside.       *)
THEOREM CancelledOnlyWhileBusy == Spec => CancelsOnlyWhileBusy
<1>1. IInv /\ [Next]_vars =>
        [\A c \in Closers :
           closer[c] = "waiting" /\ closer'[c] = "cancelled" => Inside # {}]_vars
  <2> SUFFICES ASSUME IInv, Next, NEW c \in Closers,
                      closer[c] = "waiting", closer'[c] = "cancelled"
               PROVE  Inside # {}
    BY DEF vars
  <2>1. ShutdownWait(c) /\ MayCancel(c)
    BY DEF IInv, TypeOK, CloserPhases, Next, ShutdownStep, Begin, End, ShutdownStart,
           ShutdownCheck, ShutdownWait, ShutdownReturn, CtxDone, Terminated, vars
  <2>2. active # 0
    BY <2>1 DEF MayCancel, IInv, CloserKnows, DrainExact
  <2>3. QED  BY <2>2, FS_EmptySet DEF IInv, CountExact
<1>2. QED  BY <1>1, GateInvariant, PTL DEF Spec, CancelsOnlyWhileBusy

-----------------------------------------------------------------------------
(* The tracer provider.  A new one has handed out nothing.                 *)
LEMMA ProviderInitIInv == ProviderInit => ProviderIInv
<1> SUFFICES ASSUME ProviderInit PROVE ProviderIInv
  OBVIOUS
<1>1. ProviderTypeOK
  BY DEF ProviderInit, ProviderTypeOK, ProviderCalls, Running
<1>2. /\ \A t \in TracerCalls : got[t] = Free
      /\ \A s \in Stops : pcall[s] = "idle" /\ mu # s
      /\ mu = Free
  BY ProviderAssumption DEF ProviderInit, ProviderCalls
<1>3. QED  BY <1>1, <1>2 DEF ProviderIInv

(* No step of a call takes back what another was given: the tracer of a    *)
(* name is set once, by a call that still finds the provider open under mu.*)
LEMMA ProviderNextIInv == ProviderIInv /\ [ProviderNext]_providerVars => ProviderIInv'
<1> SUFFICES ASSUME ProviderIInv, [ProviderNext]_providerVars PROVE ProviderIInv'
  OBVIOUS
<1> USE ProviderAssumption
    DEF ProviderIInv, ProviderTypeOK, ProviderCalls, Running, MovesTo, GivesTracer
<1>1. ASSUME NEW t \in TracerCalls, TracerCheck(t) PROVE ProviderIInv'
  <2>1. CASE isShutdown
    BY <1>1, <2>1 DEF TracerCheck, SeesShutdown
  <2>2. CASE ~isShutdown
    BY <1>1, <2>2 DEF TracerCheck, SeesShutdown
  <2>3. QED  BY <2>1, <2>2
<1>2. ASSUME NEW t \in TracerCalls, TracerLocked(t) PROVE ProviderIInv'
  <2>1. CASE isShutdown
    BY <1>2, <2>1 DEF TracerLocked, StillOpen
  <2>2. CASE ~isShutdown /\ Known(t)
    BY <1>2, <2>2 DEF TracerLocked, StillOpen, Known
  <2>3. CASE ~isShutdown /\ ~Known(t)
    <3>1. /\ namedTracer' = [namedTracer EXCEPT ![asked[t]] = t]
          /\ got' = [got EXCEPT ![t] = namedTracer'[asked[t]]]
          /\ inTime' = inTime \union {t}
          /\ pcall' = [pcall EXCEPT ![t] = "returned"] /\ pcall[t] = "checked"
          /\ UNCHANGED <<mu, isShutdown, asked>>
      BY <1>2, <2>3 DEF TracerLocked, StillOpen
    <3>2. namedTracer[asked[t]] = Free /\ asked[t] \in Names /\ t # Free
      BY <2>3 DEF Known
    <3>3. namedTracer'[asked[t]] = t
      BY <3>1, <3>2
    <3>4. ASSUME NEW r \in TracerCalls, got'[r] # Free
          PROVE  r \in inTime' /\ got'[r] = namedTracer'[asked'[r]]
      <4>1. CASE r = t  BY <3>1, <3>3, <4>1
      <4>2. CASE r # t
        <5>1. got'[r] = got[r] /\ r \in inTime /\ got[r] = namedTracer[asked[r]]
          BY <3>1, <3>4, <4>2
        <5>2. asked[r] # asked[t]  BY <3>2, <3>4, <5>1
        <5>3. QED  BY <3>1, <5>1, <5>2
      <4>3. QED  BY <4>1, <4>2
    <3>5. ProviderTypeOK'  BY <3>1, <3>2, <3>3
    <3>6. QED  BY <3>1, <3>4, <3>5
  <2>4. QED  BY <2>1, <2>2, <2>3
<1>3. ASSUME NEW s \in Stops, StopCheck(s) PROVE ProviderIInv'
  BY <1>3 DEF StopCheck
<1>4. ASSUME NEW s \in Stops, StopLocked(s) PROVE ProviderIInv'
  <2>1. CASE isShutdown
    BY <1>4, <2>1 DEF StopLocked
  <2>2. CASE ~isShutdown
    BY <1>4, <2>2 DEF StopLocked
  <2>3. QED  BY <2>1, <2>2
<1>5. ASSUME NEW s \in Stops, StopReturn(s) PROVE ProviderIInv'
  BY <1>5 DEF StopReturn
<1>6. ASSUME NEW s \in Stops, Expire(s) PROVE ProviderIInv'
  BY <1>6 DEF Expire
<1>7. CASE UNCHANGED providerVars
  BY <1>7 DEF providerVars
<1>8. QED
  BY <1>1, <1>2, <1>3, <1>4, <1>5, <1>6, <1>7 DEF ProviderNext, ProviderOver, StopStep

(* A tracer that records was handed out while the provider was open, and   *)
(* is the one of its name, whoever raced to create it.                     *)
THEOREM TracersAreSettled == ProviderSpec => []TracersSettled
<1>1. ProviderIInv => TracersSettled  BY DEF ProviderIInv, TracersSettled
<1>2. QED  BY <1>1, ProviderInitIInv, ProviderNextIInv, PTL DEF ProviderSpec

-----------------------------------------------------------------------------
(* The exporter.  A new one has sent and returned nothing.                 *)
LEMMA ExportInitIInv == ExportInit => ExportIInv
<1> SUFFICES ASSUME ExportInit PROVE ExportIInv
  OBVIOUS
<1>1. ExportTypeOK
  BY DEF ExportInit, RetryInit, ExportTypeOK, LoopPhases
<1>2. /\ \A u \in Uploads : loop[u] = "idle" /\ result[u] = "none"
      /\ \A s \in Shutters : shutter[s] = "idle"
      /\ halted = FALSE /\ client = "http" /\ late = {}
  BY DEF ExportInit, RetryInit
<1>3. QED
  BY <1>1, <1>2 DEF ExportIInv, HoldsClient, HaltOrder, LateReturned, NilMeansAccepted,
                    IsDown, InLoop

(* The times a request may have taken and been asked to wait are natural.  *)
LEMMA TimesNat ==
  ASSUME NEW b \in Backoffs, NEW t \in Nat
  PROVE  /\ Max({Clamped(t), b}) \in Nat
         /\ Max({Clamped(t), b}) = IF Clamped(t) > b THEN Clamped(t) ELSE b
<1>1. b \in Nat /\ Clamped(t) \in Nat
  BY RetryAssumption DEF Clamped
<1> DEFINE c == Clamped(t)
<1> HIDE DEF c
<1>2. c \in Nat  BY <1>1 DEF c
<1>3. \E x \in {c, b} : \A y \in {c, b} : x >= y
  BY <1>1, <1>2
<1>4. Max({c, b}) \in {c, b} /\ \A y \in {c, b} : Max({c, b}) >= y
  BY <1>3 DEF Max
<1>5. Max({c, b}) = IF c > b THEN c ELSE b
  BY <1>1, <1>2, <1>4
<1>6. QED  BY <1>1, <1>2, <1>5 DEF c

(* Some backoff is the longest.                                            *)
LEMMA LongestIsLongest ==
  LongestBackoff \in Backoffs /\ \A b \in Backoffs : b <= LongestBackoff
<1>1. PICK m \in Backoffs : \A b \in Backoffs : b <= m  BY RetryAssumption
<1>2. \E x \in Backoffs : \A y \in Backoffs : x >= y  BY <1>1, RetryAssumption
<1>3. LongestBackoff \in Backoffs /\ \A y \in Backoffs : LongestBackoff >= y
  BY <1>2 DEF LongestBackoff, Max
<1>4. QED  BY <1>3, RetryAssumption

(* What a call may do in the loop, to its own place, times and result.     *)
LEMMA ExportNextType == ExportTypeOK /\ [ExportNext]_exportVars => ExportTypeOK'
<1> SUFFICES ASSUME ExportTypeOK, [ExportNext]_exportVars PROVE ExportTypeOK'
  OBVIOUS
<1> USE ExportAssumption DEF ExportTypeOK, LoopPhases, InLoop
<1>1. ASSUME NEW u \in Uploads, ExportStart(u) PROVE ExportTypeOK'
  BY <1>1 DEF ExportStart, Return, GoOn, exporterVars
<1>2. ASSUME NEW u \in Uploads, LoadClient(u) PROVE ExportTypeOK'
  BY <1>2 DEF LoadClient, Return, GoOn
<1>3. ASSUME NEW u \in Uploads, Upload(u) PROVE ExportTypeOK'
  BY <1>3 DEF Upload, Return, GoOn, Released
<1>4. ASSUME NEW u \in Uploads, Send(u) PROVE ExportTypeOK'
  BY <1>4 DEF Send, Final, Return, GoOn, Released
<1>5. ASSUME NEW u \in Uploads, Respond(u) PROVE ExportTypeOK'
  <2>1. holder' \in Uploads \union {Nobody}
    BY <1>5 DEF Respond, Released
  <2>2. UNCHANGED <<signal, halted, client, shutter, late>>
    BY <1>5 DEF Respond
  <2>3. received' \in [Uploads -> SUBSET {"all", "part"}]
    BY <1>5 DEF Respond, Accepted
  <2>4. ASSUME NEW r \in {"ok", "error"}, Final(u, r)
        PROVE  /\ loop' \in [Uploads -> LoopPhases] /\ config' \in Configs
               /\ elapsed' \in [Uploads -> Nat] /\ throttle' \in [Uploads -> Nat]
               /\ result' \in [Uploads -> {"none", "ok", "error"}]
    BY <2>4 DEF Final, Return, GoOn
  <2>5. ASSUME NEW t \in RetryAfters, NEW d \in Latencies,
               Retryable(u, t, d, u \in ended), ~Final(u, "error")
        PROVE  /\ loop' \in [Uploads -> LoopPhases] /\ config' \in Configs
               /\ elapsed' \in [Uploads -> Nat] /\ throttle' \in [Uploads -> Nat]
               /\ result' \in [Uploads -> {"none", "ok", "error"}]
    <3>1. t \in Nat /\ d \in Nat  BY RetryAssumption
    <3>2. /\ GoOn(u, "wait") /\ Spend(u, d)
          /\ throttle' = [throttle EXCEPT ![u] = t] /\ UNCHANGED <<config, result>>
      BY <2>5 DEF Retryable
    <3>3. QED  BY <3>1, <3>2 DEF GoOn, Spend
  <2>6. PartialResult \in {"ok", "error"}  BY DEF PartialResult
  <2>7. \/ \E r \in {"ok", "error"} : Final(u, r)
        \/ \E t \in RetryAfters, d \in Latencies : Retryable(u, t, d, u \in ended)
    BY <1>5, <2>6 DEF Respond
  <2>8. QED  BY <2>1, <2>2, <2>3, <2>4, <2>5, <2>7
<1>6. ASSUME NEW u \in Uploads, Wait(u) PROVE ExportTypeOK'
  <2>1. CASE WaitOver(u) /\ UNCHANGED holder
    <3>1. throttle[u] \in Nat  OBVIOUS
    <3>2. PICK b \in Backoffs : Spend(u, Max({Clamped(throttle[u]), b}))
      BY <2>1 DEF WaitOver
    <3>3. Max({Clamped(throttle[u]), b}) \in Nat  BY <3>1, TimesNat
    <3>4. elapsed' \in [Uploads -> Nat]  BY <3>2, <3>3 DEF Spend
    <3>5. QED  BY <1>6, <2>1, <3>4 DEF Wait, WaitOver, GoOn
  <2>2. CASE WaitCancelled(u) /\ Released(u)
    BY <1>6, <2>2 DEF Wait, WaitCancelled, Final, Return, GoOn, Released
  <2>3. QED  BY <1>6, <2>1, <2>2 DEF Wait
<1>7. ASSUME NEW u \in Uploads, CtxEnds(u) \/ CancelByStop(u) PROVE ExportTypeOK'
  BY <1>7 DEF CtxEnds, CancelByStop, retryVars, exporterVars
<1>8. ASSUME NEW s \in Shutters, HaltStart(s) PROVE ExportTypeOK'
  BY <1>8 DEF HaltStart, retryVars
<1>9. ASSUME NEW s \in Shutters, HaltReplace(s) PROVE ExportTypeOK'
  BY <1>9 DEF HaltReplace, retryVars
<1>10. CASE UNCHANGED exportVars
  BY <1>10 DEF exportVars, retryVars, exporterVars
<1>11. QED
  BY <1>1, <1>2, <1>3, <1>4, <1>5, <1>6, <1>7, <1>8, <1>9, <1>10
     DEF ExportNext, UploadStep, ExportOver

(* No step of a call of Export touches the client or a call of Shutdown.   *)
LEMMA UploadKeeps ==
  ASSUME NEW u \in Uploads, ExportStart(u) \/ UploadStep(u) \/ CtxEnds(u) \/ CancelByStop(u)
  PROVE  UNCHANGED <<config, signal, halted, client, shutter>>
BY DEF ExportStart, UploadStep, LoadClient, Upload, Send, Respond, Wait, CtxEnds,
       CancelByStop, Final, Retryable, WaitOver, WaitCancelled, retryVars, exporterVars

(* A call moves itself only, towards the loop through LoadClient alone,    *)
(* and an "ok" it returns is that of a batch accepted whole, or of a log   *)
(* exporter that has been halted.                                          *)
LEMMA UploadMoves ==
  ASSUME ExportIInv, NEW u \in Uploads, ExportStart(u) \/ UploadStep(u)
  PROVE  /\ \A v \in Uploads \ {u} :
              loop'[v] = loop[v] /\ result'[v] = result[v] /\ received'[v] = received[v]
         /\ received[u] \subseteq received'[u]
         /\ result'[u] = "ok" =>
              result[u] = "ok" \/ "all" \in received'[u] \/ (signal = "logs" /\ halted)
<1> USE DEF ExportIInv, ExportTypeOK, Return, GoOn, Final
<1>1. CASE ExportStart(u)
  BY <1>1 DEF ExportStart
<1>2. CASE LoadClient(u)
  BY <1>2 DEF LoadClient, HaltOrder
<1>3. CASE Upload(u)
  BY <1>3 DEF Upload
<1>4. CASE Send(u)
  BY <1>4 DEF Send
<1>5. CASE Respond(u)
  BY <1>5 DEF Respond, Accepted, PartialResult, Retryable
<1>6. CASE Wait(u)
  BY <1>6 DEF Wait, WaitOver, WaitCancelled
<1>7. QED  BY <1>1, <1>2, <1>3, <1>4, <1>5, <1>6 DEF UploadStep

(* A call of a metric exporter that enters the loop holds clientMu, and    *)
(* gives it back only when it leaves.                                      *)
LEMMA UploadHolds ==
  ASSUME ExportIInv, NEW u \in Uploads, ExportStart(u) \/ UploadStep(u), signal = "metrics"
  PROVE  \/ /\ holder = Nobody /\ client = "http"
            /\ holder' = u
         \/ /\ loop'[u] \in {"loaded"} \union InLoop => loop[u] \in {"loaded"} \union InLoop
            /\ holder' = holder
         \/ /\ loop'[u] = "returned"
            /\ holder' = IF holder = u THEN Nobody ELSE holder
<1> USE DEF ExportIInv, ExportTypeOK, Return, GoOn, Final, Released, InLoop
<1>1. CASE ExportStart(u)
  BY <1>1 DEF ExportStart, exporterVars
<1>2. CASE LoadClient(u)
  BY <1>2 DEF LoadClient, ClientFree
<1>3. CASE Upload(u)
  BY <1>3 DEF Upload
<1>4. CASE Send(u)
  BY <1>4 DEF Send
<1>5. CASE Respond(u)
  BY <1>5 DEF Respond, Retryable
<1>6. CASE Wait(u)
  BY <1>6 DEF Wait, WaitOver, WaitCancelled
<1>7. QED  BY <1>1, <1>2, <1>3, <1>4, <1>5, <1>6 DEF UploadStep

(* Every step preserves the invariant of the exporter.                     *)
LEMMA ExportNextIInv == ExportIInv /\ [ExportNext]_exportVars => ExportIInv'
<1> SUFFICES ASSUME ExportIInv, [ExportNext]_exportVars PROVE ExportIInv'
  OBVIOUS
<1>0. ExportTypeOK'  BY ExportNextType DEF ExportIInv
<1>1. ASSUME NEW u \in Uploads, ExportStart(u) \/ UploadStep(u) PROVE ExportIInv'
  <2>0. UNCHANGED <<config, signal, halted, client, shutter>>
    BY <1>1, UploadKeeps
  <2>1. /\ \A v \in Uploads \ {u} :
             loop'[v] = loop[v] /\ result'[v] = result[v] /\ received'[v] = received[v]
        /\ received[u] \subseteq received'[u]
        /\ result'[u] = "ok" =>
             result[u] = "ok" \/ "all" \in received'[u] \/ (signal = "logs" /\ halted)
    BY <1>1, UploadMoves
  <2>2. NilMeansAccepted'
    BY <2>0, <2>1 DEF ExportIInv, NilMeansAccepted
  <2>3. HaltOrder'
    BY <2>0 DEF ExportIInv, HaltOrder, IsDown
  <2>4. LateReturned'
    <3>1. CASE ExportStart(u)
      BY <1>0, <2>0, <2>1, <3>1
         DEF ExportIInv, ExportTypeOK, LateReturned, HaltOrder, IsDown, ExportStart,
             Return, GoOn
    <3>2. CASE UploadStep(u)
      <4>1. late' = late /\ loop[u] # "returned"
        BY <3>2 DEF UploadStep, LoadClient, Upload, Send, Respond, Wait, WaitOver,
                    WaitCancelled
      <4>2. QED  BY <2>0, <2>1, <4>1 DEF ExportIInv, ExportTypeOK, LateReturned
    <3>3. QED  BY <1>1, <3>1, <3>2
  <2>5. HoldsClient'
    <3> SUFFICES ASSUME signal = "metrics", NEW v \in Uploads,
                        loop'[v] \in {"loaded"} \union InLoop
                 PROVE  holder' = v /\ client = "http"
      BY <2>0 DEF HoldsClient
    <3>1. v # u => loop'[v] = loop[v] /\ holder = v /\ client = "http"
      BY <2>1 DEF ExportIInv, HoldsClient
    <3>2. \/ holder = Nobody /\ client = "http" /\ holder' = u
          \/ /\ loop'[u] \in {"loaded"} \union InLoop => loop[u] \in {"loaded"} \union InLoop
             /\ holder' = holder
          \/ /\ loop'[u] = "returned"
             /\ holder' = IF holder = u THEN Nobody ELSE holder
      BY <1>1, UploadHolds
    <3>3. Nobody # v  BY ExportAssumption
    <3>4. CASE v = u  BY <3>2, <3>4 DEF ExportIInv, HoldsClient, InLoop
    <3>5. CASE v # u  BY <3>1, <3>2, <3>3, <3>5
    <3>6. QED  BY <3>4, <3>5
  <2>6. QED  BY <1>0, <2>2, <2>3, <2>4, <2>5 DEF ExportIInv
<1>2. ASSUME NEW u \in Uploads, CtxEnds(u) \/ CancelByStop(u) PROVE ExportIInv'
  <2>1. UNCHANGED <<retryVars, exporterVars, received, late>>
    BY <1>2 DEF CtxEnds, CancelByStop
  <2>2. QED
    BY <1>0, <2>1 DEF ExportIInv, HoldsClient, HaltOrder, LateReturned, NilMeansAccepted,
                      IsDown, retryVars, exporterVars
<1>3. ASSUME NEW s \in Shutters, HaltStart(s) PROVE ExportIInv'
  <2>0. /\ UNCHANGED <<loop, result, signal, client, holder, received, late>>
        /\ halted' = TRUE
    BY <1>3 DEF HaltStart, retryVars
  <2>1. HaltOrder'
    <3>1. CASE halted
      BY <1>3, <2>0, <3>1 DEF ExportIInv, ExportTypeOK, HaltOrder, IsDown, HaltStart, OnceBusy
    <3>2. CASE ~halted
      BY <1>3, <2>0, <3>2 DEF ExportIInv, ExportTypeOK, HaltOrder, IsDown, HaltStart, OnceBusy
    <3>3. QED  BY <3>1, <3>2
  <2>2. QED
    BY <1>0, <2>0, <2>1 DEF ExportIInv, HoldsClient, LateReturned, NilMeansAccepted
<1>4. ASSUME NEW s \in Shutters, HaltReplace(s) PROVE ExportIInv'
  <2>0. /\ UNCHANGED <<loop, result, signal, halted, holder, received, late>>
        /\ client' = "none" /\ halted
    BY <1>4 DEF HaltReplace, retryVars, ExportIInv, HaltOrder
  <2>1. HaltOrder'  BY <2>0 DEF HaltOrder
  <2>2. HoldsClient'
    BY <1>4, <2>0, ExportAssumption DEF ExportIInv, HoldsClient, HaltReplace, ClientFree
  <2>3. QED
    BY <1>0, <2>0, <2>1, <2>2 DEF ExportIInv, LateReturned, NilMeansAccepted
<1>5. CASE UNCHANGED exportVars
  BY <1>0, <1>5 DEF ExportIInv, HoldsClient, HaltOrder, LateReturned, NilMeansAccepted,
                    IsDown, exportVars, retryVars, exporterVars
<1>6. QED
  BY <1>1, <1>2, <1>3, <1>4, <1>5 DEF ExportNext, ExportOver

LEMMA ExportInvariant == ExportSpec => []ExportIInv
<1>1. QED  BY ExportInitIInv, ExportNextIInv, PTL DEF ExportSpec

(* A call of Export that returns nil has had its batch accepted whole, or  *)
(* was dropped by a log exporter that is shut down.                        *)
THEOREM NilIsAccepted == ExportSpec => []NilMeansAccepted
<1>1. ExportIInv => NilMeansAccepted  BY DEF ExportIInv
<1>2. QED  BY <1>1, ExportInvariant, PTL

(* After Shutdown has returned, a metric exporter has no request on its    *)
(* way, and a log exporter sends nothing for a call that began later.      *)
THEOREM QuietOnceShutDown == ExportSpec => []QuietAfterShutdown
<1>1. ExportIInv => QuietAfterShutdown
  <2> SUFFICES ASSUME ExportIInv, NEW u \in Uploads, loop[u] \in InLoop
               PROVE  /\ signal = "metrics" => ~IsDown
                      /\ signal = "logs" => u \notin late
    BY DEF QuietAfterShutdown
  <2>1. signal = "metrics" => ~IsDown
    BY DEF ExportIInv, HoldsClient, HaltOrder
  <2>2. signal = "logs" => u \notin late
    BY DEF ExportIInv, LateReturned, InLoop
  <2>3. QED  BY <2>1, <2>2
<1>2. QED  BY <1>1, ExportInvariant, PTL

-----------------------------------------------------------------------------
(* The loop of retries.  A new one has used no time.                       *)
LEMMA InitTimes == ExportInit => TimesBounded
BY DEF ExportInit, RetryInit, TimesBounded, InLoop

(* A response that is not the last word leaves a call to wait within the   *)
(* limit: as the times fit, passed + throttle has not wrapped around.      *)
LEMMA RetryableTimes ==
  ASSUME ThrottlesFit, ExportTypeOK, Limited, NEW u \in Uploads,
         NEW t \in RetryAfters, NEW d \in Latencies,
         Retryable(u, t, d, u \in ended), ~Final(u, "error")
  PROVE  /\ loop' = [loop EXCEPT ![u] = "wait"]
         /\ elapsed' = [elapsed EXCEPT ![u] = @ + d]
         /\ throttle' = [throttle EXCEPT ![u] = t]
         /\ elapsed[u] + d <= config.maxElapsed
         /\ t < MaxDuration => (elapsed[u] + d) + t <= config.maxElapsed
<1>1. /\ t \in Nat /\ d \in Nat /\ MaxDuration \in Nat /\ elapsed[u] \in Nat
      /\ config \in Configs /\ config.maxElapsed \in Nat
  BY RetryAssumption DEF ExportTypeOK
<1>2. /\ loop' = [loop EXCEPT ![u] = "wait"] /\ Spend(u, d)
      /\ throttle' = [throttle EXCEPT ![u] = t]
      /\ ~TimeOver(Clamped(t), elapsed[u] + d)
  BY DEF Retryable, GoOn
<1>3. elapsed[u] + d <= config.maxElapsed
  BY <1>1, <1>2 DEF TimeOver
<1>4. ASSUME t < MaxDuration PROVE (elapsed[u] + d) + t <= config.maxElapsed
  <2>1. Clamped(t) = t /\ t + config.maxElapsed <= MaxDuration
    BY <1>1, <1>4 DEF Clamped, ThrottlesFit
  <2>2. Plus(elapsed[u] + d, t) <= config.maxElapsed
    <3>1. Plus(elapsed[u] + d, t) \in Int  BY <1>1 DEF Plus
    <3>2. QED  BY <1>1, <1>2, <2>1, <3>1 DEF TimeOver
  <2>3. QED  BY <1>1, <1>3, <2>1, <2>2 DEF Plus
<1>5. QED  BY <1>2, <1>3, <1>4 DEF Spend

(* What TimesBounded says of one call.                                     *)
InTime(v) ==
  /\ loop[v] \notin InLoop => elapsed[v] = 0
  /\ loop[v] \in {"call", "sent"} => elapsed[v] <= config.maxElapsed + LongestBackoff
  /\ loop[v] = "wait" =>
       /\ elapsed[v] <= config.maxElapsed
       /\ throttle[v] < MaxDuration => elapsed[v] + throttle[v] <= config.maxElapsed

(* A call that leaves the loop, or has not waited yet, has used no time.   *)
LEMMA FinalInTime ==
  ASSUME ExportTypeOK, NEW u \in Uploads, NEW r, Final(u, r)
  PROVE  InTime(u)'
BY DEF Final, Return, GoOn, ExportTypeOK, InTime, InLoop

LEMMA WaitOverInTime ==
  ASSUME ExportTypeOK, Limited, NEW u \in Uploads, InTime(u), WaitOver(u)
  PROVE  InTime(u)'
<1>1. /\ elapsed[u] \in Nat /\ throttle[u] \in Nat /\ MaxDuration \in Nat
      /\ config' = config /\ config.maxElapsed \in Nat
      /\ LongestBackoff \in Nat /\ loop[u] = "wait"
  BY RetryAssumption, LongestIsLongest DEF ExportTypeOK, WaitOver
<1>2. PICK b \in Backoffs :
        /\ ~Outlives(Max({Clamped(throttle[u]), b}))
        /\ Spend(u, Max({Clamped(throttle[u]), b}))
  BY DEF WaitOver
<1> DEFINE delay == Max({Clamped(throttle[u]), b})
<1>3. delay \in Nat /\ delay = IF Clamped(throttle[u]) > b THEN Clamped(throttle[u]) ELSE b
  BY <1>1, TimesNat
<1>4. b \in Nat /\ b <= LongestBackoff  BY LongestIsLongest, RetryAssumption
<1>5. delay # MaxDuration /\ Spend(u, delay)
  BY <1>2 DEF Outlives
<1> HIDE DEF delay
<1>6. elapsed'[u] = elapsed[u] + delay
  BY <1>5 DEF Spend, ExportTypeOK
<1>7. loop'[u] = "call"
  BY DEF WaitOver, GoOn, ExportTypeOK
<1>8. elapsed[u] <= config.maxElapsed
      /\ (throttle[u] < MaxDuration => elapsed[u] + throttle[u] <= config.maxElapsed)
  BY <1>1 DEF InTime
<1>9. elapsed[u] + delay <= config.maxElapsed + LongestBackoff
  <2>1. CASE delay = b
    BY <1>1, <1>4, <1>8, <2>1
  <2>2. CASE delay = Clamped(throttle[u]) /\ delay # b
    <3>1. throttle[u] < MaxDuration /\ delay = throttle[u]
      BY <1>1, <1>5, <2>2 DEF Clamped
    <3>2. QED  BY <1>1, <1>8, <3>1
  <2>3. QED  BY <1>3, <2>1, <2>2
<1>10. QED  BY <1>1, <1>6, <1>7, <1>9 DEF InTime, InLoop

(* Every step keeps every call in time.                                    *)
LEMMA NextTimes ==
  ThrottlesFit /\ ExportTypeOK /\ TimesBounded /\ [ExportNext]_exportVars => TimesBounded'
<1> SUFFICES ASSUME ThrottlesFit, ExportTypeOK, TimesBounded, [ExportNext]_exportVars,
                    Limited', NEW v \in Uploads
             PROVE  InTime(v)'
  BY DEF TimesBounded, InTime
<1>1. ASSUME NEW u \in Uploads, ExportStart(u) \/ UploadStep(u) PROVE InTime(v)'
  <2>0. config' = config /\ Limited
    BY <1>1, UploadKeeps DEF Limited
  <2>1. InTime(u) /\ InTime(v)
    BY <2>0 DEF TimesBounded, InTime
  <2>2. v # u => loop'[v] = loop[v] /\ elapsed'[v] = elapsed[v] /\ throttle'[v] = throttle[v]
    <3> USE DEF ExportTypeOK, Return, GoOn, Final, Spend
    <3>1. CASE ExportStart(u)  BY <3>1 DEF ExportStart
    <3>2. CASE LoadClient(u) \/ Upload(u)  BY <3>2 DEF LoadClient, Upload
    <3>3. CASE Send(u)  BY <3>3 DEF Send
    <3>4. CASE Respond(u)  BY <3>4 DEF Respond, Retryable
    <3>5. CASE Wait(u)  BY <3>5 DEF Wait, WaitOver, WaitCancelled
    <3>6. QED  BY <1>1, <3>1, <3>2, <3>3, <3>4, <3>5 DEF UploadStep
  <2>3. InTime(u)'
    <3>0. config.maxElapsed \in Nat /\ LongestBackoff \in Nat
      BY RetryAssumption, LongestIsLongest DEF ExportTypeOK
    <3>1. CASE ExportStart(u) \/ LoadClient(u) \/ Upload(u)
      <4>1. elapsed' = elapsed /\ elapsed[u] = 0 /\ loop'[u] # "wait"
        BY <2>1, <3>1 DEF ExportStart, LoadClient, Upload, Return, GoOn, ExportTypeOK,
                          InTime, InLoop
      <4>2. QED  BY <2>0, <3>0, <4>1 DEF InTime, InLoop
    <3>2. CASE Send(u)
      <4>1. CASE u \in ended  BY <3>2, <4>1, FinalInTime DEF Send
      <4>2. CASE u \notin ended
        BY <2>0, <2>1, <3>2, <4>2 DEF Send, GoOn, ExportTypeOK, InTime, InLoop
      <4>3. QED  BY <4>1, <4>2
    <3>3. CASE Respond(u)
      <4>1. ASSUME NEW r, Final(u, r) PROVE InTime(u)'  BY <4>1, FinalInTime
      <4>2. ASSUME NEW t \in RetryAfters, NEW d \in Latencies,
                   Retryable(u, t, d, u \in ended), ~Final(u, "error")
            PROVE  InTime(u)'
        <5>1. /\ loop' = [loop EXCEPT ![u] = "wait"]
              /\ elapsed' = [elapsed EXCEPT ![u] = @ + d]
              /\ throttle' = [throttle EXCEPT ![u] = t]
              /\ elapsed[u] + d <= config.maxElapsed
              /\ t < MaxDuration => (elapsed[u] + d) + t <= config.maxElapsed
          BY <2>0, <4>2, RetryableTimes
        <5>2. QED  BY <2>0, <5>1 DEF ExportTypeOK, InTime, InLoop
      <4>3. QED  BY <3>3, <4>1, <4>2 DEF Respond
    <3>4. CASE Wait(u)
      <4>1. CASE WaitOver(u)  BY <2>0, <2>1, <4>1, WaitOverInTime
      <4>2. CASE WaitCancelled(u)  BY <4>2, FinalInTime DEF WaitCancelled
      <4>3. QED  BY <3>4, <4>1, <4>2 DEF Wait
    <3>5. QED  BY <1>1, <3>1, <3>2, <3>3, <3>4 DEF UploadStep
  <2>4. CASE v = u  BY <2>3, <2>4
  <2>5. CASE v # u  BY <2>0, <2>1, <2>2, <2>5 DEF InTime
  <2>6. QED  BY <2>4, <2>5
<1>2. CASE UNCHANGED retryVars
  BY <1>2 DEF TimesBounded, InTime, Limited, retryVars
<1>3. ASSUME NEW u \in Uploads, CtxEnds(u) \/ CancelByStop(u) PROVE UNCHANGED retryVars
  BY <1>3 DEF CtxEnds, CancelByStop
<1>4. ASSUME NEW s \in Shutters, HaltStart(s) \/ HaltReplace(s) PROVE UNCHANGED retryVars
  BY <1>4 DEF HaltStart, HaltReplace
<1>5. ExportOver \/ UNCHANGED exportVars => UNCHANGED retryVars
  BY DEF ExportOver, exportVars
<1>6. QED
  BY <1>1, <1>2, <1>3, <1>4, <1>5 DEF ExportNext

(* "MaxElapsedTime is the maximum amount of time (including retries) spent *)
(* trying to send a request", but for the last backoff: no later request   *)
(* is sent, if no response asks for a wait of some 292 years that is just  *)
(* short of what is clamped.                                               *)
THEOREM RetriesAreBounded == ThrottlesFit => (ExportSpec => []RetriesBounded)
<1> SUFFICES ASSUME ThrottlesFit PROVE ExportSpec => []RetriesBounded
  OBVIOUS
<1>1. ExportIInv => ExportTypeOK  BY DEF ExportIInv
<1>2. ExportTypeOK /\ TimesBounded /\ [ExportNext]_exportVars => TimesBounded'
  BY NextTimes
<1>3. TimesBounded => RetriesBounded
  BY DEF TimesBounded, RetriesBounded
<1>4. QED  BY <1>1, <1>2, <1>3, InitTimes, ExportInvariant, PTL DEF ExportSpec
=============================================================================
