----------------------------- MODULE MetricsProofs -----------------------------
(***************************************************************************)
(* Proofs about what goes on around the lock of a metric pipeline: the     *)
(* pipeline itself, the periodic reader that collects from it, for every   *)
(* set of goroutines, calls and measurements, and the creation of          *)
(* instruments, for every set of calls, identities and callbacks.          *)
(***************************************************************************)
EXTENDS PeriodicReader, Instruments, TLAPS

(* The actions of the pipeline.                                            *)
PipeStep ==
  \/ \E m \in Measurements : Record(m)
  \/ \E k \in Callbacks : Register(k) \/ Unregister(k)
  \/ \E t \in Threads : ProduceStep(t)
  \/ \E t \in Threads, ended \in BOOLEAN : ProduceEnter(t, ended)

(* A new pipeline runs nothing.                                            *)
LEMMA PipeInitIInv == PipelineInit => PipeIInv
BY DEF PipelineInit, PipeIInv, PipeTypeOK, Registered

(* A callback is removed only while nobody holds the lock, when no         *)
(* collection runs any, so what a collection has still to run is always    *)
(* registered.                                                             *)
LEMMA PipeStepIInv == PipeIInv /\ PipeStep => PipeIInv'
<1> SUFFICES ASSUME PipeIInv, PipeStep PROVE PipeIInv'
  OBVIOUS
<1> USE PipelineAssumption DEF PipeIInv, PipeTypeOK, Registered, heldVars
<1>1. ASSUME NEW m \in Measurements, Record(m) PROVE PipeIInv'
  BY <1>1 DEF Record
<1>2. ASSUME NEW k \in Callbacks, Register(k) PROVE PipeIInv'
  BY <1>2 DEF Register, LockFree
<1>3. ASSUME NEW k \in Callbacks, Unregister(k) PROVE PipeIInv'
  BY <1>3 DEF Unregister, LockFree
<1>4. ASSUME NEW t \in Threads, ProduceLock(t) PROVE PipeIInv'
  BY <1>4 DEF ProduceLock
<1>5. ASSUME NEW t \in Threads, CallbackStart(t) PROVE PipeIInv'
  BY <1>5 DEF CallbackStart
<1>6. ASSUME NEW t \in Threads, CallbackReturn(t) PROVE PipeIInv'
  BY <1>6 DEF CallbackReturn
<1>7. ASSUME NEW t \in Threads, ProduceAggregate(t) PROVE PipeIInv'
  BY <1>7 DEF ProduceAggregate
<1>8. ASSUME NEW t \in Threads, NEW ended1 \in BOOLEAN, ProduceEnter(t, ended1)
      PROVE  PipeIInv'
  BY <1>8 DEF ProduceEnter
<1>9. QED
  BY <1>1, <1>2, <1>3, <1>4, <1>5, <1>6, <1>7, <1>8 DEF PipeStep, ProduceStep

(* So is the end of a collection, when a goroutine drops what it got.      *)
LEMMA LeaveIInv ==
  ASSUME PipeIInv, NEW t \in Threads, Leave(t)
  PROVE  PipeIInv'
BY DEF PipeIInv, PipeTypeOK, Registered, heldVars, Leave

LEMMA PipeIdleIInv == PipeIInv /\ UNCHANGED pipeVars => PipeIInv'
BY DEF pipeVars, PipeIInv, PipeTypeOK, Registered

(* Once a callback is removed it is not run any more.                      *)
LEMMA PipeQuiet == PipeIInv => UnregisteredIsQuiet
BY PipelineAssumption DEF PipeIInv, Registered, UnregisteredIsQuiet

-----------------------------------------------------------------------------
(* The periodic reader.                                                    *)
LEMMA ReaderInitIInv == Init => ReaderIInv
<1> SUFFICES ASSUME Init PROVE ReaderIInv
  OBVIOUS
<1>1. PipeIInv  BY PipeInitIInv DEF Init
<1>2. ReaderTypeOK
  BY DEF Init, ReaderTypeOK, Calls, PipelineInit
<1>3. WorkInOrder
  BY PipelineAssumption DEF Init, WorkInOrder, PipelineInit
<1>4. FlushServed
  BY ReaderAssumption DEF Init, FlushServed
<1>5. CloserServed
  BY DEF Init, CloserServed, PipelineInit, Owns
<1>6. QED  BY <1>1, <1>2, <1>3, <1>4, <1>5 DEF ReaderIInv

(* Every step of the reader does to the pipeline one of its actions, or    *)
(* ends a collection.                                                      *)
LEMMA ReaderPipe ==
  Next => UNCHANGED pipeVars \/ PipeStep \/ (\E t \in Threads : Leave(t))
<1> SUFFICES ASSUME Next PROVE UNCHANGED pipeVars \/ PipeStep \/ (\E t \in Threads : Leave(t))
  OBVIOUS
<1> USE ReaderAssumption
<1>1. CASE NewProvider  BY <1>1 DEF NewProvider
<1>2. CASE Application  BY <1>2 DEF Application, PipeStep
<1>3. ASSUME NEW t \in Threads, CollectStep(t)
      PROVE  UNCHANGED pipeVars \/ PipeStep
  BY <1>3 DEF CollectStep, Collecting, ExportLock, UploadReturn, PipeStep
<1>4. CASE RunTick \/ RunFlush \/ RunDone  BY <1>4 DEF RunTick, RunFlush, RunDone
<1>5. CASE RunServe  BY <1>5 DEF RunServe, RunCollect, RunReply, PipeStep
<1>6. ASSUME NEW f \in Flushers, FlushStart(f) \/ FlushStep(f) PROVE UNCHANGED pipeVars
  BY <1>6 DEF FlushStart, FlushStep, FlushAnswer, FlushShutdown, FlushCancelled, FlushTo
<1>7. ASSUME NEW c \in Closers, ShutdownStart(c) \/ ShutdownStep(c)
      PROVE  UNCHANGED pipeVars \/ PipeStep \/ Leave(c)
  <2>1. ASSUME ShutdownSwap(c) PROVE UNCHANGED pipeVars \/ PipeStep
    <3>1. c \in Threads /\ (c \in ctxDone) \in BOOLEAN  OBVIOUS
    <3>2. UNCHANGED pipeVars \/ ProduceEnter(c, c \in ctxDone)
      BY <2>1 DEF ShutdownSwap
    <3>3. QED  BY <3>1, <3>2 DEF PipeStep
  <2>2. QED  BY <1>7, <2>1 DEF ShutdownStart, ShutdownStep, ShutdownExporter, ShutdownLate
<1>8. ASSUME NEW c \in Calls, CtxDone(c) PROVE UNCHANGED pipeVars
  BY <1>8 DEF CtxDone
<1>9. CASE Terminated  BY <1>9 DEF Terminated, vars
<1>10. QED
  BY <1>1, <1>2, <1>3, <1>4, <1>5, <1>6, <1>7, <1>8, <1>9 DEF Next

LEMMA ReaderPipeIInv == PipeIInv /\ [Next]_vars => PipeIInv'
BY ReaderPipe, PipeStepIInv, LeaveIInv, PipeIdleIInv DEF vars

(* Once a call of Unregister has returned, its callback is not running and *)
(* no collection of the reader that has begun will run it.                 *)
THEOREM RemovedIsQuiet == Spec => []UnregisteredIsQuiet
<1>1. Init => PipeIInv  BY PipeInitIInv DEF Init
<1>2. QED  BY <1>1, ReaderPipeIInv, PipeQuiet, PTL DEF Spec

-----------------------------------------------------------------------------
(* Every step preserves the invariant of the reader.                       *)
LEMMA ReaderNextIInv == ReaderIInv /\ [Next]_vars => ReaderIInv'
<1> SUFFICES ASSUME ReaderIInv, [Next]_vars PROVE ReaderIInv'
  OBVIOUS
<1> USE ReaderAssumption, PipelineAssumption
<1>0. PipeIInv' /\ PipeTypeOK
  BY ReaderPipeIInv DEF ReaderIInv, PipeIInv
<1>1. ASSUME NewProvider PROVE ReaderIInv'
  <2> USE <1>1 DEF NewProvider, pipeVars, runVars, exportVars, callVars
  <2>1. ReaderTypeOK'  BY DEF ReaderIInv, ReaderTypeOK, PipeTypeOK, Calls, Returned
  <2>2. WorkInOrder'  BY DEF ReaderIInv, ReaderTypeOK, PipeTypeOK, WorkInOrder, AtWork
  <2>3. FlushServed'
    BY DEF ReaderIInv, ReaderTypeOK, PipeTypeOK, FlushServed, Calls, Returned
  <2>4. CloserServed'
    BY DEF ReaderIInv, ReaderTypeOK, PipeTypeOK, CloserServed, Owns, Calls
  <2>5. QED  BY <1>0, <2>1, <2>2, <2>3, <2>4 DEF ReaderIInv
<1>2. ASSUME Application PROVE ReaderIInv'
  <2>0. /\ recorded \subseteq recorded' /\ producer # "none"
        /\ UNCHANGED <<producing, collected>>
        /\ UNCHANGED <<runVars, exportVars, callVars, producer, cancelled, ctxDone>>
    BY <1>2 DEF Application, Record, Register, Unregister, heldVars
  <2> USE <2>0
      DEF runVars, exportVars, callVars, ReaderIInv, ReaderTypeOK, PipeTypeOK, Calls
  <2>1. ReaderTypeOK'  BY DEF Returned
  <2>2. WorkInOrder'  BY DEF WorkInOrder, AtWork
  <2>3. FlushServed'  BY DEF FlushServed, Returned
  <2>4. CloserServed'  BY DEF CloserServed, Owns
  <2>5. QED  BY <1>0, <2>1, <2>2, <2>3, <2>4
<1>3. ASSUME NEW t \in Threads, Collecting(t) PROVE ReaderIInv'
  <2>0. /\ UNCHANGED <<runVars, exportVars, callVars, producer, cancelled, ctxDone>>
        /\ recorded' = recorded
        /\ \A r \in Threads \ {t} : producing'[r] = producing[r] /\ collected'[r] = collected[r]
        /\ producing[t] \in {"lock", "callbacks"} /\ producing'[t] # "out"
        /\ producing'[t] = "nil" => collected'[t] = recorded
    BY <1>0, <1>3
       DEF Collecting, ProduceStep, ProduceLock, CallbackStart, CallbackReturn,
           ProduceAggregate, PipeTypeOK
  <2> USE <2>0
      DEF runVars, exportVars, callVars, ReaderIInv, ReaderTypeOK, PipeTypeOK, Calls
  <2>1. ReaderTypeOK'  BY DEF Returned
  <2>2. WorkInOrder'  BY DEF WorkInOrder, AtWork
  <2>3. FlushServed'  BY DEF FlushServed, Returned
  <2>4. CloserServed'  BY DEF CloserServed, Owns
  <2>5. QED  BY <1>0, <2>1, <2>2, <2>3, <2>4
<1>4. ASSUME NEW t \in Threads, ExportLock(t) PROVE ReaderIInv'
  <2> USE <1>4
      DEF ExportLock, ExportFailed, MayEnd, Ended, pipeVars, runVars, exportVars, callVars
  <2>1. ReaderTypeOK'  BY DEF ReaderIInv, ReaderTypeOK, PipeTypeOK, Calls, Returned
  <2>2. WorkInOrder'  BY DEF ReaderIInv, ReaderTypeOK, PipeTypeOK, WorkInOrder, AtWork
  <2>3. FlushServed'
    BY DEF ReaderIInv, ReaderTypeOK, PipeTypeOK, FlushServed, Calls, Returned
  <2>4. CloserServed'
    BY DEF ReaderIInv, ReaderTypeOK, PipeTypeOK, CloserServed, Owns, Calls
  <2>5. QED  BY <1>0, <2>1, <2>2, <2>3, <2>4 DEF ReaderIInv
<1>5. ASSUME NEW t \in Threads, UploadReturn(t) PROVE ReaderIInv'
  <2> USE <1>5 DEF UploadReturn, UploadResult, pipeVars, runVars, exportVars, callVars
  <2>1. ReaderTypeOK'  BY DEF ReaderIInv, ReaderTypeOK, PipeTypeOK, Calls, Returned
  <2>2. WorkInOrder'  BY DEF ReaderIInv, ReaderTypeOK, PipeTypeOK, WorkInOrder, AtWork
  <2>3. FlushServed'
    BY DEF ReaderIInv, ReaderTypeOK, PipeTypeOK, FlushServed, Calls, Returned
  <2>4. CloserServed'
    BY DEF ReaderIInv, ReaderTypeOK, PipeTypeOK, CloserServed, Owns, Calls
  <2>5. QED  BY <1>0, <2>1, <2>2, <2>3, <2>4 DEF ReaderIInv
<1>6. ASSUME RunTick PROVE ReaderIInv'
  <2> USE <1>6 DEF RunTick, pipeVars, runVars, exportVars, callVars
  <2>1. ReaderTypeOK'  BY DEF ReaderIInv, ReaderTypeOK, PipeTypeOK, Calls, Returned
  <2>2. WorkInOrder'  BY DEF ReaderIInv, ReaderTypeOK, PipeTypeOK, WorkInOrder, AtWork
  <2>3. FlushServed'
    BY DEF ReaderIInv, ReaderTypeOK, PipeTypeOK, FlushServed, Calls, Returned
  <2>4. CloserServed'
    BY DEF ReaderIInv, ReaderTypeOK, PipeTypeOK, CloserServed, Owns, Calls
  <2>5. QED  BY <1>0, <2>1, <2>2, <2>3, <2>4 DEF ReaderIInv
<1>7. ASSUME RunFlush PROVE ReaderIInv'
  <2> USE <1>7 DEF RunFlush, pipeVars, runVars, exportVars, callVars
  <2>1. ReaderTypeOK'  BY DEF ReaderIInv, ReaderTypeOK, PipeTypeOK, Calls, Returned
  <2>2. WorkInOrder'  BY DEF ReaderIInv, ReaderTypeOK, PipeTypeOK, WorkInOrder, AtWork
  <2>3. FlushServed'
    BY DEF ReaderIInv, ReaderTypeOK, PipeTypeOK, FlushServed, Calls, Returned
  <2>4. CloserServed'
    BY DEF ReaderIInv, ReaderTypeOK, PipeTypeOK, CloserServed, Owns, Calls
  <2>5. QED  BY <1>0, <2>1, <2>2, <2>3, <2>4 DEF ReaderIInv
<1>8. ASSUME RunDone PROVE ReaderIInv'
  <2> USE <1>8 DEF RunDone, pipeVars, runVars, exportVars, callVars
  <2>1. ReaderTypeOK'  BY DEF ReaderIInv, ReaderTypeOK, PipeTypeOK, Calls, Returned
  <2>2. WorkInOrder'  BY DEF ReaderIInv, ReaderTypeOK, PipeTypeOK, WorkInOrder, AtWork
  <2>3. FlushServed'
    BY DEF ReaderIInv, ReaderTypeOK, PipeTypeOK, FlushServed, Calls, Returned
  <2>4. CloserServed'
    BY DEF ReaderIInv, ReaderTypeOK, PipeTypeOK, CloserServed, Owns, Calls
  <2>5. QED  BY <1>0, <2>1, <2>2, <2>3, <2>4 DEF ReaderIInv
<1>9. ASSUME RunCollect PROVE ReaderIInv'
  <2>0. /\ run = "collect" /\ run' = "serve" /\ recorded' = recorded /\ collected' = collected
        /\ UNCHANGED <<request, exportVars, callVars, producer, cancelled, ctxDone>>
        /\ \A r \in Threads \ {Run} : producing'[r] = producing[r]
        /\ producing[Run] = "out" /\ producing'[Run] \in {"lock", "err"}
    BY <1>0, <1>9 DEF RunCollect, ProduceEnter, PipeTypeOK
  <2> USE <2>0
      DEF runVars, exportVars, callVars, ReaderIInv, ReaderTypeOK, PipeTypeOK, Calls
  <2>1. ReaderTypeOK'  BY DEF Returned
  <2>2. WorkInOrder'  BY DEF WorkInOrder, AtWork
  <2>3. FlushServed'  BY DEF FlushServed, Returned
  <2>4. CloserServed'  BY DEF CloserServed, Owns
  <2>5. QED  BY <1>0, <2>1, <2>2, <2>3, <2>4
<1>10. ASSUME RunReply PROVE ReaderIInv'
  <2>0. /\ run = "serve" /\ run' = "select" /\ recorded' = recorded
        /\ UNCHANGED <<request, client, clientMu, delivered, flush, closer, once, before,
                       producer, cancelled, ctxDone>>
        /\ \A r \in Threads \ {Run} : /\ producing'[r] = producing[r] /\ export'[r] = export[r]
                                     /\ collected'[r] = collected[r]
        /\ producing'[Run] = "out" /\ export'[Run] = "out"
        /\ producing[Run] = "err" \/ export[Run] \in {"nil", "err"}
        /\ export' \in [Threads -> {"out", "upload", "nil", "err"}]
        /\ IF request = Tick THEN UNCHANGED errCh
             ELSE errCh' = [errCh EXCEPT ![request] = Outcome(Run)]
    BY <1>0, <1>10 DEF RunReply, Leave, Finished, ReaderIInv, ReaderTypeOK, PipeTypeOK
  <2> USE <2>0
      DEF runVars, exportVars, callVars, ReaderIInv, ReaderTypeOK, PipeTypeOK, Calls
  <2>1. ReaderTypeOK'  BY DEF Returned, Outcome
  <2>2. WorkInOrder'  BY DEF WorkInOrder, AtWork
  <2>3. FlushServed'
    <3>1. run' = "select" /\ UNCHANGED <<flush, before, delivered>>  OBVIOUS
    <3>2. ASSUME NEW f \in Flushers
          PROVE  /\ errCh'[f] = "nil" => before[f] \subseteq delivered
                 /\ flush[f] \in {"idle", "offer"} => errCh'[f] = "empty"
                 /\ flush[f] = "nil" => errCh'[f] = "nil"
      <4>1. CASE request # f
        <5>1. errCh'[f] = errCh[f]  BY <4>1
        <5>2. QED  BY <5>1 DEF FlushServed
      <4>2. CASE request = f
        <5>1. errCh'[f] = Outcome(Run) /\ errCh[f] \in {"empty", "nil", "err"}
          BY <4>2
        <5>2. flush[f] \notin {"idle", "offer"}
          BY <4>2 DEF FlushServed
        <5>3. export[Run] = "nil" => before[f] \subseteq delivered
          BY <4>2 DEF FlushServed, WorkInOrder
        <5>4. flush[f] # "nil"
          BY <4>2 DEF FlushServed
        <5>5. QED  BY <5>1, <5>2, <5>3, <5>4 DEF Outcome
      <4>3. QED  BY <4>1, <4>2
    <3>3. QED  BY <3>1, <3>2 DEF FlushServed
  <2>4. CloserServed'  BY DEF CloserServed, Owns
  <2>5. QED  BY <1>0, <2>1, <2>2, <2>3, <2>4
<1>11. ASSUME NEW f \in Flushers, FlushStart(f) PROVE ReaderIInv'
  <2> USE <1>11 DEF FlushStart, FlushTo, pipeVars, runVars, exportVars, callVars
  <2>1. ReaderTypeOK'  BY DEF ReaderIInv, ReaderTypeOK, PipeTypeOK, Calls, Returned
  <2>2. WorkInOrder'  BY DEF ReaderIInv, ReaderTypeOK, PipeTypeOK, WorkInOrder, AtWork
  <2>3. FlushServed'
    BY DEF ReaderIInv, ReaderTypeOK, PipeTypeOK, FlushServed, Calls, Returned
  <2>4. CloserServed'
    BY DEF ReaderIInv, ReaderTypeOK, PipeTypeOK, CloserServed, Owns, Calls
  <2>5. QED  BY <1>0, <2>1, <2>2, <2>3, <2>4 DEF ReaderIInv
<1>12. ASSUME NEW f \in Flushers, FlushStep(f) PROVE ReaderIInv'
  <2> USE <1>12
      DEF FlushStep, FlushAnswer, FlushShutdown, FlushCancelled, FlushTo, pipeVars, runVars, exportVars, callVars
  <2>1. ReaderTypeOK'  BY DEF ReaderIInv, ReaderTypeOK, PipeTypeOK, Calls, Returned
  <2>2. WorkInOrder'  BY DEF ReaderIInv, ReaderTypeOK, PipeTypeOK, WorkInOrder, AtWork
  <2>3. FlushServed'
    BY DEF ReaderIInv, ReaderTypeOK, PipeTypeOK, FlushServed, Calls, Returned
  <2>4. CloserServed'
    BY DEF ReaderIInv, ReaderTypeOK, PipeTypeOK, CloserServed, Owns, Calls
  <2>5. QED  BY <1>0, <2>1, <2>2, <2>3, <2>4 DEF ReaderIInv
<1>13. ASSUME NEW c \in Closers, ShutdownStart(c) PROVE ReaderIInv'
  <2> USE <1>13 DEF ShutdownStart, pipeVars, runVars, exportVars, callVars
  <2>1. ReaderTypeOK'  BY DEF ReaderIInv, ReaderTypeOK, PipeTypeOK, Calls, Returned
  <2>2. WorkInOrder'  BY DEF ReaderIInv, ReaderTypeOK, PipeTypeOK, WorkInOrder, AtWork
  <2>3. FlushServed'
    BY DEF ReaderIInv, ReaderTypeOK, PipeTypeOK, FlushServed, Calls, Returned
  <2>4. CloserServed'
    BY DEF ReaderIInv, ReaderTypeOK, PipeTypeOK, CloserServed, Owns, Calls
  <2>5. QED  BY <1>0, <2>1, <2>2, <2>3, <2>4 DEF ReaderIInv
<1>14. ASSUME NEW c \in Closers, ShutdownSwap(c) PROVE ReaderIInv'
  <2>0. /\ closer[c] = "stopping" /\ run = "done" /\ recorded' = recorded
        /\ closer' = [closer EXCEPT ![c] = "collecting"] /\ producer' = "shutdown"
        /\ UNCHANGED <<runVars, exportVars, flush, errCh, once, before, cancelled, ctxDone>>
        /\ collected' = collected
        /\ \A r \in Threads \ {c} : producing'[r] = producing[r]
        /\ producing[c] = "out"
        /\ IF producer = "none" THEN producing'[c] = "out" ELSE producing'[c] \in {"lock", "err"}
    <3>1. producing[c] = "out"
      BY <1>14 DEF ReaderIInv, WorkInOrder, AtWork, ShutdownSwap
    <3>2. QED
      BY <1>0, <3>1, <1>14 DEF ShutdownSwap, RunGone, ProduceEnter, PipeTypeOK, pipeVars
  <2> USE <2>0
      DEF runVars, exportVars, callVars, ReaderIInv, ReaderTypeOK, PipeTypeOK, Calls
  <2>1. ReaderTypeOK'  BY DEF Returned
  <2>2. WorkInOrder'  BY DEF WorkInOrder, AtWork
  <2>3. FlushServed'  BY DEF FlushServed, Returned
  <2>4. CloserServed'  BY DEF CloserServed, Owns
  <2>5. QED  BY <1>0, <2>1, <2>2, <2>3, <2>4
<1>15. ASSUME NEW c \in Closers, ShutdownExporter(c) PROVE ReaderIInv'
  <2>0. /\ closer[c] = "collecting" /\ recorded' = recorded /\ clientMu = None
        /\ producing[c] = "err" \/ export[c] \in {"nil", "err"} \/ producing[c] = "out"
        /\ closer' = [closer EXCEPT ![c] =
             IF c \notin ctxDone /\ (producing[c] = "out" \/ export[c] = "nil")
               THEN "nil" ELSE "err"]
        /\ once' = "done"
        /\ UNCHANGED <<runVars, clientMu, delivered, flush, errCh, before, producer,
                       cancelled, ctxDone>>
        /\ \A r \in Threads \ {c} : /\ producing'[r] = producing[r] /\ export'[r] = export[r]
                                   /\ collected'[r] = collected[r]
        /\ producing'[c] = "out" /\ export'[c] = "out"
        /\ export' \in [Threads -> {"out", "upload", "nil", "err"}]
  
    BY <1>0, <1>15
       DEF ShutdownExporter, Leave, Finished, Outcome, ReaderIInv, ReaderTypeOK,
           PipeTypeOK
  <2> USE <2>0
      DEF runVars, exportVars, callVars, ReaderIInv, ReaderTypeOK, PipeTypeOK, Calls
  <2>1. ReaderTypeOK'  BY DEF Returned
  <2>2. WorkInOrder'  BY DEF WorkInOrder, AtWork
  <2>3. FlushServed'  BY DEF FlushServed, Returned
  <2>4. CloserServed'  BY DEF CloserServed, Owns, WorkInOrder
  <2>5. QED  BY <1>0, <2>1, <2>2, <2>3, <2>4
<1>16. ASSUME NEW c \in Closers, ShutdownLate(c) PROVE ReaderIInv'
  <2> USE <1>16 DEF ShutdownLate, pipeVars, runVars, exportVars, callVars
  <2>1. ReaderTypeOK'  BY DEF ReaderIInv, ReaderTypeOK, PipeTypeOK, Calls, Returned
  <2>2. WorkInOrder'  BY DEF ReaderIInv, ReaderTypeOK, PipeTypeOK, WorkInOrder, AtWork
  <2>3. FlushServed'
    BY DEF ReaderIInv, ReaderTypeOK, PipeTypeOK, FlushServed, Calls, Returned
  <2>4. CloserServed'
    BY DEF ReaderIInv, ReaderTypeOK, PipeTypeOK, CloserServed, Owns, Calls
  <2>5. QED  BY <1>0, <2>1, <2>2, <2>3, <2>4 DEF ReaderIInv
<1>17. ASSUME NEW c \in Calls, CtxDone(c) PROVE ReaderIInv'
  <2> USE <1>17 DEF CtxDone, pipeVars, runVars, exportVars, callVars
  <2>1. ReaderTypeOK'  BY DEF ReaderIInv, ReaderTypeOK, PipeTypeOK, Calls, Returned
  <2>2. WorkInOrder'  BY DEF ReaderIInv, ReaderTypeOK, PipeTypeOK, WorkInOrder, AtWork
  <2>3. FlushServed'
    BY DEF ReaderIInv, ReaderTypeOK, PipeTypeOK, FlushServed, Calls, Returned
  <2>4. CloserServed'
    BY DEF ReaderIInv, ReaderTypeOK, PipeTypeOK, CloserServed, Owns, Calls
  <2>5. QED  BY <1>0, <2>1, <2>2, <2>3, <2>4 DEF ReaderIInv
<1>18. CASE UNCHANGED vars
  BY <1>0, <1>18
     DEF vars, pipeVars, runVars, exportVars, callVars, ReaderIInv, ReaderTypeOK,
         WorkInOrder, AtWork,
         FlushServed, CloserServed, Owns, Returned
<1>19. QED

  BY <1>1, <1>2, <1>3, <1>4, <1>5, <1>6, <1>7, <1>8, <1>9, <1>10, <1>11,
     <1>12, <1>13, <1>14, <1>15, <1>16, <1>17, <1>18
     DEF Next, CollectStep, RunServe, ShutdownStep, Terminated

(* A ForceFlush or Shutdown that returns nil has got every measurement     *)
(* made before the call delivered, and after such a Shutdown nothing of    *)
(* the reader is left running.                                             *)
THEOREM NilIsDelivered == Spec => []NilMeansDelivered
<1>1. ReaderIInv => NilMeansDelivered
  <2> SUFFICES ASSUME ReaderIInv PROVE NilMeansDelivered
    OBVIOUS
  <2>1. \A f \in Flushers : flush[f] = "nil" => before[f] \subseteq delivered
    BY DEF ReaderIInv, FlushServed
  <2>2. ASSUME NEW c \in Closers, closer[c] = "nil"
        PROVE  /\ before[c] \subseteq delivered
               /\ run = "done" /\ clientMu = None /\ \A t \in Threads : export[t] = "out"
    <3>1. before[c] \subseteq delivered /\ run = "done"
      BY <2>2 DEF ReaderIInv, CloserServed
    <3>2. \A d \in Closers : closer[d] # "collecting"
      BY <2>2 DEF ReaderIInv, CloserServed, Owns
    <3>3. \A t \in Threads : export[t] = "out"
      BY <3>1, <3>2 DEF ReaderIInv, WorkInOrder, AtWork
    <3>4. clientMu = None
      BY <3>3 DEF ReaderIInv, ReaderTypeOK, WorkInOrder
    <3>5. QED  BY <3>1, <3>3, <3>4
  <2>3. QED  BY <2>1, <2>2 DEF NilMeansDelivered
<1>2. QED  BY <1>1, ReaderInitIInv, ReaderNextIInv, PTL DEF Spec

-----------------------------------------------------------------------------
(* The creation of instruments.                                            *)
LEMMA CreationInitIInv == InstrumentsInit => InstrumentsIInv
<1> SUFFICES ASSUME InstrumentsInit PROVE InstrumentsIInv
  OBVIOUS
<1>1. InstrumentsTypeOK
  BY DEF InstrumentsInit, InstrumentsTypeOK, CreationPhases
<1>2. DOMAIN streams = {} /\ DOMAIN insts = {} /\ DOMAIN aggregators = {}
  BY DEF InstrumentsInit, NoEntries
<1>3. CachesTrue  BY <1>2 DEF CachesTrue
<1>4. \A c \in Creators : creation[c] = "idle"  BY DEF InstrumentsInit
<1>5. AbsentUnderLock  BY <1>4 DEF AbsentUnderLock, Making
<1>6. Registered = {}  BY DEF InstrumentsInit, PipelineInit, Registered
<1>7. MakersCallback  BY <1>6 DEF MakersCallback
<1>8. QED  BY <1>1, <1>3, <1>5, <1>7 DEF InstrumentsIInv

(* Appending a stream leaves the ones there are.                           *)
LEMMA AppendStream ==
  ASSUME NEW S, NEW q \in Seq(S), NEW e \in S
  PROVE  /\ Append(q, e) \in Seq(S) /\ Len(Append(q, e)) = Len(q) + 1
         /\ DOMAIN Append(q, e) = DOMAIN q \union {Len(q) + 1}
         /\ Len(q) + 1 \notin DOMAIN q /\ Len(q) + 1 \in Nat
         /\ Append(q, e)[Len(q) + 1] = e
         /\ \A i \in DOMAIN q : Append(q, e)[i] = q[i]
OBVIOUS

(* A lock that is taken or given back.                                     *)
LEMMA LockMoves ==
  ASSUME NEW S, NEW locks \in [BOOLEAN -> S], NEW b \in BOOLEAN, NEW x \in S
  PROVE  [locks EXCEPT ![b] = x] \in [BOOLEAN -> S]
OBVIOUS

(* A call that goes on without a stream, a cache entry or a callback.      *)
LEMMA Bystanders ==
  ASSUME InstrumentsIInv, InstrumentsTypeOK', UNCHANGED <<streams, aggregators, insts>>,
         AbsentUnderLock', Registered' = Registered,
         \A c \in Creators :
           creation'[c] = creation[c] \/ creation[c] \notin {"store", "returned"}
  PROVE  InstrumentsIInv'
<1>1. CachesTrue'
  BY DEF InstrumentsIInv, CachesTrue, IsStreamOf
<1>2. DOMAIN CallbackOf \subseteq Creators
  BY InstrumentsAssumption
<1>3. MakersCallback'
  BY <1>2 DEF InstrumentsIInv, MakersCallback
<1>4. QED  BY <1>1, <1>3 DEF InstrumentsIInv

(* Every step preserves the invariant: the lock of a cache is held from    *)
(* the look at it to the entry.                                            *)
LEMMA CreationNextIInv ==
  InstrumentsIInv /\ [InstrumentsNext]_instrumentVars => InstrumentsIInv'
<1> SUFFICES ASSUME InstrumentsIInv, [InstrumentsNext]_instrumentVars PROVE InstrumentsIInv'
  OBVIOUS
<1> USE InstrumentsAssumption
<1>0. InstrumentsTypeOK /\ CachesTrue /\ AbsentUnderLock /\ MakersCallback
  BY DEF InstrumentsIInv
<1>1. ASSUME NEW c \in Creators, Ask(c) PROVE InstrumentsIInv'
  <2> USE <1>0, <1>1 DEF Ask, Goes, cacheVars, pipeVars
  <2>1. InstrumentsTypeOK'  BY DEF InstrumentsTypeOK, CreationPhases
  <2>2. AbsentUnderLock'
    BY DEF InstrumentsTypeOK, CreationPhases, AbsentUnderLock, Making, IsStreamOf, InstCache
  <2>3. Registered' = Registered  BY DEF Registered
  <2>4. QED  BY <2>1, <2>2, <2>3, Bystanders DEF InstrumentsTypeOK
<1>2. ASSUME NEW c \in Creators, LookupInstrument(c) PROVE InstrumentsIInv'
  <2> USE <1>0, <1>2 DEF LookupInstrument, Goes, Gets, Holder, pipeVars
  <2>0. Id[c] \in DOMAIN insts => IsStreamOf(insts[Id[c]], Id[c]) /\ insts[Id[c]] \in Nat
    BY DEF CachesTrue, IsStreamOf, InstrumentsTypeOK
  <2>1. InstrumentsTypeOK'
    <3>1. CASE Id[c] \in DOMAIN insts
      BY <2>0, <3>1 DEF InstrumentsTypeOK, CreationPhases
    <3>2. CASE Id[c] \notin DOMAIN insts
      <4>1. InstCache(c) \in BOOLEAN  BY DEF InstCache
      <4>2. instLock' \in [BOOLEAN -> Creators \union {None}]
        <5>1. instLock' = [instLock EXCEPT ![InstCache(c)] = c]  BY <3>2
        <5>2. instLock \in [BOOLEAN -> Creators \union {None}]  BY DEF InstrumentsTypeOK
        <5> HIDE <1>0, <1>2 DEF LookupInstrument, Goes, Gets, Holder, pipeVars
        <5>3. QED  BY <4>1, <5>1, <5>2, LockMoves
      <4>3. QED  BY <3>2, <4>2 DEF InstrumentsTypeOK, CreationPhases
    <3>3. QED  BY <3>1, <3>2
  <2>2. AbsentUnderLock'
  
    BY <2>0
       DEF InstrumentsTypeOK, CreationPhases, AbsentUnderLock, Making, IsStreamOf,
           InstCache
  <2>3. Registered' = Registered  BY DEF Registered
  <2>4. QED  BY <2>1, <2>2, <2>3, Bystanders DEF InstrumentsTypeOK
<1>3. ASSUME NEW c \in Creators, LookupAggregator(c) PROVE InstrumentsIInv'
  <2> USE <1>0, <1>3 DEF LookupAggregator, Goes, Gets, Holder, Then, pipeVars
  <2>0. Normal(Id[c]) \in DOMAIN aggregators =>
          /\ IsStreamOf(aggregators[Normal(Id[c])], Id[c])
          /\ aggregators[Normal(Id[c])] \in Nat
    BY DEF CachesTrue, IsStreamOf, InstrumentsTypeOK
  <2>1. InstrumentsTypeOK'
    BY <2>0 DEF InstrumentsTypeOK, CreationPhases
  <2>2. AbsentUnderLock'
  
    BY <2>0
       DEF InstrumentsTypeOK, CreationPhases, AbsentUnderLock, Making, IsStreamOf,
           InstCache
  <2>3. Registered' = Registered  BY DEF Registered
  <2>4. ASSUME NEW d \in Creators
        PROVE  creation'[d] = creation[d] \/ creation[d] \notin {"store", "returned"}
    BY DEF InstrumentsTypeOK
  <2>5. QED  BY <2>1, <2>2, <2>3, <2>4, Bystanders
<1>4. ASSUME NEW c \in Creators, AddSync(c) PROVE InstrumentsIInv'
  <2> USE <1>0
  <2>0. /\ creation[c] = "sync" /\ aggLock = c /\ Normal(Id[c]) \notin DOMAIN aggregators
        /\ creation' = [creation EXCEPT ![c] = Then(c)]
        /\ streams' = Append(streams, Id[c])
        /\ measure' = [measure EXCEPT ![c] = Len(streams')]
        /\ aggregators' = With(aggregators, Normal(Id[c]), Len(streams'))
        /\ aggLock' = None
        /\ UNCHANGED <<instLock, insts, registration>>
    BY <1>4 DEF AddSync, Goes, Gets, AbsentUnderLock, pipeVars
  <2> DEFINE m == Len(streams) + 1
  <2>1. /\ streams \in Seq({Id[d] : d \in Creators}) /\ Id[c] \in {Id[d] : d \in Creators}
    BY DEF InstrumentsTypeOK
  <2>2. /\ streams' \in Seq({Id[d] : d \in Creators}) /\ Len(streams') = m /\ m \in Nat
        /\ DOMAIN streams' = DOMAIN streams \union {m} /\ m \notin DOMAIN streams
        /\ streams'[m] = Id[c] /\ \A i \in DOMAIN streams : streams'[i] = streams[i]
    BY <2>0, <2>1, AppendStream
  <2>3. /\ DOMAIN aggregators' = DOMAIN aggregators \union {Normal(Id[c])}
        /\ aggregators'[Normal(Id[c])] = m
        /\ \A n \in DOMAIN aggregators : aggregators'[n] = aggregators[n]
    <3>1. aggregators' = With(aggregators, Normal(Id[c]), m)  BY <2>0, <2>2
    <3>2. QED  BY <2>0, <3>1 DEF With
  <2> HIDE DEF m
  <2>4. InstrumentsTypeOK'
    BY <2>0, <2>2 DEF InstrumentsTypeOK, CreationPhases, Then
  <2>5. CachesTrue'
    <3>1. ASSUME NEW i \in DOMAIN streams'
          PROVE  /\ Normal(streams'[i]) \in DOMAIN aggregators'
                 /\ aggregators'[Normal(streams'[i])] = i
      <4>1. CASE i = m  BY <2>2, <2>3, <4>1
      <4>2. CASE i \in DOMAIN streams  BY <2>2, <2>3, <4>2 DEF CachesTrue
      <4>3. QED  BY <2>2, <3>1, <4>1, <4>2
    <3>2. ASSUME NEW n \in DOMAIN aggregators'
          PROVE  aggregators'[n] \in DOMAIN streams' /\ Normal(streams'[aggregators'[n]]) = n
      <4>1. CASE n = Normal(Id[c])  BY <2>2, <2>3, <4>1
      <4>2. CASE n \in DOMAIN aggregators  BY <2>2, <2>3, <4>2 DEF CachesTrue
      <4>3. QED  BY <2>3, <3>2, <4>1, <4>2
    <3>3. ASSUME NEW id \in DOMAIN insts'
          PROVE  insts'[id] \in DOMAIN streams' /\ Normal(streams'[insts'[id]]) = Normal(id)
      BY <2>0, <2>2, <3>3 DEF CachesTrue, IsStreamOf
    <3>4. QED  BY <3>1, <3>2, <3>3 DEF CachesTrue, IsStreamOf
  <2>6. AbsentUnderLock'
  
    BY <2>0, <2>2, <2>3
       DEF InstrumentsTypeOK, CreationPhases, AbsentUnderLock, Making, IsStreamOf,
                 InstCache, Then
  <2>7. MakersCallback'
    BY <2>0 DEF MakersCallback, Registered, InstrumentsTypeOK
  <2>8. QED  BY <2>4, <2>5, <2>6, <2>7 DEF InstrumentsIInv
<1>5. ASSUME NEW c \in Creators, AddMeasure(c) PROVE InstrumentsIInv'
  <2> USE <1>0, <1>5 DEF AddMeasure, Goes, cacheVars, pipeVars
  <2>1. InstrumentsTypeOK'  BY DEF InstrumentsTypeOK, CreationPhases
  <2>2. AbsentUnderLock'
    BY DEF InstrumentsTypeOK, CreationPhases, AbsentUnderLock, Making, IsStreamOf, InstCache
  <2>3. Registered' = Registered  BY DEF Registered
  <2>4. QED  BY <2>1, <2>2, <2>3, Bystanders DEF InstrumentsTypeOK
<1>6. ASSUME NEW c \in Creators, AddCallback(c) PROVE InstrumentsIInv'
  <2> USE <1>0
  <2>0. /\ creation[c] = "callback" /\ creation' = [creation EXCEPT ![c] = "store"]
        /\ registration' = [registration EXCEPT ![CallbackOf[c]] = "registered"]
        /\ UNCHANGED <<measure, instLock, insts, aggLock, aggregators, streams>>
    BY <1>6 DEF AddCallback, Register, Goes, cacheVars
  <2>1. InstrumentsTypeOK'  BY <2>0 DEF InstrumentsTypeOK, CreationPhases
  <2>2. AbsentUnderLock'
  
    BY <2>0
       DEF InstrumentsTypeOK, CreationPhases, AbsentUnderLock, Making, IsStreamOf,
           InstCache
  <2>3. CachesTrue'  BY <2>0 DEF CachesTrue, IsStreamOf
  <2>4. Registered' \subseteq Registered \union {CallbackOf[c]}
    BY <2>0 DEF Registered
  <2>5. DOMAIN CallbackOf \subseteq Creators /\ c \in DOMAIN CallbackOf
    BY <2>0 DEF InstrumentsTypeOK
  <2>6. ASSUME NEW d \in DOMAIN CallbackOf, Id[d] = Id[c], d # c
        PROVE  CallbackOf[d] \notin Registered
    <3>1. Id[c] \notin DOMAIN insts /\ instLock[InstCache(c)] = c
      BY <2>0 DEF AbsentUnderLock, Making
    <3>2. creation[d] = "store" => instLock[InstCache(d)] = d
      BY <2>5 DEF AbsentUnderLock, Making
    <3>3. QED  BY <2>6, <3>1, <3>2 DEF MakersCallback, InstCache
  <2>7. MakersCallback'
    <3>1. ASSUME NEW d \in DOMAIN CallbackOf, CallbackOf[d] \in Registered'
          PROVE  \/ creation'[d] = "store"
                 \/ creation'[d] = "returned" /\ Id[d] \in DOMAIN insts'
      <4>1. CASE d = c  BY <2>0, <2>5, <4>1 DEF InstrumentsTypeOK
      <4>2. CASE d # c
        <5>1. CallbackOf[d] \in Registered  BY <2>4, <2>5, <3>1, <4>2
        <5>2. QED  BY <2>0, <2>5, <4>2, <5>1 DEF MakersCallback, InstrumentsTypeOK
      <4>3. QED  BY <4>1, <4>2
    <3>2. ASSUME NEW d \in DOMAIN CallbackOf, NEW e \in DOMAIN CallbackOf,
                 Id[d] = Id[e], d # e
          PROVE  ~({CallbackOf[d], CallbackOf[e]} \subseteq Registered')
      <4>1. CASE d = c  BY <2>4, <2>5, <2>6, <3>2, <4>1
      <4>2. CASE e = c  BY <2>4, <2>5, <2>6, <3>2, <4>2
      <4>3. CASE d # c /\ e # c  BY <2>4, <2>5, <3>2, <4>3 DEF MakersCallback
      <4>4. QED  BY <4>1, <4>2, <4>3
    <3>3. QED  BY <3>1, <3>2 DEF MakersCallback
  <2>8. QED  BY <2>1, <2>2, <2>3, <2>7 DEF InstrumentsIInv
<1>7. ASSUME NEW c \in Creators, StoreInstrument(c) PROVE InstrumentsIInv'
  <2> USE <1>0
  <2>0. /\ creation[c] = "store" /\ creation' = [creation EXCEPT ![c] = "returned"]
        /\ insts' = With(insts, Id[c], measure[c])
        /\ instLock' = [instLock EXCEPT ![InstCache(c)] = None]
        /\ UNCHANGED <<measure, aggLock, aggregators, streams, registration>>
    BY <1>7 DEF StoreInstrument, Goes, Unlocked, pipeVars
  <2>1. IsStreamOf(measure[c], Id[c]) /\ instLock[InstCache(c)] = c /\ InstCache(c) \in BOOLEAN
    BY <2>0 DEF AbsentUnderLock, Making, InstCache
  <2>2. /\ DOMAIN insts' = DOMAIN insts \union {Id[c]}
        /\ insts'[Id[c]] = measure[c]
        /\ \A other \in DOMAIN insts : other # Id[c] => insts'[other] = insts[other]
    BY <2>0 DEF With
  <2>3. InstrumentsTypeOK'
    BY <2>0, <2>1 DEF InstrumentsTypeOK, CreationPhases
  <2>4. CachesTrue'
    BY <2>0, <2>1, <2>2 DEF CachesTrue, IsStreamOf
  <2>5. AbsentUnderLock'
  
    BY <2>0, <2>1, <2>2
       DEF InstrumentsTypeOK, CreationPhases, AbsentUnderLock, Making, IsStreamOf,
                            InstCache
  <2>6. Registered' = Registered  BY <2>0 DEF Registered
  <2>7. MakersCallback'
    BY <2>0, <2>2, <2>6 DEF MakersCallback, InstrumentsTypeOK
  <2>8. QED  BY <2>3, <2>4, <2>5, <2>7 DEF InstrumentsIInv
<1>8. CASE UNCHANGED <<creatorVars, cacheVars, streams, registration>>
  <2> USE <1>0, <1>8 DEF creatorVars, cacheVars
  <2>1. InstrumentsTypeOK'  BY DEF InstrumentsTypeOK
  <2>2. AbsentUnderLock'
    BY DEF AbsentUnderLock, IsStreamOf
  <2>3. Registered' = Registered  BY DEF Registered
  <2>4. QED  BY <2>1, <2>2, <2>3, Bystanders
<1>9. ASSUME NEW t \in Threads, CollectAgain(t) \/ CollectOn(t) \/ CallbackEnds(t)
      PROVE  UNCHANGED <<creatorVars, cacheVars, streams, registration>>
  BY <1>9 DEF CollectAgain, CollectOn, CallbackEnds, ProduceLock, CallbackStart,
              ProduceAggregate, CallbackReturn
<1>10. InstrumentsOver \/ UNCHANGED instrumentVars =>
         UNCHANGED <<creatorVars, cacheVars, streams, registration>>
  BY DEF InstrumentsOver, instrumentVars, pipeVars
<1>11. QED
  BY <1>1, <1>2, <1>3, <1>4, <1>5, <1>6, <1>7, <1>8, <1>9, <1>10
     DEF InstrumentsNext, CreatorStep

(* Calls that ask for one instrument share one stream, which the pipeline  *)
(* collects, and only the callback of the first of them is used.           *)
THEOREM InstrumentsCreatedOnce == InstrumentsSpec => []CreatedOnce
<1>1. InstrumentsIInv => CreatedOnce

  BY DEF InstrumentsIInv, CachesTrue, AbsentUnderLock, MakersCallback, IsStreamOf,
         CreatedOnce
<1>2. QED  BY <1>1, CreationInitIInv, CreationNextIInv, PTL DEF InstrumentsSpec
=============================================================================
