---------------------------- MODULE PeriodicReader ----------------------------
(***************************************************************************)
(* PeriodicReader of sdk/metric/periodic_reader.go with the pipeline it    *)
(* collects from and the exporter it exports to: the run goroutine with    *)
(* its ticker, ForceFlush, which asks the run goroutine to collect, and    *)
(* Shutdown, which stops it and collects a last time itself.               *)
(*                                                                         *)
(* The ticker, which is reset after every ForceFlush, may fire whenever    *)
(* run waits for it.  The upload with its retries is one call, which may   *)
(* fail.                                                                   *)
(***************************************************************************)
EXTENDS Pipeline

CONSTANTS
  Run,          (* the run goroutine                                       *)
  Tick,         (* the request of the ticker                               *)
  Flushers,     (* the calls of ForceFlush                                 *)
  Closers,      (* the calls of Shutdown                                   *)
  Cancellable,  (* those whose context may end                             *)
  Registrable   (* the callbacks the application passes to RegisterCallback*)

ASSUME ReaderAssumption ==
  /\ Run \in Threads /\ Run \notin Closers /\ Closers \subseteq Threads
  /\ Tick \notin Flushers /\ Flushers \intersect Closers = {}
  /\ Cancellable \subseteq Flushers \union Closers
  /\ Registrable \subseteq Callbacks

VARIABLES
  request,      (* what the run goroutine is serving                       *)
  run,          (* where it is                                             *)
  producer,     (* sdkProducer                                             *)
  once,         (* shutdownOnce                                            *)
  cancelled,    (* the context of the run goroutine                        *)
  flush,        (* where each ForceFlush is                                *)
  errCh,        (* what is in its channel                                  *)
  closer,       (* where each Shutdown is                                  *)
  export,       (* where each goroutine is in Export                       *)
  clientMu,     (* the goroutine that holds the lock of the exporter       *)
  client,       (* the client of the exporter: "http" or "shutdown"        *)
  ctxDone,      (* the calls whose context has ended                       *)
  before,       (* history: the measurements made before each call         *)
  delivered     (* history: the measurements of the successful uploads     *)

runVars == <<request, run>>
exportVars == <<export, clientMu, client, delivered>>
callVars == <<flush, errCh, closer, once, before>>
vars == <<pipeVars, runVars, exportVars, callVars, producer, cancelled, ctxDone>>

Calls == Flushers \union Closers

Init ==
  /\ PipelineInit
  /\ request = Tick /\ run = "select"
  /\ producer = "none" /\ once = "free" /\ cancelled = FALSE
  /\ flush = [f \in Flushers |-> "idle"]
  /\ errCh = [f \in Flushers |-> "empty"]
  /\ closer = [c \in Closers |-> "idle"]
  /\ export = [t \in Threads |-> "out"]
  /\ clientMu = None /\ client = "http"
  /\ ctxDone = {}
  /\ before = [c \in Calls |-> {}] /\ delivered = {}

-----------------------------------------------------------------------------
(* The application.  NewMeterProvider registers its pipeline, unless the   *)
(* reader is shut down: then it is created and never read.                 *)
NewProvider ==
  /\ producer = "none"
  /\ producer' = "pipeline"
  /\ UNCHANGED <<pipeVars, runVars, exportVars, callVars, cancelled, ctxDone>>

Application ==
  /\ producer # "none"
  /\ \/ \E m \in Measurements : Record(m)
     \/ \E k \in Registrable : Register(k) \/ Unregister(k)
  /\ UNCHANGED <<runVars, exportVars, callVars, producer, cancelled, ctxDone>>

CtxDone(c) ==
  /\ c \in Cancellable \ ctxDone
  /\ ctxDone' = ctxDone \union {c}
  /\ UNCHANGED <<pipeVars, runVars, exportVars, callVars, producer, cancelled>>

-----------------------------------------------------------------------------
(* The context t collects and exports with has ended, or may have: that of *)
(* the run goroutine has a deadline for each collection.                   *)
Ended(t) == IF t = Run THEN cancelled ELSE t \in ctxDone
MayEnd(t) == t = Run \/ Ended(t)

(* Export of the metrics t has collected.                                  *)
ExportFailed(t) ==
  /\ export' = [export EXCEPT ![t] = "err"]
  /\ UNCHANGED <<clientMu, client, delivered>>

ExportLock(t) ==
  /\ producing[t] = "nil" /\ export[t] = "out" /\ clientMu = None
  /\ \/ client = "http" /\ ~Ended(t) /\ clientMu' = t
        /\ export' = [export EXCEPT ![t] = "upload"]
        /\ UNCHANGED <<client, delivered>>
     \/ (client = "shutdown" \/ MayEnd(t)) /\ ExportFailed(t)
  /\ UNCHANGED <<pipeVars, runVars, callVars, producer, cancelled, ctxDone>>

Upload_ErrorLost(r) == "nil"
UploadResult(r) == r

UploadReturn(t) ==
  /\ export[t] = "upload"
  /\ clientMu' = None
  /\ \E r \in {"nil", "err"} :
       /\ export' = [export EXCEPT ![t] = UploadResult(r)]
       /\ delivered' = IF r = "nil" THEN delivered \union collected[t] ELSE delivered
  /\ UNCHANGED <<pipeVars, runVars, callVars, client, producer, cancelled, ctxDone>>

(* The outcome of collect and Export: Export only if collect succeeds.     *)
Finished(t) == producing[t] = "err" \/ export[t] \in {"nil", "err"}
Outcome(t) == IF export[t] = "nil" THEN "nil" ELSE "err"

(* The collection of t is over.                                            *)
Leave(t) ==
  /\ producing' = [producing EXCEPT ![t] = "out"]
  /\ export' = [export EXCEPT ![t] = "out"]
  /\ collected' = [collected EXCEPT ![t] = {}]
  /\ UNCHANGED <<heldVars, registration, recorded, clientMu, delivered>>

Collecting(t) ==
  /\ ProduceStep(t)
  /\ UNCHANGED <<runVars, exportVars, callVars, producer, cancelled, ctxDone>>

CollectStep(t) == Collecting(t) \/ ExportLock(t) \/ UploadReturn(t)

-----------------------------------------------------------------------------
(* run                                                                     *)
RunTick ==
  /\ run = "select"
  /\ request' = Tick /\ run' = "collect"
  /\ UNCHANGED <<pipeVars, exportVars, callVars, producer, cancelled, ctxDone>>

RunFlush ==
  /\ run = "select"
  /\ \E f \in Flushers :
       /\ flush[f] = "offer"
       /\ flush' = [flush EXCEPT ![f] = "await"]
       /\ request' = f
  /\ run' = "collect"
  /\ UNCHANGED <<pipeVars, exportVars, errCh, closer, once, before, producer, cancelled, ctxDone>>

(* collectAndExport reads sdkProducer; without one collect fails.          *)
RunCollect ==
  /\ run = "collect"
  /\ run' = "serve"
  /\ \/ producer = "pipeline" /\ ~cancelled /\ ProduceEnter(Run, FALSE)
     \/ (producer # "pipeline" \/ MayEnd(Run)) /\ ProduceEnter(Run, TRUE)
  /\ UNCHANGED <<request, exportVars, callVars, producer, cancelled, ctxDone>>

RunReply ==
  /\ run = "serve" /\ Finished(Run)
  /\ run' = "select"
  /\ IF request = Tick
       THEN UNCHANGED errCh
       ELSE errCh' = [errCh EXCEPT ![request] = Outcome(Run)]
  /\ Leave(Run)
  /\ UNCHANGED <<request, client, flush, closer, once, before, producer, cancelled, ctxDone>>

RunStops == cancelled

RunDone ==
  /\ run = "select" /\ RunStops
  /\ run' = "done"
  /\ UNCHANGED <<pipeVars, request, exportVars, callVars, producer, cancelled, ctxDone>>

RunServe == RunCollect \/ RunReply

-----------------------------------------------------------------------------
(* ForceFlush                                                              *)
FlushTo(f, phase) ==
  /\ flush' = [flush EXCEPT ![f] = phase]
  /\ UNCHANGED <<pipeVars, runVars, exportVars, errCh, closer, once, producer, cancelled, ctxDone>>

FlushStart(f) ==
  /\ flush[f] = "idle"
  /\ before' = [before EXCEPT ![f] = recorded]
  /\ FlushTo(f, "offer")

(* The result of the collection, then of the ForceFlush of the exporter.   *)
FlushAnswer(f) ==
  /\ flush[f] = "await" /\ errCh[f] # "empty"
  /\ FlushTo(f, IF errCh[f] = "nil" /\ f \notin ctxDone THEN "nil" ELSE "err")
  /\ UNCHANGED before

ReaderDone_NoCase == FALSE
ReaderDone == run = "done"

FlushShutdown(f) ==
  /\ flush[f] = "offer" /\ ReaderDone
  /\ FlushTo(f, "shutdown")
  /\ UNCHANGED before

FlushCancelled(f) ==
  /\ flush[f] \in {"offer", "await"} /\ f \in ctxDone
  /\ FlushTo(f, "err")
  /\ UNCHANGED before

FlushStep(f) == FlushAnswer(f) \/ FlushShutdown(f) \/ FlushCancelled(f)

-----------------------------------------------------------------------------
(* Shutdown                                                                *)
ShutdownStart(c) ==
  /\ closer[c] = "idle"
  /\ before' = [before EXCEPT ![c] = recorded]
  /\ IF once = "free"
       THEN /\ closer' = [closer EXCEPT ![c] = "stopping"]
            /\ once' = "running" /\ cancelled' = TRUE
       ELSE /\ closer' = [closer EXCEPT ![c] = "late"]
            /\ UNCHANGED <<once, cancelled>>
  /\ UNCHANGED <<pipeVars, runVars, exportVars, flush, errCh, producer, ctxDone>>

RunGone == run = "done"

(* It waits for the run goroutine and swaps the producer, then collects.   *)
ShutdownSwap(c) ==
  /\ closer[c] = "stopping" /\ RunGone
  /\ closer' = [closer EXCEPT ![c] = "collecting"]
  /\ producer' = "shutdown"
  /\ IF producer = "none"
       THEN UNCHANGED pipeVars
       ELSE ProduceEnter(c, c \in ctxDone)
  /\ UNCHANGED <<runVars, exportVars, flush, errCh, once, before, cancelled, ctxDone>>

(* The exporter is shut down in any case; without a producer the result is *)
(* that of the exporter.                                                   *)
ShutdownExporter(c) ==
  /\ closer[c] = "collecting"
  /\ Finished(c) \/ producing[c] = "out"
  /\ clientMu = None
  /\ client' = "shutdown"
  /\ closer' = [closer EXCEPT ![c] =
       IF c \notin ctxDone /\ (producing[c] = "out" \/ Outcome(c) = "nil")
         THEN "nil" ELSE "err"]
  /\ once' = "done"
  /\ Leave(c)
  /\ UNCHANGED <<runVars, flush, errCh, before, producer, cancelled, ctxDone>>

ShutdownLate(c) ==
  /\ closer[c] = "late" /\ once = "done"
  /\ closer' = [closer EXCEPT ![c] = "shutdown"]
  /\ UNCHANGED <<pipeVars, runVars, exportVars, flush, errCh, once, before,
                 producer, cancelled, ctxDone>>

ShutdownStep(c) == ShutdownSwap(c) \/ ShutdownExporter(c) \/ ShutdownLate(c)

-----------------------------------------------------------------------------
Returned == {"nil", "err", "shutdown"}

Terminated ==
  /\ run = "done"
  /\ \A f \in Flushers : flush[f] \in Returned
  /\ \A c \in Closers : closer[c] \in Returned
  /\ UNCHANGED vars

Next ==
  \/ NewProvider \/ Application
  \/ \E c \in Calls : CtxDone(c)
  \/ \E t \in Threads : CollectStep(t)
  \/ RunTick \/ RunFlush \/ RunServe \/ RunDone
  \/ \E f \in Flushers : FlushStart(f) \/ FlushStep(f)
  \/ \E c \in Closers : ShutdownStart(c) \/ ShutdownStep(c)
  \/ Terminated

Spec == Init /\ [][Next]_vars

(* Goroutines that can run do run, callbacks return, and so does an upload *)
(* (the client has a timeout).  The cases of the select in run are chosen  *)
(* at random among those that are ready, so none is passed over forever.   *)
(* No context need end, and the ticker need not fire.                      *)
Fairness ==
  /\ \A t \in Threads : WF_vars(CollectStep(t))
  /\ WF_vars(RunServe) /\ SF_vars(RunFlush) /\ SF_vars(RunDone)
  /\ \A f \in Flushers : WF_vars(FlushStep(f))
  /\ \A c \in Closers : WF_vars(ShutdownStep(c))

FairSpec == Spec /\ Fairness

-----------------------------------------------------------------------------
(* A ForceFlush or Shutdown that returns nil has got every measurement     *)
(* made before the call delivered, by a collection that began after it;    *)
(* and after Shutdown nothing of the reader is left running.               *)
NilMeansDelivered ==
  /\ \A f \in Flushers : flush[f] = "nil" => before[f] \subseteq delivered
  /\ \A c \in Closers : closer[c] = "nil" =>
       /\ before[c] \subseteq delivered
       /\ run = "done" /\ clientMu = None /\ \A t \in Threads : export[t] = "out"

ReaderTypeOK ==
  /\ request \in Flushers \union {Tick}
  /\ run \in {"select", "collect", "serve", "done"}
  /\ producer \in {"none", "pipeline", "shutdown"}
  /\ once \in {"free", "running", "done"}
  /\ flush \in [Flushers -> {"idle", "offer", "await"} \union Returned]
  /\ errCh \in [Flushers -> {"empty", "nil", "err"}]
  /\ closer \in [Closers -> {"idle", "stopping", "collecting", "late"} \union Returned]
  /\ export \in [Threads -> {"out", "upload", "nil", "err"}]
  /\ clientMu \in Threads \union {None}
  /\ before \in [Calls -> SUBSET recorded]

(* A goroutine collects for the request it serves or for the Shutdown it   *)
(* is, and exports only what it has collected, with clientMu for the       *)
(* upload.                                                                 *)
AtWork(t) == IF t = Run THEN run = "serve" ELSE t \in Closers /\ closer[t] = "collecting"

WorkInOrder ==
  \A t \in Threads :
    /\ producing[t] # "out" => AtWork(t)
    /\ export[t] # "out" => producing[t] = "nil"
    /\ export[t] = "nil" => collected[t] \subseteq delivered
    /\ clientMu = t => export[t] = "upload"

(* What a call that waits for a collection has got so far: the collection  *)
(* began after it, and so holds what was recorded before it.               *)
FlushServed ==
  \A f \in Flushers :
    /\ errCh[f] = "nil" => before[f] \subseteq delivered
    /\ flush[f] \in {"idle", "offer"} => errCh[f] = "empty"
    /\ flush[f] = "nil" => errCh[f] = "nil"
    /\ request = f /\ run \in {"collect", "serve"} =>
         /\ flush[f] \notin {"idle", "offer"} /\ errCh[f] = "empty"
         /\ run = "serve" /\ producing[Run] = "nil" => before[f] \subseteq collected[Run]

(* One call of Shutdown at most takes shutdownOnce, and collects when the  *)
(* run goroutine is done, unless nothing was ever recorded.                *)
Owns(c) == closer[c] \in {"stopping", "collecting", "nil", "err"}

CloserServed ==
  /\ producer = "none" => recorded = {}
  /\ \A c, d \in Closers : Owns(c) /\ Owns(d) => c = d
  /\ \A c \in Closers :
       /\ Owns(c) => once # "free"
       /\ closer[c] \in {"collecting", "nil", "err"} => run = "done"
       /\ closer[c] = "nil" => before[c] \subseteq delivered
       /\ closer[c] = "collecting" =>
            /\ producer = "shutdown"
            /\ producing[c] = "out" => before[c] = {}
            /\ producing[c] = "nil" => before[c] \subseteq collected[c]

(* The inductive invariant.                                                *)
ReaderIInv == PipeIInv /\ ReaderTypeOK /\ WorkInOrder /\ FlushServed /\ CloserServed

(* A ForceFlush returns without the help of its context: the run goroutine *)
(* serves it, however often the ticker fires and however many others ask,  *)
(* or the reader is shut down.  So does every Shutdown, which waits for a  *)
(* collection in progress.                                                 *)
CallsReturn ==
  /\ \A f \in Flushers : flush[f] = "offer" ~> flush[f] \in Returned
  /\ \A c \in Closers : closer[c] \in {"stopping", "late"} ~> closer[c] \in Returned
=============================================================================
