-------------------------- MODULE LogBatchProcessor --------------------------
(***************************************************************************)
(* The batching log processor of sdk/log/batch.go.                         *)
(*                                                                         *)
(* Application goroutines emit records into a bounded queue that           *)
(* overwrites its oldest record (OverwritingQueue); one worker goroutine   *)
(* owns every call of the exporter.  It serves, in this order, a request   *)
(* to shut down, a waiting ForceFlush, and the timer or the coalesced      *)
(* exportTrigger.  Requests carry the context and the response channel of  *)
(* the caller.                                                             *)
(***************************************************************************)
EXTENDS OverwritingQueue

CONSTANTS
  Flushers,    (* the calls of ForceFlush                                  *)
  Closers,     (* the calls of Shutdown                                    *)
  Cancellable, (* the calls whose context can be cancelled or can expire   *)
  BatchSize,   (* expMaxBatchSize                                          *)
  Nobody       (* the request of a scheduled export                        *)

ASSUME CallsAssumption ==
  /\ Flushers \intersect Closers = {}
  /\ {Nobody, "no", "full"} \intersect (Flushers \union Closers) = {}
  /\ Cancellable \subseteq Flushers \union Closers

(* newBatchConfig checks nothing; a negative size panics in make.          *)
ASSUME BatchSizeNatural == BatchSize \in Nat

VARIABLES
  stopped,     (* BatchProcessor.stopped                                   *)
  trigger,     (* there is a signal in exportTrigger                       *)
  mailbox,     (* the request in the buffered channel shutdown: {} or {c}  *)
  done,        (* the channel done is closed                               *)
  timer,       (* "armed" or "fired"                                       *)
  worker,      (* where the worker is, see WorkerPhases                    *)
  request,     (* whose request it serves, Nobody for a scheduled export   *)
  work,        (* the records it took from the queue and has not exported  *)
  more,        (* exportBatch: remaining >= b.batchSize                    *)
  failed,      (* chunkExport has an error to report                       *)
  emit,        (* where each record is in OnEmit                           *)
  flush,       (* where each ForceFlush call is                            *)
  closer,      (* where each Shutdown call is                              *)
  resp,        (* what the worker has answered each request                *)
  ctxDone,     (* the calls whose context is done                          *)
  attempted,   (* history: the records handed to the exporter, in order    *)
  lost,        (* history: how each record was lost, "no" if it was not,   *)
               (* "full" if it was overwritten, else the request that      *)
               (* abandoned it                                             *)
  before       (* history: records accepted when a call began              *)

requestVars == <<flush, closer, resp, before>>
chunkVars   == <<request, work, more, failed>>
exportVars  == <<attempted, lost>>
vars == <<queueVars, stopped, trigger, mailbox, done, timer, worker, chunkVars,
          emit, requestVars, ctxDone, exportVars>>

Calls == Flushers \union Closers

WorkerPhases == {"probe", "poll", "block", "dequeue", "flush", "chunk", "call",
                 "stopping", "respond", "done"}
EmitPhases   == {"live", "checked", "trigger", "accepted", "refused"}
FlushPhases  == {"idle", "sending", "awaiting",
                 "ok", "failed", "cancelled", "ignored", "aborted"}
CloserPhases == {"idle", "closing", "sending", "awaiting",
                 "ok", "failed", "cancelled", "noop"}

(* The records that were put in the queue.                                 *)
Accepted == {r \in Records : emit[r] \in {"trigger", "accepted"}}

(* lost, after the records of s are lost for the reason c.                 *)
LostTo(s, c) == [r \in Records |-> IF r \in ToSet(s) THEN c ELSE lost[r]]

Init ==
  /\ QueueInit
  /\ stopped = FALSE /\ trigger = FALSE /\ mailbox = {} /\ done = FALSE
  /\ timer = "armed" /\ worker = "probe"
  /\ request = Nobody /\ work = <<>> /\ more = FALSE /\ failed = FALSE
  /\ emit = [r \in Records |-> "live"]
  /\ flush = [f \in Flushers |-> "idle"]
  /\ closer = [c \in Closers |-> "idle"]
  /\ resp = [x \in Calls |-> "none"]
  /\ ctxDone = {} /\ attempted = <<>> /\ lost = [r \in Records |-> "no"]
  /\ before = [x \in Calls |-> {}]

-----------------------------------------------------------------------------
(* OnEmit: the check, the enqueueing and the signal are three steps.       *)

EmitCheck(r) ==
  /\ emit[r] = "live"
  /\ emit' = [emit EXCEPT ![r] = IF stopped THEN "refused" ELSE "checked"]
  /\ UNCHANGED <<queueVars, stopped, trigger, mailbox, done, timer, worker,
                 chunkVars, requestVars, ctxDone, exportVars>>

(* accepted && n >= b.batchSize, for the length n after the enqueueing.    *)
Signals(n) == n >= BatchSize

EmitEnqueue(r) ==
  /\ emit[r] = "checked"
  /\ \/ /\ Enqueue(r)
        /\ lost' = LostTo(Displaced, "full")
        /\ emit' = [emit EXCEPT ![r] = IF Signals(Len(items')) THEN "trigger" ELSE "accepted"]
     \/ /\ EnqueueRefused
        /\ emit' = [emit EXCEPT ![r] = "refused"]
        /\ UNCHANGED lost
  /\ UNCHANGED <<stopped, trigger, mailbox, done, timer, worker, chunkVars,
                 requestVars, ctxDone, attempted>>

EmitSignal(r) ==
  /\ emit[r] = "trigger"
  /\ emit' = [emit EXCEPT ![r] = "accepted"]
  /\ trigger' = TRUE
  /\ UNCHANGED <<queueVars, stopped, mailbox, done, timer, worker, chunkVars,
                 requestVars, ctxDone, exportVars>>

-----------------------------------------------------------------------------
(* The worker: a probe of shutdown, a poll of shutdown and flush, and a    *)
(* blocking select of all four channels.                                   *)

Serve(x, phase) ==
  /\ request' = x
  /\ worker' = phase
  /\ UNCHANGED <<queueVars, stopped, done, work, more, failed, emit, closer,
                 resp, before, ctxDone, exportVars>>

ServeShutdown ==
  /\ worker \in {"probe", "poll", "block"}
  /\ \E c \in mailbox : Serve(c, "flush")
  /\ mailbox' = {}
  /\ UNCHANGED <<trigger, timer, flush>>

(* flush is unbuffered: the worker takes the request of a caller that is   *)
(* waiting to send.                                                        *)
ServeFlush(f) ==
  /\ worker \in {"poll", "block"}
  /\ flush[f] = "sending"
  /\ flush' = [flush EXCEPT ![f] = "awaiting"]
  /\ Serve(f, "flush")
  /\ UNCHANGED <<trigger, timer, mailbox>>

NothingWaiting ==
  /\ \/ worker = "probe" /\ mailbox = {} /\ Serve(Nobody, "poll")
     \/ /\ worker = "poll" /\ mailbox = {}
        /\ \A f \in Flushers : flush[f] # "sending"
        /\ Serve(Nobody, "block")
  /\ UNCHANGED <<trigger, timer, mailbox, flush>>

(* Both wakes start a new interval.                                        *)
ResetTimer_StopOnly == "stopped"
ResetTimer == "armed"

Wake ==
  /\ worker = "block"
  /\ \/ timer = "fired" /\ UNCHANGED trigger
     \/ trigger /\ trigger' = FALSE
  /\ timer' = ResetTimer
  /\ Serve(Nobody, "dequeue")
  /\ UNCHANGED <<mailbox, flush>>

(* exportBatch                                                             *)
Retrigger_Late(remaining) == remaining > BatchSize
Retrigger(remaining) == remaining >= BatchSize

ExportBatch ==
  /\ worker = "dequeue"
  /\ Dequeue(BatchSize)
  /\ work' = Taken(BatchSize)
  /\ more' = (work' # <<>> /\ Retrigger(Len(items')))
  /\ worker' = IF work' = <<>> THEN "probe" ELSE "chunk"
  /\ UNCHANGED <<stopped, trigger, mailbox, done, timer, request, failed, emit,
                 requestVars, ctxDone, exportVars>>

(* flushExporter and shutdownExporter; the first looks at the context      *)
(* before it takes the records.                                            *)
GivesUp == request \in Flushers /\ request \in ctxDone

FlushQueue ==
  /\ worker = "flush"
  /\ \/ /\ GivesUp
        /\ failed' = TRUE
        /\ worker' = "respond"
        /\ UNCHANGED <<queueVars, work>>
     \/ /\ ~GivesUp
        /\ Flush
        /\ work' = items
        /\ worker' = "chunk"
        /\ UNCHANGED failed
  /\ UNCHANGED <<stopped, trigger, mailbox, done, timer, request, more, emit,
                 requestVars, ctxDone, exportVars>>

(* chunkExport: one chunk at a time while the context lasts; a size of 0   *)
(* makes one chunk of everything.                                          *)
ChunksOut == work = <<>>
Interrupted == request \in ctxDone /\ BatchSize # 0
Chunk == IF BatchSize = 0 \/ Len(work) < BatchSize THEN work ELSE SubSeq(work, 1, BatchSize)

ChunkCall ==
  /\ worker = "chunk"
  /\ ~ChunksOut /\ ~Interrupted
  /\ attempted' = attempted \o Chunk
  /\ work' = SubSeq(work, Len(Chunk) + 1, Len(work))
  /\ worker' = "call"
  /\ UNCHANGED <<queueVars, stopped, trigger, mailbox, done, timer, request,
                 more, failed, emit, requestVars, ctxDone, lost>>

(* The exporter returns; each call has a timeout.                          *)
ChunkReturn ==
  /\ worker = "call"
  /\ \E r \in BOOLEAN : failed' = (failed \/ r)
  /\ worker' = "chunk"
  /\ UNCHANGED <<queueVars, stopped, trigger, mailbox, done, timer, request, work,
                 more, emit, requestVars, ctxDone, exportVars>>

AfterChunks ==
  CASE request = Nobody -> "probe"
    [] request \in Flushers -> "respond"
    [] request \in Closers -> "stopping"

(* chunkExport, flushExporter and shutdownExporter all look at the context *)
(* and report its error.                                                   *)
Fails_ExportOnly == failed
Fails == failed \/ request \in ctxDone

(* All chunks are out, or the context is done and the rest is abandoned.   *)
(* A scheduled export gives its error to the handler and signals the       *)
(* worker itself if another batch is ready.                                *)
ChunksDone ==
  /\ worker = "chunk"
  /\ ChunksOut \/ Interrupted
  /\ lost' = LostTo(work, request)
  /\ work' = <<>>
  /\ worker' = AfterChunks
  /\ failed' = (request # Nobody /\ Fails)
  /\ trigger' = (trigger \/ (request = Nobody /\ more))
  /\ more' = FALSE
  /\ UNCHANGED <<queueVars, stopped, mailbox, done, timer, request, emit,
                 requestVars, ctxDone, attempted>>

(* The exporter is shut down, then done is closed, then the caller is      *)
(* answered.                                                               *)
CloseDone ==
  /\ worker = "stopping"
  /\ done' = TRUE
  /\ worker' = "respond"
  /\ UNCHANGED <<queueVars, stopped, trigger, mailbox, timer, chunkVars, emit,
                 requestVars, ctxDone, exportVars>>

Respond ==
  /\ worker = "respond"
  /\ resp' = [resp EXCEPT ![request] = IF failed THEN "failed" ELSE "ok"]
  /\ failed' = FALSE /\ request' = Nobody
  /\ worker' = IF done THEN "done" ELSE "probe"
  /\ UNCHANGED <<queueVars, stopped, trigger, mailbox, done, timer, work, more,
                 emit, flush, closer, before, ctxDone, exportVars>>

TimerFire ==
  /\ timer = "armed" /\ worker # "done"
  /\ timer' = "fired"
  /\ UNCHANGED <<queueVars, stopped, trigger, mailbox, done, worker, chunkVars,
                 emit, requestVars, ctxDone, exportVars>>

-----------------------------------------------------------------------------
(* ForceFlush                                                              *)

FlushStart(f) ==
  /\ flush[f] = "idle"
  /\ flush' = [flush EXCEPT ![f] = CASE stopped -> "ignored"
                                     [] ~stopped /\ f \in ctxDone -> "cancelled"
                                     [] OTHER -> "sending"]
  /\ before' = [before EXCEPT ![f] = Accepted]
  /\ UNCHANGED <<queueVars, stopped, trigger, mailbox, done, timer, worker,
                 chunkVars, emit, closer, resp, ctxDone, exportVars>>

FlushAbort_NoDoneCase(f) == FALSE
FlushAbort(f) == flush[f] = "sending" /\ done /\ flush' = [flush EXCEPT ![f] = "aborted"]

FlushReturn(f) ==
  /\ \/ FlushAbort(f)
     \/ /\ flush[f] \in {"sending", "awaiting"} /\ f \in ctxDone
        /\ flush' = [flush EXCEPT ![f] = "cancelled"]
     \/ /\ flush[f] = "awaiting" /\ resp[f] # "none"
        /\ flush' = [flush EXCEPT ![f] = resp[f]]
  /\ UNCHANGED <<queueVars, stopped, trigger, mailbox, done, timer, worker,
                 chunkVars, emit, closer, resp, before, ctxDone, exportVars>>

-----------------------------------------------------------------------------
(* Shutdown: stopped.Swap, q.Close and the buffered send are three steps.  *)

ShutdownStart(c) ==
  /\ closer[c] = "idle"
  /\ closer' = [closer EXCEPT ![c] = IF stopped THEN "noop" ELSE "closing"]
  /\ stopped' = TRUE
  /\ before' = [before EXCEPT ![c] = Accepted]
  /\ UNCHANGED <<queueVars, trigger, mailbox, done, timer, worker, chunkVars,
                 emit, flush, resp, ctxDone, exportVars>>

ShutdownClose_Skipped(c) ==
  /\ closer[c] = "closing"
  /\ closer' = [closer EXCEPT ![c] = "sending"]
  /\ UNCHANGED <<queueVars, stopped, trigger, mailbox, done, timer, worker,
                 chunkVars, emit, flush, resp, before, ctxDone, exportVars>>
ShutdownClose(c) ==
  /\ closer[c] = "closing"
  /\ Close
  /\ closer' = [closer EXCEPT ![c] = "sending"]
  /\ UNCHANGED <<stopped, trigger, mailbox, done, timer, worker, chunkVars,
                 emit, flush, resp, before, ctxDone, exportVars>>

(* The channel shutdown has room for the one request there is.             *)
Sent(c) == {c}

ShutdownSend(c) ==
  /\ closer[c] = "sending"
  /\ mailbox' = Sent(c)
  /\ closer' = [closer EXCEPT ![c] = "awaiting"]
  /\ UNCHANGED <<queueVars, stopped, trigger, done, timer, worker, chunkVars,
                 emit, flush, resp, before, ctxDone, exportVars>>

ShutdownReturn(c) ==
  /\ closer[c] = "awaiting"
  /\ \/ c \in ctxDone /\ closer' = [closer EXCEPT ![c] = "cancelled"]
     \/ resp[c] # "none" /\ closer' = [closer EXCEPT ![c] = resp[c]]
  /\ UNCHANGED <<queueVars, stopped, trigger, mailbox, done, timer, worker,
                 chunkVars, emit, flush, resp, before, ctxDone, exportVars>>

CtxDone(x) ==
  /\ x \in Cancellable \ ctxDone
  /\ ctxDone' = ctxDone \union {x}
  /\ UNCHANGED <<queueVars, stopped, trigger, mailbox, done, timer, worker,
                 chunkVars, emit, requestVars, exportVars>>

(* Everything has returned and the worker has ended.                       *)
Terminated ==
  /\ worker = "done"
  /\ \A r \in Records : emit[r] \in {"accepted", "refused"}
  /\ \A f \in Flushers : flush[f] \notin {"idle", "sending", "awaiting"}
  /\ \A c \in Closers : closer[c] \notin {"idle", "closing", "sending", "awaiting"}
  /\ UNCHANGED vars

-----------------------------------------------------------------------------
WorkerStep ==
  \/ ServeShutdown \/ (\E f \in Flushers : ServeFlush(f)) \/ NothingWaiting
  \/ Wake \/ ExportBatch \/ FlushQueue
  \/ ChunkCall \/ ChunkReturn \/ ChunksDone \/ CloseDone \/ Respond

EmitStep(r)     == EmitEnqueue(r) \/ EmitSignal(r)
ShutdownStep(c) == ShutdownClose(c) \/ ShutdownSend(c) \/ ShutdownReturn(c)

Next ==
  \/ \E r \in Records : EmitCheck(r) \/ EmitStep(r)
  \/ WorkerStep
  \/ TimerFire
  \/ \E f \in Flushers : FlushStart(f) \/ FlushReturn(f)
  \/ \E c \in Closers : ShutdownStart(c) \/ ShutdownStep(c)
  \/ \E x \in Calls : CtxDone(x)
  \/ Terminated

Spec == Init /\ [][Next]_vars

(* Calls in progress and the worker go on, and the timer fires; nothing    *)
(* obliges the application to call or a context to end.                    *)
Fairness ==
  /\ \A r \in Records : WF_vars(EmitStep(r))
  /\ WF_vars(WorkerStep) /\ WF_vars(TimerFire)
  /\ \A f \in Flushers : WF_vars(FlushReturn(f))
  /\ \A c \in Closers : WF_vars(ShutdownStep(c))

FairSpec == Spec /\ Fairness

-----------------------------------------------------------------------------
TypeOK ==
  /\ items \in Seq(Records) /\ Len(items) <= Capacity /\ sealed \in BOOLEAN
  /\ stopped \in BOOLEAN /\ trigger \in BOOLEAN /\ done \in BOOLEAN
  /\ mailbox \subseteq Closers
  /\ timer \in {"armed", "fired"} /\ worker \in WorkerPhases
  /\ request \in Calls \union {Nobody}
  /\ work \in Seq(Records) /\ more \in BOOLEAN /\ failed \in BOOLEAN
  /\ emit \in [Records -> EmitPhases]
  /\ flush \in [Flushers -> FlushPhases] /\ closer \in [Closers -> CloserPhases]
  /\ resp \in [Calls -> {"none", "ok", "failed"}]
  /\ ctxDone \subseteq Cancellable
  /\ attempted \in Seq(Records)
  /\ lost \in [Records -> {"no", "full"} \union Calls]
  /\ before \in [Calls -> SUBSET Records]

(* Every accepted record is in exactly one place, once: in the queue, in   *)
(* the hands of the worker, handed to the exporter, or lost for a known    *)
(* reason.                                                                 *)
Lost == {r \in Records : lost[r] # "no"}

OnePlace ==
  /\ Accepted = ToSet(items) \union ToSet(work) \union ToSet(attempted) \union Lost
  /\ ToSet(items) \intersect (ToSet(work) \union ToSet(attempted) \union Lost) = {}
  /\ ToSet(work) \intersect (ToSet(attempted) \union Lost) = {}
  /\ ToSet(attempted) \intersect Lost = {}
  /\ IsInjective(items) /\ IsInjective(work) /\ IsInjective(attempted)

(* A call that returns nil after the worker served it, and a ForceFlush    *)
(* that Shutdown overtakes, leave no record that was accepted before the   *)
(* call in the queue or in the worker's hands.  Records a request takes    *)
(* from the queue and does not export, because its context is done, are    *)
(* never lost behind a nil: the request is answered with an error.         *)
Covered(x) == \A r \in before[x] : r \in ToSet(attempted) \/ lost[r] \notin {"no", x}

CallCovers ==
  /\ \A f \in Flushers : flush[f] \in {"ok", "aborted"} => Covered(f)
  /\ \A c \in Closers : closer[c] = "ok" => Covered(c)
  /\ \A r \in Records : lost[r] \in Calls => lost[r] \in ctxDone /\ resp[lost[r]] # "ok"

(* "Closing done before replying also means a successful Shutdown response *)
(* observes a stopped worker"; and whatever the outcome, once the worker   *)
(* has stopped no OnEmit, not even one that read stopped before Shutdown   *)
(* set it, can leave a record in the queue.                                *)
StoppedIsEmpty ==
  /\ \A c \in Closers : closer[c] \in {"ok", "failed"} => done
  /\ done => items = <<>> /\ work = <<>>

(* A worker with nothing in hand never waits for the timer over a full     *)
(* batch: the coalesced signal is there, or an OnEmit is about to send it, *)
(* also when records came while exportBatch was exporting.                 *)
FullBatchWakes ==
  worker \in {"probe", "poll", "block"} /\ Len(items) >= BatchSize =>
    trigger \/ \E r \in Records : emit[r] = "trigger"

(* Why they hold: where the worker is tells whose request it serves and    *)
(* what it has in hand.                                                    *)
WorkerServes ==
  /\ worker \in {"probe", "poll", "block", "dequeue", "done"} => request = Nobody
  /\ worker \in {"flush", "respond"} => request \in Calls
  /\ worker = "stopping" => request \in Closers
  /\ worker \notin {"chunk", "call"} => work = <<>>
  /\ more => request = Nobody /\ worker \in {"chunk", "call"}
  /\ Len(work) <= Capacity

(* Shutdown closes the queue before it sends its request, so what the      *)
(* worker then takes from it is the last there is.                         *)
ShutdownSeals ==
  /\ \A c \in Closers : closer[c] \notin {"idle", "noop", "closing"} => sealed
  /\ request \in Closers => sealed
  /\ request \in Closers /\ worker # "flush" => items = <<>>
  /\ done => sealed /\ items = <<>> /\ worker \in {"respond", "done"}
  /\ worker = "respond" => (request \in Closers <=> done)
  /\ \A c \in Closers : resp[c] # "none" => done

(* A request is served once, and answered at the end.                      *)
ServedOnce ==
  /\ \A c \in mailbox :
       closer[c] \notin {"idle", "noop", "closing", "sending"} /\ c # request
  /\ \A x \in mailbox \union {request} : x \in Calls => resp[x] = "none"
  /\ \A f \in Flushers :
       flush[f] \in {"idle", "sending", "aborted"} => f # request /\ resp[f] = "none"
  /\ \A c \in Closers :
       closer[c] \in {"idle", "closing", "sending"} => c # request /\ resp[c] = "none"
  /\ \A f \in Flushers : flush[f] = "ok" => resp[f] = "ok"
  /\ \A c \in Closers : closer[c] \in {"ok", "failed"} => resp[c] = closer[c]

(* What a request has covered at each stage of it, and who answers for the *)
(* records it abandoned.                                                   *)
RequestCovers ==
  /\ \A x \in Calls : before[x] \subseteq Accepted
  /\ request \in Calls /\ worker \in {"chunk", "call"}
       => before[request] \intersect ToSet(items) = {}
  /\ request \in Calls /\ worker \in {"stopping", "respond"} /\ ~failed => Covered(request)
  /\ \A x \in Calls : resp[x] = "ok" => Covered(x)
  /\ \A f \in Flushers : flush[f] = "aborted" => Covered(f)
  /\ \A r \in Records : lost[r] \in Calls =>
       /\ lost[r] \in ctxDone
       /\ \/ resp[lost[r]] = "failed"
          \/ request = lost[r] /\ worker \in {"stopping", "respond"} /\ failed

(* FullBatchWakes, also while the worker is busy.  A worker whose batches  *)
(* hold nothing takes nothing, so a full one is always there.              *)
SignalComing ==
  BatchSize # 0 /\ worker # "dequeue" /\ Len(items) >= BatchSize =>
    trigger \/ more \/ \E r \in Records : emit[r] = "trigger"

IInv == /\ TypeOK /\ OnePlace /\ WorkerServes /\ ShutdownSeals
        /\ ServedOnce /\ RequestCovers /\ SignalComing

(* The processor implements the lossy pipeline of BatchPipeline: export    *)
(* calls of at most BatchSize records (of the whole queue for a size of    *)
(* 0), in the order of acceptance, each record at most once, none after    *)
(* the exporter is shut down.                                              *)
Pending == work \o items

Pipeline == INSTANCE BatchPipeline WITH
  Items <- Records, MaxBatch <- IF BatchSize = 0 THEN Capacity ELSE BatchSize, Lossy <- TRUE,
  pending <- Pending, attempted <- attempted, down <- done
ImplementsPipeline == Pipeline!Spec

(* A record accepted before Shutdown leaves the queue in the end, with no  *)
(* full batch and no call of ForceFlush to push it out.                    *)
RecordExported ==
  \A r \in Records : r \in ToSet(items) /\ ~stopped ~> r \notin ToSet(items)

(* Once a Shutdown is called the worker closes done, whatever exports and  *)
(* flushes it is busy with and whether the caller still waits or not; and  *)
(* a ForceFlush returns, even one that loses the race with Shutdown.       *)
Asking(f) == flush[f] \in {"sending", "awaiting"}
CallsReturn == (stopped ~> done) /\ \A f \in Flushers : Asking(f) ~> ~Asking(f)
=============================================================================
