------------------------- MODULE BatchSpanProcessor -------------------------
(***************************************************************************)
(* The batching span processor of sdk/trace/batch_span_processor.go.       *)
(*                                                                         *)
(* Application goroutines end spans (OnEnd) and put them on the bounded    *)
(* channel queue; one worker goroutine (processQueue, then drainQueue)     *)
(* moves them to batch and hands the batch to the exporter when it is full *)
(* or when the timer fires.  ForceFlush sends a marker through the queue,  *)
(* waits for the worker to reach it and then exports what is in batch from *)
(* a goroutine of its own.  Shutdown closes stopCh, waits for the worker   *)
(* and shuts the exporter down.                                            *)
(*                                                                         *)
(* Every span that reaches OnEnd is sampled (sampling.go decides           *)
(* RecordAndSample for every span), so the IsSampled filter of the enqueue *)
(* functions never applies; the exporter is not nil.                       *)
(***************************************************************************)
EXTENDS Naturals, SequencesExt

CONSTANTS
  Spans,      (* the spans the application may end, each once              *)
  Flushers,   (* the calls of ForceFlush, each with a context of its own   *)
  Closers,    (* the calls of Shutdown, each with a context of its own     *)
  Cancellable,(* the calls whose context can be cancelled or can expire    *)
  Worker,     (* the goroutine started by NewBatchSpanProcessor            *)
  QueueSize,  (* BatchSpanProcessorOptions.MaxQueueSize                    *)
  MaxBatch    (* BatchSpanProcessorOptions.MaxExportBatchSize              *)

ASSUME KindsDisjoint ==
  /\ Spans \intersect Flushers = {}
  /\ Worker \notin Flushers
  /\ Cancellable \subseteq Flushers \union Closers

(* A size of 0 is legal in the code and not modelled: the channel would be *)
(* unbuffered, and every span would be a batch of its own.                 *)
ASSUME SizesPositive == QueueSize \in Nat \ {0} /\ MaxBatch \in Nat \ {0}

VARIABLES
  queue,      (* bsp.queue: spans and flush markers, oldest first          *)
  batch,      (* bsp.batch                                                 *)
  timer,      (* bsp.timer: "armed", "fired" (a value in timer.C) or       *)
              (* "stopped"                                                 *)
  stop,       (* how far Shutdown has come, see StopPhases                 *)
  worker,     (* where the worker is, see WorkerPhases                     *)
  hand,       (* the span it received and has not appended: <<>> or <<s>>  *)
  export,     (* where each thread is in exportSpans                       *)
  span,       (* where each span is in OnEnd                               *)
  flush,      (* where each ForceFlush call is                             *)
  closed,     (* the markers whose channel sd.flush is closed              *)
  wait,       (* what the export goroutine of a flush sent on wait         *)
  closer,     (* where each Shutdown call is                               *)
  ctxDone,    (* the calls whose context is done                           *)
  received,   (* history: the spans the worker took from queue, in order   *)
  attempted,  (* history: the spans handed to the exporter, in order       *)
  before,     (* history: spans queued when each ForceFlush call began     *)
  early       (* history: spans queued when bsp.stopped was stored         *)

(* A definition D_Variant is D with a slip a maintainer could make; the    *)
(* checks use it to see that each property would notice.                   *)
vars == <<queue, batch, timer, stop, worker, hand, export, span, flush, closed,
          wait, closer, ctxDone, received, attempted, before, early>>

workVars  == <<batch, worker, hand, received, attempted>>
flushVars == <<flush, closed, wait, before>>
stopVars  == <<stop, closer, early>>

Threads == {Worker} \union Flushers

(* "stopped": bsp.stopped is true; "signalled": stopCh is closed too;      *)
(* "down": the exporter is shut down and Shutdown's wait channel closed.   *)
StopPhases   == {"running", "stopped", "signalled", "down"}
WorkerPhases == {"process", "drain", "final", "done"}
ExportPhases == {"idle", "reset", "lock", "call"}
SpanPhases   == {"live", "checked", "queued", "dropped", "refused"}
FlushPhases  == {"idle", "enqueue", "wait", "await",
                 "exported", "failed", "cancelled", "ignored", "aborted"}
CloserPhases == {"idle", "waiting", "ok", "cancelled", "noop"}

stopped == stop # "running"
stopCh  == stop \in {"signalled", "down"}

Accepted == {s \in Spans : span[s] = "queued"}

(* batchMutex is held across a call of the exporter; the other critical    *)
(* sections are single steps.                                              *)
MutexFree_NotTaken == TRUE
MutexFree == \A t \in Threads : export[t] # "call"

(* There is room on the channel.                                           *)
Room == Len(queue) < QueueSize

Init ==
  /\ queue = <<>> /\ batch = <<>> /\ hand = <<>>
  /\ timer = "armed" /\ stop = "running" /\ worker = "process"
  /\ export = [t \in Threads |-> "idle"]
  /\ span = [s \in Spans |-> "live"]
  /\ flush = [f \in Flushers |-> "idle"]
  /\ wait = [f \in Flushers |-> "none"]
  /\ closer = [c \in Closers |-> "idle"]
  /\ closed = {} /\ ctxDone = {}
  /\ received = <<>> /\ attempted = <<>>
  /\ before = [f \in Flushers |-> {}] /\ early = {}

-----------------------------------------------------------------------------
(* OnEnd: the check of stopped and the non-blocking send are two steps.    *)

OnEndCheck(s) ==
  /\ span[s] = "live"
  /\ span' = [span EXCEPT ![s] = IF stopped THEN "refused" ELSE "checked"]
  /\ UNCHANGED <<queue, timer, export, ctxDone, workVars, flushVars, stopVars>>

OnEndEnqueue(s) ==
  /\ span[s] = "checked"
  /\ \/ /\ Room
        /\ queue' = Append(queue, s)
        /\ span' = [span EXCEPT ![s] = "queued"]
     \/ /\ ~Room
        /\ span' = [span EXCEPT ![s] = "dropped"]
        /\ UNCHANGED queue
  /\ UNCHANGED <<timer, export, ctxDone, workVars, flushVars, stopVars>>

-----------------------------------------------------------------------------
(* exportSpans, run by the worker or by the goroutine of a ForceFlush t.   *)

(* The timer is re-armed before batchMutex is taken.                       *)
ExportReset_TimerLeft(t) ==
  /\ export[t] = "reset"
  /\ export' = [export EXCEPT ![t] = "lock"]
  /\ UNCHANGED <<queue, timer, span, ctxDone, workVars, flushVars, stopVars>>

ExportReset(t) ==
  /\ export[t] = "reset"
  /\ timer' = "armed"
  /\ export' = [export EXCEPT ![t] = "lock"]
  /\ UNCHANGED <<queue, span, ctxDone, workVars, flushVars, stopVars>>

(* exportSpans returns r; the goroutine of a flush sends it on wait, the   *)
(* worker gives an error to the error handler.                             *)
ExportDone(t, r) ==
  /\ export' = [export EXCEPT ![t] = "idle"]
  /\ wait' = IF t \in Flushers THEN [wait EXCEPT ![t] = r] ELSE wait

ExportNothing(t) ==
  /\ export[t] = "lock" /\ MutexFree
  /\ batch = <<>>
  /\ ExportDone(t, "nil")
  /\ UNCHANGED <<queue, timer, span, ctxDone, flush, closed, before, workVars, stopVars>>

ExportCall(t) ==
  /\ export[t] = "lock" /\ MutexFree
  /\ batch # <<>>
  /\ export' = [export EXCEPT ![t] = "call"]
  /\ attempted' = attempted \o batch
  /\ UNCHANGED <<queue, timer, span, ctxDone, batch, worker, hand, received, flushVars, stopVars>>

(* The batch after the exporter has returned r.                            *)
BatchAfter_KeptOnError(r) == IF r = "err" THEN batch ELSE <<>>
BatchAfter(r) == <<>>

(* The exporter returns, with success or with an error (also because the   *)
(* context is done): the batch is cleared in both cases.                   *)
ExportReturn(t) ==
  /\ export[t] = "call"
  /\ \E r \in {"nil", "err"} : batch' = BatchAfter(r) /\ ExportDone(t, r)
  /\ UNCHANGED <<queue, timer, span, ctxDone, worker, hand, received, attempted, flush, closed, before, stopVars>>

Export(t) == ExportReset(t) \/ ExportNothing(t) \/ ExportCall(t) \/ ExportReturn(t)

-----------------------------------------------------------------------------
(* The worker: processQueue until stopCh is closed, then drainQueue.       *)

WorkerFree == export[Worker] = "idle" /\ hand = <<>>

WorkerReceive ==
  /\ worker \in {"process", "drain"} /\ WorkerFree
  /\ queue # <<>>
  /\ queue' = Tail(queue)
  /\ \/ /\ Head(queue) \in Spans
        /\ hand' = <<Head(queue)>>
        /\ received' = Append(received, Head(queue))
        /\ UNCHANGED closed
     \/ /\ Head(queue) \in Flushers
        /\ closed' = IF worker = "process" THEN closed \union {Head(queue)} ELSE closed
        /\ UNCHANGED <<hand, received>>
  /\ UNCHANGED <<timer, export, span, ctxDone, batch, worker, attempted, flush, wait, before, stopVars>>

(* shouldExport, of the batch the worker has just appended to.             *)
ShouldExport(b) ==
  IF worker = "process" THEN Len(b) >= MaxBatch ELSE Len(b) = MaxBatch

WorkerAppend ==
  /\ hand # <<>> /\ MutexFree
  /\ batch' = batch \o hand
  /\ hand' = <<>>
  /\ \/ /\ ShouldExport(batch')
        /\ export' = [export EXCEPT ![Worker] = "reset"]
        /\ timer' = IF worker = "process" THEN "stopped" ELSE timer
     \/ /\ ~ShouldExport(batch')
        /\ UNCHANGED <<export, timer>>
  /\ UNCHANGED <<queue, span, ctxDone, worker, received, attempted, flushVars, stopVars>>

WorkerTimer ==
  /\ worker = "process" /\ WorkerFree
  /\ timer = "fired"
  /\ timer' = "stopped"
  /\ export' = [export EXCEPT ![Worker] = "reset"]
  /\ UNCHANGED <<queue, span, ctxDone, workVars, flushVars, stopVars>>

WorkerStop ==
  /\ worker = "process" /\ WorkerFree
  /\ stopCh
  /\ worker' = "drain"
  /\ timer' = "stopped"
  /\ UNCHANGED <<queue, export, span, ctxDone, batch, hand, received, attempted, flushVars, stopVars>>

(* drainQueue takes the default case of its select.                        *)
Drained_AtOnce == TRUE
Drained == queue = <<>>

(* drainQueue finds the queue empty and makes the final export.            *)
WorkerDrained ==
  /\ worker = "drain" /\ WorkerFree
  /\ Drained
  /\ worker' = "final"
  /\ export' = [export EXCEPT ![Worker] = "reset"]
  /\ UNCHANGED <<queue, timer, span, ctxDone, batch, hand, received, attempted, flushVars, stopVars>>

WorkerExit ==
  /\ worker = "final" /\ WorkerFree
  /\ worker' = "done"
  /\ UNCHANGED <<queue, timer, export, span, ctxDone, batch, hand, received, attempted, flushVars, stopVars>>

TimerFire ==
  /\ timer = "armed"
  /\ timer' = "fired"
  /\ UNCHANGED <<queue, export, span, ctxDone, workVars, flushVars, stopVars>>

-----------------------------------------------------------------------------
(* ForceFlush                                                              *)

FlushStart(f) ==
  /\ flush[f] = "idle"
  /\ flush' = [flush EXCEPT ![f] =
                 CASE f \in ctxDone -> "cancelled"
                   [] f \notin ctxDone /\ stopped -> "ignored"
                   [] OTHER -> "enqueue"]
  /\ before' = [before EXCEPT ![f] = Accepted]
  /\ UNCHANGED <<queue, timer, export, span, ctxDone, closed, wait, workVars, stopVars>>

(* enqueueBlockOnQueueFull: no case for stopCh.                            *)
FlushEnqueue(f) ==
  /\ flush[f] = "enqueue"
  /\ Room
  /\ queue' = Append(queue, f)
  /\ flush' = [flush EXCEPT ![f] = "wait"]
  /\ UNCHANGED <<timer, export, span, ctxDone, closed, wait, before, workVars, stopVars>>

(* The worker has closed the channel of the marker.                        *)
MarkerReached_NotAwaited(f) == TRUE
MarkerReached(f) == f \in closed

(* The marker was reached, or never sent because the context was done:     *)
(* both go on to export what is in batch.                                  *)
FlushExport(f) ==
  /\ \/ flush[f] = "wait" /\ MarkerReached(f)
     \/ flush[f] = "enqueue" /\ f \in ctxDone
  /\ flush' = [flush EXCEPT ![f] = "await"]
  /\ export' = [export EXCEPT ![f] = "reset"]
  /\ UNCHANGED <<queue, timer, span, ctxDone, closed, wait, before, workVars, stopVars>>

FlushReturn(f, from, to) ==
  /\ flush[f] \in from
  /\ flush' = [flush EXCEPT ![f] = to]
  /\ UNCHANGED <<queue, timer, export, span, ctxDone, closed, wait, before, workVars, stopVars>>

FlushAborted_NoCase(f) == FALSE
FlushAborted(f)   == stopCh /\ FlushReturn(f, {"wait"}, "aborted")
FlushCancelled(f) == f \in ctxDone /\ FlushReturn(f, {"wait", "await"}, "cancelled")
FlushFinished(f)  ==
  \/ wait[f] = "nil" /\ FlushReturn(f, {"await"}, "exported")
  \/ wait[f] = "err" /\ FlushReturn(f, {"await"}, "failed")

FlushStep(f) == \/ FlushEnqueue(f) \/ FlushExport(f)
                \/ FlushAborted(f) \/ FlushCancelled(f) \/ FlushFinished(f)

-----------------------------------------------------------------------------
(* Shutdown: the first call runs under stopOnce, later ones wait for it to *)
(* return and do nothing.                                                  *)

ShutdownFirst(c) ==
  /\ closer[c] = "idle" /\ ~stopped
  /\ stop' = "stopped"
  /\ closer' = [closer EXCEPT ![c] = "waiting"]
  /\ early' = Accepted
  /\ UNCHANGED <<queue, timer, export, span, ctxDone, workVars, flushVars>>

ShutdownAgain(c) ==
  /\ closer[c] = "idle" /\ stopped
  /\ \A d \in Closers : closer[d] # "waiting"
  /\ closer' = [closer EXCEPT ![c] = "noop"]
  /\ UNCHANGED <<queue, timer, export, span, ctxDone, stop, early, workVars, flushVars>>

(* The goroutine Shutdown starts: close stopCh, wait for the worker, shut  *)
(* the exporter down.                                                      *)
CloseStopCh ==
  /\ stop = "stopped"
  /\ stop' = "signalled"
  /\ UNCHANGED <<queue, timer, export, span, ctxDone, closer, early, workVars, flushVars>>

StopExporter ==
  /\ stop = "signalled" /\ worker = "done"
  /\ stop' = "down"
  /\ UNCHANGED <<queue, timer, export, span, ctxDone, closer, early, workVars, flushVars>>

ShutdownReturn(c) ==
  /\ closer[c] = "waiting"
  /\ \/ stop = "down" /\ closer' = [closer EXCEPT ![c] = "ok"]
     \/ c \in ctxDone /\ closer' = [closer EXCEPT ![c] = "cancelled"]
  /\ UNCHANGED <<queue, timer, export, span, ctxDone, stop, early, workVars, flushVars>>

-----------------------------------------------------------------------------
CtxDone(x) ==
  /\ x \in Cancellable \ ctxDone
  /\ ctxDone' = ctxDone \union {x}
  /\ UNCHANGED <<queue, timer, export, span, workVars, flushVars, stopVars>>

(* All calls have returned and the system stands still.                    *)
Terminated ==
  /\ \A s \in Spans : span[s] \in {"queued", "dropped", "refused"}
  /\ \A f \in Flushers : flush[f] \notin {"idle", "enqueue", "wait", "await"}
  /\ \A c \in Closers : closer[c] \notin {"idle", "waiting"}
  /\ UNCHANGED vars

WorkerStep == \/ WorkerReceive \/ WorkerAppend \/ WorkerTimer
              \/ WorkerStop \/ WorkerDrained \/ WorkerExit

Next ==
  \/ \E s \in Spans : OnEndCheck(s) \/ OnEndEnqueue(s)
  \/ \E t \in Threads : Export(t)
  \/ WorkerStep
  \/ TimerFire
  \/ \E f \in Flushers : FlushStart(f) \/ FlushStep(f)
  \/ \E c \in Closers : ShutdownFirst(c) \/ ShutdownAgain(c) \/ ShutdownReturn(c)
  \/ CloseStopCh \/ StopExporter
  \/ \E x \in Flushers \union Closers : CtxDone(x)
  \/ Terminated

Spec == Init /\ [][Next]_vars

(* Goroutines that can run do run, and the exporter returns (its HTTP      *)
(* client has a timeout).  A select with several ready cases picks among   *)
(* them at random, so no case is passed over forever: the cases of         *)
(* processQueue are strongly fair.  Nothing obliges the application to end *)
(* a span, to flush, to shut down or to cancel.                            *)
Fairness ==
  /\ \A s \in Spans : WF_vars(OnEndEnqueue(s))
  /\ \A t \in Threads : WF_vars(Export(t))
  /\ WF_vars(WorkerStep) /\ WF_vars(TimerFire)
  /\ SF_vars(WorkerReceive) /\ SF_vars(WorkerTimer) /\ SF_vars(WorkerStop)
  /\ \A f \in Flushers : WF_vars(FlushStep(f))
  /\ \A c \in Closers : WF_vars(ShutdownReturn(c))
  /\ WF_vars(CloseStopCh) /\ WF_vars(StopExporter)

FairSpec == Spec /\ Fairness

-----------------------------------------------------------------------------
(* The part of batch no call of the exporter has been given yet.           *)
Unsent == IF MutexFree THEN batch ELSE <<>>

TypeOK ==
  /\ queue \in Seq(Spans \union Flushers) /\ Len(queue) <= QueueSize
  /\ batch \in Seq(Spans) /\ hand \in Seq(Spans) /\ Len(hand) <= 1
  /\ timer \in {"armed", "fired", "stopped"}
  /\ stop \in StopPhases /\ worker \in WorkerPhases
  /\ export \in [Threads -> ExportPhases]
  /\ span \in [Spans -> SpanPhases]
  /\ flush \in [Flushers -> FlushPhases]
  /\ wait \in [Flushers -> {"none", "nil", "err"}]
  /\ closer \in [Closers -> CloserPhases]
  /\ closed \subseteq Flushers /\ ctxDone \subseteq Cancellable
  /\ received \in Seq(Spans) /\ attempted \in Seq(Spans)
  /\ before \in [Flushers -> SUBSET Spans] /\ early \subseteq Spans

(* Every span the worker takes from the queue is handed to the exporter at *)
(* most once and in the order it was queued, whichever of the worker and   *)
(* the ForceFlush goroutines makes the call and whether it fails or not.   *)
SpansInOrder == received = attempted \o Unsent \o hand

(* No call of the exporter gets more than MaxExportBatchSize spans, though *)
(* the worker tests the size in one critical section and exports in        *)
(* another, and drainQueue tests it with ==.                               *)
BatchBound == Len(batch) <= MaxBatch

(* What a nil of ForceFlush says of the spans queued before the call.      *)
(* After its export they have all been handed to the exporter, unless the  *)
(* context ended before the marker was sent.  From the case for stopCh it  *)
(* says only that Shutdown has begun: the spans may still be in batch or   *)
(* in the queue, even if the marker was reached, and it is Shutdown that   *)
(* hands them over before it shuts the exporter down.  A call that finds   *)
(* the processor stopped does nothing.                                     *)
FlushCovers ==
  \A f \in Flushers :
    /\ flush[f] = "exported" =>
         before[f] \subseteq ToSet(attempted) \/ f \in ctxDone \ closed
    /\ flush[f] = "aborted" =>
         stopCh /\ (stop = "down" => before[f] \subseteq ToSet(attempted))
    /\ flush[f] = "ignored" => stopped

(* When the exporter is shut down no call of it is in progress, nothing is *)
(* left in batch for a late one, and every span queued before Shutdown was *)
(* called has been handed to it.                                           *)
ShutdownFlushes ==
  stop = "down" => MutexFree /\ batch = <<>> /\ early \subseteq ToSet(attempted)

(* Why they hold: the inductive invariant is the conjunction IInv.         *)
OneCall ==
  \A t, u \in Threads : export[t] = "call" /\ export[u] = "call" => t = u

CallHasSpans == ~MutexFree => batch # <<>>

(* The worker takes a span only with room for it in batch, and has         *)
(* exported the full batch before it takes another.                        *)
WorkerHasRoom ==
  /\ hand # <<>> => export[Worker] = "idle" /\ worker \in {"process", "drain"}
  /\ export[Worker] = "idle" => Len(batch) < MaxBatch

(* A span is not lost between the queue and the worker.                    *)
QueuedKept == Accepted \subseteq ToSet(received) \union ToSet(queue)

WorkerEnds ==
  /\ worker # "process" => stopCh
  /\ worker \in {"final", "done"} => hand = <<>> /\ early \subseteq ToSet(received)
  /\ worker \in {"final", "done"} /\ export[Worker] = "idle" => batch = <<>>
  /\ worker = "done" => export[Worker] = "idle"
  /\ stop = "down" => worker = "done"

(* A ForceFlush has no export goroutine and no result of one until it      *)
(* starts one.                                                             *)
FlushBeforeExport ==
  \A f \in Flushers :
    flush[f] \in {"idle", "enqueue", "wait"} => export[f] = "idle" /\ wait[f] = "none"

IInv == /\ TypeOK /\ FlushBeforeExport
        /\ OneCall /\ CallHasSpans /\ SpansInOrder /\ BatchBound
        /\ WorkerHasRoom /\ QueuedKept /\ early \subseteq Accepted /\ WorkerEnds

(* Why FlushCovers holds.  The spans queued before a ForceFlush began are  *)
(* ahead of its marker; by the time the marker is reached they are in      *)
(* batch or have been handed over, and the export that the call waits for  *)
(* leaves none of them in batch.                                           *)
BeforeAccepted == \A f \in Flushers : before[f] \subseteq Accepted

MarkerBehind ==
  \A f \in Flushers, i \in DOMAIN queue :
    queue[i] = f => before[f] \subseteq ToSet(received) \union {queue[j] : j \in 1..i - 1}

MarkerSent ==
  \A f \in Flushers :
    f \in ToSet(queue) \union closed => flush[f] \notin {"idle", "enqueue"}

MarkerFirst ==
  \A f \in Flushers \ closed :
    f \in ToSet(queue) => wait[f] = "none" /\ export[f] = "idle"

MarkerReceived ==
  \A f \in closed : before[f] \subseteq ToSet(attempted) \union ToSet(batch)

ExportCovers ==
  \A f \in closed : wait[f] # "none" => before[f] \subseteq ToSet(attempted)

CallHandsOver == ~MutexFree => ToSet(batch) \subseteq ToSet(attempted)

ResultAwaited == \A f \in Flushers : flush[f] = "exported" => wait[f] # "none"

FlushInv == /\ IInv /\ BeforeAccepted
            /\ MarkerBehind /\ MarkerSent /\ MarkerFirst /\ MarkerReceived
            /\ ExportCovers /\ CallHandsOver /\ ResultAwaited

(* The other nils: a flush exports after its marker or after the end of    *)
(* its context; one that passed the check of stopped began before Shutdown *)
(* did, so its spans are among those that Shutdown waits for.              *)
ExportReason ==
  \A f \in Flushers : flush[f] \in {"await", "exported"} => f \in closed \union ctxDone

BeforeShutdown ==
  \A f \in Flushers :
    stopped /\ flush[f] \in {"enqueue", "wait", "aborted"} => before[f] \subseteq early

NilAfterStop ==
  \A f \in Flushers :
    /\ flush[f] = "aborted" => stopCh
    /\ flush[f] = "ignored" => stopped

NilInv == FlushInv /\ ExportReason /\ BeforeShutdown /\ NilAfterStop

(* A span that reaches the queue was not there or further on before.       *)
OnlyAccepted == (ToSet(queue) \intersect Spans) \union ToSet(received) \subseteq Accepted

(* The processor does what a batching processor promises: see              *)
(* BatchPipeline.                                                          *)
SpansUpTo(q) ==
  LET first[n \in Nat] == IF n = 0 THEN <<>>
                          ELSE IF q[n] \in Spans THEN Append(first[n - 1], q[n])
                          ELSE first[n - 1]
  IN  first
SpansIn(q) == SpansUpTo(q)[Len(q)]

Pending == Unsent \o hand \o SpansIn(queue)

Pipeline == INSTANCE BatchPipeline WITH
  Items <- Spans, MaxBatch <- MaxBatch, Lossy <- FALSE,
  pending <- Pending, attempted <- attempted, down <- stop = "down"
ImplementsPipeline == Pipeline!Spec

(* A span queued while the processor is running is handed to the exporter  *)
(* in the end, without any call of ForceFlush or Shutdown.                 *)
SpanExported ==
  \A s \in Spans :
    span[s] = "queued" /\ ~stopped ~> s \in ToSet(attempted)

(* Once Shutdown is called the worker stops and the exporter is shut down; *)
(* and a ForceFlush whose marker is in the queue returns, whatever its     *)
(* context does and even when the drain throws the marker away.            *)
CallsReturn ==
  /\ stopped ~> stop = "down"
  /\ \A f \in Flushers : flush[f] = "wait" ~> flush[f] \notin {"wait", "await"}

(* "drainQueue awaits the any caller that had added to bsp.stopWait to     *)
(* finish the enqueue": after a Shutdown that returns nil nothing is left  *)
(* in the queue.  No caller adds to stopWait: an OnEnd that read stopped   *)
(* before Shutdown may send after the drain.                               *)
ShutdownLeavesNothing ==
  \A c \in Closers : closer[c] = "ok" => \A s \in Spans : s \notin ToSet(queue)
=============================================================================
