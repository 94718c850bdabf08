-------------------------------- MODULE Export --------------------------------
(***************************************************************************)
(* One OTLP/HTTP exporter with its client: of traces (exporters/           *)
(* otlptracehttp), logs (otlploghttp) or metrics (otlpmetrichttp).  They   *)
(* send in the same way and differ in how Shutdown and the calls of Export *)
(* that are running or about to start meet:                                *)
(*   - traces: Stop closes stopCh, and a goroutine of each upload then     *)
(*     cancels its context;                                                *)
(*   - logs: an atomic flag and an atomic pointer to the client;           *)
(*   - metrics: the client is used and replaced under clientMu.            *)
(* Batches are not empty; transforming and marshaling them is left out.    *)
(***************************************************************************)
EXTENDS Retry

CONSTANTS
  Signals,     (* the kinds of exporters                                   *)
  Shutters,    (* the calls of Shutdown                                    *)
  Mortal,      (* the calls of Export whose own context may end            *)
  Nobody       (* not a call of Export                                     *)

ASSUME ExportAssumption ==
  /\ Signals \subseteq {"traces", "logs", "metrics"}
  /\ Mortal \subseteq Uploads /\ Nobody \notin Uploads

VARIABLES
  signal,      (* which exporter it is                                     *)
  halted,      (* stopCh is closed, stopped is set, shutdownOnce is taken  *)
  client,      (* "http", or the one that replaces it on Shutdown          *)
  holder,      (* the call that holds clientMu                             *)
  shutter,     (* where each call of Shutdown is                           *)
  ended,       (* the calls of Export whose context has ended              *)
  received,    (* what the collector has accepted of each batch            *)
  late         (* history: the calls that began after Shutdown returned    *)

exporterVars == <<signal, halted, client, holder, shutter>>
exportVars == <<retryVars, exporterVars, ended, received, late>>

IsDown == \E s \in Shutters : shutter[s] = "returned"

ExportInit ==
  /\ RetryInit
  /\ signal \in Signals
  /\ halted = FALSE /\ client = "http" /\ holder = Nobody
  /\ shutter = [s \in Shutters |-> "idle"]
  /\ ended = {} /\ late = {}
  /\ received = [u \in Uploads |-> {}]

Released(u) == holder' = IF holder = u THEN Nobody ELSE holder

-----------------------------------------------------------------------------
(* Export and ExportSpans up to the call of the client.                    *)
ExportStart(u) ==
  /\ loop[u] = "idle"
  /\ IF signal = "logs" /\ halted THEN Return(u, "ok")
                                  ELSE GoOn(u, "checked") /\ UNCHANGED result
  /\ late' = IF IsDown THEN late \union {u} ELSE late
  /\ UNCHANGED <<config, elapsed, throttle, exporterVars, ended, received>>

(* The log exporter loads its client, the metric exporter locks clientMu,  *)
(* the trace exporter has one client for ever.  The client of a log        *)
(* exporter that is shut down does nothing, that of a metric exporter      *)
(* returns an error.                                                       *)
ClientFree_NoLock == TRUE
ClientFree == signal = "metrics" => holder = Nobody

LoadClient(u) ==
  /\ loop[u] = "checked" /\ ClientFree
  /\ IF client = "http"
       THEN /\ GoOn(u, "loaded") /\ UNCHANGED result
            /\ holder' = IF signal = "metrics" THEN u ELSE holder
       ELSE /\ Return(u, IF signal = "logs" THEN "ok" ELSE "error")
            /\ UNCHANGED holder
  /\ UNCHANGED <<config, elapsed, throttle, signal, halted, client, shutter,
                 ended, received, late>>

(* UploadTraces, UploadLogs and UploadMetrics: the request may be too      *)
(* large or impossible to build.                                           *)
Upload(u) ==
  /\ loop[u] = "loaded"
  /\ \/ GoOn(u, "call") /\ UNCHANGED <<result, holder>>
     \/ Return(u, "error") /\ Released(u)
  /\ UNCHANGED <<config, elapsed, throttle, signal, halted, client, shutter,
                 ended, received, late>>

(* The function that requestFunc calls: the context, then the request.     *)
Send(u) ==
  /\ loop[u] = "call"
  /\ IF u \in ended
       THEN Final(u, "error") /\ Released(u)
       ELSE GoOn(u, "sent") /\ UNCHANGED <<config, elapsed, throttle, result, holder>>
  /\ UNCHANGED <<signal, halted, client, shutter, ended, received, late>>

(* The collector accepts all of the batch, a part of it or nothing, and    *)
(* its answer arrives or is lost.  The error of a partial success reaches  *)
(* the caller through uploadErr, which UploadTraces reads when the loop is *)
(* over.  It is read only from an answer whose Content-Type is that of the *)
(* request, as OTLP demands of a collector; no other one is modelled.      *)
PartialResult_Nil == "ok"
PartialResult == "error"

Accepted(u, what) == received' = [received EXCEPT ![u] = @ \union what]

Respond(u) ==
  /\ loop[u] = "sent"
  /\ \/ Accepted(u, {"all"}) /\ Final(u, "ok")
     \/ Accepted(u, {"part"}) /\ Final(u, PartialResult)
     \/ \E what \in {{}, {"all"}} : Accepted(u, what) /\ Final(u, "error")
     \/ \E what \in {{}, {"all"}}, t \in RetryAfters, d \in Latencies :
          Accepted(u, what) /\ Retryable(u, t, d, u \in ended)
  /\ IF loop'[u] = "returned" THEN Released(u) ELSE UNCHANGED holder
  /\ UNCHANGED <<signal, halted, client, shutter, ended, late>>

(* The timer and the end of the context.                                   *)
Wait(u) ==
  /\ \/ WaitOver(u) /\ UNCHANGED holder
     \/ u \in ended /\ WaitCancelled(u) /\ Released(u)
  /\ UNCHANGED <<signal, halted, client, shutter, ended, received, late>>

(* The context of the call ends; or contextWithStop ends the one it has    *)
(* derived from it for the upload.                                         *)
CtxEnds(u) ==
  /\ u \in Mortal \ ended
  /\ ended' = ended \union {u}
  /\ UNCHANGED <<retryVars, exporterVars, received, late>>

StopEnds_NoGoroutine == FALSE
StopEnds == signal = "traces" /\ halted

CancelByStop(u) ==
  /\ StopEnds /\ loop[u] \in {"loaded"} \union InLoop /\ u \notin ended
  /\ ended' = ended \union {u}
  /\ UNCHANGED <<retryVars, exporterVars, received, late>>

-----------------------------------------------------------------------------
(* Shutdown: the first call closes stopCh, or sets stopped and goes on, or *)
(* takes shutdownOnce and goes on; a later one finds it done or, with      *)
(* shutdownOnce, waits for it.                                             *)
OnceBusy == signal = "metrics" /\ \E s \in Shutters : shutter[s] = "replacing"

HaltStart(s) ==
  /\ shutter[s] = "idle" /\ ~OnceBusy
  /\ halted' = TRUE
  /\ shutter' = [shutter EXCEPT ![s] =
       IF halted \/ signal = "traces" THEN "returned" ELSE "replacing"]
  /\ UNCHANGED <<retryVars, signal, client, holder, ended, received, late>>

HaltReplace(s) ==
  /\ shutter[s] = "replacing" /\ ClientFree
  /\ client' = "none"
  /\ shutter' = [shutter EXCEPT ![s] = "returned"]
  /\ UNCHANGED <<retryVars, signal, halted, holder, ended, received, late>>

-----------------------------------------------------------------------------
ExportOver ==
  /\ \A u \in Uploads : loop[u] = "returned"
  /\ \A s \in Shutters : shutter[s] = "returned"
  /\ UNCHANGED exportVars

UploadStep(u) == LoadClient(u) \/ Upload(u) \/ Send(u) \/ Respond(u) \/ Wait(u)

ExportNext ==
  \/ \E u \in Uploads :
       ExportStart(u) \/ UploadStep(u) \/ CtxEnds(u) \/ CancelByStop(u)
  \/ \E s \in Shutters : HaltStart(s) \/ HaltReplace(s)
  \/ ExportOver

ExportSpec == ExportInit /\ [][ExportNext]_exportVars

(* A request ends with an answer or the timeout of the HTTP client; timers *)
(* and the goroutine of an upload run.                                     *)
ExportFairness ==
  \A u \in Uploads : WF_exportVars(UploadStep(u)) /\ WF_exportVars(CancelByStop(u))

-----------------------------------------------------------------------------
(* A call of Export that returns nil has had its batch accepted whole,     *)
(* unless the log exporter was shut down, which drops it silently: neither *)
(* a partial success nor an attempt that was given up passes for success.  *)
NilMeansAccepted ==
  \A u \in Uploads :
    result[u] = "ok" => "all" \in received[u] \/ (signal = "logs" /\ halted)

(* After Shutdown has returned, a metric exporter has no request on its    *)
(* way, and neither it nor a log exporter sends anything for a call that   *)
(* began later.                                                            *)
QuietAfterShutdown ==
  \A u \in Uploads :
    loop[u] \in InLoop => /\ signal = "metrics" => ~IsDown
                          /\ signal = "logs" => u \notin late

ExportTypeOK ==
  /\ config \in Configs /\ signal \in Signals
  /\ loop \in [Uploads -> LoopPhases]
  /\ elapsed \in [Uploads -> Nat] /\ throttle \in [Uploads -> Nat]
  /\ result \in [Uploads -> {"none", "ok", "error"}]
  /\ halted \in BOOLEAN /\ client \in {"http", "none"}
  /\ holder \in Uploads \union {Nobody}
  /\ shutter \in [Shutters -> {"idle", "replacing", "returned"}]
  /\ received \in [Uploads -> SUBSET {"all", "part"}]
  /\ late \subseteq Uploads

(* The client of a metric exporter is in the hands of the call that holds  *)
(* clientMu, so a Shutdown cannot replace it under an upload.              *)
HoldsClient ==
  signal = "metrics" =>
    \A u \in Uploads :
      loop[u] \in {"loaded"} \union InLoop => holder = u /\ client = "http"

(* How far Shutdown is: nothing is replaced or over before the exporter is *)
(* halted, and Shutdown of a metric exporter is over only when the client  *)
(* is replaced, also for a call that found shutdownOnce taken.             *)
HaltOrder ==
  /\ ~halted => client = "http" /\ \A s \in Shutters : shutter[s] = "idle"
  /\ signal = "metrics" /\ halted =>
       client = "none" \/ \E s \in Shutters : shutter[s] = "replacing"
  /\ signal = "metrics" /\ IsDown => client = "none"

(* A call of a log exporter that began after Shutdown has returned at once.*)
LateReturned == signal = "logs" => \A u \in late : loop[u] = "returned"

(* The inductive invariant of the exporter.                                *)
ExportIInv ==
  ExportTypeOK /\ HoldsClient /\ HaltOrder /\ LateReturned /\ NilMeansAccepted

(* "Stop shuts down the client and interrupt any in-flight request": every *)
(* upload of a stopped trace client ends, also when it would be retried    *)
(* for ever and its own context never ends.                                *)
StoppedUploadsEnd ==
  \A u \in Uploads :
    signal = "traces" /\ halted /\ loop[u] \in InLoop ~> loop[u] = "returned"
=============================================================================
