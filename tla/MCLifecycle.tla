----------------------------- MODULE MCLifecycle -----------------------------
(* The parts of a signal that calls of Shutdown meet, for TLC: the gate of *)
(* the logger provider, the tracer provider, and an exporter with its      *)
(* client and retries.  They share no state: which of them a behaviour is  *)
(* about is chosen at the start.                                           *)
EXTENDS LoggerProvider, TracerProvider, MCExport

VARIABLE part

lifecycleVars == <<part, vars, providerVars, exportVars>>

OfGate(A) == part = "gate" /\ A /\ UNCHANGED <<part, providerVars, exportVars>>
OfProvider(A) == part = "provider" /\ A /\ UNCHANGED <<part, vars, exportVars>>
OfExport(A) == part = "export" /\ A /\ UNCHANGED <<part, vars, providerVars>>

LifecycleInit ==
  /\ Init /\ ProviderInit /\ ExportInit
  /\ part \in {"gate", "provider", "export"}
  /\ part # "provider" => \A t \in TracerCalls : asked[t] = CHOOSE m \in Names : TRUE
  /\ part # "export" => ~config.enabled /\ signal = "logs"

GateNext ==
  \/ \E o \in Ops : OfGate(Begin(o)) \/ OfGate(End(o))
  \/ \E c \in Closers :
       \/ OfGate(ShutdownStart(c)) \/ OfGate(ShutdownCheck(c))
       \/ OfGate(ShutdownWait(c)) \/ OfGate(ShutdownReturn(c)) \/ OfGate(CtxDone(c))
  \/ OfGate(Terminated)

TracingNext ==
  \/ \E t \in TracerCalls : OfProvider(TracerCheck(t)) \/ OfProvider(TracerLocked(t))
  \/ \E s \in Stops :
       \/ OfProvider(StopCheck(s)) \/ OfProvider(StopLocked(s))
       \/ OfProvider(StopReturn(s)) \/ OfProvider(Expire(s))
  \/ OfProvider(ProviderOver)

ExportingNext ==
  \/ \E u \in Uploads :
       \/ OfExport(ExportStart(u)) \/ OfExport(LoadClient(u)) \/ OfExport(Upload(u))
       \/ OfExport(Send(u)) \/ OfExport(Respond(u)) \/ OfExport(Wait(u))
       \/ OfExport(CtxEnds(u)) \/ OfExport(CancelByStop(u))
  \/ \E s \in Shutters : OfExport(HaltStart(s)) \/ OfExport(HaltReplace(s))
  \/ OfExport(ExportOver)

(* The fairness of each part, as it states it.                             *)
LifecycleSpec ==
  /\ LifecycleInit /\ [][GateNext \/ TracingNext \/ ExportingNext]_lifecycleVars
  /\ GateFairness /\ ProviderFairness /\ ExportFairness
=============================================================================
