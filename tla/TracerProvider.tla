---------------------------- MODULE TracerProvider ----------------------------
(***************************************************************************)
(* sdk/trace/provider.go: Tracer hands out one tracer for each name, from  *)
(* a map under mu; Shutdown keeps mu while it shuts the processor down, so *)
(* that both look at isShutdown first, without the lock, and again with it.*)
(*                                                                         *)
(* What Shutdown of the processor waits for may itself call the provider:  *)
(* an exporter that is instrumented, or whose logger is, creates tracers.  *)
(***************************************************************************)
EXTENDS Integers, FiniteSets

CONSTANTS
  TracerCalls,    (* the calls of Tracer                                   *)
  Stops,          (* the calls of Shutdown                                 *)
  Names,          (* the names of tracers                                  *)
  Inner,          (* the calls made by what the processor waits for        *)
  Free            (* no call, no tracer                                    *)

ASSUME ProviderAssumption ==
  /\ TracerCalls \intersect Stops = {} /\ Free \notin TracerCalls \union Stops
  /\ Inner \subseteq TracerCalls \union Stops

VARIABLES
  mu,             (* the call of Shutdown that holds mu for long           *)
  isShutdown,     (* TracerProvider.isShutdown                             *)
  namedTracer,    (* the tracer of each name, called by who created it     *)
  asked,          (* the name each call of Tracer asks for                 *)
  pcall,          (* where each call is                                    *)
  got,            (* the tracer a call has returned, Free if a noop one    *)
  expired,        (* the calls of Shutdown whose context has ended         *)
  inTime,         (* history: the calls that returned before isShutdown    *)
  lateCalls       (* history: the calls made after isShutdown              *)

providerVars ==
  <<mu, isShutdown, namedTracer, asked, pcall, got, expired, inTime, lateCalls>>

ProviderCalls == TracerCalls \union Stops
Running == {"checked", "processor"}

ProviderInit ==
  /\ mu = Free /\ isShutdown = FALSE
  /\ namedTracer = [m \in Names |-> Free]
  /\ asked \in [TracerCalls -> Names]
  /\ pcall = [c \in ProviderCalls |-> "idle"]
  /\ got = [t \in TracerCalls |-> Free]
  /\ expired = {} /\ inTime = {} /\ lateCalls = {}

MovesTo(c, phase) == pcall' = [pcall EXCEPT ![c] = phase]

Begins(c) == lateCalls' = IF isShutdown THEN lateCalls \union {c} ELSE lateCalls

GivesTracer(t, tracer) ==
  /\ MovesTo(t, "returned")
  /\ got' = [got EXCEPT ![t] = tracer]
  /\ inTime' = IF isShutdown THEN inTime ELSE inTime \union {t}

-----------------------------------------------------------------------------
(* The first look at isShutdown: "This check happens before the mutex is   *)
(* acquired to avoid deadlocking if Tracer() is called from within         *)
(* Shutdown()", and the same in Shutdown.                                  *)
SeesShutdown_NoCheck == FALSE
SeesShutdown == isShutdown

TracerCheck(t) ==
  /\ pcall[t] = "idle"
  /\ Begins(t)
  /\ IF SeesShutdown THEN GivesTracer(t, Free)
                     ELSE MovesTo(t, "checked") /\ UNCHANGED <<got, inTime>>
  /\ UNCHANGED <<mu, isShutdown, namedTracer, asked, expired>>

(* "Must check the flag after acquiring the mutex to avoid returning a     *)
(* valid tracer if Shutdown() ran after the first check".                  *)
StillOpen_NoCheck == TRUE
StillOpen == ~isShutdown

Known(t) == namedTracer[asked[t]] # Free

TracerLocked(t) ==
  /\ pcall[t] = "checked" /\ mu = Free
  /\ IF StillOpen
       THEN /\ namedTracer' = IF Known(t) THEN namedTracer
                              ELSE [namedTracer EXCEPT ![asked[t]] = t]
            /\ GivesTracer(t, namedTracer'[asked[t]])
       ELSE GivesTracer(t, Free) /\ UNCHANGED namedTracer
  /\ UNCHANGED <<mu, isShutdown, asked, expired, lateCalls>>

StopCheck(s) ==
  /\ pcall[s] = "idle"
  /\ Begins(s)
  /\ MovesTo(s, IF SeesShutdown THEN "returned" ELSE "checked")
  /\ UNCHANGED <<mu, isShutdown, namedTracer, asked, got, expired, inTime>>

StopLocked(s) ==
  /\ pcall[s] = "checked" /\ mu = Free
  /\ IF isShutdown THEN MovesTo(s, "returned") /\ UNCHANGED mu
                   ELSE MovesTo(s, "processor") /\ mu' = s
  /\ isShutdown' = TRUE
  /\ UNCHANGED <<namedTracer, asked, got, expired, inTime, lateCalls>>

(* processor.Shutdown waits for the worker, or for the end of its context. *)
WorkerDone == \A c \in Inner : pcall[c] \notin Running

StopReturn(s) ==
  /\ pcall[s] = "processor"
  /\ WorkerDone \/ s \in expired
  /\ MovesTo(s, "returned")
  /\ mu' = Free
  /\ UNCHANGED <<isShutdown, namedTracer, asked, got, expired, inTime, lateCalls>>

Expire(s) ==
  /\ s \in Stops \ expired
  /\ expired' = expired \union {s}
  /\ UNCHANGED <<mu, isShutdown, namedTracer, asked, pcall, got, inTime, lateCalls>>

ProviderOver ==
  /\ \A c \in ProviderCalls : pcall[c] = "returned"
  /\ UNCHANGED providerVars

StopStep(s) == StopLocked(s) \/ StopReturn(s)

ProviderNext ==
  \/ \E t \in TracerCalls : TracerCheck(t) \/ TracerLocked(t)
  \/ \E s \in Stops : StopCheck(s) \/ StopStep(s) \/ Expire(s)
  \/ ProviderOver

ProviderSpec == ProviderInit /\ [][ProviderNext]_providerVars

(* mu is handed on and the processor returns once it can; contexts need    *)
(* not end.                                                                *)
ProviderFairness ==
  /\ \A t \in TracerCalls : WF_providerVars(TracerLocked(t))
  /\ \A s \in Stops : WF_providerVars(StopStep(s))

-----------------------------------------------------------------------------
(* All tracers of a name are the same one, whoever raced to create it, and *)
(* a tracer that records is only ever handed out before isShutdown: one    *)
(* handed out later would feed a processor that is shut down.              *)
TracersSettled ==
  \A t \in TracerCalls :
    pcall[t] = "returned" /\ got[t] # Free =>
      /\ t \in inTime
      /\ got[t] = namedTracer[asked[t]]

ProviderTypeOK ==
  /\ mu \in Stops \union {Free} /\ isShutdown \in BOOLEAN
  /\ namedTracer \in [Names -> TracerCalls \union {Free}]
  /\ asked \in [TracerCalls -> Names]
  /\ pcall \in [ProviderCalls -> {"idle", "returned"} \union Running]
  /\ got \in [TracerCalls -> TracerCalls \union {Free}]

(* The inductive invariant: what a call was given is the tracer of its     *)
(* name ever after, and mu is held long by a Shutdown that waits for the   *)
(* processor, and by no other, once it has set isShutdown.                 *)
ProviderIInv ==
  /\ ProviderTypeOK
  /\ \A t \in TracerCalls :
       got[t] # Free => t \in inTime /\ got[t] = namedTracer[asked[t]]
  /\ \A s \in Stops : pcall[s] = "processor" <=> mu = s
  /\ mu # Free => isShutdown

(* A call of Tracer or Shutdown returns without the help of any context,   *)
(* also when Shutdown waits for its caller, but for two cases: a call made *)
(* by what the processor waits for has found the provider open and is      *)
(* caught behind the Shutdown that then took the lock, or is itself that   *)
(* Shutdown.                                                               *)
Caught(c) ==
  /\ c \in Inner \ lateCalls
  /\ mu = c \/ (pcall[c] = "checked" /\ mu # Free)

ReturnsUnlessCaught ==
  \A c \in ProviderCalls :
    pcall[c] \in Running ~> pcall[c] = "returned" \/ \E i \in Inner : Caught(i)
=============================================================================
