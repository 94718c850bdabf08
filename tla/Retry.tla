-------------------------------- MODULE Retry --------------------------------
(***************************************************************************)
(* The loop of retry/retry.go that the HTTP clients of all three signals   *)
(* send their requests with: after a failure that can be retried it waits  *)
(* for the backoff, or for the longer time the collector asked for in      *)
(* Retry-After, until the time for one batch is used up.                   *)
(*                                                                         *)
(* A time.Duration is a signed integer that wraps around past MaxDuration. *)
(***************************************************************************)
EXTENDS Integers, FiniteSetsExt

CONSTANTS
  Uploads,      (* the calls of Export, with one loop each                 *)
  Configs,      (* the values of Config there may be                       *)
  Backoffs,     (* what NextBackOff may return                             *)
  RetryAfters,  (* the times a response may ask for                        *)
  Latencies,    (* the times a request may take                            *)
  MaxDuration   (* math.MaxInt64                                           *)

ASSUME RetryAssumption ==
  /\ \A c \in Configs : c.enabled \in BOOLEAN /\ c.maxElapsed \in Nat
  /\ Backoffs \subseteq Nat /\ MaxDuration \in Nat
  /\ \E longest \in Backoffs : \A b \in Backoffs : b <= longest
  /\ RetryAfters \subseteq Nat /\ Latencies \subseteq Nat

VARIABLES
  config,       (* the Config of the client                                *)
  loop,         (* where each call is                                      *)
  elapsed,      (* time.Since(startTime), if the config limits it          *)
  throttle,     (* what the response has asked for that each call waits on *)
  result        (* what each call has returned                             *)

retryVars == <<config, loop, elapsed, throttle, result>>

(* "call": fn is called next.  "sent": its request is on its way.          *)
InLoop == {"call", "sent", "wait"}
LoopPhases == {"idle", "checked", "loaded", "returned"} \union InLoop

Limited == config.maxElapsed # 0

RetryInit ==
  /\ config \in Configs
  /\ loop = [u \in Uploads |-> "idle"]
  /\ elapsed = [u \in Uploads |-> 0]
  /\ throttle = [u \in Uploads |-> 0]
  /\ result = [u \in Uploads |-> "none"]

GoOn(u, phase) == loop' = [loop EXCEPT ![u] = phase]

Return(u, r) ==
  /\ GoOn(u, "returned")
  /\ result' = [result EXCEPT ![u] = r]

(* The call leaves the loop; its times are forgotten.                      *)
Final(u, r) ==
  /\ Return(u, r)
  /\ elapsed' = [elapsed EXCEPT ![u] = 0]
  /\ throttle' = [throttle EXCEPT ![u] = 0]
  /\ UNCHANGED config

(* Addition of durations, and the clamping of retryAfterDuration.          *)
Plus(d, e) ==
  IF d + e > MaxDuration THEN d + e - 2 * (MaxDuration + 1) ELSE d + e
Clamped(t) == IF t > MaxDuration THEN MaxDuration ELSE t

Spend(u, d) ==
  elapsed' = IF Limited THEN [elapsed EXCEPT ![u] = @ + d] ELSE elapsed

TimeOver_Never(t, passed) == FALSE
TimeOver(t, passed) ==
  Limited /\ (passed > config.maxElapsed \/ Plus(passed, t) > config.maxElapsed)

(* fn has returned an error that can be retried, after a request that took *)
(* time d, with a throttle of t; ctxDone says whether the context of the   *)
(* call has ended.                                                         *)
Retryable(u, t, d, ctxDone) ==
  IF ~config.enabled \/ ctxDone \/ TimeOver(Clamped(t), elapsed[u] + d)
    THEN Final(u, "error")
    ELSE /\ GoOn(u, "wait")
         /\ Spend(u, d)
         /\ throttle' = [throttle EXCEPT ![u] = t]
         /\ UNCHANGED <<config, result>>

(* wait, for the greater of the backoff and the throttle: the timer fires, *)
(* or the context ends first.  A delay of MaxDuration, some 292 years, is  *)
(* not lived to see.                                                       *)
Outlives(d) == d = MaxDuration

WaitOver(u) ==
  /\ loop[u] = "wait"
  /\ \E b \in Backoffs :
       LET delay == Max({Clamped(throttle[u]), b})
       IN  ~Outlives(delay) /\ Spend(u, delay)
  /\ GoOn(u, "call")
  /\ throttle' = [throttle EXCEPT ![u] = 0]
  /\ UNCHANGED <<config, result>>

WaitCancelled(u) == loop[u] = "wait" /\ Final(u, "error")

-----------------------------------------------------------------------------
LongestBackoff == Max(Backoffs)

(* "MaxElapsedTime is the maximum amount of time (including retries) spent *)
(* trying to send a request": no request is sent later than that, but for  *)
(* the last backoff, which is not counted beforehand.                      *)
RetriesBounded ==
  Limited =>
    \A u \in Uploads :
      loop[u] \in {"call", "sent"} => elapsed[u] <= config.maxElapsed + LongestBackoff

(* The times a response asks for are long past any lifetime, or short      *)
(* enough for passed + throttle not to wrap around.                        *)
ThrottlesFit ==
  \A c \in Configs, t \in RetryAfters :
    t >= MaxDuration \/ t + c.maxElapsed <= MaxDuration

(* The inductive invariant of the times: a call waits only when the time   *)
(* that has passed is within the limit, also with the throttle it was      *)
(* asked for unless that is not lived to see.                              *)
TimesBounded ==
  Limited =>
    \A u \in Uploads :
      /\ loop[u] \notin InLoop => elapsed[u] = 0
      /\ loop[u] \in {"call", "sent"} =>
           elapsed[u] <= config.maxElapsed + LongestBackoff
      /\ loop[u] = "wait" =>
           /\ elapsed[u] <= config.maxElapsed
           /\ throttle[u] < MaxDuration =>
                elapsed[u] + throttle[u] <= config.maxElapsed

(* "max retry time would elapse": a call waits only if the throttle it was *)
(* asked for ends within the limit.                                        *)
WaitsWithinLimit ==
  Limited =>
    \A u \in Uploads :
      loop[u] = "wait" => elapsed[u] + throttle[u] <= config.maxElapsed
=============================================================================
