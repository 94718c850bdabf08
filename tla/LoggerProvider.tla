---------------------------- MODULE LoggerProvider ----------------------------
(***************************************************************************)
(* The gate of sdk/log/provider.go between the loggers and their           *)
(* processor.  Emit, Enabled and ForceFlush each run as one operation      *)
(* between beginProcessorOperation and endProcessorOperation, which count  *)
(* them under processorOperationsMu.  Shutdown stops the admission, waits  *)
(* for the admitted ones on the channel processorOperationsDone, which the *)
(* last of them closes, and only then shuts the processor down.            *)
(***************************************************************************)
EXTENDS Integers, FiniteSets

CONSTANTS
  Ops,         (* the calls of Emit, Enabled and ForceFlush                *)
  Closers,     (* the calls of Shutdown                                    *)
  Cancellable  (* the calls of Shutdown whose context may end              *)

ASSUME GateAssumption == IsFiniteSet(Ops) /\ Cancellable \subseteq Closers

VARIABLES
  stopped,     (* LoggerProvider.stopped                                   *)
  active,      (* processorOperationsActive                                *)
  drained,     (* processorOperationsDone: "nil", "open", "closed", or     *)
               (* "panic" once it is closed when it cannot be              *)
  op,          (* where each operation is                                  *)
  closer,      (* where each call of Shutdown is                           *)
  ctxDone      (* the calls of Shutdown whose context has ended            *)

vars == <<stopped, active, drained, op, closer, ctxDone>>

OpPhases     == {"idle", "inside", "done", "refused"}
CloserPhases == {"idle", "check", "waiting", "calling", "returned", "cancelled", "noop"}

Inside == {o \in Ops : op[o] = "inside"}

Init ==
  /\ stopped = FALSE /\ active = 0 /\ drained = "nil"
  /\ op = [o \in Ops |-> "idle"]
  /\ closer = [c \in Closers |-> "idle"]
  /\ ctxDone = {}

(* close(processorOperationsDone)                                          *)
Closed(channel) == IF channel = "open" THEN "closed" ELSE "panic"

-----------------------------------------------------------------------------
Admits == ~stopped

(* beginProcessorOperation and, if it admits, the call of the processor.   *)
Begin(o) ==
  /\ op[o] = "idle"
  /\ IF Admits
       THEN op' = [op EXCEPT ![o] = "inside"] /\ active' = active + 1
       ELSE op' = [op EXCEPT ![o] = "refused"] /\ UNCHANGED active
  /\ UNCHANGED <<stopped, drained, closer, ctxDone>>

LastOut_TooEarly == active' <= 1 /\ stopped /\ drained # "closed"
LastOut_Never == FALSE
LastOut == active' = 0 /\ stopped

(* endProcessorOperation, deferred: it runs however the processor returns. *)
End(o) ==
  /\ op[o] = "inside"
  /\ op' = [op EXCEPT ![o] = "done"]
  /\ active' = active - 1
  /\ drained' = IF LastOut THEN Closed(drained) ELSE drained
  /\ UNCHANGED <<stopped, closer, ctxDone>>

-----------------------------------------------------------------------------
First == ~stopped

(* Shutdown under processorOperationsMu.                                   *)
ShutdownStart(c) ==
  /\ closer[c] = "idle"
  /\ IF First
       THEN /\ closer' = [closer EXCEPT ![c] = "check"]
            /\ stopped' = TRUE
            /\ drained' = IF active = 0 THEN "closed" ELSE "open"
       ELSE /\ closer' = [closer EXCEPT ![c] = "noop"]
            /\ UNCHANGED <<stopped, drained>>
  /\ UNCHANGED <<active, op, ctxDone>>

(* waitForProcessorOperations looks at the context first.                  *)
ShutdownCheck(c) ==
  /\ closer[c] = "check"
  /\ closer' = [closer EXCEPT ![c] = IF c \in ctxDone THEN "cancelled" ELSE "waiting"]
  /\ UNCHANGED <<stopped, active, drained, op, ctxDone>>

(* waitForProcessorOperationsCompletion: a drain that has completed wins   *)
(* over a context that has ended.                                          *)
MayCancel(c) == c \in ctxDone /\ drained # "closed"

ShutdownWait(c) ==
  /\ closer[c] = "waiting"
  /\ \/ drained = "closed" /\ closer' = [closer EXCEPT ![c] = "calling"]
     \/ MayCancel(c) /\ closer' = [closer EXCEPT ![c] = "cancelled"]
  /\ UNCHANGED <<stopped, active, drained, op, ctxDone>>

(* processor.Shutdown returns.                                             *)
ShutdownReturn(c) ==
  /\ closer[c] = "calling"
  /\ closer' = [closer EXCEPT ![c] = "returned"]
  /\ UNCHANGED <<stopped, active, drained, op, ctxDone>>

CtxDone(c) ==
  /\ c \in Cancellable \ ctxDone
  /\ ctxDone' = ctxDone \union {c}
  /\ UNCHANGED <<stopped, active, drained, op, closer>>

Terminated ==
  /\ \A o \in Ops : op[o] \in {"done", "refused"}
  /\ \A c \in Closers : closer[c] \in {"returned", "cancelled", "noop"}
  /\ UNCHANGED vars

ShutdownStep(c) == ShutdownCheck(c) \/ ShutdownWait(c) \/ ShutdownReturn(c)

Next ==
  \/ \E o \in Ops : Begin(o) \/ End(o)
  \/ \E c \in Closers : ShutdownStart(c) \/ ShutdownStep(c) \/ CtxDone(c)
  \/ Terminated

Spec == Init /\ [][Next]_vars

(* The processor returns from its calls, and a call of Shutdown goes on.   *)
GateFairness ==
  /\ \A o \in Ops : WF_vars(End(o))
  /\ \A c \in Closers : WF_vars(ShutdownStep(c))

-----------------------------------------------------------------------------
TypeOK ==
  /\ stopped \in BOOLEAN /\ active \in Nat
  /\ drained \in {"nil", "open", "closed"}
  /\ op \in [Ops -> OpPhases]
  /\ closer \in [Closers -> CloserPhases]
  /\ ctxDone \subseteq Cancellable

(* While the processor is being shut down, and ever after, no operation is *)
(* inside it: none admitted earlier is still running and none is admitted  *)
(* later.                                                                  *)
ShutdownAlone ==
  \A c \in Closers : closer[c] \in {"calling", "returned"} => Inside = {}

(* Only the call that set stopped can shut the processor down, however     *)
(* many calls race.                                                        *)
OneShutdown ==
  \A c, d \in Closers :
    closer[c] \notin {"idle", "noop"} /\ closer[d] \notin {"idle", "noop"} => c = d

(* The channel closes exactly once and exactly when the last admitted      *)
(* operation has ended: never while it is nil or already closed, which     *)
(* would panic in the application's call of Emit.                          *)
DrainExact ==
  /\ stopped <=> drained # "nil"
  /\ stopped => (drained = "closed" <=> active = 0)

(* The counter is the number of operations inside the processor.           *)
CountExact == active = Cardinality(Inside)

(* A call of Shutdown that goes on was the one to set stopped, and reaches *)
(* the processor only through the closed channel.                          *)
CloserKnows ==
  \A c \in Closers :
    /\ closer[c] \notin {"idle", "noop"} => stopped
    /\ closer[c] \in {"calling", "returned"} => drained = "closed"

(* The inductive invariant.                                                *)
IInv == TypeOK /\ CountExact /\ DrainExact /\ OneShutdown /\ CloserKnows

(* "Prefer a completed drain when it races with cancellation": a Shutdown  *)
(* that has begun to wait gives up only while an operation is still inside.*)
CancelsOnlyWhileBusy ==
  [][\A c \in Closers :
       closer[c] = "waiting" /\ closer'[c] = "cancelled" => Inside # {}]_vars

(* A Shutdown returns once the admitted operations return, also when none  *)
(* of them is left to signal it.                                           *)
ShutdownReturns ==
  \A c \in Closers :
    closer[c] = "check" ~> closer[c] \in {"returned", "cancelled"}
=============================================================================
