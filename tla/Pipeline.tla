------------------------------- MODULE Pipeline -------------------------------
(***************************************************************************)
(* pipeline of sdk/metric/pipeline.go: the callbacks and the aggregations  *)
(* of a meter provider, behind one lock.  produce runs the callbacks and   *)
(* then every aggregation under it.  The aggregations are cumulative: a    *)
(* collection holds all measurements made until then.                      *)
(***************************************************************************)
EXTENDS FiniteSets, Integers

CONSTANTS
  Threads,       (* the goroutines that collect                            *)
  Callbacks,     (* the callbacks registered with a pipeline               *)
  Measurements,  (* the measurements of synchronous instruments            *)
  None           (* no goroutine, no callback                              *)

ASSUME PipelineAssumption == None \notin Threads \union Callbacks

VARIABLES
  lock,          (* the goroutine that holds the lock of the pipeline      *)
  registration,  (* of each callback                                       *)
  todo,          (* the callbacks the holder has still to run              *)
  running,       (* the callback it is running                             *)
  failed,        (* one of its callbacks returned an error                 *)
  producing,     (* where each goroutine is in produce                     *)
  recorded,      (* the measurements made                                  *)
  collected      (* those in the ResourceMetrics of each goroutine         *)

pipeVars ==
  <<lock, registration, todo, running, failed, producing, recorded, collected>>
heldVars == <<lock, todo, running, failed>>

Registered == {k \in Callbacks : registration[k] = "registered"}

PipelineInit ==
  /\ lock = None /\ todo = {} /\ running = None /\ failed = FALSE
  /\ registration = [k \in Callbacks |-> "new"]
  /\ producing = [t \in Threads |-> "out"]
  /\ recorded = {}
  /\ collected = [t \in Threads |-> {}]

Record(m) ==
  /\ m \notin recorded
  /\ recorded' = recorded \union {m}
  /\ UNCHANGED <<heldVars, registration, producing, collected>>

LockFree_NotTaken == TRUE
LockFree == lock = None

(* addMultiCallback                                                        *)
Register(k) ==
  /\ registration[k] = "new" /\ LockFree
  /\ registration' = [registration EXCEPT ![k] = "registered"]
  /\ UNCHANGED <<heldVars, producing, recorded, collected>>

(* The function it returns.                                                *)
Unregister(k) ==
  /\ registration[k] = "registered" /\ LockFree
  /\ registration' = [registration EXCEPT ![k] = "removed"]
  /\ UNCHANGED <<heldVars, producing, recorded, collected>>

-----------------------------------------------------------------------------
(* produce; ended tells that ctx.Err() is not nil.                         *)
ProduceEnter(t, ended) ==
  /\ producing[t] = "out"
  /\ producing' = [producing EXCEPT ![t] = IF ended THEN "err" ELSE "lock"]
  /\ UNCHANGED <<heldVars, registration, recorded, collected>>

ProduceLock(t) ==
  /\ producing[t] = "lock" /\ lock = None
  /\ lock' = t /\ todo' = Registered /\ failed' = FALSE
  /\ producing' = [producing EXCEPT ![t] = "callbacks"]
  /\ UNCHANGED <<registration, running, recorded, collected>>

CallbackStart(t) ==
  /\ producing[t] = "callbacks" /\ running = None
  /\ \E k \in todo : running' = k /\ todo' = todo \ {k}
  /\ UNCHANGED <<lock, failed, registration, producing, recorded, collected>>

(* A callback gets the context and may fail.                               *)
CallbackReturn(t) ==
  /\ producing[t] = "callbacks" /\ running # None
  /\ running' = None
  /\ failed' \in {failed, TRUE}
  /\ UNCHANGED <<lock, todo, registration, producing, recorded, collected>>

(* The aggregations, whether the callbacks failed or not, and the unlock.  *)
ProduceAggregate(t) ==
  /\ producing[t] = "callbacks" /\ todo = {} /\ running = None
  /\ collected' = [collected EXCEPT ![t] = recorded]
  /\ producing' = [producing EXCEPT ![t] = IF failed THEN "err" ELSE "nil"]
  /\ lock' = None
  /\ UNCHANGED <<todo, running, failed, registration, recorded>>

ProduceStep(t) ==
  ProduceLock(t) \/ CallbackStart(t) \/ CallbackReturn(t) \/ ProduceAggregate(t)

-----------------------------------------------------------------------------
(* Once a call of Unregister has returned, its callback is not running and *)
(* no collection that has begun will run it.                               *)
UnregisteredIsQuiet ==
  \A k \in Callbacks : registration[k] = "removed" => running # k /\ k \notin todo

PipeTypeOK ==
  /\ lock \in Threads \union {None}
  /\ registration \in [Callbacks -> {"new", "registered", "removed"}]
  /\ producing \in [Threads -> {"out", "lock", "callbacks", "nil", "err"}]
  /\ recorded \subseteq Measurements
  /\ collected \in [Threads -> SUBSET Measurements]

(* The inductive invariant: what a collection runs, and has still to run,  *)
(* is registered, and nothing is when nobody holds the lock, which is when *)
(* a callback can be removed.                                              *)
PipeIInv ==
  /\ PipeTypeOK
  /\ \A t \in Threads : producing[t] = "callbacks" => lock = t
  /\ todo \subseteq Registered /\ running \in Registered \union {None}
  /\ lock = None => todo = {} /\ running = None
=============================================================================
