----------------------------- MODULE Instruments -----------------------------
(***************************************************************************)
(* The creation of the instruments of a Meter (sdk/metric/meter.go,        *)
(* cache.go and the inserter of pipeline.go) while its pipeline is         *)
(* collected.  Asking for an instrument takes up to three locks, each      *)
(* inside the last: of the cache of instruments, which is held while the   *)
(* instrument is made; of the cache of aggregators; and, several times, of *)
(* the pipeline, which a collection holds while it runs the callbacks.  A  *)
(* callback may itself ask for an instrument.                              *)
(*                                                                         *)
(* An aggregator is the number aggIDCount gives it.  The instruments are   *)
(* of one type of number: those of the other have caches of their own.     *)
(***************************************************************************)
EXTENDS Pipeline, Sequences

CONSTANTS
  Creators,     (* the calls that ask a meter for an instrument            *)
  Id,           (* the identity each asks for: [name, observable]          *)
  Folded,       (* the lower case of each name                             *)
  CallbackOf,   (* the callback each passes along, if it is observable     *)
  CallerOf      (* the callback each is made in, or None                   *)

ASSUME InstrumentsAssumption ==
  /\ None \notin Creators
  /\ \A c \in Creators : Id[c].observable \in BOOLEAN
  /\ CallbackOf \in [{c \in Creators : Id[c].observable} -> Callbacks]
  /\ \A c, d \in DOMAIN CallbackOf : CallbackOf[c] = CallbackOf[d] => c = d
  /\ CallerOf \in [Creators -> Callbacks \union {None}]

VARIABLES
  instLock,     (* the call that holds each cache of instruments           *)
  insts,        (* its data: the aggregator of each identity               *)
  aggLock,      (* the call that holds the cache of aggregators            *)
  aggregators,  (* its data, by the identity in lower case                 *)
  streams,      (* the aggregations of the pipeline, by their number       *)
  creation,     (* where each call is                                      *)
  measure       (* the aggregator each has got                             *)

creatorVars == <<creation, measure>>
cacheVars == <<instLock, insts, aggLock, aggregators>>
instrumentVars == <<pipeVars, creatorVars, cacheVars, streams>>

(* int64Insts or int64ObservableInsts                                      *)
InstCache(c) == Id[c].observable
Normal(id) == [id EXCEPT !.name = Folded[@]]

NoEntries == [id \in {} |-> 0]

InstrumentsInit ==
  /\ PipelineInit
  /\ instLock = [observable \in BOOLEAN |-> None]
  /\ insts = NoEntries /\ aggregators = NoEntries
  /\ aggLock = None
  /\ streams = <<>>
  /\ creation = [c \in Creators |-> "idle"]
  /\ measure = [c \in Creators |-> 0]

-----------------------------------------------------------------------------
Goes(c, phase) == creation' = [creation EXCEPT ![c] = phase]
Gets(c, m) == measure' = [measure EXCEPT ![c] = m]
With(entries, id, m) ==
  [x \in DOMAIN entries \union {id} |-> IF x = id THEN m ELSE entries[x]]

(* Lookup keeps its lock while it makes what it does not find.             *)
Holder_Nobody(c) == None
Holder(c) == c

Called(c) == CallerOf[c] = None \/ running = CallerOf[c]

Ask(c) ==
  /\ creation[c] = "idle" /\ Called(c)
  /\ Goes(c, "lookup")
  /\ UNCHANGED <<pipeVars, measure, cacheVars, streams>>

LookupInstrument(c) ==
  /\ creation[c] = "lookup"
  /\ instLock[InstCache(c)] = None
  /\ IF Id[c] \in DOMAIN insts
       THEN Goes(c, "returned") /\ Gets(c, insts[Id[c]]) /\ UNCHANGED instLock
       ELSE /\ Goes(c, "aggregator")
            /\ instLock' = [instLock EXCEPT ![InstCache(c)] = Holder(c)]
            /\ UNCHANGED measure
  /\ UNCHANGED <<pipeVars, insts, aggLock, aggregators, streams>>

(* A synchronous instrument is complete once it has its aggregator.        *)
Then(c) == IF Id[c].observable THEN "measure" ELSE "store"

LookupAggregator(c) ==
  /\ creation[c] = "aggregator" /\ aggLock = None
  /\ IF Normal(Id[c]) \in DOMAIN aggregators
       THEN Goes(c, Then(c)) /\ Gets(c, aggregators[Normal(Id[c])]) /\ UNCHANGED aggLock
       ELSE /\ Goes(c, "sync")
            /\ aggLock' = Holder(c)
            /\ UNCHANGED measure
  /\ UNCHANGED <<pipeVars, instLock, insts, aggregators, streams>>

(* addSync under the lock of the pipeline; the cache lock is then left.    *)
AddSync(c) ==
  /\ creation[c] = "sync" /\ LockFree
  /\ streams' = Append(streams, Id[c])
  /\ Gets(c, Len(streams'))
  /\ aggregators' = With(aggregators, Normal(Id[c]), Len(streams'))
  /\ aggLock' = None
  /\ Goes(c, Then(c))
  /\ UNCHANGED <<pipeVars, instLock, insts>>

(* addInt64Measure                                                         *)
AddMeasure(c) ==
  /\ creation[c] = "measure" /\ LockFree
  /\ Goes(c, "callback")
  /\ UNCHANGED <<pipeVars, measure, cacheVars, streams>>

AddCallback(c) ==
  /\ creation[c] = "callback"
  /\ Register(CallbackOf[c])
  /\ Goes(c, "store")
  /\ UNCHANGED <<measure, cacheVars, streams>>

(* The end of Lookup with its deferred unlock.                             *)
Unlocked_Not(c) == instLock
Unlocked(c) == [instLock EXCEPT ![InstCache(c)] = None]

StoreInstrument(c) ==
  /\ creation[c] = "store"
  /\ insts' = With(insts, Id[c], measure[c])
  /\ instLock' = Unlocked(c)
  /\ Goes(c, "returned")
  /\ UNCHANGED <<pipeVars, measure, aggLock, aggregators, streams>>

-----------------------------------------------------------------------------
(* Collections, one after the other.  A callback returns when the calls    *)
(* it has made have.                                                       *)
Begun(c) == creation[c] \notin {"idle", "returned"}

CollectAgain(t) ==
  /\ producing' = [producing EXCEPT ![t] = "lock"]
  /\ producing[t] \in {"out", "nil", "err"}
  /\ UNCHANGED <<heldVars, registration, recorded, collected, creatorVars, cacheVars, streams>>

CollectOn(t) ==
  /\ ProduceLock(t) \/ CallbackStart(t) \/ ProduceAggregate(t)
  /\ UNCHANGED <<creatorVars, cacheVars, streams>>

CallbackEnds(t) ==
  /\ \A c \in Creators : CallerOf[c] = running => ~Begun(c)
  /\ CallbackReturn(t)
  /\ UNCHANGED <<creatorVars, cacheVars, streams>>

CreatorStep(c) ==
  \/ LookupInstrument(c) \/ LookupAggregator(c) \/ AddSync(c)
  \/ AddMeasure(c) \/ AddCallback(c) \/ StoreInstrument(c)

(* A call made in a callback that waits for a lock: the callback, which    *)
(* holds the lock of the pipeline, waits for it.                           *)
InsideCallback == \E c \in Creators : CallerOf[c] # None /\ Begun(c)

InstrumentsOver == InsideCallback /\ UNCHANGED instrumentVars

InstrumentsNext ==
  \/ \E c \in Creators : Ask(c) \/ CreatorStep(c)
  \/ \E t \in Threads : CollectAgain(t) \/ CollectOn(t) \/ CallbackEnds(t)
  \/ InstrumentsOver

(* A mutex is not passed over forever: sync.Mutex has a starvation mode.   *)
(* As each call has finitely many steps, it is enough that some call goes  *)
(* on.                                                                     *)
InstrumentsFairness ==
  /\ SF_instrumentVars(\E c \in Creators : CreatorStep(c))
  /\ \A t \in Threads : WF_instrumentVars(CollectOn(t) \/ CallbackEnds(t))

InstrumentsSpec == InstrumentsInit /\ [][InstrumentsNext]_instrumentVars /\ InstrumentsFairness

-----------------------------------------------------------------------------
(* "This cache ensures no duplicate aggregate functions are inserted into  *)
(* the reader pipeline": calls that ask for one instrument at the same     *)
(* moment, in whatever casing, share one stream, and each gets a stream    *)
(* the pipeline collects.  "If Int64ObservableCounter is invoked           *)
(* repeatedly with the same Name, Description, and Unit, only the first    *)
(* set of callbacks provided are used."                                    *)
CreatedOnce ==
  /\ \A i, j \in DOMAIN streams : Normal(streams[i]) = Normal(streams[j]) => i = j
  /\ \A c \in Creators :
       creation[c] = "returned" =>
         measure[c] \in DOMAIN streams /\ Normal(streams[measure[c]]) = Normal(Id[c])
  /\ \A c, d \in DOMAIN CallbackOf :
       Id[c] = Id[d] /\ c # d => ~({CallbackOf[c], CallbackOf[d]} \subseteq Registered)

CreationPhases ==
  {"idle", "lookup", "aggregator", "sync", "measure", "callback", "store", "returned"}

InstrumentsTypeOK ==
  /\ creation \in [Creators -> CreationPhases] /\ measure \in [Creators -> Nat]
  /\ instLock \in [BOOLEAN -> Creators \union {None}]
  /\ aggLock \in Creators \union {None}
  /\ streams \in Seq({Id[c] : c \in Creators})
  /\ \A c \in Creators : ~Id[c].observable => creation[c] \notin {"measure", "callback"}

(* Stream m collects what is asked for as id.                              *)
IsStreamOf(m, id) == m \in DOMAIN streams /\ Normal(streams[m]) = Normal(id)

(* The caches and the streams agree: a stream is the aggregator of its     *)
(* identity, and an instrument that is found has the stream of its own.    *)
CachesTrue ==
  /\ \A i \in DOMAIN streams :
       /\ Normal(streams[i]) \in DOMAIN aggregators
       /\ aggregators[Normal(streams[i])] = i
  /\ \A n \in DOMAIN aggregators :
       aggregators[n] \in DOMAIN streams /\ Normal(streams[aggregators[n]]) = n
  /\ \A id \in DOMAIN insts : IsStreamOf(insts[id], id)

(* What a call has found absent stays so while it holds the lock of the    *)
(* cache.                                                                  *)
Making == {"aggregator", "sync", "measure", "callback", "store"}

AbsentUnderLock ==
  \A c \in Creators :
    /\ creation[c] \in Making => instLock[InstCache(c)] = c /\ Id[c] \notin DOMAIN insts
    /\ creation[c] = "sync" => aggLock = c /\ Normal(Id[c]) \notin DOMAIN aggregators
    /\ creation[c] \in {"measure", "callback", "store", "returned"} =>
         IsStreamOf(measure[c], Id[c])

(* A callback is registered by the call that makes its instrument, which   *)
(* is in the cache once the call has returned, and by no other call.       *)
MakersCallback ==
  /\ \A c \in DOMAIN CallbackOf :
       CallbackOf[c] \in Registered =>
         \/ creation[c] = "store"
         \/ creation[c] = "returned" /\ Id[c] \in DOMAIN insts
  /\ \A c, d \in DOMAIN CallbackOf :
       Id[c] = Id[d] /\ c # d => ~({CallbackOf[c], CallbackOf[d]} \subseteq Registered)

(* The inductive invariant.                                                *)
InstrumentsIInv == InstrumentsTypeOK /\ CachesTrue /\ AbsentUnderLock /\ MakersCallback

(* A call that asks for an instrument returns although it waits for        *)
(* collections with its locks held, and others wait for it, unless a       *)
(* callback is itself inside such a call: then none of them may.           *)
CreationsReturn ==
  (\E c \in Creators : Begun(c)) ~> InsideCallback \/ \A c \in Creators : ~Begun(c)
=============================================================================
