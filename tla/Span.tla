--------------------------------- MODULE Span ---------------------------------
(***************************************************************************)
(* A recording span of sdk/trace/span.go with its limits: attributes,      *)
(* events, links, name and status, each changed under mu by any goroutine  *)
(* until one ends the span, which hands a snapshot to the processor.       *)
(*                                                                         *)
(* SetAttributes appends without looking for duplicates while there is     *)
(* room, and removes them only when the limit may be exceeded or the span  *)
(* is read.                                                                *)
(***************************************************************************)
EXTENDS Attributes

CONSTANTS
  Lists,         (* the lists of attributes SetAttributes may be given     *)
  Invalid,       (* an attribute that is not valid                         *)
  CountLimits,   (* the values the count limits may have                   *)
  PerItemLimit,  (* AttributePerEventCountLimit, the same for links        *)
  Enders,        (* the calls of End                                       *)
  MaxCalls       (* bound on the other calls                               *)

(* Norm cuts values as it should: see Normalization.                       *)
ASSUME SpanAssumption ==
  /\ CountLimits \subseteq Int /\ PerItemLimit \in Int
  /\ Enders # {} /\ "zero" \notin Enders
  /\ \A list \in Lists :
       /\ list \in Seq(ToSet(list))
       /\ \A a \in ToSet(list) : a # Invalid => Norm[a[2]] = Canonical[a[2]]

VARIABLES
  limit,         (* AttributeCountLimit, EventCountLimit, LinkCountLimit   *)
  attributes,    (* Span.attributes                                        *)
  dropped,       (* Span.droppedAttributes                                 *)
  events,        (* Span.events                                            *)
  links,         (* Span.links                                             *)
  status,        (* Span.status                                            *)
  traced,        (* executionTracerTaskEnd is not nil                      *)
  endTime,       (* the call whose time it is, "zero" while recording      *)
  ender,         (* where each call of End is                              *)
  handed,        (* the snapshots handed to OnEnd                          *)
  calls,         (* history: the calls that found the span recording       *)
  offered        (* history: the attributes of SetAttributes, in order     *)

spanVars == <<limit, attributes, dropped, events, links, status, traced, endTime,
              ender, handed, calls, offered>>

EmptyQueue == [queue |-> <<>>, dropped |-> 0]
NoStatus == [code |-> 0, description |-> ""]
CodeError == 1

SpanInit ==
  /\ limit \in CountLimits /\ traced \in BOOLEAN
  /\ attributes = <<>> /\ dropped = 0
  /\ events = EmptyQueue /\ links = EmptyQueue
  /\ status = NoStatus
  /\ endTime = "zero" /\ ender = [e \in Enders |-> "idle"]
  /\ handed = <<>> /\ calls = <<>> /\ offered = <<>>

isRecording == endTime = "zero"

(* Bounds the number of calls, and notes each that has an effect.          *)
Called(what, arg) ==
  /\ isRecording /\ Len(calls) < MaxCalls
  /\ calls' = Append(calls, [what |-> what, arg |-> arg])

-----------------------------------------------------------------------------
(* addOverCapAttrs, on attributes that are deduplicated: updates are made  *)
(* also at the limit, new keys are dropped there.                          *)
AddOverCap_NoUpdates(acc, a) ==
  IF a = Invalid \/ Len(acc.attributes) >= limit
    THEN [acc EXCEPT !.dropped = @ + 1]
    ELSE [acc EXCEPT !.attributes = Put(@, Normal(a))]

AddOverCap(acc, a) ==
  IF a = Invalid \/ (~Has(acc.attributes, Key(a)) /\ Len(acc.attributes) >= limit)
    THEN [acc EXCEPT !.dropped = @ + 1]
    ELSE [acc EXCEPT !.attributes = Put(@, Normal(a))]

(* The other path: append what is valid, drop what is not.                 *)
AddWithin(acc, a) ==
  IF a = Invalid THEN [acc EXCEPT !.dropped = @ + 1]
                 ELSE [acc EXCEPT !.attributes = Append(@, Normal(a))]

Recorded(list) ==
  LET acc == [attributes |-> attributes, dropped |-> dropped]
  IN  IF limit = 0 THEN [acc EXCEPT !.dropped = @ + Len(list)]
      ELSE IF limit > 0 /\ Len(attributes) + Len(list) > limit
        THEN FoldLeft(AddOverCap, [acc EXCEPT !.attributes = Deduped(@)], list)
        ELSE FoldLeft(AddWithin, acc, list)

SetAttributes(list) ==
  /\ Called("set", list)
  /\ offered' = offered \o list
  /\ attributes' = Recorded(list).attributes
  /\ dropped' = Recorded(list).dropped
  /\ UNCHANGED <<limit, events, links, status, traced, endTime, ender, handed>>

-----------------------------------------------------------------------------
(* evictedQueue.add: a negative capacity is no limit.                      *)
Evict(q, x) ==
  IF limit = 0 THEN [q EXCEPT !.dropped = @ + 1]
  ELSE IF limit > 0 /\ Len(q.queue) = limit
    THEN [queue |-> Append(Tail(q.queue), x), dropped |-> q.dropped + 1]
    ELSE [q EXCEPT !.queue = Append(@, x)]

(* An event, or a link, with n attributes; the call stands for its name.   *)
Kept(n) == IF PerItemLimit < 0 \/ n <= PerItemLimit THEN n ELSE PerItemLimit
Item(n) == [id |-> Len(calls) + 1, attrs |-> Kept(n), dropped |-> n - Kept(n)]

(* AddEvent, and RecordError, which adds an event of its own.              *)
AddEvent(n) ==
  /\ Called("event", n)
  /\ events' = Evict(events, Item(n))
  /\ UNCHANGED <<limit, attributes, dropped, links, status, traced, endTime, ender,
                 handed, offered>>

(* A call with a link that has no valid context, no attributes and no      *)
(* trace state returns before the lock; it takes no step.                  *)
AddLink(n) ==
  /\ Called("link", n)
  /\ links' = Evict(links, Item(n))
  /\ UNCHANGED <<limit, attributes, dropped, events, status, traced, endTime, ender,
                 handed, offered>>

(* A status never gives way to a lower code: Unset, Error, Ok.             *)
SetStatus(code, text) ==
  /\ Called("status", code)
  /\ status' =
       IF status.code > code THEN status
       ELSE [code |-> code, description |-> IF code = CodeError THEN text ELSE ""]
  /\ UNCHANGED <<limit, attributes, dropped, events, links, traced, endTime, ender,
                 handed, offered>>

-----------------------------------------------------------------------------
(* End.  The lock is released around the end of the execution trace task.  *)
Refuses == ~isRecording

EndLocked(e) ==
  /\ ender[e] = "idle"
  /\ IF Refuses
       THEN /\ ender' = [ender EXCEPT ![e] = "returned"]
            /\ UNCHANGED endTime
       ELSE IF traced
         THEN ender' = [ender EXCEPT ![e] = "unlocked"] /\ UNCHANGED endTime
         ELSE ender' = [ender EXCEPT ![e] = "ended"] /\ endTime' = e
  /\ UNCHANGED <<limit, attributes, dropped, events, links, status, traced, handed,
                 calls, offered>>

EndRelocked(e) ==
  /\ ender[e] = "unlocked"
  /\ ender' = [ender EXCEPT ![e] = "ended"]
  /\ endTime' = e
  /\ UNCHANGED <<limit, attributes, dropped, events, links, status, traced, handed,
                 calls, offered>>

(* snapshot takes the lock again, and removes duplicates in place.         *)
Unless(q) == IF q.queue = <<>> THEN EmptyQueue ELSE q

Snapshot(e) ==
  [attributes |-> Deduped(attributes), dropped |-> dropped,
   events |-> Unless(events), links |-> Unless(links),
   status |-> status, endTime |-> endTime]

HandOver(e) ==
  /\ ender[e] = "ended"
  /\ ender' = [ender EXCEPT ![e] = "returned"]
  /\ attributes' = Deduped(attributes)
  /\ handed' = Append(handed, Snapshot(e))
  /\ UNCHANGED <<limit, dropped, events, links, status, traced, endTime, calls, offered>>

SpanOver == (\A e \in Enders : ender[e] = "returned") /\ UNCHANGED spanVars

SpanNext ==
  \/ \E list \in Lists : SetAttributes(list)
  \/ \E n \in {0, 2} : AddEvent(n) \/ AddLink(n)
  \/ \E code \in 0..2 : SetStatus(code, "text")
  \/ \E e \in Enders : EndLocked(e) \/ EndRelocked(e) \/ HandOver(e)
  \/ SpanOver

SpanSpec == SpanInit /\ [][SpanNext]_spanVars

-----------------------------------------------------------------------------
(* What a span reports, from the calls made on it.                         *)
Of(what) == {i \in DOMAIN calls : calls[i].what = what}

Valid == Filter(offered, LAMBDA a : a # Invalid)

(* The keys in the order in which they first appear, up to the limit, each *)
(* with its last value, cut and without duplicate keys in its maps.        *)
KeptKeys == UpTo(limit, FirstKeys(Valid))

AttributesAsDefined == [i \in DOMAIN KeptKeys |-> Meant(LastOf(Valid, KeptKeys[i]))]

(* Every attribute that is not valid or whose key is not kept is counted.  *)
DroppedAsDefined ==
  Cardinality({i \in DOMAIN offered :
                 offered[i] = Invalid \/ Key(offered[i]) \notin ToSet(KeptKeys)})

(* The last items up to the limit; the others are counted, unless none at  *)
(* all is kept.                                                            *)
QueueAsDefined(what) ==
  LET ids  == InOrder(Of(what))
      kept == IF limit < 0 THEN Len(ids) ELSE Min({limit, Len(ids)})
  IN  [ids |-> SubSeq(ids, Len(ids) - kept + 1, Len(ids)),
       dropped |-> IF kept = 0 THEN 0 ELSE Len(ids) - kept]

Ids(q) == [ids |-> [i \in DOMAIN q.queue |-> q.queue[i].id], dropped |-> q.dropped]

StatusAsDefined == Max({0} \union {calls[i].arg : i \in Of("status")})

(* Every snapshot holds exactly what the calls before the end amount to:   *)
(* whichever path each SetAttributes took, whoever ended the span and      *)
(* whatever was called while End had released the lock.  "This method does *)
(* nothing if the span is already ended": the span is handed over by some  *)
(* call of End, and without an execution trace, for which End lets the     *)
(* lock go, by one only.                                                   *)
SnapshotAsDefined ==
  /\ \A i \in DOMAIN handed :
       /\ handed[i].attributes = AttributesAsDefined
       /\ handed[i].dropped = DroppedAsDefined
       /\ Ids(handed[i].events) = QueueAsDefined("event")
       /\ Ids(handed[i].links) = QueueAsDefined("link")
       /\ handed[i].status.code = StatusAsDefined
  /\ ~traced => Len(handed) <= 1
  /\ (\A e \in Enders : ender[e] = "returned") => handed # <<>>
=============================================================================
