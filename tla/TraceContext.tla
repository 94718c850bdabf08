----------------------------- MODULE TraceContext -----------------------------
(***************************************************************************)
(* How a trace goes on from one service to the next: Tracer.Start gives a  *)
(* span its identity from the span in the context, propagation.Inject      *)
(* writes it to the headers of a request, and propagation.Extract reads it *)
(* in the next service.  A request passes a chain of services that serve   *)
(* with the middleware of otelhttp and call with its transport.            *)
(* Identifiers are numbers, 0 the invalid one, and random ones are new.    *)
(***************************************************************************)
EXTENDS Integers, Sequences

CONSTANTS
  FirstCarriers, (* the headers the first request may have                 *)
  MaxHops,       (* bound on the number of services                        *)
  MaxSpans       (* bound on the number of spans                           *)

Known == {"sampled", "random"}
NoContext == [trace |-> 0, span |-> 0, flags |-> {}, state |-> "", remote |-> FALSE]
NoParent == [version |-> 0, trace |-> 0, span |-> 0, flags |-> {}, extra |-> FALSE]
NoSpan == [recording |-> FALSE, sc |-> NoContext]

(* A random identifier is not one that came from outside.                  *)
ASSUME TraceAssumption ==
  /\ MaxSpans \in Nat
  /\ \A c \in FirstCarriers :
       /\ c \in [parent : [version : Nat, trace : Nat, span : Nat,
                         flags : SUBSET {"sampled", "random", "reserved"}, extra : BOOLEAN],
                state : STRING]
       /\ c.parent.trace \notin 1..MaxSpans

VARIABLES
  place,     (* the request is on the "wire", or in a "service"            *)
  hops,      (* the number of services it has reached                      *)
  carrier,   (* its headers traceparent, which is not well-formed or not   *)
             (* there if it is NoParent, and tracestate                    *)
  inContext, (* the span in the context of the service                     *)
  recorded,  (* history: the spans started and recorded                    *)
  nearest,   (* history: the span that the next one is to continue         *)
  arrived,   (* history: nearest when the request came to the service      *)
  forwarded  (* history: a service called with the headers it was called   *)
             (* with                                                       *)

traceVars == <<place, hops, carrier, inContext, recorded, nearest, arrived, forwarded>>

IsValid(sc) == sc.trace # 0 /\ sc.span # 0

Acceptable(h) ==
  /\ h.version < 255
  /\ h.version = 0 => ~h.extra /\ h.flags \subseteq Known
  /\ h.trace # 0 /\ h.span # 0

(* extract; a header that is not acceptable gives the empty context.       *)
Extracted(c) ==
  IF Acceptable(c.parent)
    THEN [trace |-> c.parent.trace, span |-> c.parent.span,
          flags |-> c.parent.flags \intersect Known, state |-> c.state, remote |-> TRUE]
    ELSE NoContext

(* Inject; the tracestate is left as it is if the context has none.        *)
Injected(c, sc) ==
  IF IsValid(sc)
    THEN [parent |-> [version |-> 0, trace |-> sc.trace, span |-> sc.span,
                      flags |-> sc.flags, extra |-> FALSE],
          state |-> IF sc.state = "" THEN c.state ELSE sc.state]
    ELSE c

TraceContextInit ==
  /\ place = "wire" /\ hops = 0
  /\ carrier \in FirstCarriers
  /\ inContext = NoSpan
  /\ recorded = <<>>
  /\ nearest = Extracted(carrier) /\ arrived = nearest
  /\ forwarded = FALSE

(* The context newSpan samples with: without its span for a new root.      *)
Parent_StateKept(sc, root) == IF root THEN [NoContext EXCEPT !.state = sc.state] ELSE sc
Parent(sc, root) == IF root THEN NoContext ELSE sc

NewID == Len(recorded) + 1

SpanFrom(psc) ==
  [trace  |-> IF psc.trace = 0 THEN NewID ELSE psc.trace,
   span   |-> NewID,
   flags  |-> psc.flags \union {"sampled"},
   state  |-> psc.state,
   remote |-> FALSE]

(* Tracer.Start in a context with the span s: a tracer without a provider, *)
(* or one that has shut down, hands on the context of that span.           *)
StartRecording(s, root, links, follows) ==
  LET psc == Parent(s.sc, root)
      new == SpanFrom(psc)
  IN  /\ NewID <= MaxSpans
      /\ recorded' = Append(recorded, [sc |-> new, parent |-> psc, links |-> links,
                                       follows |-> IF root THEN NoContext ELSE follows])
      /\ inContext' = [recording |-> TRUE, sc |-> new]
      /\ nearest' = new

StartNoop(s, follows) ==
  /\ inContext' = [s EXCEPT !.recording = FALSE]
  /\ nearest' = follows
  /\ UNCHANGED recorded

(* serveHTTP: a request the filter rejects is passed on as it is.          *)
Arrives ==
  /\ place = "wire" /\ hops < MaxHops
  /\ place' = "service" /\ hops' = hops + 1
  /\ arrived' = nearest
  /\ UNCHANGED <<carrier, forwarded>>

PassThrough ==
  /\ Arrives
  /\ inContext' = NoSpan /\ nearest' = NoContext
  /\ UNCHANGED recorded

Remote == [recording |-> FALSE, sc |-> Extracted(carrier)]

Serve(public) ==
  /\ Arrives
  /\ LET links == IF public /\ IsValid(Remote.sc) THEN {Remote.sc} ELSE {}
     IN  StartRecording(Remote, public, links, nearest)

ServeNoop == Arrives /\ StartNoop(Remote, nearest)

(* A span of the application.                                              *)
StartInside(root) ==
  /\ place = "service"
  /\ StartRecording(inContext, root, {}, nearest)
  /\ UNCHANGED <<place, hops, carrier, arrived, forwarded>>

(* RoundTrip: starts a span and puts its context into a copy of the        *)
(* headers, which may be those the service was called with.                *)
CallWith(start, forward) ==
  /\ place = "service" /\ hops < MaxHops
  /\ start
  /\ carrier' = Injected(IF forward THEN carrier ELSE [parent |-> NoParent, state |-> ""],
                         inContext'.sc)
  /\ place' = "wire"
  /\ forwarded' = (forwarded \/ forward)
  /\ UNCHANGED <<hops, arrived>>

Call(forward) == CallWith(StartRecording(inContext, FALSE, {}, nearest), forward)
CallNoop(forward) ==
  CallWith(StartNoop(inContext, IF ~IsValid(inContext.sc) /\ forward THEN arrived
                                ELSE nearest), forward)

(* What lies between two services may lose the headers, or write those of  *)
(* another version of the format.                                          *)
Rewritten(parent) ==
  /\ place = "wire" /\ Acceptable(carrier.parent)
  /\ carrier' = [carrier EXCEPT !.parent = parent]
  /\ nearest' = IF Acceptable(parent) THEN nearest ELSE NoContext
  /\ UNCHANGED <<place, hops, inContext, recorded, arrived, forwarded>>

LoseParent == Rewritten(NoParent)
FutureVersion ==
  Rewritten([carrier.parent EXCEPT !.version = 1, !.extra = TRUE,
                                   !.flags = @ \union {"reserved"}])
ReservedFlag ==
  carrier.parent.version = 0
    /\ Rewritten([carrier.parent EXCEPT !.flags = @ \union {"reserved"}])

TraceOver == (hops = MaxHops \/ NewID > MaxSpans) /\ UNCHANGED traceVars

TraceContextNext ==
  \/ \E public \in BOOLEAN : Serve(public)
  \/ PassThrough \/ ServeNoop
  \/ \E root \in BOOLEAN : StartInside(root)
  \/ \E forward \in BOOLEAN : Call(forward) \/ CallNoop(forward)
  \/ LoseParent \/ FutureVersion \/ ReservedFlag
  \/ TraceOver

-----------------------------------------------------------------------------
SameSpan(a, b) == a.trace = b.trace /\ a.span = b.span

(* A span continues the nearest span before it that was recorded, in the   *)
(* same process or in one that called it, through any number of services   *)
(* that record nothing; if there is none, or it was told to, it begins a   *)
(* trace that nobody else is in.  The flags and the trace state go with    *)
(* the trace, except that forwarded headers may bring an older state.  A   *)
(* public endpoint links to the caller it does not continue.               *)
TraceContinues ==
  \A i \in DOMAIN recorded :
    LET s == recorded[i]
    IN  /\ SameSpan(s.parent, s.follows)
        /\ s.follows.flags \subseteq s.sc.flags /\ "sampled" \in s.sc.flags
        /\ forwarded \/ s.sc.state = s.follows.state
        /\ IF IsValid(s.follows)
             THEN s.sc.trace = s.follows.trace
             ELSE /\ s.sc.state = ""
                  /\ \A j \in 1..(i - 1) : recorded[j].sc.trace # s.sc.trace
        /\ \A j \in DOMAIN recorded : j # i => recorded[j].sc.span # s.sc.span
        /\ \A l \in s.links : l.remote /\ ~SameSpan(l, s.parent)

-----------------------------------------------------------------------------
(* Why: what the headers and the context of the service say is about the   *)
(* nearest span.  Its trace is one of those seen so far.                   *)
States == {""} \union {c.state : c \in FirstCarriers}

Contexts ==
  [trace : Nat, span : Nat, flags : SUBSET Known, state : States, remote : BOOLEAN]

HeaderFields ==
  [parent : [version : Nat, trace : Nat, span : Nat,
             flags : SUBSET {"sampled", "random", "reserved"}, extra : BOOLEAN],
   state : States]

Sane(sc) == sc \in Contexts /\ (IsValid(sc) \/ sc = NoContext)

Outside == {n \in Nat : n > MaxSpans}
SeenTraces == 0..Len(recorded) \union Outside

(* a is the context of b; forwarded headers may bring another state.       *)
IsContextOf(a, b) ==
  /\ SameSpan(a, b) /\ b.flags \subseteq a.flags
  /\ forwarded \/ a.state = b.state

TraceTypeOK ==
  /\ place \in {"wire", "service"} /\ forwarded \in BOOLEAN
  /\ carrier \in HeaderFields
  /\ inContext \in [recording : BOOLEAN, sc : Contexts]
  /\ Sane(inContext.sc) /\ Sane(nearest) /\ Sane(arrived)

RecordedInOrder ==
  /\ recorded \in Seq([sc : Contexts, parent : Contexts, links : SUBSET Contexts,
                       follows : Contexts])
  /\ \A i \in DOMAIN recorded :
       /\ recorded[i].sc.span = i
       /\ recorded[i].sc.trace \in 1..i \union Outside

TracesSeen == carrier.parent.trace \in SeenTraces /\ inContext.sc.trace \in SeenTraces

HeadersFollow ==
  IF place = "wire" THEN IsContextOf(Extracted(carrier), nearest)
  ELSE IsContextOf(Extracted(carrier), arrived)

ContextFollows == place = "service" => IsContextOf(inContext.sc, nearest)

TraceIInv ==
  /\ TraceTypeOK /\ RecordedInOrder /\ TracesSeen
  /\ HeadersFollow /\ ContextFollows /\ TraceContinues

TraceContextSpec == TraceContextInit /\ [][TraceContextNext]_traceVars
=============================================================================
