----------------------------- MODULE DataProofs -----------------------------
(***************************************************************************)
(* Proofs about what the SDK keeps and passes on, for every value of the   *)
(* constants: the ring of log records keeps its shape and implements the   *)
(* queue that overwrites its oldest record; a trace goes on through any    *)
(* number of services; the list of a trace state is right for any members, *)
(* headers and edits; and the middleware and the transport of otelhttp     *)
(* report the exchange they have seen.                                     *)
(***************************************************************************)
EXTENDS LogQueue, TraceContext, TraceState, HTTPExchange, SharedLemmas

-----------------------------------------------------------------------------
(* A trace that passes services.                                           *)

(* What a span is recorded with.                                           *)
RecordedSpans ==
  [sc : Contexts, parent : Contexts, links : SUBSET Contexts, follows : Contexts]

(* The empty context is sane, and nothing is in it.                        *)
LEMMA NoContextIsSane == Sane(NoContext) /\ NoContext.trace = 0 /\ NoContext.span = 0
                         /\ NoContext.flags = {} /\ NoContext.state = ""
<1>1. NoContext \in Contexts
  <2>1. \A b \in BOOLEAN, f \in SUBSET Known, s \in States, n \in Nat :
          [trace |-> n, span |-> n, flags |-> f, state |-> s, remote |-> b] \in Contexts
    BY DEF Contexts
  <2>2. "" \in States  BY Zenon DEF States
  <2>3. {} \in SUBSET Known /\ 0 \in Nat  OBVIOUS
  <2>4. QED  BY <2>1, <2>2, <2>3, Zenon DEF NoContext
<1>2. NoContext.trace = 0 /\ NoContext.span = 0 /\ NoContext.flags = {} /\ NoContext.state = ""
  BY DEF NoContext
<1>3. QED  BY <1>1, <1>2 DEF Sane

(* A context without a span has the empty span context.                    *)
LEMMA NoSpanHasNone ==
  NoSpan \in [recording : BOOLEAN, sc : Contexts] /\ NoSpan.sc = NoContext
<1>1. \A b \in BOOLEAN, s \in Contexts :
        /\ [recording |-> b, sc |-> s] \in [recording : BOOLEAN, sc : Contexts]
        /\ [recording |-> b, sc |-> s].sc = s
  OBVIOUS
<1>2. NoContext \in Contexts  BY NoContextIsSane DEF Sane
<1>3. QED  BY <1>1, <1>2, Zenon DEF NoSpan

(* The missing header is of the shape of one, without a trace.             *)
LEMMA NoParentIsWellFormed ==
  /\ NoParent \in [version : Nat, trace : Nat, span : Nat,
                   flags : SUBSET {"sampled", "random", "reserved"}, extra : BOOLEAN]
  /\ NoParent.trace = 0
<1> DEFINE P == [version : Nat, trace : Nat, span : Nat,
                 flags : SUBSET {"sampled", "random", "reserved"}, extra : BOOLEAN]
<1>1. \A b \in BOOLEAN, f \in SUBSET {"sampled", "random", "reserved"}, n \in Nat :
        /\ [version |-> n, trace |-> n, span |-> n, flags |-> f, extra |-> b] \in P
        /\ [version |-> n, trace |-> n, span |-> n, flags |-> f, extra |-> b].trace = n
  OBVIOUS
<1>2. {} \in SUBSET {"sampled", "random", "reserved"} /\ 0 \in Nat  OBVIOUS
<1>3. QED  BY <1>1, <1>2, Zenon DEF NoParent

(* The headers of a request that has none.                                 *)
LEMMA NoHeaders ==
  /\ [parent |-> NoParent, state |-> ""] \in HeaderFields
  /\ [parent |-> NoParent, state |-> ""].parent = NoParent
  /\ [parent |-> NoParent, state |-> ""].state = ""
<1> DEFINE P == [version : Nat, trace : Nat, span : Nat,
                 flags : SUBSET {"sampled", "random", "reserved"}, extra : BOOLEAN]
<1>1. NoParent \in P  BY NoParentIsWellFormed
<1>2. "" \in States  BY Zenon DEF States
<1>3. \A p \in P, s \in States :
        /\ [parent |-> p, state |-> s] \in HeaderFields
        /\ [parent |-> p, state |-> s].parent = p /\ [parent |-> p, state |-> s].state = s
  BY DEF HeaderFields
<1> HIDE DEF P
<1>4. QED  BY <1>1, <1>2, <1>3, Zenon

(* What is read from headers, and written to them, is sane.                *)
LEMMA ReadFromHeaders ==
  ASSUME NEW c \in HeaderFields
  PROVE  /\ Sane(Extracted(c))
         /\ Extracted(c).trace \in {0, c.parent.trace}
         /\ IsValid(Extracted(c)) => Extracted(c).remote
         /\ Acceptable(c.parent) =>
              /\ Extracted(c).trace = c.parent.trace /\ Extracted(c).span = c.parent.span
              /\ Extracted(c).flags = c.parent.flags \intersect Known
              /\ Extracted(c).state = c.state
<1>1. /\ c.parent.trace \in Nat /\ c.parent.span \in Nat
      /\ c.parent.flags \in SUBSET {"sampled", "random", "reserved"} /\ c.state \in States
  BY DEF HeaderFields
<1>2. CASE Acceptable(c.parent)
  <2>1. PICK r : r = Extracted(c)  OBVIOUS
  <2>2. \A b : r = [trace |-> c.parent.trace, span |-> c.parent.span,
                    flags |-> c.parent.flags \intersect Known, state |-> c.state, remote |-> b]
               => /\ r.trace = c.parent.trace /\ r.span = c.parent.span
                  /\ r.flags = c.parent.flags \intersect Known
                  /\ r.state = c.state /\ r.remote = b
                  /\ b \in BOOLEAN => r \in Contexts
    BY <1>1 DEF Contexts, Known
  <2>3. r = [trace |-> c.parent.trace, span |-> c.parent.span,
             flags |-> c.parent.flags \intersect Known, state |-> c.state, remote |-> TRUE]
    BY <1>2, <2>1, Zenon DEF Extracted
  <2>4. /\ r.trace = c.parent.trace /\ r.span = c.parent.span
        /\ r.flags = c.parent.flags \intersect Known
        /\ r.state = c.state /\ r.remote /\ r \in Contexts
    BY <2>2, <2>3, Zenon
  <2>5. IsValid(r)  BY <1>2, <2>4 DEF Acceptable, IsValid
  <2>6. Sane(r)  BY <2>4, <2>5 DEF Sane
  <2>7. QED  BY <2>1, <2>4, <2>6
<1>3. CASE ~Acceptable(c.parent)
  <2>1. Extracted(c) = NoContext  BY <1>3, Zenon DEF Extracted
  <2>2. ~IsValid(NoContext)  BY NoContextIsSane DEF IsValid
  <2>3. QED  BY <1>3, <2>1, <2>2, NoContextIsSane
<1>4. QED  BY <1>2, <1>3

(* What Inject writes of a valid context, Extract reads.                   *)
LEMMA WrittenToHeaders ==
  ASSUME NEW c \in HeaderFields, NEW sc \in Contexts, IsValid(sc)
  PROVE  /\ Injected(c, sc) \in HeaderFields
         /\ Injected(c, sc).parent.trace = sc.trace
         /\ Injected(c, sc).state = IF sc.state = "" THEN c.state ELSE sc.state
         /\ SameSpan(Extracted(Injected(c, sc)), sc)
         /\ Extracted(Injected(c, sc)).flags = sc.flags
         /\ Extracted(Injected(c, sc)).state = Injected(c, sc).state
<1>1. /\ sc.trace \in Nat /\ sc.span \in Nat /\ sc.flags \in SUBSET Known
      /\ sc.state \in States /\ c.state \in States
  BY DEF HeaderFields, Contexts
<1> DEFINE st == IF sc.state = "" THEN c.state ELSE sc.state
<1>2. st \in States  BY <1>1
<1> HIDE DEF st
<1>3. PICK q : q = [version |-> 0, trace |-> sc.trace, span |-> sc.span,
                    flags |-> sc.flags, extra |-> FALSE]
  OBVIOUS
<1>4. /\ q \in [version : Nat, trace : Nat, span : Nat,
                flags : SUBSET {"sampled", "random", "reserved"}, extra : BOOLEAN]
      /\ q.version = 0 /\ q.trace = sc.trace /\ q.span = sc.span /\ q.flags = sc.flags /\ ~q.extra
  <2>1. ASSUME NEW b \in BOOLEAN,
               q = [version |-> 0, trace |-> sc.trace, span |-> sc.span,
                    flags |-> sc.flags, extra |-> b]
        PROVE  /\ q \in [version : Nat, trace : Nat, span : Nat,
                         flags : SUBSET {"sampled", "random", "reserved"}, extra : BOOLEAN]
               /\ q.version = 0 /\ q.trace = sc.trace /\ q.span = sc.span /\ q.flags = sc.flags
               /\ q.extra = b
    <3>1. sc.flags \in SUBSET {"sampled", "random", "reserved"}  BY <1>1 DEF Known
    <3>2. QED  BY <1>1, <2>1, <3>1
  <2>2. QED  BY <1>3, <2>1, Zenon
<1>5. PICK r : r = [parent |-> q, state |-> st]  OBVIOUS
<1>6. r \in HeaderFields /\ r.parent = q /\ r.state = st
  BY <1>2, <1>4, <1>5 DEF HeaderFields
<1>7. Injected(c, sc) = r  BY <1>3, <1>5, Zenon DEF Injected, st
<1>8. Acceptable(r.parent)
  <2>1. q.version < 255 /\ q.trace # 0 /\ q.span # 0  BY <1>4 DEF IsValid
  <2>2. QED  BY <1>1, <1>4, <1>6, <2>1, Zenon DEF Acceptable
<1>9. /\ Extracted(r).trace = sc.trace /\ Extracted(r).span = sc.span
      /\ Extracted(r).flags = sc.flags /\ Extracted(r).state = st
  BY <1>1, <1>4, <1>6, <1>8, ReadFromHeaders
<1>10. QED  BY <1>4, <1>6, <1>7, <1>9 DEF SameSpan, st

(* The context of a new span.                                              *)
LEMMA NewContext ==
  ASSUME NEW psc, Sane(psc), NewID \in Nat \ {0}
  PROVE  /\ SpanFrom(psc) \in Contexts /\ IsValid(SpanFrom(psc))
         /\ SpanFrom(psc).trace = IF psc.trace = 0 THEN NewID ELSE psc.trace
         /\ SpanFrom(psc).span = NewID
         /\ SpanFrom(psc).flags = psc.flags \union {"sampled"}
         /\ SpanFrom(psc).state = psc.state
<1>1. /\ psc.trace \in Nat /\ psc.flags \in SUBSET Known /\ psc.state \in States
  BY DEF Sane, Contexts
<1> DEFINE tr == IF psc.trace = 0 THEN NewID ELSE psc.trace
<1>2. tr \in Nat \ {0}  BY <1>1
<1>3. psc.flags \union {"sampled"} \in SUBSET Known  BY <1>1 DEF Known
<1>4. PICK r : r = SpanFrom(psc)  OBVIOUS
<1>5. ASSUME NEW b \in BOOLEAN,
             r = [trace |-> tr, span |-> NewID, flags |-> psc.flags \union {"sampled"},
                  state |-> psc.state, remote |-> b]
      PROVE  /\ r \in Contexts
             /\ r.trace = tr /\ r.span = NewID /\ r.flags = psc.flags \union {"sampled"}
             /\ r.state = psc.state
  <2> HIDE DEF tr
  <2>1. QED  BY <1>1, <1>2, <1>3, <1>5 DEF Contexts
<1>6. /\ r \in Contexts
      /\ r.trace = tr /\ r.span = NewID /\ r.flags = psc.flags \union {"sampled"}
      /\ r.state = psc.state
  BY <1>4, <1>5, Zenon DEF SpanFrom
<1>7. QED  BY <1>2, <1>4, <1>6 DEF IsValid

(* The invariant holds when the first request is on the wire.              *)
LEMMA TraceStart == TraceContextInit => TraceIInv
<1> SUFFICES ASSUME TraceContextInit PROVE TraceIInv
  OBVIOUS
<1>1. carrier \in HeaderFields /\ carrier.parent.trace \in Nat
      /\ carrier.parent.trace \notin 1..MaxSpans /\ MaxSpans \in Nat
  <2>1. PICK c : c = carrier /\ c \in FirstCarriers  BY DEF TraceContextInit
  <2>2. c.state \in States  BY <2>1, Zenon DEF States
  <2>3. /\ c \in [parent : [version : Nat, trace : Nat, span : Nat,
                          flags : SUBSET {"sampled", "random", "reserved"}, extra : BOOLEAN],
                 state : STRING]
        /\ c.parent.trace \notin 1..MaxSpans /\ MaxSpans \in Nat
    BY <2>1, TraceAssumption
  <2>4. c \in HeaderFields  BY <2>2, <2>3 DEF HeaderFields
  <2>5. QED  BY <2>1, <2>3, <2>4 DEF HeaderFields
<1>2. /\ recorded = <<>> /\ place = "wire" /\ forwarded = FALSE
      /\ inContext = NoSpan /\ nearest = Extracted(carrier) /\ arrived = nearest
  BY DEF TraceContextInit
<1>3. inContext \in [recording : BOOLEAN, sc : Contexts] /\ inContext.sc = NoContext
  BY <1>2, NoSpanHasNone
<1>4. TraceTypeOK
  BY <1>1, <1>2, <1>3, NoContextIsSane, ReadFromHeaders DEF TraceTypeOK
<1>5. Len(recorded) = 0 /\ DOMAIN recorded = {} /\ recorded \in Seq(RecordedSpans)
  BY <1>2
<1>6. RecordedInOrder /\ TraceContinues
  BY <1>5 DEF RecordedInOrder, TraceContinues, RecordedSpans
<1>7. TracesSeen
  <2>1. carrier.parent.trace = 0 \/ carrier.parent.trace \in Outside  BY <1>1 DEF Outside
  <2>2. 0 \in SeenTraces /\ Outside \subseteq SeenTraces  BY <1>5 DEF SeenTraces
  <2>3. inContext.sc.trace = 0  BY <1>3, NoContextIsSane
  <2>4. QED  BY <2>1, <2>2, <2>3 DEF TracesSeen
<1>8. HeadersFollow /\ ContextFollows
  BY <1>2 DEF HeadersFollow, ContextFollows, IsContextOf, SameSpan
<1>9. QED  BY <1>4, <1>6, <1>7, <1>8 DEF TraceIInv

(* What TraceContinues says of one span, and of it and those before it.    *)
Goes(s, f) ==
  /\ SameSpan(s.parent, s.follows)
  /\ s.follows.flags \subseteq s.sc.flags /\ "sampled" \in s.sc.flags
  /\ f \/ s.sc.state = s.follows.state
  /\ IsValid(s.follows) => s.sc.trace = s.follows.trace
  /\ ~IsValid(s.follows) => s.sc.state = ""
  /\ \A l \in s.links : l.remote /\ ~SameSpan(l, s.parent)

IsNewest(r, i) == \A j \in 1..(i - 1) : r[j].sc.trace # r[i].sc.trace

Distinct(r) ==
  \A i \in DOMAIN r :
    /\ IsValid(r[i].follows) \/ IsNewest(r, i)
    /\ \A j \in DOMAIN r : j # i => r[j].sc.span # r[i].sc.span

(* What is said of the recorded spans, if there are no new ones.           *)
LEMMA SpansUnchanged ==
  ASSUME recorded' = recorded, forwarded' = forwarded
  PROVE  /\ RecordedInOrder => RecordedInOrder'
         /\ TraceContinues => TraceContinues'
         /\ SeenTraces' = SeenTraces
<1>1. (RecordedInOrder => RecordedInOrder') /\ SeenTraces' = SeenTraces
  BY DEF RecordedInOrder, SeenTraces
<1>2. TraceContinues => TraceContinues'  BY DEF TraceContinues
<1>3. QED  BY <1>1, <1>2

(* TraceContinues, of each span alone and of all of them.                  *)
LEMMA TraceContinuesInParts ==
  TraceContinues <=> Distinct(recorded) /\ \A i \in DOMAIN recorded : Goes(recorded[i], forwarded)
BY Zenon DEF TraceContinues, Distinct, Goes, IsNewest

(* A span that continues the nearest one, or begins a trace, is recorded.  *)
LEMMA Recording ==
  ASSUME TraceIInv, NEW s, s.sc.trace \in SeenTraces, Sane(s.sc), IsContextOf(s.sc, nearest),
         NEW root \in BOOLEAN, NEW links,
         links = {} \/ (root /\ links = {s.sc} /\ IsValid(s.sc) /\ s.sc.remote),
         StartRecording(s, root, links, nearest), forwarded \in BOOLEAN,
         forwarded' \in BOOLEAN, forwarded => forwarded'
  PROVE  /\ RecordedInOrder' /\ TraceContinues'
         /\ inContext' \in [recording : BOOLEAN, sc : Contexts]
         /\ inContext'.sc = nearest' /\ IsValid(nearest') /\ Sane(nearest')
         /\ nearest'.trace \in SeenTraces' /\ SeenTraces \subseteq SeenTraces'
<1> DEFINE n == Len(recorded)
           follows == IF root THEN NoContext ELSE nearest
<1>1. PICK psc : psc = Parent(s.sc, root)  OBVIOUS
<1>2. PICK new : new = SpanFrom(psc)  OBVIOUS
<1>3. PICK rec : rec = [sc |-> new, parent |-> psc, links |-> links, follows |-> follows]
  OBVIOUS
<1>4. /\ n + 1 <= MaxSpans /\ recorded' = Append(recorded, rec) /\ nearest' = new
      /\ inContext' = [recording |-> TRUE, sc |-> new]
  BY <1>1, <1>2, <1>3, Zenon DEF StartRecording, NewID
<1>5. recorded \in Seq(RecordedSpans) /\ n \in Nat /\ DOMAIN recorded = 1..n
  BY DEF TraceIInv, RecordedInOrder, RecordedSpans
<1>6. Sane(psc) /\ Sane(nearest) /\ Sane(follows)
  BY <1>1, NoContextIsSane DEF Parent, TraceIInv, TraceTypeOK
<1>7. /\ new \in Contexts /\ IsValid(new)
      /\ new.trace = IF psc.trace = 0 THEN n + 1 ELSE psc.trace
      /\ new.span = n + 1 /\ new.flags = psc.flags \union {"sampled"}
      /\ new.state = psc.state
  BY <1>2, <1>5, <1>6, NewContext DEF NewID
<1>8. links \in SUBSET Contexts  BY DEF Sane
<1>9. rec \in RecordedSpans /\ rec.sc = new /\ rec.parent = psc /\ rec.links = links
      /\ rec.follows = follows
  BY <1>3, <1>6, <1>7, <1>8 DEF RecordedSpans, Sane
<1>10. inContext' \in [recording : BOOLEAN, sc : Contexts] /\ inContext'.sc = new
  <2>1. \A b \in BOOLEAN, c \in Contexts :
          /\ [recording |-> b, sc |-> c] \in [recording : BOOLEAN, sc : Contexts]
          /\ [recording |-> b, sc |-> c].sc = c
    OBVIOUS
  <2>2. QED  BY <1>4, <1>7, <2>1, Zenon
<1>11. /\ recorded' \in Seq(RecordedSpans) /\ Len(recorded') = n + 1
       /\ DOMAIN recorded' = 1..n + 1 /\ recorded'[n + 1] = rec
       /\ \A i \in 1..n : recorded'[i] = recorded[i]
  BY <1>4, <1>5, <1>9, AppendProperties
<1> HIDE DEF follows, n
<1>12. psc.trace \in SeenTraces
  <2>1. 0 \in SeenTraces  BY <1>5 DEF SeenTraces, n
  <2>2. QED  BY <1>1, <2>1, NoContextIsSane DEF Parent
<1>13. SeenTraces \subseteq SeenTraces'
  BY <1>5, <1>11 DEF SeenTraces, Outside, n
<1>14. new.trace \in 1..n + 1 \union Outside
  BY <1>5, <1>7, <1>12 DEF SeenTraces, Outside, n
<1>15. new.trace \in SeenTraces'  BY <1>5, <1>11, <1>14 DEF SeenTraces, Outside
<1>16. \A i \in 1..n : recorded[i].sc.span = i /\ recorded[i].sc.trace \in 1..i \union Outside
  BY <1>5 DEF TraceIInv, RecordedInOrder
<1>17. RecordedInOrder'
  BY <1>5, <1>7, <1>9, <1>11, <1>14, <1>16 DEF RecordedInOrder, RecordedSpans, Outside
<1>18. ASSUME NEW i \in 1..n
       PROVE  /\ recorded[i].sc.trace # n + 1 /\ recorded[i].sc.span # n + 1
  BY <1>4, <1>5, <1>16, TraceAssumption DEF Outside
<1>19. TraceContinues'
  <2>1. SameSpan(psc, follows)
    BY <1>1, NoContextIsSane DEF Parent, follows, IsContextOf, SameSpan
  <2>2. /\ follows.flags \subseteq psc.flags
        /\ forwarded' \/ psc.state = follows.state
    BY <1>1 DEF Parent, follows, IsContextOf
  <2>3. follows.flags \subseteq new.flags /\ "sampled" \in new.flags
        /\ (forwarded' \/ new.state = follows.state)
    BY <1>7, <2>2
  <2>4. \A l \in links : l.remote /\ ~SameSpan(l, psc)
    <3>1. root => psc = NoContext  BY <1>1 DEF Parent
    <3>2. QED  BY <3>1, NoContextIsSane DEF IsValid, SameSpan
  <2>5. IsValid(follows) => new.trace = follows.trace
    BY <1>7, <2>1 DEF IsValid, SameSpan
  <2>6. ~IsValid(follows) => new.state = "" /\ new.trace = n + 1
    <3>1. ASSUME ~IsValid(follows) PROVE psc = NoContext
      <4>1. follows = NoContext  BY <1>6, <3>1 DEF Sane
      <4>2. ~IsValid(psc)  BY <2>1, <4>1, NoContextIsSane DEF SameSpan, IsValid
      <4>3. QED  BY <1>6, <4>2 DEF Sane
    <3>2. QED  BY <1>7, <3>1, NoContextIsSane
  <2>7. Goes(rec, forwarded')
    BY <1>9, <2>1, <2>3, <2>4, <2>5, <2>6, Zenon DEF Goes
  <2>8. Distinct(recorded) /\ \A i \in 1..n : Goes(recorded[i], forwarded)
    BY <1>5, TraceContinuesInParts DEF TraceIInv
  <2>9. \A i \in 1..n : Goes(recorded[i], forwarded')
    BY <2>8 DEF Goes
  <2>10. \A i \in 1..n + 1 : Goes(recorded'[i], forwarded')
    <3>1. \A i \in 1..n + 1 : i = n + 1 \/ i \in 1..n  BY <1>5
    <3>2. QED  BY <1>11, <2>7, <2>9, <3>1
  <2>11. ASSUME NEW i \in 1..n + 1
         PROVE  /\ IsValid(recorded'[i].follows) \/ IsNewest(recorded', i)
                /\ \A j \in 1..n + 1 : j # i => recorded'[j].sc.span # recorded'[i].sc.span
    <3>1. CASE i = n + 1
      <4>1. \A j \in 1..(i - 1) : j \in 1..n  BY <1>5, <3>1
      <4>2. \A j \in 1..n + 1 : j # i => j \in 1..n  BY <1>5, <3>1
      <4>3. ~IsValid(follows) => IsNewest(recorded', i)
        BY <1>9, <1>11, <1>18, <2>6, <3>1, <4>1 DEF IsNewest
      <4>4. \A j \in 1..n + 1 : j # i => recorded'[j].sc.span # recorded'[i].sc.span
        BY <1>7, <1>9, <1>11, <1>18, <3>1, <4>2
      <4>5. QED  BY <1>9, <1>11, <3>1, <4>3, <4>4
    <3>2. CASE i # n + 1
      <4>1. i \in 1..n /\ \A j \in 1..(i - 1) : j \in 1..n  BY <1>5, <3>2
      <4>2. \A j \in 1..n + 1 : j = n + 1 \/ j \in 1..n  BY <1>5
      <4>3. /\ IsValid(recorded[i].follows) \/ IsNewest(recorded, i)
            /\ \A j \in 1..n : j # i => recorded[j].sc.span # recorded[i].sc.span
        BY <1>5, <2>8, <4>1 DEF Distinct
      <4>4. IsNewest(recorded, i) => IsNewest(recorded', i)
        BY <1>11, <4>1 DEF IsNewest
      <4>5. \A j \in 1..n + 1 : j # i => recorded'[j].sc.span # recorded'[i].sc.span
        BY <1>7, <1>9, <1>11, <1>18, <4>1, <4>2, <4>3
      <4>6. QED  BY <1>11, <4>1, <4>3, <4>4, <4>5
    <3>3. QED  BY <3>1, <3>2
  <2>12. Distinct(recorded')  BY <1>11, <2>11 DEF Distinct
  <2>13. (Distinct(recorded) /\ \A i \in DOMAIN recorded : Goes(recorded[i], forwarded))'
    BY <1>11, <2>10, <2>12
  <2>14. QED  BY <2>13, Zenon DEF TraceContinues, Distinct, Goes, IsNewest
<1>20. QED  BY <1>4, <1>6, <1>7, <1>10, <1>13, <1>15, <1>17, <1>19 DEF Sane

(* A span that is not recorded has the context of the one before it.       *)
LEMMA NotRecording ==
  ASSUME NEW s \in [recording : BOOLEAN, sc : Contexts], NEW follows, StartNoop(s, follows)
  PROVE  /\ inContext' \in [recording : BOOLEAN, sc : Contexts] /\ inContext'.sc = s.sc
         /\ nearest' = follows /\ recorded' = recorded
<1>1. \A b \in BOOLEAN :
        /\ [s EXCEPT !.recording = b] \in [recording : BOOLEAN, sc : Contexts]
        /\ [s EXCEPT !.recording = b].sc = s.sc
  OBVIOUS
<1>2. QED  BY <1>1, Zenon DEF StartNoop

(* The context of a request that has arrived.                              *)
LEMMA RemoteContext ==
  ASSUME TraceIInv
  PROVE  /\ Remote \in [recording : BOOLEAN, sc : Contexts] /\ Remote.sc = Extracted(carrier)
         /\ Sane(Remote.sc) /\ Remote.sc.trace \in SeenTraces
         /\ IsValid(Remote.sc) => Remote.sc.remote
<1>1. carrier \in HeaderFields /\ carrier.parent.trace \in SeenTraces
      /\ recorded \in Seq(RecordedSpans)
  BY DEF TraceIInv, TraceTypeOK, TracesSeen, RecordedInOrder, RecordedSpans
<1>2. 0 \in SeenTraces  BY <1>1 DEF SeenTraces
<1>3. PICK sc : sc = Extracted(carrier)  OBVIOUS
<1>4. Sane(sc) /\ sc.trace \in SeenTraces /\ (IsValid(sc) => sc.remote)
  BY <1>1, <1>2, <1>3, ReadFromHeaders
<1>5. \A b \in BOOLEAN, c \in Contexts :
        /\ [recording |-> b, sc |-> c] \in [recording : BOOLEAN, sc : Contexts]
        /\ [recording |-> b, sc |-> c].sc = c
  OBVIOUS
<1>6. sc \in Contexts  BY <1>4 DEF Sane
<1>7. Remote \in [recording : BOOLEAN, sc : Contexts] /\ Remote.sc = sc
  BY <1>3, <1>5, <1>6, Zenon DEF Remote
<1>8. QED  BY <1>3, <1>4, <1>7

(* A request arrives, and is traced, traced by nobody, or filtered.        *)
LEMMA RequestServed ==
  TraceIInv /\ ((\E public \in BOOLEAN : Serve(public)) \/ ServeNoop \/ PassThrough)
    => TraceIInv'
<1> SUFFICES ASSUME TraceIInv, Arrives,
                    (\E public \in BOOLEAN : Serve(public)) \/ ServeNoop \/ PassThrough
             PROVE  TraceIInv'
  BY DEF Serve, ServeNoop, PassThrough
<1>1. /\ place = "wire" /\ place' = "service" /\ arrived' = nearest
      /\ carrier' = carrier /\ forwarded' = forwarded
  BY DEF Arrives
<1>2. /\ carrier \in HeaderFields /\ Sane(nearest) /\ forwarded \in BOOLEAN
      /\ carrier.parent.trace \in SeenTraces
      /\ IsContextOf(Extracted(carrier), nearest)
      /\ RecordedInOrder /\ TraceContinues
  BY <1>1 DEF TraceIInv, TraceTypeOK, TracesSeen, HeadersFollow
<1>3. HeadersFollow'  BY <1>1, <1>2 DEF HeadersFollow, IsContextOf
<1>4. SUFFICES /\ RecordedInOrder' /\ TraceContinues' /\ SeenTraces \subseteq SeenTraces'
               /\ inContext' \in [recording : BOOLEAN, sc : Contexts]
               /\ Sane(inContext'.sc) /\ Sane(nearest')
               /\ inContext'.sc.trace \in SeenTraces'
               /\ ContextFollows'
  BY <1>1, <1>2, <1>3 DEF TraceIInv, TraceTypeOK, TracesSeen
<1>5. CASE \E public \in BOOLEAN : Serve(public)
  <2>1. PICK public \in BOOLEAN : Serve(public)  BY <1>5
  <2>2. PICK links : /\ links = IF public /\ IsValid(Remote.sc) THEN {Remote.sc} ELSE {}
                     /\ StartRecording(Remote, public, links, nearest)
    BY <2>1 DEF Serve
  <2>3. links = {} \/ (public /\ links = {Remote.sc} /\ IsValid(Remote.sc) /\ Remote.sc.remote)
    BY <2>2, RemoteContext
  <2>4. IsContextOf(Remote.sc, nearest)  BY <1>2, RemoteContext
  <2>5. /\ RecordedInOrder' /\ TraceContinues'
        /\ inContext' \in [recording : BOOLEAN, sc : Contexts]
        /\ inContext'.sc = nearest' /\ IsValid(nearest') /\ Sane(nearest')
        /\ nearest'.trace \in SeenTraces' /\ SeenTraces \subseteq SeenTraces'
    BY <1>1, <1>2, <2>1, <2>2, <2>3, <2>4, RemoteContext, Recording
  <2>6. ContextFollows'  BY <2>5 DEF ContextFollows, IsContextOf, SameSpan
  <2>7. QED  BY <2>5, <2>6
<1>6. ASSUME recorded' = recorded
      PROVE  RecordedInOrder' /\ TraceContinues' /\ SeenTraces' = SeenTraces
  BY <1>1, <1>2, <1>6, SpansUnchanged
<1>7. CASE ServeNoop
  <2>1. /\ inContext' \in [recording : BOOLEAN, sc : Contexts] /\ inContext'.sc = Remote.sc
        /\ nearest' = nearest /\ recorded' = recorded
    BY <1>7, RemoteContext, NotRecording DEF ServeNoop
  <2>2. ContextFollows'  BY <1>1, <1>2, <2>1, RemoteContext DEF ContextFollows, IsContextOf
  <2>3. QED  BY <1>2, <1>6, <2>1, <2>2, RemoteContext
<1>8. CASE PassThrough
  <2>1. inContext' = NoSpan /\ nearest' = NoContext /\ recorded' = recorded
    BY <1>8 DEF PassThrough
  <2>2. inContext' \in [recording : BOOLEAN, sc : Contexts] /\ inContext'.sc = NoContext
    BY <2>1, NoSpanHasNone
  <2>3. ContextFollows'  BY <2>1, <2>2 DEF ContextFollows, IsContextOf, SameSpan
  <2>4. 0 \in SeenTraces  BY <1>2 DEF SeenTraces, RecordedInOrder
  <2>5. QED  BY <1>6, <2>1, <2>2, <2>3, <2>4, NoContextIsSane
<1>9. QED  BY <1>5, <1>7, <1>8

(* A span of the application.                                              *)
LEMMA SpanInside ==
  TraceIInv /\ (\E root \in BOOLEAN : StartInside(root)) => TraceIInv'
<1> SUFFICES ASSUME TraceIInv, NEW root \in BOOLEAN, StartInside(root) PROVE TraceIInv'
  OBVIOUS
<1>1. /\ place = "service" /\ place' = place /\ arrived' = arrived
      /\ carrier' = carrier /\ forwarded' = forwarded
      /\ StartRecording(inContext, root, {}, nearest)
  BY DEF StartInside
<1>2. /\ carrier \in HeaderFields /\ Sane(arrived) /\ forwarded \in BOOLEAN
      /\ carrier.parent.trace \in SeenTraces
      /\ IsContextOf(Extracted(carrier), arrived)
      /\ IsContextOf(inContext.sc, nearest)
      /\ Sane(inContext.sc) /\ inContext.sc.trace \in SeenTraces
  BY <1>1 DEF TraceIInv, TraceTypeOK, TracesSeen, HeadersFollow, ContextFollows
<1>3. /\ RecordedInOrder' /\ TraceContinues'
      /\ inContext' \in [recording : BOOLEAN, sc : Contexts]
      /\ inContext'.sc = nearest' /\ IsValid(nearest') /\ Sane(nearest')
      /\ nearest'.trace \in SeenTraces' /\ SeenTraces \subseteq SeenTraces'
  BY <1>1, <1>2, Recording
<1>4. HeadersFollow' /\ ContextFollows'
  BY <1>1, <1>2, <1>3 DEF HeadersFollow, ContextFollows, IsContextOf, SameSpan
<1>5. TraceTypeOK' /\ TracesSeen'
  BY <1>1, <1>2, <1>3 DEF TraceTypeOK, TracesSeen
<1>6. QED  BY <1>3, <1>4, <1>5 DEF TraceIInv

(* A request with the context of the span that was started for it.         *)
LEMMA CallMade ==
  ASSUME TraceIInv, NEW forward \in BOOLEAN, Call(forward)
  PROVE  TraceIInv'
<1> DEFINE headers == IF forward THEN carrier ELSE [parent |-> NoParent, state |-> ""]
<1>1. /\ place = "service" /\ place' = "wire" /\ arrived' = arrived
      /\ carrier' = Injected(headers, inContext'.sc)
      /\ forwarded' = (forwarded \/ forward)
      /\ StartRecording(inContext, FALSE, {}, nearest)
  BY DEF Call, CallWith
<1>2. /\ carrier \in HeaderFields /\ Sane(arrived) /\ forwarded \in BOOLEAN
      /\ IsContextOf(inContext.sc, nearest)
      /\ Sane(inContext.sc) /\ inContext.sc.trace \in SeenTraces
  BY <1>1 DEF TraceIInv, TraceTypeOK, TracesSeen, ContextFollows
<1>3. /\ RecordedInOrder' /\ TraceContinues'
      /\ inContext' \in [recording : BOOLEAN, sc : Contexts]
      /\ inContext'.sc = nearest' /\ IsValid(nearest') /\ Sane(nearest')
      /\ nearest'.trace \in SeenTraces' /\ SeenTraces \subseteq SeenTraces'
  BY <1>1, <1>2, Recording
<1>4. headers \in HeaderFields /\ (~forward => headers.state = "")
  BY <1>2, NoHeaders
<1> HIDE DEF headers
<1>5. nearest' \in Contexts  BY <1>3 DEF Sane
<1>6. PICK new : new = nearest'  OBVIOUS
<1>7. PICK c : c = carrier'  OBVIOUS
<1>8. /\ c \in HeaderFields /\ c.parent.trace = new.trace
      /\ c.state = IF new.state = "" THEN headers.state ELSE new.state
      /\ SameSpan(Extracted(c), new)
      /\ Extracted(c).flags = new.flags /\ Extracted(c).state = c.state
  BY <1>1, <1>3, <1>4, <1>5, <1>6, <1>7, WrittenToHeaders
<1>9. HeadersFollow' /\ ContextFollows'
  <2>1. forwarded' \/ Extracted(c).state = new.state  BY <1>1, <1>4, <1>8
  <2>2. QED  BY <1>1, <1>6, <1>7, <1>8, <2>1 DEF HeadersFollow, ContextFollows, IsContextOf
<1>10. TraceTypeOK' /\ TracesSeen'
  BY <1>1, <1>2, <1>3, <1>6, <1>7, <1>8 DEF TraceTypeOK, TracesSeen
<1>11. QED  BY <1>3, <1>9, <1>10 DEF TraceIInv

(* A request with the context of the span nobody records.                  *)
LEMMA NoopCallMade ==
  ASSUME TraceIInv, NEW forward \in BOOLEAN, CallNoop(forward)
  PROVE  TraceIInv'
<1> DEFINE headers == IF forward THEN carrier ELSE [parent |-> NoParent, state |-> ""]
           follows == IF ~IsValid(inContext.sc) /\ forward THEN arrived ELSE nearest
<1>1. /\ place = "service" /\ place' = "wire" /\ arrived' = arrived
      /\ carrier' = Injected(headers, inContext'.sc)
      /\ forwarded' = (forwarded \/ forward)
      /\ StartNoop(inContext, follows)
  BY DEF CallNoop, CallWith
<1>2. /\ carrier \in HeaderFields /\ Sane(arrived) /\ Sane(nearest) /\ forwarded \in BOOLEAN
      /\ IsContextOf(Extracted(carrier), arrived)
      /\ IsContextOf(inContext.sc, nearest)
      /\ inContext \in [recording : BOOLEAN, sc : Contexts]
      /\ Sane(inContext.sc) /\ inContext.sc.trace \in SeenTraces
      /\ carrier.parent.trace \in SeenTraces
      /\ RecordedInOrder /\ TraceContinues
  BY <1>1 DEF TraceIInv, TraceTypeOK, TracesSeen, HeadersFollow, ContextFollows
<1> HIDE DEF follows
<1>3. /\ inContext' \in [recording : BOOLEAN, sc : Contexts] /\ inContext'.sc = inContext.sc
      /\ nearest' = follows /\ recorded' = recorded
  BY <1>1, <1>2, NotRecording
<1>4. headers \in HeaderFields /\ (~forward => headers.state = "" /\ headers.parent = NoParent)
      /\ (forward => headers = carrier)
  BY <1>2, NoHeaders
<1> HIDE DEF headers
<1>5. SeenTraces' = SeenTraces /\ RecordedInOrder'
  BY <1>2, <1>3 DEF SeenTraces, RecordedInOrder
<1>6. TraceContinues'
  <2>1. Distinct(recorded) /\ \A i \in DOMAIN recorded : Goes(recorded[i], forwarded)
    BY <1>2, TraceContinuesInParts
  <2>2. \A i \in DOMAIN recorded : Goes(recorded[i], forwarded')
    BY <1>1, <2>1 DEF Goes
  <2>3. (Distinct(recorded) /\ \A i \in DOMAIN recorded : Goes(recorded[i], forwarded))'
    BY <1>3, <2>1, <2>2
  <2>4. QED  BY <2>3, Zenon DEF TraceContinues, Distinct, Goes, IsNewest
<1>7. PICK sc : sc = inContext.sc  OBVIOUS
<1>8. PICK c : c = carrier' /\ c = Injected(headers, sc)  BY <1>1, <1>3, <1>7
<1>9. CASE IsValid(sc)
  <2>1. /\ c \in HeaderFields /\ c.parent.trace = sc.trace
        /\ c.state = IF sc.state = "" THEN headers.state ELSE sc.state
        /\ SameSpan(Extracted(c), sc)
        /\ Extracted(c).flags = sc.flags /\ Extracted(c).state = c.state
    <3>1. sc \in Contexts  BY <1>2, <1>7 DEF Sane
    <3>2. headers \in HeaderFields  BY <1>4
    <3>3. PICK i : i = Injected(headers, sc)  OBVIOUS
    <3>4. /\ i \in HeaderFields /\ i.parent.trace = sc.trace
          /\ i.state = IF sc.state = "" THEN headers.state ELSE sc.state
          /\ SameSpan(Extracted(i), sc)
          /\ Extracted(i).flags = sc.flags /\ Extracted(i).state = i.state
      BY <1>9, <3>1, <3>2, <3>3, WrittenToHeaders
    <3>5. QED  BY <1>8, <3>3, <3>4, Zenon
  <2>2. nearest' = nearest  BY <1>3, <1>7, <1>9 DEF follows
  <2>3. forwarded' \/ Extracted(c).state = nearest.state
    BY <1>1, <1>2, <1>4, <1>7, <2>1 DEF IsContextOf
  <2>4. SameSpan(Extracted(c), nearest) /\ nearest.flags \subseteq Extracted(c).flags
    BY <1>2, <1>7, <2>1 DEF IsContextOf, SameSpan
  <2>5. HeadersFollow' /\ ContextFollows'
    BY <1>1, <1>8, <2>2, <2>3, <2>4 DEF HeadersFollow, ContextFollows, IsContextOf
  <2>6. TraceTypeOK' /\ TracesSeen'
    BY <1>1, <1>2, <1>3, <1>5, <1>7, <1>8, <2>1, <2>2 DEF TraceTypeOK, TracesSeen
  <2>7. QED  BY <1>5, <1>6, <2>5, <2>6 DEF TraceIInv
<1>10. CASE ~IsValid(sc)
  <2>1. c = headers  BY <1>8, <1>10, Zenon DEF Injected
  <2>2. sc = NoContext  BY <1>2, <1>7, <1>10 DEF Sane
  <2>3. HeadersFollow' /\ ContextFollows'
    <3>1. CASE forward
      <4>1. c = carrier /\ nearest' = arrived  BY <1>3, <1>4, <1>7, <1>10, <2>1, <3>1 DEF follows
      <4>2. QED
        BY <1>1, <1>2, <1>8, <3>1, <4>1 DEF HeadersFollow, ContextFollows, IsContextOf
    <3>2. CASE ~forward
      <4>1. nearest' = nearest  BY <1>3, <3>2 DEF follows
      <4>2. ~Acceptable(c.parent)
        BY <1>4, <2>1, <3>2, NoParentIsWellFormed DEF Acceptable
      <4>3. Extracted(c) = NoContext  BY <4>2, Zenon DEF Extracted
      <4>4. QED
        BY <1>1, <1>2, <1>7, <1>8, <2>2, <3>2, <4>1, <4>3
        DEF HeadersFollow, ContextFollows, IsContextOf
    <3>3. QED  BY <3>1, <3>2
  <2>4. c.parent.trace \in SeenTraces
    <3>1. 0 \in SeenTraces  BY <1>2 DEF SeenTraces, RecordedInOrder
    <3>2. QED  BY <1>2, <1>4, <2>1, <3>1, NoParentIsWellFormed
  <2>5. Sane(nearest')  BY <1>2, <1>3 DEF follows
  <2>6. TraceTypeOK' /\ TracesSeen'
    BY <1>1, <1>2, <1>3, <1>4, <1>5, <1>8, <2>1, <2>4, <2>5 DEF TraceTypeOK, TracesSeen
  <2>7. QED  BY <1>5, <1>6, <2>3, <2>6 DEF TraceIInv
<1>11. QED  BY <1>9, <1>10

(* The wire changes what the headers say, but not of which span.           *)
LEMMA ParentRewritten ==
  ASSUME TraceIInv, NEW parent, Rewritten(parent),
         [carrier EXCEPT !.parent = parent] \in HeaderFields,
         parent.trace \in {0, carrier.parent.trace},
         Acceptable(parent) => /\ parent.span = carrier.parent.span
                               /\ parent.flags \intersect Known
                                    = carrier.parent.flags \intersect Known
  PROVE  TraceIInv'
<1>1. PICK c : c = carrier' /\ c = [carrier EXCEPT !.parent = parent]
  BY DEF Rewritten
<1>2. /\ place = "wire" /\ place' = place /\ arrived' = arrived /\ inContext' = inContext
      /\ recorded' = recorded /\ forwarded' = forwarded /\ Acceptable(carrier.parent)
      /\ nearest' = IF Acceptable(parent) THEN nearest ELSE NoContext
  BY DEF Rewritten
<1>3. /\ TraceTypeOK /\ TracesSeen /\ IsContextOf(Extracted(carrier), nearest)
      /\ carrier \in HeaderFields
  BY <1>2 DEF TraceIInv, HeadersFollow, TraceTypeOK
<1>4. c \in HeaderFields /\ c.parent = parent /\ c.state = carrier.state
  BY <1>1, <1>3 DEF HeaderFields
<1>5. IsContextOf(Extracted(c), nearest') /\ Sane(nearest')
  <2>1. CASE Acceptable(parent)
    <3>1. parent.trace = carrier.parent.trace  BY <2>1 DEF Acceptable
    <3>2. /\ Extracted(c).trace = Extracted(carrier).trace
          /\ Extracted(c).span = Extracted(carrier).span
          /\ Extracted(c).flags = Extracted(carrier).flags
          /\ Extracted(c).state = Extracted(carrier).state
      BY <1>2, <1>3, <1>4, <2>1, <3>1, ReadFromHeaders
    <3>3. nearest' = nearest  BY <1>2, <2>1
    <3>4. QED  BY <1>3, <3>2, <3>3 DEF IsContextOf, SameSpan, TraceTypeOK
  <2>2. CASE ~Acceptable(parent)
    <3>1. Extracted(c) = NoContext  BY <1>4, <2>2, Zenon DEF Extracted
    <3>2. nearest' = NoContext  BY <1>2, <2>2
    <3>3. QED  BY <3>1, <3>2, NoContextIsSane DEF IsContextOf, SameSpan
  <2>3. QED  BY <2>1, <2>2
<1>6. RecordedInOrder' /\ TraceContinues' /\ SeenTraces' = SeenTraces
  BY <1>2, SpansUnchanged DEF TraceIInv
<1>7. c.parent.trace \in SeenTraces
  <2>1. 0 \in SeenTraces  BY DEF SeenTraces, TraceIInv, RecordedInOrder
  <2>2. QED  BY <1>3, <1>4, <2>1 DEF TracesSeen
<1>8. HeadersFollow' /\ ContextFollows'
  BY <1>1, <1>2, <1>5 DEF HeadersFollow, ContextFollows, IsContextOf
<1>9. TraceTypeOK' /\ TracesSeen'
  BY <1>1, <1>2, <1>3, <1>4, <1>5, <1>6, <1>7 DEF TraceTypeOK, TracesSeen
<1>10. QED  BY <1>6, <1>8, <1>9 DEF TraceIInv

(* Each change on the wire is one of the headers of that shape.            *)
LEMMA HeadersOnTheWire ==
  TraceIInv /\ (LoseParent \/ FutureVersion \/ ReservedFlag) => TraceIInv'
<1> SUFFICES ASSUME TraceIInv, LoseParent \/ FutureVersion \/ ReservedFlag PROVE TraceIInv'
  OBVIOUS
<1> DEFINE Flags == {"sampled", "random", "reserved"}
           P == [version : Nat, trace : Nat, span : Nat, flags : SUBSET Flags, extra : BOOLEAN]
<1>1. PICK q : q = carrier.parent  OBVIOUS
<1>2. q \in P /\ carrier \in HeaderFields
  BY <1>1 DEF TraceIInv, TraceTypeOK, HeaderFields
<1>3. ASSUME NEW p \in P PROVE [carrier EXCEPT !.parent = p] \in HeaderFields
  BY <1>2 DEF HeaderFields
<1>4. CASE LoseParent
  <2>1. NoParent \in P /\ NoParent.trace = 0  BY NoParentIsWellFormed
  <2>2. ~Acceptable(NoParent)  BY <2>1, Zenon DEF Acceptable
  <2>3. QED  BY <1>3, <1>4, <2>1, <2>2, ParentRewritten DEF LoseParent
<1>5. CASE FutureVersion
  <2>1. PICK p : p = [q EXCEPT !.version = 1, !.extra = TRUE, !.flags = @ \union {"reserved"}]
    OBVIOUS
  <2>2. p \in P /\ p.trace = q.trace /\ p.span = q.span
        /\ p.flags = q.flags \union {"reserved"}
    <3>1. PICK v : v = [q EXCEPT !.version = 1]  OBVIOUS
    <3>2. v \in P /\ v.trace = q.trace /\ v.span = q.span /\ v.flags = q.flags
      BY <1>2, <3>1
    <3>3. \A b \in BOOLEAN :
            /\ [v EXCEPT !.extra = b] \in P /\ [v EXCEPT !.extra = b].trace = v.trace
            /\ [v EXCEPT !.extra = b].span = v.span /\ [v EXCEPT !.extra = b].flags = v.flags
      BY <3>2
    <3>4. PICK w : w = [v EXCEPT !.extra = TRUE]  OBVIOUS
    <3>5. w \in P /\ w.trace = v.trace /\ w.span = v.span /\ w.flags = v.flags
      BY <3>3, <3>4, Zenon
    <3>6. PICK r : r = [w EXCEPT !.flags = @ \union {"reserved"}]  OBVIOUS
    <3>7. r = [version |-> w.version, trace |-> w.trace, span |-> w.span,
               flags |-> w.flags \union {"reserved"}, extra |-> w.extra]
      BY <3>5, <3>6
    <3>8. w.flags \union {"reserved"} \in SUBSET Flags  BY <3>5
    <3>9. r \in P /\ r.trace = w.trace /\ r.span = w.span
          /\ r.flags = w.flags \union {"reserved"}
      BY <3>5, <3>7, <3>8
    <3>10. r = p  BY <2>1, <3>1, <3>2, <3>4, <3>5, <3>6, Zenon
    <3>11. QED  BY <3>2, <3>5, <3>9, <3>10
  <2>3. p.flags \intersect Known = q.flags \intersect Known  BY <2>2 DEF Known
  <2>4. Rewritten(p)  BY <1>1, <1>5, <2>1, Zenon DEF FutureVersion
  <2>5. QED  BY <1>1, <1>3, <2>2, <2>3, <2>4, ParentRewritten
<1>6. CASE ReservedFlag
  <2>1. PICK p : p = [q EXCEPT !.flags = @ \union {"reserved"}]  OBVIOUS
  <2>2. p \in P /\ p.trace = q.trace /\ p.span = q.span
        /\ p.flags = q.flags \union {"reserved"}
    <3>1. p = [version |-> q.version, trace |-> q.trace, span |-> q.span,
               flags |-> q.flags \union {"reserved"}, extra |-> q.extra]
      BY <1>2, <2>1
    <3>2. q.flags \union {"reserved"} \in SUBSET Flags  BY <1>2
    <3>3. QED  BY <1>2, <3>1, <3>2
  <2>3. p.flags \intersect Known = q.flags \intersect Known  BY <2>2 DEF Known
  <2>4. Rewritten(p)  BY <1>1, <1>6, <2>1, Zenon DEF ReservedFlag
  <2>5. QED  BY <1>1, <1>3, <2>2, <2>3, <2>4, ParentRewritten
<1>7. QED  BY <1>4, <1>5, <1>6

(* No step breaks the invariant.                                           *)
LEMMA TraceStep == TraceIInv /\ [TraceContextNext]_traceVars => TraceIInv'
<1> SUFFICES ASSUME TraceIInv, [TraceContextNext]_traceVars PROVE TraceIInv'
  OBVIOUS
<1>1. CASE (\E public \in BOOLEAN : Serve(public)) \/ ServeNoop \/ PassThrough
  BY <1>1, RequestServed
<1>2. CASE \E root \in BOOLEAN : StartInside(root)  BY <1>2, SpanInside
<1>3. CASE \E forward \in BOOLEAN : Call(forward) \/ CallNoop(forward)
  BY <1>3, CallMade, NoopCallMade
<1>4. CASE LoseParent \/ FutureVersion \/ ReservedFlag  BY <1>4, HeadersOnTheWire
<1>5. ASSUME UNCHANGED traceVars PROVE TraceIInv'
  <2>1. /\ place' = place /\ carrier' = carrier /\ inContext' = inContext
        /\ recorded' = recorded /\ nearest' = nearest /\ arrived' = arrived
        /\ forwarded' = forwarded
    BY <1>5 DEF traceVars
  <2>2. RecordedInOrder' /\ TraceContinues' /\ SeenTraces' = SeenTraces
    BY <2>1, SpansUnchanged DEF TraceIInv
  <2>3. HeadersFollow' /\ ContextFollows'
    BY <2>1 DEF TraceIInv, HeadersFollow, ContextFollows, IsContextOf
  <2>4. TraceTypeOK' /\ TracesSeen'
    BY <2>1, <2>2 DEF TraceIInv, TraceTypeOK, TracesSeen
  <2>5. QED  BY <2>2, <2>3, <2>4 DEF TraceIInv
<1>6. QED  BY <1>1, <1>2, <1>3, <1>4, <1>5 DEF TraceContextNext, TraceOver

(* However many services a request passes, with or without a tracer, with  *)
(* the headers lost or of another version: a recorded span continues the   *)
(* nearest recorded span before it, or begins a trace nobody else is in    *)
(* (Tracer.Start, TraceContext.Inject and Extract, otelhttp).              *)
THEOREM TraceGoesOn == TraceContextSpec => []TraceContinues
<1>1. TraceIInv => TraceContinues  BY DEF TraceIInv
<1>2. QED  BY TraceStart, TraceStep, <1>1, PTL DEF TraceContextSpec

-----------------------------------------------------------------------------
(* The HTTP exchange.                                                      *)

(* The wrapper after a header, and after bytes; the response likewise.     *)
WithHeader(w, c) == [w EXCEPT !.wrote = TRUE, !.code = c]
WithBytes(w, n) == [w EXCEPT !.size = n]
WithStatusSent(s, c) == [s EXCEPT !.code = c]
WithBytesSent(s, c, n) == [s EXCEPT !.code = c, !.size = n]

(* The fields of the wrapper and of the response after each of them.       *)
LEMMA HeaderWritten ==
  ASSUME NEW w \in Wrappers, NEW c \in StatusCodes
  PROVE  /\ WithHeader(w, c) \in Wrappers /\ WithHeader(w, c).wrote
         /\ WithHeader(w, c).code = c /\ WithHeader(w, c).size = w.size
<1>1. w.wrote \in BOOLEAN /\ w.code \in StatusCodes /\ w.size \in Nat  BY DEF Wrappers
<1>2. PICK v : v = [w EXCEPT !.wrote = TRUE]  OBVIOUS
<1>3. \A b : [w EXCEPT !.wrote = b] = [wrote |-> b, code |-> w.code, size |-> w.size]
  BY DEF Wrappers
<1>4. v = [wrote |-> TRUE, code |-> w.code, size |-> w.size]
  BY <1>2, <1>3, Zenon
<1>5. v \in Wrappers /\ v.wrote /\ v.code = w.code /\ v.size = w.size
  BY <1>1, <1>4 DEF Wrappers
<1>6. PICK r : r = [v EXCEPT !.code = c]  OBVIOUS
<1>7. r = [wrote |-> v.wrote, code |-> c, size |-> v.size]
  BY <1>5, <1>6 DEF Wrappers
<1>8. r \in Wrappers /\ r.wrote = v.wrote /\ r.code = c /\ r.size = v.size
  BY <1>5, <1>7 DEF Wrappers
<1>9. WithHeader(w, c) = r  BY <1>2, <1>6, Zenon DEF WithHeader
<1>10. QED  BY <1>5, <1>8, <1>9

LEMMA BytesWritten ==
  ASSUME NEW w \in Wrappers, NEW n \in Nat
  PROVE  /\ WithBytes(w, n) \in Wrappers /\ WithBytes(w, n).wrote = w.wrote
         /\ WithBytes(w, n).code = w.code /\ WithBytes(w, n).size = n
<1>1. w.wrote \in BOOLEAN /\ w.code \in StatusCodes  BY DEF Wrappers
<1>2. WithBytes(w, n) = [wrote |-> w.wrote, code |-> w.code, size |-> n]
  BY DEF WithBytes, Wrappers
<1>3. QED  BY <1>1, <1>2 DEF Wrappers

LEMMA StatusWritten ==
  ASSUME NEW s \in Responses, NEW c \in {0} \union StatusCodes
  PROVE  /\ WithStatusSent(s, c) \in Responses /\ WithStatusSent(s, c).code = c
         /\ WithStatusSent(s, c).size = s.size
         /\ WithStatusSent(s, c).bypassed = s.bypassed
<1>1. s.bypassed \in BOOLEAN /\ s.size \in Nat  BY DEF Responses
<1>2. WithStatusSent(s, c) = [code |-> c, size |-> s.size, bypassed |-> s.bypassed]
  BY DEF WithStatusSent, Responses
<1>3. QED  BY <1>1, <1>2 DEF Responses

LEMMA ByteWritten ==
  ASSUME NEW s \in Responses, NEW c \in {0} \union StatusCodes, NEW n \in Nat
  PROVE  /\ WithBytesSent(s, c, n) \in Responses /\ WithBytesSent(s, c, n).code = c
         /\ WithBytesSent(s, c, n).size = n
         /\ WithBytesSent(s, c, n).bypassed = s.bypassed
<1>1. PICK v : v = WithStatusSent(s, c)  OBVIOUS
<1>2. v \in Responses /\ v.code = c /\ v.bypassed = s.bypassed  BY <1>1, StatusWritten
<1>3. v.bypassed \in BOOLEAN  BY <1>2 DEF Responses
<1>4. PICK r : r = [v EXCEPT !.size = n]  OBVIOUS
<1>5. r = [code |-> v.code, size |-> n, bypassed |-> v.bypassed]
  BY <1>2, <1>4 DEF Responses
<1>6. r \in Responses /\ r.code = v.code /\ r.size = n /\ r.bypassed = v.bypassed
  BY <1>2, <1>3, <1>5 DEF Responses
<1>7. WithBytesSent(s, c, n) = r  BY <1>1, <1>4, Zenon DEF WithStatusSent, WithBytesSent
<1>8. QED  BY <1>2, <1>6, <1>7

(* The fields of the span of the client after an end and a status.         *)
LEMMA SpanExcept ==
  ASSUME NEW s \in ClientSpans, NEW r
  PROVE  /\ r = Ended(s) => r \in ClientSpans /\ ~r.open /\ r.status = s.status
         /\ \A v \in {"Unset", "Error"} : r = WithStatus(s, v) =>
              /\ r \in ClientSpans /\ r.open = s.open
              /\ r.status = IF s.open /\ s.status = "Unset" THEN v ELSE s.status
<1>1. s.open \in BOOLEAN /\ s.status \in {"Unset", "Error"}  BY DEF ClientSpans
<1>2. ASSUME r = Ended(s) PROVE r \in ClientSpans /\ ~r.open /\ r.status = s.status
  <2>1. \A b : [s EXCEPT !.open = b] = [open |-> b, status |-> s.status]
    BY DEF ClientSpans
  <2>2. r = [open |-> FALSE, status |-> s.status]
    BY <1>2, <2>1, Zenon DEF Ended
  <2>3. QED  BY <1>1, <2>2 DEF ClientSpans
<1>3. ASSUME NEW v \in {"Unset", "Error"}, r = WithStatus(s, v)
      PROVE  /\ r \in ClientSpans /\ r.open = s.open
             /\ r.status = IF s.open /\ s.status = "Unset" THEN v ELSE s.status
  <2>1. CASE s.open /\ s.status = "Unset"
    <3>1. r = [s EXCEPT !.status = v]  BY <1>3, <2>1 DEF WithStatus
    <3>2. r = [open |-> s.open, status |-> v]  BY <3>1 DEF ClientSpans
    <3>3. r \in ClientSpans /\ r.open = s.open /\ r.status = v
      BY <1>1, <3>2 DEF ClientSpans
    <3>4. QED  BY <2>1, <3>3
  <2>2. CASE ~(s.open /\ s.status = "Unset")
    <3>1. r = s  BY <1>3, <2>2 DEF WithStatus
    <3>2. QED  BY <2>2, <3>1
  <2>3. QED  BY <2>1, <2>2
<1>4. QED  BY <1>2, <1>3, Zenon

(* The invariant holds when the exchange begins.                           *)
LEMMA ExchangeStart == ExchangeInit => ExchangeIInv
<1> SUFFICES ASSUME ExchangeInit PROVE ExchangeIInv
  OBVIOUS
<1>1. wrapper \in Wrappers /\ sent \in Responses /\ clientSpan \in ClientSpans
  <2>1. /\ [wrote |-> FALSE, code |-> 200, size |-> 0] \in Wrappers
        /\ [code |-> 0, size |-> 0, bypassed |-> FALSE] \in Responses
        /\ [open |-> TRUE, status |-> "Unset"] \in ClientSpans
    BY DEF Wrappers, Responses, ClientSpans, StatusCodes
  <2>2. QED  BY <2>1, Zenon DEF ExchangeInit
<1>2. reads \in Seq(Nat)
  <2>1. <<>> \in Seq(Nat) /\ <<0>> \in Seq(Nat)  OBVIOUS
  <2>2. QED  BY <2>1 DEF ExchangeInit
<1>3. ExchangeTypeOK /\ LastIsLast
  BY <1>1, <1>2 DEF ExchangeInit, ExchangeTypeOK, LastIsLast
<1>4. WrapperFollows /\ ServedIs /\ SentOnReturn /\ MeasuredIs /\ SpanTrue
  BY DEF ExchangeInit, WrapperFollows, ServedIs, SentOnReturn, MeasuredIs, SpanTrue
<1>5. QED  BY <1>3, <1>4 DEF ExchangeIInv

(* While the handler runs the wrapper follows the response.                *)
InStep(w, s) ==
  /\ w.size <= s.size
  /\ ~s.bypassed => /\ w.size = s.size
                    /\ w.wrote => s.code = w.code
                    /\ ~w.wrote => w.code = 200 /\ s.code = 0

(* The first status that is not informational is the one that is sent.     *)
LEMMA StaysInStep ==
  ASSUME NEW w \in Wrappers, NEW v \in Wrappers, NEW s \in Responses, NEW r \in Responses,
         NEW code \in StatusCodes, NEW n \in Nat, InStep(w, s),
         v.size = w.size + n, r.size = s.size + n, r.bypassed = s.bypassed,
         w.wrote \/ Informational(code) => v.wrote = w.wrote /\ v.code = w.code,
         ~(w.wrote \/ Informational(code)) => v.wrote /\ v.code = code,
         s.code # 0 \/ Informational(code) => r.code = s.code,
         ~(s.code # 0 \/ Informational(code)) => r.code = code
  PROVE  InStep(v, r) /\ (s.code # 0 => r.code = s.code)
<1>1. /\ w.size \in Nat /\ s.size \in Nat /\ w.code # 0 /\ w.wrote \in BOOLEAN
      /\ s.bypassed \in BOOLEAN
  <2>1. \A c \in StatusCodes : c # 0  BY DEF StatusCodes
  <2>2. QED  BY <2>1 DEF Wrappers, Responses
<1>2. v.size <= r.size  BY <1>1 DEF InStep
<1>3. ASSUME ~r.bypassed
      PROVE  /\ v.size = r.size
             /\ v.wrote => r.code = v.code
             /\ ~v.wrote => v.code = 200 /\ r.code = 0
  <2>1. ~s.bypassed  BY <1>3
  <2>2. v.size = r.size  BY <1>1, <2>1 DEF InStep
  <2>3. CASE w.wrote
    <3>1. s.code = w.code /\ s.code # 0  BY <1>1, <2>1, <2>3 DEF InStep
    <3>2. QED  BY <2>2, <2>3, <3>1
  <2>4. CASE ~w.wrote
    <3>1. w.code = 200 /\ s.code = 0  BY <2>1, <2>4 DEF InStep
    <3>2. CASE Informational(code)  BY <2>2, <2>4, <3>1, <3>2
    <3>3. CASE ~Informational(code)  BY <2>2, <2>4, <3>1, <3>3
    <3>4. QED  BY <3>2, <3>3
  <2>5. QED  BY <2>3, <2>4
<1>4. QED  BY <1>2, <1>3 DEF InStep

(* A call of the handler that keeps them in step leaves the rest alone.    *)
LEMMA HandlerCall ==
  ASSUME ExchangeIInv, Handling, taken' \in Nat,
         NEW w \in Wrappers, wrapper' = w, NEW s \in Responses, sent' = s,
         InStep(w, s) \/ (s.bypassed /\ w.size <= s.size),
         sent.code # 0 => s.code = sent.code
  PROVE  ExchangeIInv'
<1>1. ServedIs' /\ SentOnReturn' /\ LastIsLast' /\ MeasuredIs' /\ SpanTrue'
  BY DEF ExchangeIInv, Handling, clientVars, ServedIs, SentOnReturn, LastIsLast, MeasuredIs,
         SpanTrue
<1>2. WrapperFollows'  BY DEF WrapperFollows, InStep
<1>3. ExchangeTypeOK'  BY DEF ExchangeIInv, ExchangeTypeOK, Handling, clientVars
<1>4. QED  BY <1>1, <1>2, <1>3 DEF ExchangeIInv

(* A header the wrapper is given, by cases.                                *)
LEMMA HeaderIs ==
  ASSUME wrapper \in Wrappers, NEW code \in StatusCodes
  PROVE  /\ Header(code) \in Wrappers /\ Header(code).size = wrapper.size
         /\ wrapper.wrote \/ Informational(code) =>
              Header(code).wrote = wrapper.wrote /\ Header(code).code = wrapper.code
         /\ ~(wrapper.wrote \/ Informational(code)) =>
              Header(code).wrote /\ Header(code).code = code
<1>1. CASE wrapper.wrote \/ Informational(code)
  <2>1. Header(code) = wrapper  BY <1>1 DEF Header
  <2>2. QED  BY <1>1, <2>1
<1>2. CASE ~(wrapper.wrote \/ Informational(code))
  <2>1. Header(code) = WithHeader(wrapper, code)
    BY <1>2, Zenon DEF Header, WithHeader
  <2>2. /\ WithHeader(wrapper, code) \in Wrappers /\ WithHeader(wrapper, code).wrote
        /\ WithHeader(wrapper, code).code = code
        /\ WithHeader(wrapper, code).size = wrapper.size
    BY HeaderWritten
  <2>3. QED  BY <1>2, <2>1, <2>2
<1>3. QED  BY <1>1, <1>2

(* What the handler calls keeps the invariant,                             *)
LEMMA HandlerCalls ==
  ASSUME ExchangeIInv,
         \/ \E code \in Codes : WriteHeader(code)
         \/ \E accepted \in {0, 1} : WriteByte(accepted)
         \/ FlushResponse \/ ReadFrom \/ ReadRequest
  PROVE  ExchangeIInv'
<1>0. /\ wrapper \in Wrappers /\ sent \in Responses /\ taken \in Nat /\ WrapperFollows
  BY DEF ExchangeIInv, ExchangeTypeOK
<1>1. /\ wrapper.size \in Nat /\ sent.size \in Nat
      /\ sent.code \in {0} \union StatusCodes
  BY <1>0 DEF Wrappers, Responses
<1>2. serving = "handling" => InStep(wrapper, sent)
  BY <1>0 DEF WrapperFollows, InStep
<1>3. ~Informational(200) /\ 200 \in StatusCodes
  BY DEF Informational, StatusCodes
<1>4. ImplicitlySent \in StatusCodes
  BY <1>1, <1>3 DEF ImplicitlySent
<1>5. PICK h : h = Header(200)  OBVIOUS
<1>6. /\ h \in Wrappers /\ h.size = wrapper.size
      /\ wrapper.wrote => h.wrote = wrapper.wrote /\ h.code = wrapper.code
      /\ ~wrapper.wrote => h.wrote /\ h.code = 200
  BY <1>0, <1>3, <1>5, HeaderIs
<1>7. /\ sent.code # 0 => ImplicitlySent = sent.code
      /\ ~(sent.code # 0) => ImplicitlySent = 200
  BY DEF ImplicitlySent
<1>8. ASSUME NEW n \in Nat, NEW w \in Wrappers, NEW s \in Responses,
             w.wrote = h.wrote, w.code = h.code, w.size = wrapper.size + n,
             s.code = ImplicitlySent, s.size = sent.size + n, s.bypassed = sent.bypassed,
             Handling
      PROVE  InStep(w, s) /\ (sent.code # 0 => s.code = sent.code)
  <2>1. InStep(wrapper, sent)  BY <1>2, <1>8 DEF Handling
  <2>2. /\ wrapper.wrote \/ Informational(200) => w.wrote = wrapper.wrote /\ w.code = wrapper.code
        /\ ~(wrapper.wrote \/ Informational(200)) => w.wrote /\ w.code = 200
    BY <1>3, <1>6, <1>8
  <2>3. /\ sent.code # 0 \/ Informational(200) => s.code = sent.code
        /\ ~(sent.code # 0 \/ Informational(200)) => s.code = 200
    BY <1>3, <1>7, <1>8
  <2>4. QED  BY <1>0, <1>3, <1>8, <2>1, <2>2, <2>3, StaysInStep
<1>10. CASE \E code \in Codes : WriteHeader(code)
  <2>1. PICK code \in StatusCodes : WriteHeader(code)  BY <1>10, ExchangeAssumption
  <2>2. PICK w : w = Header(code)  OBVIOUS
  <2>3. /\ w \in Wrappers /\ w.size = wrapper.size
        /\ wrapper.wrote \/ Informational(code) =>
             w.wrote = wrapper.wrote /\ w.code = wrapper.code
        /\ ~(wrapper.wrote \/ Informational(code)) => w.wrote /\ w.code = code
    BY <1>0, <2>2, HeaderIs
  <2>4. PICK s : s = WithStatusSent(sent, StatusSent(code))  OBVIOUS
  <2>5. StatusSent(code) \in {0} \union StatusCodes  BY <1>1 DEF StatusSent
  <2>6. /\ s \in Responses /\ s.code = StatusSent(code) /\ s.size = sent.size
        /\ s.bypassed = sent.bypassed
    BY <1>0, <2>4, <2>5, StatusWritten
  <2>7. /\ sent.code # 0 \/ Informational(code) => s.code = sent.code
        /\ ~(sent.code # 0 \/ Informational(code)) => s.code = code
    BY <2>6 DEF StatusSent
  <2>8. sent' = s  BY <2>1, <2>4, Zenon DEF WriteHeader, WithStatusSent
  <2>9. Handling /\ wrapper' = w /\ taken' \in Nat /\ serving = "handling"
    BY <1>0, <2>1, <2>2 DEF WriteHeader, Handling
  <2>10. /\ w.size = wrapper.size + 0 /\ s.size = sent.size + 0
         /\ InStep(wrapper, sent)
    BY <1>1, <1>2, <2>3, <2>6, <2>9
  <2>11. InStep(w, s) /\ (sent.code # 0 => s.code = sent.code)
    BY <1>0, <2>3, <2>6, <2>7, <2>10, StaysInStep
  <2>12. QED  BY <2>3, <2>6, <2>8, <2>9, <2>11, HandlerCall
<1>11. CASE \E accepted \in {0, 1} : WriteByte(accepted)
  <2>1. PICK accepted \in {0, 1} : WriteByte(accepted)  BY <1>11
  <2>2. wrapper.size + accepted \in Nat /\ sent.size + accepted \in Nat /\ accepted \in Nat
    BY <1>1
  <2>3. PICK w : w = WithBytes(h, wrapper.size + accepted)  OBVIOUS
  <2>4. /\ w \in Wrappers /\ w.wrote = h.wrote /\ w.code = h.code
        /\ w.size = wrapper.size + accepted
    BY <1>6, <2>2, <2>3, BytesWritten
  <2>5. PICK s : s = WithBytesSent(sent, ImplicitlySent, sent.size + accepted)  OBVIOUS
  <2>6. /\ s \in Responses /\ s.code = ImplicitlySent /\ s.size = sent.size + accepted
        /\ s.bypassed = sent.bypassed
    <3>1. PICK n \in Nat : n = sent.size + accepted  BY <2>2
    <3>2. ImplicitlySent \in {0} \union StatusCodes  BY <1>4
    <3>3. s = WithBytesSent(sent, ImplicitlySent, n)  BY <2>5, <3>1
    <3>4. QED  BY <1>0, <3>1, <3>2, <3>3, ByteWritten
  <2>7. wrapper' = w
    <3>1. wrapper' = [h EXCEPT !.size = h.size + accepted]
      BY <1>5, <2>1, Zenon DEF WriteByte
    <3>2. QED  BY <1>6, <2>3, <3>1 DEF WithBytes
  <2>8. sent' = s  BY <2>1, <2>5, Zenon DEF WriteByte, WithBytesSent
  <2>9. Handling /\ taken' \in Nat  BY <1>0, <2>1 DEF WriteByte
  <2>10. InStep(w, s) /\ (sent.code # 0 => s.code = sent.code)
    BY <1>8, <2>2, <2>4, <2>6, <2>9
  <2>11. QED  BY <2>4, <2>6, <2>7, <2>8, <2>9, <2>10, HandlerCall
<1>12. CASE FlushResponse
  <2>1. PICK s : s = WithStatusSent(sent, ImplicitlySent)  OBVIOUS
  <2>2. /\ s \in Responses /\ s.code = ImplicitlySent /\ s.size = sent.size
        /\ s.bypassed = sent.bypassed
    BY <1>0, <1>4, <2>1, StatusWritten
  <2>3. sent' = s  BY <1>12, <2>1, Zenon DEF FlushResponse, WithStatusSent
  <2>4. wrapper' = h /\ Handling /\ taken' \in Nat
    BY <1>0, <1>5, <1>12 DEF FlushResponse
  <2>5. h.size = wrapper.size + 0 /\ s.size = sent.size + 0
    BY <1>1, <1>6, <2>2
  <2>6. InStep(h, s) /\ (sent.code # 0 => s.code = sent.code)
    BY <1>6, <1>8, <2>2, <2>4, <2>5
  <2>7. QED  BY <1>6, <2>2, <2>3, <2>4, <2>6, HandlerCall
<1>13. CASE ReadFrom
  <2>1. PICK s : s = [code |-> ImplicitlySent, size |-> sent.size + 1, bypassed |-> TRUE]
    OBVIOUS
  <2>2. s \in Responses /\ s.code = ImplicitlySent /\ s.size = sent.size + 1 /\ s.bypassed
    BY <1>1, <1>4, <2>1 DEF Responses
  <2>3. Handling /\ wrapper' = wrapper /\ sent' = s /\ taken' \in Nat
    BY <1>0, <1>13, <2>1 DEF ReadFrom
  <2>4. wrapper.size <= s.size /\ (sent.code # 0 => s.code = sent.code)
    BY <1>0, <1>1, <1>7, <2>2 DEF WrapperFollows
  <2>5. QED  BY <1>0, <2>2, <2>3, <2>4, HandlerCall
<1>14. CASE ReadRequest
  <2>1. Handling /\ wrapper' = wrapper /\ sent' = sent /\ taken' \in Nat
    BY <1>0, <1>14 DEF ReadRequest
  <2>2. InStep(wrapper, sent)  BY <1>2, <2>1 DEF Handling
  <2>3. QED  BY <1>0, <2>1, <2>2, HandlerCall
<1>15. QED  BY <1>10, <1>11, <1>12, <1>13, <1>14

(* The handler begins and ends.                                            *)
LEMMA HandlerEnds ==
  ASSUME ExchangeIInv, ServeHTTP \/ HandlerReturns \/ HandlerPanics
  PROVE  ExchangeIInv'
<1>0. /\ ExchangeTypeOK /\ WrapperFollows /\ ServedIs /\ SentOnReturn /\ LastIsLast
      /\ MeasuredIs /\ SpanTrue
  BY DEF ExchangeIInv
<1>1. UNCHANGED <<wrapper, taken, clientVars>>
  BY DEF ServeHTTP, HandlerReturns, HandlerPanics
<1>2. LastIsLast' /\ SpanTrue'
  BY <1>0, <1>1 DEF clientVars, LastIsLast, SpanTrue
<1>3. CASE ServeHTTP \/ HandlerPanics
  <2>1. /\ UNCHANGED <<sent, served>> /\ serving # "returned" /\ serving' # "returned"
        /\ serving' \in {"handling", "panicked"}
        /\ serving' = "handling" => serving = "no"
    BY <1>3 DEF ServeHTTP, HandlerPanics
  <2>2. ExchangeTypeOK' /\ MeasuredIs'
    BY <1>0, <1>1, <2>1 DEF clientVars, ExchangeTypeOK, MeasuredIs
  <2>3. ServedIs' /\ SentOnReturn'
    BY <1>0, <2>1 DEF ServedIs, SentOnReturn
  <2>4. WrapperFollows'
    BY <1>0, <1>1, <2>1 DEF WrapperFollows
  <2>5. QED  BY <1>2, <2>2, <2>3, <2>4 DEF ExchangeIInv
<1>4. CASE HandlerReturns
  <2>1. PICK s : s = WithStatusSent(sent, ImplicitlySent)  OBVIOUS
  <2>2. sent' = s  BY <1>4, <2>1, Zenon DEF HandlerReturns, WithStatusSent
  <2>3. ImplicitlySent \in StatusCodes /\ ImplicitlySent # 0
    <3>1. sent.code \in {0} \union StatusCodes  BY <1>0 DEF ExchangeTypeOK, Responses
    <3>2. 200 \in StatusCodes /\ \A c \in StatusCodes : c # 0  BY DEF StatusCodes
    <3>3. QED  BY <3>1, <3>2 DEF ImplicitlySent
  <2>4. /\ s \in Responses /\ s.code = ImplicitlySent /\ s.size = sent.size
        /\ s.bypassed = sent.bypassed
    BY <1>0, <2>1, <2>3, StatusWritten DEF ExchangeTypeOK
  <2>5. ExchangeTypeOK'
    BY <1>0, <1>1, <1>4, <2>2, <2>4 DEF HandlerReturns, clientVars, ExchangeTypeOK
  <2>6. MeasuredIs'
    BY <1>0, <1>1, <2>2, <2>4 DEF clientVars, MeasuredIs, ImplicitlySent
  <2>7. ServedIs' /\ SentOnReturn'
    BY <1>1, <1>4, <2>2, <2>3, <2>4 DEF HandlerReturns, ServedIs, SentOnReturn, ServerStatus
  <2>8. WrapperFollows'
    <3>1. sent.code # 0 => s.code = sent.code  BY <2>4 DEF ImplicitlySent
    <3>2. sent.code = 0 => s.code = 200  BY <2>4 DEF ImplicitlySent
    <3>3. wrapper.wrote \in BOOLEAN /\ wrapper.code # 0
      <4>1. \A c \in StatusCodes : c # 0  BY DEF StatusCodes
      <4>2. QED  BY <1>0, <4>1 DEF ExchangeTypeOK, Wrappers
    <3>4. /\ wrapper' = wrapper /\ serving = "handling" /\ serving' = "returned"
      BY <1>1, <1>4 DEF HandlerReturns
    <3>5. wrapper.size <= s.size  BY <1>0, <2>4 DEF WrapperFollows
    <3>6. ASSUME ~s.bypassed
          PROVE  /\ wrapper.size = s.size
                 /\ wrapper.wrote => s.code = wrapper.code
                 /\ ~wrapper.wrote => wrapper.code = 200 /\ s.code \in {0, 200}
      <4>1. ~sent.bypassed  BY <2>4, <3>6
      <4>2. wrapper.size = s.size  BY <1>0, <2>4, <4>1 DEF WrapperFollows
      <4>3. CASE wrapper.wrote
        <5>1. sent.code = wrapper.code  BY <1>0, <4>1, <4>3 DEF WrapperFollows
        <5>2. QED  BY <3>1, <3>3, <4>2, <4>3, <5>1
      <4>4. CASE ~wrapper.wrote
        <5>1. wrapper.code = 200 /\ sent.code = 0
          BY <1>0, <3>4, <4>1, <4>4 DEF WrapperFollows
        <5>2. QED  BY <3>2, <4>2, <4>4, <5>1
      <4>5. QED  BY <4>3, <4>4
    <3>7. QED  BY <2>2, <3>4, <3>5, <3>6 DEF WrapperFollows
  <2>9. QED  BY <1>2, <2>5, <2>6, <2>7, <2>8 DEF ExchangeIInv
<1>5. QED  BY <1>3, <1>4

(* The client leaves the server alone.                                     *)
LEMMA ClientKeeps ==
  ASSUME ExchangeIInv, UNCHANGED serverVars
  PROVE  WrapperFollows' /\ ServedIs' /\ SentOnReturn'
BY DEF ExchangeIInv, serverVars, WrapperFollows, ServedIs, SentOnReturn, ServerStatus

(* and so does what the transport and its bodies do.                       *)
LEMMA ClientStep ==
  ASSUME ExchangeIInv,
         \/ RoundTrip \/ ReadBody \/ \E ok \in BOOLEAN : GetBody(ok)
         \/ TripFails \/ TripReturns \/ BodyError \/ BodyOver
  PROVE  ExchangeIInv'
<1>0. ExchangeTypeOK /\ LastIsLast /\ MeasuredIs /\ SpanTrue  BY DEF ExchangeIInv
<1>1. UNCHANGED serverVars
  BY DEF RoundTrip, ReadBody, GetBody, TripFails, TripReturns, UsesResponse, BodyError,
         BodyOver, serverVars
<1>2. UNCHANGED <<wrapper, sent, serving, taken>>  BY <1>1 DEF serverVars
<1>3. ASSUME NEW code, measured' = Measured(code), sized' = SizeOfLastTry
      PROVE  measured' # <<>> /\ measured'[1].code = code /\ measured'[1].size = sized'
  <2>1. (IF lastBW = 0 THEN 0 ELSE reads[lastBW]) = SizeOfLastTry
    BY <1>0 DEF LastIsLast, SizeOfLastTry, ExchangeTypeOK
  <2>2. QED  BY <1>3, <2>1 DEF Measured
<1>4. ExchangeTypeOK' /\ LastIsLast' /\ MeasuredIs' /\ SpanTrue'
  <2>1. CASE RoundTrip
    BY <1>0, <1>2, <2>1 DEF RoundTrip, ExchangeTypeOK, LastIsLast, MeasuredIs, SpanTrue
  <2>2. CASE ReadBody
    <3>1. reads' \in Seq(Nat) /\ Len(reads') = Len(reads)
      BY <1>0, <2>2 DEF ReadBody, ExchangeTypeOK
    <3>2. QED
      BY <1>0, <1>2, <2>2, <3>1
         DEF ReadBody, ExchangeTypeOK, LastIsLast, MeasuredIs, SpanTrue
  <2>3. CASE \E ok \in BOOLEAN : GetBody(ok)
    <3>1. CASE GetBody(TRUE)
      <4>1. reads' \in Seq(Nat) /\ Len(reads') = Len(reads) + 1
        BY <1>0, <3>1 DEF GetBody, ExchangeTypeOK
      <4>2. QED
        BY <1>0, <1>2, <3>1, <4>1
           DEF GetBody, Again, ExchangeTypeOK, LastIsLast, MeasuredIs, SpanTrue
    <3>2. CASE GetBody(FALSE)
      BY <1>0, <1>2, <3>2
         DEF GetBody, Again, ExchangeTypeOK, LastIsLast, MeasuredIs, SpanTrue
    <3>3. QED  BY <2>3, <3>1, <3>2, Zenon
  <2>4. CASE TripFails
    <3>1. PICK u : u = WithStatus(clientSpan, "Error")  OBVIOUS
    <3>2. /\ u \in ClientSpans
          /\ u.status = IF clientSpan.open /\ clientSpan.status = "Unset" THEN "Error"
                        ELSE clientSpan.status
      BY <1>0, <3>1, SpanExcept DEF ExchangeTypeOK
    <3>3. u.status = "Error"  BY <1>0, <2>4, <3>2 DEF TripFails, SpanTrue
    <3>4. PICK v : v = Ended(u)  OBVIOUS
    <3>5. v \in ClientSpans /\ ~v.open /\ v.status = "Error"
      BY <3>2, <3>3, <3>4, SpanExcept
    <3>6. clientSpan' = v  BY <2>4, <3>1, <3>4 DEF TripFails
    <3>7. measured' # <<>> /\ measured'[1].size = sized'
      BY <1>3, <2>4 DEF TripFails
    <3>8. trip' = "failed" /\ trouble' /\ UNCHANGED <<reads, lastBW, refused>>
      BY <2>4 DEF TripFails
    <3>9. QED
      BY <1>0, <1>2, <2>4, <3>5, <3>6, <3>7, <3>8
         DEF TripFails, ExchangeTypeOK, LastIsLast, MeasuredIs, SpanTrue
  <2>5. CASE TripReturns
    <3>1. PICK status \in {"Unset", "Error"} : status = ClientStatus(sent.code)
      BY DEF ClientStatus
    <3>2. PICK u : u = WithStatus(clientSpan, status)  OBVIOUS
    <3>3. /\ u \in ClientSpans
          /\ u.status = IF clientSpan.open /\ clientSpan.status = "Unset" THEN status
                        ELSE clientSpan.status
      BY <1>0, <3>2, SpanExcept DEF ExchangeTypeOK
    <3>4. u.status = status  BY <1>0, <2>5, <3>3 DEF TripReturns, SpanTrue
    <3>5. /\ clientSpan' = u /\ trouble' = (status = "Error") /\ trip' = "returned"
          /\ UNCHANGED <<reads, lastBW, refused>> /\ sent.code # 0
      BY <2>5, <3>1, <3>2 DEF TripReturns
    <3>6. /\ measured' # <<>> /\ measured'[1].size = sized'
          /\ measured'[1].code = sent.code
      BY <1>3, <2>5 DEF TripReturns
    <3>7. SpanTrue'  BY <3>4, <3>5 DEF SpanTrue
    <3>8. LastIsLast' /\ MeasuredIs'
      BY <1>0, <1>2, <3>5, <3>6 DEF LastIsLast, MeasuredIs
    <3>9. ExchangeTypeOK'
      BY <1>0, <1>2, <3>3, <3>5 DEF ExchangeTypeOK
    <3>10. QED  BY <3>7, <3>8, <3>9
  <2>6. CASE BodyError
    <3>1. PICK u : u = WithStatus(clientSpan, "Error")  OBVIOUS
    <3>2. /\ u \in ClientSpans
          /\ u.status = IF clientSpan.open /\ clientSpan.status = "Unset" THEN "Error"
                        ELSE clientSpan.status
      BY <1>0, <3>1, SpanExcept DEF ExchangeTypeOK
    <3>3. /\ clientSpan.open \in BOOLEAN /\ clientSpan.status \in {"Unset", "Error"}
          /\ trouble \in BOOLEAN
      BY <1>0 DEF ExchangeTypeOK, ClientSpans
    <3>4. /\ clientSpan' = u /\ trip = "returned" /\ trip' = "returned"
          /\ UNCHANGED <<reads, lastBW, refused, measured, sized>>
      BY <2>6, <3>1 DEF BodyError, UsesResponse
    <3>5. clientSpan.status = "Error" <=> trouble  BY <1>0, <3>4 DEF SpanTrue
    <3>6. trouble' \in BOOLEAN /\ (trouble' <=> trouble \/ clientSpan.open)
      BY <2>6, Zenon DEF BodyError
    <3>7. u.status = "Error" <=> trouble'
      BY <3>2, <3>3, <3>5, <3>6
    <3>8. SpanTrue'  BY <3>4, <3>7 DEF SpanTrue
    <3>9. LastIsLast' /\ MeasuredIs'
      BY <1>0, <1>2, <3>4 DEF LastIsLast, MeasuredIs
    <3>10. ExchangeTypeOK'
      BY <1>0, <1>2, <3>2, <3>4, <3>6 DEF ExchangeTypeOK
    <3>11. QED  BY <3>8, <3>9, <3>10
  <2>7. CASE BodyOver
    <3>1. PICK u : u = Ended(clientSpan)  OBVIOUS
    <3>2. u \in ClientSpans /\ ~u.open /\ u.status = clientSpan.status
      BY <1>0, <3>1, SpanExcept DEF ExchangeTypeOK
    <3>3. /\ clientSpan' = u /\ trip = "returned" /\ trip' = "returned"
          /\ UNCHANGED <<reads, lastBW, refused, measured, sized, trouble>>
      BY <2>7, <3>1 DEF BodyOver, UsesResponse
    <3>4. SpanTrue'  BY <1>0, <3>2, <3>3 DEF SpanTrue
    <3>5. LastIsLast' /\ MeasuredIs' /\ ExchangeTypeOK'
      BY <1>0, <1>2, <3>2, <3>3 DEF LastIsLast, MeasuredIs, ExchangeTypeOK
    <3>6. QED  BY <3>4, <3>5
  <2>8. QED  BY <2>1, <2>2, <2>3, <2>4, <2>5, <2>6, <2>7
<1>5. QED  BY <1>1, <1>4, ClientKeeps DEF ExchangeIInv

(* No step breaks the invariant.                                           *)
LEMMA ExchangeStep == ExchangeIInv /\ [ExchangeNext]_exchangeVars => ExchangeIInv'
<1> SUFFICES ASSUME ExchangeIInv, [ExchangeNext]_exchangeVars PROVE ExchangeIInv'
  OBVIOUS
<1>1. CASE ExchangeOver \/ UNCHANGED exchangeVars
  <2>1. /\ UNCHANGED serverVars
        /\ UNCHANGED <<trip, reads, lastBW, refused, clientSpan, measured, trouble, sized>>
    BY <1>1 DEF ExchangeOver, exchangeVars, clientVars
  <2>2. UNCHANGED <<wrapper, sent, serving, taken>>  BY <2>1 DEF serverVars
  <2>3. ExchangeTypeOK' /\ LastIsLast' /\ MeasuredIs' /\ SpanTrue'
    BY <2>1, <2>2 DEF ExchangeIInv, ExchangeTypeOK, LastIsLast, MeasuredIs, SpanTrue
  <2>4. QED  BY <2>1, <2>3, ClientKeeps DEF ExchangeIInv
<1>2. QED
  BY <1>1, HandlerCalls, HandlerEnds, ClientStep DEF ExchangeNext

(* What is reported follows from the invariant.                            *)
LEMMA ReportsFollow == ExchangeIInv => ExchangeReported
<1> SUFFICES ASSUME ExchangeIInv PROVE ExchangeReported
  OBVIOUS
<1>0. /\ ExchangeTypeOK /\ WrapperFollows /\ ServedIs /\ SentOnReturn /\ MeasuredIs /\ SpanTrue
  BY DEF ExchangeIInv
<1>1. ASSUME served # <<>>
      PROVE  /\ served[1].size <= sent.size /\ served[1].read = taken
             /\ ~sent.bypassed =>
                  /\ served[1].code = sent.code /\ served[1].size = sent.size
                  /\ served[1].status = "Error" <=> sent.code >= 500
                  /\ trip = "returned" => measured[1].code = served[1].code
  <2>1. /\ served[1].code = wrapper.code /\ served[1].size = wrapper.size
        /\ served[1].read = taken /\ served[1].status = ServerStatus(wrapper.code)
        /\ serving = "returned"
    BY <1>0, <1>1 DEF ServedIs
  <2>2. served[1].size <= sent.size  BY <1>0, <2>1 DEF WrapperFollows
  <2>3. ASSUME ~sent.bypassed
        PROVE  served[1].code = sent.code /\ served[1].size = sent.size
    <3>1. sent.code # 0  BY <1>0, <2>1 DEF SentOnReturn
    <3>2. CASE wrapper.wrote
      BY <1>0, <2>1, <2>3, <3>2 DEF WrapperFollows
    <3>3. CASE ~wrapper.wrote
      BY <1>0, <2>1, <2>3, <3>1, <3>3 DEF WrapperFollows
    <3>4. QED  BY <3>2, <3>3
  <2>4. ASSUME ~sent.bypassed
        PROVE  served[1].status = "Error" <=> sent.code >= 500
    <3>1. wrapper.code = sent.code  BY <2>1, <2>3, <2>4
    <3>2. wrapper.code \in StatusCodes  BY <1>0 DEF ExchangeTypeOK, Wrappers
    <3>3. \A c \in StatusCodes : ServerStatus(c) = "Error" <=> c >= 500
      BY DEF StatusCodes, ServerStatus
    <3>4. QED  BY <2>1, <3>1, <3>2, <3>3
  <2>5. ~sent.bypassed /\ trip = "returned" => measured[1].code = served[1].code
    BY <1>0, <2>3 DEF MeasuredIs
  <2>6. QED  BY <2>1, <2>2, <2>3, <2>4, <2>5
<1>2. measured # <<>> => measured[1].size = sized  BY <1>0 DEF MeasuredIs
<1>3. QED  BY <1>0, <1>1, <1>2 DEF ExchangeReported, SpanTrue

(* In every exchange both ends report what was really sent: see            *)
(* ExchangeReported.                                                       *)
THEOREM ExchangeIsReported == ExchangeSpec => []ExchangeReported
<1>1. ExchangeSpec => []ExchangeIInv
  BY ExchangeStart, ExchangeStep, PTL DEF ExchangeSpec
<1>2. QED  BY <1>1, ReportsFollow, PTL

-----------------------------------------------------------------------------
(* The ring of log records.                                                *)

USE RingAssumption

-----------------------------------------------------------------------------
(* Arithmetic on the circle.                                               *)

(* The element that r.Next(), applied i times to p, leads to.              *)
Slot(p, i) == (p + i) % Capacity

(* Within two turns the remainder is a subtraction.                        *)
LEMMA Remainder ==
  ASSUME NEW a \in Int, 0 <= a, a < Capacity + Capacity
  PROVE  a % Capacity = IF a < Capacity THEN a ELSE a - Capacity
OBVIOUS

LEMMA Wrap ==
  ASSUME NEW p \in Slots, NEW i \in 0..Capacity
  PROVE  /\ Slot(p, i) \in Slots
         /\ Slot(p, i) = IF p + i < Capacity THEN p + i ELSE (p + i) - Capacity
<1>1. p + i \in Int /\ 0 <= p + i /\ p + i < Capacity + Capacity  BY DEF Slots
<1>2. (p + i) % Capacity = IF p + i < Capacity THEN p + i ELSE (p + i) - Capacity
  <2> DEFINE a == p + i
  <2>1. a \in Int /\ 0 <= a /\ a < Capacity + Capacity  BY <1>1
  <2> HIDE DEF a
  <2>2. a % Capacity = IF a < Capacity THEN a ELSE a - Capacity  BY <2>1, Remainder
  <2>3. QED  BY <2>2 DEF a
<1>3. QED  BY <1>1, <1>2 DEF Slots, Slot

(* i elements after k elements after p are i + k elements after p.         *)
LEMMA Turn ==
  ASSUME NEW p \in Slots, NEW k \in 0..Capacity, NEW i \in 0..Capacity - k
  PROVE  Slot(Slot(p, k), i) = Slot(p, k + i)
<1>1. /\ k + i \in 0..Capacity /\ i \in 0..Capacity
      /\ k \in Nat /\ i \in Nat /\ p \in Nat /\ p < Capacity
  BY DEF Slots
<1>2. /\ Slot(p, k) \in Slots
      /\ Slot(p, k) = IF p + k < Capacity THEN p + k ELSE (p + k) - Capacity
  BY Wrap
<1>3. Slot(p, k + i) = IF p + (k + i) < Capacity THEN p + (k + i) ELSE p + (k + i) - Capacity
  BY <1>1, Wrap
<1>4. Slot(Slot(p, k), i) = IF Slot(p, k) + i < Capacity THEN Slot(p, k) + i
                            ELSE (Slot(p, k) + i) - Capacity
  BY <1>1, <1>2, Wrap
<1>5. QED  BY <1>1, <1>2, <1>3, <1>4

(* Each element of the ring is met once in a turn.                         *)
LEMMA OneTurn ==
  ASSUME NEW p \in Slots
  PROVE  /\ \A i, j \in 0..Capacity - 1 : Slot(p, i) = Slot(p, j) => i = j
         /\ \A q \in Slots : \E i \in 0..Capacity - 1 : Slot(p, i) = q
<1>1. ASSUME NEW i \in 0..Capacity - 1, NEW j \in 0..Capacity - 1, Slot(p, i) = Slot(p, j)
      PROVE  i = j
  <2>1. i \in 0..Capacity /\ j \in 0..Capacity  OBVIOUS
  <2>2. /\ Slot(p, i) = IF p + i < Capacity THEN p + i ELSE (p + i) - Capacity
        /\ Slot(p, j) = IF p + j < Capacity THEN p + j ELSE (p + j) - Capacity
    BY <2>1, Wrap
  <2>3. /\ p \in Int /\ i \in Int /\ j \in Int /\ Capacity \in Int
        /\ 0 <= i /\ i < Capacity /\ 0 <= j /\ j < Capacity
    BY DEF Slots
  <2>4. CASE p + i < Capacity
    <3>1. CASE p + j < Capacity
      <4>1. p + i = p + j  BY <1>1, <2>2, <2>4, <3>1
      <4>2. QED  BY <2>3, <4>1
    <3>2. CASE ~(p + j < Capacity)
      <4>1. p + i = (p + j) - Capacity  BY <1>1, <2>2, <2>4, <3>2
      <4>2. QED  BY <2>3, <4>1
    <3>3. QED  BY <3>1, <3>2
  <2>5. CASE ~(p + i < Capacity)
    <3>1. CASE p + j < Capacity
      <4>1. (p + i) - Capacity = p + j  BY <1>1, <2>2, <2>5, <3>1
      <4>2. QED  BY <2>3, <4>1
    <3>2. CASE ~(p + j < Capacity)
      <4>1. (p + i) - Capacity = (p + j) - Capacity  BY <1>1, <2>2, <2>5, <3>2
      <4>2. QED  BY <2>3, <4>1
    <3>3. QED  BY <3>1, <3>2
  <2>6. QED  BY <2>4, <2>5
<1>2. ASSUME NEW q \in Slots PROVE \E i \in 0..Capacity - 1 : Slot(p, i) = q
  <2>1. CASE p <= q
    <3>1. q - p \in 0..Capacity - 1 /\ Slot(p, q - p) = q  BY <2>1, Wrap DEF Slots
    <3>2. QED  BY <3>1
  <2>2. CASE ~(p <= q)
    <3>1. /\ q + Capacity - p \in 0..Capacity - 1
          /\ Slot(p, q + Capacity - p) = q
      BY <2>2, Wrap DEF Slots
    <3>2. QED  BY <3>1
  <2>3. QED  BY <2>1, <2>2
<1>3. QED  BY <1>1, <1>2

(* The elements of the ring that Used names, by their distance from read.  *)
LEMMA UsedSlots ==
  ASSUME NEW k \in 0..Capacity, NEW i \in 0..Capacity - 1, read \in Slots
  PROVE  Slot(read, i) \in Used(k) <=> i < k
<1>1. Used(k) = {Slot(read, j) : j \in 0..k - 1}  BY DEF Used, Slot
<1>2. CASE i < k
  <2>1. i \in 0..k - 1  BY <1>2
  <2>2. QED  BY <1>1, <1>2, <2>1
<1>3. CASE ~(i < k)
  <2>1. \A j \in 0..k - 1 : j \in 0..Capacity - 1 /\ j # i  BY <1>3
  <2>2. \A j \in 0..k - 1 : Slot(read, j) # Slot(read, i)  BY <2>1, OneTurn
  <2>3. QED  BY <1>1, <1>3, <2>2
<1>4. QED  BY <1>2, <1>3

(* The last clause of RingShape, by the distance from read.                *)
Filled == \A i \in 0..Capacity - 1 : value[Slot(read, i)] # NoRecord <=> i < size

LEMMA ShapeByDistance ==
  RingTypeOK =>
    ((\A p \in Slots : value[p] # NoRecord <=> p \in Used(size)) <=> Filled)
<1> SUFFICES ASSUME RingTypeOK
             PROVE  (\A p \in Slots : value[p] # NoRecord <=> p \in Used(size)) <=> Filled
  OBVIOUS
<1>1. read \in Slots /\ size \in 0..Capacity  BY DEF RingTypeOK
<1>2. \A i \in 0..Capacity - 1 : i \in 0..Capacity /\ Slot(read, i) \in Slots
  BY <1>1, Wrap
<1>3. ASSUME \A p \in Slots : value[p] # NoRecord <=> p \in Used(size) PROVE Filled
  BY <1>1, <1>2, <1>3, UsedSlots DEF Filled
<1>4. ASSUME Filled, NEW p \in Slots PROVE value[p] # NoRecord <=> p \in Used(size)
  <2>1. PICK i \in 0..Capacity - 1 : Slot(read, i) = p  BY <1>1, OneTurn
  <2>2. QED  BY <1>1, <1>4, <2>1, UsedSlots DEF Filled
<1>5. QED  BY <1>3, <1>4

(* The records held are the values from read on.                           *)
HeldFromRead ==
  /\ Held \in Seq(Records) /\ Len(Held) = size
  /\ \A i \in 1..size : Held[i] = value[Slot(read, i - 1)]

LEMMA HeldIs == RingShape => HeldFromRead
<1> SUFFICES ASSUME RingShape PROVE HeldFromRead
  OBVIOUS
<1>1. RingTypeOK /\ read \in Slots /\ size \in 0..Capacity  BY DEF RingShape, RingTypeOK
<1>2. Filled  BY <1>1, ShapeByDistance DEF RingShape
<1>3. ASSUME NEW i \in 1..size
      PROVE  /\ value[(read + i - 1) % Capacity] = value[Slot(read, i - 1)]
             /\ value[Slot(read, i - 1)] \in Records
  <2>1. read + i - 1 = read + (i - 1)  BY <1>1 DEF Slots
  <2>2. i - 1 \in 0..Capacity - 1 /\ i - 1 \in 0..Capacity /\ i - 1 < size  BY <1>1
  <2>3. Slot(read, i - 1) \in Slots  BY <1>1, <2>2, Wrap
  <2>4. value[Slot(read, i - 1)] # NoRecord  BY <1>2, <2>2 DEF Filled
  <2>5. QED  BY <1>1, <2>1, <2>3, <2>4 DEF RingTypeOK, Slot
<1>4. QED  BY <1>1, <1>3 DEF Held, HeldFromRead

-----------------------------------------------------------------------------
(* Enqueue into a ring with room.                                          *)
LEMMA EnqueueWithRoom ==
  ASSUME NEW r \in Records, RingShape, Enqueue(r), size # Capacity
  PROVE  RingShape' /\ Held' = Append(Held, r)
<1>1. /\ RingTypeOK /\ read \in Slots /\ size \in 0..Capacity - 1 /\ size \in 0..Capacity
      /\ write = Slot(read, size) /\ value \in [Slots -> Records \union {NoRecord}]
  BY DEF RingShape, RingTypeOK, Slot
<1>2. /\ value' = [value EXCEPT ![write] = r] /\ write' = Slot(write, 1)
      /\ size' = size + 1 /\ read' = read /\ closed' = closed
  BY DEF Enqueue, LenAfter, ReadAfter, Succ, Slot
<1>3. write \in Slots /\ write' \in Slots  BY <1>1, <1>2, Wrap
<1>4. write' = Slot(read, size + 1)
  <2>1. 1 \in 0..Capacity - size  BY <1>1
  <2>2. QED  BY <1>1, <1>2, <2>1, Turn
<1>5. RingTypeOK'
  BY <1>1, <1>2, <1>3 DEF RingTypeOK
<1>6. /\ value'[Slot(read, size)] = r
      /\ \A i \in 0..Capacity - 1 : i # size => value'[Slot(read, i)] = value[Slot(read, i)]
  <2>1. \A i \in 0..Capacity - 1 : i # size => Slot(read, i) # write  BY <1>1, OneTurn
  <2>2. \A i \in 0..Capacity - 1 : i \in 0..Capacity /\ Slot(read, i) \in Slots
    BY <1>1, Wrap
  <2>3. QED  BY <1>1, <1>2, <1>3, <2>1, <2>2
<1>7. Filled'
  <2>1. Filled  BY <1>1, ShapeByDistance DEF RingShape
  <2>2. r # NoRecord  OBVIOUS
  <2>3. QED  BY <1>1, <1>2, <1>6, <2>1, <2>2 DEF Filled
<1>8. RingShape'
  <2>1. (\A p \in Slots : value[p] # NoRecord <=> p \in Used(size))'
    BY <1>5, <1>7, ShapeByDistance, PTL
  <2>2. QED  BY <1>2, <1>4, <1>5, <2>1 DEF RingShape, Slot
<1>9. Held' = Append(Held, r)
  <2>1. /\ Held \in Seq(Records) /\ Len(Held) = size
        /\ \A i \in 1..size : Held[i] = value[Slot(read, i - 1)]
    BY HeldIs DEF HeldFromRead
  <2>2. /\ Held' \in Seq(Records) /\ Len(Held') = size + 1
        /\ \A i \in 1..size + 1 : Held'[i] = value'[Slot(read, i - 1)]
    <3>1. HeldFromRead'  BY <1>8, HeldIs, PTL
    <3>2. QED  BY <1>2, <3>1 DEF HeldFromRead
  <2>3. /\ Append(Held, r) \in Seq(Records) /\ Len(Append(Held, r)) = size + 1
        /\ Append(Held, r)[size + 1] = r
        /\ \A i \in 1..size : Append(Held, r)[i] = Held[i]
    BY <2>1, AppendProperties
  <2>4. ASSUME NEW i \in 1..size + 1 PROVE Held'[i] = Append(Held, r)[i]
    <3>1. CASE i = size + 1
      <4>1. i - 1 = size  BY <1>1, <3>1
      <4>2. QED  BY <1>6, <2>2, <2>3, <3>1, <4>1
    <3>2. CASE i # size + 1
      <4>1. i \in 1..size /\ i - 1 \in 0..Capacity - 1 /\ i - 1 # size  BY <1>1, <3>2
      <4>2. QED  BY <1>6, <2>1, <2>2, <2>3, <4>1
    <3>3. QED  BY <3>1, <3>2
  <2>5. QED  BY <2>2, <2>3, <2>4, SeqEqual
<1>10. QED  BY <1>8, <1>9

(* Enqueue into a full ring: read and write meet, and move on together.    *)
LEMMA EnqueueFull ==
  ASSUME NEW r \in Records, RingShape, Enqueue(r), size = Capacity
  PROVE  RingShape' /\ Held' = Append(Tail(Held), r)
<1>1. /\ RingTypeOK /\ read \in Slots /\ size \in 0..Capacity
      /\ value \in [Slots -> Records \union {NoRecord}]
  BY DEF RingShape, RingTypeOK
<1>2. write = read /\ Slot(read, Capacity) = read /\ 0 \in 0..Capacity /\ 1 \in 0..Capacity
  <2>1. write = Slot(read, Capacity)  BY DEF RingShape, Slot
  <2>2. Capacity \in 0..Capacity  OBVIOUS
  <2>3. Slot(read, Capacity) = IF read + Capacity < Capacity THEN read + Capacity
                               ELSE (read + Capacity) - Capacity
    BY <1>1, <2>2, Wrap
  <2>4. QED  BY <1>1, <2>1, <2>3 DEF Slots
<1>3. /\ value' = [value EXCEPT ![read] = r] /\ write' = Slot(read, 1)
      /\ size' = Capacity /\ read' = Slot(read, 1) /\ closed' = closed
  BY <1>2 DEF Enqueue, LenAfter, ReadAfter, Succ, Slot
<1>4. read' \in Slots /\ Slot(read', Capacity) = read'
  BY <1>1, <1>2, <1>3, Wrap DEF Slots
<1>5. RingTypeOK'  BY <1>1, <1>3, <1>4 DEF RingTypeOK
<1>6. \A i \in 0..Capacity - 1 : Slot(read', i) = Slot(read, 1 + i) /\ i \in 0..Capacity
  BY <1>1, <1>2, <1>3, Turn
<1>7. /\ value'[Slot(read', Capacity - 1)] = r
      /\ \A i \in 0..Capacity - 1 : i # Capacity - 1 =>
           value'[Slot(read', i)] = value[Slot(read, 1 + i)]
  <2>1. Slot(read', Capacity - 1) = read
    <3>1. Capacity - 1 \in 0..Capacity - 1 /\ 1 + (Capacity - 1) = Capacity  OBVIOUS
    <3>2. QED  BY <1>2, <1>6, <3>1
  <2>2. ASSUME NEW i \in 0..Capacity - 1, i # Capacity - 1
        PROVE  Slot(read, 1 + i) \in Slots /\ Slot(read, 1 + i) # read
    <3>1. 1 + i \in 0..Capacity - 1 /\ 1 + i \in 0..Capacity /\ 0 \in 0..Capacity - 1
      BY <2>2
    <3>2. Slot(read, 0) = read  BY <1>1, <1>2, Wrap DEF Slots
    <3>3. 1 + i # 0  BY <2>2
    <3>4. Slot(read, 1 + i) # Slot(read, 0)  BY <1>1, <3>1, <3>3, OneTurn
    <3>5. Slot(read, 1 + i) \in Slots  BY <1>1, <3>1, Wrap
    <3>6. QED  BY <3>2, <3>4, <3>5
  <2>3. QED  BY <1>1, <1>3, <1>6, <2>1, <2>2
<1>8. Filled  BY <1>1, ShapeByDistance DEF RingShape
<1>9. Filled'
  <2>1. ASSUME NEW i \in 0..Capacity - 1 PROVE value'[Slot(read', i)] # NoRecord
    <3>1. CASE i = Capacity - 1  BY <1>7, <3>1
    <3>2. CASE i # Capacity - 1
      <4>1. 1 + i \in 0..Capacity - 1 /\ 1 + i < size  BY <3>2
      <4>2. QED  BY <1>7, <1>8, <3>2, <4>1 DEF Filled
    <3>3. QED  BY <3>1, <3>2
  <2>2. \A i \in 0..Capacity - 1 : i < size'  BY <1>3
  <2>3. QED  BY <2>1, <2>2 DEF Filled
<1>10. RingShape'
  <2>1. (\A p \in Slots : value[p] # NoRecord <=> p \in Used(size))'
    BY <1>5, <1>9, ShapeByDistance, PTL
  <2>2. write' = Slot(read', size')  BY <1>3, <1>4
  <2>3. QED  BY <1>5, <2>1, <2>2 DEF RingShape, Slot
<1>11. Held' = Append(Tail(Held), r)
  <2>1. /\ Held \in Seq(Records) /\ Len(Held) = Capacity
        /\ \A i \in 1..Capacity : Held[i] = value[Slot(read, i - 1)]
    BY HeldIs DEF HeldFromRead
  <2>2. /\ Held' \in Seq(Records) /\ Len(Held') = Capacity
        /\ \A i \in 1..Capacity : Held'[i] = value'[Slot(read', i - 1)]
    <3>1. HeldFromRead'  BY <1>10, HeldIs, PTL
    <3>2. QED  BY <1>3, <3>1 DEF HeldFromRead
  <2> DEFINE t == Tail(Held)
  <2>3. Held # <<>>  BY <2>1
  <2>4. /\ t \in Seq(Records) /\ Len(t) = Capacity - 1
        /\ \A i \in 1..Capacity - 1 : t[i] = Held[i + 1]
    BY <2>1, <2>3, HeadTailProperties
  <2> HIDE DEF t
  <2>5. /\ Append(t, r) \in Seq(Records) /\ Len(Append(t, r)) = Capacity
        /\ Append(t, r)[Capacity] = r
        /\ \A i \in 1..Capacity - 1 : Append(t, r)[i] = t[i]
    <3>1. (Capacity - 1) + 1 = Capacity  OBVIOUS
    <3>2. QED  BY <2>4, <3>1, AppendProperties
  <2>6. ASSUME NEW i \in 1..Capacity PROVE Held'[i] = Append(t, r)[i]
    <3>1. CASE i = Capacity  BY <1>7, <2>2, <2>5, <3>1
    <3>2. CASE i # Capacity
      <4>1. /\ i \in 1..Capacity - 1 /\ i + 1 \in 1..Capacity
            /\ i - 1 \in 0..Capacity - 1 /\ i - 1 # Capacity - 1
            /\ 1 + (i - 1) = (i + 1) - 1
        BY <3>2
      <4>2. Held'[i] = value[Slot(read, 1 + (i - 1))]  BY <1>7, <2>2, <4>1
      <4>3. Append(t, r)[i] = value[Slot(read, (i + 1) - 1)]
        BY <2>1, <2>4, <2>5, <4>1
      <4>4. QED  BY <4>1, <4>2, <4>3
    <3>3. QED  BY <3>1, <3>2
  <2>7. QED  BY <2>2, <2>5, <2>6, SeqEqual DEF t
<1>12. QED  BY <1>10, <1>11

(* Dequeue and Flush: what is left begins k elements further on.           *)
LEMMA TakeOldest ==
  ASSUME NEW k \in 0..Capacity, RingShape, Take(k), k <= size
  PROVE  RingShape' /\ Held' = SubSeq(Held, k + 1, Len(Held))
<1>1. /\ RingTypeOK /\ read \in Slots /\ size \in 0..Capacity
      /\ write = Slot(read, size) /\ value \in [Slots -> Records \union {NoRecord}]
  BY DEF RingShape, RingTypeOK, Slot
<1>2. /\ value' = Cleared(k) /\ read' = Slot(read, k) /\ size' = size - k
      /\ write' = write /\ closed' = closed
  BY DEF Take, Slot
<1>3. read' \in Slots  BY <1>1, <1>2, Wrap
<1>4. size' \in 0..Capacity /\ size - k \in 0..Capacity - k /\ k + (size - k) = size
  BY <1>1, <1>2
<1>5. RingTypeOK'
  <2>1. value' \in [Slots -> Records \union {NoRecord}]  BY <1>1, <1>2 DEF Cleared
  <2>2. QED  BY <1>1, <1>2, <1>3, <1>4, <2>1 DEF RingTypeOK
<1>6. write' = Slot(read', size')  BY <1>1, <1>2, <1>4, Turn
<1>7. ASSUME NEW i \in 0..Capacity - 1
      PROVE  value'[Slot(read, i)] = IF i < k THEN NoRecord ELSE value[Slot(read, i)]
  <2>1. Slot(read, i) \in Slots  BY <1>1, Wrap
  <2>2. Slot(read, i) \in Used(k) <=> i < k  BY <1>1, UsedSlots
  <2>3. QED  BY <1>2, <2>1, <2>2 DEF Cleared
<1>8. Filled  BY <1>1, ShapeByDistance DEF RingShape
<1>9. \A i \in 0..Capacity - k : Slot(read', i) = Slot(read, k + i)
  BY <1>1, <1>2, Turn
<1>10. Filled'
  <2>1. ASSUME NEW i \in 0..Capacity - 1 PROVE value'[Slot(read', i)] # NoRecord <=> i < size'
    <3>1. CASE k + i < Capacity
      <4>1. i \in 0..Capacity - k /\ k + i \in 0..Capacity - 1 /\ ~(k + i < k)  BY <3>1
      <4>2. value'[Slot(read', i)] = value[Slot(read, k + i)]  BY <1>7, <1>9, <4>1
      <4>3. k + i < size <=> i < size - k  BY <1>1
      <4>4. QED  BY <1>2, <1>8, <4>1, <4>2, <4>3 DEF Filled
    <3>2. CASE ~(k + i < Capacity)
      <4> DEFINE j == k + i - Capacity
      <4>1. j \in 0..Capacity - 1 /\ j < k  BY <3>2
      <4>2. Slot(read', i) = Slot(read, j)
        <5>1. j \in 0..Capacity /\ i \in 0..Capacity  BY <4>1
        <5>2. read' = IF read + k < Capacity THEN read + k ELSE (read + k) - Capacity
          BY <1>1, <1>2, Wrap
        <5>3. Slot(read', i) = IF read' + i < Capacity THEN read' + i ELSE (read' + i) - Capacity
          BY <1>3, <5>1, Wrap
        <5>4. Slot(read, j) = IF read + j < Capacity THEN read + j ELSE (read + j) - Capacity
          BY <1>1, <5>1, Wrap
        <5>5. QED  BY <1>1, <3>2, <5>2, <5>3, <5>4 DEF Slots
      <4>3. ~(i < size - k)  BY <1>1, <3>2
      <4>4. QED  BY <1>2, <1>7, <4>1, <4>2, <4>3
    <3>3. QED  BY <3>1, <3>2
  <2>2. QED  BY <2>1 DEF Filled
<1>11. RingShape'
  <2>1. (\A p \in Slots : value[p] # NoRecord <=> p \in Used(size))'
    BY <1>5, <1>10, ShapeByDistance, PTL
  <2>2. QED  BY <1>5, <1>6, <2>1 DEF RingShape, Slot
<1>12. Held' = SubSeq(Held, k + 1, Len(Held))
  <2>1. /\ Held \in Seq(Records) /\ Len(Held) = size
        /\ \A i \in 1..size : Held[i] = value[Slot(read, i - 1)]
    BY HeldIs DEF HeldFromRead
  <2>2. /\ Held' \in Seq(Records) /\ Len(Held') = size - k
        /\ \A i \in 1..size - k : Held'[i] = value'[Slot(read', i - 1)]
    <3>1. HeldFromRead'  BY <1>11, HeldIs, PTL
    <3>2. QED  BY <1>2, <3>1 DEF HeldFromRead
  <2> DEFINE rest == SubSeq(Held, k + 1, Len(Held))
  <2>3. /\ rest \in Seq(Records) /\ Len(rest) = size - k
        /\ \A i \in 1..size - k : rest[i] = Held[k + i]
    <3>1. \A i \in k + 1..size : Held[i] \in Records  BY <1>1, <2>1
    <3>2. /\ SubSeq(Held, k + 1, size) \in Seq(Records)
          /\ Len(SubSeq(Held, k + 1, size)) = IF k + 1 <= size THEN size - (k + 1) + 1 ELSE 0
          /\ \A i \in 1..size - (k + 1) + 1 :
               SubSeq(Held, k + 1, size)[i] = Held[(k + 1) + i - 1]
      BY <1>1, <3>1, SubSeqProperties
    <3>3. \A i \in 1..size - k : (k + 1) + i - 1 = k + i  BY <1>1
    <3>4. size - (k + 1) + 1 = size - k  BY <1>1
    <3>5. QED  BY <1>1, <2>1, <3>2, <3>3, <3>4
  <2> HIDE DEF rest
  <2>4. ASSUME NEW i \in 1..size - k PROVE Held'[i] = rest[i]
    <3>1. /\ k + i \in 1..size /\ i - 1 \in 0..Capacity - k
          /\ k + (i - 1) \in 0..Capacity - 1 /\ ~(k + (i - 1) < k)
          /\ (k + i) - 1 = k + (i - 1)
      BY <1>1
    <3>2. Held'[i] = value[Slot(read, k + (i - 1))]  BY <1>7, <1>9, <2>2, <3>1
    <3>3. rest[i] = value[Slot(read, (k + i) - 1)]  BY <2>1, <2>3, <3>1
    <3>4. QED  BY <3>1, <3>2, <3>3
  <2>5. QED  BY <2>2, <2>3, <2>4, SeqEqual DEF rest
<1>13. QED  BY <1>11, <1>12

-----------------------------------------------------------------------------
(* Every operation of the ring keeps its shape and is an operation of the  *)
(* queue.                                                                  *)
LEMMA RingStep ==
  ASSUME RingShape, RingNext
  PROVE  RingShape' /\ Abstract!QueueNext
<1>1. /\ Held \in Seq(Records) /\ Len(Held) = size /\ size \in 0..Capacity
  BY HeldIs DEF HeldFromRead, RingShape, RingTypeOK
<1>2. ASSUME NEW r \in Records, Enqueue(r) PROVE RingShape' /\ Abstract!QueueNext
  <2>1. ~closed /\ closed' = closed  BY <1>2 DEF Enqueue, Accepting
  <2>2. SubSeq(Held, Len(Abstract!Displaced) + 1, Len(Held)) \o <<r>> = Held'
    <3>1. CASE size = Capacity
      <4>1. Held' = Append(Tail(Held), r)  BY <1>2, <3>1, EnqueueFull
      <4>2. Len(Abstract!Displaced) + 1 = 2  BY <1>1, <3>1 DEF Abstract!Displaced
      <4>3. Held # <<>>  BY <1>1, <3>1
      <4>4. Tail(Held) = SubSeq(Held, 2, Len(Held)) /\ Tail(Held) \in Seq(Records)
        BY <1>1, <4>3, TailIsSubSeq, HeadTailProperties
      <4>5. Append(Tail(Held), r) = Tail(Held) \o <<r>>  BY <4>4, AppendIsConcat
      <4>6. QED  BY <4>1, <4>2, <4>4, <4>5
    <3>2. CASE size # Capacity
      <4>1. Held' = Append(Held, r)  BY <1>2, <3>2, EnqueueWithRoom
      <4>2. Len(Abstract!Displaced) + 1 = 1  BY <1>1, <3>2 DEF Abstract!Displaced
      <4>3. SubSeq(Held, 1, Len(Held)) = Held  BY <1>1, SubSeqFull
      <4>4. Append(Held, r) = Held \o <<r>>  BY <1>1, AppendIsConcat
      <4>5. QED  BY <4>1, <4>2, <4>3, <4>4
    <3>3. QED  BY <3>1, <3>2
  <2>3. Abstract!Enqueue(r)  BY <2>1, <2>2 DEF Abstract!Enqueue
  <2>4. RingShape'  BY <1>2, EnqueueFull, EnqueueWithRoom
  <2>5. QED  BY <2>3, <2>4 DEF Abstract!QueueNext
<1>3. ASSUME NEW n \in 0..Capacity, Dequeue(n) PROVE RingShape' /\ Abstract!QueueNext
  <2> DEFINE k == IF n < size THEN n ELSE size
  <2>1. k \in 0..Capacity /\ k <= size /\ k \in 0..Len(Held)  BY <1>1
  <2>2. Take(k) /\ closed' = closed  BY <1>3 DEF Dequeue, Take
  <2>3. Abstract!Taken(n) = SubSeq(Held, 1, k)  BY <1>1 DEF Abstract!Taken
  <2> HIDE DEF k
  <2>4. RingShape' /\ Held' = SubSeq(Held, k + 1, Len(Held))  BY <2>1, <2>2, TakeOldest
  <2>5. Len(Abstract!Taken(n)) = k  BY <1>1, <2>1, <2>3, FrontAndRest DEF Splits
  <2>6. Abstract!Dequeue(n)  BY <2>2, <2>4, <2>5 DEF Abstract!Dequeue
  <2>7. QED  BY <2>4, <2>6 DEF Abstract!QueueNext
<1>4. ASSUME Flush PROVE RingShape' /\ Abstract!QueueNext
  <2>1. Take(size) /\ closed' = closed  BY <1>4 DEF Flush, Take
  <2>2. RingShape' /\ Held' = SubSeq(Held, size + 1, Len(Held))  BY <1>1, <2>1, TakeOldest
  <2>3. SubSeq(Held, size + 1, Len(Held)) = <<>>  BY <1>1, SubSeqEmpty
  <2>4. Abstract!Flush  BY <2>1, <2>2, <2>3 DEF Abstract!Flush
  <2>5. QED  BY <2>2, <2>4 DEF Abstract!QueueNext
<1>5. ASSUME Close PROVE RingShape' /\ Abstract!QueueNext
  <2>1. closed' = TRUE /\ UNCHANGED <<value, read, write, size>>  BY <1>5 DEF Close
  <2>2. Held' = Held  BY <2>1 DEF Held
  <2>3. RingShape'  BY <2>1 DEF RingShape, RingTypeOK, Used
  <2>4. Abstract!Close  BY <2>1, <2>2 DEF Abstract!Close
  <2>5. QED  BY <2>3, <2>4 DEF Abstract!QueueNext
<1>6. QED  BY <1>2, <1>3, <1>4, <1>5 DEF RingNext

LEMMA RingStart ==
  ASSUME RingInit
  PROVE  RingShape /\ Abstract!QueueInit
<1>1. 0 % Capacity = 0  OBVIOUS
<1>2. RingTypeOK
  <2>1. 0 \in Slots /\ 0 \in 0..Capacity  BY DEF Slots
  <2>2. QED  BY <2>1 DEF RingInit, RingTypeOK
<1>3. write = (read + size) % Capacity  BY <1>1 DEF RingInit
<1>4. \A p \in Slots : value[p] # NoRecord <=> p \in Used(size)  BY DEF RingInit, Used
<1>5. Held = <<>>  BY DEF RingInit, Held
<1>6. QED  BY <1>2, <1>3, <1>4, <1>5 DEF RingShape, RingInit, Abstract!QueueInit

(* The ring of ring.go implements the bounded queue that overwrites its    *)
(* oldest record, and keeps no record from the garbage collector, for      *)
(* every capacity and every sequence of operations.                        *)
THEOREM RingImplementsQueue == RingSpec => ImplementsQueue
<1>1. RingShape /\ UNCHANGED ringVars => RingShape' /\ UNCHANGED Abstract!queueVars
  BY DEF ringVars, RingShape, RingTypeOK, Used, Held, Abstract!queueVars
<1>2. RingShape /\ [RingNext]_ringVars =>
        RingShape' /\ [Abstract!QueueNext]_(Abstract!queueVars)
  BY <1>1, RingStep
<1>3. RingInit => RingShape /\ Abstract!QueueInit  BY RingStart
<1>4. QED  BY <1>2, <1>3, PTL DEF RingSpec, ImplementsQueue, Abstract!QueueSpec

-----------------------------------------------------------------------------
(* Removing one element of a sequence moves those behind it.               *)
LEMMA RemovedAt ==
  ASSUME NEW S, NEW s \in Seq(S), NEW p \in 1..Len(s)
  PROVE  /\ RemoveAt(s, p) \in Seq(S) /\ Len(RemoveAt(s, p)) = Len(s) - 1
         /\ \A i \in 1..Len(s) - 1 : RemoveAt(s, p)[i] = IF i < p THEN s[i] ELSE s[i + 1]
<1> DEFINE f == SubSeq(s, 1, p - 1)
           r == SubSeq(s, p + 1, Len(s))
           n == Len(s)
<1>1. n \in Nat /\ p \in Nat /\ 1 <= p /\ p <= n  OBVIOUS
<1>2. /\ f \in Seq(S) /\ Len(f) = p - 1
      /\ \A i \in 1..p - 1 : f[i] = s[i]
  OBVIOUS
<1>3. /\ r \in Seq(S) /\ Len(r) = n - p
      /\ \A i \in 1..n - p : r[i] = s[p + i]
  <2>1. p + 1 \in 1..n + 1 /\ n \in 0..n  BY <1>1
  <2>2. /\ SubSeq(s, p + 1, n) \in Seq(S)
        /\ Len(SubSeq(s, p + 1, n)) = IF p + 1 <= n THEN n - (p + 1) + 1 ELSE 0
        /\ \A i \in 1..n - (p + 1) + 1 : SubSeq(s, p + 1, n)[i] = s[p + 1 + i - 1]
    BY <2>1, SubSeqProperties
  <2>3. QED  BY <1>1, <2>2
<1>4. RemoveAt(s, p) = f \o r  BY DEF RemoveAt
<1> DEFINE t == f \o r
<1> HIDE DEF f, r, n
<1>5. /\ t \in Seq(S) /\ Len(t) = (p - 1) + (n - p)
      /\ \A i \in 1..(p - 1) + (n - p) : t[i] = IF i <= p - 1 THEN f[i] ELSE r[i - (p - 1)]
  <2>1. f \in Seq(S) /\ r \in Seq(S)  BY <1>2, <1>3
  <2>2. /\ t \in Seq(S) /\ Len(t) = Len(f) + Len(r)
        /\ \A i \in 1..Len(f) + Len(r) : t[i] = IF i <= Len(f) THEN f[i] ELSE r[i - Len(f)]
    BY <2>1, ConcatProperties
  <2> HIDE DEF t
  <2>3. QED  BY <1>2, <1>3, <2>2
<1> HIDE DEF t
<1>6. Len(t) = n - 1  BY <1>1, <1>5
<1>7. ASSUME NEW i \in 1..n - 1 PROVE t[i] = IF i < p THEN s[i] ELSE s[i + 1]
  <2>1. t[i] = IF i <= p - 1 THEN f[i] ELSE r[i - (p - 1)]  BY <1>1, <1>5
  <2>2. CASE i < p
    <3>1. i \in 1..p - 1 /\ i <= p - 1  BY <1>1, <2>2
    <3>2. QED  BY <1>2, <2>1, <2>2, <3>1
  <2>3. CASE ~(i < p)
    <3>1. i - (p - 1) \in 1..n - p /\ p + (i - (p - 1)) = i + 1 /\ ~(i <= p - 1)
      BY <1>1, <2>3
    <3>2. QED  BY <1>3, <2>1, <2>3, <3>1
  <2>4. QED  BY <2>2, <2>3
<1>8. QED  BY <1>4, <1>5, <1>6, <1>7 DEF t, n

-----------------------------------------------------------------------------
(* Trace states.                                                           *)
USE TraceStateAssumption

Members == MemberKeys \X MemberValues
Edits ==
  {InsertOf(k, v) : k \in MemberKeys, v \in MemberValues} \union {DeleteOf(k) : k \in MemberKeys}

TraceStateTypeOK == memberList \in Seq(Members) /\ edits \in Seq(Edits)

TraceStateIInv == TraceStateTypeOK /\ TraceStateAsDefined

(* The parts of an edit.                                                   *)
LEMMA EditFields ==
  ASSUME NEW k, NEW v
  PROVE  /\ InsertOf(k, v).op = "insert" /\ InsertOf(k, v).key = k /\ InsertOf(k, v).value = v
         /\ DeleteOf(k).op = "delete" /\ DeleteOf(k).key = k
BY DEF InsertOf, DeleteOf

(* The last edit of a key is one of it.                                    *)
LEMMA LastEditIs ==
  ASSUME TraceStateTypeOK, NEW k, EditsOf(k) # {}
  PROVE  /\ LastEdit(k) \in 1..Len(edits) /\ edits[LastEdit(k)].key = k
         /\ \A i \in EditsOf(k) : i <= LastEdit(k)
<1>1. EditsOf(k) \subseteq 1..Len(edits) /\ Len(edits) \in Nat
  BY DEF TraceStateTypeOK, EditsOf
<1>2. IsFiniteSet(1..Len(edits))  BY <1>1, FS_Interval
<1>3. IsFiniteSet(EditsOf(k))  BY <1>1, <1>2, FS_Subset
<1>4. LastEdit(k) \in EditsOf(k) /\ \A i \in EditsOf(k) : i <= LastEdit(k)
  BY <1>1, <1>3, Extremes DEF LastEdit
<1>5. QED  BY <1>1, <1>4 DEF EditsOf

(* An edit is the last one of its key, and changes no other's.             *)
LEMMA EditAdded ==
  ASSUME TraceStateTypeOK, NEW e \in Edits, edits' = Append(edits, e)
  PROVE  /\ edits' \in Seq(Edits) /\ Len(edits') = Len(edits) + 1 /\ edits'[Len(edits')] = e
         /\ \A i \in 1..Len(edits) : edits'[i] = edits[i]
         /\ EditsOf(e.key)' # {} /\ LastEdit(e.key)' = Len(edits')
         /\ \A k : k # e.key => EditsOf(k)' = EditsOf(k) /\ LastEdit(k)' = LastEdit(k)
<1>1. /\ edits' \in Seq(Edits) /\ Len(edits') = Len(edits) + 1 /\ edits'[Len(edits')] = e
      /\ (\A i \in 1..Len(edits) : edits'[i] = edits[i]) /\ Len(edits) \in Nat
  BY DEF TraceStateTypeOK
<1>2. DOMAIN edits = 1..Len(edits) /\ DOMAIN edits' = 1..Len(edits')
  BY <1>1 DEF TraceStateTypeOK
<1>3. EditsOf(e.key)' \subseteq Int /\ Len(edits') \in EditsOf(e.key)'
      /\ \A i \in EditsOf(e.key)' : i <= Len(edits')
  BY <1>1, <1>2 DEF EditsOf
<1>4. LastEdit(e.key)' = Len(edits')  BY <1>3, MaxIs DEF LastEdit
<1>5. ASSUME NEW k, k # e.key PROVE EditsOf(k)' = EditsOf(k)
  BY <1>1, <1>2, <1>5 DEF EditsOf
<1>6. \A k : k # e.key => LastEdit(k)' = LastEdit(k)  BY <1>5 DEF LastEdit
<1>7. QED  BY <1>1, <1>3, <1>4, <1>5, <1>6

(* What a list without a key has, and where.                               *)
Thinned(s, t, k, was) ==
  /\ t \in Seq(Members) /\ was \in [1..Len(t) -> 1..Len(s)]
  /\ \A i \in 1..Len(t) : t[i] = s[was[i]] /\ Key(t[i]) # k
  /\ \A i, j \in 1..Len(t) : i < j => was[i] < was[j]
  /\ \A j \in 1..Len(s) : Key(s[j]) # k => \E i \in 1..Len(t) : was[i] = j

(* Without thins the list.                                                 *)
LEMMA WithoutKey ==
  ASSUME TraceStateTypeOK, NEW k,
         \A i, j \in 1..Len(memberList) : i # j => Key(memberList[i]) # Key(memberList[j])
  PROVE  /\ Len(Without(k)) <= Len(memberList)
         /\ \E was : Thinned(memberList, Without(k), k, was)
<1> DEFINE s == memberList
           n == Len(s)
<1>1. s \in Seq(Members) /\ n \in Nat /\ DOMAIN s = 1..n  BY DEF TraceStateTypeOK
<1>2. CASE ~Has(s, k)
  <2>1. Without(k) = s  BY <1>2 DEF Without
  <2>2. \A i \in 1..n : Key(s[i]) # k  BY <1>1, <1>2 DEF Has, Places
  <2> DEFINE was == [i \in 1..n |-> i]
  <2> HIDE DEF s
  <2>3. Thinned(s, s, k, was)  BY <1>1, <2>2 DEF Thinned
  <2>4. QED  BY <1>1, <2>1, <2>3 DEF s
<1>3. CASE Has(s, k)
  <2> DEFINE p == Min(Places(s, k))
             t == SubSeq(s, 1, p - 1) \o SubSeq(s, p + 1, n)
  <2>1. Places(s, k) \subseteq 1..n /\ IsFiniteSet(1..n)  BY <1>1, FS_Interval DEF Places
  <2>2. IsFiniteSet(Places(s, k)) /\ Places(s, k) # {}  BY <1>3, <2>1, FS_Subset DEF Has
  <2>3. p \in Places(s, k)  BY <2>1, <2>2, Extremes
  <2>4. p \in 1..n /\ Key(s[p]) = k  BY <1>1, <2>3 DEF Places
  <2>5. Without(k) = t  BY <1>3 DEF Without, RemoveAt
  <2>6. \A i \in 1..n : i # p => Key(s[i]) # k  BY <2>4
  <2> HIDE DEF p, s
  <2>7. /\ t \in Seq(Members) /\ Len(t) = n - 1
        /\ \A i \in 1..n - 1 : t[i] = IF i < p THEN s[i] ELSE s[i + 1]
    BY <1>1, <2>4, RemovedAt DEF RemoveAt
  <2> DEFINE was == [i \in 1..n - 1 |-> IF i < p THEN i ELSE i + 1]
  <2> HIDE DEF t
  <2>8. ASSUME NEW j \in 1..n, Key(s[j]) # k PROVE \E i \in 1..n - 1 : was[i] = j
    <3>1. CASE j < p
      <4>1. j \in 1..n - 1 /\ was[j] = j  BY <1>1, <2>4, <3>1
      <4>2. QED  BY <4>1
    <3>2. CASE ~(j < p)
      <4>1. j # p  BY <2>4, <2>8
      <4>2. j - 1 \in 1..n - 1 /\ was[j - 1] = j  BY <1>1, <2>4, <3>2, <4>1
      <4>3. QED  BY <4>2
    <3>3. QED  BY <3>1, <3>2
  <2>9. /\ was \in [1..n - 1 -> 1..n]
        /\ \A i \in 1..n - 1 : t[i] = s[was[i]] /\ was[i] # p
        /\ \A i, j \in 1..n - 1 : i < j => was[i] < was[j]
    BY <1>1, <2>4, <2>7
  <2> HIDE DEF was
  <2>10. \A i \in 1..n - 1 : Key(t[i]) # k  BY <2>6, <2>9
  <2>11. Thinned(s, t, k, was)  BY <2>7, <2>8, <2>9, <2>10 DEF Thinned
  <2>12. QED  BY <1>1, <2>5, <2>7, <2>11 DEF s
<1>4. QED  BY <1>2, <1>3

(* The members are in the order of their last edits, so no key is twice.   *)
LEMMA KeysDiffer ==
  ASSUME TraceStateIInv
  PROVE  \A i, j \in 1..Len(memberList) : i # j => Key(memberList[i]) # Key(memberList[j])
<1>1. DOMAIN memberList = 1..Len(memberList) /\ Len(memberList) \in Nat
  BY DEF TraceStateIInv, TraceStateTypeOK
<1>2. ASSUME NEW i \in 1..Len(memberList), NEW j \in 1..Len(memberList), j < i
      PROVE  Key(memberList[i]) # Key(memberList[j])
  <2>1. /\ LastEdit(Key(memberList[j])) > LastEdit(Key(memberList[i]))
        /\ Live(Key(memberList[i]))
    BY <1>1, <1>2 DEF TraceStateIInv, TraceStateAsDefined, AsEdited
  <2>2. LastEdit(Key(memberList[i])) \in Nat
    BY <2>1, LastEditIs DEF TraceStateIInv, TraceStateTypeOK, Live
  <2>3. QED  BY <2>1, <2>2
<1>3. \A i, j \in 1..Len(memberList) : i # j => j < i \/ i < j
  BY <1>1
<1>4. QED  BY <1>2, <1>3

(* What Insert makes of the list without the key.                          *)
LEMMA InsertedIs ==
  ASSUME NEW rest \in Seq(Members), NEW k \in MemberKeys, NEW v \in MemberValues
  PROVE  LET list == UpTo(MaxMembers, <<<<k, v>>>> \o rest)
             length == IF MaxMembers <= Len(rest) THEN MaxMembers ELSE Len(rest) + 1
         IN  /\ list \in Seq(Members) /\ Len(list) = length /\ length \in Nat \ {0}
             /\ list[1] = <<k, v>>
             /\ \A i \in 2..length : list[i] = rest[i - 1]
<1> DEFINE m == <<k, v>>
           t == <<m>> \o rest
           length == IF MaxMembers <= Len(rest) THEN MaxMembers ELSE Len(rest) + 1
<1>1. m \in Members  BY DEF Members
<1>2. Len(rest) \in Nat /\ MaxMembers \in Nat \ {0} /\ length \in Nat \ {0}  OBVIOUS
<1> HIDE DEF m
<1>3. /\ t \in Seq(Members) /\ Len(t) = Len(rest) + 1 /\ t[1] = m
      /\ \A i \in 1..Len(rest) : t[i + 1] = rest[i]
  BY <1>1
<1> HIDE DEF t
<1>4. Min({MaxMembers, Len(t)}) = length
  <2> DEFINE l == Len(t)
  <2>1. l = Len(rest) + 1 /\ l \in Int /\ MaxMembers \in Int  BY <1>2, <1>3
  <2> HIDE DEF l
  <2>2. Min({MaxMembers, l}) = IF MaxMembers <= l THEN MaxMembers ELSE l  BY <2>1, MinOfTwo
  <2>3. (IF MaxMembers <= l THEN MaxMembers ELSE l) = length  BY <1>2, <2>1
  <2>4. QED  BY <2>2, <2>3 DEF l
<1>6. length \in 1..Len(t)  BY <1>2, <1>3
<1> HIDE DEF length
<1>5. UpTo(MaxMembers, t) = SubSeq(t, 1, length)
  <2>1. ~(MaxMembers < 0)  BY <1>2
  <2>2. QED  BY <1>4, <2>1 DEF UpTo
<1> DEFINE list == SubSeq(t, 1, length)
<1>7. list \in Seq(Members) /\ Len(list) = length /\ \A i \in 1..length : list[i] = t[i]
  BY <1>2, <1>3, <1>6
<1> HIDE DEF list
<1>8. list[1] = m  BY <1>3, <1>6, <1>7
<1>9. ASSUME NEW i \in 2..length PROVE list[i] = rest[i - 1]
  <2>1. i - 1 \in 1..Len(rest) /\ (i - 1) + 1 = i /\ i \in 1..length  BY <1>2, <1>3, <1>6
  <2>2. t[(i - 1) + 1] = rest[i - 1]  BY <1>3, <2>1
  <2>3. list[i] = t[i]  BY <1>7, <2>1
  <2>4. QED  BY <2>1, <2>2, <2>3
<1>10. QED  BY <1>2, <1>5, <1>7, <1>8, <1>9 DEF t, m, list, length

(* The keys inserted since another was become more with each insertion.    *)
LEMMA SinceGrows ==
  ASSUME TraceStateTypeOK, NEW e \in Edits, edits' = Append(edits, e), NEW k, k # e.key
  PROVE  /\ IsFiniteSet(InsertedSince(k)') /\ InsertedSince(k) \subseteq InsertedSince(k)'
         /\ Cardinality(InsertedSince(k)) \in Nat /\ Cardinality(InsertedSince(k)') \in Nat
         /\ Cardinality(InsertedSince(k)) <= Cardinality(InsertedSince(k)')
<1> DEFINE l == LastEdit(k)
           D == {j \in DOMAIN edits : j > l /\ edits[j].op = "insert"}
           E == {j \in DOMAIN edits' : j > l /\ edits'[j].op = "insert"}
           A == {edits[i].key : i \in D}
           B == {edits'[i].key : i \in E}
<1>1. /\ Len(edits') = Len(edits) + 1 /\ edits'[Len(edits')] = e
      /\ (\A i \in 1..Len(edits) : edits'[i] = edits[i]) /\ LastEdit(k)' = LastEdit(k)
      /\ Len(edits) \in Nat /\ edits' \in Seq(Edits)
  BY EditAdded DEF TraceStateTypeOK
<1>2. InsertedSince(k) = A /\ InsertedSince(k)' = B  BY <1>1 DEF InsertedSince
<1>3. DOMAIN edits = 1..Len(edits) /\ DOMAIN edits' = 1..Len(edits')
  BY <1>1 DEF TraceStateTypeOK
<1> HIDE DEF l
<1>4. A \subseteq B
  <2>1. ASSUME NEW i \in D PROVE edits[i].key \in B
    <3>1. i \in E /\ edits'[i] = edits[i]  BY <1>1, <1>3
    <3> HIDE DEF E
    <3>2. QED  BY <3>1
  <2>2. QED  BY <2>1
<1>5. IsFiniteSet(B)
  <2>1. IsFiniteSet(1..Len(edits'))  BY <1>1, FS_Interval
  <2>2. IsFiniteSet(E)  BY <1>3, <2>1, FS_Subset
  <2> DEFINE f == [i \in E |-> edits'[i].key]
  <2>3. f \in Surjection(E, B)  BY DEF Surjection
  <2> HIDE DEF f, E, B
  <2>4. QED  BY <2>2, <2>3, FS_Surjection
<1> HIDE DEF A, B
<1>6. QED  BY <1>2, <1>4, <1>5, FS_Subset, FS_CardinalityType

(* A member stays what it is when another key is edited.                   *)
LEMMA OthersKept ==
  ASSUME TraceStateTypeOK, NEW e \in Edits, edits' = Append(edits, e), NEW k, k # e.key
  PROVE  /\ Live(k)' <=> Live(k)
         /\ Live(k) => /\ LastEdit(k)' = LastEdit(k) /\ LastEdit(k) \in 1..Len(edits)
                       /\ edits'[LastEdit(k)] = edits[LastEdit(k)]
<1>1. EditsOf(k)' = EditsOf(k) /\ LastEdit(k)' = LastEdit(k)
      /\ \A i \in 1..Len(edits) : edits'[i] = edits[i]
  BY EditAdded
<1>2. CASE EditsOf(k) = {}  BY <1>1, <1>2 DEF Live
<1>3. CASE EditsOf(k) # {}
  <2>1. LastEdit(k) \in 1..Len(edits)  BY <1>3, LastEditIs
  <2>2. edits'[LastEdit(k)] = edits[LastEdit(k)]  BY <1>1, <2>1
  <2>3. QED  BY <1>1, <2>1, <2>2 DEF Live
<1>4. QED  BY <1>2, <1>3

(* The invariant holds of a new trace state.                               *)
LEMMA TraceStateStart == TraceStateInit => TraceStateIInv
<1> SUFFICES ASSUME TraceStateInit PROVE TraceStateIInv
  OBVIOUS
<1>1. PICK list \in Headers :
        /\ memberList = Parse(list)
        /\ edits = Reverse([i \in DOMAIN memberList |->
                              InsertOf(memberList[i][1], memberList[i][2])])
  BY DEF TraceStateInit
<1> DEFINE s == memberList
           n == Len(s)
<1>2. /\ s \in Seq(Members) /\ n <= MaxMembers
      /\ \A i, j \in 1..n : i # j => Key(s[i]) # Key(s[j])
  <2>1. CASE Accepts(list)
    <3>1. s = list  BY <1>1, <2>1 DEF Parse
    <3>2. list \in Seq(Members \union {Malformed})  BY DEF Members
    <3>3. DOMAIN list = 1..Len(list) /\ Len(list) \in Nat  BY <3>2
    <3>4. \A i \in 1..Len(list) : list[i] \in Members  BY <2>1, <3>2, <3>3 DEF Accepts
    <3>5. list \in Seq(Members)  BY <3>2, <3>3, <3>4
    <3>6. QED  BY <2>1, <3>1, <3>3, <3>5 DEF Accepts
  <2>2. CASE ~Accepts(list)
    <3>1. s = <<>>  BY <1>1, <2>2 DEF Parse
    <3>2. QED  BY <3>1
  <2>3. QED  BY <2>1, <2>2
<1>3. /\ n \in Nat /\ DOMAIN s = 1..n
      /\ \A i \in 1..n : Key(s[i]) \in MemberKeys /\ s[i][2] \in MemberValues
  BY <1>2 DEF Members, Key
<1> DEFINE inserts == [i \in 1..n |-> InsertOf(s[i][1], s[i][2])]
<1>4. edits = [i \in 1..n |-> inserts[(n - i) + 1]]
  <2>1. inserts \in Seq(Edits)
    <3>1. \A i \in 1..n : inserts[i] \in Edits  BY <1>3 DEF Edits, Key
    <3>2. QED  BY <1>3, <3>1
  <2>2. Len(inserts) = n  BY <1>3, <2>1
  <2>3. edits = Reverse(inserts)  BY <1>1, <1>3
  <2> HIDE DEF inserts
  <2>4. QED  BY <2>2, <2>3 DEF Reverse
<1> HIDE DEF s
<1>5. \A i \in 1..n : (n - i) + 1 \in 1..n /\ (n - ((n - i) + 1)) + 1 = i  BY <1>3
<1>6. \A i \in 1..n : edits[i] = InsertOf(s[(n - i) + 1][1], s[(n - i) + 1][2])
  BY <1>4, <1>5
<1>7. edits \in Seq(Edits) /\ Len(edits) = n
  <2>1. \A i \in 1..n : edits[i] \in Edits  BY <1>3, <1>5, <1>6 DEF Edits, Key
  <2>2. edits \in [1..n -> Edits]  BY <1>4, <2>1
  <2> HIDE DEF n
  <2>3. QED  BY <1>3, <2>2
<1>8. TraceStateTypeOK  BY <1>2, <1>7 DEF TraceStateTypeOK, s
<1>9. \A i \in 1..n : /\ edits[i].op = "insert" /\ edits[i].key = Key(s[(n - i) + 1])
                      /\ edits[i].value = s[(n - i) + 1][2]
  BY <1>6, EditFields DEF Key
<1>10. ASSUME NEW i \in 1..n PROVE AsEdited(s[i]) /\ LastEdit(Key(s[i])) = (n - i) + 1
  <2> DEFINE p == (n - i) + 1
             k == Key(s[i])
  <2>1. p \in 1..n /\ (n - p) + 1 = i  BY <1>5
  <2>2. \A q \in 1..n : edits[q].key = k => q = p
    <3>1. ASSUME NEW q \in 1..n, edits[q].key = k PROVE q = p
      <4>1. (n - q) + 1 \in 1..n /\ Key(s[(n - q) + 1]) = k  BY <1>5, <1>9, <3>1
      <4>2. (n - q) + 1 = i  BY <1>2, <4>1 DEF s
      <4>3. QED  BY <1>3, <4>2
    <3>2. QED  BY <3>1
  <2>3. edits[p].op = "insert" /\ edits[p].key = k /\ edits[p].value = s[i][2]
    BY <1>9, <2>1
  <2> HIDE DEF p, k
  <2>4. EditsOf(k) = {p}
    <3>1. DOMAIN edits = 1..n  BY <1>4
    <3>2. QED  BY <2>1, <2>2, <2>3, <3>1 DEF EditsOf
  <2>5. LastEdit(k) = p
    <3>1. {p} \subseteq Int /\ \A y \in {p} : y <= p  BY <1>3, <2>1
    <3>2. Max({p}) = p  BY <3>1, MaxIs
    <3>3. QED  BY <2>4, <3>2 DEF LastEdit
  <2>6. QED  BY <2>3, <2>4, <2>5 DEF AsEdited, Live, k, p
<1>11. ASSUME NEW i \in 1..n, NEW j \in 1..n, j < i
       PROVE  LastEdit(Key(s[j])) > LastEdit(Key(s[i]))
  BY <1>3, <1>10, <1>11
<1>12. ASSUME NEW k, Live(k) PROVE \E i \in 1..n : Key(s[i]) = k
  <2>1. PICK q \in 1..n : edits[q].key = k  BY <1>4, <1>12 DEF Live, EditsOf
  <2>2. QED  BY <1>5, <1>9, <2>1
<1>13. TraceStateAsDefined
  BY <1>2, <1>3, <1>10, <1>11, <1>12 DEF TraceStateAsDefined, Has, Places, s
<1>14. QED  BY <1>8, <1>13 DEF TraceStateIInv

(* A deletion leaves the other members as edited and in their order.       *)
LEMMA MemberDeleted ==
  ASSUME TraceStateIInv, NEW k \in MemberKeys, Delete(k)
  PROVE  TraceStateIInv'
<1> DEFINE e == DeleteOf(k)
<1>1. memberList' = Without(k) /\ edits' = Append(edits, e)  BY DEF Delete
<1>2. TraceStateTypeOK /\ e \in Edits /\ e.key = k /\ e.op = "delete"
  BY EditFields DEF TraceStateIInv, Edits
<1> HIDE DEF e
<1>3. /\ DOMAIN memberList = 1..Len(memberList)
      /\ Len(memberList) <= MaxMembers
      /\ \A i \in 1..Len(memberList) : AsEdited(memberList[i])
      /\ \A i, j \in 1..Len(memberList) :
           i < j => LastEdit(Key(memberList[i])) > LastEdit(Key(memberList[j]))
      /\ \A x \in MemberKeys :
           Live(x) /\ ~Has(memberList, x) => Cardinality(InsertedSince(x)) >= MaxMembers
  <2>1. DOMAIN memberList = 1..Len(memberList)  BY <1>2 DEF TraceStateTypeOK
  <2>2. QED  BY <2>1 DEF TraceStateIInv, TraceStateAsDefined
<1>4. Len(Without(k)) <= Len(memberList)
      /\ \E was : Thinned(memberList, Without(k), k, was)
  BY <1>2, KeysDiffer, WithoutKey
<1>5. PICK was : Thinned(memberList, memberList', k, was)  BY <1>1, <1>4
<1> DEFINE n == Len(memberList)
           m == Len(memberList')
<1>6. /\ memberList' \in Seq(Members) /\ m \in Nat /\ n \in Nat /\ m <= n
      /\ DOMAIN memberList' = 1..m
      /\ \A i \in 1..m : /\ was[i] \in 1..n /\ memberList'[i] = memberList[was[i]]
                         /\ Key(memberList'[i]) # k
      /\ \A i, j \in 1..m : i < j => was[i] < was[j]
      /\ \A j \in 1..n : Key(memberList[j]) # k => \E i \in 1..m : was[i] = j
  <2>1. memberList' \in Seq(Members) /\ memberList \in Seq(Members)
    BY <1>2, <1>5 DEF Thinned, TraceStateTypeOK
  <2>2. m \in Nat /\ n \in Nat /\ DOMAIN memberList' = 1..m  BY <2>1
  <2>3. m <= n  BY <1>1, <1>4
  <2>4. \A i \in 1..m : was[i] \in 1..n  BY <1>5 DEF Thinned
  <2>5. QED  BY <1>5, <2>1, <2>2, <2>3, <2>4 DEF Thinned
<1>7. TraceStateTypeOK'  BY <1>1, <1>2, <1>6, EditAdded DEF TraceStateTypeOK
<1>8. ASSUME NEW x, Key(x) # k, AsEdited(x)
      PROVE  AsEdited(x)' /\ LastEdit(Key(x))' = LastEdit(Key(x))
  BY <1>1, <1>2, <1>8, OthersKept DEF AsEdited
<1>9. ASSUME NEW i \in 1..m PROVE AsEdited(memberList'[i])
  BY <1>3, <1>6
<1>10. ASSUME NEW i \in 1..m PROVE AsEdited(memberList[i])'
  <2>1. PICK x : x = memberList'[i]  OBVIOUS
  <2>2. AsEdited(x)'  BY <1>6, <1>8, <1>9, <2>1
  <2>3. QED  BY <2>1, <2>2 DEF AsEdited, Live, EditsOf, LastEdit
<1>11. ASSUME NEW i \in 1..m, NEW j \in 1..m, i < j
       PROVE  (LastEdit(Key(memberList[i])) > LastEdit(Key(memberList[j])))'
  <2>1. PICK x, y : x = memberList'[i] /\ y = memberList'[j]  OBVIOUS
  <2>2. LastEdit(Key(x)) > LastEdit(Key(y))  BY <1>3, <1>6, <1>11, <2>1
  <2>3. LastEdit(Key(x))' = LastEdit(Key(x)) /\ LastEdit(Key(y))' = LastEdit(Key(y))
    BY <1>6, <1>8, <1>9, <2>1
  <2>4. LastEdit(Key(x))' > LastEdit(Key(y))'  BY <2>2, <2>3
  <2>5. QED  BY <2>1, <2>4 DEF LastEdit, EditsOf
<1>12. ASSUME NEW x \in MemberKeys, Live(x)', ~Has(memberList', x)
       PROVE  (Cardinality(InsertedSince(x)) >= MaxMembers)'
  <2>1. x # k
    <3>1. LastEdit(k)' = Len(edits') /\ edits'[Len(edits')] = e  BY <1>1, <1>2, EditAdded
    <3>2. edits'[LastEdit(k)'].op = "delete"  BY <1>2, <3>1
    <3>3. ~Live(k)'  BY <3>2 DEF Live
    <3>4. QED  BY <1>12, <3>3
  <2>2. Live(x)  BY <1>1, <1>2, <1>12, <2>1, OthersKept
  <2>3. ~Has(memberList, x)
    <3>1. ASSUME NEW i \in 1..n, Key(memberList[i]) = x PROVE FALSE
      <4>1. PICK j \in 1..m : was[j] = i  BY <1>6, <2>1, <3>1
      <4>2. memberList'[j] = memberList[i] /\ j \in DOMAIN memberList'  BY <1>6, <4>1
      <4>3. QED  BY <1>12, <3>1, <4>2 DEF Has, Places
    <3>2. QED  BY <1>3, <3>1 DEF Has, Places
  <2>4. Cardinality(InsertedSince(x)) >= MaxMembers  BY <1>3, <2>2, <2>3
  <2>5. QED  BY <1>1, <1>2, <2>1, <2>4, SinceGrows
<1>13. Len(memberList') <= MaxMembers  BY <1>3, <1>6
<1>14. TraceStateAsDefined'
  <2>1. DOMAIN memberList' = 1..m  BY <1>6
  <2>2. QED  BY <1>10, <1>11, <1>12, <1>13, <2>1 DEF TraceStateAsDefined
<1>15. QED  BY <1>7, <1>14 DEF TraceStateIInv

(* An insertion, too, leaves all others in their order, and what it drops  *)
(* is behind as many others as there may be.                               *)
LEMMA MemberInserted ==
  ASSUME TraceStateIInv, NEW k \in MemberKeys, NEW v \in MemberValues, Insert(k, v)
  PROVE  TraceStateIInv'
<1> DEFINE e == InsertOf(k, v)
           rest == Without(k)
<1>1. memberList' = UpTo(MaxMembers, <<<<k, v>>>> \o rest) /\ edits' = Append(edits, e)
  BY DEF Insert, Inserted
<1>2. TraceStateTypeOK /\ e \in Edits /\ e.key = k /\ e.op = "insert" /\ e.value = v
  BY EditFields DEF TraceStateIInv, Edits
<1>3. /\ DOMAIN memberList = 1..Len(memberList)
      /\ Len(memberList) <= MaxMembers
      /\ \A i \in 1..Len(memberList) : AsEdited(memberList[i])
      /\ \A i, j \in 1..Len(memberList) :
           i < j => LastEdit(Key(memberList[i])) > LastEdit(Key(memberList[j]))
      /\ \A x \in MemberKeys :
           Live(x) /\ ~Has(memberList, x) => Cardinality(InsertedSince(x)) >= MaxMembers
  <2>1. DOMAIN memberList = 1..Len(memberList)  BY <1>2 DEF TraceStateTypeOK
  <2>2. QED  BY <2>1 DEF TraceStateIInv, TraceStateAsDefined
<1>4. Len(rest) <= Len(memberList) /\ \E was : Thinned(memberList, rest, k, was)
  BY <1>2, KeysDiffer, WithoutKey
<1>5. PICK was : Thinned(memberList, rest, k, was)  BY <1>4
<1> DEFINE n == Len(memberList)
           r == Len(rest)
           m == IF MaxMembers <= r THEN MaxMembers ELSE r + 1
<1>6. /\ rest \in Seq(Members) /\ memberList \in Seq(Members)
      /\ r \in Nat /\ n \in Nat /\ r <= MaxMembers
      /\ \A i \in 1..r : was[i] \in 1..n /\ rest[i] = memberList[was[i]] /\ Key(rest[i]) # k
      /\ \A i, j \in 1..r : i < j => was[i] < was[j]
      /\ \A j \in 1..n : Key(memberList[j]) # k => \E i \in 1..r : was[i] = j
  <2>1. rest \in Seq(Members) /\ memberList \in Seq(Members)
    BY <1>2, <1>5 DEF Thinned, TraceStateTypeOK
  <2>2. r \in Nat /\ n \in Nat  BY <2>1
  <2>3. r <= MaxMembers  BY <1>3, <1>4, <2>2
  <2>4. \A i \in 1..r : was[i] \in 1..n  BY <1>5 DEF Thinned
  <2>5. QED  BY <1>5, <2>1, <2>2, <2>3, <2>4 DEF Thinned
<1> HIDE DEF rest, e
<1>7. /\ memberList' \in Seq(Members) /\ Len(memberList') = m /\ m \in Nat \ {0}
      /\ memberList'[1] = <<k, v>>
      /\ \A i \in 2..m : memberList'[i] = rest[i - 1]
  BY <1>1, <1>6, InsertedIs
<1>8. DOMAIN memberList' = 1..m /\ m <= MaxMembers /\ m <= r + 1  BY <1>6, <1>7
<1>9. TraceStateTypeOK'  BY <1>1, <1>2, <1>7, EditAdded DEF TraceStateTypeOK
<1> HIDE DEF m
<1>10. ASSUME NEW x, Key(x) # k, AsEdited(x)
       PROVE  /\ AsEdited(x)' /\ LastEdit(Key(x))' = LastEdit(Key(x))
              /\ LastEdit(Key(x)) \in 1..Len(edits) /\ edits'[LastEdit(Key(x))].op = "insert"
              /\ edits'[LastEdit(Key(x))].key = Key(x)
  <2>1. EditsOf(Key(x)) # {}  BY <1>10 DEF AsEdited, Live
  <2>2. QED
    BY <1>1, <1>2, <1>10, <2>1, OthersKept, LastEditIs DEF AsEdited, Live
<1>11. ASSUME NEW i \in 1..r PROVE AsEdited(rest[i]) /\ Key(rest[i]) # k
  BY <1>3, <1>6
<1>12. /\ EditsOf(k)' # {} /\ LastEdit(k)' = Len(edits') /\ edits'[Len(edits')] = e
       /\ Len(edits') = Len(edits) + 1 /\ Len(edits) \in Nat
  BY <1>1, <1>2, EditAdded DEF TraceStateTypeOK
<1>13. Key(<<k, v>>) = k /\ <<k, v>>[2] = v  BY DEF Key
<1>14. ASSUME NEW i \in 1..m PROVE AsEdited(memberList[i])'
  <2>1. CASE i = 1
    <3>1. memberList'[i] = <<k, v>>  BY <1>7, <2>1
    <3>2. Live(k)' /\ edits'[LastEdit(k)'].value = v  BY <1>2, <1>12 DEF Live
    <3>3. AsEdited(<<k, v>>)'  BY <1>13, <3>2 DEF AsEdited
    <3>4. QED  BY <3>1, <3>3 DEF AsEdited, Live, EditsOf, LastEdit
  <2>2. CASE i # 1
    <3>1. PICK x : x = memberList'[i]  OBVIOUS
    <3>2. i - 1 \in 1..r /\ i \in 2..m  BY <1>6, <1>7, <1>8, <2>2
    <3>3. x = rest[i - 1]  BY <1>7, <3>1, <3>2
    <3>4. AsEdited(x)'  BY <1>10, <1>11, <3>2, <3>3
    <3>5. QED  BY <3>1, <3>4 DEF AsEdited, Live, EditsOf, LastEdit
  <2>3. QED  BY <2>1, <2>2
<1>15. ASSUME NEW i \in 1..m, NEW j \in 1..m, i < j
       PROVE  (LastEdit(Key(memberList[i])) > LastEdit(Key(memberList[j])))'
  <2>1. PICK x, y : x = memberList'[i] /\ y = memberList'[j]  OBVIOUS
  <2>2. j - 1 \in 1..r /\ j \in 2..m  BY <1>6, <1>7, <1>8, <1>15
  <2>3. y = rest[j - 1]  BY <1>7, <2>1, <2>2
  <2>4. Key(y) # k /\ AsEdited(y)  BY <1>11, <2>2, <2>3
  <2>5. LastEdit(Key(y))' = LastEdit(Key(y)) /\ LastEdit(Key(y)) \in 1..Len(edits)
    BY <1>10, <2>4
  <2>6. LastEdit(Key(x))' > LastEdit(Key(y))
    <3>1. CASE i = 1
      <4>1. Key(x) = k  BY <1>7, <1>13, <2>1, <3>1
      <4>2. LastEdit(Key(x))' = Len(edits) + 1  BY <1>12, <4>1
      <4>3. QED  BY <1>12, <2>5, <4>2
    <3>2. CASE i # 1
      <4>1. i - 1 \in 1..r /\ i \in 2..m /\ i - 1 < j - 1  BY <1>6, <1>7, <1>8, <1>15, <3>2
      <4>2. x = rest[i - 1]  BY <1>7, <2>1, <4>1
      <4>3. LastEdit(Key(x))' = LastEdit(Key(x))  BY <1>10, <1>11, <4>1, <4>2
      <4>4. LastEdit(Key(x)) > LastEdit(Key(y))  BY <1>3, <1>6, <2>2, <2>3, <4>1, <4>2
      <4>5. QED  BY <4>3, <4>4
    <3>3. QED  BY <3>1, <3>2
  <2>7. QED  BY <2>1, <2>5, <2>6 DEF LastEdit, EditsOf
<1>16. ASSUME NEW x \in MemberKeys, Live(x)', ~Has(memberList', x)
       PROVE  (Cardinality(InsertedSince(x)) >= MaxMembers)'
  <2>1. x # k
    <3>1. 1 \in DOMAIN memberList' /\ Key(memberList'[1]) = k  BY <1>7, <1>8, <1>13
    <3>2. QED  BY <1>16, <3>1 DEF Has, Places
  <2>2. Live(x)  BY <1>1, <1>2, <1>16, <2>1, OthersKept
  <2>3. CASE ~Has(memberList, x)
    <3>1. Cardinality(InsertedSince(x)) >= MaxMembers  BY <1>3, <2>2, <2>3
    <3>2. QED  BY <1>1, <1>2, <2>1, <3>1, SinceGrows
  <2>4. CASE Has(memberList, x)
    <3>1. PICK p \in 1..n : Key(memberList[p]) = x  BY <1>3, <2>4 DEF Has, Places
    <3>2. PICK q \in 1..r : was[q] = p  BY <1>6, <2>1, <3>1
    <3>3. rest[q] = memberList[p]  BY <1>6, <3>2
    <3>4. ~(q + 1 <= m)
      <4>1. SUFFICES ASSUME q + 1 <= m PROVE FALSE  OBVIOUS
      <4>2. q + 1 \in 2..m /\ q + 1 \in DOMAIN memberList' /\ (q + 1) - 1 = q
        BY <1>6, <1>7, <1>8, <4>1
      <4>3. memberList'[q + 1] = memberList[p]  BY <1>7, <3>3, <4>2
      <4>4. QED  BY <1>16, <3>1, <4>2, <4>3 DEF Has, Places
    <3>5. m = MaxMembers /\ q = MaxMembers /\ q = r  BY <1>6, <1>7, <3>4 DEF m
    <3> DEFINE l == LastEdit(x)
               I == InsertedSince(x)'
    <3>6. l \in 1..Len(edits) /\ l = LastEdit(x)'  BY <1>1, <1>2, <2>1, <2>2, OthersKept
    <3>7. ASSUME NEW i \in 1..m PROVE Key(memberList'[i]) \in I
      <4>1. \A j \in DOMAIN edits' : j > l /\ edits'[j].op = "insert" => edits'[j].key \in I
        BY <3>6 DEF InsertedSince
      <4>2. CASE i = 1
        <5>1. Len(edits') \in DOMAIN edits' /\ Len(edits') > l
          BY <1>9, <1>12, <3>6 DEF TraceStateTypeOK
        <5>2. k \in I  BY <1>2, <1>12, <4>1, <5>1
        <5>3. QED  BY <1>7, <1>13, <4>2, <5>2
      <4>3. CASE i # 1
        <5>1. PICK y : y = memberList'[i]  OBVIOUS
        <5>2. i - 1 \in 1..r /\ i \in 2..m /\ i - 1 < q  BY <1>6, <1>7, <1>8, <3>5, <4>3
        <5>3. y = rest[i - 1]  BY <1>7, <5>1, <5>2
        <5> DEFINE j == LastEdit(Key(y))
        <5>4. /\ j \in 1..Len(edits) /\ edits'[j].op = "insert" /\ edits'[j].key = Key(y)
          BY <1>10, <1>11, <5>2, <5>3
        <5>5. j > l  BY <1>3, <1>6, <3>1, <3>2, <3>3, <5>2, <5>3
        <5> HIDE DEF j
        <5>6. j \in DOMAIN edits'  BY <1>9, <1>12, <5>4 DEF TraceStateTypeOK
        <5>7. QED  BY <4>1, <5>1, <5>4, <5>5, <5>6
      <4>4. QED  BY <4>2, <4>3
    <3> HIDE DEF l, I
    <3> DEFINE f == [i \in 1..m |-> Key(memberList'[i])]
    <3>8. \A i, j \in 1..m : i < j => f[i] # f[j]
      <4> SUFFICES ASSUME NEW i \in 1..m, NEW j \in 1..m, i < j, f[i] = f[j] PROVE FALSE
        OBVIOUS
      <4>1. (LastEdit(Key(memberList[i])) > LastEdit(Key(memberList[j])))'  BY <1>15
      <4>2. PICK y : y = Key(memberList'[i]) /\ y = Key(memberList'[j])  OBVIOUS
      <4>3. LastEdit(y)' > LastEdit(y)'  BY <4>1, <4>2 DEF LastEdit, EditsOf
      <4>4. AsEdited(memberList[i])'  BY <1>14
      <4>5. Live(y)'  BY <4>2, <4>4 DEF AsEdited, Live, LastEdit, EditsOf
      <4>6. LastEdit(y)' \in Int
        <5>1. CASE y = k  BY <1>12, <5>1
        <5>2. CASE y # k
          <6>1. Live(y)  BY <1>1, <1>2, <4>5, <5>2, OthersKept
          <6>2. QED  BY <1>1, <1>2, <5>2, <6>1, OthersKept
        <5>3. QED  BY <5>1, <5>2
      <4>7. QED  BY <4>3, <4>6
    <3>9. f \in Injection(1..m, I)
      <4>1. f \in [1..m -> I]  BY <3>7
      <4>2. \A i, j \in 1..m : f[i] = f[j] => i = j  BY <1>7, <3>8
      <4> HIDE DEF f
      <4>3. QED  BY <4>1, <4>2 DEF Injection, IsInjective
    <3>10. IsFiniteSet(I)  BY <1>1, <1>2, <2>1, SinceGrows DEF I
    <3>11. Cardinality(1..m) = m
      <4>1. m \in Int /\ ~ (1 > m)  BY <1>7
      <4> HIDE DEF m
      <4>2. Cardinality(1..m) = m - 1 + 1  BY <4>1, FS_Interval
      <4>3. QED  BY <4>1, <4>2
    <3> HIDE DEF f
    <3>12. Cardinality(I) >= m
      <4>1. Cardinality(1..m) <= Cardinality(I) /\ Cardinality(I) \in Nat
        BY <3>9, <3>10, FS_Injection, FS_CardinalityType
      <4>2. QED  BY <1>7, <3>11, <4>1
    <3>13. QED  BY <3>5, <3>12 DEF I
  <2>5. QED  BY <2>3, <2>4
<1>17. TraceStateAsDefined'
  BY <1>7, <1>8, <1>14, <1>15, <1>16 DEF TraceStateAsDefined
<1>18. QED  BY <1>9, <1>17 DEF TraceStateIInv

(* A trace state conforms to the specification after any edits of any      *)
(* header, whatever number of members is allowed.                          *)
THEOREM TraceStateConforms == TraceStateSpec => []TraceStateAsDefined
<1>1. TraceStateIInv /\ [TraceStateNext]_tsVars => TraceStateIInv'
  <2> SUFFICES ASSUME TraceStateIInv, [TraceStateNext]_tsVars PROVE TraceStateIInv'
    OBVIOUS
  <2>1. CASE UNCHANGED tsVars
    <3>1. memberList' = memberList /\ edits' = edits  BY <2>1 DEF tsVars
    <3>2. TraceStateTypeOK'  BY <3>1 DEF TraceStateIInv, TraceStateTypeOK
    <3>3. \A k : Live(k)' = Live(k) /\ InsertedSince(k)' = InsertedSince(k)
                 /\ LastEdit(k)' = LastEdit(k)
      BY <3>1 DEF Live, LastEdit, EditsOf, InsertedSince
    <3>4. ASSUME NEW i \in DOMAIN memberList PROVE AsEdited(memberList[i])'
      <4>1. AsEdited(memberList[i])  BY DEF TraceStateIInv, TraceStateAsDefined
      <4>2. QED  BY <3>1, <4>1 DEF AsEdited, Live, LastEdit, EditsOf
    <3>5. ASSUME NEW i \in DOMAIN memberList, NEW j \in DOMAIN memberList, i < j
          PROVE  (LastEdit(Key(memberList[i])) > LastEdit(Key(memberList[j])))'
      <4>1. LastEdit(Key(memberList[i])) > LastEdit(Key(memberList[j]))
        BY <3>5 DEF TraceStateIInv, TraceStateAsDefined
      <4>2. QED  BY <3>1, <4>1 DEF LastEdit, EditsOf
    <3>6. QED  BY <3>1, <3>2, <3>3, <3>4, <3>5 DEF TraceStateIInv, TraceStateAsDefined
  <2>2. QED
    BY <2>1, MemberDeleted, MemberInserted DEF TraceStateNext, TraceStateOver
<1>2. TraceStateIInv => TraceStateAsDefined  BY DEF TraceStateIInv
<1>3. QED  BY <1>1, <1>2, TraceStateStart, PTL DEF TraceStateSpec

HIDE TraceStateAssumption

=============================================================================
