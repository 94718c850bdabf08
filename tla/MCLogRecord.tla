----------------------------- MODULE MCLogRecord -----------------------------
(* LogRecord for TLC, with values that attrnorm leaves alone, cuts, or     *)
(* removes duplicates from.  Keys 1 and 2 are those of an exception.       *)
EXTENDS LogRecord

CONSTANT MCValueLimit

AtLimit(ValueLimit) == INSTANCE Normalization

(* What the names of the values stand for.                                 *)
Meaning ==
  LET Text(s) == [string |-> s]
      Map(list) == AtLimit(MCValueLimit)!MapOf(list)
  IN  [short    |-> Text(<<"x">>),
       long     |-> Text(<<"x", "y", "x">>),
       cut      |-> Text(<<"x", "y">>),
       wide     |-> Text(<<"wide", "wide", "x">>),
       wideCut  |-> Text(<<"wide", "wide">>),
       ill      |-> Text(<<"x", "ill", "wide", "y">>),
       illCut   |-> Text(<<"x", "wide">>),
       worse    |-> Text(<<"ill", "x", "ill">>),
       bytes    |-> [bytes |-> 3],
       bytesCut |-> [bytes |-> 2],
       texts    |-> [strings |-> <<<<"x">>, <<"wide", "x", "y">>, <<"ill">>>>],
       textsCut |-> [strings |-> <<<<"x">>, <<"wide", "x">>, <<"ill">>>>],
       repeated |-> Map(<<<<1, Text(<<"x", "y", "x">>)>>, <<1, Text(<<"y", "ill", "wide">>)>>>>),
       single   |-> Map(<<<<1, Text(<<"y", "wide">>)>>>>),
       nested   |-> Map(<<<<2, Text(<<"x">>)>>, <<1, Text(<<"y">>)>>,
                          <<2, [slice |-> <<Text(<<"x", "y", "x">>),
                                            Map(<<<<1, Text(<<"x">>)>>, <<1, Text(<<"y">>)>>>>)>>]>>>>),
       flat     |-> Map(<<<<1, Text(<<"y">>)>>,
                          <<2, [slice |-> <<Text(<<"x", "y">>), Map(<<<<1, Text(<<"y">>)>>>>)>>]>>>>)]

MCNorm ==
  [short |-> "short", long |-> "cut", wide |-> "wideCut", ill |-> "illCut", worse |-> "short",
   bytes |-> "bytesCut", single |-> "single", texts |-> "textsCut", repeated |-> "single", nested |-> "flat"]
MCCanonical == MCNorm

(* The table above is what attrnorm computes.                              *)
ASSUME NormAsComputed ==
  \A v \in DOMAIN MCNorm :
    AtLimit(MCValueLimit)!NormalForm(Meaning[v]) = Meaning[MCNorm[v]]

(* For strings of up to four characters, lists of them, and lists of up to *)
(* three entries of a map, in a slice, attrnorm computes what it should:   *)
(* but for a byte that is not valid UTF-8 alone in its string, which stays *)
(* where no byte should.  U+FFFD is not among them: it is not counted, and *)
(* a string of it is never cut.                                            *)
SmallStrings == SeqOf({"x", "y", "wide", "ill"}, 4)
SmallValues ==
  {[string |-> s] : s \in SmallStrings}
    \cup {[strings |-> <<s, t>>] : s \in {<<"x">>, <<"ill">>}, t \in SmallStrings}
    \cup {[bytes |-> n] : n \in 0..4}
    \cup {[slice |-> <<[string |-> <<"x", "y">>], AtLimit(0)!MapOf(list)>>] :
            list \in SeqOf({1, 2} \X {Meaning.long, Meaning.ill, Meaning.nested}, 3)}

ASSUME NormalIsCanonical ==
  \A n \in -1..3, v \in SmallValues :
    \/ AtLimit(n)!NormalForm(v) = AtLimit(n)!CanonicalForm(v)
    \/ n = 0 /\ v \in [string : {<<"ill">>}]
    \/ n = 0 /\ DOMAIN v = {"strings"} /\ <<"ill">> \in ToSet(v.strings)

MCLimits == {-1, 0, 1, 3}

MCRecordLists ==
  {<<<<1, "short">>>>, <<<<2, "long">>>>, <<<<3, "short">>>>, <<<<3, "nested">>>>,
   <<<<4, "repeated">>, <<3, "wide">>>>,
   <<<<3, "short">>, <<1, "ill">>, <<3, "bytes">>>>,
   <<<<1, "bytes">>, <<4, "wide">>, <<5, "texts">>>>}
=============================================================================
