---------------------------- MODULE Normalization ----------------------------
(***************************************************************************)
(* internal/attrnorm: the duplicate keys of maps, at any depth, give way   *)
(* to the last value of each (dedup.go), and strings and byte slices, at   *)
(* any depth, are cut to a limit (truncate.go).                            *)
(*                                                                         *)
(* A value is a record with one field, named for its type.  A string is    *)
(* the sequence of its characters, in which "ill" is a byte that is not    *)
(* valid UTF-8, "wide" a character of two bytes and "mark" U+FFFD, of      *)
(* three; all others have one.  A byte slice is its length.  A map is the  *)
(* list of its entries as attribute.MapValue sorts them, stably by key.    *)
(***************************************************************************)
EXTENDS Attributes

CONSTANT ValueLimit   (* AttributeValueLengthLimit                         *)

IsOf(v, type) == type \in DOMAIN v

StringOf(s) == [string |-> s]
MapOf(list) == [map |-> Sorted(list)]

-----------------------------------------------------------------------------
(* Equal keys are a run of the sorted entries; the last of it is kept.     *)
RunEnds(list) ==
  SelectSeq([i \in DOMAIN list |-> i],
            LAMBDA i : i = Len(list) \/ Key(list[i + 1]) # Key(list[i]))

RECURSIVE Deduplicated(_)
Deduplicated(v) ==
  CASE IsOf(v, "slice") -> [slice |-> [i \in DOMAIN v.slice |-> Deduplicated(v.slice[i])]]
    [] IsOf(v, "map") ->
         LET ends == RunEnds(v.map)
         IN  MapOf([i \in DOMAIN ends |->
                      <<Key(v.map[ends[i]]), Deduplicated(v.map[ends[i]][2])>>])
    [] OTHER -> v

-----------------------------------------------------------------------------
ByteSize(c) == IF c = "wide" THEN 2 ELSE IF c = "mark" THEN 3 ELSE 1
Bytes(s) == FoldLeft(LAMBDA n, c : n + ByteSize(c), 0, s)

Excluding(s, c) == SelectSeq(s, LAMBDA d : d # c)
WellEncoded(s) == "ill" \notin ToSet(s)

(* The first pass goes on to the first byte that is not valid, and cuts    *)
(* before the character that exceeds the limit; it does not count U+FFFD.  *)
(* The second appends what is valid behind, up to the limit.  The buffer   *)
(* between them has no capacity if it was to hold no byte, which passes    *)
(* for a string without a byte that is not valid.                          *)
Counted(s) == Len(Excluding(s, "mark"))

CutString(s) ==
  LET firstIll == SelectInSeq(s, LAMBDA c : c = "ill")
      looked == IF WellEncoded(s) THEN s ELSE SubSeq(s, 1, firstIll - 1)
      behind == SubSeq(s, Len(looked) + 1, Len(s))
      beyond == {i \in DOMAIN looked : Counted(SubSeq(looked, 1, i)) > ValueLimit}
  IN  IF ValueLimit < 0 \/ Bytes(s) <= ValueLimit THEN s
      ELSE IF beyond # {} THEN SubSeq(s, 1, Min(beyond) - 1)
      ELSE IF WellEncoded(s) \/ Bytes(s) = 1 THEN s
      ELSE looked \o UpTo(ValueLimit - Counted(looked), Excluding(behind, "ill"))

StringNeedsCut(s) ==
  ValueLimit >= 0 /\ Bytes(s) > ValueLimit /\ (Len(s) > ValueLimit \/ ~WellEncoded(s))

RECURSIVE NeedsTruncation(_)
NeedsTruncation(v) ==
  CASE IsOf(v, "string")  -> StringNeedsCut(v.string)
    [] IsOf(v, "bytes")   -> ValueLimit >= 0 /\ v.bytes > ValueLimit
    [] IsOf(v, "strings") -> \E s \in ToSet(v.strings) : StringNeedsCut(s)
    [] IsOf(v, "slice")   -> \E e \in ToSet(v.slice) : NeedsTruncation(e)
    [] IsOf(v, "map")     -> \E a \in ToSet(v.map) : NeedsTruncation(a[2])
    [] OTHER              -> FALSE

(* Slices and maps in which nothing needs to be cut are left alone.        *)
RECURSIVE TruncateValue(_)
TruncateValue(v) ==
  CASE ValueLimit < 0      -> v
    [] IsOf(v, "string")  -> StringOf(CutString(v.string))
    [] IsOf(v, "bytes")   -> [bytes |-> Min({ValueLimit, v.bytes})]
    [] IsOf(v, "strings") ->
         [strings |-> [i \in DOMAIN v.strings |-> CutString(v.strings[i])]]
    [] IsOf(v, "slice") /\ NeedsTruncation(v) ->
         [slice |-> [i \in DOMAIN v.slice |-> TruncateValue(v.slice[i])]]
    [] IsOf(v, "map") /\ NeedsTruncation(v) ->
         MapOf([i \in DOMAIN v.map |-> <<Key(v.map[i]), TruncateValue(v.map[i][2])>>])
    [] OTHER              -> v

(* dedupAttr and Truncate of a span, applyAttrLimitsAndDedup of a record.  *)
NormalForm(v) == TruncateValue(Deduplicated(v))

-----------------------------------------------------------------------------
(* The same without an algorithm: a string with more bytes than the limit  *)
(* is the first valid characters of it, as many as the limit; a map has    *)
(* each key once, in order, with the value given last.                     *)
Shortened(s) ==
  IF ValueLimit < 0 \/ Bytes(s) <= ValueLimit THEN s
  ELSE UpTo(ValueLimit, Excluding(s, "ill"))

RECURSIVE CanonicalForm(_)
CanonicalForm(v) ==
  CASE IsOf(v, "string")  -> StringOf(Shortened(v.string))
    [] IsOf(v, "bytes")   ->
         [bytes |-> IF ValueLimit < 0 THEN v.bytes ELSE Min({ValueLimit, v.bytes})]
    [] IsOf(v, "strings") ->
         [strings |-> [i \in DOMAIN v.strings |-> Shortened(v.strings[i])]]
    [] IsOf(v, "slice")   ->
         [slice |-> [i \in DOMAIN v.slice |-> CanonicalForm(v.slice[i])]]
    [] IsOf(v, "map")     ->
         LET keys == SetToSortSeq(KeysOf(v.map), <)
         IN  [map |-> [i \in DOMAIN keys |->
                         <<keys[i], CanonicalForm(LastOf(v.map, keys[i])[2])>>]]
    [] OTHER              -> v
=============================================================================
