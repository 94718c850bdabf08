------------------------------ MODULE LogRecord ------------------------------
(***************************************************************************)
(* The attributes of logdata.Record (sdk/log/logdata/record.go): the first *)
(* ones in an array of fixed size, the others in a slice behind it, with a *)
(* limit on their number and a count of those dropped for it.  Logger      *)
(* .newRecord (sdk/log/logger.go) adds the attributes of a record one by   *)
(* one, and then what it derives from the error of the record.             *)
(***************************************************************************)
EXTENDS Attributes

CONSTANTS
  RecordLists,   (* the lists of attributes that may be added              *)
  Inline,        (* attributesInlineCount                                  *)
  RecordLimits,  (* the values attributeCountLimit may have                *)
  MessageKey,    (* exception.message                                      *)
  TypeKey,       (* exception.type                                         *)
  Derived,       (* a value derived from an error                          *)
  MaxAdds        (* bound on the number of calls                           *)

ASSUME RecordAssumption ==
  /\ Inline \in Nat \ {0} /\ RecordLimits \subseteq Int
  /\ MessageKey # TypeKey /\ Norm[Derived] = Canonical[Derived]
  /\ \A list \in RecordLists :
       /\ list \in Seq(ToSet(list))
       /\ \A a \in ToSet(list) : Norm[a[2]] = Canonical[a[2]]

VARIABLES
  countLimit,    (* Record.attributeCountLimit                             *)
  front,         (* the part of Record.front in use, nFront long           *)
  back,          (* Record.back                                            *)
  droppedCount,  (* Record.dropped                                         *)
  built,         (* newRecord has returned                                 *)
  given          (* history: the lists added since the last SetAttributes  *)

recordVars == <<countLimit, front, back, droppedCount, built, given>>

RecordInit ==
  /\ countLimit \in RecordLimits
  /\ front = <<>> /\ back = <<>> /\ droppedCount = 0
  /\ built = FALSE /\ given = <<>>

carried == front \o back

(* The attributes still missing in the array go there, the rest behind it. *)
InFront(list, free) == SubSeq(list, 1, Min({free, Len(list)}))
Behind(list, free) == SubSeq(list, free + 1, Len(list))

(* AddAttrs, which looks neither for duplicates nor at the limit.          *)
AddAttrs(f, b, list) ==
  LET free == Inline - Len(f) IN
  /\ front' = f \o NormalAll(InFront(list, free))
  /\ back' = b \o NormalAll(Behind(list, free))

(* Attributes there are already get the new value, as it is.               *)
Overwrite(s, list) ==
  [i \in DOMAIN s |-> IF Has(list, Key(s[i])) THEN LastOf(list, Key(s[i])) ELSE s[i]]

Room == Max({0, countLimit - Len(carried)})

(* head, and the truncation in AddAttributes.                              *)
Fitting(list) == IF countLimit < 0 THEN list ELSE UpTo(Room, list)

AddAttributes(list) ==
  LET new == Deduped(Filter(list, LAMBDA a : ~Has(carried, Key(a)))) IN
  /\ Len(given) < MaxAdds /\ (built \/ Len(list) = 1)
  /\ AddAttrs(Overwrite(front, list), Overwrite(back, list), Fitting(new))
  /\ droppedCount' = droppedCount + Len(new) - Len(Fitting(new))
  /\ given' = Append(given, list)
  /\ UNCHANGED <<countLimit, built>>

FreshCount == 0

SetAll(list) ==
  LET kept == UpTo(countLimit, Deduped(list)) IN
  /\ built /\ Len(given) < MaxAdds
  /\ AddAttrs(<<>>, <<>>, kept)
  /\ droppedCount' = FreshCount + Len(Deduped(list)) - Len(kept)
  /\ given' = <<list>>
  /\ UNCHANGED <<countLimit, built>>

(* The end of newRecord, for an error with a message or a type: what the   *)
(* application has not supplied itself is derived, as far as there is room.*)
Supplied_Never(k) == FALSE
Supplied(k) == Has(FlattenSeq(given), k)

Derive(keys) ==
  LET missing == Filter(<<MessageKey, TypeKey>>, LAMBDA k : k \in keys /\ ~Supplied(k))
      derived == Fitting([i \in DOMAIN missing |-> <<missing[i], Derived>>])
  IN  /\ ~built /\ built' = TRUE
      /\ AddAttrs(front, back, derived)
      /\ given' = IF derived = <<>> THEN given ELSE Append(given, derived)
      /\ UNCHANGED <<countLimit, droppedCount>>

RecordOver == built /\ Len(given) >= MaxAdds /\ UNCHANGED recordVars

RecordNext ==
  \/ \E list \in RecordLists : AddAttributes(list) \/ SetAll(list)
  \/ \E keys \in SUBSET {MessageKey, TypeKey} : Derive(keys)
  \/ RecordOver

RecordSpec == RecordInit /\ [][RecordNext]_recordVars

-----------------------------------------------------------------------------
(* Whether a key was there already when its last value was added.          *)
Overwritten(k) == Cardinality({j \in DOMAIN given : Has(given[j], k)}) > 1

(* Whatever path each call took, a record holds the keys in the order in   *)
(* which they were first added, up to the limit and each once, the array   *)
(* full before the slice is used, each with the value given last: cut and  *)
(* without duplicate keys in its maps, unless it replaced another value,   *)
(* which leaves it as it was given; and it has counted those of each call  *)
(* that did not fit.                                                       *)
RecordAsDefined ==
  LET all  == FlattenSeq(given)
      keys == UpTo(countLimit, FirstKeys(all))
      last(k) == LastOf(all, k)
      lost == [j \in DOMAIN given |-> Cardinality(KeysOf(given[j]) \ ToSet(keys))]
  IN  /\ carried = [i \in DOMAIN keys |->
                     IF Overwritten(keys[i]) THEN last(keys[i]) ELSE Meant(last(keys[i]))]
      /\ droppedCount = MapThenSumSet(LAMBDA j : lost[j], DOMAIN given)
      /\ back # <<>> => Len(front) = Inline

(* "The attribute value length limit recursively truncates string, string  *)
(* slice, byte slice, slice, and map attribute values", and maps have no   *)
(* duplicate keys: every attribute of a record is one of those given, with *)
(* its value as it should be.                                              *)
AttributesCanonical ==
  ToSet(carried) \subseteq {Meant(a) : a \in ToSet(FlattenSeq(given))}
=============================================================================
