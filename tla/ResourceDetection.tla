-------------------------- MODULE ResourceDetection --------------------------
(***************************************************************************)
(* Detect of sdk/resource: runs the detectors one after the other and      *)
(* merges what each of them found into the resource, with the iterator of  *)
(* attribute/iterator.go that walks over two sorted sets.                  *)
(***************************************************************************)
EXTENDS Attributes

CONSTANTS
  Findings,   (* what a detector may return: its attributes, none for a    *)
              (* nil resource, and the error: "none", "partial" or "other" *)
  Unrepeated, (* each value without duplicate keys in its maps             *)
  IsUsable,   (* KeyValue.Valid, of each value                             *)
  MaxDetectors(* bound on the number of detectors                          *)

(* A value without duplicates has none left to go; and Valid looks at the  *)
(* key and the type of a value, which stay.                                *)
ASSUME ResourceAssumption ==
  /\ \A f \in Findings : f.list \in Seq(Int \X DOMAIN Unrepeated)
  /\ \A v \in DOMAIN Unrepeated :
       /\ Unrepeated[v] \in DOMAIN Unrepeated
       /\ Unrepeated[Unrepeated[v]] = Unrepeated[v]
       /\ IsUsable[Unrepeated[v]] <=> IsUsable[v]

VARIABLES
  resource,   (* the attributes of the resource, a set: sorted by key      *)
  faults,     (* the errors joined so far                                  *)
  found       (* history: what the detectors returned                      *)

resourceVars == <<resource, faults, found>>

(* NewSet, see AttributeSet.                                               *)
SetOf(s) ==
  LET keys == InOrder(KeysOf(s)) IN [i \in DOMAIN keys |-> LastOf(s, keys[i])]

(* newWithAttributes: duplicate keys within map values go, then attributes *)
(* that are not valid, then the duplicates among the others.               *)
Normalized(list) == [i \in DOMAIN list |-> <<Key(list[i]), Unrepeated[list[i][2]]>>]
Usable(list) == Filter(list, LAMBDA a : IsUsable[a[2]])
WithAttributes(list) == SetOf(Usable(Normalized(list)))

(* A MergeIterator over two sorted sets: the elements it looks at next,    *)
(* and what it has given so far.  Next takes the lesser one, or of two     *)
(* with the same key the first, and goes past both.                        *)
Ahead(w, one, two) ==
  w.i <= Len(one) /\ (w.j > Len(two) \/ Key(one[w.i]) <= Key(two[w.j]))
SameNext_Never(w, one, two) == FALSE
SameNext(w, one, two) ==
  w.i <= Len(one) /\ w.j <= Len(two) /\ Key(one[w.i]) = Key(two[w.j])

NextOf(w, one, two) ==
  IF Ahead(w, one, two)
    THEN [i |-> w.i + 1, j |-> IF SameNext(w, one, two) THEN w.j + 1 ELSE w.j,
          out |-> Append(w.out, one[w.i])]
    ELSE IF w.j <= Len(two) THEN [w EXCEPT !.j = @ + 1, !.out = Append(@, two[w.j])]
    ELSE w

(* Where it is after p calls of Next, and all that it gives.               *)
Iteration(one, two) ==
  LET walk[p \in Nat] ==
        IF p = 0 THEN [i |-> 1, j |-> 1, out |-> <<>>] ELSE NextOf(walk[p - 1], one, two)
  IN  walk
Walk(one, two) == Iteration(one, two)[Len(one) + Len(two)].out

(* Merge: the attributes of b win.                                         *)
Merged(a, b) == IF b = <<>> THEN a ELSE WithAttributes(Walk(b, a))

ResourceInit == resource = <<>> /\ faults = 0 /\ found = <<>>

(* A detector with an error other than a partial resource counts for       *)
(* nothing, whatever it returns.                                           *)
Detect(finding) ==
  /\ Len(found) < MaxDetectors
  /\ faults' = IF finding.error = "none" THEN faults ELSE faults + 1
  /\ resource' = IF finding.error = "other" THEN resource
                 ELSE Merged(resource, WithAttributes(finding.list))
  /\ found' = Append(found, finding)

ResourceOver == Len(found) = MaxDetectors /\ UNCHANGED resourceVars

ResourceNext == (\E f \in Findings : Detect(f)) \/ ResourceOver

ResourceSpec == ResourceInit /\ [][ResourceNext]_resourceVars

-----------------------------------------------------------------------------
(* What a detector has found, and the detectors that have found a key.     *)
Heard(finding) == IF finding.error = "other" THEN <<>> ELSE Usable(finding.list)
Finders(k) == {d \in DOMAIN found : Has(Heard(found[d]), k)}
LastFound(k) == LastOf(Heard(found[Max(Finders(k))]), k)

(* The resource holds each valid attribute that a detector found, with the *)
(* value of the last detector, and there the last one given, sorted by key *)
(* and each key once: whatever was merged in between, and though every     *)
(* merge goes over all attributes again.  "the resource produced by the    *)
(* detector will not be merged", if it failed, and the failure is told.    *)
ResourceAsDetected ==
  LET keys == InOrder(UNION {KeysOf(Heard(found[d])) : d \in DOMAIN found})
  IN  /\ resource = [i \in DOMAIN keys |-> <<keys[i], Unrepeated[LastFound(keys[i])[2]]>>]
      /\ (faults > 0) <=> (\E d \in DOMAIN found : found[d].error # "none")
=============================================================================
