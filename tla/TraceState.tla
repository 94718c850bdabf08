------------------------------ MODULE TraceState ------------------------------
(***************************************************************************)
(* TraceState of trace/tracestate.go: the list of members a trace context  *)
(* carries.  It is immutable, and the program keeps the one it got last.   *)
(* Members are pairs of a key and a value, as attributes are; that of a    *)
(* member or header that is not valid is Malformed.                        *)
(***************************************************************************)
EXTENDS Attributes

CONSTANTS
  Headers,      (* the lists of members a header may hold                  *)
  MemberKeys,   (* the keys of members                                     *)
  MemberValues, (* their values                                            *)
  MaxMembers,   (* maxListMembers                                          *)
  Malformed,    (* what is not a member                                    *)
  MaxEdits      (* bound on the number of edits                            *)

ASSUME TraceStateAssumption ==
  /\ MaxMembers \in Nat \ {0}
  /\ Headers \subseteq Seq((MemberKeys \X MemberValues) \union {Malformed})

VARIABLES
  memberList,   (* TraceState.list                                         *)
  edits         (* history: the members inserted and the keys deleted,     *)
                (* after those of the header, last one first               *)

tsVars == <<memberList, edits>>

(* ParseTraceState: an error gives the empty list.                         *)
Accepts(list) ==
  /\ \A i \in DOMAIN list : list[i] # Malformed
  /\ \A i, j \in DOMAIN list : i # j => Key(list[i]) # Key(list[j])
  /\ Len(list) <= MaxMembers

Parse(list) == IF Accepts(list) THEN list ELSE <<>>

InsertOf(k, v) == [op |-> "insert", key |-> k, value |-> v]
DeleteOf(k) == [op |-> "delete", key |-> k]

TraceStateInit ==
  \E list \in Headers :
    /\ memberList = Parse(list)
    /\ edits = Reverse([i \in DOMAIN memberList |-> InsertOf(memberList[i][1], memberList[i][2])])

(* Insert puts the member in front; it takes the place of one with the     *)
(* same key or, if the list is full, of the last one.                      *)
Without(k) ==
  IF Has(memberList, k) THEN RemoveAt(memberList, Min(Places(memberList, k))) ELSE memberList

Inserted_NoLimit(k, v) == <<<<k, v>>>> \o Without(k)
Inserted(k, v) == UpTo(MaxMembers, <<<<k, v>>>> \o Without(k))

Insert(k, v) ==
  /\ Len(edits) < MaxEdits
  /\ memberList' = Inserted(k, v)
  /\ edits' = Append(edits, InsertOf(k, v))

Delete(k) ==
  /\ Len(edits) < MaxEdits
  /\ memberList' = Without(k)
  /\ edits' = Append(edits, DeleteOf(k))

TraceStateOver == Len(edits) >= MaxEdits /\ UNCHANGED tsVars

TraceStateNext ==
  \/ \E k \in MemberKeys : Delete(k) \/ \E v \in MemberValues : Insert(k, v)
  \/ TraceStateOver

TraceStateSpec == TraceStateInit /\ [][TraceStateNext]_tsVars

-----------------------------------------------------------------------------
EditsOf(k) == {i \in DOMAIN edits : edits[i].key = k}
LastEdit(k) == Max(EditsOf(k))
Live(k) == EditsOf(k) # {} /\ edits[LastEdit(k)].op = "insert"

(* A member as it was edited last, and the keys inserted since then.       *)
AsEdited(m) == Live(Key(m)) /\ edits[LastEdit(Key(m))].value = m[2]
InsertedSince(k) ==
  {edits[i].key : i \in {j \in DOMAIN edits : j > LastEdit(k) /\ edits[j].op = "insert"}}

(* A trace state conforms to the specification: no key twice and no more   *)
(* members than allowed, the one edited last in front, each with its last  *)
(* value; and a key inserted and not deleted is missing only if as many    *)
(* others as fit have been inserted since.                                 *)
TraceStateAsDefined ==
  /\ Len(memberList) <= MaxMembers
  /\ \A i \in DOMAIN memberList : AsEdited(memberList[i])
  /\ \A i, j \in DOMAIN memberList :
       i < j => LastEdit(Key(memberList[i])) > LastEdit(Key(memberList[j]))
  /\ \A k \in MemberKeys :
       Live(k) /\ ~Has(memberList, k) => Cardinality(InsertedSince(k)) >= MaxMembers
=============================================================================
