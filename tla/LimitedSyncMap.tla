---------------------------- MODULE LimitedSyncMap ----------------------------
(***************************************************************************)
(* limitedSyncMap of sdk/metric/internal/aggregate/atomic.go: the series   *)
(* of an instrument, one for each attribute set, up to a limit, past which *)
(* all new sets share the overflow series.  LoadOrStoreAttr first looks    *)
(* without a lock, twice, and then again under lenMux.                     *)
(*                                                                         *)
(* A series is stored once and never replaced, so the key stands for it.   *)
(***************************************************************************)
EXTENDS Integers, FiniteSets

CONSTANTS
  Maps,       (* the maps: one of a cumulative aggregation, two of a delta *)
  Calls,      (* the calls of LoadOrStoreAttr                              *)
  AttrOf,     (* the attribute set of each call                            *)
  Overflow,   (* overflowSet                                               *)
  Limit,      (* aggLimit; no limit if it is not positive                  *)
  None        (* no call, no series                                        *)

ASSUME MapAssumption ==
  /\ Limit \in Int
  /\ None \notin Calls \union {Overflow} \union {AttrOf[c] : c \in Calls}

VARIABLES
  table,      (* the keys of each sync.Map                                 *)
  len,        (* limitedSyncMap.len of each                                *)
  mux,        (* the call that holds lenMux of each                        *)
  call,       (* where each call is                                        *)
  at,         (* the map each call is made on                              *)
  key,        (* the key a call is about to store                          *)
  series      (* the series each call has returned                         *)

mapVars == <<table, len, mux, call, at, key, series>>

CallPhases == {"idle", "overflow", "lock", "store", "returned"}
Keys == {AttrOf[c] : c \in Calls} \union {Overflow}

MapInit ==
  /\ table = [m \in Maps |-> {}] /\ len = [m \in Maps |-> 0]
  /\ mux = [m \in Maps |-> None]
  /\ call = [c \in Calls |-> "idle"]
  /\ at \in [Calls -> Maps]
  /\ key = [c \in Calls |-> None]
  /\ series = [c \in Calls |-> None]

Return(c, k) ==
  /\ call' = [call EXCEPT ![c] = "returned"]
  /\ series' = [series EXCEPT ![c] = k]

GoTo(c, phase) == call' = [call EXCEPT ![c] = phase] /\ UNCHANGED series

(* The first load, of the call's own set.                                  *)
LoadOwn(c, m) ==
  /\ call[c] = "idle"
  /\ at' = [at EXCEPT ![c] = m]
  /\ IF AttrOf[c] \in table[m] THEN Return(c, AttrOf[c]) ELSE GoTo(c, "overflow")
  /\ UNCHANGED <<table, len, mux, key>>

(* The second load, of the overflow set.                                   *)
LoadOverflow(c) ==
  /\ call[c] = "overflow"
  /\ IF Overflow \in table[at[c]] THEN Return(c, Overflow) ELSE GoTo(c, "lock")
  /\ UNCHANGED <<table, len, mux, at, key>>

Full_OneTooMany(m) == Limit > 0 /\ len[m] >= Limit
Full_OneTooFew(m) == Limit > 0 /\ len[m] >= Limit - 2
Full(m) == Limit > 0 /\ len[m] >= Limit - 1

(* Under the lock: the own set again, then the choice of the key.          *)
Lock(c) ==
  LET m == at[c] IN
  /\ call[c] = "lock" /\ mux[m] = None
  /\ IF AttrOf[c] \in table[m]
       THEN Return(c, AttrOf[c]) /\ UNCHANGED <<mux, key>>
       ELSE /\ GoTo(c, "store")
            /\ mux' = [mux EXCEPT ![m] = c]
            /\ key' = [key EXCEPT ![c] = IF Full(m) THEN Overflow ELSE AttrOf[c]]
  /\ UNCHANGED <<table, len, at>>

Grown(c) == IF key[c] \in table[at[c]] THEN len[at[c]] ELSE len[at[c]] + 1

(* LoadOrStore, len++ and the unlock.                                      *)
Store(c) ==
  LET m == at[c] IN
  /\ call[c] = "store"
  /\ table' = [table EXCEPT ![m] = @ \union {key[c]}]
  /\ len' = [len EXCEPT ![m] = Grown(c)]
  /\ mux' = [mux EXCEPT ![m] = None]
  /\ Return(c, key[c])
  /\ UNCHANGED <<at, key>>

Clear(m) ==
  /\ mux[m] = None
  /\ table' = [table EXCEPT ![m] = {}]
  /\ len' = [len EXCEPT ![m] = 0]
  /\ UNCHANGED <<mux, call, at, key, series>>

MapNext ==
  \/ \E c \in Calls :
       \/ \E m \in Maps : LoadOwn(c, m)
       \/ LoadOverflow(c) \/ Lock(c) \/ Store(c)
  \/ \E m \in Maps : Clear(m)

MapSpec == MapInit /\ [][MapNext]_mapVars

-----------------------------------------------------------------------------
MapTypeOK ==
  /\ table \in [Maps -> SUBSET Keys] /\ len \in [Maps -> Nat]
  /\ mux \in [Maps -> Calls \union {None}]
  /\ call \in [Calls -> CallPhases] /\ at \in [Calls -> Maps]
  /\ key \in [Calls -> Keys \union {None}]
  /\ series \in [Calls -> Keys \union {None}]

(* len, which no atomic operation ties to the map, is its size, also when  *)
(* several calls reach the lock for the same set or for the overflow set:  *)
(* collect sizes its result with it and would index past the end.          *)
LenExact == \A m \in Maps : len[m] = Cardinality(table[m])

(* The map never holds more series than the limit, the overflow series     *)
(* included.                                                               *)
WithinLimit == Limit > 0 => \A m \in Maps : Cardinality(table[m]) <= Limit

(* Why: one place is kept for the overflow series, and the lock is held    *)
(* from the choice of the key to the store, so that the choice stays right.*)
OwnWithinLimit ==
  Limit > 0 => \A m \in Maps : Cardinality(table[m] \ {Overflow}) <= Limit - 1

ChoiceHolds ==
  \A c \in Calls :
    call[c] = "store" => /\ mux[at[c]] = c
                         /\ key[c] = IF Full(at[c]) THEN Overflow ELSE AttrOf[c]

TablesFinite == \A m \in Maps : IsFiniteSet(table[m])

MapInv == MapTypeOK /\ TablesFinite /\ LenExact /\ OwnWithinLimit /\ ChoiceHolds

(* If the application never measures with the overflow set itself, the     *)
(* overflow series is proof that the map was full.                         *)
OverflowSetUnused == \A c \in Calls : AttrOf[c] # Overflow

OwnFull(m) == Limit > 0 /\ Cardinality(table[m] \ {Overflow}) >= Limit - 1

OverflowMeansFull == \A m \in Maps : Overflow \in table[m] => OwnFull(m)

Diverts(c) == series[c] # Overflow /\ series'[c] = Overflow /\ AttrOf[c] # Overflow

(* "If the aggregation limit is exceeded, overflowSet is used": a call     *)
(* loses its own series only when the map has no room for another.         *)
OverflowOnlyWhenFull ==
  [][\A c \in Calls : Diverts(c) => OwnFull(at[c])]_mapVars

(* "re-fetch now that we hold the lock to ensure we don't use the overflow *)
(* set unless we are sure the attribute set isn't being written            *)
(* concurrently": a call gets the overflow series only if its own set has  *)
(* no series.                                                              *)
OverflowOnlyIfAbsent ==
  [][\A c \in Calls : Diverts(c) => AttrOf[c] \notin table[at[c]]]_mapVars
=============================================================================
