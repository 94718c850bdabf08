------------------------------ MODULE SlogHandler ------------------------------
(***************************************************************************)
(* The slog handler of otelslog/handler.go: handlers derived from one      *)
(* another by WithAttrs and WithGroup, and calls of Handle that use one of *)
(* them at the same time.  Handlers share their groups and buffers, and    *)
(* append writes behind the end of a slice when its array has room: every  *)
(* array is taken to have it, unless the slice is clipped.                 *)
(* Attributes are pairs of a key and a value; a group is an attribute with *)
(* a list for its value, in the order it was built in.                     *)
(***************************************************************************)
EXTENDS Attributes

CONSTANTS
  Logs,        (* the calls of Handle                                      *)
  GivenTo,     (* the lists WithAttrs may be called with for handler n     *)
  OwnOf,       (* the lists of attributes a record may have, by call       *)
  GroupName,   (* the name of a group opened by handler n                  *)
  MaxHandlers, (* bound on the number of handlers                          *)
  Err          (* the value of an attribute that is an error, which is     *)
               (* known by its key                                         *)

NoErr == 0

IsError(a) == a[2] = Err

ASSUME SlogAssumption ==
  /\ MaxHandlers \in Nat
  /\ \A list \in UNION ({GivenTo[n] : n \in 1..MaxHandlers} \union {OwnOf[c] : c \in Logs}) :
       /\ list \in Seq(ToSet(list))
       /\ \A a \in ToSet(list) : IsError(a) => Key(a) # NoErr

VARIABLES
  heap,        (* the arrays of the buffers                                *)
  handlers,    (* the handlers, each with its buffer attrs, its groups,    *)
               (* the leaf first, and as history what it was given         *)
  log          (* where each call of Handle is, and what it has built      *)

slogVars == <<heap, handlers, log>>

NoBuffer == [at |-> 0, len |-> 0, err |-> NoErr]

ContentIn(h, b) == IF b.at = 0 THEN <<>> ELSE SubSeq(h[b.at], 1, b.len)
Content(b) == ContentIn(heap, b)

(* AddAttr: an error becomes that of the buffer, the last one wins.        *)
Converted(list) == Filter(list, LAMBDA a : ~IsError(a))
Errors(list) == {i \in DOMAIN list : IsError(list[i])}
LastError(list, before) ==
  IF Errors(list) = {} THEN before ELSE Key(list[Max(Errors(list))])

(* What a step on a buffer gives: the heap after it, and the buffer.       *)
Fresh(list, err) ==
  [heap |-> Append(heap, list), buffer |-> [at |-> Len(heap) + 1, len |-> Len(list), err |-> err]]

(* append, in the room behind the slice.                                   *)
AppendedTo(h, b, list) ==
  [heap |-> [h EXCEPT ![b.at] = SubSeq(@, 1, b.len) \o list
                                \o SubSeq(@, b.len + Len(list) + 1, Len(@))],
   buffer |-> [b EXCEPT !.len = @ + Len(list)]]

(* kvBuffer.Clone, or newKVBuffer where there is none.                     *)
Cloned_Shared(b) == IF b.at = 0 THEN Fresh(<<>>, NoErr) ELSE [heap |-> heap, buffer |-> b]
Cloned(b) == Fresh(Content(b), b.err)

(* kvBuffer.KeyValues: clipped, so that append takes another array.        *)
KeyValues_Unclipped(b, kvs) ==
  IF b.at = 0 THEN Fresh(kvs, NoErr) ELSE AppendedTo(heap, b, kvs)
KeyValues(b, kvs) == Fresh(Content(b) \o kvs, NoErr)

Idle == [phase |-> "idle", handler |-> 0, own |-> <<>>, level |-> 0,
         slice |-> NoBuffer, out |-> <<>>, attributes |-> <<>>, err |-> NoErr]

SlogInit ==
  /\ heap = <<>>
  /\ handlers = <<[attrs |-> NoBuffer, groups |-> <<>>, given |-> <<>>]>>
  /\ log = [c \in Logs |-> Idle]

(* WithAttrs: to the leaf group, or to the handler if there is none.       *)
WithAttrs(h, list) ==
  LET old    == handlers[h]
      target == IF old.groups = <<>> THEN old.attrs ELSE Head(old.groups).attrs
      copy   == Cloned(target)
      added  == AppendedTo(copy.heap, copy.buffer, Converted(list))
      buffer == [added.buffer EXCEPT !.err = LastError(list, @)]
      given  == Append(old.given, [group |-> FALSE, list |-> list])
  IN  /\ Len(handlers) < MaxHandlers
      /\ heap' = added.heap
      /\ handlers' = Append(handlers,
           IF old.groups = <<>>
             THEN [old EXCEPT !.attrs = buffer, !.given = given]
             ELSE [old EXCEPT !.groups[1].attrs = buffer, !.given = given])
      /\ UNCHANGED log

WithGroup(h, name) ==
  /\ Len(handlers) < MaxHandlers
  /\ handlers' = Append(handlers,
       [handlers[h] EXCEPT !.groups = <<[name |-> name, attrs |-> NoBuffer]>> \o @,
                           !.given = Append(@, [group |-> TRUE, list |-> <<name>>])])
  /\ UNCHANGED <<heap, log>>

(* The groups from place i on that have attributes; 0 if none has.         *)
NonEmptyFrom(groups, i) ==
  LET full == {j \in i..Len(groups) : groups[j].attrs.len > 0}
  IN  IF full = {} THEN 0 ELSE Min(full)

(* group.Err: the error of the innermost group that has one.               *)
GroupErr(groups) ==
  LET failed == {j \in DOMAIN groups : groups[j].attrs.err # NoErr}
  IN  IF failed = {} THEN NoErr ELSE groups[Min(failed)].attrs.err

(* SetErr is called in this order, and not for the absence of an error.    *)
ErrorOf(h, own) ==
  LET group == GroupErr(h.groups)
  IN  LastError(own, IF group # NoErr THEN group ELSE h.attrs.err)

(* convertRecord up to the groups: with attributes of the record the leaf  *)
(* group is rendered in any case, otherwise the first that is not empty.   *)
Handle(c, h, own) ==
  LET mine  == Converted(own)
      old   == handlers[h]
      first == IF old.groups = <<>> THEN 0
               ELSE IF mine # <<>> THEN 1 ELSE NonEmptyFrom(old.groups, 1)
  IN  /\ log[c].phase = "idle"
      /\ log' = [log EXCEPT ![c] =
           [phase |-> IF first = 0 THEN "emitted" ELSE "append", handler |-> h,
            own |-> own, level |-> first, slice |-> NoBuffer, out |-> mine,
            attributes |-> Content(old.attrs) \o IF old.groups = <<>> THEN mine ELSE <<>>,
            err |-> ErrorOf(old, own)]]
      /\ UNCHANGED <<heap, handlers>>

GroupOf(c) == handlers[log[c].handler].groups[log[c].level]

(* group.KeyValue: g.attrs.KeyValues makes a slice, and attribute.Map      *)
(* copies what is in it then.                                              *)
AppendLevel(c) ==
  LET made == KeyValues(GroupOf(c).attrs, log[c].out)
  IN  /\ log[c].phase = "append"
      /\ heap' = made.heap
      /\ log' = [log EXCEPT ![c].phase = "copy", ![c].slice = made.buffer]
      /\ UNCHANGED handlers

CopyLevel(c) ==
  LET group == <<GroupOf(c).name, Content(log[c].slice)>>
      next  == NonEmptyFrom(handlers[log[c].handler].groups, log[c].level + 1)
  IN  /\ log[c].phase = "copy"
      /\ log' = [log EXCEPT ![c].phase = IF next = 0 THEN "emitted" ELSE "append",
                            ![c].level = next, ![c].out = <<group>>,
                            ![c].attributes = IF next = 0 THEN Append(@, group) ELSE @]
      /\ UNCHANGED <<heap, handlers>>

SlogOver == (\A c \in Logs : log[c].phase = "emitted") /\ UNCHANGED slogVars

SlogNext ==
  \/ \E h \in DOMAIN handlers :
       \/ \E list \in GivenTo[Len(handlers)] : WithAttrs(h, list)
       \/ WithGroup(h, GroupName[Len(handlers)])
       \/ \E c \in Logs : \E own \in OwnOf[c] : Handle(c, h, own)
  \/ \E c \in Logs : AppendLevel(c) \/ CopyLevel(c)
  \/ SlogOver

SlogSpec == SlogInit /\ [][SlogNext]_slogVars

-----------------------------------------------------------------------------
(* What a handler was given and a record of its own amount to, from the    *)
(* innermost group to the outermost: a group without attributes of its own *)
(* is left out.  inner is what it holds, and whether any of it is its own. *)
Enclosed(inner, op) ==
  IF op.group
    THEN [list |-> IF inner.direct THEN <<<<op.list[1], inner.list>>>> ELSE inner.list,
          direct |-> FALSE]
    ELSE [list |-> Converted(op.list) \o inner.list,
          direct |-> inner.direct \/ Converted(op.list) # <<>>]

AsGiven(given, own) ==
  FoldLeft(Enclosed, [list |-> Converted(own), direct |-> Converted(own) # <<>>],
           Reverse(given)).list

LastGiven(given) ==
  LET failed == {i \in DOMAIN given : ~given[i].group /\ Errors(given[i].list) # {}}
  IN  IF failed = {} THEN NoErr ELSE LastError(given[Max(failed)].list, NoErr)

ErrorGiven(given, own) == LastError(own, LastGiven(given))

(* Each record has the attributes and the error that its handler was given *)
(* on the way from the first one, and its own: nothing of a handler that   *)
(* was derived from the same one, or of a record that was handled at the   *)
(* same time, though they share buffers.                                   *)
LoggedAsGiven ==
  \A c \in Logs : log[c].phase = "emitted" =>
    /\ log[c].attributes = AsGiven(handlers[log[c].handler].given, log[c].own)
    /\ log[c].err = ErrorGiven(handlers[log[c].handler].given, log[c].own)
=============================================================================
