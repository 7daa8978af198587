-------------------------- MODULE ProjectionIndex --------------------------
(***************************************************************************)
(* ProjectionIndex of core/src/doc.rs: the in-memory mirror of everything  *)
(* ordering-related, maintained incrementally by local mutations and by    *)
(* diff translation.                                                       *)
(*                                                                         *)
(* An index is a record:                                                   *)
(*   meta[id]        location, openness and creation time of item id       *)
(*   members[l]      items located in l                                    *)
(*   openMembers[l]  the open ones                                         *)
(*   raw[l]          mirror of order/l, for the lists that have one        *)
(*   open[l]         the open projection of l                              *)
(*   visible[l]      number of its entry-backed items                      *)
(* Every order entry parses and every location register is well formed:    *)
(* nothing in the repository writes another.                               *)
(***************************************************************************)
EXTENDS LoroDoc

EmptyIndex ==
  [meta |-> <<>>,
   members |-> [l \in List |-> {}],
   openMembers |-> [l \in List |-> {}],
   raw |-> <<>>,
   open |-> [l \in List |-> <<>>],
   visible |-> [l \in List |-> 0]]

RawOrder(x, l) == IF l \in DOMAIN x.raw THEN x.raw[l] ELSE <<>>

\* An entry is [item, pl].  It is visible when its placement is the item's
\* location and no earlier entry claimed the item.
VisibleIds(x, l) ==
  LET Claim(ids, e) ==
        IF /\ e.item \in DOMAIN x.meta
           /\ x.meta[e.item].list = l
           /\ x.meta[e.item].pl = e.pl
           /\ ~Contains(ids, e.item)
        THEN Append(ids, e.item)
        ELSE ids
  IN FoldLeft(Claim, <<>>, RawOrder(x, l))

ByCreation(x, ids) ==
  SetToSortSeq(ids, LAMBDA a, b :
    \/ x.meta[a].created < x.meta[b].created
    \/ x.meta[a].created = x.meta[b].created /\ a < b)

\* The fallback tail: items located in l that have no visible entry.
TailOf(x, l, seen) == ByCreation(x, x.members[l] \ seen)

\* Fault: an open item without entry is not shown.
NoTail(x, l, seen) == <<>>

OpenTail(x, l, seen) == ByCreation(x, x.openMembers[l] \ seen)

Resolved(x, l) ==
  LET ids == VisibleIds(x, l) IN ids \o TailOf(x, l, ToSet(ids))

RefreshOpen(x, l) ==
  LET ids == VisibleIds(x, l)
      shown == SelectSeq(ids, LAMBDA i : x.meta[i].open)
  IN [x EXCEPT !.visible[l] = Len(shown),
               !.open[l] = shown \o OpenTail(x, l, ToSet(ids))]

TailIsEmpty(x, l) == Cardinality(x.openMembers[l]) = x.visible[l]

BumpVisible(x, l, delta) == [x EXCEPT !.visible[l] = Max({0, @ + delta})]

SpliceOpenIn(x, l, id, at) ==
  [x EXCEPT !.open[l] = ClampedInsert(Remove(@, id), at, id)]

\* Fault: an item that closes stays in the array.
SpliceNothing(x, l, id) == x

SpliceOpenOut(x, l, id) == [x EXCEPT !.open[l] = Remove(@, id)]

\* Raw position (1-based, 0 when there is none) of the entry that makes the
\* item visible.
CanonicalRawPos(x, l, id) ==
  IF id \notin DOMAIN x.meta \/ x.meta[id].list # l THEN 0
  ELSE SelectInSeq(RawOrder(x, l),
                   LAMBDA e : e.item = id /\ e.pl = x.meta[id].pl)

EntryPositions(x, l, id) ==
  {p \in 1..Len(RawOrder(x, l)) : RawOrder(x, l)[p].item = id}

Append_ == 99           \* usize::MAX as a position: past the end of anything
Refresh == -1           \* open_pos: None, the caller must refresh_open

\* The position in seq that the caller's index speaks of, once exclude is
\* taken out of the count.
AnchorIndex(seq, target, exclude) ==
  LET c == PosOf(seq, exclude)
  IN IF c # 0 /\ c - 1 <= target THEN target + 1 ELSE target

\* The plan for an entry in front of the item at position a of seq, whose own
\* entry is at raw position p; target is what the caller asked for.
PlanAt(x, l, seq, a, p, target) ==
  [raw |-> IF p = 0 THEN Len(RawOrder(x, l)) ELSE p - 1,
   open |-> IF a < Len(seq) THEN (IF p = 0 THEN Refresh ELSE target)
            ELSE IF TailIsEmpty(x, l) THEN Append_
            ELSE Refresh]

PlanIn(x, l, seq, a, target) ==
  PlanAt(x, l, seq, a, IF a < Len(seq) THEN CanonicalRawPos(x, l, seq[a + 1]) ELSE 0, target)

\* Where an entry goes for the item to be the target-th of the list, and the
\* position it then has in the open projection.
PlanTarget(x, l, target, isOpen, exclude) ==
  IF isOpen THEN PlanIn(x, l, x.open[l], AnchorIndex(x.open[l], target, exclude), target)
  ELSE LET seq == Resolved(x, l)
       IN [PlanIn(x, l, seq, AnchorIndex(seq, target, exclude), target) EXCEPT !.open = Append_]

SetMeta(x, id, m) ==
  LET known == id \in DOMAIN x.meta
      old == x.meta[id]
      drop == IF known /\ old.list # m.list
              THEN [x EXCEPT !.members[old.list] = @ \ {id}] ELSE x
      dropOpen == IF known /\ old.open /\ (~m.open \/ old.list # m.list)
                  THEN [drop EXCEPT !.openMembers[old.list] = @ \ {id}] ELSE drop
  IN [dropOpen EXCEPT
        !.members[m.list] = @ \cup {id},
        !.openMembers[m.list] = IF m.open THEN @ \cup {id} ELSE @,
        !.meta = (id :> m) @@ @]

SetOpen(x, id, open) ==
  LET l == x.meta[id].list
  IN [x EXCEPT !.meta[id].open = open,
               !.openMembers[l] = IF open THEN @ \cup {id} ELSE @ \ {id}]

RemoveItem(x, id) ==
  IF id \notin DOMAIN x.meta THEN x
  ELSE [x EXCEPT !.members[x.meta[id].list] = @ \ {id},
                 !.openMembers[x.meta[id].list] = @ \ {id},
                 !.meta = [i \in DOMAIN @ \ {id} |-> @[i]]]

-----------------------------------------------------------------------------
(* The document the index mirrors *)

\* Workflow states are Backlog (for the open states without a stamp of their
\* own), InProgress and Done (for both closed states).
IsOpen(rec) == rec.binned = None /\ rec.life.state # "Done"

ItemMeta(rec) ==
  [list |-> rec.loc.list, pl |-> rec.loc.pl, open |-> IsOpen(rec), created |-> rec.created]

EntriesOf(d, l) == Project(Visible(d.seqs[l]), LAMBDA e : e.val)

\* The visible list rows: the first for each id.
AllLists(d) ==
  FoldLeft(LAMBDA rows, e : IF \E i \in 1..Len(rows) : rows[i].id = e.val.id
                            THEN rows ELSE Append(rows, e.val),
           <<>>, Visible(d.seqs["lists"]))

ListIds(d) == Project(AllLists(d), LAMBDA row : row.id)

ComputeIndex(d) ==
  LET metas == FoldLeft(LAMBDA x, i : SetMeta(x, i, ItemMeta(d.items[i])),
                        EmptyIndex, SetToSeq(DOMAIN d.items))
      candidates == {l \in List : metas.members[l] # {}}
                    \cup {Inbox} \cup ToSet(ListIds(d))
  IN FoldLeft(RefreshOpen,
              [metas EXCEPT !.raw = [l \in candidates |-> EntriesOf(d, l)]],
              SetToSeq(candidates))

\* ordered_list_ids: inbox, the user lists in order, then orphan list ids.
OrderedListIds(d, x) ==
  LET known == <<Inbox>> \o ListIds(d)
      orphans == {l \in List \ ToSet(known) : x.members[l] # {}}
  IN known \o (IF Events \in orphans THEN <<Events>> ELSE <<>>)
           \o SetToSeq(orphans \ {Events})

\* Every item in the canonical walk order.
IterItems(d, x) ==
  FoldLeft(LAMBDA ids, l : ids \o Resolved(x, l), <<>>, OrderedListIds(d, x))

\* find_list and visible_list_index: position of the first row with the id.
FindList(d, l) == SelectInSeq(Visible(d.seqs["lists"]), LAMBDA e : e.val.id = l)

VisibleListIndex(d, l) == PosOf(ListIds(d), l) - 1

AssertListExists(d, l) == l \in {Inbox, Events} \/ FindList(d, l) # 0
=============================================================================
