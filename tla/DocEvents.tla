----------------------------- MODULE DocEvents -----------------------------
(***************************************************************************)
(* AppEvents: what core/src/doc.rs tells its consumers, how the consumer   *)
(* of js/web/src/sync/store.ts applies it, and how the search index of     *)
(* core/src/search.rs follows it.                                          *)
(*                                                                         *)
(* The event for a changed register is [kind |-> "field", id, f, v], for   *)
(* the five content registers of an item; ItemAdded carries the whole      *)
(* view; at is open_index, Append_ for None.                               *)
(***************************************************************************)
EXTENDS ProjectionIndex

ContentField == {"text", "notes", "deadline", "when", "dur", "place"}
LifeField == {"life", "started", "done", "binned"}
ViewField == {"list", "created"} \cup ContentField \cup LifeField

ItemView(rec) ==
  [f \in ViewField |-> IF f = "list" THEN rec.loc.list ELSE rec[f]]

\* A list row without its position.
RowView(row) == [f \in {"name", "icon", "view", "arch"} |-> row[f]]

ItemAdded(id, rec, at) == [kind |-> "ItemAdded", id |-> id, view |-> ItemView(rec), at |-> at]
ItemRemoved(id) == [kind |-> "ItemRemoved", id |-> id]
ItemMoved(id, at) == [kind |-> "ItemMoved", id |-> id, at |-> at]
ItemListChanged(id, l, at) == [kind |-> "ItemListChanged", id |-> id, list |-> l, at |-> at]
FieldChanged(id, f, v) == [kind |-> "field", id |-> id, f |-> f, v |-> v]
ItemLifecycleChanged(id, rec, at) ==
  [kind |-> "ItemLifecycleChanged", id |-> id, view |-> [f \in LifeField |-> rec[f]], at |-> at]
\* The event has neither the icon nor the default view of the row.
ListAdded(row, at) ==
  [kind |-> "ListAdded", id |-> row.id, row |-> [name |-> row.name, arch |-> row.arch], at |-> at]
ListRemoved(l) == [kind |-> "ListRemoved", id |-> l]
ListMoved(l, at) == [kind |-> "ListMoved", id |-> l, at |-> at]
RowChanged(l, f, v) == [kind |-> "row", id |-> l, f |-> f, v |-> v]
SettingsChanged(s) == [kind |-> "SettingsChanged", settings |-> s]
FocusChanged == [kind |-> "FocusChanged"]
FullResync == [kind |-> "FullResync"]

\* open_index as a position, Append_ when the item is not in the array.
OpenIndex(x, l, id) ==
  LET p == PosOf(x.open[l], id) IN IF p = 0 THEN Append_ ELSE p - 1

-----------------------------------------------------------------------------
(* Focus: a container of item ids.  A reference is live when it is the      *)
(* first to an open item.                                                   *)

FocusRef(i) == [item |-> i]

FocusRaw(d) == Project(Visible(d.seqs["focus"]), LAMBDA e : e.val.item)

ScanFocus(d, x) ==
  LET raw == FocusRaw(d)
      dead == {p \in 1..Len(raw) :
                 \/ raw[p] \notin DOMAIN x.meta
                 \/ ~x.meta[raw[p]].open
                 \/ \E q \in 1..(p - 1) : raw[q] = raw[p]}
  IN [entries |-> Without(raw, dead), dead |-> dead]

-----------------------------------------------------------------------------
(* The consumer *)

\* bare is history: the icons and views that a ListAdded left out and no later
\* event has told.
Snapshot(d, x) ==
  LET rows == AllLists(d)
  IN [items |-> [i \in DOMAIN d.items |-> ItemView(d.items[i])],
      open |-> [l \in List |-> SelectSeq(Resolved(x, l), LAMBDA i : IsOpen(d.items[i]))],
      order |-> ListIds(d),
      lists |-> [l \in ToSet(ListIds(d)) |-> RowView(rows[VisibleListIndex(d, l) + 1])],
      bare |-> {},
      settings |-> d.settings,
      focus |-> ScanFocus(d, x).entries,
      bin |-> Cardinality({i \in DOMAIN d.items : d.items[i].binned # None})]

ViewOpen(v) == v.binned = None /\ v.life.state # "Done"

Bin(v) == IF v.binned # None THEN 1 ELSE 0

InsertOpen(u, l, id, at) ==
  [u EXCEPT !.open[l] = ClampedInsert(Remove(@, id), at, id)]

RemoveOpen(u, l, id) == [u EXCEPT !.open[l] = Remove(@, id)]

SetView(u, id, v) == [u EXCEPT !.items = (id :> v) @@ @]

OnItemAdded(u, e) ==
  LET prev == u.items[e.id]
      known == e.id \in DOMAIN u.items
      out == IF known /\ ViewOpen(prev) THEN RemoveOpen(u, prev.list, e.id) ELSE u
      new == [SetView(out, e.id, e.view) EXCEPT
                !.bin = @ + Bin(e.view) - (IF known THEN Bin(prev) ELSE 0)]
  IN IF ViewOpen(e.view) THEN InsertOpen(new, e.view.list, e.id, e.at) ELSE new

OnItemRemoved(u, e) ==
  LET prev == u.items[e.id]
  IN [RemoveOpen(u, prev.list, e.id) EXCEPT
        !.items = [i \in DOMAIN @ \ {e.id} |-> @[i]],
        !.bin = @ - Bin(prev)]

OnLifecycleChanged(u, e) ==
  LET prev == u.items[e.id]
      next == e.view @@ prev
      moved == IF ViewOpen(prev) /\ ~ViewOpen(next) THEN RemoveOpen(u, prev.list, e.id)
               ELSE IF ~ViewOpen(prev) /\ ViewOpen(next)
                    THEN InsertOpen(u, prev.list, e.id, e.at)
               ELSE u
  IN [SetView(moved, e.id, next) EXCEPT !.bin = @ + Bin(next) - Bin(prev)]

OnListChanged(u, e) ==
  LET prev == u.items[e.id]
      next == [prev EXCEPT !.list = e.list]
  IN IF ViewOpen(prev)
     THEN InsertOpen(SetView(RemoveOpen(u, prev.list, e.id), e.id, next), e.list, e.id, e.at)
     ELSE SetView(u, e.id, next)

OnItemMoved(u, e) ==
  LET prev == u.items[e.id]
  IN IF ViewOpen(prev) /\ e.at # Append_ THEN InsertOpen(u, prev.list, e.id, e.at) ELSE u

\* Item events for an item the consumer does not have are ignored.
Dispatch(u, e) ==
  CASE e.kind = "ItemAdded" -> OnItemAdded(u, e)
    [] e.kind = "ListAdded" ->
         [u EXCEPT !.lists = (e.id :> ([icon |-> None, view |-> None] @@ e.row)) @@ @,
                   !.bare = @ \cup ({e.id} \X {"icon", "view"}),
                   !.order = ClampedInsert(Remove(@, e.id), e.at, e.id)]
    [] e.kind = "ListRemoved" ->
         [u EXCEPT !.lists = [l \in DOMAIN @ \ {e.id} |-> @[l]],
                   !.order = Remove(@, e.id),
                   !.open[e.id] = <<>>]
    [] e.kind = "ListMoved" ->
         IF Contains(u.order, e.id)
         THEN [u EXCEPT !.order = ClampedInsert(Remove(@, e.id), e.at, e.id)] ELSE u
    [] e.kind = "row" ->
         IF e.id \notin DOMAIN u.lists THEN u
         ELSE [u EXCEPT !.lists[e.id][e.f] = e.v, !.bare = @ \ {<<e.id, e.f>>}]
    [] e.kind = "SettingsChanged" -> [u EXCEPT !.settings = e.settings]
    [] e.kind = "FocusChanged" -> u
    [] OTHER ->
         IF e.id \notin DOMAIN u.items THEN u
         ELSE CASE e.kind = "ItemRemoved" -> OnItemRemoved(u, e)
                [] e.kind = "ItemMoved" -> OnItemMoved(u, e)
                [] e.kind = "field" -> [u EXCEPT !.items[e.id][e.f] = e.v]
                [] e.kind = "ItemLifecycleChanged" -> OnLifecycleChanged(u, e)
                [] e.kind = "ItemListChanged" -> OnListChanged(u, e)

\* drainEvents: a FullResync anywhere in the batch replaces the whole of it
\* by a snapshot; the focus order is read again after every batch.
DrainEvents(u, batch, d, x) ==
  IF batch = <<>> THEN u
  ELSE IF Contains(batch, FullResync) THEN Snapshot(d, x)
  ELSE [FoldLeft(Dispatch, u, batch) EXCEPT !.focus = ScanFocus(d, x).entries]

-----------------------------------------------------------------------------
(* Diffs of two whole states *)

\* Position of each open item among the open items of its list.
OpenPos(post, rec, i) ==
  IF ~IsOpen(rec[post[i]]) THEN Append_
  ELSE Cardinality({j \in 1..(i - 1) :
         IsOpen(rec[post[j]]) /\ rec[post[j]].loc.list = rec[post[i]].loc.list})

\* pre and post are the items in walk order, preRec and rec their records.
DiffItems(pre, preRec, post, rec) ==
  LET Gone == SelectSeq(pre, LAMBDA i : ~Contains(post, i))
      Changed(id, F) == \E f \in F : ItemView(preRec[id])[f] # ItemView(rec[id])[f]
      Fields(id) == SetToSeq({f \in ContentField : Changed(id, {f})})
      Of(k) ==
        LET id == post[k]
            at == OpenPos(post, rec, k)
        IN IF ~Contains(pre, id) THEN <<ItemAdded(id, rec[id], at)>>
           ELSE Project(Fields(id), LAMBDA f : FieldChanged(id, f, rec[id][f]))
                \o (IF Changed(id, LifeField)
                    THEN <<ItemLifecycleChanged(id, rec[id], at)>> ELSE <<>>)
                \o (IF Changed(id, {"list"})
                    THEN <<ItemListChanged(id, rec[id].loc.list, at)>> ELSE <<>>)
                \o (IF PosOf(pre, id) # k THEN <<ItemMoved(id, at)>> ELSE <<>>)
  IN FoldLeft(LAMBDA out, k : out \o Of(k), Project(Gone, ItemRemoved),
              [k \in 1..Len(post) |-> k])

DiffLists(pre, post) ==
  LET At(rows, l) == SelectInSeq(rows, LAMBDA r : r.id = l)
      Gone == SelectSeq(pre, LAMBDA r : At(post, r.id) = 0)
      Of(k) ==
        LET new == post[k]
            p == At(pre, new.id)
            Field(f) == IF pre[p][f] # new[f] THEN <<RowChanged(new.id, f, new[f])>> ELSE <<>>
        IN IF p = 0 THEN <<ListAdded(new, k - 1)>>
           ELSE Field("name") \o Field("icon") \o Field("view") \o Field("arch")
                \o (IF p # k THEN <<ListMoved(new.id, k - 1)>> ELSE <<>>)
  IN FoldLeft(LAMBDA out, k : out \o Of(k), Project(Gone, LAMBDA r : ListRemoved(r.id)),
              [k \in 1..Len(post) |-> k])

DiffSettings(pre, post) == IF pre # post THEN <<SettingsChanged(post)>> ELSE <<>>

\* emit_state_diff: from document d with index x to document e with index y.
StateDiff(d, x, e, y) ==
  DiffSettings(d.settings, e.settings)
  \o DiffLists(AllLists(d), AllLists(e))
  \o DiffItems(IterItems(d, x), d.items, IterItems(e, y), e.items)

-----------------------------------------------------------------------------
(* The search index: what is indexed for an item, for a list, and the ids   *)
(* that must be read again before the next query is answered                *)

NewSearch == [docs |-> <<>>, names |-> <<>>, all |-> TRUE, items |-> {}, lists |-> {}]

MarkAllDirty(s) == [s EXCEPT !.all = TRUE, !.items = {}, !.lists = {}]

\* Fault: an item that changed lists keeps its context.
DirtyUnlessMoved == {"ItemAdded", "ItemRemoved", "ItemLifecycleChanged"}

DirtyKinds == {"ItemAdded", "ItemRemoved", "ItemLifecycleChanged", "ItemListChanged"}

NoteEvent(s, e) ==
  IF s.all THEN s
  ELSE CASE e.kind = "FullResync" -> MarkAllDirty(s)
         [] \/ e.kind \in DirtyKinds
            \/ e.kind = "field" /\ e.f \in {"text", "notes"} ->
              [s EXCEPT !.items = @ \cup {e.id}]
         [] \/ e.kind \in {"ListAdded", "ListRemoved"}
            \/ e.kind = "row" /\ e.f = "name" ->
              [s EXCEPT !.lists = @ \cup {e.id}]
         [] OTHER -> s

\* The indexed form of an item: its words, its list's name and what ranks it.
IndexItem(s, id, rec) ==
  [s EXCEPT !.docs = (id :> [text |-> rec.text, notes |-> rec.notes, list |-> rec.loc.list,
                             context |-> IF rec.loc.list \in DOMAIN s.names
                                         THEN s.names[rec.loc.list] ELSE None,
                             life |-> rec.life, binned |-> rec.binned]) @@ @]

RemoveDoc(s, id) == [s EXCEPT !.docs = [i \in DOMAIN @ \ {id} |-> @[i]]]

ReconcileItem(s, d, id) ==
  IF id \in DOMAIN d.items THEN IndexItem(s, id, d.items[id]) ELSE RemoveDoc(s, id)

IndexList(s, d, l) ==
  IF FindList(d, l) = 0
  THEN [s EXCEPT !.names = [m \in DOMAIN @ \ {l} |-> @[m]]]
  ELSE [s EXCEPT !.names = (l :> Visible(d.seqs["lists"])[FindList(d, l)].val.name) @@ @]

RebuildSearch(d) ==
  LET clear == [NewSearch EXCEPT !.all = FALSE]
      listed == FoldLeft(LAMBDA s, l : IndexList(s, d, l), clear, ListIds(d))
  IN FoldLeft(LAMBDA s, i : ReconcileItem(s, d, i), listed, SetToSeq(DOMAIN d.items))

\* Doc::search up to the point where the query is answered.
Reconciled(s, d) ==
  LET Items(t, l) == {i \in DOMAIN t.docs : t.docs[i].list = l}
      ByList(t, l) == FoldLeft(LAMBDA u, i : ReconcileItem(u, d, i), IndexList(t, d, l),
                               SetToSeq(Items(t, l)))
      listed == FoldLeft(ByList, s, SetToSeq(s.lists))
      items == FoldLeft(LAMBDA t, i : ReconcileItem(t, d, i), listed, SetToSeq(s.items))
  IN IF s.all THEN RebuildSearch(d) ELSE [items EXCEPT !.items = {}, !.lists = {}]
=============================================================================
