------------------------------ MODULE DocItems ------------------------------
(***************************************************************************)
(* Doc of core/src/doc.rs on several replicas: its state and the           *)
(* mutations of items and of the focus list.  A mutation is one            *)
(* transaction, the change it makes to the projection index beside the     *)
(* document, and the events it pushes.                                     *)
(***************************************************************************)
EXTENDS DiffTranslate

CONSTANTS
  Replica,          \* peer ids, naturals
  Base,             \* the document every replica starts from
  BulkThreshold,    \* BULK_LIFECYCLE_EVENT_THRESHOLD
  Mixes,            \* bound: the operations that meet in a behaviour and the
                    \* commits of each replica, [kinds, commits]
  Attached,         \* replicas whose events a consumer drains
  Targets,          \* bound: positions asked for
  Touched,          \* bound: items that are moved or edited
  ReviveLists       \* bound: FALSE when no step brings back a list whose
                    \* order container has entries and no mirror (Unmirrored)

VARIABLES
  doc,       \* doc[r]: the Loro document
  commits,   \* commits[r]: the commits it holds, beyond Base
  idx,       \* idx[r]: the projection index
  queue,     \* queue[r]: events not drained yet
  ui,        \* ui[r]: what the consumer shows
  hist,      \* hist[r]: the undo and the redo stack
  srch,      \* srch[r]: the search index
  gone       \* gone[r]: items r has hard-deleted

vars == <<doc, commits, idx, queue, ui, hist, srch, gone>>

Made(r) == {c \in commits[r] : c.stamp[2] = r}

Now(r) == 1 + Max({Base.time} \cup {c.stamp[1] : c \in commits[r]})

Stamp(r) == <<Now(r), r>>

\* The step of a kind that makes n more commits at r stays within a mix.
Within(r, kind, n) ==
  \E mix \in Mixes :
    /\ kind \in mix.kinds
    /\ \A q \in Replica : \A c \in commits[q] : c.kind \in mix.kinds
    /\ \A q \in Replica :
         Cardinality(Made(q)) + (IF q = r THEN n ELSE 0) <= mix.commits[q]

May(r, kind) == Within(r, kind, 1)

Tx(r) == Begin(doc[r], Stamp(r))

\* The operations of a kind in any commit, with F taken of each.
Ops(op, F(_)) ==
  UNION {UNION {{F(o) : o \in {p \in ToSet(c.ops) : p.op = op}} : c \in commits[r]} : r \in Replica}

\* Item ids that new_id has given out.
Minted == DOMAIN Base.items \cup Ops("put", LAMBDA o : o.item)

FindItem(r, i) == i \in DOMAIN idx[r].meta /\ i \in DOMAIN doc[r].items

-----------------------------------------------------------------------------
(* Commits *)

NoHistory == [undo |-> <<>>, redo |-> <<>>]

\* A commit of the default origin is an undo step and drops what was undone.
Remember(h, tx) == [undo |-> Append(h.undo, tx.inv), redo |-> <<>>]

\* Fault: the undo manager keeps its stacks.
KeepHistory(h, tx) == Remember(h, tx)

\* rearm_undo: a new undo manager.
RearmUndo(h, tx) == NoHistory

PushEvents(r, evs) ==
  /\ queue' = [queue EXCEPT ![r] = @ \o evs]
  /\ srch' = [srch EXCEPT ![r] = FoldLeft(NoteEvent, @, evs)]

Write(r, kind, tx) ==
  /\ doc' = [doc EXCEPT ![r] = tx.d]
  /\ commits' = [commits EXCEPT ![r] =
                   @ \cup {[stamp |-> tx.stamp, kind |-> kind, ops |-> tx.ops]}]

\* Lists with order entries and no mirror: a rebuild makes mirrors only for
\* the lists that have a row or members, and what is then added to a list
\* without one goes into an empty mirror.
Unmirrored(r) == {l \in List \ DOMAIN idx[r].raw : EntriesOf(doc[r], l) # <<>>}

\* No list of document e is without mirror for its entries.
Mirrored(r, e, lists) ==
  ReviveLists \/ \A l \in Unmirrored(r) \cap lists : l \notin DOMAIN ComputeIndex(e).raw

\* inner.commit() with the index and the events of a local mutation.
Commit(r, kind, tx, x, evs) ==
  /\ Mirrored(r, tx.d, List)
  /\ Write(r, kind, tx)
  /\ hist' = [hist EXCEPT ![r] = Remember(@, tx)]
  /\ idx' = [idx EXCEPT ![r] = x]
  /\ PushEvents(r, evs)
  /\ UNCHANGED <<ui, gone>>

\* rebuild_index: everything the search index holds is stale as well.
Rebuild(r, d, evs) ==
  /\ idx' = [idx EXCEPT ![r] = ComputeIndex(d)]
  /\ queue' = [queue EXCEPT ![r] = @ \o evs]
  /\ srch' = [srch EXCEPT ![r] = MarkAllDirty(@)]

-----------------------------------------------------------------------------
(* Adding and moving items *)

Entry(i, pl) == [item |-> i, pl |-> pl]

SetRaw(x, l, s) == [x EXCEPT !.raw = (l :> s) @@ @]

\* Entries taken out of the mirror of l, if it has one.
CutRaw(x, l, P) ==
  IF l \in DOMAIN x.raw THEN SetRaw(x, l, Without(x.raw[l], P)) ELSE x

NewRec(tx, l, state) ==
  [cid |-> NextId(tx), loc |-> [list |-> l, pl |-> NextId(tx)],
   life |-> [state |-> state, at |-> tx.stamp[1]],
   started |-> IF state = "InProgress" THEN tx.stamp[1] ELSE None,
   done |-> None, binned |-> None, created |-> tx.stamp[1],
   text |-> 1, notes |-> None, deadline |-> None, when |-> None, dur |-> None,
   place |-> None]

\* The open array after an entry of item i went in where the plan said.
PlaceOpen(x, l, i, open) ==
  IF open = Refresh THEN RefreshOpen(x, l) ELSE SpliceOpenIn(x, l, i, open)

\* add_items_at_impl, for one or several texts: the transaction, the index
\* and the commit, k running over the texts.
AddTx(r, ids, l, raw, state) ==
  LET Put(tx, k) ==
        LET rec == NewRec(tx, l, state)
        IN Insert(PutItem(tx, ids[k], rec), l, raw + k - 1, Entry(ids[k], rec.loc.pl))
  IN FoldLeft(Put, Tx(r), [k \in 1..Len(ids) |-> k])

AddMeta(x, l, i, rec, raw) ==
  BumpVisible(SetRaw(SetMeta(x, i, ItemMeta(rec)), l,
                     ClampedInsert(RawOrder(x, l), raw, Entry(i, rec.loc.pl))), l, 1)

AddIndex(x, items, ids, l, plan) ==
  LET dom == [k \in 1..Len(ids) |-> k]
      metas == FoldLeft(LAMBDA y, k : AddMeta(y, l, ids[k], items[ids[k]], plan.raw + k - 1), x, dom)
  IN IF plan.open = Refresh THEN RefreshOpen(metas, l)
     ELSE FoldLeft(LAMBDA y, k : SpliceOpenIn(y, l, ids[k], plan.open + k - 1), metas, dom)

CommitAdded(r, tx, ids, l, x) ==
  Commit(r, "add", tx, x,
         Project(ids, LAMBDA i : ItemAdded(i, tx.d.items[i], OpenIndex(x, l, i))))

AddPlanned(r, ids, l, plan, tx) ==
  CommitAdded(r, tx, ids, l, AddIndex(idx[r], tx.d.items, ids, l, plan))

AddItemsAt(r, ids, l, t, state) ==
  LET plan == PlanTarget(idx[r], l, t, TRUE, None)
  IN /\ AssertListExists(doc[r], l)
     /\ AddPlanned(r, ids, l, plan, AddTx(r, ids, l, plan.raw, state))

CommitMoved(r, tx, i, l, x) ==
  Commit(r, "move", tx, x, <<ItemMoved(i, OpenIndex(x, l, i))>>)

\* A new placement and its entry, in place of one that is not there.
ReplaceEntryAt(r, i, l, raw, set, pl) ==
  CommitMoved(r, Insert(set, l, raw, Entry(i, pl)), i, l,
              RefreshOpen(SetRaw([idx[r] EXCEPT !.meta[i].pl = pl], l,
                                 ClampedInsert(RawOrder(idx[r], l), raw, Entry(i, pl))), l))

\* The location register moved to list l, under a new placement.
Relocate(r, i, l) == SetField(Tx(r), i, "loc", [list |-> l, pl |-> NextId(Tx(r))])

ReplaceEntry(r, i, l, t, isOpen) ==
  ReplaceEntryAt(r, i, l, PlanTarget(idx[r], l, t, isOpen, i).raw, Relocate(r, i, l),
                 NextId(Tx(r)))

\* The mov of an entry that is there; nothing is committed when it stays.
ReorderPlanned(r, i, l, x, raw, from, to, open, isOpen) ==
  LET moved == SetRaw(x, l, ClampedInsert(RemoveAt(raw, from + 1), to, raw[from + 1]))
  IN /\ from # to
     /\ CommitMoved(r, Move(Tx(r), l, from, to), i, l,
                    IF isOpen THEN PlaceOpen(moved, l, i, open) ELSE moved)

ReorderEntryAt(r, i, l, plan, from, isOpen) ==
  ReorderPlanned(r, i, l, idx[r], RawOrder(idx[r], l), from,
                 IF plan.raw > from THEN plan.raw - 1 ELSE plan.raw, plan.open, isOpen)

ReorderEntry(r, i, l, t, isOpen) ==
  ReorderEntryAt(r, i, l, PlanTarget(idx[r], l, t, isOpen, i),
                 CanonicalRawPos(idx[r], l, i) - 1, isOpen)

\* The index after an item left cur, whose entries of it were at src, for l.
MovedAcross(x, i, cur, src, l, pl, plan, isOpen) ==
  LET wasVisible == CanonicalRawPos(x, cur, i) # 0
      left == CutRaw(SetMeta(x, i, [x.meta[i] EXCEPT !.list = l, !.pl = pl]), cur, src)
      put == SetRaw(BumpVisible(left, cur, IF wasVisible /\ isOpen THEN -1 ELSE 0), l,
                    ClampedInsert(RawOrder(x, l), plan.raw, Entry(i, pl)))
  IN IF isOpen THEN PlaceOpen(SpliceOpenOut(BumpVisible(put, l, 1), cur, i), l, i, plan.open)
     ELSE put

CommitListChanged(r, tx, i, l, x) ==
  Commit(r, "move", tx, x, <<ItemListChanged(i, l, OpenIndex(x, l, i))>>)

MoveAcrossTo(r, i, cur, l, plan, src, pl, isOpen) ==
  CommitListChanged(r, DeleteAll(Insert(Relocate(r, i, l), l, plan.raw, Entry(i, pl)), cur, src),
                    i, l, MovedAcross(idx[r], i, cur, src, l, pl, plan, isOpen))

MoveAcrossLists(r, i, cur, l, t, isOpen) ==
  MoveAcrossTo(r, i, cur, l, PlanTarget(idx[r], l, t, isOpen, None),
               EntryPositions(idx[r], cur, i), NextId(Tx(r)), isOpen)

MoveItem(r, i, l, t) ==
  /\ FindItem(r, i)
  /\ AssertListExists(doc[r], l)
  /\ LET m == idx[r].meta[i]
     IN IF m.list # l THEN MoveAcrossLists(r, i, m.list, l, t, m.open)
        ELSE IF CanonicalRawPos(idx[r], l, i) = 0 THEN ReplaceEntry(r, i, l, t, m.open)
        ELSE ReorderEntry(r, i, l, t, m.open)

-----------------------------------------------------------------------------
(* Content registers.  A value is a number, None when the register is absent *)

Day == 1                \* a date, in when and deadline
Timed == 2              \* a date with a time
DefaultDuration == 1
Hour == 2

SetRegister(r, i, f, v) ==
  /\ FindItem(r, i)
  /\ doc[r].items[i][f] # v
  /\ Commit(r, "content", SetField(Tx(r), i, f, v), idx[r], <<FieldChanged(i, f, v)>>)

EditItemText(r, i) == SetRegister(r, i, "text", 2)

SetItemDeadline(r, i) == SetRegister(r, i, "deadline", Day)

SetItemDuration(r, i) == \E v \in {None, Hour} : SetRegister(r, i, "dur", v)

SetItemPlace(r, i) == SetRegister(r, i, "place", 1)

\* The origin notes:<id> keeps the commit off the undo stack.
ApplyNotesDelta(r, i) ==
  /\ FindItem(r, i)
  /\ doc[r].items[i].notes # 1
  /\ Write(r, "content", SetField(Tx(r), i, "notes", 1))
  /\ PushEvents(r, <<FieldChanged(i, "notes", 1)>>)
  /\ UNCHANGED <<idx, ui, hist, gone>>

\* A timed value brings a duration with it, clearing takes it away.
SetItemWhen(r, i, v) ==
  LET rec == doc[r].items[i]
      set == SetField(Tx(r), i, "when", v)
      dur == IF v = Timed /\ rec.dur = None THEN DefaultDuration
             ELSE IF v = None THEN None ELSE rec.dur
      same == dur = rec.dur
  IN /\ FindItem(r, i)
     /\ rec.when # v
     /\ Commit(r, "content", IF same THEN set ELSE SetField(set, i, "dur", dur), idx[r],
               <<FieldChanged(i, "when", v)>>
               \o (IF same THEN <<>> ELSE <<FieldChanged(i, "dur", dur)>>))

-----------------------------------------------------------------------------
(* Lifecycle *)

\* apply_lifecycle for a target in a workflow state.
EnterState(tx, i, want) ==
  LET rec == tx.d.items[i]
      now == tx.stamp[1]
      Set(t, f, v) == IF t.d.items[i][f] = v THEN t ELSE SetField(t, i, f, v)
      reg == SetField(Set(tx, "binned", None), i, "life", [state |-> want, at |-> now])
      started == IF want = "InProgress" /\ rec.started = None
                 THEN SetField(reg, i, "started", now) ELSE reg
  IN IF rec.binned = None /\ rec.life.state = want THEN tx
     ELSE IF want = "Done" THEN SetField(started, i, "done", now) ELSE started

\* apply_lifecycle_write: a transaction with no operation when nothing changes.
LifecycleWrite(tx, i, write) ==
  LET rec == tx.d.items[i]
  IN CASE write \in {"Backlog", "InProgress", "Done"} -> EnterState(tx, i, write)
       [] write = "Binned" ->
            IF rec.binned # None THEN tx ELSE SetField(tx, i, "binned", tx.stamp[1])
       [] write = "Restore" ->
            IF rec.binned = None THEN tx ELSE SetField(tx, i, "binned", None)
       [] write = "UnDone" ->
            IF rec.binned # None \/ rec.life.state # "Done" THEN tx
            ELSE EnterState(tx, i, "Backlog")

PruneFocusRefs(r, tx, ids) ==
  LET raw == FocusRaw(tx.d)
  IN DeleteAll(tx, "focus", ScanFocus(tx.d, idx[r]).dead \cup {p \in 1..Len(raw) : raw[p] \in ids})

\* Fault: the count of visible entries is not lowered.
SyncUncounted(x, i, rec) ==
  LET y == SetOpen(x, i, IsOpen(rec))
      l == x.meta[i].list
  IN IF ~IsOpen(rec) THEN SpliceOpenOut(y, l, i)
     ELSE IF x.meta[i].open THEN y
     ELSE RefreshOpen(y, l)

SyncItemOpenness(x, i, rec) ==
  LET m == x.meta[i]
      l == m.list
      y == SetOpen(x, i, IsOpen(rec))
      hidden == IF m.open /\ CanonicalRawPos(y, l, i) # 0 THEN BumpVisible(y, l, -1) ELSE y
  IN IF ~IsOpen(rec) THEN SpliceOpenOut(hidden, l, i)
     ELSE IF m.open THEN y
     ELSE RefreshOpen(y, l)

SyncedEvent(x, evs, i, rec) ==
  [x |-> x, evs |-> Append(evs, ItemLifecycleChanged(i, rec, OpenIndex(x, x.meta[i].list, i)))]

\* Below the threshold: each item's openness and event in turn.
CommitSurgical(r, tx, changed, focus) ==
  LET Sync(acc, i) == SyncedEvent(SyncItemOpenness(acc.x, i, tx.d.items[i]), acc.evs, i,
                                  tx.d.items[i])
      Done(acc) == Commit(r, "lifecycle", tx, acc.x, acc.evs)
  IN Done(FoldLeft(Sync, [x |-> idx[r], evs |-> focus], changed))

\* From it on: a rebuild and a diff of all items.
CommitBulk(r, tx, x, focus) ==
  /\ Write(r, "lifecycle", tx)
  /\ hist' = [hist EXCEPT ![r] = Remember(@, tx)]
  /\ Rebuild(r, tx.d, focus \o DiffItems(IterItems(doc[r], idx[r]), doc[r].items,
                                        IterItems(tx.d, x), tx.d.items))
  /\ UNCHANGED <<ui, gone>>

CommitLifecycle(r, ids, changed, tx) ==
  LET focus == IF Len(FocusRaw(tx.d)) # Len(FocusRaw(doc[r])) THEN <<FocusChanged>> ELSE <<>>
  IN IF Len(ids) < BulkThreshold THEN CommitSurgical(r, tx, changed, focus)
     ELSE CommitBulk(r, tx, ComputeIndex(tx.d), focus)

LifecycleWritten(r, ids, write, written, changed) ==
  /\ changed # <<>>
  /\ CommitLifecycle(r, ids, changed,
                     IF write = "Done" THEN PruneFocusRefs(r, written, ToSet(changed))
                     ELSE written)

\* set_items_lifecycle_impl.
SetItemsLifecycle(r, ids, write) ==
  LET written == FoldLeft(LAMBDA t, i : LifecycleWrite(t, i, write), Tx(r), ids)
      changed == SelectSeq(ids, LAMBDA i : written.d.items[i] # doc[r].items[i])
  IN /\ \A k \in 1..Len(ids) : FindItem(r, ids[k])
     /\ LifecycleWritten(r, ids, write, written, changed)

\* delete_binned_items and empty_bin: the history goes with the items.
HardDeleteItems(r, ids) ==
  LET x == idx[r]
      Positions(l) == UNION {EntryPositions(x, l, i) : i \in {j \in ids : x.meta[j].list = l}}
      lists == {x.meta[i].list : i \in ids}
      removed == FoldLeft(RmItem, Tx(r), SetToSeq(ids))
      tx == FoldLeft(LAMBDA t, l : DeleteAll(t, l, Positions(l)), removed, SetToSeq(lists))
      WasVisible(i) == x.meta[i].open /\ CanonicalRawPos(x, x.meta[i].list, i) # 0
      cleared == FoldLeft(RemoveItem, x, SetToSeq(ids))
      shrunk == FoldLeft(LAMBDA y, l : CutRaw(y, l, Positions(l)), cleared, SetToSeq(lists))
      Out(y, i) == SpliceOpenOut(IF WasVisible(i) THEN BumpVisible(y, x.meta[i].list, -1) ELSE y,
                                 x.meta[i].list, i)
  IN /\ Write(r, "delete", tx)
     /\ hist' = [hist EXCEPT ![r] = RearmUndo(@, tx)]
     /\ idx' = [idx EXCEPT ![r] = FoldLeft(Out, shrunk, SetToSeq(ids))]
     /\ PushEvents(r, Project(SetToSeq(ids), ItemRemoved))
     /\ gone' = [gone EXCEPT ![r] = @ \cup ids]
     /\ UNCHANGED ui

DeleteBinned(r, i) ==
  /\ FindItem(r, i)
  /\ doc[r].items[i].binned # None
  /\ HardDeleteItems(r, {i})

EmptyBin(r) ==
  LET binned == {i \in DOMAIN doc[r].items : doc[r].items[i].binned # None}
  IN /\ binned # {}
     /\ HardDeleteItems(r, binned)

-----------------------------------------------------------------------------
(* Focus: every mutation sweeps the dead references in the same commit *)

Swept(r) == DeleteAll(Tx(r), "focus", ScanFocus(doc[r], idx[r]).dead)

AddToFocus(r, i, t) ==
  LET scan == ScanFocus(doc[r], idx[r])
  IN /\ i \in DOMAIN idx[r].meta
     /\ idx[r].meta[i].open
     /\ ~Contains(scan.entries, i)
     /\ Commit(r, "focus", Insert(Swept(r), "focus", Min({t, Len(scan.entries)}), FocusRef(i)), idx[r],
               <<FocusChanged>>)

AddToFocusMany(r, ids) ==
  LET scan == ScanFocus(doc[r], idx[r])
      add == SelectSeq(ids, LAMBDA i :
               i \in DOMAIN idx[r].meta /\ idx[r].meta[i].open /\ ~Contains(scan.entries, i))
      tx == FoldLeft(LAMBDA t, k : Insert(t, "focus", k - 1, FocusRef(add[k])), Swept(r),
                     [k \in 1..Len(add) |-> k])
  IN /\ add # <<>> \/ scan.dead # {}
     /\ Commit(r, "focus", tx, idx[r], <<FocusChanged>>)

RemoveFromFocus(r, ids) ==
  LET tx == PruneFocusRefs(r, Tx(r), ids)
  IN /\ tx.ops # <<>>
     /\ Commit(r, "focus", tx, idx[r], <<FocusChanged>>)

MoveInFocus(r, i, t) ==
  LET scan == ScanFocus(doc[r], idx[r])
      from == PosOf(scan.entries, i) - 1
      to == Min({t, Max({0, Len(scan.entries) - 1})})
      moves == from >= 0 /\ from # to
  IN /\ moves \/ scan.dead # {}
     /\ Commit(r, "focus", IF moves THEN Move(Swept(r), "focus", from, to) ELSE Swept(r), idx[r],
               <<FocusChanged>>)
=============================================================================
