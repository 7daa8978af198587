----------------------------- MODULE DocSystem -----------------------------
(***************************************************************************)
(* Doc of core/src/doc.rs on several replicas: the mutations of lists and  *)
(* settings, repair, import of a backup and of other replicas' commits,    *)
(* undo and redo, the event queue and its consumer, search, and reopening  *)
(* the document; what they promise together.                               *)
(***************************************************************************)
EXTENDS DocItems

-----------------------------------------------------------------------------
(* Lists and settings *)

NewRow(l, now) ==
  [id |-> l, name |-> 1, icon |-> None, view |-> None, arch |-> None, created |-> now]

MintedLists ==
  ToSet(ListIds(Base))
  \cup UNION Ops("ins", LAMBDA o : IF o.c = "lists" THEN {o.val.id} ELSE {})

AddList(r, l) ==
  LET row == NewRow(l, Now(r))
      tx == Insert(Tx(r), "lists", Append_, row)
  IN /\ l \notin MintedLists
     /\ Commit(r, "list", tx, idx[r], <<ListAdded(row, VisibleListIndex(tx.d, l))>>)

\* rename_list, set_list_icon, set_default_view and set_list_archived on a
\* row; nothing is committed when the register has the value.
SetRowField(r, l, f, v) ==
  LET p == FindList(doc[r], l)
  IN /\ p # 0
     /\ Visible(doc[r].seqs["lists"])[p].val[f] # v
     /\ Commit(r, "row", SetRow(Tx(r), p, f, v), idx[r], <<RowChanged(l, f, v)>>)

RenameList(r, l) == SetRowField(r, l, "name", 2)

SetListIcon(r, l) == \E v \in {None, 1} : SetRowField(r, l, "icon", v)

SetListArchived(r, l, archived) ==
  LET p == FindList(doc[r], l)
  IN /\ p # 0
     /\ archived # (Visible(doc[r].seqs["lists"])[p].val.arch # None)
     /\ SetRowField(r, l, "arch", IF archived THEN Now(r) ELSE None)

SetSettingTo(r, f, v) ==
  /\ doc[r].settings[f] # v
  /\ LET tx == SetSetting(Tx(r), f, v)
     IN Commit(r, "settings", tx, idx[r], <<SettingsChanged(tx.d.settings)>>)

\* The inbox has no row; its default view is a setting.
SetDefaultView(r, l, v) ==
  IF l = Inbox THEN SetSettingTo(r, "inboxView", v) ELSE SetRowField(r, l, "view", v)

SetShowListCounts(r) == \E v \in BOOLEAN : SetSettingTo(r, "counts", v)

SetDocName(r) == \E v \in {None, 1} : SetSettingTo(r, "name", v)

SetCalendarDocHidden(r) == \E v \in {{}, {"other"}} : SetSettingTo(r, "hidden", v)

SetDoneAmalgamate(r) == \E v \in BOOLEAN : SetSettingTo(r, "amalgamate", v)

\* The raw position for the t-th place among the active rows, the mover
\* taken out.
ResolveActiveMoveTarget(d, l, t) ==
  LET rest == SelectSeq(Visible(d.seqs["lists"]), LAMBDA e : e.val.id # l)
      active == SelectSeq([p \in 1..Len(rest) |-> p], LAMBDA p :
                  /\ rest[p].val.arch = None
                  /\ \A q \in 1..(p - 1) : rest[q].val.id # rest[p].val.id)
  IN IF t < Len(active) THEN active[t + 1] - 1
     ELSE IF active = <<>> THEN 0 ELSE Last(active)

MoveList(r, l, t) ==
  LET rows == Visible(doc[r].seqs["lists"])
      from == FindList(doc[r], l) - 1
      to == IF rows[from + 1].val.arch = None THEN ResolveActiveMoveTarget(doc[r], l, t)
            ELSE Min({t, Len(rows) - 1})
      tx == Move(Tx(r), "lists", from, to)
  IN /\ from >= 0
     /\ from # to
     /\ Commit(r, "list", tx, idx[r], <<ListMoved(l, VisibleListIndex(tx.d, l))>>)

Rebuilt(r, kind, tx, x, evs) ==
  /\ Write(r, kind, tx)
  /\ hist' = [hist EXCEPT ![r] = Remember(@, tx)]
  /\ Rebuild(r, tx.d, StateDiff(doc[r], idx[r], tx.d, x) \o evs)
  /\ UNCHANGED <<ui, gone>>

\* Every item of the list goes to the inbox and, unless it is there already,
\* to the bin; the order container of the list is left as it is.
DeleteList(r, l) ==
  LET p == FindList(doc[r], l)
      ToBin(t, i) ==
        LET loc == SetField(t, i, "loc", [list |-> Inbox, pl |-> NextId(t)])
            bin == IF t.d.items[i].binned = None
                   THEN SetField(loc, i, "binned", t.stamp[1]) ELSE loc
        IN Insert(bin, Inbox, Append_, Entry(i, NextId(t)))
      Drop(tx) == Rebuilt(r, "deleteList", tx, ComputeIndex(tx.d), <<>>)
  IN /\ p # 0
     /\ Drop(Delete(FoldLeft(ToBin, Tx(r), Resolved(idx[r], l)), "lists", p))

-----------------------------------------------------------------------------
(* Repair and backup *)

DuplicateListRows(d) ==
  LET rows == Visible(d.seqs["lists"])
  IN {p \in 1..Len(rows) : \E q \in 1..(p - 1) : rows[q].val.id = rows[p].val.id}

\* reconcile_with; sweep is TRUE when the entries of the items closed before
\* now go as well.  No events, and nothing for the undo stack.
Reconcile(r, sweep) ==
  LET x == idx[r]
      closed == {i \in DOMAIN doc[r].items : sweep /\ ~IsOpen(doc[r].items[i])}
      lists == DOMAIN x.raw \cup {l \in List : x.members[l] # {}}
      Keeps(l, p) == LET e == RawOrder(x, l)[p]
                     IN CanonicalRawPos(x, l, e.item) = p /\ e.item \notin closed
      Stale(l) == {p \in 1..Len(RawOrder(x, l)) : ~Keeps(l, p)}
      Seen(l) == {e.item : e \in ToSet(Without(RawOrder(x, l), Stale(l)))}
      Repair(t, l) == FoldLeft(LAMBDA u, i : Insert(u, l, Append_, Entry(i, x.meta[i].pl)),
                               DeleteAll(t, l, Stale(l)), OpenTail(x, l, Seen(l)))
      rows == DeleteAll(Tx(r), "lists", DuplicateListRows(doc[r]))
      tx == DeleteAll(FoldLeft(Repair, rows, SetToSeq(lists)), "focus",
                      ScanFocus(doc[r], x).dead)
  IN /\ tx.ops # <<>>
     /\ Write(r, "reconcile", tx)
     /\ Rebuild(r, tx.d, <<>>)
     /\ UNCHANGED <<ui, hist, gone>>

\* What of a backup of Base is not there, in the backup's order.
BackupTx(tx, rows, items) ==
  LET Row_(t, row) == Insert(t, "lists", Append_, row)
      Add(t, i) ==
        LET rec == [Base.items[i] EXCEPT !.cid = NextId(t), !.loc.pl = NextId(t)]
        IN Insert(PutItem(t, i, rec), rec.loc.list, Append_, Entry(i, rec.loc.pl))
  IN FoldLeft(Add, FoldLeft(Row_, tx, rows), items)

CommitImport(r, tx, focus) ==
  /\ tx.ops # <<>>
  /\ Rebuilt(r, "import", tx, ComputeIndex(tx.d), IF focus # <<>> THEN <<FocusChanged>> ELSE <<>>)

ImportMissing(r, rows, items) ==
  LET focus == SelectSeq(FocusRaw(Base), LAMBDA i :
                 /\ Contains(items, i) /\ IsOpen(Base.items[i])
                 /\ ~Contains(FocusRaw(doc[r]), i))
  IN CommitImport(r, FoldLeft(LAMBDA t, i : Insert(t, "focus", Append_, FocusRef(i)),
                              BackupTx(Tx(r), rows, items), focus), focus)

\* import_json of a backup of Base: what is there already is left alone, what
\* is not is added again under its own id.
ImportJson(r) ==
  ImportMissing(r, SelectSeq(AllLists(Base), LAMBDA row : FindList(doc[r], row.id) = 0),
                SelectSeq(IterItems(Base, ComputeIndex(Base)),
                          LAMBDA i : i \notin DOMAIN doc[r].items))

-----------------------------------------------------------------------------
(* Imports and undo: the diffs are captured and translated *)

\* The outcome of translate_captured_diffs, or of emit_diff_fallback, which
\* also empties the queue.
Adopt(r, t) ==
  /\ idx' = [idx EXCEPT ![r] = t.idx]
  /\ IF t.ok THEN PushEvents(r, t.events)
     ELSE /\ queue' = [queue EXCEPT ![r] = t.events]
          /\ srch' = [srch EXCEPT ![r] = MarkAllDirty(@)]

Translated(r, e) ==
  /\ Mirrored(r, e, List \ OrderChanged(doc[r], e))
  /\ Adopt(r, Translate(doc[r], e, idx[r]))

\* apply_remote_batch, import_mirror_update and import_host_update.
ApplyRemote(r, s) ==
  LET all == commits[r] \cup commits[s]
      e == Replay(Base, all)
  IN /\ commits[s] \ commits[r] # {}
     /\ commits' = [commits EXCEPT ![r] = all]
     /\ doc' = [doc EXCEPT ![r] = e]
     /\ Translated(r, e)
     /\ UNCHANGED <<ui, hist, gone>>

\* The undo manager pops until a step changes something.
Effective(r, stack) ==
  SelectLastInSeq(stack, LAMBDA inv : PerformAll(Tx(r), inv).ops # <<>>)

PerformUndo(r, from, to, k, tx) ==
  /\ k # 0
  /\ Write(r, "undo", tx)
  /\ hist' = [hist EXCEPT ![r] = (from :> SubSeq(@[from], 1, k - 1))
                                 @@ (to :> Append(@[to], tx.inv))]
  /\ Translated(r, tx.d)
  /\ UNCHANGED <<ui, gone>>

ApplyUndoOp(r, from, to) ==
  LET k == Effective(r, hist[r][from])
  IN PerformUndo(r, from, to, k, PerformAll(Tx(r), hist[r][from][k]))

Undo(r) == ApplyUndoOp(r, "undo", "redo")

Redo(r) == ApplyUndoOp(r, "redo", "undo")

-----------------------------------------------------------------------------
(* Consumers and the session *)

Drain(r) ==
  /\ queue[r] # <<>>
  /\ ui' = [ui EXCEPT ![r] = DrainEvents(@, queue[r], doc[r], idx[r])]
  /\ queue' = [queue EXCEPT ![r] = <<>>]
  /\ UNCHANGED <<doc, commits, idx, hist, srch, gone>>

Search(r) ==
  /\ srch[r].all \/ srch[r].items # {} \/ srch[r].lists # {}
  /\ srch' = [srch EXCEPT ![r] = Reconciled(@, doc[r])]
  /\ UNCHANGED <<doc, commits, idx, queue, ui, hist, gone>>

\* save, load and finish_oplog_replay: everything but the document is made
\* again.
Reopen(r) ==
  /\ commits[r] # {}
  /\ idx' = [idx EXCEPT ![r] = ComputeIndex(doc[r])]
  /\ queue' = [queue EXCEPT ![r] = <<>>]
  /\ ui' = [ui EXCEPT ![r] = Snapshot(doc[r], ComputeIndex(doc[r]))]
  /\ hist' = [hist EXCEPT ![r] = NoHistory]
  /\ srch' = [srch EXCEPT ![r] = NewSearch]
  /\ UNCHANGED <<doc, commits, gone>>

-----------------------------------------------------------------------------
Init ==
  /\ doc = [r \in Replica |-> Base]
  /\ commits = [r \in Replica |-> {}]
  /\ idx = [r \in Replica |-> ComputeIndex(Base)]
  /\ queue = [r \in Replica |-> <<>>]
  /\ ui = [r \in Replica |-> Snapshot(Base, ComputeIndex(Base))]
  /\ hist = [r \in Replica |-> NoHistory]
  /\ srch = [r \in Replica |-> RebuildSearch(Base)]
  /\ gone = [r \in Replica |-> {}]

Fresh == Item \ Minted

Adding(r) ==
  \/ \E l \in List, t \in Targets, st \in {"Backlog", "InProgress"} :
       Fresh # {} /\ AddItemsAt(r, <<Min(Fresh)>>, l, t, st)
  \/ \E l \in List, t \in Targets :
       Cardinality(Fresh) > 1
       /\ AddItemsAt(r, <<Min(Fresh), Min(Fresh \ {Min(Fresh)})>>, l, t, "Backlog")

\* A selection of several items, for the operations that take one.
Selection == SetToSortSeq(DOMAIN Base.items, <)

Lifecycle(r) ==
  \/ \E i \in Touched, w \in {"InProgress", "Done", "Binned", "Restore", "UnDone"} :
       SetItemsLifecycle(r, <<i>>, w)
  \/ \E w \in {"Done", "Binned"} :
       SetItemsLifecycle(r, Selection, w)

Content(r) ==
  LET i == Min(Touched)
  IN \/ EditItemText(r, i)
     \/ ApplyNotesDelta(r, i)
     \/ SetItemDeadline(r, i)
     \/ \E v \in {None, Day, Timed} : SetItemWhen(r, i, v)
     \/ SetItemDuration(r, i)
     \/ SetItemPlace(r, i)

Focus(r) ==
  \/ \E i \in Item, t \in Targets : AddToFocus(r, i, t) \/ MoveInFocus(r, i, t)
  \/ \E i \in Item : RemoveFromFocus(r, {i})
  \/ AddToFocusMany(r, Selection)
  \/ RemoveFromFocus(r, ToSet(Selection))

Row(r) ==
  \E l \in UserList :
    \/ RenameList(r, l)
    \/ SetListIcon(r, l)
    \/ \E a \in BOOLEAN : SetListArchived(r, l, a)
    \/ SetDefaultView(r, l, 1)

Settings(r) ==
  \/ SetDefaultView(r, Inbox, 1)
  \/ SetShowListCounts(r)
  \/ SetDocName(r)
  \/ SetCalendarDocHidden(r)
  \/ SetDoneAmalgamate(r)

Next ==
  \E r \in Replica :
    \/ May(r, "add") /\ Adding(r)
    \/ May(r, "move") /\ \E i \in Touched, l \in List, t \in Targets : MoveItem(r, i, l, t)
    \/ May(r, "lifecycle") /\ Lifecycle(r)
    \/ May(r, "delete") /\ (EmptyBin(r) \/ \E i \in Item : DeleteBinned(r, i))
    \/ May(r, "content") /\ Content(r)
    \/ May(r, "focus") /\ Focus(r)
    \/ May(r, "list") /\ \E l \in UserList :
         AddList(r, l) \/ \E t \in Targets : MoveList(r, l, t)
    \/ May(r, "row") /\ Row(r)
    \/ May(r, "settings") /\ Settings(r)
    \/ May(r, "deleteList") /\ \E l \in UserList : DeleteList(r, l)
    \/ May(r, "reconcile") /\ \E sweep \in BOOLEAN : Reconcile(r, sweep)
    \/ May(r, "import") /\ ImportJson(r)
    \/ May(r, "undo") /\ (Undo(r) \/ Redo(r))
    \/ \E s \in Replica : ApplyRemote(r, s)
    \/ r \in Attached /\ Drain(r)
    \/ Within(r, "search", 0) /\ Search(r)
    \/ Within(r, "reopen", 0) /\ Reopen(r)

Spec == Init /\ [][Next]_vars

-----------------------------------------------------------------------------
(* What holds *)

\* Every component of the state has its shape: a replica's document is made
\* of known items and containers, stamps are unique, and the index speaks of
\* known lists (Doc and ProjectionIndex in core/src/doc.rs).
TypeOK ==
  \A r \in Replica :
    /\ DOMAIN doc[r].items \subseteq Item
    /\ DOMAIN doc[r].seqs = Container
    /\ \A c, e \in commits[r] : c.stamp = e.stamp => c = e
    /\ DOMAIN idx[r].raw \subseteq List
    /\ \A l \in List : ToSet(idx[r].open[l]) \subseteq DOMAIN idx[r].meta
    /\ DOMAIN ui[r].items \subseteq Item
    /\ gone[r] \subseteq Item

\* The incremental index is what a recompute from the containers gives,
\* after any mixture of local mutations, imports, undo and fallbacks (the
\* lists a recompute does not project may keep an old mirror).
IndexMatchesDoc ==
  \A r \in Replica :
    LET fresh == ComputeIndex(doc[r])
    IN /\ idx[r].meta = fresh.meta
       /\ idx[r].members = fresh.members
       /\ idx[r].openMembers = fresh.openMembers
       /\ idx[r].open = fresh.open
       /\ idx[r].visible = fresh.visible
       /\ \A l \in DOMAIN fresh.raw : RawOrder(idx[r], l) = fresh.raw[l]

\* Every open item is shown once, in the list it is located in, whatever
\* entries concurrent moves, deletions and undo left behind.
OpenItemsShownOnce ==
  \A r \in Replica : \A i \in DOMAIN doc[r].items :
    \A l \in List :
      Cardinality({p \in 1..Len(idx[r].open[l]) : idx[r].open[l][p] = i})
        = IF IsOpen(doc[r].items[i]) /\ doc[r].items[i].loc.list = l THEN 1 ELSE 0

\* The lists a consumer can show: those with a row, and the reserved ones.
Shown(d) == {Inbox, Events} \cup ToSet(ListIds(d))

\* A consumer that has drained the queue shows what a fresh attachment would:
\* the surgical events, the fallback and the silent repair all keep it in
\* step (dispatch and drainEvents in js/web/src/sync/store.ts). The exception
\* is the icon and the default view of a list that was added by ListAdded,
\* which has neither: none is shown until an event of its own or a snapshot.
UiMatchesDoc ==
  \A r \in Replica :
    LET fresh == Snapshot(doc[r], idx[r])
        Told(l, f) == IF <<l, f>> \in ui[r].bare THEN None ELSE fresh.lists[l][f]
        rows == [l \in DOMAIN fresh.lists |->
                   [f \in DOMAIN fresh.lists[l] |-> Told(l, f)]]
    IN queue[r] = <<>> =>
         /\ ui[r].items = fresh.items
         /\ \A l \in Shown(doc[r]) : ui[r].open[l] = fresh.open[l]
         /\ ui[r].order = fresh.order
         /\ ui[r].lists = rows
         /\ ui[r].settings = fresh.settings
         /\ ui[r].focus = fresh.focus
         /\ ui[r].bin = fresh.bin

\* A query is answered from an index equal to one built from scratch: every
\* change that matters to search marks what it touched (note_event).
SearchFresh ==
  \A r \in Replica :
    LET s == Reconciled(srch[r], doc[r])
        t == RebuildSearch(doc[r])
    IN s.docs = t.docs /\ s.names = t.names

\* Neither undo nor redo brings back an item this replica has deleted for
\* good (rearm_undo in hard_delete_items).
HardDeletePermanent ==
  \A r \in Replica : \A c \in commits[r] :
    c.stamp[2] = r /\ c.kind = "undo" =>
      \A k \in 1..Len(c.ops) : c.ops[k].op = "put" => c.ops[k].item \notin gone[r]

\* Replicas that hold the same commits show the same: the logical-state hash
\* is equal (fingerprint).
FingerprintAgrees ==
  \A r, s \in Replica :
    commits[r] = commits[s] => \A l \in List : Resolved(idx[r], l) = Resolved(idx[s], l)
=============================================================================
