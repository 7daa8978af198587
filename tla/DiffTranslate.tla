--------------------------- MODULE DiffTranslate ---------------------------
(***************************************************************************)
(* translate_captured_diffs of core/src/doc.rs: from the container diffs   *)
(* of an import or of an undo to an incremental change of the projection   *)
(* index and the events a consumer needs.  The diffs captured are the net  *)
(* change from document d to document e; x is the index before.            *)
(***************************************************************************)
EXTENDS DocEvents

CONSTANT MaxDirty       \* DIFF_TRANSLATE_MAX_DIRTY

Upserts(d, e) ==
  {i \in DOMAIN e.items : i \notin DOMAIN d.items \/ d.items[i].cid # e.items[i].cid}

Removals(d, e) == DOMAIN d.items \ DOMAIN e.items

\* The registers of an item map the diff names.
DirtyKeys(d, e, i) == {f \in DOMAIN e.items[i] : d.items[i][f] # e.items[i][f]}

MapDirty(d, e) ==
  {i \in DOMAIN d.items \cap DOMAIN e.items :
     d.items[i].cid = e.items[i].cid /\ d.items[i] # e.items[i]}

\* An element is (re)inserted by the diff unless it kept its slot.
Retained(s, el) == \E j \in 1..Len(s) : s[j].pos = el.pos

OrderChanged(d, e) == {l \in List : Visible(d.seqs[l]) # Visible(e.seqs[l])}

Inserted(d, e, l) ==
  LET old == Visible(d.seqs[l])
  IN SelectSeq(Visible(e.seqs[l]), LAMBDA el : ~Retained(old, el))

Deleted(d, e, l) ==
  LET new == Visible(e.seqs[l])
  IN SelectSeq(Visible(d.seqs[l]), LAMBDA el : ~Retained(new, el))

EntryChurn(d, e) ==
  FoldSet(LAMBDA l, n : n + Len(Inserted(d, e, l)) + Len(Deleted(d, e, l)), 0, OrderChanged(d, e))

Active(d, e, l) == {el.val.item : el \in ToSet(Inserted(d, e, l))}

-----------------------------------------------------------------------------
(* Phase 1: the plan.  A frame is the classified diff:                      *)
(*   d, e, x     the documents and the index before                         *)
(*   ordered     lists whose order container changed                        *)
(*   upserts, removals, changes    items                                    *)
(*   new         upserts of items the index does not have                   *)

Frame(d, e, x) ==
  [d |-> d, e |-> e, x |-> x, ordered |-> OrderChanged(d, e),
   upserts |-> Upserts(d, e), removals |-> Removals(d, e),
   changes |-> Upserts(d, e) \cup MapDirty(d, e) \cup Removals(d, e),
   new |-> Upserts(d, e) \ DOMAIN x.meta]

\* The positional edits of the diff applied to the mirror of the container.
\* They fit only when the mirror is as long as the container was.
ShadowOf(raw, old, new) ==
  Project(new, LAMBDA el : IF Retained(old, el) THEN raw[SlotAt(old, el.pos)] ELSE el.val)

Shadow(fr, l) == ShadowOf(RawOrder(fr.x, l), Visible(fr.d.seqs[l]), Visible(fr.e.seqs[l]))

ShadowFits(fr, l) == Len(RawOrder(fr.x, l)) = Len(Visible(fr.d.seqs[l]))

ChangedKeys(fr, i) ==
  IF i \in fr.new THEN {}
  ELSE IF i \in fr.upserts THEN ContentField \cup LifeField \cup {"loc"}
  ELSE DirtyKeys(fr.d, fr.e, i)

Affected(fr) ==
  fr.ordered
  \cup {fr.x.meta[i].list : i \in fr.changes \cap DOMAIN fr.x.meta}
  \cup {fr.e.items[i].loc.list : i \in fr.changes \ fr.removals}

WithinBudget(fr) ==
  Cardinality(fr.changes) + EntryChurn(fr.d, fr.e) < MaxDirty

-----------------------------------------------------------------------------
(* Phase 2: the index *)

ApplyChanges(fr, affected) ==
  LET Meta(y, i) == IF i \in fr.removals THEN RemoveItem(y, i)
                    ELSE SetMeta(y, i, ItemMeta(fr.e.items[i]))
      metas == FoldLeft(Meta, fr.x, SetToSeq(fr.changes))
  IN FoldLeft(RefreshOpen,
              [metas EXCEPT !.raw = [l \in fr.ordered |-> Shadow(fr, l)] @@ @],
              SetToSeq(affected))

-----------------------------------------------------------------------------
(* Phase 3: the events *)

WasOpen(x, i) == i \in DOMAIN x.meta /\ x.meta[i].open

\* Fault: no signal for an item that changed lists.
NeverLeft(fr, i, rec, keys) == FALSE

LeftList(fr, i, rec, keys) ==
  i \in DOMAIN fr.x.meta /\ fr.x.meta[i].list # rec.loc.list /\ "loc" \in keys

\* Content, openness and the leave-signal of one item; positions in the open
\* arrays are left to the walk.
KeyEvents(fr, y, i, rec, keys) ==
  LET life == keys \cap LifeField # {}
      If(c, ev) == IF c THEN <<ev>> ELSE <<>>
  IN Project(SetToSeq(keys \cap ContentField), LAMBDA f : FieldChanged(i, f, rec[f]))
     \o If(life /\ IsOpen(rec) /\ WasOpen(fr.x, i),
           ItemLifecycleChanged(i, rec, OpenIndex(y, rec.loc.list, i)))
     \o If(life /\ ~IsOpen(rec), ItemLifecycleChanged(i, rec, Append_))
     \o If(LeftList(fr, i, rec, keys), ItemListChanged(i, rec.loc.list, Append_))

ItemEvents(fr, y, i) ==
  LET rec == fr.e.items[i]
  IN IF i \notin fr.new THEN KeyEvents(fr, y, i, rec, ChangedKeys(fr, i))
     ELSE IF IsOpen(rec) THEN <<>>
     ELSE <<ItemAdded(i, rec, Append_)>>

\* Ids the consumer does not have in the array of list l yet.
InsertType(fr, post) ==
  {i \in ToSet(post) \cap fr.changes :
     \/ i \in fr.new
     \/ /\ i \in DOMAIN fr.x.meta /\ ~fr.x.meta[i].open
        /\ ChangedKeys(fr, i) \cap {"life", "binned"} # {}}

\* What a consumer has after one remove-and-insert for each of the ids.
Simulate(base, post, inserted, cands) ==
  LET moved == SelectSeq(post, LAMBDA i : i \in inserted \cup cands)
      Step(arr, i) == ClampedInsert(Remove(arr, i), PosOf(post, i) - 1, i)
  IN FoldLeft(Step, SelectSeq(base, LAMBDA i : i \notin inserted), moved)

WalkEvent(fr, inserted, i, at) ==
  IF i \in fr.new THEN ItemAdded(i, fr.e.items[i], at)
  ELSE IF i \in inserted THEN ItemLifecycleChanged(i, fr.e.items[i], at)
  ELSE ItemMoved(i, at)

WalkWith(fr, base, post, inserted, cands) ==
  [ok |-> Simulate(base, post, inserted, cands) = post,
   events |-> Project(SelectSeq(post, LAMBDA i : i \in inserted \cup cands),
                      LAMBDA i : WalkEvent(fr, inserted, i, PosOf(post, i) - 1))]

\* The moves the diff names when they are enough, or every item that is not
\* where it was.
Widen(fr, base, post, inserted, named) ==
  LET minimal == (named \cap ToSet(post)) \ inserted
      widened == {i \in ToSet(post) \ inserted : PosOf(base, i) # PosOf(post, i)}
  IN WalkWith(fr, base, post, inserted,
              IF Simulate(base, post, inserted, minimal) = post THEN minimal ELSE widened)

\* The walk of one list: the positional events that turn the array before
\* into the array after.
ListWalk(fr, post, l) ==
  Widen(fr, Filter(fr.x.open[l], ToSet(post)), post, InsertType(fr, post),
        IF l \in fr.ordered THEN Active(fr.d, fr.e, l) ELSE {})

Cat(F(_), S) == FoldLeft(LAMBDA out, i : out \o F(i), <<>>, S)

\* ok is FALSE when the frame is beyond the fast path.
Finish(fr, y, planned, gone, walksOk) ==
  IF walksOk /\ Len(planned) + Len(gone) < MaxDirty
  THEN [ok |-> TRUE, idx |-> y,
        events |-> gone
                   \o Cat(LAMBDA i : ItemEvents(fr, y, i),
                          SetToSortSeq(fr.changes \ fr.removals, <))
                   \o planned
                   \o DiffSettings(fr.d.settings, fr.e.settings)
                   \o DiffLists(AllLists(fr.d), AllLists(fr.e))
                   \o (IF Visible(fr.d.seqs["focus"]) # Visible(fr.e.seqs["focus"])
                       THEN <<FocusChanged>> ELSE <<>>)]
  ELSE [ok |-> FALSE, idx |-> ComputeIndex(fr.e), events |-> <<FullResync>>]

Walk(fr, y, walks) ==
  Finish(fr, y, Cat(LAMBDA l : walks[l].events, SetToSeq(DOMAIN walks)),
         Project(SetToSortSeq(fr.removals, <), ItemRemoved),
         \A l \in DOMAIN walks : walks[l].ok)

TranslateFrame(fr, affected) ==
  LET y == ApplyChanges(fr, affected)
  IN IF WithinBudget(fr) /\ \A l \in fr.ordered : ShadowFits(fr, l)
     THEN Walk(fr, y, [l \in affected |-> ListWalk(fr, y.open[l], l)])
     ELSE Finish(fr, y, <<>>, <<>>, FALSE)

Translate(d, e, x) ==
  LET Of(fr) == TranslateFrame(fr, Affected(fr)) IN Of(Frame(d, e, x))
=============================================================================
