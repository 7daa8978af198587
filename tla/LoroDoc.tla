------------------------------ MODULE LoroDoc ------------------------------
(***************************************************************************)
(* The CRDT library under core/src/doc.rs, modelled from how doc.rs uses   *)
(* it.  A document is a map of items, a map of settings and one movable    *)
(* list per container: "lists", "focus" and one order container for each   *)
(* list id.                                                                *)
(*                                                                         *)
(* A commit is a sequence of operations under one stamp <<lamport, peer>>. *)
(* A replica's state is its commits replayed in stamp order, so replicas   *)
(* with the same commits have the same document; a local commit has the    *)
(* largest stamp and takes effect as written.                              *)
(***************************************************************************)
EXTENDS Integers, Sequences, SequencesExt, FiniteSets, FiniteSetsExt

CONSTANTS
  Item,         \* item ids, naturals so that they are ordered
  UserList      \* ids that user lists have or may get

Inbox == "inbox"
Events == "events"
List == {Inbox, Events} \cup UserList

Container == {"lists", "focus"} \cup List

None == 0               \* an absent register
Top == <<0, 0, 0>>      \* the anchor of a slot in front of all others

\* Stamps and ids, <<lamport, peer>> and <<lamport, peer, k>>.
Before(s, t) ==
  \/ s[1] < t[1]
  \/ s[1] = t[1] /\ s[2] < t[2]
  \/ s[1] = t[1] /\ s[2] = t[2] /\ Len(s) = 3 /\ s[3] < t[3]

-----------------------------------------------------------------------------
(* Sequences *)

\* s with e in front of 0-based position i, at the end when i is past it.
ClampedInsert(s, i, e) ==
  LET at == Min({i, Len(s)})
  IN SubSeq(s, 1, at) \o <<e>> \o SubSeq(s, at + 1, Len(s))

\* 1-based position of e in s, 0 when it is not there.
PosOf(s, e) == SelectInSeq(s, LAMBDA f : f = e)

Filter(s, S) == SelectSeq(s, LAMBDA e : e \in S)

Project(s, F(_)) == [i \in 1..Len(s) |-> F(s[i])]

\* s without the elements at the (1-based) positions P.
Without(s, P) ==
  LET kept == SelectSeq([i \in 1..Len(s) |-> i], LAMBDA i : i \notin P)
  IN [k \in 1..Len(kept) |-> s[kept[k]]]

-----------------------------------------------------------------------------
(* Movable lists.  Every insertion and every move makes a slot; an element  *)
(* is seen in its latest slot, unless a deletion killed that slot.          *)

SlotAt(s, pos) == SelectInSeq(s, LAMBDA e : e.pos = pos)

Visible(s) ==
  SelectSeq(s, LAMBDA e :
    /\ ~e.dead
    /\ \A j \in 1..Len(s) : s[j].eid = e.eid => ~Before(e.pos, s[j].pos))

AddSlot(s, o) ==
  ClampedInsert(s, SlotAt(s, o.after),
                [eid |-> o.eid, val |-> o.val, pos |-> o.pos, dead |-> FALSE])

ApplyOp(d, o) ==
  CASE o.op = "put" -> [d EXCEPT !.items = (o.item :> o.rec) @@ @]
    [] o.op = "rm"  -> [d EXCEPT !.items = [i \in DOMAIN @ \ {o.item} |-> @[i]]]
    [] o.op = "set" ->
         IF o.item \in DOMAIN d.items /\ d.items[o.item].cid = o.cid
         THEN [d EXCEPT !.items[o.item] = o.upd @@ @]
         ELSE d
    [] o.op = "cfg" -> [d EXCEPT !.settings = o.upd @@ @]
    [] o.op = "ins" -> [d EXCEPT !.seqs[o.c] = AddSlot(@, o)]
    [] o.op = "del" ->
         [d EXCEPT !.seqs[o.c] =
            Project(@, LAMBDA e : IF e.pos = o.pos THEN [e EXCEPT !.dead = TRUE] ELSE e)]
    [] o.op = "row" ->
         [d EXCEPT !.seqs["lists"] =
            Project(@, LAMBDA e : IF e.eid = o.eid THEN [e EXCEPT !.val = o.upd @@ @]
                                  ELSE e)]

ApplyCommit(d, c) == FoldLeft(ApplyOp, d, c.ops)

\* import: the union of both replicas' commits, replayed.
Replay(base, commits) ==
  FoldLeft(ApplyCommit, base,
           SetToSortSeq(commits, LAMBDA c, e : Before(c.stamp, e.stamp)))

-----------------------------------------------------------------------------
(* A transaction collects the operations of one commit, the document they   *)
(* make, and the intents that would undo them.                              *)

Begin(d, stamp) == [d |-> d, ops |-> <<>>, inv |-> <<>>, stamp |-> stamp]

\* The id new_id() and the library mint for the next operation.
NextId(tx) == <<tx.stamp[1], tx.stamp[2], Len(tx.ops) + 1>>

Do(tx, o, undoIntent) ==
  [tx EXCEPT !.d = ApplyOp(@, o), !.ops = Append(@, o), !.inv = <<undoIntent>> \o @]

\* The slot to the left of 0-based visible position i.
AnchorAt(s, i) == IF i = 0 \/ s = <<>> THEN Top ELSE s[Min({i, Len(s)})].pos

PutItem(tx, i, rec) ==
  Do(tx, [op |-> "put", item |-> i, rec |-> rec], [op |-> "rm", item |-> i])

RmItem(tx, i) ==
  Do(tx, [op |-> "rm", item |-> i], [op |-> "put", item |-> i, rec |-> tx.d.items[i]])

SetField(tx, i, f, v) ==
  Do(tx, [op |-> "set", item |-> i, cid |-> tx.d.items[i].cid, upd |-> f :> v],
         [op |-> "set", item |-> i, f |-> f, v |-> tx.d.items[i][f]])

SetSetting(tx, f, v) ==
  Do(tx, [op |-> "cfg", upd |-> f :> v], [op |-> "cfg", f |-> f, v |-> tx.d.settings[f]])

InsertAfter(tx, c, after, eid, val) ==
  Do(tx, [op |-> "ins", c |-> c, after |-> after, eid |-> eid, val |-> val,
          pos |-> NextId(tx)],
         [op |-> "take", c |-> c, val |-> val])

Insert(tx, c, i, val) ==
  InsertAfter(tx, c, AnchorAt(Visible(tx.d.seqs[c]), i), NextId(tx), val)

\* i is the 1-based visible position.
Delete(tx, c, i) ==
  LET s == Visible(tx.d.seqs[c])
  IN Do(tx, [op |-> "del", c |-> c, pos |-> s[i].pos],
            [op |-> "give", c |-> c, val |-> s[i].val, after |-> AnchorAt(s, i - 1)])

DeleteAll(tx, c, P) ==
  FoldLeft(LAMBDA t, i : Delete(t, c, i), tx,
           SetToSortSeq(P, LAMBDA a, b : a > b))

\* mov(from, to), both 0-based.
Move(tx, c, from, to) ==
  LET s == Visible(tx.d.seqs[c])
      e == s[from + 1]
      rest == RemoveAt(s, from + 1)
  IN Do(tx, [op |-> "ins", c |-> c, after |-> AnchorAt(rest, to), eid |-> e.eid,
             val |-> e.val, pos |-> NextId(tx)],
            [op |-> "mov", c |-> c, val |-> e.val, after |-> AnchorAt(s, from)])

SetRow(tx, i, f, v) ==
  LET e == Visible(tx.d.seqs["lists"])[i]
  IN Do(tx, [op |-> "row", eid |-> e.eid, upd |-> f :> v],
            [op |-> "row", id |-> e.val.id, f |-> f, v |-> e.val[f]])

-----------------------------------------------------------------------------
(* UndoManager: the intents of a commit carried out on the document as it   *)
(* now is.  An intent whose target a remote edit removed does nothing.      *)

Perform(tx, o) ==
  LET items == tx.d.items
      At(c) == SelectInSeq(Visible(tx.d.seqs[c]), LAMBDA e : e.val = o.val)
      Row == SelectInSeq(Visible(tx.d.seqs["lists"]), LAMBDA e : e.val.id = o.id)
      there == CASE o.op \in {"rm", "set"} -> o.item \in DOMAIN items
                 [] o.op \in {"take", "mov"} -> At(o.c) # 0
                 [] o.op = "row" -> Row # 0
                 [] o.op \in {"put", "give", "cfg"} -> TRUE
  IN IF ~there THEN tx
     ELSE CASE o.op = "rm" -> RmItem(tx, o.item)
            [] o.op = "put" -> PutItem(tx, o.item, [o.rec EXCEPT !.cid = NextId(tx)])
            [] o.op = "set" -> IF items[o.item][o.f] = o.v THEN tx
                               ELSE SetField(tx, o.item, o.f, o.v)
            [] o.op = "cfg" -> SetSetting(tx, o.f, o.v)
            [] o.op = "take" -> Delete(tx, o.c, At(o.c))
            [] o.op = "give" -> InsertAfter(tx, o.c, o.after, NextId(tx), o.val)
            [] o.op = "mov" ->
                 LET s == Visible(tx.d.seqs[o.c])
                     e == s[At(o.c)]
                 IN Do(tx, [op |-> "ins", c |-> o.c, after |-> o.after, eid |-> e.eid,
                            val |-> e.val, pos |-> NextId(tx)],
                           [o EXCEPT !.after = AnchorAt(s, At(o.c) - 1)])
            [] o.op = "row" -> SetRow(tx, Row, o.f, o.v)

PerformAll(tx, intents) == FoldLeft(Perform, tx, intents)
=============================================================================
