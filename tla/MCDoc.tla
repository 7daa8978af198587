------------------------------- MODULE MCDoc -------------------------------
(***************************************************************************)
(* Instances of DocSystem: two replicas and a document with three items in *)
(* list L, which has an icon, the younger in front and the oldest in focus. *)
(***************************************************************************)
EXTENDS DocSystem

Mix(kinds, one, two) == [kinds |-> kinds, commits |-> <<one, two>>]

MCMixes ==
  {Mix({"move", "undo"}, 2, 1),
   Mix({"move", "reconcile"}, 2, 1),
   Mix({"move", "lifecycle"}, 2, 0),
   Mix({"lifecycle", "delete", "undo"}, 1, 1),
   Mix({"lifecycle", "delete", "undo", "import"}, 3, 0),
   Mix({"lifecycle", "focus", "reconcile"}, 1, 1),
   Mix({"lifecycle", "move", "deleteList"}, 1, 1),
   Mix({"add", "deleteList", "reconcile", "undo"}, 1, 1),
   Mix({"deleteList", "import", "reconcile", "undo", "reopen"}, 2, 1),
   Mix({"list", "undo"}, 3, 0),
   Mix({"row", "list", "search", "undo"}, 1, 1),
   Mix({"content", "settings", "undo", "search"}, 1, 1)}

MCRevive == {Mix({"deleteList", "undo", "search"}, 2, 0)}

\* Items 1 and 2 are open; item 3 is done and its entry has been swept.
MCRec(i) ==
  [cid |-> <<i, 0, 1>>, loc |-> [list |-> "L", pl |-> <<i, 0, 1>>],
   life |-> [state |-> IF i = 3 THEN "Done" ELSE "Backlog", at |-> i], started |-> None,
   done |-> IF i = 3 THEN 3 ELSE None,
   binned |-> None, created |-> i, text |-> 1, notes |-> None, deadline |-> None,
   when |-> None, dur |-> None, place |-> None]

MCSlot(k, v) == [eid |-> <<3, 0, k>>, val |-> v, pos |-> <<3, 0, k>>, dead |-> FALSE]

MCBase ==
  [time |-> 3,
   items |-> [i \in {1, 2, 3} |-> MCRec(i)],
   settings |-> [counts |-> TRUE, name |-> None, hidden |-> {}, amalgamate |-> FALSE,
                 inboxView |-> None],
   seqs |-> [c \in Container |->
               CASE c = "lists" -> <<MCSlot(1, [NewRow("L", 1) EXCEPT !.icon = 1])>>
                 [] c = "focus" -> <<MCSlot(2, FocusRef(1))>>
                 [] c = "L" -> <<MCSlot(3, Entry(2, <<2, 0, 1>>)), MCSlot(4, Entry(1, <<1, 0, 1>>))>>
                 [] OTHER -> <<>>]]
=============================================================================
