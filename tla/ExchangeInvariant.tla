------------------------- MODULE ExchangeInvariant -------------------------
(***************************************************************************)
(* The inductive invariant behind NoUnexpectedFrame and OneRowPerPush: how *)
(* the state of an engine, the requests and replies on its connection and  *)
(* the handler its session is in belong together.                          *)
(*                                                                         *)
(* An engine has at most one request open, and its state says which.  The  *)
(* request is on its way, or in a handler, or its last reply is on the way *)
(* back, and never two of the three.  Acks, snapshot requests and their    *)
(* answers, and broadcasts cross it freely.                                *)
(***************************************************************************)
EXTENDS SyncInvariant

\* The request an engine waits on in a state, n being the push in flight.
AskedIn(st, n, f) ==
  \/ f.type = "OpenDoc" /\ st = "Opening"
  \/ f.type = "PullUpdates" /\ st = "Pulling"
  \/ f.type = "PullSnapshot" /\ st = "Bootstrapping"
  \/ f.type = "PushUpdates" /\ st = "Pushing" /\ f.push = n

IsRequest(f) == f.type \in {"OpenDoc", "PullUpdates", "PullSnapshot", "PushUpdates"}

\* The reply an engine has a use for in a state.
AwaitedIn(st, n, f) ==
  \/ f.type = "DocOpened" /\ st = "Opening"
  \/ f.type \in {"UpdatesBatch", "SnapshotRequired"} /\ st = "Pulling"
  \/ f.type = "Snapshot" /\ st = "Bootstrapping"
  \/ f.type = "UpdatesAck" /\ st = "Pushing" /\ f.push = n

IsReply(f) ==
  f.type \in {"DocOpened", "UpdatesBatch", "SnapshotRequired", "Snapshot", "UpdatesAck"}

\* The reply that ends its request: of a batch or a chain, the last frame.
IsFinal(f) ==
  \/ f.type \in {"DocOpened", "SnapshotRequired", "UpdatesAck"}
  \/ f.type \in {"UpdatesBatch", "Snapshot"} /\ f.complete

\* The handler a session is in, while its request is not answered.
WorksOn(st, n, t) ==
  /\ t.kind = "push" => st = "Pushing" /\ t.push = n
  /\ t.kind = "pull" => st = "Pulling"

Answering(t) == t.kind \in {"push", "pull"}

\* requests, t and replies: the frames to the session, the handler it is in,
\* and the frames back to the engine.
Exchange(st, n, requests, t, replies) ==
  /\ WorksOn(st, n, t)
  /\ \A i \in DOMAIN requests : IsRequest(requests[i]) =>
       /\ AskedIn(st, n, requests[i])
       /\ ~Answering(t)
       /\ \A j \in DOMAIN requests : IsRequest(requests[j]) => i = j
       /\ \A j \in DOMAIN replies : ~IsReply(replies[j])
  /\ \A i \in DOMAIN replies : IsReply(replies[i]) => AwaitedIn(st, n, replies[i])
  /\ \A i \in DOMAIN replies : IsReply(replies[i]) /\ IsFinal(replies[i]) =>
       /\ ~Answering(t)
       /\ \A j \in DOMAIN replies : IsReply(replies[j]) => j <= i

\* A connection that was not dialed yet is unused; one that its device has
\* left has nothing to be read.
ConnOK(c) ==
  /\ c[2] > dialed[c[1]] => sess[c] = NoSession /\ c2s[c] = <<>>
  /\ ~Live(c) => s2c[c] = <<>>
  /\ Live(c) => Exchange(dev[c[1]].state, dev[c[1]].inFlight, c2s[c], sess[c].task, s2c[c])

ExchangeInv == \A c \in Conn : ConnOK(c)

\* The updates table has one row for a push id.
RowsUnique ==
  \A i, j \in purged + 1 .. Len(log) : log[i] = log[j] => i = j
=============================================================================
