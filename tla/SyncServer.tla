----------------------------- MODULE SyncServer -----------------------------
(***************************************************************************)
(* The sync server: the per-connection session task (server/src/sync/ws.rs *)
(* run_session and the handlers it calls), the broadcast registry          *)
(* (sessions.rs), the snapshot coordinator (snapshot.rs) and the tables    *)
(* behind them (queries.rs).                                               *)
(*                                                                         *)
(* A session handles one frame at a time.  A handler that awaits the       *)
(* database and then goes on is several steps, with sess[c].task the step  *)
(* it is at; other sessions run in between.  A reply to a client that is   *)
(* gone is lost in the socket buffer, or fails and ends the session.       *)
(***************************************************************************)
EXTENDS SyncState

NoTask == [kind |-> "idle"]

NoSession == [up |-> FALSE, open |-> FALSE, sub |-> FALSE, rx |-> <<>>,
              lease |-> NoLease, task |-> NoTask]

IdleLease == [id |-> NoLease, expired |-> FALSE]

Ready(c) == sess[c].up /\ sess[c].task.kind = "idle"

\* The session reads a frame of this type for a document it has open.
Reads(c, type) ==
  /\ Ready(c)
  /\ c2s[c] # <<>>
  /\ Head(c2s[c]).type = type
  /\ sess[c].open \/ type = "OpenDoc"

Frame(c) == Head(c2s[c])
Consumed(c) == [c2s EXCEPT ![c] = Tail(@)]

\* run_session returns: the subscription is deregistered with the session,
\* unread frames are lost.
End(S, c) == [S EXCEPT ![c] = NoSession]
Unread(c) == [c2s EXCEPT ![c] = <<>>]

-----------------------------------------------------------------------------
(* Snapshot coordinator *)

Latest == snaps[Len(snaps)]
PrevUpTo == IF snaps = <<>> THEN 0 ELSE Latest.upTo
PrevFloor == IF snaps = <<>> THEN 0 ELSE Latest.floor

\* latest_doc_seq reads the updates table, not the sequence counter: 0 when
\* compaction has emptied it.
LatestDocSeq == IF Len(log) > purged THEN Len(log) ELSE 0

\* doc_horizon: the caller's frontier is taken to be the acked seq.
Horizon(d, acked) ==
  MinOf({IF x = d THEN acked ELSE frontier[x] : x \in enrolled})

\* evaluate: is a snapshot asked of the device that has just acked?
Issues(acked) ==
  /\ LatestDocSeq - PrevUpTo >= Threshold
  /\ acked = LatestDocSeq
  /\ lease.id = NoLease \/ lease.expired

SnapshotRequest(d, acked) ==
  [type  |-> "SnapshotRequest",
   floor |-> MaxOf(Horizon(d, acked), PrevFloor),
   base  |-> Len(snaps)]

\* evaluate_snapshot_decision and issue_snapshot_request after S and the
\* replies of the handler, with rest left to read; a send to a client that is
\* gone may fail.
EvaluateAndReply(c, acked, S, rest, replies) ==
  LET issued == Issues(acked)
      frames == IF issued THEN Append(replies, SnapshotRequest(c[1], acked)) ELSE replies
  IN /\ lease' = IF issued THEN [id |-> nextLease, expired |-> FALSE] ELSE lease
     /\ nextLease' = IF issued THEN nextLease + 1 ELSE nextLease
     /\ \/ /\ sess' = IF issued THEN [S EXCEPT ![c].lease = nextLease] ELSE S
           /\ c2s' = rest
           /\ ToClient(c, frames)
        \/ /\ ~Live(c)
           /\ frames # <<>>
           /\ sess' = End(S, c)
           /\ c2s' = Unread(c)
           /\ UNCHANGED s2c

-----------------------------------------------------------------------------
(* Handlers *)

\* open_doc: subscribe, then reply.
RecvOpenDoc(c) ==
  /\ Reads(c, "OpenDoc")
  /\ c2s' = Consumed(c)
  /\ sess' = [sess EXCEPT ![c].open = TRUE, ![c].sub = TRUE]
  /\ ToClient(c, <<[type |-> "DocOpened"]>>)
  /\ UNCHANGED <<clientVars, serverVars>>

\* A payload frame before OpenDoc is DocNotOpen and ends the session.
RecvDocNotOpen(c) ==
  /\ Ready(c)
  /\ ~sess[c].open
  /\ c2s[c] # <<>>
  /\ Frame(c).type # "OpenDoc"
  /\ c2s' = Unread(c)
  /\ sess' = End(sess, c)
  /\ UNCHANGED <<clientVars, serverVars, s2c>>

\* Fault: no deduplication.
StoredNever(d, push) == {}

\* insert_updates: the row a push id already has, if compaction left it.
Stored(d, push) ==
  {s \in purged + 1 .. Len(log) : log[s] = [dev |-> d, push |-> push]}

\* push_updates, first half: one transaction that inserts or deduplicates.
RecvPushUpdates(c) ==
  LET n == Frame(c).push
      old == Stored(c[1], n)
      s == IF old = {} THEN Len(log) + 1 ELSE CHOOSE x \in old : TRUE
  IN /\ Reads(c, "PushUpdates")
     /\ c2s' = Consumed(c)
     /\ log' = IF old = {} THEN Append(log, [dev |-> c[1], push |-> n]) ELSE log
     /\ sess' = [sess EXCEPT ![c].task =
                   [kind |-> "push", push |-> n, seq |-> s, fresh |-> old = {}]]
     /\ UNCHANGED <<clientVars, purged, snaps, frontier, lease, nextLease, compactDue,
                    enrolled, s2c>>

\* Fault: a full channel loses the frame and keeps its subscriber.
BroadcastLossy(S, c, s) ==
  [x \in Conn |->
     IF x = c \/ ~S[x].sub \/ Len(S[x].rx) >= Capacity THEN S[x]
     ELSE [S[x] EXCEPT !.rx = Append(@, s)]]

\* SyncSessions::broadcast of row s: a subscriber whose channel is full is
\* dropped from the registry.
Broadcast(S, c, s) ==
  [x \in Conn |->
     IF x = c \/ ~S[x].sub THEN S[x]
     ELSE IF Len(S[x].rx) < Capacity THEN [S[x] EXCEPT !.rx = Append(@, s)]
     ELSE [S[x] EXCEPT !.sub = FALSE]]

\* push_updates, second half: fan a fresh row out, decide on a snapshot, ack
\* the push and only then request the snapshot.
FinishPush(c) ==
  LET t == sess[c].task
      S == [sess EXCEPT ![c].task = NoTask]
  IN /\ t.kind = "push"
     /\ EvaluateAndReply(c, t.seq, IF t.fresh THEN Broadcast(S, c, t.seq) ELSE S, c2s,
                         <<[type |-> "UpdatesAck", push |-> t.push, seq |-> t.seq]>>)
     /\ UNCHANGED <<clientVars, log, purged, snaps, frontier, compactDue, enrolled>>

\* Fault: SnapshotRequired without the early return.
RecvPullUpdatesNoReturn(c) ==
  /\ Reads(c, "PullUpdates")
  /\ c2s' = Consumed(c)
  /\ sess' = [sess EXCEPT ![c].task = [kind |-> "pull", cursor |-> Frame(c).since]]
  /\ ToClient(c, IF Frame(c).since < PrevFloor THEN <<[type |-> "SnapshotRequired"]>> ELSE <<>>)
  /\ UNCHANGED <<clientVars, serverVars>>

\* pull_updates: below the compaction floor the client must bootstrap.
RecvPullUpdates(c) ==
  LET since == Frame(c).since
  IN /\ Reads(c, "PullUpdates")
     /\ c2s' = Consumed(c)
     /\ IF since < PrevFloor
        THEN /\ ToClient(c, <<[type |-> "SnapshotRequired"]>>)
             /\ UNCHANGED sess
        ELSE /\ sess' = [sess EXCEPT ![c].task = [kind |-> "pull", cursor |-> since]]
             /\ UNCHANGED s2c
     /\ UNCHANGED <<clientVars, serverVars>>

\* One turn of pull_updates' loop: fetch_updates_batch is capped in rows and
\* in bytes (any shorter prefix) and reads what compaction has left by now.
PullBatch(c) ==
  LET t == sess[c].task
      lo == MaxOf(t.cursor, purged) + 1
      last == Len(log)
  IN /\ t.kind = "pull"
     /\ \E hi \in (IF last < lo THEN {last} ELSE lo .. last) :
          /\ hi < lo + BatchMax
          /\ ToClient(c, <<[type |-> "UpdatesBatch", lo |-> lo, hi |-> hi,
                            complete |-> hi = last]>>)
          /\ sess' = [sess EXCEPT ![c].task = IF hi = last THEN NoTask
                                              ELSE [kind |-> "pull", cursor |-> hi]]
     /\ UNCHANGED <<clientVars, serverVars, c2s>>

\* advance_last_acked_seq is monotonic.
Advanced(f, seq) == MaxOf(f, seq)

\* Ack: record the device's frontier, then evaluate.
RecvAck(c) ==
  LET seq == Frame(c).seq
  IN /\ Reads(c, "Ack")
     /\ frontier' = [frontier EXCEPT ![c[1]] = Advanced(@, seq)]
     /\ EvaluateAndReply(c, seq, sess, Consumed(c), <<>>)
     /\ UNCHANGED <<clientVars, log, purged, snaps, compactDue, enrolled>>

\* Fault: only the latest row is served.
IsLatestRow(h) == h = Len(snaps)

\* snapshot_chain starts at the last full row and takes every delta after it.
IsChainHead(h) ==
  /\ snaps[h].from = FullSnapshot
  /\ \A i \in h + 1 .. Len(snaps) : snaps[i].from # FullSnapshot

\* pull_snapshot: one Snapshot frame per row of the chain.  The request only
\* follows a SnapshotRequired, so there is a chain.
RecvPullSnapshot(c) ==
  \E h \in 1..Len(snaps) :
    /\ Reads(c, "PullSnapshot")
    /\ IsChainHead(h)
    /\ c2s' = Consumed(c)
    /\ ToClient(c, [i \in 1 .. Len(snaps) - h + 1 |->
                      [type |-> "Snapshot", row |-> h + i - 1,
                       complete |-> h + i - 1 = Len(snaps)]])
    /\ UNCHANGED <<clientVars, serverVars, sess>>

\* push_snapshot, first half: only the holder of the current lease is heard;
\* the lease is released before the row is written.
RecvPushSnapshot(c) ==
  LET held == sess[c].lease # NoLease /\ sess[c].lease = lease.id
  IN /\ Reads(c, "PushSnapshot")
     /\ c2s' = Consumed(c)
     /\ lease' = IF held THEN IdleLease ELSE lease
     /\ sess' = IF held
                THEN [sess EXCEPT ![c].lease = NoLease,
                                  ![c].task = [kind |-> "snap", row |-> Frame(c).row]]
                ELSE sess
     /\ UNCHANGED <<clientVars, log, purged, snaps, frontier, nextLease, compactDue,
                    enrolled, s2c>>

\* insert_snapshot's chain check.
Links(row) ==
  row.from # FullSnapshot => snaps # <<>> /\ Latest.upTo = row.from /\ row.upTo >= row.from

\* push_snapshot, second half: insert the row unless it does not chain, and
\* spawn a compaction.
InsertSnapshot(c) ==
  LET t == sess[c].task
  IN /\ t.kind = "snap"
     /\ sess' = [sess EXCEPT ![c].task = NoTask]
     /\ snaps' = IF Links(t.row) THEN Append(snaps, t.row) ELSE snaps
     /\ compactDue' = (compactDue \/ Links(t.row))
     /\ UNCHANGED <<clientVars, log, purged, frontier, lease, nextLease, enrolled, c2s, s2c>>

\* The session loop forwards the next frame of its subscription.
SendBroadcast(c) ==
  /\ Ready(c)
  /\ sess[c].rx # <<>>
  /\ sess' = [sess EXCEPT ![c].rx = Tail(@)]
  /\ ToClient(c, <<[type |-> "UpdatesBroadcast", seq |-> Head(sess[c].rx)]>>)
  /\ UNCHANGED <<clientVars, serverVars, c2s>>

-----------------------------------------------------------------------------
(* How a session ends *)

\* The subscription was dropped as a slow consumer: BroadcastLagged once its
\* backlog is forwarded.  The error exit does not give the lease back.
Lagged(c) ==
  /\ Ready(c)
  /\ sess[c].open /\ ~sess[c].sub
  /\ sess[c].rx = <<>>
  /\ sess' = End(sess, c)
  /\ c2s' = Unread(c)
  /\ UNCHANGED <<clientVars, serverVars, s2c>>

\* A send to a client that is gone fails: another error exit.
SendFails(c) ==
  /\ sess[c].up /\ ~Live(c)
  /\ \/ sess[c].task.kind = "pull"
     \/ /\ Ready(c)
        /\ \/ sess[c].rx # <<>>
           \/ Reads(c, "PullUpdates") \/ Reads(c, "PullSnapshot") \/ Reads(c, "OpenDoc")
  /\ sess' = End(sess, c)
  /\ c2s' = Unread(c)
  /\ UNCHANGED <<clientVars, serverVars, s2c>>

\* The session reads the close or reset of the socket: an unfinished lease
\* goes back to the coordinator.
SessionClosed(c) ==
  /\ Ready(c)
  /\ ~Live(c)
  /\ lease' = IF sess[c].lease # NoLease /\ sess[c].lease = lease.id THEN IdleLease ELSE lease
  /\ sess' = End(sess, c)
  /\ c2s' = Unread(c)
  /\ UNCHANGED <<clientVars, log, purged, snaps, frontier, nextLease, compactDue, enrolled, s2c>>

-----------------------------------------------------------------------------
(* The rest of the server *)

\* compact_doc, in a task of its own.
Compact ==
  /\ compactDue
  /\ compactDue' = FALSE
  /\ purged' = MaxOf(purged, PrevFloor)
  /\ UNCHANGED <<clientVars, wireVars, log, snaps, frontier, lease, nextLease, enrolled>>

\* SNAPSHOT_TIMEOUT passes.
ExpireLease ==
  /\ lease.id # NoLease
  /\ ~lease.expired
  /\ lease' = [lease EXCEPT !.expired = TRUE]
  /\ UNCHANGED <<clientVars, wireVars, log, purged, snaps, frontier, nextLease, compactDue,
                 enrolled>>

\* A member adds a device: it has acked nothing.
Enrol(d) ==
  /\ d \notin enrolled
  /\ enrolled' = enrolled \cup {d}
  /\ UNCHANGED <<clientVars, wireVars, log, purged, snaps, frontier, lease, nextLease,
                 compactDue>>

\* The server process restarts: the tables stay, sessions, registry, leases
\* and the spawned compaction are gone.
Restart ==
  /\ Restarts
  /\ \E c \in Conn : sess[c].up
  /\ sess' = [c \in Conn |-> NoSession]
  /\ c2s' = [c \in Conn |-> <<>>]
  /\ lease' = IdleLease
  /\ nextLease' = NoLease + 1
  /\ compactDue' = FALSE
  /\ UNCHANGED <<clientVars, log, purged, snaps, frontier, enrolled, s2c>>

SessionStep(c) ==
  \/ RecvOpenDoc(c)
  \/ RecvDocNotOpen(c)
  \/ RecvPushUpdates(c)
  \/ FinishPush(c)
  \/ RecvPullUpdates(c)
  \/ PullBatch(c)
  \/ RecvAck(c)
  \/ RecvPullSnapshot(c)
  \/ RecvPushSnapshot(c)
  \/ InsertSnapshot(c)
  \/ SendBroadcast(c)
  \/ Lagged(c)
  \/ SendFails(c)
  \/ SessionClosed(c)
=============================================================================
