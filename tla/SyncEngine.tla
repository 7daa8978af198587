----------------------------- MODULE SyncEngine -----------------------------
(***************************************************************************)
(* The client: core/src/sync.rs's sans-IO SyncEngine, the sync half of     *)
(* core/src/doc.rs, and the synchronously durable SqliteStorage under it.  *)
(* One action per entry point of the engine or frame it handles.  The host *)
(* drains the outbox after every call, so an action that queues a frame    *)
(* puts it on the wire.                                                    *)
(*                                                                         *)
(* dev[d].imported is every operation handed to Loro since the process     *)
(* booted; Doc(d) is the oplog, the part of it whose dependencies are met. *)
(***************************************************************************)
EXTENDS SyncState

DocOf(e) == Applied(e.imported, deps)
Doc(d) == DocOf(dev[d])

\* Fault: everything on disk is taken to be on the server.
BootedSynced(k) ==
  [state |-> "Disconnected", imported |-> k.snap \cup k.wal,
   captured |-> Declared(k.snap \cup k.wal), known |-> Declared(k.snap \cup k.wal),
   inFlight |-> k.inFlight, contig |-> k.cursor, durable |-> k.cursor,
   sentAck |-> k.cursor, outbox |-> <<>>]

\* What a process that boots from a storage k starts with (boot_doc, seed_boot,
\* SyncEngine::new).
Booted(k) ==
  [state    |-> "Disconnected",
   imported |-> k.snap \cup k.wal,
   captured |-> Declared(k.snap \cup k.wal),
   known    |-> k.known,
   inFlight |-> k.inFlight,
   contig   |-> k.cursor,
   durable  |-> k.cursor,
   sentAck  |-> k.cursor,
   outbox   |-> <<>>]

EmptyDisk == [snap |-> {}, wal |-> {}, known |-> {}, cursor |-> 0, inFlight |-> NoPush]

-----------------------------------------------------------------------------
(* Local commits and their durability *)

\* A user's change.  Loro gives it the counter after the last one of this peer
\* in the oplog.
Commit(d) ==
  \E c \in 1..MaxOps[d] :
    /\ d \in enrolled
    /\ <<d, c>> \notin Doc(d)
    /\ \A b \in 1 .. c - 1 : <<d, b>> \in Doc(d)
    /\ deps' = [deps EXCEPT ![<<d, c>>] = Doc(d)]
    /\ dev' = [dev EXCEPT ![d].imported = @ \cup {<<d, c>>}]
    /\ UNCHANGED <<disk, blobs, dialed, link, serverVars, wireVars>>

\* Fault: the operations are counted as captured and not written.
CapturedNothing(e, k) == k

\* capture_local_ops: one WAL row with everything past the capture cursor.
CapturedDev(e) == [e EXCEPT !.captured = @ \cup DocOf(e)]
CapturedDisk(e, k) == [k EXCEPT !.wal = @ \cup (DocOf(e) \ e.captured)]

CaptureLocalOps(d) ==
  /\ Doc(d) # dev[d].captured
  /\ dev' = [dev EXCEPT ![d] = CapturedDev(@)]
  /\ disk' = [disk EXCEPT ![d] = CapturedDisk(dev[d], @)]
  /\ UNCHANGED <<deps, blobs, dialed, link, serverVars, wireVars>>

\* Fault: the checkpoint is what the server has.
FoldedServerState(e, k) == [k EXCEPT !.snap = DocOf(e) \cap e.known, !.wal = {}]

\* Fault: the WAL is pruned and no checkpoint written.
PrunedOnly(e, k) == [k EXCEPT !.wal = {}]

\* write_snapshot with the engine's cutoff: the checkpoint is the oplog, every
\* WAL row goes.
FoldedDisk(e, k) == [k EXCEPT !.snap = DocOf(e), !.wal = {}]

\* snapshot_if_wal_exceeds / force_snapshot, at whatever threshold.
FoldWal(d) ==
  LET k == CapturedDisk(dev[d], disk[d])
  IN /\ d \in Folding
     /\ k.wal # {}
     /\ dev' = [dev EXCEPT ![d] = CapturedDev(@)]
     /\ disk' = [disk EXCEPT ![d] = FoldedDisk(dev[d], k)]
     /\ UNCHANGED <<deps, blobs, dialed, link, serverVars, wireVars>>

\* Fault: write_acked_seq is forgotten.
CursorForgotten(k, seq) == k

\* write_acked_seq.
WithCursor(k, seq) == [k EXCEPT !.cursor = seq]

\* notify_oplog_durable with a last_contiguous_seq the host sampled when the
\* write began: persists the resume cursor and queues an Ack.  Nothing asks
\* whether the engine is still connected; offline the Ack stays in the outbox.
NotifyOplogDurable(d) ==
  \E seq \in dev[d].durable + 1 .. dev[d].contig :
    LET ack == [type |-> "Ack", seq |-> seq]
        queues == seq > dev[d].sentAck
    IN /\ disk' = [disk EXCEPT ![d] = WithCursor(@, seq)]
       /\ dev' = [dev EXCEPT ![d].durable = seq,
                             ![d].sentAck = MaxOf(@, seq),
                             ![d].outbox = IF queues /\ link[d] = 0 THEN Append(@, ack) ELSE @]
       /\ IF queues /\ link[d] # 0 THEN ToServer(d, ack) ELSE UNCHANGED c2s
       /\ UNCHANGED <<deps, blobs, dialed, link, serverVars, s2c, sess>>

-----------------------------------------------------------------------------
(* Connection life cycle *)

\* The host has a socket with the version handshake done: handle_connected
\* queues OpenDoc behind whatever the outbox holds, and the host drains it.
Connect(d) ==
  LET c == <<d, dialed[d] + 1>>
  IN /\ d \in enrolled
     /\ link[d] = 0
     /\ dialed[d] < MaxConn[d]
     /\ dialed' = [dialed EXCEPT ![d] = @ + 1]
     /\ link' = [link EXCEPT ![d] = c[2]]
     /\ dev' = [dev EXCEPT ![d].state = "Opening", ![d].outbox = <<>>]
     /\ sess' = [sess EXCEPT ![c].up = TRUE]
     /\ c2s' = [c2s EXCEPT ![c] = Append(dev[d].outbox, [type |-> "OpenDoc"])]
     /\ UNCHANGED <<disk, deps, blobs, serverVars, s2c>>

\* handle_disconnected: the socket dropped, or the server has closed it.
\* Frames not read yet are lost on this side; the server may still read the
\* ones it has received.
Disconnect(d) ==
  /\ link[d] # 0
  /\ d \in Dropping \/ ~sess[MyConn(d)].up
  /\ link' = [link EXCEPT ![d] = 0]
  /\ s2c' = [s2c EXCEPT ![MyConn(d)] = <<>>]
  /\ dev' = [dev EXCEPT ![d].state = "Disconnected"]
  /\ UNCHANGED <<disk, deps, blobs, dialed, serverVars, c2s, sess>>

\* The process dies with k on disk and boots again.
RebootFrom(d, k) ==
  /\ d \in Crashing
  /\ disk' = [disk EXCEPT ![d] = k]
  /\ dev' = [dev EXCEPT ![d] = Booted(k)]
  /\ link' = [link EXCEPT ![d] = 0]
  /\ s2c' = IF link[d] = 0 THEN s2c ELSE [s2c EXCEPT ![MyConn(d)] = <<>>]
  /\ UNCHANGED <<deps, blobs, dialed, serverVars, c2s, sess>>

Crash(d) == RebootFrom(d, disk[d])

-----------------------------------------------------------------------------
(* Pushing *)

\* put_in_flight_push: the durable record of the one push in flight.
PutInFlight(k, n) == [k EXCEPT !.inFlight = n]

\* complete_push: drop the record if it is this push's, and store the VV.
CompletePush(k, n, known) ==
  [k EXCEPT !.known = known, !.inFlight = IF @ = n THEN NoPush ELSE @]

\* try_start_push in state Idle, starting from the engine e and storage k that
\* the caller has already updated: retry the in-flight push, or capture and
\* export everything past server_known_vv as a new one.
TryStartPush(d, e, k) ==
  IF e.inFlight # NoPush
  THEN /\ dev' = [dev EXCEPT ![d] = [e EXCEPT !.state = "Pushing"]]
       /\ disk' = [disk EXCEPT ![d] = k]
       /\ ToServer(d, [type |-> "PushUpdates", push |-> e.inFlight])
       /\ UNCHANGED blobs
  ELSE LET e1 == CapturedDev(e)
           k1 == CapturedDisk(e, k)
           n  == Len(blobs[d]) + 1
       IN IF DocOf(e) \subseteq e.known
          THEN /\ dev' = [dev EXCEPT ![d] = [e1 EXCEPT !.state = "Idle"]]
               /\ disk' = [disk EXCEPT ![d] = k1]
               /\ UNCHANGED <<blobs, c2s>>
          ELSE /\ blobs' = [blobs EXCEPT ![d] =
                              Append(@, [ops |-> DocOf(e) \ e.known, to |-> DocOf(e)])]
               /\ disk' = [disk EXCEPT ![d] = PutInFlight(k1, n)]
               /\ dev' = [dev EXCEPT ![d] = [e1 EXCEPT !.inFlight = n, !.state = "Pushing"]]
               /\ ToServer(d, [type |-> "PushUpdates", push |-> n])

\* flush: the host says there may be local commits to send.  In any state but
\* Idle it changes nothing: PushingDirty, which flush enters from Pushing, is
\* treated as Pushing everywhere, so the two are one state here.
Flush(d) ==
  /\ dev[d].state = "Idle"
  /\ dev[d].inFlight # NoPush \/ ~(Doc(d) \subseteq dev[d].known)
  /\ TryStartPush(d, dev[d], disk[d])
  /\ UNCHANGED <<deps, dialed, link, serverVars, s2c, sess>>

-----------------------------------------------------------------------------
(* Server frames.  The frame at the head of the connection is consumed. *)

Inbox(d) == s2c[MyConn(d)]

Receives(d, type) ==
  /\ link[d] # 0
  /\ Inbox(d) # <<>>
  /\ Head(Inbox(d)).type = type

Consume(d) == s2c' = [s2c EXCEPT ![MyConn(d)] = Tail(@)]

\* An UpdatesBroadcast while bootstrapping is ignored (the pull after the
\* bootstrap delivers it again).  Any other frame in a state that does not
\* expect it is an error event; NoUnexpectedFrame says there is none.
DropFrame(d) ==
  /\ Receives(d, "UpdatesBroadcast")
  /\ dev[d].state = "Bootstrapping"
  /\ Consume(d)
  /\ UNCHANGED <<clientVars, serverVars, c2s, sess>>

\* Fault: the pull overlaps the last row (last_contiguous_seq is a u64).
PullSinceOverlap(e) == e.contig - 1

\* The since_seq of a PullUpdates.
PullSince(e) == e.contig

\* DocOpened starts the pull from the in-memory frontier.
HandleDocOpened(d) ==
  /\ Receives(d, "DocOpened")
  /\ dev[d].state = "Opening"
  /\ Consume(d)
  /\ dev' = [dev EXCEPT ![d].state = "Pulling"]
  /\ ToServer(d, [type |-> "PullUpdates", since |-> PullSince(dev[d])])
  /\ UNCHANGED <<disk, deps, blobs, dialed, link, serverVars, sess>>

\* apply_remote_updates for the rows lo..hi: import, advance server_known_vv
\* by the declared ranges, WAL-log each row with the advanced VV, count seqs.
ImportedDev(e, ops) ==
  [e EXCEPT !.imported = @ \cup ops,
            !.captured = @ \cup Declared(ops),
            !.known    = @ \cup Declared(ops)]

AppliedDev(e, lo, hi) ==
  IF hi < lo THEN e
  ELSE [ImportedDev(e, RangeOps(lo, hi)) EXCEPT !.contig = IngestRange(@, lo, hi)]

\* The rows lo..m of the frame lo..hi have been appended.
AppliedDisk(e, k, lo, m, hi) ==
  IF m < lo THEN k
  ELSE [k EXCEPT !.wal = @ \cup RangeOps(lo, m),
                 !.known = ImportedDev(e, RangeOps(lo, hi)).known]

\* UpdatesBatch: one frame of the answer to PullUpdates.  The last one ends
\* the pull and starts a push.
HandleUpdatesBatch(d) ==
  LET f == Head(Inbox(d))
      e == AppliedDev(dev[d], f.lo, f.hi)
      k == AppliedDisk(dev[d], disk[d], f.lo, f.hi, f.hi)
  IN /\ Receives(d, "UpdatesBatch")
     /\ dev[d].state # "Bootstrapping"
     /\ Consume(d)
     /\ IF f.complete /\ e.state = "Pulling"
        THEN TryStartPush(d, [e EXCEPT !.state = "Idle"], k)
        ELSE /\ dev' = [dev EXCEPT ![d] = e]
             /\ disk' = [disk EXCEPT ![d] = k]
             /\ UNCHANGED <<blobs, c2s>>
     /\ UNCHANGED <<deps, dialed, link, serverVars, sess>>

\* UpdatesBroadcast: another device's push, in any state but Bootstrapping.
HandleUpdatesBroadcast(d) ==
  LET s == Head(Inbox(d)).seq
  IN /\ Receives(d, "UpdatesBroadcast")
     /\ dev[d].state # "Bootstrapping"
     /\ Consume(d)
     /\ dev' = [dev EXCEPT ![d] = AppliedDev(@, s, s)]
     /\ disk' = [disk EXCEPT ![d] = AppliedDisk(dev[d], @, s, s, s)]
     /\ UNCHANGED <<deps, blobs, dialed, link, serverVars, c2s, sess>>

\* The process dies between two of a batch's WAL appends, each of which is a
\* transaction of its own.
CrashMidBatch(d) ==
  /\ Receives(d, "UpdatesBatch")
  /\ dev[d].state # "Bootstrapping"
  /\ \E m \in Head(Inbox(d)).lo .. Head(Inbox(d)).hi - 1 :
       RebootFrom(d, AppliedDisk(dev[d], disk[d], Head(Inbox(d)).lo, m, Head(Inbox(d)).hi))

\* Fault: the whole document is taken to be acknowledged.
AckedDoc(e, to) == e.known \cup DocOf(e)

\* The acknowledged span is merged into server_known_vv.
Acked(e, to) == e.known \cup to

\* UpdatesAck of the in-flight push: its to_vv is merged into server_known_vv,
\* the durable record goes, and the next delta is sent if there is one.
HandleUpdatesAck(d) ==
  LET f == Head(Inbox(d))
      e == dev[d]
      known == Acked(e, blobs[d][f.push].to)
      k == CompletePush(disk[d], f.push, known)
  IN /\ Receives(d, "UpdatesAck")
     /\ e.state = "Pushing"
     /\ e.inFlight = f.push
     /\ Consume(d)
     /\ TryStartPush(d, [e EXCEPT !.known = known, !.inFlight = NoPush, !.state = "Idle",
                                  !.contig = IngestRange(@, f.seq, f.seq)], k)
     /\ UNCHANGED <<deps, dialed, link, serverVars, sess>>

-----------------------------------------------------------------------------
(* Snapshots *)

\* SnapshotRequired: the rows past our cursor are gone, bootstrap instead.
HandleSnapshotRequired(d) ==
  /\ Receives(d, "SnapshotRequired")
  /\ dev[d].state = "Pulling"
  /\ Consume(d)
  /\ dev' = [dev EXCEPT ![d].state = "Bootstrapping"]
  /\ ToServer(d, [type |-> "PullSnapshot"])
  /\ UNCHANGED <<disk, deps, blobs, dialed, link, serverVars, sess>>

\* Snapshot: one row of the chain.  Only the last one is persisted: first
\* server_known_vv, then a checkpoint of the merged document that replaces
\* the WAL; then the pull is resumed.
HandleSnapshot(d) ==
  LET f == Head(Inbox(d))
      e == ImportedDev(dev[d], snaps[f.row].ops)
      contig == MaxOf(e.contig, snaps[f.row].upTo)
  IN /\ Receives(d, "Snapshot")
     /\ dev[d].state = "Bootstrapping"
     /\ Consume(d)
     /\ IF f.complete
        THEN /\ disk' = [disk EXCEPT ![d] = [FoldedDisk(e, @) EXCEPT !.known = e.known]]
             /\ dev' = [dev EXCEPT ![d] = [CapturedDev(e) EXCEPT !.contig = contig,
                                                                 !.state = "Pulling"]]
             /\ ToServer(d, [type |-> "PullUpdates", since |-> contig])
        ELSE /\ dev' = [dev EXCEPT ![d] = e]
             /\ UNCHANGED <<disk, c2s>>
     /\ UNCHANGED <<deps, blobs, dialed, link, serverVars, sess>>

\* The process dies between write_server_known_vv and write_snapshot.
CrashMidCheckpoint(d) ==
  /\ Receives(d, "Snapshot")
  /\ dev[d].state = "Bootstrapping"
  /\ Head(Inbox(d)).complete
  /\ RebootFrom(d, [disk[d] EXCEPT
       !.known = ImportedDev(dev[d], snaps[Head(Inbox(d)).row].ops).known])

\* Fault: the snapshot is exported at the document.
ExportedDoc(e, baseVv) == DocOf(e) \ baseVv

\* snapshot_blob_at and delta_blob_between: the operations of server_known_vv
\* outside the base that the document holds.
Exported(e, baseVv) == (e.known \ baseVv) \cap DocOf(e)

\* SnapshotRequest: produce at server_known_vv, never at the document, and
\* stamp it with last_contiguous_seq.  Declined when the delta's base is not
\* inside server_known_vv.
HandleSnapshotRequest(d) ==
  LET f == Head(Inbox(d))
      e == dev[d]
      full == f.base = 0
      baseVv == IF full THEN {} ELSE snaps[f.base].vv
  IN /\ Receives(d, "SnapshotRequest")
     /\ Consume(d)
     /\ IF baseVv \subseteq e.known
        THEN ToServer(d, [type |-> "PushSnapshot",
                          row  |-> [upTo  |-> e.contig,
                                    floor |-> f.floor,
                                    from  |-> IF full THEN FullSnapshot ELSE snaps[f.base].upTo,
                                    vv    |-> e.known,
                                    ops   |-> Exported(e, baseVv)]])
        ELSE UNCHANGED c2s
     /\ UNCHANGED <<clientVars, serverVars, sess>>

EngineStep(d) ==
  \/ Commit(d)
  \/ CaptureLocalOps(d)
  \/ FoldWal(d)
  \/ NotifyOplogDurable(d)
  \/ Connect(d)
  \/ Disconnect(d)
  \/ Crash(d)
  \/ Flush(d)
  \/ DropFrame(d)
  \/ HandleDocOpened(d)
  \/ HandleUpdatesBatch(d)
  \/ HandleUpdatesBroadcast(d)
  \/ CrashMidBatch(d)
  \/ HandleUpdatesAck(d)
  \/ HandleSnapshotRequired(d)
  \/ HandleSnapshot(d)
  \/ CrashMidCheckpoint(d)
  \/ HandleSnapshotRequest(d)
=============================================================================
