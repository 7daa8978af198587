----------------------------- MODULE SyncSystem -----------------------------
(***************************************************************************)
(* The sync engines of all devices and the server, composed: one document, *)
(* any number of devices, every interleaving of local commits, frames,     *)
(* disconnections, process crashes and server restarts.                    *)
(***************************************************************************)
EXTENDS SyncEngine, SyncServer

Init ==
  /\ dev = [d \in Device |-> Booted(EmptyDisk)]
  /\ disk = [d \in Device |-> EmptyDisk]
  /\ deps = [o \in Op |-> {}]
  /\ blobs = [d \in Device |-> <<>>]
  /\ dialed = [d \in Device |-> 0]
  /\ link = [d \in Device |-> 0]
  /\ c2s = [c \in Conn |-> <<>>]
  /\ s2c = [c \in Conn |-> <<>>]
  /\ sess = [c \in Conn |-> NoSession]
  /\ log = <<>>
  /\ purged = 0
  /\ snaps = <<>>
  /\ frontier = [d \in Device |-> 0]
  /\ lease = IdleLease
  /\ nextLease = NoLease + 1
  /\ compactDue = FALSE
  /\ enrolled = InitialDevices

Next ==
  \/ \E d \in Device : EngineStep(d)
  \/ \E c \in Conn : SessionStep(c)
  \/ Compact
  \/ ExpireLease
  \/ \E d \in Device : Enrol(d)
  \/ Restart

Spec == Init /\ [][Next]_vars

-----------------------------------------------------------------------------
(* Types *)

Ops == SUBSET Op

EngineState == {"Disconnected", "Opening", "Pulling", "Bootstrapping", "Idle", "Pushing"}

SnapRow == [upTo: Nat, floor: Nat, from: Int, vv: Ops, ops: Ops]

AckFrame == [type: {"Ack"}, seq: Nat]

ClientFrame ==
  AckFrame
  \cup [type: {"OpenDoc", "PullSnapshot"}]
  \cup [type: {"PullUpdates"}, since: Nat]
  \cup [type: {"PushUpdates"}, push: Nat]
  \cup [type: {"PushSnapshot"}, row: SnapRow]

ServerFrame ==
  [type: {"DocOpened", "SnapshotRequired"}]
  \cup [type: {"UpdatesBatch"}, lo: Nat, hi: Nat, complete: BOOLEAN]
  \cup [type: {"UpdatesBroadcast"}, seq: Nat]
  \cup [type: {"UpdatesAck"}, push: Nat, seq: Nat]
  \cup [type: {"Snapshot"}, row: Nat, complete: BOOLEAN]
  \cup [type: {"SnapshotRequest"}, floor: Nat, base: Nat]

Task ==
  {NoTask}
  \cup [kind: {"push"}, push: Nat, seq: Nat, fresh: BOOLEAN]
  \cup [kind: {"pull"}, cursor: Nat]
  \cup [kind: {"snap"}, row: SnapRow]

EngineType ==
  [state: EngineState, imported: Ops, captured: Ops, known: Ops, inFlight: Nat,
   contig: Nat, durable: Nat, sentAck: Nat, outbox: Seq(AckFrame)]

DiskType == [snap: Ops, wal: Ops, known: Ops, cursor: Nat, inFlight: Nat]

SessionType ==
  [up: BOOLEAN, open: BOOLEAN, sub: BOOLEAN, rx: Seq(Nat), lease: Nat, task: Task]

\* Every variable has its type.
TypeOK ==
  /\ dev \in [Device -> EngineType]
  /\ disk \in [Device -> DiskType]
  /\ deps \in [Op -> Ops]
  /\ blobs \in [Device -> Seq([ops: Ops, to: Ops])]
  /\ dialed \in [Device -> Nat]
  /\ link \in [Device -> Nat]
  /\ \A d \in Device : link[d] <= dialed[d] /\ dialed[d] <= MaxConn[d]
  /\ c2s \in [Conn -> Seq(ClientFrame)]
  /\ s2c \in [Conn -> Seq(ServerFrame)]
  /\ sess \in [Conn -> SessionType]
  /\ log \in Seq([dev: Device, push: Nat])
  /\ purged \in Nat
  /\ snaps \in Seq(SnapRow)
  /\ frontier \in [Device -> Nat]
  /\ lease \in [id: Nat, expired: BOOLEAN]
  /\ nextLease \in Nat
  /\ compactDue \in BOOLEAN
  /\ enrolled \subseteq Device

-----------------------------------------------------------------------------
(* Safety *)

\* server_known_vv, in memory and on disk, never claims an operation that the
\* server's update stream does not hold: a push sends everything outside it,
\* so an operation claimed too early would never be sent.
KnownInStream ==
  \A d \in Device : dev[d].known \cup disk[d].known \subseteq Declared(StreamOps)

\* No snapshot carries an operation outside the update stream: a device that
\* bootstraps must not learn of its producer's unsent commits.
SnapshotsInStream ==
  \A i \in 1..Len(snaps) : snaps[i].ops \subseteq Declared(StreamOps)

StoredDoc(d) == Applied(disk[d].snap \cup disk[d].wal, deps)

\* The resume cursor never runs ahead of what a reboot would restore: rows at
\* or below it are never pulled again, so their operations must be on disk.
CursorCovered ==
  \A d \in Device : RangeOps(1, disk[d].cursor) \subseteq StoredDoc(d)

\* The server's record of a device never exceeds the device's own durable
\* cursor, however acks are delayed, lost, or overtaken by a crash.
FrontierBelowCursor ==
  \A d \in Device : frontier[d] <= disk[d].cursor

\* A device that reboots finds every operation it has ever put on the stream:
\* otherwise its next commit would reuse an operation id its peers hold.
OwnOpsStored ==
  \A d \in Device : OwnOps(StreamOps, d) \subseteq StoredDoc(d)

\* Retries are deduplicated: a push id has one row.
OneRowPerPush ==
  \A i, j \in 1..Len(log) : log[i] = log[j] => i = j

\* What a device that bootstraps is sent.
ChainOps ==
  UNION {snaps[i].ops : i \in {j \in 1..Len(snaps) : \E h \in 1..j : IsChainHead(h)}}

\* The snapshot chain holds every row it stands for.
ChainCoversUpTo ==
  snaps # <<>> => RangeOps(1, PrevUpTo) \subseteq ChainOps

\* Importing the chain lands exactly at the producer's stored version vector:
\* the next delta starts there, so an operation in the vector and not in the
\* chain would be in no later delta either.
ChainReachesVv ==
  snaps # <<>> => Latest.vv \subseteq ChainOps

\* The engine never meets a frame in a state that has no use for it.
NoUnexpectedFrame ==
  \A d \in Device : link[d] # 0 /\ Inbox(d) # <<>> =>
    LET f == Head(Inbox(d))
        st == dev[d].state
    IN /\ f.type = "DocOpened" => st = "Opening"
       /\ f.type = "UpdatesBatch" => st # "Bootstrapping"
       /\ f.type = "UpdatesAck" => st = "Pushing" /\ dev[d].inFlight = f.push
       /\ f.type = "SnapshotRequired" => st = "Pulling"
       /\ f.type = "Snapshot" => st = "Bootstrapping"

\* A captured edit stays on disk: no append, fold, checkpoint or crash drops
\* one of the device's own operations once a WAL row holds it.
CapturedEditsKept ==
  [][\A d \in Device :
       OwnOps(disk[d].snap \cup disk[d].wal, d) \subseteq disk'[d].snap \cup disk'[d].wal]_vars

-----------------------------------------------------------------------------
(* Liveness *)

\* The engine handles the frame at the head of its connection.
HandleServerFrame(d) ==
  \/ DropFrame(d) \/ HandleDocOpened(d) \/ HandleUpdatesBatch(d)
  \/ HandleUpdatesBroadcast(d) \/ HandleUpdatesAck(d) \/ HandleSnapshotRequired(d)
  \/ HandleSnapshot(d) \/ HandleSnapshotRequest(d)

\* The session goes on with the handler it is in, or takes the next frame.
HandleClientFrame(c) ==
  \/ RecvOpenDoc(c) \/ RecvDocNotOpen(c) \/ RecvPushUpdates(c) \/ FinishPush(c)
  \/ RecvPullUpdates(c) \/ PullBatch(c) \/ RecvAck(c) \/ RecvPullSnapshot(c)
  \/ RecvPushSnapshot(c) \/ InsertSnapshot(c)

\* The hosts' event loops (frames, the flush tick, the reconnect timer) and
\* the server's session loops keep running.
Fairness ==
  /\ \A d \in Device : /\ WF_vars(HandleServerFrame(d))
                       /\ WF_vars(Flush(d))
                       /\ WF_vars(Connect(d))
  /\ \A c \in Conn : /\ WF_vars(HandleClientFrame(c))
                     /\ WF_vars(SendBroadcast(c))
                     /\ WF_vars(Lagged(c))

FairSpec == Spec /\ Fairness

Connected == \A d \in Device : link[d] # 0 /\ sess[MyConn(d)].up

\* Everything committed is on the stream and in every device's document.
Converged == \A d \in Device : Doc(d) = StreamOps

\* Once every device keeps its connection, every commit reaches every device,
\* whatever was lost, retried or interrupted before.
Convergence == <>[]Connected => <>[]Converged

-----------------------------------------------------------------------------
(* What the documents and comments promise and the code does not keep *)

\* spec/sync-protocol.md: "A forward gap is structurally impossible here": the
\* engine never meets a broadcast or an ack whose seq is beyond the next one.
NoForwardGap ==
  \A d \in Device : link[d] # 0 /\ Inbox(d) # <<>> =>
    LET f == Head(Inbox(d))
    IN f.type \in {"UpdatesBroadcast", "UpdatesAck"} => f.seq <= dev[d].contig + 1

\* spec/sync-protocol.md: rows at or below the horizon "are safe for
\* server-side GC", the retained snapshot chain stands for them: every deleted
\* row is in the chain that a device enrolled later bootstraps from.
DeletedRowsInChain ==
  RangeOps(1, purged) \subseteq ChainOps
=============================================================================
