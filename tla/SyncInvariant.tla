--------------------------- MODULE SyncInvariant ---------------------------
(***************************************************************************)
(* The inductive invariant from which SyncSystemProofs derives the type    *)
(* invariant, KnownInStream, SnapshotsInStream and FrontierBelowCursor.    *)
(*                                                                         *)
(* Frames, rows and in-flight records refer to payloads, and what a device *)
(* may claim is measured against the update stream.  Both only grow, so    *)
(* the invariant is phrased as membership in sets that grow with them: Q   *)
(* is the declared range of the stream, n the number of payloads of the    *)
(* device, P those of them whose to_vv the stream covers, L and M the      *)
(* length of the update log and of the snapshot table, a the device's      *)
(* durable cursor.                                                         *)
(***************************************************************************)
EXTENDS SyncSystem

Known == Declared(StreamOps)

\* The pushes of d whose to_vv is on the stream: the ones that may be acked.
Landed(d) == {n \in 1..Len(blobs[d]) : blobs[d][n].to \subseteq Known}

RowIn(Q) == [upTo: Nat, floor: Nat, from: Int, vv: SUBSET Q, ops: SUBSET Q]

AckIn(a) == [type: {"Ack"}, seq: 0..a]

ClientIn(Q, n, a) ==
  AckIn(a)
  \cup [type: {"OpenDoc", "PullSnapshot"}]
  \cup [type: {"PullUpdates"}, since: Nat]
  \cup [type: {"PushUpdates"}, push: 1..n]
  \cup [type: {"PushSnapshot"}, row: RowIn(Q)]

ServerIn(P, L, M) ==
  [type: {"DocOpened", "SnapshotRequired"}]
  \cup [type: {"UpdatesBatch"}, lo: Nat \ {0}, hi: 0..L, complete: BOOLEAN]
  \cup [type: {"UpdatesBroadcast"}, seq: 1..L]
  \cup [type: {"UpdatesAck"}, push: P, seq: Nat]
  \cup [type: {"Snapshot"}, row: 1..M, complete: BOOLEAN]
  \cup [type: {"SnapshotRequest"}, floor: Nat, base: 0..M]

TaskIn(Q, P, L) ==
  {NoTask}
  \cup [kind: {"push"}, push: P, seq: 1..L, fresh: BOOLEAN]
  \cup [kind: {"pull"}, cursor: Nat]
  \cup [kind: {"snap"}, row: RowIn(Q)]

SessIn(Q, P, L) ==
  [up: BOOLEAN, open: BOOLEAN, sub: BOOLEAN, rx: Seq(1..L), lease: Nat, task: TaskIn(Q, P, L)]

EngineIn(Q, n, a) ==
  [state: EngineState, imported: Ops, captured: Ops, known: SUBSET Q, inFlight: 0..n,
   contig: Nat, durable: Nat, sentAck: Nat, outbox: Seq(AckIn(a))]

DiskIn(Q, n) == [snap: Ops, wal: Ops, known: SUBSET Q, cursor: Nat, inFlight: 0..n]

\* The sets of the frames that may be on each connection, of its sessions and
\* of the engines and databases, as the state has them now.
ClientSets ==
  [c \in Conn |-> ClientIn(Known, Len(blobs[c[1]]), disk[c[1]].cursor)]
ServerSets == [c \in Conn |-> ServerIn(Landed(c[1]), Len(log), Len(snaps))]
SessSets == [c \in Conn |-> SessIn(Known, Landed(c[1]), Len(log))]
EngineSets == [d \in Device |-> EngineIn(Known, Len(blobs[d]), disk[d].cursor)]
DiskSets == [d \in Device |-> DiskIn(Known, Len(blobs[d]))]

\* f is a function on S whose value at x is in G[x], or a queue of G[x].
Within(f, S, G) == f = [x \in S |-> f[x]] /\ \A x \in S : f[x] \in G[x]
Queues(f, S, G) == f = [x \in S |-> f[x]] /\ \A x \in S : f[x] \in Seq(G[x])

-----------------------------------------------------------------------------

\* Payloads and the stream: a row refers to a payload, and a payload carries
\* all of its to_vv that the stream does not cover.
StreamInv ==
  /\ blobs \in [Device -> Seq([ops: Ops, to: Ops])]
  /\ log \in Seq([dev: Device, push: Nat])
  /\ \A s \in 1..Len(log) : log[s].push \in 1..Len(blobs[log[s].dev])
  /\ \A d \in Device : \A n \in 1..Len(blobs[d]) :
       blobs[d][n].to \subseteq Known \cup blobs[d][n].ops

SnapsInv == snaps \in Seq(RowIn(Known))

DeviceInv ==
  /\ Within(dev, Device, EngineSets)
  /\ Within(disk, Device, DiskSets)
  /\ \A d \in Device : dev[d].durable = disk[d].cursor

WireInv ==
  /\ Queues(c2s, Conn, ClientSets)
  /\ Queues(s2c, Conn, ServerSets)

SessInv ==
  /\ Within(sess, Conn, SessSets)
  /\ \A c \in Conn : IF sess[c].up THEN c[1] \in enrolled ELSE sess[c] = NoSession

LinkInv ==
  /\ dialed \in [Device -> Nat]
  /\ link \in [Device -> Nat]
  /\ \A d \in Device : /\ link[d] <= dialed[d]
                       /\ dialed[d] <= MaxConn[d]
                       /\ link[d] = 0 => dev[d].state = "Disconnected"

TableInv ==
  /\ deps \in [Op -> Ops]
  /\ purged \in Nat
  /\ frontier \in [Device -> Nat]
  /\ \A d \in Device : frontier[d] <= disk[d].cursor
  /\ lease \in [id: Nat, expired: BOOLEAN]
  /\ nextLease \in Nat
  /\ compactDue \in BOOLEAN
  /\ enrolled \subseteq Device

IInv ==
  /\ StreamInv
  /\ SnapsInv
  /\ DeviceInv
  /\ WireInv
  /\ SessInv
  /\ LinkInv
  /\ TableInv
=============================================================================
