----------------------------- MODULE SyncState -----------------------------
(***************************************************************************)
(* The state that the sync engine of every device and the server share a   *)
(* view of: the devices' engines and local databases, the server's tables, *)
(* the per-connection sessions and the wire between them.  One document.   *)
(*                                                                         *)
(* Ciphertext payloads are immutable once made, so a frame, a table row or *)
(* an in-flight record refers to them: blobs[d][n] is the payload of the   *)
(* n-th push id device d ever generated, log[s] the update row that was    *)
(* given seq s, snaps[i] the i-th snapshot row.                            *)
(***************************************************************************)
EXTENDS Oplog

CONSTANTS
  Device,           \* devices of the document's members; a device is also a peer
  InitialDevices,   \* the devices enrolled from the start
  MaxOps,           \* bound: MaxOps[d] operations are committed by device d
  MaxConn,          \* bound: MaxConn[d] connections are opened by device d
  Dropping,         \* bound: the devices whose socket may drop by itself
  Folding,          \* bound: the devices that fold their WAL
  Crashing,         \* bound: the devices whose process may die
  Restarts,         \* bound: whether the server process restarts
  Capacity,         \* CHANNEL_CAPACITY of a broadcast subscription
  BatchMax,         \* MAX_UPDATES_PER_BATCH
  Threshold         \* snapshot_threshold_blobs

ASSUME BoundsAssumption ==
  /\ InitialDevices \subseteq Device
  /\ MaxOps \in [Device -> Nat]
  /\ MaxConn \in [Device -> Nat]
  /\ Dropping \subseteq Device
  /\ Folding \subseteq Device
  /\ Crashing \subseteq Device
  /\ Restarts \in BOOLEAN
  /\ Capacity \in Nat
  /\ BatchMax \in Nat \ {0}
  /\ Threshold \in Nat \ {0}

VARIABLES
  dev,        \* dev[d]: the in-memory SyncEngine and Doc of device d
  disk,       \* disk[d]: what device d's LocalStorage holds
  deps,       \* deps[o]: causal dependencies of operation o
  blobs,      \* blobs[d]: the push payloads of device d
  dialed,     \* dialed[d]: connections d has opened so far
  link,       \* link[d]: the connection d is on, 0 when it has none
  c2s,        \* c2s[c]: client frames on connection c not yet read
  s2c,        \* s2c[c]: server frames on connection c not yet read
  sess,       \* sess[c]: the server's session task of connection c
  log,        \* every row ever inserted in the updates table, by seq
  purged,     \* rows 1..purged have been deleted by compaction
  snaps,      \* the snapshots table, oldest first
  frontier,   \* device_doc_frontiers
  lease,      \* the snapshot coordinator's lease on the document
  nextLease,  \* the coordinator's next_lease_id
  compactDue, \* a spawned compaction task has not run yet
  enrolled    \* devices with a row in the devices table

clientVars == <<dev, disk, deps, blobs, dialed, link>>
serverVars == <<log, purged, snaps, frontier, lease, nextLease, compactDue, enrolled>>
wireVars   == <<c2s, s2c, sess>>
vars       == <<clientVars, serverVars, wireVars>>

Op == UNION {{d} \X (1..MaxOps[d]) : d \in Device}

Conn == UNION {{d} \X (1..MaxConn[d]) : d \in Device}

-----------------------------------------------------------------------------
(* Payloads *)

\* The operations of update row s.
RowOps(s) == blobs[log[s].dev][log[s].push].ops

\* The operations of the rows lo..hi.
RangeOps(lo, hi) == UNION {RowOps(s) : s \in lo..hi}

\* The operations of the whole update stream, deleted rows included.
StreamOps == RangeOps(1, Len(log))

NoPush == 0
NoLease == 0
FullSnapshot == -1      \* from_seq = None: a full snapshot, not a delta

-----------------------------------------------------------------------------
(* The wire.  A frame sent on a connection whose other end is gone is lost. *)

Live(c) == link[c[1]] = c[2]

MyConn(d) == <<d, link[d]>>

ToServer(d, frame) ==
  c2s' = IF sess[MyConn(d)].up THEN [c2s EXCEPT ![MyConn(d)] = Append(@, frame)] ELSE c2s

ToClient(c, frames) ==
  s2c' = IF Live(c) THEN [s2c EXCEPT ![c] = @ \o frames] ELSE s2c
=============================================================================
