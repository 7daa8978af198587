# A TLA+ model of monoplan

monoplan is a local-first, end-to-end encrypted planner. Every device holds Loro
CRDT documents and a local database; a server keeps accounts and memberships,
orders encrypted update blobs it cannot read, and compacts them under snapshots
that the devices produce. Three models cover it:

* **sync**: how the commits of one document get from device to device;
* **document**: what one document does with its own commits and the others':
  lists, order, undo, the projection index, the events and their consumer;
* **host**: one installation and the server's accounts: who may open what, which
  process owns the profile, and how commands rewrite it.

They meet in narrow places. The document model takes delivery of commits as
given (a replica imports all another has), which is what the sync model
establishes; the host model takes a push as reaching the server or not, and
asks instead under which peer id a commit is made; the sync model takes the set
of enrolled devices and one peer per device as given, which is what the host
model establishes (`OpIdsUnique`).

## Inventory

| Part | Source | State it keeps | Operations | What makes it correct |
| --- | --- | --- | --- | --- |
| Sync engine | `core/src/sync.rs`, sync half of `core/src/doc.rs` | connection state, `server_known_vv`, in-flight push, contiguous / durable / acked seq, capture cursor | `capture_local_ops`, folds, `handle_connected/disconnected`, `flush`, every server frame, `notify_oplog_durable` | never claims what the server lacks, never loses an edit, cursor never ahead of disk, converges |
| SQLite storage | `crates/storage-sqlite`, `core/src/storage.rs` | snapshot, WAL, cursors, in-flight record, peer slots | the `LocalStorage` calls, boot | a reboot at any point restores what the cursors claim |
| WebSocket session | `server/src/sync/ws.rs` | open documents, subscriptions, lease, the handler it is in | one handler per client frame, forwarding, exits | replies in order, serves members only, ends when it cannot serve |
| Broadcast registry | `server/src/sync/sessions.rs` | subscribers and their bounded channels | subscribe, broadcast, presence, close for an account or a document | a lost broadcast ends the session; presence is who is there, as far as it is told |
| Snapshot coordinator | `server/src/sync/snapshot.rs` | one lease per document | evaluate, release, expiry | at most one producer heard; the chain stays complete |
| Server tables | `server/src/sync/queries.rs` | updates, snapshots, frontiers, sequence | insert with dedup, batches, horizon, compaction | dense seqs, one row per push, a deleted row is in the chain |
| Accounts, devices, documents, members | `server/src/auth`, `server/src/http` | accounts, docs, doc_members, devices, recovery sessions | signup, login, recovery, password, revocation, deletion, documents | the accepted password opens every key; nothing left of what is deleted |
| Invites and sharing | `server/src/http`, `server/src/auth/queries.rs` | doc_invites | create, revoke, expire, accept, remove | one owner, single-use offers, no other way in |
| Host, daemon | `cli/src/daemon.rs`, `cli/src/sync.rs` | the lock, engines, mirrors, connection | boot, document commands, pump, mirror updates, forget, workspaces, shutdown | serves the profile that is on disk; mirrors and disk follow memory |
| Peer id leases | `cli/src/peer.rs` | peer slots and their locks | claim, release | no two commits share a peer and a counter |
| Profile and its commands | `cli/src/commands`, `cli/src/bootstrap.rs`, `cli/src/client.rs` | `secrets.toml`, account row, database | init, signup, login, recover, password, logout, delete, db clear, share accept | a kill anywhere leaves a profile that opens, or none |
| Document model | `core/src/doc.rs` | Loro document, projection index, undo stacks | item, list, focus and settings edits, import, reconcile, undo, redo | index equals a recompute; open items shown once; deletion for good is for good |
| Events, web store | `core/src/doc.rs`, `js/web/src/sync/store.ts` | event queue, store | translate, drain, dispatch | the store shows the document |
| Search | `core/src/search.rs` | index, dirty sets | note_event, reconcile, rebuild | a query sees every change |
| Web host, IndexedDB | `js/core`, `js/web/src/sync`, `core/web` | queued writes | `whenFlushed`, reconnect | durability reported only after commit |
| Crypto, CLI presentation, web UI, Apple apps, tracer, telemetry, deploy | | no protocol state | | |

Devices talk to the server over one WebSocket each and over HTTP. A client frame
is handled by the session task of its connection; a fresh push is put in the
channels of the other sessions, which forward it. HTTP routes run concurrently,
interleave at every database call, and close live sessions when they end a
membership. On a device, one process hosts the profile under a file lock; the
commands of the CLI either ask it over a socket or stop it and take the lock.

The hard behaviours are the interleavings of a device's own replies with the
broadcasts of others; crashes between two writes of one handler or command;
retries of pushes whose ack was lost; snapshots and compaction racing pulls and
late devices; slow consumers; a membership that ends while its document is being
opened; a command that replaces the profile under a running host; an index, a
store and a search index that follow a document incrementally through concurrent
moves, deletions and undo. `PROJECT.json` lists these hazards at the line where
they bite.

## Modules

Sync:

* `Oplog`: operations, version vectors (sets of operations closed downwards),
  declared ranges, Loro's pending operations, `ingest_seq`.
* `SyncState`: the variables, the bounds, payload references and the wire.
  Payloads are immutable, so a frame or row refers to a payload by its number.
* `SyncEngine`: one action per engine entry point or server frame, including the
  storage writes it makes. `dev[d]` is memory, `disk[d]` is what a reboot finds.
* `SyncServer`: sessions, registry, coordinator, tables. A handler that awaits
  the database and goes on is two steps (`RecvPushUpdates`/`FinishPush`,
  `RecvPullUpdates`/`PullBatch`, `RecvPushSnapshot`/`InsertSnapshot`).
* `SyncSystem`: the composition, its properties and fairness.
* `SyncInvariant`, `SyncSystemProofs`: the inductive invariant of what is known,
  landed and stored, and the proofs.
* `ExchangeInvariant`, `ExchangeProofs`: the same for requests and replies.
* `MCSyncSystem`: two devices `p` and `q` with bounds per device.

Document, each module extending the one before:

* `LoroDoc`: the CRDT as `doc.rs` uses it (external): maps, movable lists, a
  transaction with its inverse for the undo manager, replay of commits in stamp
  order.
* `ProjectionIndex`: `ProjectionIndex`, its full recompute (`ComputeIndex`) and
  its incremental updates.
* `DocEvents`: every `AppEvent`, the store's `dispatch` and `drainEvents`, the
  state diff of the fallback, and the search index that notes events.
* `DiffTranslate`: `translate_captured_diffs`, from Loro's container diffs to
  index updates and events, with its two reasons to give up.
* `DocItems`: the variables, and the mutations of items and focus.
* `DocSystem`: mutations of lists and settings, reconcile, backup import, remote
  batches, undo and redo, draining, search, reopening; the properties.
* `MCDoc`: two replicas and a base document of three items.

Host, likewise:

* `Accounts`: the server's tables and the HTTP routes, one step per database
  call. A route is a request record with a stage (`auth`, `run`, ...).
* `DocSessions`: connections, the registry, presence, `DocClosed`, and which
  channels the updates of a document have filled (`Broadcast`, `Drain`).
* `Host`: the profile, the host process under its lock, its mirrors, peer slots,
  and the cursor up to which a document has been fetched.
* `Commands`: the commands that rewrite the profile, one step per write; `db
  clear`, which checks that no host runs and then writes without the lock.
* `DocAccess`: the abstract rule of sharing.
* `HostSystem`: the composition with other clients; properties and refinement.
* `AccessInvariant`, `AccessProofs`, `SessionProofs`, `PresenceProofs`: the
  inductive invariants of tables, requests and sessions, and the proofs.
* `HostInvariant`, `HostProofs`: the same for the profile, the host, its mirrors
  and the commands.
* `KeysInvariant`, `KeysProofs`: the same for tokens, document keys and Homes.
* `CopiesInvariant`, `CopiesProofs`: the same for the copies of a document, the
  peer leases and the numbers of commits.
* `MCHost`: two accounts, one installation, the mixes.

Next to some definitions stands a *fault* (`... Lossy`, `... Never`,
`NotAnnounced`, `NoTail`...): a plausible mistake in the definition that follows
it. Each makes its property fail, which is how the properties are tested.

### How the sync state corresponds

| Model | Code |
| --- | --- |
| `dev[d].imported`, `Doc(d)` | everything handed to Loro, and the oplog it gives |
| `dev[d].captured` | `Doc::last_persisted_vv` |
| `dev[d].known`, `disk[d].known` | `server_known_vv` in memory and stored |
| `contig`, `durable`, `sentAck` | `last_contiguous_seq`, `last_durable_seq`, `last_sent_ack` |
| `disk[d].cursor` | `last_acked_server_seq` |
| `blobs[d][n]` | payload and `to_vv` of the n-th push id of `d` |
| `log`, `purged` | rows of `updates` ever inserted; the prefix compaction deleted |
| `snaps` | `snapshots`, oldest first |
| `sess[c].rx`, `.sub` | the subscription's channel, and whether the registry still knows it |
| `lease`, `sess[c].lease` | the coordinator's lease and the session's copy |

### How the document state corresponds

| Model | Code |
| --- | --- |
| `doc[r].items[i]` | the item's Loro map; `cid` is its container id, `loc` the location register with its placement id |
| `doc[r].seqs[c]` | the movable lists `lists`, `focus` and `order/<list>`; a slot per insertion or move |
| `commits[r]` | the oplog of the replica past the base |
| `idx[r]` | `ProjectionIndex` (`meta`, `members`, `raw`, `open`, `visible`) |
| `queue[r]`, `ui[r]` | the pending `AppEvent`s; the store |
| `hist[r]` | Loro's undo manager: stacks of inverse operations |
| `srch[r]` | `SearchIndex` with its dirty sets |
| `gone[r]` | history: what this replica deleted for good |

A mutation is one action: its transaction, the index update it makes beside the
document, the events it pushes and the dirty marks they leave. `Adopt` is the
end of an import or undo, by translation or by `emit_diff_fallback`. Texts,
notes, places and times are registers with two or three values; notes are one
register. Stamps stand for Lamport time and peer; concurrent writes of one
register, concurrent moves and insertions at one place are decided by them.

### How the host state corresponds

| Model | Code |
| --- | --- |
| `accounts`, `docs`, `members`, `devices`, `invites`, `resets` | the tables of `server/src/auth/queries.rs` |
| `calls[c]` | the HTTP request client `c` has under way, the stage of its route and the sessions it has still to close |
| `subs`, `conns[k]` | the registry; a session with its open documents, channels and frames on the wire |
| `conns[k].full`, `.stale` | channels at their capacity; history: documents whose last change of accounts the session was not told |
| `secrets`, `row`, `disk` | `secrets.toml`, the account row, snapshot and WAL per document |
| `seen[d]` | what the server had at `last_acked_server_seq`: a pull fetches the rest |
| `lock`, `host` | `daemon.lock`; the process: `mem` documents, `engine` states, `todo` request under way |
| `gen`, `host.slot`, `mirrors[s].slot` | the peer slot table and the leases |
| `mirrors[s]` | a subscription, its mirror, the updates in both directions |
| `cmd` | the command running: which step it is at and what it has read |
| `born`, `homes` | history: the document ids ever chosen, and Home of every account there has been |
| `lapses` | history: see below |

A password is a version number standing for its hash and its derived key; a
wrapped key is named by what wraps it, so whether a key can be opened is a
question about the tables and not about cryptography.

### Abstractions of the sync model

* One document, one device per peer id. `PushingDirty` behaves as `Pushing`
  and is the same state. Byte caps of a batch are any shorter prefix.
* Broadcast, decision and replies of a push are one step after its insert, and
  the coordinator's reads and its lock are one step. The server's database is
  one thread, so the transactions themselves are atomic; what is lost are
  interleavings between the reads of one evaluation.
* Loro is external: import, export of the operations between two vectors, and
  keeping operations with missing dependencies aside, outside every export.
* Durability is that of SQLite. `NotifyOplogDurable` is nevertheless free of
  frame handling and may report any seq sampled earlier, as the web host does.
* A send to a client that is gone is lost or fails; a client that is gone may
  still have frames read by the server.
* Storage and encryption errors and the version handshake are not taken;
  several documents on one connection, presence and `DocClosed` are the matter
  of `DocSessions` and `Host`.

### Abstractions of the other models

* Document: Loro's position ids are replaced by insertion after an anchor with
  stamps as tie-break; undo applies recorded inverses rather than a diff between
  frontiers, popping steps that change nothing, as Loro does. `MaxDirty` and
  `BulkThreshold` are small, so that both sides of each limit are met.
* Host: one host process and one command at a time; two installations meet only
  at the server. Engine traffic is the state of an engine (`closed`, pulling,
  live) and the set of operations the server has. The name of an
  account stands for its email and its id together: a signup takes a name that
  no account ever had, as the code gives every new account a new id (`homes`
  remembers them). Losing an answer is an outcome of a request (`LoseReply`); a
  route once started runs to its end.
* Host, files: `secrets.toml` is written in one step. A purge (`remove_dir_all`)
  removes `secrets.toml` and the database in either order, the database files in
  one step; that it may unlink `daemon.lock` before the rest, which lets another
  process lock a new file, is left out.
* Host, cursor: the engine's cursor in memory and the persisted one are the same
  variable, `seen`; they differ in the code only after `db clear` under a host,
  where the exception `cleared` applies. A login's `seed_snapshot` leaves either
  nothing of the old copy (it had been folded into the snapshot that is replaced)
  or all of it (it was still in the WAL); WAL rows that are left without their
  predecessors boot as nothing. After a login over a profile the code also keeps
  `server_known_vv` and the in-flight record, so that it may never send a commit
  the model pushes; such a document has the exception `hollowed`. Past a reused
  id the model's copies keep both commits, where Loro keeps the first it sees.
* Sessions: of the updates in a channel the model keeps whether they fill it.
  `Broadcast` may fill the channel of any other subscriber, and a channel that is
  read has room again; the order of presence and update messages is lost.
* Web store: `bare` is a history field of the store that notes the icons and
  default views which a `ListAdded` did not carry.

## Runs

| Run | Instance | Checks | Shows |
| --- | --- | --- | --- |
| `retry` | p commits once, 2 connections, drops, folds, crashes; server restarts | `TypeOK`, `KnownInStream`, `OwnOpsStored`, `OneRowPerPush`, `FrontierBelowCursor`, `CapturedEditsKept` | a push interrupted anywhere is sent again, stored once, claimed only when stored |
| `receiver` | q receives 2 rows over 2 connections, crashes in mid-batch, folds, drops | `CursorCovered` | rows below the persisted cursor are restored by a reboot |
| `producers` | p and q commit concurrently, every push may trigger a snapshot | `ChainCoversUpTo`, `ChainReachesVv`, `SnapshotsInStream` | the chain is what it claims, in spite of leases expiring and two producers |
| `bootstrap` | q is enrolled late, bootstraps, crashes, folds | `CursorCovered` | the bootstrap is crash-safe |
| `latecomer` | q is enrolled late while p commits and pushes twice, snapshots on | `NoUnexpectedFrame`, `KnownInStream` | every frame meets a state that expects it; an ack claims what was sent and no more |
| `converge` | p commits twice, q's channel holds one frame, q reconnects and may crash | `Convergence` | nothing stays undelivered once connections hold |
| `doc` | 12 mixes of operations on two replicas | `TypeOK`, `IndexMatchesDoc`, `OpenItemsShownOnce`, `UiMatchesDoc`, `SearchFresh`, `HardDeletePermanent` | index, store and search follow the document through concurrent edits, merges and undo |
| `host` | 23 mixes of commands, requests and faults from five starting points | `TypeOK`, `HomeUnlockable`, `RevokedUnbound`, `PresenceAgrees`, `OpIdsUnique`, `ServesProfile`, `MirrorsCurrent`, `ProfileComplete`, `SharingRefined` | keys stay reachable, revocation reaches sessions, presence follows the registry, ids are unique while copies keep their history, the profile survives kills, sharing implements `DocAccess` |
| `gap` | both commit, no faults | `NoForwardGap` (violated) | below |
| `deleted` | both commit, snapshots on | `DeletedRowsInChain` (violated) | below |
| `pending` | q joins late, edits, folds, crashes | `CapturedEditsKept` (violated) | below |
| `doc_revive` | a list is deleted and the deletion undone | `FingerprintAgrees` (violated) | below |

`CHECK_DEADLOCK FALSE` throughout: when the bounds are used up the system rests.

### Bounds

*Sync.* Per device, connections and commits (`pConn`, `pOps`...), who may drop,
fold or crash, whether the server restarts, the snapshot threshold, the capacity
of a subscription and the batch size. Two devices suffice: every rule relates one
device to the stream, and the other device stands for all the others. Two
commits make the smallest dependency and the smallest hole; two connections, one
reconnect; a threshold of 1 makes every push a candidate for a snapshot, and one
of 9 turns snapshots off; a capacity of 1 makes the second broadcast the one that
does not fit. `producers`, whose devices have equal bounds, uses their symmetry.
`OneRowPerPush` is checked with snapshots off: with compaction the row that
deduplicates a push may be gone before its retry (see the hazards).

*Document.* The state is too rich for every operation to meet every other. A
*mix* names the kinds of operation of a behaviour and the commits of each
replica, and all interleavings within a mix are explored: a few operations that
interact, rather than many that do not. Two replicas make one concurrent pair,
and each pair that touches the same containers has a mix (move against move,
lifecycle against deletion, deleting a list against adding to it, reconcile
against the rest). The three base items are open in front, open behind, and done
with a swept entry, which are the ways an item can be ordered. `ReviveLists =
FALSE` leaves out the steps that meet the disagreement `doc_revive` shows, so
that `doc` says what holds otherwise.

*Host.* A mix gives a start (no profile; a local profile; two devices of one
account; a document shared with another account; one offered to it), the kinds
of step, and how many requests, commits, session steps and drops. At most two
routes run at a time, which is what it takes for one to change what the other
has read. One or two kills and drops suffice, since a process that
starts anew finds only what the kill left. Two mixes let channels fill and
broadcasts drop their readers, two run `db clear` beside a host that may start at
any point of it, two have a login over a profile. The run has 605,905 states.

### What is not claimed

`lapses` is a history variable: it notes steps after which a property is not
claimed, each a behaviour of the code worth knowing.

* `reused`: a commit on a document whose rows were deleted before they are
  fetched again: after `db clear`, or in a workspace that was forgotten
  (`forget_doc`: closed, rejected or deleted) and joined again. The counter starts
  again under the old peer. Without the exception `OpIdsUnique` fails after a few
  steps: clear, start a host, commit. `spec/peer-id-plan.md:110` calls `db clear`
  safe.
* `hollowed`: a login over a profile of the same account. `seed_snapshot` replaces
  the copy by an empty one and leaves `last_acked_server_seq` alone, so what is
  behind the cursor is not fetched again and the next commits repeat ids, also
  after a pull. The comment at `login.rs:144` says that the initial sync pulls from
  seq 0. `OpIdsUnique` is not claimed of the document from then on.
* `cleared`: `db clear` looks whether a host runs, may wait for an answer to its
  prompt, and clears (and seeds a local workspace) without the lock. If a host has
  booted meanwhile, its rows are gone from disk while it serves them: neither
  `OpIdsUnique` nor the disk part of `MirrorsCurrent` is claimed of the document.
  The mirrors are, since they follow the host's memory.
* `torn`: a kill between the account row and `secrets.toml` when a login replaces
  another account's profile, so that the row names a document whose key is missing;
  or a kill in a purge that has removed the database and not `secrets.toml`. Of
  `ProfileComplete` nothing is claimed after it.
* `overwritten`: `share accept` reads the secrets, waits for the server, and
  writes them back with the new key: a key the host added meanwhile is lost.

`ProfileComplete` asks for a copy of Home or that its rows were deleted on purpose
(`emptied`): a `db clear` of a local workspace that is killed before it seeds again
leaves a Home that opens empty.

`RevokedUnbound` likewise excepts `late`, a subscription made after the
membership that `open_doc` checked had ended: the removal has already closed the
account's subscriptions, so this one lives until its connection ends.

`PresenceAgrees` excepts `stale`, a session that the last change of the registry
was not told to. There are two ways: `broadcast` drops a subscriber whose channel is
full and says nothing to the rest, and the session's `unsubscribe` later finds no
change; and `send_presence` loses the message if the channel it is for is full. Both
last until the next presence message that arrives. So a client can show someone who
has left, for as long as nobody else comes or goes.

`UiMatchesDoc` excepts `bare`, the icon and default view of a list that came with
`ListAdded`: the store shows none until an event of their own or a fresh snapshot.

### Abstract specification

`DocAccess` states sharing without tables: a document has one owner from creation
to end; an offer lets one account in and is spent by it; there is no other way
in; ending a document or an account leaves nothing. `HostSystem` maps `owner`,
`guests` and `offers` from `members` and `invites`, and `SharingRefined` says
that every step of the system, whichever routes interleave, is a step of it.

### Four disagreements

* **gap.** Two pushes are inserted back to back. The session of the second
  acks it directly while the broadcast of the first is still in that session's
  channel, so the ack's seq is two past the frontier. `spec/sync-protocol.md:119`
  calls this "structurally impossible" and `ingest_seq` asserts against it.
* **deleted.** After such a gap the pusher is taken to have acked its own seq
  and is asked for a snapshot. Its frontier and `server_known_vv` lack the other
  row, yet the floor it is given covers that row when the other device has acked
  it. Compaction then deletes a row that is in no snapshot.
* **pending.** A fold while Loro keeps a broadcast row pending prunes that row
  from disk. If the process later crashes, an edit made on top of it boots as
  pending, and the following fold drops the edit. In `retry`, where no remote
  row can be pending, the same property holds.
* **doc_revive.** Deleting a list rebuilds the index, which keeps a mirror of the
  order container only for lists that have a row. Undo brings the row and the
  items back, but the container itself never changed, so no diff names it and
  the mirror stays empty: the items show in order of creation instead of their
  order, until the document is reopened. Two replicas with the same commits then
  disagree about the resolved order that `fingerprint` hashes
  (`core/src/doc.rs:5383`).

### Other observations

Met while modelling; none is claimed as a property.

* Comments in `cli/src/sync.rs` and `spec/cli.md:39` say deleting a document is
  refused while other members remain; the server deletes it.
* `spec/encryption.md:76` says a reset creates the device row in one transaction;
  it is a later call, and a crash between them leaves a reset without a device.
* A signup whose answer is lost leaves an account and a local-only profile that
  cannot sign up again. A document created when the host stops between the
  server's answer and `write_secrets` has a membership and no key here.
* A login that races a password change gets a wrap its password does not open,
  and fails.
* A subscriber dropped for being slow is not announced in presence; the comment
  at `server/src/sync/sessions.rs:79` says that its eventual `unsubscribe`
  announces it.
* `AppEvent::ListAdded` has neither icon nor default view (`core/src/doc.rs:3180`,
  `5287`, `6554`), and `store.ts:977` then sets a list without them, where
  `materializeEngineSnapshot` (`store.ts:617`) carries both: a list that an undo or
  an import adds shows no icon until the next change of it or reload.
* `db clear` acts on `is_running`, whose own comment (`cli/src/daemon.rs:140`) says
  that callers that act on the answer should keep the lock instead.
* A login over a profile keeps the sync cursor, against the comment at
  `cli/src/commands/login.rs:144`.
* An item added to a list that another replica deletes concurrently is located
  in a list without a row until someone moves it.

### Fairness

`FairSpec` asks weak fairness of what event loops do by themselves: a device
handles the frame at the head of its socket, flushes, and reconnects (the hosts'
message loop, flush tick and reconnect timer); a session takes the next client
frame or goes on with its handler, forwards its subscription, and notices that
it was dropped (`run_session`'s select loop). Commits, folds, durability
reports, drops, crashes, lease expiry, compaction and restarts are not fair.
`Convergence` assumes that connections eventually hold, since their number is
bounded in the model.

The `doc` and `host` runs check safety and refinement only: a user may stop at
any point, and the retries of the host are those of the sync model.

## Proofs

`SyncSystemProofs` proves, for any set of devices and every value of the
bounds, capacity, batch size and threshold allowed by `BoundsAssumption`:

* `TypeCorrect`: `Spec => []TypeOK`
* `KnownIsInStream`: `Spec => []KnownInStream`
* `SnapshotsAreInStream`: `Spec => []SnapshotsInStream`
* `FrontierIsBelowCursor`: `Spec => []FrontierBelowCursor`

All follow from the inductive invariant `IInv` (`Invariance`). `KnownInStream`
alone is not inductive: an ack merges the `to_vv` of a push into
`server_known_vv`, so one must know that only *landed* pushes are acked (their
`to_vv` is within what the stream declares); a payload carries just the part of
its `to_vv` outside `server_known_vv`, so its landing relies on the rest being
in the stream already; a snapshot is made from `server_known_vv` and travels
through frames and session tasks before it is stored and imported elsewhere.
`IInv` therefore bounds every frame, task, subscription, record and row by what
the stream declares (`Known`), what has landed (`Landed`), the lengths of the log
and the snapshot table, and the device's cursor. These only grow, so a step
carries over what it does not touch (`Grows`, `Carry`), and the lemma of each
action treats just what the action changes.

`ExchangeProofs` adds, under the same assumptions:

* `FramesAreExpected`: `Spec => []NoUnexpectedFrame`
* `RetriesAreStoredOnce`: `Spec => [](RowsUnique /\ (purged = 0 => OneRowPerPush))`

What a frame meets is decided by the frames before it, so the invariant is about
the whole exchange on a connection. `ExchangeInv` says that an engine has at most
one request open and its state says which; that the request is on its way, or in
a handler, or its last reply is on the way back, and never two of the three; and
that a connection its device has left has nothing to be read. Broadcasts, acks
and the snapshot frames in the other direction cross it freely. `RowsUnique` is
the primary key of the updates table, and holds of the rows compaction has left;
`OneRowPerPush`, which counts the deleted rows too, follows as long as there are
none. (After compaction a retry is stored again: see the hazards.)

Of the sync model only model-checked: `Convergence`, since liveness and `ENABLED`
are beyond the prover; and the properties of what a reboot or a chain of
snapshots restores (`CursorCovered`, `OwnOpsStored`, `CapturedEditsKept`,
`ChainCoversUpTo`, `ChainReachesVv`). `CapturedEditsKept` is false beyond the
instance that checks it (`pending`), so there is nothing to prove for all
constants. The other four would be proved from the same fact, that what a device
or a chain has is closed under dependencies; a fold that prunes rows Loro keeps
pending breaks that fact, so whether they hold for every value of the constants
is open, and the runs speak for their instances only.

For the host model, with any accounts, documents, clients, connections and
mixes (`NamesAssumption`: no account is called none, no document is 0;
`ClientsAssumption`: the host and the command are clients and the host has a
connection; `StartsAssumption`: the names and passwords the starting points use
exist; `SubAssumption`: the subscriptions are finitely many, so that a slot is
free):

* `SharingIsRefined` (`AccessProofs`): `Spec => SharingRefined`
* `RevokedIsUnbound` (`SessionProofs`): `Spec => []RevokedUnbound`
* `PresenceIsCurrent` (`PresenceProofs`): `Spec => []PresenceAgrees`
* `ProfilesOpen` (`HostProofs`): `Spec => []ProfileComplete`
* `HostServesProfile` (`HostProofs`): `Spec => []ServesProfile`
* `MirrorsAreCurrent` (`HostProofs`): `Spec => []MirrorsCurrent`
* `HomesOpen` (`KeysProofs`): `Spec => []HomeUnlockable`
* `OpIdsAreUnique` (`CopiesProofs`): `Spec => []OpIdsUnique`
* `TypeCorrectHost` (`CopiesProofs`): `Spec => []TypeOK`

The first rests on `AccessInv` (`AccessHolds`). That the mapped variables
change as `DocAccess` allows does not follow from the tables being well formed:
a route reads the owner of a document, an invite or a recovery session at one
call and relies on it at the next. `AccessInv` therefore says that each document
has exactly one owner and no row outlives it, that an open invite was issued by
the owner, and, of every request under way, that the rows it names exist and
that it has sessions to close only while its route is closing them. Each route
has a lemma with the conclusion `Step`: the tables and the requests are kept,
and the step is one of `DocAccess` or none.

The second adds the sessions (`SessionInv`). `Served(d, a)` says that `a` is a
member of `d` or on the closing list of some route; every step but `CloseNext`
keeps it, since the three routes that end memberships put on their list exactly
those that end. `CloseNext` takes an entry off the list and queues an end for
every session that relied on it; and no step loses an end from a channel unless
it unbinds the document (`Longer`, `TailEnd`, `OneShrinks`).

Presence (`PresenceInv`, `PresenceHolds`) needs of the sessions that a subscriber
is up, has the document open and has no end in its channel (`Subscribers`), so that
whatever it reads is presence; then each step leaves the set of accounts alone, or
queues the new set on every channel that stays and has room, or makes the session
stale, and a later message that gets through ends that. `subscribe` tells someone
alone nothing, which is right because a new session starts out showing its own
account.

The three properties of the profile rest on `HostInv` (`HostHolds`), which is
about processes that share files without a transaction. One process at a time
writes, but for `db clear` and `share accept`: the lock is the host's while
there is one, and a command that writes has it (`Locking`). Each file is written
only after the ones it refers to (`Written`), and a command brings with it, from
before it had the lock, exactly what its writes need: the document it founds a
profile on with its key, the workspace it adopts, the secrets it will write
back, the account row that `db clear` has read and nobody replaces meanwhile
(`Holding`); for that the request under way must be the one that its command or
handler waits for (`Waiting`). The host serves what the files name, and the copy
of the keys that a handler keeps across its HTTP call is no smaller (`Hosting`).
`MirrorsCurrent` alone says nothing of a mirror while a pump is due; the
invariant says that a mirror has or will have all it was sent, and was sent all
there is unless a pump is due (`Mirrored`), and that the disk has all there is
unless the document was cleared under the host (`OnDisk`).

`HomeUnlockable` rests on `KeysInv` (`KeysHold`). A new key is wrapped under the
Home of whoever asks, and the server cannot see whose Home that is. The
installation takes its token from `secrets.toml` and Home from the account row,
two files that a killed command may leave of two different accounts. What keeps
it right is `dek_for_doc`: the command or the host needs the key of the Home
that the row names (`HomeKey`), and no account is ever given the key of another
account's Home. So the invariant follows every token together with the keys that
go with it, from the server's answer through the command, the profile and the
host, and back into the next request (`RequestsKeyed`, `CmdKeyed`,
`ProfileKeyed`, `HostKeyed`). It says that a Home has its own account as its only
member and is never offered, and that a document that was a Home once is one
still or is gone (`Registry`); the last is about accounts that are no longer in
the tables, which is what the history variable `homes` is for. Signup turns a
local workspace into a Home, so these must be apart from all documents that keys
are held for under some token (`Apart`), and they are because an id is chosen
only once (`Chosen`).

`OpIdsUnique` rests on `CopiesInv` (`CopiesHold`), on top of the three others.
Nothing hands out counters: a commit takes the number of commits its peer has in
the copy it is made on, so a copy that lacks one of them, or has one with a
higher number, repeats an id. Uniqueness alone therefore says nothing of the
next commit. What does is:

* no two processes or windows lease the same slot (`Leases`), and a free one is
  always found (`FreeSlotIs`);
* whoever leases a peer has all of its commits that are anywhere, numbered
  0, 1, 2... without a gap (`Counted`, `CopyNumbered`, `MirrorNumbered`); for a
  window, those in the host's copy and then, in order, those on their way to it,
  so that a lease that is handed on goes to someone who has seen them all;
* the server has nothing of this installation's peers that its copy lacks
  (`Whole`), unless the rows were deleted and not fetched again, and then the copy
  is empty altogether (`emptied`), which is what the exception `reused` is about;
* what is behind the cursor is in the copy (`seen[d] \subseteq BootDoc(d)`), so
  that the first pull after a deletion, which resets the cursor, fetches
  everything; a login over a profile and `db clear` under a host break this and
  nothing else does, which is why `hollowed` and `cleared` are for good;
* host and disk have the same copy (`ServedFromDisk`) unless it was `cleared`;
* what a document is seeded with has number 0, so nothing of the document under
  these peers may have left the installation before: a document that a command
  or the host has in hand for a first commit is not on the server under them
  and its cursor is at the start (`FirstCommits`, `Unpushed`), and an account
  row without an account is of a workspace that was never connected
  (`LocalRow`), which is how `db clear` knows that it may seed;
* a purge removes the slots with the directory, and the next ones are of a new
  generation that nobody has a commit of.

The host's `TypeOK` follows from the four invariants and `PresenceInv`
(`ShapesAre`): the foreign keys of the tables from `Registry` and `MemberRows`,
the subscribers from `Subscribers`, the copies from `CopyTypes`. It is not an
invariant on its own: that a row names an account that exists is a matter of
what routes under way have read.

Only model-checked: the document model. Its operators fold
over sequences of entries and operations, so what they compute for every input
would need induction over data, which is beyond the prover.

## Not modelled, and the plan

1. The stream of notes deltas between an editor and the document and its shadows
   (`doc.rs` 2121-2253, 5770-6000); focus references to other documents; the
   store's coarse projection of large changes; a peer's own operations coming
   back and re-arming the undo manager.
2. Asynchronous storage (IndexedDB): queued writes that a crash loses, with
   `OwnOpsStored` and `CursorCovered` as the questions; the web's peer slots. The
   bindings in `core/web` forward to the document and the engine.
3. Errors of the local storage, which the engine reports and goes past.
4. The horizon under revocation: the frontiers of a revoked device.
5. Runs for the remaining hazards of sync: the leaked lease, the Ack that is not
   sent again, a push stored twice after compaction, a restart during
   convergence.
6. The daemon's socket file, idle and ping timers and parked Sync requests; two
   processes writing one SQLite file; an HTTP route dropped half-way.
7. An abstract specification of sync, a grow-only replicated set with durable
   edits, and `SyncSystem` shown to implement it.

Left out for good: cryptographic primitives, tokenising and ranking in search,
CLI presentation, the web and Apple user interfaces, telemetry and deployment,
which keep no protocol state.
