-------------------------------- MODULE Host --------------------------------
(***************************************************************************)
(* The profile of one installation and the processes that use it: the host *)
(* (the daemon, or the app that embeds it; cli/src/daemon.rs, sync.rs)     *)
(* under the profile's lock, and the mirrors of its documents (the app's   *)
(* windows) under leased peer ids (cli/src/peer.rs). A commit is an        *)
(* operation with its peer, its counter and a tag that tells commits       *)
(* apart; how an engine exchanges operations with the server is the matter *)
(* of SyncEngine, and a push here reaches the server or is never sent.     *)
(***************************************************************************)
EXTENDS DocSessions

CONSTANTS
  Sub   \* mirrors

\* A host has finitely many subscribers, so that there is a free slot.
ASSUME SubAssumption == IsFiniteSet(Sub)

HostConn == "host"

VARIABLES
  lock,      \* the process that holds daemon.lock
  secrets,   \* secrets.toml, NoFile when there is none
  row,       \* the account row of the database, NoFile when there is none
  disk,      \* snapshot and WAL of each document that has them
  seen,      \* what the server had at the persisted cursor of each document
  gen,       \* which peer_slots table this is: slot n has peer <<gen, n>>
  host,      \* the host process
  mirrors,   \* the host's subscribers and the mirrors they feed
  store,     \* the operations the server has of each document
  minted,    \* commits so far
  emptied,   \* documents whose rows were deleted and not fetched again yet
  lapses     \* history: the steps after which a property is not claimed

NoFile == [token |-> 0, keys |-> {}, primary |-> 0, account |-> None]

SecretsFile(token, keys) == [NoFile EXCEPT !.token = token, !.keys = keys]

AccountRow(primary, a) == [NoFile EXCEPT !.primary = primary, !.account = a]

profileVars == <<secrets, row, disk, seen, gen, emptied>>

Off ==
  [state |-> "off", who |-> None, primary |-> 0, token |-> 0, home |-> 0, slot |-> 0,
   mem |-> [d \in {} |-> {}], ws |-> FALSE, engine |-> [d \in {} |-> None],
   asking |-> {}, todo |-> None, held |-> {}, stop |-> FALSE]

NoMirror ==
  [state |-> None, doc |-> 0, slot |-> 0, peer |-> <<0, 0>>, has |-> {}, sent |-> {},
   down |-> {}, up |-> <<>>, behind |-> FALSE]

-----------------------------------------------------------------------------
(* Peer ids *)

\* Fault: mirrors hold no lease.
LeasedByHost == IF host.state = "serving" THEN {host.slot} ELSE {}

\* peer::claim: the lowest slot nobody has locked; a lease is released with
\* the process or the subscription that holds it.
Leased ==
  (IF host.state = "serving" THEN {host.slot} ELSE {})
  \cup {mirrors[s].slot : s \in {r \in Sub : mirrors[r].state = "live"}}

FreeSlot == CHOOSE n \in 0..Cardinality(Leased) : n \notin Leased /\ 0..(n - 1) \subseteq Leased

PeerOf(slot) == <<gen, slot>>

Minted(peer, has) ==
  [peer |-> peer, n |-> Cardinality({o \in has : o.peer = peer}), tag |-> minted + 1]

\* A step that the code takes although it may break a property.
Lapse(kind, d, happens) ==
  lapses' = IF happens THEN lapses \cup {<<kind, d>>} ELSE lapses

-----------------------------------------------------------------------------
(* Life of the host *)

\* start_with: the lock first. The profile existed when the process started.
StartHost(who) ==
  /\ host.state = "off"
  /\ lock = None
  /\ lock' = who
  /\ host' = [Off EXCEPT !.state = "locked", !.who = who]
  /\ UNCHANGED <<mirrors, store, minted>>
  /\ UNCHANGED profileVars

\* boot_doc_state: a document without rows starts empty.
BootDoc(d) == IF d \in DOMAIN disk THEN disk[d] ELSE {}

\* dek_for_doc, of Home: without its key a host and most commands end here.
HomeKey == row.primary \in secrets.keys

\* open_inner: Home's key must be there; every document of secrets.toml is
\* booted. Else the process ends.
BootHost ==
  /\ host.state = "locked"
  /\ IF HomeKey
     THEN /\ host' = [Off EXCEPT !.state = "serving", !.who = host.who,
                                 !.primary = row.primary, !.token = secrets.token,
                                 !.slot = FreeSlot,
                                 !.mem = [d \in secrets.keys |-> BootDoc(d)],
                                 !.engine = [d \in secrets.keys |-> "off"]]
          /\ UNCHANGED lock
     ELSE host' = Off /\ lock' = None
  /\ UNCHANGED <<mirrors, store, minted>>
  /\ UNCHANGED profileVars

Orphaned ==
  [s \in Sub |-> IF mirrors[s].state = "live" THEN [mirrors[s] EXCEPT !.state = "orphan"]
                 ELSE mirrors[s]]

\* The end of Host::run, and a crash, which releases the locks as well. What
\* the handlers have done is on disk; the fold of a clean exit writes the whole
\* of a copy again, if its rows were deleted meanwhile.
StopHost ==
  /\ host.state # "off"
  /\ host' = Off
  /\ lock' = None
  /\ mirrors' = Orphaned
  /\ \E folded \in SUBSET {d \in DOMAIN host.mem : host.mem[d] # BootDoc(d)} :
       disk' = [d \in DOMAIN disk \cup folded |-> IF d \in folded THEN host.mem[d] ELSE disk[d]]
  /\ UNCHANGED <<secrets, row, seen, gen, emptied, store, minted>>

Serving == host.state = "serving" /\ host.todo = None

\* A whole copy is written.
Saved(d, ops) == disk' = Put(disk, d, ops)

\* The handlers persist what they changed before they pump and fan out: a row
\* for what is new, or a fold of the whole copy.
Persisted(d, ops) ==
  \E kept \in {BootDoc(d) \cup (ops \ host.mem[d]), ops} : Saved(d, kept)

\* A copy without its rows that lacks commits of this installation's peers.
Behind(d) == d \in emptied /\ \E o \in store[d] : o.peer[1] = gen /\ o \notin host.mem[d]

-----------------------------------------------------------------------------
(* Requests *)

\* What a workspace selector can name: every document the session has open.
Candidates == DOMAIN host.mem

\* on_request, Doc: run against the document whether or not it is online.
DocCommand(d) ==
  LET op == Minted(PeerOf(host.slot), host.mem[d])
      ops == host.mem[d] \cup {op}
  IN /\ Serving
     /\ d \in Candidates
     /\ host' = [host EXCEPT !.mem[d] = ops, !.todo = "pump"]
     /\ Persisted(d, ops)
     /\ minted' = minted + 1
     /\ Lapse("reused", d, Behind(d))
     /\ UNCHANGED <<lock, secrets, row, seen, gen, emptied, mirrors, store>>

\* Fault: a mirror with updates of its own on the way is passed over.
FannedOutQuiet(mem) ==
  [s \in Sub |->
     LET m == mirrors[s]
     IN IF m.state # "live" \/ m.up # <<>> THEN m
        ELSE IF m.doc \notin DOMAIN mem THEN [m EXCEPT !.state = "orphan"]
        ELSE [m EXCEPT !.down = @ \cup (mem[m.doc] \ m.sent), !.sent = mem[m.doc]]]

\* fan_out: a subscriber of a document that is gone is told and removed; the
\* others get what they have not been sent.
FannedOut(mem) ==
  [s \in Sub |->
     LET m == mirrors[s]
     IN IF m.state # "live" THEN m
        ELSE IF m.doc \notin DOMAIN mem THEN [m EXCEPT !.state = "orphan"]
        ELSE [m EXCEPT !.down = @ \cup (mem[m.doc] \ m.sent), !.sent = mem[m.doc]]]

\* pump, then notify_if_changed. A frame for a document the session does not
\* have open ends it. The ack of a push moves the cursor over it if nothing
\* else is in between.
Pump ==
  LET due == {d \in DOMAIN host.mem : host.engine[d] = "idle" /\ ~(host.mem[d] \subseteq store[d])}
      sends == host.ws /\ conns[HostConn].up
  IN /\ host.state = "serving"
     /\ host.todo = "pump"
     /\ host' = [host EXCEPT !.todo = None]
     /\ mirrors' = FannedOut(host.mem)
     /\ IF sends /\ due \subseteq conns[HostConn].open
        THEN /\ store' = [d \in Doc |-> store[d] \cup IF d \in due THEN host.mem[d] ELSE {}]
             /\ seen' = [d \in Doc |-> IF d \in due /\ store[d] \subseteq seen[d]
                                      THEN store[d] \cup host.mem[d] ELSE seen[d]]
             /\ UNCHANGED sessionVars
        ELSE /\ IF sends THEN Ended(HostConn, conns[HostConn].wire) ELSE UNCHANGED sessionVars
             /\ UNCHANGED <<store, seen>>
     /\ UNCHANGED <<lock, secrets, row, disk, gen, emptied, minted>>

-----------------------------------------------------------------------------
(* Mirrors *)

\* on_subscribe: a lease, a snapshot, and the subscriber starts from there.
Subscribe(s, d) ==
  /\ Serving
  /\ mirrors[s].state = None
  /\ d \in Candidates
  /\ mirrors' = [mirrors EXCEPT ![s] =
                   [NoMirror EXCEPT !.state = "live", !.doc = d, !.slot = FreeSlot,
                                    !.peer = PeerOf(FreeSlot), !.has = host.mem[d],
                                    !.sent = host.mem[d], !.behind = Behind(d)]]
  /\ UNCHANGED <<lock, host, store, minted>>
  /\ UNCHANGED profileVars

\* The window commits; it may not have heard yet that its host is gone.
MirrorEdit(s) ==
  LET op == Minted(mirrors[s].peer, mirrors[s].has)
  IN /\ mirrors[s].state # None
     /\ mirrors' = [mirrors EXCEPT ![s].has = @ \cup {op}, ![s].up = Append(@, op)]
     /\ minted' = minted + 1
     /\ Lapse("reused", mirrors[s].doc, mirrors[s].behind)
     /\ UNCHANGED <<lock, host, store>>
     /\ UNCHANGED profileVars

\* on_import refuses a subscriber it does not know; the update is dropped.
Import(s) ==
  LET m == mirrors[s]
      op == Head(m.up)
      ops == host.mem[m.doc] \cup {op}
  IN /\ m.up # <<>>
     /\ \/ /\ m.state = "live"
           /\ Serving
           /\ m.doc \in DOMAIN host.mem
           /\ host' = [host EXCEPT !.mem[m.doc] = ops, !.todo = "pump"]
           /\ Persisted(m.doc, ops)
           /\ mirrors' = [mirrors EXCEPT ![s].up = Tail(@), ![s].sent = @ \cup {op}]
           /\ UNCHANGED <<secrets, row, seen, gen, emptied>>
        \/ /\ m.state = "orphan" \/ (Serving /\ m.doc \notin DOMAIN host.mem)
           /\ mirrors' = [mirrors EXCEPT ![s].up = Tail(@)]
           /\ UNCHANGED host
           /\ UNCHANGED profileVars
     /\ UNCHANGED <<lock, store, minted>>

MirrorUpdate(s) ==
  /\ mirrors[s].down # {}
  /\ mirrors' = [mirrors EXCEPT ![s].has = @ \cup mirrors[s].down, ![s].down = {}]
  /\ UNCHANGED <<lock, host, store, minted>>
  /\ UNCHANGED profileVars

\* The window is closed; a live subscription is dropped and its lease with it.
Unsubscribe(s) ==
  /\ mirrors[s].state # None
  /\ mirrors[s].state = "live" => Serving
  /\ mirrors' = [mirrors EXCEPT ![s] = NoMirror]
  /\ UNCHANGED <<lock, host, store, minted>>
  /\ UNCHANGED profileVars

-----------------------------------------------------------------------------
(* The connection *)

\* start_connect and on_connect_result; a local-only session has no token.
HostConnect ==
  /\ Serving
  /\ ~host.ws
  /\ host.token # 0
  /\ Accept(HostConn, host.token)
  /\ host' = [host EXCEPT !.ws = TRUE, !.engine = [d \in DOMAIN host.mem |-> "opening"],
                          !.asking = DOMAIN host.mem]
  /\ UNCHANGED <<lock, mirrors, store, minted>>
  /\ UNCHANGED profileVars

Disconnected(h) ==
  [h EXCEPT !.ws = FALSE, !.asking = {}, !.engine = [d \in DOMAIN h.mem |-> "off"]]

\* The read side of the socket ends: a lost connection or a closed session.
HostDisconnect ==
  /\ Serving
  /\ host.ws
  /\ ~conns[HostConn].up
  /\ conns[HostConn].wire = <<>>
  /\ host' = Disconnected(host)
  /\ UNCHANGED <<lock, mirrors, store, minted>>
  /\ UNCHANGED profileVars
  /\ UNCHANGED sessionVars

\* forget_doc: the engine, then the key, then the rows.
Forgotten(h, d) ==
  [h EXCEPT !.mem = Drop(h.mem, {d}), !.engine = Drop(h.engine, {d}), !.asking = @ \ {d}]

\* The rows and the cursor go and the peer slots stay: a document that is
\* joined again starts out empty under the old peers.
ForgetDoc(d) ==
  /\ secrets' = [secrets EXCEPT !.keys = @ \ {d}]
  /\ disk' = Drop(disk, {d})
  /\ seen' = [seen EXCEPT ![d] = {}]
  /\ emptied' = emptied \cup {d}
  /\ UNCHANGED <<row, gen>>

\* Operations from the server, by the pull that follows DocOpened or by a
\* broadcast: what is past the cursor, whatever the copy has of the rest.
Merged(d) ==
  LET ops == host.mem[d] \cup (store[d] \ seen[d])
  IN /\ host' = [host EXCEPT !.mem[d] = ops, !.engine[d] = "idle", !.todo = "pump"]
     /\ Persisted(d, ops)
     /\ seen' = [seen EXCEPT ![d] = store[d]]
     /\ emptied' = emptied \ {d}
     /\ UNCHANGED <<secrets, row, gen, mirrors>>

\* on_ws_message and the events its pump drains.
HostFrame ==
  LET f == Head(conns[HostConn].wire)
      d == f.doc
  IN /\ Serving
     /\ host.ws
     /\ conns[HostConn].wire # <<>>
     /\ \/ /\ d \notin DOMAIN host.mem
           /\ UNCHANGED <<host, mirrors>>
           /\ UNCHANGED profileVars
        \/ /\ d \in DOMAIN host.mem
           /\ f.t = "DocOpened"
           /\ Merged(d)
        \/ /\ d \in DOMAIN host.mem
           /\ f.t \in {"DocClosed", "DocRejected"}
           /\ d # host.primary
           /\ host' = Forgotten(host, d)
           /\ mirrors' = FannedOut(Drop(host.mem, {d}))
           /\ ForgetDoc(d)
        \/ /\ d = host.primary
           /\ f.t \in {"DocClosed", "DocRejected"}
           /\ host' = Disconnected(host)
           /\ UNCHANGED mirrors
           /\ UNCHANGED profileVars
     /\ conns' = [conns EXCEPT ![HostConn].wire =
                    IF d = host.primary /\ f.t # "DocOpened" THEN <<>> ELSE Tail(@)]
     /\ UNCHANGED <<lock, subs, store, minted>>

HostBroadcast(d) ==
  /\ Serving
  /\ d \in DOMAIN host.mem
  /\ host.engine[d] = "idle"
  /\ HostConn \in subs[d]
  /\ ~(store[d] \subseteq host.mem[d] \cup seen[d])
  /\ Merged(d)
  /\ UNCHANGED <<lock, store, minted>>
  /\ UNCHANGED sessionVars

-----------------------------------------------------------------------------
(* Workspaces: the handler waits for the HTTP reply *)

HostClient == "host"

\* create_doc reads secrets.toml before the call and writes it after.
CreateWorkspace(d) ==
  /\ Serving
  /\ host.token # 0
  /\ Send(HostClient, [Request("createDoc", "auth") EXCEPT !.token = secrets.token, !.doc = d,
                                                          !.home = host.primary])
  /\ host' = [host EXCEPT !.todo = "create", !.held = secrets.keys]

DeleteWorkspace(d) ==
  /\ Serving
  /\ host.token # 0
  /\ d \in Candidates \ {host.primary}
  /\ Send(HostClient, [Request("deleteDoc", "auth") EXCEPT !.token = secrets.token, !.doc = d])
  /\ host' = [host EXCEPT !.todo = "delete"]

\* The answer to a create: the key, the seed snapshot, then the document is
\* booted and, on a live connection, opened.
WorkspaceCreated ==
  LET d == calls[HostClient].doc
      ops == {Minted(PeerOf(host.slot), {})}
  IN /\ host.todo = "create"
     /\ calls[HostClient].out = "ok"
     /\ secrets' = [secrets EXCEPT !.keys = host.held \cup {d}]
     /\ Saved(d, ops)
     /\ host' = [host EXCEPT !.todo = "pump", !.held = {},
                             !.mem = Put(@, d, ops),
                             !.engine = Put(@, d, IF host.ws THEN "opening" ELSE "off"),
                             !.asking = IF host.ws THEN @ \cup {d} ELSE @]
     /\ minted' = minted + 1
     /\ UNCHANGED <<row, seen, gen, emptied, mirrors>>

WorkspaceDeleted ==
  LET d == calls[HostClient].doc
  IN /\ host.todo = "delete"
     /\ calls[HostClient].out = "ok"
     /\ host' = [Forgotten(host, d) EXCEPT !.todo = None]
     /\ mirrors' = FannedOut(Drop(host.mem, {d}))
     /\ ForgetDoc(d)
     /\ UNCHANGED minted

\* A refusal, a lost reply and a timeout leave everything in place.
WorkspaceFailed ==
  /\ host.todo \in {"create", "delete"}
  /\ calls[HostClient].out # "ok"
  /\ host' = [host EXCEPT !.todo = None, !.held = {}]
  /\ UNCHANGED <<mirrors, minted>>
  /\ UNCHANGED profileVars

HostReply ==
  /\ host.state = "serving"
  /\ calls[HostClient].at = "answered"
  /\ calls' = [calls EXCEPT ![HostClient] = Idle]
  /\ WorkspaceCreated \/ WorkspaceDeleted \/ WorkspaceFailed
  /\ UNCHANGED <<lock, store>>
=============================================================================
