----------------------------- MODULE HostSystem -----------------------------
(***************************************************************************)
(* One installation (commands, host, mirrors), other clients of the same   *)
(* and of another account, and the server they meet at.                    *)
(***************************************************************************)
EXTENDS Commands

CONSTANTS
  Mixes   \* which kinds of step a behaviour may take, from which start, how often

VARIABLES
  mix,
  homes   \* history: Home of every account there has been

\* The host and the commands are clients of the server, and the host connects.
ASSUME ClientsAssumption == {CmdClient, HostClient} \subseteq Client /\ HostConn \in Conn

vars == <<accounts, docs, members, devices, invites, resets, calls, subs, conns, lock, secrets,
          row, disk, seen, gen, host, mirrors, store, minted, emptied, lapses, cmd, born, mix, homes>>

Peers == Client \ {CmdClient, HostClient}

May(kind) == kind \in mix.kinds

Spend(f) == mix[f] > 0 /\ mix' = [mix EXCEPT ![f] = @ - 1]

-----------------------------------------------------------------------------
(* Starting points. "fresh": no account, no profile. "local": a local-only *)
(* profile. "joined": this installation and another device of account A,   *)
(* and account B. "shared": a document of A that B has joined, as well.    *)
(* "offered": a document of B that A could join.                           *)

ASSUME StartsAssumption ==
  {"A", "B"} \subseteq Account /\ 1..3 \subseteq Doc /\ {1, 2} \subseteq Password

RemotePeer == <<-1, 0>>

\* The first commit of a document, made here or elsewhere.
Welcome(d, own) == {[peer |-> IF d \in own THEN <<0, 0>> ELSE RemotePeer, n |-> 0, tag |-> d]}

Started(start) ==
  LET known == start \in {"joined", "shared", "offered"}
      shared == IF start \in {"shared", "offered"} THEN {3} ELSE {}
      own == IF start = "fresh" THEN {} ELSE IF start = "shared" THEN {1, 3} ELSE {1}
      third == IF start = "shared" THEN {<<3, "A">>, <<3, "B">>} ELSE shared \X {"B"}
  IN /\ accounts = IF known THEN [a \in {"A", "B"} |->
                                    [primary |-> IF a = "A" THEN 1 ELSE 2, password |-> 1]]
                   ELSE [a \in {} |-> {}]
     /\ docs = IF known THEN {1, 2} \cup shared ELSE {}
     /\ members = IF ~known THEN [k \in {} |-> {}]
                  ELSE [k \in {<<1, "A">>, <<2, "B">>} \cup third |->
                          CASE k[1] # 3 -> Member("owner", UnderPassword(1))
                            [] k = <<3, "A">> -> Member("owner", UnderHome(1))
                            [] k = <<3, "B">> -> Member(IF start = "shared" THEN "member"
                                                        ELSE "owner", UnderHome(2))]
     /\ devices = IF known THEN <<"A", "B", "A">> ELSE <<>>
     /\ secrets = IF own = {} THEN NoFile ELSE SecretsFile(IF known THEN 1 ELSE 0, own)
     /\ row = IF own = {} THEN NoFile ELSE AccountRow(1, IF known THEN "A" ELSE None)
     /\ disk = [d \in own |-> Welcome(d, own)]
     /\ store = [d \in Doc |-> IF d \in docs THEN Welcome(d, own) ELSE {}]
     /\ seen = [d \in Doc |-> IF d \in docs \cap own THEN Welcome(d, own) ELSE {}]
     /\ born = docs \cup own
     /\ minted = 3

Init ==
  /\ mix \in Mixes
  /\ Started(mix.start)
  /\ invites = <<>>
  /\ resets = <<>>
  /\ calls = [c \in Client |-> Idle]
  /\ subs = [d \in Doc |-> {}]
  /\ conns = [k \in Conn |-> Down]
  /\ lock = None
  /\ gen = 0
  /\ host = Off
  /\ mirrors = [s \in Sub |-> NoMirror]
  /\ emptied = {}
  /\ lapses = {}
  /\ cmd = NoCmd
  /\ homes = [a \in DOMAIN accounts |-> accounts[a].primary]

-----------------------------------------------------------------------------
(* Other clients: any request their user can make *)

Tokens == {t \in DOMAIN devices : DeviceAccount(t) # None}

Authed(op, t) == [Request(op, "auth") EXCEPT !.token = t]

HomeOf(t) == accounts[devices[t]].primary

\* login with any password, and a change of the password by one who knows it.
PasswordAsks ==
  {[Request("login", "run") EXCEPT !.account = a, !.password = p] :
     a \in DOMAIN accounts, p \in Password}
  \cup {[Authed("password", t) EXCEPT !.password = 1, !.new = p, !.home = HomeOf(t)] :
          t \in Tokens, p \in Password \ {1}}

\* The recovery code, and a reset that names any document as Home.
RecoverAsks ==
  {[Request("recover", "run") EXCEPT !.account = a] : a \in DOMAIN accounts}
  \cup {[Request("reset", "run") EXCEPT !.row = r, !.new = 2, !.home = d] :
          r \in DOMAIN resets, d \in docs}

DocAsks ==
  {Authed("docs", t) : t \in Tokens}
  \cup {[Authed("deleteDoc", t) EXCEPT !.doc = d] : t \in Tokens, d \in docs}

\* share link, share revoke, and an accept from another installation.
InviteAsks ==
  {[Authed("invite", t) EXCEPT !.doc = d] : t \in Tokens, d \in docs}
  \cup {[Authed("accept", t) EXCEPT !.row = i, !.home = HomeOf(t)] :
          t \in Tokens, i \in DOMAIN invites}
  \cup {[Authed("revokeInvite", t) EXCEPT !.row = i] : t \in Tokens, i \in DOMAIN invites}

\* share remove.
RemoveAsks ==
  {[Authed("removeMember", t) EXCEPT !.doc = d, !.target = a] :
     t \in Tokens, d \in docs, a \in DOMAIN accounts}

Of(kind, asks) == IF May(kind) THEN asks ELSE {}

Asks ==
  UNION {Of("password", PasswordAsks), Of("recover", RecoverAsks), Of("docs", DocAsks),
         Of("invite", InviteAsks), Of("remove", RemoveAsks),
         Of("device", {[Authed("revoke", t) EXCEPT !.row = r] : t \in Tokens, r \in Tokens}),
         Of("deleteAccount", {[Authed("deleteAccount", t) EXCEPT !.password = 1] : t \in Tokens})}

PeerSend(c) ==
  /\ Spend("asks")
  /\ \E q \in Asks : Send(c, q)
  /\ UNCHANGED born

PeerCreateDoc(c, d) ==
  /\ May("docs")
  /\ Spend("asks")
  /\ NewDoc(d)
  /\ \E t \in Tokens :
       Send(c, [Authed("createDoc", t) EXCEPT !.doc = d, !.home = HomeOf(t)])

\* A reply nobody waits for.
DropReply(c) ==
  /\ calls[c].at = "answered"
  /\ \/ c \in Peers
     \/ c = HostClient /\ host.todo \notin {"create", "delete"}
     \/ c = CmdClient /\ cmd.at # "http"
  /\ calls' = [calls EXCEPT ![c] = Idle]

\* The answer does not arrive in time; the server has done its part.
LoseReply(c) ==
  /\ May("lossy")
  /\ calls[c].at = "answered"
  /\ calls[c].out = "ok"
  /\ calls' = [calls EXCEPT ![c].out = "lost"]

\* A device elsewhere pushes to a document it is a member of.
RemotePush(d) ==
  /\ May("remote")
  /\ minted < mix.commits
  /\ d \in docs
  /\ store' = [store EXCEPT ![d] = @ \cup {Minted(RemotePeer, store[d])}]
  /\ minted' = minted + 1

-----------------------------------------------------------------------------
(* The system *)

localVars ==
  <<lock, secrets, row, disk, seen, gen, host, mirrors, store, minted, emptied, lapses, cmd>>

ServerStep ==
  /\ \/ \E c \in Client : Route(c) /\ UNCHANGED sessionVars
     \/ May("expire") /\ Expire /\ UNCHANGED sessionVars
     \/ \E c \in Client : CloseNext(c)
  /\ UNCHANGED <<born, mix>>
  /\ UNCHANGED localVars

PeerStep ==
  /\ \/ \E c \in Peers : PeerSend(c) \/ \E d \in Doc : PeerCreateDoc(c, d)
     \/ \E c \in Client : (DropReply(c) \/ LoseReply(c)) /\ UNCHANGED <<born, mix>>
  /\ UNCHANGED tables
  /\ UNCHANGED sessionVars
  /\ UNCHANGED localVars

\* Sessions: the host's OpenDocs are served in any order.
SessionStep ==
  /\ \/ /\ \E k \in Conn \ {HostConn} :
             \/ May("web") /\ Spend("opens") /\ \E t \in Tokens : Accept(k, t)
             \/ May("web") /\ Spend("opens") /\ \E d \in Doc : CanOpen(k, d)
             \/ May("web") /\ Spend("opens") /\ EndSession(k)
        /\ UNCHANGED host
     \/ /\ May("slow")
        /\ Spend("opens")
        /\ \E k \in Conn, d \in Doc : Broadcast(k, d)
        /\ conns' # conns
        /\ UNCHANGED host
     \/ /\ \E d \in host.asking :
             CanOpen(HostConn, d) /\ host' = [host EXCEPT !.asking = @ \ {d}]
        /\ UNCHANGED mix
     \/ /\ \E k \in Conn : OpenDoc(k) \/ \E d \in Doc : Forward(k, d) \/ Drain(k, d)
        /\ UNCHANGED <<host, mix>>
     \/ /\ host.ws
        /\ Spend("drops")
        /\ EndSession(HostConn)
        /\ UNCHANGED host
     \/ ~host.ws /\ EndSession(HostConn) /\ UNCHANGED <<host, mix>>
  /\ UNCHANGED tables
  /\ UNCHANGED <<calls, born, lock, secrets, row, disk, seen, gen, mirrors, store, minted, emptied,
                 lapses, cmd>>

\* A command finds no host and spawns the daemon; the app hosts by itself.
SpawnDaemon == May("daemon") /\ StartHost("daemon")

StartApp == May("app") /\ StartHost("app")

\* Shutdown is read between two requests; a crash comes at any time.
LifeStep ==
  /\ \/ (SpawnDaemon \/ StartApp \/ BootHost) /\ UNCHANGED mix
     \/ host.stop /\ host.todo = None /\ StopHost /\ UNCHANGED mix
     \/ Spend("drops") /\ StopHost
  /\ UNCHANGED sessionVars
  /\ UNCHANGED <<calls, lapses>>

\* A document command of a client of the socket, and a commit in a window.
EditStep ==
  /\ minted < mix.commits
  /\ \/ May("edit") /\ \E d \in Doc : DocCommand(d)
     \/ May("mirror") /\ \E s \in Sub : MirrorEdit(s)
  /\ UNCHANGED sessionVars
  /\ UNCHANGED <<calls, mix>>

\* The in-process client: subscriptions, and the updates both ways.
MirrorStep ==
  /\ \E s \in Sub :
       \/ May("mirror") /\ \E d \in Doc : Subscribe(s, d)
       \/ Import(s)
       \/ MirrorUpdate(s)
       \/ Unsubscribe(s)
  /\ UNCHANGED sessionVars
  /\ UNCHANGED <<calls, mix, lapses>>

\* The loop's other sources: the socket to the server, and HTTP replies.
NetworkStep ==
  /\ \/ Pump /\ UNCHANGED calls
     \/ (HostDisconnect \/ HostFrame \/ \E d \in Doc : HostBroadcast(d)) /\ UNCHANGED calls
     \/ May("online") /\ HostConnect /\ UNCHANGED calls
     \/ HostReply /\ UNCHANGED sessionVars
  /\ UNCHANGED <<mix, lapses>>

HostStep == LifeStep \/ EditStep \/ MirrorStep \/ NetworkStep

WorkspaceStep ==
  /\ May("workspace")
  /\ Spend("asks")
  /\ \/ \E d \in Doc : NewDoc(d) /\ CreateWorkspace(d)
     \/ \E d \in Doc : DeleteWorkspace(d) /\ UNCHANGED born
  /\ UNCHANGED <<lock, mirrors, store, minted, lapses>>
  /\ UNCHANGED profileVars
  /\ UNCHANGED sessionVars

BeginStep ==
  /\ Spend("asks")
  /\ \/ May("init") /\ \E d \in Doc : BeginInit(d)
     \/ May("signup") /\ \E a \in Account \ DOMAIN homes, d \in Doc : BeginSignup(a, 1, d)
     \/ May("login") /\ \E a \in DOMAIN accounts, p \in Password : BeginLogin(a, p)
     \/ May("recoverCmd") /\ \E a \in DOMAIN accounts : BeginRecover(a, 2)
     \/ May("passwordCmd") /\ BeginPassword(1, 2)
     \/ May("logout") /\ BeginLogout
     \/ May("deleteAccountCmd") /\ BeginDeleteAccount(1)
     \/ May("clear") /\ BeginClear
     \/ May("accept") /\ \E i \in DOMAIN invites : BeginShareAccept(i)
  /\ UNCHANGED Rest

CommandStep ==
  \/ BeginStep
  \/ Command /\ UNCHANGED mix
  \/ Spend("drops") /\ Kill

\* Account ids are never used again, whatever email they go with.
Remembered ==
  homes' = [a \in DOMAIN homes \cup DOMAIN accounts' |->
              IF a \in DOMAIN homes THEN homes[a] ELSE accounts'[a].primary]

AnyStep ==
  \/ ServerStep
  \/ PeerStep
  \/ SessionStep
  \/ HostStep /\ UNCHANGED tables /\ UNCHANGED <<born, cmd>>
  \/ WorkspaceStep /\ UNCHANGED tables /\ UNCHANGED cmd
  \/ CommandStep /\ UNCHANGED tables /\ UNCHANGED sessionVars
  \/ /\ \E d \in Doc : RemotePush(d)
     /\ UNCHANGED tables
     /\ UNCHANGED sessionVars
     /\ UNCHANGED <<calls, lock, host, mirrors, lapses, cmd, born, mix>>
     /\ UNCHANGED profileVars

Next == AnyStep /\ Remembered

Spec == Init /\ [][Next]_vars

-----------------------------------------------------------------------------
(* Properties *)

Lapsed(kind) == \E l \in lapses : l[1] = kind

Ops == [peer : {RemotePeer} \cup (Nat \X Nat), n : Nat, tag : Nat]

\* The rows, files and copies are of the shapes the code gives them; an open
\* document is one of the connection's and an engine belongs to a document.
TypeOK ==
  /\ DOMAIN accounts \subseteq Account
  /\ docs \subseteq Doc
  /\ DOMAIN members \subseteq docs \X (DOMAIN accounts)
  /\ \A a \in DOMAIN accounts : accounts[a].primary \in docs /\ accounts[a].password \in Password
  /\ devices \in Seq(DOMAIN accounts \cup {None})
  /\ \A i \in DOMAIN invites : invites[i].state = "open" => invites[i].doc \in docs
  /\ \A d \in Doc : subs[d] \subseteq {k \in Conn : conns[k].up}
  /\ lock \in {None, CmdClient, host.who}
  /\ DOMAIN host.engine = DOMAIN host.mem
  /\ host.asking \subseteq DOMAIN host.mem
  /\ \A d \in DOMAIN disk : disk[d] \subseteq Ops

\* The password the server accepts opens the Home key of its account, and the
\* Home key opens every document the account is a member of: a login, whatever
\* password changes, recoveries, invites and removals came before, ends with
\* every key (unwrap_home, unwrap_memberships).
HomeUnlockable ==
  \A a \in DOMAIN accounts :
    LET home == accounts[a].primary
    IN /\ IsOwner(home, a)
       /\ members[<<home, a>>].wrap = UnderPassword(accounts[a].password)
       /\ \A d \in docs \ {home} : IsMember(d, a) => members[<<d, a>>].wrap = UnderHome(home)

Closing(k, d) == \E j \in DOMAIN conns[k].queue[d] : conns[k].queue[d][j].t \in {"Close", "Unbind", "End"}

\* A document that a connection has open either still reaches it, to an account
\* that is a member, or its end is on the way: queued for the session, or next
\* on the list of the route that ended the membership. A membership that ends
\* between the check in open_doc and its subscription is the exception.
RevokedUnbound ==
  \A k \in Conn : conns[k].up => \A d \in conns[k].open :
    \/ Closing(k, d)
    \/ /\ k \in subs[d]
       /\ \/ IsMember(d, conns[k].account)
          \/ d \in conns[k].late
          \/ \E c \in Client : \E x \in calls[c].close :
               x.doc = d /\ x.account \in {None, conns[k].account}

\* The last presence message of a queue, or what is shown if it has none.
Tells(queue, shown, who) ==
  LET news == {j \in DOMAIN queue : queue[j].t = "Presence"}
  IN IF news = {} THEN shown = who
     ELSE \E j \in news : (\A i \in news : i <= j) /\ queue[j].who = who

\* What a client shows, once its queue is read, is who is subscribed to the
\* document (sessions.rs subscribe, unsubscribe, close_for_account, broadcast).
\* The exception is a session that the last change was kept from: a broadcast
\* drops slow subscribers without a word to the rest, and a presence message
\* for a full channel is lost; either lasts until the next one that arrives.
PresenceAgrees ==
  \A d \in Doc : \A k \in subs[d] :
    d \notin conns[k].stale => Tells(conns[k].queue[d], conns[k].shown[d], AccountSet(subs[d]))

Cleared(d) == <<"cleared", d>> \in lapses

Damaged(d) == Cleared(d) \/ <<"reused", d>> \in lapses \/ <<"hollowed", d>> \in lapses

\* Two commits that have left the copy they were made on never share a peer
\* and a counter (peer.rs), through crashes, restarts, leases handed on to
\* other mirrors, and updates that arrive after their subscription has ended.
\* The exceptions are documents that a commit was made on after db clear or a
\* membership that ended had deleted their rows and before they were fetched
\* again, that a login over a profile has taken the history of (its cursor
\* stays, so nothing brings it back), or that db clear has cleared under a
\* host.
OpIdsUnique ==
  \A d \in Doc :
    LET host_ == IF d \in DOMAIN host.mem THEN host.mem[d] ELSE {}
        shown == UNION {mirrors[s].has \cup mirrors[s].down :
                          s \in {r \in Sub : mirrors[r].state = "live" /\ mirrors[r].doc = d}}
        all == host_ \cup BootDoc(d) \cup store[d] \cup shown
    IN ~Damaged(d) =>
         \A o, p \in all : o.peer = p.peer /\ o.n = p.n => o = p

\* Between two handlers of the host every mirror has, or has been sent, all
\* the host has, and the disk has it too. The exception, of the disk alone, is
\* a document that db clear has cleared under a host: it asks whether one runs
\* first and then clears without the lock.
MirrorsCurrent ==
  Serving =>
    /\ \A s \in Sub : mirrors[s].state = "live" =>
         /\ mirrors[s].doc \in DOMAIN host.mem
         /\ host.mem[mirrors[s].doc] \subseteq mirrors[s].has \cup mirrors[s].down
    /\ \A d \in DOMAIN host.mem : ~Cleared(d) => host.mem[d] \subseteq BootDoc(d)

\* A profile that exists opens: secrets.toml is written last, so wherever a
\* command was killed the account row and Home's key are there, and a copy of
\* Home unless its rows were deleted on purpose (db clear, also one killed
\* before it seeds a local workspace again; Home then opens empty). The
\* exceptions are a kill between account row and secrets.toml over a profile,
\* and one in the removal of a profile after its database.
ProfileComplete ==
  secrets # NoFile /\ lock # CmdClient /\ ~Lapsed("torn") =>
    /\ row # NoFile
    /\ row.primary \in secrets.keys
    /\ row.primary \in DOMAIN disk \cup emptied

\* A host serves the profile as it is on disk: no command has replaced the
\* account under it, and each document it serves has its key. The exception
\* is a `share accept` that writes back the keys it read before the host
\* changed them.
ServesProfile ==
  Serving /\ ~Lapsed("overwritten") =>
    /\ secrets # NoFile
    /\ host.primary = row.primary
    /\ host.token = secrets.token
    /\ DOMAIN host.mem \subseteq secrets.keys

OwnerOf == [d \in docs |-> CHOOSE a \in Account : IsOwner(d, a)]

Guests == {g \in docs \X Account : IsMember(g[1], g[2]) /\ ~IsOwner(g[1], g[2])}

Offers == {<<i, invites[i].doc>> : i \in {j \in DOMAIN invites : invites[j].state = "open"}}

Access == INSTANCE DocAccess WITH owner <- OwnerOf, guests <- Guests, offers <- Offers

\* The tables and routes implement DocAccess: one owner, single-use offers, no
\* other way in, nothing left behind.
SharingRefined == Access!Spec
=============================================================================
