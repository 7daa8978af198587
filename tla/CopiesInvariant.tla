-------------------------- MODULE CopiesInvariant --------------------------
(***************************************************************************)
(* The inductive invariant behind OpIdsUnique and the host's TypeOK: where *)
(* the commits of a document are, under which peers, and how they are      *)
(* numbered. A commit takes the number of commits its peer has in the copy *)
(* it is made on, so what must hold is that whoever leases a peer has all  *)
(* of the peer's commits that are anywhere, numbered without a gap. It     *)
(* rests on AccessInv, HostInv and KeysInv.                                *)
(***************************************************************************)
EXTENDS KeysInvariant

-----------------------------------------------------------------------------
(* Numbers *)

PeerOps(S, P) == {o \in S : o.peer = P}

\* The commits of P in S are numbered from 0 to k - 1.
Counted(S, P, k) ==
  /\ \A o \in PeerOps(S, P) : o.n \in 0 .. k - 1
  /\ \A i \in 0 .. k - 1 : \E o \in PeerOps(S, P) : o.n = i
  /\ \A o, p \in PeerOps(S, P) : o.n = p.n => o = p

Numbered(S, P) == \E k \in Nat : Counted(S, P, k)

AnyPeer == {RemotePeer} \cup (Nat \X Nat)

\* The peers that this installation commits under, and those it ever had.
Mine == {gen} \X Nat
SoFar == {RemotePeer} \cup ((0 .. gen) \X Nat)

IsCopy(S) == IsFiniteSet(S) /\ S \subseteq [peer : SoFar, n : Nat, tag : Nat]

LiveOn(s, d) == mirrors[s].state = "live" /\ mirrors[s].doc = d

-----------------------------------------------------------------------------
(* Copies *)

\* The keys are of documents, and so is all that is kept and served by them.
KeyDocs ==
  /\ secrets.keys \subseteq Doc
  /\ cmd.keys \subseteq Doc
  /\ cmd.held.keys \subseteq Doc
  /\ cmd.at \in {"key", "clear", "reseed"} => cmd.doc \in Doc
  /\ host.held \subseteq Doc
  /\ DOMAIN host.mem \subseteq Doc
  /\ DOMAIN disk \subseteq Doc

\* A host has an engine for each document it serves, and the documents that it
\* serves as they are on disk, unless one was cleared; one that does not serve
\* has nothing.
ServedFromDisk ==
  /\ DOMAIN host.engine = DOMAIN host.mem
  /\ host.asking \subseteq DOMAIN host.mem
  /\ IF host.state = "serving" THEN \A d \in DOMAIN host.mem : ~Cleared(d) => host.mem[d] = BootDoc(d)
     ELSE DOMAIN host.mem = {} /\ host.todo = None

\* Passwords, and what is to become one.
Passwords ==
  /\ \A a \in DOMAIN accounts : accounts[a].password \in Password
  /\ \A c \in Client :
       /\ calls[c].op = "signup" => calls[c].password \in Password
       /\ calls[c].op \in {"password", "reset"} => calls[c].new \in Password
  /\ cmd.op \in {"password", "recover"} => cmd.new \in Password

\* Every copy is a finite set of commits.
CopyTypes ==
  /\ gen \in Nat
  /\ minted \in Nat
  /\ store = [d \in Doc |-> store[d]]
  /\ \A d \in Doc : IsCopy(store[d])
  /\ \A d \in DOMAIN disk : IsCopy(disk[d])
  /\ \A d \in DOMAIN host.mem : IsCopy(host.mem[d])
  /\ seen = [d \in Doc |-> seen[d]]
  /\ \A s \in Sub : mirrors[s].state = "live" => IsCopy(mirrors[s].has) /\ IsCopy(mirrors[s].down)

\* No two leases are of the same slot.
Leases ==
  host.state = "serving" =>
    /\ host.slot \in Nat
    /\ \A s \in Sub : mirrors[s].state = "live" =>
         /\ mirrors[s].slot \in Nat \ {host.slot}
         /\ mirrors[s].peer = PeerOf(mirrors[s].slot)
         /\ \A r \in Sub : mirrors[r].state = "live" /\ mirrors[r].slot = mirrors[s].slot => r = s

\* The server has nothing of this installation's peers that its copy lacks.
Whole(d) == \A P \in Mine : PeerOps(store[d], P) \subseteq BootDoc(d)

\* What came from elsewhere, or from an earlier table of peers, is on the
\* server. A copy that is behind is empty. What the cursor passes over is there.
CopyNumbered(d) ==
  /\ \A P \in AnyPeer : Numbered(store[d], P)
  /\ \A P \in Mine : Numbered(BootDoc(d), P)
  /\ \A o \in BootDoc(d) : o.peer \in Mine \/ o \in store[d]
  /\ Whole(d) \/ (d \in emptied /\ BootDoc(d) = {})
  /\ seen[d] \subseteq BootDoc(d)

\* A mirror has the copy, or will, and its own commits on their way to it.
MirrorNumbered(m, d) ==
  /\ m.has \cup m.down \subseteq BootDoc(d) \cup {m.up[i] : i \in DOMAIN m.up}
  /\ \A i \in DOMAIN m.up : m.up[i].peer = m.peer
  /\ m.behind => m.up = <<>>
  /\ ~m.behind =>
       /\ Whole(d)
       /\ PeerOps(BootDoc(d), m.peer) \subseteq m.has
       /\ \E k \in Nat :
            /\ Counted(BootDoc(d), m.peer, k)
            /\ Counted(m.has, m.peer, k + Len(m.up))
            /\ \A i \in DOMAIN m.up : m.up[i].n = k + i - 1

NumberedAt(d) ==
  ~Damaged(d) =>
    /\ CopyNumbered(d)
    /\ \A s \in Sub : LiveOn(s, d) => MirrorNumbered(mirrors[s], d)

Numbering == \A d \in Doc : NumberedAt(d)

-----------------------------------------------------------------------------
(* First commits: what a document is seeded with has number 0, so nothing  *)
(* of it may have left this installation before, nor may it have been      *)
(* fetched.                                                                *)

Unpushed(d) == seen[d] = {} /\ \A o \in store[d] : o.peer \notin Mine

\* A document that a command has in hand for a first workspace or an account.
InHand(d) ==
  /\ \/ cmd.op = "init" /\ cmd.at \in {"claim", "seed", "row"}
     \/ cmd.op = "signup" /\ cmd.adopt = 0 /\ cmd.at \in {"http", "claim", "seed"}
  /\ d \in cmd.keys

\* What the host serves, and what it is about to.
HostHas(d) ==
  \/ d \in DOMAIN host.mem
  \/ d \in secrets.keys
  \/ host.todo = "create" /\ (d \in host.held \/ d = calls[HostClient].doc)

FirstCommits ==
  /\ \A d \in Doc : (d \in DOMAIN host.mem => d \in born) /\ (d \notin born => Unpushed(d))
  /\ \A d \in Doc : InHand(d) => Unpushed(d) /\ ~HostHas(d)
  /\ host.todo = "create" =>
       LET d == calls[HostClient].doc IN d \in Doc => Unpushed(d) /\ d \notin DOMAIN host.mem
  /\ host.todo = "delete" => calls[HostClient].doc \in DOMAIN host.mem

\* A workspace whose account row names no account has never been connected.
LocalRow ==
  /\ row # NoFile /\ row.account = None =>
       secrets.token = 0 /\ (row.primary \in Doc => Unpushed(row.primary))
  /\ cmd.op \in Joining => cmd.account # None
  /\ cmd.at = "secrets" => row.account = cmd.account
  /\ cmd.op = "signup" /\ cmd.at = "seed" => cmd.adopt = 0
  /\ host.ws => host.token # 0
  /\ \A d \in DOMAIN host.mem : host.engine[d] = "idle" => host.ws

CopiesInv ==
  KeyDocs /\ ServedFromDisk /\ Passwords /\ CopyTypes /\ Leases /\ Numbering /\ FirstCommits /\ LocalRow
=============================================================================
