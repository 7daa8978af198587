---------------------------- MODULE CopiesProofs ----------------------------
(***************************************************************************)
(* Two commits never share a peer and a counter (OpIdsUnique), and the     *)
(* rows, files and copies keep their shapes (TypeOK), for any accounts,    *)
(* documents, mirrors and starting points. The argument is CopiesInv, on   *)
(* top of the invariants of AccessProofs, HostProofs and KeysProofs: the   *)
(* counter of a commit is the number of commits its peer has in the copy   *)
(* it is made on, so the one that leases a peer must have them all.        *)
(***************************************************************************)
EXTENDS KeysProofs, PresenceProofs, CopiesInvariant, FunctionTheorems, WellFoundedInduction

-----------------------------------------------------------------------------
(* Numbers *)

\* The commits of a peer that are numbered without a gap are as many.
LEMMA CountedIs ==
  ASSUME NEW S, NEW P, NEW k \in Nat, Counted(S, P, k)
  PROVE  Cardinality({o \in S : o.peer = P}) = k
<1> DEFINE T == PeerOps(S, P)
           f == [i \in 0 .. k - 1 |-> CHOOSE o \in T : o.n = i]
<1>1. \A i \in 0 .. k - 1 : f[i] \in T /\ f[i].n = i
  BY DEF Counted
<1>2. \A o \in T : o.n \in 0 .. k - 1 /\ f[o.n] = o
  BY <1>1 DEF Counted
<1> HIDE DEF f, T
<1>3. DOMAIN f = 0 .. k - 1 /\ f = [i \in 0 .. k - 1 |-> f[i]]
  BY DEF f
<1>4. f \in [0 .. k - 1 -> T]
  BY <1>1, <1>3
<1>5. \A a, b \in 0 .. k - 1 : f[a] = f[b] => a = b
  BY <1>1
<1>6. f \in Injection(0 .. k - 1, T) /\ f \in Surjection(0 .. k - 1, T)
  <2>1. \A o \in T : \E i \in 0 .. k - 1 : f[i] = o
    BY <1>2
  <2>2. f \in Injection(0 .. k - 1, T)
    BY <1>4, <1>5, Fun_IsInj
  <2>3. f \in Surjection(0 .. k - 1, T)
    BY <1>4, <2>1, Fun_IsSurj
  <2> QED
    BY <2>2, <2>3
<1>7. ExistsBijection(0 .. k - 1, T)
  BY <1>6 DEF ExistsBijection, Bijection
<1>8. IsFiniteSet(0 .. k - 1) /\ Cardinality(0 .. k - 1) = k
  <2>1. 0 \in Int /\ k - 1 \in Int
    OBVIOUS
  <2> QED
    BY <2>1, FS_Interval
<1> QED
  BY <1>7, <1>8, FS_Bijection DEF T, PeerOps

\* One more commit, with the next number.
LEMMA CountedNext ==
  ASSUME NEW S, NEW P, NEW k \in Nat, Counted(S, P, k), NEW o, o.peer = P, o.n = k
  PROVE  Counted(S \cup {o}, P, k + 1)
<1>1. PeerOps(S \cup {o}, P) = PeerOps(S, P) \cup {o}
  BY DEF PeerOps
<1>2. \A p \in PeerOps(S, P) : p.n \in 0 .. k - 1
  BY DEF Counted
<1>3. \A p \in PeerOps(S, P) \cup {o} : p.n \in 0 .. k
  BY <1>2
<1>4. \A i \in 0 .. k : \E p \in PeerOps(S, P) \cup {o} : p.n = i
  <2> TAKE i \in 0 .. k
  <2>1. CASE i = k
    BY <2>1
  <2>2. CASE i # k
    <3>1. i \in 0 .. k - 1
      BY <2>2
    <3> QED
      BY <3>1 DEF Counted
  <2> QED
    BY <2>1, <2>2
<1>5. \A p, q \in PeerOps(S, P) \cup {o} : p.n = q.n => p = q
  BY <1>2 DEF Counted
<1>6. 0 .. (k + 1) - 1 = 0 .. k
  OBVIOUS
<1> QED
  BY <1>1, <1>3, <1>4, <1>5, <1>6, Zenon DEF Counted

\* Only the commits of the peer count.
LEMMA CountedSame ==
  ASSUME NEW S, NEW T, NEW P, PeerOps(S, P) = PeerOps(T, P)
  PROVE  /\ \A k : Counted(S, P, k) <=> Counted(T, P, k)
         /\ Numbered(S, P) <=> Numbered(T, P)
BY DEF Counted, Numbered

\* A copy without commits, and one with the first commit of a peer.
LEMMA CountedFirst ==
  ASSUME NEW P
  PROVE  /\ Numbered({}, P)
         /\ \A o : o.n = 0 => Numbered({o}, P)
<1>1. Counted({}, P, 0)
  BY DEF Counted, PeerOps
<1>2. ASSUME NEW o, o.n = 0 PROVE Numbered({o}, P)
  <2>1. CASE o.peer = P
    <3>1. Counted({} \cup {o}, P, 0 + 1)
      BY <1>1, <1>2, <2>1, CountedNext
    <3> QED
      BY <3>1 DEF Numbered
  <2>2. CASE o.peer # P
    <3>1. PeerOps({o}, P) = PeerOps({}, P)
      BY <2>2 DEF PeerOps
    <3> QED
      BY <1>1, <3>1, CountedSame DEF Numbered
  <2> QED
    BY <2>1, <2>2
<1> QED
  BY <1>1, <1>2 DEF Numbered

-----------------------------------------------------------------------------
(* Leases *)

\* Among the numbers of a set one is the least.
LEMMA Least ==
  ASSUME NEW T \in SUBSET Nat, T # {}
  PROVE  \E x \in T : \A y \in T : x <= y
<1>1. PICK x \in T : \A y \in T : ~(<<y, x>> \in OpToRel(<, Nat))
  BY NatLessThanWellFounded, WFMin
<1>2. ASSUME NEW y \in T PROVE x <= y
  <2>1. ASSUME y < x PROVE <<y, x>> \in OpToRel(<, Nat)
    <3>1. <<y, x>> \in Nat \X Nat /\ <<y, x>>[1] < <<y, x>>[2]
      BY <2>1
    <3> QED
      BY <3>1, Zenon DEF OpToRel
  <2>2. ~(y < x)
    BY <1>1, <2>1, Zenon
  <2>3. x \in Nat /\ y \in Nat
    OBVIOUS
  <2> QED
    BY <2>2, <2>3, SMT
<1> QED
  BY <1>2

\* The slots that are leased are finitely many.
LEMMA LeasedFinite == IsFiniteSet(Leased)
<1> DEFINE R == {r \in Sub : mirrors[r].state = "live"}
           f == [s \in R |-> mirrors[s].slot]
           I == {mirrors[s].slot : s \in R}
           H == IF host.state = "serving" THEN {host.slot} ELSE {}
<1>1. IsFiniteSet(R)
  BY SubAssumption, FS_Subset
<1>2. f \in Surjection(R, I)
  BY Fun_IsSurj
<1>3. IsFiniteSet(I)
  BY <1>1, <1>2, FS_Surjection
<1>4. IsFiniteSet(H)
  BY FS_EmptySet, FS_Singleton
<1>5. Leased = H \cup I
  BY DEF Leased
<1> HIDE DEF H, I
<1> QED
  BY <1>3, <1>4, <1>5, FS_Union

\* peer::claim: there is a slot that nobody has, and it is the one taken.
LEMMA FreeSlotIs == FreeSlot \in Nat /\ FreeSlot \notin Leased
<1> DEFINE C == Cardinality(Leased)
           T == {n \in 0 .. C : n \notin Leased}
<1>1. C \in Nat
  BY LeasedFinite, FS_CardinalityType
<1>2. T # {}
  <2> SUFFICES ASSUME 0 .. C \subseteq Leased PROVE FALSE
    OBVIOUS
  <2>1. Cardinality(0 .. C) <= C
    BY LeasedFinite, FS_Subset
  <2>2. Cardinality(0 .. C) = C - 0 + 1
    BY <1>1, FS_Interval
  <2> QED
    BY <1>1, <2>1, <2>2
<1>3. PICK x \in T : \A y \in T : x <= y
  <2>1. T \in SUBSET Nat
    BY <1>1
  <2> HIDE DEF T
  <2> QED
    BY <1>2, <2>1, Least
<1>4. 0 .. (x - 1) \subseteq Leased
  BY <1>1, <1>3
<1>5. x \in 0 .. C /\ x \notin Leased /\ 0 .. (x - 1) \subseteq Leased
  BY <1>3, <1>4
<1>6. FreeSlot \in 0 .. C /\ FreeSlot \notin Leased
  BY <1>5 DEF FreeSlot
<1> QED
  BY <1>1, <1>6

-----------------------------------------------------------------------------
(* Commits *)

Commits == [peer : SoFar, n : Nat, tag : Nat]

\* Copies that are put together are copies.
LEMMA CopiesAre ==
  /\ IsCopy({})
  /\ \A S, T : IsCopy(S) /\ IsCopy(T) => IsCopy(S \cup T)
  /\ \A o \in Commits : IsCopy({o})
  /\ \A S : IsCopy(S) => S \subseteq Commits
BY FS_EmptySet, FS_Singleton, FS_Union DEF IsCopy, Commits

\* While the table of peers is the same, the peers are.
LEMMA PeersStay ==
  ASSUME gen' = gen
  PROVE  Mine' = Mine /\ SoFar' = SoFar /\ \A S : IsCopy(S) => IsCopy(S)'
BY DEF Mine, SoFar, IsCopy

\* The peers of an installation are its own.
LEMMA PeersAre ==
  ASSUME gen \in Nat
  PROVE  /\ \A n \in Nat : PeerOf(n) \in Mine /\ PeerOf(n) \in SoFar
         /\ \A n, k \in Nat : PeerOf(n) = PeerOf(k) => n = k
         /\ RemotePeer \notin Mine /\ RemotePeer \in SoFar
         /\ Mine \subseteq AnyPeer /\ SoFar \subseteq AnyPeer /\ Mine \subseteq SoFar
BY DEF PeerOf, Mine, SoFar, RemotePeer, AnyPeer

\* A commit is one of its peer, with the number of those before.
LEMMA MintedIs ==
  ASSUME minted \in Nat, NEW S, IsFiniteSet(S), NEW P \in SoFar
  PROVE  /\ Minted(P, S) \in Commits
         /\ Minted(P, S).peer = P
         /\ Minted(P, S).n = Cardinality({o \in S : o.peer = P})
         /\ S = {} => Minted(P, S).n = 0
<1>1. IsFiniteSet({o \in S : o.peer = P})
  BY FS_Subset
<1>2. Cardinality({o \in S : o.peer = P}) \in Nat
  BY <1>1, FS_CardinalityType
<1>3. S = {} => Cardinality({o \in S : o.peer = P}) = 0
  <2>1. S = {} => {o \in S : o.peer = P} = {}
    OBVIOUS
  <2> QED
    BY <2>1, FS_EmptySet
<1> QED
  BY <1>2, <1>3 DEF Minted, Commits

-----------------------------------------------------------------------------
(* What a step does to a document *)

\* A mirror that the step leaves alone, but for what it is sent, while the
\* copy gets nothing of its peer.
LEMMA MirrorGoesOn ==
  ASSUME NEW s \in Sub, NEW d \in Doc, MirrorNumbered(mirrors[s], d), gen' = gen,
         mirrors'[s].has = mirrors[s].has, mirrors'[s].up = mirrors[s].up,
         mirrors'[s].peer = mirrors[s].peer, mirrors'[s].behind = mirrors[s].behind,
         mirrors'[s].down \subseteq mirrors[s].down \cup BootDoc(d)',
         BootDoc(d) \subseteq BootDoc(d)',
         Whole(d) => /\ Whole(d)'
                     /\ PeerOps(BootDoc(d)', mirrors[s].peer) = PeerOps(BootDoc(d), mirrors[s].peer)
  PROVE  MirrorNumbered(mirrors[s], d)'
<1> DEFINE m == mirrors[s]
           B == BootDoc(d)
<1>1. m'.has \cup m'.down \subseteq B' \cup {m'.up[i] : i \in DOMAIN m'.up}
  BY DEF MirrorNumbered
<1>2. /\ \A i \in DOMAIN m'.up : m'.up[i].peer = m'.peer
      /\ m'.behind => m'.up = <<>>
  BY DEF MirrorNumbered
<1>3. ASSUME ~m'.behind
      PROVE  /\ Whole(d)'
             /\ PeerOps(B', m'.peer) \subseteq m'.has
             /\ \E k \in Nat : /\ Counted(B', m'.peer, k)
                               /\ Counted(m'.has, m'.peer, k + Len(m'.up))
                               /\ \A i \in DOMAIN m'.up : m'.up[i].n = k + i - 1
  <2>1. /\ Whole(d)
        /\ PeerOps(B, m.peer) \subseteq m.has
    BY <1>3 DEF MirrorNumbered
  <2>2. PICK k \in Nat : /\ Counted(B, m.peer, k)
                         /\ Counted(m.has, m.peer, k + Len(m.up))
                         /\ \A i \in DOMAIN m.up : m.up[i].n = k + i - 1
    BY <1>3 DEF MirrorNumbered
  <2>3. Counted(B', m.peer, k)
    BY <2>1, <2>2, CountedSame
  <2> QED
    BY <2>1, <2>2, <2>3
<1> QED
  BY <1>1, <1>2, <1>3 DEF MirrorNumbered, Counted, PeerOps

\* No exception is taken back.
LEMMA StillSound ==
  ASSUME lapses \subseteq lapses', NEW d, ~Damaged(d)'
  PROVE  ~Damaged(d) /\ ~Cleared(d) /\ ~Cleared(d)'
BY DEF Damaged, Cleared

\* A mirror that goes on with d: what it has and sends stays, and what it is
\* sent comes from the copy.
Follows(s, d) ==
  /\ LiveOn(s, d)
  /\ mirrors'[s].has = mirrors[s].has /\ mirrors'[s].up = mirrors[s].up
  /\ mirrors'[s].peer = mirrors[s].peer /\ mirrors'[s].behind = mirrors[s].behind
  /\ mirrors'[s].slot = mirrors[s].slot
  /\ mirrors'[s].down \subseteq mirrors[s].down \cup BootDoc(d)

\* Nothing of the document changes, or some of it goes to the server.
LEMMA DocStays ==
  ASSUME NEW d \in Doc, NumberedAt(d), gen' = gen, lapses \subseteq lapses',
         d \in emptied => d \in emptied',
         ~Damaged(d)' =>
           /\ BootDoc(d)' = BootDoc(d)
           /\ seen'[d] \subseteq seen[d] \cup BootDoc(d)
           /\ store'[d] = store[d] \/ store'[d] = store[d] \cup BootDoc(d)
           /\ \A s \in Sub : LiveOn(s, d)' => Follows(s, d)
  PROVE  NumberedAt(d)'
<1> SUFFICES ASSUME ~Damaged(d)'
             PROVE  CopyNumbered(d)' /\ \A s \in Sub : LiveOn(s, d)' => MirrorNumbered(mirrors[s], d)'
  BY DEF NumberedAt
<1>1. /\ CopyNumbered(d)
      /\ \A s \in Sub : LiveOn(s, d) => MirrorNumbered(mirrors[s], d)
  BY StillSound DEF NumberedAt
<1>2. Mine' = Mine
  BY PeersStay
<1>3. Whole(d) => Whole(d)'
  BY <1>2 DEF Whole, PeerOps
<1>4. ASSUME NEW P \in AnyPeer PROVE Numbered(store'[d], P)
  <2>1. CASE store'[d] = store[d]
    BY <1>1, <2>1 DEF CopyNumbered
  <2>2. CASE store'[d] = store[d] \cup BootDoc(d)
    <3>1. CASE P \in Mine /\ Whole(d)
      <4>1. PeerOps(store'[d], P) = PeerOps(BootDoc(d), P)
        BY <2>2, <3>1 DEF Whole, PeerOps
      <4> QED
        BY <1>1, <3>1, <4>1, CountedSame DEF CopyNumbered
    <3>2. CASE P \notin Mine
      <4>1. PeerOps(store'[d], P) = PeerOps(store[d], P)
        BY <1>1, <2>2, <3>2 DEF CopyNumbered, PeerOps
      <4> QED
        BY <1>1, <4>1, CountedSame DEF CopyNumbered
    <3>3. CASE ~Whole(d)
      <4>1. PeerOps(store'[d], P) = PeerOps(store[d], P)
        BY <1>1, <2>2, <3>3 DEF CopyNumbered, PeerOps
      <4> QED
        BY <1>1, <4>1, CountedSame DEF CopyNumbered
    <3> QED
      BY <3>1, <3>2, <3>3
  <2> QED
    BY <2>1, <2>2
<1>5. \A o \in BootDoc(d)' : o.peer \in Mine \/ o \in store'[d]
  BY <1>1 DEF CopyNumbered
<1>6. \A P \in Mine : Numbered(BootDoc(d)', P)
  BY <1>1 DEF CopyNumbered
<1>7. Whole(d)' \/ (d \in emptied' /\ BootDoc(d)' = {})
  BY <1>1, <1>3 DEF CopyNumbered
<1>8. AnyPeer' = AnyPeer
  BY DEF AnyPeer, RemotePeer
<1>9. CopyNumbered(d)'
  <2>1. seen'[d] \subseteq BootDoc(d)'
    BY <1>1 DEF CopyNumbered
  <2> QED
    BY <1>2, <1>4, <1>5, <1>6, <1>7, <1>8, <2>1 DEF CopyNumbered, Numbered, Counted, PeerOps
<1>10. ASSUME NEW s \in Sub, LiveOn(s, d)' PROVE MirrorNumbered(mirrors[s], d)'
  BY <1>1, <1>3, <1>10, MirrorGoesOn DEF Follows
<1> QED
  BY <1>9, <1>10

\* A copy starts over, empty or with a first commit. Nobody has it open.
LEMMA DocBegins ==
  ASSUME NEW d \in Doc, NumberedAt(d), gen' = gen, lapses \subseteq lapses', store'[d] = store[d],
         ~Damaged(d)' =>
           /\ \A s \in Sub : ~LiveOn(s, d)'
           /\ seen'[d] = {}
           /\ \/ BootDoc(d)' = {} /\ d \in emptied'
              \/ \E o : o.n = 0 /\ o.peer \in Mine /\ BootDoc(d)' = {o} /\ Unpushed(d)
  PROVE  NumberedAt(d)'
<1> SUFFICES ASSUME ~Damaged(d)'
             PROVE  CopyNumbered(d)'
  BY DEF NumberedAt
<1>1. CopyNumbered(d)
  BY StillSound DEF NumberedAt
<1>2. Mine' = Mine /\ AnyPeer' = AnyPeer
  BY PeersStay DEF AnyPeer, RemotePeer
<1>3. \A P \in Mine : Numbered(BootDoc(d)', P)
  BY CountedFirst
<1>4. \A P \in AnyPeer : Numbered(store[d], P)
  BY <1>1 DEF CopyNumbered
<1>5. Whole(d)' \/ (d \in emptied' /\ BootDoc(d)' = {})
  BY <1>2 DEF Whole, Unpushed, PeerOps
<1>6. \A o \in BootDoc(d)' : o.peer \in Mine \/ o \in store[d]
  OBVIOUS
<1> QED
  BY <1>2, <1>3, <1>4, <1>5, <1>6 DEF CopyNumbered, Numbered, Counted, PeerOps

\* A commit of P is added to the copy, with the next number. A mirror under
\* another peer goes on.
LEMMA DocCommits ==
  ASSUME NEW d \in Doc, NumberedAt(d), gen' = gen, lapses \subseteq lapses', store'[d] = store[d],
         seen'[d] = seen[d], NEW o, o.peer \in Mine,
         ~Damaged(d)' => BootDoc(d)' = BootDoc(d) \cup {o},
         ~Damaged(d)' => Whole(d) /\ \E k \in Nat : Counted(BootDoc(d), o.peer, k) /\ o.n = k,
         ~Damaged(d)' => \A s \in Sub : LiveOn(s, d)' =>
                         \/ Follows(s, d) /\ mirrors[s].peer # o.peer
                         \/ MirrorNumbered(mirrors[s], d)'
  PROVE  NumberedAt(d)'
<1> SUFFICES ASSUME ~Damaged(d)'
             PROVE  CopyNumbered(d)' /\ \A s \in Sub : LiveOn(s, d)' => MirrorNumbered(mirrors[s], d)'
  BY DEF NumberedAt
<1>1. /\ CopyNumbered(d) /\ Whole(d)
      /\ \A s \in Sub : LiveOn(s, d) => MirrorNumbered(mirrors[s], d)
  BY StillSound DEF NumberedAt
<1>2. Mine' = Mine /\ AnyPeer' = AnyPeer
  BY PeersStay DEF AnyPeer, RemotePeer
<1>3. Whole(d)'
  BY <1>1, <1>2 DEF Whole, PeerOps
<1>4. \A P : P # o.peer => PeerOps(BootDoc(d)', P) = PeerOps(BootDoc(d), P)
  BY DEF PeerOps
<1>5. ASSUME NEW P \in Mine PROVE Numbered(BootDoc(d)', P)
  <2>1. CASE P = o.peer
    <3>1. PICK k \in Nat : Counted(BootDoc(d), P, k) /\ o.n = k
      BY <2>1
    <3>2. Counted(BootDoc(d)', P, k + 1)
      BY <2>1, <3>1, CountedNext
    <3> QED
      BY <3>2 DEF Numbered
  <2>2. CASE P # o.peer
    BY <1>1, <1>4, <2>2, CountedSame DEF CopyNumbered
  <2> QED
    BY <2>1, <2>2
<1>6. \A p \in BootDoc(d)' : p.peer \in Mine \/ p \in store[d]
  BY <1>1 DEF CopyNumbered
<1>7. \A P \in AnyPeer : Numbered(store[d], P)
  BY <1>1 DEF CopyNumbered
<1>8. CopyNumbered(d)'
  <2>1. seen'[d] \subseteq BootDoc(d)'
    BY <1>1 DEF CopyNumbered
  <2> QED
    BY <1>2, <1>3, <1>5, <1>6, <1>7, <2>1 DEF CopyNumbered, Numbered, Counted, PeerOps
<1>9. ASSUME NEW s \in Sub, LiveOn(s, d)', Follows(s, d), mirrors[s].peer # o.peer
      PROVE  MirrorNumbered(mirrors[s], d)'
  BY <1>1, <1>3, <1>4, <1>9, MirrorGoesOn DEF Follows
<1> QED
  BY <1>8, <1>9

\* What the server has joins the copy.
LEMMA DocMerges ==
  ASSUME NEW d \in Doc, NumberedAt(d), gen \in Nat, gen' = gen, lapses \subseteq lapses', store'[d] = store[d],
         seen'[d] = store[d], ~Damaged(d)' => BootDoc(d)' = BootDoc(d) \cup store[d],
         \A s \in Sub : LiveOn(s, d)' => Follows(s, d) /\ mirrors[s].peer \in Mine
  PROVE  NumberedAt(d)'
<1> SUFFICES ASSUME ~Damaged(d)'
             PROVE  CopyNumbered(d)' /\ \A s \in Sub : LiveOn(s, d)' => MirrorNumbered(mirrors[s], d)'
  BY DEF NumberedAt
<1>1. /\ CopyNumbered(d)
      /\ \A s \in Sub : LiveOn(s, d) => MirrorNumbered(mirrors[s], d)
  BY StillSound DEF NumberedAt
<1>2. Mine' = Mine /\ AnyPeer' = AnyPeer
  BY PeersStay DEF AnyPeer, RemotePeer
<1>3. Whole(d)'
  BY <1>2 DEF Whole, PeerOps
<1>4. Whole(d) => \A P \in Mine : PeerOps(BootDoc(d)', P) = PeerOps(BootDoc(d), P)
  BY DEF Whole, PeerOps
<1>5. ASSUME NEW P \in Mine PROVE Numbered(BootDoc(d)', P)
  <2>1. CASE Whole(d)
    BY <1>1, <1>4, <2>1, CountedSame DEF CopyNumbered
  <2>2. CASE ~Whole(d)
    <3>1. BootDoc(d)' = store[d] /\ P \in AnyPeer
      BY <1>1, <2>2 DEF CopyNumbered, AnyPeer, Mine
    <3> QED
      BY <1>1, <3>1 DEF CopyNumbered
  <2> QED
    BY <2>1, <2>2
<1>6. \A p \in BootDoc(d)' : p.peer \in Mine \/ p \in store[d]
  BY <1>1 DEF CopyNumbered
<1>7. \A P \in AnyPeer : Numbered(store[d], P)
  BY <1>1 DEF CopyNumbered
<1>8. CopyNumbered(d)'
  <2>1. seen'[d] \subseteq BootDoc(d)'
    BY <1>1 DEF CopyNumbered
  <2> QED
    BY <1>2, <1>3, <1>5, <1>6, <1>7, <2>1 DEF CopyNumbered, Numbered, Counted, PeerOps
<1>9. ASSUME NEW s \in Sub, LiveOn(s, d)' PROVE MirrorNumbered(mirrors[s], d)'
  BY <1>1, <1>3, <1>4, <1>9, MirrorGoesOn DEF Follows
<1> QED
  BY <1>8, <1>9

-----------------------------------------------------------------------------
(* What a step that leaves a part alone keeps *)

\* No mirror is new or changes what it has.
FewerMirrors == \A s \in Sub : mirrors'[s].state = "live" => mirrors'[s] = mirrors[s]

\* Copies and mirrors are left alone.
LEMMA NumbersStay ==
  ASSUME CopyTypes, Numbering, UNCHANGED <<gen, disk, seen, emptied, store, minted>>, FewerMirrors,
         lapses \subseteq lapses', \A d \in DOMAIN host'.mem : IsCopy(host'.mem[d])
  PROVE  CopyTypes' /\ Numbering'
<1>1. CopyTypes'
  BY PeersStay DEF CopyTypes, FewerMirrors
<1>2. ASSUME NEW d \in Doc PROVE NumberedAt(d)'
  <2>1. BootDoc(d)' = BootDoc(d)
    BY DEF BootDoc
  <2>2. \A s \in Sub : LiveOn(s, d)' => Follows(s, d)
    BY DEF LiveOn, Follows, FewerMirrors
  <2> QED
    BY <2>1, <2>2, DocStays DEF Numbering
<1> QED
  BY <1>1, <1>2 DEF Numbering

\* Copies, leases and mirrors are left alone.
LEMMA CopiesStay ==
  ASSUME CopyTypes, Leases, Numbering, UNCHANGED <<gen, disk, seen, emptied, store, minted>>,
         FewerMirrors, lapses \subseteq lapses', host'.mem = host.mem,
         host'.state = "serving" => host.state = "serving" /\ host'.slot = host.slot
  PROVE  CopyTypes' /\ Leases' /\ Numbering'
<1>1. Leases'
  BY DEF Leases, PeerOf, FewerMirrors
<1>2. \A d \in DOMAIN host'.mem : IsCopy(host'.mem[d])
  BY DEF CopyTypes
<1> QED
  BY <1>1, <1>2, NumbersStay

\* No lease is new.
LEMMA LeasesStay ==
  ASSUME Leases, gen' = gen,
         host'.state = "serving" => host.state = "serving" /\ host'.slot = host.slot,
         \A s \in Sub : mirrors'[s].state = "live" =>
           /\ mirrors[s].state = "live"
           /\ mirrors'[s].slot = mirrors[s].slot /\ mirrors'[s].peer = mirrors[s].peer
  PROVE  Leases'
BY DEF Leases, PeerOf

\* No key, and no document with one, is added.
LEMMA KeyDocsStay ==
  ASSUME KeyDocs, secrets'.keys \subseteq secrets.keys, cmd' = cmd, host'.held \subseteq host.held,
         DOMAIN host'.mem \subseteq DOMAIN host.mem, DOMAIN disk' \subseteq DOMAIN disk
  PROVE  KeyDocs'
BY DEF KeyDocs

\* The host serves what it did, and asks no more.
LEMMA ServedStays ==
  ASSUME ServedFromDisk, UNCHANGED disk, lapses \subseteq lapses', host'.state = host.state, host'.mem = host.mem,
         DOMAIN host'.engine = DOMAIN host.mem, host'.asking \subseteq DOMAIN host.mem,
         host'.state = "serving" \/ host'.todo = None
  PROVE  ServedFromDisk'
BY DEF ServedFromDisk, BootDoc, Cleared

\* Requests go on, and no account gets another password.
LEMMA PasswordsStay ==
  ASSUME Passwords, AllGo, UNCHANGED <<accounts, cmd>>
  PROVE  Passwords'
BY DEF Passwords, AllGo, Goes

\* What the host does not serve is not fetched.
SeenStays == \A d \in Doc \ DOMAIN host.mem : seen[d] = {} => seen'[d] = {}

\* Nothing goes to the server, no document is taken in hand, and the host has
\* no more than it had.
LEMMA FirstStay ==
  ASSUME FirstCommits, UNCHANGED <<gen, store>>, SeenStays, born \subseteq born',
         DOMAIN host'.mem \subseteq DOMAIN host.mem,
         \A d \in Doc : InHand(d)' => InHand(d) /\ (HostHas(d)' => HostHas(d)),
         host'.todo \in {"create", "delete"} =>
           /\ host'.todo = host.todo /\ DOMAIN host'.mem = DOMAIN host.mem
           /\ calls'[HostClient].doc = calls[HostClient].doc
  PROVE  FirstCommits'
<1>1. \A d \in Doc \ DOMAIN host.mem : Unpushed(d) => Unpushed(d)'
  BY PeersStay DEF Unpushed, SeenStays
<1>2. \A d \in Doc : (d \in DOMAIN host'.mem => d \in born') /\ (d \notin born' => Unpushed(d)')
  BY <1>1 DEF FirstCommits
<1>3. \A d \in Doc : InHand(d)' => Unpushed(d)' /\ ~HostHas(d)'
  BY <1>1 DEF FirstCommits, HostHas
<1>4. ASSUME host'.todo = "create", calls'[HostClient].doc \in Doc
      PROVE  Unpushed(calls[HostClient].doc)' /\ calls'[HostClient].doc \notin DOMAIN host'.mem
  <2>0. PICK d : d = calls[HostClient].doc
    OBVIOUS
  <2>1. d \in Doc /\ Unpushed(d) /\ d \notin DOMAIN host.mem
    BY <1>4, <2>0 DEF FirstCommits
  <2>2. Unpushed(d)' /\ d = calls'[HostClient].doc
    BY <1>1, <1>4, <2>0, <2>1
  <2> QED
    BY <1>4, <2>1, <2>2 DEF Unpushed
<1>5. host'.todo = "delete" => calls'[HostClient].doc \in DOMAIN host'.mem
  BY DEF FirstCommits
<1> QED
  BY <1>2, <1>3, <1>4, <1>5 DEF FirstCommits

\* The profile's row and its token are left alone, and nothing goes to the
\* server.
LEMMA LocalStays ==
  ASSUME LocalRow, UNCHANGED <<gen, store, row>>, secrets'.token = secrets.token,
         row # NoFile /\ row.account = None /\ row.primary \in Doc =>
           (seen[row.primary] = {} => seen'[row.primary] = {}),
         cmd'.op \in Joining => cmd'.account # None,
         cmd'.at = "secrets" => cmd'.at = cmd.at /\ cmd'.account = cmd.account,
         cmd'.op = "signup" /\ cmd'.at = "seed" => cmd'.adopt = 0,
         host'.ws => host'.token # 0,
         \A d \in DOMAIN host'.mem : host'.engine[d] = "idle" => host'.ws
  PROVE  LocalRow'
<1>0. PICK d : d = row.primary
  OBVIOUS
<1>1. row # NoFile /\ row.account = None /\ d \in Doc /\ Unpushed(d) => Unpushed(row.primary)'
  BY <1>0, PeersStay DEF Unpushed
<1> QED
  BY <1>0, <1>1 DEF LocalRow

\* The host's request, where it matters.
LEMMA HostDoc ==
  ASSUME HostInv, KeysInv, ServedFromDisk, AllGo, host.todo \in {"create", "delete"}
  PROVE  calls'[HostClient].doc = calls[HostClient].doc
<1>1. calls[HostClient].op \in {"createDoc", "deleteDoc"}
  BY DEF ServedFromDisk, HostInv, Waiting, KeysInv, HostKeyed, None
<1> QED
  BY <1>1, ClientsAssumption DEF AllGo, Goes

\* The rest of the invariant, for a step that leaves the installation alone.
LEMMA ElsewhereStays ==
  ASSUME CopiesInv, Passwords', UNCHANGED localVars, born \subseteq born',
         host.todo \in {"create", "delete"} => calls'[HostClient].doc = calls[HostClient].doc
  PROVE  CopiesInv'
<1>1. /\ UNCHANGED <<lock, secrets, row, disk, gen, host, mirrors, store, minted, emptied, lapses, cmd>>
      /\ UNCHANGED seen
  BY DEF localVars
<1>2. CopyTypes' /\ Leases' /\ Numbering'
  BY <1>1, CopiesStay DEF CopiesInv, FewerMirrors
<1>3. KeyDocs' /\ ServedFromDisk'
  BY <1>1 DEF CopiesInv, KeyDocs, ServedFromDisk, BootDoc, Cleared
<1>4. LocalRow'
  BY <1>1, LocalStays DEF CopiesInv, LocalRow
<1>5. ASSUME NEW d \in Doc, InHand(d)' PROVE InHand(d) /\ (HostHas(d)' => HostHas(d))
  BY <1>1, <1>5 DEF InHand, HostHas
<1>6. FirstCommits'
  BY <1>1, <1>5, FirstStay DEF CopiesInv, SeenStays
<1> QED
  BY <1>2, <1>3, <1>4, <1>6 DEF CopiesInv

-----------------------------------------------------------------------------
(* The server and its other clients *)

\* A password is set to what a request names.
LEMMA RoutePasswords ==
  ASSUME AccessInv, Passwords, NEW c \in Client, Route(c)
  PROVE  \A a \in DOMAIN accounts' : accounts'[a].password \in Password
<1> DEFINE q == calls[c]
<1>0. accounts = [a \in DOMAIN accounts |-> accounts[a]]
      /\ \A a \in DOMAIN accounts : DOMAIN accounts[a] = {"primary", "password"}
  BY DEF AccessInv, Tables, AccountRows
<1>1. CASE Signup(c)
  <2>1. q.password \in Password
    BY <1>1 DEF Signup, At, Passwords
  <2>2. CASE UNCHANGED accounts
    BY <2>2 DEF Passwords
  <2>3. CASE accounts' = Put(accounts, q.account, [primary |-> q.doc, password |-> q.password])
    BY <2>1, <2>3 DEF Put, Passwords
  <2> QED
    BY <1>1, <2>2, <2>3 DEF Signup, Refuse, tables
<1>2. ASSUME NEW a, NEW p \in Password, SetPassword(a, p)
      PROVE  \A b \in DOMAIN accounts' : accounts'[b].password \in Password
  BY <1>0, <1>2 DEF SetPassword, Passwords
<1>3. CASE PasswordUpdate(c) \/ PasswordReset(c)
  <2>1. q.new \in Password
    BY <1>3 DEF PasswordUpdate, PasswordReset, At, Passwords
  <2>2. CASE UNCHANGED accounts
    BY <2>2 DEF Passwords
  <2> QED
    BY <1>2, <1>3, <2>1, <2>2 DEF PasswordUpdate, PasswordReset, Refuse, tables
<1>4. CASE DeleteAccount(c)
  BY <1>4 DEF DeleteAccount, Drop, Passwords
<1>5. CASE UNCHANGED accounts
  BY <1>5 DEF Passwords
<1>6. CASE \/ Authenticate(c) \/ LoginVerify(c) \/ ListDocs(c) \/ RecoverVerify(c)
           \/ RecoverSession(c) \/ PasswordVerify(c) \/ RevokeDevice(c) \/ DeleteAccountVerify(c)
  <2>1. UNCHANGED accounts
    BY <1>6 DEF Authenticate, LoginVerify, ListDocs, RecoverVerify, RecoverSession, PasswordVerify,
                RevokeDevice, DeleteAccountVerify, Refuse, tables
  <2> QED
    BY <1>5, <2>1
<1>7. CASE \/ CreateDoc(c) \/ DeleteDoc(c) \/ CreateInvite(c) \/ RevokeInvite(c) \/ AcceptInvite(c)
           \/ RemoveMember(c) \/ LoginDevice(c) \/ ResetDevice(c)
  <2>1. UNCHANGED accounts
    BY <1>7 DEF CreateDoc, DeleteDoc, CreateInvite, RevokeInvite, AcceptInvite, RemoveMember,
                LoginDevice, ResetDevice, CreateDevice, Refuse, tables
  <2> QED
    BY <1>5, <2>1
<1> QED
  BY <1>1, <1>3, <1>4, <1>6, <1>7 DEF Route

\* The server's steps.
LEMMA ServerCopies ==
  ASSUME AccessInv, HostInv, KeysInv, CopiesInv, ServerStep
  PROVE  CopiesInv'
<1>1. AllGo /\ UNCHANGED localVars /\ born' = born /\ UNCHANGED cmd
  BY ServerGoes DEF ServerStep, localVars
<1>2. \A a \in DOMAIN accounts' : accounts'[a].password \in Password
  <2>1. CASE UNCHANGED accounts
    BY <2>1 DEF CopiesInv, Passwords
  <2> QED
    BY <2>1, RoutePasswords DEF ServerStep, Expire, CloseNext, tables, CopiesInv
<1>3. Passwords'
  BY <1>1, <1>2 DEF CopiesInv, Passwords, AllGo, Goes
<1> QED
  BY <1>1, <1>3, HostDoc, ElsewhereStays DEF CopiesInv

\* The steps of other clients.
LEMMA PeerCopies ==
  ASSUME AccessInv, HostInv, KeysInv, CopiesInv, PeerStep
  PROVE  CopiesInv'
<1>1. UNCHANGED localVars /\ born \subseteq born' /\ UNCHANGED <<cmd, accounts>>
  BY DEF PeerStep, localVars, tables, PeerSend, PeerCreateDoc, NewDoc
<1>2. ASSUME NEW c \in Client, NEW q, calls' = [calls EXCEPT ![c] = q], q.op # "signup",
             q.op \in {"password", "reset"} => q.new \in Password,
             c = HostClient => host.todo \notin {"create", "delete"}
      PROVE  CopiesInv'
  <2>1. \A x \in Client : calls'[x] = IF x = c THEN q ELSE calls[x]
    BY <1>2 DEF AccessInv, Requests
  <2>2. Passwords'
    BY <1>1, <1>2, <2>1 DEF CopiesInv, Passwords
  <2>3. host.todo \in {"create", "delete"} => calls'[HostClient].doc = calls[HostClient].doc
    BY <1>2, <2>1, ClientsAssumption
  <2> QED
    BY <1>1, <2>2, <2>3, ElsewhereStays
<1>3. ASSUME NEW c \in Peers, PeerSend(c) PROVE CopiesInv'
  <2>1. PICK q \in Asks : calls' = [calls EXCEPT ![c] = q]
    BY <1>3 DEF PeerSend, Send
  <2> QED
    BY <1>2, <2>1, AsksKeyed DEF Peers
<1>4. ASSUME NEW c \in Peers, NEW d \in Doc, PeerCreateDoc(c, d) PROVE CopiesInv'
  <2>1. PICK t \in Tokens :
          calls' = [calls EXCEPT ![c] = [Authed("createDoc", t) EXCEPT !.doc = d, !.home = HomeOf(t)]]
    BY <1>4 DEF PeerCreateDoc, Send
  <2> DEFINE q == [Authed("createDoc", t) EXCEPT !.doc = d, !.home = HomeOf(t)]
  <2>2. q.op = "createDoc"
    BY DEF Authed, Request, Idle
  <2> HIDE DEF q
  <2> QED
    BY <1>2, <2>1, <2>2 DEF Peers, q
<1>5. ASSUME NEW c \in Client, DropReply(c) PROVE CopiesInv'
  <2>1. Idle.op = None
    BY DEF Idle
  <2> QED
    BY <1>2, <1>5, <2>1 DEF DropReply, Peers, None, HostClient, CmdClient
<1>6. ASSUME NEW c \in Client, LoseReply(c) PROVE CopiesInv'
  <2>1. Stays(c)
    BY <1>6, Fields DEF LoseReply, Stays, Idle
  <2>2. AllGo
    BY <2>1, StaysGoes
  <2> QED
    BY <1>1, <2>2, PasswordsStay, HostDoc, ElsewhereStays DEF CopiesInv
<1> QED
  BY <1>3, <1>4, <1>5, <1>6 DEF PeerStep

\* Sessions: the host asks for one document less, at most.
LEMMA SessionCopies ==
  ASSUME AccessInv, HostInv, KeysInv, CopiesInv, SessionStep
  PROVE  CopiesInv'
<1>1. /\ UNCHANGED <<accounts, calls, born, lock, secrets, row, disk, gen, mirrors, store, minted>>
      /\ UNCHANGED <<seen, emptied, lapses, cmd>>
      /\ host' = host \/ \E d : host' = [host EXCEPT !.asking = @ \ {d}]
      /\ DOMAIN host = DOMAIN Off
  BY DEF SessionStep, tables, HostInv, Shapes
<1>2. /\ host'.state = host.state /\ host'.slot = host.slot /\ host'.mem = host.mem
      /\ host'.engine = host.engine /\ host'.asking \subseteq host.asking /\ host'.todo = host.todo
      /\ host'.held = host.held /\ host'.ws = host.ws /\ host'.token = host.token
  BY <1>1 DEF Off
<1>3. CopyTypes' /\ Leases' /\ Numbering'
  BY <1>1, <1>2, CopiesStay DEF CopiesInv, FewerMirrors
<1>4. KeyDocs' /\ ServedFromDisk'
  BY <1>1, <1>2, KeyDocsStay, ServedStays DEF CopiesInv, ServedFromDisk
<1>5. Passwords'
  BY <1>1, NoRequest, PasswordsStay DEF CopiesInv
<1>6. LocalRow'
  BY <1>1, <1>2, LocalStays DEF CopiesInv, LocalRow
<1>7. ASSUME NEW d \in Doc, InHand(d)' PROVE InHand(d) /\ (HostHas(d)' => HostHas(d))
  BY <1>1, <1>2, <1>7 DEF InHand, HostHas
<1>8. FirstCommits'
  BY <1>1, <1>2, <1>7, FirstStay DEF CopiesInv, SeenStays
<1> QED
  BY <1>3, <1>4, <1>5, <1>6, <1>8 DEF CopiesInv

\* A device elsewhere commits under a peer of its own.
LEMMA RemoteCopies ==
  ASSUME AccessInv, HostInv, KeysInv, CopiesInv, NEW d \in Doc, RemotePush(d),
         UNCHANGED <<accounts, calls, host, mirrors, lapses, cmd, born>>, UNCHANGED profileVars
  PROVE  CopiesInv'
<1> DEFINE o == Minted(RemotePeer, store[d])
<1>1. /\ UNCHANGED <<secrets, row, disk, seen, gen, emptied>> /\ gen \in Nat /\ minted \in Nat
      /\ minted' = minted + 1 /\ store' = [store EXCEPT ![d] = @ \cup {o}]
      /\ store = [e \in Doc |-> store[e]] /\ IsCopy(store[d])
  BY DEF RemotePush, profileVars, CopiesInv, CopyTypes
<1>2. o \in Commits /\ o.peer = RemotePeer /\ o.n = Cardinality({p \in store[d] : p.peer = RemotePeer})
  BY <1>1, MintedIs, PeersAre DEF IsCopy
<1> HIDE DEF o
<1>3. /\ store' = [e \in Doc |-> store'[e]]
      /\ \A e \in Doc : store'[e] = IF e = d THEN store[d] \cup {o} ELSE store[e]
      /\ Mine' = Mine /\ RemotePeer \notin Mine /\ AnyPeer' = AnyPeer /\ Mine \subseteq AnyPeer
  BY <1>1, PeersStay, PeersAre DEF AnyPeer, RemotePeer
<1>4. CopyTypes'
  <2>1. \A e \in Doc : IsCopy(store'[e])
    BY <1>1, <1>2, <1>3, CopiesAre DEF CopiesInv, CopyTypes
  <2>2. \A e \in Doc : IsCopy(store[e])'
    BY <1>1, <2>1, PeersStay DEF IsCopy
  <2>3. gen' \in Nat /\ minted' \in Nat
    BY <1>1
  <2> QED
    BY <1>1, <1>3, <2>2, <2>3, PeersStay DEF CopiesInv, CopyTypes
<1>5. KeyDocs' /\ ServedFromDisk' /\ Leases' /\ Passwords'
  BY <1>1 DEF CopiesInv, KeyDocs, ServedFromDisk, BootDoc, Cleared, Leases, PeerOf, Passwords
<1>6. \A e \in Doc : Unpushed(e) => Unpushed(e)'
  BY <1>1, <1>2, <1>3 DEF Unpushed
<1>7. LocalRow'
  BY <1>1, <1>6 DEF CopiesInv, LocalRow
<1>8. FirstCommits'
  <2>1. \A e : InHand(e)' = InHand(e) /\ HostHas(e)' = HostHas(e)
    BY <1>1 DEF InHand, HostHas
  <2> QED
    BY <1>1, <1>6, <2>1 DEF CopiesInv, FirstCommits
<1>9. ASSUME NEW e \in Doc PROVE NumberedAt(e)'
  <2>1. NumberedAt(e) /\ BootDoc(e)' = BootDoc(e)
    BY <1>1 DEF CopiesInv, Numbering, BootDoc
  <2>2. \A s \in Sub : LiveOn(s, e)' => Follows(s, e)
    BY DEF LiveOn, Follows
  <2>3. CASE e # d
    BY <1>1, <1>3, <2>1, <2>2, <2>3, DocStays
  <2>4. CASE e = d
    <3> SUFFICES ASSUME ~Damaged(d)'
                 PROVE  CopyNumbered(d)' /\ \A s \in Sub : LiveOn(s, d)' => MirrorNumbered(mirrors[s], d)'
      BY <2>4 DEF NumberedAt
    <3>1. /\ CopyNumbered(d)
          /\ \A s \in Sub : LiveOn(s, d) => MirrorNumbered(mirrors[s], d)
      BY <2>1, <2>4, StillSound DEF NumberedAt
    <3>2. Whole(d) => Whole(d)'
      BY <1>1, <1>2, <1>3 DEF Whole, PeerOps, BootDoc
    <3>3. ASSUME NEW P \in AnyPeer PROVE Numbered(store'[d], P)
      <4>1. CASE P = RemotePeer
        <5>1. PICK k \in Nat : Counted(store[d], P, k)
          BY <3>1 DEF CopyNumbered, Numbered
        <5>2. o.n = k
          BY <1>2, <4>1, <5>1, CountedIs
        <5>3. Counted(store[d] \cup {o}, P, k + 1)
          BY <1>2, <4>1, <5>1, <5>2, CountedNext
        <5>4. store'[d] = store[d] \cup {o} /\ k + 1 \in Nat
          BY <1>3
        <5> QED
          BY <5>3, <5>4 DEF Numbered
      <4>2. CASE P # RemotePeer
        <5>1. PeerOps(store'[d], P) = PeerOps(store[d], P)
          BY <1>2, <1>3, <4>2 DEF PeerOps
        <5> QED
          BY <3>1, <5>1, CountedSame DEF CopyNumbered
      <4> QED
        BY <4>1, <4>2
    <3>4. \A P \in Mine : Numbered(BootDoc(d)', P)
      BY <2>1, <2>4, <3>1 DEF CopyNumbered
    <3>5. \A p \in BootDoc(d)' : p.peer \in Mine \/ p \in store'[d]
      BY <1>3, <2>1, <2>4, <3>1 DEF CopyNumbered
    <3>6. Whole(d)' \/ (d \in emptied' /\ BootDoc(d)' = {})
      BY <1>1, <2>1, <2>4, <3>1, <3>2 DEF CopyNumbered
    <3>7. CopyNumbered(d)'
      <4>1. seen'[d] \subseteq BootDoc(d)'
        BY <1>1, <2>1, <2>4, <3>1 DEF CopyNumbered
      <4> QED
        BY <1>3, <3>3, <3>4, <3>5, <3>6, <4>1 DEF CopyNumbered, Numbered, Counted, PeerOps
    <3>8. ASSUME NEW s \in Sub, LiveOn(s, d)' PROVE MirrorNumbered(mirrors[s], d)'
      BY <1>1, <2>1, <2>2, <2>4, <3>1, <3>2, <3>8, MirrorGoesOn DEF Follows
    <3> QED
      BY <3>7, <3>8
  <2> QED
    BY <2>3, <2>4
<1> QED
  BY <1>4, <1>5, <1>7, <1>8, <1>9 DEF CopiesInv, Numbering

-----------------------------------------------------------------------------
(* The host *)

\* A mirror is live only under a host that serves its document, and under a
\* peer that is leased to it.
LEMMA LiveIs ==
  ASSUME HostInv, KeyDocs, CopyTypes, Leases, NEW s \in Sub, mirrors[s].state = "live"
  PROVE  /\ host.state = "serving"
         /\ mirrors[s].doc \in DOMAIN host.mem /\ mirrors[s].doc \in Doc
         /\ mirrors[s].slot \in Nat /\ mirrors[s].peer = PeerOf(mirrors[s].slot)
         /\ mirrors[s].peer \in Mine /\ mirrors[s].peer # PeerOf(host.slot)
         /\ mirrors[s].up \in Seq(mirrors[s].has)
         /\ \A r \in Sub : mirrors[r].state = "live" /\ mirrors[r].peer = mirrors[s].peer => r = s
<1>1. host.state = "serving" /\ mirrors[s].doc \in DOMAIN host.mem
      /\ mirrors[s].up \in Seq(mirrors[s].has)
  BY DEF HostInv, Mirrored, MirrorOK
<1>2. /\ host.slot \in Nat
      /\ mirrors[s].slot \in Nat \ {host.slot} /\ mirrors[s].peer = PeerOf(mirrors[s].slot)
      /\ \A r \in Sub : mirrors[r].state = "live" =>
           /\ mirrors[r].slot \in Nat /\ mirrors[r].peer = PeerOf(mirrors[r].slot)
           /\ mirrors[r].slot = mirrors[s].slot => r = s
  BY <1>1 DEF Leases
<1>3. gen \in Nat
  BY DEF CopyTypes
<1> QED
  BY <1>1, <1>2, <1>3, PeersAre DEF KeyDocs

\* The documents whose keys there are were chosen.
LEMMA HostHasBorn ==
  ASSUME KeysInv, FirstCommits, ServedFromDisk, NEW d \in Doc, HostHas(d)
  PROVE  d \in born
<1>1. CASE d \in DOMAIN host.mem
  BY <1>1 DEF FirstCommits
<1>2. CASE d \in secrets.keys
  BY <1>2 DEF KeysInv, Chosen, Local, Held
<1>3. CASE host.todo = "create" /\ (d \in host.held \/ d = calls[HostClient].doc)
  <2>1. host.state = "serving" /\ calls[HostClient].op = "createDoc"
    BY <1>3 DEF ServedFromDisk, KeysInv, HostKeyed, None
  <2> QED
    BY <1>3, <2>1, ClientsAssumption DEF KeysInv, Chosen, Held, HeldBy
<1> QED
  BY <1>1, <1>2, <1>3 DEF HostHas

\* Every copy on disk is one, and so is one that is not there.
LEMMA BootCopy ==
  ASSUME CopyTypes, NEW d
  PROVE  IsCopy(BootDoc(d))
BY CopiesAre DEF CopyTypes, BootDoc

\* The end of a host: a copy that is not as it is on disk was cleared.
LEMMA StopCopies ==
  ASSUME HostInv, CopiesInv, StopHost, UNCHANGED lapses
  PROVE  CopyTypes' /\ Numbering' /\ DOMAIN disk' \subseteq Doc
<1>1. /\ UNCHANGED <<secrets, row, seen, gen, emptied, store, minted, lapses>>
      /\ host' = Off /\ mirrors' = Orphaned /\ DOMAIN host'.mem = {}
  BY DEF StopHost, Off
<1>2. \A s \in Sub : mirrors'[s].state # "live"
  <2> TAKE s \in Sub
  <2>1. DOMAIN mirrors[s] = DOMAIN NoMirror
    BY DEF HostInv, Shapes
  <2> QED
    BY <1>1, <2>1 DEF Orphaned, NoMirror
<1>3. PICK folded \in SUBSET {d \in DOMAIN host.mem : host.mem[d] # BootDoc(d)} :
        disk' = [d \in DOMAIN disk \cup folded |-> IF d \in folded THEN host.mem[d] ELSE disk[d]]
  BY DEF StopHost
<1>4. DOMAIN disk' = DOMAIN disk \cup folded /\ DOMAIN disk' \subseteq Doc
  BY <1>3 DEF CopiesInv, KeyDocs
<1>5. \A d \in folded : Cleared(d)
  BY DEF CopiesInv, ServedFromDisk
<1>6. \A d : ~Cleared(d) => BootDoc(d)' = BootDoc(d)
  BY <1>3, <1>4, <1>5 DEF BootDoc
<1>7. CopyTypes'
  <2>1. \A d \in DOMAIN disk' : IsCopy(disk'[d])
    BY <1>3, <1>4 DEF CopiesInv, CopyTypes
  <2>2. \A S : IsCopy(S) => IsCopy(S)'
    BY <1>1, PeersStay
  <2> QED
    BY <1>1, <1>2, <2>1, <2>2 DEF CopiesInv, CopyTypes
<1>8. ASSUME NEW d \in Doc PROVE NumberedAt(d)'
  <2>1. ~Damaged(d)' => BootDoc(d)' = BootDoc(d)
    BY <1>1, <1>6, StillSound
  <2>2. \A s \in Sub : ~LiveOn(s, d)'
    BY <1>2 DEF LiveOn
  <2> QED
    BY <1>1, <2>1, <2>2, DocStays DEF CopiesInv, Numbering
<1> QED
  BY <1>4, <1>7, <1>8 DEF Numbering

\* The host comes and goes.
LEMMA LifeCopies ==
  ASSUME AccessInv, HostInv, KeysInv, CopiesInv, LifeStep, UNCHANGED <<accounts, born, cmd>>
  PROVE  CopiesInv'
<1>1. UNCHANGED <<secrets, row, seen, gen, emptied, store, minted, calls, lapses>>
  BY DEF LifeStep, SpawnDaemon, StartApp, StartHost, BootHost, StopHost, profileVars
<1>2. StopHost \/ UNCHANGED <<disk, mirrors>>
  BY DEF LifeStep, SpawnDaemon, StartApp, StartHost, BootHost, profileVars
<1>3. ASSUME \A d \in DOMAIN host'.mem : IsCopy(host'.mem[d])
      PROVE  CopyTypes' /\ Numbering' /\ DOMAIN disk' \subseteq Doc
  <2>1. CASE UNCHANGED <<disk, mirrors>>
    BY <1>1, <1>3, <2>1, NumbersStay DEF CopiesInv, KeyDocs, FewerMirrors
  <2> QED
    BY <1>1, <1>2, <2>1, StopCopies
<1>4. Passwords'
  BY <1>1, NoRequest, PasswordsStay DEF CopiesInv
<1>5. /\ DOMAIN Off.mem = {} /\ Off.held = {} /\ Off.todo = None /\ DOMAIN Off.engine = {}
      /\ Off.asking = {} /\ Off.state = "off" /\ Off.ws = FALSE
  BY DEF Off
<1>6. CASE \/ host' = Off
           \/ \E who : host' = [Off EXCEPT !.state = "locked", !.who = who]
  <2>1. /\ DOMAIN host'.mem = {} /\ host'.held = {} /\ host'.todo = None /\ DOMAIN host'.engine = {}
        /\ host'.asking = {} /\ host'.state # "serving" /\ host'.ws = FALSE
    BY <1>5, <1>6 DEF Off
  <2>2. CopyTypes' /\ Numbering' /\ DOMAIN disk' \subseteq Doc
    BY <1>3, <2>1
  <2>3. KeyDocs' /\ ServedFromDisk' /\ Leases'
    BY <1>1, <2>1, <2>2 DEF CopiesInv, KeyDocs, ServedFromDisk, Leases
  <2>4. LocalRow'
    BY <1>1, <2>1, LocalStays DEF CopiesInv, LocalRow
  <2>5. ASSUME NEW d \in Doc, InHand(d)' PROVE InHand(d) /\ (HostHas(d)' => HostHas(d))
    BY <1>1, <2>1, <2>5 DEF InHand, HostHas, None
  <2>6. FirstCommits'
    BY <1>1, <2>1, <2>5, FirstStay DEF CopiesInv, SeenStays, None
  <2> QED
    BY <1>4, <2>2, <2>3, <2>4, <2>6 DEF CopiesInv
<1>7. CASE BootHost /\ HomeKey
  <2>1. /\ host.state = "locked" /\ mirrors' = mirrors
        /\ host' = [Off EXCEPT !.state = "serving", !.who = host.who, !.primary = row.primary,
                               !.token = secrets.token, !.slot = FreeSlot,
                               !.mem = [d \in secrets.keys |-> BootDoc(d)],
                               !.engine = [d \in secrets.keys |-> "off"]]
    BY <1>7 DEF BootHost
  <2>2. /\ DOMAIN host'.mem = secrets.keys /\ \A d \in secrets.keys : host'.mem[d] = BootDoc(d)
        /\ DOMAIN host'.engine = secrets.keys /\ \A d \in secrets.keys : host'.engine[d] = "off"
        /\ host'.slot = FreeSlot /\ host'.state = "serving"
        /\ host'.held = {} /\ host'.asking = {} /\ host'.todo = None /\ host'.ws = FALSE
    BY <2>1 DEF Off
  <2>3. \A s \in Sub : mirrors[s].state # "live"
    BY <2>1, LiveIs DEF CopiesInv
  <2>4. UNCHANGED disk
    BY <1>7 DEF BootHost, profileVars
  <2>5. \A d \in DOMAIN host'.mem : IsCopy(host'.mem[d])
    <3>1. \A d : IsCopy(BootDoc(d))
      BY BootCopy DEF CopiesInv
    <3> QED
      BY <2>2, <3>1
  <2>6. KeyDocs' /\ ServedFromDisk' /\ Leases'
    BY <1>1, <2>4, <2>1, <2>2, <2>3, FreeSlotIs DEF CopiesInv, KeyDocs, ServedFromDisk, Leases, BootDoc
  <2>7. LocalRow'
    BY <1>1, <2>2, LocalStays DEF CopiesInv, LocalRow
  <2>8. \A d \in Doc : (InHand(d)' <=> InHand(d)) /\ (HostHas(d)' => HostHas(d))
    BY <1>1, <2>2 DEF InHand, HostHas, None
  <2>9. \A d \in Doc : d \in secrets.keys => d \in born
    BY HostHasBorn DEF HostHas, CopiesInv
  <2>10. \A d \in Doc : Unpushed(d)' <=> Unpushed(d)
    BY <1>1, PeersStay DEF Unpushed
  <2>11. FirstCommits'
    BY <1>1, <2>2, <2>8, <2>9, <2>10 DEF CopiesInv, FirstCommits, None
  <2> QED
    BY <1>3, <1>4, <2>5, <2>6, <2>7, <2>11 DEF CopiesInv
<1> QED
  BY <1>6, <1>7 DEF LifeStep, SpawnDaemon, StartApp, StartHost, BootHost, StopHost

-----------------------------------------------------------------------------
(* Commits in windows and on the host *)

\* The rest of the invariant, for a step of the windows.
LEMMA MirrorsAside ==
  ASSUME CopiesInv, UNCHANGED <<host, secrets, row, disk, seen, gen, store, calls, cmd, accounts, born>>,
         lapses \subseteq lapses', CopyTypes', Leases', Numbering'
  PROVE  CopiesInv'
<1>1. KeyDocs' /\ ServedFromDisk' /\ Passwords'
  BY DEF CopiesInv, KeyDocs, ServedFromDisk, BootDoc, Cleared, Passwords
<1>2. LocalRow'
  BY LocalStays DEF CopiesInv, LocalRow
<1>3. ASSUME NEW d \in Doc, InHand(d)' PROVE InHand(d) /\ (HostHas(d)' => HostHas(d))
  BY <1>3 DEF InHand, HostHas
<1>4. FirstCommits'
  BY <1>3, FirstStay DEF CopiesInv, SeenStays
<1> QED
  BY <1>1, <1>2, <1>4 DEF CopiesInv

\* A mirror becomes one that fits the copy as it is.
LEMMA MirrorIs ==
  ASSUME NEW s \in Sub, NEW d \in Doc, NEW m, MirrorNumbered(m, d), mirrors'[s] = m,
         BootDoc(d)' = BootDoc(d), Whole(d) => Whole(d)'
  PROVE  MirrorNumbered(mirrors[s], d)'
<1> DEFINE n == mirrors[s]
           B == BootDoc(d)
<1>1. n'.has \cup n'.down \subseteq B' \cup {n'.up[i] : i \in DOMAIN n'.up}
  BY DEF MirrorNumbered
<1>2. /\ \A i \in DOMAIN n'.up : n'.up[i].peer = n'.peer
      /\ n'.behind => n'.up = <<>>
  BY DEF MirrorNumbered
<1>3. ~n'.behind =>
        /\ Whole(d)'
        /\ PeerOps(B', n'.peer) \subseteq n'.has
        /\ \E k \in Nat : /\ Counted(B', n'.peer, k)
                          /\ Counted(n'.has, n'.peer, k + Len(n'.up))
                          /\ \A i \in DOMAIN n'.up : n'.up[i].n = k + i - 1
  BY DEF MirrorNumbered
<1> QED
  BY <1>1, <1>2, <1>3 DEF MirrorNumbered, Counted, PeerOps

\* One mirror is new or takes a step, and the copies stay.
LEMMA OneMirror ==
  ASSUME HostInv, CopiesInv, NEW s \in Sub, NEW m, mirrors' = [mirrors EXCEPT ![s] = m],
         UNCHANGED <<host, secrets, row, disk, seen, gen, emptied, store, calls, cmd, accounts, born>>,
         lapses \subseteq lapses', minted' \in Nat,
         m.state = "live" =>
           /\ IsCopy(m.has) /\ IsCopy(m.down)
           /\ m.slot \in Nat \ {host.slot} /\ m.peer = PeerOf(m.slot)
           /\ \A r \in Sub : mirrors[r].state = "live" /\ mirrors[r].slot = m.slot => r = s
           /\ \A d \in Doc : m.doc = d /\ ~Damaged(d)' => MirrorNumbered(m, d)
  PROVE  CopiesInv'
<1>1. \A r \in Sub : mirrors'[r] = IF r = s THEN m ELSE mirrors[r]
  BY DEF HostInv, Shapes
<1>2. \A S : IsCopy(S) => IsCopy(S)'
  BY PeersStay
<1>3. CopyTypes'
  BY <1>1, <1>2 DEF CopiesInv, CopyTypes
<1>4. Leases'
  BY <1>1 DEF CopiesInv, Leases, PeerOf
<1>5. ASSUME NEW d \in Doc, ~Damaged(d)'
      PROVE  CopyNumbered(d)' /\ \A r \in Sub : LiveOn(r, d)' => MirrorNumbered(mirrors[r], d)'
  <2>1. /\ CopyNumbered(d)
        /\ \A r \in Sub : LiveOn(r, d) => MirrorNumbered(mirrors[r], d)
    BY <1>5, StillSound DEF CopiesInv, Numbering, NumberedAt
  <2>2. BootDoc(d)' = BootDoc(d) /\ Mine' = Mine /\ AnyPeer' = AnyPeer /\ (Whole(d)' <=> Whole(d))
    BY PeersStay DEF BootDoc, AnyPeer, RemotePeer, Whole, PeerOps
  <2>3. CopyNumbered(d)'
    <3>1. /\ seen'[d] \subseteq BootDoc(d)'
          /\ Whole(d)' \/ (d \in emptied' /\ BootDoc(d)' = {})
          /\ \A o \in BootDoc(d)' : o.peer \in Mine' \/ o \in store'[d]
      BY <2>1, <2>2 DEF CopyNumbered
    <3> QED
      BY <2>1, <2>2, <3>1 DEF CopyNumbered, Numbered, Counted, PeerOps
  <2>4. ASSUME NEW r \in Sub, LiveOn(r, d)' PROVE MirrorNumbered(mirrors[r], d)'
    <3>1. CASE r = s
      <4>1. mirrors'[r] = m /\ MirrorNumbered(m, d)
        BY <1>1, <1>5, <2>4, <3>1 DEF LiveOn
      <4> QED
        BY <2>2, <4>1, MirrorIs
    <3>2. CASE r # s
      <4>1. mirrors'[r] = mirrors[r] /\ MirrorNumbered(mirrors[r], d)
        BY <1>1, <2>1, <2>4, <3>2 DEF LiveOn
      <4> QED
        BY <2>2, <4>1, MirrorIs
    <3> QED
      BY <3>1, <3>2
  <2> QED
    BY <2>3, <2>4
<1>6. Numbering'
  BY <1>5 DEF Numbering, NumberedAt
<1> QED
  BY <1>3, <1>4, <1>6, MirrorsAside

\* What a handler leaves on disk: the whole copy, unless it was cleared.
LEMMA PersistedIs ==
  ASSUME CopiesInv, host.state = "serving", NEW d \in DOMAIN host.mem, NEW ops, IsCopy(ops),
         host.mem[d] \subseteq ops, Persisted(d, ops)
  PROVE  /\ DOMAIN disk' = DOMAIN disk \cup {d}
         /\ \A e \in DOMAIN disk' : IsCopy(disk'[e])
         /\ \A e : e # d => BootDoc(e)' = BootDoc(e)
         /\ ~Cleared(d) => host.mem[d] = BootDoc(d) /\ BootDoc(d)' = ops
<1>1. PICK kept \in {BootDoc(d) \cup (ops \ host.mem[d]), ops} : disk' = Put(disk, d, kept)
  BY DEF Persisted, Saved
<1>2. IsCopy(kept)
  <2>1. IsCopy(ops \ host.mem[d])
    BY FS_Subset DEF IsCopy
  <2>2. IsCopy(BootDoc(d))
    BY BootCopy DEF CopiesInv
  <2> QED
    BY <1>1, <2>1, <2>2, CopiesAre
<1>3. ~Cleared(d) => host.mem[d] = BootDoc(d) /\ kept = ops
  BY <1>1 DEF CopiesInv, ServedFromDisk
<1>4. /\ DOMAIN disk' = DOMAIN disk \cup {d}
      /\ \A e \in DOMAIN disk' : disk'[e] = IF e = d THEN kept ELSE disk[e]
  BY <1>1 DEF Put
<1>5. \A e : BootDoc(e)' = IF e = d THEN kept ELSE BootDoc(e)
  BY <1>4 DEF BootDoc
<1> QED
  BY <1>2, <1>3, <1>4, <1>5 DEF CopiesInv, CopyTypes

\* The host's copy of d grows, on disk as well.
LEMMA HostGrows ==
  ASSUME CopiesInv, host.state = "serving", NEW d \in DOMAIN host.mem, NEW ops, IsCopy(ops),
         host.mem[d] \subseteq ops, Persisted(d, ops),
         host'.state = host.state, host'.slot = host.slot, host'.token = host.token,
         host'.ws = host.ws, host'.held = host.held, host'.mem = [host.mem EXCEPT ![d] = ops],
         DOMAIN host'.engine = DOMAIN host.engine, host'.asking = host.asking, host'.todo = "pump",
         \A e \in DOMAIN host.mem : host'.engine[e] = "idle" => host.ws,
         seen' = [e \in Doc |-> seen'[e]], \A e \in Doc \ {d} : seen'[e] = seen[e],
         row # NoFile /\ row.account = None => seen'[d] = seen[d],
         minted' \in Nat, lapses \subseteq lapses',
         UNCHANGED <<secrets, row, gen, store, calls, cmd, accounts, born>>,
         \A s \in Sub : mirrors'[s].state = "live" =>
           /\ mirrors[s].state = "live" /\ mirrors'[s].slot = mirrors[s].slot
           /\ mirrors'[s].peer = mirrors[s].peer
           /\ mirrors'[s].has = mirrors[s].has /\ mirrors'[s].down = mirrors[s].down,
         Numbering'
  PROVE  CopiesInv'
<1>1. /\ DOMAIN disk' = DOMAIN disk \cup {d}
      /\ \A e \in DOMAIN disk' : IsCopy(disk'[e])
      /\ \A e : e # d => BootDoc(e)' = BootDoc(e)
      /\ ~Cleared(d) => BootDoc(d)' = ops
  BY PersistedIs
<1>2. DOMAIN host'.mem = DOMAIN host.mem /\ d \in Doc
  BY DEF CopiesInv, KeyDocs
<1>3. KeyDocs'
  BY <1>1, <1>2 DEF CopiesInv, KeyDocs
<1>4. ServedFromDisk'
  <2>1. \A e : ~Cleared(e)' => ~Cleared(e)
    BY DEF Cleared
  <2>2. \A e \in DOMAIN host'.mem : ~Cleared(e)' => host'.mem[e] = BootDoc(e)'
    BY <1>1, <1>2, <2>1 DEF CopiesInv, ServedFromDisk
  <2> QED
    BY <1>2, <2>2 DEF CopiesInv, ServedFromDisk
<1>5. Passwords'
  BY DEF CopiesInv, Passwords
<1>6. CopyTypes'
  <2>1. \A S : IsCopy(S) => IsCopy(S)'
    BY PeersStay
  <2>2. \A e \in DOMAIN host'.mem : IsCopy(host'.mem[e])
    BY <1>2 DEF CopiesInv, CopyTypes
  <2> QED
    BY <1>1, <2>1, <2>2 DEF CopiesInv, CopyTypes
<1>7. Leases'
  BY DEF CopiesInv, Leases, PeerOf
<1>8. LocalRow'
  BY <1>2, LocalStays DEF CopiesInv, LocalRow
<1>9. ASSUME NEW e \in Doc, InHand(e)' PROVE InHand(e) /\ (HostHas(e)' => HostHas(e))
  BY <1>2, <1>9 DEF InHand, HostHas
<1>10. FirstCommits'
  BY <1>2, <1>9, FirstStay DEF CopiesInv, SeenStays
<1> QED
  BY <1>3, <1>4, <1>5, <1>6, <1>7, <1>8, <1>10 DEF CopiesInv

\* A copy that is served and not behind has all that the server has of this
\* installation's commits.
LEMMA WholeUnlessBehind ==
  ASSUME NEW d, CopyNumbered(d), host.mem[d] = BootDoc(d), ~Behind(d)
  PROVE  Whole(d)
<1> SUFFICES ASSUME NEW P \in Mine, NEW o \in PeerOps(store[d], P), o \notin BootDoc(d), d \in emptied
             PROVE  FALSE
  BY DEF CopyNumbered, Whole
<1>1. o \in store[d] /\ o.peer[1] = gen
  BY DEF PeerOps, Mine
<1> QED
  BY <1>1 DEF Behind

\* A command of the socket commits under the host's own peer.
LEMMA CommandCommits ==
  ASSUME AccessInv, HostInv, CopiesInv, NEW d \in Doc, DocCommand(d),
         UNCHANGED <<calls, cmd, accounts, born>>
  PROVE  CopiesInv'
<1> DEFINE o == Minted(PeerOf(host.slot), host.mem[d])
           ops == host.mem[d] \cup {o}
<1>1. /\ host.state = "serving" /\ d \in DOMAIN host.mem
      /\ host' = [host EXCEPT !.mem[d] = ops, !.todo = "pump"] /\ Persisted(d, ops)
      /\ minted' = minted + 1 /\ UNCHANGED <<secrets, row, seen, gen, emptied, mirrors, store>>
      /\ DOMAIN host = DOMAIN Off /\ gen \in Nat /\ minted \in Nat /\ host.slot \in Nat
      /\ seen = [e \in Doc |-> seen[e]] /\ IsCopy(host.mem[d]) /\ IsFiniteSet(host.mem[d])
  BY DEF DocCommand, Serving, Candidates, HostInv, Shapes, CopiesInv, CopyTypes, Leases, IsCopy
<1>2. PeerOf(host.slot) \in Mine /\ PeerOf(host.slot) \in SoFar
  BY <1>1, PeersAre
<1>4. /\ o \in Commits /\ o.peer = PeerOf(host.slot)
      /\ o.n = Cardinality({p \in host.mem[d] : p.peer = PeerOf(host.slot)})
  BY <1>1, <1>2, MintedIs
<1>5. lapses \subseteq lapses' /\ (Behind(d) => <<"reused", d>> \in lapses')
  BY DEF DocCommand, Lapse
<1> HIDE DEF o
<1>6. IsCopy(ops)
  BY <1>1, <1>4, CopiesAre
<1>7. /\ \A e : e # d => BootDoc(e)' = BootDoc(e)
      /\ ~Cleared(d) => host.mem[d] = BootDoc(d) /\ BootDoc(d)' = BootDoc(d) \cup {o}
  <2> HIDE DEF ops
  <2>1. host.mem[d] \subseteq ops
    BY DEF ops
  <2>2. /\ \A e : e # d => BootDoc(e)' = BootDoc(e)
        /\ ~Cleared(d) => host.mem[d] = BootDoc(d) /\ BootDoc(d)' = ops
    BY <1>1, <1>6, <2>1, PersistedIs
  <2> QED
    BY <2>2 DEF ops
<1>8. ASSUME NEW e \in Doc PROVE NumberedAt(e)'
  <2>1. NumberedAt(e) /\ \A s \in Sub : LiveOn(s, e)' => Follows(s, e)
    BY <1>1 DEF CopiesInv, Numbering, LiveOn, Follows
  <2>2. CASE e # d
    BY <1>1, <1>5, <1>7, <2>1, <2>2, DocStays
  <2>3. CASE e = d
    <3>1. \A s \in Sub : LiveOn(s, d) => mirrors[s].peer # o.peer
      BY <1>4, LiveIs DEF LiveOn, CopiesInv
    <3>2. ASSUME ~Damaged(d)'
          PROVE  /\ BootDoc(d)' = BootDoc(d) \cup {o}
                 /\ Whole(d) /\ \E k \in Nat : Counted(BootDoc(d), o.peer, k) /\ o.n = k
      <4>1. CopyNumbered(d) /\ ~Cleared(d) /\ ~Behind(d)
        BY <1>5, <2>1, <2>3, <3>2, StillSound DEF NumberedAt, Damaged, Cleared
      <4>2. Whole(d) /\ Numbered(BootDoc(d), o.peer)
        BY <1>2, <1>4, <1>7, <4>1, WholeUnlessBehind DEF CopyNumbered
      <4>3. PICK k \in Nat : Counted(BootDoc(d), o.peer, k)
        BY <4>2 DEF Numbered
      <4> QED
        BY <1>4, <1>7, <4>1, <4>2, <4>3, CountedIs
    <3>4. \A s \in Sub : LiveOn(s, d)' => Follows(s, d) /\ mirrors[s].peer # o.peer
      BY <2>1, <2>3, <3>1 DEF Follows
    <3> QED
      BY <1>1, <1>2, <1>4, <1>5, <2>1, <2>3, <3>2, <3>4, DocCommits
  <2> QED
    BY <2>2, <2>3
<1>9. /\ host'.state = host.state /\ host'.slot = host.slot /\ host'.token = host.token
      /\ host'.ws = host.ws /\ host'.held = host.held /\ host'.mem = [host.mem EXCEPT ![d] = ops]
      /\ host'.engine = host.engine /\ host'.asking = host.asking /\ host'.todo = "pump"
  BY <1>1 DEF Off
<1>10. Numbering' /\ minted' \in Nat /\ host.mem[d] \subseteq ops
  BY <1>1, <1>8 DEF Numbering
<1>11. \A e \in DOMAIN host.mem : host.engine[e] = "idle" => host.ws
  BY DEF CopiesInv, LocalRow
<1> HIDE DEF ops
<1> QED
  BY <1>1, <1>5, <1>6, <1>9, <1>10, <1>11, HostGrows

\* The commits of a window that are not sent yet, and one more.
LEMMA UpMore ==
  ASSUME NEW S, NEW up \in Seq(S), NEW o
  PROVE  /\ Len(Append(up, o)) = Len(up) + 1 /\ Len(up) \in Nat
         /\ Append(up, o)[Len(up) + 1] = o
         /\ \A i \in DOMAIN up : Append(up, o)[i] = up[i]
         /\ DOMAIN up = 1 .. Len(up)
         /\ DOMAIN Append(up, o) = 1 .. (Len(up) + 1)
<1>1. up \in Seq(S \cup {o})
  OBVIOUS
<1> QED
  BY <1>1

\* A window commits under the peer it leases.
LEMMA WindowCommits ==
  ASSUME HostInv, CopiesInv, NEW s \in Sub, MirrorEdit(s), UNCHANGED <<calls, cmd, accounts, born>>
  PROVE  CopiesInv'
<1> DEFINE m == mirrors[s]
           o == Minted(m.peer, m.has)
           n == [m EXCEPT !.has = @ \cup {o}, !.up = Append(@, o)]
<1>1. /\ UNCHANGED <<host, secrets, row, disk, seen, gen, emptied, store>>
      /\ minted \in Nat /\ minted' = minted + 1 /\ minted' \in Nat
      /\ mirrors = [r \in Sub |-> mirrors[r]] /\ DOMAIN m = DOMAIN NoMirror
  BY DEF MirrorEdit, profileVars, HostInv, Shapes, CopiesInv, CopyTypes
<1>2. mirrors' = [mirrors EXCEPT ![s] = n]
  BY <1>1 DEF MirrorEdit, NoMirror
<1>3. lapses \subseteq lapses' /\ (m.behind => <<"reused", m.doc>> \in lapses')
  BY DEF MirrorEdit, Lapse
<1>4. /\ n.state = m.state /\ n.slot = m.slot /\ n.peer = m.peer /\ n.doc = m.doc
      /\ n.down = m.down /\ n.behind = m.behind /\ n.has = m.has \cup {o} /\ n.up = Append(m.up, o)
  BY <1>1 DEF NoMirror
<1> HIDE DEF n
<1>5. ASSUME m.state = "live"
      PROVE  /\ IsCopy(n.has) /\ IsCopy(n.down)
             /\ n.slot \in Nat \ {host.slot} /\ n.peer = PeerOf(n.slot)
             /\ \A r \in Sub : mirrors[r].state = "live" /\ mirrors[r].slot = n.slot => r = s
             /\ \A d \in Doc : n.doc = d /\ ~Damaged(d)' => MirrorNumbered(n, d)
  <2>1. /\ IsCopy(m.has) /\ IsCopy(m.down) /\ host.state = "serving" /\ m.up \in Seq(m.has)
        /\ m.slot \in Nat \ {host.slot} /\ m.peer = PeerOf(m.slot) /\ m.peer \in Mine
        /\ \A r \in Sub : mirrors[r].state = "live" /\ mirrors[r].slot = m.slot => r = s
    BY <1>5, LiveIs DEF CopiesInv, CopyTypes, Leases
  <2>2. m.peer \in SoFar /\ IsFiniteSet(m.has)
    BY <2>1, PeersAre DEF CopiesInv, CopyTypes, IsCopy
  <2>3. /\ o \in Commits /\ o.peer = m.peer
        /\ o.n = Cardinality({p \in m.has : p.peer = m.peer})
    BY <1>1, <2>2, MintedIs
  <2> HIDE DEF o
  <2>4. IsCopy(n.has)
    <3>1. IsCopy({o})
      BY <2>3, CopiesAre
    <3>2. IsCopy(m.has \cup {o})
      BY <2>1, <3>1, CopiesAre
    <3> QED
      BY <1>4, <3>2
  <2>5. ASSUME NEW d \in Doc, m.doc = d, ~Damaged(d)' PROVE MirrorNumbered(n, d)
    <3>1. MirrorNumbered(m, d) /\ ~m.behind
      BY <1>3, <1>5, <2>5, StillSound DEF CopiesInv, Numbering, NumberedAt, LiveOn, Damaged, Cleared
    <3>2. /\ Whole(d) /\ PeerOps(BootDoc(d), m.peer) \subseteq m.has
          /\ m.has \cup m.down \subseteq BootDoc(d) \cup {m.up[i] : i \in DOMAIN m.up}
          /\ \A i \in DOMAIN m.up : m.up[i].peer = m.peer
      BY <3>1 DEF MirrorNumbered
    <3>3. PICK k \in Nat : /\ Counted(BootDoc(d), m.peer, k)
                           /\ Counted(m.has, m.peer, k + Len(m.up))
                           /\ \A i \in DOMAIN m.up : m.up[i].n = k + i - 1
      BY <3>1 DEF MirrorNumbered
    <3>4. /\ Len(n.up) = Len(m.up) + 1 /\ Len(m.up) \in Nat
          /\ n.up[Len(m.up) + 1] = o /\ \A i \in DOMAIN m.up : n.up[i] = m.up[i]
          /\ DOMAIN m.up = 1 .. Len(m.up) /\ DOMAIN n.up = 1 .. (Len(m.up) + 1)
      BY <1>4, <2>1, UpMore
    <3>5. o.n = k + Len(m.up)
      <4>1. k + Len(m.up) \in Nat
        BY <3>4
      <4> QED
        BY <2>3, <3>3, <4>1, CountedIs
    <3>6. Counted(n.has, n.peer, k + Len(n.up))
      <4>1. k + Len(m.up) \in Nat /\ (k + Len(m.up)) + 1 = k + Len(n.up)
        BY <3>4
      <4> QED
        BY <1>4, <2>3, <3>3, <3>5, <4>1, CountedNext
    <3>7. \A i \in DOMAIN n.up : n.up[i].n = k + i - 1 /\ n.up[i].peer = n.peer
      <4> TAKE i \in DOMAIN n.up
      <4>1. CASE i = Len(m.up) + 1
        BY <1>4, <2>3, <3>4, <3>5, <4>1
      <4>2. CASE i # Len(m.up) + 1
        <5>1. i \in DOMAIN m.up
          BY <3>4, <4>2
        <5> QED
          BY <1>4, <3>2, <3>3, <3>4, <5>1
      <4> QED
        BY <4>1, <4>2
    <3>8. n.has \cup n.down \subseteq BootDoc(d) \cup {n.up[i] : i \in DOMAIN n.up}
      <4>1. o \in {n.up[i] : i \in DOMAIN n.up}
        <5>1. Len(m.up) + 1 \in DOMAIN n.up
          BY <3>4
        <5> QED
          BY <3>4, <5>1
      <4>2. {m.up[i] : i \in DOMAIN m.up} \subseteq {n.up[i] : i \in DOMAIN n.up}
        <5>1. \A i \in DOMAIN m.up : i \in DOMAIN n.up
          BY <3>4
        <5> QED
          BY <3>4, <5>1
      <4> QED
        BY <1>4, <3>2, <4>1, <4>2
    <3>9. PeerOps(BootDoc(d), n.peer) \subseteq n.has /\ Counted(BootDoc(d), n.peer, k) /\ ~n.behind
      BY <1>4, <3>1, <3>2, <3>3
    <3> QED
      BY <3>2, <3>6, <3>7, <3>8, <3>9 DEF MirrorNumbered
  <2> QED
    BY <1>4, <2>1, <2>4, <2>5
<1> HIDE DEF o, m
<1> QED
  BY <1>1, <1>2, <1>3, <1>4, <1>5, OneMirror

\* A mirror starts from the copy as it is, under a peer nobody has.
LEMMA SubscribeCopies ==
  ASSUME HostInv, CopiesInv, NEW s \in Sub, NEW d \in Doc, Subscribe(s, d),
         UNCHANGED <<calls, lapses, cmd, accounts, born>>
  PROVE  CopiesInv'
<1> DEFINE n == [NoMirror EXCEPT !.state = "live", !.doc = d, !.slot = FreeSlot,
                                 !.peer = PeerOf(FreeSlot), !.has = host.mem[d],
                                 !.sent = host.mem[d], !.behind = Behind(d)]
<1>1. /\ UNCHANGED <<host, secrets, row, disk, seen, gen, emptied, store, minted>> /\ minted \in Nat
      /\ gen \in Nat /\ host.state = "serving" /\ d \in DOMAIN host.mem
      /\ IsCopy(host.mem[d]) /\ (~Cleared(d) => host.mem[d] = BootDoc(d))
      /\ mirrors' = [mirrors EXCEPT ![s] = n] /\ mirrors[s].state = None
  BY DEF Subscribe, Serving, Candidates, profileVars, CopiesInv, CopyTypes, ServedFromDisk
<1>2. /\ n.state = "live" /\ n.slot = FreeSlot /\ n.peer = PeerOf(FreeSlot) /\ n.doc = d
      /\ n.down = {} /\ n.behind = Behind(d) /\ n.has = host.mem[d] /\ n.up = <<>>
  BY <1>1 DEF NoMirror
<1> HIDE DEF n
<1>3. /\ FreeSlot \in Nat /\ FreeSlot # host.slot
      /\ \A r \in Sub : mirrors[r].state = "live" => mirrors[r].slot # FreeSlot
  BY <1>1, FreeSlotIs DEF Leased
<1>4. IsCopy(n.has) /\ IsCopy(n.down)
  BY <1>1, <1>2, CopiesAre
<1>5. ASSUME ~Damaged(d)' PROVE MirrorNumbered(n, d)
  <2>1. CopyNumbered(d) /\ n.has = BootDoc(d) /\ host.mem[d] = BootDoc(d)
    BY <1>1, <1>2, <1>5, StillSound DEF CopiesInv, Numbering, NumberedAt
  <2>2. n.has \cup n.down \subseteq BootDoc(d) \cup {n.up[i] : i \in DOMAIN n.up}
    BY <1>2, <2>1
  <2>3. DOMAIN n.up = {} /\ Len(n.up) = 0
    BY <1>2
  <2>4. ASSUME ~n.behind
        PROVE  /\ Whole(d) /\ PeerOps(BootDoc(d), n.peer) \subseteq n.has
               /\ \E k \in Nat : /\ Counted(BootDoc(d), n.peer, k)
                                 /\ Counted(n.has, n.peer, k + Len(n.up))
    <3>1. Whole(d) /\ PeerOps(BootDoc(d), n.peer) \subseteq n.has
      BY <1>2, <2>1, <2>4, WholeUnlessBehind DEF PeerOps
    <3>2. n.peer \in Mine
      BY <1>1, <1>2, <1>3, PeersAre
    <3>3. PICK k \in Nat : Counted(BootDoc(d), n.peer, k)
      BY <2>1, <3>2 DEF CopyNumbered, Numbered
    <3>4. k + Len(n.up) = k
      BY <2>3
    <3> QED
      BY <2>1, <3>1, <3>3, <3>4
  <2> QED
    BY <1>2, <2>2, <2>3, <2>4 DEF MirrorNumbered
<1> QED
  BY <1>1, <1>2, <1>3, <1>4, <1>5, OneMirror

\* A window takes in what it was sent.
LEMMA UpdateCopies ==
  ASSUME HostInv, CopiesInv, NEW s \in Sub, MirrorUpdate(s),
         UNCHANGED <<calls, lapses, cmd, accounts, born>>
  PROVE  CopiesInv'
<1> DEFINE m == mirrors[s]
           n == [m EXCEPT !.has = @ \cup m.down, !.down = {}]
<1>1. /\ UNCHANGED <<host, secrets, row, disk, seen, gen, emptied, store, minted>> /\ minted \in Nat
      /\ mirrors = [r \in Sub |-> mirrors[r]] /\ DOMAIN m = DOMAIN NoMirror
  BY DEF MirrorUpdate, profileVars, HostInv, Shapes, CopiesInv, CopyTypes
<1>2. mirrors' = [mirrors EXCEPT ![s] = n]
  BY <1>1 DEF MirrorUpdate, NoMirror
<1>4. /\ n.state = m.state /\ n.slot = m.slot /\ n.peer = m.peer /\ n.doc = m.doc
      /\ n.down = {} /\ n.behind = m.behind /\ n.has = m.has \cup m.down /\ n.up = m.up
  BY <1>1 DEF NoMirror
<1> HIDE DEF n
<1>5. ASSUME m.state = "live"
      PROVE  /\ IsCopy(n.has) /\ IsCopy(n.down)
             /\ n.slot \in Nat \ {host.slot} /\ n.peer = PeerOf(n.slot)
             /\ \A r \in Sub : mirrors[r].state = "live" /\ mirrors[r].slot = n.slot => r = s
             /\ \A d \in Doc : n.doc = d /\ ~Damaged(d)' => MirrorNumbered(n, d)
  <2>1. /\ IsCopy(m.has) /\ IsCopy(m.down) /\ host.state = "serving" /\ m.up \in Seq(m.has)
        /\ m.slot \in Nat \ {host.slot} /\ m.peer = PeerOf(m.slot)
        /\ \A r \in Sub : mirrors[r].state = "live" /\ mirrors[r].slot = m.slot => r = s
    BY <1>5, LiveIs DEF CopiesInv, CopyTypes, Leases
  <2>2. IsCopy(n.has) /\ IsCopy(n.down)
    BY <1>4, <2>1, CopiesAre
  <2>3. ASSUME NEW d \in Doc, m.doc = d, ~Damaged(d)' PROVE MirrorNumbered(n, d)
    <3>1. MirrorNumbered(m, d)
      BY <1>5, <2>3, StillSound DEF CopiesInv, Numbering, NumberedAt, LiveOn
    <3>2. /\ n.has \cup n.down \subseteq BootDoc(d) \cup {n.up[i] : i \in DOMAIN n.up}
          /\ \A i \in DOMAIN n.up : n.up[i].peer = n.peer
          /\ n.behind => n.up = <<>>
      BY <1>4, <3>1 DEF MirrorNumbered
    <3>3. ASSUME ~m.behind
          PROVE  /\ Whole(d) /\ PeerOps(BootDoc(d), m.peer) \subseteq n.has
                 /\ \E k \in Nat : /\ Counted(BootDoc(d), m.peer, k)
                                   /\ Counted(n.has, m.peer, k + Len(m.up))
                                   /\ \A i \in DOMAIN m.up : m.up[i].n = k + i - 1
      <4>1. /\ Whole(d) /\ PeerOps(BootDoc(d), m.peer) \subseteq m.has
            /\ m.down \subseteq BootDoc(d) \cup {m.up[i] : i \in DOMAIN m.up}
        BY <3>1, <3>3 DEF MirrorNumbered
      <4>2. {m.up[i] : i \in DOMAIN m.up} \subseteq m.has
        BY <2>1
      <4>3. PeerOps(n.has, m.peer) = PeerOps(m.has, m.peer)
        BY <1>4, <4>1, <4>2 DEF PeerOps
      <4>4. PICK k \in Nat : /\ Counted(BootDoc(d), m.peer, k)
                             /\ Counted(m.has, m.peer, k + Len(m.up))
                             /\ \A i \in DOMAIN m.up : m.up[i].n = k + i - 1
        BY <3>1, <3>3 DEF MirrorNumbered
      <4>5. Counted(n.has, m.peer, k + Len(m.up))
        BY <4>3, <4>4, CountedSame
      <4> QED
        BY <1>4, <4>1, <4>4, <4>5
    <3> QED
      BY <1>4, <3>2, <3>3 DEF MirrorNumbered
  <2> QED
    BY <1>4, <2>1, <2>2, <2>3
<1> HIDE DEF m
<1> QED
  BY <1>1, <1>2, <1>4, <1>5, OneMirror

\* The first of the commits of a window that are not sent yet, and the rest.
LEMMA UpLess ==
  ASSUME NEW S, NEW up \in Seq(S), up # <<>>
  PROVE  /\ Len(up) = Len(Tail(up)) + 1 /\ Len(Tail(up)) \in Nat
         /\ Head(up) = up[1] /\ Head(up) \in S /\ 1 \in DOMAIN up
         /\ \A i \in DOMAIN Tail(up) : Tail(up)[i] = up[i + 1] /\ i + 1 \in DOMAIN up /\ i \in Nat
         /\ \A i \in DOMAIN up : i # 1 => i - 1 \in DOMAIN Tail(up) /\ Tail(up)[i - 1] = up[i]
OBVIOUS

\* The mirror m sends o, is n from then on, and B is the copy.
Imports(m, n, d, o, B) ==
  /\ Whole(d) /\ o.peer = m.peer /\ ~n.behind
  /\ \E k \in Nat : Counted(BootDoc(d), m.peer, k) /\ o.n = k
  /\ n.has \cup n.down \subseteq B \cup {n.up[i] : i \in DOMAIN n.up}
  /\ \A i \in DOMAIN n.up : n.up[i].peer = n.peer
  /\ PeerOps(B, n.peer) \subseteq n.has
  /\ \E k \in Nat : /\ Counted(B, n.peer, k)
                    /\ Counted(n.has, n.peer, k + Len(n.up))
                    /\ \A i \in DOMAIN n.up : n.up[i].n = k + i - 1

\* What a window sends is the next commit of its peer.
LEMMA ImportNumbers ==
  ASSUME NEW m, NEW d \in Doc, MirrorNumbered(m, d), m.up \in Seq(m.has), m.up # <<>>,
         NEW n, n.has = m.has, n.down = m.down, n.up = Tail(m.up), n.peer = m.peer,
         n.behind = m.behind, NEW o, o = Head(m.up), NEW B, B = BootDoc(d) \cup {o}
  PROVE  Imports(m, n, d, o, B)
<1>1. /\ Len(m.up) = Len(Tail(m.up)) + 1 /\ Len(Tail(m.up)) \in Nat
      /\ o = m.up[1] /\ o \in m.has /\ 1 \in DOMAIN m.up
      /\ \A i \in DOMAIN n.up : n.up[i] = m.up[i + 1] /\ i + 1 \in DOMAIN m.up /\ i \in Nat
      /\ \A i \in DOMAIN m.up : i # 1 => i - 1 \in DOMAIN n.up /\ n.up[i - 1] = m.up[i]
  BY UpLess
<1>2. /\ ~m.behind /\ Whole(d) /\ PeerOps(BootDoc(d), m.peer) \subseteq m.has
      /\ m.has \cup m.down \subseteq BootDoc(d) \cup {m.up[i] : i \in DOMAIN m.up}
      /\ \A i \in DOMAIN m.up : m.up[i].peer = m.peer
  BY DEF MirrorNumbered
<1>3. PICK k \in Nat : /\ Counted(BootDoc(d), m.peer, k)
                       /\ Counted(m.has, m.peer, k + Len(m.up))
                       /\ \A i \in DOMAIN m.up : m.up[i].n = k + i - 1
  BY <1>2 DEF MirrorNumbered
<1>4. o.peer = m.peer /\ o.n = k
  <2>1. o.n = k + 1 - 1
    BY <1>1, <1>3
  <2> QED
    BY <1>1, <1>2, <2>1
<1>5. Counted(B, m.peer, k + 1)
  BY <1>3, <1>4, CountedNext
<1>6. Counted(n.has, n.peer, (k + 1) + Len(n.up))
  <2>1. Len(m.up) = Len(n.up) + 1 /\ Len(n.up) \in Nat
    BY <1>1
  <2>2. \A b \in Nat : (k + 1) + b = k + (b + 1)
    OBVIOUS
  <2>3. (k + 1) + Len(n.up) = k + Len(m.up)
    BY <2>1, <2>2, Zenon
  <2> QED
    BY <1>3, <2>3
<1>7. ASSUME NEW i \in DOMAIN n.up PROVE n.up[i].n = (k + 1) + i - 1 /\ n.up[i].peer = n.peer
  <2>1. n.up[i] = m.up[i + 1] /\ i + 1 \in DOMAIN m.up /\ i \in Nat
    BY <1>1
  <2>2. n.up[i].n = k + (i + 1) - 1
    BY <1>3, <2>1
  <2> QED
    BY <1>2, <2>1, <2>2
<1>8. ASSUME NEW i \in DOMAIN m.up PROVE m.up[i] = o \/ \E j \in DOMAIN n.up : m.up[i] = n.up[j]
  BY <1>1
<1>9. PeerOps(B, n.peer) \subseteq n.has
  BY <1>1, <1>2 DEF PeerOps
<1>10. n.has \cup n.down \subseteq B \cup {n.up[i] : i \in DOMAIN n.up}
  <2> SUFFICES ASSUME NEW x \in m.has \cup m.down, x \notin BootDoc(d)
               PROVE  x = o \/ \E j \in DOMAIN n.up : x = n.up[j]
    OBVIOUS
  <2>1. PICK i \in DOMAIN m.up : x = m.up[i]
    BY <1>2
  <2> QED
    BY <1>8, <2>1
<1>11. k + 1 \in Nat
  OBVIOUS
<1> QED
  BY <1>2, <1>3, <1>4, <1>5, <1>6, <1>7, <1>9, <1>10, <1>11 DEF Imports

\* on_import: the update of a window joins the copy.
LEMMA ImportJoins ==
  ASSUME HostInv, CopiesInv, NEW s \in Sub, mirrors[s].state = "live", mirrors[s].up # <<>>,
         NEW d, d = mirrors[s].doc, NEW o, o = Head(mirrors[s].up), NEW ops, ops = host.mem[d] \cup {o},
         Serving, d \in DOMAIN host.mem, host' = [host EXCEPT !.mem[d] = ops, !.todo = "pump"],
         Persisted(d, ops),
         mirrors' = [mirrors EXCEPT ![s].up = Tail(@), ![s].sent = @ \cup {o}],
         UNCHANGED <<secrets, row, seen, gen, emptied, store, minted, calls, lapses, cmd, accounts, born>>
  PROVE  CopiesInv'
<1> DEFINE m == mirrors[s]
           n == [m EXCEPT !.up = Tail(@), !.sent = @ \cup {o}]
<1>1. /\ mirrors = [r \in Sub |-> mirrors[r]] /\ DOMAIN m = DOMAIN NoMirror /\ DOMAIN host = DOMAIN Off
      /\ minted \in Nat /\ gen \in Nat /\ IsCopy(host.mem[d]) /\ seen = [e \in Doc |-> seen[e]]
  BY DEF HostInv, Shapes, CopiesInv, CopyTypes
<1>2. host.state = "serving" /\ d \in Doc
  BY DEF Serving, CopiesInv, KeyDocs
<1>3. mirrors' = [mirrors EXCEPT ![s] = n]
  BY <1>1 DEF NoMirror
<1>4. /\ n.state = m.state /\ n.slot = m.slot /\ n.peer = m.peer /\ n.doc = m.doc
      /\ n.down = m.down /\ n.behind = m.behind /\ n.has = m.has /\ n.up = Tail(m.up)
  BY <1>1 DEF NoMirror
<1> HIDE DEF n
<1>5. \A r \in Sub : mirrors'[r] = IF r = s THEN n ELSE mirrors[r]
  BY <1>1, <1>3
<1>6. m.up \in Seq(m.has) /\ m.peer \in Mine
      /\ \A r \in Sub : mirrors[r].state = "live" /\ r # s => mirrors[r].peer # m.peer
  BY LiveIs DEF CopiesInv
<1>7. IsCopy(ops)
  <2>1. o \in m.has
    BY <1>6
  <2>2. IsCopy(m.has)
    BY DEF CopiesInv, CopyTypes
  <2>3. IsCopy({o})
    BY <2>1, <2>2, CopiesAre
  <2> QED
    BY <1>1, <2>3, CopiesAre
<1>8. /\ \A e : e # d => BootDoc(e)' = BootDoc(e)
      /\ ~Cleared(d) => BootDoc(d)' = BootDoc(d) \cup {o}
  <2>1. host.mem[d] \subseteq ops
    OBVIOUS
  <2> QED
    BY <1>2, <1>7, <2>1, PersistedIs
<1>9. \A e \in Doc, r \in Sub : LiveOn(r, e)' /\ r # s => Follows(r, e)
  BY <1>5 DEF LiveOn, Follows
<1>10. ASSUME NEW e \in Doc, e # d PROVE NumberedAt(e)'
  <2>1. ~LiveOn(s, e)'
    <3>1. mirrors'[s] = n /\ n.doc = d
      BY <1>4, <1>5
    <3> QED
      BY <1>10, <3>1 DEF LiveOn
  <2>2. \A r \in Sub : LiveOn(r, e)' => Follows(r, e)
    BY <1>9, <2>1
  <2> QED
    BY <1>1, <1>8, <1>10, <2>2, DocStays DEF CopiesInv, Numbering
<1>11. NumberedAt(d)'
  <2> DEFINE B == BootDoc(d) \cup {o}
  <2> SUFFICES ASSUME ~Damaged(d)' PROVE NumberedAt(d)'
    BY DEF NumberedAt
  <2>1. BootDoc(d)' = B /\ mirrors'[s] = n
    BY <1>5, <1>8, StillSound
  <2>2. MirrorNumbered(m, d)
    BY <1>2, StillSound DEF CopiesInv, Numbering, NumberedAt, LiveOn
  <2>3. Imports(m, n, d, o, B)
    <3>1. m.up # <<>> /\ o = Head(m.up)
      OBVIOUS
    <3> HIDE DEF m
    <3>2. /\ n.has = m.has /\ n.down = m.down /\ n.up = Tail(m.up) /\ n.peer = m.peer
          /\ n.behind = m.behind /\ m.up \in Seq(m.has)
      BY <1>4, <1>6
    <3> QED
      BY <1>2, <2>2, <3>1, <3>2, ImportNumbers
  <2>4. Whole(d)'
    BY <2>1, <2>3, PeersStay DEF Whole, PeerOps, Imports
  <2> HIDE DEF B, m
  <2>5. MirrorNumbered(mirrors[s], d)'
    <3>1. PICK k \in Nat : /\ Counted(B, n.peer, k)
                           /\ Counted(n.has, n.peer, k + Len(n.up))
                           /\ \A i \in DOMAIN n.up : n.up[i].n = k + i - 1
      BY <2>3 DEF Imports
    <3>2. Counted(BootDoc(d)', mirrors'[s].peer, k) /\ PeerOps(BootDoc(d)', mirrors'[s].peer) \subseteq mirrors'[s].has
      BY <2>1, <2>3, <3>1 DEF Imports
    <3>3. /\ Counted(mirrors'[s].has, mirrors'[s].peer, k + Len(mirrors'[s].up))
          /\ \A i \in DOMAIN mirrors'[s].up : mirrors'[s].up[i].n = k + i - 1
      BY <2>1, <3>1
    <3>4. /\ mirrors'[s].has \cup mirrors'[s].down \subseteq
               BootDoc(d)' \cup {mirrors'[s].up[i] : i \in DOMAIN mirrors'[s].up}
          /\ \A i \in DOMAIN mirrors'[s].up : mirrors'[s].up[i].peer = mirrors'[s].peer
          /\ ~mirrors'[s].behind
      <4> DEFINE N == mirrors'[s]
                 D == BootDoc(d)'
      <4>1. /\ n.has \cup n.down \subseteq B \cup {n.up[i] : i \in DOMAIN n.up}
            /\ \A i \in DOMAIN n.up : n.up[i].peer = n.peer
            /\ ~n.behind
        BY <2>3 DEF Imports
      <4>2. N = n /\ D = B
        BY <2>1
      <4> HIDE DEF N, D
      <4>3. /\ N.has \cup N.down \subseteq D \cup {N.up[i] : i \in DOMAIN N.up}
            /\ \A i \in DOMAIN N.up : N.up[i].peer = N.peer
            /\ ~N.behind
        BY <4>1, <4>2
      <4> QED
        BY <4>3 DEF N, D
    <3> QED
      BY <2>4, <3>2, <3>3, <3>4 DEF MirrorNumbered, Counted, PeerOps
  <2>6. \A r \in Sub : LiveOn(r, d)' =>
          \/ Follows(r, d) /\ mirrors[r].peer # o.peer
          \/ MirrorNumbered(mirrors[r], d)'
    <3> TAKE r \in Sub
    <3>1. CASE r = s
      BY <2>5, <3>1
    <3>2. CASE r # s
      <4>1. ASSUME LiveOn(r, d)' PROVE Follows(r, d) /\ mirrors[r].peer # m.peer
        <5>1. Follows(r, d)
          BY <1>2, <1>9, <3>2, <4>1
        <5> QED
          BY <1>6, <3>2, <5>1 DEF Follows, LiveOn
      <4> QED
        BY <2>3, <4>1 DEF Imports
    <3> QED
      BY <3>1, <3>2
  <2>7. BootDoc(d)' = BootDoc(d) \cup {o} /\ o.peer \in Mine
    BY <1>6, <2>1, <2>3 DEF Imports, B
  <2>8. NumberedAt(d) /\ store'[d] = store[d]
    BY <1>2 DEF CopiesInv, Numbering
  <2>9. \E k \in Nat : Counted(BootDoc(d), o.peer, k) /\ o.n = k
    BY <2>3 DEF Imports
  <2> QED
    BY <1>1, <1>2, <2>3, <2>6, <2>7, <2>8, <2>9, DocCommits DEF Imports
<1>12. Numbering'
  BY <1>10, <1>11 DEF Numbering
<1>13. /\ host'.state = host.state /\ host'.slot = host.slot /\ host'.token = host.token
       /\ host'.ws = host.ws /\ host'.held = host.held /\ host'.mem = [host.mem EXCEPT ![d] = ops]
       /\ host'.engine = host.engine /\ host'.asking = host.asking /\ host'.todo = "pump"
  BY <1>1 DEF Off
<1>14. \A r \in Sub : mirrors'[r].state = "live" =>
         /\ mirrors[r].state = "live" /\ mirrors'[r].slot = mirrors[r].slot
         /\ mirrors'[r].peer = mirrors[r].peer
         /\ mirrors'[r].has = mirrors[r].has /\ mirrors'[r].down = mirrors[r].down
  BY <1>4, <1>5
<1>15. \A e \in DOMAIN host.mem : host.engine[e] = "idle" => host.ws
  BY DEF CopiesInv, LocalRow
<1>16. host.mem[d] \subseteq ops
  OBVIOUS
<1> QED
  BY <1>1, <1>2, <1>7, <1>12, <1>13, <1>14, <1>15, <1>16, HostGrows

\* on_import, also of a subscriber the host does not know.
LEMMA ImportCopies ==
  ASSUME HostInv, CopiesInv, NEW s \in Sub, Import(s), UNCHANGED <<calls, lapses, cmd, accounts, born>>
  PROVE  CopiesInv'
<1> DEFINE m == mirrors[s]
<1>1. /\ UNCHANGED <<secrets, row, seen, gen, emptied, store, minted>> /\ m.up # <<>>
      /\ mirrors = [r \in Sub |-> mirrors[r]] /\ DOMAIN m = DOMAIN NoMirror
  BY DEF Import, profileVars, HostInv, Shapes
<1>2. CASE /\ m.state = "live" /\ Serving /\ m.doc \in DOMAIN host.mem
           /\ host' = [host EXCEPT !.mem[m.doc] = host.mem[m.doc] \cup {Head(m.up)}, !.todo = "pump"]
           /\ Persisted(m.doc, host.mem[m.doc] \cup {Head(m.up)})
           /\ mirrors' = [mirrors EXCEPT ![s].up = Tail(@), ![s].sent = @ \cup {Head(m.up)}]
  BY <1>1, <1>2, ImportJoins
<1>3. CASE /\ m.state = "orphan" \/ (Serving /\ m.doc \notin DOMAIN host.mem)
           /\ mirrors' = [mirrors EXCEPT ![s].up = Tail(@)]
           /\ UNCHANGED host /\ UNCHANGED profileVars
  <2>1. m.state # "live"
    BY <1>3, LiveIs DEF CopiesInv
  <2>2. FewerMirrors
    BY <1>1, <1>3, <2>1 DEF FewerMirrors, NoMirror
  <2>3. CopyTypes' /\ Leases' /\ Numbering'
    BY <1>1, <1>3, <2>2, CopiesStay DEF CopiesInv, profileVars
  <2> QED
    BY <1>1, <1>3, <2>3, MirrorsAside DEF profileVars
<1> QED
  BY <1>2, <1>3 DEF Import

\* A window is closed.
LEMMA UnsubscribeCopies ==
  ASSUME HostInv, CopiesInv, NEW s \in Sub, Unsubscribe(s),
         UNCHANGED <<calls, lapses, cmd, accounts, born>>
  PROVE  CopiesInv'
<1>1. /\ UNCHANGED <<host, secrets, row, disk, seen, gen, emptied, store, minted>>
      /\ mirrors' = [mirrors EXCEPT ![s] = NoMirror] /\ mirrors = [r \in Sub |-> mirrors[r]]
      /\ NoMirror.state # "live"
  BY DEF Unsubscribe, profileVars, HostInv, Shapes, NoMirror, None
<1>2. FewerMirrors
  BY <1>1 DEF FewerMirrors
<1>3. CopyTypes' /\ Leases' /\ Numbering'
  BY <1>1, <1>2, CopiesStay DEF CopiesInv
<1> QED
  BY <1>1, <1>3, MirrorsAside

\* The windows and the commands of the socket.
LEMMA EditCopies ==
  ASSUME AccessInv, HostInv, KeysInv, CopiesInv, EditStep \/ MirrorStep,
         UNCHANGED <<accounts, born, cmd>>
  PROVE  CopiesInv'
<1>1. CASE EditStep
  BY <1>1, CommandCommits, WindowCommits DEF EditStep
<1>2. CASE MirrorStep
  BY <1>2, SubscribeCopies, ImportCopies, UpdateCopies, UnsubscribeCopies DEF MirrorStep
<1> QED
  BY <1>1, <1>2

-----------------------------------------------------------------------------
(* The loop of the host *)

\* fan_out sends what is on disk, unless it was cleared, and removes the
\* mirrors of what is gone.
LEMMA FanOutCopies ==
  ASSUME HostInv, CopiesInv, NEW mem, mirrors' = FannedOut(mem),
         \A e \in DOMAIN mem : IsCopy(mem[e]) /\ (~Cleared(e) => mem[e] = BootDoc(e)),
         NEW s \in Sub, mirrors'[s].state = "live"
  PROVE  /\ mirrors[s].state = "live"
         /\ mirrors'[s].doc = mirrors[s].doc /\ mirrors'[s].doc \in DOMAIN mem
         /\ mirrors'[s].slot = mirrors[s].slot /\ mirrors'[s].peer = mirrors[s].peer
         /\ ~Cleared(mirrors[s].doc) => Follows(s, mirrors[s].doc)
         /\ IsCopy(mirrors'[s].has) /\ IsCopy(mirrors'[s].down)
<1> DEFINE m == mirrors[s]
<1>1. DOMAIN m = DOMAIN NoMirror
  BY DEF HostInv, Shapes
<1>2. m.state = "live" /\ m.doc \in DOMAIN mem
  BY <1>1 DEF FannedOut, NoMirror
<1>3. mirrors'[s] = [m EXCEPT !.down = @ \cup (mem[m.doc] \ m.sent), !.sent = mem[m.doc]]
  BY <1>2 DEF FannedOut
<1>4. /\ mirrors'[s].doc = m.doc /\ mirrors'[s].has = m.has /\ mirrors'[s].up = m.up
      /\ mirrors'[s].peer = m.peer /\ mirrors'[s].behind = m.behind /\ mirrors'[s].slot = m.slot
      /\ mirrors'[s].down = m.down \cup (mem[m.doc] \ m.sent)
  BY <1>1, <1>2, <1>3 DEF NoMirror
<1>5. ~Cleared(m.doc) => Follows(s, m.doc)
  BY <1>2, <1>4 DEF Follows, LiveOn
<1>6. IsCopy(m.has) /\ IsCopy(m.down) /\ IsCopy(mem[m.doc])
  BY <1>2 DEF CopiesInv, CopyTypes
<1>7. IsCopy(mem[m.doc] \ m.sent)
  BY <1>6, FS_Subset DEF IsCopy
<1>8. IsCopy(m.down \cup (mem[m.doc] \ m.sent))
  BY <1>6, <1>7, CopiesAre
<1> QED
  BY <1>2, <1>4, <1>5, <1>6, <1>8

\* The host changes in its connection only, and waits for nothing.
LEMMA HostAside ==
  ASSUME CopiesInv, Passwords', host.state = "serving",
         host'.state = host.state, host'.slot = host.slot, host'.token = host.token,
         host'.mem = host.mem, host'.held \subseteq host.held, DOMAIN host'.engine = DOMAIN host.mem,
         host'.asking \subseteq DOMAIN host.mem, host'.todo \notin {"create", "delete"},
         host'.ws => host'.token # 0, \A d \in DOMAIN host.mem : host'.engine[d] = "idle" => host'.ws,
         UNCHANGED <<secrets, row, disk, seen, gen, emptied, store, minted, mirrors, cmd, born, lapses>>
  PROVE  CopiesInv'
<1>1. CopyTypes' /\ Leases' /\ Numbering'
  BY CopiesStay DEF CopiesInv, FewerMirrors
<1>2. KeyDocs' /\ ServedFromDisk'
  BY KeyDocsStay, ServedStays DEF CopiesInv
<1>3. LocalRow'
  BY LocalStays DEF CopiesInv, LocalRow
<1>4. ASSUME NEW d \in Doc, InHand(d)' PROVE InHand(d) /\ (HostHas(d)' => HostHas(d))
  BY <1>4 DEF InHand, HostHas
<1>5. FirstCommits'
  BY <1>4, FirstStay DEF CopiesInv, SeenStays
<1> QED
  BY <1>1, <1>2, <1>3, <1>5 DEF CopiesInv

\* A pump takes to the server what the copies have; a workspace that is not
\* connected, or not served, has nothing to do with it.
LEMMA PumpCopies ==
  ASSUME HostInv, KeysInv, CopiesInv, Pump, UNCHANGED <<calls, lapses, cmd, accounts, born>>
  PROVE  CopiesInv'
<1>1. /\ host.state = "serving" /\ host.todo = "pump" /\ host' = [host EXCEPT !.todo = None]
      /\ mirrors' = FannedOut(host.mem) /\ UNCHANGED <<secrets, row, disk, gen, emptied, minted>>
      /\ DOMAIN host = DOMAIN Off /\ gen \in Nat /\ minted \in Nat
      /\ \A d \in DOMAIN host.mem : IsCopy(host.mem[d]) /\ (~Cleared(d) => host.mem[d] = BootDoc(d))
      /\ store = [d \in Doc |-> store[d]] /\ seen = [d \in Doc |-> seen[d]]
  BY DEF Pump, HostInv, Shapes, CopiesInv, CopyTypes, ServedFromDisk
<1>2. /\ host'.state = host.state /\ host'.slot = host.slot /\ host'.token = host.token
      /\ host'.mem = host.mem /\ host'.held = host.held /\ host'.engine = host.engine
      /\ host'.asking = host.asking /\ host'.todo = None /\ host'.ws = host.ws
  BY <1>1 DEF Off
<1>3. \A s \in Sub : mirrors'[s].state = "live" =>
        /\ mirrors[s].state = "live" /\ mirrors'[s].doc = mirrors[s].doc
        /\ mirrors'[s].slot = mirrors[s].slot /\ mirrors'[s].peer = mirrors[s].peer
        /\ ~Cleared(mirrors[s].doc) => Follows(s, mirrors[s].doc)
        /\ IsCopy(mirrors'[s].has) /\ IsCopy(mirrors'[s].down)
  BY <1>1, FanOutCopies
<1>4. /\ store' = [d \in Doc |-> store'[d]] /\ seen' = [d \in Doc |-> seen'[d]]
      /\ \A d \in Doc :
           \/ store'[d] = store[d] /\ seen'[d] = seen[d]
           \/ /\ d \in DOMAIN host.mem /\ host.ws /\ store'[d] = store[d] \cup host.mem[d]
              /\ seen'[d] \subseteq seen[d] \cup host.mem[d]
  <2>1. CASE UNCHANGED <<store, seen>>
    BY <1>1, <2>1
  <2>2. CASE host.ws /\ \E due \in SUBSET DOMAIN host.mem :
               /\ store' = [d \in Doc |-> store[d] \cup IF d \in due THEN host.mem[d] ELSE {}]
               /\ seen' = [d \in Doc |-> IF d \in due /\ store[d] \subseteq seen[d]
                                       THEN store[d] \cup host.mem[d] ELSE seen[d]]
    BY <2>2
  <2> QED
    BY <2>1, <2>2 DEF Pump
<1>5. CopyTypes'
  <2>1. \A S : IsCopy(S) => IsCopy(S)'
    BY <1>1, PeersStay
  <2>2. \A d \in Doc : IsCopy(store'[d])
    BY <1>1, <1>4, CopiesAre DEF CopiesInv, CopyTypes
  <2>3. \A d \in DOMAIN disk : IsCopy(disk[d])
    BY DEF CopiesInv, CopyTypes
  <2> QED
    BY <1>1, <1>2, <1>3, <1>4, <2>1, <2>2, <2>3 DEF CopyTypes
<1>6. Leases'
  BY <1>1, <1>2, <1>3 DEF CopiesInv, Leases, PeerOf
<1>7. ASSUME NEW d \in Doc PROVE NumberedAt(d)'
  <2>1. BootDoc(d)' = BootDoc(d)
    BY <1>1 DEF BootDoc
  <2>2. ~Damaged(d)' => ~Cleared(d)
    BY StillSound
  <2>3. ~Cleared(d) => \A s \in Sub : LiveOn(s, d)' => Follows(s, d)
    BY <1>3 DEF LiveOn
  <2>4. ~Cleared(d) => /\ seen'[d] \subseteq seen[d] \cup BootDoc(d)
                       /\ store'[d] = store[d] \/ store'[d] = store[d] \cup BootDoc(d)
    BY <1>1, <1>4
  <2> QED
    BY <1>1, <2>1, <2>2, <2>3, <2>4, DocStays DEF CopiesInv, Numbering
<1>8. KeyDocs' /\ ServedFromDisk' /\ Passwords'
  BY <1>1, <1>2, KeyDocsStay, ServedStays, NoRequest, PasswordsStay DEF CopiesInv, ServedFromDisk
<1>9. \A d \in Doc : d \notin DOMAIN host.mem \/ ~host.ws => (Unpushed(d)' <=> Unpushed(d))
  BY <1>1, <1>4, PeersStay DEF Unpushed
<1>10. LocalRow'
  <2>0. PICK d : d = row.primary
    OBVIOUS
  <2>1. row # NoFile /\ row.account = None => ~host.ws
    BY <1>1 DEF CopiesInv, LocalRow, KeysInv, HostKeyed
  <2>2. row # NoFile /\ row.account = None /\ d \in Doc => Unpushed(d)'
    BY <1>9, <2>0, <2>1 DEF CopiesInv, LocalRow
  <2>3. Unpushed(d)' => Unpushed(row.primary)'
    BY <1>1, <2>0 DEF Unpushed
  <2> QED
    BY <1>1, <1>2, <2>0, <2>2, <2>3 DEF CopiesInv, LocalRow
<1>11. FirstCommits'
  <2>1. \A d \in Doc : (InHand(d)' <=> InHand(d)) /\ (HostHas(d)' => HostHas(d))
    BY <1>1, <1>2 DEF InHand, HostHas, None
  <2>2. \A d \in Doc : (d \in DOMAIN host'.mem => d \in born') /\ (d \notin born' => Unpushed(d)')
    BY <1>2, <1>9 DEF CopiesInv, FirstCommits
  <2>3. ASSUME NEW d \in Doc, InHand(d)' PROVE Unpushed(d)' /\ ~HostHas(d)'
    <3>1. Unpushed(d) /\ ~HostHas(d)
      BY <2>1, <2>3 DEF CopiesInv, FirstCommits
    <3>2. d \notin DOMAIN host.mem
      BY <3>1 DEF HostHas
    <3> QED
      BY <1>9, <2>1, <3>1, <3>2
  <2> QED
    BY <1>2, <2>2, <2>3 DEF FirstCommits, None
<1> QED
  BY <1>5, <1>6, <1>7, <1>8, <1>10, <1>11 DEF CopiesInv, Numbering

\* forget_doc: a copy that comes back starts over.
LEMMA ForgetCopies ==
  ASSUME HostInv, CopiesInv, Passwords', host.state = "serving", NEW d \in Doc, ForgetDoc(d),
         host'.state = host.state, host'.slot = host.slot, host'.token = host.token,
         host'.ws = host.ws, host'.held = host.held, host'.mem = Drop(host.mem, {d}),
         host'.engine = Drop(host.engine, {d}), host'.asking = host.asking \ {d}, host'.todo = None,
         mirrors' = FannedOut(Drop(host.mem, {d})),
         UNCHANGED <<store, minted, cmd, accounts, born, lapses>>
  PROVE  CopiesInv'
<1>1. /\ secrets'.keys = secrets.keys \ {d} /\ secrets'.token = secrets.token
      /\ disk' = Drop(disk, {d}) /\ emptied' = emptied \cup {d} /\ UNCHANGED <<row, gen>>
      /\ seen' = [seen EXCEPT ![d] = {}]
  BY DEF ForgetDoc, HostInv, Shapes, NoFile
<1>2. /\ DOMAIN host'.mem = DOMAIN host.mem \ {d} /\ DOMAIN host'.engine = DOMAIN host.engine \ {d}
      /\ \A e \in DOMAIN host'.mem : host'.mem[e] = host.mem[e]
      /\ \A e \in DOMAIN host'.engine : host'.engine[e] = host.engine[e]
      /\ DOMAIN disk' = DOMAIN disk \ {d} /\ \A e \in DOMAIN disk' : disk'[e] = disk[e]
  BY <1>1 DEF Drop
<1>3. \A e : BootDoc(e)' = IF e = d THEN {} ELSE BootDoc(e)
  BY <1>2 DEF BootDoc
<1>4. /\ \A e \in DOMAIN host.mem : IsCopy(host.mem[e]) /\ (~Cleared(e) => host.mem[e] = BootDoc(e))
      /\ seen = [e \in Doc |-> seen[e]] /\ DOMAIN host.engine = DOMAIN host.mem
  BY DEF CopiesInv, ServedFromDisk, CopyTypes
<1>5. seen' = [e \in Doc |-> seen'[e]] /\ \A e \in Doc : seen'[e] = IF e = d THEN {} ELSE seen[e]
  BY <1>1, <1>4
<1>6. \A s \in Sub : mirrors'[s].state = "live" =>
        /\ mirrors[s].state = "live" /\ mirrors'[s].doc = mirrors[s].doc /\ mirrors'[s].doc # d
        /\ mirrors'[s].slot = mirrors[s].slot /\ mirrors'[s].peer = mirrors[s].peer
        /\ ~Cleared(mirrors[s].doc) => Follows(s, mirrors[s].doc)
        /\ IsCopy(mirrors'[s].has) /\ IsCopy(mirrors'[s].down)
  <2> DEFINE mem == Drop(host.mem, {d})
  <2>1. /\ DOMAIN mem = DOMAIN host.mem \ {d}
        /\ \A e \in DOMAIN mem : IsCopy(mem[e]) /\ (~Cleared(e) => mem[e] = BootDoc(e))
    BY <1>2, <1>4
  <2> HIDE DEF mem
  <2>2. mirrors' = FannedOut(mem)
    BY DEF mem
  <2> QED
    BY <2>1, <2>2, FanOutCopies
<1>7. CopyTypes'
  <2>1. \A S : IsCopy(S) => IsCopy(S)'
    BY <1>1, PeersStay
  <2>2. /\ \A e \in DOMAIN host'.mem : IsCopy(host'.mem[e])
        /\ \A e \in DOMAIN disk' : IsCopy(disk'[e])
    BY <1>2, <1>4 DEF CopiesInv, CopyTypes
  <2> QED
    BY <1>5, <1>1, <1>6, <2>1, <2>2 DEF CopiesInv, CopyTypes
<1>8. Leases'
  BY <1>1, <1>6, LeasesStay DEF CopiesInv
<1>9. ASSUME NEW e \in Doc PROVE NumberedAt(e)'
  <2>1. NumberedAt(e)
    BY DEF CopiesInv, Numbering
  <2>2. CASE e = d
    <3>1. \A s \in Sub : ~LiveOn(s, e)'
      BY <1>6, <2>2 DEF LiveOn
    <3>2. BootDoc(e)' = {} /\ e \in emptied' /\ seen'[e] = {}
      BY <1>5, <1>1, <1>3, <2>2
    <3> QED
      BY <1>1, <2>1, <3>1, <3>2, DocBegins
  <2>3. CASE e # d
    <3>1. ~Damaged(e)' => \A s \in Sub : LiveOn(s, e)' => Follows(s, e)
      BY <1>6, StillSound DEF LiveOn
    <3>2. BootDoc(e)' = BootDoc(e) /\ seen'[e] = seen[e]
      BY <1>5, <1>3, <2>3
    <3> QED
      BY <1>1, <2>1, <3>1, <3>2, DocStays
  <2> QED
    BY <2>2, <2>3
<1>10. KeyDocs' /\ ServedFromDisk'
  <2>1. \A e : Cleared(e)' <=> Cleared(e)
    BY DEF Cleared
  <2>2. \A e \in DOMAIN host'.mem : ~Cleared(e)' => host'.mem[e] = BootDoc(e)'
    BY <1>2, <1>3, <1>4, <2>1
  <2> QED
    BY <1>1, <1>2, <1>4, <2>2 DEF CopiesInv, KeyDocs, ServedFromDisk
<1>11. LocalRow'
  BY <1>5, <1>1, <1>2, <1>4, LocalStays DEF CopiesInv, LocalRow
<1>12. ASSUME NEW e \in Doc, InHand(e)' PROVE InHand(e) /\ (HostHas(e)' => HostHas(e))
  BY <1>1, <1>2, <1>12 DEF InHand, HostHas, None
<1>13. FirstCommits'
  BY <1>5, <1>1, <1>2, <1>12, FirstStay DEF CopiesInv, SeenStays, None
<1> QED
  BY <1>7, <1>8, <1>9, <1>10, <1>11, <1>13 DEF CopiesInv, Numbering

\* What is past the cursor joins the host's copy: with what is behind it, all
\* that the server has.
LEMMA MergeCopies ==
  ASSUME HostInv, KeysInv, CopiesInv, Serving, NEW d \in DOMAIN host.mem, Merged(d),
         host.ws \/ host.engine[d] = "idle",
         UNCHANGED <<store, minted, calls, lapses, cmd, accounts, born>>
  PROVE  CopiesInv'
<1> DEFINE ops == host.mem[d] \cup (store[d] \ seen[d])
<1>1. /\ host.state = "serving" /\ d \in Doc /\ IsCopy(host.mem[d]) /\ IsCopy(store[d])
      /\ host' = [host EXCEPT !.mem[d] = ops, !.engine[d] = "idle", !.todo = "pump"]
      /\ Persisted(d, ops) /\ emptied' = emptied \ {d} /\ seen' = [seen EXCEPT ![d] = store[d]]
      /\ UNCHANGED <<secrets, row, gen, mirrors>>
      /\ DOMAIN host = DOMAIN Off /\ gen \in Nat /\ minted \in Nat
      /\ seen = [e \in Doc |-> seen[e]]
      /\ \A e \in DOMAIN host.mem : host.engine[e] = "idle" => host.ws
  BY DEF Merged, Serving, HostInv, Shapes, CopiesInv, CopyTypes, KeyDocs, LocalRow
<1>2. IsCopy(ops)
  <2>1. IsCopy(store[d] \ seen[d])
    BY <1>1, FS_Subset DEF IsCopy
  <2> QED
    BY <1>1, <2>1, CopiesAre
<1>3. seen' = [e \in Doc |-> seen'[e]] /\ \A e \in Doc : seen'[e] = IF e = d THEN store[d] ELSE seen[e]
  BY <1>1
<1>4. host.mem[d] \subseteq ops /\ (host.mem[d] = BootDoc(d) /\ seen[d] \subseteq BootDoc(d)
                                    => ops = BootDoc(d) \cup store[d])
  OBVIOUS
<1> HIDE DEF ops
<1>5. /\ \A e : e # d => BootDoc(e)' = BootDoc(e)
      /\ ~Cleared(d) => host.mem[d] = BootDoc(d) /\ BootDoc(d)' = ops
  BY <1>1, <1>2, <1>4, PersistedIs
<1>6. ASSUME NEW e \in Doc PROVE NumberedAt(e)'
  <2>1. NumberedAt(e) /\ \A s \in Sub : LiveOn(s, e)' => Follows(s, e) /\ mirrors[s].peer \in Mine
    BY <1>1, LiveIs DEF CopiesInv, Numbering, LiveOn, Follows
  <2>2. CASE e # d
    BY <1>1, <1>3, <1>5, <2>1, <2>2, DocStays
  <2>3. CASE e = d
    <3>1. ASSUME ~Damaged(d)' PROVE BootDoc(d)' = BootDoc(d) \cup store[d]
      <4>1. ~Cleared(d) /\ seen[d] \subseteq BootDoc(d)
        BY <2>1, <2>3, <3>1, StillSound DEF NumberedAt, CopyNumbered
      <4> QED
        BY <1>4, <1>5, <4>1
    <3> QED
      BY <1>1, <1>3, <2>1, <2>3, <3>1, DocMerges
  <2> QED
    BY <2>2, <2>3
<1>7. /\ host'.state = host.state /\ host'.slot = host.slot /\ host'.token = host.token
      /\ host'.ws = host.ws /\ host'.held = host.held /\ host'.mem = [host.mem EXCEPT ![d] = ops]
      /\ host'.engine = [host.engine EXCEPT ![d] = "idle"] /\ host'.asking = host.asking
      /\ host'.todo = "pump"
  BY <1>1 DEF Off
<1>8. Numbering'
  BY <1>6 DEF Numbering
<1>9. host.ws
  BY <1>1
<1>10. row # NoFile /\ row.account = None => seen'[d] = seen[d]
  BY <1>1, <1>9 DEF CopiesInv, LocalRow, KeysInv, HostKeyed
<1>11. DOMAIN host'.engine = DOMAIN host.engine
  BY <1>7
<1> QED
  BY <1>1, <1>2, <1>3, <1>7, <1>8, <1>4, <1>9, <1>10, <1>11, HostGrows

\* A connection of the host comes or goes.
LEMMA ConnectCopies ==
  ASSUME HostInv, CopiesInv, Passwords', Serving,
         \/ host' = host
         \/ host' = Disconnected(host)
         \/ /\ host.token # 0
            /\ host' = [host EXCEPT !.ws = TRUE, !.engine = [d \in DOMAIN host.mem |-> "opening"],
                                    !.asking = DOMAIN host.mem],
         UNCHANGED <<secrets, row, disk, seen, gen, emptied, store, minted, mirrors, cmd, born, lapses>>
  PROVE  CopiesInv'
<1>1. /\ host.state = "serving" /\ host.todo = None /\ DOMAIN host = DOMAIN Off
      /\ DOMAIN host.engine = DOMAIN host.mem /\ host.asking \subseteq DOMAIN host.mem
      /\ host.ws => host.token # 0
      /\ \A d \in DOMAIN host.mem : host.engine[d] = "idle" => host.ws
  BY DEF Serving, HostInv, Shapes, CopiesInv, ServedFromDisk, LocalRow
<1>2. /\ host'.state = host.state /\ host'.slot = host.slot /\ host'.token = host.token
      /\ host'.mem = host.mem /\ host'.held = host.held /\ DOMAIN host'.engine = DOMAIN host.mem
      /\ host'.asking \subseteq DOMAIN host.mem /\ host'.todo = None
      /\ host'.ws => host'.token # 0
      /\ \A d \in DOMAIN host.mem : host'.engine[d] = "idle" => host'.ws
  BY <1>1 DEF Off, Disconnected
<1> QED
  BY <1>1, <1>2, HostAside DEF None

\* on_ws_message.
LEMMA FrameCopies ==
  ASSUME HostInv, KeysInv, CopiesInv, HostFrame, UNCHANGED <<calls, lapses, cmd, accounts, born>>
  PROVE  CopiesInv'
<1>1. /\ Serving /\ host.ws /\ UNCHANGED <<store, minted>> /\ Passwords' /\ DOMAIN host = DOMAIN Off
  BY DEF HostFrame, HostInv, Shapes, CopiesInv, Passwords
<1>2. PICK d : d = Head(conns[HostConn].wire).doc
  OBVIOUS
<1>3. CASE host' \in {host, Disconnected(host)} /\ UNCHANGED mirrors /\ UNCHANGED profileVars
  BY <1>1, <1>3, ConnectCopies DEF profileVars
<1>4. CASE d \in DOMAIN host.mem /\ Merged(d)
  BY <1>1, <1>4, MergeCopies
<1>5. CASE /\ d \in DOMAIN host.mem /\ host' = Forgotten(host, d)
           /\ mirrors' = FannedOut(Drop(host.mem, {d})) /\ ForgetDoc(d)
  <2>1. /\ host'.state = host.state /\ host'.slot = host.slot /\ host'.token = host.token
        /\ host'.ws = host.ws /\ host'.held = host.held /\ host'.mem = Drop(host.mem, {d})
        /\ host'.engine = Drop(host.engine, {d}) /\ host'.asking = host.asking \ {d}
        /\ host'.todo = None /\ host.state = "serving" /\ d \in Doc
    BY <1>1, <1>5 DEF Forgotten, Serving, Off, CopiesInv, KeyDocs
  <2> QED
    BY <1>1, <1>5, <2>1, ForgetCopies
<1> QED
  BY <1>2, <1>3, <1>4, <1>5 DEF HostFrame

\* The workspace that was created starts from its first commit.
LEMMA CreatedCopies ==
  ASSUME AccessInv, HostInv, KeysInv, CopiesInv, Passwords', host.state = "serving", WorkspaceCreated,
         UNCHANGED <<store, lapses, cmd, accounts, born>>
  PROVE  CopiesInv'
<1>0. PICK d : d = calls[HostClient].doc
  OBVIOUS
<1>1. PICK o : o = Minted(PeerOf(host.slot), {})
  OBVIOUS
<1>2. /\ host.todo = "create" /\ secrets' = [secrets EXCEPT !.keys = host.held \cup {d}]
      /\ disk' = Put(disk, d, {o}) /\ minted' = minted + 1
      /\ host' = [host EXCEPT !.todo = "pump", !.held = {}, !.mem = Put(@, d, {o}),
                              !.engine = Put(@, d, IF host.ws THEN "opening" ELSE "off"),
                              !.asking = IF host.ws THEN @ \cup {d} ELSE @]
      /\ UNCHANGED <<row, seen, gen, emptied, mirrors>>
      /\ DOMAIN host = DOMAIN Off /\ DOMAIN secrets = DOMAIN NoFile
      /\ gen \in Nat /\ minted \in Nat /\ host.slot \in Nat
  BY <1>0, <1>1 DEF WorkspaceCreated, Saved, HostInv, Shapes, CopiesInv, CopyTypes, Leases
<1>3. d \in Doc
  BY <1>0, <1>2, ClientsAssumption DEF KeysInv, HostKeyed, AccessInv, Requests, RequestOK
<1>4. Unpushed(d) /\ d \notin DOMAIN host.mem
  BY <1>0, <1>2, <1>3 DEF CopiesInv, FirstCommits
<1>5. o \in Commits /\ o.peer \in Mine /\ o.n = 0
  BY <1>1, <1>2, PeersAre, MintedIs, FS_EmptySet
<1>6. /\ host'.state = host.state /\ host'.slot = host.slot /\ host'.token = host.token
      /\ host'.ws = host.ws /\ host'.held = {} /\ host'.todo = "pump"
      /\ host'.mem = Put(host.mem, d, {o}) /\ DOMAIN host'.engine = DOMAIN host.engine \cup {d}
      /\ \A e \in DOMAIN host'.engine : host'.engine[e] = "idle" => e # d /\ host'.engine[e] = host.engine[e]
      /\ host'.asking \subseteq host.asking \cup {d}
      /\ secrets'.keys = host.held \cup {d} /\ secrets'.token = secrets.token
  BY <1>2 DEF Off, NoFile, Put
<1>7. /\ DOMAIN host'.mem = DOMAIN host.mem \cup {d}
      /\ \A e \in DOMAIN host'.mem : host'.mem[e] = IF e = d THEN {o} ELSE host.mem[e]
      /\ DOMAIN disk' = DOMAIN disk \cup {d}
      /\ \A e \in DOMAIN disk' : disk'[e] = IF e = d THEN {o} ELSE disk[e]
  BY <1>2, <1>6 DEF Put
<1>8. \A e : BootDoc(e)' = IF e = d THEN {o} ELSE BootDoc(e)
  BY <1>7 DEF BootDoc
<1>9. CopyTypes'
  <2>1. IsCopy({o}) /\ \A S : IsCopy(S) => IsCopy(S)'
    BY <1>2, <1>5, CopiesAre, PeersStay
  <2>2. minted' \in Nat
    BY <1>2
  <2>3. /\ \A e \in DOMAIN host'.mem : IsCopy(host'.mem[e])
        /\ \A e \in DOMAIN disk' : IsCopy(disk'[e])
    BY <1>7, <2>1 DEF CopiesInv, CopyTypes
  <2> QED
    BY <1>2, <2>1, <2>2, <2>3 DEF CopiesInv, CopyTypes
<1>10. Leases'
  BY <1>2, <1>6 DEF CopiesInv, Leases, PeerOf
<1>11. ASSUME NEW e \in Doc PROVE NumberedAt(e)'
  <2>1. NumberedAt(e) /\ \A s \in Sub : LiveOn(s, e)' => Follows(s, e)
    BY <1>2 DEF CopiesInv, Numbering, LiveOn, Follows
  <2>2. CASE e = d
    <3>1. \A s \in Sub : ~LiveOn(s, e)'
      BY <1>2, <1>4, <2>2, LiveIs DEF CopiesInv, LiveOn
    <3>2. BootDoc(e)' = {o} /\ Unpushed(e) /\ seen'[e] = {}
      BY <1>2, <1>4, <1>8, <2>2 DEF Unpushed
    <3> QED
      BY <1>2, <1>5, <2>1, <3>1, <3>2, DocBegins
  <2>3. CASE e # d
    BY <1>2, <1>8, <2>1, <2>3, DocStays
  <2> QED
    BY <2>2, <2>3
<1>12. KeyDocs'
  BY <1>2, <1>3, <1>6, <1>7 DEF CopiesInv, KeyDocs
<1>13. ServedFromDisk'
  <2>1. /\ DOMAIN host.engine = DOMAIN host.mem /\ host.asking \subseteq DOMAIN host.mem
        /\ \A e \in DOMAIN host.mem : ~Cleared(e) => host.mem[e] = BootDoc(e)
    BY DEF CopiesInv, ServedFromDisk
  <2>2. \A e \in DOMAIN host'.mem : ~Cleared(e)' => host'.mem[e] = BootDoc(e)'
    BY <1>7, <1>8, <2>1 DEF Cleared
  <2>3. DOMAIN host'.engine = DOMAIN host'.mem /\ host'.asking \subseteq DOMAIN host'.mem
    BY <1>6, <1>7, <2>1
  <2> QED
    BY <1>6, <2>2, <2>3 DEF ServedFromDisk
<1>14. LocalRow'
  <2>1. \A e \in DOMAIN host'.mem : host'.engine[e] = "idle" => host'.ws
    BY <1>6, <1>7 DEF CopiesInv, LocalRow, ServedFromDisk
  <2> QED
    BY <1>2, <1>6, <2>1, LocalStays DEF CopiesInv, LocalRow
<1>15. FirstCommits'
  <2>1. d \in born
    BY <1>0, <1>2, <1>3, HostHasBorn DEF HostHas, CopiesInv
  <2>2. \A e : Unpushed(e)' <=> Unpushed(e)
    BY <1>2, PeersStay DEF Unpushed
  <2>3. \A e \in Doc : (InHand(e)' <=> InHand(e)) /\ (HostHas(e)' => HostHas(e))
    BY <1>0, <1>2, <1>6, <1>7 DEF InHand, HostHas
  <2> QED
    BY <1>6, <1>7, <2>1, <2>2, <2>3 DEF CopiesInv, FirstCommits
<1> QED
  BY <1>9, <1>10, <1>11, <1>12, <1>13, <1>14, <1>15 DEF CopiesInv, Numbering

\* The reply to a request of the host.
LEMMA ReplyCopies ==
  ASSUME AccessInv, HostInv, KeysInv, CopiesInv, HostReply, UNCHANGED <<lapses, cmd, accounts, born>>
  PROVE  CopiesInv'
<1>1. host.state = "serving" /\ UNCHANGED store /\ DOMAIN host = DOMAIN Off
  BY DEF HostReply, HostInv, Shapes
<1>2. Passwords'
  <2>1. \A c \in Client : calls'[c] = IF c = HostClient THEN Idle ELSE calls[c]
    BY DEF HostReply, AccessInv, Requests
  <2>2. Idle.op = None
    BY DEF Idle
  <2> QED
    BY <2>1, <2>2 DEF CopiesInv, Passwords, None
<1>3. CASE WorkspaceCreated
  BY <1>1, <1>2, <1>3, CreatedCopies
<1>4. CASE WorkspaceDeleted
  <2>0. PICK d : d = calls[HostClient].doc
    OBVIOUS
  <2>1. /\ host.todo = "delete" /\ host' = [Forgotten(host, d) EXCEPT !.todo = None]
        /\ mirrors' = FannedOut(Drop(host.mem, {d})) /\ ForgetDoc(d) /\ UNCHANGED minted
    BY <1>4, <2>0 DEF WorkspaceDeleted
  <2>2. d \in DOMAIN host.mem /\ d \in Doc
    BY <2>0, <2>1 DEF CopiesInv, FirstCommits, KeyDocs
  <2>3. /\ host'.state = host.state /\ host'.slot = host.slot /\ host'.token = host.token
        /\ host'.ws = host.ws /\ host'.held = host.held /\ host'.mem = Drop(host.mem, {d})
        /\ host'.engine = Drop(host.engine, {d}) /\ host'.asking = host.asking \ {d}
        /\ host'.todo = None
    BY <1>1, <2>1 DEF Forgotten, Off
  <2> QED
    BY <1>1, <1>2, <2>1, <2>2, <2>3, ForgetCopies
<1>5. CASE WorkspaceFailed
  <2>1. /\ host' = [host EXCEPT !.todo = None, !.held = {}]
        /\ UNCHANGED <<mirrors, minted, secrets, row, disk, seen, gen, emptied>>
    BY <1>5 DEF WorkspaceFailed, profileVars
  <2>2. /\ host'.state = host.state /\ host'.slot = host.slot /\ host'.token = host.token
        /\ host'.mem = host.mem /\ host'.held = {} /\ host'.engine = host.engine
        /\ host'.asking = host.asking /\ host'.todo = None /\ host'.ws = host.ws
    BY <1>1, <2>1 DEF Off
  <2>3. /\ DOMAIN host.engine = DOMAIN host.mem /\ host.asking \subseteq DOMAIN host.mem
        /\ host.ws => host.token # 0
        /\ \A d \in DOMAIN host.mem : host.engine[d] = "idle" => host.ws
    BY DEF CopiesInv, ServedFromDisk, LocalRow
  <2> QED
    BY <1>1, <1>2, <2>1, <2>2, <2>3, HostAside DEF None
<1> QED
  BY <1>3, <1>4, <1>5 DEF HostReply

\* The socket to the server, and the replies.
LEMMA NetworkCopies ==
  ASSUME AccessInv, HostInv, KeysInv, CopiesInv, NetworkStep, UNCHANGED <<accounts, born, cmd>>
  PROVE  CopiesInv'
<1>1. UNCHANGED lapses
  BY DEF NetworkStep
<1>2. CASE (HostDisconnect \/ HostConnect) /\ UNCHANGED calls
  <2>1. Passwords'
    BY <1>2 DEF CopiesInv, Passwords
  <2> QED
    BY <1>1, <1>2, <2>1, ConnectCopies DEF HostDisconnect, HostConnect, profileVars
<1>3. ASSUME NEW d \in Doc, HostBroadcast(d), UNCHANGED calls PROVE CopiesInv'
  BY <1>1, <1>3, MergeCopies DEF HostBroadcast
<1> QED
  BY <1>1, <1>2, <1>3, PumpCopies, FrameCopies, ReplyCopies DEF NetworkStep

\* Every step of the host and its windows.
LEMMA HostCopies ==
  ASSUME AccessInv, HostInv, KeysInv, CopiesInv, HostStep, UNCHANGED <<accounts, born, cmd>>
  PROVE  CopiesInv'
BY LifeCopies, EditCopies, NetworkCopies DEF HostStep

-----------------------------------------------------------------------------
(* Workspaces *)

\* A document that a command has in hand was chosen.
LEMMA InHandBorn ==
  ASSUME HostInv, KeysInv, NEW d \in Doc, InHand(d)
  PROVE  d \in born
<1>1. CASE cmd.op = "init" /\ d \in cmd.keys
  BY <1>1 DEF KeysInv, Chosen, Local
<1>2. CASE cmd.op = "signup" /\ cmd.at = "http" /\ d \in cmd.keys
  <2>1. calls[CmdClient].op = "signup" /\ calls[CmdClient].doc = d
    BY <1>2 DEF HostInv, Waiting, KeysInv, CmdKeyed, AskKeyed
  <2> QED
    BY <2>1 DEF KeysInv, Chosen, Local
<1>3. CASE cmd.op = "signup" /\ cmd.at \in {"claim", "seed"} /\ d \in cmd.keys
  BY <1>3 DEF KeysInv, Chosen, Held, Joining, Joined
<1> QED
  BY <1>1, <1>2, <1>3 DEF InHand

\* The host asks for a workspace with an id that was never chosen before, or
\* to delete one that it serves.
LEMMA WorkspaceCopies ==
  ASSUME AccessInv, HostInv, KeysInv, CopiesInv, WorkspaceStep, UNCHANGED <<accounts, cmd>>
  PROVE  CopiesInv'
<1>1. /\ UNCHANGED <<mirrors, store, minted, lapses, secrets, row, disk, seen, gen, emptied>>
      /\ DOMAIN host = DOMAIN Off
  BY DEF WorkspaceStep, profileVars, HostInv, Shapes
<1>2. PICK d \in Doc : \/ NewDoc(d) /\ CreateWorkspace(d)
                       \/ DeleteWorkspace(d) /\ UNCHANGED born
  BY DEF WorkspaceStep
<1>3. /\ host.state = "serving"
      /\ host'.state = host.state /\ host'.slot = host.slot /\ host'.mem = host.mem
      /\ host'.engine = host.engine /\ host'.asking = host.asking /\ host'.ws = host.ws
      /\ host'.token = host.token
  BY <1>1, <1>2 DEF CreateWorkspace, DeleteWorkspace, Serving, Off
<1>4. CopyTypes' /\ Leases' /\ Numbering'
  BY <1>1, <1>3, CopiesStay DEF CopiesInv, FewerMirrors
<1>5. ServedFromDisk'
  BY <1>1, <1>3, ServedStays DEF CopiesInv, ServedFromDisk
<1>6. LocalRow'
  BY <1>1, <1>3, LocalStays DEF CopiesInv, LocalRow
<1>7. \A e : Unpushed(e)' <=> Unpushed(e)
  BY <1>1, PeersStay DEF Unpushed
<1>8. ASSUME NEW q, calls' = [calls EXCEPT ![HostClient] = q],
             q.op \notin {"signup", "password", "reset"}
      PROVE  Passwords' /\ calls'[HostClient] = q
  <2>1. \A c \in Client : calls'[c] = IF c = HostClient THEN q ELSE calls[c]
    BY <1>8 DEF AccessInv, Requests
  <2> QED
    BY <1>8, <2>1, ClientsAssumption DEF CopiesInv, Passwords
<1>9. CASE NewDoc(d) /\ CreateWorkspace(d)
  <2> DEFINE q == [Request("createDoc", "auth") EXCEPT !.token = secrets.token, !.doc = d,
                                                       !.home = host.primary]
  <2>1. /\ calls' = [calls EXCEPT ![HostClient] = q] /\ d \notin born /\ born' = born \cup {d}
        /\ host' = [host EXCEPT !.todo = "create", !.held = secrets.keys]
    BY <1>9 DEF CreateWorkspace, NewDoc, Send
  <2>2. q.op = "createDoc" /\ q.doc = d
    BY DEF Request, Idle
  <2> HIDE DEF q
  <2>3. Passwords' /\ calls'[HostClient].doc = d
    BY <1>8, <2>1, <2>2
  <2>4. host'.todo = "create" /\ host'.held = secrets.keys
    BY <1>1, <2>1 DEF Off
  <2>5. KeyDocs'
    BY <1>1, <1>3, <2>4 DEF CopiesInv, KeyDocs
  <2>6. Unpushed(d) /\ d \notin DOMAIN host.mem
    BY <2>1 DEF CopiesInv, FirstCommits
  <2>7. ASSUME NEW e \in Doc, InHand(e)' PROVE Unpushed(e)' /\ ~HostHas(e)'
    <3>1. InHand(e)
      BY <2>7 DEF InHand
    <3>2. Unpushed(e) /\ ~HostHas(e) /\ e # d
      BY <2>1, <3>1, InHandBorn DEF CopiesInv, FirstCommits
    <3> QED
      BY <1>1, <1>3, <1>7, <2>3, <2>4, <3>2 DEF HostHas
  <2>8. FirstCommits'
    <3>1. \A e \in Doc : (e \in DOMAIN host'.mem => e \in born') /\ (e \notin born' => Unpushed(e)')
      BY <1>3, <1>7, <2>1 DEF CopiesInv, FirstCommits
    <3>2. Unpushed(calls[HostClient].doc)' /\ calls'[HostClient].doc \notin DOMAIN host'.mem
      BY <1>1, <1>3, <2>3, <2>6, PeersStay DEF Unpushed
    <3> QED
      BY <2>4, <2>7, <3>1, <3>2 DEF FirstCommits
  <2> QED
    BY <1>4, <1>5, <1>6, <2>3, <2>5, <2>8 DEF CopiesInv
<1>10. CASE DeleteWorkspace(d) /\ UNCHANGED born
  <2> DEFINE q == [Request("deleteDoc", "auth") EXCEPT !.token = secrets.token, !.doc = d]
  <2>1. /\ calls' = [calls EXCEPT ![HostClient] = q] /\ d \in DOMAIN host.mem
        /\ host' = [host EXCEPT !.todo = "delete"]
    BY <1>10 DEF DeleteWorkspace, Candidates, Send
  <2>2. q.op = "deleteDoc" /\ q.doc = d
    BY DEF Request, Idle
  <2> HIDE DEF q
  <2>3. Passwords' /\ calls'[HostClient].doc = d
    BY <1>8, <2>1, <2>2
  <2>4. host'.todo = "delete" /\ host'.held = host.held
    BY <1>1, <2>1 DEF Off
  <2>5. KeyDocs'
    BY <1>1, <1>3, <2>4 DEF CopiesInv, KeyDocs
  <2>6. \A e \in Doc : (InHand(e)' <=> InHand(e)) /\ (HostHas(e)' => HostHas(e))
    BY <1>1, <1>3, <2>4 DEF InHand, HostHas
  <2>7. FirstCommits'
    BY <1>3, <1>7, <1>10, <2>1, <2>3, <2>4, <2>6 DEF CopiesInv, FirstCommits
  <2> QED
    BY <1>4, <1>5, <1>6, <2>3, <2>5, <2>7 DEF CopiesInv
<1> QED
  BY <1>2, <1>9, <1>10

-----------------------------------------------------------------------------
(* Commands *)

\* What a command has in hand, apart from the profile.
CmdOK ==
  /\ cmd.keys \subseteq Doc
  /\ cmd.held.keys \subseteq Doc
  /\ cmd.at \in {"key", "clear", "reseed"} => cmd.doc \in Doc
  /\ cmd.op \in {"password", "recover"} => cmd.new \in Password
  /\ cmd.op \in Joining => cmd.account # None
  /\ cmd.op = "signup" /\ cmd.at = "seed" => cmd.adopt = 0

AskOK(q) ==
  /\ q.op = "signup" => q.password \in Password
  /\ q.op \in {"password", "reset"} => q.new \in Password

\* A command and the requests under way keep to it.
LEMMA CmdIsOK ==
  ASSUME CopiesInv
  PROVE  CmdOK /\ AskOK(Idle) /\ \A c \in Client : AskOK(calls[c])
BY DEF CopiesInv, KeyDocs, Passwords, LocalRow, CmdOK, AskOK, Idle, None

\* Only the command's own request changes.
LEMMA AsksAre ==
  ASSUME Requests, NEW q, calls' = [calls EXCEPT ![CmdClient] = q], AskOK(q)
  PROVE  AskOK(calls[CmdClient])' /\ \A c \in Client \ {CmdClient} : calls'[c] = calls[c]
<1>1. calls'[CmdClient] = q /\ \A c \in Client \ {CmdClient} : calls'[c] = calls[c]
  BY ClientsAssumption DEF Requests
<1> QED
  BY <1>1 DEF AskOK

\* A step of a command that writes nothing.
LEMMA CmdAside ==
  ASSUME CopiesInv, UNCHANGED <<secrets, row, disk, seen, gen, emptied, store, minted, mirrors, accounts>>,
         host'.state = host.state, host'.slot = host.slot, host'.token = host.token,
         host'.mem = host.mem, host'.held = host.held, host'.engine = host.engine,
         host'.asking = host.asking, host'.todo = host.todo, host'.ws = host.ws,
         lapses \subseteq lapses', born \subseteq born', CmdOK', cmd'.at # "secrets",
         AskOK(calls[CmdClient])', \A c \in Client \ {CmdClient} : calls'[c] = calls[c],
         \A d \in Doc : InHand(d)' => Unpushed(d) /\ ~HostHas(d)
  PROVE  CopiesInv'
<1>1. CopyTypes' /\ Leases' /\ Numbering'
  BY CopiesStay DEF CopiesInv, FewerMirrors
<1>2. KeyDocs'
  BY DEF CopiesInv, KeyDocs, CmdOK
<1>3. ServedFromDisk'
  BY DEF CopiesInv, ServedFromDisk, BootDoc, Cleared
<1>4. Passwords'
  BY DEF CopiesInv, Passwords, CmdOK, AskOK
<1>5. LocalRow'
  BY LocalStays DEF CopiesInv, LocalRow, CmdOK
<1>6. calls'[HostClient] = calls[HostClient]
  BY ClientsAssumption DEF HostClient, CmdClient
<1>7. \A d : (Unpushed(d)' <=> Unpushed(d)) /\ (HostHas(d)' <=> HostHas(d))
  BY <1>6, PeersStay DEF Unpushed, HostHas
<1>8. FirstCommits'
  <2>1. \A d \in Doc : (d \in DOMAIN host'.mem => d \in born') /\ (d \notin born' => Unpushed(d)')
    BY <1>7 DEF CopiesInv, FirstCommits
  <2>2. ASSUME host'.todo = "create", calls'[HostClient].doc \in Doc
        PROVE  Unpushed(calls[HostClient].doc)' /\ calls'[HostClient].doc \notin DOMAIN host'.mem
    BY <1>6, <2>2, PeersStay DEF CopiesInv, FirstCommits, Unpushed
  <2>3. host'.todo = "delete" => calls'[HostClient].doc \in DOMAIN host'.mem
    BY <1>6 DEF CopiesInv, FirstCommits
  <2> QED
    BY <1>7, <2>1, <2>2, <2>3 DEF FirstCommits
<1> QED
  BY <1>1, <1>2, <1>3, <1>4, <1>5, <1>8 DEF CopiesInv

\* A document that was never chosen has nothing anywhere.
LEMMA NewIsUnpushed ==
  ASSUME KeysInv, CopiesInv, NEW d \in Doc, d \notin born
  PROVE  Unpushed(d) /\ ~HostHas(d)
BY HostHasBorn DEF CopiesInv, FirstCommits

\* The first step of a command.
LEMMA BeginCopies ==
  ASSUME AccessInv, HostInv, KeysInv, CopiesInv, BeginStep, UNCHANGED accounts
  PROVE  CopiesInv'
<1>1. UNCHANGED <<lock, secrets, row, disk, seen, gen, emptied, host, mirrors, lapses, store, minted>>
  BY DEF BeginStep, Rest
<1>2. ASSUME CmdOK', cmd'.at # "secrets", born \subseteq born', AskOK(calls[CmdClient])',
             \A c \in Client \ {CmdClient} : calls'[c] = calls[c],
             \A d \in Doc : InHand(d)' => Unpushed(d) /\ ~HostHas(d)
      PROVE  CopiesInv'
  BY <1>1, <1>2, CmdAside
<1>3. /\ DOMAIN accounts \subseteq Account /\ None \notin Account /\ {1, 2} \subseteq Password
      /\ Requests /\ secrets.keys \subseteq Doc /\ NoFile.keys = {}
      /\ AskOK(calls[CmdClient])
  BY CmdIsOK, NamesAssumption, StartsAssumption, ClientsAssumption
     DEF AccessInv, Tables, AccountRows, CopiesInv, KeyDocs, NoFile
<1>4. UNCHANGED calls => AskOK(calls[CmdClient])' /\ \A c \in Client \ {CmdClient} : calls'[c] = calls[c]
  BY <1>3 DEF AskOK
<1>5. ASSUME NEW d \in Doc, BeginInit(d) PROVE CopiesInv'
  <2>1. /\ UNCHANGED calls /\ cmd'.op = "init" /\ cmd'.at = "claim" /\ cmd'.keys = {d}
        /\ cmd'.held = NoFile /\ d \notin born /\ born \subseteq born'
    BY <1>5 DEF BeginInit, NoCmd, NewDoc
  <2>2. CmdOK'
    BY <1>3, <2>1 DEF CmdOK, Joining
  <2>3. \A e \in Doc : InHand(e)' => e = d
    BY <2>1 DEF InHand
  <2> QED
    BY <1>2, <1>4, <2>1, <2>2, <2>3, NewIsUnpushed
<1>6. ASSUME NEW a \in Account, NEW d \in Doc, BeginSignup(a, 1, d) PROVE CopiesInv'
  <2> DEFINE doc == IF LocalOnlyDoc = 0 THEN d ELSE LocalOnlyDoc
             q == [Request("signup", "run") EXCEPT !.account = a, !.doc = doc, !.password = 1]
  <2>1. /\ calls' = [calls EXCEPT ![CmdClient] = q] /\ cmd'.op = "signup" /\ cmd'.at = "http"
        /\ cmd'.adopt = LocalOnlyDoc /\ cmd'.keys = {doc} /\ cmd'.held = NoFile /\ cmd'.account = a
        /\ born \subseteq born' /\ (LocalOnlyDoc = 0 => d \notin born)
    BY <1>6 DEF BeginSignup, NoCmd, Send, NewDoc
  <2>2. doc \in Doc /\ (LocalOnlyDoc = 0 => doc = d)
    BY DEF LocalOnlyDoc, AccessInv, Profile
  <2> HIDE DEF doc
  <2>3. AskOK(q)
    BY <1>3 DEF AskOK, Request, Idle
  <2> HIDE DEF q
  <2>4. CmdOK'
    BY <1>3, <2>1, <2>2 DEF CmdOK
  <2>5. \A e \in Doc : InHand(e)' => e = d /\ d \notin born
    BY <2>1, <2>2 DEF InHand
  <2> QED
    BY <1>2, <1>3, <2>1, <2>3, <2>4, <2>5, AsksAre, NewIsUnpushed
<1>7. ASSUME NEW a \in DOMAIN accounts, NEW p, BeginLogin(a, p) \/ BeginRecover(a, 2) PROVE CopiesInv'
  <2>1. PICK q : /\ calls' = [calls EXCEPT ![CmdClient] = q] /\ q.op \in {"login", "recover"}
                 /\ cmd'.op \in {"login", "recover"} /\ cmd'.at = "http" /\ cmd'.held = NoFile
                 /\ cmd'.account = a /\ cmd'.keys = {} /\ UNCHANGED born
                 /\ cmd'.op = "recover" => cmd'.new = 2
    <3>1. [Request("login", "run") EXCEPT !.account = a, !.password = p].op = "login"
      BY DEF Request, Idle
    <3>2. [Request("recover", "run") EXCEPT !.account = a].op = "recover"
      BY DEF Request, Idle
    <3>3. CASE BeginLogin(a, p)
      BY <3>1, <3>3 DEF BeginLogin, NoCmd, Send
    <3>4. CASE BeginRecover(a, 2)
      BY <3>2, <3>4 DEF BeginRecover, NoCmd, Send
    <3> QED
      BY <1>7, <3>3, <3>4
  <2>2. AskOK(q)
    BY <2>1 DEF AskOK
  <2>3. CmdOK'
    BY <1>3, <2>1 DEF CmdOK
  <2>4. \A e \in Doc : ~InHand(e)'
    BY <2>1 DEF InHand
  <2> QED
    BY <1>2, <1>3, <2>1, <2>2, <2>3, <2>4, AsksAre
<1>8. CASE BeginPassword(1, 2) \/ BeginLogout
  <2>1. /\ UNCHANGED <<calls, born>> /\ cmd'.op \in {"password", "logout"} /\ cmd'.at = "claim"
        /\ cmd'.held = NoFile /\ cmd'.keys = {} /\ (cmd'.op = "password" => cmd'.new = 2)
    BY <1>8 DEF BeginPassword, BeginLogout, NoCmd
  <2>2. CmdOK'
    BY <1>3, <2>1 DEF CmdOK, Joining
  <2>3. \A e \in Doc : ~InHand(e)'
    BY <2>1 DEF InHand
  <2> QED
    BY <1>2, <1>4, <2>1, <2>2, <2>3
<1>9. ASSUME NEW i, BeginDeleteAccount(1) \/ BeginShareAccept(i) PROVE CopiesInv'
  <2>1. PICK q : /\ calls' = [calls EXCEPT ![CmdClient] = q] /\ q.op \in {"deleteAccount", "accept"}
                 /\ cmd'.op \in {"deleteAccount", "accept"} /\ cmd'.at = "http"
                 /\ cmd'.held \in {NoFile, secrets} /\ cmd'.keys = {} /\ UNCHANGED born
    <3>1. [Request("deleteAccount", "auth") EXCEPT !.token = secrets.token, !.password = 1].op
            = "deleteAccount"
      BY DEF Request, Idle
    <3>2. [Request("accept", "auth") EXCEPT !.token = secrets.token, !.row = i,
                                            !.home = row.primary].op = "accept"
      BY DEF Request, Idle
    <3>3. CASE BeginDeleteAccount(1)
      BY <3>1, <3>3 DEF BeginDeleteAccount, NoCmd, Send
    <3>4. CASE BeginShareAccept(i)
      BY <3>2, <3>4 DEF BeginShareAccept, NoCmd, Send
    <3> QED
      BY <1>9, <3>3, <3>4
  <2>2. AskOK(q)
    BY <2>1 DEF AskOK
  <2>3. CmdOK'
    BY <1>3, <2>1 DEF CmdOK, Joining
  <2>4. \A e \in Doc : ~InHand(e)'
    BY <2>1 DEF InHand
  <2> QED
    BY <1>2, <1>3, <2>1, <2>2, <2>3, <2>4, AsksAre
<1>10. CASE BeginClear
  <2>1. /\ UNCHANGED <<calls, born>> /\ cmd'.op = "clear" /\ cmd'.at = "clear"
        /\ cmd'.held = NoFile /\ cmd'.keys = {} /\ cmd'.doc \in secrets.keys
    BY <1>10 DEF BeginClear, NoCmd, HomeKey
  <2>2. CmdOK'
    BY <1>3, <2>1 DEF CmdOK, Joining
  <2>3. \A e \in Doc : ~InHand(e)'
    BY <2>1 DEF InHand
  <2> QED
    BY <1>2, <1>4, <2>1, <2>2, <2>3
<1> QED
  BY <1>5, <1>6, <1>7, <1>8, <1>9, <1>10 DEF BeginStep

\* A claim: the host is asked to stop, or the command goes on.
LEMMA ClaimCopies ==
  ASSUME AccessInv, HostInv, CopiesInv, Claim, UNCHANGED accounts
  PROVE  CopiesInv'
<1>1. /\ UNCHANGED <<calls, lapses, born, mirrors, store, minted, secrets, row, disk, seen, gen, emptied>>
      /\ cmd.at = "claim" /\ DOMAIN host = DOMAIN Off /\ DOMAIN cmd = DOMAIN NoCmd
      /\ cmd.op \in Claiming
  BY DEF Claim, profileVars, HostInv, Shapes, AccessInv, Profile, Holding
<1>2. CmdOK /\ AskOK(calls[CmdClient])
  BY CmdIsOK, ClientsAssumption
<1>3. /\ host'.state = host.state /\ host'.slot = host.slot /\ host'.token = host.token
      /\ host'.mem = host.mem /\ host'.held = host.held /\ host'.engine = host.engine
      /\ host'.asking = host.asking /\ host'.todo = host.todo /\ host'.ws = host.ws
  BY <1>1 DEF Claim, Off
<1>4. /\ AfterClaim \in {"done", "seed", "row", "purge", "ask"}
      /\ AfterClaim = "seed" => cmd.op \in Founding /\ (cmd.op = "signup" => cmd.adopt = 0)
      /\ AfterClaim = "row" => cmd.op = "signup" /\ cmd.adopt # 0
  BY <1>1 DEF AfterClaim, Claiming, Founding
<1>5. \/ cmd' = cmd
      \/ /\ cmd'.at = AfterClaim /\ cmd'.op = cmd.op /\ cmd'.keys = cmd.keys /\ cmd'.held = cmd.held
         /\ cmd'.new = cmd.new /\ cmd'.account = cmd.account /\ cmd'.adopt = cmd.adopt
  BY <1>1 DEF Claim, NoCmd
<1>6. CmdOK' /\ cmd'.at # "secrets"
  BY <1>1, <1>2, <1>4, <1>5 DEF CmdOK
<1>7. \A d \in Doc : InHand(d)' => InHand(d)
  BY <1>1, <1>4, <1>5 DEF InHand
<1>8. \A d \in Doc : InHand(d)' => Unpushed(d) /\ ~HostHas(d)
  BY <1>7 DEF CopiesInv, FirstCommits
<1>9. AskOK(calls[CmdClient])'
  BY <1>1, <1>2 DEF AskOK
<1> QED
  BY <1>1, <1>3, <1>6, <1>8, <1>9, CmdAside

\* The password change is asked for.
LEMMA AskPasswordCopies ==
  ASSUME AccessInv, HostInv, CopiesInv, AskPassword, UNCHANGED accounts
  PROVE  CopiesInv'
<1>1. /\ UNCHANGED <<host, lapses, born, mirrors, store, minted, secrets, row, disk, seen, gen, emptied>>
      /\ cmd.op = "password" /\ DOMAIN cmd = DOMAIN NoCmd
  BY DEF AskPassword, Rest, AccessInv, Profile
<1>2. CmdOK /\ AskOK(calls[CmdClient])
  BY CmdIsOK, ClientsAssumption
<1>3. /\ cmd'.at \in {"http", "done"} /\ cmd'.op = cmd.op /\ cmd'.keys = cmd.keys /\ cmd'.held = cmd.held
      /\ cmd'.new = cmd.new
  BY <1>1 DEF AskPassword, NoCmd
<1>4. CmdOK' /\ cmd'.at # "secrets" /\ \A d \in Doc : ~InHand(d)'
  BY <1>1, <1>2, <1>3 DEF CmdOK, InHand, Joining
<1>5. AskOK(calls[CmdClient])' /\ \A c \in Client \ {CmdClient} : calls'[c] = calls[c]
  <2> DEFINE q == [Request("password", "auth") EXCEPT !.token = cmd.token,
                     !.password = cmd.password, !.new = cmd.new, !.home = row.primary]
  <2>1. AskOK(q)
    BY <1>1, <1>2 DEF AskOK, CmdOK, Request, Idle
  <2> HIDE DEF q
  <2>2. CASE calls' = [calls EXCEPT ![CmdClient] = q]
    BY <2>1, <2>2, AsksAre DEF AccessInv
  <2>3. CASE UNCHANGED calls
    BY <1>2, <2>3 DEF AskOK
  <2> QED
    BY <2>2, <2>3 DEF AskPassword, Send, q
<1> QED
  BY <1>1, <1>4, <1>5, CmdAside

\* An answer: what it names are documents.
LEMMA AnsweredCopies ==
  ASSUME AccessInv, HostInv, KeysInv, CopiesInv, Answered, UNCHANGED accounts
  PROVE  CopiesInv'
<1> DEFINE q == calls[CmdClient]
<1>1. /\ UNCHANGED <<host, lapses, born, mirrors, store, minted, secrets, row, disk, seen, gen, emptied>>
      /\ DOMAIN cmd = DOMAIN NoCmd /\ cmd.at = "http" /\ q.at = "answered"
  BY DEF Answered, Rest, AccessInv, Profile
<1>2. CmdOK /\ AskOK(Idle)
  BY CmdIsOK
<1>3. NamesDocs(q) /\ Keys(q.list) \subseteq Doc
  BY ClientsAssumption DEF HostInv, Waiting, NamesDocs, Keys
<1>4. /\ cmd.op = "accept" => q.op = "accept"
      /\ cmd.op = "recover" /\ q.op = "docs" => cmd.doc \in Doc
  BY <1>1 DEF KeysInv, CmdKeyed, AcceptKeyed, HostInv, Waiting
<1>5. /\ cmd'.op = cmd.op /\ cmd'.held = cmd.held /\ cmd'.new = cmd.new
      /\ cmd'.account = cmd.account /\ cmd'.adopt = cmd.adopt
  BY <1>1 DEF Answered, RecoverAnswered, LoginAnswered, NoCmd
<1>6. /\ cmd'.at \in {"done", "claim", "key", "http"}
      /\ cmd'.at = "key" => cmd.op = "accept" /\ q.out = "ok" /\ cmd'.doc = q.doc
      /\ cmd.op = "init" => cmd'.at = "done"
      /\ cmd.op = "signup" => cmd'.at \in {"claim", "done"} /\ cmd'.keys = cmd.keys
  BY <1>1 DEF Answered, RecoverAnswered, LoginAnswered, NoCmd
<1>7. cmd'.keys = cmd.keys \/ cmd'.keys = Keys(q.list)
      \/ (cmd.op = "recover" /\ q.op = "docs" /\ cmd'.keys = Keys(q.list) \cup {cmd.doc})
  BY <1>1 DEF Answered, RecoverAnswered, LoginAnswered, NoCmd
<1>8. cmd'.keys \subseteq Doc
  BY <1>2, <1>3, <1>4, <1>7 DEF CmdOK
<1>9. cmd'.at = "key" => cmd'.doc \in Doc
  BY <1>1, <1>3, <1>4, <1>6 DEF NamesDocs
<1>10. CmdOK' /\ cmd'.at # "secrets"
  BY <1>2, <1>5, <1>6, <1>8, <1>9 DEF CmdOK
<1>11. ASSUME NEW d \in Doc, InHand(d)' PROVE Unpushed(d) /\ ~HostHas(d)
  <2>1. InHand(d)
    BY <1>1, <1>5, <1>6, <1>11 DEF InHand
  <2> QED
    BY <2>1 DEF CopiesInv, FirstCommits
<1>12. AskOK(calls[CmdClient])' /\ \A c \in Client \ {CmdClient} : calls'[c] = calls[c]
  <2>1. ASSUME cmd.op = "recover"
        PROVE  AskOK([Request("reset", "run") EXCEPT !.row = q.row, !.home = q.doc, !.new = cmd.new])
    BY <1>2, <2>1 DEF AskOK, CmdOK, Request, Idle
  <2>2. AskOK([Request("docs", "auth") EXCEPT !.token = q.token])
    BY DEF AskOK, Request, Idle
  <2>3. PICK r : calls' = [calls EXCEPT ![CmdClient] = r] /\ AskOK(r)
    BY <1>2, <2>1, <2>2 DEF Answered, RecoverAnswered, Ask
  <2> QED
    BY <2>3, AsksAre DEF AccessInv
<1> QED
  BY <1>1, <1>10, <1>11, <1>12, CmdAside

\* A command ends, or is killed.
LEMMA EndCopies ==
  ASSUME CopiesInv, Done \/ Kill, UNCHANGED accounts
  PROVE  CopiesInv'
<1>1. /\ UNCHANGED <<calls, host, born, mirrors, store, minted, secrets, row, disk, seen, gen, emptied>>
      /\ lapses \subseteq lapses' /\ cmd' = NoCmd
  BY LapseMarks DEF Done, Kill
<1>2. CmdOK' /\ cmd'.at # "secrets" /\ \A d \in Doc : ~InHand(d)'
  BY <1>1 DEF CmdOK, InHand, NoCmd, NoFile, None, Joining
<1>3. AskOK(calls[CmdClient])'
  BY <1>1, CmdIsOK, ClientsAssumption DEF AskOK
<1> QED
  BY <1>1, <1>2, <1>3, CmdAside

\* A step of a command that has the lock: nothing is served.
LEMMA AloneCopies ==
  ASSUME HostInv, CopiesInv, lock \in {None, CmdClient},
         UNCHANGED <<host, mirrors, store, seen, born, gen>>, KeyDocs', Passwords', CopyTypes', Numbering', LocalRow',
         \A d \in Doc : InHand(d)' => InHand(d) /\ secrets'.keys = secrets.keys
  PROVE  CopiesInv'
<1>1. host.state = "off" /\ host.todo = None /\ DOMAIN host.mem = {}
  BY Alone DEF CopiesInv, ServedFromDisk
<1>2. ServedFromDisk' /\ Leases'
  BY <1>1 DEF CopiesInv, ServedFromDisk, Leases
<1>3. \A d : Unpushed(d)' <=> Unpushed(d)
  BY PeersStay DEF Unpushed
<1>4. ASSUME NEW d \in Doc, InHand(d)' PROVE Unpushed(d)' /\ ~HostHas(d)'
  <2>1. Unpushed(d) /\ ~HostHas(d) /\ secrets'.keys = secrets.keys
    BY <1>4 DEF CopiesInv, FirstCommits
  <2> QED
    BY <1>1, <1>3, <2>1 DEF HostHas, None
<1>5. FirstCommits'
  BY <1>1, <1>3, <1>4 DEF CopiesInv, FirstCommits, None
<1> QED
  BY <1>2, <1>5 DEF CopiesInv

\* One copy starts over, or stays. Nobody has it open, unless it is cleared.
LEMMA CopyStartsOver ==
  ASSUME HostInv, CopiesInv, UNCHANGED <<host, mirrors, store, gen>>, lapses \subseteq lapses',
         minted' \in Nat, NEW d \in Doc, NEW S, IsCopy(S),
         \/ disk' = Put(disk, d, S)
         \/ S = {} /\ disk' = Drop(disk, {d}),
         emptied' \in {emptied, emptied \cup {d}, emptied \ {d}},
         seen' \in {seen, [seen EXCEPT ![d] = {}]},
         ~Damaged(d)' =>
           \/ S = BootDoc(d) /\ UNCHANGED <<emptied, seen>>
           \/ /\ \A s \in Sub : ~LiveOn(s, d)
              /\ seen'[d] = {}
              /\ \/ S = {} /\ d \in emptied'
                 \/ \E o : o.n = 0 /\ o.peer \in Mine /\ S = {o} /\ Unpushed(d)
  PROVE  /\ CopyTypes' /\ Numbering' /\ DOMAIN disk' \subseteq DOMAIN disk \cup {d}
         /\ \A e : e # d => BootDoc(e)' = BootDoc(e)
<1>1. /\ DOMAIN disk' \subseteq DOMAIN disk \cup {d}
      /\ \A e \in DOMAIN disk' : disk'[e] = IF e = d THEN S ELSE disk[e]
      /\ \A e : BootDoc(e)' = IF e = d THEN S ELSE BootDoc(e)
  BY DEF Put, Drop, BootDoc
<1>2. /\ seen' = [e \in Doc |-> seen'[e]] /\ \A e \in Doc \ {d} : seen'[e] = seen[e]
  BY DEF CopiesInv, CopyTypes
<1>3. CopyTypes'
  <2>1. \A S_1 : IsCopy(S_1) => IsCopy(S_1)'
    BY PeersStay
  <2> QED
    BY <1>1, <1>2, <2>1 DEF CopiesInv, CopyTypes
<1>4. ASSUME NEW e \in Doc PROVE NumberedAt(e)'
  <2>1. /\ NumberedAt(e) /\ \A s \in Sub : LiveOn(s, e)' => Follows(s, e)
        /\ \A s \in Sub : LiveOn(s, e)' <=> LiveOn(s, e)
    BY DEF CopiesInv, Numbering, LiveOn, Follows
  <2>2. CASE e # d
    BY <1>1, <1>2, <2>1, <2>2, DocStays
  <2>3. CASE e = d /\ S = BootDoc(d) /\ UNCHANGED <<emptied, seen>>
    BY <1>1, <2>1, <2>3, DocStays
  <2>4. CASE e = d /\ ~(S = BootDoc(d) /\ UNCHANGED <<emptied, seen>>)
    BY <1>1, <2>1, <2>4, DocBegins
  <2> QED
    BY <2>2, <2>3, <2>4
<1> QED
  BY <1>1, <1>3, <1>4 DEF Numbering

\* What a document is seeded with.
LEMMA SeedIs ==
  ASSUME CopiesInv, NEW o, o = Minted(PeerOf(FreeSlot), {})
  PROVE  IsCopy({o}) /\ o.n = 0 /\ o.peer \in Mine
<1>1. minted \in Nat /\ gen \in Nat
  BY DEF CopiesInv, CopyTypes
<1>2. PeerOf(FreeSlot) \in Mine /\ PeerOf(FreeSlot) \in SoFar
  BY <1>1, FreeSlotIs, PeersAre
<1>3. o \in Commits /\ o.peer = PeerOf(FreeSlot) /\ o.n = 0
  BY <1>1, <1>2, MintedIs, FS_EmptySet
<1> QED
  BY <1>2, <1>3, CopiesAre

\* seed_snapshot.
LEMMA SeedCopies ==
  ASSUME AccessInv, HostInv, CopiesInv, Seed, UNCHANGED accounts
  PROVE  CopiesInv'
<1>0. PICK d : d = cmd.doc
  OBVIOUS
<1>1. /\ UNCHANGED <<calls, born, lock, secrets, row, seen, gen, emptied, host, mirrors, store>>
      /\ cmd.at = "seed" /\ cmd' = [cmd EXCEPT !.at = "row"] /\ DOMAIN cmd = DOMAIN NoCmd
      /\ lock = CmdClient /\ cmd.op \in Founding /\ d \in Doc /\ d \in cmd.keys
      /\ minted \in Nat
  BY <1>0 DEF Seed, AccessInv, Profile, HostInv, Locking, Writing, Holding, CopiesInv, CopyTypes
<1>2. /\ cmd'.at = "row" /\ cmd'.op = cmd.op /\ cmd'.keys = cmd.keys /\ cmd'.held = cmd.held
      /\ cmd'.new = cmd.new /\ cmd'.account = cmd.account
  BY <1>1 DEF NoCmd
<1>3. \A s \in Sub : ~LiveOn(s, d)
  BY <1>1, Alone DEF LiveOn
<1>4. CopyTypes' /\ Numbering' /\ DOMAIN disk' \subseteq DOMAIN disk \cup {d}
  <2>1. CASE cmd.op \in {"init", "signup"}
    <3>1. PICK o : o = Minted(PeerOf(FreeSlot), {})
      OBVIOUS
    <3>2. disk' = Put(disk, d, {o}) /\ minted' = minted + 1 /\ UNCHANGED lapses
      BY <1>0, <2>1, <3>1 DEF Seed, Saved
    <3>3. InHand(d)
      BY <1>1, <2>1 DEF InHand, CopiesInv, LocalRow
    <3>4. Unpushed(d) /\ seen'[d] = {}
      BY <1>1, <3>3 DEF CopiesInv, FirstCommits, Unpushed
    <3>5. minted' \in Nat /\ IsCopy({o}) /\ o.n = 0 /\ o.peer \in Mine
      BY <1>1, <3>1, <3>2, SeedIs
    <3> QED
      BY <1>1, <1>3, <3>2, <3>4, <3>5, CopyStartsOver
  <2>2. CASE cmd.op \notin {"init", "signup"}
    <3>1. PICK S \in {{}, BootDoc(d)} :
            disk' = Put(disk, d, S) /\ Lapse("hollowed", d, S # BootDoc(d))
      BY <1>0, <2>2 DEF Seed, Saved
    <3>2. minted' \in Nat /\ IsCopy(S)
      BY <1>1, <2>2, BootCopy, CopiesAre DEF Seed, CopiesInv
    <3>3. lapses \subseteq lapses' /\ (~Damaged(d)' => S = BootDoc(d))
      BY <3>1 DEF Lapse, Damaged
    <3> QED
      BY <1>1, <3>1, <3>2, <3>3, CopyStartsOver
  <2> QED
    BY <2>1, <2>2
<1>5. KeyDocs' /\ Passwords'
  BY <1>1, <1>2, <1>4 DEF CopiesInv, KeyDocs, Passwords
<1>6. LocalRow'
  BY <1>1, <1>2, LocalStays DEF CopiesInv, LocalRow
<1>7. \A e \in Doc : InHand(e)' => InHand(e)
  BY <1>1, <1>2 DEF InHand
<1> QED
  BY <1>1, <1>4, <1>5, <1>6, <1>7, AloneCopies

\* db clear, one of its writes: a host may have the copy open, which is an
\* exception then.
LEMMA ClearedCopies ==
  ASSUME AccessInv, HostInv, CopiesInv, NEW d \in Doc, cmd.doc = d, cmd.at \in {"clear", "reseed"},
         cmd' = [cmd EXCEPT !.at = cmd'.at], cmd'.at \in {"reseed", "done"}, CopyTypes', Numbering',
         DOMAIN disk' \subseteq DOMAIN disk \cup {d}, \A e : e # d => BootDoc(e)' = BootDoc(e),
         lapses \subseteq lapses', d \in DOMAIN host.mem => Cleared(d)',
         \A e \in Doc : seen[e] = {} => seen'[e] = {},
         UNCHANGED <<calls, born, secrets, row, gen, host, mirrors, store, accounts>>
  PROVE  CopiesInv'
<1>1. /\ cmd'.op = cmd.op /\ cmd'.keys = cmd.keys /\ cmd'.held = cmd.held /\ cmd'.doc = cmd.doc
      /\ cmd'.new = cmd.new /\ cmd'.account = cmd.account
  BY DEF AccessInv, Profile, NoCmd
<1>2. KeyDocs' /\ Passwords'
  BY <1>1 DEF CopiesInv, KeyDocs, Passwords
<1>3. \A e \in DOMAIN host.mem : ~Cleared(e)' => e # d /\ ~Cleared(e)
  BY DEF Cleared
<1>4. ServedFromDisk'
  BY <1>3 DEF CopiesInv, ServedFromDisk
<1>5. Leases'
  BY DEF CopiesInv, Leases, PeerOf
<1>6. \A e \in Doc : ~InHand(e)'
  BY DEF InHand
<1>7. FirstCommits'
  BY <1>6, FirstStay DEF CopiesInv, SeenStays
<1>8. LocalRow'
  BY <1>1, LocalStays DEF CopiesInv, LocalRow
<1> QED
  BY <1>2, <1>4, <1>5, <1>7, <1>8 DEF CopiesInv

\* db clear: the account row tells a workspace that was never connected, which
\* starts over.
LEMMA ClearCopies ==
  ASSUME AccessInv, HostInv, CopiesInv, ClearDb \/ Reseed, UNCHANGED accounts
  PROVE  CopiesInv'
<1>0. PICK d : d = cmd.doc
  OBVIOUS
<1>1. /\ UNCHANGED <<calls, born, lock, secrets, row, gen, host, mirrors, store>>
      /\ cmd.at \in {"clear", "reseed"} /\ d \in Doc /\ minted \in Nat /\ DOMAIN cmd = DOMAIN NoCmd
      /\ seen = [e \in Doc |-> seen[e]]
  BY <1>0 DEF ClearDb, Reseed, CopiesInv, KeyDocs, CopyTypes, AccessInv, Profile
<1>2. \A s \in Sub : LiveOn(s, d) => d \in DOMAIN host.mem
  BY LiveIs DEF LiveOn, CopiesInv
<1>3. ASSUME ClearDb, UNCHANGED <<disk, seen, emptied, lapses>>, cmd' = [cmd EXCEPT !.at = "done"]
      PROVE  CopiesInv'
  <2>1. minted' = minted
    BY <1>3 DEF ClearDb
  <2>2. CmdOK /\ AskOK(calls[CmdClient])
    BY CmdIsOK, ClientsAssumption
  <2>3. /\ cmd'.op = cmd.op /\ cmd'.keys = cmd.keys /\ cmd'.held = cmd.held
        /\ cmd'.new = cmd.new /\ cmd'.account = cmd.account /\ cmd'.at = "done"
    BY <1>1, <1>3 DEF NoCmd
  <2>4. CmdOK' /\ AskOK(calls[CmdClient])' /\ \A e \in Doc : ~InHand(e)'
    BY <1>1, <2>2, <2>3 DEF CmdOK, AskOK, InHand
  <2> QED
    BY <1>1, <1>3, <2>1, <2>3, <2>4, CmdAside
<1>4. ASSUME ClearDb, disk' = Drop(disk, {d}), seen' = [seen EXCEPT ![d] = {}],
             cmd' = [cmd EXCEPT !.at = IF cmd.account = None THEN "reseed" ELSE "done"],
             emptied' = emptied \cup {d}, Lapse("cleared", d, d \in DOMAIN host.mem)
      PROVE  CopiesInv'
  <2>1. /\ cmd' = [cmd EXCEPT !.at = cmd'.at] /\ cmd'.at \in {"reseed", "done"} /\ minted' = minted
    BY <1>1, <1>4 DEF ClearDb, NoCmd
  <2>2. /\ lapses \subseteq lapses' /\ (d \in DOMAIN host.mem => Cleared(d)')
    BY <1>4 DEF Lapse, Cleared
  <2>3. ~Damaged(d)' => \A s \in Sub : ~LiveOn(s, d)
    BY <1>2, <2>2 DEF Damaged
  <2>4. seen'[d] = {} /\ \A e \in Doc : seen[e] = {} => seen'[e] = {}
    BY <1>1, <1>4
  <2>5. /\ CopyTypes' /\ Numbering' /\ DOMAIN disk' \subseteq DOMAIN disk \cup {d}
        /\ \A e : e # d => BootDoc(e)' = BootDoc(e)
    BY <1>1, <1>4, <2>1, <2>2, <2>3, <2>4, CopiesAre, CopyStartsOver
  <2> QED
    BY <1>0, <1>1, <2>1, <2>2, <2>4, <2>5, ClearedCopies
<1>5. ASSUME Reseed PROVE CopiesInv'
  <2>1. PICK o : o = Minted(PeerOf(FreeSlot), {})
    OBVIOUS
  <2>2. PICK S : /\ S \in {{o}, BootDoc(d) \cup {o}} /\ disk' = Put(disk, d, S)
    BY <1>0, <1>5, <2>1 DEF Reseed, Saved
  <2>3. /\ cmd' = [cmd EXCEPT !.at = cmd'.at] /\ cmd'.at = "done" /\ seen' = seen
        /\ minted' = minted + 1 /\ emptied' = emptied \ {d}
        /\ Lapse("cleared", d, d \in DOMAIN host.mem \/ BootDoc(d) # {})
    BY <1>0, <1>1, <1>5 DEF Reseed, NoCmd
  <2>4. /\ lapses \subseteq lapses' /\ (d \in DOMAIN host.mem \/ BootDoc(d) # {} => Cleared(d)')
    BY <2>3 DEF Lapse, Cleared
  <2>5. IsCopy({o}) /\ o.n = 0 /\ o.peer \in Mine /\ IsCopy(S) /\ minted' \in Nat
    <3>1. IsCopy({o}) /\ o.n = 0 /\ o.peer \in Mine /\ IsCopy(BootDoc(d))
      BY <2>1, SeedIs, BootCopy DEF CopiesInv
    <3> QED
      BY <1>1, <2>2, <2>3, <3>1, CopiesAre
  <2>6. row # NoFile /\ row.account = None /\ row.primary = d
    BY <1>0, <1>5 DEF Reseed, HostInv, Holding
  <2>7. Unpushed(d) /\ seen'[d] = {}
    BY <1>1, <2>3, <2>6 DEF CopiesInv, LocalRow, Unpushed
  <2>8. ~Damaged(d)' => S = {o} /\ \A s \in Sub : ~LiveOn(s, d)
    BY <1>2, <2>2, <2>4 DEF Damaged
  <2>9. /\ CopyTypes' /\ Numbering' /\ DOMAIN disk' \subseteq DOMAIN disk \cup {d}
        /\ \A e : e # d => BootDoc(e)' = BootDoc(e)
    BY <1>1, <2>2, <2>3, <2>4, <2>5, <2>7, <2>8, CopyStartsOver
  <2> QED
    BY <1>0, <1>1, <2>3, <2>4, <2>9, ClearedCopies
<1> QED
  BY <1>0, <1>3, <1>4, <1>5 DEF ClearDb

\* The account row, then secrets.toml.
LEMMA WriteCopies ==
  ASSUME AccessInv, HostInv, KeysInv, CopiesInv, WriteAccount \/ WriteSecrets, UNCHANGED accounts
  PROVE  CopiesInv'
<1>1. /\ UNCHANGED <<calls, lapses, born, lock, disk, seen, gen, emptied, host, mirrors, store, minted>>
      /\ cmd.at \in {"row", "secrets"} /\ cmd'.at \in {"secrets", "done"} /\ DOMAIN cmd = DOMAIN NoCmd
      /\ lock = CmdClient /\ cmd.op \in Founding /\ cmd.doc \in Doc /\ cmd.doc \in cmd.keys
  BY DEF WriteAccount, WriteSecrets, AccessInv, Profile, HostInv, Locking, Writing, Holding, NoCmd
<1>2. /\ cmd'.op = cmd.op /\ cmd'.keys = cmd.keys /\ cmd'.held = cmd.held
      /\ cmd'.new = cmd.new /\ cmd'.account = cmd.account
  BY <1>1 DEF WriteAccount, WriteSecrets, NoCmd
<1>3. CopyTypes' /\ Numbering'
  BY <1>1, NumbersStay DEF CopiesInv, CopyTypes, FewerMirrors
<1>4. KeyDocs' /\ Passwords'
  <2>1. secrets' = secrets \/ secrets'.keys = cmd.keys
    BY DEF WriteAccount, WriteSecrets, SecretsFile, NoFile
  <2> QED
    BY <1>1, <1>2, <2>1 DEF CopiesInv, KeyDocs, Passwords
<1>5. \A e \in Doc : ~InHand(e)'
  BY <1>1 DEF InHand
<1>6. \A e : Unpushed(e)' <=> Unpushed(e)
  BY <1>1, PeersStay DEF Unpushed
<1>7. cmd.account = None => cmd.op = "init" /\ cmd.token = 0
  BY <1>1 DEF CopiesInv, LocalRow, Founding, Joining, KeysInv, CmdKeyed, InitKeyed
<1>8. LocalRow'
  <2>1. CASE WriteAccount
    <3>1. /\ row'.primary = cmd.doc /\ row'.account = cmd.account /\ UNCHANGED secrets
          /\ cmd.at = "row"
      BY <2>1 DEF WriteAccount, AccountRow, NoFile
    <3>2. ASSUME cmd.account = None PROVE secrets.token = 0 /\ Unpushed(cmd.doc)
      <4>1. secrets.token = 0
        BY <1>7, <3>1, <3>2 DEF KeysInv, CmdKeyed, InitKeyed, NoFile
      <4>2. InHand(cmd.doc)
        BY <1>1, <1>7, <3>1, <3>2 DEF InHand
      <4> QED
        BY <1>1, <4>1, <4>2 DEF CopiesInv, FirstCommits
    <3>3. Unpushed(row.primary)' <=> Unpushed(cmd.doc)
      BY <1>1, <3>1, PeersStay DEF Unpushed
    <3>4. cmd'.at = "secrets"
      BY <1>1, <2>1 DEF WriteAccount, NoCmd
    <3> QED
      BY <1>1, <1>2, <3>1, <3>2, <3>3, <3>4 DEF CopiesInv, LocalRow
  <2>2. CASE WriteSecrets
    <3>1. secrets'.token = cmd.token /\ UNCHANGED row /\ cmd.at = "secrets" /\ cmd'.at = "done"
      BY <1>1, <2>2 DEF WriteSecrets, SecretsFile, NoFile, NoCmd
    <3>2. row.account = cmd.account
      BY <3>1 DEF CopiesInv, LocalRow
    <3> QED
      BY <1>1, <1>2, <1>6, <1>7, <3>1, <3>2 DEF CopiesInv, LocalRow
  <2> QED
    BY <2>1, <2>2
<1> QED
  BY <1>1, <1>3, <1>4, <1>5, <1>8, AloneCopies

\* secrets.toml goes with the profile.
LEMMA SecretsRemoved ==
  ASSUME AccessInv, HostInv, CopiesInv, cmd.at \in {"purge", "purgeSecrets"}, secrets' = NoFile,
         cmd' = [cmd EXCEPT !.at = cmd'.at], cmd'.at \in {"purgeDb", "done"},
         UNCHANGED <<row, disk, seen, gen, emptied, calls, lapses, born, lock, host, mirrors, store, minted, accounts>>
  PROVE  CopiesInv'
<1>1. /\ cmd'.op = cmd.op /\ cmd'.keys = cmd.keys /\ cmd'.held = cmd.held
      /\ cmd'.new = cmd.new /\ cmd'.account = cmd.account /\ lock = CmdClient
      /\ NoFile.keys = {} /\ NoFile.token = 0
  BY DEF AccessInv, Profile, NoCmd, NoFile, HostInv, Locking, Writing
<1>2. CopyTypes' /\ Numbering'
  BY NumbersStay DEF CopiesInv, CopyTypes, FewerMirrors
<1>3. KeyDocs' /\ Passwords'
  BY <1>1 DEF CopiesInv, KeyDocs, Passwords
<1>4. LocalRow'
  <2>1. Unpushed(row.primary) => Unpushed(row.primary)'
    BY PeersStay DEF Unpushed
  <2> QED
    BY <1>1, <2>1 DEF CopiesInv, LocalRow
<1>5. \A e \in Doc : ~InHand(e)'
  BY DEF InHand
<1> QED
  BY <1>1, <1>2, <1>3, <1>4, <1>5, AloneCopies

\* The database goes, and with it the peers: what the server has of them is an
\* earlier installation's.
LEMMA DatabaseCopies ==
  ASSUME AccessInv, HostInv, CopiesInv, DatabaseRemoved, cmd.at \in {"purge", "purgeDb"},
         cmd' = [cmd EXCEPT !.at = cmd'.at], cmd'.at \in {"purgeSecrets", "done"},
         UNCHANGED <<secrets, calls, lapses, born, lock, host, mirrors, store, minted, accounts>>
  PROVE  CopiesInv'
<1>1. /\ row' = NoFile /\ gen' = gen + 1 /\ seen' = [d \in Doc |-> {}]
      /\ lock = CmdClient
  BY DEF DatabaseRemoved, HostInv, Locking, Writing
<1>2. /\ cmd'.op = cmd.op /\ cmd'.keys = cmd.keys /\ cmd'.held = cmd.held
      /\ cmd'.new = cmd.new /\ cmd'.account = cmd.account
  BY DEF AccessInv, Profile, NoCmd
<1>3. /\ host.state = "off" /\ host.todo = None /\ DOMAIN host.mem = {}
      /\ \A s \in Sub : mirrors[s].state # "live"
  BY <1>1, Alone DEF CopiesInv, ServedFromDisk
<1>4. DOMAIN disk' = {} /\ \A d \in Doc : BootDoc(d)' = {} /\ seen'[d] = {}
  BY <1>1 DEF DatabaseRemoved, Drop, BootDoc, CopiesInv, KeyDocs
<1>5. gen \in Nat /\ gen' \in Nat /\ minted \in Nat /\ AnyPeer' = AnyPeer
  BY <1>1 DEF CopiesInv, CopyTypes, AnyPeer, RemotePeer
<1>6. SoFar \subseteq SoFar' /\ \A P \in Mine' : P \notin SoFar
  BY <1>1, <1>5 DEF SoFar, Mine, RemotePeer
<1>7. \A S : IsCopy(S) => IsCopy(S)' /\ \A o \in S : o.peer \in SoFar
  BY <1>6 DEF IsCopy
<1>8. CopyTypes'
  BY <1>1, <1>3, <1>4, <1>5, <1>7 DEF CopiesInv, CopyTypes
<1>9. \A d \in Doc : Unpushed(d)' /\ Whole(d)'
  BY <1>4, <1>6, <1>7 DEF CopiesInv, CopyTypes, Unpushed, Whole, PeerOps
<1>10. ASSUME NEW d \in Doc PROVE NumberedAt(d)'
  <2> SUFFICES ASSUME ~Damaged(d)' PROVE CopyNumbered(d)'
    BY <1>3 DEF NumberedAt, LiveOn
  <2>1. \A P \in AnyPeer : Numbered(store[d], P)
    BY DEF CopiesInv, Numbering, NumberedAt, Damaged, Cleared, CopyNumbered
  <2>2. \A P : Numbered(BootDoc(d)', P)
    BY <1>4, CountedFirst
  <2> QED
    BY <1>4, <1>5, <1>9, <2>1, <2>2 DEF CopyNumbered, Numbered, Counted, PeerOps
<1>11. KeyDocs' /\ Passwords'
  BY <1>2, <1>3, <1>4 DEF CopiesInv, KeyDocs, Passwords
<1>12. ServedFromDisk' /\ Leases'
  BY <1>3 DEF CopiesInv, ServedFromDisk, Leases
<1>13. FirstCommits'
  BY <1>2, <1>3, <1>9 DEF FirstCommits, InHand, None
<1>14. LocalRow'
  BY <1>1, <1>2, <1>3 DEF CopiesInv, LocalRow
<1> QED
  BY <1>8, <1>10, <1>11, <1>12, <1>13, <1>14 DEF CopiesInv, Numbering

\* The directory goes, file by file.
LEMMA PurgeCopies ==
  ASSUME AccessInv, HostInv, CopiesInv, Purge, UNCHANGED accounts
  PROVE  CopiesInv'
<1>1. DOMAIN cmd = DOMAIN NoCmd
  BY DEF AccessInv, Profile
<1>2. CASE /\ cmd.at \in {"purge", "purgeSecrets"}
           /\ cmd' = [cmd EXCEPT !.at = IF cmd.at = "purge" THEN "purgeDb" ELSE "done"]
           /\ secrets' = NoFile
           /\ UNCHANGED <<row, disk, seen, gen, emptied>>
  <2>1. cmd' = [cmd EXCEPT !.at = cmd'.at] /\ cmd'.at \in {"purgeDb", "done"}
    BY <1>1, <1>2 DEF NoCmd
  <2> QED
    BY <1>2, <2>1, SecretsRemoved DEF Purge
<1>3. CASE /\ cmd.at \in {"purge", "purgeDb"}
           /\ cmd' = [cmd EXCEPT !.at = IF cmd.at = "purge" THEN "purgeSecrets" ELSE "done"]
           /\ DatabaseRemoved
           /\ UNCHANGED secrets
  <2>1. cmd' = [cmd EXCEPT !.at = cmd'.at] /\ cmd'.at \in {"purgeSecrets", "done"}
    BY <1>1, <1>3 DEF NoCmd
  <2> QED
    BY <1>3, <2>1, DatabaseCopies DEF Purge
<1> QED
  BY <1>2, <1>3 DEF Purge

\* share accept writes the keys it read, and the new one.
LEMMA ShareKeyCopies ==
  ASSUME AccessInv, HostInv, KeysInv, CopiesInv, WriteShareKey, UNCHANGED accounts
  PROVE  CopiesInv'
<1>1. /\ UNCHANGED <<calls, born, row, disk, seen, gen, emptied, mirrors, store, minted>>
      /\ cmd.at = "key" /\ cmd' = [cmd EXCEPT !.at = "done"] /\ DOMAIN cmd = DOMAIN NoCmd
      /\ cmd.op = "accept" /\ cmd.doc \in Doc /\ lapses \subseteq lapses'
  BY LapseMarks DEF WriteShareKey, AccessInv, Profile, HostInv, Holding, CopiesInv, KeyDocs
<1>2. /\ cmd'.at = "done" /\ cmd'.op = cmd.op /\ cmd'.keys = cmd.keys /\ cmd'.held = cmd.held
      /\ cmd'.new = cmd.new /\ cmd'.account = cmd.account
  BY <1>1 DEF NoCmd
<1>3. secrets'.keys = cmd.held.keys \cup {cmd.doc} /\ secrets'.token = secrets.token
  BY <1>1 DEF WriteShareKey, HostInv, Shapes, NoFile, KeysInv, CmdKeyed, AcceptKeyed
<1>4. /\ host'.state = host.state /\ host'.mem = host.mem /\ host'.engine = host.engine
      /\ host'.asking = host.asking /\ host'.todo = host.todo /\ host'.slot = host.slot
      /\ host'.held = host.held /\ host'.ws = host.ws /\ host'.token = host.token
  BY DEF WriteShareKey, HostInv, Shapes, Off
<1>5. CopyTypes' /\ Leases' /\ Numbering'
  BY <1>1, <1>4, CopiesStay DEF CopiesInv, FewerMirrors
<1>6. KeyDocs' /\ Passwords'
  BY <1>1, <1>2, <1>3, <1>4 DEF CopiesInv, KeyDocs, Passwords
<1>7. ServedFromDisk'
  BY <1>1, <1>4 DEF CopiesInv, ServedFromDisk, BootDoc, Cleared
<1>8. FirstCommits'
  BY <1>1, <1>2, <1>4, FirstStay DEF CopiesInv, InHand, SeenStays
<1>9. LocalRow'
  BY <1>1, <1>2, <1>3, <1>4, LocalStays DEF CopiesInv, LocalRow
<1> QED
  BY <1>5, <1>6, <1>7, <1>8, <1>9 DEF CopiesInv

\* The commands' steps.
LEMMA CommandCopies ==
  ASSUME AccessInv, HostInv, KeysInv, CopiesInv, CommandStep, UNCHANGED accounts
  PROVE  CopiesInv'
<1>1. CASE BeginStep
  BY <1>1, BeginCopies
<1>2. CASE Claim
  BY <1>2, ClaimCopies
<1>3. CASE AskPassword \/ Answered
  BY <1>3, AskPasswordCopies, AnsweredCopies
<1>4. CASE Seed \/ WriteAccount \/ WriteSecrets
  BY <1>4, SeedCopies, WriteCopies
<1>5. CASE Purge \/ WriteShareKey
  BY <1>5, PurgeCopies, ShareKeyCopies
<1>6. CASE Done \/ Kill
  BY <1>6, EndCopies
<1>7. CASE ClearDb \/ Reseed
  BY <1>7, ClearCopies
<1> QED
  BY <1>1, <1>2, <1>3, <1>4, <1>5, <1>6, <1>7 DEF CommandStep, Command

-----------------------------------------------------------------------------
(* The invariant *)

\* Every step keeps it.
LEMMA NextCopies ==
  ASSUME AccessInv, HostInv, KeysInv, CopiesInv, [Next]_vars
  PROVE  CopiesInv'
<1>1. CASE ServerStep
  BY <1>1, ServerCopies
<1>2. CASE PeerStep
  BY <1>2, PeerCopies
<1>3. CASE SessionStep
  BY <1>3, SessionCopies
<1>4. CASE HostStep /\ UNCHANGED tables /\ UNCHANGED <<born, cmd>>
  BY <1>4, HostCopies DEF tables
<1>5. CASE WorkspaceStep /\ UNCHANGED tables /\ UNCHANGED cmd
  BY <1>5, WorkspaceCopies DEF tables
<1>6. CASE CommandStep /\ UNCHANGED tables
  BY <1>6, CommandCopies DEF tables
<1>7. CASE /\ \E d \in Doc : RemotePush(d)
           /\ UNCHANGED tables
           /\ UNCHANGED <<calls, lock, host, mirrors, lapses, cmd, born, mix>>
           /\ UNCHANGED profileVars
  BY <1>7, RemoteCopies DEF tables
<1>8. CASE UNCHANGED vars
  <2>1. UNCHANGED <<accounts, calls, born, cmd>> /\ UNCHANGED localVars
    BY <1>8 DEF vars, localVars
  <2>2. Passwords'
    BY <2>1 DEF CopiesInv, Passwords
  <2> QED
    BY <2>1, <2>2, ElsewhereStays
<1> QED
  BY <1>1, <1>2, <1>3, <1>4, <1>5, <1>6, <1>7, <1>8 DEF Next, AnyStep

\* The first commit of a document.
LEMMA WelcomeIs ==
  ASSUME gen = 0, NEW d \in Nat, NEW own
  PROVE  \E o : /\ Welcome(d, own) = {o} /\ o.n = 0 /\ IsCopy({o})
                /\ o.peer \in Mine <=> d \in own
<1> DEFINE P == IF d \in own THEN <<0, 0>> ELSE RemotePeer
           o == [peer |-> P, n |-> 0, tag |-> d]
<1>1. P \in SoFar /\ (P \in Mine <=> d \in own)
  BY DEF SoFar, Mine, RemotePeer
<1>2. o \in Commits /\ o.n = 0 /\ o.peer = P
  BY <1>1 DEF Commits
<1>3. IsCopy({o})
  BY <1>2, CopiesAre
<1>4. Welcome(d, own) = {o}
  BY DEF Welcome
<1> HIDE DEF P, o
<1> QED
  BY <1>1, <1>2, <1>3, <1>4

\* Where the system starts.
LEMMA InitCopies ==
  ASSUME Init
  PROVE  CopiesInv
<1> DEFINE start == mix.start
           known == start \in {"joined", "shared", "offered"}
           shared == IF start \in {"shared", "offered"} THEN {3} ELSE {}
           own == IF start = "fresh" THEN {} ELSE IF start = "shared" THEN {1, 3} ELSE {1}
<1>1. /\ Started(start) /\ calls = [c \in Client |-> Idle] /\ host = Off /\ cmd = NoCmd /\ gen = 0
      /\ mirrors = [s \in Sub |-> NoMirror]
  BY DEF Init
<1>2. /\ host.state = "off" /\ host.todo = None /\ DOMAIN host.mem = {} /\ host.held = {}
      /\ DOMAIN host.engine = {} /\ host.asking = {} /\ ~host.ws
      /\ cmd.at = None /\ cmd.op = None /\ cmd.keys = {} /\ cmd.held.keys = {}
      /\ \A s \in Sub : mirrors[s].state # "live"
      /\ \A c \in Client : calls[c].op = None
  BY <1>1 DEF Off, NoCmd, NoFile, NoMirror, Idle, None
<1>3. /\ docs = (IF known THEN {1, 2} \cup shared ELSE {}) /\ born = docs \cup own /\ minted = 3
      /\ disk = [d \in own |-> Welcome(d, own)]
      /\ store = [d \in Doc |-> IF d \in docs THEN Welcome(d, own) ELSE {}]
      /\ seen = [d \in Doc |-> IF d \in docs \cap own THEN Welcome(d, own) ELSE {}]
      /\ secrets = (IF own = {} THEN NoFile ELSE SecretsFile(IF known THEN 1 ELSE 0, own))
      /\ row = (IF own = {} THEN NoFile ELSE AccountRow(1, IF known THEN "A" ELSE None))
      /\ accounts = (IF known THEN [a \in {"A", "B"} |->
                                      [primary |-> IF a = "A" THEN 1 ELSE 2, password |-> 1]]
                     ELSE [a \in {} |-> {}])
  BY <1>1 DEF Started
<1>4. /\ 1 \in Doc /\ own \subseteq Doc /\ own \subseteq Nat /\ docs \subseteq Nat
      /\ known => own # {}
  BY <1>3, StartsAssumption
<1>5. /\ secrets.keys = own /\ (row # NoFile /\ row.account = None => ~known /\ secrets.token = 0)
  <2>1. "A" # None
    BY NamesAssumption, StartsAssumption
  <2> HIDE DEF own, known
  <2> QED
    BY <1>3, <1>4, <2>1 DEF SecretsFile, AccountRow, NoFile
<1>6. Passwords
  <2>1. \A a \in DOMAIN accounts : accounts[a].password = 1
    <3> HIDE DEF known
    <3> QED
      BY <1>3
  <2> QED
    BY <1>2, <2>1, StartsAssumption DEF Passwords, None
<1> HIDE DEF own, known, shared, start
<1>7. \A d \in Doc : /\ BootDoc(d) = (IF d \in own THEN Welcome(d, own) ELSE {})
                     /\ store[d] = (IF d \in docs THEN Welcome(d, own) ELSE {})
                     /\ seen[d] = (IF d \in docs \cap own THEN Welcome(d, own) ELSE {})
                     /\ seen[d] \subseteq BootDoc(d)
  BY <1>3 DEF BootDoc
<1>8. CopyTypes
  <2>1. ASSUME NEW d \in own \cup docs PROVE IsCopy(Welcome(d, own))
    <3>1. d \in Nat
      BY <1>4
    <3>2. PICK o : Welcome(d, own) = {o} /\ IsCopy({o})
      BY <1>1, <3>1, WelcomeIs
    <3> QED
      BY <3>2
  <2>2. IsCopy({})
    BY CopiesAre
  <2>3. \A d \in Doc : IsCopy(store[d])
    BY <1>7, <2>1, <2>2
  <2>4. \A d \in DOMAIN disk : IsCopy(disk[d])
    BY <1>3, <2>1
  <2>5. gen \in Nat /\ minted \in Nat /\ store = [d \in Doc |-> store[d]] /\ seen = [d \in Doc |-> seen[d]]
    BY <1>1, <1>3
  <2> QED
    BY <1>2, <2>3, <2>4, <2>5 DEF CopyTypes
<1>9. ASSUME NEW d \in Doc PROVE NumberedAt(d)
  <2>1. CASE d \in docs \cup own
    <3>0. d \in Nat
      BY <1>4, <2>1
    <3>1. PICK o : Welcome(d, own) = {o} /\ o.n = 0 /\ (o.peer \in Mine <=> d \in own)
      BY <1>1, <3>0, WelcomeIs
    <3>2. /\ \A P : Numbered(store[d], P) /\ Numbered(BootDoc(d), P)
      BY <1>7, <3>1, CountedFirst
    <3>3. \A p \in BootDoc(d) : p.peer \in Mine
      BY <1>7, <3>1
    <3>4. Whole(d)
      BY <1>7, <3>1 DEF Whole, PeerOps
    <3> QED
      BY <1>2, <1>7, <3>2, <3>3, <3>4 DEF NumberedAt, CopyNumbered, LiveOn
  <2>2. CASE d \notin docs \cup own
    <3>1. BootDoc(d) = {} /\ store[d] = {}
      BY <1>7, <2>2
    <3>2. \A P : Numbered({}, P)
      BY CountedFirst
    <3> QED
      BY <1>2, <1>7, <3>1, <3>2 DEF NumberedAt, CopyNumbered, LiveOn, Whole, PeerOps
  <2> QED
    BY <2>1, <2>2
<1>10. KeyDocs
  BY <1>2, <1>3, <1>4, <1>5 DEF KeyDocs, None
<1>11. ServedFromDisk /\ Leases
  BY <1>2 DEF ServedFromDisk, Leases
<1>12. \A d \in Doc : d \notin docs => Unpushed(d)
  BY <1>7 DEF Unpushed
<1>13. FirstCommits
  BY <1>2, <1>3, <1>12 DEF FirstCommits, InHand, None
<1>14. LocalRow
  <2>1. ~known => docs = {}
    BY <1>3
  <2> QED
    BY <1>2, <1>5, <1>12, <2>1 DEF LocalRow, Joining, None
<1> QED
  BY <1>6, <1>8, <1>9, <1>10, <1>11, <1>13, <1>14 DEF CopiesInv, Numbering

\* Where the commits are and how they are numbered, in every state: of a
\* document without one of OpIdsUnique's exceptions, the copy has all that the
\* server has of this installation's commits, unless its rows are deleted, and
\* what a mirror has is in the copy or on the way to it.
THEOREM CopiesHold == Spec => []CopiesInv
<1>1. Init => AccessInv /\ HostInv /\ KeysInv /\ CopiesInv
  BY InitOK, InitKeeps, InitKeyedAll, InitCopies
<1>2. AccessInv /\ HostInv /\ KeysInv /\ CopiesInv /\ [Next]_vars
        => (AccessInv /\ HostInv /\ KeysInv /\ CopiesInv)'
  BY NextOK, NextKeeps, NextKeyed, NextCopies
<1> QED
  BY <1>1, <1>2, PTL DEF Spec

-----------------------------------------------------------------------------
(* What it means *)

\* A commit of d that is on this installation or on the server.
Somewhere(o, d) ==
  \/ o \in BootDoc(d) \cup store[d]
  \/ \E s \in Sub : LiveOn(s, d) /\ o \in mirrors[s].has \cup mirrors[s].down

\* A commit of d that a mirror has and the host does not.
OnItsWay(o, d, s) ==
  /\ LiveOn(s, d)
  /\ ~mirrors[s].behind
  /\ o.peer = mirrors[s].peer
  /\ o \in mirrors[s].has

\* Commits that are numbered are told apart by their numbers.
LEMMA NumberedApart ==
  ASSUME NEW S, NEW P, Numbered(S, P), NEW o \in S, NEW p \in S,
         o.peer = P, p.peer = P, o.n = p.n
  PROVE  o = p
BY DEF Numbered, Counted, PeerOps

\* The commits are in the copy, on the server, or on their way from a mirror.
LEMMA CommitsAre ==
  ASSUME HostInv, CopiesInv, NEW d \in Doc, ~Damaged(d), NEW o, Somewhere(o, d)
  PROVE  o \in BootDoc(d) \cup store[d] \/ \E s \in Sub : OnItsWay(o, d, s)
<1>1. CASE o \in BootDoc(d) \cup store[d]
  BY <1>1
<1>2. ASSUME NEW s \in Sub, LiveOn(s, d), o \in mirrors[s].has \cup mirrors[s].down,
             o \notin BootDoc(d)
      PROVE  OnItsWay(o, d, s)
  <2>1. MirrorNumbered(mirrors[s], d) /\ mirrors[s].up \in Seq(mirrors[s].has)
    BY <1>2, LiveIs DEF CopiesInv, Numbering, NumberedAt, LiveOn
  <2>2. PICK i \in DOMAIN mirrors[s].up : o = mirrors[s].up[i]
    BY <1>2, <2>1 DEF MirrorNumbered
  <2>3. o.peer = mirrors[s].peer /\ ~mirrors[s].behind
    BY <2>1, <2>2 DEF MirrorNumbered
  <2>4. o \in mirrors[s].has
    BY <2>1, <2>2
  <2> QED
    BY <1>2, <2>3, <2>4 DEF OnItsWay
<1> QED
  BY <1>1, <1>2 DEF Somewhere

\* Two commits of a document with one peer and one number are one.
LEMMA CommitsApart ==
  ASSUME HostInv, CopiesInv, NEW d \in Doc, ~Damaged(d), NEW o, NEW p,
         Somewhere(o, d), Somewhere(p, d), o.peer = p.peer, o.n = p.n
  PROVE  o = p
<1> DEFINE B == BootDoc(d)
           P == o.peer
           In(S) == o \in S /\ p \in S
<1>1. CopyNumbered(d) /\ gen \in Nat /\ IsCopy(B) /\ IsCopy(store[d])
  BY BootCopy DEF CopiesInv, Numbering, NumberedAt, CopyTypes
<1>2. /\ o \in B \cup store[d] \/ \E s \in Sub : OnItsWay(o, d, s)
      /\ p \in B \cup store[d] \/ \E s \in Sub : OnItsWay(p, d, s)
  BY CommitsAre
<1>3. ASSUME NEW s \in Sub, NEW q, OnItsWay(q, d, s)
      PROVE  /\ MirrorNumbered(mirrors[s], d) /\ Whole(d) /\ q.peer \in Mine
             /\ q.peer = mirrors[s].peer
             /\ \A r \in Sub : LiveOn(r, d) /\ mirrors[r].peer = mirrors[s].peer => r = s
  <2>1. MirrorNumbered(mirrors[s], d) /\ ~mirrors[s].behind /\ mirrors[s].state = "live"
        /\ q.peer = mirrors[s].peer
    BY <1>3 DEF OnItsWay, LiveOn, CopiesInv, Numbering, NumberedAt
  <2>2. /\ mirrors[s].peer \in Mine
        /\ \A r \in Sub : mirrors[r].state = "live" /\ mirrors[r].peer = mirrors[s].peer => r = s
    BY <2>1, LiveIs DEF CopiesInv
  <2>3. Whole(d)
    BY <2>1 DEF MirrorNumbered
  <2> QED
    BY <2>1, <2>2, <2>3 DEF LiveOn
<1>4. CASE P \notin Mine
  <2>1. o \in B \cup store[d] /\ p \in B \cup store[d]
    BY <1>2, <1>3, <1>4
  <2>2. In(store[d])
    BY <1>1, <1>4, <2>1 DEF CopyNumbered
  <2>3. P \in AnyPeer
    BY <1>1, <2>2, PeersAre DEF IsCopy
  <2>4. Numbered(store[d], P)
    BY <1>1, <2>3 DEF CopyNumbered
  <2> QED
    BY <2>2, <2>4, NumberedApart
<1>5. CASE P \in Mine /\ ~Whole(d)
  <2>1. o \in B \cup store[d] /\ p \in B \cup store[d]
    BY <1>2, <1>3, <1>5
  <2>2. In(store[d])
    BY <1>1, <1>5, <2>1 DEF CopyNumbered
  <2>3. Numbered(store[d], P)
    BY <1>1, <1>5, PeersAre DEF CopyNumbered
  <2> QED
    BY <2>2, <2>3, NumberedApart
<1>6. ASSUME P \in Mine, Whole(d), NEW s \in Sub, NEW q, OnItsWay(q, d, s), q.peer = P
      PROVE  o = p
  <2>1. /\ MirrorNumbered(mirrors[s], d) /\ mirrors[s].peer = P /\ ~mirrors[s].behind
        /\ \A r \in Sub : LiveOn(r, d) /\ mirrors[r].peer = P => r = s
    BY <1>3, <1>6 DEF OnItsWay
  <2>2. PeerOps(B, P) \subseteq mirrors[s].has /\ Numbered(mirrors[s].has, P)
    <3>1. PICK k \in Nat : Counted(mirrors[s].has, P, k + Len(mirrors[s].up))
      BY <2>1 DEF MirrorNumbered
    <3>2. k + Len(mirrors[s].up) \in Nat
      <4>1. mirrors[s].up \in Seq(mirrors[s].has)
        BY <1>6, LiveIs DEF CopiesInv, OnItsWay, LiveOn
      <4>2. Len(mirrors[s].up) \in Nat
        BY <4>1
      <4> QED
        BY <4>2
    <3> QED
      BY <2>1, <3>1, <3>2 DEF MirrorNumbered, Numbered
  <2>3. \A x : x \in B \cup store[d] /\ x.peer = P => x \in mirrors[s].has
    BY <1>6, <2>2 DEF Whole, PeerOps
  <2>4. \A x, r : r \in Sub /\ OnItsWay(x, d, r) /\ x.peer = P => x \in mirrors[s].has
    BY <2>1 DEF OnItsWay
  <2>5. In(mirrors[s].has)
    BY <1>2, <2>3, <2>4
  <2> QED
    BY <2>2, <2>5, NumberedApart
<1>7. CASE P \in Mine /\ Whole(d) /\ In(B \cup store[d])
  <2>1. In(B)
    BY <1>7 DEF Whole, PeerOps
  <2>2. Numbered(B, P)
    BY <1>1, <1>7 DEF CopyNumbered
  <2> QED
    BY <2>1, <2>2, NumberedApart
<1> QED
  BY <1>2, <1>4, <1>5, <1>6, <1>7

\* What OpIdsUnique asks of a state.
LEMMA CopiesUnique ==
  ASSUME HostInv, CopiesInv
  PROVE  OpIdsUnique
<1> SUFFICES ASSUME NEW d \in Doc, ~Damaged(d)
             PROVE  LET host_ == IF d \in DOMAIN host.mem THEN host.mem[d] ELSE {}
                        shown == UNION {mirrors[s].has \cup mirrors[s].down :
                                          s \in {r \in Sub : mirrors[r].state = "live" /\ mirrors[r].doc = d}}
                        all == host_ \cup BootDoc(d) \cup store[d] \cup shown
                    IN \A o, p \in all : o.peer = p.peer /\ o.n = p.n => o = p
  BY DEF OpIdsUnique
<1> DEFINE host_ == IF d \in DOMAIN host.mem THEN host.mem[d] ELSE {}
           shown == UNION {mirrors[s].has \cup mirrors[s].down :
                             s \in {r \in Sub : mirrors[r].state = "live" /\ mirrors[r].doc = d}}
           all == host_ \cup BootDoc(d) \cup store[d] \cup shown
<1>1. host_ \subseteq BootDoc(d)
  BY DEF CopiesInv, ServedFromDisk, Damaged
<1>2. \A o \in shown : Somewhere(o, d)
  BY DEF Somewhere, LiveOn
<1> HIDE DEF host_, shown
<1>3. \A o \in all : Somewhere(o, d)
  BY <1>1, <1>2 DEF Somewhere
<1> HIDE DEF all
<1>4. \A o, p \in all : o.peer = p.peer /\ o.n = p.n => o = p
  BY <1>3, CommitsApart
<1> QED
  BY <1>4 DEF all, host_, shown

\* Two commits that have left the copy they were made on never share a peer
\* and a counter (peer.rs), through crashes, restarts, leases handed on to
\* other mirrors and updates that arrive after their subscription has ended,
\* for any number of documents, mirrors and commits. As OpIdsUnique says, this
\* is not claimed of a document that db clear has cleared under a host, whose
\* history a login over a profile has taken, or that a commit was made on
\* between the deletion of its rows and their being fetched again.
THEOREM OpIdsAreUnique == Spec => []OpIdsUnique
<1>1. HostInv /\ CopiesInv => OpIdsUnique
  BY CopiesUnique
<1> QED
  BY <1>1, HostHolds, CopiesHold, PTL

\* The shapes that the parts of the invariant give.
LEMMA ShapesAre ==
  ASSUME PresenceInv, HostInv, KeysInv, CopiesInv
  PROVE  TypeOK
<1>0. AccessInv /\ Sessions /\ Subscribers /\ Registry /\ HomeUnlockable
  BY DEF PresenceInv, KeysInv
<1>1. DOMAIN accounts \subseteq Account /\ docs \subseteq Doc
  BY <1>0 DEF AccessInv, Tables, AccountRows, MemberRows
<1>2. DOMAIN members \subseteq docs \X DOMAIN accounts
  <2>1. DOMAIN members \subseteq docs \X Account
    BY <1>0 DEF AccessInv, Tables, MemberRows
  <2>2. \A d \in Doc, a \in Account : <<d, a>> \in DOMAIN members => a \in DOMAIN accounts
    BY <1>0 DEF Registry
  <2> QED
    BY <1>1, <2>1, <2>2
<1>3. \A d, a : IsOwner(d, a) => d \in docs
  BY <1>2 DEF IsOwner, IsMember
<1>4. \A a \in DOMAIN accounts : accounts[a].primary \in docs /\ accounts[a].password \in Password
  BY <1>0, <1>3 DEF HomeUnlockable, CopiesInv, Passwords
<1>5. devices \in Seq(DOMAIN accounts \cup {None})
  <2>1. devices \in Seq(Account \cup {None})
    BY <1>0 DEF AccessInv, Tables, Credentials
  <2>2. \A t \in DOMAIN devices : devices[t] \in DOMAIN accounts \cup {None}
    BY <1>0 DEF Registry
  <2> QED
    BY <2>1, <2>2
<1>6. \A i \in DOMAIN invites : invites[i].state = "open" => invites[i].doc \in docs
  BY <1>0, <1>3 DEF AccessInv, Tables, Invites
<1>7. \A d \in Doc : subs[d] \subseteq {k \in Conn : conns[k].up}
  BY <1>0 DEF Sessions, Subscribers
<1>8. lock \in {None, CmdClient, host.who}
  BY DEF HostInv, Locking
<1>9. DOMAIN host.engine = DOMAIN host.mem /\ host.asking \subseteq DOMAIN host.mem
  BY DEF CopiesInv, ServedFromDisk
<1>10. \A d \in DOMAIN disk : disk[d] \subseteq Ops
  <2>1. gen \in Nat /\ \A d \in DOMAIN disk : IsCopy(disk[d])
    BY DEF CopiesInv, CopyTypes
  <2>2. SoFar \subseteq {RemotePeer} \cup (Nat \X Nat)
    BY <2>1, PeersAre DEF AnyPeer
  <2>3. Commits \subseteq Ops
    BY <2>2 DEF Commits, Ops
  <2> QED
    BY <2>1, <2>3, CopiesAre
<1> QED
  BY <1>1, <1>2, <1>4, <1>5, <1>6, <1>7, <1>8, <1>9, <1>10 DEF TypeOK

\* Rows name accounts and documents that exist, subscribers are connections
\* that are up, the lock is the host's or the command's, and every copy is a
\* set of commits: the foreign keys of the schema, kept by the routes.
THEOREM TypeCorrectHost == Spec => []TypeOK
<1>1. PresenceInv /\ HostInv /\ KeysInv /\ CopiesInv => TypeOK
  BY ShapesAre
<1> QED
  BY <1>1, PresenceHolds, HostHolds, KeysHold, CopiesHold, PTL
=============================================================================
