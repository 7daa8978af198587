-------------------------- MODULE SyncSystemProofs --------------------------
(***************************************************************************)
(* Proof that IInv is an invariant of SyncSystem for any number of devices *)
(* and every bound, and that TypeOK, KnownInStream, SnapshotsInStream and  *)
(* FrontierBelowCursor follow.                                             *)
(*                                                                         *)
(* Every step only lets the update log, the payloads, the snapshot table   *)
(* and the durable cursors grow (Grows), so what was allowed to be in a    *)
(* frame, a session, an engine or a database before it is allowed after it *)
(* (Carry).  The lemma of an action therefore only has to look at what the *)
(* action changes.                                                         *)
(***************************************************************************)
EXTENDS SyncInvariant, SequenceTheorems, WellFoundedInduction, TLAPS

-----------------------------------------------------------------------------
(* Operations and version vectors *)

\* An operation is a device and a counter within its bound.
LEMMA OpForm ==
  \A o : o \in Op <=> /\ o = <<o[1], o[2]>>
                      /\ o[1] \in Device
                      /\ o[2] \in 1..MaxOps[o[1]]
BY DEF Op

\* A connection is a device and an ordinal within its bound.
LEMMA ConnForm ==
  \A c : c \in Conn <=> /\ c = <<c[1], c[2]>>
                        /\ c[1] \in Device
                        /\ c[2] \in 1..MaxConn[c[1]]
BY DEF Conn

\* A version vector is downward closed: the declared range of a set of
\* operations contains the set, is monotone, and declares nothing new.
LEMMA DeclaredFacts ==
  ASSUME NEW A, A \subseteq Op
  PROVE  /\ A \subseteq Declared(A)
         /\ Declared(A) \subseteq Op
         /\ \A B : B \subseteq A => Declared(B) \subseteq Declared(A)
         /\ \A B : B \subseteq Declared(A) => Declared(B) \subseteq Declared(A)
<1> USE BoundsAssumption
<1>1. A \subseteq Declared(A)
  BY OpForm DEF Declared
<1>2. Declared(A) \subseteq Op
  BY OpForm DEF Declared
<1>3. ASSUME NEW B, B \subseteq A PROVE Declared(B) \subseteq Declared(A)
  BY <1>3 DEF Declared
<1>4. ASSUME NEW B, B \subseteq Declared(A) PROVE Declared(B) \subseteq Declared(A)
  <2>1. SUFFICES ASSUME NEW b \in B, NEW k \in 1..b[2]
                 PROVE  <<b[1], k>> \in Declared(A)
    BY DEF Declared
  <2>2. PICK o \in A : \E n \in 1..o[2] : b = <<o[1], n>>
    BY <1>4, <2>1 DEF Declared
  <2>3. PICK n \in 1..o[2] : b = <<o[1], n>>
    BY <2>2
  <2>4. k \in 1..o[2]
    BY <2>1, <2>3, OpForm
  <2> QED
    BY <2>3, <2>4 DEF Declared
<1> QED
  BY <1>1, <1>2, <1>3, <1>4

\* A non-empty set of naturals has its minimum in it.
LEMMA MinOfFacts ==
  ASSUME NEW S, S \subseteq Nat, S # {}
  PROVE  MinOf(S) \in S
<1> DEFINE R == OpToRel(<, Nat)
<1>1. \E x \in S : \A y \in S : ~(<<y, x>> \in R)
  <2> HIDE DEF R
  <2>1. IsWellFoundedOn(R, Nat)
    BY NatLessThanWellFounded DEF R
  <2> QED
    BY <2>1, WFMin
<1>2. \A x, y \in Nat : x < y => <<x, y>> \in R
  BY DEF OpToRel
<1> HIDE DEF R
<1>3. PICK m \in S : \A x \in S : ~(<<x, m>> \in R)
  BY <1>1
<1>4. ASSUME NEW x \in S PROVE m <= x
  <2>1. x \in Nat /\ m \in Nat /\ ~(x < m)
    BY <1>2, <1>3
  <2> QED
    BY <2>1
<1> QED
  BY <1>3, <1>4 DEF MinOf

-----------------------------------------------------------------------------
(* Families of queues *)

\* A family of queues stays one when a queue is appended to, extended, read
\* from or emptied.
LEMMA QueueUpdate ==
  ASSUME NEW f, NEW S, NEW G, Queues(f, S, G), NEW c \in S
  PROVE  /\ f[c] \in Seq(G[c])
         /\ Queues([f EXCEPT ![c] = <<>>], S, G)
         /\ \A m \in G[c] : Queues([f EXCEPT ![c] = Append(@, m)], S, G)
         /\ \A q \in Seq(G[c]) : Queues([f EXCEPT ![c] = @ \o q], S, G)
         /\ \A q \in Seq(G[c]) : Queues([f EXCEPT ![c] = q], S, G)
         /\ f[c] # <<>> => Head(f[c]) \in G[c]
         /\ f[c] # <<>> => Queues([f EXCEPT ![c] = Tail(@)], S, G)
<1>1. /\ f = [x \in S |-> f[x]]
      /\ \A x \in S : f[x] \in Seq(G[x])
  BY DEF Queues
<1>2. \A q \in Seq(G[c]) : Queues([f EXCEPT ![c] = q], S, G)
  BY <1>1 DEF Queues
<1>3. f[c] # <<>> => Head(f[c]) \in G[c] /\ Tail(f[c]) \in Seq(G[c])
  BY <1>1
<1>4. \A m \in G[c] : Append(f[c], m) \in Seq(G[c])
  BY <1>1
<1>5. \A q \in Seq(G[c]) : f[c] \o q \in Seq(G[c])
  BY <1>1
<1>6. <<>> \in Seq(G[c])
  OBVIOUS
<1> QED
  BY <1>1, <1>2, <1>3, <1>4, <1>5, <1>6

\* A family of queues stays one when its sets of messages grow.
LEMMA QueueGrow ==
  ASSUME NEW f, NEW S, NEW G, NEW H, Queues(f, S, G),
         \A x \in S : G[x] \subseteq H[x]
  PROVE  Queues(f, S, H)
<1>1. SUFFICES ASSUME NEW x \in S PROVE f[x] \in Seq(H[x])
  BY DEF Queues
<1>2. f[x] \in Seq(G[x]) /\ G[x] \subseteq H[x]
  BY DEF Queues
<1> QED
  BY <1>2

\* The same for a family of values.
LEMMA WithinUpdate ==
  ASSUME NEW f, NEW S, NEW G, Within(f, S, G), NEW x \in S, NEW v \in G[x]
  PROVE  Within([f EXCEPT ![x] = v], S, G)
BY DEF Within

\* A family stays within sets that have grown.
LEMMA WithinGrow ==
  ASSUME NEW f, NEW S, NEW G, NEW H, Within(f, S, G),
         \A x \in S : G[x] \subseteq H[x]
  PROVE  Within(f, S, H)
BY DEF Within

-----------------------------------------------------------------------------
(* The sets of the invariant grow with their parameters *)

\* The sets of the invariant are monotone in their parameters: snapshot rows.
LEMMA RowMono ==
  ASSUME NEW Q, NEW R, Q \subseteq R
  PROVE  RowIn(Q) \subseteq RowIn(R)
BY DEF RowIn

\* Client frames may carry more as payloads, stream and cursor grow.
LEMMA ClientMono ==
  ASSUME NEW Q, NEW R, Q \subseteq R,
         NEW n \in Nat, NEW m \in Nat, n <= m, NEW a \in Nat, NEW b \in Nat, a <= b
  PROVE  ClientIn(Q, n, a) \subseteq ClientIn(R, m, b)
<1>1. RowIn(Q) \subseteq RowIn(R)
  BY RowMono
<1>2. 1..n \subseteq 1..m /\ 0..a \subseteq 0..b
  OBVIOUS
<1> QED
  BY <1>1, <1>2 DEF ClientIn, AckIn

\* Server frames may refer to more as log and snapshot table grow.
LEMMA ServerMono ==
  ASSUME NEW P, NEW O, P \subseteq O,
         NEW L \in Nat, NEW K \in Nat, L <= K, NEW M \in Nat, NEW N \in Nat, M <= N
  PROVE  ServerIn(P, L, M) \subseteq ServerIn(O, K, N)
<1>1. 1..L \subseteq 1..K /\ 0..L \subseteq 0..K /\ 1..M \subseteq 1..N /\ 0..M \subseteq 0..N
  OBVIOUS
<1> QED
  BY <1>1 DEF ServerIn

\* So may sessions and the tasks they are at.
LEMMA SessMono ==
  ASSUME NEW Q, NEW R, Q \subseteq R, NEW P, NEW O, P \subseteq O,
         NEW L \in Nat, NEW K \in Nat, L <= K
  PROVE  SessIn(Q, P, L) \subseteq SessIn(R, O, K)
<1>1. 1..L \subseteq 1..K
  OBVIOUS
<1>2. RowIn(Q) \subseteq RowIn(R)
  BY RowMono
<1>3. TaskIn(Q, P, L) \subseteq TaskIn(R, O, K)
  BY <1>1, <1>2 DEF TaskIn
<1>4. Seq(1..L) \subseteq Seq(1..K)
  BY <1>1
<1> QED
  BY <1>3, <1>4 DEF SessIn

\* So may an engine's claims and its in-flight record.
LEMMA EngineMono ==
  ASSUME NEW Q, NEW R, Q \subseteq R,
         NEW n \in Nat, NEW m \in Nat, n <= m, NEW a \in Nat, NEW b \in Nat, a <= b
  PROVE  EngineIn(Q, n, a) \subseteq EngineIn(R, m, b)
<1>1. 0..n \subseteq 0..m /\ 0..a \subseteq 0..b
  OBVIOUS
<1>2. AckIn(a) \subseteq AckIn(b)
  BY <1>1 DEF AckIn
<1>3. Seq(AckIn(a)) \subseteq Seq(AckIn(b))
  BY <1>2
<1> QED
  BY <1>1, <1>3 DEF EngineIn

\* So may what its database holds.
LEMMA DiskMono ==
  ASSUME NEW Q, NEW R, Q \subseteq R, NEW n \in Nat, NEW m \in Nat, n <= m
  PROVE  DiskIn(Q, n) \subseteq DiskIn(R, m)
BY DEF DiskIn

-----------------------------------------------------------------------------
(* The stream *)

\* A row names a payload that exists.
LEMMA RowPayload ==
  ASSUME StreamInv, NEW s \in 1..Len(log)
  PROVE  /\ log[s].dev \in Device
         /\ log[s].push \in 1..Len(blobs[log[s].dev])
         /\ blobs[log[s].dev][log[s].push] \in [ops: Ops, to: Ops]
<1> DEFINE R == [dev: Device, push: Nat]
           B == [ops: Ops, to: Ops]
<1>0. log \in Seq(R) /\ \A d \in Device : blobs[d] \in Seq(B)
  BY DEF StreamInv
<1>1. log[s] \in R
  <2> HIDE DEF R, B
  <2> QED BY <1>0
<1>2. log[s].push \in 1..Len(blobs[log[s].dev])
  BY DEF StreamInv
<1>3. log[s].dev \in Device
  BY <1>1
<1>4. blobs[log[s].dev][log[s].push] \in B
  <2> HIDE DEF R, B
  <2>1. blobs[log[s].dev] \in Seq(B)
    BY <1>0, <1>3
  <2> QED BY <1>2, <2>1, ElementOfSeq
<1> QED
  BY <1>2, <1>3, <1>4

\* Every range of rows carries operations of the stream, and the stream's
\* declared range is closed under Declared.
LEMMA StreamFacts ==
  ASSUME StreamInv
  PROVE  /\ StreamOps \subseteq Op
         /\ StreamOps \subseteq Known
         /\ Known \subseteq Op
         /\ \A A : A \subseteq Known => Declared(A) \subseteq Known
         /\ \A s \in 1..Len(log) : RowOps(s) \subseteq StreamOps
         /\ \A lo \in Nat \ {0}, hi \in 0..Len(log) :
              /\ RangeOps(lo, hi) \subseteq StreamOps
              /\ Declared(RangeOps(lo, hi)) \subseteq Known
<1>0. Len(log) \in Nat
  BY DEF StreamInv
<1>1. \A s \in 1..Len(log) : RowOps(s) \subseteq Op
  BY RowPayload DEF RowOps, Ops
<1>2. StreamOps \subseteq Op
  BY <1>1 DEF StreamOps, RangeOps
<1>3. /\ StreamOps \subseteq Known
      /\ Known \subseteq Op
      /\ \A A : A \subseteq Known => Declared(A) \subseteq Known
  BY <1>2, DeclaredFacts DEF Known
<1>4. \A s \in 1..Len(log) : RowOps(s) \subseteq StreamOps
  BY DEF StreamOps, RangeOps
<1>5. ASSUME NEW lo \in Nat \ {0}, NEW hi \in 0..Len(log)
      PROVE  RangeOps(lo, hi) \subseteq StreamOps
  <2>1. lo..hi \subseteq 1..Len(log)
    BY <1>0
  <2> QED
    BY <2>1, <1>4 DEF RangeOps
<1> QED
  BY <1>2, <1>3, <1>4, <1>5

\* What the next state's stream holds, it declares.
LEMMA StreamFactsNext ==
  ASSUME StreamInv'
  PROVE  StreamOps' \subseteq Known'
<1>1. (StreamInv => StreamOps \subseteq Known)'
  BY StreamFacts, PTL
<1> QED
  BY <1>1

\* The shared, append-only part of the state.
Grows ==
  /\ Len(log) \in Nat /\ Len(log') \in Nat /\ Len(log) <= Len(log')
  /\ \A s \in 1..Len(log) : log'[s] = log[s]
  /\ \A d \in Device : /\ Len(blobs[d]) \in Nat /\ Len(blobs'[d]) \in Nat
                       /\ Len(blobs[d]) <= Len(blobs'[d])
                       /\ \A n \in 1..Len(blobs[d]) : blobs'[d][n] = blobs[d][n]
  /\ Len(snaps) \in Nat /\ Len(snaps') \in Nat /\ Len(snaps) <= Len(snaps')
  /\ \A d \in Device : /\ disk[d].cursor \in Nat /\ disk'[d].cursor \in Nat
                       /\ disk[d].cursor <= disk'[d].cursor

\* The update log is append-only: the range it declares grows, and a push
\* that has landed has landed for good.
LEMMA KnownGrows ==
  ASSUME StreamInv, Grows
  PROVE  /\ Known \subseteq Known'
         /\ \A d \in Device : Landed(d) \subseteq Landed(d)'
<1>1. ASSUME NEW s \in 1..Len(log)
      PROVE  /\ s \in 1..Len(log')
             /\ RowOps(s)' = RowOps(s)
  <2>1. s \in 1..Len(log') /\ log'[s] = log[s]
    BY DEF Grows
  <2>2. log[s].dev \in Device /\ log[s].push \in 1..Len(blobs[log[s].dev])
    BY RowPayload
  <2>3. blobs'[log[s].dev][log[s].push] = blobs[log[s].dev][log[s].push]
    BY <2>2 DEF Grows
  <2> QED
    BY <2>1, <2>3 DEF RowOps
<1>2. StreamOps \subseteq StreamOps'
  BY <1>1 DEF StreamOps, RangeOps
<1>3. Known \subseteq Known'
  BY <1>2 DEF Known, Declared
<1>4. ASSUME NEW d \in Device PROVE Landed(d) \subseteq Landed(d)'
  BY <1>3 DEF Landed, Grows
<1> QED
  BY <1>3, <1>4

\* What no step of the log, the payloads, the snapshots or the cursors can
\* take away from the rest of the state.
LEMMA Carry ==
  ASSUME IInv, Grows
  PROVE  /\ Queues(c2s, Conn, ClientSets')
         /\ Queues(s2c, Conn, ServerSets')
         /\ Within(sess, Conn, SessSets')
         /\ Within(dev, Device, EngineSets')
         /\ Within(disk, Device, DiskSets')
         /\ snaps \in Seq(RowIn(Known'))
<1>1. /\ Known \subseteq Known'
      /\ \A d \in Device : Landed(d) \subseteq Landed(d)'
  BY KnownGrows DEF IInv
<1>2. \A c \in Conn : c[1] \in Device
  BY ConnForm
<1>3. \A c \in Conn : ClientSets[c] \subseteq ClientSets'[c]
  BY <1>1, <1>2, ClientMono DEF Grows, ClientSets
<1>4. \A c \in Conn : ServerSets[c] \subseteq ServerSets'[c]
  BY <1>1, <1>2, ServerMono DEF Grows, ServerSets
<1>5. \A c \in Conn : SessSets[c] \subseteq SessSets'[c]
  BY <1>1, <1>2, SessMono DEF Grows, SessSets
<1>6. \A d \in Device : EngineSets[d] \subseteq EngineSets'[d]
  BY <1>1, EngineMono DEF Grows, EngineSets
<1>7. \A d \in Device : DiskSets[d] \subseteq DiskSets'[d]
  BY <1>1, DiskMono DEF Grows, DiskSets
<1>8. RowIn(Known) \subseteq RowIn(Known')
  BY <1>1, RowMono
<1>9. snaps \in Seq(RowIn(Known'))
  BY <1>8 DEF IInv, SnapsInv
<1>10. Queues(c2s, Conn, ClientSets') /\ Queues(s2c, Conn, ServerSets')
  BY <1>3, <1>4, QueueGrow DEF IInv, WireInv
<1>11. Within(sess, Conn, SessSets')
  BY <1>5, WithinGrow DEF IInv, SessInv
<1>12. Within(dev, Device, EngineSets') /\ Within(disk, Device, DiskSets')
  BY <1>6, <1>7, WithinGrow DEF IInv, DeviceInv
<1> QED
  BY <1>9, <1>10, <1>11, <1>12

-----------------------------------------------------------------------------
(* Fields of frames and tasks *)

\* The fields of a client frame, by its type.
LEMMA ClientFields ==
  ASSUME NEW Q, NEW n, NEW a, NEW f \in ClientIn(Q, n, a)
  PROVE  /\ f.type = "Ack" => f.seq \in 0..a
         /\ f.type = "PullUpdates" => f.since \in Nat
         /\ f.type = "PushUpdates" => f.push \in 1..n
         /\ f.type = "PushSnapshot" => f.row \in RowIn(Q)
BY DEF ClientIn, AckIn

\* The fields of a server frame, by its type.
LEMMA ServerFields ==
  ASSUME NEW P, NEW L, NEW M, NEW f \in ServerIn(P, L, M)
  PROVE  /\ f.type = "UpdatesBatch" => f.lo \in Nat \ {0} /\ f.hi \in 0..L
         /\ f.type = "UpdatesBroadcast" => f.seq \in 1..L
         /\ f.type = "UpdatesAck" => f.push \in P /\ f.seq \in Nat
         /\ f.type = "Snapshot" => f.row \in 1..M
         /\ f.type = "SnapshotRequest" => f.floor \in Nat /\ f.base \in 0..M
BY DEF ServerIn

\* The fields of the step a session is at, by its kind.
LEMMA TaskFields ==
  ASSUME NEW Q, NEW P, NEW L, NEW t \in TaskIn(Q, P, L)
  PROVE  /\ t.kind = "push" => t.push \in P /\ t.seq \in 1..L /\ t.fresh \in BOOLEAN
         /\ t.kind = "pull" => t.cursor \in Nat
         /\ t.kind = "snap" => t.row \in RowIn(Q)
BY DEF TaskIn, NoTask

-----------------------------------------------------------------------------
(* Engines and databases *)

\* The document is part of what was imported.
LEMMA DocOfType ==
  ASSUME NEW Q, NEW n, NEW a, NEW e \in EngineIn(Q, n, a)
  PROVE  DocOf(e) \subseteq e.imported /\ DocOf(e) \in Ops
BY DEF DocOf, Applied, EngineIn, Ops

\* capture_local_ops and write_snapshot leave server_known_vv, the in-flight
\* record and the durable cursor alone.
LEMMA CapturedType ==
  ASSUME NEW Q, NEW n, NEW a, NEW e \in EngineIn(Q, n, a), NEW k \in DiskIn(Q, n)
  PROVE  /\ CapturedDev(e) \in EngineIn(Q, n, a)
         /\ CapturedDev(e).state = e.state
         /\ CapturedDev(e).durable = e.durable
         /\ CapturedDev(e).known = e.known
         /\ CapturedDisk(e, k) \in DiskIn(Q, n)
         /\ CapturedDisk(e, k).cursor = k.cursor
         /\ FoldedDisk(e, k) \in DiskIn(Q, n)
         /\ FoldedDisk(e, k).cursor = k.cursor
<1>1. DocOf(e) \in Ops
  BY DocOfType
<1> QED
  BY <1>1 DEF CapturedDev, CapturedDisk, FoldedDisk, EngineIn, DiskIn, Ops

\* A booted engine claims what its storage claimed (boot_doc, seed_boot).
LEMMA BootedType ==
  ASSUME NEW Q, NEW n, NEW k \in DiskIn(Q, n)
  PROVE  /\ Booted(k) \in EngineIn(Q, n, k.cursor)
         /\ Booted(k).durable = k.cursor
         /\ Booted(k).state = "Disconnected"
<1>1. k.snap \cup k.wal \in Ops
  BY DEF DiskIn, Ops
<1>2. Declared(k.snap \cup k.wal) \in Ops
  BY <1>1, DeclaredFacts DEF Ops
<1>3. <<>> \in Seq(AckIn(k.cursor))
  OBVIOUS
<1> QED
  BY <1>1, <1>2, <1>3 DEF Booted, EngineIn, DiskIn, EngineState

\* Importing operations that the stream declares claims nothing else.
LEMMA ImportedType ==
  ASSUME NEW Q, NEW n, NEW a, NEW e \in EngineIn(Q, n, a), Q \subseteq Op,
         NEW ops, ops \subseteq Op, Declared(ops) \subseteq Q
  PROVE  /\ ImportedDev(e, ops) \in EngineIn(Q, n, a)
         /\ ImportedDev(e, ops).state = e.state
         /\ ImportedDev(e, ops).durable = e.durable
         /\ ImportedDev(e, ops).known \subseteq Q
BY DEF ImportedDev, EngineIn, Ops

\* apply_remote_updates over rows of the log keeps engine and storage within
\* what the stream declares, after any number of its WAL appends.
LEMMA AppliedType ==
  ASSUME StreamInv, NEW n, NEW a, NEW e \in EngineIn(Known, n, a), NEW k \in DiskIn(Known, n),
         NEW lo \in Nat \ {0}, NEW hi \in 0..Len(log), NEW m \in Int, m <= hi
  PROVE  /\ AppliedDev(e, lo, hi) \in EngineIn(Known, n, a)
         /\ AppliedDev(e, lo, hi).state = e.state
         /\ AppliedDev(e, lo, hi).durable = e.durable
         /\ AppliedDisk(e, k, lo, m, hi) \in DiskIn(Known, n)
         /\ AppliedDisk(e, k, lo, m, hi).cursor = k.cursor
<1> DEFINE R == RangeOps(lo, hi)
           i == ImportedDev(e, R)
<1>1. R \subseteq Op /\ Declared(R) \subseteq Known /\ Known \subseteq Op
  BY StreamFacts
<1>2. i \in EngineIn(Known, n, a) /\ i.state = e.state /\ i.durable = e.durable
  BY <1>1, ImportedType
<1>3. Len(log) \in Nat
  BY DEF StreamInv
<1>4. IngestRange(i.contig, lo, hi) \in Nat
  <2>1. i.contig \in Nat
    BY <1>2 DEF EngineIn
  <2> QED
    BY <2>1, <1>3 DEF IngestRange
<1>5. /\ AppliedDev(e, lo, hi) \in EngineIn(Known, n, a)
      /\ AppliedDev(e, lo, hi).state = e.state
      /\ AppliedDev(e, lo, hi).durable = e.durable
  BY <1>2, <1>4 DEF AppliedDev, EngineIn
<1>6. m >= lo => RangeOps(lo, m) \in Ops
  <2>1. m >= lo => RangeOps(lo, m) \subseteq StreamOps /\ StreamOps \subseteq Op
    BY <1>3, StreamFacts
  <2> QED
    BY <2>1 DEF Ops
<1>7. i.known \subseteq Known
  BY <1>2 DEF EngineIn
<1> HIDE DEF i
<1>8. CASE m < lo
  BY <1>8, <1>5 DEF AppliedDisk
<1>9. CASE m >= lo
  <2>1. AppliedDisk(e, k, lo, m, hi) = [k EXCEPT !.wal = @ \cup RangeOps(lo, m), !.known = i.known]
    BY <1>9 DEF AppliedDisk, i
  <2> QED
    BY <2>1, <1>5, <1>6, <1>7, <1>9 DEF DiskIn, Ops
<1> QED
  BY <1>8, <1>9

-----------------------------------------------------------------------------
(* Steps of a device *)

\* A device with a link is on one of its own connections.
LEMMA MyConnType ==
  ASSUME LinkInv, NEW d \in Device, link[d] # 0
  PROVE  MyConn(d) \in Conn /\ MyConn(d)[1] = d
<1>1. link[d] \in 1..MaxConn[d]
  BY BoundsAssumption DEF LinkInv
<1> QED
  BY <1>1, ConnForm DEF MyConn

\* Sending an allowed frame keeps the client queues allowed.
LEMMA ToServerQueues ==
  ASSUME NEW G, Queues(c2s, Conn, G), NEW d, MyConn(d) \in Conn,
         NEW f \in G[MyConn(d)], ToServer(d, f)
  PROVE  Queues(c2s', Conn, G)
BY QueueUpdate DEF ToServer

\* Sending allowed frames keeps the server queues allowed.
LEMMA ToClientQueues ==
  ASSUME NEW G, Queues(s2c, Conn, G), NEW c \in Conn, NEW fs \in Seq(G[c]), ToClient(c, fs)
  PROVE  Queues(s2c', Conn, G)
BY QueueUpdate DEF ToClient

\* A frame a device receives is one the invariant knows, and consuming it
\* leaves a family of queues.
LEMMA ReceivesFrame ==
  ASSUME IInv, NEW d \in Device, NEW type, Receives(d, type)
  PROVE  /\ link[d] # 0
         /\ MyConn(d) \in Conn
         /\ MyConn(d)[1] = d
         /\ Head(Inbox(d)).type = type
         /\ Head(Inbox(d)) \in ServerIn(Landed(d), Len(log), Len(snaps))
         /\ \A G : Queues(s2c, Conn, G) /\ Consume(d) => Queues(s2c', Conn, G)
<1>1. link[d] # 0 /\ Inbox(d) # <<>> /\ Head(Inbox(d)).type = type
  BY DEF Receives
<1>2. MyConn(d) \in Conn /\ MyConn(d)[1] = d
  BY <1>1, MyConnType DEF IInv
<1>3. Head(Inbox(d)) \in ServerSets[MyConn(d)]
  BY <1>1, <1>2, QueueUpdate DEF IInv, WireInv, Inbox
<1>4. ServerSets[MyConn(d)] = ServerIn(Landed(d), Len(log), Len(snaps))
  BY <1>2 DEF ServerSets
<1>5. ASSUME NEW G, Queues(s2c, Conn, G), Consume(d) PROVE Queues(s2c', Conn, G)
  BY <1>1, <1>2, <1>5, QueueUpdate DEF Consume, Inbox
<1> QED
  BY <1>1, <1>2, <1>3, <1>4, <1>5

\* With the stream and the snapshots left alone and no cursor moved back, the
\* append-only part grows.
LEMMA Quiet ==
  ASSUME IInv, blobs' = blobs, log' = log, snaps' = snaps,
         \A d \in Device : disk'[d].cursor \in Nat /\ disk[d].cursor <= disk'[d].cursor
  PROVE  Grows /\ StreamInv' /\ SnapsInv' /\ Known' = Known
               /\ \A d \in Device : Landed(d)' = Landed(d)
<1>1. Known' = Known
  BY DEF Known, StreamOps, RangeOps, RowOps
<1>2. StreamInv'
  BY <1>1 DEF IInv, StreamInv
<1>3. SnapsInv'
  BY <1>1 DEF IInv, SnapsInv
<1>4. \A d \in Device : disk[d].cursor \in Nat /\ Len(blobs[d]) \in Nat
  BY DEF IInv, DeviceInv, Within, DiskSets, DiskIn, StreamInv
<1>5. Len(log) \in Nat /\ Len(snaps) \in Nat
  BY DEF IInv, StreamInv, SnapsInv
<1>6. Grows
  BY <1>4, <1>5 DEF Grows
<1>7. \A d \in Device : Landed(d)' = Landed(d)
  BY <1>1 DEF Landed
<1> QED
  BY <1>1, <1>2, <1>3, <1>6, <1>7

\* What the invariant says of one device.
LEMMA DeviceTypes ==
  ASSUME IInv, NEW d \in Device
  PROVE  /\ dev[d] \in EngineIn(Known, Len(blobs[d]), disk[d].cursor)
         /\ disk[d] \in DiskIn(Known, Len(blobs[d]))
         /\ dev[d].durable = disk[d].cursor
         /\ disk[d].cursor \in Nat
         /\ Len(blobs[d]) \in Nat
         /\ link[d] = 0 => dev[d].state = "Disconnected"
<1>1. dev[d] \in EngineSets[d] /\ disk[d] \in DiskSets[d] /\ dev[d].durable = disk[d].cursor
  BY DEF IInv, DeviceInv, Within
<1>2. /\ dev[d] \in EngineIn(Known, Len(blobs[d]), disk[d].cursor)
      /\ disk[d] \in DiskIn(Known, Len(blobs[d]))
  BY <1>1 DEF EngineSets, DiskSets
<1>3. disk[d].cursor \in Nat
  BY <1>2 DEF DiskIn
<1>4. Len(blobs[d]) \in Nat
  BY DEF IInv, StreamInv
<1> QED
  BY <1>1, <1>2, <1>3, <1>4 DEF IInv, LinkInv

\* Only device d changes, and it stays within the invariant as the stream and
\* the payloads were before the step.
OnlyDevice(d) ==
  /\ dev' = [x \in Device |-> dev'[x]]
  /\ disk' = [x \in Device |-> disk'[x]]
  /\ \A x \in Device : x # d => dev'[x] = dev[x] /\ disk'[x] = disk[x]

GoodDevice(d, Q, n) ==
  /\ dev'[d] \in EngineIn(Q, n, disk'[d].cursor)
  /\ disk'[d] \in DiskIn(Q, n)
  /\ dev'[d].durable = disk'[d].cursor
  /\ disk[d].cursor <= disk'[d].cursor

LinkKept(d) == UNCHANGED <<link, dialed>> /\ (link[d] = 0 => dev'[d].state = "Disconnected")

TablesKept == UNCHANGED <<purged, frontier, lease, nextLease, compactDue, enrolled>>

\* An update of one device's engine and storage touches no other device.
LEMMA OnlyDeviceIntro ==
  ASSUME IInv, NEW d \in Device, NEW e, NEW k,
         dev' = [dev EXCEPT ![d] = e], disk' = [disk EXCEPT ![d] = k]
  PROVE  OnlyDevice(d) /\ dev'[d] = e /\ disk'[d] = k
<1>1. dev = [x \in Device |-> dev[x]] /\ disk = [x \in Device |-> disk[x]]
  BY DEF IInv, DeviceInv, Within
<1> QED
  BY <1>1 DEF OnlyDevice

\* A step that keeps or raises its device's durable cursor lowers none.
LEMMA CursorsGrow ==
  ASSUME IInv, NEW d \in Device, OnlyDevice(d), NEW Q, NEW n, GoodDevice(d, Q, n)
  PROVE  \A x \in Device : /\ disk[x].cursor \in Nat /\ disk'[x].cursor \in Nat
                           /\ disk[x].cursor <= disk'[x].cursor
<1>1. SUFFICES ASSUME NEW x \in Device
               PROVE  /\ disk[x].cursor \in Nat /\ disk'[x].cursor \in Nat
                      /\ disk[x].cursor <= disk'[x].cursor
  OBVIOUS
<1>2. disk[x].cursor \in Nat
  BY DeviceTypes
<1>3. CASE x # d
  BY <1>2, <1>3 DEF OnlyDevice
<1>4. CASE x = d
  BY <1>2, <1>4 DEF GoodDevice, DiskIn
<1> QED
  BY <1>3, <1>4

\* A step of device d in which the server notices nothing but frames.
LEMMA DeviceStep ==
  ASSUME IInv, Grows, StreamInv', SnapsInv', NEW d \in Device,
         OnlyDevice(d), GoodDevice(d, Known', Len(blobs'[d])),
         LinkInv' \/ LinkKept(d),
         deps' \in [Op -> Ops],
         WireInv',
         SessInv' \/ UNCHANGED sess,
         TablesKept
  PROVE  IInv'
<1>1. /\ Within(dev, Device, EngineSets') /\ Within(disk, Device, DiskSets')
      /\ Within(sess, Conn, SessSets')
  BY Carry
<1>2. dev'[d] \in EngineSets'[d] /\ disk'[d] \in DiskSets'[d]
  BY DEF EngineSets, DiskSets, GoodDevice
<1>3. Within(dev', Device, EngineSets') /\ Within(disk', Device, DiskSets')
  BY <1>1, <1>2 DEF Within, OnlyDevice
<1>4. \A x \in Device : dev'[x].durable = disk'[x].cursor
  BY DEF IInv, DeviceInv, OnlyDevice, GoodDevice
<1>5. SessInv'
  BY <1>1 DEF IInv, SessInv, TablesKept
<1>6. LinkInv'
  BY DEF IInv, LinkInv, LinkKept, OnlyDevice
<1>7. \A x \in Device : frontier[x] <= disk'[x].cursor
  BY DEF IInv, TableInv, Grows
<1>8. TableInv'
  BY <1>7 DEF IInv, TableInv, TablesKept
<1> QED
  BY <1>3, <1>4, <1>5, <1>6, <1>8 DEF IInv, DeviceInv

\* One that starts no push.
LEMMA QuietDevice ==
  ASSUME IInv, NEW d \in Device, blobs' = blobs, log' = log, snaps' = snaps,
         OnlyDevice(d), GoodDevice(d, Known, Len(blobs[d])),
         LinkInv' \/ LinkKept(d),
         deps' = deps \/ deps' \in [Op -> Ops],
         Queues(c2s, Conn, ClientSets') => Queues(c2s', Conn, ClientSets'),
         Queues(s2c, Conn, ServerSets') => Queues(s2c', Conn, ServerSets'),
         SessInv' \/ UNCHANGED sess,
         TablesKept
  PROVE  IInv'
<1>1. \A x \in Device : disk'[x].cursor \in Nat /\ disk[x].cursor <= disk'[x].cursor
  BY CursorsGrow
<1>2. Grows /\ StreamInv' /\ SnapsInv' /\ Known' = Known
  BY <1>1, Quiet
<1>3. WireInv'
  BY <1>2, Carry DEF WireInv
<1>4. GoodDevice(d, Known', Len(blobs'[d]))
  BY <1>2
<1>5. deps' \in [Op -> Ops]
  BY DEF IInv, TableInv
<1> QED
  BY <1>2, <1>3, <1>4, <1>5, DeviceStep

\* The set of frames d may send after the step.
LEMMA ClientSetOf ==
  ASSUME NEW d \in Device, MyConn(d) \in Conn, MyConn(d)[1] = d
  PROVE  ClientSets'[MyConn(d)] = ClientIn(Known', Len(blobs'[d]), disk'[d].cursor)
BY DEF ClientSets

\* A local commit reaches neither the stream nor server_known_vv.
LEMMA CommitInv ==
  ASSUME IInv, NEW d \in Device, Commit(d)
  PROVE  IInv'
<1> DEFINE a == disk[d].cursor
           n == Len(blobs[d])
<1>1. PICK c \in 1..MaxOps[d] :
        /\ deps' = [deps EXCEPT ![<<d, c>>] = Doc(d)]
        /\ dev' = [dev EXCEPT ![d].imported = @ \cup {<<d, c>>}]
        /\ UNCHANGED <<disk, blobs, dialed, link, serverVars, wireVars>>
  BY DEF Commit
<1>2. <<d, c>> \in Op
  BY OpForm
<1> DEFINE e == [dev[d] EXCEPT !.imported = @ \cup {<<d, c>>}]
<1>3. dev[d] \in EngineIn(Known, n, a) /\ disk[d] \in DiskIn(Known, n) /\ a \in Nat
  BY DeviceTypes
<1>4. /\ e \in EngineIn(Known, n, a) /\ e.durable = a
      /\ link[d] = 0 => e.state = "Disconnected"
  BY <1>2, <1>3, DeviceTypes DEF EngineIn, Ops
<1>5. OnlyDevice(d) /\ dev'[d] = e /\ disk'[d] = disk[d]
  BY <1>1 DEF IInv, DeviceInv, Within, OnlyDevice
<1>6. deps' \in [Op -> Ops]
  <2>1. Doc(d) \in Ops
    BY <1>3, DocOfType DEF Doc
  <2> QED
    BY <1>1, <2>1 DEF IInv, TableInv
<1> HIDE DEF e
<1>7. GoodDevice(d, Known, Len(blobs[d]))
  BY <1>3, <1>4, <1>5 DEF GoodDevice
<1>8. LinkKept(d)
  BY <1>1, <1>4, <1>5 DEF LinkKept
<1>9. /\ TablesKept /\ UNCHANGED sess
      /\ blobs' = blobs /\ log' = log /\ snaps' = snaps /\ c2s' = c2s /\ s2c' = s2c
  BY <1>1 DEF serverVars, wireVars, TablesKept
<1> QED
  BY <1>5, <1>6, <1>7, <1>8, <1>9, QuietDevice

\* Capturing and folding preserve the invariant.
LEMMA CaptureInv ==
  ASSUME IInv, NEW d \in Device, CaptureLocalOps(d) \/ FoldWal(d)
  PROVE  IInv'
<1> DEFINE a == disk[d].cursor
           n == Len(blobs[d])
           e == CapturedDev(dev[d])
           k == CapturedDisk(dev[d], disk[d])
<1>1. /\ dev[d] \in EngineIn(Known, n, a) /\ disk[d] \in DiskIn(Known, n)
      /\ dev[d].durable = a /\ a \in Nat
  BY DeviceTypes
<1>2. /\ e \in EngineIn(Known, n, a) /\ e.durable = a /\ e.state = dev[d].state
      /\ k \in DiskIn(Known, n) /\ k.cursor = a
  BY <1>1, CapturedType
<1>3. FoldedDisk(dev[d], k) \in DiskIn(Known, n) /\ FoldedDisk(dev[d], k).cursor = a
  BY <1>1, <1>2, CapturedType
<1>4. PICK g \in {k, FoldedDisk(dev[d], k)} :
        /\ dev' = [dev EXCEPT ![d] = e]
        /\ disk' = [disk EXCEPT ![d] = g]
        /\ UNCHANGED <<deps, blobs, dialed, link, serverVars, wireVars>>
  BY DEF CaptureLocalOps, FoldWal
<1>5. OnlyDevice(d) /\ dev'[d] = e /\ disk'[d] = g
  BY <1>4, OnlyDeviceIntro
<1> HIDE DEF e, k
<1>6. g \in DiskIn(Known, n) /\ g.cursor = a
  BY <1>2, <1>3
<1>7. GoodDevice(d, Known, Len(blobs[d]))
  BY <1>1, <1>2, <1>5, <1>6 DEF GoodDevice
<1>8. LinkKept(d)
  BY <1>2, <1>4, <1>5, DeviceTypes DEF LinkKept
<1>9. /\ TablesKept /\ UNCHANGED sess /\ deps' = deps
      /\ blobs' = blobs /\ log' = log /\ snaps' = snaps /\ c2s' = c2s /\ s2c' = s2c
  BY <1>4 DEF serverVars, wireVars, TablesKept
<1> QED
  BY <1>5, <1>7, <1>8, <1>9, QuietDevice

\* notify_oplog_durable: the Ack it queues carries the cursor it has just
\* persisted.
LEMMA NotifyInv ==
  ASSUME IInv, NEW d \in Device, NotifyOplogDurable(d)
  PROVE  IInv'
<1> DEFINE a == disk[d].cursor
           n == Len(blobs[d])
<1>1. /\ dev[d] \in EngineIn(Known, n, a) /\ disk[d] \in DiskIn(Known, n)
      /\ dev[d].durable = a /\ a \in Nat
  BY DeviceTypes
<1>2. dev[d].contig \in Nat /\ dev[d].sentAck \in Nat /\ dev[d].outbox \in Seq(AckIn(a))
  BY <1>1 DEF EngineIn
<1>3. PICK seq \in a + 1 .. dev[d].contig :
        LET ack == [type |-> "Ack", seq |-> seq]
            queues == seq > dev[d].sentAck
        IN /\ disk' = [disk EXCEPT ![d] = WithCursor(@, seq)]
           /\ dev' = [dev EXCEPT ![d].durable = seq,
                                 ![d].sentAck = MaxOf(@, seq),
                                 ![d].outbox = IF queues /\ link[d] = 0 THEN Append(@, ack) ELSE @]
           /\ IF queues /\ link[d] # 0 THEN ToServer(d, ack) ELSE UNCHANGED c2s
           /\ UNCHANGED <<deps, blobs, dialed, link, serverVars, s2c, sess>>
  BY <1>1 DEF NotifyOplogDurable
<1> DEFINE ack == [type |-> "Ack", seq |-> seq]
           box == IF seq > dev[d].sentAck /\ link[d] = 0
                  THEN Append(dev[d].outbox, ack) ELSE dev[d].outbox
           e == [dev[d] EXCEPT !.durable = seq, !.sentAck = MaxOf(@, seq), !.outbox = box]
           k == [disk[d] EXCEPT !.cursor = seq]
<1>4. seq \in Nat /\ a <= seq
  BY <1>1, <1>2
<1>5. ack \in AckIn(seq)
  BY <1>4 DEF AckIn
<1>6. box \in Seq(AckIn(seq))
  <2>1. AckIn(a) \subseteq AckIn(seq)
    BY <1>1, <1>4 DEF AckIn
  <2>2. dev[d].outbox \in Seq(AckIn(seq))
    BY <2>1, <1>2
  <2> HIDE DEF ack
  <2> QED
    BY <2>2, <1>5
<1> HIDE DEF ack, box
<1>7. e \in EngineIn(Known, n, seq) /\ e.durable = seq /\ e.state = dev[d].state
  BY <1>1, <1>2, <1>4, <1>6 DEF EngineIn, MaxOf
<1>8. k \in DiskIn(Known, n) /\ k.cursor = seq
  BY <1>1, <1>4 DEF DiskIn
<1>9. dev' = [dev EXCEPT ![d] = e] /\ disk' = [disk EXCEPT ![d] = k]
  BY <1>3 DEF IInv, DeviceInv, Within, box, ack, WithCursor
<1> HIDE DEF e, k
<1>10. OnlyDevice(d) /\ dev'[d] = e /\ disk'[d] = k
  BY <1>9, OnlyDeviceIntro
<1>11. GoodDevice(d, Known, Len(blobs[d]))
  BY <1>4, <1>7, <1>8, <1>10 DEF GoodDevice
<1>12. LinkKept(d)
  BY <1>3, <1>7, <1>10, DeviceTypes DEF LinkKept
<1>13. /\ TablesKept /\ UNCHANGED sess /\ deps' = deps
       /\ blobs' = blobs /\ log' = log /\ snaps' = snaps /\ s2c' = s2c
  BY <1>3 DEF serverVars, TablesKept
<1>14. ASSUME Queues(c2s, Conn, ClientSets') PROVE Queues(c2s', Conn, ClientSets')
  <2>1. CASE c2s' = c2s
    BY <1>14, <2>1
  <2>2. CASE link[d] # 0 /\ ToServer(d, ack)
    <3>1. MyConn(d) \in Conn /\ MyConn(d)[1] = d
      BY <2>2, MyConnType DEF IInv
    <3>2. ack \in ClientSets'[MyConn(d)]
      BY <3>1, <1>5, <1>8, <1>10, ClientSetOf DEF ClientIn
    <3> QED
      BY <2>2, <3>1, <3>2, <1>14, ToServerQueues
  <2> QED
    BY <1>3, <2>1, <2>2 DEF ack
<1> QED
  BY <1>10, <1>11, <1>12, <1>13, <1>14, QuietDevice

\* Connecting puts only the retained Acks and OpenDoc on the new connection.
LEMMA ConnectInv ==
  ASSUME IInv, NEW d \in Device, Connect(d)
  PROVE  IInv'
<1> DEFINE a == disk[d].cursor
           n == Len(blobs[d])
           c == <<d, dialed[d] + 1>>
           e == [dev[d] EXCEPT !.state = "Opening", !.outbox = <<>>]
           open == [type |-> "OpenDoc"]
           box == Append(dev[d].outbox, open)
<1>1. /\ d \in enrolled /\ dialed[d] < MaxConn[d]
      /\ dialed' = [dialed EXCEPT ![d] = @ + 1]
      /\ link' = [link EXCEPT ![d] = dialed[d] + 1]
      /\ dev' = [dev EXCEPT ![d].state = "Opening", ![d].outbox = <<>>]
      /\ sess' = [sess EXCEPT ![c].up = TRUE]
      /\ c2s' = [c2s EXCEPT ![c] = box]
      /\ UNCHANGED <<disk, deps, blobs, serverVars, s2c>>
  BY DEF Connect
<1>2. /\ dev[d] \in EngineIn(Known, n, a) /\ disk[d] \in DiskIn(Known, n)
      /\ dev[d].durable = a /\ a \in Nat
  BY DeviceTypes
<1>3. c \in Conn /\ c[1] = d
  <2>1. dialed[d] \in Nat /\ MaxConn[d] \in Nat
    BY BoundsAssumption DEF IInv, LinkInv
  <2>2. dialed[d] + 1 \in 1..MaxConn[d]
    BY <1>1, <2>1
  <2> QED
    BY <2>2, ConnForm
<1>4. e \in EngineIn(Known, n, a) /\ e.durable = a /\ e.state = "Opening"
  <2>1. <<>> \in Seq(AckIn(a))
    OBVIOUS
  <2> QED
    BY <1>2, <2>1 DEF EngineIn, EngineState
<1>5. dev' = [dev EXCEPT ![d] = e] /\ disk' = [disk EXCEPT ![d] = disk[d]]
  BY <1>1 DEF IInv, DeviceInv, Within
<1> HIDE DEF e, c
<1>6. OnlyDevice(d) /\ dev'[d] = e /\ disk'[d] = disk[d]
  BY <1>5, OnlyDeviceIntro
<1>7. GoodDevice(d, Known, Len(blobs[d]))
  BY <1>2, <1>4, <1>6 DEF GoodDevice
<1>8. LinkInv'
  <2>1. dialed[d] \in Nat /\ MaxConn[d] \in Nat
    BY BoundsAssumption DEF IInv, LinkInv
  <2>2. dialed' \in [Device -> Nat] /\ link' \in [Device -> Nat]
    BY <1>1, <2>1 DEF IInv, LinkInv
  <2>3. ASSUME NEW x \in Device
        PROVE  /\ link'[x] <= dialed'[x] /\ dialed'[x] <= MaxConn[x]
               /\ link'[x] = 0 => dev'[x].state = "Disconnected"
    <3>1. CASE x = d
      BY <1>1, <2>1, <3>1 DEF IInv, LinkInv
    <3>2. CASE x # d
      BY <1>1, <1>6, <3>2 DEF IInv, LinkInv, OnlyDevice
    <3> QED
      BY <3>1, <3>2
  <2> QED
    BY <2>2, <2>3 DEF LinkInv
<1>9. /\ TablesKept /\ deps' = deps /\ enrolled' = enrolled
      /\ blobs' = blobs /\ log' = log /\ snaps' = snaps /\ s2c' = s2c /\ disk' = disk
  BY <1>1 DEF serverVars, TablesKept
<1>10. Known' = Known /\ \A x \in Device : Landed(x)' = Landed(x)
  BY <1>9, DeviceTypes, Quiet
<1>11. SessSets' = SessSets
  BY <1>9, <1>10, ConnForm DEF SessSets
<1>12. SessInv'
  <2>1. sess[c] \in SessIn(Known, Landed(d), Len(log))
    BY <1>3 DEF IInv, SessInv, Within, SessSets
  <2>2. [sess[c] EXCEPT !.up = TRUE] \in SessIn(Known, Landed(d), Len(log))
    BY <2>1 DEF SessIn
  <2>3. sess' = [sess EXCEPT ![c] = [sess[c] EXCEPT !.up = TRUE]]
    BY <1>1 DEF IInv, SessInv, Within
  <2>4. [sess[c] EXCEPT !.up = TRUE] \in SessSets[c]
    BY <2>2, <1>3 DEF SessSets
  <2>5. Within(sess', Conn, SessSets')
    BY <2>3, <2>4, <1>3, <1>11, WithinUpdate DEF IInv, SessInv
  <2>6. sess'[c].up /\ \A x \in Conn : x # c => sess'[x] = sess[x]
    BY <2>1, <2>3, <1>3 DEF IInv, SessInv, Within, SessIn
  <2> QED
    BY <2>5, <2>6, <1>1, <1>3, <1>9 DEF IInv, SessInv
<1>13. ASSUME Queues(c2s, Conn, ClientSets') PROVE Queues(c2s', Conn, ClientSets')
  <2>1. ClientSets'[c] = ClientIn(Known', Len(blobs'[d]), disk'[d].cursor)
    BY <1>3 DEF ClientSets
  <2>2. AckIn(a) \subseteq ClientSets'[c] /\ open \in ClientSets'[c]
    BY <2>1, <1>6 DEF ClientIn
  <2>3. dev[d].outbox \in Seq(AckIn(a))
    BY <1>2 DEF EngineIn
  <2>4. box \in Seq(ClientSets'[c])
    <3>1. dev[d].outbox \in Seq(ClientSets'[c])
      BY <2>2, <2>3
    <3> HIDE DEF open
    <3> QED
      BY <2>2, <3>1, AppendProperties
  <2> QED
    BY <1>1, <1>3, <1>13, <2>4, QueueUpdate
<1> QED
  BY <1>6, <1>7, <1>8, <1>9, <1>12, <1>13, QuietDevice

\* Losing the socket preserves the invariant.
LEMMA DisconnectInv ==
  ASSUME IInv, NEW d \in Device, Disconnect(d)
  PROVE  IInv'
<1> DEFINE a == disk[d].cursor
           n == Len(blobs[d])
           e == [dev[d] EXCEPT !.state = "Disconnected"]
<1>1. /\ link[d] # 0
      /\ link' = [link EXCEPT ![d] = 0]
      /\ s2c' = [s2c EXCEPT ![MyConn(d)] = <<>>]
      /\ dev' = [dev EXCEPT ![d].state = "Disconnected"]
      /\ UNCHANGED <<disk, deps, blobs, dialed, serverVars, c2s, sess>>
  BY DEF Disconnect
<1>2. /\ dev[d] \in EngineIn(Known, n, a) /\ disk[d] \in DiskIn(Known, n)
      /\ dev[d].durable = a /\ a \in Nat
  BY DeviceTypes
<1>3. e \in EngineIn(Known, n, a) /\ e.durable = a /\ e.state = "Disconnected"
  BY <1>2 DEF EngineIn, EngineState
<1>4. dev' = [dev EXCEPT ![d] = e] /\ disk' = [disk EXCEPT ![d] = disk[d]]
  BY <1>1 DEF IInv, DeviceInv, Within
<1> HIDE DEF e
<1>5. OnlyDevice(d) /\ dev'[d] = e /\ disk'[d] = disk[d]
  BY <1>4, OnlyDeviceIntro
<1>6. GoodDevice(d, Known, Len(blobs[d]))
  BY <1>2, <1>3, <1>5 DEF GoodDevice
<1>7. LinkInv'
  BY <1>1, <1>3, <1>5 DEF IInv, LinkInv, OnlyDevice
<1>8. /\ TablesKept /\ deps' = deps /\ sess' = sess
      /\ blobs' = blobs /\ log' = log /\ snaps' = snaps /\ c2s' = c2s
  BY <1>1 DEF serverVars, TablesKept
<1>9. Queues(s2c, Conn, ServerSets') => Queues(s2c', Conn, ServerSets')
  BY <1>1, MyConnType, QueueUpdate DEF IInv
<1> QED
  BY <1>5, <1>6, <1>7, <1>8, <1>9, QuietDevice

\* A reboot from any storage within the invariant, at the same cursor.
LEMMA RebootInv ==
  ASSUME IInv, NEW d \in Device, NEW k \in DiskIn(Known, Len(blobs[d])),
         k.cursor = disk[d].cursor, RebootFrom(d, k)
  PROVE  IInv'
<1>1. /\ dev' = [dev EXCEPT ![d] = Booted(k)] /\ disk' = [disk EXCEPT ![d] = k]
      /\ link' = [link EXCEPT ![d] = 0]
      /\ s2c' = IF link[d] = 0 THEN s2c ELSE [s2c EXCEPT ![MyConn(d)] = <<>>]
      /\ UNCHANGED <<deps, blobs, dialed, serverVars, c2s, sess>>
  BY DEF RebootFrom
<1>2. OnlyDevice(d) /\ dev'[d] = Booted(k) /\ disk'[d] = k
  BY <1>1, OnlyDeviceIntro
<1>3. /\ Booted(k) \in EngineIn(Known, Len(blobs[d]), k.cursor)
      /\ Booted(k).durable = k.cursor /\ Booted(k).state = "Disconnected"
  BY BootedType
<1>4. GoodDevice(d, Known, Len(blobs[d]))
  BY <1>2, <1>3, DeviceTypes DEF GoodDevice
<1>5. LinkInv'
  BY <1>1, <1>2, <1>3 DEF IInv, LinkInv, OnlyDevice
<1>6. /\ TablesKept /\ deps' = deps /\ sess' = sess
      /\ blobs' = blobs /\ log' = log /\ snaps' = snaps /\ c2s' = c2s
  BY <1>1 DEF serverVars, TablesKept
<1>7. Queues(s2c, Conn, ServerSets') => Queues(s2c', Conn, ServerSets')
  BY <1>1, MyConnType, QueueUpdate DEF IInv
<1> QED
  BY <1>2, <1>4, <1>5, <1>6, <1>7, QuietDevice

\* Applying rows of the stream leaves the engine and the database of d
\* within the invariant.
LEMMA AppliedHere ==
  ASSUME IInv, NEW d \in Device, NEW lo \in Nat \ {0}, NEW hi \in 0..Len(log),
         NEW m \in Int, m <= hi
  PROVE  /\ AppliedDev(dev[d], lo, hi) \in EngineIn(Known, Len(blobs[d]), disk[d].cursor)
         /\ AppliedDev(dev[d], lo, hi).state = dev[d].state
         /\ AppliedDev(dev[d], lo, hi).durable = disk[d].cursor
         /\ AppliedDisk(dev[d], disk[d], lo, m, hi) \in DiskIn(Known, Len(blobs[d]))
         /\ AppliedDisk(dev[d], disk[d], lo, m, hi).cursor = disk[d].cursor
<1> DEFINE n == Len(blobs[d])
           a == disk[d].cursor
<1>1. /\ dev[d] \in EngineIn(Known, n, a) /\ disk[d] \in DiskIn(Known, n)
      /\ dev[d].durable = a
  BY DeviceTypes
<1>2. StreamInv
  BY DEF IInv
<1> HIDE DEF n, a
<1>3. /\ AppliedDev(dev[d], lo, hi) \in EngineIn(Known, n, a)
      /\ AppliedDev(dev[d], lo, hi).state = dev[d].state
      /\ AppliedDev(dev[d], lo, hi).durable = dev[d].durable
      /\ AppliedDisk(dev[d], disk[d], lo, m, hi) \in DiskIn(Known, n)
      /\ AppliedDisk(dev[d], disk[d], lo, m, hi).cursor = disk[d].cursor
  BY <1>1, <1>2, AppliedType
<1> QED
  BY <1>1, <1>3 DEF n, a

\* A crash, also between the writes of one handler, preserves the invariant.
LEMMA CrashInv ==
  ASSUME IInv, NEW d \in Device, Crash(d) \/ CrashMidBatch(d) \/ CrashMidCheckpoint(d)
  PROVE  IInv'
<1> DEFINE f == Head(Inbox(d))
<1>1. /\ dev[d] \in EngineIn(Known, Len(blobs[d]), disk[d].cursor)
      /\ disk[d] \in DiskIn(Known, Len(blobs[d]))
  BY DeviceTypes
<1>2. CASE Crash(d)
  BY <1>1, <1>2, RebootInv DEF Crash
<1>3. CASE CrashMidBatch(d)
  <2>1. Receives(d, "UpdatesBatch")
    BY <1>3 DEF CrashMidBatch
  <2>2. f.lo \in Nat \ {0} /\ f.hi \in 0..Len(log)
    BY <2>1, ReceivesFrame, ServerFields
  <2>3. PICK m \in f.lo .. f.hi - 1 : RebootFrom(d, AppliedDisk(dev[d], disk[d], f.lo, m, f.hi))
    BY <1>3 DEF CrashMidBatch
  <2> DEFINE k == AppliedDisk(dev[d], disk[d], f.lo, m, f.hi)
  <2>4. k \in DiskIn(Known, Len(blobs[d])) /\ k.cursor = disk[d].cursor
    <3> HIDE DEF f
    <3>1. Len(log) \in Nat
      BY DEF IInv, StreamInv
    <3>2. m \in Int /\ m <= f.hi
      BY <2>2, <3>1
    <3> QED
      BY <3>2, <2>2, AppliedHere
  <2> HIDE DEF k
  <2> QED
    BY <2>3, <2>4, RebootInv DEF k
<1>4. CASE CrashMidCheckpoint(d)
  <2> DEFINE i == ImportedDev(dev[d], snaps[f.row].ops)
             k == [disk[d] EXCEPT !.known = i.known]
  <2>1. Receives(d, "Snapshot") /\ RebootFrom(d, k)
    BY <1>4 DEF CrashMidCheckpoint
  <2>2. f.row \in 1..Len(snaps)
    BY <2>1, ReceivesFrame, ServerFields
  <2>3. i.known \subseteq Known
    <3>1. snaps[f.row] \in RowIn(Known)
      BY <2>2 DEF IInv, SnapsInv
    <3>2. snaps[f.row].ops \subseteq Known
      BY <3>1 DEF RowIn
    <3>3. snaps[f.row].ops \subseteq Op /\ Declared(snaps[f.row].ops) \subseteq Known /\ Known \subseteq Op
      BY <3>2, StreamFacts DEF IInv
    <3> QED
      BY <1>1, <3>3, ImportedType
  <2> HIDE DEF i
  <2>4. k \in DiskIn(Known, Len(blobs[d])) /\ k.cursor = disk[d].cursor
    BY <1>1, <2>3 DEF DiskIn
  <2> HIDE DEF k
  <2> QED
    BY <2>1, <2>4, RebootInv
<1> QED
  BY <1>2, <1>3, <1>4

\* The snapshot row a frame refers to stays on the stream.
LEMMA SnapRowFacts ==
  ASSUME IInv, NEW i \in 1..Len(snaps)
  PROVE  /\ snaps[i] \in RowIn(Known)
         /\ snaps[i].ops \subseteq Op
         /\ Declared(snaps[i].ops) \subseteq Known
         /\ Known \subseteq Op
         /\ snaps[i].upTo \in Nat
         /\ snaps[i].vv \subseteq Known
<1>1. snaps[i] \in RowIn(Known)
  BY DEF IInv, SnapsInv
<1>2. snaps[i].ops \subseteq Known /\ snaps[i].upTo \in Nat /\ snaps[i].vv \subseteq Known
  BY <1>1 DEF RowIn
<1> QED
  BY <1>1, <1>2, StreamFacts DEF IInv

\* Receiving a frame that changes neither the engine's data nor the disk: the
\* state moves to st and the frame f may be sent.
LEMMA PlainFrame ==
  ASSUME IInv, NEW d \in Device, NEW type, Receives(d, type), Consume(d),
         NEW st \in EngineState, dev' = [dev EXCEPT ![d].state = st],
         NEW f, f \in ClientIn(Known, Len(blobs[d]), disk[d].cursor),
         ToServer(d, f) \/ UNCHANGED c2s,
         UNCHANGED <<disk, deps, blobs, dialed, link, serverVars, sess>>
  PROVE  IInv'
<1> DEFINE a == disk[d].cursor
           n == Len(blobs[d])
           e == [dev[d] EXCEPT !.state = st]
<1>1. /\ dev[d] \in EngineIn(Known, n, a) /\ disk[d] \in DiskIn(Known, n)
      /\ dev[d].durable = a /\ a \in Nat
  BY DeviceTypes
<1>2. e \in EngineIn(Known, n, a) /\ e.durable = a
  BY <1>1 DEF EngineIn
<1>3. dev' = [dev EXCEPT ![d] = e] /\ disk' = [disk EXCEPT ![d] = disk[d]]
  BY DEF IInv, DeviceInv, Within
<1> HIDE DEF e
<1>4. OnlyDevice(d) /\ dev'[d] = e /\ disk'[d] = disk[d]
  BY <1>3, OnlyDeviceIntro
<1>5. GoodDevice(d, Known, Len(blobs[d]))
  BY <1>1, <1>2, <1>4 DEF GoodDevice
<1>6. link[d] # 0 /\ MyConn(d) \in Conn /\ MyConn(d)[1] = d
  BY ReceivesFrame
<1>7. LinkKept(d)
  BY <1>6 DEF LinkKept
<1>8. /\ TablesKept /\ deps' = deps /\ sess' = sess /\ disk' = disk
      /\ blobs' = blobs /\ log' = log /\ snaps' = snaps
  BY DEF serverVars, TablesKept
<1>9. Queues(s2c, Conn, ServerSets') => Queues(s2c', Conn, ServerSets')
  BY ReceivesFrame
<1>10. Known' = Known
  BY <1>8, Quiet, DeviceTypes
<1>11. f \in ClientSets'[MyConn(d)]
  BY <1>6, <1>8, <1>10, ClientSetOf
<1>12. Queues(c2s, Conn, ClientSets') => Queues(c2s', Conn, ClientSets')
  BY <1>6, <1>11, ToServerQueues
<1> QED
  BY <1>4, <1>5, <1>7, <1>8, <1>9, <1>12, QuietDevice

\* The frames that carry no operations: drop, DocOpened, SnapshotRequired and
\* SnapshotRequest, whose snapshot is within server_known_vv.
LEMMA PlainFramesInv ==
  ASSUME IInv, NEW d \in Device,
         DropFrame(d) \/ HandleDocOpened(d) \/ HandleSnapshotRequired(d) \/ HandleSnapshotRequest(d)
  PROVE  IInv'
<1> DEFINE n == Len(blobs[d])
           a == disk[d].cursor
<1>0. /\ dev[d] \in EngineIn(Known, n, a)
      /\ dev[d].state \in EngineState /\ dev[d].contig \in Nat
      /\ dev[d].known \subseteq Known
      /\ dev' = dev => dev' = [dev EXCEPT ![d].state = dev[d].state]
  BY DeviceTypes DEF EngineIn, IInv, DeviceInv, Within
<1>1. CASE DropFrame(d)
  <2> DEFINE f == [type |-> "OpenDoc"]
  <2>1. f \in ClientIn(Known, n, a)
    BY DEF ClientIn
  <2>2. /\ Receives(d, "UpdatesBroadcast") /\ Consume(d) /\ dev' = dev /\ UNCHANGED c2s
        /\ UNCHANGED <<disk, deps, blobs, dialed, link, serverVars, sess>>
    BY <1>1 DEF DropFrame, clientVars
  <2> HIDE DEF f
  <2> QED
    BY <1>0, <2>1, <2>2, PlainFrame
<1>2. CASE HandleDocOpened(d)
  <2> DEFINE f == [type |-> "PullUpdates", since |-> PullSince(dev[d])]
  <2>1. f \in ClientIn(Known, n, a)
    BY <1>0 DEF ClientIn, PullSince
  <2>2. "Pulling" \in EngineState
    BY DEF EngineState
  <2>3. /\ Receives(d, "DocOpened") /\ Consume(d) /\ ToServer(d, f)
        /\ dev' = [dev EXCEPT ![d].state = "Pulling"]
        /\ UNCHANGED <<disk, deps, blobs, dialed, link, serverVars, sess>>
    BY <1>2 DEF HandleDocOpened
  <2> HIDE DEF f
  <2> QED
    BY <2>1, <2>2, <2>3, PlainFrame
<1>3. CASE HandleSnapshotRequired(d)
  <2> DEFINE f == [type |-> "PullSnapshot"]
  <2>1. f \in ClientIn(Known, n, a)
    BY DEF ClientIn
  <2>2. "Bootstrapping" \in EngineState
    BY DEF EngineState
  <2>3. /\ Receives(d, "SnapshotRequired") /\ Consume(d) /\ ToServer(d, f)
        /\ dev' = [dev EXCEPT ![d].state = "Bootstrapping"]
        /\ UNCHANGED <<disk, deps, blobs, dialed, link, serverVars, sess>>
    BY <1>3 DEF HandleSnapshotRequired
  <2> HIDE DEF f
  <2> QED
    BY <2>1, <2>2, <2>3, PlainFrame
<1>4. CASE HandleSnapshotRequest(d)
  <2> DEFINE g == Head(Inbox(d))
             baseVv == IF g.base = 0 THEN {} ELSE snaps[g.base].vv
             from == IF g.base = 0 THEN FullSnapshot ELSE snaps[g.base].upTo
             row == [upTo |-> dev[d].contig, floor |-> g.floor, from |-> from,
                     vv |-> dev[d].known, ops |-> Exported(dev[d], baseVv)]
             f == [type |-> "PushSnapshot", row |-> row]
  <2>1. /\ Receives(d, "SnapshotRequest") /\ Consume(d) /\ dev' = dev
        /\ ToServer(d, f) \/ UNCHANGED c2s
        /\ UNCHANGED <<disk, deps, blobs, dialed, link, serverVars, sess>>
    BY <1>4 DEF HandleSnapshotRequest, clientVars
  <2>2. g.floor \in Nat /\ g.base \in 0..Len(snaps)
    BY <2>1, ReceivesFrame, ServerFields
  <2>3. from \in Int
    <3> HIDE DEF g
    <3>1. CASE g.base = 0
      BY <3>1 DEF FullSnapshot
    <3>2. CASE g.base # 0
      <4>1. g.base \in 1..Len(snaps)
        BY <2>2, <3>2 DEF IInv, SnapsInv
      <4> QED
        BY <4>1, <3>2, SnapRowFacts
    <3> QED
      BY <3>1, <3>2
  <2>4. Exported(dev[d], baseVv) \subseteq Known
    BY <1>0 DEF Exported
  <2> HIDE DEF g, from, baseVv
  <2>5. row \in RowIn(Known)
    BY <1>0, <2>2, <2>3, <2>4 DEF RowIn
  <2> HIDE DEF row
  <2>6. f \in ClientIn(Known, n, a)
    BY <2>5 DEF ClientIn
  <2> HIDE DEF f
  <2> QED
    BY <1>0, <2>1, <2>6, PlainFrame
<1> QED
  BY <1>1, <1>2, <1>3, <1>4

\* A connected device d gets the engine e and the database k, its cursor
\* kept, and may send f.
LEMMA DataSend ==
  ASSUME IInv, NEW d \in Device, link[d] # 0, NEW e, NEW k,
         dev' = [dev EXCEPT ![d] = e], disk' = [disk EXCEPT ![d] = k],
         e \in EngineIn(Known, Len(blobs[d]), disk[d].cursor), e.durable = disk[d].cursor,
         k \in DiskIn(Known, Len(blobs[d])), k.cursor = disk[d].cursor,
         NEW f, f \in ClientIn(Known, Len(blobs[d]), disk[d].cursor),
         ToServer(d, f) \/ UNCHANGED c2s,
         Queues(s2c, Conn, ServerSets') => Queues(s2c', Conn, ServerSets'),
         UNCHANGED <<deps, blobs, dialed, link, serverVars, sess>>
  PROVE  IInv'
<1>1. disk[d].cursor \in Nat
  BY DeviceTypes
<1>2. OnlyDevice(d) /\ dev'[d] = e /\ disk'[d] = k
  BY OnlyDeviceIntro
<1>3. GoodDevice(d, Known, Len(blobs[d]))
  BY <1>1, <1>2 DEF GoodDevice
<1>4. MyConn(d) \in Conn /\ MyConn(d)[1] = d
  BY MyConnType DEF IInv
<1>5. LinkKept(d)
  BY DEF LinkKept
<1>6. /\ TablesKept /\ deps' = deps /\ sess' = sess
      /\ blobs' = blobs /\ log' = log /\ snaps' = snaps
  BY DEF serverVars, TablesKept
<1>7. \A x \in Device : disk'[x].cursor \in Nat /\ disk[x].cursor <= disk'[x].cursor
  BY <1>2, <1>3, CursorsGrow
<1>8. Known' = Known
  BY <1>6, <1>7, Quiet
<1>9. f \in ClientSets'[MyConn(d)]
  BY <1>2, <1>4, <1>6, <1>8, ClientSetOf
<1>10. Queues(c2s, Conn, ClientSets') => Queues(c2s', Conn, ClientSets')
  BY <1>4, <1>9, ToServerQueues
<1> QED
  BY <1>2, <1>3, <1>5, <1>6, <1>10, QuietDevice

\* The same on receiving a frame.
LEMMA DataFrame ==
  ASSUME IInv, NEW d \in Device, NEW type, Receives(d, type), Consume(d), NEW e, NEW k,
         dev' = [dev EXCEPT ![d] = e], disk' = [disk EXCEPT ![d] = k],
         e \in EngineIn(Known, Len(blobs[d]), disk[d].cursor), e.durable = disk[d].cursor,
         k \in DiskIn(Known, Len(blobs[d])), k.cursor = disk[d].cursor,
         NEW f, f \in ClientIn(Known, Len(blobs[d]), disk[d].cursor),
         ToServer(d, f) \/ UNCHANGED c2s,
         UNCHANGED <<deps, blobs, dialed, link, serverVars, sess>>
  PROVE  IInv'
<1>1. link[d] # 0 /\ (Queues(s2c, Conn, ServerSets') => Queues(s2c', Conn, ServerSets'))
  BY ReceivesFrame
<1> QED
  BY <1>1, DataSend

\* Another device's row is on the stream by the time it is broadcast.
LEMMA BroadcastInv ==
  ASSUME IInv, NEW d \in Device, HandleUpdatesBroadcast(d)
  PROVE  IInv'
<1> DEFINE s == Head(Inbox(d)).seq
           e == AppliedDev(dev[d], s, s)
           k == AppliedDisk(dev[d], disk[d], s, s, s)
           f == [type |-> "OpenDoc"]
<1>1. /\ Receives(d, "UpdatesBroadcast") /\ Consume(d)
      /\ dev' = [dev EXCEPT ![d] = e] /\ disk' = [disk EXCEPT ![d] = k]
      /\ UNCHANGED <<deps, blobs, dialed, link, serverVars, sess>> /\ UNCHANGED c2s
  BY DEF HandleUpdatesBroadcast
<1>2. s \in 1..Len(log)
  BY <1>1, ReceivesFrame, ServerFields
<1>3. s \in Nat \ {0} /\ s \in 0..Len(log) /\ s \in Int /\ s <= s
  <2>1. Len(log) \in Nat
    BY DEF IInv, StreamInv
  <2> HIDE DEF s
  <2> QED
    BY <1>2, <2>1
<1>4. /\ e \in EngineIn(Known, Len(blobs[d]), disk[d].cursor) /\ e.durable = disk[d].cursor
      /\ k \in DiskIn(Known, Len(blobs[d])) /\ k.cursor = disk[d].cursor
  <2> HIDE DEF s
  <2> QED
    BY <1>3, AppliedHere
<1>5. f \in ClientIn(Known, Len(blobs[d]), disk[d].cursor)
  BY DEF ClientIn
<1> HIDE DEF e, k, f
<1> QED
  BY <1>1, <1>4, <1>5, DataFrame

\* The operations of a stored snapshot are on the stream.
LEMMA SnapshotInv ==
  ASSUME IInv, NEW d \in Device, HandleSnapshot(d)
  PROVE  IInv'
<1> DEFINE g == Head(Inbox(d))
           n == Len(blobs[d])
           a == disk[d].cursor
           i == ImportedDev(dev[d], snaps[g.row].ops)
           contig == MaxOf(i.contig, snaps[g.row].upTo)
           e == [CapturedDev(i) EXCEPT !.contig = contig, !.state = "Pulling"]
           k == [FoldedDisk(i, disk[d]) EXCEPT !.known = i.known]
           f == [type |-> "PullUpdates", since |-> contig]
<1>0. /\ dev[d] \in EngineIn(Known, n, a) /\ disk[d] \in DiskIn(Known, n)
      /\ dev[d].durable = a
  BY DeviceTypes
<1>1. Receives(d, "Snapshot") /\ Consume(d)
  BY DEF HandleSnapshot
<1>2. \/ /\ dev' = [dev EXCEPT ![d] = e] /\ disk' = [disk EXCEPT ![d] = k] /\ ToServer(d, f)
      \/ dev' = [dev EXCEPT ![d] = i] /\ UNCHANGED <<disk, c2s>>
  BY DEF HandleSnapshot
<1>3. UNCHANGED <<deps, blobs, dialed, link, serverVars, sess>>
  BY DEF HandleSnapshot
<1>4. g.row \in 1..Len(snaps)
  BY <1>1, ReceivesFrame, ServerFields
<1>5. /\ snaps[g.row].ops \subseteq Op /\ Declared(snaps[g.row].ops) \subseteq Known
      /\ Known \subseteq Op /\ snaps[g.row].upTo \in Nat
  BY <1>4, SnapRowFacts
<1>6. i \in EngineIn(Known, n, a) /\ i.durable = a
  BY <1>0, <1>5, ImportedType
<1> HIDE DEF i
<1>7. contig \in Nat
  BY <1>5, <1>6 DEF EngineIn, MaxOf
<1> HIDE DEF contig
<1>8. /\ CapturedDev(i) \in EngineIn(Known, n, a) /\ CapturedDev(i).durable = a
      /\ FoldedDisk(i, disk[d]) \in DiskIn(Known, n) /\ FoldedDisk(i, disk[d]).cursor = a
  BY <1>0, <1>6, CapturedType
<1>9. e \in EngineIn(Known, n, a) /\ e.durable = a
  BY <1>7, <1>8 DEF EngineIn, EngineState
<1>10. k \in DiskIn(Known, n) /\ k.cursor = a
  BY <1>6, <1>8 DEF DiskIn, EngineIn
<1>11. f \in ClientIn(Known, n, a)
  BY <1>7 DEF ClientIn
<1> HIDE DEF e, k, f
<1>12. disk' = disk => disk' = [disk EXCEPT ![d] = disk[d]]
  BY DEF IInv, DeviceInv, Within
<1> QED
  BY <1>0, <1>1, <1>2, <1>3, <1>6, <1>9, <1>10, <1>11, <1>12, DataFrame

\* A new push: its payload is the document beyond server_known_vv, so the
\* payload and the stream cover the document.
LEMMA NewPayload ==
  ASSUME IInv, NEW d \in Device, NEW ops \in Ops, NEW to \in Ops, to \subseteq Known \cup ops,
         blobs' = [blobs EXCEPT ![d] = Append(@, [ops |-> ops, to |-> to])],
         log' = log, snaps' = snaps,
         \A x \in Device : disk'[x].cursor \in Nat /\ disk[x].cursor <= disk'[x].cursor
  PROVE  Grows /\ StreamInv' /\ SnapsInv' /\ Len(blobs'[d]) = Len(blobs[d]) + 1
<1> DEFINE r == [ops |-> ops, to |-> to]
           B == [ops: Ops, to: Ops]
<1>1. r \in B
  OBVIOUS
<1>2. blobs \in [Device -> Seq(B)]
  BY DEF IInv, StreamInv
<1>3. \A x \in Device : Len(blobs[x]) \in Nat
  BY <1>2
<1> HIDE DEF r, B
<1>4. blobs' \in [Device -> Seq(B)] /\ blobs'[d] = Append(blobs[d], r)
  BY <1>1, <1>2 DEF r
<1>5. /\ Len(blobs'[d]) = Len(blobs[d]) + 1
      /\ blobs'[d][Len(blobs[d]) + 1] = r
      /\ \A n \in 1..Len(blobs[d]) : blobs'[d][n] = blobs[d][n]
  BY <1>1, <1>2, <1>4, AppendProperties
<1>6. \A x \in Device : x # d => blobs'[x] = blobs[x]
  BY <1>2
<1>7. \A x \in Device : disk[x].cursor \in Nat
  BY DeviceTypes
<1>8. Len(log) \in Nat /\ Len(snaps) \in Nat
  BY DEF IInv, StreamInv, SnapsInv
<1>9. \A x \in Device : /\ Len(blobs'[x]) \in Nat /\ Len(blobs[x]) <= Len(blobs'[x])
                        /\ \A n \in 1..Len(blobs[x]) : blobs'[x][n] = blobs[x][n]
  BY <1>3, <1>5, <1>6
<1>10. Grows
  BY <1>3, <1>7, <1>8, <1>9 DEF Grows
<1>11. Known \subseteq Known' /\ SnapsInv'
  BY <1>10, KnownGrows, Carry DEF IInv, SnapsInv
<1>12. ASSUME NEW s \in 1..Len(log) PROVE log[s].push \in 1..Len(blobs'[log[s].dev])
  <2>1. log[s].dev \in Device /\ log[s].push \in 1..Len(blobs[log[s].dev])
    BY RowPayload DEF IInv
  <2> QED
    BY <2>1, <1>3, <1>9
<1>13. ASSUME NEW x \in Device, NEW n \in 1..Len(blobs'[x])
       PROVE  blobs'[x][n].to \subseteq Known' \cup blobs'[x][n].ops
  <2>1. CASE n \in 1..Len(blobs[x])
    <3>1. blobs[x][n].to \subseteq Known \cup blobs[x][n].ops
      BY <2>1 DEF IInv, StreamInv
    <3> QED
      BY <3>1, <2>1, <1>9, <1>11
  <2>2. CASE n \notin 1..Len(blobs[x])
    <3>1. x = d /\ n = Len(blobs[d]) + 1
      BY <2>2, <1>3, <1>5, <1>6
    <3>2. blobs'[x][n] = r
      BY <3>1, <1>5
    <3> QED
      BY <3>2, <1>11 DEF r
  <2> QED
    BY <2>1, <2>2
<1>14. StreamInv'
  BY <1>4, <1>12, <1>13 DEF IInv, StreamInv, B
<1> QED
  BY <1>5, <1>10, <1>11, <1>14

\* Retrying the in-flight push, going idle, or exporting a new one: the new
\* payload has all of its to_vv that the stream does not declare.
LEMMA TryStartPushInv ==
  ASSUME IInv, NEW d \in Device, link[d] # 0, NEW e, NEW k,
         e \in EngineIn(Known, Len(blobs[d]), disk[d].cursor), e.durable = disk[d].cursor,
         k \in DiskIn(Known, Len(blobs[d])), k.cursor = disk[d].cursor,
         TryStartPush(d, e, k),
         \A G : Queues(s2c, Conn, G) => Queues(s2c', Conn, G),
         UNCHANGED <<deps, dialed, link, serverVars, sess>>
  PROVE  IInv'
<1> DEFINE n == Len(blobs[d])
           a == disk[d].cursor
           e1 == CapturedDev(e)
           k1 == CapturedDisk(e, k)
<1>1. n \in Nat /\ a \in Nat /\ MyConn(d) \in Conn /\ MyConn(d)[1] = d
  BY DeviceTypes, MyConnType DEF IInv
<1>2. /\ e1 \in EngineIn(Known, n, a) /\ e1.durable = a
      /\ k1 \in DiskIn(Known, n) /\ k1.cursor = a
  <2>1. e \in EngineIn(Known, n, a) /\ e.durable = a /\ k \in DiskIn(Known, n) /\ k.cursor = a
    OBVIOUS
  <2> HIDE DEF n, a
  <2> QED
    BY <2>1, CapturedType
<1>3. CASE e.inFlight # NoPush
  <2> DEFINE e2 == [e EXCEPT !.state = "Pushing"]
             f == [type |-> "PushUpdates", push |-> e.inFlight]
  <2>1. /\ dev' = [dev EXCEPT ![d] = e2] /\ disk' = [disk EXCEPT ![d] = k]
        /\ ToServer(d, f) /\ blobs' = blobs
    BY <1>3 DEF TryStartPush
  <2>2. e2 \in EngineIn(Known, n, a) /\ e2.durable = a
    BY DEF EngineIn, EngineState
  <2>3. f \in ClientIn(Known, n, a)
    <3>1. e.inFlight \in 1..n
      BY <1>1, <1>3 DEF EngineIn, NoPush
    <3> QED
      BY <3>1 DEF ClientIn
  <2> HIDE DEF e2, f
  <2> QED
    BY <2>1, <2>2, <2>3, DataSend
<1>4. CASE e.inFlight = NoPush /\ DocOf(e) \subseteq e.known
  <2> DEFINE e2 == [e1 EXCEPT !.state = "Idle"]
             f == [type |-> "OpenDoc"]
  <2>1. /\ dev' = [dev EXCEPT ![d] = e2] /\ disk' = [disk EXCEPT ![d] = k1]
        /\ UNCHANGED c2s /\ blobs' = blobs
    BY <1>4 DEF TryStartPush
  <2> HIDE DEF e1, k1
  <2>2. e2 \in EngineIn(Known, n, a) /\ e2.durable = a
    BY <1>2 DEF EngineIn, EngineState
  <2>3. f \in ClientIn(Known, n, a)
    BY DEF ClientIn
  <2> HIDE DEF e2, f
  <2> QED
    BY <1>2, <2>1, <2>2, <2>3, DataSend
<1>5. CASE e.inFlight = NoPush /\ ~(DocOf(e) \subseteq e.known)
  <2> DEFINE e2 == [e1 EXCEPT !.inFlight = n + 1, !.state = "Pushing"]
             k2 == [k1 EXCEPT !.inFlight = n + 1]
             f == [type |-> "PushUpdates", push |-> n + 1]
             ops == DocOf(e) \ e.known
  <2>1. /\ dev' = [dev EXCEPT ![d] = e2] /\ disk' = [disk EXCEPT ![d] = k2]
        /\ ToServer(d, f)
        /\ blobs' = [blobs EXCEPT ![d] = Append(@, [ops |-> ops, to |-> DocOf(e)])]
    BY <1>5 DEF TryStartPush, PutInFlight
  <2> HIDE DEF e1, k1
  <2>2. DocOf(e) \in Ops /\ ops \in Ops /\ DocOf(e) \subseteq Known \cup ops
    BY DocOfType DEF EngineIn, Ops
  <2>3. 0..n \subseteq 0..n + 1 /\ n + 1 \in 0..n + 1
    BY <1>1
  <2>4. e2 \in EngineIn(Known, n + 1, a) /\ e2.durable = a
    BY <1>2, <2>3 DEF EngineIn, EngineState
  <2>5. k2 \in DiskIn(Known, n + 1) /\ k2.cursor = a
    BY <1>2, <2>3 DEF DiskIn
  <2> HIDE DEF e2, k2, ops
  <2>6. OnlyDevice(d) /\ dev'[d] = e2 /\ disk'[d] = k2
    BY <2>1, OnlyDeviceIntro
  <2>7. GoodDevice(d, Known, n + 1)
    BY <1>1, <2>4, <2>5, <2>6 DEF GoodDevice
  <2>8. \A x \in Device : disk'[x].cursor \in Nat /\ disk[x].cursor <= disk'[x].cursor
    BY <2>6, <2>7, CursorsGrow
  <2>9. log' = log /\ snaps' = snaps /\ TablesKept
    BY DEF serverVars, TablesKept
  <2>10. Grows /\ StreamInv' /\ SnapsInv' /\ Len(blobs'[d]) = n + 1
    BY <2>1, <2>2, <2>8, <2>9, NewPayload
  <2>11. Known \subseteq Known'
    BY <2>10, KnownGrows DEF IInv
  <2>12. GoodDevice(d, Known', Len(blobs'[d]))
    <3>1. EngineIn(Known, n + 1, a) \subseteq EngineIn(Known', n + 1, a)
      BY <1>1, <2>11, EngineMono
    <3>2. DiskIn(Known, n + 1) \subseteq DiskIn(Known', n + 1)
      BY <1>1, <2>11, DiskMono
    <3> QED
      BY <3>1, <3>2, <2>4, <2>5, <2>6, <2>7, <2>10 DEF GoodDevice
  <2>13. f \in ClientSets'[MyConn(d)]
    <3>1. n + 1 \in 1..Len(blobs'[d])
      BY <1>1, <2>10
    <3>2. f \in ClientIn(Known', Len(blobs'[d]), disk'[d].cursor)
      BY <3>1 DEF ClientIn
    <3> QED
      BY <1>1, <3>2, ClientSetOf
  <2> HIDE DEF f
  <2>14. WireInv'
    BY <1>1, <2>1, <2>10, <2>13, Carry, ToServerQueues DEF WireInv
  <2>15. LinkKept(d)
    BY DEF LinkKept
  <2>16. deps' \in [Op -> Ops]
    BY DEF IInv, TableInv
  <2> QED
    BY <2>6, <2>9, <2>10, <2>12, <2>14, <2>15, <2>16, DeviceStep
<1> QED
  BY <1>3, <1>4, <1>5

\* flush preserves the invariant.
LEMMA FlushInv ==
  ASSUME IInv, NEW d \in Device, Flush(d)
  PROVE  IInv'
<1>1. /\ dev[d] \in EngineIn(Known, Len(blobs[d]), disk[d].cursor)
      /\ disk[d] \in DiskIn(Known, Len(blobs[d])) /\ dev[d].durable = disk[d].cursor
  BY DeviceTypes
<1>2. /\ dev[d].state = "Idle" /\ TryStartPush(d, dev[d], disk[d])
      /\ s2c' = s2c /\ UNCHANGED <<deps, dialed, link, serverVars, sess>>
  BY DEF Flush
<1>3. link[d] # 0
  BY <1>2, DeviceTypes
<1> QED
  BY <1>1, <1>2, <1>3, TryStartPushInv

\* A batch, and the push that follows the last one, preserve the invariant.
LEMMA BatchInv ==
  ASSUME IInv, NEW d \in Device, HandleUpdatesBatch(d)
  PROVE  IInv'
<1> DEFINE g == Head(Inbox(d))
           n == Len(blobs[d])
           a == disk[d].cursor
           e == AppliedDev(dev[d], g.lo, g.hi)
           k == AppliedDisk(dev[d], disk[d], g.lo, g.hi, g.hi)
           e2 == [e EXCEPT !.state = "Idle"]
           f == [type |-> "OpenDoc"]
<1>1. Receives(d, "UpdatesBatch") /\ Consume(d)
  BY DEF HandleUpdatesBatch
<1>2. \/ TryStartPush(d, e2, k)
      \/ /\ dev' = [dev EXCEPT ![d] = e] /\ disk' = [disk EXCEPT ![d] = k]
         /\ UNCHANGED <<blobs, c2s>>
  BY DEF HandleUpdatesBatch
<1>3. UNCHANGED <<deps, dialed, link, serverVars, sess>>
  BY DEF HandleUpdatesBatch
<1>4. g.lo \in Nat \ {0} /\ g.hi \in 0..Len(log)
  BY <1>1, ReceivesFrame, ServerFields
<1> HIDE DEF g
<1>5. g.hi \in Int /\ g.hi <= g.hi
  <2>1. Len(log) \in Nat
    BY DEF IInv, StreamInv
  <2> QED
    BY <1>4, <2>1
<1>6. /\ e \in EngineIn(Known, n, a) /\ e.durable = a
      /\ k \in DiskIn(Known, n) /\ k.cursor = a
  BY <1>4, <1>5, AppliedHere
<1> HIDE DEF e, k
<1>7. e2 \in EngineIn(Known, n, a) /\ e2.durable = a
  BY <1>6 DEF EngineIn, EngineState
<1>8. f \in ClientIn(Known, n, a)
  BY DEF ClientIn
<1>9. link[d] # 0 /\ \A G : Queues(s2c, Conn, G) => Queues(s2c', Conn, G)
  BY <1>1, ReceivesFrame
<1> HIDE DEF e2, f
<1>10. CASE TryStartPush(d, e2, k)
  BY <1>3, <1>6, <1>7, <1>9, <1>10, TryStartPushInv
<1>11. CASE ~TryStartPush(d, e2, k)
  BY <1>1, <1>2, <1>3, <1>6, <1>8, <1>11, DataFrame
<1> QED
  BY <1>10, <1>11

\* Merging an acknowledged to_vv claims nothing new: only landed pushes are
\* acknowledged.
LEMMA UpdatesAckInv ==
  ASSUME IInv, NEW d \in Device, HandleUpdatesAck(d)
  PROVE  IInv'
<1> DEFINE g == Head(Inbox(d))
           n == Len(blobs[d])
           a == disk[d].cursor
           known == Acked(dev[d], blobs[d][g.push].to)
           in == IF disk[d].inFlight = g.push THEN NoPush ELSE disk[d].inFlight
           contig == IngestRange(dev[d].contig, g.seq, g.seq)
           k == [disk[d] EXCEPT !.known = known, !.inFlight = in]
           e == [dev[d] EXCEPT !.known = known, !.inFlight = NoPush, !.state = "Idle",
                               !.contig = contig]
<1>1. /\ dev[d] \in EngineIn(Known, n, a) /\ disk[d] \in DiskIn(Known, n)
      /\ dev[d].durable = a /\ n \in Nat
  BY DeviceTypes
<1>2. /\ Receives(d, "UpdatesAck") /\ Consume(d)
      /\ UNCHANGED <<deps, dialed, link, serverVars, sess>>
  BY DEF HandleUpdatesAck
<1>3. TryStartPush(d, e, k)
  BY DEF HandleUpdatesAck, CompletePush
<1>4. g.push \in Landed(d) /\ g.seq \in Nat
  BY <1>2, ReceivesFrame, ServerFields
<1> HIDE DEF g
<1>5. known \subseteq Known
  BY <1>1, <1>4 DEF Acked, Landed, EngineIn
<1>6. contig \in Nat
  BY <1>1, <1>4 DEF IngestRange, EngineIn
<1>7. in \in 0..n
  BY <1>1 DEF DiskIn, NoPush
<1> HIDE DEF known, contig, in
<1>8. e \in EngineIn(Known, n, a) /\ e.durable = a
  <2>1. NoPush \in 0..n
    BY <1>1 DEF NoPush
  <2> QED
    BY <1>1, <1>5, <1>6, <2>1 DEF EngineIn, EngineState
<1>9. k \in DiskIn(Known, n) /\ k.cursor = a
  BY <1>1, <1>5, <1>7 DEF DiskIn
<1>10. link[d] # 0 /\ \A G : Queues(s2c, Conn, G) => Queues(s2c', Conn, G)
  BY <1>2, ReceivesFrame
<1> HIDE DEF e, k
<1> QED
  BY <1>2, <1>3, <1>8, <1>9, <1>10, TryStartPushInv

\* Every step of an engine preserves the invariant.
LEMMA EngineStepInv ==
  ASSUME IInv, NEW d \in Device, EngineStep(d)
  PROVE  IInv'
BY CommitInv, CaptureInv, NotifyInv, ConnectInv, DisconnectInv, CrashInv, FlushInv,
   PlainFramesInv, BatchInv, BroadcastInv, UpdatesAckInv, SnapshotInv
   DEF EngineStep

-----------------------------------------------------------------------------
(* Steps of the server *)

\* A family of sessions within the sets G whose live members are of devices
\* in E.
SessFam(S, G, E) ==
  /\ Within(S, Conn, G)
  /\ \A c \in Conn : IF S[c].up THEN c[1] \in E ELSE S[c] = NoSession

\* Replacing one session by an allowed one.
LEMMA SessUpdate ==
  ASSUME NEW S, NEW G, NEW E, SessFam(S, G, E), NEW c \in Conn, NEW v \in G[c],
         IF v.up THEN c[1] \in E ELSE v = NoSession
  PROVE  SessFam([S EXCEPT ![c] = v], G, E)
BY DEF SessFam, Within

\* The absent session is allowed whatever the stream.
LEMMA NoSessionType ==
  \A Q, P, L : NoSession \in SessIn(Q, P, L) /\ ~NoSession.up
<1>1. \A L : <<>> \in Seq(1..L)
  OBVIOUS
<1>2. \A Q, P, L : NoTask \in TaskIn(Q, P, L)
  BY DEF TaskIn
<1> QED
  BY <1>1, <1>2 DEF NoSession, SessIn, NoLease

\* What a session step finds: the session's fields, and that ending it is
\* always within the invariant.
LEMMA SessionFacts ==
  ASSUME IInv, NEW c \in Conn
  PROVE  /\ c[1] \in Device
         /\ ClientSets[c] = ClientIn(Known, Len(blobs[c[1]]), disk[c[1]].cursor)
         /\ ServerSets[c] = ServerIn(Landed(c[1]), Len(log), Len(snaps))
         /\ SessSets[c] = SessIn(Known, Landed(c[1]), Len(log))
         /\ sess[c] \in SessIn(Known, Landed(c[1]), Len(log))
         /\ IF sess[c].up THEN c[1] \in enrolled ELSE sess[c] = NoSession
         /\ sess[c].task.kind # "idle" => sess[c].up
         /\ SessFam(sess, SessSets, enrolled)
         /\ Queues(Unread(c), Conn, ClientSets)
         /\ Len(log) \in Nat
         /\ Len(snaps) \in Nat
<1>1. c[1] \in Device
  BY ConnForm
<1>2. /\ SessFam(sess, SessSets, enrolled)
      /\ sess[c] \in SessSets[c]
      /\ IF sess[c].up THEN c[1] \in enrolled ELSE sess[c] = NoSession
  BY DEF IInv, SessInv, SessFam, Within
<1>3. sess[c].task.kind # "idle" => sess[c].up
  BY <1>2 DEF NoSession, NoTask
<1>4. Queues(Unread(c), Conn, ClientSets)
  BY QueueUpdate DEF IInv, WireInv, Unread
<1>5. Len(log) \in Nat /\ Len(snaps) \in Nat
  BY DEF IInv, StreamInv, SnapsInv
<1>6. SessSets[c] = SessIn(Known, Landed(c[1]), Len(log))
  BY DEF SessSets
<1> QED
  BY <1>1, <1>2, <1>3, <1>4, <1>5, <1>6 DEF ClientSets, ServerSets

\* Ending one session.
LEMMA EndFam ==
  ASSUME IInv, NEW S, SessFam(S, SessSets, enrolled), NEW c \in Conn
  PROVE  SessFam(End(S, c), SessSets, enrolled)
<1>1. NoSession \in SessSets[c] /\ ~NoSession.up
  BY SessionFacts, NoSessionType
<1> QED
  BY <1>1, SessUpdate DEF End

\* The frame a session reads is one the invariant knows.
LEMMA ReadsFrame ==
  ASSUME IInv, NEW c \in Conn, NEW type, Reads(c, type)
  PROVE  /\ sess[c].up
         /\ Frame(c).type = type
         /\ Frame(c) \in ClientIn(Known, Len(blobs[c[1]]), disk[c[1]].cursor)
         /\ Queues(Consumed(c), Conn, ClientSets)
<1>1. sess[c].up /\ c2s[c] # <<>> /\ Frame(c).type = type
  BY DEF Reads, Ready, Frame
<1>2. Frame(c) \in ClientSets[c] /\ Queues(Consumed(c), Conn, ClientSets)
  BY <1>1, QueueUpdate DEF IInv, WireInv, Frame, Consumed
<1> QED
  BY <1>1, <1>2, SessionFacts

\* A step of the server that adds neither a row nor a snapshot.
LEMMA ServerStep ==
  ASSUME IInv, UNCHANGED clientVars, log' = log, snaps' = snaps,
         Queues(c2s', Conn, ClientSets),
         Queues(s2c', Conn, ServerSets),
         SessFam(sess', SessSets, enrolled'),
         TableInv'
  PROVE  IInv'
<1>1. /\ dev' = dev /\ disk' = disk /\ deps' = deps /\ blobs' = blobs
      /\ dialed' = dialed /\ link' = link
  BY DEF clientVars
<1>2. /\ Grows /\ StreamInv' /\ SnapsInv' /\ Known' = Known
      /\ \A d \in Device : Landed(d)' = Landed(d)
  BY <1>1, Quiet, DeviceTypes
<1>3. ClientSets' = ClientSets
  BY <1>1, <1>2 DEF ClientSets
<1>4. ServerSets' = ServerSets /\ SessSets' = SessSets
  BY <1>2, ConnForm DEF ServerSets, SessSets
<1>5. EngineSets' = EngineSets /\ DiskSets' = DiskSets
  BY <1>1, <1>2 DEF EngineSets, DiskSets
<1>6. DeviceInv' /\ LinkInv'
  BY <1>1, <1>5 DEF IInv, DeviceInv, LinkInv
<1>7. WireInv' /\ SessInv'
  BY <1>3, <1>4 DEF WireInv, SessInv, SessFam
<1> QED
  BY <1>2, <1>6, <1>7 DEF IInv

\* A step that changes at most the lease keeps the tables' part.
LEMMA TablesUnchanged ==
  ASSUME IInv, UNCHANGED clientVars,
         UNCHANGED <<purged, frontier, compactDue, enrolled>>,
         lease' \in [id: Nat, expired: BOOLEAN], nextLease' \in Nat
  PROVE  TableInv'
BY DEF IInv, TableInv, clientVars

\* A one-element queue.
LEMMA Singleton ==
  ASSUME NEW S, NEW f \in S
  PROVE  <<f>> \in Seq(S)
OBVIOUS

\* One frame for the client.
LEMMA ToClientOne ==
  ASSUME IInv, NEW c \in Conn, NEW f \in ServerSets[c], ToClient(c, <<f>>)
  PROVE  Queues(s2c', Conn, ServerSets)
<1>1. <<f>> \in Seq(ServerSets[c])
  BY Singleton
<1> QED
  BY <1>1, ToClientQueues DEF IInv, WireInv

\* open_doc preserves the invariant.
LEMMA OpenInv ==
  ASSUME IInv, NEW c \in Conn, RecvOpenDoc(c)
  PROVE  IInv'
<1> DEFINE v == [sess[c] EXCEPT !.open = TRUE, !.sub = TRUE]
           f == [type |-> "DocOpened"]
<1>1. /\ Reads(c, "OpenDoc") /\ c2s' = Consumed(c)
      /\ sess' = [sess EXCEPT ![c].open = TRUE, ![c].sub = TRUE]
      /\ ToClient(c, <<f>>) /\ UNCHANGED <<clientVars, serverVars>>
  BY DEF RecvOpenDoc
<1>2. v \in SessSets[c] /\ v.up
  BY <1>1, SessionFacts, ReadsFrame DEF SessIn
<1>3. sess' = [sess EXCEPT ![c] = v]
  BY <1>1 DEF IInv, SessInv, Within
<1> HIDE DEF v
<1>4. SessFam(sess', SessSets, enrolled)
  <2>1. SessFam(sess, SessSets, enrolled) /\ c[1] \in enrolled
    BY <1>1, SessionFacts, ReadsFrame
  <2> QED
    BY <1>2, <1>3, <2>1, SessUpdate
<1>5. f \in ServerSets[c]
  BY SessionFacts DEF ServerIn
<1> HIDE DEF f
<1>6. Queues(s2c', Conn, ServerSets)
  BY <1>1, <1>5, ToClientOne
<1>7. TableInv' /\ enrolled' = enrolled /\ log' = log /\ snaps' = snaps
  BY <1>1, TablesUnchanged DEF serverVars, IInv, TableInv
<1> QED
  BY <1>1, <1>4, <1>6, <1>7, ReadsFrame, ServerStep

\* Steps that end the session of c.
LEMMA EndInv ==
  ASSUME IInv, NEW c \in Conn,
         RecvDocNotOpen(c) \/ Lagged(c) \/ SendFails(c) \/ SessionClosed(c)
  PROVE  IInv'
<1>1. /\ sess' = End(sess, c) /\ c2s' = Unread(c) /\ s2c' = s2c
      /\ lease' \in {lease, IdleLease}
      /\ UNCHANGED clientVars
      /\ UNCHANGED <<log, purged, snaps, frontier, nextLease, compactDue, enrolled>>
  BY DEF RecvDocNotOpen, Lagged, SendFails, SessionClosed, serverVars
<1>2. SessFam(sess', SessSets, enrolled)
  BY <1>1, SessionFacts, EndFam
<1>3. Queues(c2s', Conn, ClientSets) /\ Queues(s2c', Conn, ServerSets)
  BY <1>1, SessionFacts DEF IInv, WireInv
<1>4. lease' \in [id: Nat, expired: BOOLEAN] /\ nextLease' \in Nat
  <2>1. IdleLease \in [id: Nat, expired: BOOLEAN]
    BY DEF IdleLease, NoLease
  <2>2. lease \in [id: Nat, expired: BOOLEAN] /\ nextLease \in Nat
    BY DEF IInv, TableInv
  <2> QED
    BY <1>1, <2>1, <2>2
<1>5. TableInv'
  BY <1>1, <1>4, TablesUnchanged
<1> QED
  BY <1>1, <1>2, <1>3, <1>5, ServerStep

\* The latest compaction floor is a seq.
LEMMA PrevFloorType ==
  ASSUME IInv
  PROVE  PrevFloor \in Nat
<1>1. snaps # <<>> => Latest \in RowIn(Known)
  BY DEF IInv, SnapsInv, Latest
<1> QED
  BY <1>1 DEF PrevFloor, RowIn

\* The floor that a SnapshotRequest carries is a seq.
LEMMA RequestType ==
  ASSUME IInv, NEW c \in Conn, sess[c].up, NEW acked \in Nat
  PROVE  SnapshotRequest(c[1], acked) \in ServerSets[c]
<1> DEFINE H == {IF x = c[1] THEN acked ELSE frontier[x] : x \in enrolled}
<1>1. H \subseteq Nat
  BY DEF IInv, TableInv
<1>2. H # {}
  BY SessionFacts
<1>3. Horizon(c[1], acked) \in Nat
  <2>1. Horizon(c[1], acked) = MinOf(H)
    BY DEF Horizon
  <2> HIDE DEF H
  <2> QED
    BY <1>1, <1>2, <2>1, MinOfFacts
<1>4. PrevFloor \in Nat
  BY PrevFloorType
<1>5. MaxOf(Horizon(c[1], acked), PrevFloor) \in Nat
  BY <1>3, <1>4 DEF MaxOf
<1>6. Len(snaps) \in 0..Len(snaps)
  BY SessionFacts
<1>7. SnapshotRequest(c[1], acked) \in ServerIn(Landed(c[1]), Len(log), Len(snaps))
  BY <1>5, <1>6 DEF SnapshotRequest, ServerIn
<1> QED
  BY <1>7, SessionFacts

\* The snapshot decision with its replies, and the failing send, keep wire,
\* sessions and lease within the invariant.
LEMMA EvaluateInv ==
  ASSUME IInv, NEW c \in Conn, sess[c].up, NEW acked \in Nat,
         NEW S, SessFam(S, SessSets, enrolled), S[c].up,
         NEW rest, Queues(rest, Conn, ClientSets),
         NEW replies \in Seq(ServerSets[c]),
         EvaluateAndReply(c, acked, S, rest, replies)
  PROVE  /\ Queues(c2s', Conn, ClientSets)
         /\ Queues(s2c', Conn, ServerSets)
         /\ SessFam(sess', SessSets, enrolled)
         /\ lease' \in [id: Nat, expired: BOOLEAN]
         /\ nextLease' \in Nat
<1> DEFINE issued == Issues(acked)
           frames == IF issued THEN Append(replies, SnapshotRequest(c[1], acked)) ELSE replies
           T == IF issued THEN [S EXCEPT ![c].lease = nextLease] ELSE S
           v == [S[c] EXCEPT !.lease = nextLease]
<1>1. /\ lease' = IF issued THEN [id |-> nextLease, expired |-> FALSE] ELSE lease
      /\ nextLease' = IF issued THEN nextLease + 1 ELSE nextLease
      /\ \/ sess' = T /\ c2s' = rest /\ ToClient(c, frames)
         \/ sess' = End(S, c) /\ c2s' = Unread(c) /\ s2c' = s2c
  BY DEF EvaluateAndReply
<1>2. nextLease \in Nat /\ lease \in [id: Nat, expired: BOOLEAN]
  BY DEF IInv, TableInv
<1>3. lease' \in [id: Nat, expired: BOOLEAN] /\ nextLease' \in Nat
  BY <1>1, <1>2
<1>4. frames \in Seq(ServerSets[c])
  <2>1. SnapshotRequest(c[1], acked) \in ServerSets[c]
    BY RequestType
  <2> HIDE DEF issued
  <2> QED
    BY <2>1, AppendProperties
<1>5. SessFam(T, SessSets, enrolled)
  <2>1. S[c] \in SessIn(Known, Landed(c[1]), Len(log)) /\ c[1] \in enrolled
    BY SessionFacts DEF SessFam, Within
  <2>2. v \in SessSets[c] /\ v.up
    <3>1. v \in SessIn(Known, Landed(c[1]), Len(log)) /\ v.up
      BY <1>2, <2>1 DEF SessIn
    <3> HIDE DEF v
    <3> QED
      BY <3>1, SessionFacts
  <2>3. [S EXCEPT ![c].lease = nextLease] = [S EXCEPT ![c] = v]
    BY DEF SessFam, Within
  <2> HIDE DEF v, issued
  <2> QED
    BY <2>1, <2>2, <2>3, SessUpdate
<1> HIDE DEF issued, frames, T
<1>6. CASE sess' = T /\ c2s' = rest /\ ToClient(c, frames)
  BY <1>3, <1>4, <1>5, <1>6, ToClientQueues DEF IInv, WireInv
<1>7. CASE sess' = End(S, c) /\ c2s' = Unread(c) /\ s2c' = s2c
  BY <1>3, <1>7, SessionFacts, EndFam DEF IInv, WireInv
<1> QED
  BY <1>1, <1>6, <1>7

\* A live session of c becomes v.
LEMMA SessionBecomes ==
  ASSUME IInv, NEW c \in Conn, sess[c].up, NEW v,
         v \in SessIn(Known, Landed(c[1]), Len(log)), v.up,
         sess' = [sess EXCEPT ![c] = v]
  PROVE  SessFam(sess', SessSets, enrolled)
<1>1. SessFam(sess, SessSets, enrolled) /\ c[1] \in enrolled /\ v \in SessSets[c]
  BY SessionFacts
<1> QED
  BY <1>1, SessUpdate

\* A live session of c takes up the task t.
LEMMA TaskBecomes ==
  ASSUME IInv, NEW c \in Conn, sess[c].up,
         NEW t, t \in TaskIn(Known, Landed(c[1]), Len(log)),
         sess' = [sess EXCEPT ![c].task = t]
  PROVE  SessFam(sess', SessSets, enrolled)
<1> DEFINE v == [sess[c] EXCEPT !.task = t]
<1>1. sess[c] \in SessIn(Known, Landed(c[1]), Len(log))
  BY SessionFacts
<1>2. v \in SessIn(Known, Landed(c[1]), Len(log)) /\ v.up
  BY <1>1 DEF SessIn
<1>3. sess' = [sess EXCEPT ![c] = v]
  BY DEF IInv, SessInv, Within
<1> HIDE DEF v
<1> QED
  BY <1>2, <1>3, SessionBecomes

\* Fan-out of a row of the log, dropped subscribers included.
LEMMA BroadcastFam ==
  ASSUME IInv, NEW S, SessFam(S, SessSets, enrolled), NEW c, NEW s \in 1..Len(log)
  PROVE  SessFam(Broadcast(S, c, s), SessSets, enrolled)
<1> DEFINE T == Broadcast(S, c, s)
<1>1. T = [x \in Conn |-> T[x]]
  BY DEF Broadcast
<1>2. ASSUME NEW x \in Conn
      PROVE  T[x] \in SessSets[x] /\ IF T[x].up THEN x[1] \in enrolled ELSE T[x] = NoSession
  <2> DEFINE G == SessIn(Known, Landed(x[1]), Len(log))
             a == [S[x] EXCEPT !.rx = Append(@, s)]
             b == [S[x] EXCEPT !.sub = FALSE]
  <2>1. S[x] \in G /\ SessSets[x] = G /\ IF S[x].up THEN x[1] \in enrolled ELSE S[x] = NoSession
    BY SessionFacts DEF SessFam, Within
  <2>2. CASE ~S[x].sub
    BY <2>1, <2>2 DEF Broadcast
  <2>3. CASE S[x].sub
    <3>1. S[x].up
      BY <2>1, <2>3 DEF NoSession
    <3>2. Append(S[x].rx, s) \in Seq(1..Len(log))
      BY <2>1, AppendProperties DEF SessIn
    <3>3. a \in G /\ b \in G /\ a.up /\ b.up
      BY <2>1, <3>1, <3>2 DEF SessIn
    <3>4. T[x] \in {S[x], a, b}
      BY DEF Broadcast
    <3> HIDE DEF T, a, b, G
    <3> QED
      BY <2>1, <3>1, <3>3, <3>4
  <2> QED
    BY <2>2, <2>3
<1> HIDE DEF T
<1> QED
  BY <1>1, <1>2 DEF SessFam, Within, T

\* The UpdatesAck is for the push that was inserted, which has landed.
LEMMA FinishPushInv ==
  ASSUME IInv, NEW c \in Conn, FinishPush(c)
  PROVE  IInv'
<1> DEFINE t == sess[c].task
           S == [sess EXCEPT ![c].task = NoTask]
           T == IF t.fresh THEN Broadcast(S, c, t.seq) ELSE S
           f == [type |-> "UpdatesAck", push |-> t.push, seq |-> t.seq]
           v == [sess[c] EXCEPT !.task = NoTask]
<1>1. /\ t.kind = "push" /\ EvaluateAndReply(c, t.seq, T, c2s, <<f>>)
      /\ UNCHANGED clientVars /\ UNCHANGED <<log, purged, snaps, frontier, compactDue, enrolled>>
  BY DEF FinishPush
<1>2. sess[c].up /\ t \in TaskIn(Known, Landed(c[1]), Len(log)) /\ Len(log) \in Nat
  BY <1>1, SessionFacts DEF SessIn
<1>3. t.push \in Landed(c[1]) /\ t.seq \in 1..Len(log) /\ t.fresh \in BOOLEAN
  BY <1>1, <1>2, TaskFields
<1>4. SessFam(S, SessSets, enrolled) /\ S[c].up
  <2>1. v \in SessIn(Known, Landed(c[1]), Len(log)) /\ v.up
    BY <1>2, SessionFacts DEF SessIn, TaskIn
  <2>2. S = [sess EXCEPT ![c] = v] /\ S[c] = v
    BY DEF IInv, SessInv, Within
  <2> HIDE DEF v, S
  <2>3. SessFam(sess, SessSets, enrolled) /\ c[1] \in enrolled /\ v \in SessSets[c]
    BY <1>2, <2>1, SessionFacts
  <2> QED
    BY <2>1, <2>2, <2>3, SessUpdate
<1>5. t.seq \in Nat
  <2> HIDE DEF t
  <2> QED
    BY <1>2, <1>3
<1> HIDE DEF S, t
<1>6. SessFam(T, SessSets, enrolled)
  BY <1>3, <1>4, BroadcastFam
<1>7. T[c].up
  BY <1>4 DEF Broadcast
<1>8. f \in ServerSets[c]
  <2>1. f \in ServerIn(Landed(c[1]), Len(log), Len(snaps))
    BY <1>3, <1>5 DEF ServerIn
  <2> HIDE DEF f
  <2> QED
    BY <2>1, SessionFacts
<1> HIDE DEF T, f
<1>9. <<f>> \in Seq(ServerSets[c]) /\ Queues(c2s, Conn, ClientSets)
  BY <1>8, Singleton DEF IInv, WireInv
<1>10. /\ Queues(c2s', Conn, ClientSets) /\ Queues(s2c', Conn, ServerSets)
       /\ SessFam(sess', SessSets, enrolled)
       /\ lease' \in [id: Nat, expired: BOOLEAN] /\ nextLease' \in Nat
  BY <1>1, <1>2, <1>5, <1>6, <1>7, <1>9, EvaluateInv
<1>11. TableInv'
  BY <1>1, <1>10, TablesUnchanged
<1> QED
  BY <1>1, <1>10, <1>11, ServerStep

\* An Ack raises the frontier to a seq that its device has made durable.
LEMMA AckInv ==
  ASSUME IInv, NEW c \in Conn, RecvAck(c)
  PROVE  IInv'
<1> DEFINE seq == Frame(c).seq
<1>1. /\ Reads(c, "Ack")
      /\ frontier' = [frontier EXCEPT ![c[1]] = Advanced(@, seq)]
      /\ EvaluateAndReply(c, seq, sess, Consumed(c), <<>>)
      /\ UNCHANGED clientVars /\ UNCHANGED <<log, purged, snaps, compactDue, enrolled>>
  BY DEF RecvAck
<1>2. sess[c].up /\ Queues(Consumed(c), Conn, ClientSets)
  BY <1>1, ReadsFrame
<1>3. c[1] \in Device /\ disk[c[1]].cursor \in Nat /\ seq \in 0..disk[c[1]].cursor
  BY <1>1, SessionFacts, DeviceTypes, ReadsFrame, ClientFields
<1> HIDE DEF seq
<1>4. seq \in Nat /\ seq <= disk[c[1]].cursor
  BY <1>3
<1>5. <<>> \in Seq(ServerSets[c]) /\ SessFam(sess, SessSets, enrolled)
  BY SessionFacts
<1>6. /\ Queues(c2s', Conn, ClientSets) /\ Queues(s2c', Conn, ServerSets)
      /\ SessFam(sess', SessSets, enrolled)
      /\ lease' \in [id: Nat, expired: BOOLEAN] /\ nextLease' \in Nat
  BY <1>1, <1>2, <1>4, <1>5, EvaluateInv
<1>7. frontier' \in [Device -> Nat] /\ \A d \in Device : frontier'[d] <= disk[d].cursor
  BY <1>1, <1>3, <1>4 DEF IInv, TableInv, Advanced, MaxOf
<1>8. TableInv'
  BY <1>1, <1>6, <1>7 DEF IInv, TableInv, clientVars
<1> QED
  BY <1>1, <1>6, <1>8, ServerStep

\* pull_updates' first step preserves the invariant.
LEMMA PullInv ==
  ASSUME IInv, NEW c \in Conn, RecvPullUpdates(c)
  PROVE  IInv'
<1> DEFINE t == [kind |-> "pull", cursor |-> Frame(c).since]
           f == [type |-> "SnapshotRequired"]
<1>1. /\ Reads(c, "PullUpdates") /\ c2s' = Consumed(c)
      /\ \/ ToClient(c, <<f>>) /\ sess' = sess
         \/ sess' = [sess EXCEPT ![c].task = t] /\ s2c' = s2c
      /\ UNCHANGED <<clientVars, serverVars>>
  BY DEF RecvPullUpdates
<1>2. sess[c].up /\ Queues(c2s', Conn, ClientSets) /\ Frame(c).since \in Nat
  BY <1>1, ReadsFrame, ClientFields
<1>3. t \in TaskIn(Known, Landed(c[1]), Len(log))
  BY <1>2 DEF TaskIn
<1>4. f \in ServerSets[c]
  BY SessionFacts DEF ServerIn
<1> HIDE DEF t, f
<1>5. Queues(s2c', Conn, ServerSets) /\ SessFam(sess', SessSets, enrolled)
  BY <1>1, <1>2, <1>3, <1>4, ToClientOne, TaskBecomes, SessionFacts DEF IInv, WireInv
<1>6. enrolled' = enrolled /\ log' = log /\ snaps' = snaps /\ UNCHANGED clientVars
  BY <1>1 DEF serverVars
<1>7. TableInv'
  BY <1>1, TablesUnchanged DEF serverVars, IInv, TableInv
<1> QED
  BY <1>2, <1>5, <1>6, <1>7, ServerStep

\* A batch refers to rows of the log.
LEMMA PullBatchInv ==
  ASSUME IInv, NEW c \in Conn, PullBatch(c)
  PROVE  IInv'
<1> DEFINE t == sess[c].task
           lo == MaxOf(t.cursor, purged) + 1
           last == Len(log)
<1>1. t.kind = "pull" /\ UNCHANGED <<clientVars, serverVars, c2s>>
  BY DEF PullBatch
<1>2. sess[c].up /\ t \in TaskIn(Known, Landed(c[1]), Len(log)) /\ last \in Nat
  BY <1>1, SessionFacts DEF SessIn
<1>3. t.cursor \in Nat /\ purged \in Nat
  BY <1>1, <1>2, TaskFields DEF IInv, TableInv
<1>4. lo \in Nat \ {0}
  <2> HIDE DEF t
  <2> QED
    BY <1>3 DEF MaxOf
<1>5. PICK hi \in (IF last < lo THEN {last} ELSE lo .. last) :
        /\ ToClient(c, <<[type |-> "UpdatesBatch", lo |-> lo, hi |-> hi, complete |-> hi = last]>>)
        /\ sess' = [sess EXCEPT ![c].task = IF hi = last THEN NoTask
                                            ELSE [kind |-> "pull", cursor |-> hi]]
  BY DEF PullBatch
<1> DEFINE f == [type |-> "UpdatesBatch", lo |-> lo, hi |-> hi, complete |-> hi = last]
           u == IF hi = last THEN NoTask ELSE [kind |-> "pull", cursor |-> hi]
<1>6. ToClient(c, <<f>>) /\ sess' = [sess EXCEPT ![c].task = u]
  BY <1>5
<1> HIDE DEF lo
<1>7. hi \in 0..last /\ hi \in Nat
  BY <1>2, <1>4
<1>8. f \in ServerSets[c]
  <2>1. f \in ServerIn(Landed(c[1]), Len(log), Len(snaps))
    BY <1>4, <1>7 DEF ServerIn
  <2> HIDE DEF f
  <2> QED
    BY <2>1, SessionFacts
<1>9. u \in TaskIn(Known, Landed(c[1]), Len(log))
  BY <1>7 DEF TaskIn
<1> HIDE DEF f, u
<1>10. Queues(s2c', Conn, ServerSets) /\ SessFam(sess', SessSets, enrolled)
  BY <1>2, <1>6, <1>8, <1>9, ToClientOne, TaskBecomes
<1>11. /\ enrolled' = enrolled /\ log' = log /\ snaps' = snaps /\ UNCHANGED clientVars
       /\ Queues(c2s', Conn, ClientSets)
  BY <1>1 DEF serverVars, IInv, WireInv
<1>12. TableInv'
  BY <1>1, TablesUnchanged DEF serverVars, IInv, TableInv
<1> QED
  BY <1>10, <1>11, <1>12, ServerStep

\* pull_snapshot refers to rows of the snapshot table.
LEMMA PullSnapshotInv ==
  ASSUME IInv, NEW c \in Conn, RecvPullSnapshot(c)
  PROVE  IInv'
<1>1. PICK h \in 1..Len(snaps) :
        /\ Reads(c, "PullSnapshot") /\ c2s' = Consumed(c)
        /\ ToClient(c, [i \in 1 .. Len(snaps) - h + 1 |->
                          [type |-> "Snapshot", row |-> h + i - 1,
                           complete |-> h + i - 1 = Len(snaps)]])
        /\ UNCHANGED <<clientVars, serverVars, sess>>
  BY DEF RecvPullSnapshot
<1> DEFINE n == Len(snaps) - h + 1
           F == [i \in 1..n |-> [type |-> "Snapshot", row |-> h + i - 1,
                                 complete |-> h + i - 1 = Len(snaps)]]
<1>2. n \in Nat /\ Len(snaps) \in Nat
  BY SessionFacts
<1>3. ASSUME NEW i \in 1..n PROVE F[i] \in ServerSets[c]
  <2>1. h + i - 1 \in 1..Len(snaps)
    BY <1>2
  <2>2. F[i] \in ServerIn(Landed(c[1]), Len(log), Len(snaps))
    BY <2>1 DEF ServerIn
  <2> HIDE DEF F
  <2> QED
    BY <2>2, SessionFacts
<1>4. F \in Seq(ServerSets[c])
  <2> DEFINE G == ServerSets[c]
  <2>1. F \in [1..n -> G]
    BY <1>3
  <2> HIDE DEF F, G, n
  <2> QED
    BY <1>2, <2>1 DEF G
<1>5. ToClient(c, F)
  BY <1>1
<1> HIDE DEF F, n
<1>6. Queues(s2c', Conn, ServerSets)
  BY <1>4, <1>5, ToClientQueues DEF IInv, WireInv
<1>7. /\ enrolled' = enrolled /\ log' = log /\ snaps' = snaps /\ UNCHANGED clientVars
      /\ Queues(c2s', Conn, ClientSets) /\ sess' = sess
  BY <1>1, ReadsFrame DEF serverVars
<1>8. TableInv'
  BY <1>1, TablesUnchanged DEF serverVars, IInv, TableInv
<1>9. SessFam(sess', SessSets, enrolled)
  BY <1>7, SessionFacts
<1> QED
  BY <1>6, <1>7, <1>8, <1>9, ServerStep

\* An uploaded snapshot is kept for insertion or ignored.
LEMMA PushSnapshotInv ==
  ASSUME IInv, NEW c \in Conn, RecvPushSnapshot(c)
  PROVE  IInv'
<1> DEFINE t == [kind |-> "snap", row |-> Frame(c).row]
           v == [sess[c] EXCEPT !.lease = NoLease, !.task = t]
<1>1. /\ Reads(c, "PushSnapshot") /\ c2s' = Consumed(c) /\ s2c' = s2c
      /\ lease' \in {lease, IdleLease}
      /\ sess' = sess \/ sess' = [sess EXCEPT ![c].lease = NoLease, ![c].task = t]
      /\ UNCHANGED clientVars
      /\ UNCHANGED <<log, purged, snaps, frontier, nextLease, compactDue, enrolled>>
  BY DEF RecvPushSnapshot
<1>2. /\ sess[c].up /\ Queues(c2s', Conn, ClientSets) /\ Frame(c).row \in RowIn(Known)
      /\ sess[c] \in SessIn(Known, Landed(c[1]), Len(log))
  BY <1>1, ReadsFrame, ClientFields, SessionFacts
<1>3. t \in TaskIn(Known, Landed(c[1]), Len(log))
  BY <1>2 DEF TaskIn
<1> HIDE DEF t
<1>4. v \in SessIn(Known, Landed(c[1]), Len(log)) /\ v.up
  BY <1>2, <1>3 DEF SessIn, NoLease
<1>5. sess' = sess \/ sess' = [sess EXCEPT ![c] = v]
  BY <1>1 DEF IInv, SessInv, Within
<1> HIDE DEF v
<1>6. SessFam(sess', SessSets, enrolled)
  BY <1>2, <1>4, <1>5, SessionBecomes, SessionFacts
<1>7. lease' \in [id: Nat, expired: BOOLEAN] /\ nextLease' \in Nat
  <2>1. IdleLease \in [id: Nat, expired: BOOLEAN]
    BY DEF IdleLease, NoLease
  <2>2. lease \in [id: Nat, expired: BOOLEAN] /\ nextLease \in Nat
    BY DEF IInv, TableInv
  <2> QED
    BY <1>1, <2>1, <2>2
<1>8. TableInv'
  BY <1>1, <1>7, TablesUnchanged
<1>9. Queues(s2c', Conn, ServerSets)
  BY <1>1 DEF IInv, WireInv
<1> QED
  BY <1>1, <1>2, <1>6, <1>8, <1>9, ServerStep

\* Forwarding a subscription preserves the invariant.
LEMMA SendBroadcastInv ==
  ASSUME IInv, NEW c \in Conn, SendBroadcast(c)
  PROVE  IInv'
<1> DEFINE s == Head(sess[c].rx)
           f == [type |-> "UpdatesBroadcast", seq |-> s]
           v == [sess[c] EXCEPT !.rx = Tail(@)]
<1>1. /\ sess[c].up /\ sess[c].rx # <<>>
      /\ sess' = [sess EXCEPT ![c].rx = Tail(@)]
      /\ ToClient(c, <<f>>) /\ UNCHANGED <<clientVars, serverVars, c2s>>
  BY DEF SendBroadcast, Ready
<1>2. sess[c] \in SessIn(Known, Landed(c[1]), Len(log)) /\ sess[c].rx \in Seq(1..Len(log))
  BY SessionFacts DEF SessIn
<1>3. s \in 1..Len(log) /\ Tail(sess[c].rx) \in Seq(1..Len(log))
  <2> DEFINE R == 1..Len(log)
             rx == sess[c].rx
  <2>1. rx \in Seq(R) /\ rx # <<>>
    BY <1>1, <1>2
  <2>2. Head(rx) \in R /\ Tail(rx) \in Seq(R)
    <3> HIDE DEF R, rx
    <3> QED
      BY <2>1
  <2> QED
    BY <2>2
<1>4. v \in SessIn(Known, Landed(c[1]), Len(log)) /\ v.up
  BY <1>1, <1>2, <1>3 DEF SessIn
<1>5. sess' = [sess EXCEPT ![c] = v]
  BY <1>1 DEF IInv, SessInv, Within
<1> HIDE DEF v, s
<1>6. f \in ServerSets[c]
  <2>1. f \in ServerIn(Landed(c[1]), Len(log), Len(snaps))
    BY <1>3 DEF ServerIn
  <2> HIDE DEF f
  <2> QED
    BY <2>1, SessionFacts
<1> HIDE DEF f
<1>7. Queues(s2c', Conn, ServerSets) /\ SessFam(sess', SessSets, enrolled)
  BY <1>1, <1>4, <1>5, <1>6, ToClientOne, SessionBecomes
<1>8. /\ enrolled' = enrolled /\ log' = log /\ snaps' = snaps /\ UNCHANGED clientVars
      /\ Queues(c2s', Conn, ClientSets)
  BY <1>1 DEF serverVars, IInv, WireInv
<1>9. TableInv'
  BY <1>1, TablesUnchanged DEF serverVars, IInv, TableInv
<1> QED
  BY <1>7, <1>8, <1>9, ServerStep

\* A step of the server that lets the log or the snapshots grow.
LEMMA GrowingServer ==
  ASSUME IInv, Grows, StreamInv', SnapsInv', UNCHANGED clientVars,
         Queues(c2s', Conn, ClientSets), s2c' = s2c,
         SessFam(sess', SessSets', enrolled'), TableInv'
  PROVE  IInv'
<1>1. /\ dev' = dev /\ disk' = disk /\ blobs' = blobs /\ dialed' = dialed /\ link' = link
  BY DEF clientVars
<1>2. DeviceInv' /\ LinkInv'
  BY <1>1, Carry DEF IInv, DeviceInv, LinkInv
<1>3. Queues(s2c', Conn, ServerSets')
  BY Carry
<1>4. \A c \in Conn : ClientSets[c] \subseteq ClientSets'[c]
  <2>1. Known \subseteq Known' /\ \A c \in Conn : c[1] \in Device
    BY KnownGrows, ConnForm DEF IInv
  <2> QED
    BY <2>1, ClientMono DEF Grows, ClientSets
<1>5. Queues(c2s', Conn, ClientSets')
  BY <1>4, QueueGrow
<1> QED
  BY <1>2, <1>3, <1>5 DEF IInv, WireInv, SessInv, SessFam

\* The row of a push puts its payload, and with it its to_vv, on the stream.
LEMMA NewRow ==
  ASSUME IInv, NEW d \in Device, NEW n \in 1..Len(blobs[d]), UNCHANGED clientVars, snaps' = snaps,
         log' = Append(log, [dev |-> d, push |-> n])
  PROVE  Grows /\ StreamInv' /\ SnapsInv' /\ n \in Landed(d)' /\ Len(log') = Len(log) + 1
<1> DEFINE r == [dev |-> d, push |-> n]
           R == [dev: Device, push: Nat]
<1>0. /\ disk' = disk /\ blobs' = blobs /\ log \in Seq(R)
      /\ Len(log) \in Nat /\ Len(snaps) \in Nat /\ Len(blobs[d]) \in Nat
  BY DEF clientVars, IInv, StreamInv, SnapsInv
<1>1. r \in R
  BY <1>0
<1>2. r.dev = d /\ r.push = n /\ log' = Append(log, r)
  OBVIOUS
<1> HIDE DEF r, R
<1>3. /\ log' \in Seq(R)
      /\ Len(log') = Len(log) + 1
      /\ \A s \in 1..Len(log) : log'[s] = log[s]
      /\ log'[Len(log) + 1] = r
  BY <1>0, <1>1, <1>2, AppendProperties
<1>4. Grows
  BY <1>0, <1>3, DeviceTypes DEF Grows
<1>5. Known \subseteq Known' /\ SnapsInv'
  BY <1>4, KnownGrows, Carry DEF IInv, SnapsInv
<1>6. ASSUME NEW s \in 1..Len(log') PROVE log'[s].push \in 1..Len(blobs'[log'[s].dev])
  <2>1. CASE s \in 1..Len(log)
    BY <2>1, <1>0, <1>3 DEF IInv, StreamInv
  <2>2. CASE s \notin 1..Len(log)
    <3>1. s = Len(log) + 1
      BY <2>2, <1>0, <1>3
    <3> QED
      BY <3>1, <1>0, <1>2, <1>3
  <2> QED
    BY <2>1, <2>2
<1>7. \A x \in Device : \A m \in 1..Len(blobs'[x]) :
        blobs'[x][m].to \subseteq Known' \cup blobs'[x][m].ops
  BY <1>0, <1>5 DEF IInv, StreamInv
<1>8. StreamInv'
  BY <1>0, <1>3, <1>6, <1>7 DEF IInv, StreamInv, R
<1>9. blobs[d][n].ops \subseteq Known'
  <2>0. PICK s \in Nat : s = Len(log) + 1
    BY <1>0
  <2>1. s \in 1..Len(log')
    BY <1>0, <1>3, <2>0
  <2>2. RowOps(s)' = blobs[d][n].ops
    BY <1>0, <1>2, <1>3, <2>0 DEF RowOps
  <2>3. blobs[d][n].ops \subseteq StreamOps'
    BY <2>1, <2>2 DEF StreamOps, RangeOps
  <2>4. StreamOps' \subseteq Known'
    BY <1>8, StreamFactsNext
  <2> QED
    BY <2>3, <2>4
<1>10. n \in Landed(d)'
  BY <1>0, <1>5, <1>9 DEF Landed, IInv, StreamInv
<1> QED
  BY <1>3, <1>4, <1>5, <1>8, <1>10

\* insert_updates: with its row in the log the push has landed, and a
\* deduplicated one had.
LEMMA PushUpdatesInv ==
  ASSUME IInv, NEW c \in Conn, RecvPushUpdates(c)
  PROVE  IInv'
<1> DEFINE d == c[1]
           n == Frame(c).push
           old == Stored(d, n)
           s == IF old = {} THEN Len(log) + 1 ELSE CHOOSE x \in old : TRUE
           t == [kind |-> "push", push |-> n, seq |-> s, fresh |-> old = {}]
           v == [sess[c] EXCEPT !.task = t]
<1>1. /\ Reads(c, "PushUpdates") /\ c2s' = Consumed(c) /\ s2c' = s2c
      /\ log' = IF old = {} THEN Append(log, [dev |-> d, push |-> n]) ELSE log
      /\ sess' = [sess EXCEPT ![c].task = t]
      /\ UNCHANGED clientVars
      /\ UNCHANGED <<purged, snaps, frontier, lease, nextLease, compactDue, enrolled>>
  BY DEF RecvPushUpdates
<1>2. /\ sess[c].up /\ Queues(c2s', Conn, ClientSets) /\ n \in 1..Len(blobs[d])
      /\ d \in Device /\ Len(log) \in Nat
  BY <1>1, ReadsFrame, ClientFields, SessionFacts
<1>3. TableInv'
  BY <1>1, TablesUnchanged DEF IInv, TableInv
<1> HIDE DEF n
<1>4. CASE old = {}
  <2>1. Grows /\ StreamInv' /\ SnapsInv' /\ n \in Landed(d)' /\ Len(log') = Len(log) + 1
    BY <1>1, <1>2, <1>4, NewRow
  <2>2. t \in TaskIn(Known', Landed(d)', Len(log'))
    <3>1. s \in 1..Len(log')
      BY <1>2, <1>4, <2>1
    <3> HIDE DEF s
    <3> QED
      BY <2>1, <3>1 DEF TaskIn
  <2> HIDE DEF t
  <2>3. Within(sess, Conn, SessSets')
    BY <2>1, Carry
  <2>4. SessSets'[c] = SessIn(Known', Landed(d)', Len(log'))
    BY DEF SessSets
  <2>5. v \in SessSets'[c] /\ v.up
    <3>1. sess[c] \in SessIn(Known', Landed(d)', Len(log'))
      BY <2>3, <2>4 DEF Within
    <3> QED
      BY <1>2, <2>2, <2>4, <3>1 DEF SessIn
  <2>6. sess' = [sess EXCEPT ![c] = v]
    BY <1>1 DEF IInv, SessInv, Within
  <2> HIDE DEF v
  <2>7. SessFam(sess, SessSets', enrolled) /\ d \in enrolled
    BY <1>2, <2>3, SessionFacts DEF SessFam
  <2>8. SessFam(sess', SessSets', enrolled')
    <3>1. SessFam([sess EXCEPT ![c] = v], SessSets', enrolled)
      BY <2>5, <2>7, SessUpdate
    <3> QED
      BY <1>1, <2>6, <3>1
  <2> QED
    BY <1>1, <1>2, <1>3, <2>1, <2>8, GrowingServer
<1>5. CASE old # {}
  <2>1. s \in old /\ log' = log
    BY <1>1, <1>5
  <2>2. s \in purged + 1 .. Len(log) /\ log[s] = [dev |-> d, push |-> n]
    BY <2>1 DEF Stored
  <2> HIDE DEF s, old
  <2>3. s \in 1..Len(log)
    BY <1>2, <2>2 DEF IInv, TableInv
  <2>4. blobs[d][n].ops \subseteq Known
    <3>1. RowOps(s) = blobs[d][n].ops
      BY <2>2 DEF RowOps
    <3> QED
      BY <2>3, <3>1, StreamFacts DEF IInv
  <2>5. n \in Landed(d)
    BY <1>2, <2>4 DEF Landed, IInv, StreamInv
  <2>6. t \in TaskIn(Known, Landed(d), Len(log))
    BY <2>3, <2>5 DEF TaskIn
  <2> HIDE DEF t
  <2>7. SessFam(sess', SessSets, enrolled)
    BY <1>1, <1>2, <2>6, TaskBecomes
  <2> QED
    BY <1>1, <1>2, <1>3, <2>1, <2>7, ServerStep DEF IInv, WireInv
<1> QED
  BY <1>4, <1>5

\* The new row of the snapshot table is within the stream.
LEMMA InsertSnapshotInv ==
  ASSUME IInv, NEW c \in Conn, InsertSnapshot(c)
  PROVE  IInv'
<1> DEFINE t == sess[c].task
           v == [sess[c] EXCEPT !.task = NoTask]
<1>1. /\ t.kind = "snap" /\ sess' = [sess EXCEPT ![c].task = NoTask]
      /\ snaps' = IF Links(t.row) THEN Append(snaps, t.row) ELSE snaps
      /\ compactDue' \in BOOLEAN /\ c2s' = c2s /\ s2c' = s2c /\ UNCHANGED clientVars
      /\ UNCHANGED <<log, purged, frontier, lease, nextLease, enrolled>>
  BY DEF InsertSnapshot, IInv, TableInv
<1>2. /\ sess[c].up /\ t \in TaskIn(Known, Landed(c[1]), Len(log))
      /\ Len(log) \in Nat /\ Len(snaps) \in Nat
  BY <1>1, SessionFacts DEF SessIn
<1>3. t.row \in RowIn(Known)
  BY <1>1, <1>2, TaskFields
<1>4. snaps' \in Seq(RowIn(Known)) /\ Len(snaps') \in Nat /\ Len(snaps) <= Len(snaps')
  <2>1. snaps \in Seq(RowIn(Known))
    BY DEF IInv, SnapsInv
  <2>2. CASE Links(t.row)
    <3> DEFINE r == t.row
               R == RowIn(Known)
    <3>1. snaps' = Append(snaps, r) /\ r \in R /\ snaps \in Seq(R)
      BY <1>1, <1>3, <2>1, <2>2
    <3> HIDE DEF r, R
    <3>2. snaps' \in Seq(R) /\ Len(snaps') = Len(snaps) + 1
      BY <3>1, AppendProperties
    <3> QED
      BY <1>2, <3>2 DEF R
  <2>3. CASE ~Links(t.row)
    BY <1>1, <1>2, <2>1, <2>3
  <2> QED
    BY <2>2, <2>3
<1>5. disk' = disk /\ blobs' = blobs /\ log' = log
  BY <1>1 DEF clientVars
<1>6. Known' = Known
  BY <1>5 DEF Known, StreamOps, RangeOps, RowOps
<1>7. SnapsInv' /\ StreamInv'
  BY <1>4, <1>5, <1>6 DEF IInv, SnapsInv, StreamInv
<1>8. Grows
  BY <1>2, <1>4, <1>5, DeviceTypes DEF Grows
<1>9. SessSets' = SessSets
  <2>1. \A x \in Device : Landed(x)' = Landed(x)
    BY <1>5, <1>6 DEF Landed
  <2> QED
    BY <1>5, <1>6, <2>1, ConnForm DEF SessSets
<1>10. NoTask \in TaskIn(Known, Landed(c[1]), Len(log))
  BY DEF TaskIn
<1>11. SessFam(sess', SessSets', enrolled')
  BY <1>1, <1>2, <1>9, <1>10, TaskBecomes
<1>12. TableInv' /\ Queues(c2s', Conn, ClientSets)
  BY <1>1 DEF IInv, TableInv, WireInv, clientVars
<1> QED
  BY <1>1, <1>7, <1>8, <1>11, <1>12, GrowingServer

\* Every step of a session preserves the invariant.
LEMMA SessionStepInv ==
  ASSUME IInv, NEW c \in Conn, SessionStep(c)
  PROVE  IInv'
BY OpenInv, EndInv, PushUpdatesInv, FinishPushInv, PullInv, PullBatchInv, AckInv,
   PullSnapshotInv, PushSnapshotInv, InsertSnapshotInv, SendBroadcastInv
   DEF SessionStep

\* Compaction, the lease timeout, a new device and a restart of the server.
LEMMA ServerTasksInv ==
  ASSUME IInv, Compact \/ ExpireLease \/ (\E d \in Device : Enrol(d)) \/ Restart
  PROVE  IInv'
<1>0. /\ Queues(c2s, Conn, ClientSets) /\ Queues(s2c, Conn, ServerSets)
      /\ SessFam(sess, SessSets, enrolled)
  BY DEF IInv, WireInv, SessInv, SessFam
<1>1. CASE Compact
  <2>1. MaxOf(purged, PrevFloor) \in Nat
    BY PrevFloorType DEF MaxOf, IInv, TableInv
  <2>2. TableInv'
    BY <1>1, <2>1 DEF Compact, IInv, TableInv, clientVars
  <2> QED
    BY <1>0, <1>1, <2>2, ServerStep DEF Compact, wireVars
<1>2. CASE ExpireLease
  <2>1. lease' \in [id: Nat, expired: BOOLEAN]
    BY <1>2 DEF ExpireLease, IInv, TableInv
  <2>2. TableInv'
    BY <1>2, <2>1 DEF ExpireLease, IInv, TableInv, clientVars
  <2> QED
    BY <1>0, <1>2, <2>2, ServerStep DEF ExpireLease, wireVars
<1>3. CASE \E d \in Device : Enrol(d)
  <2>1. PICK d \in Device : Enrol(d)
    BY <1>3
  <2>2. TableInv'
    BY <2>1 DEF Enrol, IInv, TableInv, clientVars
  <2>3. SessFam(sess', SessSets, enrolled')
    BY <1>0, <2>1 DEF Enrol, wireVars, SessFam
  <2> QED
    BY <1>0, <2>1, <2>2, <2>3, ServerStep DEF Enrol, wireVars
<1>4. CASE Restart
  <2>1. IdleLease \in [id: Nat, expired: BOOLEAN] /\ NoLease + 1 \in Nat
    BY DEF IdleLease, NoLease
  <2>2. TableInv'
    BY <1>4, <2>1 DEF Restart, IInv, TableInv, clientVars
  <2>3. \A c \in Conn : NoSession \in SessSets[c] /\ ~NoSession.up
    BY NoSessionType DEF SessSets
  <2>4. SessFam(sess', SessSets, enrolled')
    BY <1>4, <2>3 DEF Restart, SessFam, Within
  <2>5. Queues(c2s', Conn, ClientSets)
    BY <1>4 DEF Restart, Queues
  <2> QED
    BY <1>0, <1>4, <2>2, <2>4, <2>5, ServerStep DEF Restart
<1> QED
  BY <1>1, <1>2, <1>3, <1>4

-----------------------------------------------------------------------------
(* The theorems *)

\* The invariant holds initially: nothing is claimed, stored or sent.
LEMMA InitInv == Init => IInv
<1> SUFFICES ASSUME Init PROVE IInv
  OBVIOUS
<1> USE DEF Init
<1>1. /\ \A d \in Device : blobs[d] = <<>> /\ Len(blobs[d]) = 0
      /\ log = <<>> /\ Len(log) = 0 /\ snaps = <<>> /\ Len(snaps) = 0
  OBVIOUS
<1>2. StreamInv
  <2>1. \A S : <<>> \in Seq(S)
    OBVIOUS
  <2>2. blobs \in [Device -> Seq([ops: Ops, to: Ops])] /\ log \in Seq([dev: Device, push: Nat])
    BY <2>1
  <2> QED
    BY <1>1, <2>2 DEF StreamInv
<1>3. SnapsInv
  BY DEF SnapsInv
<1>4. DeviceInv
  <2> DEFINE k == EmptyDisk
  <2>1. k \in DiskIn(Known, 0) /\ k.cursor = 0
    BY DEF EmptyDisk, DiskIn, Ops, NoPush
  <2>2. /\ Booted(k) \in EngineIn(Known, 0, 0) /\ Booted(k).durable = 0
    BY <2>1, BootedType
  <2> HIDE DEF k
  <2>3. dev = [d \in Device |-> Booted(k)] /\ disk = [d \in Device |-> k]
    BY DEF k
  <2>4. Within(dev, Device, EngineSets)
    BY <1>1, <2>1, <2>2, <2>3 DEF Within, EngineSets
  <2>5. Within(disk, Device, DiskSets)
    BY <1>1, <2>1, <2>3 DEF Within, DiskSets
  <2> QED
    BY <2>1, <2>2, <2>3, <2>4, <2>5 DEF DeviceInv
<1>5. WireInv
  BY DEF WireInv, Queues
<1>6. SessInv
  BY NoSessionType DEF SessInv, Within, SessSets
<1>7. LinkInv
  <2>1. \A d \in Device : MaxConn[d] \in Nat /\ dev[d].state = "Disconnected"
    BY BoundsAssumption DEF Booted
  <2> QED
    BY <2>1 DEF LinkInv
<1>8. TableInv
  <2>1. \A d \in Device : disk[d].cursor = 0
    BY DEF EmptyDisk
  <2>2. IdleLease \in [id: Nat, expired: BOOLEAN] /\ NoLease + 1 \in Nat
    BY DEF IdleLease, NoLease
  <2>3. deps \in [Op -> Ops]
    BY DEF Ops
  <2>4. frontier \in [Device -> Nat] /\ \A d \in Device : frontier[d] <= disk[d].cursor
    BY <2>1
  <2>5. lease \in [id: Nat, expired: BOOLEAN] /\ nextLease \in Nat
    BY <2>2
  <2>6. purged \in Nat /\ compactDue \in BOOLEAN /\ enrolled \subseteq Device
    BY BoundsAssumption
  <2> QED
    BY <2>3, <2>4, <2>5, <2>6 DEF TableInv
<1> QED
  BY <1>2, <1>3, <1>4, <1>5, <1>6, <1>7, <1>8 DEF IInv

\* The invariant is inductive.
LEMMA NextInv == IInv /\ [Next]_vars => IInv'
<1> SUFFICES ASSUME IInv, [Next]_vars PROVE IInv'
  OBVIOUS
<1>1. CASE UNCHANGED vars
  <2>1. /\ UNCHANGED clientVars /\ UNCHANGED <<log, snaps, enrolled, c2s, s2c, sess>>
        /\ UNCHANGED <<purged, frontier, compactDue, lease, nextLease>>
    BY <1>1 DEF vars, serverVars, wireVars
  <2>2. TableInv'
    BY <2>1, TablesUnchanged DEF IInv, TableInv
  <2> QED
    BY <2>1, <2>2, ServerStep DEF IInv, WireInv, SessInv, SessFam
<1>2. CASE \E d \in Device : EngineStep(d)
  BY <1>2, EngineStepInv
<1>3. CASE \E c \in Conn : SessionStep(c)
  BY <1>3, SessionStepInv
<1>4. CASE Compact \/ ExpireLease \/ (\E d \in Device : Enrol(d)) \/ Restart
  BY <1>4, ServerTasksInv
<1> QED
  BY <1>1, <1>2, <1>3, <1>4 DEF Next

\* The sets of the invariant are within the types.
LEMMA InvTypes == IInv => TypeOK
<1> SUFFICES ASSUME IInv PROVE TypeOK
  OBVIOUS
<1>1. Known \subseteq Op
  BY StreamFacts DEF IInv
<1>2. RowIn(Known) \subseteq SnapRow
  BY <1>1 DEF RowIn, SnapRow, Ops
<1>3. ASSUME NEW n \in Nat PROVE 0..n \subseteq Nat /\ 1..n \subseteq Nat
  OBVIOUS
<1>4. \A d \in Device : Landed(d) \subseteq Nat /\ Len(blobs[d]) \in Nat /\ disk[d].cursor \in Nat
  BY DeviceTypes DEF Landed
<1>5. Len(log) \in Nat /\ Len(snaps) \in Nat
  BY DEF IInv, StreamInv, SnapsInv
<1>6. ASSUME NEW a \in Nat PROVE AckIn(a) \subseteq AckFrame
  BY <1>3 DEF AckIn, AckFrame
<1>7. dev \in [Device -> EngineType]
  <2>1. ASSUME NEW d \in Device PROVE dev[d] \in EngineType
    <3>1. dev[d] \in EngineIn(Known, Len(blobs[d]), disk[d].cursor)
      BY DeviceTypes
    <3>2. Seq(AckIn(disk[d].cursor)) \subseteq Seq(AckFrame)
      BY <1>4, <1>6
    <3>3. 0..Len(blobs[d]) \subseteq Nat
      BY <1>4
    <3> QED
      BY <1>1, <3>1, <3>2, <3>3 DEF EngineIn, EngineType, Ops
  <2> QED
    BY <2>1 DEF IInv, DeviceInv, Within
<1>8. disk \in [Device -> DiskType]
  <2>1. ASSUME NEW d \in Device PROVE disk[d] \in DiskType
    <3>1. disk[d] \in DiskIn(Known, Len(blobs[d])) /\ 0..Len(blobs[d]) \subseteq Nat
      BY <1>4, DeviceTypes
    <3> QED
      BY <1>1, <3>1 DEF DiskIn, DiskType, Ops
  <2> QED
    BY <2>1 DEF IInv, DeviceInv, Within
<1>9. c2s \in [Conn -> Seq(ClientFrame)]
  <2>1. ASSUME NEW c \in Conn PROVE c2s[c] \in Seq(ClientFrame)
    <3>1. ClientSets[c] = ClientIn(Known, Len(blobs[c[1]]), disk[c[1]].cursor) /\ c[1] \in Device
      BY SessionFacts
    <3>2. 1..Len(blobs[c[1]]) \subseteq Nat /\ AckIn(disk[c[1]].cursor) \subseteq AckFrame
      BY <1>4, <1>6, <3>1
    <3>3. ClientSets[c] \subseteq ClientFrame
      BY <1>2, <3>1, <3>2 DEF ClientIn, ClientFrame
    <3>4. c2s[c] \in Seq(ClientSets[c])
      BY DEF IInv, WireInv, Queues
    <3> QED
      BY <3>3, <3>4
  <2> QED
    BY <2>1 DEF IInv, WireInv, Queues
<1>10. s2c \in [Conn -> Seq(ServerFrame)]
  <2>1. ASSUME NEW c \in Conn PROVE s2c[c] \in Seq(ServerFrame)
    <3>1. ServerSets[c] = ServerIn(Landed(c[1]), Len(log), Len(snaps)) /\ c[1] \in Device
      BY SessionFacts
    <3>2. /\ Landed(c[1]) \subseteq Nat /\ 0..Len(log) \subseteq Nat /\ 1..Len(log) \subseteq Nat
          /\ 0..Len(snaps) \subseteq Nat /\ 1..Len(snaps) \subseteq Nat
      BY <1>4, <1>5, <3>1
    <3>3. ServerSets[c] \subseteq ServerFrame
      BY <3>1, <3>2 DEF ServerIn, ServerFrame
    <3>4. s2c[c] \in Seq(ServerSets[c])
      BY DEF IInv, WireInv, Queues
    <3> QED
      BY <3>3, <3>4
  <2> QED
    BY <2>1 DEF IInv, WireInv, Queues
<1>11. sess \in [Conn -> SessionType]
  <2>1. ASSUME NEW c \in Conn PROVE sess[c] \in SessionType
    <3>1. sess[c] \in SessIn(Known, Landed(c[1]), Len(log)) /\ c[1] \in Device
      BY SessionFacts
    <3>2. Landed(c[1]) \subseteq Nat /\ 1..Len(log) \subseteq Nat
      BY <1>4, <1>5, <3>1
    <3>3. TaskIn(Known, Landed(c[1]), Len(log)) \subseteq Task
      BY <1>2, <3>2 DEF TaskIn, Task
    <3>4. Seq(1..Len(log)) \subseteq Seq(Nat)
      BY <3>2
    <3> QED
      BY <3>1, <3>3, <3>4 DEF SessIn, SessionType
  <2> QED
    BY <2>1 DEF IInv, SessInv, Within
<1>12. snaps \in Seq(SnapRow)
  BY <1>2 DEF IInv, SnapsInv
<1> QED
  BY <1>7, <1>8, <1>9, <1>10, <1>11, <1>12
     DEF TypeOK, IInv, StreamInv, LinkInv, TableInv

\* The inductive invariant holds in every state of every behaviour.
THEOREM Invariance == Spec => []IInv
BY InitInv, NextInv, PTL DEF Spec

\* Every variable keeps its type: no frame, row, task or record ever refers to
\* a payload, an update row or a snapshot row that does not exist.
THEOREM TypeCorrect == Spec => []TypeOK
BY Invariance, InvTypes, PTL

\* server_known_vv never runs ahead of the update stream, whatever is lost,
\* retried, crashed or restarted: try_start_push never skips an operation that
\* the server has not stored.
THEOREM KnownIsInStream == Spec => []KnownInStream
<1>1. IInv => KnownInStream
  <2> SUFFICES ASSUME IInv PROVE KnownInStream
    OBVIOUS
  <2>1. ASSUME NEW d \in Device PROVE dev[d].known \cup disk[d].known \subseteq Known
    BY DeviceTypes DEF EngineIn, DiskIn
  <2> QED
    BY <2>1 DEF KnownInStream, Known
<1> QED
  BY Invariance, <1>1, PTL

\* push_snapshot never stores an operation that no update row carried: a
\* producer's unsent commits stay out of every snapshot.
THEOREM SnapshotsAreInStream == Spec => []SnapshotsInStream
<1>1. IInv => SnapshotsInStream
  <2> SUFFICES ASSUME IInv, NEW i \in 1..Len(snaps) PROVE snaps[i].ops \subseteq Known
    BY DEF SnapshotsInStream, Known
  <2> QED
    BY SnapRowFacts DEF RowIn
<1> QED
  BY Invariance, <1>1, PTL

\* The frontier the server stores for a device, from which doc_horizon and so
\* compaction are computed, never exceeds the device's own durable cursor.
THEOREM FrontierIsBelowCursor == Spec => []FrontierBelowCursor
<1>1. IInv => FrontierBelowCursor
  BY DEF IInv, TableInv, FrontierBelowCursor
<1> QED
  BY Invariance, <1>1, PTL
=============================================================================
