--------------------------- MODULE ExchangeProofs ---------------------------
(***************************************************************************)
(* The request and reply protocol of a connection: an engine never meets a *)
(* reply it has no use for, and a push id has one row in the updates table.*)
(* The argument is ExchangeInv, on top of the invariant of                 *)
(* SyncSystemProofs.                                                       *)
(***************************************************************************)
EXTENDS SyncSystemProofs, ExchangeInvariant

-----------------------------------------------------------------------------
(* One exchange *)

\* No request is open: nothing on the way, in a handler or on the way back.
Settled(requests, t, replies) ==
  /\ \A i \in DOMAIN requests : ~IsRequest(requests[i])
  /\ ~Answering(t)
  /\ \A i \in DOMAIN replies : ~IsReply(replies[i])

\* What a sequence is after its head is taken or an element is appended.
LEMMA TailAt ==
  ASSUME NEW X, NEW s \in Seq(X), s # <<>>
  PROVE  /\ Tail(s) \in Seq(X)
         /\ Head(s) = s[1]
         /\ 1 \in DOMAIN s
         /\ \A i \in DOMAIN Tail(s) : i + 1 \in DOMAIN s /\ Tail(s)[i] = s[i + 1] /\ i \in Nat /\ i > 0
         /\ \A i \in DOMAIN s : i \in Nat
OBVIOUS

\* The elements of an appended sequence.
LEMMA AppendAt ==
  ASSUME NEW X, NEW s \in Seq(X), NEW f \in X
  PROVE  /\ Append(s, f) \in Seq(X)
         /\ DOMAIN Append(s, f) = DOMAIN s \cup {Len(s) + 1}
         /\ Append(s, f)[Len(s) + 1] = f
         /\ Len(s) + 1 \notin DOMAIN s
         /\ \A i \in DOMAIN s : Append(s, f)[i] = s[i] /\ i <= Len(s) /\ i \in Nat
         /\ Len(s) \in Nat
OBVIOUS

\* In a settled exchange an engine may be in any state.
LEMMA SettledAny ==
  ASSUME NEW requests, NEW t, NEW replies, Settled(requests, t, replies), NEW st, NEW n
  PROVE  Exchange(st, n, requests, t, replies)
BY DEF Settled, Exchange, WorksOn, Answering

\* Reading a frame leaves an exchange; reading its last reply settles it.
LEMMA ReplyRead ==
  ASSUME NEW X, NEW st, NEW n, NEW requests, NEW t, NEW replies \in Seq(X), replies # <<>>,
         Exchange(st, n, requests, t, replies)
  PROVE  /\ Exchange(st, n, requests, t, Tail(replies))
         /\ IsReply(Head(replies)) => AwaitedIn(st, n, Head(replies))
         /\ IsReply(Head(replies)) /\ IsFinal(Head(replies)) => Settled(requests, t, Tail(replies))
<1>1. WorksOn(st, n, t)
  BY DEF Exchange
<1>2. Exchange(st, n, requests, t, Tail(replies))
  <2>1. ASSUME NEW i \in DOMAIN requests, IsRequest(requests[i])
        PROVE  \A j \in DOMAIN Tail(replies) : ~IsReply(Tail(replies)[j])
    BY <2>1, TailAt DEF Exchange
  <2>2. ASSUME NEW i \in DOMAIN Tail(replies), IsReply(Tail(replies)[i])
        PROVE  AwaitedIn(st, n, Tail(replies)[i])
    BY <2>2, TailAt DEF Exchange
  <2>3. ASSUME NEW i \in DOMAIN Tail(replies), IsReply(Tail(replies)[i]), IsFinal(Tail(replies)[i]),
               NEW j \in DOMAIN Tail(replies), IsReply(Tail(replies)[j])
        PROVE  ~Answering(t) /\ j <= i
    <3>1. ~Answering(t) /\ j + 1 <= i + 1
      BY <2>3, TailAt DEF Exchange
    <3> QED
      BY <3>1, TailAt
  <2> QED
    BY <1>1, <2>1, <2>2, <2>3 DEF Exchange
<1>3. IsReply(Head(replies)) => AwaitedIn(st, n, Head(replies))
  BY TailAt DEF Exchange
<1>4. ASSUME IsReply(Head(replies)), IsFinal(Head(replies)) PROVE Settled(requests, t, Tail(replies))
  <2>1. 1 \in DOMAIN replies /\ IsReply(replies[1]) /\ IsFinal(replies[1])
    BY <1>4, TailAt
  <2>2. ~Answering(t) /\ \A i \in DOMAIN requests : ~IsRequest(requests[i])
    BY <2>1 DEF Exchange
  <2>3. ASSUME NEW j \in DOMAIN Tail(replies), IsReply(Tail(replies)[j]) PROVE FALSE
    <3>1. j + 1 <= 1
      BY <2>1, <2>3, TailAt DEF Exchange
    <3> QED
      BY <3>1, TailAt
  <2> QED
    BY <2>2, <2>3 DEF Settled
<1> QED
  BY <1>2, <1>3, <1>4

\* Taking a frame from the session's side; taking the request settles the
\* exchange but for the answer that is due.
LEMMA RequestRead ==
  ASSUME NEW X, NEW st, NEW n, NEW requests \in Seq(X), requests # <<>>, NEW t, NEW replies,
         Exchange(st, n, requests, t, replies)
  PROVE  /\ Exchange(st, n, Tail(requests), t, replies)
         /\ IsRequest(Head(requests)) => /\ AskedIn(st, n, Head(requests))
                                         /\ Settled(Tail(requests), t, replies)
<1>1. ASSUME NEW i \in DOMAIN Tail(requests), IsRequest(Tail(requests)[i])
      PROVE  /\ AskedIn(st, n, Tail(requests)[i])
             /\ ~Answering(t)
             /\ \A j \in DOMAIN Tail(requests) : IsRequest(Tail(requests)[j]) => i = j
             /\ \A j \in DOMAIN replies : ~IsReply(replies[j])
  <2>1. i + 1 \in DOMAIN requests /\ IsRequest(requests[i + 1]) /\ Tail(requests)[i] = requests[i + 1]
    BY <1>1, TailAt
  <2>2. AskedIn(st, n, requests[i + 1]) /\ ~Answering(t) /\ \A j \in DOMAIN replies : ~IsReply(replies[j])
    BY <2>1 DEF Exchange
  <2>3. ASSUME NEW j \in DOMAIN Tail(requests), IsRequest(Tail(requests)[j]) PROVE i = j
    <3>1. i + 1 = j + 1
      BY <2>1, <2>3, TailAt DEF Exchange
    <3> QED
      BY <3>1, TailAt
  <2> QED
    BY <2>1, <2>2, <2>3
<1>2. ASSUME IsRequest(Head(requests))
      PROVE  AskedIn(st, n, Head(requests)) /\ Settled(Tail(requests), t, replies)
  <2>1. 1 \in DOMAIN requests /\ IsRequest(requests[1]) /\ Head(requests) = requests[1]
    BY <1>2, TailAt
  <2>2. AskedIn(st, n, requests[1]) /\ ~Answering(t) /\ \A j \in DOMAIN replies : ~IsReply(replies[j])
    BY <2>1 DEF Exchange
  <2>3. ASSUME NEW j \in DOMAIN Tail(requests), IsRequest(Tail(requests)[j]) PROVE FALSE
    <3>1. 1 = j + 1
      BY <2>1, <2>3, TailAt DEF Exchange
    <3> QED
      BY <3>1, TailAt
  <2> QED
    BY <2>1, <2>2, <2>3 DEF Settled
<1> QED
  BY <1>1, <1>2 DEF Exchange

\* A frame that is no request crosses an exchange; a request opens one.
LEMMA RequestSent ==
  ASSUME NEW X, NEW st, NEW n, NEW requests \in Seq(X), NEW t, NEW replies, NEW f \in X,
         Exchange(st, n, requests, t, replies),
         ~IsRequest(f) \/ (Settled(requests, t, replies) /\ AskedIn(st, n, f))
  PROVE  Exchange(st, n, Append(requests, f), t, replies)
<1> DEFINE m == Len(requests) + 1  s == Append(requests, f)
<1>1. /\ DOMAIN s = DOMAIN requests \cup {m} /\ s[m] = f
      /\ \A i \in DOMAIN requests : s[i] = requests[i]
  BY AppendAt
<1> HIDE DEF s, m
<1>2. CASE ~IsRequest(f)
  BY <1>1, <1>2 DEF Exchange
<1>3. CASE Settled(requests, t, replies) /\ AskedIn(st, n, f)
  BY <1>1, <1>3 DEF Exchange, Settled
<1> QED
  BY <1>2, <1>3 DEF s

\* A frame that is no reply crosses an exchange; the reply to a request read
\* by the session, or to one whose handler ends with it, or one of several of
\* its handler, keeps it.
LEMMA ReplySent ==
  ASSUME NEW X, NEW st, NEW n, NEW requests, NEW t, NEW u, NEW replies \in Seq(X), NEW f \in X,
         Exchange(st, n, requests, t, replies),
         \/ ~IsReply(f) /\ u = t
         \/ /\ AwaitedIn(st, n, f) /\ u = t
            /\ Settled(requests, t, replies)
         \/ /\ AwaitedIn(st, n, f) /\ Answering(t)
            /\ Answering(u) => ~IsFinal(f) /\ WorksOn(st, n, u)
  PROVE  Exchange(st, n, requests, u, Append(replies, f))
<1> DEFINE m == Len(replies) + 1  s == Append(replies, f)
<1>1. /\ DOMAIN s = DOMAIN replies \cup {m} /\ s[m] = f
      /\ \A i \in DOMAIN replies : s[i] = replies[i] /\ i <= m /\ i \in Nat
      /\ m \in Nat
  BY AppendAt
<1> HIDE DEF s, m
<1>2. CASE ~IsReply(f) /\ u = t
  BY <1>1, <1>2 DEF Exchange
<1>3. CASE AwaitedIn(st, n, f) /\ u = t /\ Settled(requests, t, replies)
  BY <1>1, <1>3 DEF Exchange, Settled
<1>4. CASE /\ AwaitedIn(st, n, f) /\ Answering(t)
           /\ Answering(u) => ~IsFinal(f) /\ WorksOn(st, n, u)
  <2>1. WorksOn(st, n, u)
    BY <1>4 DEF WorksOn, Answering
  <2>2. \A i \in DOMAIN requests : ~IsRequest(requests[i])
    BY <1>4 DEF Exchange
  <2>3. \A i \in DOMAIN replies : IsReply(replies[i]) => AwaitedIn(st, n, replies[i]) /\ ~IsFinal(replies[i])
    BY <1>4 DEF Exchange
  <2>4. \A i \in DOMAIN s : IsReply(s[i]) => AwaitedIn(st, n, s[i])
    BY <1>1, <1>4, <2>3
  <2>5. \A i \in DOMAIN s : IsReply(s[i]) /\ IsFinal(s[i]) => i = m /\ ~Answering(u)
    BY <1>1, <1>4, <2>3
  <2>6. \A j \in DOMAIN s : j <= m
    BY <1>1
  <2>7. \A i \in DOMAIN s : IsReply(s[i]) /\ IsFinal(s[i]) =>
          ~Answering(u) /\ \A j \in DOMAIN s : IsReply(s[j]) => j <= i
    BY <2>5, <2>6
  <2> QED
    BY <2>1, <2>2, <2>4, <2>7, Zenon DEF Exchange, s
<1> QED
  BY <1>2, <1>3, <1>4 DEF s

\* A session that ends takes its handler and the unread requests with it.
LEMMA SessionGone ==
  ASSUME NEW st, NEW n, NEW requests, NEW t, NEW replies, Exchange(st, n, requests, t, replies)
  PROVE  Exchange(st, n, <<>>, NoTask, replies)
BY DEF Exchange, WorksOn, Answering, NoTask

-----------------------------------------------------------------------------
(* One connection at a time *)

\* What the types say of a connection, its queues and its device.
LEMMA WireTypes ==
  ASSUME IInv, NEW c \in Conn
  PROVE  /\ c[1] \in Device /\ c[2] \in Nat /\ c[2] > 0 /\ c = <<c[1], c[2]>>
         /\ c2s[c] \in Seq(ClientFrame) /\ s2c[c] \in Seq(ServerFrame)
         /\ dialed[c[1]] \in Nat /\ link[c[1]] \in Nat /\ link[c[1]] <= dialed[c[1]]
         /\ dev[c[1]] \in EngineType
         /\ sess[c] \in SessionType
<1>1. TypeOK
  BY InvTypes
<1>2. PICK d \in Device : c \in {d} \X (1..MaxConn[d])
  BY DEF Conn
<1>3. MaxConn[d] \in Nat
  BY BoundsAssumption
<1>4. c[1] = d /\ c[2] \in 1..MaxConn[d] /\ c = <<c[1], c[2]>>
  BY <1>2
<1>5. c[2] \in Nat /\ c[2] > 0
  BY <1>3, <1>4
<1> QED
  BY <1>1, <1>4, <1>5 DEF TypeOK

\* A step of the engine of d, on the connection it has.
EngineOnly(d) ==
  /\ sess' = sess /\ link' = link /\ dialed' = dialed
  /\ \A x \in Device \ {d} : dev'[x] = dev[x]
  /\ \A c \in Conn : c # MyConn(d) => c2s'[c] = c2s[c] /\ s2c'[c] = s2c[c]

\* Such a step keeps ExchangeInv when it keeps the exchange on that connection.
LEMMA EngineAt ==
  ASSUME IInv, ExchangeInv, NEW d \in Device, EngineOnly(d),
         link[d] # 0 =>
           Exchange(dev'[d].state, dev'[d].inFlight, c2s'[MyConn(d)], sess[MyConn(d)].task,
                    s2c'[MyConn(d)])
  PROVE  ExchangeInv'
<1> SUFFICES ASSUME NEW c \in Conn PROVE ConnOK(c)'
  BY DEF ExchangeInv
<1>1. ConnOK(c)
  BY DEF ExchangeInv
<1>2. Live(c)' <=> Live(c)
  BY DEF Live, EngineOnly
<1>3. CASE c = MyConn(d)
  <2>1. c[1] = d /\ c[2] = link[d] /\ Live(c) /\ link[d] # 0
    BY <1>3, WireTypes DEF MyConn, Live
  <2>2. ~(c[2] > dialed[c[1]])
    BY <2>1, WireTypes
  <2> QED
    BY <1>2, <1>3, <2>1, <2>2 DEF ConnOK, EngineOnly
<1>4. CASE c # MyConn(d) /\ c[1] = d
  <2>1. ~Live(c)
    BY <1>4, WireTypes DEF MyConn, Live
  <2> QED
    BY <1>1, <1>2, <1>4, <2>1 DEF ConnOK, EngineOnly
<1>5. CASE c # MyConn(d) /\ c[1] # d
  <2>1. dev'[c[1]] = dev[c[1]]
    BY <1>5, WireTypes DEF EngineOnly
  <2> QED
    BY <1>1, <1>2, <1>5, <2>1 DEF ConnOK, EngineOnly
<1> QED
  BY <1>3, <1>4, <1>5

\* A step of the session of c: what other sessions are given is a broadcast.
SessionOnly(c) ==
  /\ dev' = dev /\ link' = link /\ dialed' = dialed
  /\ \A x \in Conn : x # c =>
       /\ c2s'[x] = c2s[x] /\ s2c'[x] = s2c[x] /\ sess'[x].task = sess[x].task
       /\ sess[x] = NoSession => sess'[x] = NoSession

\* Such a step keeps ExchangeInv when it keeps the exchange of c.
LEMMA SessionAt ==
  ASSUME IInv, ExchangeInv, NEW c \in Conn, sess[c].up, SessionOnly(c),
         ~Live(c) => s2c'[c] = s2c[c],
         Live(c) => Exchange(dev[c[1]].state, dev[c[1]].inFlight, c2s'[c], sess'[c].task, s2c'[c])
  PROVE  ExchangeInv'
<1> SUFFICES ASSUME NEW x \in Conn PROVE ConnOK(x)'
  BY DEF ExchangeInv
<1>1. ConnOK(x)
  BY DEF ExchangeInv
<1>2. Live(x)' <=> Live(x)
  BY DEF Live, SessionOnly
<1>3. CASE x = c
  <2>1. ~(c[2] > dialed[c[1]])
    BY <1>1, <1>3 DEF ConnOK, NoSession
  <2> QED
    BY <1>1, <1>2, <1>3, <2>1 DEF ConnOK, SessionOnly
<1>4. CASE x # c
  BY <1>1, <1>2, <1>4 DEF ConnOK, SessionOnly
<1> QED
  BY <1>3, <1>4

\* The exchange of a device that has a connection, and that of a session.
LEMMA Current ==
  ASSUME IInv, ExchangeInv, NEW d \in Device, link[d] # 0
  PROVE  /\ MyConn(d) \in Conn
         /\ Exchange(dev[d].state, dev[d].inFlight, c2s[MyConn(d)], sess[MyConn(d)].task,
                     s2c[MyConn(d)])
<1>1. MyConn(d) \in Conn /\ MyConn(d)[1] = d /\ Live(MyConn(d))
  BY MyConnType DEF IInv, Live, MyConn
<1> QED
  BY <1>1 DEF ExchangeInv, ConnOK

\* A frame to the server that is no request, and one that opens an exchange.
LEMMA Sends ==
  ASSUME IInv, NEW d \in Device, MyConn(d) \in Conn, NEW st, NEW n, NEW f \in ClientFrame,
         NEW replies, ToServer(d, f),
         Exchange(st, n, c2s[MyConn(d)], sess[MyConn(d)].task, replies),
         ~IsRequest(f) \/ (Settled(c2s[MyConn(d)], sess[MyConn(d)].task, replies) /\ AskedIn(st, n, f))
  PROVE  /\ Exchange(st, n, c2s'[MyConn(d)], sess[MyConn(d)].task, replies)
         /\ \A c \in Conn : c # MyConn(d) => c2s'[c] = c2s[c]
<1> DEFINE my == MyConn(d)
<1>1. c2s[my] \in Seq(ClientFrame)
  BY WireTypes
<1>2. c2s = [c \in Conn |-> c2s[c]]
  BY DEF IInv, WireInv, Queues
<1>3. CASE sess[my].up
  <2>1. c2s'[my] = Append(c2s[my], f)
    BY <1>2, <1>3 DEF ToServer
  <2>2. \A c \in Conn : c # my => c2s'[c] = c2s[c]
    BY <1>2, <1>3 DEF ToServer
  <2>3. Exchange(st, n, Append(c2s[my], f), sess[my].task, replies)
    BY <1>1, RequestSent
  <2> QED
    BY <2>1, <2>2, <2>3
<1>4. CASE ~sess[my].up
  BY <1>4 DEF ToServer
<1> QED
  BY <1>3, <1>4

\* The engine takes the frame at the head of its connection.
LEMMA Takes ==
  ASSUME IInv, ExchangeInv, NEW d \in Device, NEW type, Receives(d, type), Consume(d)
  PROVE  /\ link[d] # 0 /\ MyConn(d) \in Conn
         /\ Head(Inbox(d)).type = type
         /\ \A c \in Conn : c # MyConn(d) => s2c'[c] = s2c[c]
         /\ Exchange(dev[d].state, dev[d].inFlight, c2s[MyConn(d)], sess[MyConn(d)].task,
                     s2c'[MyConn(d)])
         /\ IsReply(Head(Inbox(d))) /\ IsFinal(Head(Inbox(d))) =>
              Settled(c2s[MyConn(d)], sess[MyConn(d)].task, s2c'[MyConn(d)])
<1>1. link[d] # 0 /\ Inbox(d) # <<>> /\ Head(Inbox(d)).type = type /\ Inbox(d) = s2c[MyConn(d)]
  BY DEF Receives, Inbox
<1>2. /\ MyConn(d) \in Conn
      /\ Exchange(dev[d].state, dev[d].inFlight, c2s[MyConn(d)], sess[MyConn(d)].task, s2c[MyConn(d)])
  BY <1>1, Current
<1>3. s2c = [c \in Conn |-> s2c[c]] /\ s2c[MyConn(d)] \in Seq(ServerFrame)
  BY <1>2, WireTypes DEF IInv, WireInv, Queues
<1>4. s2c'[MyConn(d)] = Tail(s2c[MyConn(d)]) /\ \A c \in Conn : c # MyConn(d) => s2c'[c] = s2c[c]
  BY <1>2, <1>3 DEF Consume
<1> QED
  BY <1>1, <1>2, <1>3, <1>4, ReplyRead

-----------------------------------------------------------------------------
(* Steps of an engine *)

\* A step that changes the document or the disk of a device.
LEMMA SameState ==
  ASSUME IInv, ExchangeInv, NEW d \in Device, EngineOnly(d),
         dev'[d].state = dev[d].state, dev'[d].inFlight = dev[d].inFlight,
         c2s' = c2s, s2c' = s2c
  PROVE  ExchangeInv'
<1>1. link[d] # 0 =>
        Exchange(dev'[d].state, dev'[d].inFlight, c2s'[MyConn(d)], sess[MyConn(d)].task,
                 s2c'[MyConn(d)])
  BY Current
<1> QED
  BY <1>1, EngineAt

\* The fields an engine's step may rely on.
LEMMA EngineFields ==
  ASSUME IInv, NEW d \in Device
  PROVE  /\ dev = [x \in Device |-> dev[x]]
         /\ DOMAIN dev[d] = DOMAIN Booted(EmptyDisk)
         /\ dev[d].inFlight \in Nat
         /\ dev[d].contig \in Nat
<1>1. dev \in [Device -> EngineType]
  BY InvTypes DEF TypeOK
<1> QED
  BY <1>1 DEF EngineType, Booted

\* Commit, capture and fold.
LEMMA CommitExchange ==
  ASSUME IInv, ExchangeInv, NEW d \in Device, Commit(d) \/ CaptureLocalOps(d) \/ FoldWal(d)
  PROVE  ExchangeInv'
<1>1. PICK e : /\ dev' = [dev EXCEPT ![d] = e]
               /\ e.state = dev[d].state /\ e.inFlight = dev[d].inFlight
  <2>1. CASE Commit(d)
    <3>1. PICK c \in 1..MaxOps[d] : dev' = [dev EXCEPT ![d].imported = @ \cup {<<d, c>>}]
      BY <2>1 DEF Commit
    <3> DEFINE e == [dev[d] EXCEPT !.imported = @ \cup {<<d, c>>}]
    <3>2. dev' = [dev EXCEPT ![d] = e] /\ e.state = dev[d].state /\ e.inFlight = dev[d].inFlight
      BY <3>1, EngineFields DEF Booted
    <3> QED
      BY <3>2
  <2>2. CASE CaptureLocalOps(d) \/ FoldWal(d)
    <3>1. dev' = [dev EXCEPT ![d] = CapturedDev(dev[d])]
      BY <2>2, EngineFields DEF CaptureLocalOps, FoldWal
    <3>2. CapturedDev(dev[d]).state = dev[d].state /\ CapturedDev(dev[d]).inFlight = dev[d].inFlight
      BY EngineFields DEF CapturedDev, Booted
    <3> QED
      BY <3>1, <3>2
  <2> QED
    BY <2>1, <2>2
<1>2. /\ c2s' = c2s /\ s2c' = s2c /\ sess' = sess /\ link' = link /\ dialed' = dialed
  BY DEF Commit, CaptureLocalOps, FoldWal, wireVars
<1>3. EngineOnly(d) /\ dev'[d] = e
  BY <1>1, <1>2, EngineFields DEF EngineOnly
<1> QED
  BY <1>1, <1>2, <1>3, SameState

\* notify_oplog_durable sends at most an Ack.
LEMMA NotifyExchange ==
  ASSUME IInv, ExchangeInv, NEW d \in Device, NotifyOplogDurable(d)
  PROVE  ExchangeInv'
<1>1. PICK seq \in dev[d].durable + 1 .. dev[d].contig :
        /\ dev' = [dev EXCEPT ![d].durable = seq, ![d].sentAck = MaxOf(@, seq),
                              ![d].outbox = IF seq > dev[d].sentAck /\ link[d] = 0
                                            THEN Append(@, [type |-> "Ack", seq |-> seq]) ELSE @]
        /\ IF seq > dev[d].sentAck /\ link[d] # 0
           THEN ToServer(d, [type |-> "Ack", seq |-> seq]) ELSE UNCHANGED c2s
        /\ UNCHANGED <<dialed, link, s2c, sess>>
  BY DEF NotifyOplogDurable
<1>2. seq \in Nat
  <2>1. dev[d].durable \in Nat
    BY DeviceTypes DEF EngineIn
  <2> QED
    BY <2>1, EngineFields
<1> DEFINE e == [dev[d] EXCEPT !.durable = seq, !.sentAck = MaxOf(@, seq),
                               !.outbox = IF seq > dev[d].sentAck /\ link[d] = 0
                                          THEN Append(@, [type |-> "Ack", seq |-> seq]) ELSE @]
           f == [type |-> "Ack", seq |-> seq]
<1>3. dev' = [dev EXCEPT ![d] = e] /\ e.state = dev[d].state /\ e.inFlight = dev[d].inFlight
  BY <1>1, EngineFields DEF Booted
<1> HIDE DEF e
<1>4. f \in ClientFrame /\ ~IsRequest(f)
  BY <1>2 DEF ClientFrame, AckFrame, IsRequest
<1> HIDE DEF f
<1>5. CASE c2s' = c2s
  <2>1. EngineOnly(d) /\ dev'[d] = e
    BY <1>1, <1>3, <1>5, EngineFields DEF EngineOnly
  <2> QED
    BY <1>1, <1>3, <1>5, <2>1, SameState
<1>6. CASE link[d] # 0 /\ ToServer(d, f)
  <2>1. /\ Exchange(dev[d].state, dev[d].inFlight, c2s'[MyConn(d)], sess[MyConn(d)].task,
                    s2c[MyConn(d)])
        /\ \A c \in Conn : c # MyConn(d) => c2s'[c] = c2s[c]
    BY <1>4, <1>6, Current, Sends
  <2>2. EngineOnly(d) /\ dev'[d] = e
    BY <1>1, <1>3, <2>1, EngineFields DEF EngineOnly
  <2> QED
    BY <1>1, <1>3, <2>1, <2>2, EngineAt
<1> QED
  BY <1>1, <1>5, <1>6 DEF f

\* A new connection: OpenDoc behind the Acks of the outbox.
LEMMA ConnectExchange ==
  ASSUME IInv, ExchangeInv, NEW d \in Device, Connect(d)
  PROVE  ExchangeInv'
<1> DEFINE f == [type |-> "OpenDoc"]
<1>0. PICK k : k = <<d, dialed[d] + 1>>
  OBVIOUS
<1>1. /\ link[d] = 0 /\ dialed[d] < MaxConn[d]
      /\ dialed' = [dialed EXCEPT ![d] = @ + 1]
      /\ link' = [link EXCEPT ![d] = dialed[d] + 1]
      /\ dev' = [dev EXCEPT ![d].state = "Opening", ![d].outbox = <<>>]
      /\ sess' = [sess EXCEPT ![k].up = TRUE]
      /\ c2s' = [c2s EXCEPT ![k] = Append(dev[d].outbox, f)]
      /\ s2c' = s2c
  BY <1>0 DEF Connect
<1>2. /\ dialed \in [Device -> Nat] /\ link \in [Device -> Nat] /\ MaxConn[d] \in Nat
      /\ c2s = [c \in Conn |-> c2s[c]] /\ sess = [c \in Conn |-> sess[c]]
  BY BoundsAssumption DEF IInv, LinkInv, WireInv, SessInv, Queues, Within
<1>3. k \in Conn
  <2>1. dialed[d] + 1 \in 1..MaxConn[d]
    BY <1>1, <1>2
  <2> QED
    BY <1>0, <2>1, ConnForm
<1>4. /\ dev'[d].state = "Opening" /\ \A x \in Device \ {d} : dev'[x] = dev[x]
  BY <1>1, EngineFields DEF Booted
<1>5. dev[d].outbox \in Seq(AckFrame)
  BY InvTypes DEF TypeOK, EngineType
<1> SUFFICES ASSUME NEW c \in Conn PROVE ConnOK(c)'
  BY DEF ExchangeInv
<1>6. ConnOK(c) /\ c[1] \in Device /\ c[2] \in Nat /\ c = <<c[1], c[2]>> /\ c[2] > 0
  BY WireTypes DEF ExchangeInv
<1>7. CASE c = k
  <2>1. ConnOK(k) /\ k[1] = d /\ k[2] = dialed[d] + 1
    BY <1>0, <1>3 DEF ExchangeInv
  <2>2. ~Live(k)
    BY <1>1, <1>2, <2>1 DEF Live
  <2>3. sess[k] = NoSession /\ s2c[k] = <<>>
    BY <1>2, <2>1, <2>2 DEF ConnOK
  <2>4. sess'[k].task = NoTask
    <3>1. sess'[k] = [NoSession EXCEPT !.up = TRUE]
      BY <1>1, <1>2, <1>3, <2>3
    <3> QED
      BY <3>1 DEF NoSession
  <2>5. ~IsRequest(f) \/ AskedIn("Opening", dev'[d].inFlight, f)
    BY DEF AskedIn
  <2> HIDE DEF f
  <2>6. DOMAIN s2c[k] = {}
    BY <2>3
  <2>7. \A i \in DOMAIN dev[d].outbox : ~IsRequest(dev[d].outbox[i])
    <3>1. \A g \in AckFrame : ~IsRequest(g)
      BY DEF AckFrame, IsRequest
    <3> QED
      BY <1>5, <3>1
  <2>8. Settled(dev[d].outbox, NoTask, s2c[k])
    BY <2>6, <2>7 DEF Settled, Answering, NoTask
  <2>9. Exchange("Opening", dev'[d].inFlight, dev[d].outbox, NoTask, s2c[k])
    BY <2>8, SettledAny
  <2>10. f \in ClientFrame /\ dev[d].outbox \in Seq(ClientFrame)
    BY <1>5 DEF f, ClientFrame
  <2>11. Exchange("Opening", dev'[d].inFlight, Append(dev[d].outbox, f), NoTask, s2c[k])
    BY <2>5, <2>8, <2>9, <2>10, RequestSent
  <2>12. c2s'[k] = Append(dev[d].outbox, f)
    BY <1>1, <1>2, <1>3
  <2>13. ~(k[2] > dialed'[d]) /\ Live(k)'
    BY <1>1, <1>2, <2>1 DEF Live
  <2> QED
    BY <1>1, <1>4, <1>7, <2>1, <2>4, <2>11, <2>12, <2>13 DEF ConnOK
<1>8. CASE c # k /\ c[1] = d
  <2>1. c[2] # dialed[d] + 1 /\ ~Live(c) /\ ~Live(c)'
    BY <1>0, <1>1, <1>2, <1>6, <1>8 DEF Live
  <2>2. c[2] > dialed'[d] => c[2] > dialed[d]
    BY <1>1, <1>2, <1>6
  <2> QED
    BY <1>1, <1>2, <1>6, <1>8, <2>1, <2>2 DEF ConnOK
<1>9. CASE c # k /\ c[1] # d
  BY <1>1, <1>2, <1>4, <1>6, <1>9 DEF ConnOK, Live
<1> QED
  BY <1>7, <1>8, <1>9

\* The device leaves its connection, by a disconnect or a crash: what was on
\* the way to it is lost.
LEMMA LeaveExchange ==
  ASSUME IInv, ExchangeInv, NEW d \in Device,
         link' = [link EXCEPT ![d] = 0], dialed' = dialed, sess' = sess, c2s' = c2s,
         s2c' = IF link[d] = 0 THEN s2c ELSE [s2c EXCEPT ![MyConn(d)] = <<>>],
         \A x \in Device \ {d} : dev'[x] = dev[x]
  PROVE  ExchangeInv'
<1>1. link \in [Device -> Nat] /\ s2c = [c \in Conn |-> s2c[c]]
  BY DEF IInv, LinkInv, WireInv, Queues
<1> SUFFICES ASSUME NEW c \in Conn PROVE ConnOK(c)'
  BY DEF ExchangeInv
<1>2. ConnOK(c) /\ c[1] \in Device /\ c[2] \in Nat /\ c = <<c[1], c[2]>> /\ c[2] > 0
  BY WireTypes DEF ExchangeInv
<1>3. CASE c[1] = d
  <2>1. ~Live(c)'
    BY <1>1, <1>2, <1>3 DEF Live
  <2>2. CASE Live(c)
    <3>1. c = MyConn(d) /\ link[d] # 0
      BY <1>2, <1>3, <2>2 DEF Live, MyConn
    <3>2. s2c'[c] = <<>>
      BY <1>1, <3>1
    <3> QED
      BY <1>2, <2>1, <3>2 DEF ConnOK
  <2>3. CASE ~Live(c)
    <3>1. s2c'[c] = s2c[c]
      BY <1>1, <1>2, <1>3, <2>3 DEF Live, MyConn
    <3> QED
      BY <1>2, <2>1, <2>3, <3>1 DEF ConnOK
  <2> QED
    BY <2>2, <2>3
<1>4. CASE c[1] # d
  <2>1. s2c'[c] = s2c[c] /\ (Live(c)' <=> Live(c))
    BY <1>1, <1>2, <1>4 DEF Live, MyConn
  <2> QED
    BY <1>2, <1>4, <2>1 DEF ConnOK
<1> QED
  BY <1>3, <1>4

\* Disconnect and the three crashes.
LEMMA LeavingExchange ==
  ASSUME IInv, ExchangeInv, NEW d \in Device,
         \/ Disconnect(d)
         \/ Crash(d) \/ CrashMidBatch(d) \/ CrashMidCheckpoint(d)
  PROVE  ExchangeInv'
<1>1. /\ link' = [link EXCEPT ![d] = 0] /\ dialed' = dialed /\ sess' = sess /\ c2s' = c2s
      /\ s2c' = IF link[d] = 0 THEN s2c ELSE [s2c EXCEPT ![MyConn(d)] = <<>>]
      /\ \E e : dev' = [dev EXCEPT ![d] = e]
  <2>1. CASE Disconnect(d)
    <3>1. dev' = [dev EXCEPT ![d] = [dev[d] EXCEPT !.state = "Disconnected"]]
      BY <2>1, EngineFields DEF Disconnect
    <3> QED
      BY <2>1, <3>1 DEF Disconnect
  <2>2. CASE \E k : RebootFrom(d, k)
    BY <2>2 DEF RebootFrom
  <2> QED
    BY <2>1, <2>2 DEF Crash, CrashMidBatch, CrashMidCheckpoint
<1>2. \A x \in Device \ {d} : dev'[x] = dev[x]
  BY <1>1, EngineFields
<1> QED
  BY <1>1, <1>2, LeaveExchange

\* try_start_push, from a settled exchange: a push is sent and waited for, or
\* there is nothing to send.
LEMMA PushExchange ==
  ASSUME IInv, ExchangeInv, NEW d \in Device, NEW e, NEW k, link[d] # 0,
         DOMAIN e = DOMAIN Booted(EmptyDisk), e.inFlight \in Nat,
         TryStartPush(d, e, k),
         sess' = sess, link' = link, dialed' = dialed,
         \A c \in Conn : c # MyConn(d) => s2c'[c] = s2c[c],
         Settled(c2s[MyConn(d)], sess[MyConn(d)].task, s2c'[MyConn(d)])
  PROVE  ExchangeInv'
<1>0. MyConn(d) \in Conn /\ Len(blobs[d]) + 1 \in Nat
  BY Current, DeviceTypes
<1>1. ASSUME NEW g, NEW n \in Nat, dev' = [dev EXCEPT ![d] = g], g.state = "Pushing", g.inFlight = n,
             ToServer(d, [type |-> "PushUpdates", push |-> n])
      PROVE  ExchangeInv'
  <2> DEFINE f == [type |-> "PushUpdates", push |-> n]
  <2>1. f \in ClientFrame /\ AskedIn("Pushing", n, f)
    BY DEF ClientFrame, AskedIn
  <2>2. ToServer(d, f)
    BY <1>1
  <2> HIDE DEF f
  <2>3. PICK replies : replies = s2c'[MyConn(d)]
    OBVIOUS
  <2>4. /\ Exchange("Pushing", n, c2s'[MyConn(d)], sess[MyConn(d)].task, replies)
        /\ \A c \in Conn : c # MyConn(d) => c2s'[c] = c2s[c]
    <3>1. Settled(c2s[MyConn(d)], sess[MyConn(d)].task, replies)
      BY <2>3
    <3>2. Exchange("Pushing", n, c2s[MyConn(d)], sess[MyConn(d)].task, replies)
      BY <3>1, SettledAny
    <3> QED
      BY <1>0, <2>1, <2>2, <3>1, <3>2, Sends
  <2>5. dev'[d] = g /\ \A x \in Device \ {d} : dev'[x] = dev[x]
    BY <1>1, EngineFields
  <2>6. EngineOnly(d)
    BY <2>4, <2>5 DEF EngineOnly
  <2> QED
    BY <1>1, <2>3, <2>4, <2>5, <2>6, EngineAt
<1>2. ASSUME NEW g, dev' = [dev EXCEPT ![d] = g], c2s' = c2s PROVE ExchangeInv'
  <2>1. dev'[d] = g /\ \A x \in Device \ {d} : dev'[x] = dev[x]
    BY <1>2, EngineFields
  <2>2. EngineOnly(d)
    BY <1>2, <2>1 DEF EngineOnly
  <2>3. Exchange(g.state, g.inFlight, c2s[MyConn(d)], sess[MyConn(d)].task, s2c'[MyConn(d)])
    BY SettledAny
  <2> QED
    BY <1>2, <2>1, <2>2, <2>3, EngineAt
<1>3. CASE e.inFlight # NoPush
  <2> DEFINE g == [e EXCEPT !.state = "Pushing"]
  <2>1. dev' = [dev EXCEPT ![d] = g] /\ ToServer(d, [type |-> "PushUpdates", push |-> e.inFlight])
    BY <1>3 DEF TryStartPush
  <2>2. g.state = "Pushing" /\ g.inFlight = e.inFlight
    BY DEF Booted
  <2> HIDE DEF g
  <2> QED
    BY <1>1, <2>1, <2>2
<1>4. CASE e.inFlight = NoPush /\ DocOf(e) \subseteq e.known
  BY <1>2, <1>4 DEF TryStartPush
<1>5. CASE e.inFlight = NoPush /\ ~(DocOf(e) \subseteq e.known)
  <2> DEFINE n == Len(blobs[d]) + 1
             g == [CapturedDev(e) EXCEPT !.inFlight = n, !.state = "Pushing"]
  <2>1. dev' = [dev EXCEPT ![d] = g] /\ ToServer(d, [type |-> "PushUpdates", push |-> n])
    BY <1>5 DEF TryStartPush
  <2>2. DOMAIN CapturedDev(e) = DOMAIN e
    BY DEF CapturedDev
  <2>3. g.state = "Pushing" /\ g.inFlight = n
    BY <2>2 DEF Booted
  <2> HIDE DEF g
  <2> QED
    BY <1>0, <1>1, <2>1, <2>3
<1> QED
  BY <1>3, <1>4, <1>5

\* flush starts a push when the engine waits for nothing.
LEMMA FlushExchange ==
  ASSUME IInv, ExchangeInv, NEW d \in Device, Flush(d)
  PROVE  ExchangeInv'
<1>1. /\ dev[d].state = "Idle" /\ TryStartPush(d, dev[d], disk[d])
      /\ s2c' = s2c /\ sess' = sess /\ link' = link /\ dialed' = dialed
  BY DEF Flush
<1>2. link[d] # 0
  BY <1>1, DeviceTypes
<1>3. Exchange("Idle", dev[d].inFlight, c2s[MyConn(d)], sess[MyConn(d)].task, s2c[MyConn(d)])
  BY <1>1, <1>2, Current
<1>4. Settled(c2s[MyConn(d)], sess[MyConn(d)].task, s2c[MyConn(d)])
  BY <1>3 DEF Exchange, Settled, AskedIn, AwaitedIn, WorksOn, Answering
<1> QED
  BY <1>1, <1>2, <1>4, EngineFields, PushExchange

\* Frames that leave the engine in its state.
LEMMA StayExchange ==
  ASSUME IInv, ExchangeInv, NEW d \in Device, NEW type, Receives(d, type), Consume(d), NEW e,
         dev' = [dev EXCEPT ![d] = e], e.state = dev[d].state, e.inFlight = dev[d].inFlight,
         sess' = sess, link' = link, dialed' = dialed,
         \/ c2s' = c2s
         \/ \E f \in ClientFrame : ~IsRequest(f) /\ ToServer(d, f)
  PROVE  ExchangeInv'
<1>1. dev'[d] = e /\ \A x \in Device \ {d} : dev'[x] = dev[x]
  BY EngineFields
<1>2. PICK replies : replies = s2c'[MyConn(d)]
  OBVIOUS
<1>3. /\ Exchange(e.state, e.inFlight, c2s'[MyConn(d)], sess[MyConn(d)].task, replies)
      /\ \A c \in Conn : c # MyConn(d) => c2s'[c] = c2s[c]
  <2>1. CASE c2s' = c2s
    BY <1>2, <2>1, Takes
  <2>2. ASSUME NEW f \in ClientFrame, ~IsRequest(f), ToServer(d, f)
        PROVE  /\ Exchange(e.state, e.inFlight, c2s'[MyConn(d)], sess[MyConn(d)].task, replies)
               /\ \A c \in Conn : c # MyConn(d) => c2s'[c] = c2s[c]
    <3>1. /\ MyConn(d) \in Conn
          /\ Exchange(e.state, e.inFlight, c2s[MyConn(d)], sess[MyConn(d)].task, replies)
      BY <1>2, Takes
    <3> QED
      BY <2>2, <3>1, Sends
  <2> QED
    BY <2>1, <2>2
<1>4. EngineOnly(d)
  BY <1>1, <1>3, Takes DEF EngineOnly
<1> QED
  BY <1>1, <1>2, <1>3, <1>4, EngineAt

\* Frames that end a request and open the next one.
LEMMA MoveExchange ==
  ASSUME IInv, ExchangeInv, NEW d \in Device, NEW type, Receives(d, type), Consume(d), NEW e,
         IsReply(Head(Inbox(d))), IsFinal(Head(Inbox(d))),
         dev' = [dev EXCEPT ![d] = e],
         sess' = sess, link' = link, dialed' = dialed,
         NEW f \in ClientFrame, AskedIn(e.state, e.inFlight, f), ToServer(d, f)
  PROVE  ExchangeInv'
<1>1. dev'[d] = e /\ \A x \in Device \ {d} : dev'[x] = dev[x]
  BY EngineFields
<1>2. PICK replies : replies = s2c'[MyConn(d)]
  OBVIOUS
<1>3. MyConn(d) \in Conn /\ Settled(c2s[MyConn(d)], sess[MyConn(d)].task, replies)
  BY <1>2, Takes
<1>4. /\ Exchange(e.state, e.inFlight, c2s'[MyConn(d)], sess[MyConn(d)].task, replies)
      /\ \A c \in Conn : c # MyConn(d) => c2s'[c] = c2s[c]
  BY <1>3, SettledAny, Sends
<1>5. EngineOnly(d)
  BY <1>1, <1>4, Takes DEF EngineOnly
<1> QED
  BY <1>1, <1>2, <1>4, <1>5, EngineAt

\* The frames of the pull and of the push.
LEMMA UpdatesExchange ==
  ASSUME IInv, ExchangeInv, NEW d \in Device,
         HandleUpdatesBatch(d) \/ HandleUpdatesBroadcast(d) \/ HandleUpdatesAck(d)
  PROVE  ExchangeInv'
<1>1. ASSUME NEW lo, NEW hi
      PROVE  /\ DOMAIN AppliedDev(dev[d], lo, hi) = DOMAIN dev[d]
             /\ AppliedDev(dev[d], lo, hi).state = dev[d].state
             /\ AppliedDev(dev[d], lo, hi).inFlight = dev[d].inFlight
  BY EngineFields DEF AppliedDev, ImportedDev, Booted
<1>2. CASE HandleUpdatesBroadcast(d)
  <2> DEFINE s == Head(Inbox(d)).seq  e == AppliedDev(dev[d], s, s)
  <2>1. /\ Receives(d, "UpdatesBroadcast") /\ Consume(d) /\ dev' = [dev EXCEPT ![d] = e]
        /\ sess' = sess /\ link' = link /\ dialed' = dialed /\ c2s' = c2s
    BY <1>2, EngineFields DEF HandleUpdatesBroadcast
  <2>2. e.state = dev[d].state /\ e.inFlight = dev[d].inFlight
    BY <1>1
  <2> HIDE DEF e
  <2> QED
    BY <2>1, <2>2, StayExchange
<1>3. CASE HandleUpdatesBatch(d)
  <2> DEFINE f == Head(Inbox(d))
             e == AppliedDev(dev[d], f.lo, f.hi)
             k == AppliedDisk(dev[d], disk[d], f.lo, f.hi, f.hi)
  <2>1. /\ Receives(d, "UpdatesBatch") /\ Consume(d)
        /\ IF f.complete /\ e.state = "Pulling"
           THEN TryStartPush(d, [e EXCEPT !.state = "Idle"], k)
           ELSE dev' = [dev EXCEPT ![d] = e] /\ c2s' = c2s
        /\ sess' = sess /\ link' = link /\ dialed' = dialed
    BY <1>3 DEF HandleUpdatesBatch
  <2>2. /\ e.state = dev[d].state /\ e.inFlight = dev[d].inFlight /\ DOMAIN e = DOMAIN dev[d]
    BY <1>1
  <2>3. CASE f.complete /\ e.state = "Pulling"
    <3> DEFINE g == [e EXCEPT !.state = "Idle"]
    <3>1. DOMAIN g = DOMAIN Booted(EmptyDisk) /\ g.inFlight \in Nat
      BY <2>2, EngineFields DEF Booted
    <3>2. IsReply(f) /\ IsFinal(f)
      BY <2>1, <2>3, Takes DEF IsReply, IsFinal
    <3>3. TryStartPush(d, g, k)
      BY <2>1, <2>3
    <3>4. /\ link[d] # 0 /\ \A c \in Conn : c # MyConn(d) => s2c'[c] = s2c[c]
          /\ Settled(c2s[MyConn(d)], sess[MyConn(d)].task, s2c'[MyConn(d)])
      BY <2>1, <3>2, Takes
    <3> HIDE DEF g, k, e, f
    <3> QED
      BY <2>1, <3>1, <3>3, <3>4, PushExchange
  <2>4. CASE ~(f.complete /\ e.state = "Pulling")
    <3> HIDE DEF e, k, f
    <3> QED
      BY <2>1, <2>2, <2>4, StayExchange
  <2> QED
    BY <2>3, <2>4
<1>4. CASE HandleUpdatesAck(d)
  <2> DEFINE f == Head(Inbox(d))
             known == Acked(dev[d], blobs[d][f.push].to)
             k == CompletePush(disk[d], f.push, known)
             g == [dev[d] EXCEPT !.known = known, !.inFlight = NoPush, !.state = "Idle",
                                 !.contig = IngestRange(@, f.seq, f.seq)]
  <2>1. /\ Receives(d, "UpdatesAck") /\ Consume(d) /\ TryStartPush(d, g, k)
        /\ sess' = sess /\ link' = link /\ dialed' = dialed
    BY <1>4 DEF HandleUpdatesAck
  <2>2. DOMAIN g = DOMAIN Booted(EmptyDisk) /\ g.inFlight \in Nat
    BY EngineFields DEF Booted, NoPush
  <2>3. IsReply(f) /\ IsFinal(f)
    BY <2>1, Takes DEF IsReply, IsFinal
  <2>4. /\ link[d] # 0 /\ \A c \in Conn : c # MyConn(d) => s2c'[c] = s2c[c]
        /\ Settled(c2s[MyConn(d)], sess[MyConn(d)].task, s2c'[MyConn(d)])
    BY <2>1, <2>3, Takes
  <2> HIDE DEF g, k, known, f
  <2> QED
    BY <2>1, <2>2, <2>4, PushExchange
<1> QED
  BY <1>2, <1>3, <1>4

\* The frames that open and bootstrap a document.
LEMMA SnapshotExchange ==
  ASSUME IInv, ExchangeInv, NEW d \in Device,
         \/ DropFrame(d) \/ HandleDocOpened(d) \/ HandleSnapshotRequired(d)
         \/ HandleSnapshot(d) \/ HandleSnapshotRequest(d)
  PROVE  ExchangeInv'
<1>1. CASE DropFrame(d)
  <2>1. /\ Receives(d, "UpdatesBroadcast") /\ Consume(d) /\ dev' = [dev EXCEPT ![d] = dev[d]]
        /\ sess' = sess /\ link' = link /\ dialed' = dialed /\ c2s' = c2s
    BY <1>1, EngineFields DEF DropFrame, clientVars
  <2> QED
    BY <2>1, StayExchange
<1>2. CASE HandleDocOpened(d)
  <2> DEFINE e == [dev[d] EXCEPT !.state = "Pulling"]
             f == [type |-> "PullUpdates", since |-> PullSince(dev[d])]
  <2>1. /\ Receives(d, "DocOpened") /\ Consume(d) /\ dev' = [dev EXCEPT ![d] = e]
        /\ sess' = sess /\ link' = link /\ dialed' = dialed /\ ToServer(d, f)
    BY <1>2, EngineFields DEF HandleDocOpened
  <2>2. f \in ClientFrame /\ AskedIn(e.state, e.inFlight, f)
    BY EngineFields DEF ClientFrame, AskedIn, PullSince, Booted
  <2>3. IsReply(Head(Inbox(d))) /\ IsFinal(Head(Inbox(d)))
    BY <2>1, Takes DEF IsReply, IsFinal
  <2> HIDE DEF e, f
  <2> QED
    BY <2>1, <2>2, <2>3, MoveExchange
<1>3. CASE HandleSnapshotRequired(d)
  <2> DEFINE e == [dev[d] EXCEPT !.state = "Bootstrapping"]
             f == [type |-> "PullSnapshot"]
  <2>1. /\ Receives(d, "SnapshotRequired") /\ Consume(d) /\ dev' = [dev EXCEPT ![d] = e]
        /\ sess' = sess /\ link' = link /\ dialed' = dialed /\ ToServer(d, f)
    BY <1>3, EngineFields DEF HandleSnapshotRequired
  <2>2. f \in ClientFrame /\ AskedIn(e.state, e.inFlight, f)
    BY EngineFields DEF ClientFrame, AskedIn, Booted
  <2>3. IsReply(Head(Inbox(d))) /\ IsFinal(Head(Inbox(d)))
    BY <2>1, Takes DEF IsReply, IsFinal
  <2> HIDE DEF e, f
  <2> QED
    BY <2>1, <2>2, <2>3, MoveExchange
<1>4. CASE HandleSnapshot(d)
  <2> DEFINE h == Head(Inbox(d))
             e == ImportedDev(dev[d], snaps[h.row].ops)
             contig == MaxOf(e.contig, snaps[h.row].upTo)
             g == [CapturedDev(e) EXCEPT !.contig = contig, !.state = "Pulling"]
             f == [type |-> "PullUpdates", since |-> contig]
  <2>1. /\ Receives(d, "Snapshot") /\ Consume(d)
        /\ sess' = sess /\ link' = link /\ dialed' = dialed
        /\ IF h.complete THEN dev' = [dev EXCEPT ![d] = g] /\ ToServer(d, f)
           ELSE dev' = [dev EXCEPT ![d] = e] /\ c2s' = c2s
    BY <1>4 DEF HandleSnapshot
  <2>2. /\ DOMAIN e = DOMAIN dev[d] /\ DOMAIN CapturedDev(e) = DOMAIN dev[d]
        /\ e.state = dev[d].state /\ e.inFlight = dev[d].inFlight /\ e.contig = dev[d].contig
    BY EngineFields DEF ImportedDev, CapturedDev, Booted
  <2>3. contig \in Nat
    <3>1. h \in ServerIn(Landed(d), Len(log), Len(snaps)) /\ h.type = "Snapshot"
      BY <2>1, ReceivesFrame
    <3>2. h.row \in 1..Len(snaps)
      BY <3>1, ServerFields
    <3>3. snaps[h.row].upTo \in Nat
      BY <3>2, SnapRowFacts DEF RowIn
    <3> QED
      BY <2>2, <3>3, EngineFields DEF MaxOf
  <2>4. CASE h.complete
    <3>1. g.state = "Pulling"
      BY <2>2, EngineFields DEF Booted
    <3>2. f \in ClientFrame /\ AskedIn(g.state, g.inFlight, f)
      BY <2>3, <3>1 DEF ClientFrame, AskedIn
    <3>3. IsReply(h) /\ IsFinal(h)
      BY <2>1, <2>4, Takes DEF IsReply, IsFinal
    <3> HIDE DEF g, f, e, contig
    <3> QED
      BY <2>1, <2>4, <3>2, <3>3, MoveExchange
  <2>5. CASE ~h.complete
    <3> HIDE DEF e, h
    <3> QED
      BY <2>1, <2>2, <2>5, StayExchange
  <2> QED
    BY <2>4, <2>5
<1>5. CASE HandleSnapshotRequest(d)
  <2>1. /\ Receives(d, "SnapshotRequest") /\ Consume(d) /\ dev' = [dev EXCEPT ![d] = dev[d]]
        /\ sess' = sess /\ link' = link /\ dialed' = dialed
    BY <1>5, EngineFields DEF HandleSnapshotRequest, clientVars
  <2> DEFINE h == Head(Inbox(d))
             full == h.base = 0
             baseVv == IF full THEN {} ELSE snaps[h.base].vv
             r == [upTo  |-> dev[d].contig, floor |-> h.floor,
                   from  |-> IF full THEN FullSnapshot ELSE snaps[h.base].upTo,
                   vv    |-> dev[d].known, ops |-> Exported(dev[d], baseVv)]
             f == [type |-> "PushSnapshot", row |-> r]
  <2>2. IF baseVv \subseteq dev[d].known THEN ToServer(d, f) ELSE c2s' = c2s
    BY <1>5 DEF HandleSnapshotRequest
  <2>3. r \in SnapRow
    <3>1. h \in ServerIn(Landed(d), Len(log), Len(snaps)) /\ h.type = "SnapshotRequest"
      BY <2>1, ReceivesFrame
    <3>2. h.base \in 0..Len(snaps) /\ h.floor \in Nat
      BY <3>1, ServerFields
    <3>3. ~full => snaps[h.base].upTo \in Nat
      <4>1. Len(snaps) \in Nat /\ (~full => h.base \in 1..Len(snaps))
        BY <3>2 DEF IInv, SnapsInv
      <4> QED
        BY <4>1, SnapRowFacts DEF RowIn
    <3>4. (IF full THEN FullSnapshot ELSE snaps[h.base].upTo) \in Int
      BY <3>3 DEF FullSnapshot
    <3>5. dev[d].known \in Ops
      BY InvTypes DEF TypeOK, EngineType
    <3>6. Exported(dev[d], baseVv) \in Ops
      BY <3>5 DEF Exported, Ops
    <3> QED
      BY <3>2, <3>4, <3>5, <3>6, EngineFields DEF SnapRow
  <2> HIDE DEF r
  <2>4. f \in ClientFrame /\ ~IsRequest(f)
    BY <2>3 DEF ClientFrame, IsRequest
  <2> HIDE DEF f, baseVv
  <2> QED
    BY <2>1, <2>2, <2>4, StayExchange
<1> QED
  BY <1>1, <1>2, <1>3, <1>4, <1>5

\* Every step of an engine keeps every exchange.
LEMMA EngineExchange ==
  ASSUME IInv, ExchangeInv, NEW d \in Device, EngineStep(d)
  PROVE  ExchangeInv'
BY CommitExchange, NotifyExchange, ConnectExchange, LeavingExchange, FlushExchange,
   UpdatesExchange, SnapshotExchange DEF EngineStep

-----------------------------------------------------------------------------
(* Steps of a session *)

\* The exchange of a session whose client is on the connection.
LEMMA Served ==
  ASSUME IInv, ExchangeInv, NEW c \in Conn, Live(c)
  PROVE  Exchange(dev[c[1]].state, dev[c[1]].inFlight, c2s[c], sess[c].task, s2c[c])
BY DEF ExchangeInv, ConnOK

\* The queues and sessions as functions.
LEMMA WireFunctions ==
  ASSUME IInv
  PROVE  /\ c2s = [c \in Conn |-> c2s[c]]
         /\ s2c = [c \in Conn |-> s2c[c]]
         /\ sess = [c \in Conn |-> sess[c]]
         /\ \A c \in Conn : DOMAIN sess[c] = DOMAIN NoSession
<1>1. sess \in [Conn -> SessionType]
  BY InvTypes DEF TypeOK
<1> QED
  BY <1>1 DEF IInv, WireInv, Queues, SessionType, NoSession

\* The session reads a frame.
LEMMA SessionTakes ==
  ASSUME IInv, ExchangeInv, NEW c \in Conn, NEW type, Reads(c, type), c2s' = Consumed(c)
  PROVE  /\ sess[c].up /\ sess[c].task.kind = "idle" /\ Frame(c).type = type
         /\ \A x \in Conn : x # c => c2s'[x] = c2s[x]
         /\ Live(c) =>
              /\ Exchange(dev[c[1]].state, dev[c[1]].inFlight, c2s'[c], sess[c].task, s2c[c])
              /\ IsRequest(Frame(c)) =>
                   /\ AskedIn(dev[c[1]].state, dev[c[1]].inFlight, Frame(c))
                   /\ Settled(c2s'[c], sess[c].task, s2c[c])
<1>1. /\ sess[c].up /\ sess[c].task.kind = "idle" /\ Frame(c).type = type
      /\ c2s[c] # <<>> /\ Frame(c) = Head(c2s[c])
  BY DEF Reads, Ready, Frame
<1>2. c2s'[c] = Tail(c2s[c]) /\ \A x \in Conn : x # c => c2s'[x] = c2s[x]
  BY WireFunctions DEF Consumed
<1>3. c2s[c] \in Seq(ClientFrame)
  BY WireTypes
<1> QED
  BY <1>1, <1>2, <1>3, Served, RequestRead

\* What ToClient does to the queues.
LEMMA Delivers ==
  ASSUME IInv, NEW c \in Conn, NEW frames, ToClient(c, frames)
  PROVE  /\ \A x \in Conn : x # c => s2c'[x] = s2c[x]
         /\ ~Live(c) => s2c'[c] = s2c[c]
         /\ Live(c) => s2c'[c] = s2c[c] \o frames
BY WireFunctions DEF ToClient

\* A single frame behind a queue.
LEMMA OneMore ==
  ASSUME NEW X, NEW s \in Seq(X), NEW f \in X
  PROVE  s \o <<f>> = Append(s, f)
OBVIOUS

\* A frame behind a queue of frames.
LEMMA AndOneMore ==
  ASSUME NEW X, NEW s \in Seq(X), NEW u \in Seq(X), NEW f \in X
  PROVE  /\ s \o Append(u, f) = Append(s \o u, f)
         /\ s \o u \in Seq(X)
         /\ s \o <<>> = s
OBVIOUS

\* The session ends.
LEMMA EndExchange ==
  ASSUME IInv, ExchangeInv, NEW c \in Conn, sess[c].up, NEW S,
         sess' = End(S, c), c2s' = Unread(c), s2c' = s2c, UNCHANGED <<dev, link, dialed>>,
         \A x \in Conn : x # c => /\ S[x].task = sess[x].task
                                  /\ sess[x] = NoSession => S[x] = NoSession,
         S = [x \in Conn |-> S[x]]
  PROVE  ExchangeInv'
<1>1. sess'[c] = NoSession /\ \A x \in Conn : x # c => sess'[x] = S[x]
  BY DEF End
<1>2. c2s'[c] = <<>> /\ \A x \in Conn : x # c => c2s'[x] = c2s[x]
  BY WireFunctions DEF Unread
<1>3. NoSession.task = NoTask
  BY DEF NoSession
<1>4. SessionOnly(c)
  BY <1>1, <1>2 DEF SessionOnly
<1>5. Live(c) => Exchange(dev[c[1]].state, dev[c[1]].inFlight, <<>>, NoTask, s2c[c])
  BY Served, SessionGone
<1> QED
  BY <1>1, <1>2, <1>3, <1>4, <1>5, SessionAt

\* The steps that end a session.
LEMMA EndingExchange ==
  ASSUME IInv, ExchangeInv, NEW c \in Conn,
         RecvDocNotOpen(c) \/ Lagged(c) \/ SendFails(c) \/ SessionClosed(c)
  PROVE  ExchangeInv'
<1>1. /\ sess' = End(sess, c) /\ c2s' = Unread(c) /\ s2c' = s2c /\ UNCHANGED <<dev, link, dialed>>
      /\ sess[c].up
  BY DEF RecvDocNotOpen, Lagged, SendFails, SessionClosed, Ready, clientVars
<1> QED
  BY <1>1, WireFunctions, EndExchange

\* The decision on a snapshot and the replies of the handler: what a request
\* for a snapshot adds is no reply.
LEMMA EvaluateExchange ==
  ASSUME IInv, ExchangeInv, NEW c \in Conn, sess[c].up, NEW acked \in Nat, NEW S, NEW rest,
         NEW replies \in Seq(ServerFrame), EvaluateAndReply(c, acked, S, rest, replies),
         UNCHANGED <<dev, link, dialed>>,
         S = [x \in Conn |-> S[x]], DOMAIN S[c] = DOMAIN NoSession,
         \A x \in Conn : x # c =>
           /\ rest[x] = c2s[x] /\ S[x].task = sess[x].task
           /\ sess[x] = NoSession => S[x] = NoSession,
         Live(c) => Exchange(dev[c[1]].state, dev[c[1]].inFlight, rest[c], S[c].task, s2c[c] \o replies)
  PROVE  ExchangeInv'
<1> DEFINE q == SnapshotRequest(c[1], acked)
           frames == IF Issues(acked) THEN Append(replies, q) ELSE replies
<1>1. \/ /\ sess' = IF Issues(acked) THEN [S EXCEPT ![c].lease = nextLease] ELSE S
         /\ c2s' = rest
         /\ ToClient(c, frames)
      \/ /\ ~Live(c)
         /\ sess' = End(S, c)
         /\ c2s' = Unread(c)
         /\ UNCHANGED s2c
  BY DEF EvaluateAndReply
<1>2. CASE ~Live(c) /\ sess' = End(S, c) /\ c2s' = Unread(c) /\ UNCHANGED s2c
  BY <1>2, EndExchange
<1>3. CASE /\ sess' = IF Issues(acked) THEN [S EXCEPT ![c].lease = nextLease] ELSE S
           /\ c2s' = rest
           /\ ToClient(c, frames)
  <2>1. sess'[c].task = S[c].task /\ \A x \in Conn : x # c => sess'[x] = S[x]
    BY <1>3 DEF NoSession
  <2>2. q \in ServerFrame
    <3>1. q \in ServerIn(Landed(c[1]), Len(log), Len(snaps))
      BY RequestType, SessionFacts
    <3> QED
      BY <3>1, SessionFacts DEF SnapshotRequest, ServerIn, ServerFrame
  <2>3. ~IsReply(q)
    BY DEF SnapshotRequest, IsReply
  <2> HIDE DEF q
  <2>4. s2c[c] \in Seq(ServerFrame)
    BY WireTypes
  <2>5. Live(c) => Exchange(dev[c[1]].state, dev[c[1]].inFlight, rest[c], S[c].task, s2c[c] \o frames)
    <3>1. CASE ~Issues(acked)
      BY <3>1
    <3>2. CASE Issues(acked) /\ Live(c)
      <4> DEFINE p == s2c[c] \o replies
      <4>1. s2c[c] \o Append(replies, q) = Append(p, q) /\ p \in Seq(ServerFrame)
        <5>1. ASSUME NEW s \in Seq(ServerFrame)
              PROVE  s \o Append(replies, q) = Append(s \o replies, q) /\ s \o replies \in Seq(ServerFrame)
          BY <2>2, AndOneMore
        <5> QED
          BY <2>4, <5>1
      <4>2. Exchange(dev[c[1]].state, dev[c[1]].inFlight, rest[c], S[c].task, p)
        BY <3>2
      <4> HIDE DEF p
      <4>3. Exchange(dev[c[1]].state, dev[c[1]].inFlight, rest[c], S[c].task, Append(p, q))
        BY <2>2, <2>3, <4>1, <4>2, ReplySent
      <4> QED
        BY <3>2, <4>1, <4>3
    <3> QED
      BY <3>1, <3>2
  <2> HIDE DEF frames
  <2>6. SessionOnly(c) /\ (~Live(c) => s2c'[c] = s2c[c]) /\ (Live(c) => s2c'[c] = s2c[c] \o frames)
    BY <1>3, <2>1, Delivers DEF SessionOnly
  <2> QED
    BY <1>3, <2>1, <2>5, <2>6, SessionAt
<1> QED
  BY <1>1, <1>2, <1>3

\* One session changes.
LEMMA OneSession ==
  ASSUME IInv, NEW c \in Conn, NEW v, sess' = [sess EXCEPT ![c] = v],
         UNCHANGED <<dev, link, dialed>>,
         \A x \in Conn : x # c => c2s'[x] = c2s[x] /\ s2c'[x] = s2c[x]
  PROVE  SessionOnly(c) /\ sess'[c] = v
BY WireFunctions DEF SessionOnly

\* The session answers the request it reads with one frame.
LEMMA AnswerExchange ==
  ASSUME IInv, ExchangeInv, NEW c \in Conn, NEW type, Reads(c, type), c2s' = Consumed(c),
         NEW f \in ServerFrame, ToClient(c, <<f>>), NEW v, sess' = [sess EXCEPT ![c] = v],
         v.task = sess[c].task, UNCHANGED <<dev, link, dialed>>,
         IsRequest(Frame(c)),
         AskedIn(dev[c[1]].state, dev[c[1]].inFlight, Frame(c)) =>
           AwaitedIn(dev[c[1]].state, dev[c[1]].inFlight, f)
  PROVE  ExchangeInv'
<1>1. Live(c) => AwaitedIn(dev[c[1]].state, dev[c[1]].inFlight, f) /\ Settled(c2s'[c], sess[c].task, s2c[c])
  BY SessionTakes
<1>2. SessionOnly(c) /\ sess'[c] = v
  BY SessionTakes, Delivers, OneSession
<1>3. s2c[c] \in Seq(ServerFrame)
  BY WireTypes
<1>4. Live(c) => s2c'[c] = Append(s2c[c], f)
  BY <1>3, Delivers, OneMore
<1>5. Live(c) => Exchange(dev[c[1]].state, dev[c[1]].inFlight, c2s'[c], sess[c].task, Append(s2c[c], f))
  <2>1. PICK r : r = c2s'[c]
    OBVIOUS
  <2>2. Live(c) => /\ Exchange(dev[c[1]].state, dev[c[1]].inFlight, r, sess[c].task, s2c[c])
                   /\ Settled(r, sess[c].task, s2c[c])
    BY <1>1, <2>1, SettledAny
  <2>3. Live(c) => Exchange(dev[c[1]].state, dev[c[1]].inFlight, r, sess[c].task, Append(s2c[c], f))
    BY <1>1, <1>3, <2>2, ReplySent
  <2> QED
    BY <2>1, <2>3
<1> QED
  BY <1>2, <1>4, <1>5, SessionTakes, Delivers, SessionAt

\* open_doc answers OpenDoc.
LEMMA OpenExchange ==
  ASSUME IInv, ExchangeInv, NEW c \in Conn, RecvOpenDoc(c)
  PROVE  ExchangeInv'
<1> DEFINE v == [sess[c] EXCEPT !.open = TRUE, !.sub = TRUE]
           f == [type |-> "DocOpened"]
<1>1. /\ Reads(c, "OpenDoc") /\ c2s' = Consumed(c) /\ ToClient(c, <<f>>)
      /\ sess' = [sess EXCEPT ![c].open = TRUE, ![c].sub = TRUE] /\ UNCHANGED <<dev, link, dialed>>
  BY DEF RecvOpenDoc, clientVars
<1>2. sess' = [sess EXCEPT ![c] = v] /\ v.task = sess[c].task
  BY <1>1, WireFunctions DEF NoSession
<1> HIDE DEF v
<1>3. f \in ServerFrame
  BY DEF ServerFrame
<1>4. /\ IsRequest(Frame(c))
      /\ AskedIn(dev[c[1]].state, dev[c[1]].inFlight, Frame(c)) =>
           AwaitedIn(dev[c[1]].state, dev[c[1]].inFlight, f)
  BY <1>1, SessionTakes DEF AskedIn, AwaitedIn, IsRequest
<1> HIDE DEF f
<1> QED
  BY <1>1, <1>2, <1>3, <1>4, AnswerExchange

\* A handler begins: the request is taken, its answer comes in later steps.
LEMMA BeginExchange ==
  ASSUME IInv, ExchangeInv, NEW c \in Conn, NEW type, Reads(c, type), c2s' = Consumed(c), s2c' = s2c,
         NEW v, sess' = [sess EXCEPT ![c] = v], UNCHANGED <<dev, link, dialed>>,
         \/ ~Answering(v.task)
         \/ /\ IsRequest(Frame(c))
            /\ AskedIn(dev[c[1]].state, dev[c[1]].inFlight, Frame(c)) =>
                 WorksOn(dev[c[1]].state, dev[c[1]].inFlight, v.task)
  PROVE  ExchangeInv'
<1>1. SessionOnly(c) /\ sess'[c] = v
  BY SessionTakes, OneSession
<1>2. sess[c].up /\ sess[c].task.kind = "idle"
  BY SessionTakes
<1>3. Live(c) => Exchange(dev[c[1]].state, dev[c[1]].inFlight, c2s'[c], v.task, s2c[c])
  <2>1. CASE ~Answering(v.task)
    <3>1. Live(c) => Exchange(dev[c[1]].state, dev[c[1]].inFlight, c2s'[c], sess[c].task, s2c[c])
      BY SessionTakes
    <3> QED
      BY <2>1, <3>1 DEF Exchange, WorksOn, Answering
  <2>2. CASE /\ IsRequest(Frame(c))
             /\ AskedIn(dev[c[1]].state, dev[c[1]].inFlight, Frame(c)) =>
                  WorksOn(dev[c[1]].state, dev[c[1]].inFlight, v.task)
    <3>1. Live(c) => /\ Settled(c2s'[c], sess[c].task, s2c[c])
                     /\ WorksOn(dev[c[1]].state, dev[c[1]].inFlight, v.task)
      BY <2>2, SessionTakes
    <3> QED
      BY <3>1 DEF Exchange, Settled
  <2> QED
    BY <2>1, <2>2
<1> QED
  BY <1>1, <1>2, <1>3, SessionAt

\* push_updates and push_snapshot, first half.
LEMMA PushBeginExchange ==
  ASSUME IInv, ExchangeInv, NEW c \in Conn, RecvPushUpdates(c) \/ RecvPushSnapshot(c)
  PROVE  ExchangeInv'
<1>1. CASE RecvPushUpdates(c)
  <2>1. PICK t : /\ sess' = [sess EXCEPT ![c].task = t]
                 /\ t.kind = "push" /\ t.push = Frame(c).push
    <3> DEFINE n == Frame(c).push
               old == Stored(c[1], n)
               s == IF old = {} THEN Len(log) + 1 ELSE CHOOSE x \in old : TRUE
               w == [kind |-> "push", push |-> n, seq |-> s, fresh |-> old = {}]
    <3>1. sess' = [sess EXCEPT ![c].task = w]
      BY <1>1 DEF RecvPushUpdates
    <3>2. w.kind = "push" /\ w.push = n
      OBVIOUS
    <3> HIDE DEF w
    <3> QED
      BY <3>1, <3>2
  <2> DEFINE v == [sess[c] EXCEPT !.task = t]
  <2>2. /\ Reads(c, "PushUpdates") /\ c2s' = Consumed(c) /\ s2c' = s2c /\ UNCHANGED <<dev, link, dialed>>
    BY <1>1 DEF RecvPushUpdates, clientVars
  <2>3. sess' = [sess EXCEPT ![c] = v] /\ v.task = t
    BY <2>1, WireFunctions DEF NoSession
  <2> HIDE DEF v
  <2>4. /\ IsRequest(Frame(c))
        /\ AskedIn(dev[c[1]].state, dev[c[1]].inFlight, Frame(c)) =>
             WorksOn(dev[c[1]].state, dev[c[1]].inFlight, v.task)
    BY <2>1, <2>2, <2>3, SessionTakes DEF IsRequest, AskedIn, WorksOn
  <2> QED
    BY <2>2, <2>3, <2>4, BeginExchange
<1>2. CASE RecvPushSnapshot(c)
  <2> DEFINE held == sess[c].lease # NoLease /\ sess[c].lease = lease.id
             v == IF held THEN [sess[c] EXCEPT !.lease = NoLease,
                                               !.task = [kind |-> "snap", row |-> Frame(c).row]]
                  ELSE sess[c]
  <2>1. /\ Reads(c, "PushSnapshot") /\ c2s' = Consumed(c) /\ s2c' = s2c /\ UNCHANGED <<dev, link, dialed>>
    BY <1>2 DEF RecvPushSnapshot, clientVars
  <2>2. sess' = [sess EXCEPT ![c] = v]
    BY <1>2, WireFunctions DEF RecvPushSnapshot
  <2>3. ~Answering(v.task)
    BY <2>1, SessionTakes, WireFunctions DEF NoSession, Answering
  <2> HIDE DEF v
  <2> QED
    BY <2>1, <2>2, <2>3, BeginExchange
<1> QED
  BY <1>1, <1>2

\* Ack: the frontier moves, and perhaps a snapshot is asked for.
LEMMA AckExchange ==
  ASSUME IInv, ExchangeInv, NEW c \in Conn, RecvAck(c)
  PROVE  ExchangeInv'
<1>1. /\ Reads(c, "Ack") /\ UNCHANGED <<dev, link, dialed>>
      /\ EvaluateAndReply(c, Frame(c).seq, sess, Consumed(c), <<>>)
  BY DEF RecvAck, clientVars
<1>2. Frame(c).seq \in Nat
  <2>1. c2s[c] # <<>> /\ Frame(c) = Head(c2s[c]) /\ c2s[c] \in Seq(ClientFrame) /\ Frame(c).type = "Ack"
    BY <1>1, WireTypes DEF Reads, Frame
  <2>2. Frame(c) \in ClientFrame
    BY <2>1
  <2> QED
    BY <2>1, <2>2 DEF ClientFrame, AckFrame
<1>3. /\ sess[c].up /\ c2s[c] # <<>> /\ c2s[c] \in Seq(ClientFrame)
  BY <1>1, WireTypes DEF Reads, Ready
<1>4. Consumed(c)[c] = Tail(c2s[c]) /\ \A x \in Conn : x # c => Consumed(c)[x] = c2s[x]
  BY WireFunctions DEF Consumed
<1>5. s2c[c] \o <<>> = s2c[c]
  BY WireTypes
<1>6. Live(c) => Exchange(dev[c[1]].state, dev[c[1]].inFlight, Consumed(c)[c], sess[c].task, s2c[c] \o <<>>)
  BY <1>3, <1>4, <1>5, Served, RequestRead
<1> DEFINE rest == Consumed(c)  none == <<>>
<1>7. none \in Seq(ServerFrame)
  OBVIOUS
<1>8. \A x \in Conn : x # c =>
         /\ rest[x] = c2s[x] /\ sess[x].task = sess[x].task
         /\ sess[x] = NoSession => sess[x] = NoSession
  BY <1>4
<1>9. /\ EvaluateAndReply(c, Frame(c).seq, sess, rest, none)
      /\ Live(c) => Exchange(dev[c[1]].state, dev[c[1]].inFlight, rest[c], sess[c].task, s2c[c] \o none)
  BY <1>1, <1>6
<1>10. sess = [x \in Conn |-> sess[x]] /\ DOMAIN sess[c] = DOMAIN NoSession
  BY WireFunctions
<1> HIDE DEF rest, none
<1> QED
  BY <1>1, <1>2, <1>3, <1>7, <1>8, <1>9, <1>10, EvaluateExchange

\* push_updates, second half: the ack of the push.
LEMMA FinishExchange ==
  ASSUME IInv, ExchangeInv, NEW c \in Conn, FinishPush(c)
  PROVE  ExchangeInv'
<1> DEFINE t == sess[c].task
           S0 == [sess EXCEPT ![c].task = NoTask]
           S == IF t.fresh THEN Broadcast(S0, c, t.seq) ELSE S0
           f == [type |-> "UpdatesAck", push |-> t.push, seq |-> t.seq]
<1>1. /\ t.kind = "push" /\ EvaluateAndReply(c, t.seq, S, c2s, <<f>>) /\ UNCHANGED <<dev, link, dialed>>
  BY DEF FinishPush, clientVars
<1>2. t \in Task /\ sess[c].up
  BY <1>1, WireTypes, SessionFacts DEF SessionType
<1>3. t.push \in Nat /\ t.seq \in Nat
  BY <1>1, <1>2 DEF Task, NoTask
<1>4. f \in ServerFrame
  BY <1>3 DEF ServerFrame
<1>a. /\ S0 = [x \in Conn |-> S0[x]] /\ S0[c].task = NoTask /\ DOMAIN S0[c] = DOMAIN NoSession
      /\ \A x \in Conn : x # c => S0[x] = sess[x]
  BY WireFunctions DEF NoSession
<1> HIDE DEF S0
<1>5. S = [x \in Conn |-> S[x]] /\ S[c].task = NoTask /\ DOMAIN S[c] = DOMAIN NoSession
  <2>1. CASE t.fresh
    <3>1. S = Broadcast(S0, c, t.seq) /\ S[c] = S0[c]
      BY <2>1 DEF Broadcast
    <3>2. Broadcast(S0, c, t.seq) = [x \in Conn |-> Broadcast(S0, c, t.seq)[x]]
      BY DEF Broadcast
    <3> QED
      BY <1>a, <3>1, <3>2
  <2>2. CASE ~t.fresh
    BY <1>a, <2>2
  <2> QED
    BY <2>1, <2>2
<1>6. ASSUME NEW x \in Conn, x # c
      PROVE  /\ S[x].task = sess[x].task
             /\ sess[x] = NoSession => S[x] = NoSession
  <2>1. DOMAIN S0[x] = DOMAIN NoSession
    BY <1>6, <1>a, WireFunctions
  <2>2. S[x].task = S0[x].task
    BY <2>1 DEF Broadcast, NoSession
  <2>3. S0[x] = NoSession => S[x] = NoSession
    BY DEF Broadcast, NoSession
  <2> QED
    BY <1>6, <1>a, <2>2, <2>3
<1> HIDE DEF S
<1>7. Live(c) => Exchange(dev[c[1]].state, dev[c[1]].inFlight, c2s[c], S[c].task, s2c[c] \o <<f>>)
  <2>1. s2c[c] \in Seq(ServerFrame) /\ s2c[c] \o <<f>> = Append(s2c[c], f)
    BY <1>4, WireTypes, OneMore
  <2>2. Live(c) => AwaitedIn(dev[c[1]].state, dev[c[1]].inFlight, f) /\ Answering(t)
    BY <1>1, Served DEF Exchange, WorksOn, AwaitedIn, Answering
  <2>3. ~Answering(NoTask)
    BY DEF Answering, NoTask
  <2> HIDE DEF f
  <2>4. Live(c) => Exchange(dev[c[1]].state, dev[c[1]].inFlight, c2s[c], NoTask, Append(s2c[c], f))
    BY <1>4, <2>1, <2>2, <2>3, Served, ReplySent
  <2> QED
    BY <1>5, <2>1, <2>4
<1>8. <<f>> \in Seq(ServerFrame)
  BY <1>4, Singleton
<1>9. \A x \in Conn : x # c =>
         /\ c2s[x] = c2s[x] /\ S[x].task = sess[x].task
         /\ sess[x] = NoSession => S[x] = NoSession
  BY <1>6
<1> DEFINE r == <<f>>
<1>10. /\ EvaluateAndReply(c, t.seq, S, c2s, r)  /\ r \in Seq(ServerFrame)
       /\ Live(c) => Exchange(dev[c[1]].state, dev[c[1]].inFlight, c2s[c], S[c].task, s2c[c] \o r)
  BY <1>1, <1>7, <1>8
<1> HIDE DEF r, f, t
<1> QED
  BY <1>1, <1>2, <1>3, <1>5, <1>9, <1>10, EvaluateExchange

\* pull_updates: the request is answered at once, or its handler begins.
LEMMA PullExchange ==
  ASSUME IInv, ExchangeInv, NEW c \in Conn, RecvPullUpdates(c)
  PROVE  ExchangeInv'
<1> DEFINE t == [kind |-> "pull", cursor |-> Frame(c).since]
           f == [type |-> "SnapshotRequired"]
           v == [sess[c] EXCEPT !.task = t]
<1>1. /\ Reads(c, "PullUpdates") /\ c2s' = Consumed(c) /\ UNCHANGED <<dev, link, dialed>>
      /\ \/ ToClient(c, <<f>>) /\ sess' = sess
         \/ sess' = [sess EXCEPT ![c].task = t] /\ s2c' = s2c
  BY DEF RecvPullUpdates, clientVars
<1>2. Frame(c).type = "PullUpdates"
  BY <1>1, SessionTakes
<1>3. CASE ToClient(c, <<f>>) /\ sess' = sess
  <2>1. sess' = [sess EXCEPT ![c] = sess[c]]
    BY <1>3, WireFunctions
  <2>2. f \in ServerFrame
    BY DEF ServerFrame
  <2>3. /\ IsRequest(Frame(c))
        /\ AskedIn(dev[c[1]].state, dev[c[1]].inFlight, Frame(c)) =>
             AwaitedIn(dev[c[1]].state, dev[c[1]].inFlight, f)
    BY <1>2 DEF AskedIn, AwaitedIn, IsRequest
  <2> HIDE DEF f
  <2> QED
    BY <1>1, <1>3, <2>1, <2>2, <2>3, AnswerExchange
<1>4. CASE sess' = [sess EXCEPT ![c].task = t] /\ s2c' = s2c
  <2>1. sess' = [sess EXCEPT ![c] = v] /\ v.task = t
    BY <1>4, WireFunctions DEF NoSession
  <2> HIDE DEF v
  <2>2. /\ IsRequest(Frame(c))
        /\ AskedIn(dev[c[1]].state, dev[c[1]].inFlight, Frame(c)) =>
             WorksOn(dev[c[1]].state, dev[c[1]].inFlight, v.task)
    BY <1>2, <2>1 DEF IsRequest, AskedIn, WorksOn
  <2> QED
    BY <1>1, <1>4, <2>1, <2>2, BeginExchange
<1> QED
  BY <1>1, <1>3, <1>4

\* A step of a handler that sends one frame: none of its request's replies,
\* or one, the last if the handler ends with it.
LEMMA OneFrame ==
  ASSUME IInv, ExchangeInv, NEW c \in Conn, sess[c].up, c2s' = c2s,
         NEW f \in ServerFrame, ToClient(c, <<f>>), NEW v, sess' = [sess EXCEPT ![c] = v],
         UNCHANGED <<dev, link, dialed>>,
         \/ ~IsReply(f) /\ v.task = sess[c].task
         \/ Live(c) =>
              /\ AwaitedIn(dev[c[1]].state, dev[c[1]].inFlight, f) /\ Answering(sess[c].task)
              /\ Answering(v.task) => ~IsFinal(f) /\ WorksOn(dev[c[1]].state, dev[c[1]].inFlight, v.task)
  PROVE  ExchangeInv'
<1>1. SessionOnly(c) /\ sess'[c] = v
  BY Delivers, OneSession
<1>2. s2c[c] \in Seq(ServerFrame)
  BY WireTypes
<1>3. Live(c) => s2c'[c] = Append(s2c[c], f)
  BY <1>2, Delivers, OneMore
<1>4. Live(c) => Exchange(dev[c[1]].state, dev[c[1]].inFlight, c2s[c], v.task, Append(s2c[c], f))
  BY <1>2, Served, ReplySent
<1> QED
  BY <1>1, <1>3, <1>4, Delivers, SessionAt

\* One turn of pull_updates' loop: the handler ends with the complete batch.
LEMMA BatchExchange ==
  ASSUME IInv, ExchangeInv, NEW c \in Conn, PullBatch(c)
  PROVE  ExchangeInv'
<1> DEFINE t == sess[c].task
           lo == MaxOf(t.cursor, purged) + 1
           last == Len(log)
<1>1. PICK hi \in (IF last < lo THEN {last} ELSE lo .. last) :
        /\ ToClient(c, <<[type |-> "UpdatesBatch", lo |-> lo, hi |-> hi, complete |-> hi = last]>>)
        /\ sess' = [sess EXCEPT ![c].task = IF hi = last THEN NoTask
                                            ELSE [kind |-> "pull", cursor |-> hi]]
  BY DEF PullBatch
<1>2. t.kind = "pull" /\ c2s' = c2s /\ UNCHANGED <<dev, link, dialed>>
  BY DEF PullBatch, clientVars
<1>3. t \in Task /\ sess[c].up /\ last \in Nat /\ purged \in Nat
  BY <1>2, WireTypes, SessionFacts, InvTypes DEF SessionType, TypeOK
<1>4. t.cursor \in Nat
  BY <1>2, <1>3 DEF Task, NoTask
<1>5. lo \in Nat /\ hi \in Nat
  BY <1>1, <1>3, <1>4 DEF MaxOf
<1> DEFINE f == [type |-> "UpdatesBatch", lo |-> lo, hi |-> hi, complete |-> hi = last]
           u == IF hi = last THEN NoTask ELSE [kind |-> "pull", cursor |-> hi]
           v == [sess[c] EXCEPT !.task = u]
<1>6. f \in ServerFrame
  BY <1>5 DEF ServerFrame
<1>7. sess' = [sess EXCEPT ![c] = v] /\ v.task = u
  BY <1>1, WireFunctions DEF NoSession
<1> HIDE DEF v
<1>8. Live(c) => dev[c[1]].state = "Pulling"
  BY <1>2, Served DEF Exchange, WorksOn
<1>9. Live(c) =>
        /\ AwaitedIn(dev[c[1]].state, dev[c[1]].inFlight, f) /\ Answering(t)
        /\ Answering(v.task) => ~IsFinal(f) /\ WorksOn(dev[c[1]].state, dev[c[1]].inFlight, v.task)
  <2>1. AwaitedIn("Pulling", dev[c[1]].inFlight, f)
    BY DEF AwaitedIn
  <2>2. hi = last => ~Answering(u)
    BY DEF Answering, NoTask
  <2>3. hi # last => WorksOn("Pulling", dev[c[1]].inFlight, u)
    BY DEF WorksOn
  <2>4. hi # last => ~IsFinal(f)
    BY DEF IsFinal
  <2>5. Answering(t)
    BY <1>2 DEF Answering
  <2> HIDE DEF f, u, t
  <2> QED
    BY <1>7, <1>8, <2>1, <2>2, <2>3, <2>4, <2>5
<1>10. ToClient(c, <<f>>)
  BY <1>1
<1> HIDE DEF f
<1> QED
  BY <1>2, <1>3, <1>6, <1>7, <1>9, <1>10, OneFrame

\* A broadcast is no reply.
LEMMA BroadcastExchange ==
  ASSUME IInv, ExchangeInv, NEW c \in Conn, SendBroadcast(c)
  PROVE  ExchangeInv'
<1> DEFINE f == [type |-> "UpdatesBroadcast", seq |-> Head(sess[c].rx)]
           v == [sess[c] EXCEPT !.rx = Tail(@)]
<1>1. /\ sess[c].up /\ sess[c].rx # <<>> /\ c2s' = c2s /\ UNCHANGED <<dev, link, dialed>>
      /\ sess' = [sess EXCEPT ![c].rx = Tail(@)] /\ ToClient(c, <<f>>)
  BY DEF SendBroadcast, Ready, clientVars
<1>2. sess' = [sess EXCEPT ![c] = v] /\ v.task = sess[c].task
  BY <1>1, WireFunctions DEF NoSession
<1> HIDE DEF v
<1>3. f \in ServerFrame
  <2>1. sess[c].rx \in Seq(Nat)
    BY WireTypes DEF SessionType
  <2>2. Head(sess[c].rx) \in Nat
    BY <1>1, <2>1
  <2> QED
    BY <2>2 DEF ServerFrame
<1>4. ~IsReply(f)
  BY DEF IsReply
<1> HIDE DEF f
<1> QED
  BY <1>1, <1>2, <1>3, <1>4, OneFrame

\* Several replies behind a settled exchange, the last of them final.
LEMMA ChainSent ==
  ASSUME NEW X, NEW st, NEW n, NEW requests, NEW t, NEW replies \in Seq(X), NEW F \in Seq(X),
         Settled(requests, t, replies),
         \A i \in DOMAIN F : AwaitedIn(st, n, F[i]) /\ (IsFinal(F[i]) => i = Len(F))
  PROVE  Exchange(st, n, requests, t, replies \o F)
<1> DEFINE m == Len(replies)  s == replies \o F  l == Len(s)
<1>1. /\ m \in Nat /\ l \in Nat /\ DOMAIN s = 1..l /\ l = m + Len(F)
      /\ \A i \in DOMAIN s : \/ i \in DOMAIN replies /\ s[i] = replies[i]
                             \/ i - m \in DOMAIN F /\ s[i] = F[i - m]
  <2>1. s \in Seq(X) /\ l = m + Len(F) /\ m \in Nat /\ Len(F) \in Nat /\ l \in Nat
    BY ConcatProperties
  <2>2. DOMAIN s = 1..l /\ DOMAIN replies = 1..m /\ DOMAIN F = 1..Len(F)
    BY <2>1, LenProperties
  <2>3. ASSUME NEW i \in 1..l
        PROVE  \/ i \in 1..m /\ s[i] = replies[i]
               \/ i - m \in 1..Len(F) /\ s[i] = F[i - m]
    <3>1. s[i] = IF i <= m THEN replies[i] ELSE F[i - m]
      BY <2>1, ConcatProperties
    <3> QED
      BY <2>1, <3>1
  <2> QED
    BY <2>1, <2>2, <2>3
<1>2. \A i \in DOMAIN s : IsReply(s[i]) => AwaitedIn(st, n, s[i]) /\ (IsFinal(s[i]) => i - m = Len(F))
  BY <1>1 DEF Settled
<1>3. \A i \in DOMAIN s : IsReply(s[i]) /\ IsFinal(s[i]) => \A j \in DOMAIN s : j <= i
  <2>1. \A i \in DOMAIN s : i - m = Len(F) => \A j \in DOMAIN s : j <= i
    BY <1>1
  <2> HIDE DEF s, m
  <2> QED
    BY <1>2, <2>1
<1> HIDE DEF s
<1>4. Exchange(st, n, requests, t, s)
  BY <1>2, <1>3 DEF Exchange, Settled, WorksOn, Answering
<1> QED
  BY <1>4 DEF s

\* pull_snapshot: the chain is the reply.
LEMMA ChainExchange ==
  ASSUME IInv, ExchangeInv, NEW c \in Conn, RecvPullSnapshot(c)
  PROVE  ExchangeInv'
<1>1. PICK h \in 1..Len(snaps) :
        /\ Reads(c, "PullSnapshot") /\ c2s' = Consumed(c) /\ sess' = sess /\ UNCHANGED <<dev, link, dialed>>
        /\ ToClient(c, [i \in 1 .. Len(snaps) - h + 1 |->
                          [type |-> "Snapshot", row |-> h + i - 1,
                           complete |-> h + i - 1 = Len(snaps)]])
  BY DEF RecvPullSnapshot, clientVars
<1> DEFINE l == Len(snaps) - h + 1
           F == [i \in 1..l |-> [type |-> "Snapshot", row |-> h + i - 1,
                                 complete |-> h + i - 1 = Len(snaps)]]
<1>2. h \in Nat /\ h > 0 /\ Len(snaps) \in Nat /\ l \in Nat
  BY <1>1, InvTypes DEF TypeOK
<1>3. \A i \in 1..l : F[i] \in ServerFrame
  BY <1>2 DEF ServerFrame
<1>4. F \in Seq(ServerFrame) /\ Len(F) = l
  <2>1. F \in [1..l -> ServerFrame]
    BY <1>3
  <2> HIDE DEF F, l
  <2>2. F \in Seq(ServerFrame)
    BY <1>2, <2>1, SeqDef
  <2> QED
    BY <1>2, <2>1, <2>2, LenProperties
<1>5. \A i \in DOMAIN F : F[i].type = "Snapshot" /\ (F[i].complete => i = Len(F))
  <2>1. ASSUME NEW i \in 1..l PROVE F[i].type = "Snapshot" /\ (F[i].complete => i = l)
    <3>1. F[i] = [type |-> "Snapshot", row |-> h + i - 1, complete |-> h + i - 1 = Len(snaps)]
      BY <2>1
    <3>2. h + i - 1 = Len(snaps) => i = l
      BY <1>2
    <3> QED
      BY <3>1, <3>2
  <2>2. DOMAIN F = 1..l
    OBVIOUS
  <2> HIDE DEF F, l
  <2> QED
    BY <1>4, <2>1, <2>2
<1>6. ToClient(c, F)
  BY <1>1
<1> HIDE DEF F
<1>7. Live(c) => dev[c[1]].state = "Bootstrapping" /\ Settled(c2s'[c], sess[c].task, s2c[c])
  BY <1>1, SessionTakes DEF IsRequest, AskedIn
<1>8. \A n : \A i \in DOMAIN F : AwaitedIn("Bootstrapping", n, F[i]) /\ (IsFinal(F[i]) => i = Len(F))
  BY <1>5 DEF AwaitedIn, IsFinal
<1>9. Live(c) => Exchange(dev[c[1]].state, dev[c[1]].inFlight, c2s'[c], sess[c].task, s2c[c] \o F)
  <2>1. s2c[c] \in Seq(ServerFrame)
    BY WireTypes
  <2>2. PICK r : r = c2s'[c]
    OBVIOUS
  <2>3. Live(c) => Exchange(dev[c[1]].state, dev[c[1]].inFlight, r, sess[c].task, s2c[c] \o F)
    BY <1>4, <1>7, <1>8, <2>1, <2>2, ChainSent
  <2> QED
    BY <2>2, <2>3
<1>10. SessionOnly(c)
  BY <1>1, <1>6, SessionTakes, Delivers DEF SessionOnly
<1> QED
  BY <1>1, <1>6, <1>9, <1>10, SessionTakes, Delivers, SessionAt

\* push_snapshot, second half, answers nothing.
LEMMA InsertExchange ==
  ASSUME IInv, ExchangeInv, NEW c \in Conn, InsertSnapshot(c)
  PROVE  ExchangeInv'
<1> DEFINE v == [sess[c] EXCEPT !.task = NoTask]
<1>1. /\ sess[c].task.kind = "snap" /\ c2s' = c2s /\ s2c' = s2c /\ UNCHANGED <<dev, link, dialed>>
      /\ sess' = [sess EXCEPT ![c].task = NoTask]
  BY DEF InsertSnapshot, clientVars
<1>2. sess' = [sess EXCEPT ![c] = v] /\ v.task = NoTask
  BY <1>1, WireFunctions DEF NoSession
<1> HIDE DEF v
<1>3. SessionOnly(c) /\ sess'[c] = v
  BY <1>1, <1>2, OneSession
<1>4. sess[c].up
  BY <1>1, SessionFacts
<1>5. Live(c) => Exchange(dev[c[1]].state, dev[c[1]].inFlight, c2s[c], NoTask, s2c[c])
  BY Served DEF Exchange, WorksOn, Answering, NoTask
<1> QED
  BY <1>1, <1>2, <1>3, <1>4, <1>5, SessionAt

\* Every step of a session keeps every exchange.
LEMMA SessionExchange ==
  ASSUME IInv, ExchangeInv, NEW c \in Conn, SessionStep(c)
  PROVE  ExchangeInv'
BY OpenExchange, EndingExchange, PushBeginExchange, FinishExchange, PullExchange, BatchExchange,
   AckExchange, ChainExchange, InsertExchange, BroadcastExchange DEF SessionStep

\* The server's own tasks leave the wire alone; a restart ends every session.
LEMMA ServerExchange ==
  ASSUME IInv, ExchangeInv, Compact \/ ExpireLease \/ (\E d \in Device : Enrol(d)) \/ Restart
  PROVE  ExchangeInv'
<1> SUFFICES ASSUME NEW c \in Conn PROVE ConnOK(c)'
  BY DEF ExchangeInv
<1>1. ConnOK(c)
  BY DEF ExchangeInv
<1>2. CASE Compact \/ ExpireLease \/ \E d \in Device : Enrol(d)
  <2>1. UNCHANGED <<dev, link, dialed, c2s, s2c, sess>>
    BY <1>2 DEF Compact, ExpireLease, Enrol, clientVars, wireVars
  <2> QED
    BY <1>1, <2>1 DEF ConnOK, Live
<1>3. CASE Restart
  <2>1. UNCHANGED <<dev, link, dialed, s2c>> /\ sess'[c] = NoSession /\ c2s'[c] = <<>>
    BY <1>3 DEF Restart, clientVars
  <2>2. NoSession.task = NoTask
    BY DEF NoSession
  <2>3. Live(c) => Exchange(dev[c[1]].state, dev[c[1]].inFlight, <<>>, NoTask, s2c[c])
    BY Served, SessionGone
  <2> QED
    BY <1>1, <2>1, <2>2, <2>3 DEF ConnOK, Live
<1> QED
  BY <1>2, <1>3

\* At the start nothing was dialed.
LEMMA InitExchange == Init => ExchangeInv
<1> SUFFICES ASSUME Init, NEW c \in Conn PROVE ConnOK(c)
  BY DEF ExchangeInv
<1>1. c[1] \in Device /\ c[2] \in Nat /\ c[2] > 0
  BY InitInv, WireTypes
<1>2. sess[c] = NoSession /\ c2s[c] = <<>> /\ s2c[c] = <<>> /\ link[c[1]] = 0
  BY <1>1 DEF Init
<1> QED
  BY <1>1, <1>2 DEF ConnOK, Live

\* Every step keeps every exchange.
LEMMA NextExchange ==
  ASSUME IInv, ExchangeInv, [Next]_vars
  PROVE  ExchangeInv'
<1>1. CASE Next
  BY <1>1, EngineExchange, SessionExchange, ServerExchange DEF Next
<1>2. CASE UNCHANGED vars
  <2>1. UNCHANGED <<dev, link, dialed, c2s, s2c, sess>>
    BY <1>2 DEF vars, clientVars, wireVars
  <2> QED
    BY <2>1 DEF ExchangeInv, ConnOK, Live
<1> QED
  BY <1>1, <1>2

\* An exchange has no frame its engine has no use for.
LEMMA ExpectedFrames == IInv /\ ExchangeInv => NoUnexpectedFrame
<1> SUFFICES ASSUME IInv, ExchangeInv, NEW d \in Device, link[d] # 0, Inbox(d) # <<>>
             PROVE  LET f == Head(Inbox(d))
                        st == dev[d].state
                    IN /\ f.type = "DocOpened" => st = "Opening"
                       /\ f.type = "UpdatesBatch" => st # "Bootstrapping"
                       /\ f.type = "UpdatesAck" => st = "Pushing" /\ dev[d].inFlight = f.push
                       /\ f.type = "SnapshotRequired" => st = "Pulling"
                       /\ f.type = "Snapshot" => st = "Bootstrapping"
  BY DEF NoUnexpectedFrame
<1>1. MyConn(d) \in Conn /\ Inbox(d) = s2c[MyConn(d)]
  BY Current DEF Inbox
<1>2. s2c[MyConn(d)] \in Seq(ServerFrame)
  BY <1>1, WireTypes
<1>3. IsReply(Head(Inbox(d))) => AwaitedIn(dev[d].state, dev[d].inFlight, Head(Inbox(d)))
  BY <1>1, <1>2, Current, ReplyRead
<1> QED
  BY <1>3 DEF IsReply, AwaitedIn

\* The request and reply protocol of a connection is kept: whatever drops,
\* crashes, restarts, retries and overtakes, an engine never meets a reply in
\* a state that has no use for it, and an ack is for the push in flight.
THEOREM FramesAreExpected == Spec => []NoUnexpectedFrame
<1>1. Spec => []IInv
  BY Invariance
<1>2. Init => ExchangeInv
  BY InitExchange
<1>3. IInv /\ ExchangeInv /\ [Next]_vars => ExchangeInv'
  BY NextExchange
<1>4. IInv /\ ExchangeInv => NoUnexpectedFrame
  BY ExpectedFrames
<1> QED
  BY <1>1, <1>2, <1>3, <1>4, PTL DEF Spec

-----------------------------------------------------------------------------
(* One row for a push *)

\* Rows are added by the first half of push_updates and deleted by compaction.
LEMMA TableKept ==
  ASSUME [Next]_vars
  PROVE  \/ UNCHANGED <<log, purged>>
         \/ \E c \in Conn : RecvPushUpdates(c)
         \/ Compact
<1>1. ASSUME NEW d \in Device, EngineStep(d) PROVE UNCHANGED <<log, purged>>
  <2>1. ASSUME Commit(d) \/ CaptureLocalOps(d) \/ FoldWal(d) \/ NotifyOplogDurable(d) \/ Connect(d)
               \/ Disconnect(d) \/ Crash(d) \/ Flush(d) \/ DropFrame(d) \/ CrashMidBatch(d)
               \/ CrashMidCheckpoint(d)
        PROVE  serverVars' = serverVars
    BY <2>1 DEF Commit, CaptureLocalOps, FoldWal, NotifyOplogDurable, Connect, Disconnect, Crash,
                RebootFrom, Flush, DropFrame, CrashMidBatch, CrashMidCheckpoint
  <2>2. ASSUME HandleDocOpened(d) \/ HandleUpdatesBatch(d) \/ HandleUpdatesBroadcast(d)
               \/ HandleUpdatesAck(d) \/ HandleSnapshotRequired(d) \/ HandleSnapshot(d)
               \/ HandleSnapshotRequest(d)
        PROVE  serverVars' = serverVars
    BY <2>2 DEF HandleDocOpened, HandleUpdatesBatch, HandleUpdatesBroadcast, HandleUpdatesAck,
                HandleSnapshotRequired, HandleSnapshot, HandleSnapshotRequest
  <2>3. serverVars' = serverVars
    BY <1>1, <2>1, <2>2 DEF EngineStep
  <2> QED
    BY <2>3 DEF serverVars
<1>2. ASSUME NEW c \in Conn, SessionStep(c)
      PROVE  UNCHANGED <<log, purged>> \/ RecvPushUpdates(c)
  BY <1>2 DEF SessionStep, RecvOpenDoc, RecvDocNotOpen, FinishPush, RecvPullUpdates, PullBatch,
              RecvAck, RecvPullSnapshot, RecvPushSnapshot, InsertSnapshot, SendBroadcast, Lagged,
              SendFails, SessionClosed, serverVars
<1>3. ASSUME ExpireLease \/ (\E d \in Device : Enrol(d)) \/ Restart PROVE UNCHANGED <<log, purged>>
  BY <1>3 DEF ExpireLease, Enrol, Restart
<1>4. ASSUME UNCHANGED vars PROVE UNCHANGED <<log, purged>>
  BY <1>4 DEF vars, serverVars
<1> QED
  BY <1>1, <1>2, <1>3, <1>4 DEF Next

\* insert_updates looks for the row of a push id before it adds one.
LEMMA NextRows ==
  ASSUME IInv, RowsUnique, [Next]_vars
  PROVE  RowsUnique'
<1>1. log \in Seq([dev: Device, push: Nat]) /\ purged \in Nat /\ Len(log) \in Nat
  BY InvTypes DEF TypeOK
<1>2. CASE UNCHANGED <<log, purged>>
  BY <1>2 DEF RowsUnique
<1>3. ASSUME NEW c \in Conn, RecvPushUpdates(c) PROVE RowsUnique'
  <2> DEFINE n == Frame(c).push
             row == [dev |-> c[1], push |-> n]
  <2>1. purged' = purged /\ (log' = log \/ (Stored(c[1], n) = {} /\ log' = Append(log, row)))
    BY <1>3 DEF RecvPushUpdates
  <2>2. CASE log' = log
    BY <2>1, <2>2 DEF RowsUnique
  <2>3. CASE Stored(c[1], n) = {} /\ log' = Append(log, row)
    <3>1. \A i \in purged + 1 .. Len(log) : log[i] # row
      BY <2>3 DEF Stored
    <3> HIDE DEF row
    <3>2. /\ Len(log') = Len(log) + 1 /\ log'[Len(log) + 1] = row
          /\ \A i \in purged + 1 .. Len(log) : log'[i] = log[i]
      BY <1>1, <2>3
    <3>3. \A i \in purged + 1 .. Len(log) + 1 : i \in purged + 1 .. Len(log) \/ i = Len(log) + 1
      BY <1>1
    <3>4. ASSUME NEW i \in purged + 1 .. Len(log) + 1, NEW j \in purged + 1 .. Len(log) + 1, log'[i] = log'[j]
          PROVE  i = j
      BY <3>1, <3>2, <3>3, <3>4 DEF RowsUnique
    <3> QED
      BY <2>1, <3>2, <3>4 DEF RowsUnique
  <2> QED
    BY <2>1, <2>2, <2>3
<1>4. CASE Compact
  <2>1. log' = log /\ purged' = MaxOf(purged, PrevFloor)
    BY <1>4 DEF Compact
  <2>2. PrevFloor \in Nat
    <3>1. snaps \in Seq(SnapRow)
      BY InvTypes DEF TypeOK
    <3>2. snaps # <<>> => snaps[Len(snaps)] \in SnapRow
      BY <3>1
    <3> QED
      BY <3>2 DEF PrevFloor, Latest, SnapRow
  <2>3. PICK p : p = purged'
    OBVIOUS
  <2>4. p \in Nat /\ purged <= p
    BY <1>1, <2>1, <2>2, <2>3 DEF MaxOf
  <2>5. \A i \in p + 1 .. Len(log) : i \in purged + 1 .. Len(log)
    BY <1>1, <2>4
  <2> QED
    BY <2>1, <2>3, <2>5 DEF RowsUnique
<1> QED
  BY <1>2, <1>3, <1>4, TableKept

\* A retried push is stored once: the updates table never has two rows for a
\* push id, and until compaction deletes rows no push was ever given two
\* sequence numbers, whatever connection or session a retry arrives on.
THEOREM RetriesAreStoredOnce == Spec => [](RowsUnique /\ (purged = 0 => OneRowPerPush))
<1>1. Spec => []IInv
  BY Invariance
<1>2. Init => RowsUnique
  BY DEF Init, RowsUnique
<1>3. IInv /\ RowsUnique /\ [Next]_vars => RowsUnique'
  BY NextRows
<1>4. RowsUnique => (RowsUnique /\ (purged = 0 => OneRowPerPush))
  BY DEF RowsUnique, OneRowPerPush
<1> QED
  BY <1>1, <1>2, <1>3, <1>4, PTL DEF Spec
=============================================================================
