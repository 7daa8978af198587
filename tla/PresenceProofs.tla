--------------------------- MODULE PresenceProofs ---------------------------
(***************************************************************************)
(* PresenceAgrees: what a client shows of a document, once its channel is  *)
(* read, is who has subscribed to it. The argument is about the registry   *)
(* and the sessions alone: a subscriber hears of every change of the set   *)
(* of accounts or is stale until the next one it hears of, and it hears of *)
(* its own end only when it is no subscriber any more.                     *)
(***************************************************************************)
EXTENDS SessionProofs, FiniteSetTheorems

AccountsOf(cs, ks) == {cs[k].account : k \in ks}

\* The session s takes part in d, among the accounts who.
Hears(s, d, who) ==
  /\ s.up /\ d \in s.open
  /\ ~HasEnd(s.queue[d])
  /\ d \notin s.stale => Tells(s.queue[d], s.shown[d], who)

Current(cs, ss) ==
  /\ \A k \in Conn : DOMAIN cs[k].shown = Doc
  /\ \A d \in Doc : IsFiniteSet(ss[d])
  /\ \A d \in Doc : \A k \in ss[d] : Hears(cs[k], d, AccountsOf(cs, ss[d]))

\* The invariant, one session and document at a time.
LEMMA CurrentIs == Subscribers /\ PresenceAgrees <=> Current(conns, subs)
BY DEF Subscribers, PresenceAgrees, Current, Hears, AccountsOf, AccountSet, Closing, HasEnd, Ends

\* The same after a step.
LEMMA CurrentWillBe == Subscribers' /\ PresenceAgrees' <=> Current(conns', subs')
BY DEF Subscribers, PresenceAgrees, Current, Hears, AccountsOf, AccountSet, Closing, HasEnd, Ends

-----------------------------------------------------------------------------
(* Channels *)

\* A presence message that is queued is the last one.
LEMMA TellsLast ==
  ASSUME NEW q \in Seq(Message), NEW d \in Doc, NEW who, NEW shown,
         Presence(d, who) \in Message
  PROVE  /\ Tells(Append(q, Presence(d, who)), shown, who)
         /\ ~HasEnd(q) => ~HasEnd(Append(q, Presence(d, who)))
<1> DEFINE msg == Presence(d, who)
           r == Append(q, msg)
           news == {j \in DOMAIN r : r[j].t = "Presence"}
<1>1. msg.t = "Presence" /\ msg.who = who BY DEF Presence
<1> HIDE DEF msg
<1>2. Len(q) \in Nat /\ DOMAIN q = 1..Len(q) /\ DOMAIN r = 1..(Len(q) + 1) OBVIOUS
<1>3. r[Len(q) + 1] = msg /\ \A j \in DOMAIN q : r[j] = q[j] OBVIOUS
<1> HIDE DEF r
<1>4. Len(q) + 1 \in news /\ \A i \in news : i <= Len(q) + 1 BY <1>1, <1>2, <1>3
<1>5. Tells(r, shown, who) BY <1>1, <1>3, <1>4 DEF Tells
<1>6. ~HasEnd(q) => ~HasEnd(r) BY <1>1, <1>2, <1>3 DEF HasEnd, Ends
<1> QED BY <1>5, <1>6 DEF r, msg

\* To read a presence message is to show it.
LEMMA TellsRead ==
  ASSUME NEW q \in Seq(Message), q # <<>>, Head(q).t = "Presence", NEW shown, NEW who,
         Tells(q, shown, who)
  PROVE  Tells(Tail(q), Head(q).who, who)
<1> DEFINE r == Tail(q)
           news == {j \in DOMAIN q : q[j].t = "Presence"}
           rest == {j \in DOMAIN r : r[j].t = "Presence"}
<1>1. Len(q) \in Nat /\ Len(q) >= 1 /\ DOMAIN q = 1..Len(q) /\ DOMAIN r = 1..(Len(q) - 1) OBVIOUS
<1>2. Head(q) = q[1] /\ \A j \in DOMAIN r : r[j] = q[j + 1] BY <1>1
<1> HIDE DEF r
<1>3. 1 \in news BY <1>1, <1>2
<1>4. PICK j \in news : (\A i \in news : i <= j) /\ q[j].who = who BY <1>3 DEF Tells
<1>6. CASE j = 1
  <2>1. rest = {}
    <3>1. ASSUME NEW i \in rest PROVE FALSE
      <4>1. i + 1 \in news /\ i \in 1..(Len(q) - 1) BY <1>1, <1>2, <3>1
      <4> QED BY <1>1, <1>4, <1>6, <4>1
    <3> QED BY <3>1
  <2> QED BY <1>2, <1>4, <1>6, <2>1 DEF Tells, r
<1>7. CASE j # 1
  <2>1. j \in 1..Len(q) /\ j - 1 \in DOMAIN r BY <1>1, <1>4, <1>7
  <2>2. r[j - 1] = q[j] BY <1>2, <2>1
  <2>3. j - 1 \in rest BY <1>4, <2>1, <2>2
  <2>4. \A i \in rest : i <= j - 1
    <3> SUFFICES ASSUME NEW i \in rest PROVE i <= j - 1 OBVIOUS
    <3>1. i + 1 \in news /\ i \in 1..(Len(q) - 1) BY <1>1, <1>2
    <3> QED BY <1>1, <1>4, <2>1, <3>1
  <2>5. Tells(r, Head(q).who, who) BY <1>4, <2>2, <2>3, <2>4 DEF Tells
  <2> QED BY <2>5 DEF r
<1> QED BY <1>6, <1>7

\* It brings no end.
LEMMA NoEndRead ==
  ASSUME NEW q \in Seq(Message), q # <<>>, ~HasEnd(q)
  PROVE  ~HasEnd(Tail(q))
<1>1. \A j \in DOMAIN Tail(q) : j + 1 \in DOMAIN q /\ Tail(q)[j] = q[j + 1] OBVIOUS
<1> QED BY <1>1 DEF HasEnd

\* A message for d, queued or lost, concerns no other document.
LEMMA SentApart ==
  ASSUME NEW s, SessionOK(s), NEW d \in Doc, NEW msg
  PROVE  LET r == Sent(s, d, msg)
         IN /\ r.up = s.up /\ r.account = s.account /\ r.open = s.open /\ r.shown = s.shown
            /\ \A e \in Doc \ {d} : r.queue[e] = s.queue[e] /\ (e \in r.stale <=> e \in s.stale)
<1> DEFINE good(r) == /\ r.up = s.up /\ r.account = s.account /\ r.open = s.open
                      /\ r.shown = s.shown
                      /\ \A e \in Doc \ {d} : /\ r.queue[e] = s.queue[e]
                                               /\ e \in r.stale <=> e \in s.stale
<1>1. DOMAIN s = DOMAIN Down /\ DOMAIN s.queue = Doc BY DEF SessionOK
<1>2. CASE d \in s.full /\ msg.t = "Presence"
  <2>1. Sent(s, d, msg) = [s EXCEPT !.stale = s.stale \cup {d}] BY <1>2 DEF Sent
  <2> QED BY <1>1, <2>1 DEF Down
<1>3. CASE d \in s.full /\ msg.t # "Presence"
  <2>1. Sent(s, d, msg) = [s EXCEPT !.queue = [s.queue EXCEPT ![d] = Append(s.queue[d], Frame("End", d))]]
    BY <1>1, <1>3 DEF Sent, Down
  <2> QED BY <1>1, <2>1 DEF Down
<1>4. CASE d \notin s.full
  <2> DEFINE stale == IF msg.t = "Presence" THEN s.stale \ {d} ELSE s.stale
             queue == [s.queue EXCEPT ![d] = Append(s.queue[d], msg)]
  <2>1. Sent(s, d, msg) = [s EXCEPT !.queue = queue, !.stale = stale]
    BY <1>1, <1>4 DEF Sent, Down
  <2>2. \A e \in Doc \ {d} : queue[e] = s.queue[e] /\ (e \in stale <=> e \in s.stale) BY <1>1
  <2> HIDE DEF queue, stale
  <2> QED BY <1>1, <2>1, <2>2 DEF Down
<1> QED BY <1>2, <1>3, <1>4

\* A session is sent a presence message: it will show it, or it is stale.
LEMMA OneTold ==
  ASSUME NEW s, SessionOK(s), NEW d \in Doc, NEW who, Presence(d, who) \in Message
  PROVE  LET r == Sent(s, d, Presence(d, who))
         IN /\ r.account = s.account /\ r.shown = s.shown
            /\ s.up /\ d \in s.open /\ ~HasEnd(s.queue[d]) => Hears(r, d, who)
            /\ \A e \in Doc \ {d} : \A w : Hears(s, e, w) => Hears(r, e, w)
<1> DEFINE msg == Presence(d, who)
           r == Sent(s, d, msg)
<1>1. /\ DOMAIN s = DOMAIN Down /\ s.queue \in [Doc -> Seq(Message)]
      /\ s.queue[d] \in Seq(Message) /\ msg.t = "Presence"
  BY DEF SessionOK, Presence
<1>2. /\ r.up = s.up /\ r.account = s.account /\ r.open = s.open /\ r.shown = s.shown
      /\ \A e \in Doc \ {d} : r.queue[e] = s.queue[e] /\ (e \in r.stale <=> e \in s.stale)
  BY SentApart
<1>3. CASE d \in s.full
  <2>1. r = [s EXCEPT !.stale = s.stale \cup {d}] BY <1>1, <1>3 DEF Sent
  <2>2. r.queue = s.queue /\ d \in r.stale BY <1>1, <2>1 DEF Down
  <2> HIDE DEF r
  <2>3. s.up /\ d \in s.open /\ ~HasEnd(s.queue[d]) => Hears(r, d, who) BY <1>2, <2>2 DEF Hears
  <2>4. \A e \in Doc \ {d} : \A w : Hears(s, e, w) => Hears(r, e, w) BY <1>2 DEF Hears
  <2> QED BY <1>2, <2>3, <2>4 DEF r, msg
<1>4. CASE d \notin s.full
  <2> DEFINE queue == [s.queue EXCEPT ![d] = Append(s.queue[d], msg)]
             stale == s.stale \ {d}
  <2>1. r = [s EXCEPT !.queue = queue, !.stale = stale]
    <3> HIDE DEF msg
    <3> QED BY <1>1, <1>4 DEF Sent, Down
  <2>2. queue[d] = Append(s.queue[d], msg) BY <1>1
  <2>3. Tells(queue[d], s.shown[d], who) /\ (~HasEnd(s.queue[d]) => ~HasEnd(queue[d]))
    BY <1>1, <2>2, TellsLast
  <2> HIDE DEF queue
  <2>4. r.queue = queue BY <1>1, <2>1 DEF Down
  <2> HIDE DEF r
  <2>5. s.up /\ d \in s.open /\ ~HasEnd(s.queue[d]) => Hears(r, d, who)
    BY <1>2, <2>3, <2>4 DEF Hears
  <2>6. \A e \in Doc \ {d} : \A w : Hears(s, e, w) => Hears(r, e, w) BY <1>2 DEF Hears
  <2> QED BY <1>2, <2>5, <2>6 DEF r, msg
<1> QED BY <1>3, <1>4

\* The channels of some of the connections.
LEMMA AllTold ==
  ASSUME NEW cs, Typed(cs), NEW d \in Doc, NEW who, Presence(d, who) \in Message, NEW ks,
         NEW k \in Conn
  PROVE  LET r == Queued(cs, d, ks, Presence(d, who))[k]
         IN /\ r.account = cs[k].account /\ r.shown = cs[k].shown
            /\ k \notin ks => r = cs[k]
            /\ k \in ks /\ cs[k].up /\ d \in cs[k].open /\ ~HasEnd(cs[k].queue[d]) => Hears(r, d, who)
            /\ \A e \in Doc \ {d} : \A w : Hears(cs[k], e, w) => Hears(r, e, w)
<1> DEFINE r == Sent(cs[k], d, Presence(d, who))
<1>1. Queued(cs, d, ks, Presence(d, who))[k] = IF k \in ks THEN r ELSE cs[k] BY DEF Queued
<1>2. SessionOK(cs[k]) BY DEF Typed
<1>3. /\ r.account = cs[k].account /\ r.shown = cs[k].shown
      /\ cs[k].up /\ d \in cs[k].open /\ ~HasEnd(cs[k].queue[d]) => Hears(r, d, who)
      /\ \A e \in Doc \ {d} : \A w : Hears(cs[k], e, w) => Hears(r, e, w)
  BY <1>2, OneTold
<1> HIDE DEF r
<1> QED BY <1>1, <1>3

\* A message on the channels of d, of connections that may have been dropped
\* from its subscribers, concerns no other document.
LEMMA OthersHear ==
  ASSUME NEW cs, Typed(cs), NEW d \in Doc, NEW msg \in Message, NEW ks, NEW k \in Conn
  PROVE  LET r == Queued(cs, d, ks, msg)[k]
         IN /\ r.account = cs[k].account /\ r.shown = cs[k].shown
            /\ k \notin ks => r = cs[k]
            /\ \A e \in Doc \ {d} : \A w : Hears(cs[k], e, w) => Hears(r, e, w)
<1> DEFINE s == cs[k]
           q == Sent(s, d, msg)
<1>1. Queued(cs, d, ks, msg)[k] = IF k \in ks THEN q ELSE s BY DEF Queued
<1>2. SessionOK(s) BY DEF Typed
<1> HIDE DEF s
<1>3. /\ q.up = s.up /\ q.account = s.account /\ q.open = s.open /\ q.shown = s.shown
      /\ \A e \in Doc \ {d} : q.queue[e] = s.queue[e] /\ (e \in q.stale <=> e \in s.stale)
  BY <1>2, SentApart
<1> HIDE DEF q
<1>5. \A e \in Doc \ {d} : \A w : Hears(s, e, w) => Hears(q, e, w) BY <1>3 DEF Hears
<1>6. LET r == IF k \in ks THEN q ELSE s
      IN /\ r.account = s.account /\ r.shown = s.shown
         /\ k \notin ks => r = s
         /\ \A e \in Doc \ {d} : \A w : Hears(s, e, w) => Hears(r, e, w)
  BY <1>3, <1>5
<1> QED BY <1>1, <1>6 DEF s

-----------------------------------------------------------------------------
(* Sessions *)

\* A session changes by itself.
LEMMA OneHears ==
  ASSUME Sessions, Current(conns, subs), subs' = subs, NEW k \in Conn, NEW s,
         conns' = [conns EXCEPT ![k] = s], DOMAIN s.shown = Doc,
         \A d \in Doc : k \in subs[d] =>
           /\ s.account = conns[k].account
           /\ \A who : Hears(conns[k], d, who) => Hears(s, d, who)
  PROVE  Current(conns', subs')
<1>1. \A j \in Conn : conns'[j] = IF j = k THEN s ELSE conns[j] BY DEF Sessions
<1>2. ASSUME NEW d \in Doc, NEW j \in subs[d]
      PROVE  Hears(conns'[j], d, AccountsOf(conns', subs[d]))
  <2>1. subs[d] \subseteq Conn BY DEF Sessions
  <2>2. \A i \in subs[d] : conns'[i].account = conns[i].account BY <1>1, <2>1
  <2>3. AccountsOf(conns', subs[d]) = AccountsOf(conns, subs[d]) BY <2>2 DEF AccountsOf
  <2>4. Hears(conns[j], d, AccountsOf(conns, subs[d])) BY DEF Current
  <2>5. PICK who : who = AccountsOf(conns, subs[d]) OBVIOUS
  <2>6. Hears(conns'[j], d, who) BY <1>1, <2>1, <2>4, <2>5
  <2> QED BY <2>3, <2>5, <2>6
<1> QED BY <1>1, <1>2 DEF Current

\* A session that is left alone but for what presence does not see.
LEMMA OneUnheard ==
  ASSUME Sessions, Current(conns, subs), subs' = subs, NEW k \in Conn, NEW s,
         conns' = [conns EXCEPT ![k] = s], s.up = conns[k].up, s.account = conns[k].account,
         s.open = conns[k].open, s.queue = conns[k].queue, s.shown = conns[k].shown,
         s.stale = conns[k].stale
  PROVE  Current(conns', subs')
<1>1. \A d \in Doc : \A who : Hears(conns[k], d, who) => Hears(s, d, who) BY DEF Hears
<1>2. DOMAIN s.shown = Doc BY DEF Current
<1> QED BY <1>1, <1>2, OneHears

\* A new session has subscribed to nothing.
LEMMA AcceptHears ==
  ASSUME Sessions, Current(conns, subs), NEW k \in Conn, NEW t, Accept(k, t)
  PROVE  Current(conns', subs')
<1> DEFINE a == DeviceAccount(t)
           s == [Down EXCEPT !.up = TRUE, !.token = t, !.account = a]
<1>1. conns' = [conns EXCEPT ![k] = s] /\ subs' = subs BY DEF Accept
<1>2. DOMAIN s.shown = Doc BY DEF Down
<1>3. \A d \in Doc : k \notin subs[d] BY DEF Accept, Current, Hears
<1> HIDE DEF s
<1> QED BY <1>1, <1>2, <1>3, OneHears

\* The account of a session that ends leaves, unless another session has it.
LEMMA EndedHears ==
  ASSUME Sessions, Current(conns, subs), NEW k \in Conn, NEW wire, Ended(k, wire)
  PROVE  Current(conns', subs')
<1> DEFINE who(d) == AccountSet(subs[d] \ {k})
           told(j, d) == d \in Leaving(j, k) \ conns[j].full
           queue(j) == [d \in Doc |-> IF told(j, d) THEN Append(conns[j].queue[d], Presence(d, who(d)))
                                      ELSE conns[j].queue[d]]
           stale(j) == (conns[j].stale \ Leaving(j, k)) \cup (Leaving(j, k) \cap conns[j].full)
           s(j) == [conns[j] EXCEPT !.queue = queue(j), !.stale = stale(j)]
           down == [Down EXCEPT !.wire = wire]
<1>1. \A d \in Doc : subs[d] \subseteq Conn BY DEF Sessions
<1>2. \A d \in Doc : Presence(d, who(d)) \in Message BY <1>1, Messages
<1>3. conns' = [j \in Conn |-> IF j = k THEN down ELSE s(j)] BY DEF Ended, Sessions
<1>4. subs' = [d \in Doc |-> subs[d] \ {k}] BY DEF Ended
<1>5. ASSUME NEW j \in Conn
      PROVE  DOMAIN conns[j] = DOMAIN Down /\ conns[j].queue \in [Doc -> Seq(Message)]
  BY DEF Sessions, SessionOK
<1>6. ASSUME NEW j \in Conn
      PROVE  /\ s(j).up = conns[j].up /\ s(j).account = conns[j].account
             /\ s(j).open = conns[j].open /\ s(j).shown = conns[j].shown /\ s(j).queue = queue(j)
             /\ s(j).stale = stale(j)
  <2> HIDE DEF queue, stale
  <2> QED BY <1>5 DEF Down
<1>7. DOMAIN down.shown = Doc BY DEF Down
<1>11. ASSUME NEW j \in Conn, NEW d \in Doc, j \in subs[d]
       PROVE  /\ d \in Leaving(j, k) <=> who(d) # AccountSet(subs[d])
              /\ d \in Leaving(j, k) /\ ~told(j, d) => d \in stale(j)
              /\ d \notin Leaving(j, k) => (d \in stale(j) <=> d \in conns[j].stale)
  BY <1>11 DEF Leaving
<1> HIDE DEF s, down, stale
<1>8. \A j \in Conn : DOMAIN conns'[j].shown = Doc BY <1>3, <1>6, <1>7 DEF Current
<1>9. \A d \in Doc : IsFiniteSet(subs'[d]) BY <1>4, FS_Subset DEF Current
<1>10. ASSUME NEW d \in Doc, NEW j \in subs'[d]
       PROVE  Hears(conns'[j], d, AccountsOf(conns', subs'[d]))
  <2>1. j \in Conn /\ j # k /\ j \in subs[d] /\ subs'[d] = subs[d] \ {k} BY <1>1, <1>4
  <2>2. conns'[j] = s(j) BY <1>3, <2>1
  <2>3. AccountsOf(conns', subs'[d]) = who(d)
    <3>1. \A i \in subs[d] \ {k} : conns'[i].account = conns[i].account BY <1>1, <1>3, <1>6
    <3> QED BY <2>1, <3>1 DEF AccountsOf, AccountSet
  <2>4. Hears(conns[j], d, AccountSet(subs[d])) BY <2>1 DEF Current, AccountSet, AccountsOf
  <2>5. conns[j].queue[d] \in Seq(Message) BY <1>5, <2>1
  <2>6. CASE told(j, d)
    <3>1. queue(j)[d] = Append(conns[j].queue[d], Presence(d, who(d))) BY <2>6
    <3>2. /\ Tells(queue(j)[d], conns[j].shown[d], who(d))
          /\ ~HasEnd(conns[j].queue[d]) => ~HasEnd(queue(j)[d])
      BY <1>2, <2>5, <3>1, TellsLast
    <3> HIDE DEF queue, who
    <3> QED BY <1>6, <2>1, <2>2, <2>3, <2>4, <3>2 DEF Hears
  <2>7. CASE ~told(j, d)
    <3>1. queue(j)[d] = conns[j].queue[d] BY <2>7
    <3>2. \/ d \in stale(j)
          \/ who(d) = AccountSet(subs[d]) /\ (d \in stale(j) <=> d \in conns[j].stale)
      <4> HIDE DEF told, who
      <4> QED BY <1>11, <2>1, <2>7
    <3> HIDE DEF queue, who, told
    <3> QED BY <1>6, <2>1, <2>2, <2>3, <2>4, <3>1, <3>2 DEF Hears
  <2> QED BY <2>6, <2>7
<1> QED BY <1>8, <1>9, <1>10 DEF Current

\* The membership is read, or the session ends.
LEMMA CanOpenHears ==
  ASSUME Sessions, Current(conns, subs), NEW k \in Conn, NEW d, CanOpen(k, d)
  PROVE  Current(conns', subs')
<1> DEFINE s == [conns[k] EXCEPT !.opening = d]
<1>1. CASE IsMember(d, conns[k].account)
  <2>1. DOMAIN conns[k] = DOMAIN Down BY DEF Sessions, SessionOK
  <2>2. conns' = [conns EXCEPT ![k] = s] /\ subs' = subs
    BY <1>1, <2>1 DEF CanOpen, Sessions, Down
  <2>3. /\ s.up = conns[k].up /\ s.account = conns[k].account /\ s.open = conns[k].open
        /\ s.queue = conns[k].queue /\ s.shown = conns[k].shown /\ s.stale = conns[k].stale
    BY <2>1 DEF Down
  <2> HIDE DEF s
  <2> QED BY <2>2, <2>3, OneUnheard
<1>2. CASE ~IsMember(d, conns[k].account) BY <1>2, EndedHears DEF CanOpen
<1> QED BY <1>1, <1>2

\* Someone alone with the document, with another session of the same account
\* or not, is the only account present.
LEMMA OnlyAccount ==
  ASSUME NEW S, NEW a \in S, IsFiniteSet(S), Cardinality(S) = 1
  PROVE  S = {a}
<1>1. PICK x : S = {x} BY FS_Singleton
<1> QED BY <1>1

\* A subscriber hears who is there, and the others of a new account.
LEMMA OpenDocHears ==
  ASSUME Sessions, Current(conns, subs), NEW k \in Conn, OpenDoc(k)
  PROVE  Current(conns', subs')
<1>7. PICK d : d = conns[k].opening OBVIOUS
<1> DEFINE ks == subs[d] \cup {k}
           a == conns[k].account
           who == AccountSet(ks)
           told == IF Cardinality(who) = 1 THEN {} ELSE IF who # AccountSet(subs[d]) THEN ks ELSE {k}
           wire == Append(conns[k].wire, Frame("DocOpened", d))
           late == IF IsMember(d, a) THEN conns[k].late ELSE conns[k].late \cup {d}
           again == [conns[k] EXCEPT !.opening = 0, !.wire = wire]
           queue == [conns[k].queue EXCEPT ![d] = <<>>]
           shown == [conns[k].shown EXCEPT ![d] = {a}]
           s == [again EXCEPT !.open = conns[k].open \cup {d}, !.queue = queue,
                              !.full = conns[k].full \ {d}, !.stale = conns[k].stale \ {d},
                              !.shown = shown, !.late = late]
           opened == [conns EXCEPT ![k] = s]
<1>1. SessionOK(conns[k]) /\ DOMAIN conns[k] = DOMAIN Down BY DEF Sessions, SessionOK
<1>2. d \in Doc /\ conns[k].up BY <1>1, <1>7 DEF OpenDoc, SessionOK
<1>3. Reopened(k, d) = [conns EXCEPT ![k] = again]
  BY <1>1 DEF Reopened, Sessions, Down
<1>4. /\ SessionOK(again) /\ DOMAIN again = DOMAIN conns[k]
      /\ again.up = conns[k].up /\ again.account = a /\ again.open = conns[k].open
      /\ again.late = conns[k].late /\ again.queue = conns[k].queue /\ again.shown = conns[k].shown
      /\ again.full = conns[k].full /\ again.stale = conns[k].stale
  BY <1>1 DEF SessionOK, Down
<1>5. CASE d \in conns[k].open /\ conns' = Reopened(k, d) /\ UNCHANGED subs
  <2> HIDE DEF again
  <2> QED BY <1>3, <1>4, <1>5, OneUnheard
<1>6. CASE d \notin conns[k].open
  <2>1. subs' = [subs EXCEPT ![d] = ks] BY <1>6, <1>7 DEF OpenDoc
  <2>2. conns' = Queued(opened, d, told, Presence(d, who))
    <3> DEFINE o == [Reopened(k, d) EXCEPT ![k] = Bound(@, d)]
    <3>1. conns' = Queued(o, d, told, Presence(d, who)) BY <1>6, <1>7 DEF OpenDoc
    <3>2. o = opened
      <4> HIDE DEF again, wire
      <4>1. Bound(again, d) = s BY <1>1, <1>4 DEF Bound, Down
      <4> HIDE DEF s
      <4> QED BY <1>3, <4>1 DEF Sessions
    <3> HIDE DEF o, opened, told, who
    <3> QED BY <3>1, <3>2
  <2>3. /\ queue \in [Doc -> Seq(Message)] /\ queue[d] = <<>>
        /\ \A e \in Doc \ {d} : queue[e] = conns[k].queue[e]
    <3>1. <<>> \in Seq(Message) OBVIOUS
    <3>2. conns[k].queue \in [Doc -> Seq(Message)] BY <1>1 DEF SessionOK
    <3> QED BY <1>2, <3>1, <3>2
  <2>4. /\ DOMAIN shown = Doc /\ shown[d] = {a}
        /\ \A e \in Doc \ {d} : shown[e] = conns[k].shown[e]
    BY <1>2 DEF Current
  <2>5. /\ SessionOK(s)
        /\ s.up = conns[k].up /\ s.account = a /\ s.open = conns[k].open \cup {d}
        /\ s.queue = queue /\ s.shown = shown /\ s.stale = conns[k].stale \ {d}
    <3> HIDE DEF again, queue, shown, late
    <3> QED BY <1>1, <1>2, <1>4, <2>3 DEF SessionOK, Down
  <2> HIDE DEF s
  <2>6. /\ Typed(opened) /\ opened[k] = s
        /\ \A j \in Conn : j # k => opened[j] = conns[j]
    BY <2>5 DEF Sessions, Typed
  <2>7. ks \subseteq Conn /\ subs \in [Doc -> SUBSET Conn] BY <1>2 DEF Sessions
  <2>8. Presence(d, who) \in Message BY <1>2, <2>7, Messages
  <2>9. k \notin subs[d] BY <1>2, <1>6 DEF Current, Hears
  <2>10. subs'[d] = ks /\ \A e \in Doc \ {d} : subs'[e] = subs[e] BY <1>2, <2>1, <2>7
  <2>11. \A e \in Doc : IsFiniteSet(subs'[e]) BY <1>2, <2>10, FS_AddElement DEF Current
  <2>12. IsFiniteSet(who)
    <3>1. IsFiniteSet(ks) BY <1>2, <2>10, <2>11
    <3> DEFINE f == [j \in ks |-> conns[j].account]
    <3>2. f \in Surjection(ks, who)
      <4>1. f \in [ks -> who] BY DEF AccountSet
      <4>2. \A x \in who : \E j \in ks : f[j] = x BY DEF AccountSet
      <4> QED BY <4>1, <4>2 DEF Surjection
    <3> HIDE DEF f, ks, who
    <3> QED BY <3>1, <3>2, FS_Surjection
  <2>13. ~HasEnd(queue[d]) /\ Tells(queue[d], {a}, {a})
    <3>1. DOMAIN queue[d] = {} BY <2>3
    <3> QED BY <3>1 DEF HasEnd, Tells
  <2>14. /\ opened[k].up /\ d \in opened[k].open /\ ~HasEnd(opened[k].queue[d])
         /\ Tells(opened[k].queue[d], opened[k].shown[d], {a})
    <3>1. d \in conns[k].open \cup {d} OBVIOUS
    <3> HIDE DEF opened, queue, shown, a
    <3> QED BY <1>2, <2>4, <2>5, <2>6, <2>13, <3>1
  <2>15. ASSUME NEW j \in Conn, NEW e \in Doc \ {d}, NEW w, Hears(conns[j], e, w)
         PROVE  Hears(opened[j], e, w)
    <3>1. CASE j # k BY <2>6, <2>15, <3>1
    <3>2. CASE j = k
      <4> HIDE DEF queue, shown
      <4> QED BY <2>3, <2>4, <2>5, <2>6, <2>15, <3>2 DEF Hears
    <3> QED BY <3>1, <3>2
  <2>16. \A j \in Conn : opened[j].account = conns[j].account /\ DOMAIN opened[j].shown = Doc
    BY <2>4, <2>5, <2>6 DEF Current
  <2>17. a \in who /\ \A j \in subs[d] : conns[j].account \in who BY DEF AccountSet
  <2> HIDE DEF opened
  <2>18. ASSUME NEW j \in Conn
         PROVE  /\ conns'[j].account = conns[j].account /\ DOMAIN conns'[j].shown = Doc
                /\ j \notin told => conns'[j] = opened[j]
                /\ j \in told /\ opened[j].up /\ d \in opened[j].open /\ ~HasEnd(opened[j].queue[d])
                   => Hears(conns'[j], d, who)
                /\ \A e \in Doc \ {d} : \A w : Hears(conns[j], e, w) => Hears(conns'[j], e, w)
    <3> HIDE DEF told, who
    <3> DEFINE r == Queued(opened, d, told, Presence(d, who))[j]
    <3>1. /\ r.account = opened[j].account /\ r.shown = opened[j].shown
          /\ j \notin told => r = opened[j]
          /\ j \in told /\ opened[j].up /\ d \in opened[j].open /\ ~HasEnd(opened[j].queue[d])
             => Hears(r, d, who)
          /\ \A e \in Doc \ {d} : \A w : Hears(opened[j], e, w) => Hears(r, e, w)
      BY <1>2, <2>6, <2>8, AllTold
    <3>2. conns'[j] = r BY <2>2
    <3> HIDE DEF r
    <3> QED BY <2>15, <2>16, <3>1, <3>2
  <2>19. ASSUME NEW e \in Doc PROVE AccountsOf(conns', subs'[e]) = AccountSet(subs'[e])
    <3>1. subs'[e] \subseteq Conn BY <2>7, <2>10
    <3> QED BY <2>18, <3>1 DEF AccountsOf, AccountSet
  <2>20. ASSUME NEW e \in Doc, NEW j \in subs'[e]
         PROVE  Hears(conns'[j], e, AccountsOf(conns', subs'[e]))
    <3>1. CASE e # d
      <4>1. j \in Conn /\ j \in subs[e] /\ subs'[e] = subs[e] BY <2>7, <2>10, <3>1
      <4>2. Hears(conns[j], e, AccountSet(subs[e])) BY <4>1 DEF Current, AccountsOf, AccountSet
      <4>3. PICK w : w = AccountSet(subs[e]) OBVIOUS
      <4>4. Hears(conns'[j], e, w) BY <2>18, <3>1, <4>1, <4>2, <4>3
      <4> QED BY <2>19, <4>1, <4>3, <4>4
    <3>2. CASE e = d
      <4>1. j \in ks /\ j \in Conn /\ AccountsOf(conns', subs'[d]) = who
        BY <1>2, <2>7, <2>10, <2>19, <3>2
      <4>2. opened[j].up /\ d \in opened[j].open /\ ~HasEnd(opened[j].queue[d])
        <5>1. CASE j = k BY <2>14, <5>1
        <5>2. CASE j # k BY <1>2, <2>6, <4>1, <5>2 DEF Current, Hears
        <5> QED BY <5>1, <5>2
      <4>3. CASE j \in told BY <2>18, <3>2, <4>1, <4>2, <4>3
      <4>4. CASE j \notin told
        <5>1. d \notin opened[j].stale => Tells(opened[j].queue[d], opened[j].shown[d], who)
          <6>1. CASE Cardinality(who) = 1
            <7>1. who = {a} BY <2>12, <2>17, <6>1, OnlyAccount
            <7>2. CASE j = k BY <2>14, <7>1, <7>2
            <7>3. CASE j # k
              <8>1. j \in subs[d] /\ opened[j] = conns[j] BY <2>6, <4>1, <7>3
              <8>2. AccountSet(subs[d]) = who
                BY <2>17, <7>1, <8>1 DEF AccountSet
              <8>3. Hears(conns[j], d, AccountSet(subs[d]))
                BY <1>2, <8>1 DEF Current, AccountsOf, AccountSet
              <8> HIDE DEF who
              <8> QED BY <8>1, <8>2, <8>3 DEF Hears
            <7> QED BY <7>2, <7>3
          <6>2. CASE Cardinality(who) # 1
            <7>1. who = AccountSet(subs[d]) /\ j # k /\ j \in subs[d] BY <4>1, <4>4, <6>2
            <7>2. opened[j] = conns[j] BY <2>6, <4>1, <7>1
            <7>3. Hears(conns[j], d, AccountSet(subs[d]))
              BY <1>2, <7>1 DEF Current, AccountsOf, AccountSet
            <7> HIDE DEF who
            <7> QED BY <7>1, <7>2, <7>3 DEF Hears
          <6> QED BY <6>1, <6>2
        <5> QED BY <2>18, <3>2, <4>1, <4>2, <4>4, <5>1 DEF Hears
      <4> QED BY <4>3, <4>4
    <3> QED BY <3>1, <3>2
  <2> QED BY <2>11, <2>18, <2>20 DEF Current
<1> QED BY <1>5, <1>6, <1>7 DEF OpenDoc

\* A presence message is shown; an end is none of a subscriber's.
LEMMA ForwardHears ==
  ASSUME Sessions, Current(conns, subs), NEW k \in Conn, NEW d \in Doc, Forward(k, d)
  PROVE  Current(conns', subs')
<1> DEFINE old == conns[k].queue
           msg == Head(old[d])
<1>1. /\ SessionOK(conns[k]) /\ DOMAIN conns[k] = DOMAIN Down
      /\ old \in [Doc -> Seq(Message)]
      /\ old[d] \in Seq(Message) /\ old[d] # <<>>
      /\ DOMAIN conns[k].shown = Doc
  BY DEF Sessions, SessionOK, Forward, Current
<1>2. msg.t \in {"Presence", "Close", "Unbind", "End"}
  <2>1. msg \in Message BY <1>1
  <2> HIDE DEF msg
  <2> QED BY <2>1 DEF Message
<1>3. CASE msg.t = "Presence"
  <2> DEFINE queue == [old EXCEPT ![d] = Tail(old[d])]
             shown == [conns[k].shown EXCEPT ![d] = msg.who]
             s == [conns[k] EXCEPT !.queue = queue, !.full = conns[k].full \ {d}, !.shown = shown]
  <2>1. conns' = [conns EXCEPT ![k] = s] /\ subs' = subs
    <3>1. /\ conns' = [conns EXCEPT ![k].queue[d] = Tail(@), ![k].full = @ \ {d},
                                    ![k].shown[d] = msg.who]
          /\ subs' = subs
      BY <1>3 DEF Forward
    <3> HIDE DEF msg
    <3> QED BY <1>1, <3>1 DEF Sessions, Down
  <2>2. /\ queue[d] = Tail(old[d]) /\ shown[d] = msg.who /\ DOMAIN shown = Doc
        /\ \A e \in Doc \ {d} : queue[e] = old[e] /\ shown[e] = conns[k].shown[e]
    <3> HIDE DEF msg
    <3> QED BY <1>1
  <2>3. ASSUME NEW who, Hears(conns[k], d, who)
        PROVE  /\ d \notin conns[k].stale => Tells(Tail(old[d]), msg.who, who)
               /\ ~HasEnd(Tail(old[d]))
    BY <1>1, <1>3, <2>3, TellsRead, NoEndRead DEF Hears
  <2> HIDE DEF queue, shown, msg
  <2>4. /\ s.up = conns[k].up /\ s.account = conns[k].account /\ s.open = conns[k].open
        /\ s.shown = shown /\ s.queue = queue /\ s.stale = conns[k].stale
    BY <1>1 DEF Down
  <2> HIDE DEF s
  <2>5. ASSUME NEW e \in Doc, NEW who, Hears(conns[k], e, who) PROVE Hears(s, e, who)
    <3>1. CASE e = d BY <2>2, <2>3, <2>4, <2>5, <3>1 DEF Hears
    <3>2. CASE e # d BY <2>2, <2>4, <2>5, <3>2 DEF Hears
    <3> QED BY <3>1, <3>2
  <2> QED BY <1>1, <2>1, <2>2, <2>4, <2>5, OneHears
<1>5. CASE msg.t = "End" BY <1>5, EndedHears DEF Forward
<1>4. CASE msg.t \in {"Close", "Unbind"}
  <2> DEFINE queue == [old EXCEPT ![d] = <<>>]
             wire == IF msg.t = "Close" THEN Append(conns[k].wire, Frame("DocClosed", d))
                     ELSE conns[k].wire
             u == [conns[k] EXCEPT !.open = conns[k].open \ {d}, !.queue = queue,
                                   !.full = conns[k].full \ {d}, !.late = conns[k].late \ {d},
                                   !.stale = conns[k].stale \ {d}]
             s == [u EXCEPT !.wire = wire]
  <2>1. Unbound(conns, k, d) = [conns EXCEPT ![k] = u]
    BY <1>1 DEF Unbound, Sessions, Down
  <2>2. conns' = [conns EXCEPT ![k] = s] /\ subs' = subs
    <3>1. DOMAIN u = DOMAIN conns[k] /\ u.wire = conns[k].wire BY <1>1 DEF Down
    <3>3. CASE msg.t = "Close"
      <4>1. /\ conns' = [Unbound(conns, k, d) EXCEPT ![k].wire = Append(@, Frame("DocClosed", d))]
            /\ subs' = subs
        BY <3>3 DEF Forward
      <4>2. wire = Append(conns[k].wire, Frame("DocClosed", d)) BY <3>3
      <4> HIDE DEF u, wire, queue, msg
      <4> QED BY <1>1, <2>1, <3>1, <4>1, <4>2 DEF Sessions
    <3>4. CASE msg.t = "Unbind"
      <4>1. conns' = Unbound(conns, k, d) /\ subs' = subs BY <3>4 DEF Forward
      <4>2. wire = conns[k].wire BY <3>4
      <4>3. s = u BY <1>1, <4>2 DEF Down
      <4> HIDE DEF wire, s, u, queue, msg
      <4> QED BY <2>1, <4>1, <4>3
    <3> QED BY <1>4, <3>3, <3>4
  <2>3. \A e \in Doc \ {d} : queue[e] = old[e] BY <1>1
  <2>4. HasEnd(old[d])
    <3>1. 1 \in DOMAIN old[d] /\ old[d][1] = msg BY <1>1
    <3> HIDE DEF msg
    <3> QED BY <1>4, <3>1 DEF HasEnd, Ends
  <2> HIDE DEF queue, wire, msg
  <2>5. /\ s.up = conns[k].up /\ s.account = conns[k].account /\ s.open = conns[k].open \ {d}
        /\ s.shown = conns[k].shown /\ s.queue = queue /\ s.stale = conns[k].stale \ {d}
    BY <1>1 DEF Down
  <2> HIDE DEF s
  <2>6. ASSUME NEW e \in Doc, NEW who, Hears(conns[k], e, who) PROVE Hears(s, e, who)
    BY <2>3, <2>4, <2>5, <2>6 DEF Hears
  <2> QED BY <1>1, <2>2, <2>5, <2>6, OneHears
<1> QED BY <1>2, <1>3, <1>4, <1>5

\* A channel that has room again carries what it did.
LEMMA DrainHears ==
  ASSUME Sessions, Current(conns, subs), NEW k \in Conn, NEW d, Drain(k, d)
  PROVE  Current(conns', subs')
<1> DEFINE s == [conns[k] EXCEPT !.full = conns[k].full \ {d}]
<1>1. DOMAIN conns[k] = DOMAIN Down BY DEF Sessions, SessionOK
<1>2. conns' = [conns EXCEPT ![k] = s] /\ subs' = subs BY <1>1 DEF Drain, Sessions, Down
<1>3. /\ s.up = conns[k].up /\ s.account = conns[k].account /\ s.open = conns[k].open
      /\ s.queue = conns[k].queue /\ s.shown = conns[k].shown /\ s.stale = conns[k].stale
  BY <1>1 DEF Down
<1> HIDE DEF s
<1> QED BY <1>2, <1>3, OneUnheard

\* Whoever stays when a broadcast drops an account is stale.
LEMMA BroadcastHears ==
  ASSUME Sessions, Current(conns, subs), NEW k \in Conn, NEW d \in Doc, Broadcast(k, d)
  PROVE  Current(conns', subs')
<1> DEFINE slow == {j \in subs[d] \ {k} : d \in conns[j].full}
           ks == subs[d] \ slow
           missed == IF AccountSet(ks) = AccountSet(subs[d]) THEN {} ELSE ks
<1>1. subs' = [subs EXCEPT ![d] = ks] BY DEF Broadcast
<1>2. PICK filled \in SUBSET (ks \ {k}) :
        conns' = [j \in Conn |->
          [conns[j] EXCEPT !.queue[d] = IF j \in slow THEN Append(@, Frame("End", d)) ELSE @,
                           !.full = IF j \in filled THEN @ \cup {d} ELSE @,
                           !.stale = IF j \in missed THEN @ \cup {d} ELSE @]]
  BY DEF Broadcast
<1> HIDE DEF slow
<1> DEFINE new(j) == IF j \in slow THEN Append(conns[j].queue[d], Frame("End", d))
                     ELSE conns[j].queue[d]
           queue(j) == [conns[j].queue EXCEPT ![d] = new(j)]
           full(j) == IF j \in filled THEN conns[j].full \cup {d} ELSE conns[j].full
           stale(j) == IF j \in missed THEN conns[j].stale \cup {d} ELSE conns[j].stale
           s(j) == [conns[j] EXCEPT !.queue = queue(j), !.full = full(j), !.stale = stale(j)]
<1>3. /\ subs \in [Doc -> SUBSET Conn]
      /\ \A j \in Conn : DOMAIN conns[j] = DOMAIN Down /\ DOMAIN conns[j].queue = Doc
  BY DEF Sessions, SessionOK
<1>4. ks \subseteq subs[d] /\ ks \subseteq Conn BY <1>3
<1>5. ASSUME NEW j \in Conn PROVE conns'[j] = s(j)
  <2> HIDE DEF missed
  <2>1. conns'[j] = [conns[j] EXCEPT
          !.queue[d] = IF j \in slow THEN Append(@, Frame("End", d)) ELSE @,
          !.full = IF j \in filled THEN @ \cup {d} ELSE @,
          !.stale = IF j \in missed THEN @ \cup {d} ELSE @]
    BY <1>2
  <2> QED BY <1>3, <2>1 DEF Down
<1>6. ASSUME NEW j \in Conn
      PROVE  /\ j \in ks => queue(j)[d] = conns[j].queue[d]
             /\ \A e \in Doc \ {d} : queue(j)[e] = conns[j].queue[e]
             /\ \A e \in Doc \ {d} : e \in stale(j) <=> e \in conns[j].stale
             /\ j \in ks => \/ d \in stale(j)
                            \/ /\ AccountSet(ks) = AccountSet(subs[d])
                               /\ d \in stale(j) <=> d \in conns[j].stale
  <2>1. /\ j \in ks => queue(j)[d] = conns[j].queue[d]
        /\ \A e \in Doc \ {d} : queue(j)[e] = conns[j].queue[e]
    BY <1>3
  <2>2. /\ \A e \in Doc \ {d} : e \in stale(j) <=> e \in conns[j].stale
        /\ j \in ks => \/ d \in stale(j)
                       \/ /\ AccountSet(ks) = AccountSet(subs[d])
                          /\ d \in stale(j) <=> d \in conns[j].stale
    <3> HIDE DEF ks
    <3> QED OBVIOUS
  <2> QED BY <2>1, <2>2
<1> HIDE DEF queue, full, stale, missed, ks
<1>7. ASSUME NEW j \in Conn
      PROVE  /\ conns'[j].up = conns[j].up /\ conns'[j].account = conns[j].account
             /\ conns'[j].open = conns[j].open /\ conns'[j].shown = conns[j].shown
             /\ conns'[j].queue = queue(j) /\ conns'[j].stale = stale(j)
  BY <1>3, <1>5 DEF Down
<1> HIDE DEF s
<1>8. subs'[d] = ks /\ \A e \in Doc \ {d} : subs'[e] = subs[e] BY <1>1, <1>3
<1>9. \A e \in Doc : IsFiniteSet(subs'[e]) BY <1>4, <1>8, FS_Subset DEF Current
<1>10. ASSUME NEW e \in Doc, NEW j \in subs'[e]
       PROVE  Hears(conns'[j], e, AccountsOf(conns', subs'[e]))
  <2>1. j \in Conn /\ j \in subs[e] /\ subs'[e] \subseteq Conn BY <1>3, <1>4, <1>8
  <2>2. AccountsOf(conns', subs'[e]) = AccountSet(subs'[e])
    BY <1>7, <2>1 DEF AccountsOf, AccountSet
  <2>3. Hears(conns[j], e, AccountSet(subs[e])) BY <2>1 DEF Current, AccountsOf, AccountSet
  <2>4. PICK w, v : w = AccountSet(subs[e]) /\ v = AccountSet(subs'[e]) OBVIOUS
  <2>5. Hears(conns[j], e, w) BY <2>3, <2>4
  <2>6. CASE e # d
    <3>1. v = w BY <1>8, <2>4, <2>6
    <3>2. Hears(conns'[j], e, v) BY <1>6, <1>7, <2>1, <2>5, <2>6, <3>1 DEF Hears
    <3> QED BY <2>2, <2>4, <3>2
  <2>7. CASE e = d
    <3>1. j \in ks /\ v = AccountSet(ks) BY <1>8, <2>4, <2>7
    <3>2. d \in stale(j) \/ (v = w /\ (d \in stale(j) <=> d \in conns[j].stale))
      BY <1>6, <2>1, <2>4, <2>7, <3>1
    <3>3. queue(j)[d] = conns[j].queue[d] BY <1>6, <2>1, <3>1
    <3>4. Hears(conns'[j], d, v) BY <1>7, <2>1, <2>5, <2>7, <3>2, <3>3 DEF Hears
    <3> QED BY <2>2, <2>4, <2>7, <3>4
  <2> QED BY <2>6, <2>7
<1>11. \A j \in Conn : DOMAIN conns'[j].shown = Doc BY <1>7 DEF Current
<1> QED BY <1>9, <1>10, <1>11 DEF Current

-----------------------------------------------------------------------------
(* Live revocation *)

\* Nobody is subscribed to a document that is closed.
LEMMA CloseDocHears ==
  ASSUME Sessions, Current(conns, subs), NEW d \in Doc, NEW t, CloseDoc(d, t)
  PROVE  Current(conns', subs')
<1> DEFINE own == {k \in subs[d] : conns[k].token = t}
           cs == Queued(conns, d, own, Frame("Unbind", d))
<1>1. subs' = [subs EXCEPT ![d] = {}] /\ conns' = Queued(cs, d, subs[d] \ own, Frame("Close", d))
  BY DEF CloseDoc
<1>2. Typed(conns) /\ subs \in [Doc -> SUBSET Conn] BY DEF Sessions, Typed
<1>3. Frame("Close", d) \in Message /\ Frame("Unbind", d) \in Message BY <1>2, Messages
<1> HIDE DEF own
<1>4. Typed(cs) BY <1>2, <1>3, QueuedOK
<1>5. ASSUME NEW k \in Conn
      PROVE  /\ conns'[k].account = conns[k].account /\ conns'[k].shown = conns[k].shown
             /\ \A e \in Doc \ {d} : \A w : Hears(conns[k], e, w) => Hears(conns'[k], e, w)
  <2> DEFINE r == Queued(conns, d, own, Frame("Unbind", d))[k]
  <2>3. /\ r.account = conns[k].account /\ r.shown = conns[k].shown
        /\ k \notin own => r = conns[k]
        /\ \A e \in Doc \ {d} : \A w : Hears(conns[k], e, w) => Hears(r, e, w)
    BY <1>2, <1>3, OthersHear
  <2>1. /\ cs[k].account = conns[k].account /\ cs[k].shown = conns[k].shown
        /\ \A e \in Doc \ {d} : \A w : Hears(conns[k], e, w) => Hears(cs[k], e, w)
    BY <2>3
  <2> HIDE DEF cs, r
  <2>2. /\ conns'[k].account = cs[k].account /\ conns'[k].shown = cs[k].shown
        /\ \A e \in Doc \ {d} : \A w : Hears(cs[k], e, w) => Hears(conns'[k], e, w)
    BY <1>1, <1>3, <1>4, OthersHear
  <2> QED BY <2>1, <2>2
<1>6. subs'[d] = {} /\ \A e \in Doc \ {d} : subs'[e] = subs[e] BY <1>1, <1>2
<1>7. \A e \in Doc : IsFiniteSet(subs'[e]) BY <1>6, FS_EmptySet DEF Current
<1>8. ASSUME NEW e \in Doc, NEW k \in subs'[e]
      PROVE  Hears(conns'[k], e, AccountsOf(conns', subs'[e]))
  <2>1. e # d /\ subs'[e] = subs[e] /\ subs[e] \subseteq Conn BY <1>2, <1>6, <1>8
  <2>2. AccountsOf(conns', subs'[e]) = AccountsOf(conns, subs[e]) BY <1>5, <2>1 DEF AccountsOf
  <2>3. Hears(conns[k], e, AccountsOf(conns, subs[e])) BY <1>8, <2>1 DEF Current
  <2>4. PICK w : w = AccountsOf(conns, subs[e]) OBVIOUS
  <2>5. Hears(conns'[k], e, w) BY <1>5, <1>8, <2>1, <2>3, <2>4
  <2> QED BY <2>2, <2>4, <2>5
<1> QED BY <1>5, <1>7, <1>8 DEF Current

\* The sessions of the other accounts hear that one is gone.
LEMMA CloseForAccountHears ==
  ASSUME Sessions, Current(conns, subs), NEW d \in Doc, NEW a, CloseForAccount(d, a)
  PROVE  Current(conns', subs')
<1> DEFINE ks == {k \in subs[d] : conns[k].account # a}
           who == AccountSet(ks)
           cs == Queued(conns, d, subs[d] \ ks, Frame("Close", d))
<1>1. subs' = [subs EXCEPT ![d] = ks] /\ conns' = Announced(cs, d, ks) BY DEF CloseForAccount
<1>2. Typed(conns) /\ subs \in [Doc -> SUBSET Conn] BY DEF Sessions, Typed
<1>3. ks \subseteq subs[d] /\ ks \subseteq Conn BY <1>2
<1> HIDE DEF ks
<1>4. Frame("Close", d) \in Message /\ Presence(d, who) \in Message BY <1>3, Messages
<1>5. Typed(cs) BY <1>2, <1>4, QueuedOK
<1>6. ASSUME NEW k \in Conn
      PROVE  /\ cs[k].account = conns[k].account /\ cs[k].shown = conns[k].shown
             /\ k \in ks => cs[k] = conns[k]
             /\ \A e \in Doc \ {d} : \A w : Hears(conns[k], e, w) => Hears(cs[k], e, w)
  BY <1>2, <1>4, OthersHear
<1> HIDE DEF cs
<1>7. CASE who = AccountSet(subs[d])
  <2>1. conns' = cs BY <1>1, <1>7 DEF Announced
  <2>2. ASSUME NEW e \in Doc, NEW k \in subs'[e]
        PROVE  Hears(conns'[k], e, AccountsOf(conns', subs'[e]))
    <3>1. CASE e = d
      <4>1. k \in ks /\ k \in Conn /\ subs'[d] = ks BY <1>1, <1>2, <1>3, <2>2, <3>1
      <4>2. AccountsOf(conns', ks) = who BY <1>3, <1>6, <2>1 DEF AccountsOf, AccountSet
      <4>3. Hears(conns[k], d, AccountSet(subs[d]))
        BY <1>3, <4>1 DEF Current, AccountsOf, AccountSet
      <4> HIDE DEF who
      <4> QED BY <1>6, <1>7, <2>1, <3>1, <4>1, <4>2, <4>3
    <3>2. CASE e # d
      <4>1. subs'[e] = subs[e] /\ subs[e] \subseteq Conn BY <1>1, <1>2, <3>2
      <4>2. AccountsOf(conns', subs'[e]) = AccountsOf(conns, subs[e])
        BY <1>6, <2>1, <4>1 DEF AccountsOf
      <4>3. Hears(conns[k], e, AccountsOf(conns, subs[e])) BY <2>2, <4>1 DEF Current
      <4>4. PICK w : w = AccountsOf(conns, subs[e]) OBVIOUS
      <4>5. Hears(conns'[k], e, w) BY <1>6, <2>1, <2>2, <3>2, <4>1, <4>3, <4>4
      <4> QED BY <4>2, <4>4, <4>5
    <3> QED BY <3>1, <3>2
  <2>3. \A e \in Doc : IsFiniteSet(subs'[e]) BY <1>1, <1>2, <1>3, FS_Subset DEF Current
  <2> QED BY <1>6, <2>1, <2>2, <2>3 DEF Current
<1>8. CASE who # AccountSet(subs[d])
  <2>1. conns' = Queued(cs, d, ks, Presence(d, who)) BY <1>1, <1>8 DEF Announced
  <2>2. ASSUME NEW k \in Conn
        PROVE  /\ conns'[k].account = conns[k].account /\ conns'[k].shown = conns[k].shown
               /\ k \in ks /\ cs[k].up /\ d \in cs[k].open /\ ~HasEnd(cs[k].queue[d])
                  => Hears(conns'[k], d, who)
               /\ \A e \in Doc \ {d} : \A w : Hears(conns[k], e, w) => Hears(conns'[k], e, w)
    <3> HIDE DEF who
    <3> DEFINE r == Queued(cs, d, ks, Presence(d, who))[k]
    <3>1. /\ r.account = cs[k].account /\ r.shown = cs[k].shown
          /\ k \notin ks => r = cs[k]
          /\ k \in ks /\ cs[k].up /\ d \in cs[k].open /\ ~HasEnd(cs[k].queue[d]) => Hears(r, d, who)
          /\ \A e \in Doc \ {d} : \A w : Hears(cs[k], e, w) => Hears(r, e, w)
      BY <1>4, <1>5, AllTold
    <3>2. conns'[k] = r BY <2>1
    <3> HIDE DEF r
    <3> QED BY <1>6, <3>1, <3>2
  <2>3. ASSUME NEW e \in Doc, NEW k \in subs'[e]
        PROVE  Hears(conns'[k], e, AccountsOf(conns', subs'[e]))
    <3>1. CASE e = d
      <4>1. k \in ks /\ k \in Conn /\ subs'[d] = ks BY <1>1, <1>2, <1>3, <2>3, <3>1
      <4>2. AccountsOf(conns', ks) = who BY <1>3, <2>2 DEF AccountsOf, AccountSet
      <4>3. conns[k].up /\ d \in conns[k].open /\ ~HasEnd(conns[k].queue[d])
        BY <1>3, <4>1 DEF Current, Hears
      <4> HIDE DEF who
      <4> QED BY <1>6, <2>2, <3>1, <4>1, <4>2, <4>3
    <3>2. CASE e # d
      <4>1. subs'[e] = subs[e] /\ subs[e] \subseteq Conn BY <1>1, <1>2, <3>2
      <4>2. AccountsOf(conns', subs'[e]) = AccountsOf(conns, subs[e])
        BY <2>2, <4>1 DEF AccountsOf
      <4>3. Hears(conns[k], e, AccountsOf(conns, subs[e])) BY <2>3, <4>1 DEF Current
      <4>4. PICK w : w = AccountsOf(conns, subs[e]) OBVIOUS
      <4>5. Hears(conns'[k], e, w) BY <2>2, <2>3, <3>2, <4>1, <4>3, <4>4
      <4> QED BY <4>2, <4>4, <4>5
    <3> QED BY <3>1, <3>2
  <2>4. \A e \in Doc : IsFiniteSet(subs'[e]) BY <1>1, <1>2, <1>3, FS_Subset DEF Current
  <2> QED BY <2>2, <2>3, <2>4 DEF Current
<1> QED BY <1>7, <1>8

-----------------------------------------------------------------------------
(* The system *)

\* Sessions that are left alone.
LEMMA StillHears ==
  ASSUME Current(conns, subs), UNCHANGED sessionVars
  PROVE  Current(conns', subs')
BY DEF sessionVars

\* The host reads a frame.
LEMMA HostFrameHears ==
  ASSUME Sessions, Current(conns, subs), HostFrame
  PROVE  Current(conns', subs')
<1>1. PICK wire : conns' = [conns EXCEPT ![HostConn].wire = wire] BY DEF HostFrame
<1> DEFINE s == [conns[HostConn] EXCEPT !.wire = wire]
<1>2. HostConn \in Conn /\ DOMAIN conns[HostConn] = DOMAIN Down
  BY ClientsAssumption DEF Sessions, SessionOK
<1>3. conns' = [conns EXCEPT ![HostConn] = s] /\ subs' = subs
  BY <1>1, <1>2 DEF HostFrame, Sessions, Down
<1>4. /\ s.up = conns[HostConn].up /\ s.account = conns[HostConn].account
      /\ s.open = conns[HostConn].open /\ s.queue = conns[HostConn].queue
      /\ s.shown = conns[HostConn].shown /\ s.stale = conns[HostConn].stale
  BY <1>2 DEF Down
<1> HIDE DEF s
<1> QED BY <1>2, <1>3, <1>4, OneUnheard

\* Every step of the system.
LEMMA CurrentKept ==
  ASSUME AccessInv, Sessions, Current(conns, subs), [Next]_vars
  PROVE  Current(conns', subs')
<1>1. HostConn \in Conn BY ClientsAssumption
<1>2. CASE UNCHANGED sessionVars BY <1>2, StillHears
<1>3. CASE ServerStep
  <2>1. ASSUME NEW c \in Client, CloseNext(c) PROVE Current(conns', subs')
    <3>1. PICK x \in calls[c].close :
            IF x.account = None THEN CloseDoc(x.doc, calls[c].token)
            ELSE CloseForAccount(x.doc, x.account)
      BY <2>1 DEF CloseNext
    <3>2. x.doc \in Doc BY DEF AccessInv, Requests, RequestOK, Closes
    <3>3. PICK e, b : e = x.doc /\ b = x.account OBVIOUS
    <3> QED BY <3>1, <3>2, <3>3, CloseDocHears, CloseForAccountHears
  <2> QED BY <1>2, <1>3, <2>1 DEF ServerStep
<1>4. CASE PeerStep BY <1>2, <1>4 DEF PeerStep
<1>5. CASE SessionStep
  <2>1. ASSUME NEW k \in Conn, EndSession(k) PROVE Current(conns', subs')
    BY <2>1, EndedHears DEF EndSession
  <2> QED BY <1>1, <1>5, <2>1, AcceptHears, CanOpenHears, OpenDocHears, ForwardHears, DrainHears,
             BroadcastHears
          DEF SessionStep
<1>6. CASE HostStep
  <2>1. CASE HostConnect BY <1>1, <2>1, AcceptHears DEF HostConnect
  <2>2. CASE HostFrame BY <2>2, HostFrameHears
  <2>3. CASE Pump BY <1>1, <1>2, <2>3, EndedHears DEF Pump
  <2>4. CASE HostDisconnect \/ \E d \in Doc : HostBroadcast(d)
    BY <1>2, <2>4 DEF HostDisconnect, HostBroadcast
  <2> QED BY <1>2, <1>6, <2>1, <2>2, <2>3, <2>4
          DEF HostStep, LifeStep, EditStep, MirrorStep, NetworkStep
<1>7. CASE WorkspaceStep BY <1>2, <1>7 DEF WorkspaceStep
<1>8. CASE UNCHANGED vars BY <1>2, <1>8 DEF vars, sessionVars
<1> QED BY <1>2, <1>3, <1>4, <1>5, <1>6, <1>7, <1>8 DEF Next, AnyStep

\* At first nobody has subscribed.
LEMMA InitCurrent ==
  ASSUME Init
  PROVE  Current(conns, subs)
<1>1. conns = [k \in Conn |-> Down] /\ subs = [d \in Doc |-> {}] BY DEF Init
<1>2. DOMAIN Down.shown = Doc BY DEF Down
<1> QED BY <1>1, <1>2, FS_EmptySet DEF Current

\* The registry and the sessions agree: a subscriber's session is up, has the
\* document open, and no end is queued for it, so that whatever it reads is
\* presence (sessions.rs, ws.rs).
THEOREM PresenceHolds == Spec => []PresenceInv
<1>1. Init => SessionInv /\ PresenceInv
  BY InitOK, InitSessions, InitCurrent, CurrentIs DEF SessionInv, PresenceInv
<1>2. SessionInv /\ PresenceInv /\ [Next]_vars => (SessionInv /\ PresenceInv)'
  <2> SUFFICES ASSUME SessionInv, PresenceInv, [Next]_vars PROVE (SessionInv /\ PresenceInv)'
    OBVIOUS
  <2>1. AccessInv /\ Sessions /\ AllFine /\ Current(conns, subs)
    BY FineIs, CurrentIs DEF SessionInv, PresenceInv
  <2>2. AccessInv' BY <2>1, NextOK
  <2>3. Sessions' /\ AllFine' BY <2>1, SessionsKept
  <2>4. RevokedUnbound' BY <2>3, FineWillBe
  <2>5. Subscribers' /\ PresenceAgrees' BY <2>1, CurrentKept, CurrentWillBe
  <2> QED BY <2>2, <2>3, <2>4, <2>5 DEF SessionInv, PresenceInv
<1> QED BY <1>1, <1>2, PTL DEF Spec

\* Once its channel is read, a client that has subscribed to a document shows
\* exactly the accounts of its subscribers, through subscriptions, sessions that
\* end, memberships that are revoked, documents that are deleted and slow
\* subscribers that are dropped, unless the last change was kept from it: by a
\* broadcast, which drops without a word, or by its own full channel
\* (sessions.rs subscribe, unsubscribe, close_for_account, close_doc, broadcast).
THEOREM PresenceIsCurrent == Spec => []PresenceAgrees
<1>1. PresenceInv => PresenceAgrees BY DEF PresenceInv
<1> QED BY <1>1, PresenceHolds, PTL
=============================================================================
