--------------------------- MODULE SessionProofs ---------------------------
(***************************************************************************)
(* RevokedUnbound: a session that has a document open is a member's, or    *)
(* hears of the end. Served is what a session relies on in the tables and  *)
(* in the routes under way; every step but the one that tells the sessions *)
(* keeps it.                                                               *)
(***************************************************************************)
EXTENDS AccessProofs

Pending(d, a) ==
  \E c \in Client : \E x \in calls[c].close : x.doc = d /\ x.account \in {None, a}

Served(d, a) == IsMember(d, a) \/ Pending(d, a)

\* A step of one client's request.
Only(c) == \A b \in Client : b # c => calls'[b] = calls[b]

Serves == \A d \in Doc : \A a : Served(d, a) => Served(d, a)'

-----------------------------------------------------------------------------
(* Routes *)

\* A request whose route is not ending memberships has nobody to tell.
LEMMA PendingKept ==
  ASSUME Requests, NEW c \in Client, calls[c].at # "close", Only(c), NEW d, NEW a, Pending(d, a)
  PROVE  Pending(d, a)'
<1>1. calls[c].close = {} BY DEF Requests, RequestOK
<1>2. PICK b \in Client : \E x \in calls[b].close : x.doc = d /\ x.account \in {None, a}
  BY DEF Pending
<1>3. b # c BY <1>1, <1>2
<1>4. calls'[b] = calls[b] BY <1>3 DEF Only
<1> QED BY <1>2, <1>4 DEF Pending

\* A step that ends no membership.
LEMMA MembersKept ==
  ASSUME Requests, NEW c \in Client, calls[c].at # "close", Only(c),
         \A d, a : IsMember(d, a) => IsMember(d, a)'
  PROVE  Serves
BY PendingKept DEF Serves, Served

\* A membership that ends is on the list of the route that ended it.
LEMMA EndsServed ==
  ASSUME Requests, NEW c \in Client, calls[c].at # "close", Only(c),
         \A d \in Doc : \A a : IsMember(d, a) => \/ IsMember(d, a)'
                                               \/ \E x \in calls'[c].close :
                                                    x.doc = d /\ x.account \in {None, a}
  PROVE  Serves
<1>1. ASSUME NEW d \in Doc, NEW a, Served(d, a) PROVE Served(d, a)'
  <2>1. CASE Pending(d, a) BY <2>1, PendingKept DEF Served
  <2>2. CASE IsMember(d, a) BY <2>2 DEF Served, Pending
  <2> QED BY <1>1, <2>1, <2>2 DEF Served
<1> QED BY <1>1 DEF Serves

\* A route changes its own request, and is not telling sessions meanwhile.
LEMMA OnlyOwn ==
  ASSUME Requests, NEW c \in Client, Route(c)
  PROVE  calls[c].at # "close" /\ Only(c)
<1> USE DEF Only, Requests, Answer, Goto, Refuse, At
<1>1. CASE Authenticate(c) \/ Signup(c) \/ LoginVerify(c) \/ ListDocs(c)
  BY <1>1 DEF Authenticate, Signup, LoginVerify, ListDocs
<1>2. CASE LoginDevice(c) \/ ResetDevice(c) BY <1>2 DEF LoginDevice, ResetDevice, CreateDevice
<1>3. CASE RecoverVerify(c) \/ RecoverSession(c) \/ PasswordVerify(c) \/ PasswordUpdate(c)
  BY <1>3 DEF RecoverVerify, RecoverSession, PasswordVerify, PasswordUpdate
<1>4. CASE PasswordReset(c) \/ RevokeDevice(c) \/ DeleteAccountVerify(c) \/ DeleteAccount(c)
  BY <1>4 DEF PasswordReset, RevokeDevice, DeleteAccountVerify, DeleteAccount
<1>5. CASE CreateDoc(c) \/ DeleteDoc(c) \/ CreateInvite(c) \/ RevokeInvite(c)
  BY <1>5 DEF CreateDoc, DeleteDoc, CreateInvite, RevokeInvite
<1>6. CASE AcceptInvite(c) \/ RemoveMember(c) BY <1>6 DEF AcceptInvite, RemoveMember
<1> QED BY <1>1, <1>2, <1>3, <1>4, <1>5, <1>6 DEF Route

\* Every other route keeps the memberships there are.
LEMMA OthersKeep ==
  ASSUME Tables, NEW c \in Client, Route(c),
         ~DeleteAccount(c), ~DeleteDoc(c), ~RemoveMember(c), NEW d, NEW a, IsMember(d, a)
  PROVE  IsMember(d, a)'
<1>1. ASSUME UNCHANGED members PROVE IsMember(d, a)' BY <1>1 DEF IsMember
<1>2. ASSUME NEW k, NEW r, NEW w, members' = Put(members, k, Member(r, w)) PROVE IsMember(d, a)'
  BY <1>2 DEF IsMember, Put, Member
<1>3. ASSUME NEW b, NEW p, SetPassword(b, p) PROVE IsMember(d, a)'
  <2> DEFINE k == <<accounts[b].primary, b>>
  <2>1. members' = [members EXCEPT ![k].wrap = UnderPassword(p)] BY <1>3 DEF SetPassword
  <2> HIDE DEF k
  <2> QED BY <2>1 DEF IsMember, Tables, MemberRows
<1> USE DEF Refuse, tables
<1>4. CASE Authenticate(c) \/ LoginVerify(c) \/ ListDocs(c) \/ LoginDevice(c) \/ ResetDevice(c)
  BY <1>1, <1>4 DEF Authenticate, LoginVerify, ListDocs, LoginDevice, ResetDevice, CreateDevice
<1>5. CASE \/ RecoverVerify(c) \/ RecoverSession(c) \/ PasswordVerify(c) \/ RevokeDevice(c)
           \/ DeleteAccountVerify(c) \/ CreateInvite(c) \/ RevokeInvite(c)
  BY <1>1, <1>5 DEF RecoverVerify, RecoverSession, PasswordVerify, RevokeDevice,
                    DeleteAccountVerify, CreateInvite, RevokeInvite
<1>6. CASE Signup(c) \/ CreateDoc(c) \/ AcceptInvite(c)
  BY <1>1, <1>2, <1>6 DEF Signup, CreateDoc, AcceptInvite
<1>7. CASE PasswordUpdate(c) \/ PasswordReset(c)
  BY <1>1, <1>3, <1>7 DEF PasswordUpdate, PasswordReset
<1> QED BY <1>4, <1>5, <1>6, <1>7 DEF Route

\* Every session of a document that ends, and those of the account elsewhere, are
\* on the list.
LEMMA DeleteAccountServes ==
  ASSUME AccessInv, NEW c \in Client, DeleteAccount(c)
  PROVE  Serves
<1> DEFINE a == calls[c].account
           owned == {d \in docs : IsOwner(d, a)}
           left == {d \in docs \ owned : IsMember(d, a)}
           gone == Rows(owned) \cup {k \in DOMAIN members : k[2] = a}
           ends == {[doc |-> d, account |-> None] : d \in owned}
                   \cup {[doc |-> d, account |-> a] : d \in left}
<1>1. calls[c].at # "close" /\ Only(c) BY OnlyOwn DEF Route, AccessInv
<1>2. calls'[c].close = ends
  BY DEF DeleteAccount, AccessInv, Requests, RequestOK, Idle
<1>3. members' = Drop(members, gone) BY DEF DeleteAccount
<1>4. ASSUME NEW d \in owned PROVE \E x \in ends : x.doc = d /\ x.account = None
  <2>1. [doc |-> d, account |-> None] \in ends OBVIOUS
  <2> HIDE DEF ends
  <2> QED BY <2>1
<1>5. ASSUME NEW d \in left PROVE \E x \in ends : x.doc = d /\ x.account = a
  <2>1. [doc |-> d, account |-> a] \in ends OBVIOUS
  <2> HIDE DEF ends, a
  <2> QED BY <2>1
<1>6. ASSUME NEW d \in Doc, NEW b, IsMember(d, b)
      PROVE  IsMember(d, b)' \/ d \in owned \/ (b = a /\ d \in left)
  <2>1. <<d, b>> \in DOMAIN members /\ d \in docs BY <1>6 DEF IsMember, AccessInv, Tables, MemberRows
  <2>2. CASE <<d, b>> \in gone BY <1>6, <2>1, <2>2 DEF Rows
  <2>3. CASE <<d, b>> \notin gone
    <3> HIDE DEF gone
    <3> QED BY <1>3, <1>6, <2>1, <2>3 DEF IsMember, Drop
  <2> QED BY <2>2, <2>3
<1> HIDE DEF a, owned, left, gone, ends
<1>7. \A d \in Doc : \A b : IsMember(d, b) => \/ IsMember(d, b)'
                                            \/ \E x \in calls'[c].close :
                                                 x.doc = d /\ x.account \in {None, b}
  BY <1>2, <1>4, <1>5, <1>6
<1> QED BY <1>1, <1>7, EndsServed DEF AccessInv

\* The document that ends is on the list, for every account.
LEMMA DeleteDocServes ==
  ASSUME AccessInv, NEW c \in Client, DeleteDoc(c)
  PROVE  Serves
<1> DEFINE e == calls[c].doc
           x == [doc |-> e, account |-> None]
<1>1. calls[c].at # "close" /\ Only(c) BY OnlyOwn DEF Route, AccessInv
<1>2. CASE OwnsShared(c)
  <2>4. x.doc = e /\ x.account = None OBVIOUS
  <2>5. calls' = [calls EXCEPT ![c].at = "close", ![c].out = "ok", ![c].close = {x}]
    BY <1>2 DEF DeleteDoc
  <2>1. x \in calls'[c].close /\ x.doc = e /\ x.account = None
    <3> HIDE DEF x
    <3> QED BY <2>4, <2>5 DEF AccessInv, Requests, RequestOK, Idle
  <2>2. members' = Drop(members, Rows({e})) BY <1>2 DEF DeleteDoc
  <2>3. ASSUME NEW d, NEW b, IsMember(d, b) PROVE IsMember(d, b)' \/ d = e
    BY <2>2, <2>3 DEF IsMember, Drop, Rows
  <2> HIDE DEF x, e
  <2> QED BY <1>1, <2>1, <2>3, EndsServed DEF AccessInv
<1>3. CASE ~OwnsShared(c)
  <2>1. UNCHANGED members BY <1>3 DEF DeleteDoc, Refuse, tables
  <2> QED BY <1>1, <2>1, MembersKept DEF IsMember, AccessInv
<1> QED BY <1>2, <1>3

\* The member that is removed is on the list.
LEMMA RemoveMemberServes ==
  ASSUME AccessInv, NEW c \in Client, RemoveMember(c)
  PROVE  Serves
<1> DEFINE e == calls[c].doc
           g == calls[c].target
           x == [doc |-> e, account |-> g]
           ok == OwnsShared(c) /\ g # calls[c].account /\ IsMember(e, g)
<1>1. calls[c].at # "close" /\ Only(c) BY OnlyOwn DEF Route, AccessInv
<1>2. CASE ok
  <2>5. x.doc = e /\ x.account = g OBVIOUS
  <2>6. calls' = [calls EXCEPT ![c].at = "close", ![c].out = "ok", ![c].close = {x}]
    BY <1>2 DEF RemoveMember
  <2>1. x \in calls'[c].close /\ x.doc = e /\ x.account = g
    <3> HIDE DEF x
    <3> QED BY <2>5, <2>6 DEF AccessInv, Requests, RequestOK, Idle
  <2> DEFINE k == <<e, g>>
  <2>2. members' = [members EXCEPT ![k].removed = TRUE] BY <1>2 DEF RemoveMember
  <2>3. ASSUME NEW d, NEW b, IsMember(d, b) PROVE IsMember(d, b)' \/ <<d, b>> = k
    <3> HIDE DEF k
    <3> QED BY <2>2, <2>3 DEF IsMember, AccessInv, Tables, MemberRows
  <2>4. ASSUME NEW d, NEW b, <<d, b>> = k PROVE d = e /\ b = g BY <2>4
  <2> HIDE DEF x, e, g, k
  <2> QED BY <1>1, <2>1, <2>3, <2>4, EndsServed DEF AccessInv
<1>3. CASE ~ok
  <2>1. UNCHANGED members BY <1>3 DEF RemoveMember, Refuse, tables
  <2> QED BY <1>1, <2>1, MembersKept DEF IsMember, AccessInv
<1> QED BY <1>2, <1>3

\* Every route keeps what sessions rely on.
LEMMA RouteServes ==
  ASSUME AccessInv, NEW c \in Client, Route(c)
  PROVE  Serves
<1>1. CASE DeleteAccount(c) \/ DeleteDoc(c) \/ RemoveMember(c)
  BY <1>1, DeleteAccountServes, DeleteDocServes, RemoveMemberServes
<1>2. CASE ~(DeleteAccount(c) \/ DeleteDoc(c) \/ RemoveMember(c))
  BY <1>2, OnlyOwn, OthersKeep, MembersKept DEF AccessInv
<1> QED BY <1>1, <1>2

-----------------------------------------------------------------------------
(* The other steps that leave the sessions alone *)

\* A client asks, or drops an answer.
LEMMA AskServes ==
  ASSUME Requests, UNCHANGED tables, NEW c \in Client, calls[c].at # "close", Only(c)
  PROVE  Serves
BY MembersKept DEF IsMember, tables

\* A step that changes neither tables nor requests.
LEMMA StillServes ==
  ASSUME UNCHANGED tables, UNCHANGED calls
  PROVE  Serves
BY DEF Serves, Served, Pending, IsMember, tables

\* What other clients send ends no membership.
LEMMA PeerServes ==
  ASSUME AccessInv, PeerStep
  PROVE  Serves
<1>1. PICK c \in Client :
        PeerSend(c) \/ (\E d \in Doc : PeerCreateDoc(c, d)) \/ DropReply(c) \/ LoseReply(c)
  BY DEF PeerStep, Peers
<1>2. Idle.at # "close" BY DEF Idle, None
<1>3. ASSUME NEW q, Send(c, q) PROVE calls[c].at # "close" /\ Only(c)
  BY <1>2, <1>3 DEF Send, Only, AccessInv, Requests
<1>4. CASE PeerSend(c) BY <1>3, <1>4, AskServes DEF PeerSend, AccessInv, PeerStep
<1>5. CASE \E d \in Doc : PeerCreateDoc(c, d)
  BY <1>3, <1>5, AskServes DEF PeerCreateDoc, AccessInv, PeerStep
<1>6. CASE DropReply(c) \/ LoseReply(c)
  <2>1. calls[c].at # "close" /\ Only(c)
    BY <1>6 DEF DropReply, LoseReply, Only, AccessInv, Requests
  <2> QED BY <2>1, AskServes DEF AccessInv, PeerStep
<1> QED BY <1>1, <1>4, <1>5, <1>6

\* Neither does the host.
LEMMA HostServes ==
  ASSUME AccessInv, HostStep \/ WorkspaceStep, UNCHANGED tables
  PROVE  Serves
<1>1. CASE HostReply \/ WorkspaceStep
  <2>2. Idle.at # "close" BY DEF Idle, None
  <2>3. \/ calls[HostClient].at = "answered" /\ \E q : calls' = [calls EXCEPT ![HostClient] = q]
        \/ \E q : Send(HostClient, q)
    BY <1>1 DEF HostReply, WorkspaceStep, CreateWorkspace, DeleteWorkspace
  <2>1. calls[HostClient].at # "close" /\ Only(HostClient)
    BY <2>2, <2>3 DEF Send, Only, AccessInv, Requests
  <2> QED BY <2>1, AskServes, ClientsAssumption DEF AccessInv
<1>2. CASE ~(HostReply \/ WorkspaceStep)
  <2>1. UNCHANGED calls
    BY <1>2 DEF HostStep, LifeStep, EditStep, MirrorStep, NetworkStep
  <2> QED BY <2>1, StillServes
<1> QED BY <1>1, <1>2

\* Neither does a command.
LEMMA CommandServes ==
  ASSUME AccessInv, CommandStep, UNCHANGED tables
  PROVE  Serves
<1>1. CASE UNCHANGED calls BY <1>1, StillServes
<1>2. CASE calls[CmdClient] = Idle \/ calls[CmdClient].at = "answered"
  <2>1. calls[CmdClient].at # "close" BY <1>2 DEF Idle, None
  <2>2. Only(CmdClient)
    <3>1. \/ \E q : Send(CmdClient, q)
          \/ \E q : Ask(q)
          \/ UNCHANGED calls
      BY DEF CommandStep, BeginStep, BeginInit, BeginSignup, BeginLogin, BeginRecover,
             BeginPassword, BeginLogout, BeginDeleteAccount, BeginShareAccept, BeginClear, Command, Claim,
             AskPassword, Answered, RecoverAnswered, Seed, WriteAccount, WriteSecrets, Purge,
             WriteShareKey, Done, ClearDb, Reseed, Kill
    <3> QED BY <3>1 DEF Send, Ask, Only, AccessInv, Requests
  <2> QED BY <2>1, <2>2, AskServes, ClientsAssumption DEF AccessInv
<1>3. UNCHANGED calls \/ calls[CmdClient] = Idle \/ calls[CmdClient].at = "answered"
  BY DEF CommandStep, BeginStep, BeginInit, BeginSignup, BeginLogin, BeginRecover,
         BeginPassword, BeginLogout, BeginDeleteAccount, BeginShareAccept, BeginClear, Command, Claim,
         AskPassword, Answered, Seed, WriteAccount, WriteSecrets, Purge,
         WriteShareKey, Done, ClearDb, Reseed, Kill, Send
<1> QED BY <1>1, <1>2, <1>3

-----------------------------------------------------------------------------
(* Channels *)

Ends == {"Close", "Unbind", "End"}

HasEnd(queue) == \E j \in DOMAIN queue : queue[j].t \in Ends

Typed(cs) == cs = [k \in Conn |-> cs[k]] /\ \A k \in Conn : SessionOK(cs[k])

\* The same sessions, with no end lost from their channels.
Longer(cs, ds) ==
  \A k \in Conn :
    /\ ds[k].up = cs[k].up
    /\ ds[k].account = cs[k].account
    /\ ds[k].open = cs[k].open
    /\ ds[k].late = cs[k].late
    /\ \A d \in Doc : HasEnd(cs[k].queue[d]) => HasEnd(ds[k].queue[d])

\* A message that is queued loses none, and an end is then among them.
LEMMA AppendEnd ==
  ASSUME NEW s \in Seq(Message), NEW msg \in Message
  PROVE  /\ Append(s, msg) \in Seq(Message)
         /\ HasEnd(s) => HasEnd(Append(s, msg))
         /\ msg.t \in Ends => HasEnd(Append(s, msg))
<1>1. Append(s, msg) \in Seq(Message) /\ Len(Append(s, msg)) = Len(s) + 1 OBVIOUS
<1>2. Append(s, msg)[Len(s) + 1] = msg /\ \A j \in DOMAIN s : Append(s, msg)[j] = s[j] OBVIOUS
<1>3. DOMAIN Append(s, msg) = 1..(Len(s) + 1) /\ DOMAIN s = 1..Len(s) /\ Len(s) \in Nat OBVIOUS
<1> QED BY <1>1, <1>2, <1>3 DEF HasEnd

\* The same session, with no end lost from its channels.
Alike(s, r) ==
  /\ r.up = s.up
  /\ r.account = s.account
  /\ r.open = s.open
  /\ r.late = s.late
  /\ \A e \in Doc : HasEnd(s.queue[e]) => HasEnd(r.queue[e])

\* A message on the channel of one document, whatever else is put down.
LEMMA OneQueued ==
  ASSUME NEW s, SessionOK(s), NEW d \in Doc, NEW msg \in Message, NEW stale \in SUBSET Doc
  PROVE  LET r == [s EXCEPT !.queue[d] = Append(@, msg), !.stale = stale]
         IN SessionOK(r) /\ Alike(s, r) /\ (msg.t \in Ends => HasEnd(r.queue[d]))
<1> DEFINE r == [s EXCEPT !.queue[d] = Append(@, msg), !.stale = stale]
           new == [s.queue EXCEPT ![d] = Append(s.queue[d], msg)]
<1>1. /\ DOMAIN s = DOMAIN Down
      /\ s.queue \in [Doc -> Seq(Message)]
  BY DEF SessionOK
<1>2. DOMAIN r = DOMAIN s /\ r.queue = new BY <1>1 DEF Down
<1>3. /\ r.up = s.up /\ r.account = s.account /\ r.open = s.open /\ r.late = s.late
      /\ r.opening = s.opening /\ r.full = s.full /\ r.stale = stale
  BY <1>1 DEF Down
<1>4. new \in [Doc -> Seq(Message)] BY <1>1, AppendEnd
<1>5. \A e \in Doc : new[e] = IF e = d THEN Append(s.queue[d], msg) ELSE s.queue[e] BY <1>1
<1>6. s.queue[d] \in Seq(Message) BY <1>1
<1> HIDE DEF r, new
<1>7. SessionOK(r) BY <1>2, <1>3, <1>4 DEF SessionOK
<1>8. \A e \in Doc : HasEnd(s.queue[e]) => HasEnd(r.queue[e]) BY <1>2, <1>5, <1>6, AppendEnd
<1>9. msg.t \in Ends => HasEnd(r.queue[d]) BY <1>2, <1>5, <1>6, AppendEnd
<1>10. SessionOK(r) /\ Alike(s, r) /\ (msg.t \in Ends => HasEnd(r.queue[d]))
  BY <1>3, <1>7, <1>8, <1>9 DEF Alike
<1> QED BY <1>10 DEF r

\* A message that is sent is queued, or lost if it is no end.
LEMMA SentOK ==
  ASSUME NEW s, SessionOK(s), NEW d \in Doc, NEW msg \in Message
  PROVE  /\ SessionOK(Sent(s, d, msg))
         /\ Alike(s, Sent(s, d, msg))
         /\ msg.t \in Ends => HasEnd(Sent(s, d, msg).queue[d])
<1> DEFINE ok(r) == SessionOK(r) /\ Alike(s, r) /\ (msg.t \in Ends => HasEnd(r.queue[d]))
<1>1. DOMAIN s = DOMAIN Down /\ s.stale \subseteq Doc BY DEF SessionOK
<1>2. Frame("End", d) \in Message /\ Frame("End", d).t \in Ends BY DEF Frame, Message, Ends
<1>3. CASE d \in s.full /\ msg.t = "Presence"
  <2> DEFINE r == [s EXCEPT !.stale = s.stale \cup {d}]
  <2>1. /\ DOMAIN r = DOMAIN s /\ r.queue = s.queue
        /\ r.up = s.up /\ r.account = s.account /\ r.open = s.open /\ r.late = s.late
        /\ r.opening = s.opening /\ r.full = s.full /\ r.stale = s.stale \cup {d}
    BY <1>1 DEF Down
  <2>2. Sent(s, d, msg) = r BY <1>3 DEF Sent
  <2> HIDE DEF r
  <2>3. ok(r) BY <1>1, <1>3, <2>1 DEF SessionOK, Alike, Ends
  <2> QED BY <2>2, <2>3
<1>4. CASE d \in s.full /\ msg.t # "Presence"
  <2> DEFINE r == [s EXCEPT !.queue[d] = Append(@, Frame("End", d)), !.stale = s.stale]
  <2>1. Sent(s, d, msg) = r BY <1>1, <1>4 DEF Sent, Down
  <2>2. ok(r) BY <1>1, <1>2, OneQueued
  <2> HIDE DEF r
  <2> QED BY <2>1, <2>2
<1>5. CASE d \notin s.full
  <2> DEFINE stale == IF msg.t = "Presence" THEN s.stale \ {d} ELSE s.stale
             r == [s EXCEPT !.queue[d] = Append(@, msg), !.stale = stale]
  <2>1. Sent(s, d, msg) = r BY <1>1, <1>5 DEF Sent, Down
  <2>2. ok(r) BY <1>1, OneQueued
  <2> HIDE DEF r
  <2> QED BY <2>1, <2>2
<1> QED BY <1>3, <1>4, <1>5

\* A message on the channels of some of the connections.
LEMMA QueuedOK ==
  ASSUME NEW cs, Typed(cs), NEW d \in Doc, NEW ks, NEW msg \in Message
  PROVE  /\ Typed(Queued(cs, d, ks, msg))
         /\ Longer(cs, Queued(cs, d, ks, msg))
         /\ msg.t \in Ends => \A k \in ks \cap Conn : HasEnd(Queued(cs, d, ks, msg)[k].queue[d])
<1> DEFINE r(k) == Sent(cs[k], d, msg)
           ds == [k \in Conn |-> IF k \in ks THEN r(k) ELSE cs[k]]
<1>1. Queued(cs, d, ks, msg) = ds BY DEF Queued
<1>2. ASSUME NEW k \in Conn
      PROVE  SessionOK(r(k)) /\ Alike(cs[k], r(k)) /\ (msg.t \in Ends => HasEnd(r(k).queue[d]))
  <2>1. SessionOK(cs[k]) BY DEF Typed
  <2> QED BY <2>1, SentOK
<1> HIDE DEF r
<1>3. Typed(ds) BY <1>2 DEF Typed
<1>4. Longer(cs, ds) BY <1>2 DEF Longer, Alike
<1>5. msg.t \in Ends => \A k \in ks \cap Conn : HasEnd(ds[k].queue[d]) BY <1>2
<1> HIDE DEF ds
<1> QED BY <1>1, <1>3, <1>4, <1>5

\* Two messages one after the other.
LEMMA LongerTrans ==
  ASSUME NEW cs, NEW ds, NEW es, Longer(cs, ds), Longer(ds, es)
  PROVE  Longer(cs, es)
BY DEF Longer

\* What the registry sends are messages; Close, Unbind and a lost channel are ends.
LEMMA Messages ==
  ASSUME Sessions, NEW d \in Doc, NEW ks, ks \subseteq Conn
  PROVE  /\ Presence(d, AccountSet(ks)) \in Message
         /\ Frame("Close", d) \in Message /\ Frame("Close", d).t \in Ends
         /\ Frame("Unbind", d) \in Message /\ Frame("Unbind", d).t \in Ends
         /\ Frame("End", d) \in Message /\ Frame("End", d).t \in Ends
<1>1. AccountSet(ks) \subseteq Account \cup {None}
  BY DEF AccountSet, Sessions, SessionOK
<1> QED BY <1>1 DEF Presence, Frame, Message, Ends

\* The presence of a document is announced.
LEMMA AnnouncedOK ==
  ASSUME Sessions, NEW cs, Typed(cs), NEW d \in Doc, NEW ks, ks \subseteq Conn
  PROVE  Typed(Announced(cs, d, ks)) /\ Longer(cs, Announced(cs, d, ks))
<1>1. Presence(d, AccountSet(ks)) \in Message BY Messages
<1>2. Longer(cs, cs) BY DEF Longer
<1> QED BY <1>1, <1>2, QueuedOK DEF Announced

-----------------------------------------------------------------------------
(* Sessions *)

Fine(k, d) ==
  \/ HasEnd(conns[k].queue[d])
  \/ k \in subs[d] /\ (d \in conns[k].late \/ Served(d, conns[k].account))

AllFine == \A k \in Conn : conns[k].up => \A d \in conns[k].open : Fine(k, d)

\* RevokedUnbound, one session and document at a time.
LEMMA FineIs == RevokedUnbound <=> AllFine
BY DEF RevokedUnbound, AllFine, Fine, Closing, HasEnd, Ends, Served, Pending

\* The same after a step.
LEMMA FineWillBe == RevokedUnbound' <=> AllFine'
BY DEF RevokedUnbound, AllFine, Fine, Closing, HasEnd, Ends, Served, Pending

\* A document that stays open on a session that stays up.
LEMMA Carried ==
  ASSUME AllFine, Serves, NEW k \in Conn, NEW d \in Doc, conns[k].up, d \in conns[k].open,
         conns'[k].account = conns[k].account,
         d \in conns[k].late => d \in conns'[k].late,
         HasEnd(conns[k].queue[d]) => HasEnd(conns'[k].queue[d]),
         k \in subs[d] => k \in subs'[d]
  PROVE  Fine(k, d)'
<1>1. Fine(k, d) BY DEF AllFine
<1>2. Served(d, conns[k].account) => Served(d, conns[k].account)' 
  BY DEF Serves, Served, Pending, IsMember
<1> QED BY <1>1, <1>2 DEF Fine, Served, Pending, IsMember

\* Channels grow, and nothing else changes in the sessions.
LEMMA Grown ==
  ASSUME Sessions, AllFine, Serves, Typed(conns'), Longer(conns, conns'), subs' = subs
  PROVE  Sessions' /\ AllFine'
<1>1. Sessions' BY DEF Sessions, Typed
<1>2. ASSUME NEW k \in Conn, conns'[k].up, NEW d \in conns'[k].open PROVE Fine(k, d)'
  <2>1. conns[k].up /\ d \in conns[k].open /\ d \in Doc
    BY <1>2 DEF Longer, Sessions, SessionOK
  <2> QED BY <2>1, Carried DEF Longer
<1> QED BY <1>1, <1>2 DEF AllFine

\* Sessions that are left alone.
LEMMA SessionsStill ==
  ASSUME Sessions, AllFine, Serves, UNCHANGED sessionVars
  PROVE  Sessions' /\ AllFine'
<1>1. Typed(conns') /\ Longer(conns, conns') BY DEF Sessions, Typed, Longer, sessionVars
<1> QED BY <1>1, Grown DEF sessionVars

\* A session reads or writes its socket, or has a membership checked.
LEMMA OneSame ==
  ASSUME Sessions, AllFine, Serves, subs' = subs, NEW k \in Conn, NEW s,
         conns' = [conns EXCEPT ![k] = s], SessionOK(s), s.up = conns[k].up,
         s.account = conns[k].account, s.open = conns[k].open, s.late = conns[k].late,
         s.queue = conns[k].queue
  PROVE  Sessions' /\ AllFine'
<1>1. \A j \in Conn : conns'[j] = IF j = k THEN s ELSE conns[j] BY DEF Sessions
<1>2. Typed(conns') BY <1>1 DEF Sessions, Typed
<1>3. Longer(conns, conns') BY <1>1 DEF Longer
<1> QED BY <1>2, <1>3, Grown

\* A session that has ended.
LEMMA DownOK ==
  ASSUME NEW wire
  PROVE  SessionOK([Down EXCEPT !.wire = wire]) /\ ~[Down EXCEPT !.wire = wire].up
<1>1. <<>> \in Seq(Message) OBVIOUS
<1>2. [d \in Doc |-> <<>>] \in [Doc -> Seq(Message)] BY <1>1
<1> QED BY <1>2 DEF SessionOK, Down

\* A new session has nothing open.
LEMMA AcceptKeeps ==
  ASSUME AccessInv, Sessions, AllFine, Serves, NEW k \in Conn, NEW t, Accept(k, t)
  PROVE  Sessions' /\ AllFine'
<1> DEFINE a == DeviceAccount(t)
           s == [Down EXCEPT !.up = TRUE, !.token = t, !.account = a]
<1>1. a \in Account \cup {None} BY DEF DeviceAccount, AccessInv, Tables, Credentials
<1>2. conns' = [conns EXCEPT ![k] = s] /\ subs' = subs BY DEF Accept
<1>3. [d \in Doc |-> <<>>] \in [Doc -> Seq(Message)]
  <2>1. <<>> \in Seq(Message) OBVIOUS
  <2> QED BY <2>1
<1>4. SessionOK(s) /\ s.open = {} BY <1>1, <1>3 DEF SessionOK, Down
<1> HIDE DEF s
<1>5. \A j \in Conn : conns'[j] = IF j = k THEN s ELSE conns[j] BY <1>2 DEF Sessions
<1>6. Sessions' BY <1>2, <1>4, <1>5 DEF Sessions
<1>7. ASSUME NEW j \in Conn, conns'[j].up, NEW d \in conns'[j].open PROVE Fine(j, d)'
  <2>1. j # k BY <1>4, <1>5
  <2>2. conns'[j] = conns[j] /\ conns[j].up /\ d \in conns[j].open /\ d \in Doc
    BY <1>5, <1>7, <2>1 DEF Sessions, SessionOK
  <2> QED BY <1>2, <2>2, Carried
<1> QED BY <1>6, <1>7 DEF AllFine

\* The others hear that the session's account has left.
LEMMA EndedKeeps ==
  ASSUME Sessions, AllFine, Serves, NEW k \in Conn, NEW wire, Ended(k, wire)
  PROVE  Sessions' /\ AllFine'
<1> DEFINE told(j, d) == d \in Leaving(j, k) \ conns[j].full
           msg(d) == Presence(d, AccountSet(subs[d] \ {k}))
           queue(j) == [d \in Doc |-> IF told(j, d) THEN Append(conns[j].queue[d], msg(d))
                                      ELSE conns[j].queue[d]]
           stale(j) == (conns[j].stale \ Leaving(j, k)) \cup (Leaving(j, k) \cap conns[j].full)
           s(j) == [conns[j] EXCEPT !.queue = queue(j), !.stale = stale(j)]
           down == [Down EXCEPT !.wire = wire]
<1>1. \A d \in Doc : subs[d] \subseteq Conn BY DEF Sessions
<1>2. \A d \in Doc : msg(d) \in Message BY <1>1, Messages
<1>3. conns' = [j \in Conn |-> IF j = k THEN down ELSE s(j)] BY DEF Ended, Sessions
<1>4. subs' = [d \in Doc |-> subs[d] \ {k}] BY DEF Ended
<1>5. ASSUME NEW j \in Conn
      PROVE  /\ DOMAIN conns[j] = DOMAIN Down
             /\ SessionOK(conns[j])
             /\ conns[j].queue \in [Doc -> Seq(Message)]
  BY DEF Sessions, SessionOK
<1>11. \A j \in Conn : stale(j) \subseteq Doc BY DEF Leaving, Sessions, SessionOK
<1> HIDE DEF msg, told, stale
<1>6. ASSUME NEW j \in Conn
      PROVE  /\ queue(j) \in [Doc -> Seq(Message)]
             /\ \A d \in Doc : HasEnd(conns[j].queue[d]) => HasEnd(queue(j)[d])
  BY <1>2, <1>5, AppendEnd
<1> HIDE DEF queue
<1>7. ASSUME NEW j \in Conn
      PROVE  /\ SessionOK(s(j))
             /\ s(j).up = conns[j].up /\ s(j).account = conns[j].account
             /\ s(j).open = conns[j].open /\ s(j).late = conns[j].late
             /\ s(j).queue = queue(j)
  BY <1>5, <1>6, <1>11 DEF SessionOK, Down
<1>8. SessionOK(down) /\ ~down.up BY DownOK
<1> HIDE DEF s, down
<1>9. Sessions' BY <1>1, <1>3, <1>4, <1>7, <1>8 DEF Sessions
<1>10. ASSUME NEW j \in Conn, conns'[j].up, NEW d \in conns'[j].open PROVE Fine(j, d)'
  <2>1. j # k /\ conns'[j] = s(j) BY <1>3, <1>8, <1>10
  <2>2. conns[j].up /\ d \in conns[j].open /\ d \in Doc BY <1>7, <1>10, <2>1 DEF Sessions, SessionOK
  <2>3. j \in subs[d] => j \in subs'[d] BY <1>4, <2>1, <2>2
  <2>4. HasEnd(conns[j].queue[d]) => HasEnd(conns'[j].queue[d]) BY <1>6, <1>7, <2>1, <2>2
  <2> QED BY <1>7, <2>1, <2>2, <2>3, <2>4, Carried
<1> QED BY <1>9, <1>10 DEF AllFine

\* The membership is read, or the session ends.
LEMMA CanOpenKeeps ==
  ASSUME Sessions, AllFine, Serves, NEW k \in Conn, NEW d \in Doc, CanOpen(k, d)
  PROVE  Sessions' /\ AllFine'
<1> DEFINE s == [conns[k] EXCEPT !.opening = d]
<1>1. CASE IsMember(d, conns[k].account)
  <2>1. SessionOK(conns[k]) BY DEF Sessions
  <2>2. conns' = [conns EXCEPT ![k] = s] /\ subs' = subs
    BY <1>1, <2>1 DEF CanOpen, Sessions, SessionOK, Down
  <2>3. /\ SessionOK(s)
        /\ s.up = conns[k].up /\ s.account = conns[k].account /\ s.open = conns[k].open
        /\ s.late = conns[k].late /\ s.queue = conns[k].queue
    BY <2>1 DEF SessionOK, Down
  <2> HIDE DEF s
  <2> QED BY <2>2, <2>3, OneSame
<1>2. CASE ~IsMember(d, conns[k].account)
  BY <1>2, EndedKeeps DEF CanOpen
<1> QED BY <1>1, <1>2

\* A document is opened on the strength of a membership read before. If it has
\* ended since, the document is one of the late ones.
LEMMA OpenDocKeeps ==
  ASSUME Sessions, AllFine, Serves, NEW k \in Conn, OpenDoc(k)
  PROVE  Sessions' /\ AllFine'
<1>7. PICK d : d = conns[k].opening OBVIOUS
<1> DEFINE ks == subs[d] \cup {k}
           who == AccountSet(ks)
           told == IF Cardinality(who) = 1 THEN {} ELSE IF who # AccountSet(subs[d]) THEN ks ELSE {k}
           wire == Append(conns[k].wire, Frame("DocOpened", d))
           late == IF IsMember(d, conns[k].account) THEN conns[k].late ELSE conns[k].late \cup {d}
           again == [conns[k] EXCEPT !.opening = 0, !.wire = wire]
           queue == [conns[k].queue EXCEPT ![d] = <<>>]
           shown == [conns[k].shown EXCEPT ![d] = {conns[k].account}]
           s == [again EXCEPT !.open = conns[k].open \cup {d}, !.queue = queue,
                              !.full = conns[k].full \ {d}, !.stale = conns[k].stale \ {d},
                              !.shown = shown, !.late = late]
           opened == [conns EXCEPT ![k] = s]
<1>1. SessionOK(conns[k]) /\ DOMAIN conns[k] = DOMAIN Down BY DEF Sessions, SessionOK
<1>2. d \in Doc /\ conns[k].up BY <1>1, <1>7 DEF OpenDoc, SessionOK
<1>3. Reopened(k, d) = [conns EXCEPT ![k] = again]
  BY <1>1 DEF Reopened, Sessions, Down
<1>4. /\ SessionOK(again) /\ DOMAIN again = DOMAIN conns[k]
      /\ again.up = conns[k].up /\ again.account = conns[k].account /\ again.open = conns[k].open
      /\ again.late = conns[k].late /\ again.queue = conns[k].queue /\ again.shown = conns[k].shown
      /\ again.full = conns[k].full /\ again.stale = conns[k].stale
  BY <1>1 DEF SessionOK, Down
<1>5. CASE d \in conns[k].open /\ conns' = Reopened(k, d) /\ UNCHANGED subs
  <2> HIDE DEF again
  <2> QED BY <1>3, <1>4, <1>5, OneSame
<1>6. CASE d \notin conns[k].open
  <2>1. subs' = [subs EXCEPT ![d] = ks] BY <1>6, <1>7 DEF OpenDoc
  <2>2. conns' = Queued(opened, d, told, Presence(d, who))
    <3> DEFINE o == [Reopened(k, d) EXCEPT ![k] = Bound(@, d)]
    <3>1. conns' = Queued(o, d, told, Presence(d, who)) BY <1>6, <1>7 DEF OpenDoc
    <3>2. o = opened
      <4> HIDE DEF again, wire
      <4>1. Bound(again, d) = s BY <1>1, <1>4 DEF Bound, Down
      <4> HIDE DEF s
      <4> QED BY <1>3, <4>1 DEF Sessions
    <3> HIDE DEF o, opened, told, who
    <3> QED BY <3>1, <3>2
  <2>3. queue \in [Doc -> Seq(Message)] /\ \A e \in Doc : e # d => queue[e] = conns[k].queue[e]
    <3>1. <<>> \in Seq(Message) OBVIOUS
    <3>2. conns[k].queue \in [Doc -> Seq(Message)] BY <1>1 DEF SessionOK
    <3> QED BY <3>1, <3>2
  <2>4. /\ SessionOK(s)
        /\ s.up = conns[k].up /\ s.account = conns[k].account /\ s.open = conns[k].open \cup {d}
        /\ s.late = late /\ s.queue = queue
    <3> HIDE DEF again, queue, shown, late
    <3> QED BY <1>1, <1>2, <1>4, <2>3 DEF SessionOK, Down
  <2> HIDE DEF s
  <2>5. /\ Typed(opened)
        /\ opened[k] = s
        /\ \A j \in Conn : j # k => opened[j] = conns[j]
    BY <2>4 DEF Sessions, Typed
  <2>6. ks \subseteq Conn /\ subs \in [Doc -> SUBSET Conn] BY <1>2 DEF Sessions
  <2>7. Presence(d, who) \in Message BY <1>2, <2>6, Messages
  <2> HIDE DEF opened, told, who
  <2>8. Typed(conns') /\ Longer(opened, conns') BY <1>2, <2>2, <2>5, <2>7, QueuedOK
  <2>9. Sessions' BY <1>2, <2>1, <2>6, <2>8 DEF Sessions, Typed
  <2>10. ASSUME NEW j \in Conn, conns'[j].up, NEW e \in conns'[j].open PROVE Fine(j, e)'
    <3>1. e \in opened[j].open /\ opened[j].up /\ e \in Doc
      BY <2>8, <2>9, <2>10 DEF Longer, Sessions, SessionOK
    <3>2. e \in Doc => (j \in subs[e] => j \in subs'[e]) BY <1>2, <2>1, <2>6
    <3>3. CASE j # k \/ e # d
      <4>1. /\ conns[j].up /\ e \in conns[j].open
            /\ opened[j].account = conns[j].account
            /\ e \in conns[j].late => e \in opened[j].late
            /\ opened[j].queue[e] = conns[j].queue[e]
        <5>1. CASE j # k BY <2>5, <3>1, <5>1
        <5>2. CASE j = k
          <6> HIDE DEF queue
          <6> QED BY <1>2, <2>3, <2>4, <2>5, <3>1, <3>3, <5>2
        <5> QED BY <5>1, <5>2
      <4>2. /\ conns'[j].account = opened[j].account /\ conns'[j].late = opened[j].late
            /\ HasEnd(opened[j].queue[e]) => HasEnd(conns'[j].queue[e])
        BY <2>8, <3>1 DEF Longer
      <4> QED BY <3>1, <3>2, <4>1, <4>2, Carried
    <3>4. CASE j = k /\ e = d
      <4>1. k \in subs'[d] BY <1>2, <2>1, <2>6
      <4>2. conns'[k].account = conns[k].account /\ conns'[k].late = late
        BY <2>4, <2>5, <2>8 DEF Longer
      <4>3. d \in late \/ Served(d, conns[k].account) BY DEF Served
      <4>4. Served(d, conns[k].account) => Served(d, conns[k].account)'
        BY <1>2, <4>2 DEF Serves, Served, Pending, IsMember
      <4> HIDE DEF late
      <4> QED BY <3>4, <4>1, <4>2, <4>3, <4>4 DEF Fine, Served, Pending, IsMember
    <3> QED BY <3>3, <3>4
  <2> QED BY <2>9, <2>10 DEF AllFine
<1> QED BY <1>5, <1>6, <1>7 DEF OpenDoc

\* A session may close documents, as long as the open ones keep their ends.
LEMMA OneShrinks ==
  ASSUME Sessions, AllFine, Serves, subs' = subs, NEW k \in Conn, NEW s,
         conns' = [conns EXCEPT ![k] = s], SessionOK(s), s.up = conns[k].up,
         s.account = conns[k].account, s.open \subseteq conns[k].open,
         \A d \in s.open : /\ d \in conns[k].late => d \in s.late
                           /\ HasEnd(conns[k].queue[d]) => HasEnd(s.queue[d])
  PROVE  Sessions' /\ AllFine'
<1>1. \A j \in Conn : conns'[j] = IF j = k THEN s ELSE conns[j] BY DEF Sessions
<1>2. Sessions' BY <1>1 DEF Sessions
<1>3. ASSUME NEW j \in Conn, conns'[j].up, NEW d \in conns'[j].open PROVE Fine(j, d)'
  <2>1. conns[j].up /\ d \in conns[j].open /\ d \in Doc
    BY <1>1, <1>3 DEF Sessions, SessionOK
  <2>2. /\ conns'[j].account = conns[j].account
        /\ d \in conns[j].late => d \in conns'[j].late
        /\ HasEnd(conns[j].queue[d]) => HasEnd(conns'[j].queue[d])
    BY <1>1, <1>3
  <2> QED BY <2>1, <2>2, Carried
<1> QED BY <1>2, <1>3 DEF AllFine

\* To read a message that is no end leaves the ends.
LEMMA TailEnd ==
  ASSUME NEW s \in Seq(Message), s # <<>>, Head(s).t \notin Ends
  PROVE  Tail(s) \in Seq(Message) /\ (HasEnd(s) => HasEnd(Tail(s)))
<1>1. Tail(s) \in Seq(Message) OBVIOUS
<1>2. ASSUME NEW j \in DOMAIN s, s[j].t \in Ends PROVE HasEnd(Tail(s))
  <2>1. j # 1 BY <1>2
  <2>2. j - 1 \in DOMAIN Tail(s) /\ Tail(s)[j - 1] = s[j] BY <2>1
  <2> QED BY <1>2, <2>2 DEF HasEnd
<1> QED BY <1>1, <1>2 DEF HasEnd

\* Only an end unbinds the document; whatever else is read leaves it queued.
LEMMA ForwardKeeps ==
  ASSUME Sessions, AllFine, Serves, NEW k \in Conn, NEW d \in Doc, Forward(k, d)
  PROVE  Sessions' /\ AllFine'
<1> DEFINE old == conns[k].queue
           msg == Head(old[d])
<1>1. /\ SessionOK(conns[k]) /\ DOMAIN conns[k] = DOMAIN Down
      /\ old \in [Doc -> Seq(Message)]
      /\ old[d] \in Seq(Message) /\ old[d] # <<>>
  BY DEF Sessions, SessionOK, Forward
<1>2. msg.t \in {"Presence", "Close", "Unbind", "End"}
  <2>1. msg \in Message BY <1>1
  <2> HIDE DEF msg
  <2> QED BY <2>1 DEF Message
<1>3. CASE msg.t = "Presence"
  <2> DEFINE queue == [old EXCEPT ![d] = Tail(old[d])]
             shown == [conns[k].shown EXCEPT ![d] = msg.who]
             s == [conns[k] EXCEPT !.queue = queue, !.full = conns[k].full \ {d}, !.shown = shown]
  <2>1. conns' = [conns EXCEPT ![k] = s] /\ subs' = subs
    <3>1. /\ conns' = [conns EXCEPT ![k].queue[d] = Tail(@), ![k].full = @ \ {d},
                                    ![k].shown[d] = msg.who]
          /\ subs' = subs
      BY <1>3 DEF Forward
    <3> HIDE DEF msg
    <3> QED BY <1>1, <3>1 DEF Sessions, Down
  <2>2. Tail(old[d]) \in Seq(Message) /\ (HasEnd(old[d]) => HasEnd(Tail(old[d])))
    BY <1>1, <1>3, TailEnd DEF Ends
  <2>3. /\ queue \in [Doc -> Seq(Message)]
        /\ \A e \in Doc : HasEnd(old[e]) => HasEnd(queue[e])
    BY <1>1, <2>2
  <2> HIDE DEF queue, shown, msg
  <2>4. /\ SessionOK(s)
        /\ s.up = conns[k].up /\ s.account = conns[k].account /\ s.open = conns[k].open
        /\ s.late = conns[k].late /\ s.queue = queue
    BY <1>1, <2>3 DEF SessionOK, Down
  <2> HIDE DEF s
  <2>5. \A e \in s.open : e \in Doc BY <2>4 DEF SessionOK
  <2> QED BY <1>1, <2>1, <2>3, <2>4, <2>5, OneShrinks
<1>5. CASE msg.t = "End" BY <1>5, EndedKeeps DEF Forward
<1>4. CASE msg.t \in {"Close", "Unbind"}
  <2> DEFINE queue == [old EXCEPT ![d] = <<>>]
             wire == IF msg.t = "Close" THEN Append(conns[k].wire, Frame("DocClosed", d))
                     ELSE conns[k].wire
             u == [conns[k] EXCEPT !.open = conns[k].open \ {d}, !.queue = queue,
                                   !.full = conns[k].full \ {d}, !.late = conns[k].late \ {d},
                                   !.stale = conns[k].stale \ {d}]
             s == [u EXCEPT !.wire = wire]
  <2>1. Unbound(conns, k, d) = [conns EXCEPT ![k] = u]
    BY <1>1 DEF Unbound, Sessions, Down
  <2>2. conns' = [conns EXCEPT ![k] = s] /\ subs' = subs
    <3>1. DOMAIN u = DOMAIN conns[k] /\ u.wire = conns[k].wire BY <1>1 DEF Down
    <3>3. CASE msg.t = "Close"
      <4>1. /\ conns' = [Unbound(conns, k, d) EXCEPT ![k].wire = Append(@, Frame("DocClosed", d))]
            /\ subs' = subs
        BY <3>3 DEF Forward
      <4>2. wire = Append(conns[k].wire, Frame("DocClosed", d)) BY <3>3
      <4> HIDE DEF u, wire, queue, msg
      <4> QED BY <1>1, <2>1, <3>1, <4>1, <4>2 DEF Sessions
    <3>4. CASE msg.t = "Unbind"
      <4>1. conns' = Unbound(conns, k, d) /\ subs' = subs BY <3>4 DEF Forward
      <4>2. wire = conns[k].wire BY <3>4
      <4>3. s = u BY <1>1, <4>2 DEF Down
      <4> HIDE DEF wire, s, u, queue, msg
      <4> QED BY <2>1, <4>1, <4>3
    <3> QED BY <1>4, <3>3, <3>4
  <2>3. /\ queue \in [Doc -> Seq(Message)]
        /\ \A e \in Doc : e # d => queue[e] = old[e]
    <3>1. <<>> \in Seq(Message) OBVIOUS
    <3> QED BY <1>1, <3>1
  <2> HIDE DEF queue, wire, msg
  <2>4. /\ SessionOK(s)
        /\ s.up = conns[k].up /\ s.account = conns[k].account /\ s.open = conns[k].open \ {d}
        /\ s.late = conns[k].late \ {d} /\ s.queue = queue
    BY <1>1, <2>3 DEF SessionOK, Down
  <2> HIDE DEF s
  <2>5. \A e \in s.open : e \in Doc /\ e # d BY <2>4 DEF SessionOK
  <2> QED BY <1>1, <2>2, <2>3, <2>4, <2>5, OneShrinks
<1> QED BY <1>2, <1>3, <1>4, <1>5

\* A channel that is read has room again.
LEMMA DrainKeeps ==
  ASSUME Sessions, AllFine, Serves, NEW k \in Conn, NEW d \in Doc, Drain(k, d)
  PROVE  Sessions' /\ AllFine'
<1> DEFINE s == [conns[k] EXCEPT !.full = conns[k].full \ {d}]
<1>1. SessionOK(conns[k]) BY DEF Sessions
<1>2. conns' = [conns EXCEPT ![k] = s] /\ subs' = subs
  BY <1>1 DEF Drain, Sessions, SessionOK, Down
<1>3. /\ SessionOK(s)
      /\ s.up = conns[k].up /\ s.account = conns[k].account /\ s.open = conns[k].open
      /\ s.late = conns[k].late /\ s.queue = conns[k].queue
  BY <1>1 DEF SessionOK, Down
<1> HIDE DEF s
<1> QED BY <1>2, <1>3, OneSame

\* A subscriber that a broadcast drops from the registry reads the end of its
\* channel.
LEMMA BroadcastKeeps ==
  ASSUME Sessions, AllFine, Serves, NEW k \in Conn, NEW d \in Doc, Broadcast(k, d)
  PROVE  Sessions' /\ AllFine'
<1> DEFINE slow == {j \in subs[d] \ {k} : d \in conns[j].full}
           ks == subs[d] \ slow
           missed == IF AccountSet(ks) = AccountSet(subs[d]) THEN {} ELSE ks
<1>1. subs' = [subs EXCEPT ![d] = ks] BY DEF Broadcast
<1>2. PICK filled \in SUBSET (ks \ {k}) :
        conns' = [j \in Conn |->
          [conns[j] EXCEPT !.queue[d] = IF j \in slow THEN Append(@, Frame("End", d)) ELSE @,
                           !.full = IF j \in filled THEN @ \cup {d} ELSE @,
                           !.stale = IF j \in missed THEN @ \cup {d} ELSE @]]
  BY DEF Broadcast
<1> HIDE DEF missed
<1> DEFINE new(j) == IF j \in slow THEN Append(conns[j].queue[d], Frame("End", d))
                     ELSE conns[j].queue[d]
           queue(j) == [conns[j].queue EXCEPT ![d] = new(j)]
           full(j) == IF j \in filled THEN conns[j].full \cup {d} ELSE conns[j].full
           stale(j) == IF j \in missed THEN conns[j].stale \cup {d} ELSE conns[j].stale
           s(j) == [conns[j] EXCEPT !.queue = queue(j), !.full = full(j), !.stale = stale(j)]
<1>3. /\ Frame("End", d) \in Message /\ Frame("End", d).t \in Ends
  BY DEF Frame, Message, Ends
<1>4. ASSUME NEW j \in Conn
      PROVE  /\ DOMAIN conns[j] = DOMAIN Down
             /\ conns[j].queue \in [Doc -> Seq(Message)]
             /\ SessionOK(conns[j])
  BY DEF Sessions, SessionOK
<1> HIDE DEF slow
<1>5. ASSUME NEW j \in Conn PROVE conns'[j] = s(j)
  <2>1. conns'[j] = [conns[j] EXCEPT
          !.queue[d] = IF j \in slow THEN Append(@, Frame("End", d)) ELSE @,
          !.full = IF j \in filled THEN @ \cup {d} ELSE @,
          !.stale = IF j \in missed THEN @ \cup {d} ELSE @]
    BY <1>2
  <2> QED BY <1>4, <2>1 DEF Down
<1>6. ASSUME NEW j \in Conn
      PROVE  /\ new(j) \in Seq(Message)
             /\ HasEnd(conns[j].queue[d]) => HasEnd(new(j))
             /\ j \in slow => HasEnd(new(j))
  <2>1. conns[j].queue[d] \in Seq(Message) BY <1>4
  <2> QED BY <1>3, <2>1, AppendEnd
<1> HIDE DEF new
<1>7. ASSUME NEW j \in Conn
      PROVE  /\ queue(j) \in [Doc -> Seq(Message)]
             /\ \A e \in Doc : queue(j)[e] = IF e = d THEN new(j) ELSE conns[j].queue[e]
  BY <1>4, <1>6
<1>8. \A j \in Conn : full(j) \subseteq Doc /\ stale(j) \subseteq Doc BY DEF Sessions, SessionOK
<1> HIDE DEF queue, full, stale
<1>9. ASSUME NEW j \in Conn
      PROVE  /\ SessionOK(s(j))
             /\ s(j).up = conns[j].up /\ s(j).account = conns[j].account
             /\ s(j).open = conns[j].open /\ s(j).late = conns[j].late
             /\ s(j).queue = queue(j)
  BY <1>4, <1>7, <1>8 DEF SessionOK, Down
<1> HIDE DEF s
<1>10. Sessions'
  <2>1. subs' \in [Doc -> SUBSET Conn] BY <1>1 DEF Sessions
  <2>2. conns' = [j \in Conn |-> conns'[j]] BY <1>2
  <2> QED BY <1>5, <1>9, <2>1, <2>2 DEF Sessions
<1>11. ASSUME NEW j \in Conn, conns'[j].up, NEW e \in conns'[j].open PROVE Fine(j, e)'
  <2>1. conns[j].up /\ e \in conns[j].open /\ e \in Doc
    BY <1>5, <1>9, <1>11 DEF Sessions, SessionOK
  <2>2. HasEnd(conns[j].queue[e]) => HasEnd(conns'[j].queue[e])
    BY <1>5, <1>6, <1>7, <1>9, <2>1
  <2>3. CASE e = d /\ j \in slow
    <3>1. HasEnd(conns'[j].queue[e]) BY <1>5, <1>6, <1>7, <1>9, <2>3
    <3> QED BY <3>1 DEF Fine
  <2>4. CASE ~(e = d /\ j \in slow)
    <3>1. j \in subs[e] => j \in subs'[e] BY <1>1, <2>1, <2>4 DEF Sessions
    <3> QED BY <1>5, <1>9, <2>1, <2>2, <3>1, Carried
  <2> QED BY <2>3, <2>4
<1> QED BY <1>10, <1>11 DEF AllFine

-----------------------------------------------------------------------------
(* Live revocation *)

\* Whoever else is on a list stays there.
LEMMA PendingRest ==
  ASSUME Requests, NEW c \in Client, NEW x \in calls[c].close, NEW at,
         calls' = [calls EXCEPT ![c].close = @ \ {x}, ![c].at = at],
         NEW d, NEW a, Pending(d, a), ~(x.doc = d /\ x.account \in {None, a})
  PROVE  Pending(d, a)'
<1>4. PICK b \in Client : \E y \in calls[b].close : y.doc = d /\ y.account \in {None, a}
  BY DEF Pending
<1>1. PICK y \in calls[b].close : y.doc = d /\ y.account \in {None, a} BY <1>4
<1>2. y # x BY <1>1
<1>3. y \in calls'[b].close
  <2>1. CASE b = c BY <1>1, <1>2, <2>1 DEF Requests, RequestOK, Idle
  <2>2. CASE b # c BY <1>1, <2>2 DEF Requests
  <2> QED BY <2>1, <2>2
<1> QED BY <1>1, <1>3 DEF Pending

\* A session that is not told keeps what it relies on.
LEMMA ToldOrServed ==
  ASSUME Sessions, AllFine, Typed(conns'), Longer(conns, conns'), subs' \in [Doc -> SUBSET Conn],
         \A k \in Conn : \A d \in Doc :
           k \in subs[d] => \/ HasEnd(conns'[k].queue[d])
                            \/ /\ k \in subs'[d]
                               /\ Served(d, conns[k].account) => \/ IsMember(d, conns[k].account)'
                                                                 \/ Pending(d, conns[k].account)'
  PROVE  Sessions' /\ AllFine'
<1>1. Sessions' BY DEF Sessions, Typed
<1>2. ASSUME NEW k \in Conn, conns'[k].up, NEW d \in conns'[k].open PROVE Fine(k, d)'
  <2>1. /\ conns[k].up /\ d \in conns[k].open /\ d \in Doc
        /\ conns'[k].account = conns[k].account /\ conns'[k].late = conns[k].late
        /\ HasEnd(conns[k].queue[d]) => HasEnd(conns'[k].queue[d])
    BY <1>2 DEF Longer, Sessions, SessionOK
  <2>2. Fine(k, d) BY <2>1 DEF AllFine
  <2>3. CASE HasEnd(conns[k].queue[d]) BY <2>1, <2>3 DEF Fine
  <2>4. CASE k \in subs[d] /\ (d \in conns[k].late \/ Served(d, conns[k].account))
    BY <2>1, <2>4 DEF Fine, Served
  <2> QED BY <2>2, <2>3, <2>4 DEF Fine
<1> QED BY <1>1, <1>2 DEF AllFine

\* The sessions of a document, or those of an account, are told before they are
\* dropped from the registry.
LEMMA CloseNextKeeps ==
  ASSUME AccessInv, Sessions, AllFine, NEW c \in Client, CloseNext(c)
  PROVE  Sessions' /\ AllFine'
<1>11. PICK x \in calls[c].close :
         /\ calls' = [calls EXCEPT ![c].close = @ \ {x},
                                   ![c].at = IF calls[c].close = {x} THEN "answered" ELSE "close"]
         /\ IF x.account = None THEN CloseDoc(x.doc, calls[c].token)
            ELSE CloseForAccount(x.doc, x.account)
  BY DEF CloseNext
<1>1. PICK at :
        /\ calls' = [calls EXCEPT ![c].close = @ \ {x}, ![c].at = at]
        /\ IF x.account = None THEN CloseDoc(x.doc, calls[c].token)
           ELSE CloseForAccount(x.doc, x.account)
  BY <1>11
<1>2. PICK d, a : d = x.doc /\ a = x.account OBVIOUS
<1>3. d \in Doc
  BY <1>2 DEF AccessInv, Requests, RequestOK, Closes
<1>4. \A e, b : IsMember(e, b)' <=> IsMember(e, b) BY DEF CloseNext, tables, IsMember
<1>5. ASSUME NEW e, NEW b, Served(e, b), ~(d = e /\ a \in {None, b})
      PROVE  IsMember(e, b)' \/ Pending(e, b)'
  BY <1>1, <1>2, <1>4, <1>5, PendingRest DEF Served, AccessInv
<1>6. Typed(conns) /\ subs \in [Doc -> SUBSET Conn] BY DEF Sessions, Typed
<1>7. subs[d] \subseteq Conn BY <1>3, <1>6
<1>8. /\ Frame("Close", d) \in Message /\ Frame("Close", d).t \in Ends
      /\ Frame("Unbind", d) \in Message /\ Frame("Unbind", d).t \in Ends
  BY <1>3, <1>7, Messages
<1>9. CASE a = None
  <2> DEFINE own == {k \in subs[d] : conns[k].token = calls[c].token}
             cs == Queued(conns, d, own, Frame("Unbind", d))
  <2>1. subs' = [subs EXCEPT ![d] = {}] /\ conns' = Queued(cs, d, subs[d] \ own, Frame("Close", d))
    BY <1>1, <1>2, <1>9 DEF CloseDoc
  <2>2. own \subseteq subs[d] OBVIOUS
  <2> HIDE DEF own
  <2>3. /\ Typed(cs) /\ Longer(conns, cs) /\ \A k \in own \cap Conn : HasEnd(cs[k].queue[d])
    BY <1>3, <1>6, <1>8, QueuedOK
  <2> HIDE DEF cs
  <2>4. /\ Typed(conns') /\ Longer(cs, conns')
        /\ \A k \in (subs[d] \ own) \cap Conn : HasEnd(conns'[k].queue[d])
    BY <1>3, <1>8, <2>1, <2>3, QueuedOK
  <2>5. Longer(conns, conns') BY <2>3, <2>4, LongerTrans
  <2>6. \A k \in subs[d] : HasEnd(conns'[k].queue[d])
    BY <1>3, <1>7, <2>3, <2>4 DEF Longer
  <2>7. subs' \in [Doc -> SUBSET Conn] BY <1>6, <2>1
  <2>8. ASSUME NEW k \in Conn, NEW e \in Doc, k \in subs[e]
        PROVE  \/ HasEnd(conns'[k].queue[e])
               \/ /\ k \in subs'[e]
                  /\ Served(e, conns[k].account) => \/ IsMember(e, conns[k].account)'
                                                    \/ Pending(e, conns[k].account)'
    <3>1. CASE e = d BY <2>6, <2>8, <3>1
    <3>2. CASE e # d
      <4>1. k \in subs'[e] BY <1>6, <2>1, <2>8, <3>2
      <4>2. conns'[k].account = conns[k].account BY <2>5 DEF Longer
      <4>3. PICK b : b = conns[k].account OBVIOUS
      <4> QED BY <1>5, <3>2, <4>1, <4>2, <4>3 DEF IsMember, Pending
    <3> QED BY <3>1, <3>2
  <2> QED BY <2>4, <2>5, <2>7, <2>8, ToldOrServed
<1>10. CASE a # None
  <2> DEFINE ks == {k \in subs[d] : conns[k].account # a}
             cs == Queued(conns, d, subs[d] \ ks, Frame("Close", d))
  <2>1. subs' = [subs EXCEPT ![d] = ks] /\ conns' = Announced(cs, d, ks)
    BY <1>1, <1>2, <1>10 DEF CloseForAccount
  <2>2. ks \subseteq subs[d] /\ ks \subseteq Conn /\ \A k \in ks : conns[k].account # a BY <1>7
  <2> HIDE DEF ks
  <2>3. /\ Typed(cs) /\ Longer(conns, cs) /\ \A k \in (subs[d] \ ks) \cap Conn : HasEnd(cs[k].queue[d])
    BY <1>3, <1>6, <1>8, QueuedOK
  <2> HIDE DEF cs
  <2>4. Typed(conns') /\ Longer(cs, conns') BY <1>3, <2>1, <2>2, <2>3, AnnouncedOK
  <2>5. Longer(conns, conns') BY <2>3, <2>4, LongerTrans
  <2>6. \A k \in subs[d] \ ks : HasEnd(conns'[k].queue[d])
    BY <1>3, <1>7, <2>3, <2>4 DEF Longer
  <2>7. subs' \in [Doc -> SUBSET Conn] BY <1>6, <2>1, <2>2
  <2>8. ASSUME NEW k \in Conn, NEW e \in Doc, k \in subs[e]
        PROVE  \/ HasEnd(conns'[k].queue[e])
               \/ /\ k \in subs'[e]
                  /\ Served(e, conns[k].account) => \/ IsMember(e, conns[k].account)'
                                                    \/ Pending(e, conns[k].account)'
    <3>1. CASE e = d /\ k \notin ks BY <2>6, <2>8, <3>1
    <3>2. CASE e # d \/ k \in ks
      <4>1. k \in subs'[e] BY <1>3, <1>6, <2>1, <2>8, <3>2
      <4>2. conns'[k].account = conns[k].account BY <2>5 DEF Longer
      <4>3. PICK b : b = conns[k].account OBVIOUS
      <4>4. ~(d = e /\ a \in {None, b}) BY <1>10, <2>2, <3>2, <4>3
      <4> QED BY <1>5, <4>1, <4>2, <4>3, <4>4 DEF IsMember, Pending
    <3> QED BY <3>1, <3>2
  <2> QED BY <2>4, <2>5, <2>7, <2>8, ToldOrServed
<1> QED BY <1>9, <1>10

-----------------------------------------------------------------------------
(* The system *)

\* The host reads a frame.
LEMMA HostFrameKeeps ==
  ASSUME Sessions, AllFine, Serves, HostFrame
  PROVE  Sessions' /\ AllFine'
<1>1. PICK wire : conns' = [conns EXCEPT ![HostConn].wire = wire] BY DEF HostFrame
<1> DEFINE s == [conns[HostConn] EXCEPT !.wire = wire]
<1>2. HostConn \in Conn /\ SessionOK(conns[HostConn]) BY ClientsAssumption DEF Sessions
<1>3. conns' = [conns EXCEPT ![HostConn] = s] /\ subs' = subs
  BY <1>1, <1>2 DEF HostFrame, Sessions, SessionOK, Down
<1>4. /\ SessionOK(s)
      /\ s.up = conns[HostConn].up /\ s.account = conns[HostConn].account
      /\ s.open = conns[HostConn].open /\ s.late = conns[HostConn].late
      /\ s.queue = conns[HostConn].queue
  BY <1>2 DEF SessionOK, Down
<1> HIDE DEF s
<1> QED BY <1>2, <1>3, <1>4, OneSame

\* Every step of a session.
LEMMA SessionStepKeeps ==
  ASSUME AccessInv, Sessions, AllFine, SessionStep
  PROVE  Sessions' /\ AllFine'
<1>1. Serves BY StillServes DEF SessionStep
<1>2. HostConn \in Conn BY ClientsAssumption
<1>3. ASSUME NEW k \in Conn, EndSession(k) PROVE Sessions' /\ AllFine'
  BY <1>1, <1>3, EndedKeeps DEF EndSession
<1>4. ASSUME NEW k \in Conn, NEW t, Accept(k, t) PROVE Sessions' /\ AllFine'
  BY <1>1, <1>4, AcceptKeeps
<1>5. ASSUME NEW k \in Conn, NEW d, CanOpen(k, d) PROVE Sessions' /\ AllFine'
  <2>1. CASE d \in Doc BY <1>1, <1>5, <2>1, CanOpenKeeps
  <2>2. CASE d \notin Doc
    <3>1. ~IsMember(d, conns[k].account) BY <2>2 DEF IsMember, AccessInv, Tables, MemberRows
    <3> QED BY <1>1, <1>5, <3>1, EndedKeeps DEF CanOpen
  <2> QED BY <2>1, <2>2
<1>6. ASSUME NEW k \in Conn, OpenDoc(k) PROVE Sessions' /\ AllFine'
  BY <1>1, <1>6, OpenDocKeeps
<1>7. ASSUME NEW k \in Conn, NEW d \in Doc, Forward(k, d) PROVE Sessions' /\ AllFine'
  BY <1>1, <1>7, ForwardKeeps
<1>8. ASSUME NEW k \in Conn, NEW d \in Doc, Drain(k, d) \/ Broadcast(k, d)
      PROVE  Sessions' /\ AllFine'
  BY <1>1, <1>8, DrainKeeps, BroadcastKeeps
<1> QED BY <1>2, <1>3, <1>4, <1>5, <1>6, <1>7, <1>8 DEF SessionStep

\* The host connects, reads, and may name a document that is not open.
LEMMA HostStepKeeps ==
  ASSUME AccessInv, Sessions, AllFine, HostStep, UNCHANGED tables
  PROVE  Sessions' /\ AllFine'
<1>1. Serves BY HostServes
<1>2. HostConn \in Conn BY ClientsAssumption
<1>3. CASE UNCHANGED sessionVars BY <1>1, <1>3, SessionsStill
<1>4. CASE HostConnect BY <1>1, <1>2, <1>4, AcceptKeeps DEF HostConnect
<1>5. CASE HostFrame BY <1>1, <1>5, HostFrameKeeps
<1>6. CASE Pump
  BY <1>1, <1>2, <1>3, <1>6, EndedKeeps DEF Pump
<1>7. CASE HostDisconnect \/ \E d \in Doc : HostBroadcast(d)
  BY <1>3, <1>7 DEF HostDisconnect, HostBroadcast
<1> QED BY <1>3, <1>4, <1>5, <1>6, <1>7 DEF HostStep, LifeStep, EditStep, MirrorStep, NetworkStep

\* Every step of the system.
LEMMA SessionsKept ==
  ASSUME AccessInv, Sessions, AllFine, [Next]_vars
  PROVE  Sessions' /\ AllFine'
<1>1. CASE ServerStep
  <2>1. ASSUME NEW c \in Client, Route(c), UNCHANGED sessionVars PROVE Sessions' /\ AllFine'
    BY <2>1, RouteServes, SessionsStill
  <2>2. CASE Expire /\ UNCHANGED sessionVars
    <3>1. Serves BY <2>2 DEF Expire, Serves, Served, Pending, IsMember
    <3> QED BY <2>2, <3>1, SessionsStill
  <2>3. ASSUME NEW c \in Client, CloseNext(c) PROVE Sessions' /\ AllFine'
    BY <2>3, CloseNextKeeps
  <2> QED BY <1>1, <2>1, <2>2, <2>3 DEF ServerStep
<1>2. CASE PeerStep BY <1>2, PeerServes, SessionsStill DEF PeerStep
<1>3. CASE SessionStep BY <1>3, SessionStepKeeps
<1>4. CASE HostStep /\ UNCHANGED tables BY <1>4, HostStepKeeps
<1>5. CASE WorkspaceStep /\ UNCHANGED tables
  BY <1>5, HostServes, SessionsStill DEF WorkspaceStep
<1>6. CASE CommandStep /\ UNCHANGED tables /\ UNCHANGED sessionVars
  BY <1>6, CommandServes, SessionsStill
<1>7. CASE UNCHANGED tables /\ UNCHANGED calls /\ UNCHANGED sessionVars
  BY <1>7, StillServes, SessionsStill
<1>8. CASE UNCHANGED vars BY <1>7, <1>8 DEF vars, tables, sessionVars
<1> QED BY <1>1, <1>2, <1>3, <1>4, <1>5, <1>6, <1>7, <1>8 DEF Next, AnyStep

\* At first no session is up.
LEMMA InitSessions ==
  ASSUME Init
  PROVE  Sessions /\ RevokedUnbound
<1>1. SessionOK(Down) /\ ~Down.up
  <2>1. <<>> \in Seq(Message) OBVIOUS
  <2>2. [d \in Doc |-> <<>>] \in [Doc -> Seq(Message)] BY <2>1
  <2> QED BY <2>2 DEF SessionOK, Down
<1>2. conns = [k \in Conn |-> Down] /\ subs = [d \in Doc |-> {}] BY DEF Init
<1> QED BY <1>1, <1>2 DEF Sessions, RevokedUnbound

\* A document that a connection has open still reaches it, to an account that
\* is a member, or its end is queued for the session or next on the list of the
\* route that ended the membership (sessions.rs close_for_account, close_doc),
\* unless the membership ended between the check in open_doc and the
\* subscription. SessionInv is inductive: it adds to RevokedUnbound what the
\* tables and the requests under way keep to.
THEOREM RevokedIsUnbound == Spec => []RevokedUnbound
<1>1. Init => SessionInv BY InitOK, InitSessions DEF SessionInv
<1>2. SessionInv /\ [Next]_vars => SessionInv'
  <2> SUFFICES ASSUME SessionInv, [Next]_vars PROVE SessionInv' OBVIOUS
  <2>1. AccessInv /\ Sessions /\ AllFine BY FineIs DEF SessionInv
  <2>2. AccessInv' BY <2>1, NextOK
  <2>3. Sessions' /\ AllFine' BY <2>1, SessionsKept
  <2>4. RevokedUnbound' BY <2>3, FineWillBe
  <2> QED BY <2>2, <2>3, <2>4 DEF SessionInv
<1>3. SessionInv => RevokedUnbound BY DEF SessionInv
<1> QED BY <1>1, <1>2, <1>3, PTL DEF Spec
=============================================================================
