----------------------------- MODULE HostProofs -----------------------------
(***************************************************************************)
(* The profile, the process that serves it and the commands that rewrite   *)
(* it: a profile that exists opens (ProfileComplete), a host serves the    *)
(* profile that is on disk (ServesProfile), and a mirror has been sent all *)
(* the host has (MirrorsCurrent), for any accounts, documents and mirrors. *)
(* The argument is HostInv, on top of the invariant of AccessProofs.       *)
(***************************************************************************)
EXTENDS AccessProofs, HostInvariant, SequenceTheorems

-----------------------------------------------------------------------------
(* Requests *)

\* A request goes on to r: it stays the request it is.
Goes(q, r) ==
  /\ r.op = q.op
  /\ q.op \in {"signup", "createDoc", "deleteDoc"} => r.doc = q.doc
  /\ r.password = q.password /\ r.new = q.new
  /\ NamesDocs(q) => NamesDocs(r)

AllGo == \A x \in Client : Goes(calls[x], calls'[x])

\* Only the request of c changes, and not in what it is.
Stays(c) ==
  /\ \A x \in Client : x # c => calls'[x] = calls[x]
  /\ calls'[c].op = calls[c].op
  /\ calls'[c].list = calls[c].list
  /\ calls'[c].password = calls[c].password /\ calls'[c].new = calls[c].new
  /\ calls[c].op \in {"signup", "createDoc", "deleteDoc", "recover"} => calls'[c].doc = calls[c].doc
  /\ calls[c].op = "recover" =>
       calls'[c].at # "session" /\ ~(calls'[c].at = "answered" /\ calls'[c].out = "ok")
  /\ calls[c].op = "accept" => ~(calls'[c].at = "answered" /\ calls'[c].out = "ok")

\* Such a request goes on.
LEMMA StaysGoes ==
  ASSUME NEW c \in Client, Stays(c)
  PROVE  AllGo
<1>1. ASSUME NEW x \in Client PROVE Goes(calls[x], calls'[x])
  <2>1. CASE x = c
    BY <2>1 DEF Stays, Goes, NamesDocs
  <2>2. CASE x # c
    BY <2>2 DEF Stays, Goes
  <2> QED
    BY <2>1, <2>2
<1> QED
  BY <1>1 DEF AllGo

\* The fields of a request that a route leaves alone.
LEMMA Fields ==
  ASSUME AccessInv, NEW c \in Client
  PROVE  calls = [x \in Client |-> calls[x]] /\ DOMAIN calls[c] = DOMAIN Idle
BY DEF AccessInv, Requests, RequestOK

\* Answers and steps of a route.
LEMMA Moves ==
  ASSUME AccessInv, NEW c \in Client, NEW at, NEW out,
         Goto(c, at) \/ Answer(c, out),
         calls[c].op \in {"recover", "accept"} => at \notin {"session", "answered"} /\ out # "ok"
  PROVE  Stays(c)
<1>1. CASE Goto(c, at)
  BY <1>1, Fields DEF Goto, Stays, Idle
<1>2. CASE Answer(c, out)
  BY <1>2, Fields DEF Answer, Stays, Idle
<1> QED
  BY <1>1, <1>2

\* The routes of accounts and passwords.
LEMMA AccountRoutes ==
  ASSUME AccessInv, NEW c \in Client,
         \/ Authenticate(c) \/ Signup(c) \/ LoginVerify(c) \/ PasswordVerify(c) \/ PasswordUpdate(c)
         \/ PasswordReset(c) \/ RevokeDevice(c) \/ DeleteAccountVerify(c) \/ DeleteAccount(c)
         \/ LoginDevice(c) \/ ResetDevice(c)
  PROVE  AllGo
<1>1. CASE Authenticate(c)
  <2>1. CASE Answer(c, "Unauthorized")
    BY <2>1, Moves, StaysGoes
  <2>2. CASE calls' = [calls EXCEPT ![c].at = "run", ![c].account = DeviceAccount(calls[c].token)]
    <3>1. Stays(c)
      BY <2>2, Fields DEF Stays, Idle
    <3> QED
      BY <3>1, StaysGoes
  <2> QED
    BY <1>1, <2>1, <2>2 DEF Authenticate
<1>2. CASE Signup(c)
  <2>1. calls[c].op = "signup"
    BY <1>2 DEF Signup, At
  <2>2. CASE Answer(c, "AccountExists") \/ Answer(c, "DocExists")
    BY <2>1, <2>2, Moves, StaysGoes
  <2>3. CASE calls' = [calls EXCEPT ![c].at = "answered", ![c].out = "ok", ![c].token = Len(devices) + 1]
    <3>1. Stays(c)
      BY <2>1, <2>3, Fields DEF Stays, Idle
    <3> QED
      BY <3>1, StaysGoes
  <2> QED
    BY <1>2, <2>2, <2>3 DEF Signup, Refuse
<1>3. CASE LoginVerify(c) \/ PasswordVerify(c) \/ DeleteAccountVerify(c)
  <2>1. calls[c].op \notin {"recover", "accept"}
    BY <1>3 DEF LoginVerify, PasswordVerify, DeleteAccountVerify, At
  <2>2. \/ Goto(c, "device") \/ Goto(c, "update") \/ Goto(c, "purge")
        \/ Answer(c, "InvalidCredentials")
    BY <1>3 DEF LoginVerify, PasswordVerify, DeleteAccountVerify
  <2> QED
    BY <2>1, <2>2, Moves, StaysGoes
<1>4. CASE PasswordUpdate(c) \/ RevokeDevice(c)
  <2>1. calls[c].op \notin {"recover", "accept"}
    BY <1>4 DEF PasswordUpdate, RevokeDevice, At
  <2>2. \E out : Answer(c, out)
    BY <1>4 DEF PasswordUpdate, RevokeDevice, Refuse
  <2> QED
    BY <2>1, <2>2, Moves, StaysGoes
<1>5. CASE PasswordReset(c)
  <2>1. calls[c].op = "reset"
    BY <1>5 DEF PasswordReset, At
  <2>2. CASE \E out : Answer(c, out)
    BY <2>1, <2>2, Moves, StaysGoes
  <2>3. CASE \E a : calls' = [calls EXCEPT ![c].at = "device", ![c].account = a]
    <3>1. Stays(c)
      BY <2>1, <2>3, Fields DEF Stays, Idle
    <3> QED
      BY <3>1, StaysGoes
  <2> QED
    BY <1>5, <2>2, <2>3 DEF PasswordReset, Refuse
<1>6. CASE DeleteAccount(c)
  <2>1. calls[c].op = "deleteAccount"
    BY <1>6 DEF DeleteAccount, At
  <2>2. PICK close : calls' = [calls EXCEPT ![c].at = "close", ![c].out = "ok", ![c].close = close]
    BY <1>6 DEF DeleteAccount
  <2>3. Stays(c)
    BY <2>1, <2>2, Fields DEF Stays, Idle
  <2> QED
    BY <2>3, StaysGoes
<1>7. CASE LoginDevice(c) \/ ResetDevice(c)
  <2>1. calls[c].op \in {"login", "reset"}
    BY <1>7 DEF LoginDevice, ResetDevice, At
  <2>2. CASE Answer(c, "Internal")
    BY <2>1, <2>2, Moves, StaysGoes
  <2>3. ASSUME NEW at, NEW t, NEW d,
               calls' = [calls EXCEPT ![c].at = at, ![c].token = t, ![c].doc = d, ![c].out = "ok"]
        PROVE  AllGo
    <3>1. Stays(c)
      BY <2>1, <2>3, Fields DEF Stays, Idle
    <3> QED
      BY <3>1, StaysGoes
  <2> QED
    <3>1. ASSUME NEW at, CreateDevice(c, at) PROVE AllGo
      <4>1. CASE calls[c].account \notin DOMAIN accounts
        BY <2>2, <3>1, <4>1 DEF CreateDevice, Refuse
      <4>2. CASE calls[c].account \in DOMAIN accounts
        <5>1. calls' = [calls EXCEPT ![c].at = at, ![c].token = Len(devices) + 1,
                                     ![c].doc = accounts[calls[c].account].primary, ![c].out = "ok"]
          BY <3>1, <4>2 DEF CreateDevice
        <5> QED
          BY <2>3, <5>1
      <4> QED
        BY <4>1, <4>2
    <3> QED
      BY <1>7, <3>1 DEF LoginDevice, ResetDevice
<1> QED
  BY <1>1, <1>2, <1>3, <1>4, <1>5, <1>6, <1>7

\* The routes of documents and of sharing.
LEMMA SharingRoutes ==
  ASSUME AccessInv, NEW c \in Client,
         \/ CreateDoc(c) \/ DeleteDoc(c) \/ CreateInvite(c) \/ RevokeInvite(c)
         \/ AcceptInvite(c) \/ RemoveMember(c)
  PROVE  AllGo
<1>1. /\ calls[c].op \notin {"signup", "recover"}
      /\ (calls[c].op = "deleteDoc" => DeleteDoc(c)) /\ (calls[c].op = "accept" => AcceptInvite(c))
  BY DEF CreateDoc, DeleteDoc, CreateInvite, RevokeInvite, AcceptInvite, RemoveMember, At
<1>2. ASSUME NEW out, Answer(c, out), out # "ok" \/ calls[c].op # "accept" PROVE AllGo
  BY <1>1, <1>2, Moves, StaysGoes
<1>3. ASSUME NEW close, calls' = [calls EXCEPT ![c].at = "close", ![c].out = "ok", ![c].close = close]
      PROVE  AllGo
  <2>1. Stays(c)
    BY <1>1, <1>3, Fields DEF Stays, Idle
  <2> QED
    BY <2>1, StaysGoes
<1>4. CASE CreateDoc(c) \/ RevokeInvite(c)
  BY <1>2, <1>4 DEF CreateDoc, RevokeInvite, Refuse, At
<1>5. CASE DeleteDoc(c) \/ RemoveMember(c)
  BY <1>2, <1>3, <1>5 DEF DeleteDoc, RemoveMember, Refuse
<1>6. CASE CreateInvite(c)
  <2>1. ASSUME NEW n, calls' = [calls EXCEPT ![c].at = "answered", ![c].out = "ok", ![c].row = n]
        PROVE  AllGo
    <3>1. Stays(c)
      BY <1>1, <1>6, <2>1, Fields DEF Stays, Idle, CreateInvite, At
    <3> QED
      BY <3>1, StaysGoes
  <2> QED
    BY <1>2, <1>6, <2>1 DEF CreateInvite, Refuse
<1>7. CASE AcceptInvite(c)
  <2>1. calls[c].op = "accept"
    BY <1>7 DEF AcceptInvite, At
  <2>2. ASSUME NEW d \in Doc,
               calls' = [calls EXCEPT ![c].at = "answered", ![c].out = "ok", ![c].doc = d]
        PROVE  AllGo
    <3>1. /\ \A x \in Client : x # c => calls'[x] = calls[x]
          /\ calls'[c].op = calls[c].op /\ calls'[c].list = calls[c].list /\ calls'[c].doc = d
          /\ calls'[c].password = calls[c].password /\ calls'[c].new = calls[c].new
      BY <2>2, Fields DEF Idle
    <3> QED
      BY <2>1, <3>1 DEF AllGo, Goes, NamesDocs
  <2>3. invites[calls[c].row].doc \in Doc
    <3>1. calls[c].row \in DOMAIN invites
      BY <2>1 DEF AccessInv, Requests, RequestOK
    <3>2. invites \in Seq([doc : Doc, by : Account, state : RowState])
      BY DEF AccessInv, Tables, Invites
    <3>3. invites[calls[c].row] \in [doc : Doc, by : Account, state : RowState]
      BY <3>1, <3>2, InSeq
    <3> QED
      BY <3>3
  <2> QED
    BY <1>2, <1>7, <2>2, <2>3 DEF AcceptInvite, Refuse
<1> QED
  BY <1>4, <1>5, <1>6, <1>7

\* The routes that name documents in their answers.
LEMMA NamingRoutes ==
  ASSUME AccessInv, NEW c \in Client, ListDocs(c) \/ RecoverVerify(c) \/ RecoverSession(c)
  PROVE  AllGo
<1>1. CASE ListDocs(c)
  <2>1. calls[c].op \in {"login", "docs"}
    BY <1>1 DEF ListDocs, At
  <2>2. ASSUME NEW m \in Memberships(calls[c].account) PROVE m.doc \in Doc
    <3>1. PICK d \in {e \in Doc : IsMember(e, calls[c].account)} :
            m = [doc |-> d, wrap |-> members[<<d, calls[c].account>>].wrap]
      BY Zenon DEF Memberships
    <3> QED
      BY <3>1
  <2>3. /\ \A x \in Client : x # c => calls'[x] = calls[x]
        /\ calls'[c].op = calls[c].op /\ calls'[c].list = Memberships(calls[c].account)
        /\ calls'[c].password = calls[c].password /\ calls'[c].new = calls[c].new
    BY <1>1, Fields DEF ListDocs, Idle
  <2> QED
    BY <2>1, <2>2, <2>3 DEF AllGo, Goes, NamesDocs
<1>2. CASE RecoverVerify(c)
  <2> DEFINE a == calls[c].account
  <2>1. calls[c].op = "recover"
    BY <1>2 DEF RecoverVerify, At
  <2>2. CASE Answer(c, "InvalidCredentials")
    BY <2>2, Moves, StaysGoes
  <2>3. CASE a \in DOMAIN accounts /\ calls' = [calls EXCEPT ![c].at = "session", ![c].doc = accounts[a].primary]
    <3>1. accounts[a].primary \in Doc
      BY <2>3 DEF AccessInv, Tables, AccountRows
    <3>2. /\ \A x \in Client : x # c => calls'[x] = calls[x]
          /\ calls'[c].op = calls[c].op /\ calls'[c].list = calls[c].list
          /\ calls'[c].doc = accounts[a].primary
          /\ calls'[c].password = calls[c].password /\ calls'[c].new = calls[c].new
      BY <2>3, Fields DEF Idle
    <3> QED
      BY <2>1, <3>1, <3>2 DEF AllGo, Goes, NamesDocs
  <2> QED
    BY <1>2, <2>2, <2>3 DEF RecoverVerify
<1>3. CASE RecoverSession(c)
  <2>1. calls[c].op = "recover" /\ calls[c].at = "session"
    BY <1>3 DEF RecoverSession, At
  <2>2. CASE Answer(c, "Internal")
    BY <2>2, Moves, StaysGoes
  <2>3. ASSUME NEW n, calls' = [calls EXCEPT ![c].at = "answered", ![c].out = "ok", ![c].row = n]
        PROVE  AllGo
    <3>1. /\ \A x \in Client : x # c => calls'[x] = calls[x]
          /\ calls'[c].op = calls[c].op /\ calls'[c].list = calls[c].list
          /\ calls'[c].doc = calls[c].doc
          /\ calls'[c].password = calls[c].password /\ calls'[c].new = calls[c].new
      BY <2>3, Fields DEF Idle
    <3> QED
      BY <2>1, <3>1 DEF AllGo, Goes, NamesDocs
  <2> QED
    BY <1>3, <2>2, <2>3 DEF RecoverSession, Refuse
<1> QED
  BY <1>1, <1>2, <1>3

\* Whatever the server does, a request goes on.
LEMMA ServerGoes ==
  ASSUME AccessInv, ServerStep
  PROVE  AllGo
<1>1. ASSUME NEW c \in Client, Route(c) PROVE AllGo
  BY <1>1, AccountRoutes, SharingRoutes, NamingRoutes DEF Route
<1>2. ASSUME NEW c \in Client, CloseNext(c) PROVE AllGo
  <2>1. calls[c].op \notin {"recover", "accept"}
    BY <1>2 DEF CloseNext, AccessInv, Requests, RequestOK
  <2>2. PICK x \in calls[c].close :
          calls' = [calls EXCEPT ![c].close = @ \ {x},
                                 ![c].at = IF calls[c].close = {x} THEN "answered" ELSE "close"]
    BY <1>2 DEF CloseNext
  <2>3. Stays(c)
    BY <2>1, <2>2, Fields DEF Stays, Idle
  <2> QED
    BY <2>3, StaysGoes
<1>3. CASE Expire
  BY <1>3 DEF Expire, AllGo, Goes
<1> QED
  BY <1>1, <1>2, <1>3 DEF ServerStep

-----------------------------------------------------------------------------
(* What a step that leaves a part alone keeps *)

\* No exception is taken back.
LEMMA LapsedGrows ==
  ASSUME lapses \subseteq lapses', NEW kind
  PROVE  Lapsed(kind) => Lapsed(kind)'
BY DEF Lapsed

\* An exception that happens is on record.
LEMMA LapseMarks ==
  ASSUME NEW kind, NEW d, NEW happens, Lapse(kind, d, happens)
  PROVE  lapses \subseteq lapses' /\ (happens => Lapsed(kind)')
<1>1. lapses \subseteq lapses' /\ (happens => <<kind, d>> \in lapses')
  BY DEF Lapse
<1>2. <<kind, d>>[1] = kind
  OBVIOUS
<1> QED
  BY <1>1, <1>2 DEF Lapsed

\* Nothing that a command holds, and no account row, changes.
LEMMA HoldingKept ==
  ASSUME Holding, UNCHANGED <<cmd, row>>, lapses \subseteq lapses'
  PROVE  Holding'
BY LapsedGrows DEF Holding

\* The lock and the processes that may hold it are left alone.
LEMMA LockingKept ==
  ASSUME Locking, UNCHANGED <<lock, cmd>>, host'.state = host.state, host'.who = host.who
  PROVE  Locking'
BY DEF Locking

\* No file is written but copies of documents.
LEMMA WrittenKept ==
  ASSUME Written, UNCHANGED <<secrets, row, cmd>>, lapses \subseteq lapses',
         DOMAIN disk \cup emptied \subseteq DOMAIN disk' \cup emptied'
  PROVE  Written'
BY LapsedGrows DEF Written

\* The host goes on serving the same documents; it does not begin to create one.
LEMMA HostingKept ==
  ASSUME Hosting, UNCHANGED <<secrets, row>>, lapses \subseteq lapses',
         host'.state = host.state, host'.primary = host.primary, host'.token = host.token,
         DOMAIN host'.mem = DOMAIN host.mem,
         host'.todo \in {None, "pump", "delete", host.todo}, host'.todo = "create" => host'.held = host.held
  PROVE  Hosting'
BY LapsedGrows DEF Hosting, None

\* The requests go on, and the handler that waits goes on waiting.
LEMMA WaitingKept ==
  ASSUME Waiting, AllGo, UNCHANGED cmd, host'.todo \in {None, "pump", "create", host.todo},
         host'.todo = "delete" => host'.primary = host.primary
  PROVE  Waiting'
<1>1. /\ CmdClient \in Client /\ HostClient \in Client
      /\ Goes(calls[CmdClient], calls'[CmdClient])
      /\ Goes(calls[HostClient], calls'[HostClient])
  BY ClientsAssumption DEF AllGo
<1>2. ASSUME NEW c \in Client PROVE NamesDocs(calls'[c])
  BY DEF Waiting, AllGo, Goes
<1> QED
  BY <1>1, <1>2 DEF Waiting, Goes, None

\* The mirrors and what the host has are left alone; a pump may become due.
LEMMA MirroredKept ==
  ASSUME Mirrored, UNCHANGED mirrors, host'.state = host.state, host'.mem = host.mem,
         host'.todo = "pump" \/ host.todo # "pump"
  PROVE  Mirrored'
BY DEF Mirrored, MirrorOK

\* Neither the disk nor what the host has changes.
LEMMA OnDiskKept ==
  ASSUME OnDisk, UNCHANGED disk, lapses \subseteq lapses', host'.state = host.state,
         host'.mem = host.mem
  PROVE  OnDisk'
BY DEF OnDisk, BootDoc, Cleared

\* Nothing of the installation changes but requests.
LEMMA RequestsGo ==
  ASSUME HostInv, AllGo, UNCHANGED localVars
  PROVE  HostInv'
<1>1. UNCHANGED <<lock, secrets, row, disk, host, mirrors, emptied, lapses, cmd>>
  BY DEF localVars
<1>2. Shapes'
  BY <1>1 DEF HostInv, Shapes
<1>3. Locking' /\ Hosting' /\ Written' /\ Holding'
  BY <1>1, LockingKept, HostingKept, WrittenKept, HoldingKept DEF HostInv
<1>4. Waiting'
  BY <1>1, WaitingKept DEF HostInv
<1>5. Mirrored' /\ OnDisk'
  BY <1>1, OnDiskKept DEF HostInv, Mirrored, MirrorOK
<1> QED
  BY <1>2, <1>3, <1>4, <1>5 DEF HostInv

\* A client other than the host and the commands may ask anything.
LEMMA PeerAsks ==
  ASSUME HostInv, Requests, NEW c \in Peers, NEW q, calls' = [calls EXCEPT ![c] = q], NamesDocs(q),
         UNCHANGED localVars
  PROVE  HostInv'
<1>1. UNCHANGED <<lock, secrets, row, disk, host, mirrors, emptied, lapses, cmd>>
  BY DEF localVars
<1>2. Shapes'
  BY <1>1 DEF HostInv, Shapes
<1>3. Locking' /\ Hosting' /\ Written' /\ Holding'
  BY <1>1, LockingKept, HostingKept, WrittenKept, HoldingKept DEF HostInv
<1>4. Mirrored' /\ OnDisk'
  BY <1>1, OnDiskKept DEF HostInv, Mirrored, MirrorOK
<1>5. calls'[CmdClient] = calls[CmdClient] /\ calls'[HostClient] = calls[HostClient]
  BY DEF Peers, Requests
<1>6. \A x \in Client : NamesDocs(calls'[x])
  BY DEF HostInv, Waiting, Requests
<1>7. Waiting'
  BY <1>1, <1>5, <1>6 DEF HostInv, Waiting
<1> QED
  BY <1>2, <1>3, <1>4, <1>7 DEF HostInv

\* The steps of other clients, and replies that are lost or not waited for.
LEMMA PeerKeeps ==
  ASSUME AccessInv, HostInv, PeerStep
  PROVE  HostInv'
<1>1. UNCHANGED localVars
  BY DEF PeerStep
<1>2. ASSUME NEW c \in Peers, PeerSend(c) PROVE HostInv'
  <2>1. PICK q \in Asks : calls' = [calls EXCEPT ![c] = q]
    BY <1>2 DEF PeerSend, Send
  <2>2. NamesDocs(q)
    BY AsksOK DEF AccessInv, NamesDocs
  <2> QED
    BY <1>1, <2>1, <2>2, PeerAsks DEF AccessInv
<1>3. ASSUME NEW c \in Peers, NEW d \in Doc, PeerCreateDoc(c, d) PROVE HostInv'
  <2>1. PICK t \in Tokens :
          calls' = [calls EXCEPT ![c] = [Authed("createDoc", t) EXCEPT !.doc = d, !.home = HomeOf(t)]]
    BY <1>3 DEF PeerCreateDoc, Send
  <2> DEFINE q == [Authed("createDoc", t) EXCEPT !.doc = d, !.home = HomeOf(t)]
  <2>2. NamesDocs(q)
    BY DEF NamesDocs, Authed, Request, Idle
  <2> HIDE DEF q
  <2> QED
    BY <1>1, <2>1, <2>2, PeerAsks DEF AccessInv, q
<1>4. ASSUME NEW c \in Client, LoseReply(c) PROVE HostInv'
  <2>1. Stays(c)
    BY <1>4, Fields DEF LoseReply, Stays, Idle
  <2> QED
    BY <1>1, <2>1, StaysGoes, RequestsGo
<1>5. ASSUME NEW c \in Client, DropReply(c) PROVE HostInv'
  <2>1. calls' = [calls EXCEPT ![c] = Idle]
    BY <1>5 DEF DropReply
  <2>2. NamesDocs(Idle)
    BY DEF NamesDocs, Idle, None
  <2>3. CASE c \in Peers
    BY <1>1, <2>1, <2>2, <2>3, PeerAsks DEF AccessInv
  <2>4. CASE c \notin Peers
    <3>1. UNCHANGED <<lock, secrets, row, disk, host, mirrors, emptied, lapses, cmd>>
      BY <1>1 DEF localVars
    <3>2. Shapes'
      BY <3>1 DEF HostInv, Shapes
    <3>3. Locking' /\ Hosting' /\ Written' /\ Holding'
      BY <3>1, LockingKept, HostingKept, WrittenKept, HoldingKept DEF HostInv
    <3>4. Mirrored' /\ OnDisk'
      BY <3>1, OnDiskKept DEF HostInv, Mirrored, MirrorOK
    <3>5. \A x \in Client : NamesDocs(calls'[x])
      BY <2>1, <2>2 DEF HostInv, Waiting, AccessInv, Requests
    <3>6. /\ host.todo = "delete" => calls'[HostClient] = calls[HostClient]
          /\ cmd.at = "http" => calls'[CmdClient] = calls[CmdClient]
      BY <1>5, <2>1, <2>4 DEF DropReply, AccessInv, Requests, CmdClient, HostClient, Peers
    <3>7. Waiting'
      BY <3>1, <3>5, <3>6 DEF HostInv, Waiting
    <3> QED
      BY <3>2, <3>3, <3>4, <3>7 DEF HostInv
  <2> QED
    BY <2>3, <2>4
<1> QED
  BY <1>2, <1>3, <1>4, <1>5 DEF PeerStep

\* The server's steps.
LEMMA ServerKeeps ==
  ASSUME AccessInv, HostInv, ServerStep
  PROVE  HostInv'
<1>1. AllGo /\ UNCHANGED localVars
  BY ServerGoes DEF ServerStep
<1> QED
  BY <1>1, RequestsGo

\* Without requests: what the requests were is what they are.
LEMMA NoRequest ==
  ASSUME UNCHANGED calls
  PROVE  AllGo
BY DEF AllGo, Goes

\* The host changes in its connection only: what it is, what it serves and
\* what it waits for stay.
HostSame ==
  /\ DOMAIN host' = DOMAIN host
  /\ host'.state = host.state /\ host'.who = host.who
  /\ host'.primary = host.primary /\ host'.token = host.token
  /\ host'.mem = host.mem /\ host'.todo = host.todo /\ host'.held = host.held

\* Such a step keeps the invariant.
LEMMA HostSameKeeps ==
  ASSUME HostInv, HostSame, AllGo,
         UNCHANGED <<lock, secrets, row, disk, mirrors, emptied, lapses, cmd>>
  PROVE  HostInv'
<1>1. Shapes'
  BY DEF HostInv, HostSame, Shapes
<1>2. Locking' /\ Hosting' /\ Written' /\ Holding'
  BY LockingKept, HostingKept, WrittenKept, HoldingKept DEF HostInv, HostSame
<1>3. Waiting'
  BY WaitingKept DEF HostInv, HostSame
<1>4. Mirrored' /\ OnDisk'
  BY OnDiskKept DEF HostInv, HostSame, Mirrored, MirrorOK
<1> QED
  BY <1>1, <1>2, <1>3, <1>4 DEF HostInv

\* The sessions.
LEMMA SessionKeeps ==
  ASSUME AccessInv, HostInv, SessionStep
  PROVE  HostInv'
<1>1. UNCHANGED <<calls, lock, secrets, row, disk, mirrors, emptied, lapses, cmd>>
  BY DEF SessionStep
<1>2. host' = host \/ \E d : host' = [host EXCEPT !.asking = @ \ {d}]
  BY DEF SessionStep
<1>3. DOMAIN host = DOMAIN Off
  BY DEF HostInv, Shapes
<1>4. HostSame
  BY <1>2, <1>3 DEF HostSame, Off
<1> QED
  BY <1>1, <1>4, NoRequest, HostSameKeeps

-----------------------------------------------------------------------------
(* The life of the host *)

\* A process takes the lock.
LEMMA StartKeeps ==
  ASSUME HostInv, NEW who \in {"daemon", "app"}, StartHost(who), UNCHANGED <<calls, lapses, cmd>>
  PROVE  HostInv'
<1>1. UNCHANGED <<secrets, row, disk, emptied, mirrors>> /\ lock = None /\ lock' = who /\ host.state = "off"
  BY DEF StartHost, profileVars
<1>2. /\ DOMAIN host' = DOMAIN Off /\ host'.state = "locked" /\ host'.who = who /\ host'.todo = None
      /\ host'.mem = Off.mem
  BY DEF StartHost, Off
<1>3. Shapes'
  BY <1>1, <1>2 DEF HostInv, Shapes
<1>4. Locking'
  BY <1>1, <1>2 DEF HostInv, Locking, None, CmdClient
<1>5. Hosting' /\ Written' /\ Holding'
  BY <1>1, <1>2, WrittenKept, HoldingKept DEF HostInv, Hosting
<1>6. Waiting'
  BY <1>1, <1>2, WaitingKept, NoRequest DEF HostInv, None
<1>7. Mirrored' /\ OnDisk'
  BY <1>1, <1>2 DEF HostInv, Mirrored, MirrorOK, OnDisk
<1> QED
  BY <1>3, <1>4, <1>5, <1>6, <1>7 DEF HostInv

\* The process ends: its mirrors are orphans.
LEMMA StopKeeps ==
  ASSUME HostInv, host.state # "off", host' = Off, lock' = None, mirrors' = Orphaned \/ (mirrors' = mirrors /\ host.state = "locked"),
         UNCHANGED <<secrets, row, emptied, calls, lapses, cmd>>, DOMAIN disk \subseteq DOMAIN disk'
  PROVE  HostInv'
<1>1. DOMAIN host' = DOMAIN Off /\ host'.state = "off" /\ host'.todo = None
  BY DEF Off
<1>2. /\ mirrors' = [s \in Sub |-> mirrors'[s]]
      /\ \A s \in Sub : DOMAIN mirrors'[s] = DOMAIN NoMirror
      /\ \A s \in Sub : /\ mirrors'[s].up = mirrors[s].up /\ mirrors'[s].has = mirrors[s].has
                        /\ mirrors'[s].state # "live"
  BY DEF HostInv, Shapes, Mirrored, MirrorOK, Orphaned, NoMirror
<1>3. Shapes'
  BY <1>1, <1>2 DEF HostInv, Shapes
<1>4. Locking'
  BY <1>1 DEF HostInv, Locking, None, CmdClient
<1>5. Hosting' /\ Written' /\ Holding'
  BY <1>1, WrittenKept, HoldingKept DEF HostInv, Hosting
<1>6. Waiting'
  BY <1>1, WaitingKept, NoRequest DEF HostInv, None
<1>7. Mirrored' /\ OnDisk'
  BY <1>1, <1>2 DEF HostInv, Mirrored, MirrorOK, OnDisk
<1> QED
  BY <1>3, <1>4, <1>5, <1>6, <1>7 DEF HostInv

\* The host boots the documents of secrets.toml, under a lock that keeps every
\* command from its writes.
LEMMA BootKeeps ==
  ASSUME HostInv, BootHost, UNCHANGED <<calls, lapses, cmd>>
  PROVE  HostInv'
<1>1. UNCHANGED <<secrets, row, disk, emptied, mirrors>> /\ host.state = "locked"
  BY DEF BootHost, profileVars
<1>2. CASE row.primary \notin secrets.keys
  BY <1>1, <1>2, StopKeeps DEF BootHost, HomeKey
<1>3. CASE row.primary \in secrets.keys
  <2>1. /\ DOMAIN host' = DOMAIN Off /\ host'.state = "serving" /\ host'.who = host.who
        /\ host'.todo = None /\ host'.mem = [d \in secrets.keys |-> BootDoc(d)]
        /\ host'.primary = row.primary /\ host'.token = secrets.token
        /\ lock' = lock
    BY <1>3 DEF BootHost, HomeKey, Off
  <2>2. Shapes'
    BY <1>1, <2>1 DEF HostInv, Shapes
  <2>3. Locking' /\ cmd.at \notin Writing
    BY <1>1, <2>1 DEF HostInv, Locking, CmdClient
  <2>4. Written' /\ Holding'
    BY <1>1, WrittenKept, HoldingKept DEF HostInv
  <2>5. secrets # NoFile
    BY <1>3 DEF NoFile
  <2>6. ~Lapsed("torn") => row # NoFile
    BY <2>3, <2>5 DEF HostInv, Written, Writing
  <2>7. Hosting'
    BY <1>1, <1>3, <2>1, <2>6 DEF HostInv, Hosting, None, Lapsed
  <2>8. Waiting'
    BY <1>1, <2>1, WaitingKept, NoRequest DEF HostInv, None
  <2>9. \A s \in Sub : mirrors[s].state # "live"
    BY <1>1 DEF HostInv, Mirrored, MirrorOK
  <2>10. Mirrored' /\ OnDisk'
    BY <1>1, <2>1, <2>9 DEF HostInv, Mirrored, MirrorOK, OnDisk, BootDoc
  <2> QED
    BY <2>2, <2>3, <2>4, <2>7, <2>8, <2>10 DEF HostInv
<1> QED
  BY <1>2, <1>3

\* The life of the host.
LEMMA LifeKeeps ==
  ASSUME HostInv, LifeStep, UNCHANGED cmd
  PROVE  HostInv'
<1>1. UNCHANGED <<calls, lapses>>
  BY DEF LifeStep
<1>2. CASE SpawnDaemon \/ StartApp
  BY <1>1, <1>2, StartKeeps DEF SpawnDaemon, StartApp
<1>3. CASE StopHost
  <2>1. /\ host.state # "off" /\ host' = Off /\ lock' = None /\ mirrors' = Orphaned
        /\ UNCHANGED <<secrets, row, emptied>> /\ DOMAIN disk \subseteq DOMAIN disk'
    BY <1>3 DEF StopHost
  <2> QED
    BY <1>1, <2>1, StopKeeps
<1> QED
  BY <1>1, <1>2, <1>3, BootKeeps DEF LifeStep

-----------------------------------------------------------------------------
(* Commits and mirrors *)

\* The mirrors are as their subscriptions left them, but for what their host
\* has: each has or will have all it was sent.
Fed ==
  /\ mirrors' = [s \in Sub |-> mirrors'[s]]
  /\ \A s \in Sub :
       /\ DOMAIN mirrors'[s] = DOMAIN NoMirror
       /\ mirrors'[s].up \in Seq(mirrors'[s].has)
       /\ mirrors'[s].state = "live" =>
            /\ mirrors[s].state = "live"
            /\ mirrors'[s].doc = mirrors[s].doc
            /\ mirrors'[s].sent \subseteq mirrors'[s].has \cup mirrors'[s].down

\* Mirrors that nothing happens to are.
LEMMA StillFed ==
  ASSUME HostInv, UNCHANGED mirrors
  PROVE  Fed
BY DEF HostInv, Shapes, Mirrored, MirrorOK, Fed

\* One mirror takes the next step.
LEMMA OneFed ==
  ASSUME HostInv, NEW s \in Sub, NEW m, mirrors' = [mirrors EXCEPT ![s] = m],
         DOMAIN m = DOMAIN NoMirror, m.up \in Seq(m.has),
         m.state = "live" => /\ mirrors[s].state = "live"
                             /\ m.doc = mirrors[s].doc
                             /\ m.sent \subseteq m.has \cup m.down
  PROVE  Fed
<1>1. mirrors' = [r \in Sub |-> mirrors'[r]] /\ \A r \in Sub : mirrors'[r] = IF r = s THEN m ELSE mirrors[r]
  BY DEF HostInv, Shapes
<1> QED
  BY <1>1 DEF HostInv, Shapes, Mirrored, MirrorOK, Fed

\* fan_out feeds all mirrors, up to what the host has.
LEMMA FanOutFeeds ==
  ASSUME HostInv, NEW mem, mirrors' = FannedOut(mem)
  PROVE  /\ Fed
         /\ \A s \in Sub : mirrors'[s].state = "live" =>
              mirrors'[s].doc \in DOMAIN mem /\ mirrors'[s].sent = mem[mirrors'[s].doc]
<1>1. mirrors' = [s \in Sub |-> mirrors'[s]]
  BY DEF FannedOut
<1>2. ASSUME NEW s \in Sub
      PROVE  /\ DOMAIN mirrors'[s] = DOMAIN NoMirror
             /\ mirrors'[s].up \in Seq(mirrors'[s].has)
             /\ mirrors'[s].state = "live" =>
                  /\ mirrors[s].state = "live"
                  /\ mirrors'[s].doc = mirrors[s].doc
                  /\ mirrors'[s].sent \subseteq mirrors'[s].has \cup mirrors'[s].down
                  /\ mirrors'[s].doc \in DOMAIN mem
                  /\ mirrors'[s].sent = mem[mirrors'[s].doc]
  <2> DEFINE m == mirrors[s]
             o == [m EXCEPT !.state = "orphan"]
             f == [m EXCEPT !.down = @ \cup (mem[m.doc] \ m.sent), !.sent = mem[m.doc]]
  <2>1. mirrors'[s] = IF m.state # "live" THEN m ELSE IF m.doc \notin DOMAIN mem THEN o ELSE f
    BY DEF FannedOut
  <2>2. /\ DOMAIN m = DOMAIN NoMirror /\ m.up \in Seq(m.has)
        /\ m.state = "live" => m.sent \subseteq m.has \cup m.down
    BY DEF HostInv, Shapes, Mirrored, MirrorOK
  <2>3. CASE m.state # "live"
    BY <2>1, <2>2, <2>3
  <2>4. CASE m.state = "live" /\ m.doc \notin DOMAIN mem
    <3>1. DOMAIN o = DOMAIN NoMirror /\ o.up = m.up /\ o.has = m.has /\ o.state = "orphan"
      BY <2>2 DEF NoMirror
    <3> HIDE DEF o
    <3> QED
      BY <2>1, <2>2, <2>4, <3>1
  <2>5. CASE m.state = "live" /\ m.doc \in DOMAIN mem
    <3>1. /\ DOMAIN f = DOMAIN NoMirror /\ f.up = m.up /\ f.has = m.has /\ f.doc = m.doc
          /\ f.down = m.down \cup (mem[m.doc] \ m.sent) /\ f.sent = mem[m.doc]
      BY <2>2 DEF NoMirror
    <3> HIDE DEF f
    <3> QED
      BY <2>1, <2>2, <2>5, <3>1
  <2> QED
    BY <2>3, <2>4, <2>5
<1> QED
  BY <1>1, <1>2 DEF Fed

\* A document the host serves gets operations, which are on disk before
\* anybody hears of them; a pump is due.
LEMMA GrowKeeps ==
  ASSUME HostInv, Serving, Fed, NEW d \in DOMAIN host.mem, NEW ops,
         DOMAIN host' = DOMAIN host, host'.state = host.state, host'.who = host.who,
         host'.primary = host.primary, host'.token = host.token,
         host'.mem = [host.mem EXCEPT ![d] = ops], host'.todo = "pump",
         Persisted(d, ops), emptied \ {d} \subseteq emptied',
         UNCHANGED <<lock, secrets, row, cmd, calls>>, lapses \subseteq lapses'
  PROVE  HostInv'
<1>1. /\ DOMAIN host'.mem = DOMAIN host.mem
      /\ \A e \in DOMAIN host.mem : host'.mem[e] = IF e = d THEN ops ELSE host.mem[e]
  BY DEF HostInv
<1>2. /\ DOMAIN disk' = DOMAIN disk \cup {d}
      /\ BootDoc(d) \cup (ops \ host.mem[d]) \subseteq disk'[d] \/ ops \subseteq disk'[d]
      /\ \A e \in DOMAIN disk : e # d => disk'[e] = disk[e]
  BY DEF Persisted, Saved, Put
<1>3. Shapes'
  BY DEF HostInv, Shapes, Fed
<1>4. Locking' /\ Hosting' /\ Holding'
  BY <1>1, LockingKept, HostingKept, HoldingKept DEF HostInv
<1>5. Written'
  BY <1>2, WrittenKept DEF HostInv
<1>6. Waiting'
  BY WaitingKept, NoRequest DEF HostInv
<1>7. Mirrored'
  BY <1>1 DEF HostInv, Mirrored, MirrorOK, Fed
<1>8. OnDisk'
  <2>1. ASSUME NEW e \in DOMAIN host.mem, ~Cleared(e)' PROVE host'.mem[e] \subseteq BootDoc(e)'
    <3>1. host.mem[e] \subseteq BootDoc(e)
      BY <2>1 DEF HostInv, OnDisk, Serving, Cleared
    <3>2. CASE e = d
      BY <1>1, <1>2, <3>1, <3>2 DEF BootDoc
    <3>3. CASE e # d
      BY <1>1, <1>2, <3>1, <3>3 DEF BootDoc
    <3> QED
      BY <3>2, <3>3
  <2> QED
    BY <1>1, <2>1 DEF OnDisk
<1> QED
  BY <1>3, <1>4, <1>5, <1>6, <1>7, <1>8 DEF HostInv

\* Only mirrors change, and none is live that was not.
LEMMA FedKeeps ==
  ASSUME HostInv, Fed, UNCHANGED <<host, lock, secrets, row, disk, emptied, cmd, calls>>,
         lapses \subseteq lapses',
         \A s \in Sub : mirrors'[s].state = "live" => mirrors'[s].sent = mirrors[s].sent
  PROVE  HostInv'
<1>1. Shapes'
  BY DEF HostInv, Shapes, Fed
<1>2. Locking' /\ Hosting' /\ Holding' /\ Written' /\ OnDisk'
  BY LockingKept, HostingKept, HoldingKept, WrittenKept, OnDiskKept DEF HostInv
<1>3. Waiting'
  BY WaitingKept, NoRequest DEF HostInv
<1>4. Mirrored'
  BY DEF HostInv, Mirrored, MirrorOK, Fed
<1> QED
  BY <1>1, <1>2, <1>3, <1>4 DEF HostInv

\* A commit through the socket, and one in a window.
LEMMA EditKeeps ==
  ASSUME HostInv, EditStep, UNCHANGED cmd
  PROVE  HostInv'
<1>1. UNCHANGED calls /\ DOMAIN host = DOMAIN Off
  BY DEF EditStep, HostInv, Shapes
<1>2. ASSUME NEW d, DocCommand(d) PROVE HostInv'
  <2>1. PICK ops : /\ host' = [host EXCEPT !.mem[d] = ops, !.todo = "pump"]
                   /\ Persisted(d, ops)
    BY <1>2 DEF DocCommand
  <2>2. /\ Serving /\ d \in DOMAIN host.mem /\ lapses \subseteq lapses'
        /\ UNCHANGED <<lock, secrets, row, emptied, mirrors>>
    BY <1>2 DEF DocCommand, Candidates, Lapse
  <2>3. /\ DOMAIN host' = DOMAIN host /\ host'.state = host.state /\ host'.who = host.who
        /\ host'.primary = host.primary /\ host'.token = host.token
        /\ host'.mem = [host.mem EXCEPT ![d] = ops] /\ host'.todo = "pump"
    BY <1>1, <2>1 DEF Off
  <2> QED
    BY <1>1, <2>1, <2>2, <2>3, StillFed, GrowKeeps
<1>3. ASSUME NEW s \in Sub, MirrorEdit(s) PROVE HostInv'
  <2> DEFINE o == Minted(mirrors[s].peer, mirrors[s].has)
             m == [mirrors[s] EXCEPT !.has = @ \cup {o}, !.up = Append(@, o)]
  <2>1. /\ UNCHANGED <<host, lock, secrets, row, disk, emptied>> /\ lapses \subseteq lapses'
        /\ mirrors' = [mirrors EXCEPT ![s].has = @ \cup {o}, ![s].up = Append(@, o)]
    BY <1>3 DEF MirrorEdit, Lapse, profileVars
  <2> HIDE DEF o
  <2>2. /\ DOMAIN mirrors[s] = DOMAIN NoMirror /\ mirrors[s].up \in Seq(mirrors[s].has)
        /\ mirrors = [r \in Sub |-> mirrors[r]]
        /\ mirrors[s].state = "live" => mirrors[s].sent \subseteq mirrors[s].has \cup mirrors[s].down
    BY DEF HostInv, Shapes, Mirrored, MirrorOK
  <2>3. mirrors' = [mirrors EXCEPT ![s] = m]
    BY <2>1, <2>2 DEF NoMirror
  <2>4. /\ DOMAIN m = DOMAIN NoMirror /\ m.has = mirrors[s].has \cup {o}
        /\ m.up = Append(mirrors[s].up, o) /\ m.state = mirrors[s].state
        /\ m.doc = mirrors[s].doc /\ m.sent = mirrors[s].sent /\ m.down = mirrors[s].down
    BY <2>2 DEF NoMirror
  <2> HIDE DEF m
  <2>5. m.up \in Seq(m.has)
    <3>1. mirrors[s].up \in Seq(m.has)
      BY <2>2, <2>4, SeqMonotonic
    <3> QED
      BY <2>4, <3>1
  <2>6. Fed
    BY <2>2, <2>3, <2>4, <2>5, OneFed
  <2>7. \A r \in Sub : mirrors'[r].sent = mirrors[r].sent
    BY <2>2, <2>3, <2>4
  <2> QED
    BY <1>1, <2>1, <2>6, <2>7, FedKeeps
<1> QED
  BY <1>2, <1>3 DEF EditStep

\* A window opens: it starts from what the host has.
LEMMA SubscribeKeeps ==
  ASSUME HostInv, NEW s \in Sub, NEW d, Subscribe(s, d), UNCHANGED <<calls, lapses, cmd>>
  PROVE  HostInv'
<1> DEFINE m == [NoMirror EXCEPT !.state = "live", !.doc = d, !.slot = FreeSlot,
                                 !.peer = PeerOf(FreeSlot), !.has = host.mem[d],
                                 !.sent = host.mem[d], !.behind = Behind(d)]
<1>1. /\ Serving /\ d \in DOMAIN host.mem /\ mirrors' = [mirrors EXCEPT ![s] = m]
      /\ UNCHANGED <<lock, host, secrets, row, disk, emptied>>
  BY DEF Subscribe, Candidates, profileVars
<1>2. /\ DOMAIN m = DOMAIN NoMirror /\ m.up = <<>> /\ m.doc = d
      /\ m.has = host.mem[d] /\ m.sent = host.mem[d]
  BY DEF NoMirror
<1> HIDE DEF m
<1>3. mirrors' = [r \in Sub |-> mirrors'[r]] /\ \A r \in Sub : mirrors'[r] = IF r = s THEN m ELSE mirrors[r]
  BY <1>1 DEF HostInv, Shapes
<1>4. Shapes'
  BY <1>1, <1>2, <1>3 DEF HostInv, Shapes
<1>5. Locking' /\ Hosting' /\ Holding' /\ Written' /\ OnDisk'
  BY <1>1, LockingKept, HostingKept, HoldingKept, WrittenKept, OnDiskKept DEF HostInv
<1>6. Waiting'
  BY <1>1, WaitingKept, NoRequest DEF HostInv
<1>7. Mirrored'
  <2>1. ASSUME NEW r \in Sub PROVE MirrorOK(mirrors[r])'
    <3>1. CASE r = s
      <4>1. \A S : <<>> \in Seq(S)
        OBVIOUS
      <4>2. host'.state = "serving" /\ host'.mem = host.mem
        BY <1>1 DEF Serving
      <4> QED
        BY <1>1, <1>2, <1>3, <3>1, <4>1, <4>2 DEF MirrorOK
    <3>2. CASE r # s
      BY <1>1, <1>3, <3>2 DEF HostInv, Mirrored, MirrorOK
    <3> QED
      BY <3>1, <3>2
  <2> QED
    BY <2>1 DEF Mirrored
<1> QED
  BY <1>4, <1>5, <1>6, <1>7 DEF HostInv

\* An update of a window reaches the host, or is dropped.
LEMMA ImportKeeps ==
  ASSUME HostInv, NEW s \in Sub, Import(s), UNCHANGED <<calls, lapses, cmd>>
  PROVE  HostInv'
<1> DEFINE m == mirrors[s]
           o == Head(m.up)
<1>1. /\ DOMAIN m = DOMAIN NoMirror /\ m.up \in Seq(m.has) /\ m.up # <<>>
      /\ m.state = "live" => m.sent \subseteq m.has \cup m.down
      /\ mirrors = [r \in Sub |-> mirrors[r]] /\ DOMAIN host = DOMAIN Off
      /\ UNCHANGED <<lock, secrets, row, emptied>>
  BY DEF HostInv, Shapes, Mirrored, MirrorOK, Import, profileVars
<1>2. o \in m.has /\ Tail(m.up) \in Seq(m.has)
  BY <1>1, HeadTailProperties
<1>3. CASE m.state = "live" /\ Serving /\ m.doc \in DOMAIN host.mem
  <2> DEFINE n == [m EXCEPT !.up = Tail(@), !.sent = @ \cup {o}]
  <2>1. PICK ops : /\ host' = [host EXCEPT !.mem[m.doc] = ops, !.todo = "pump"]
                   /\ Persisted(m.doc, ops)
                   /\ mirrors' = [mirrors EXCEPT ![s].up = Tail(@), ![s].sent = @ \cup {o}]
    BY <1>3 DEF Import
  <2> HIDE DEF o
  <2>2. mirrors' = [mirrors EXCEPT ![s] = n]
    BY <1>1, <2>1 DEF NoMirror
  <2>3. /\ DOMAIN n = DOMAIN NoMirror /\ n.up = Tail(m.up) /\ n.sent = m.sent \cup {o}
        /\ n.has = m.has /\ n.down = m.down /\ n.doc = m.doc
    BY <1>1 DEF NoMirror
  <2> HIDE DEF n
  <2>4. n.up \in Seq(n.has) /\ n.sent \subseteq n.has \cup n.down
    BY <1>1, <1>2, <1>3, <2>3
  <2>5. Fed
    BY <1>3, <2>2, <2>3, <2>4, OneFed
  <2>6. /\ DOMAIN host' = DOMAIN host /\ host'.state = host.state /\ host'.who = host.who
        /\ host'.primary = host.primary /\ host'.token = host.token
        /\ host'.mem = [host.mem EXCEPT ![m.doc] = ops] /\ host'.todo = "pump"
    BY <1>1, <2>1 DEF Off
  <2> QED
    BY <1>1, <1>3, <2>1, <2>5, <2>6, GrowKeeps
<1>4. CASE mirrors' = [mirrors EXCEPT ![s].up = Tail(@)] /\ UNCHANGED host /\ UNCHANGED profileVars
  <2> DEFINE n == [m EXCEPT !.up = Tail(@)]
  <2>1. mirrors' = [mirrors EXCEPT ![s] = n]
    BY <1>1, <1>4 DEF NoMirror
  <2>2. /\ DOMAIN n = DOMAIN NoMirror /\ n.up = Tail(m.up) /\ n.sent = m.sent
        /\ n.has = m.has /\ n.down = m.down /\ n.doc = m.doc /\ n.state = m.state
    BY <1>1 DEF NoMirror
  <2> HIDE DEF n
  <2>3. Fed
    BY <1>1, <1>2, <2>1, <2>2, OneFed
  <2>4. \A r \in Sub : mirrors'[r].sent = mirrors[r].sent
    BY <1>1, <2>1, <2>2
  <2> QED
    BY <1>1, <1>4, <2>3, <2>4, FedKeeps DEF profileVars
<1> QED
  BY <1>3, <1>4 DEF Import

\* A window reads its updates, or closes.
LEMMA WindowKeeps ==
  ASSUME HostInv, NEW s \in Sub, MirrorUpdate(s) \/ Unsubscribe(s), UNCHANGED <<calls, lapses, cmd>>
  PROVE  HostInv'
<1> DEFINE m == mirrors[s]
<1>1. /\ DOMAIN m = DOMAIN NoMirror /\ m.up \in Seq(m.has)
      /\ m.state = "live" => m.sent \subseteq m.has \cup m.down
      /\ mirrors = [r \in Sub |-> mirrors[r]]
      /\ UNCHANGED <<lock, host, secrets, row, disk, emptied>>
  BY DEF HostInv, Shapes, Mirrored, MirrorOK, MirrorUpdate, Unsubscribe, profileVars
<1>2. CASE MirrorUpdate(s)
  <2> DEFINE n == [m EXCEPT !.has = @ \cup m.down, !.down = {}]
  <2>1. mirrors' = [mirrors EXCEPT ![s] = n]
    BY <1>1, <1>2 DEF MirrorUpdate, NoMirror
  <2>2. /\ DOMAIN n = DOMAIN NoMirror /\ n.up = m.up /\ n.sent = m.sent
        /\ n.has = m.has \cup m.down /\ n.doc = m.doc /\ n.state = m.state
    BY <1>1 DEF NoMirror
  <2> HIDE DEF n
  <2>3. n.up \in Seq(n.has)
    BY <1>1, <2>2, SeqMonotonic
  <2>4. Fed
    BY <1>1, <2>1, <2>2, <2>3, OneFed
  <2>5. \A r \in Sub : mirrors'[r].sent = mirrors[r].sent
    BY <1>1, <2>1, <2>2
  <2> QED
    BY <1>1, <2>4, <2>5, FedKeeps
<1>3. CASE Unsubscribe(s)
  <2>1. mirrors' = [mirrors EXCEPT ![s] = NoMirror]
    BY <1>3 DEF Unsubscribe
  <2>2. NoMirror.up \in Seq(NoMirror.has) /\ NoMirror.state # "live"
    BY DEF NoMirror, None
  <2>3. Fed
    BY <2>1, <2>2, OneFed
  <2>4. \A r \in Sub : mirrors'[r].state = "live" => mirrors'[r].sent = mirrors[r].sent
    BY <1>1, <2>1, <2>2
  <2> QED
    BY <1>1, <2>3, <2>4, FedKeeps
<1> QED
  BY <1>2, <1>3

\* The mirrors.
LEMMA MirrorKeeps ==
  ASSUME HostInv, MirrorStep, UNCHANGED cmd
  PROVE  HostInv'
<1>1. UNCHANGED <<calls, lapses>>
  BY DEF MirrorStep
<1> QED
  BY <1>1, SubscribeKeeps, ImportKeeps, WindowKeeps DEF MirrorStep

-----------------------------------------------------------------------------
(* The network *)

\* pump and fan_out: every mirror has been sent what the host has.
LEMMA PumpKeeps ==
  ASSUME HostInv, Pump, UNCHANGED <<calls, lapses, cmd>>
  PROVE  HostInv'
<1>1. /\ host.state = "serving" /\ host' = [host EXCEPT !.todo = None]
      /\ mirrors' = FannedOut(host.mem) /\ UNCHANGED <<lock, secrets, row, disk, emptied>>
  BY DEF Pump
<1>2. /\ DOMAIN host' = DOMAIN host /\ host'.state = host.state /\ host'.who = host.who
      /\ host'.primary = host.primary /\ host'.token = host.token
      /\ host'.mem = host.mem /\ host'.todo = None
  BY <1>1 DEF HostInv, Shapes, Off
<1>3. /\ Fed
      /\ \A s \in Sub : mirrors'[s].state = "live" =>
           mirrors'[s].doc \in DOMAIN host.mem /\ mirrors'[s].sent = host.mem[mirrors'[s].doc]
  BY <1>1, FanOutFeeds
<1>4. Shapes'
  BY <1>1, <1>2, <1>3 DEF HostInv, Shapes, Fed
<1>5. Locking' /\ Hosting' /\ Holding' /\ Written' /\ OnDisk'
  BY <1>1, <1>2, LockingKept, HostingKept, HoldingKept, WrittenKept, OnDiskKept DEF HostInv, None
<1>6. Waiting'
  BY <1>1, <1>2, WaitingKept, NoRequest DEF HostInv, None
<1>7. Mirrored'
  BY <1>1, <1>2, <1>3 DEF Mirrored, MirrorOK, Fed
<1> QED
  BY <1>4, <1>5, <1>6, <1>7 DEF HostInv

\* While the host serves, no command is at its writes.
LEMMA NoneWriting ==
  ASSUME HostInv, host.state # "off"
  PROVE  cmd.at \notin Writing /\ lock # CmdClient
BY DEF HostInv, Locking, CmdClient

\* forget_doc: a document other than Home goes, with its key and its copy.
LEMMA ForgetKeeps ==
  ASSUME HostInv, host.state = "serving", NEW d, d # host.primary, ForgetDoc(d),
         DOMAIN host' = DOMAIN host, host'.state = host.state, host'.who = host.who,
         host'.primary = host.primary, host'.token = host.token,
         host'.mem = Drop(host.mem, {d}), host'.todo = None,
         mirrors' = FannedOut(Drop(host.mem, {d})),
         UNCHANGED <<lock, cmd, lapses>>, Waiting'
  PROVE  HostInv'
<1>1. /\ DOMAIN host'.mem = DOMAIN host.mem \ {d}
      /\ \A e \in DOMAIN host.mem \ {d} : host'.mem[e] = host.mem[e]
  BY DEF Drop
<1>2. /\ Fed
      /\ \A s \in Sub : mirrors'[s].state = "live" =>
           mirrors'[s].doc \in DOMAIN host'.mem /\ mirrors'[s].sent = host'.mem[mirrors'[s].doc]
  BY FanOutFeeds
<1>3. /\ DOMAIN secrets = DOMAIN NoFile
      /\ DOMAIN secrets' = DOMAIN NoFile /\ secrets'.token = secrets.token
      /\ secrets'.keys = secrets.keys \ {d}
      /\ row' = row /\ emptied' = emptied \cup {d}
      /\ DOMAIN disk' = DOMAIN disk \ {d} /\ \A e \in DOMAIN disk \ {d} : disk'[e] = disk[e]
  BY DEF ForgetDoc, HostInv, Shapes, NoFile, Drop
<1>4. Shapes'
  BY <1>2, <1>3 DEF HostInv, Shapes, Fed
<1>5. Locking' /\ Holding'
  BY <1>3, LockingKept, HoldingKept DEF HostInv
<1>6. Hosting'
  BY <1>1, <1>3 DEF HostInv, Hosting, Lapsed, None
<1>7. cmd.at \notin Writing /\ row.primary = host.primary
  BY NoneWriting DEF HostInv, Hosting
<1>8. ASSUME secrets = NoFile PROVE secrets' = NoFile
  <2>1. secrets' = [NoFile EXCEPT !.keys = {}]
    BY <1>8 DEF ForgetDoc, NoFile
  <2> QED
    BY <2>1 DEF NoFile
<1>9. Written'
  BY <1>3, <1>7, <1>8 DEF HostInv, Written, Writing, Lapsed
<1>10. Mirrored'
  BY <1>2 DEF Mirrored, MirrorOK, Fed
<1>11. OnDisk'
  BY <1>1, <1>3 DEF HostInv, OnDisk, BootDoc, Cleared
<1> QED
  BY <1>4, <1>5, <1>6, <1>9, <1>10, <1>11 DEF HostInv

\* Operations from the server.
LEMMA MergeKeeps ==
  ASSUME HostInv, Serving, NEW d \in DOMAIN host.mem, Merged(d), UNCHANGED <<lock, calls, lapses, cmd>>
  PROVE  HostInv'
<1>1. PICK ops : /\ host' = [host EXCEPT !.mem[d] = ops, !.engine[d] = "idle", !.todo = "pump"]
                 /\ Persisted(d, ops)
  BY DEF Merged
<1>2. UNCHANGED <<secrets, row, mirrors>> /\ emptied' = emptied \ {d}
  BY DEF Merged
<1>3. /\ DOMAIN host' = DOMAIN host /\ host'.state = host.state /\ host'.who = host.who
      /\ host'.primary = host.primary /\ host'.token = host.token
      /\ host'.mem = [host.mem EXCEPT ![d] = ops] /\ host'.todo = "pump"
  BY <1>1 DEF HostInv, Shapes, Off
<1> QED
  BY <1>1, <1>2, <1>3, StillFed, GrowKeeps

\* A frame of the server.
LEMMA FrameKeeps ==
  ASSUME HostInv, HostFrame, UNCHANGED <<calls, lapses, cmd>>
  PROVE  HostInv'
<1> DEFINE d == Head(conns[HostConn].wire).doc
<1>1. Serving /\ UNCHANGED lock /\ DOMAIN host = DOMAIN Off
  BY DEF HostFrame, HostInv, Shapes
<1>2. CASE UNCHANGED <<host, mirrors>> /\ UNCHANGED profileVars
  <2>1. HostSame
    BY <1>2 DEF HostSame
  <2> QED
    BY <1>1, <1>2, <2>1, NoRequest, HostSameKeeps DEF profileVars
<1>3. CASE d \in DOMAIN host.mem /\ Merged(d)
  BY <1>1, <1>3, MergeKeeps
<1>4. CASE d # host.primary /\ host' = Forgotten(host, d) /\ ForgetDoc(d)
           /\ mirrors' = FannedOut(Drop(host.mem, {d}))
  <2> HIDE DEF d
  <2>1. /\ DOMAIN host' = DOMAIN host /\ host'.state = host.state /\ host'.who = host.who
        /\ host'.primary = host.primary /\ host'.token = host.token
        /\ host'.mem = Drop(host.mem, {d}) /\ host'.todo = host.todo
    BY <1>1, <1>4 DEF Forgotten, Off
  <2>2. Waiting'
    BY <2>1, NoRequest, WaitingKept DEF HostInv
  <2> QED
    BY <1>1, <1>4, <2>1, <2>2, ForgetKeeps DEF Serving
<1>5. CASE host' = Disconnected(host) /\ UNCHANGED mirrors /\ UNCHANGED profileVars
  <2>1. HostSame
    BY <1>1, <1>5 DEF HostSame, Disconnected, Off
  <2> QED
    BY <1>1, <1>5, <2>1, NoRequest, HostSameKeeps DEF profileVars
<1> QED
  BY <1>2, <1>3, <1>4, <1>5 DEF HostFrame

\* The connection comes and goes.
LEMMA ConnectKeeps ==
  ASSUME HostInv, HostConnect \/ HostDisconnect, UNCHANGED <<calls, lapses, cmd>>
  PROVE  HostInv'
<1>1. /\ UNCHANGED <<lock, secrets, row, disk, mirrors, emptied>>
      /\ DOMAIN host = DOMAIN Off
  BY DEF HostConnect, HostDisconnect, profileVars, HostInv, Shapes
<1>2. HostSame
  BY <1>1 DEF HostConnect, HostDisconnect, Disconnected, HostSame, Off
<1> QED
  BY <1>1, <1>2, NoRequest, HostSameKeeps

\* A handler of the host asks, or takes its answer; the request of the command
\* stays as it is.
LEMMA HostAsks ==
  ASSUME HostInv, Requests, NEW q, calls' = [calls EXCEPT ![HostClient] = q], NamesDocs(q), UNCHANGED cmd,
         host'.todo = "delete" => q.op = "deleteDoc" /\ q.doc # host'.primary
  PROVE  Waiting'
<1>1. calls'[CmdClient] = calls[CmdClient] /\ calls'[HostClient] = q
  BY ClientsAssumption DEF Requests, CmdClient, HostClient
<1>2. \A x \in Client : NamesDocs(calls'[x])
  BY DEF HostInv, Waiting, Requests
<1> QED
  BY <1>1, <1>2 DEF HostInv, Waiting

\* The answer to the host: a new document, one less, or neither.
LEMMA ReplyKeeps ==
  ASSUME AccessInv, HostInv, HostReply, UNCHANGED <<lapses, cmd>>
  PROVE  HostInv'
<1> DEFINE d == calls[HostClient].doc
<1>1. /\ host.state = "serving" /\ UNCHANGED lock /\ calls' = [calls EXCEPT ![HostClient] = Idle]
      /\ DOMAIN host = DOMAIN Off /\ DOMAIN secrets = DOMAIN NoFile
  BY DEF HostReply, HostInv, Shapes
<1>2. NamesDocs(Idle)
  BY DEF NamesDocs, Idle, None
<1>3. ASSUME host'.todo # "delete" PROVE Waiting'
  BY <1>1, <1>2, <1>3, HostAsks DEF AccessInv
<1>4. CASE WorkspaceCreated
  <2>1. PICK ops : /\ disk' = Put(disk, d, ops)
                   /\ host' = [host EXCEPT !.todo = "pump", !.held = {},
                             !.mem = Put(@, d, ops),
                             !.engine = Put(@, d, IF host.ws THEN "opening" ELSE "off"),
                             !.asking = IF host.ws THEN @ \cup {d} ELSE @]
    BY <1>4 DEF WorkspaceCreated, Saved
  <2>2. /\ host.todo = "create" /\ secrets' = [secrets EXCEPT !.keys = host.held \cup {d}]
        /\ UNCHANGED <<row, emptied, mirrors>>
    BY <1>4 DEF WorkspaceCreated
  <2> HIDE DEF d
  <2>3. /\ DOMAIN host' = DOMAIN host /\ host'.state = host.state /\ host'.who = host.who
        /\ host'.primary = host.primary /\ host'.token = host.token
        /\ host'.mem = Put(host.mem, d, ops) /\ host'.todo = "pump"
    BY <1>1, <2>1 DEF Off
  <2>4. /\ DOMAIN host'.mem = DOMAIN host.mem \cup {d} /\ host'.mem[d] = ops
        /\ \A e \in DOMAIN host.mem : e # d => host'.mem[e] = host.mem[e]
        /\ DOMAIN disk' = DOMAIN disk \cup {d} /\ disk'[d] = ops
        /\ \A e \in DOMAIN disk : e # d => disk'[e] = disk[e]
    BY <2>1, <2>3 DEF Put
  <2>5. /\ DOMAIN secrets' = DOMAIN NoFile /\ secrets'.token = secrets.token
        /\ secrets'.keys = host.held \cup {d}
    BY <1>1, <2>2 DEF NoFile
  <2>6. Shapes'
    BY <2>2, <2>3, <2>5 DEF HostInv, Shapes
  <2>7. Locking' /\ Holding'
    BY <1>1, <2>2, <2>3, LockingKept, HoldingKept DEF HostInv
  <2>8. Hosting'
    BY <1>1, <2>2, <2>3, <2>4, <2>5 DEF HostInv, Hosting, Lapsed
  <2>9. cmd.at \notin Writing
    BY <1>1, NoneWriting
  <2>10. Written'
    BY <1>1, <2>2, <2>4, <2>5, <2>9 DEF HostInv, Hosting, Written, Writing, Lapsed
  <2>11. Mirrored'
    BY <2>2, <2>3, <2>4 DEF HostInv, Mirrored, MirrorOK
  <2>12. OnDisk'
    <3>1. ASSUME NEW e \in DOMAIN host'.mem, ~Cleared(e)' PROVE host'.mem[e] \subseteq BootDoc(e)'
      <4>1. CASE e = d
        BY <2>4, <4>1 DEF BootDoc
      <4>2. CASE e # d
        BY <1>1, <2>4, <3>1, <4>2 DEF BootDoc, HostInv, OnDisk, Cleared
      <4> QED
        BY <4>1, <4>2
    <3> QED
      BY <3>1 DEF OnDisk
  <2> QED
    BY <1>3, <2>3, <2>6, <2>7, <2>8, <2>10, <2>11, <2>12 DEF HostInv
<1>5. CASE WorkspaceDeleted
  <2>1. /\ host.todo = "delete" /\ ForgetDoc(d) /\ mirrors' = FannedOut(Drop(host.mem, {d}))
        /\ host' = [Forgotten(host, d) EXCEPT !.todo = None]
    BY <1>5 DEF WorkspaceDeleted
  <2>2. d # host.primary
    BY <2>1 DEF HostInv, Waiting
  <2> HIDE DEF d
  <2>3. /\ DOMAIN host' = DOMAIN host /\ host'.state = host.state /\ host'.who = host.who
        /\ host'.primary = host.primary /\ host'.token = host.token
        /\ host'.mem = Drop(host.mem, {d}) /\ host'.todo = None
    BY <1>1, <2>1 DEF Forgotten, Off
  <2>4. Waiting'
    BY <1>3, <2>3 DEF None
  <2> QED
    BY <1>1, <2>1, <2>2, <2>3, <2>4, ForgetKeeps
<1>6. CASE WorkspaceFailed
  <2>1. /\ host.todo \in {"create", "delete"} /\ host' = [host EXCEPT !.todo = None, !.held = {}]
        /\ UNCHANGED <<mirrors, secrets, row, disk, emptied>>
    BY <1>6 DEF WorkspaceFailed, profileVars
  <2>2. /\ DOMAIN host' = DOMAIN host /\ host'.state = host.state /\ host'.who = host.who
        /\ host'.primary = host.primary /\ host'.token = host.token
        /\ host'.mem = host.mem /\ host'.todo = None
    BY <1>1, <2>1 DEF Off
  <2>3. Shapes'
    BY <2>1, <2>2 DEF HostInv, Shapes
  <2>4. Locking' /\ Hosting' /\ Holding' /\ Written' /\ OnDisk'
    BY <1>1, <2>1, <2>2, LockingKept, HostingKept, HoldingKept, WrittenKept, OnDiskKept
    DEF HostInv, None
  <2>5. Mirrored'
    BY <2>1, <2>2, MirroredKept DEF HostInv
  <2> QED
    BY <1>3, <2>2, <2>3, <2>4, <2>5 DEF HostInv, None
<1> QED
  BY <1>4, <1>5, <1>6 DEF HostReply

\* The steps of the host.
LEMMA HostKeeps ==
  ASSUME AccessInv, HostInv, HostStep, UNCHANGED cmd
  PROVE  HostInv'
<1>1. CASE NetworkStep
  <2>1. UNCHANGED lapses
    BY <1>1 DEF NetworkStep
  <2>2. ASSUME NEW d, HostBroadcast(d), UNCHANGED calls PROVE HostInv'
    BY <2>1, <2>2, MergeKeeps DEF HostBroadcast
  <2> QED
    BY <1>1, <2>1, <2>2, PumpKeeps, FrameKeeps, ConnectKeeps, ReplyKeeps DEF NetworkStep
<1> QED
  BY <1>1, LifeKeeps, EditKeeps, MirrorKeeps DEF HostStep

\* A handler asks the server for a document, or to delete one.
LEMMA WorkspaceKeeps ==
  ASSUME AccessInv, HostInv, WorkspaceStep, UNCHANGED cmd
  PROVE  HostInv'
<1>1. /\ UNCHANGED <<lock, mirrors, lapses, secrets, row, disk, emptied>>
      /\ DOMAIN host = DOMAIN Off
  BY DEF WorkspaceStep, profileVars, HostInv, Shapes
<1>2. ASSUME NEW d \in Doc, CreateWorkspace(d) PROVE HostInv'
  <2> DEFINE q == [Request("createDoc", "auth") EXCEPT !.token = secrets.token, !.doc = d,
                                                      !.home = host.primary]
  <2>1. Serving /\ calls' = [calls EXCEPT ![HostClient] = q]
        /\ host' = [host EXCEPT !.todo = "create", !.held = secrets.keys]
    BY <1>2 DEF CreateWorkspace, Send
  <2>2. NamesDocs(q)
    BY DEF NamesDocs, Request, Idle
  <2> HIDE DEF q
  <2>3. /\ DOMAIN host' = DOMAIN host /\ host'.state = host.state /\ host'.who = host.who
        /\ host'.primary = host.primary /\ host'.token = host.token
        /\ host'.mem = host.mem /\ host'.todo = "create" /\ host'.held = secrets.keys
    BY <1>1, <2>1 DEF Off
  <2>4. Shapes'
    BY <1>1, <2>3 DEF HostInv, Shapes
  <2>5. Locking' /\ Holding' /\ Written' /\ OnDisk'
    BY <1>1, <2>3, LockingKept, HoldingKept, WrittenKept, OnDiskKept DEF HostInv
  <2>6. Hosting'
    BY <1>1, <2>3 DEF HostInv, Hosting, Lapsed
  <2>7. Mirrored'
    BY <1>1, <2>1, <2>3, MirroredKept DEF HostInv, Serving, None
  <2>8. Waiting'
    BY <2>1, <2>2, <2>3, HostAsks DEF AccessInv
  <2> QED
    BY <2>4, <2>5, <2>6, <2>7, <2>8 DEF HostInv
<1>3. ASSUME NEW d \in Doc, DeleteWorkspace(d) PROVE HostInv'
  <2> DEFINE q == [Request("deleteDoc", "auth") EXCEPT !.token = secrets.token, !.doc = d]
  <2>1. Serving /\ calls' = [calls EXCEPT ![HostClient] = q] /\ d # host.primary
        /\ host' = [host EXCEPT !.todo = "delete"]
    BY <1>3 DEF DeleteWorkspace, Send
  <2>2. NamesDocs(q) /\ q.op = "deleteDoc" /\ q.doc = d
    BY DEF NamesDocs, Request, Idle
  <2> HIDE DEF q
  <2>3. /\ DOMAIN host' = DOMAIN host /\ host'.state = host.state /\ host'.who = host.who
        /\ host'.primary = host.primary /\ host'.token = host.token
        /\ host'.mem = host.mem /\ host'.todo = "delete"
    BY <1>1, <2>1 DEF Off
  <2>4. Shapes'
    BY <1>1, <2>3 DEF HostInv, Shapes
  <2>5. Locking' /\ Holding' /\ Written' /\ OnDisk' /\ Hosting'
    BY <1>1, <2>3, LockingKept, HoldingKept, WrittenKept, OnDiskKept, HostingKept DEF HostInv
  <2>6. Mirrored'
    BY <1>1, <2>1, <2>3, MirroredKept DEF HostInv, Serving, None
  <2>7. Waiting'
    BY <2>1, <2>2, <2>3, HostAsks DEF AccessInv
  <2> QED
    BY <2>4, <2>5, <2>6, <2>7 DEF HostInv
<1> QED
  BY <1>2, <1>3 DEF WorkspaceStep

-----------------------------------------------------------------------------
(* The commands *)

\* A command goes on without touching the profile.
LEMMA CmdGoesOn ==
  ASSUME HostInv, UNCHANGED <<lock, secrets, row, disk, emptied, host, mirrors, lapses>>,
         cmd.at \notin {"secrets", "purgeSecrets"}, cmd'.at \notin Writing, cmd'.op # None,
         DOMAIN cmd'.held = DOMAIN NoFile, Holding', Waiting'
  PROVE  HostInv'
<1>1. Shapes'
  BY DEF HostInv, Shapes
<1>2. Locking'
  BY DEF HostInv, Locking
<1>3. Hosting' /\ Mirrored' /\ OnDisk'
  BY HostingKept, OnDiskKept DEF HostInv, Mirrored, MirrorOK
<1>4. Written'
  BY DEF HostInv, Written, Writing, Lapsed
<1> QED
  BY <1>1, <1>2, <1>3, <1>4 DEF HostInv

\* A command asks, or takes its answer; the request of the host stays as it is.
LEMMA CmdAsks ==
  ASSUME HostInv, Requests, NEW q, calls' = [calls EXCEPT ![CmdClient] = q], NamesDocs(q), UNCHANGED host,
         cmd'.at = "http" /\ cmd'.op = "signup" => q.op = "signup" /\ q.doc \in cmd'.keys,
         cmd'.at = "http" /\ cmd'.op = "recover" /\ q.op \in {"reset", "docs"} => cmd'.doc \in Doc
  PROVE  Waiting'
<1>1. calls'[HostClient] = calls[HostClient] /\ calls'[CmdClient] = q
  BY ClientsAssumption DEF Requests, CmdClient, HostClient
<1>2. \A x \in Client : NamesDocs(calls'[x])
  BY DEF HostInv, Waiting, Requests
<1> QED
  BY <1>1, <1>2 DEF HostInv, Waiting

\* A command that is to claim or to end waits for no request.
LEMMA CmdWaitsNot ==
  ASSUME HostInv, UNCHANGED <<calls, host>>, cmd'.at # "http"
  PROVE  Waiting'
BY DEF HostInv, Waiting

\* The first step of a command.
LEMMA BeginKeeps ==
  ASSUME AccessInv, HostInv, BeginStep
  PROVE  HostInv'
<1>1. UNCHANGED <<lock, secrets, row, disk, emptied, host, mirrors, lapses>>
  BY DEF BeginStep, Rest
<1>2. /\ cmd = NoCmd /\ cmd.at \notin {"secrets", "purgeSecrets"}
      /\ NoCmd.held = NoFile /\ DOMAIN secrets = DOMAIN NoFile
  <2>1. Ready
    BY DEF BeginStep, BeginInit, BeginSignup, BeginLogin, BeginRecover, BeginPassword, BeginLogout,
           BeginDeleteAccount, BeginShareAccept, BeginClear
  <2>2. cmd = NoCmd
    BY <2>1 DEF Ready
  <2> QED
    BY <2>2 DEF NoCmd, None, HostInv, Shapes
<1> DEFINE asks(q) == calls' = [calls EXCEPT ![CmdClient] = q]
<1>3. ASSUME NEW d \in Doc, BeginInit(d) PROVE HostInv'
  <2>1. /\ UNCHANGED calls /\ cmd'.op = "init" /\ cmd'.at = "claim" /\ cmd'.doc = d
        /\ cmd'.keys = {d} /\ cmd'.held = NoFile
    BY <1>3 DEF BeginInit, NoCmd
  <2>2. Holding'
    BY <2>1 DEF Holding, Claiming, Founding
  <2>3. Waiting'
    BY <1>1, <2>1, CmdWaitsNot
  <2> QED
    BY <1>1, <1>2, <2>1, <2>2, <2>3, CmdGoesOn DEF Writing, None
<1>4. ASSUME NEW a, NEW d \in Doc, BeginSignup(a, 1, d) PROVE HostInv'
  <2> DEFINE doc == IF LocalOnlyDoc = 0 THEN d ELSE LocalOnlyDoc
             q == [Request("signup", "run") EXCEPT !.account = a, !.doc = doc, !.password = 1]
  <2>1. /\ asks(q) /\ cmd'.op = "signup" /\ cmd'.at = "http" /\ cmd'.adopt = LocalOnlyDoc
        /\ cmd'.keys = {doc} /\ cmd'.held = NoFile
    BY <1>4 DEF BeginSignup, NoCmd, Send
  <2>2. LocalOnlyDoc # 0 => doc = LocalOnlyDoc /\ row.primary = LocalOnlyDoc /\ row # NoFile
    BY DEF LocalOnlyDoc, NoFile
  <2> HIDE DEF doc
  <2>3. NamesDocs(q) /\ q.op = "signup" /\ q.doc = doc
    BY DEF NamesDocs, Request, Idle
  <2> HIDE DEF q
  <2>4. Holding'
    BY <1>1, <2>1, <2>2 DEF Holding
  <2>5. Waiting'
    BY <1>1, <2>1, <2>3, CmdAsks DEF AccessInv
  <2> QED
    BY <1>1, <1>2, <2>1, <2>4, <2>5, CmdGoesOn DEF Writing, None
<1>5. ASSUME NEW a, NEW p, BeginLogin(a, p) PROVE HostInv'
  <2> DEFINE q == [Request("login", "run") EXCEPT !.account = a, !.password = p]
  <2>1. asks(q) /\ cmd'.op = "login" /\ cmd'.at = "http" /\ cmd'.held = NoFile
    BY <1>5 DEF BeginLogin, NoCmd, Send
  <2>2. NamesDocs(q)
    BY DEF NamesDocs, Request, Idle
  <2> HIDE DEF q
  <2>3. Holding' /\ Waiting'
    BY <1>1, <2>1, <2>2, CmdAsks DEF AccessInv, Holding
  <2> QED
    BY <1>1, <1>2, <2>1, <2>3, CmdGoesOn DEF Writing, None
<1>6. ASSUME NEW a, NEW new, BeginRecover(a, new) PROVE HostInv'
  <2> DEFINE q == [Request("recover", "run") EXCEPT !.account = a]
  <2>1. asks(q) /\ cmd'.op = "recover" /\ cmd'.at = "http" /\ cmd'.held = NoFile
    BY <1>6 DEF BeginRecover, NoCmd, Send
  <2>2. NamesDocs(q) /\ q.op = "recover"
    BY DEF NamesDocs, Request, Idle
  <2> HIDE DEF q
  <2>3. Holding' /\ Waiting'
    BY <1>1, <2>1, <2>2, CmdAsks DEF AccessInv, Holding
  <2> QED
    BY <1>1, <1>2, <2>1, <2>3, CmdGoesOn DEF Writing, None
<1>7. CASE BeginPassword(1, 2) \/ BeginLogout
  <2>1. /\ UNCHANGED calls /\ cmd'.op \in {"password", "logout"} /\ cmd'.at = "claim"
        /\ cmd'.held = NoFile
    BY <1>7 DEF BeginPassword, BeginLogout, NoCmd
  <2>2. Holding' /\ Waiting'
    BY <1>1, <2>1, CmdWaitsNot DEF Holding, Claiming, Founding
  <2> QED
    BY <1>1, <1>2, <2>1, <2>2, CmdGoesOn DEF Writing, None
<1>8. CASE BeginDeleteAccount(1)
  <2> DEFINE q == [Request("deleteAccount", "auth") EXCEPT !.token = secrets.token, !.password = 1]
  <2>1. asks(q) /\ cmd'.op = "deleteAccount" /\ cmd'.at = "http" /\ cmd'.held = NoFile
    BY <1>8 DEF BeginDeleteAccount, NoCmd, Send
  <2>2. NamesDocs(q)
    BY DEF NamesDocs, Request, Idle
  <2> HIDE DEF q
  <2>3. Holding' /\ Waiting'
    BY <1>1, <2>1, <2>2, CmdAsks DEF AccessInv, Holding
  <2> QED
    BY <1>1, <1>2, <2>1, <2>3, CmdGoesOn DEF Writing, None
<1>9. ASSUME NEW i, BeginShareAccept(i) PROVE HostInv'
  <2> DEFINE q == [Request("accept", "auth") EXCEPT !.token = secrets.token, !.row = i,
                                                   !.home = row.primary]
  <2>1. asks(q) /\ cmd'.op = "accept" /\ cmd'.at = "http" /\ cmd'.held = secrets
    BY <1>9 DEF BeginShareAccept, NoCmd, Send
  <2>2. NamesDocs(q)
    BY DEF NamesDocs, Request, Idle
  <2> HIDE DEF q
  <2>3. secrets # NoFile
    BY <1>9 DEF BeginShareAccept, NoFile
  <2>4. ~Lapsed("torn") => row # NoFile /\ row.primary \in secrets.keys
    BY <1>2, <2>3 DEF HostInv, Written
  <2>5. Holding'
    BY <1>1, <2>1, <2>4 DEF Holding, Lapsed
  <2>6. Waiting'
    BY <1>1, <2>1, <2>2, CmdAsks DEF AccessInv
  <2> QED
    BY <1>1, <1>2, <2>1, <2>5, <2>6, CmdGoesOn DEF Writing, None
<1>10. CASE BeginClear
  <2>1. /\ UNCHANGED calls /\ cmd'.op = "clear" /\ cmd'.at = "clear" /\ cmd'.doc = row.primary
        /\ cmd'.account = row.account /\ cmd'.held = NoFile /\ row # NoFile
    BY <1>10 DEF BeginClear, NoCmd
  <2>2. Holding' /\ Waiting'
    BY <1>1, <2>1, CmdWaitsNot DEF Holding
  <2> QED
    BY <1>1, <1>2, <2>1, <2>2, CmdGoesOn DEF Writing, None
<1> QED
  BY <1>3, <1>4, <1>5, <1>6, <1>7, <1>8, <1>9, <1>10 DEF BeginStep

\* A command that has the lock finds no host, and no mirror that is live.
LEMMA Alone ==
  ASSUME HostInv, lock \in {None, CmdClient}
  PROVE  host.state = "off" /\ \A s \in Sub : mirrors[s].state # "live"
BY DEF HostInv, Locking, Mirrored, MirrorOK, None, CmdClient

\* A step of a command that has the lock.
LEMMA AloneKeeps ==
  ASSUME HostInv, lock \in {None, CmdClient}, lock' \in {None, CmdClient}, UNCHANGED <<host, mirrors, calls>>,
         DOMAIN secrets' = DOMAIN NoFile, DOMAIN cmd'.held = DOMAIN NoFile, cmd'.at # "http",
         cmd'.at \in Writing => lock' = CmdClient,
         cmd'.op = None => lock' # CmdClient /\ cmd'.at = None,
         Written', Holding'
  PROVE  HostInv'
<1>1. host.state = "off" /\ \A s \in Sub : mirrors[s].state # "live"
  BY Alone
<1>2. Shapes'
  BY DEF HostInv, Shapes
<1>3. Locking'
  BY <1>1 DEF Locking
<1>4. Hosting' /\ Mirrored' /\ OnDisk'
  BY <1>1 DEF HostInv, Hosting, Mirrored, MirrorOK, OnDisk
<1>5. Waiting'
  BY CmdWaitsNot
<1> QED
  BY <1>2, <1>3, <1>4, <1>5 DEF HostInv

\* The claim: the lock is free, or the host is asked to stop.
LEMMA ClaimKeeps ==
  ASSUME AccessInv, HostInv, Claim
  PROVE  HostInv'
<1>1. /\ cmd.at = "claim" /\ UNCHANGED <<calls, lapses, mirrors, secrets, row, disk, emptied>>
      /\ DOMAIN cmd = DOMAIN NoCmd /\ DOMAIN host = DOMAIN Off
      /\ DOMAIN secrets = DOMAIN NoFile /\ DOMAIN cmd.held = DOMAIN NoFile
  BY DEF Claim, profileVars, AccessInv, Profile, HostInv, Shapes
<1>2. CASE host' = [host EXCEPT !.stop = TRUE] /\ UNCHANGED <<lock, cmd>>
  <2>1. HostSame
    BY <1>1, <1>2 DEF HostSame, Off
  <2> QED
    BY <1>1, <1>2, <2>1, NoRequest, HostSameKeeps
<1>3. CASE lock = None /\ lock' = CmdClient /\ UNCHANGED host
           /\ cmd' = [cmd EXCEPT !.at = AfterClaim, !.over = secrets # NoFile]
  <2>1. cmd.op \in Claiming
    BY <1>1 DEF HostInv, Holding
  <2>2. /\ AfterClaim \in {"seed", "row", "purge", "ask", "done"}
        /\ AfterClaim \in {"seed", "row"} => cmd.op \in Founding
        /\ AfterClaim = "row" => cmd.op = "signup" /\ cmd.adopt # 0
    BY <2>1 DEF AfterClaim, Claiming, Founding
  <2> DEFINE at == AfterClaim
  <2> HIDE DEF at
  <2>3. /\ cmd'.at = at /\ cmd'.over = (secrets # NoFile) /\ cmd'.op = cmd.op /\ cmd'.doc = cmd.doc
        /\ cmd'.keys = cmd.keys /\ cmd'.adopt = cmd.adopt /\ cmd'.held = cmd.held
    BY <1>1, <1>3 DEF NoCmd, at
  <2>4. /\ at \in {"seed", "row", "purge", "ask", "done"}
        /\ at \in {"seed", "row"} => cmd.op \in Founding
        /\ at = "row" => cmd.op = "signup" /\ cmd.adopt # 0
    BY <2>2 DEF at
  <2>5. Holding'
    BY <1>1, <2>3, <2>4 DEF HostInv, Holding, Founding
  <2>6. at = "row" => cmd.doc \in DOMAIN disk \cup emptied
    BY <1>1, <2>4 DEF HostInv, Holding, Written, Founding
  <2>7. Written'
    BY <1>1, <2>3, <2>4, <2>6 DEF HostInv, Written, Lapsed
  <2> QED
    BY <1>1, <1>3, <2>1, <2>3, <2>4, <2>5, <2>7, AloneKeeps DEF Claiming, Founding, None
<1> QED
  BY <1>2, <1>3 DEF Claim

\* The writes of a command that makes a profile: the copy, the account row and
\* secrets.toml, in this order.
LEMMA FoundKeeps ==
  ASSUME AccessInv, HostInv, Seed \/ WriteAccount \/ WriteSecrets
  PROVE  HostInv'
<1>1. /\ cmd.at \in {"seed", "row", "secrets"} /\ UNCHANGED <<calls, lock, host, mirrors>>
      /\ lapses \subseteq lapses'
      /\ DOMAIN cmd = DOMAIN NoCmd /\ DOMAIN secrets = DOMAIN NoFile
      /\ DOMAIN cmd.held = DOMAIN NoFile
  BY DEF Seed, WriteAccount, WriteSecrets, Lapse, AccessInv, Profile, HostInv, Shapes
<1>2. lock = CmdClient /\ cmd.op \in Founding /\ cmd.doc \in Doc /\ cmd.doc \in cmd.keys
  BY <1>1 DEF HostInv, Locking, Holding, Writing
<1>3. PICK at : cmd' = [cmd EXCEPT !.at = at] /\ at \in {"row", "secrets", "done"}
  BY DEF Seed, WriteAccount, WriteSecrets
<1>4. /\ cmd'.at = at /\ cmd'.over = cmd.over /\ cmd'.op = cmd.op /\ cmd'.doc = cmd.doc
      /\ cmd'.keys = cmd.keys /\ cmd'.adopt = cmd.adopt /\ cmd'.held = cmd.held
  BY <1>1, <1>3 DEF NoCmd
<1>5. Holding'
  BY <1>1, <1>2, <1>3, <1>4 DEF HostInv, Holding, Founding
<1>6. ASSUME DOMAIN secrets' = DOMAIN NoFile, Written' PROVE HostInv'
  BY <1>1, <1>2, <1>3, <1>4, <1>5, <1>6, AloneKeeps DEF Founding, None
<1>7. CASE Seed
  <2>1. PICK ops : disk' = Put(disk, cmd.doc, ops)
    BY <1>7 DEF Seed, Saved
  <2>2. UNCHANGED <<secrets, row>> /\ emptied \subseteq emptied' /\ cmd.at = "seed" /\ cmd'.at = "row"
    BY <1>1, <1>7 DEF Seed, NoCmd
  <2>3. DOMAIN disk' = DOMAIN disk \cup {cmd.doc}
    BY <2>1 DEF Put
  <2>4. Written'
    BY <1>1, <1>4, <2>2, <2>3, LapsedGrows DEF HostInv, Written
  <2> QED
    BY <1>1, <1>6, <2>2, <2>4
<1>8. CASE WriteAccount
  <2>1. /\ UNCHANGED <<secrets, disk, emptied>> /\ cmd.at = "row" /\ cmd'.at = "secrets"
        /\ row' = AccountRow(cmd.doc, cmd.account)
    BY <1>1, <1>8 DEF WriteAccount, NoCmd
  <2>2. row'.primary = cmd.doc /\ row' # NoFile
    BY <1>2, <2>1, NamesAssumption DEF AccountRow, NoFile
  <2>3. Written'
    BY <1>1, <1>4, <2>1, <2>2 DEF HostInv, Written
  <2> QED
    BY <1>1, <1>6, <2>1, <2>3
<1>9. CASE WriteSecrets
  <2>1. /\ UNCHANGED <<row, disk, emptied>> /\ cmd.at = "secrets" /\ cmd'.at = "done"
        /\ secrets' = SecretsFile(cmd.token, cmd.keys)
    BY <1>1, <1>9 DEF WriteSecrets, NoCmd
  <2>2. DOMAIN secrets' = DOMAIN NoFile /\ secrets'.keys = cmd.keys
    BY <2>1 DEF SecretsFile, NoFile
  <2>3. Written'
    BY <1>1, <1>2, <2>1, <2>2 DEF HostInv, Written
  <2> QED
    BY <1>6, <2>2, <2>3
<1> QED
  BY <1>7, <1>8, <1>9

\* The profile goes, file by file.
LEMMA PurgeKeeps ==
  ASSUME AccessInv, HostInv, Purge
  PROVE  HostInv'
<1>1. /\ DOMAIN cmd = DOMAIN NoCmd /\ DOMAIN secrets = DOMAIN NoFile
      /\ DOMAIN cmd.held = DOMAIN NoFile /\ UNCHANGED <<calls, host, mirrors, lock, lapses>>
      /\ cmd.at \in {"purge", "purgeDb", "purgeSecrets"}
  BY DEF AccessInv, Profile, HostInv, Shapes, Purge
<1>2. lock = CmdClient /\ cmd.op # None
  BY <1>1 DEF HostInv, Locking, Writing, None
<1>3. CASE secrets' = NoFile /\ UNCHANGED <<row, disk, emptied>>
           /\ cmd' = [cmd EXCEPT !.at = IF cmd.at = "purge" THEN "purgeDb" ELSE "done"]
  <2>1. cmd'.at \in {"purgeDb", "done"} /\ cmd'.op = cmd.op /\ cmd'.held = cmd.held
        /\ cmd'.adopt = cmd.adopt /\ cmd'.keys = cmd.keys
    BY <1>1, <1>3 DEF NoCmd
  <2>2. Holding' /\ Written'
    BY <1>1, <1>3, <2>1 DEF HostInv, Holding, Written
  <2> QED
    BY <1>1, <1>2, <1>3, <2>1, <2>2, AloneKeeps DEF Writing
<1>4. CASE DatabaseRemoved /\ UNCHANGED secrets /\ cmd.at \in {"purge", "purgeDb"}
           /\ cmd' = [cmd EXCEPT !.at = IF cmd.at = "purge" THEN "purgeSecrets" ELSE "done"]
  <2>1. /\ cmd'.at = (IF cmd.at = "purge" THEN "purgeSecrets" ELSE "done") /\ cmd'.op = cmd.op
        /\ cmd'.held = cmd.held /\ cmd'.adopt = cmd.adopt /\ cmd'.keys = cmd.keys
    BY <1>1, <1>4 DEF NoCmd
  <2>2. row' = NoFile
    BY <1>4 DEF DatabaseRemoved
  <2>3. cmd.at = "purgeDb" => secrets = NoFile
    BY DEF HostInv, Written
  <2>4. Holding' /\ Written'
    BY <1>1, <1>4, <2>1, <2>2, <2>3 DEF HostInv, Holding, Written
  <2> QED
    BY <1>1, <1>2, <1>4, <2>1, <2>4, AloneKeeps DEF Writing
<1> QED
  BY <1>3, <1>4 DEF Purge

\* db clear, which takes no lock: what it takes from under a host is on record.
LEMMA ClearKeeps ==
  ASSUME AccessInv, HostInv, ClearDb \/ Reseed
  PROVE  HostInv'
<1>1. /\ DOMAIN cmd = DOMAIN NoCmd /\ DOMAIN cmd.held = DOMAIN NoFile
      /\ UNCHANGED <<calls, lock, secrets, row, host, mirrors>>
      /\ cmd.at \in {"clear", "reseed"}
  BY DEF AccessInv, Profile, HostInv, Shapes, ClearDb, Reseed
<1>2. PICK at : /\ cmd' = [cmd EXCEPT !.at = at] /\ at \in {"reseed", "done"}
                /\ at = "reseed" => cmd.account = None
  BY DEF ClearDb, Reseed
<1>3. /\ cmd'.at = at /\ cmd'.op = cmd.op /\ cmd'.doc = cmd.doc /\ cmd'.account = cmd.account
      /\ cmd'.keys = cmd.keys /\ cmd'.adopt = cmd.adopt /\ cmd'.held = cmd.held
  BY <1>1, <1>2 DEF NoCmd
<1>4. PICK d : d = cmd.doc
  OBVIOUS
<1>5. /\ lapses \subseteq lapses' /\ DOMAIN disk \cup emptied \subseteq DOMAIN disk' \cup emptied'
      /\ \A e \in DOMAIN disk \ {d} : e \in DOMAIN disk' /\ disk'[e] = disk[e]
      /\ UNCHANGED disk \/ (d \in DOMAIN host.mem => <<"cleared", d>> \in lapses')
  <2>1. CASE ClearDb
    BY <1>4, <2>1 DEF ClearDb, Drop, Lapse
  <2>2. CASE Reseed
    <3>1. PICK ops : disk' = Put(disk, d, ops)
      BY <1>4, <2>2 DEF Reseed, Saved
    <3>2. DOMAIN disk' = DOMAIN disk \cup {d} /\ \A e \in DOMAIN disk \ {d} : disk'[e] = disk[e]
      BY <3>1 DEF Put
    <3> QED
      BY <1>4, <2>2, <3>2 DEF Reseed, Lapse
  <2> QED
    BY <2>1, <2>2
<1>6. Shapes'
  BY <1>1, <1>3 DEF HostInv, Shapes
<1>7. Locking'
  BY <1>1, <1>2, <1>3 DEF HostInv, Locking, Writing, None
<1>8. Hosting' /\ Mirrored'
  BY <1>1, <1>5, HostingKept, MirroredKept DEF HostInv
<1>9. Written'
  BY <1>1, <1>2, <1>3, <1>5, LapsedGrows DEF HostInv, Written
<1>10. Holding'
  BY <1>1, <1>2, <1>3, <1>5, LapsedGrows DEF HostInv, Holding
<1>11. Waiting'
  BY <1>1, <1>2, <1>3, CmdWaitsNot
<1>12. OnDisk'
  <2>1. ASSUME NEW e \in DOMAIN host.mem, host.state = "serving", ~Cleared(e)'
        PROVE  host.mem[e] \subseteq BootDoc(e)'
    <3>1. host.mem[e] \subseteq BootDoc(e)
      BY <1>5, <2>1 DEF HostInv, OnDisk, Cleared
    <3>2. UNCHANGED disk \/ e # d
      BY <1>5, <2>1 DEF Cleared
    <3> QED
      BY <1>5, <3>1, <3>2 DEF BootDoc
  <2> QED
    BY <1>1, <2>1 DEF OnDisk
<1> QED
  BY <1>6, <1>7, <1>8, <1>9, <1>10, <1>11, <1>12 DEF HostInv

\* A command ends, or is killed.
LEMMA EndKeeps ==
  ASSUME AccessInv, HostInv, Done \/ Kill
  PROVE  HostInv'
<1>1. /\ DOMAIN cmd = DOMAIN NoCmd /\ DOMAIN secrets = DOMAIN NoFile
      /\ DOMAIN cmd.held = DOMAIN NoFile /\ UNCHANGED <<calls, host, mirrors>>
      /\ NoCmd.op = None /\ NoCmd.at = None /\ NoCmd.held = NoFile
  BY DEF AccessInv, Profile, HostInv, Shapes, Done, Kill, NoCmd
<1>2. /\ cmd' = NoCmd /\ lock' = (IF lock = CmdClient THEN None ELSE lock)
      /\ lapses \subseteq lapses' /\ UNCHANGED <<secrets, row, disk, emptied>>
      /\ (cmd.at = "secrets" /\ cmd.over) \/ cmd.at = "purgeSecrets" => Lapsed("torn")'
  <2>1. CASE Done
    BY <2>1 DEF Done, Release
  <2>2. CASE Kill
    <3>1. Lapse("torn", cmd.doc, (cmd.at = "secrets" /\ cmd.over) \/ cmd.at = "purgeSecrets")
      BY <2>2 DEF Kill
    <3>2. /\ lapses \subseteq lapses'
          /\ (cmd.at = "secrets" /\ cmd.over) \/ cmd.at = "purgeSecrets" => Lapsed("torn")'
      BY <3>1, LapseMarks
    <3> QED
      BY <2>2, <3>2 DEF Kill, Release
  <2> QED
    BY <2>1, <2>2
<1>3. Shapes'
  BY <1>1, <1>2 DEF HostInv, Shapes
<1>4. Locking'
  BY <1>1, <1>2 DEF HostInv, Locking, Writing, None, CmdClient
<1>5. Hosting' /\ Mirrored' /\ OnDisk'
  BY <1>1, <1>2, HostingKept, OnDiskKept DEF HostInv, Mirrored, MirrorOK
<1>6. Holding'
  BY <1>1, <1>2 DEF Holding, None
<1>7. Written'
  BY <1>1, <1>2, LapsedGrows DEF HostInv, Written, None
<1>8. Waiting'
  BY <1>1, <1>2, CmdWaitsNot DEF None
<1> QED
  BY <1>3, <1>4, <1>5, <1>6, <1>7, <1>8 DEF HostInv

\* `share accept` writes back the keys it has read, with one more; if they were
\* changed meanwhile, that is the exception.
LEMMA ShareKeeps ==
  ASSUME AccessInv, HostInv, WriteShareKey
  PROVE  HostInv'
<1>1. /\ cmd.at = "key" /\ UNCHANGED <<calls, lock, row, disk, emptied, mirrors>>
      /\ DOMAIN cmd = DOMAIN NoCmd /\ DOMAIN host = DOMAIN Off
      /\ DOMAIN cmd.held = DOMAIN NoFile
      /\ cmd' = [cmd EXCEPT !.at = "done"] /\ host' = [host EXCEPT !.stop = host.state = "serving"]
      /\ secrets' = [cmd.held EXCEPT !.keys = @ \cup {cmd.doc}]
      /\ lapses \subseteq lapses' /\ (secrets # cmd.held => Lapsed("overwritten")')
  <2>1. Lapse("overwritten", cmd.doc, secrets # cmd.held)
    BY DEF WriteShareKey
  <2>2. lapses \subseteq lapses' /\ (secrets # cmd.held => Lapsed("overwritten")')
    BY <2>1, LapseMarks
  <2> QED
    BY <2>2 DEF WriteShareKey, AccessInv, Profile, HostInv, Shapes
<1>2. /\ cmd'.at = "done" /\ cmd'.op = cmd.op /\ cmd'.held = cmd.held /\ cmd'.adopt = cmd.adopt
      /\ cmd'.keys = cmd.keys
  BY <1>1 DEF NoCmd
<1>3. /\ DOMAIN secrets' = DOMAIN NoFile /\ secrets'.token = cmd.held.token
      /\ secrets'.keys = cmd.held.keys \cup {cmd.doc}
  BY <1>1 DEF NoFile
<1>4. HostSame
  BY <1>1 DEF HostSame, Off
<1>5. /\ cmd.op = "accept"
      /\ ~Lapsed("torn") => row # NoFile /\ row.primary \in cmd.held.keys
  BY <1>1 DEF HostInv, Holding
<1>6. Shapes'
  BY <1>1, <1>2, <1>3, <1>4 DEF HostInv, Shapes, HostSame
<1>7. Locking'
  BY <1>1, <1>2, <1>4, <1>5 DEF HostInv, Locking, HostSame, Writing, None
<1>8. Hosting'
  <2>1. CASE secrets = cmd.held
    BY <1>1, <1>3, <1>4, <1>5, <2>1, LapsedGrows DEF HostInv, Hosting, HostSame
  <2>2. CASE secrets # cmd.held
    BY <1>1, <1>3, <1>4, <1>5, <2>2, LapsedGrows DEF HostInv, Hosting, HostSame
  <2> QED
    BY <2>1, <2>2
<1>9. Written'
  BY <1>1, <1>2, <1>3, <1>5, LapsedGrows DEF HostInv, Written
<1>10. Holding'
  BY <1>1, <1>2, <1>5 DEF HostInv, Holding
<1>11. Waiting'
  BY <1>1, <1>2, <1>4 DEF HostInv, HostSame, Waiting
<1>12. Mirrored' /\ OnDisk'
  BY <1>1, <1>4, OnDiskKept DEF HostInv, HostSame, Mirrored, MirrorOK
<1> QED
  BY <1>6, <1>7, <1>8, <1>9, <1>10, <1>11, <1>12 DEF HostInv

\* A command takes its answer and goes on.
LEMMA AnswerKeeps ==
  ASSUME AccessInv, HostInv, AskPassword \/ Answered
  PROVE  HostInv'
<1> DEFINE r == calls[CmdClient]
           asks(q) == calls' = [calls EXCEPT ![CmdClient] = q]
<1>1. /\ UNCHANGED <<lock, secrets, row, disk, emptied, host, mirrors, lapses>>
      /\ cmd.at \notin {"secrets", "purgeSecrets"}
      /\ DOMAIN cmd = DOMAIN NoCmd /\ DOMAIN cmd.held = DOMAIN NoFile
      /\ cmd.op # None
  <2>1. UNCHANGED <<lock, secrets, row, disk, emptied, host, mirrors, lapses>> /\ cmd.at \in {"ask", "http"}
    BY DEF AskPassword, Answered, Rest
  <2> QED
    BY <2>1 DEF AccessInv, Profile, HostInv, Shapes, Locking, None
<1>2. CASE AskPassword
  <2> DEFINE q == [Request("password", "auth") EXCEPT !.token = cmd.token,
                     !.password = cmd.password, !.new = cmd.new, !.home = row.primary]
  <2>1. /\ asks(q) \/ UNCHANGED calls
        /\ cmd.op = "password"
        /\ \E at \in {"http", "done"} : cmd' = [cmd EXCEPT !.at = at]
    BY <1>2 DEF AskPassword, Send
  <2>2. NamesDocs(q)
    BY DEF NamesDocs, Request, Idle
  <2>3. NamesDocs(r) /\ (UNCHANGED calls => asks(r))
    BY ClientsAssumption DEF AccessInv, Requests, HostInv, Waiting
  <2> HIDE DEF q, r
  <2>4. cmd'.at \in {"http", "done"} /\ cmd'.op = "password" /\ cmd'.held = cmd.held
    BY <1>1, <2>1 DEF NoCmd
  <2>5. Holding' /\ Waiting'
    BY <1>1, <2>1, <2>2, <2>3, <2>4, CmdAsks DEF AccessInv, Holding
  <2> QED
    BY <1>1, <2>4, <2>5, CmdGoesOn DEF Writing, None
<1>3. CASE Answered
  <2>1. cmd.at = "http" /\ r.at = "answered"
    BY <1>3 DEF Answered
  <2>2. NamesDocs(r) /\ RequestOK(r, DOMAIN invites, DOMAIN resets) /\ NamesDocs(Idle) /\ Idle.op = None
    BY ClientsAssumption DEF HostInv, Waiting, AccessInv, Requests, NamesDocs, Idle, None
  <2>3. ASSUME asks(Idle), cmd'.at \notin Writing \cup {"http"}, cmd'.op = cmd.op, cmd'.held = cmd.held,
               Holding'
        PROVE  HostInv'
    <3>1. Waiting'
      BY <1>1, <2>2, <2>3, CmdAsks DEF AccessInv
    <3> QED
      BY <1>1, <2>3, <3>1, CmdGoesOn
  <2>4. CASE asks(Idle) /\ cmd' = [cmd EXCEPT !.at = "done"]
    <3>1. cmd'.at = "done" /\ cmd'.op = cmd.op /\ cmd'.held = cmd.held /\ cmd'.keys = cmd.keys
          /\ cmd'.adopt = cmd.adopt
      BY <1>1, <2>4 DEF NoCmd
    <3>2. Holding'
      BY <3>1 DEF HostInv, Holding
    <3> QED
      BY <2>3, <2>4, <3>1, <3>2 DEF Writing
  <2>5. CASE cmd.op = "signup" /\ asks(Idle)
             /\ cmd' = [cmd EXCEPT !.at = "claim", !.doc = r.doc, !.token = r.token]
    <3>1. r.doc \in cmd.keys /\ r.doc \in Doc
      BY <2>1, <2>2, <2>5 DEF HostInv, Waiting, RequestOK
    <3>2. /\ cmd'.at = "claim" /\ cmd'.op = cmd.op /\ cmd'.held = cmd.held /\ cmd'.keys = cmd.keys
          /\ cmd'.adopt = cmd.adopt /\ cmd'.doc = r.doc
      BY <1>1, <2>5 DEF NoCmd
    <3>3. Holding'
      BY <1>1, <2>1, <2>5, <3>1, <3>2 DEF HostInv, Holding, Claiming, Founding
    <3> QED
      BY <2>3, <2>5, <3>2, <3>3 DEF Writing
  <2>6. CASE cmd.op = "login" /\ asks(Idle) /\ r.doc \in Keys(r.list)
             /\ cmd' = [cmd EXCEPT !.at = "claim", !.doc = r.doc, !.token = r.token, !.keys = Keys(r.list)]
    <3>1. r.doc \in Doc
      BY <2>2, <2>6 DEF Keys, NamesDocs
    <3>2. /\ cmd'.at = "claim" /\ cmd'.op = cmd.op /\ cmd'.held = cmd.held /\ cmd'.keys = Keys(r.list)
          /\ cmd'.doc = r.doc
      BY <1>1, <2>6 DEF NoCmd
    <3>3. Holding'
      BY <2>6, <3>1, <3>2 DEF Holding, Claiming, Founding
    <3> QED
      BY <2>3, <2>6, <3>2, <3>3 DEF Writing
  <2>7. CASE cmd.op = "accept" /\ asks(Idle) /\ cmd' = [cmd EXCEPT !.at = "key", !.doc = r.doc]
    <3>1. cmd'.at = "key" /\ cmd'.op = cmd.op /\ cmd'.held = cmd.held
      BY <1>1, <2>7 DEF NoCmd
    <3>2. Holding'
      BY <1>1, <2>1, <2>7, <3>1 DEF HostInv, Holding, Lapsed
    <3> QED
      BY <2>3, <2>7, <3>1, <3>2 DEF Writing
  <2>8. CASE cmd.op = "deleteAccount" /\ asks(Idle) /\ cmd' = [cmd EXCEPT !.at = "claim"]
    <3>1. cmd'.at = "claim" /\ cmd'.op = cmd.op /\ cmd'.held = cmd.held
      BY <1>1, <2>8 DEF NoCmd
    <3>2. Holding'
      BY <2>8, <3>1 DEF Holding, Claiming, Founding
    <3> QED
      BY <2>3, <2>8, <3>1, <3>2 DEF Writing
  <2>9. CASE cmd.op = "recover" /\ r.out = "ok" /\ RecoverAnswered(r)
    <3>1. CASE r.op = "recover"
      <4> DEFINE q == [Request("reset", "run") EXCEPT !.row = r.row, !.home = r.doc, !.new = cmd.new]
      <4>1. asks(q) /\ cmd' = [cmd EXCEPT !.doc = r.doc]
        BY <2>9, <3>1 DEF RecoverAnswered, Ask
      <4>2. NamesDocs(q)
        BY DEF NamesDocs, Request, Idle
      <4> HIDE DEF q
      <4>3. r.doc \in Doc
        BY <2>1, <2>2, <2>9, <3>1 DEF NamesDocs
      <4>4. cmd'.at = "http" /\ cmd'.op = "recover" /\ cmd'.held = cmd.held /\ cmd'.doc = r.doc
        BY <1>1, <2>1, <2>9, <4>1 DEF NoCmd
      <4>5. Holding' /\ Waiting'
        BY <1>1, <4>1, <4>2, <4>3, <4>4, CmdAsks DEF AccessInv, Holding
      <4> QED
        BY <1>1, <4>4, <4>5, CmdGoesOn DEF Writing, None
    <3>2. CASE r.op = "reset"
      <4> DEFINE q == [Request("docs", "auth") EXCEPT !.token = r.token]
      <4>1. asks(q) /\ cmd' = [cmd EXCEPT !.token = r.token]
        BY <2>9, <3>2 DEF RecoverAnswered, Ask
      <4>2. NamesDocs(q)
        BY DEF NamesDocs, Request, Idle
      <4> HIDE DEF q
      <4>3. cmd.doc \in Doc
        BY <2>1, <2>9, <3>2 DEF HostInv, Waiting
      <4>4. cmd'.at = "http" /\ cmd'.op = "recover" /\ cmd'.held = cmd.held /\ cmd'.doc = cmd.doc
        BY <1>1, <2>1, <2>9, <4>1 DEF NoCmd
      <4>5. Holding' /\ Waiting'
        BY <1>1, <4>1, <4>2, <4>3, <4>4, CmdAsks DEF AccessInv, Holding
      <4> QED
        BY <1>1, <4>4, <4>5, CmdGoesOn DEF Writing, None
    <3>3. CASE r.op = "docs"
      <4>1. /\ asks(Idle)
            /\ \/ cmd' = [cmd EXCEPT !.at = "done"]
               \/ cmd' = [cmd EXCEPT !.at = "claim", !.keys = Keys(r.list) \cup {cmd.doc}]
        BY <2>9, <3>3 DEF RecoverAnswered, Ask
      <4>2. CASE cmd' = [cmd EXCEPT !.at = "claim", !.keys = Keys(r.list) \cup {cmd.doc}]
        <5>1. cmd.doc \in Doc
          BY <2>1, <2>9, <3>3 DEF HostInv, Waiting
        <5>2. /\ cmd'.at = "claim" /\ cmd'.op = cmd.op /\ cmd'.held = cmd.held /\ cmd'.doc = cmd.doc
              /\ cmd'.keys = Keys(r.list) \cup {cmd.doc}
          BY <1>1, <4>2 DEF NoCmd
        <5>3. Holding'
          BY <2>9, <5>1, <5>2 DEF Holding, Claiming, Founding
        <5> QED
          BY <2>3, <4>1, <5>2, <5>3 DEF Writing
      <4> QED
        BY <2>4, <4>1, <4>2
    <3> QED
      BY <2>9, <3>1, <3>2, <3>3 DEF RecoverAnswered
  <2> HIDE DEF asks
  <2>10. Ask(Idle) => asks(Idle)
    BY DEF Ask, asks
  <2> QED
    BY <1>3, <2>4, <2>5, <2>6, <2>7, <2>8, <2>9, <2>10 DEF Answered, LoginAnswered
<1> QED
  BY <1>2, <1>3

\* Every step of a command.
LEMMA CommandKeeps ==
  ASSUME AccessInv, HostInv, CommandStep
  PROVE  HostInv'
BY BeginKeeps, ClaimKeeps, FoundKeeps, PurgeKeeps, ClearKeeps, EndKeeps, ShareKeeps, AnswerKeeps
DEF CommandStep, Command

-----------------------------------------------------------------------------
(* The system *)

\* Every step keeps the invariant.
LEMMA NextKeeps ==
  ASSUME AccessInv, HostInv, [Next]_vars
  PROVE  HostInv'
<1>1. CASE UNCHANGED <<calls, lock, secrets, row, disk, host, mirrors, emptied, lapses, cmd>>
  <2>1. HostSame
    BY <1>1 DEF HostSame
  <2> QED
    BY <1>1, <2>1, NoRequest, HostSameKeeps
<1>2. CASE \E d \in Doc : /\ RemotePush(d) /\ UNCHANGED profileVars
                          /\ UNCHANGED <<calls, lock, host, mirrors, lapses, cmd>>
  BY <1>1, <1>2 DEF profileVars
<1>3. CASE UNCHANGED vars
  BY <1>1, <1>3 DEF vars
<1> QED
  BY <1>2, <1>3, ServerKeeps, PeerKeeps, SessionKeeps, HostKeeps, WorkspaceKeeps, CommandKeeps
  DEF Next, AnyStep

\* It holds at every starting point.
LEMMA InitKeeps ==
  ASSUME Init
  PROVE  HostInv
<1>1. /\ calls = [c \in Client |-> Idle] /\ lock = None /\ host = Off /\ emptied = {} /\ lapses = {}
      /\ mirrors = [s \in Sub |-> NoMirror] /\ cmd = NoCmd
  BY DEF Init
<1>2. PICK own : /\ own = {} \/ 1 \in own
                 /\ secrets = NoFile \/ (own # {} /\ \E t : secrets = SecretsFile(t, own))
                 /\ row = NoFile \/ (own # {} /\ \E a : row = AccountRow(1, a))
                 /\ secrets # NoFile => row # NoFile
                 /\ DOMAIN disk = own
  <2> DEFINE start == mix.start
             own == IF start = "fresh" THEN {} ELSE IF start = "shared" THEN {1, 3} ELSE {1}
             known == start \in {"joined", "shared", "offered"}
  <2>1. /\ secrets = IF own = {} THEN NoFile ELSE SecretsFile(IF known THEN 1 ELSE 0, own)
        /\ row = IF own = {} THEN NoFile ELSE AccountRow(1, IF known THEN "A" ELSE None)
        /\ disk = [d \in own |-> Welcome(d, own)]
    BY DEF Init, Started
  <2>2. own = {} \/ 1 \in own
    OBVIOUS
  <2> HIDE DEF own, known
  <2>3. \A a : AccountRow(1, a) # NoFile
    <3>1. NoFile.primary = 0 /\ \A a : AccountRow(1, a).primary = 1
      BY DEF AccountRow, NoFile
    <3> QED
      BY <3>1
  <2>4. DOMAIN disk = own
    BY <2>1
  <2> QED
    BY <2>1, <2>2, <2>3, <2>4
<1>3. /\ DOMAIN secrets = DOMAIN NoFile
      /\ secrets # NoFile => secrets.keys = own /\ row.primary = 1 /\ row # NoFile /\ own # {}
      /\ row # NoFile => row.primary = 1 /\ own # {}
  BY <1>2 DEF SecretsFile, AccountRow, NoFile
<1>4. /\ host.state = "off" /\ host.todo = None /\ cmd.at = None /\ cmd.op = None /\ cmd.held = NoFile
      /\ \A s \in Sub : mirrors[s] = NoMirror
  BY <1>1 DEF Off, NoCmd
<1>5. Shapes
  BY <1>1, <1>3, <1>4 DEF Shapes
<1>6. Locking
  BY <1>1, <1>4 DEF Locking, Writing, None, CmdClient
<1>7. Hosting /\ OnDisk
  BY <1>4 DEF Hosting, OnDisk
<1>8. Written
  BY <1>2, <1>3, <1>4 DEF Written, None
<1>9. Holding
  BY <1>4 DEF Holding, None
<1>10. Waiting
  <2>1. NamesDocs(Idle)
    BY DEF NamesDocs, Idle, None
  <2> QED
    BY <1>1, <1>4, <2>1 DEF Waiting, None
<1>11. Mirrored
  <2>1. NoMirror.up \in Seq(NoMirror.has) /\ NoMirror.state # "live"
    BY DEF NoMirror, None
  <2> QED
    BY <1>4, <2>1 DEF Mirrored, MirrorOK
<1> QED
  BY <1>5, <1>6, <1>7, <1>8, <1>9, <1>10, <1>11 DEF HostInv

\* The profile, its host, its mirrors and the commands keep to HostInv through
\* every interleaving, crash, lost reply and kill of a command, db clear and
\* the removal of a profile in mid-way included (cli/src/daemon.rs,
\* bootstrap.rs, commands/db.rs); its parts name the same exceptions as the
\* properties.
THEOREM HostHolds == Spec => [](AccessInv /\ HostInv)
<1>1. Init => AccessInv /\ HostInv
  BY InitOK, InitKeeps
<1>2. AccessInv /\ HostInv /\ [Next]_vars => (AccessInv /\ HostInv)'
  BY NextOK, NextKeeps
<1> QED
  BY <1>1, <1>2, PTL DEF Spec

\* Wherever a command is killed, a profile that exists opens: the account row,
\* Home's key and Home's copy are there before secrets.toml is (the order of
\* the writes in bootstrap.rs), and Home's copy stays unless db clear or a
\* membership that ended has deleted its rows. The exceptions are those of
\* ProfileComplete: a kill between account row and secrets.toml over a profile,
\* and in the removal of one after its database.
THEOREM ProfilesOpen == Spec => []ProfileComplete
<1>1. HostInv => ProfileComplete
  BY DEF HostInv, Locking, Written, ProfileComplete, Writing
<1> QED
  BY <1>1, HostHolds, PTL

\* The claim works: no command replaces the account under a host that serves,
\* and each document it serves has its key in secrets.toml (client.rs,
\* daemon.rs).
THEOREM HostServesProfile == Spec => []ServesProfile
<1>1. HostInv => ServesProfile
  <2> SUFFICES ASSUME HostInv, Serving, ~Lapsed("overwritten")
               PROVE  /\ secrets # NoFile /\ host.primary = row.primary
                      /\ host.token = secrets.token /\ DOMAIN host.mem \subseteq secrets.keys
    BY DEF ServesProfile
  <2>1. /\ host.primary = row.primary /\ host.primary \in DOMAIN host.mem
        /\ host.token = secrets.token /\ DOMAIN host.mem \subseteq secrets.keys
    BY DEF HostInv, Hosting, Serving
  <2>2. secrets # NoFile
    BY <2>1 DEF NoFile
  <2> QED
    BY <2>1, <2>2
<1> QED
  BY <1>1, HostHolds, PTL

\* Between two handlers every mirror has been sent all the host has, and all
\* of it is on disk but for a document that db clear, which takes no lock, has
\* cleared under the host (fan_out, the handlers of daemon.rs).
THEOREM MirrorsAreCurrent == Spec => []MirrorsCurrent
<1>1. HostInv => MirrorsCurrent
  <2> SUFFICES ASSUME HostInv, Serving
               PROVE  /\ \A s \in Sub : mirrors[s].state = "live" =>
                           /\ mirrors[s].doc \in DOMAIN host.mem
                           /\ host.mem[mirrors[s].doc] \subseteq mirrors[s].has \cup mirrors[s].down
                      /\ \A d \in DOMAIN host.mem : ~Cleared(d) => host.mem[d] \subseteq BootDoc(d)
    BY DEF MirrorsCurrent
  <2>1. \A d \in DOMAIN host.mem : ~Cleared(d) => host.mem[d] \subseteq BootDoc(d)
    BY DEF HostInv, OnDisk, Serving
  <2>2. ASSUME NEW s \in Sub, mirrors[s].state = "live"
        PROVE  /\ mirrors[s].doc \in DOMAIN host.mem
               /\ host.mem[mirrors[s].doc] \subseteq mirrors[s].has \cup mirrors[s].down
    BY <2>2 DEF HostInv, Mirrored, MirrorOK, Serving, None
  <2> QED
    BY <2>1, <2>2
<1> QED
  BY <1>1, HostHolds, PTL
=============================================================================
