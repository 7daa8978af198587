----------------------------- MODULE KeysProofs -----------------------------
(***************************************************************************)
(* HomeUnlockable, for any accounts, documents, passwords and clients: the *)
(* password the server accepts opens Home, and Home's key opens the rest.  *)
(* The argument is KeysInv, on top of the invariants of AccessProofs and   *)
(* HostProofs: it follows the tokens and the keys that go with them from   *)
(* the server to a command, to the profile, to a host and back.            *)
(***************************************************************************)
EXTENDS HostProofs, KeysInvariant

-----------------------------------------------------------------------------
(* Tokens and Homes later on *)

\* Devices are added and revoked, accounts are added; N are the new Homes.
Later(N) ==
  /\ DOMAIN homes \subseteq DOMAIN homes'
  /\ \A a \in DOMAIN homes : homes'[a] = homes[a]
  /\ Homes(homes') \subseteq Homes(homes) \cup N
  /\ DOMAIN devices \subseteq DOMAIN devices'
  /\ \A t \in DOMAIN devices : devices'[t] \in {devices[t], None}

\* A Home stays one.
LEMMA HomesStay ==
  ASSUME NEW N, Later(N)
  PROVE  Homes(homes) \subseteq Homes(homes')
BY DEF Later, Homes

\* Tokens stand for the accounts they stood for, or for none.
LEMMA TokensLater ==
  ASSUME Registry, NEW N, Later(N), NEW t
  PROVE  /\ \A h : TokenHome(t, h, devices, homes) => TokenHome(t, h, devices', homes')
         /\ \A a : TokenOf(t, a, devices, homes) => TokenOf(t, a, devices', homes')
         /\ \A K : KeysOf(t, K, devices, homes) /\ K \cap N \subseteq Homes(homes) =>
              KeysOf(t, K, devices', homes')
<1>1. t \in DOMAIN devices =>
        /\ t \in DOMAIN devices'
        /\ devices'[t] # None =>
             devices'[t] = devices[t] /\ devices[t] \in DOMAIN homes /\ homes'[devices[t]] = homes[devices[t]]
  BY DEF Registry, Later
<1>2. ASSUME NEW K, KeysOf(t, K, devices, homes), K \cap N \subseteq Homes(homes)
      PROVE  KeysOf(t, K, devices', homes')
  <2>1. K \cap Homes(homes') \subseteq K \cap Homes(homes)
    BY <1>2 DEF Later
  <2> QED
    BY <1>1, <1>2, <2>1 DEF KeysOf
<1>3. ASSUME NEW a, TokenOf(t, a, devices, homes) PROVE TokenOf(t, a, devices', homes')
  BY <1>1, <1>3 DEF TokenOf, Later
<1> QED
  BY <1>1, <1>2, <1>3 DEF TokenHome

\* A request stays as good as it was.
LEMMA RequestLater ==
  ASSUME Registry, NEW N, Later(N), NEW q, RequestKeys(q, devices, homes),
         q.op = "signup" => homes' = homes,
         \A d \in N : HeldBy(q, d) => d \in Homes(homes)
  PROVE  RequestKeys(q, devices', homes')
<1>1. Homes(homes) \subseteq Homes(homes') /\ Homes(homes') \subseteq Homes(homes) \cup N
      /\ DOMAIN homes \subseteq DOMAIN homes' /\ \A a \in DOMAIN homes : homes'[a] = homes[a]
  BY HomesStay DEF Later
<1>2. Keys(q.list) \cap N \subseteq Homes(homes)
  BY DEF HeldBy, Keys
<1>3. q.op \in {"createDoc", "accept"} => q.doc \notin Homes(homes')
  BY <1>1 DEF RequestKeys, HeldBy
<1>4. q.list # {} =>
        q.op \in {"login", "docs"} /\ q.at = "answered" /\ KeysOf(q.token, Keys(q.list), devices', homes')
  BY <1>2, TokensLater DEF RequestKeys
<1>5. /\ TokenHome(q.token, q.home, devices, homes) => TokenHome(q.token, q.home, devices', homes')
      /\ TokenHome(q.token, q.doc, devices, homes) => TokenHome(q.token, q.doc, devices', homes')
      /\ TokenOf(q.token, q.account, devices, homes) => TokenOf(q.token, q.account, devices', homes')
  BY TokensLater
<1> HIDE DEF Later
<1> QED
  BY <1>1, <1>3, <1>4, <1>5 DEF RequestKeys

\* Nothing new on the server.
LEMMA NoneNew ==
  ASSUME Registry, UNCHANGED tables, Remembered
  PROVE  Later({}) /\ homes' = homes /\ UNCHANGED <<accounts, docs, members, devices, invites, resets>>
BY DEF Registry, Remembered, tables, Later

-----------------------------------------------------------------------------
(* Routes *)

\* A request goes on as the one it is.
GoesOn(q, r) ==
  /\ r.op = q.op
  /\ r.home = q.home
  /\ q.op = "signup" => r.doc = q.doc
  /\ q.op = "docs" => r.token = q.token

\* The installation's own part, while the server works.
LEMMA LocalLater ==
  ASSUME HostInv, Registry, ProfileKeyed, HostKeyed, CmdKeyed, NEW N, Later(N),
         \A d \in N : Held(d) => d \in Homes(homes),
         UNCHANGED <<secrets, row, host, cmd>>,
         GoesOn(calls[CmdClient], calls'[CmdClient]), calls'[HostClient].op = calls[HostClient].op
  PROVE  ProfileKeyed' /\ HostKeyed' /\ CmdKeyed'
<1>1. Homes(homes) \subseteq Homes(homes') /\ Homes(homes') \subseteq Homes(homes) \cup N
  BY HomesStay DEF Later
<1>2. ProfileKeyed'
  <2>1. secrets.token # 0 => secrets.keys \cap N \subseteq Homes(homes)
    BY DEF Held
  <2> QED
    BY <1>1, <2>1, TokensLater DEF ProfileKeyed
<1>3. HostKeyed'
  <2>1. host.state = "serving" /\ host.todo = "create" => host.held \cap N \subseteq Homes(homes)
    BY DEF Held
  <2> QED
    BY <2>1, TokensLater DEF HostKeyed
<1>4. CmdKeyed'
  <2>1. cmd.op = "accept" => cmd.held.keys \cap N \subseteq Homes(homes) /\ (cmd.doc \in N => cmd.doc \in Homes(homes))
    BY DEF Held
  <2>2. cmd.op \in Joining /\ cmd.at \in Joined => cmd.keys \cap N \subseteq Homes(homes)
    BY DEF Held
  <2>3. cmd.op = "accept" /\ cmd.at = "key" /\ cmd.doc \notin Homes(homes) => cmd.doc \notin Homes(homes')
    BY <1>1, <2>1
  <2>4. /\ cmd.op = "accept" /\ KeysOf(cmd.held.token, cmd.held.keys, devices, homes) =>
             KeysOf(cmd.held.token, cmd.held.keys, devices', homes')
        /\ cmd.op \in Joining /\ cmd.at \in Joined /\ KeysOf(cmd.token, cmd.keys, devices, homes) =>
             KeysOf(cmd.token, cmd.keys, devices', homes')
        /\ TokenHome(cmd.token, cmd.doc, devices, homes) => TokenHome(cmd.token, cmd.doc, devices', homes')
    BY <2>1, <2>2, TokensLater
  <2>5. cmd.doc \in Homes(homes) => cmd.doc \in Homes(homes')
    BY <1>1
  <2>6. AcceptKeyed' /\ JoinKeyed' /\ InitKeyed'
    BY <2>3, <2>4, <2>5 DEF CmdKeyed, AcceptKeyed, JoinKeyed, InitKeyed, GoesOn
  <2>7. calls[CmdClient].op = "signup" \/ ~(cmd.op = "signup" /\ cmd.at = "http")
    BY DEF HostInv, Waiting
  <2>8. AskKeyed'
    BY <2>4, <2>5, <2>7 DEF CmdKeyed, AskKeyed, GoesOn
  <2> QED
    BY <2>6, <2>8 DEF CmdKeyed
<1> QED
  BY <1>2, <1>3, <1>4

\* A route takes a step for c: the registry stays sound, the request is as
\* good as before, and it holds no document that was not there or its own.
Turn(c) ==
  /\ Registry' /\ HomeUnlockable'
  /\ Later({}) /\ homes' = homes
  /\ \A x \in Client : x # c => calls'[x] = calls[x]
  /\ GoesOn(calls[c], calls'[c])
  /\ RequestKeys(calls'[c], devices', homes')
  /\ \A d \in Doc : HeldBy(calls'[c], d) => HeldBy(calls[c], d) \/ d \in docs
  /\ \A d \in docs' : d \in docs \/ HeldBy(calls[c], d)

\* Such a step keeps the invariant.
LEMMA TurnKeeps ==
  ASSUME AccessInv, HostInv, KeysInv, NEW c \in Client, Turn(c), UNCHANGED <<secrets, row, host, cmd, born>>
  PROVE  KeysInv'
<1>1. Registry' /\ HomeUnlockable' /\ Later({}) /\ homes' = homes
  BY DEF Turn
<1>2. \A x \in Client : GoesOn(calls[x], calls'[x])
  BY DEF Turn, GoesOn
<1>3. RequestsKeyed'
  <2>1. ASSUME NEW x \in Client PROVE RequestKeys(calls'[x], devices', homes')
    <3>1. CASE x = c
      BY <3>1 DEF Turn
    <3>2. CASE x # c
      <4>1. calls'[x] = calls[x] /\ RequestKeys(calls[x], devices, homes)
        BY <3>2 DEF Turn, KeysInv, RequestsKeyed
      <4>2. RequestKeys(calls[x], devices', homes')
        BY <1>1, <4>1, RequestLater DEF KeysInv
      <4> QED
        BY <4>1, <4>2
    <3> QED
      BY <3>1, <3>2
  <2> QED
    BY <1>2, <2>1 DEF KeysInv, RequestsKeyed, GoesOn
<1>4. ProfileKeyed' /\ HostKeyed' /\ CmdKeyed'
  BY <1>1, <1>2, LocalLater, ClientsAssumption DEF KeysInv, GoesOn
<1>5. /\ \A d \in Doc : Local(d)' => Local(d)
      /\ \A d \in Doc : Held(d)' => Held(d) \/ d \in docs
      /\ \A d \in Doc : d \in docs' => Held(d) \/ d \in docs
  <2>1. \A d \in Doc : Local(d)' => Local(d)
    BY <1>2, ClientsAssumption DEF Local, GoesOn
  <2>2. ASSUME NEW d \in Doc, NEW x \in Client, HeldBy(calls'[x], d) PROVE HeldBy(calls[x], d) \/ d \in docs
    BY <2>2 DEF Turn
  <2>3. \A d \in Doc : Held(d)' => Held(d) \/ d \in docs
    BY <2>2 DEF Held
  <2>4. \A d \in Doc : d \in docs' => Held(d) \/ d \in docs
    BY DEF Turn, Held
  <2> QED
    BY <2>1, <2>3, <2>4
<1>6. Apart' /\ Chosen'
  BY <1>1, <1>5 DEF KeysInv, Apart, Chosen
<1> QED
  BY <1>1, <1>3, <1>4, <1>6 DEF KeysInv

\* A step that reads, and changes the request to r.
LEMMA ReadTurn ==
  ASSUME AccessInv, KeysInv, NEW c \in Client, UNCHANGED tables, Remembered,
         NEW r, calls' = [calls EXCEPT ![c] = r], GoesOn(calls[c], r),
         RequestKeys(r, devices, homes), \A d \in Doc : HeldBy(r, d) => HeldBy(calls[c], d) \/ d \in docs
  PROVE  Turn(c)
<1>1. Later({}) /\ homes' = homes /\ UNCHANGED <<accounts, docs, members, devices, invites, resets>>
  BY NoneNew DEF KeysInv
<1>2. Registry' /\ HomeUnlockable'
  BY <1>1 DEF KeysInv, Registry, HomeUnlockable, IsOwner, IsMember
<1>3. calls'[c] = r /\ \A x \in Client : x # c => calls'[x] = calls[x]
  BY Fields
<1> QED
  BY <1>1, <1>2, <1>3 DEF Turn

\* Refusals.
LEMMA RefusedTurn ==
  ASSUME AccessInv, KeysInv, NEW c \in Client, calls[c].at # "answered", NEW out, out # "ok",
         Refuse(c, out), Remembered
  PROVE  Turn(c)
<1> DEFINE q == calls[c]
           r == [q EXCEPT !.at = "answered", !.out = out]
<1>1. calls' = [calls EXCEPT ![c] = r] /\ UNCHANGED tables
  BY Fields DEF Refuse, Answer, Idle
<1>2. /\ r.op = q.op /\ r.home = q.home /\ r.doc = q.doc /\ r.token = q.token /\ r.list = q.list
      /\ r.at = "answered" /\ r.out = out
  BY Fields DEF Idle
<1>3. RequestKeys(q, devices, homes) /\ q.at # "answered"
  BY DEF KeysInv, RequestsKeyed
<1> HIDE DEF q, r
<1>4. RequestKeys(r, devices, homes)
  BY <1>2, <1>3 DEF RequestKeys
<1>5. GoesOn(q, r) /\ \A d \in Doc : HeldBy(r, d) => HeldBy(q, d)
  BY <1>2 DEF GoesOn, HeldBy
<1> QED
  BY <1>1, <1>4, <1>5, ReadTurn DEF q

\* The checks of a password or a token.
LEMMA VerifyTurn ==
  ASSUME AccessInv, KeysInv, NEW c \in Client, Remembered,
         Authenticate(c) \/ LoginVerify(c) \/ PasswordVerify(c) \/ DeleteAccountVerify(c)
  PROVE  Turn(c)
<1> DEFINE q == calls[c]
           a == DeviceAccount(q.token)
<1>1. RequestKeys(q, devices, homes) /\ q.at \in {"auth", "run"}
  BY DEF KeysInv, RequestsKeyed, Authenticate, LoginVerify, PasswordVerify, DeleteAccountVerify, At
<1>2. CASE Authenticate(c) /\ a # None
  <2> DEFINE r == [q EXCEPT !.at = "run", !.account = a]
  <2>1. calls' = [calls EXCEPT ![c] = r] /\ UNCHANGED tables
    BY <1>2, Fields DEF Authenticate, Idle
  <2>2. /\ r.op = q.op /\ r.home = q.home /\ r.doc = q.doc /\ r.token = q.token /\ r.list = q.list
        /\ r.at = "run" /\ r.account = a /\ q.at = "auth"
    BY <1>2, Fields DEF Authenticate, Idle
  <2>3. q.token \in DOMAIN devices /\ devices[q.token] = a /\ a # None /\ a \in DOMAIN homes
    BY <1>2 DEF DeviceAccount, KeysInv, Registry
  <2>4. q.op # "signup"
    BY <1>1, <2>2 DEF RequestKeys
  <2> HIDE DEF q, r, a
  <2>5. RequestKeys(r, devices, homes)
    BY <1>1, <2>2, <2>3, <2>4 DEF RequestKeys, TokenHome, TokenOf
  <2>6. GoesOn(q, r) /\ \A d \in Doc : HeldBy(r, d) => HeldBy(q, d)
    BY <2>2 DEF GoesOn, HeldBy
  <2> QED
    BY <2>1, <2>5, <2>6, ReadTurn DEF q
<1>3. CASE \E at \in {"device", "update", "purge"} :
             Goto(c, at) /\ UNCHANGED tables /\ q.op \in {"login", "password", "deleteAccount"}
  <2>1. PICK at \in {"device", "update", "purge"} :
           Goto(c, at) /\ UNCHANGED tables /\ q.op \in {"login", "password", "deleteAccount"}
    BY <1>3
  <2> DEFINE r == [q EXCEPT !.at = at]
  <2>2. calls' = [calls EXCEPT ![c] = r]
    BY <2>1, Fields DEF Goto, Idle
  <2>3. r.op = q.op /\ r.home = q.home /\ r.doc = q.doc /\ r.token = q.token /\ r.list = q.list /\ r.at = at
    BY Fields DEF Idle
  <2> HIDE DEF q, r
  <2>4. RequestKeys(r, devices, homes)
    BY <1>1, <2>1, <2>3 DEF RequestKeys
  <2>5. GoesOn(q, r) /\ \A d \in Doc : HeldBy(r, d) => HeldBy(q, d)
    BY <2>3 DEF GoesOn, HeldBy
  <2> QED
    BY <2>1, <2>2, <2>4, <2>5, ReadTurn DEF q
<1>4. CASE \E out \in {"Unauthorized", "InvalidCredentials"} : Refuse(c, out)
  BY <1>1, <1>4, RefusedTurn
<1> QED
  BY <1>2, <1>3, <1>4
     DEF Authenticate, LoginVerify, PasswordVerify, DeleteAccountVerify, At, Refuse

\* A request with a device that was made for its account.
LEMMA DeviceTurn ==
  ASSUME AccessInv, KeysInv, NEW c \in Client, Remembered, LoginDevice(c) \/ ResetDevice(c)
  PROVE  Turn(c)
<1> DEFINE q == calls[c]
           a == q.account
           t == Len(devices) + 1
           at == IF q.op = "login" THEN "list" ELSE "answered"
           r == [q EXCEPT !.at = at, !.token = t, !.doc = accounts[a].primary, !.out = "ok"]
<1>1. RequestKeys(q, devices, homes) /\ q.at = "device" /\ q.op \in {"login", "reset"} /\ CreateDevice(c, at)
  BY DEF KeysInv, RequestsKeyed, LoginDevice, ResetDevice, At
<1>2. CASE a \notin DOMAIN accounts
  BY <1>1, <1>2, RefusedTurn DEF CreateDevice
<1>3. CASE a \in DOMAIN accounts
  <2>1. /\ calls' = [calls EXCEPT ![c] = r] /\ devices' = Append(devices, a)
        /\ UNCHANGED <<accounts, docs, members, invites, resets>>
    BY <1>1, <1>3, Fields DEF CreateDevice, Idle
  <2>2. r.op = q.op /\ r.home = q.home /\ r.doc = accounts[a].primary /\ r.token = t /\ r.list = q.list
        /\ r.at = at /\ r.account = a /\ q.account = a
    BY Fields DEF Idle
  <2>3. devices \in Seq(Account \cup {None}) /\ a \in Account /\ a # None
    BY <1>3, NamesAssumption DEF AccessInv, Tables, Credentials, AccountRows
  <2>4. /\ DOMAIN devices' = DOMAIN devices \cup {t} /\ t \in DOMAIN devices' /\ devices'[t] = a
        /\ \A u \in DOMAIN devices : devices'[u] = devices[u]
    BY <2>1, <2>3
  <2>5. homes' = homes
    BY <2>1 DEF KeysInv, Registry, Remembered
  <2>6. Later({}) /\ a \in DOMAIN homes /\ homes[a] = accounts[a].primary /\ accounts[a].primary \in Homes(homes)
    BY <1>3, <2>4, <2>5 DEF Later, KeysInv, Registry, Homes
  <2>7. Registry' /\ HomeUnlockable'
    BY <1>3, <2>1, <2>4, <2>5 DEF KeysInv, Registry, HomeUnlockable, IsOwner, IsMember
  <2>8. calls'[c] = r /\ \A x \in Client : x # c => calls'[x] = calls[x]
    BY <2>1, Fields
  <2> HIDE DEF r, t, a, q
  <2>9. RequestKeys(r, devices', homes)
    BY <1>1, <2>2, <2>3, <2>4, <2>6 DEF RequestKeys, TokenHome, TokenOf
  <2>10. GoesOn(q, r) /\ \A d \in Doc : HeldBy(r, d) => HeldBy(q, d)
    BY <1>1, <2>2 DEF GoesOn, HeldBy
  <2> QED
    BY <2>1, <2>5, <2>6, <2>7, <2>8, <2>9, <2>10 DEF Turn, q
<1> QED
  BY <1>2, <1>3

\* The document of a membership that was ever a Home is the account's own.
LEMMA OwnHome ==
  ASSUME AccessInv, KeysInv, NEW a, NEW d \in Homes(homes), IsMember(d, a)
  PROVE  d \in docs /\ a \in DOMAIN accounts /\ homes[a] = d /\ accounts[a].primary = d
<1>1. <<d, a>> \in docs \X Account
  BY DEF IsMember, AccessInv, Tables, MemberRows
<1>2. d \in docs /\ a \in Account
  BY <1>1
<1>3. PICK b \in DOMAIN accounts : accounts[b].primary = d
  BY <1>2 DEF KeysInv, Registry
<1>4. b = a
  BY <1>2, <1>3 DEF KeysInv, Registry, IsMember
<1> QED
  BY <1>2, <1>3, <1>4 DEF KeysInv, Registry

\* A list of documents has no other account's Home.
LEMMA ListTurn ==
  ASSUME AccessInv, KeysInv, NEW c \in Client, Remembered, ListDocs(c)
  PROVE  Turn(c)
<1> DEFINE q == calls[c]
           a == q.account
           list == Memberships(a)
           r == [q EXCEPT !.at = "answered", !.out = "ok", !.list = list]
<1>1. /\ RequestKeys(q, devices, homes) /\ q.op \in {"login", "docs"}
      /\ calls' = [calls EXCEPT ![c] = r] /\ UNCHANGED tables /\ TokenOf(q.token, a, devices, homes)
  BY Fields DEF KeysInv, RequestsKeyed, ListDocs, At, Idle, RequestKeys
<1>2. /\ r.op = q.op /\ r.home = q.home /\ r.doc = q.doc /\ r.token = q.token /\ r.list = list
      /\ r.at = "answered"
  BY Fields DEF Idle
<1>3. ASSUME NEW d \in Keys(list) PROVE d \in Doc /\ IsMember(d, a)
  <2>1. PICK m \in list : m.doc = d
    BY DEF Keys
  <2>2. PICK e \in {f \in Doc : IsMember(f, a)} : m = [doc |-> e, wrap |-> members[<<e, a>>].wrap]
    BY <2>1, Zenon DEF Memberships
  <2> QED
    BY <2>1, <2>2
<1>4. \A d \in Keys(list) \cap Homes(homes) : homes[a] = d
  BY <1>3, OwnHome
<1>5. \A d \in Keys(list) : d \in docs
  <2>1. ASSUME NEW d \in Keys(list) PROVE d \in docs
    <3>1. <<d, a>> \in docs \X Account
      BY <1>3 DEF IsMember, AccessInv, Tables, MemberRows
    <3> QED
      BY <3>1
  <2> QED
    BY <2>1
<1> HIDE DEF q, r, a, list
<1>6. KeysOf(r.token, Keys(r.list), devices, homes)
  BY <1>1, <1>2, <1>3, <1>4, NamesAssumption DEF KeysOf, TokenOf, NoFile
<1>7. RequestKeys(r, devices, homes)
  BY <1>1, <1>2, <1>6 DEF RequestKeys
<1>8. GoesOn(q, r) /\ \A d \in Doc : HeldBy(r, d) => d \in docs
  BY <1>1, <1>2, <1>5 DEF GoesOn, HeldBy, Keys
<1> QED
  BY <1>1, <1>7, <1>8, ReadTurn DEF q

\* Recovery: the document of the account, then a session for it.
LEMMA RecoverTurn ==
  ASSUME AccessInv, KeysInv, NEW c \in Client, Remembered, RecoverVerify(c) \/ RecoverSession(c)
  PROVE  Turn(c)
<1> DEFINE q == calls[c]
           a == q.account
<1>1. RequestKeys(q, devices, homes) /\ q.at \in {"run", "session"} /\ q.op = "recover"
  BY DEF KeysInv, RequestsKeyed, RecoverVerify, RecoverSession, At
<1>2. CASE RecoverVerify(c) /\ a \in DOMAIN accounts
  <2> DEFINE r == [q EXCEPT !.at = "session", !.doc = accounts[a].primary]
  <2>1. calls' = [calls EXCEPT ![c] = r] /\ UNCHANGED tables
    BY <1>2, Fields DEF RecoverVerify, Idle
  <2>2. r.op = q.op /\ r.home = q.home /\ r.doc = accounts[a].primary /\ r.list = q.list /\ r.at = "session"
    BY Fields DEF Idle
  <2>3. accounts[a].primary \in Homes(homes)
    BY <1>2 DEF KeysInv, Registry, Homes
  <2> HIDE DEF q, r, a
  <2>4. RequestKeys(r, devices, homes)
    BY <1>1, <2>2, <2>3 DEF RequestKeys
  <2>5. GoesOn(q, r) /\ \A d \in Doc : HeldBy(r, d) => HeldBy(q, d)
    BY <1>1, <2>2 DEF GoesOn, HeldBy
  <2> QED
    BY <2>1, <2>4, <2>5, ReadTurn DEF q
<1>3. CASE RecoverSession(c) /\ a \in DOMAIN accounts
  <2> DEFINE r == [q EXCEPT !.at = "answered", !.out = "ok", !.row = Len(resets) + 1]
  <2>1. /\ calls' = [calls EXCEPT ![c] = r] /\ resets' = Append(resets, [account |-> a, state |-> "open"])
        /\ UNCHANGED <<accounts, docs, members, devices, invites>>
    BY <1>3, Fields DEF RecoverSession, Idle
  <2>2. r.op = q.op /\ r.home = q.home /\ r.doc = q.doc /\ r.list = q.list /\ r.at = "answered"
    BY Fields DEF Idle
  <2>3. homes' = homes
    BY <2>1 DEF KeysInv, Registry, Remembered
  <2>4. \A n \in DOMAIN resets' : resets'[n].state = "open" => resets'[n].account \in DOMAIN accounts
    <3>1. resets \in Seq([account : Account, state : RowState])
      BY DEF AccessInv, Tables, Credentials
    <3>2. ASSUME NEW n \in DOMAIN resets'
          PROVE  \/ n \in DOMAIN resets /\ resets'[n] = resets[n]
                 \/ resets'[n] = [account |-> a, state |-> "open"]
      BY <2>1, <3>1
    <3> QED
      BY <1>3, <3>2 DEF KeysInv, Registry
  <2>5. Registry' /\ HomeUnlockable'
    BY <2>1, <2>3, <2>4 DEF KeysInv, Registry, HomeUnlockable, IsOwner, IsMember
  <2>6. calls'[c] = r /\ \A x \in Client : x # c => calls'[x] = calls[x]
    BY <2>1, Fields
  <2> HIDE DEF q, r, a
  <2>7. RequestKeys(r, devices, homes)
    BY <1>1, <2>2 DEF RequestKeys
  <2>8. GoesOn(q, r) /\ \A d \in Doc : HeldBy(r, d) => HeldBy(q, d)
    BY <1>1, <2>2 DEF GoesOn, HeldBy
  <2> QED
    BY <2>1, <2>3, <2>5, <2>6, <2>7, <2>8 DEF Turn, Later, q
<1>4. CASE a \notin DOMAIN accounts
  <2>1. \E out \in {"InvalidCredentials", "Internal"} : Refuse(c, out)
    BY <1>4 DEF RecoverVerify, RecoverSession, Refuse
  <2> QED
    BY <1>1, <2>1, RefusedTurn
<1> QED
  BY <1>2, <1>3, <1>4

-----------------------------------------------------------------------------
(* Routes that write *)

\* The request of c goes on, as good as before.
CallKeyed(c) ==
  /\ \A x \in Client : x # c => calls'[x] = calls[x]
  /\ GoesOn(calls[c], calls'[c])
  /\ RequestKeys(calls'[c], devices, homes)
  /\ \A d \in Doc : HeldBy(calls'[c], d) => HeldBy(calls[c], d) \/ d \in docs

\* A route is done, or goes on to close sessions.
LEMMA DoneKeyed ==
  ASSUME AccessInv, KeysInv, NEW c \in Client, calls[c].at # "answered",
         calls[c].op \notin {"signup", "reset"}, NEW at \in {"answered", "close"}, NEW close,
         \/ Answer(c, "ok")
         \/ calls' = [calls EXCEPT ![c].at = at, ![c].out = "ok", ![c].close = close]
         \/ calls' = [calls EXCEPT ![c].close = close, ![c].at = at]
         \/ calls' = [calls EXCEPT ![c].at = at, ![c].out = "ok", ![c].row = close]
  PROVE  CallKeyed(c)
<1> DEFINE q == calls[c]
           r == calls'[c]
<1>1. /\ r.op = q.op /\ r.home = q.home /\ r.doc = q.doc /\ r.token = q.token /\ r.list = q.list
      /\ r.at \in {"answered", "close"}
      /\ \A x \in Client : x # c => calls'[x] = calls[x]
  BY Fields DEF Answer, Idle
<1>2. RequestKeys(q, devices, homes) /\ q.at # "answered" /\ q.op \notin {"signup", "reset"}
  BY DEF KeysInv, RequestsKeyed
<1>3. RequestKeys(r, devices, homes)
  <2> HIDE DEF q, r
  <2> QED
    BY <1>1, <1>2 DEF RequestKeys
<1>4. GoesOn(q, r) /\ \A d \in Doc : HeldBy(r, d) => HeldBy(q, d)
  <2> HIDE DEF q, r
  <2> QED
    BY <1>1, <1>2 DEF GoesOn, HeldBy
<1> QED
  BY <1>1, <1>3, <1>4 DEF CallKeyed

\* What is left to show of a route that makes no device.
LEMMA WriteTurn ==
  ASSUME KeysInv, NEW c \in Client, CallKeyed(c), UNCHANGED devices, homes' = homes,
         Registry', HomeUnlockable', \A d \in docs' : d \in docs \/ HeldBy(calls[c], d)
  PROVE  Turn(c)
BY DEF CallKeyed, Turn, Later

\* The new password comes with Home's key under it.
LEMMA PasswordKeeps ==
  ASSUME AccessInv, KeysInv, NEW a \in DOMAIN accounts, NEW new, SetPassword(a, new), Remembered,
         UNCHANGED <<docs, devices, invites>>,
         \A n \in DOMAIN resets' : n \in DOMAIN resets /\ resets'[n].account = resets[n].account
                                   /\ (resets'[n].state = "open" => resets[n].state = "open")
  PROVE  Registry' /\ HomeUnlockable' /\ homes' = homes
<1> DEFINE k == <<accounts[a].primary, a>>
<1>1. /\ DOMAIN accounts' = DOMAIN accounts
      /\ \A b \in DOMAIN accounts : accounts'[b].primary = accounts[b].primary
      /\ \A b \in DOMAIN accounts : accounts'[b].password = IF b = a THEN new ELSE accounts[b].password
  BY DEF SetPassword, AccessInv, Tables, AccountRows
<1>2. /\ IsOwner(accounts[a].primary, a) /\ k \in DOMAIN members
  BY DEF KeysInv, HomeUnlockable, IsOwner, IsMember
<1>3. /\ DOMAIN members' = DOMAIN members
      /\ \A j \in DOMAIN members : /\ members'[j].removed = members[j].removed
                                   /\ members'[j].role = members[j].role
                                   /\ members'[j].wrap = IF j = k THEN UnderPassword(new) ELSE members[j].wrap
  BY <1>2 DEF SetPassword, AccessInv, Tables, MemberRows
<1>4. homes' = homes
  BY <1>1 DEF KeysInv, Registry, Remembered
<1>5. Registry'
  BY <1>1, <1>3, <1>4 DEF KeysInv, Registry
<1>6. ASSUME NEW b \in DOMAIN accounts, NEW d PROVE (d # accounts[a].primary \/ b # a) => <<d, b>> # k
  OBVIOUS
<1>7. HomeUnlockable'
  <2> HIDE DEF k
  <2>1. ASSUME NEW b \in DOMAIN accounts, NEW home, home = accounts[b].primary
        PROVE  /\ IsOwner(home, b)'
               /\ members'[<<home, b>>].wrap = UnderPassword(accounts'[b].password)
               /\ \A d \in docs \ {home} : IsMember(d, b)' => members'[<<d, b>>].wrap = UnderHome(home)
    <3>1. IsOwner(home, b) /\ <<home, b>> \in DOMAIN members
          /\ members[<<home, b>>].wrap = UnderPassword(accounts[b].password)
      BY <2>1 DEF KeysInv, HomeUnlockable, IsOwner, IsMember
    <3>2. IsOwner(home, b)'
      BY <1>3, <3>1 DEF IsOwner, IsMember
    <3>3. members'[<<home, b>>].wrap = UnderPassword(accounts'[b].password)
      BY <1>1, <1>3, <1>6, <2>1, <3>1 DEF k
    <3>4. ASSUME NEW d \in docs \ {home}, IsMember(d, b)' PROVE members'[<<d, b>>].wrap = UnderHome(home)
      <4>1. IsMember(d, b) /\ <<d, b>> \in DOMAIN members /\ <<d, b>> # k
        BY <1>3, <1>6, <2>1, <3>4 DEF IsMember
      <4> QED
        BY <1>3, <2>1, <4>1 DEF KeysInv, HomeUnlockable
    <3> QED
      BY <3>2, <3>3, <3>4
  <2> QED
    BY <1>1, <2>1 DEF HomeUnlockable, IsOwner, IsMember
<1> QED
  BY <1>4, <1>5, <1>7

\* A change of password, by one who knows it and by a recovery.
LEMMA PasswordTurn ==
  ASSUME AccessInv, KeysInv, NEW c \in Client, Remembered, PasswordUpdate(c) \/ PasswordReset(c)
  PROVE  Turn(c)
<1> DEFINE q == calls[c]
<1>1. RequestKeys(q, devices, homes) /\ q.at # "answered"
  BY DEF KeysInv, RequestsKeyed, PasswordUpdate, PasswordReset, At
<1>2. CASE \E out \in {"DocKeysMismatch", "RecoverySessionInvalid"} : Refuse(c, out)
  BY <1>1, <1>2, RefusedTurn
<1>3. CASE PasswordUpdate(c) /\ ~(\E out \in {"DocKeysMismatch", "RecoverySessionInvalid"} : Refuse(c, out))
  <2>1. /\ q.op = "password" /\ q.account \in DOMAIN accounts /\ SetPassword(q.account, q.new)
        /\ Answer(c, "ok") /\ UNCHANGED <<docs, devices, invites, resets>>
    BY <1>3 DEF PasswordUpdate, At
  <2>2. CallKeyed(c)
    BY <1>1, <2>1, DoneKeyed
  <2>3. Registry' /\ HomeUnlockable' /\ homes' = homes
    BY <2>1, PasswordKeeps
  <2> QED
    BY <2>1, <2>2, <2>3, WriteTurn
<1>4. CASE PasswordReset(c) /\ ~(\E out \in {"DocKeysMismatch", "RecoverySessionInvalid"} : Refuse(c, out))
  <2> DEFINE a == resets[q.row].account
             r == [q EXCEPT !.at = "device", !.account = a]
  <2>1. /\ q.op = "reset" /\ resets[q.row].state = "open" /\ accounts[a].primary = q.home
        /\ SetPassword(a, q.new) /\ resets' = [resets EXCEPT ![q.row].state = "consumed"]
        /\ UNCHANGED <<docs, devices, invites>>
    BY <1>4 DEF PasswordReset, At
  <2>2. calls' = [calls EXCEPT ![c] = r]
    BY <1>4, Fields DEF PasswordReset, Idle
  <2>3. r.op = q.op /\ r.home = q.home /\ r.doc = q.doc /\ r.list = q.list /\ r.at = "device" /\ r.account = a
    BY Fields DEF Idle
  <2>4. q.row \in DOMAIN resets
    BY <2>1 DEF AccessInv, Requests, RequestOK
  <2>5. a \in DOMAIN accounts /\ a \in DOMAIN homes /\ homes[a] = q.home
    BY <2>1, <2>4 DEF KeysInv, Registry
  <2>6. \A n \in DOMAIN resets' : n \in DOMAIN resets /\ resets'[n].account = resets[n].account
                                  /\ (resets'[n].state = "open" => resets[n].state = "open")
    BY <2>1, <2>4 DEF AccessInv, Tables, Credentials
  <2>7. Registry' /\ HomeUnlockable' /\ homes' = homes
    BY <2>1, <2>5, <2>6, PasswordKeeps
  <2>8. calls'[c] = r /\ \A x \in Client : x # c => calls'[x] = calls[x]
    BY <2>2, Fields
  <2> HIDE DEF q, r, a
  <2>9. RequestKeys(r, devices, homes)
    BY <1>1, <2>1, <2>3, <2>5 DEF RequestKeys
  <2>10. GoesOn(q, r) /\ \A d \in Doc : HeldBy(r, d) => HeldBy(q, d)
    BY <2>1, <2>3 DEF GoesOn, HeldBy
  <2>11. CallKeyed(c)
    BY <2>8, <2>9, <2>10 DEF CallKeyed, q
  <2> QED
    BY <2>1, <2>7, <2>11, WriteTurn
<1> QED
  BY <1>2, <1>3, <1>4

\* An open invite was open, for the same document.
FewerInvites ==
  \A i \in DOMAIN invites' :
    invites'[i].state = "open" =>
      i \in DOMAIN invites /\ invites[i].state = "open" /\ invites'[i].doc = invites[i].doc

\* Rows go, and memberships end, but no Home of an account that stays; what
\* belongs to an account that goes goes with it.
Fewer ==
  /\ DOMAIN accounts' \subseteq DOMAIN accounts
  /\ \A b \in DOMAIN accounts' : accounts'[b] = accounts[b]
  /\ docs' \subseteq docs
  /\ DOMAIN members' \subseteq DOMAIN members
  /\ \A k \in DOMAIN members' : /\ members'[k].role = members[k].role
                                /\ members'[k].wrap = members[k].wrap
                                /\ ~members'[k].removed => ~members[k].removed
  /\ \A d \in Doc, b \in Account : <<d, b>> \in DOMAIN members' => b \in DOMAIN accounts'
  /\ \A b \in DOMAIN accounts' : IsMember(accounts[b].primary, b)'
  /\ \A b \in DOMAIN accounts : accounts[b].primary \in docs' => b \in DOMAIN accounts'
  /\ DOMAIN devices' = DOMAIN devices
  /\ \A t \in DOMAIN devices : devices'[t] \in {devices[t], None} \cap (DOMAIN accounts' \cup {None})
  /\ \A n \in DOMAIN resets' : resets'[n].state = "open" => resets'[n].account \in DOMAIN accounts'
  /\ FewerInvites

\* A step that only takes rows away keeps the registry and the wraps that are left.
LEMMA FewerKeeps ==
  ASSUME AccessInv, KeysInv, Fewer, Remembered
  PROVE  Registry' /\ HomeUnlockable' /\ homes' = homes /\ Later({})
<1>1. homes' = homes
  BY DEF KeysInv, Registry, Remembered, Fewer
<1>2. Later({})
  BY <1>1 DEF Later, Fewer
<1>3. Registry'
  <2>1. /\ homes' = [a \in DOMAIN homes' |-> homes'[a]] /\ Homes(homes') \subseteq Doc
        /\ DOMAIN accounts' \subseteq DOMAIN homes'
        /\ \A a \in DOMAIN accounts' : homes'[a] = accounts'[a].primary
        /\ \A t \in DOMAIN devices' : devices'[t] \in DOMAIN accounts' \cup {None}
        /\ \A n \in DOMAIN resets' : resets'[n].state = "open" => resets'[n].account \in DOMAIN accounts'
    BY <1>1 DEF KeysInv, Registry, Fewer
  <2>2. /\ \A d \in Doc, a \in Account : <<d, a>> \in DOMAIN members' => a \in DOMAIN accounts'
        /\ \A a \in DOMAIN accounts', b \in Account :
             <<accounts'[a].primary, b>> \in DOMAIN members' => b = a
    BY DEF KeysInv, Registry, Fewer
  <2>3. \A i \in DOMAIN invites' : invites'[i].state = "open" => invites'[i].doc \notin Homes(homes')
    BY <1>1 DEF KeysInv, Registry, Fewer, FewerInvites
  <2>4. \A d \in docs' \cap Homes(homes') : \E a \in DOMAIN accounts' : accounts'[a].primary = d
    BY <1>1 DEF KeysInv, Registry, Fewer
  <2> QED
    BY <2>1, <2>2, <2>3, <2>4 DEF Registry
<1>4. HomeUnlockable'
  <2>1. ASSUME NEW b \in DOMAIN accounts', NEW home, home = accounts'[b].primary
        PROVE  /\ IsOwner(home, b)'
               /\ members'[<<home, b>>].wrap = UnderPassword(accounts'[b].password)
               /\ \A d \in docs' \ {home} : IsMember(d, b)' => members'[<<d, b>>].wrap = UnderHome(home)
    <3>1. b \in DOMAIN accounts /\ accounts'[b] = accounts[b] /\ home = accounts[b].primary
      BY <2>1 DEF Fewer
    <3>2. IsOwner(home, b) /\ members[<<home, b>>].wrap = UnderPassword(accounts[b].password)
      BY <3>1 DEF KeysInv, HomeUnlockable
    <3>3. IsMember(home, b)'
      BY <2>1 DEF Fewer
    <3>4. IsOwner(home, b)' /\ members'[<<home, b>>].wrap = UnderPassword(accounts'[b].password)
      BY <3>1, <3>2, <3>3 DEF IsOwner, IsMember, Fewer
    <3>5. ASSUME NEW d \in docs' \ {home}, IsMember(d, b)' PROVE members'[<<d, b>>].wrap = UnderHome(home)
      <4>1. IsMember(d, b) /\ members'[<<d, b>>].wrap = members[<<d, b>>].wrap /\ d \in docs \ {home}
        BY <3>5 DEF IsMember, Fewer
      <4> QED
        BY <3>1, <4>1 DEF KeysInv, HomeUnlockable
    <3> QED
      BY <3>4, <3>5
  <2> QED
    BY <2>1 DEF HomeUnlockable
<1> QED
  BY <1>1, <1>2, <1>3, <1>4

\* Home is nobody's to share or delete.
LEMMA SharedIsNoHome ==
  ASSUME AccessInv, KeysInv, NEW c \in Client, OwnsShared(c)
  PROVE  calls[c].doc \in docs \ Homes(homes) /\ IsOwner(calls[c].doc, calls[c].account)
<1> DEFINE d == calls[c].doc
           a == calls[c].account
<1>1. IsMember(d, a) /\ IsOwner(d, a)
  BY DEF OwnsShared, IsOwner
<1>2. <<d, a>> \in docs \X Account
  BY <1>1 DEF IsMember, AccessInv, Tables, MemberRows
<1>3. d \in docs
  BY <1>2
<1>4. ASSUME d \in Homes(homes) PROVE FALSE
  <2>1. a \in DOMAIN accounts /\ accounts[a].primary = d
    BY <1>1, <1>4, OwnHome
  <2> QED
    BY <2>1 DEF OwnsShared, IsPrimary
<1> QED
  BY <1>1, <1>3, <1>4

\* An account has the row of its Home, as the owner.
LEMMA HomeRow ==
  ASSUME KeysInv, NEW b \in DOMAIN accounts
  PROVE  /\ accounts[b].primary \in Homes(homes) /\ IsOwner(accounts[b].primary, b)
         /\ <<accounts[b].primary, b>> \in DOMAIN members /\ ~members[<<accounts[b].primary, b>>].removed
BY DEF KeysInv, Registry, Homes, HomeUnlockable, IsOwner, IsMember

\* A route that only takes something away.
LEMMA FewerTurn ==
  ASSUME AccessInv, KeysInv, NEW c \in Client, CallKeyed(c), Fewer, Remembered
  PROVE  Turn(c)
<1>1. Registry' /\ HomeUnlockable' /\ homes' = homes /\ Later({})
  BY FewerKeeps
<1>2. RequestKeys(calls'[c], devices, homes)
  BY DEF CallKeyed
<1>3. calls'[c].op = "signup" => homes' = homes
  BY <1>1
<1>4. RequestKeys(calls'[c], devices', homes')
  BY <1>1, <1>2, <1>3, RequestLater DEF KeysInv
<1> QED
  BY <1>1, <1>4 DEF Turn, CallKeyed, Fewer

\* A device is revoked, an invite withdrawn.
LEMMA RevokeTurn ==
  ASSUME AccessInv, KeysInv, NEW c \in Client, Remembered, RevokeDevice(c) \/ RevokeInvite(c)
  PROVE  Turn(c)
<1> DEFINE q == calls[c]
<1>1. q.at # "answered" /\ q.op \in {"revoke", "revokeInvite"}
  BY DEF RevokeDevice, RevokeInvite, At
<1>2. CASE Refuse(c, "NotFound")
  BY <1>1, <1>2, RefusedTurn
<1>3. CASE ~Refuse(c, "NotFound")
  <2>1. Answer(c, "ok") /\ UNCHANGED <<accounts, docs, members, resets>>
        /\ \/ devices' = [devices EXCEPT ![q.row] = None] /\ UNCHANGED invites
           \/ invites' = [invites EXCEPT ![q.row].state = "gone"] /\ UNCHANGED devices
    BY <1>3 DEF RevokeDevice, RevokeInvite
  <2>2. CallKeyed(c)
    BY <1>1, <2>1, DoneKeyed
  <2>3. /\ DOMAIN devices' = DOMAIN devices
        /\ \A t \in DOMAIN devices : devices'[t] \in {devices[t], None} \cap (DOMAIN accounts' \cup {None})
    BY <2>1 DEF AccessInv, Tables, Credentials, KeysInv, Registry
  <2>4. FewerInvites
    <3>1. q.op = "revokeInvite" => q.row \in DOMAIN invites
      BY DEF AccessInv, Requests, RequestOK
    <3>2. UNCHANGED invites \/ (q.op = "revokeInvite" /\ invites' = [invites EXCEPT ![q.row].state = "gone"])
      BY <1>3 DEF RevokeDevice, RevokeInvite, At
    <3> QED
      BY <3>1, <3>2, InviteState DEF FewerInvites, AccessInv, Tables, RowState
  <2>5. \A b \in DOMAIN accounts' : IsMember(accounts[b].primary, b)'
    BY <2>1, HomeRow DEF IsMember
  <2>6. Fewer
    BY <2>1, <2>3, <2>4, <2>5 DEF Fewer, KeysInv, Registry
  <2> QED
    BY <2>2, <2>6, FewerTurn
<1> QED
  BY <1>2, <1>3

\* A member is removed, from a document that is no Home.
LEMMA RemoveTurn ==
  ASSUME AccessInv, KeysInv, NEW c \in Client, Remembered, RemoveMember(c)
  PROVE  Turn(c)
<1> DEFINE q == calls[c]
           k == <<q.doc, q.target>>
<1>1. q.at # "answered" /\ q.op = "removeMember"
  BY DEF RemoveMember, At
<1>2. CASE Refuse(c, "Refused")
  BY <1>1, <1>2, RefusedTurn
<1>3. CASE ~Refuse(c, "Refused")
  <2>1. /\ OwnsShared(c) /\ IsMember(q.doc, q.target)
        /\ members' = [members EXCEPT ![k].removed = TRUE]
        /\ \E close : calls' = [calls EXCEPT ![c].at = "close", ![c].out = "ok", ![c].close = close]
        /\ UNCHANGED <<accounts, docs, devices, invites, resets>>
    BY <1>3 DEF RemoveMember
  <2>2. CallKeyed(c)
    BY <1>1, <2>1, DoneKeyed
  <2>3. q.doc \notin Homes(homes)
    BY <2>1, SharedIsNoHome
  <2>4. /\ DOMAIN members' = DOMAIN members
        /\ \A j \in DOMAIN members : /\ members'[j].role = members[j].role
                                     /\ members'[j].wrap = members[j].wrap
                                     /\ ~members'[j].removed => ~members[j].removed
                                     /\ j # k => members'[j].removed = members[j].removed
    BY <2>1 DEF AccessInv, Tables, MemberRows
  <2>5. \A b \in DOMAIN accounts' : IsMember(accounts[b].primary, b)'
    <3>1. ASSUME NEW b \in DOMAIN accounts PROVE <<accounts[b].primary, b>> # k
      BY <2>3, HomeRow
    <3> QED
      BY <2>1, <2>4, <3>1, HomeRow DEF IsMember
  <2>6. Fewer
    BY <2>1, <2>4, <2>5 DEF Fewer, FewerInvites, KeysInv, Registry
  <2> QED
    BY <2>2, <2>6, FewerTurn
<1> QED
  BY <1>2, <1>3

\* The open invites, once those of some documents or of an account are deleted.
LEMMA WithdrawnFewer ==
  ASSUME AccessInv, NEW D, NEW a, invites' = Withdrawn(D, a)
  PROVE  FewerInvites
BY DEF FewerInvites, Withdrawn, AccessInv, Tables, Invites

\* A document that is no Home goes with its rows.
LEMMA DeleteDocTurn ==
  ASSUME AccessInv, KeysInv, NEW c \in Client, Remembered, DeleteDoc(c)
  PROVE  Turn(c)
<1> DEFINE q == calls[c]
<1>1. q.at # "answered" /\ q.op = "deleteDoc"
  BY DEF DeleteDoc, At
<1>2. CASE Refuse(c, "Refused")
  BY <1>1, <1>2, RefusedTurn
<1>3. CASE ~Refuse(c, "Refused")
  <2>1. /\ OwnsShared(c) /\ docs' = docs \ {q.doc} /\ members' = Drop(members, Rows({q.doc}))
        /\ invites' = Withdrawn({q.doc}, None)
        /\ \E close : calls' = [calls EXCEPT ![c].at = "close", ![c].out = "ok", ![c].close = close]
        /\ UNCHANGED <<accounts, devices, resets>>
    BY <1>3 DEF DeleteDoc
  <2>2. CallKeyed(c)
    BY <1>1, <2>1, DoneKeyed
  <2>3. q.doc \notin Homes(homes)
    BY <2>1, SharedIsNoHome
  <2>4. /\ DOMAIN members' \subseteq DOMAIN members
        /\ \A j \in DOMAIN members' : members'[j] = members[j]
        /\ \A j \in DOMAIN members : j[1] # q.doc => j \in DOMAIN members'
    BY <2>1 DEF Drop, Rows
  <2>5. \A b \in DOMAIN accounts' : IsMember(accounts[b].primary, b)'
    <3>1. ASSUME NEW b \in DOMAIN accounts PROVE <<accounts[b].primary, b>>[1] # q.doc
      BY <2>3, HomeRow
    <3> QED
      BY <2>1, <2>4, <3>1, HomeRow DEF IsMember
  <2>6. Fewer
    BY <2>1, <2>4, <2>5, WithdrawnFewer DEF Fewer, KeysInv, Registry
  <2> QED
    BY <2>2, <2>6, FewerTurn
<1> QED
  BY <1>2, <1>3

\* The recovery sessions are records.
LEMMA ResetRows ==
  ASSUME AccessInv
  PROVE  \A n \in DOMAIN resets : DOMAIN resets[n] = {"account", "state"}
<1>1. resets \in Seq([account : Account, state : RowState])
  BY DEF AccessInv, Tables, Credentials
<1>2. \A n \in DOMAIN resets : resets[n] \in [account : Account, state : RowState]
  BY <1>1, InSeq
<1> QED
  BY <1>2

\* An account goes with the documents it owns, its Home among them.
LEMMA DeleteAccountTurn ==
  ASSUME AccessInv, KeysInv, NEW c \in Client, Remembered, DeleteAccount(c)
  PROVE  Turn(c)
<1> DEFINE a == calls[c].account
           owned == {d \in docs : IsOwner(d, a)}
<1>1. /\ calls[c].at # "answered" /\ calls[c].op = "deleteAccount"
      /\ accounts' = Drop(accounts, {a}) /\ docs' = docs \ owned
      /\ members' = Drop(members, Rows(owned) \cup {k \in DOMAIN members : k[2] = a})
      /\ devices' = [t \in DOMAIN devices |-> IF devices[t] = a THEN None ELSE devices[t]]
      /\ invites' = Withdrawn(owned, a)
      /\ resets' = [n \in DOMAIN resets |->
                      IF resets[n].account = a THEN [resets[n] EXCEPT !.state = "gone"] ELSE resets[n]]
      /\ \E close : calls' = [calls EXCEPT ![c].at = "close", ![c].out = "ok", ![c].close = close]
  BY DEF DeleteAccount, At
<1>2. CallKeyed(c)
  BY <1>1, DoneKeyed
<1>3. DOMAIN accounts' = DOMAIN accounts \ {a} /\ \A b \in DOMAIN accounts' : accounts'[b] = accounts[b]
  BY <1>1 DEF Drop
<1>4. /\ DOMAIN members' \subseteq DOMAIN members
      /\ \A j \in DOMAIN members' : members'[j] = members[j] /\ j[2] # a
      /\ \A j \in DOMAIN members : j[1] \notin owned /\ j[2] # a => j \in DOMAIN members'
  BY <1>1 DEF Drop, Rows
<1>5. ASSUME NEW b \in DOMAIN accounts, b # a PROVE accounts[b].primary \notin owned
  <2>1. IsOwner(accounts[b].primary, b) /\ IsMember(accounts[b].primary, b) /\ b \in Account
    BY HomeRow DEF IsMember, AccessInv, Tables, AccountRows
  <2>2. ASSUME accounts[b].primary \in owned PROVE FALSE
    <3>1. IsMember(accounts[b].primary, a) /\ accounts[b].primary \in Homes(homes)
      BY <2>2, HomeRow DEF IsOwner
    <3>2. accounts[a].primary = accounts[b].primary /\ a \in DOMAIN accounts
      BY <3>1, OwnHome
    <3>3. a = b
      BY <2>1, <3>2, HomeRow DEF KeysInv, Registry
    <3> QED
      BY <1>5, <3>3
  <2> QED
    BY <2>2
<1>6. \A b \in DOMAIN accounts' : IsMember(accounts[b].primary, b)'
  <2>1. ASSUME NEW b \in DOMAIN accounts' PROVE IsMember(accounts[b].primary, b)'
    <3>1. b \in DOMAIN accounts /\ b # a /\ accounts'[b] = accounts[b]
      BY <1>3
    <3>2. <<accounts[b].primary, b>>[1] = accounts[b].primary /\ <<accounts[b].primary, b>>[2] = b
      OBVIOUS
    <3>3. <<accounts[b].primary, b>> \in DOMAIN members'
      BY <1>4, <1>5, <3>1, <3>2, HomeRow
    <3> QED
      BY <1>4, <3>1, <3>3, HomeRow DEF IsMember
  <2> QED
    BY <2>1
<1>7. \A d \in Doc, b \in Account : <<d, b>> \in DOMAIN members' => b \in DOMAIN accounts'
  <2>1. ASSUME NEW d \in Doc, NEW b \in Account, <<d, b>> \in DOMAIN members' PROVE b \in DOMAIN accounts'
    <3>1. <<d, b>>[2] = b
      OBVIOUS
    <3> QED
      BY <1>3, <1>4, <2>1, <3>1 DEF KeysInv, Registry
  <2> QED
    BY <2>1
<1>8. \A b \in DOMAIN accounts : accounts[b].primary \in docs' => b \in DOMAIN accounts'
  <2>1. ASSUME a \in DOMAIN accounts PROVE accounts[a].primary \notin docs \ owned
    BY <2>1, HomeRow
  <2> QED
    BY <1>1, <1>3, <2>1
<1>9. /\ DOMAIN devices' = DOMAIN devices
      /\ \A t \in DOMAIN devices : devices'[t] \in {devices[t], None} \cap (DOMAIN accounts' \cup {None})
  BY <1>1, <1>3 DEF KeysInv, Registry
<1>10. \A n \in DOMAIN resets' : resets'[n].state = "open" => resets'[n].account \in DOMAIN accounts'
  <2>1. \A n \in DOMAIN resets : DOMAIN resets[n] = {"account", "state"}
    BY ResetRows
  <2>2. ASSUME NEW n \in DOMAIN resets'
        PROVE  /\ n \in DOMAIN resets /\ resets'[n].account = resets[n].account
               /\ resets'[n].state = IF resets[n].account = a THEN "gone" ELSE resets[n].state
    BY <1>1, <2>1
  <2> QED
    BY <1>3, <2>2 DEF KeysInv, Registry
<1>11. FewerInvites
  BY <1>1, WithdrawnFewer
<1> HIDE DEF owned, a
<1>12. Fewer
  BY <1>1, <1>3, <1>4, <1>6, <1>7, <1>8, <1>9, <1>10, <1>11 DEF Fewer
<1> QED
  BY <1>2, <1>12, FewerTurn

\* A document that is no Home is created or joined, its key under Home's.
LEMMA JoinKeeps ==
  ASSUME AccessInv, KeysInv, Remembered, NEW a \in DOMAIN accounts, NEW d \in Doc \ Homes(homes), NEW role,
         members' = Put(members, <<d, a>>, Member(role, UnderHome(homes[a]))), docs' = docs \cup {d},
         UNCHANGED <<accounts, devices, resets>>, FewerInvites
  PROVE  Registry' /\ HomeUnlockable' /\ homes' = homes
<1> DEFINE k == <<d, a>>
<1>1. homes' = homes /\ homes[a] = accounts[a].primary
  BY DEF KeysInv, Registry, Remembered
<1>2. /\ DOMAIN members' = DOMAIN members \cup {k}
      /\ \A j \in DOMAIN members : j # k => members'[j] = members[j]
      /\ members'[k].wrap = UnderHome(homes[a])
  BY DEF Put, Member
<1>3. ASSUME NEW b \in DOMAIN accounts, NEW x PROVE accounts[b].primary # d /\ <<accounts[b].primary, x>> # k
  BY HomeRow
<1>4. ASSUME NEW e, NEW b, <<e, b>> = k PROVE e = d /\ b = a
  BY <1>4
<1>5. Registry'
  <2> HIDE DEF k
  <2>1. \A e \in Doc, b \in Account : <<e, b>> \in DOMAIN members' => b \in DOMAIN accounts
    BY <1>2, <1>4 DEF KeysInv, Registry
  <2>2. \A b \in DOMAIN accounts, x \in Account : <<accounts[b].primary, x>> \in DOMAIN members' => x = b
    BY <1>2, <1>3 DEF KeysInv, Registry
  <2>3. \A i \in DOMAIN invites' : invites'[i].state = "open" => invites'[i].doc \notin Homes(homes)
    BY DEF FewerInvites, KeysInv, Registry
  <2>4. \A e \in docs' \cap Homes(homes) : \E b \in DOMAIN accounts : accounts[b].primary = e
    BY DEF KeysInv, Registry
  <2> QED
    BY <1>1, <2>1, <2>2, <2>3, <2>4 DEF KeysInv, Registry
<1>6. HomeUnlockable'
  <2> HIDE DEF k
  <2>1. ASSUME NEW b \in DOMAIN accounts, NEW home, home = accounts[b].primary
        PROVE  /\ IsOwner(home, b)'
               /\ members'[<<home, b>>].wrap = UnderPassword(accounts[b].password)
               /\ \A e \in docs' \ {home} : IsMember(e, b)' => members'[<<e, b>>].wrap = UnderHome(home)
    <3>1. IsOwner(home, b) /\ <<home, b>> \in DOMAIN members /\ <<home, b>> # k
          /\ members[<<home, b>>].wrap = UnderPassword(accounts[b].password)
      BY <1>3, <2>1 DEF KeysInv, HomeUnlockable, IsOwner, IsMember
    <3>2. IsOwner(home, b)' /\ members'[<<home, b>>].wrap = UnderPassword(accounts[b].password)
      BY <1>2, <3>1 DEF IsOwner, IsMember
    <3>3. ASSUME NEW e \in docs' \ {home}, IsMember(e, b)' PROVE members'[<<e, b>>].wrap = UnderHome(home)
      <4>1. CASE <<e, b>> = k
        BY <1>1, <1>2, <1>4, <2>1, <4>1
      <4>2. CASE <<e, b>> # k
        <5>1. IsMember(e, b) /\ members'[<<e, b>>] = members[<<e, b>>]
          BY <1>2, <3>3, <4>2 DEF IsMember
        <5>2. <<e, b>> \in docs \X Account
          BY <5>1 DEF IsMember, AccessInv, Tables, MemberRows
        <5>3. e \in docs \ {home}
          BY <3>3, <5>2
        <5> QED
          BY <2>1, <5>1, <5>3 DEF KeysInv, HomeUnlockable
      <4> QED
        BY <4>1, <4>2
    <3> QED
      BY <3>2, <3>3
  <2> QED
    BY <2>1 DEF HomeUnlockable
<1> QED
  BY <1>1, <1>5, <1>6

\* A document is created under the Home that the request names.
LEMMA CreateDocTurn ==
  ASSUME AccessInv, KeysInv, NEW c \in Client, Remembered, CreateDoc(c)
  PROVE  Turn(c)
<1> DEFINE q == calls[c]
<1>1. q.at = "run" /\ q.op = "createDoc" /\ RequestKeys(q, devices, homes)
  BY DEF CreateDoc, At, KeysInv, RequestsKeyed
<1>2. CASE Refuse(c, "Internal")
  BY <1>1, <1>2, RefusedTurn
<1>3. CASE ~Refuse(c, "Internal")
  <2>1. /\ q.account \in DOMAIN accounts /\ docs' = docs \cup {q.doc} /\ Answer(c, "ok")
        /\ members' = Put(members, <<q.doc, q.account>>, Member("owner", UnderHome(q.home)))
        /\ UNCHANGED <<accounts, devices, invites, resets>>
    BY <1>3 DEF CreateDoc
  <2>2. CallKeyed(c)
    BY <1>1, <2>1, DoneKeyed
  <2>3. q.doc \in Doc \ Homes(homes) /\ q.home = homes[q.account]
    BY <1>1 DEF RequestKeys, AccessInv, Requests, RequestOK
  <2>4. FewerInvites
    BY <2>1 DEF FewerInvites
  <2>5. Registry' /\ HomeUnlockable' /\ homes' = homes
    BY <2>1, <2>3, <2>4, JoinKeeps
  <2>6. HeldBy(q, q.doc)
    BY <1>1 DEF HeldBy
  <2> QED
    BY <2>1, <2>2, <2>5, <2>6, WriteTurn
<1> QED
  BY <1>2, <1>3

\* An invite is for a document there is, and a document is joined under the
\* Home that the request names.
LEMMA AcceptTurn ==
  ASSUME AccessInv, KeysInv, NEW c \in Client, Remembered, AcceptInvite(c)
  PROVE  Turn(c)
<1> DEFINE q == calls[c]
           d == invites[q.row].doc
           r == [q EXCEPT !.at = "answered", !.out = "ok", !.doc = d]
<1>1. q.at = "run" /\ q.op = "accept" /\ RequestKeys(q, devices, homes) /\ q.row \in DOMAIN invites
  BY DEF AcceptInvite, At, KeysInv, RequestsKeyed, AccessInv, Requests, RequestOK
<1>2. CASE Refuse(c, "Refused")
  BY <1>1, <1>2, RefusedTurn
<1>3. CASE ~Refuse(c, "Refused")
  <2>1. /\ q.account \in DOMAIN accounts /\ invites[q.row].state = "open"
        /\ members' = Put(members, <<d, q.account>>, Member("member", UnderHome(q.home)))
        /\ invites' = [invites EXCEPT ![q.row].state = "consumed"]
        /\ UNCHANGED <<accounts, docs, devices, resets>>
    BY <1>3 DEF AcceptInvite
  <2>2. calls' = [calls EXCEPT ![c] = r]
    BY <1>3, Fields DEF AcceptInvite, Idle
  <2>3. r.op = q.op /\ r.home = q.home /\ r.doc = d /\ r.list = q.list /\ r.at = "answered"
    BY Fields DEF Idle
  <2>4. calls'[c] = r /\ \A x \in Client : x # c => calls'[x] = calls[x]
    BY <2>2, Fields
  <2>5. d \in docs /\ d \in Doc
    <3>1. IsOwner(d, invites[q.row].by)
      BY <1>1, <2>1 DEF AccessInv, Tables, Invites
    <3>2. <<d, invites[q.row].by>> \in docs \X Account
      BY <3>1 DEF IsOwner, IsMember, AccessInv, Tables, MemberRows
    <3> QED
      BY <3>2 DEF AccessInv, Tables, MemberRows
  <2>6. d \notin Homes(homes)
    BY <1>1, <2>1 DEF KeysInv, Registry
  <2>7. FewerInvites
    BY <1>1, <2>1, InviteState DEF FewerInvites, AccessInv, Tables, RowState
  <2>8. q.home = homes[q.account] /\ docs' = docs \cup {d}
    BY <1>1, <2>1, <2>5 DEF RequestKeys
  <2> HIDE DEF r, d, q
  <2>9. Registry' /\ HomeUnlockable' /\ homes' = homes
    BY <2>1, <2>5, <2>6, <2>7, <2>8, JoinKeeps
  <2>10. RequestKeys(r, devices, homes)
    BY <1>1, <2>3, <2>6 DEF RequestKeys
  <2>11. GoesOn(q, r) /\ \A e \in Doc : HeldBy(r, e) => HeldBy(q, e) \/ e \in docs
    BY <1>1, <2>3, <2>5 DEF GoesOn, HeldBy
  <2>12. CallKeyed(c)
    BY <2>4, <2>10, <2>11 DEF CallKeyed, q
  <2> QED
    BY <2>1, <2>9, <2>12, WriteTurn
<1> QED
  BY <1>2, <1>3

\* An invite is issued for a document that is no Home.
LEMMA InviteTurn ==
  ASSUME AccessInv, KeysInv, NEW c \in Client, Remembered, CreateInvite(c)
  PROVE  Turn(c)
<1> DEFINE q == calls[c]
           i == [doc |-> q.doc, by |-> q.account, state |-> "open"]
<1>1. q.at # "answered" /\ q.op = "invite"
  BY DEF CreateInvite, At
<1>2. CASE Refuse(c, "Forbidden")
  BY <1>1, <1>2, RefusedTurn
<1>3. CASE ~Refuse(c, "Forbidden")
  <2>1. /\ OwnsShared(c) /\ invites' = Append(invites, i)
        /\ \E n : calls' = [calls EXCEPT ![c].at = "answered", ![c].out = "ok", ![c].row = n]
        /\ UNCHANGED <<accounts, docs, members, devices, resets>>
    BY <1>3 DEF CreateInvite
  <2>2. CallKeyed(c)
    BY <1>1, <2>1, DoneKeyed
  <2>3. q.doc \notin Homes(homes)
    BY <2>1, SharedIsNoHome
  <2>4. homes' = homes
    BY <2>1 DEF KeysInv, Registry, Remembered
  <2>5. \A n \in DOMAIN invites' : (n \in DOMAIN invites /\ invites'[n] = invites[n]) \/ invites'[n].doc = q.doc
    <3>1. invites \in Seq([doc : Doc, by : Account, state : RowState]) /\ i.doc = q.doc
      BY DEF AccessInv, Tables, Invites
    <3> HIDE DEF i
    <3> QED
      BY <2>1, <3>1
  <2>6. Registry' /\ HomeUnlockable'
    BY <2>1, <2>3, <2>4, <2>5 DEF KeysInv, Registry, HomeUnlockable, IsOwner, IsMember
  <2> QED
    BY <2>1, <2>2, <2>4, <2>6, WriteTurn
<1> QED
  BY <1>2, <1>3

\* A new account has the rows of its Home, and no other rows.
LEMMA SignupRows ==
  ASSUME AccessInv, KeysInv, NEW a \in Account, NEW d \in Doc, NEW p,
         a \notin DOMAIN homes, d \notin docs, docs' = docs \cup {d}, Remembered,
         accounts' = Put(accounts, a, [primary |-> d, password |-> p]),
         members' = Put(members, <<d, a>>, Member("owner", UnderPassword(p))),
         devices' = Append(devices, a), UNCHANGED <<invites, resets>>
  PROVE  /\ Registry' /\ HomeUnlockable' /\ Later({d})
         /\ a \in DOMAIN homes' /\ homes'[a] = d /\ d \in Homes(homes')
         /\ Len(devices) + 1 \in DOMAIN devices' /\ devices'[Len(devices) + 1] = a
<1> DEFINE k == <<d, a>>
           t == Len(devices) + 1
<1>1. /\ DOMAIN accounts' = DOMAIN accounts \cup {a} /\ a \notin DOMAIN accounts
      /\ accounts'[a].primary = d /\ accounts'[a].password = p
      /\ \A b \in DOMAIN accounts : accounts'[b] = accounts[b]
  BY DEF Put, KeysInv, Registry
<1>2. /\ DOMAIN members' = DOMAIN members \cup {k}
      /\ \A j \in DOMAIN members : j # k => members'[j] = members[j]
      /\ members'[k].wrap = UnderPassword(p) /\ members'[k].role = "owner" /\ ~members'[k].removed
  BY DEF Put, Member
<1>3. /\ homes' = [b \in DOMAIN homes \cup {a} |-> IF b = a THEN d ELSE homes[b]]
      /\ DOMAIN homes' = DOMAIN homes \cup {a} /\ homes'[a] = d
      /\ \A b \in DOMAIN homes : homes'[b] = homes[b]
  BY <1>1 DEF Remembered, KeysInv, Registry
<1>4. Homes(homes') = Homes(homes) \cup {d}
  BY <1>3 DEF Homes
<1>5. /\ DOMAIN devices' = DOMAIN devices \cup {t} /\ devices'[t] = a
      /\ \A u \in DOMAIN devices : devices'[u] = devices[u]
  <2>1. devices \in Seq(Account \cup {None}) /\ a \in Account \cup {None}
    BY DEF AccessInv, Tables, Credentials
  <2> QED
    BY <2>1
<1>6. \A j \in DOMAIN members : j \in docs \X Account /\ j # k
  BY DEF AccessInv, Tables, MemberRows
<1>7. ASSUME NEW b \in DOMAIN accounts PROVE accounts[b].primary \in docs
  <2>1. <<accounts[b].primary, b>> \in docs \X Account
    BY <1>6, HomeRow
  <2> QED
    BY <2>1
<1>8. ASSUME NEW e, NEW b, <<e, b>> = k PROVE e = d /\ b = a
  BY <1>8
<1> HIDE DEF k, t
<1>9. Registry'
  <2>1. /\ homes' = [b \in DOMAIN homes' |-> homes'[b]] /\ Homes(homes') \subseteq Doc
        /\ DOMAIN accounts' \subseteq DOMAIN homes'
        /\ \A b \in DOMAIN accounts' : homes'[b] = accounts'[b].primary
    <3>1. homes' = [b \in DOMAIN homes' |-> homes'[b]]
      BY <1>3
    <3>2. Homes(homes') \subseteq Doc
      BY <1>4 DEF KeysInv, Registry
    <3> QED
      BY <1>1, <1>3, <3>1, <3>2 DEF KeysInv, Registry
  <2>2. /\ \A u \in DOMAIN devices' : devices'[u] \in DOMAIN accounts' \cup {None}
        /\ \A n \in DOMAIN resets' : resets'[n].state = "open" => resets'[n].account \in DOMAIN accounts'
    BY <1>1, <1>5 DEF KeysInv, Registry
  <2>3. \A e \in Doc, b \in Account : <<e, b>> \in DOMAIN members' => b \in DOMAIN accounts'
    BY <1>1, <1>2, <1>8 DEF KeysInv, Registry
  <2>4. ASSUME NEW b \in DOMAIN accounts', NEW x \in Account, <<accounts'[b].primary, x>> \in DOMAIN members'
        PROVE  x = b
    <3>1. CASE b = a
      <4>1. <<d, x>> \notin DOMAIN members
        BY <1>6
      <4> QED
        BY <1>1, <1>2, <1>8, <2>4, <3>1, <4>1
    <3>2. CASE b # a
      BY <1>1, <1>2, <1>7, <1>8, <2>4, <3>2 DEF KeysInv, Registry
    <3> QED
      BY <3>1, <3>2
  <2>5. \A i \in DOMAIN invites' : invites'[i].state = "open" => invites'[i].doc \notin Homes(homes')
    <3>1. ASSUME NEW i \in DOMAIN invites, invites[i].state = "open" PROVE invites[i].doc \in docs
      <4>1. <<invites[i].doc, invites[i].by>> \in DOMAIN members
        BY <3>1 DEF AccessInv, Tables, Invites, IsOwner, IsMember
      <4> QED
        BY <1>6, <4>1
    <3> QED
      BY <1>4, <3>1 DEF KeysInv, Registry
  <2>6. \A e \in docs' \cap Homes(homes') : \E b \in DOMAIN accounts' : accounts'[b].primary = e
    <3>1. ASSUME NEW e \in docs' \cap Homes(homes') PROVE \E b \in DOMAIN accounts' : accounts'[b].primary = e
      <4>1. CASE e = d
        BY <1>1, <4>1
      <4>2. CASE e # d
        <5>1. PICK b \in DOMAIN accounts : accounts[b].primary = e
          BY <1>4, <4>2 DEF KeysInv, Registry
        <5> QED
          BY <1>1, <5>1
      <4> QED
        BY <4>1, <4>2
    <3> QED
      BY <3>1
  <2> QED
    BY <2>1, <2>2, <2>3, <2>4, <2>5, <2>6 DEF Registry
<1>10. HomeUnlockable'
  <2>1. ASSUME NEW b \in DOMAIN accounts', NEW home, home = accounts'[b].primary
        PROVE  /\ IsOwner(home, b)'
               /\ members'[<<home, b>>].wrap = UnderPassword(accounts'[b].password)
               /\ \A e \in docs' \ {home} : IsMember(e, b)' => members'[<<e, b>>].wrap = UnderHome(home)
    <3>1. CASE b = a
      <4>1. home = d /\ <<home, b>> = k
        BY <1>1, <2>1, <3>1 DEF k
      <4>2. ASSUME NEW e \in docs' \ {home}, IsMember(e, b)' PROVE FALSE
        <5>1. <<e, a>> \in DOMAIN members
          BY <1>2, <1>8, <3>1, <4>1, <4>2 DEF IsMember
        <5>2. e \in Doc /\ a \in Account
          BY <1>6, <5>1 DEF AccessInv, Tables, MemberRows
        <5> QED
          BY <1>1, <5>1, <5>2 DEF KeysInv, Registry
      <4> QED
        BY <1>1, <1>2, <3>1, <4>1, <4>2 DEF IsOwner, IsMember
    <3>2. CASE b # a
      <4>1. b \in DOMAIN accounts /\ accounts'[b] = accounts[b] /\ home \in docs /\ home # d
        BY <1>1, <1>7, <2>1, <3>2
      <4>2. ASSUME NEW e, IsMember(e, b)' PROVE IsMember(e, b) /\ members'[<<e, b>>] = members[<<e, b>>] /\ e \in docs
        BY <1>2, <1>6, <1>8, <3>2, <4>2 DEF IsMember
      <4>3. IsOwner(home, b) /\ <<home, b>> \in DOMAIN members
            /\ members[<<home, b>>].wrap = UnderPassword(accounts[b].password)
        BY <2>1, <4>1 DEF KeysInv, HomeUnlockable, IsOwner, IsMember
      <4>4. IsOwner(home, b)' /\ members'[<<home, b>>].wrap = UnderPassword(accounts'[b].password)
        BY <1>2, <1>6, <4>1, <4>3 DEF IsOwner, IsMember
      <4>5. \A e \in docs' \ {home} : IsMember(e, b)' => members'[<<e, b>>].wrap = UnderHome(home)
        BY <2>1, <4>1, <4>2 DEF KeysInv, HomeUnlockable
      <4> QED
        BY <4>4, <4>5
    <3> QED
      BY <3>1, <3>2
  <2> QED
    BY <2>1 DEF HomeUnlockable
<1>11. Later({d})
  BY <1>3, <1>4, <1>5 DEF Later
<1> QED
  BY <1>3, <1>4, <1>5, <1>9, <1>10, <1>11 DEF t

\* A signup keeps the invariant: the document it founds an account on was no
\* document of a token.
LEMMA SignupKeeps ==
  ASSUME AccessInv, HostInv, KeysInv, NEW c \in Client, Remembered, Signup(c),
         UNCHANGED <<secrets, row, host, cmd, born>>
  PROVE  KeysInv'
<1> DEFINE q == calls[c]
           a == q.account
           d == q.doc
           t == Len(devices) + 1
           r == [q EXCEPT !.at = "answered", !.out = "ok", !.token = t]
<1>1. q.at = "run" /\ q.op = "signup" /\ RequestKeys(q, devices, homes) /\ c = CmdClient
  BY DEF Signup, At, KeysInv, RequestsKeyed
<1>2. CASE \E out \in {"AccountExists", "DocExists"} : Refuse(c, out)
  BY <1>1, <1>2, RefusedTurn, TurnKeeps
<1>3. CASE ~\E out \in {"AccountExists", "DocExists"} : Refuse(c, out)
  <2>1. /\ d \notin docs /\ docs' = docs \cup {d}
        /\ accounts' = Put(accounts, a, [primary |-> d, password |-> q.password])
        /\ members' = Put(members, <<d, a>>, Member("owner", UnderPassword(q.password)))
        /\ devices' = Append(devices, a) /\ UNCHANGED <<invites, resets>>
    BY <1>3 DEF Signup
  <2>2. calls' = [calls EXCEPT ![c] = r]
    BY <1>3, Fields DEF Signup, Idle
  <2>3. /\ r.op = q.op /\ r.home = q.home /\ r.doc = d /\ r.list = q.list /\ r.at = "answered"
        /\ r.token = t /\ d = q.doc /\ a = q.account
    BY Fields DEF Idle
  <2>4. calls'[c] = r /\ \A x \in Client : x # c => calls'[x] = calls[x]
    BY <2>2, Fields
  <2>5. a \in Account /\ d \in Doc /\ a \notin DOMAIN homes
    BY <1>1 DEF AccessInv, Requests, RequestOK, RequestKeys
  <2>6. Local(d) /\ d \in born /\ (Held(d) => d \in Homes(homes))
    BY <1>1, <2>5 DEF Local, KeysInv, Apart, Chosen
  <2> HIDE DEF q, r, a, d
  <2>7. /\ Registry' /\ HomeUnlockable' /\ Later({d})
        /\ a \in DOMAIN homes' /\ homes'[a] = d /\ d \in Homes(homes')
        /\ t \in DOMAIN devices' /\ devices'[t] = a
    BY <2>1, <2>5, SignupRows
  <2> HIDE DEF t
  <2>8. RequestKeys(r, devices', homes')
    BY <1>1, <2>3, <2>7 DEF RequestKeys, TokenHome
  <2>9. GoesOn(q, r) /\ \A e \in Doc : HeldBy(r, e) => HeldBy(q, e)
    BY <1>1, <2>3 DEF GoesOn, HeldBy
  <2>10. RequestsKeyed'
    <3>1. ASSUME NEW x \in Client, x # c PROVE RequestKeys(calls[x], devices', homes')
      <4>1. RequestKeys(calls[x], devices, homes) /\ calls[x].op # "signup"
        BY <1>1, <3>1 DEF KeysInv, RequestsKeyed
      <4>2. \A e \in {d} : HeldBy(calls[x], e) => e \in Homes(homes)
        BY <2>6 DEF Held
      <4> QED
        BY <2>7, <4>1, <4>2, RequestLater DEF KeysInv
    <3> QED
      BY <1>1, <2>3, <2>4, <2>8, <3>1 DEF KeysInv, RequestsKeyed, q
  <2>11. ProfileKeyed' /\ HostKeyed' /\ CmdKeyed'
    <3>1. GoesOn(calls[CmdClient], calls'[CmdClient]) /\ calls'[HostClient].op = calls[HostClient].op
      BY <1>1, <2>4, <2>9, ClientsAssumption DEF GoesOn, q
    <3>2. \A e \in {d} : Held(e) => e \in Homes(homes)
      BY <2>6
    <3> QED
      BY <2>7, <3>1, <3>2, LocalLater DEF KeysInv
  <2>12. /\ \A e \in Doc : Local(e)' => Local(e)
         /\ \A e \in Doc : Held(e)' => Held(e)
    <3>1. \A x \in Client : \A e \in Doc : HeldBy(calls'[x], e) => HeldBy(calls[x], e)
      BY <2>4, <2>9 DEF q
    <3> QED
      BY <1>1, <2>3, <2>4, <3>1 DEF Local, Held, q
  <2>13. Homes(homes) \subseteq Homes(homes') /\ Homes(homes') \subseteq Homes(homes) \cup {d}
    BY <2>7, HomesStay DEF Later
  <2>14. Apart' /\ Chosen'
    <3>1. Apart'
      BY <2>1, <2>7, <2>12, <2>13 DEF KeysInv, Apart
    <3>2. Chosen'
      BY <2>1, <2>6, <2>12, <2>13 DEF KeysInv, Chosen
    <3> QED
      BY <3>1, <3>2
  <2> QED
    BY <2>7, <2>10, <2>11, <2>14 DEF KeysInv
<1> QED
  BY <1>2, <1>3

\* Time passes, and sessions are closed.
LEMMA AsideTurn ==
  ASSUME AccessInv, KeysInv, Remembered, NEW c \in Client, Expire \/ CloseNext(c)
  PROVE  Turn(c)
<1>1. CASE Expire
  <2>1. /\ UNCHANGED <<accounts, docs, members, devices, calls>>
        /\ \/ \E i \in DOMAIN invites : invites' = [invites EXCEPT ![i].state = "expired"] /\ UNCHANGED resets
           \/ \E n \in DOMAIN resets : resets' = [resets EXCEPT ![n].state = "expired"] /\ UNCHANGED invites
    BY <1>1 DEF Expire
  <2>2. FewerInvites
    BY <2>1, InviteState DEF FewerInvites, AccessInv, Tables, RowState
  <2>3. \A n \in DOMAIN resets' : resets'[n].state = "open" => resets'[n].account \in DOMAIN accounts'
    BY <2>1, ResetRows DEF KeysInv, Registry
  <2>4. \A b \in DOMAIN accounts' : IsMember(accounts[b].primary, b)'
    BY <2>1, HomeRow DEF IsMember
  <2>5. Fewer
    BY <2>1, <2>2, <2>3, <2>4 DEF Fewer, KeysInv, Registry
  <2>6. CallKeyed(c)
    BY <2>1 DEF CallKeyed, GoesOn, KeysInv, RequestsKeyed
  <2> QED
    BY <2>5, <2>6, FewerTurn
<1>2. CASE CloseNext(c)
  <2>1. PICK x \in calls[c].close :
          calls' = [calls EXCEPT ![c].close = @ \ {x},
                                 ![c].at = IF calls[c].close = {x} THEN "answered" ELSE "close"]
    BY <1>2 DEF CloseNext
  <2>2. \E close, at : /\ calls' = [calls EXCEPT ![c].close = close, ![c].at = at]
                       /\ at \in {"answered", "close"}
    BY <2>1
  <2>3. calls[c].at = "close" /\ calls[c].op \notin {"signup", "reset"} /\ UNCHANGED tables
    BY <1>2 DEF CloseNext, AccessInv, Requests, RequestOK
  <2>4. CallKeyed(c)
    BY <2>2, <2>3, DoneKeyed
  <2>5. homes' = homes /\ UNCHANGED <<accounts, docs, members, devices, invites, resets>>
    BY <2>3, NoneNew DEF KeysInv
  <2>6. Registry' /\ HomeUnlockable'
    BY <2>5 DEF KeysInv, Registry, HomeUnlockable, IsOwner, IsMember
  <2> QED
    BY <2>4, <2>5, <2>6, WriteTurn
<1> QED
  BY <1>1, <1>2

\* Whatever the server does.
LEMMA ServerKeyed ==
  ASSUME AccessInv, HostInv, KeysInv, ServerStep, Remembered
  PROVE  KeysInv'
<1>1. UNCHANGED <<secrets, row, host, cmd, born>>
  BY DEF ServerStep, localVars
<1>2. ASSUME NEW c \in Client, Route(c) PROVE KeysInv'
  <2>1. CASE Signup(c)
    BY <1>1, <2>1, SignupKeeps
  <2>2. CASE ~Signup(c)
    <3>1. Turn(c)
      BY <1>2, <2>2, VerifyTurn, DeviceTurn, ListTurn, RecoverTurn, PasswordTurn, RevokeTurn,
         DeleteAccountTurn, CreateDocTurn, DeleteDocTurn, InviteTurn, AcceptTurn, RemoveTurn
         DEF Route
    <3> QED
      BY <1>1, <3>1, TurnKeeps
  <2> QED
    BY <2>1, <2>2
<1>3. ASSUME NEW c \in Client, Expire \/ CloseNext(c) PROVE KeysInv'
  BY <1>1, <1>3, AsideTurn, TurnKeeps
<1> QED
  BY <1>2, <1>3, ClientsAssumption DEF ServerStep

-----------------------------------------------------------------------------
(* Clients *)

\* A step that leaves the tables alone; L and H are the ids it chooses, for a
\* local workspace and for a document of an account.
LEMMA StepKeyed ==
  ASSUME KeysInv, UNCHANGED tables, Remembered,
         RequestsKeyed', ProfileKeyed', HostKeyed', CmdKeyed', NEW L, NEW H,
         L \cap H = {}, (L \cup H) \cap born = {}, born \cup L \cup H \subseteq born',
         \A d \in Doc : Local(d)' => Local(d) \/ d \in L,
         \A d \in Doc : Held(d)' => Held(d) \/ d \in H \cup Homes(homes)
  PROVE  KeysInv'
<1>1. homes' = homes /\ UNCHANGED <<accounts, docs, members, devices, invites, resets>>
  BY NoneNew DEF KeysInv
<1>2. Registry' /\ HomeUnlockable'
  BY <1>1 DEF KeysInv, Registry, HomeUnlockable, IsOwner, IsMember
<1>3. Apart'
  BY <1>1 DEF KeysInv, Apart, Chosen
<1>4. Chosen'
  BY <1>1 DEF KeysInv, Chosen
<1> QED
  BY <1>2, <1>3, <1>4 DEF KeysInv

\* When it chooses none.
LEMMA QuietKeyed ==
  ASSUME KeysInv, UNCHANGED tables, Remembered, UNCHANGED born,
         RequestsKeyed', ProfileKeyed', HostKeyed', CmdKeyed',
         \A d \in Doc : Local(d)' => Local(d),
         \A d \in Doc : Held(d)' => Held(d) \/ d \in Homes(homes)
  PROVE  KeysInv'
<1> DEFINE L == {}
           H == {}
<1>1. L \cap H = {} /\ (L \cup H) \cap born = {} /\ born \cup L \cup H \subseteq born'
  OBVIOUS
<1>2. \A d \in Doc : Local(d)' => Local(d) \/ d \in L
  OBVIOUS
<1>3. \A d \in Doc : Held(d)' => Held(d) \/ d \in H \cup Homes(homes)
  OBVIOUS
<1> HIDE DEF L, H
<1> QED
  BY <1>1, <1>2, <1>3, StepKeyed

\* A client asks, or forgets what it asked.
LEMMA AskedKeyed ==
  ASSUME AccessInv, RequestsKeyed, NEW c \in Client, NEW q, calls' = [calls EXCEPT ![c] = q],
         RequestKeys(q, devices, homes), q.op = "signup" => c = CmdClient,
         UNCHANGED devices, homes' = homes
  PROVE  RequestsKeyed' /\ calls'[c] = q /\ \A x \in Client : x # c => calls'[x] = calls[x]
<1>1. calls'[c] = q /\ \A x \in Client : x # c => calls'[x] = calls[x]
  BY Fields
<1> QED
  BY <1>1 DEF RequestsKeyed

\* The same, by one whom the installation does not wait for, or who goes on.
LEMMA ClientKeyed ==
  ASSUME AccessInv, HostInv, KeysInv, NEW c \in Client, NEW q, calls' = [calls EXCEPT ![c] = q],
         RequestKeys(q, devices, homes), UNCHANGED tables, Remembered, UNCHANGED <<secrets, row, host, cmd>>,
         q.op = "signup" => calls[c].op = "signup" /\ calls[c].doc = q.doc,
         c = CmdClient /\ cmd.at = "http" => GoesOn(calls[c], q),
         c = HostClient /\ host.todo = "create" => q.op = calls[c].op,
         NEW H, H \cap born = {}, born \cup H \subseteq born',
         \A d \in Doc : HeldBy(q, d) => HeldBy(calls[c], d) \/ d \in H
  PROVE  KeysInv'
<1>1. homes' = homes /\ UNCHANGED devices /\ Later({})
  BY NoneNew DEF KeysInv
<1>2. q.op = "signup" => c = CmdClient
  BY DEF KeysInv, RequestsKeyed
<1>3. RequestsKeyed' /\ calls'[c] = q /\ \A x \in Client : x # c => calls'[x] = calls[x]
  BY <1>1, <1>2, AskedKeyed DEF KeysInv
<1>4. ProfileKeyed'
  BY <1>1 DEF KeysInv, ProfileKeyed
<1>5. HostKeyed'
  BY <1>1, <1>3, ClientsAssumption DEF KeysInv, HostKeyed
<1>6. CmdKeyed'
  <2>1. cmd.at = "http" => GoesOn(calls[CmdClient], calls'[CmdClient])
    BY <1>3, ClientsAssumption DEF GoesOn
  <2>2. cmd.at = "http" /\ cmd.op = "signup" => calls[CmdClient].op = "signup"
    BY DEF HostInv, Waiting
  <2>3. AcceptKeyed' /\ JoinKeyed' /\ InitKeyed'
    BY <1>1, <2>1 DEF KeysInv, CmdKeyed, AcceptKeyed, JoinKeyed, InitKeyed, GoesOn
  <2>4. AskKeyed'
    BY <1>1, <2>1, <2>2 DEF KeysInv, CmdKeyed, AskKeyed, GoesOn
  <2> QED
    BY <2>3, <2>4 DEF CmdKeyed
<1>7. \A d \in Doc : Local(d)' => Local(d)
  BY <1>2, <1>3, ClientsAssumption DEF Local
<1>8. \A d \in Doc : Held(d)' => Held(d) \/ d \in H
  <2>1. \A x \in Client : \A d \in Doc : HeldBy(calls'[x], d) => HeldBy(calls[x], d) \/ d \in H
    BY <1>3
  <2> QED
    BY <2>1 DEF Held
<1> QED
  BY <1>3, <1>4, <1>5, <1>6, <1>7, <1>8, StepKeyed

\* What other clients ask names the Home of their account, if any.
LEMMA AsksKeyed ==
  ASSUME AccessInv, KeysInv, NEW q \in Asks
  PROVE  /\ RequestKeys(q, devices, homes) /\ q.op # "signup"
         /\ \A d \in Doc : ~HeldBy(q, d)
         /\ q.op \in {"password", "reset"} => q.new \in Password
<1> DEFINE ok(r) == /\ RequestKeys(r, devices, homes) /\ r.op # "signup"
                    /\ \A d \in Doc : ~HeldBy(r, d)
                    /\ r.op \in {"password", "reset"} => r.new \in Password
           login(a, p) == [Request("login", "run") EXCEPT !.account = a, !.password = p]
           password(t, p) ==
             [Authed("password", t) EXCEPT !.password = 1, !.new = p, !.home = HomeOf(t)]
           recover(a) == [Request("recover", "run") EXCEPT !.account = a]
           reset(r, d) == [Request("reset", "run") EXCEPT !.row = r, !.new = 2, !.home = d]
           delete(t, d) == [Authed("deleteDoc", t) EXCEPT !.doc = d]
           invite(t, d) == [Authed("invite", t) EXCEPT !.doc = d]
           accept(t, i) == [Authed("accept", t) EXCEPT !.row = i, !.home = HomeOf(t)]
           withdraw(t, i) == [Authed("revokeInvite", t) EXCEPT !.row = i]
           remove(t, d, a) == [Authed("removeMember", t) EXCEPT !.doc = d, !.target = a]
           revoke(t, r) == [Authed("revoke", t) EXCEPT !.row = r]
           leave(t) == [Authed("deleteAccount", t) EXCEPT !.password = 1]
<1>1. 0 \notin Doc /\ 0 \notin Homes(homes)
  BY NamesAssumption DEF KeysInv, Registry
<1>2. ASSUME NEW t \in Tokens PROVE TokenHome(t, HomeOf(t), devices, homes)
  BY DEF Tokens, DeviceAccount, HomeOf, TokenHome, KeysInv, Registry
<1>3. /\ \A a, p : ok(login(a, p))
      /\ \A t : \A p \in Password : ok(password(t, p))
      /\ \A a : ok(recover(a))
      /\ \A r, d : ok(reset(r, d))
      /\ \A t : ok(Authed("docs", t))
  BY <1>1, StartsAssumption DEF Request, Idle, Authed, RequestKeys, HeldBy
<1>4. /\ \A t, d : ok(delete(t, d))
      /\ \A t, d : ok(invite(t, d))
      /\ \A t, i : ok(withdraw(t, i))
  BY <1>1 DEF Request, Idle, Authed, RequestKeys, HeldBy
<1>5. \A t \in Tokens : \A i : ok(accept(t, i))
  BY <1>1, <1>2 DEF Request, Idle, Authed, RequestKeys, HeldBy
<1>6. /\ \A t, d, a : ok(remove(t, d, a))
      /\ \A t, r : ok(revoke(t, r))
      /\ \A t : ok(leave(t))
  BY <1>1 DEF Request, Idle, Authed, RequestKeys, HeldBy
<1>7. PasswordAsks = {login(a, p) : a \in DOMAIN accounts, p \in Password}
                     \cup {password(t, p) : t \in Tokens, p \in Password \ {1}}
  BY DEF PasswordAsks
<1>8. RecoverAsks = {recover(a) : a \in DOMAIN accounts}
                    \cup {reset(r, d) : r \in DOMAIN resets, d \in docs}
  BY DEF RecoverAsks
<1>9. DocAsks = {Authed("docs", t) : t \in Tokens} \cup {delete(t, d) : t \in Tokens, d \in docs}
  BY DEF DocAsks
<1>10. InviteAsks = {invite(t, d) : t \in Tokens, d \in docs}
                    \cup {accept(t, i) : t \in Tokens, i \in DOMAIN invites}
                    \cup {withdraw(t, i) : t \in Tokens, i \in DOMAIN invites}
  BY DEF InviteAsks
<1>11. RemoveAsks = {remove(t, d, a) : t \in Tokens, d \in docs, a \in DOMAIN accounts}
  BY DEF RemoveAsks
<1>12. Asks = UNION {Of("password", PasswordAsks), Of("recover", RecoverAsks), Of("docs", DocAsks),
                     Of("invite", InviteAsks), Of("remove", RemoveAsks),
                     Of("device", {revoke(t, r) : t \in Tokens, r \in Tokens}),
                     Of("deleteAccount", {leave(t) : t \in Tokens})}
  BY DEF Asks
<1> HIDE DEF ok, login, password, recover, reset, delete, invite, accept, withdraw, remove, revoke,
             leave
<1>13. \A r \in PasswordAsks \cup RecoverAsks \cup DocAsks : ok(r)
  BY <1>3, <1>4, <1>7, <1>8, <1>9
<1>14. \A r \in InviteAsks \cup RemoveAsks : ok(r)
  BY <1>4, <1>5, <1>6, <1>10, <1>11
<1>15. ok(q)
  BY <1>6, <1>12, <1>13, <1>14 DEF Of
<1> QED
  BY <1>15 DEF ok

\* A request that is no request.
LEMMA IdleKeyed ==
  ASSUME KeysInv
  PROVE  RequestKeys(Idle, devices, homes) /\ Idle.op # "signup" /\ \A d \in Doc : ~HeldBy(Idle, d)
BY DEF RequestKeys, Idle, HeldBy, None

\* The steps of other clients.
LEMMA PeerKeyed ==
  ASSUME AccessInv, HostInv, KeysInv, PeerStep, Remembered
  PROVE  KeysInv'
<1>1. UNCHANGED tables /\ UNCHANGED <<secrets, row, host, cmd>>
  BY DEF PeerStep, localVars
<1>2. ASSUME NEW c \in Peers, PeerSend(c) PROVE KeysInv'
  <2>1. PICK q \in Asks : calls' = [calls EXCEPT ![c] = q]
    BY <1>2 DEF PeerSend, Send
  <2>2. c \in Client /\ c # CmdClient /\ c # HostClient /\ born' = born
    BY <1>2 DEF Peers, PeerSend
  <2>3. RequestKeys(q, devices, homes) /\ q.op # "signup" /\ \A d \in Doc : ~HeldBy(q, d)
    BY AsksKeyed
  <2> DEFINE H == {}
  <2>4. H \cap born = {} /\ born \cup H \subseteq born'
    BY <2>2
  <2>5. \A d \in Doc : HeldBy(q, d) => HeldBy(calls[c], d) \/ d \in H
    BY <2>3
  <2> HIDE DEF H
  <2> QED
    BY <1>1, <2>1, <2>2, <2>3, <2>4, <2>5, ClientKeyed
<1>3. ASSUME NEW c \in Peers, NEW d \in Doc, PeerCreateDoc(c, d) PROVE KeysInv'
  <2>1. PICK t \in Tokens :
          calls' = [calls EXCEPT ![c] = [Authed("createDoc", t) EXCEPT !.doc = d, !.home = HomeOf(t)]]
    BY <1>3 DEF PeerCreateDoc, Send
  <2> DEFINE q == [Authed("createDoc", t) EXCEPT !.doc = d, !.home = HomeOf(t)]
             H == {d}
  <2>2. c \in Client /\ c # CmdClient /\ c # HostClient
    BY DEF Peers
  <2>3. H \cap born = {} /\ born \cup H \subseteq born' /\ d \notin Homes(homes)
    BY <1>3 DEF PeerCreateDoc, NewDoc, KeysInv, Chosen
  <2>4. TokenHome(t, HomeOf(t), devices, homes)
    BY DEF Tokens, DeviceAccount, HomeOf, TokenHome, KeysInv, Registry
  <2>5. RequestKeys(q, devices, homes) /\ q.op # "signup"
    BY <2>3, <2>4 DEF Authed, Request, Idle, RequestKeys
  <2>6. \A e \in Doc : HeldBy(q, e) => HeldBy(calls[c], e) \/ e \in H
    BY DEF Authed, Request, Idle, HeldBy
  <2>7. calls' = [calls EXCEPT ![c] = q]
    BY <2>1
  <2> HIDE DEF H, q
  <2> QED
    BY <1>1, <2>2, <2>3, <2>5, <2>6, <2>7, ClientKeyed
<1>4. ASSUME NEW c \in Client, DropReply(c), UNCHANGED born PROVE KeysInv'
  <2>1. /\ calls' = [calls EXCEPT ![c] = Idle] /\ (c = CmdClient => cmd.at # "http")
        /\ (c = HostClient => host.todo # "create")
    BY <1>4 DEF DropReply, Peers, CmdClient, HostClient
  <2> DEFINE H == {}
  <2>2. H \cap born = {} /\ born \cup H \subseteq born'
    BY <1>4
  <2>3. \A d \in Doc : HeldBy(Idle, d) => HeldBy(calls[c], d) \/ d \in H
    BY IdleKeyed
  <2> HIDE DEF H
  <2> QED
    BY <1>1, <2>1, <2>2, <2>3, IdleKeyed, ClientKeyed
<1>5. ASSUME NEW c \in Client, LoseReply(c), UNCHANGED born PROVE KeysInv'
  <2> DEFINE q == calls[c]
             r == [q EXCEPT !.out = "lost"]
             H == {}
  <2>1. calls' = [calls EXCEPT ![c] = r]
    BY <1>5, Fields DEF LoseReply, Idle
  <2>2. /\ r.op = q.op /\ r.at = q.at /\ r.home = q.home /\ r.doc = q.doc /\ r.list = q.list
        /\ r.token = q.token /\ r.account = q.account /\ r.out = "lost"
        /\ RequestKeys(q, devices, homes)
    BY Fields DEF Idle, KeysInv, RequestsKeyed
  <2>3. H \cap born = {} /\ born \cup H \subseteq born'
    BY <1>5
  <2> HIDE DEF r, q, H
  <2>4. RequestKeys(r, devices, homes) /\ GoesOn(q, r)
    BY <2>2 DEF RequestKeys, GoesOn
  <2>5. \A d \in Doc : HeldBy(r, d) => HeldBy(q, d)
    BY <2>2 DEF HeldBy
  <2> QED
    BY <1>1, <2>1, <2>2, <2>3, <2>4, <2>5, ClientKeyed DEF q
<1> QED
  BY <1>2, <1>3, <1>4, <1>5 DEF PeerStep

-----------------------------------------------------------------------------
(* The host *)

\* A host that serves goes on with the token and the Home it has, and begins
\* no creation.
HostGoesOn ==
  host'.state = "serving" =>
    /\ host.state = "serving"
    /\ host'.token = host.token
    /\ host'.primary = host.primary
    /\ host'.todo = "create" => host.todo = "create" /\ host'.held = host.held

\* Its handlers write no key but those that go with the profile's token, and
\* nothing while a command writes.
LEMMA HostGoesKeyed ==
  ASSUME AccessInv, KeysInv, UNCHANGED tables, Remembered, UNCHANGED <<row, cmd, born>>, HostGoesOn,
         \/ UNCHANGED calls
         \/ calls' = [calls EXCEPT ![HostClient] = Idle] /\ host'.todo # "create",
         secrets'.token = secrets.token, cmd.at \in Writing => secrets' = secrets,
         secrets.token = 0 => secrets'.keys \subseteq secrets.keys,
         secrets.token # 0 => /\ KeysOf(secrets.token, secrets'.keys, devices, homes)
                              /\ \A d \in Doc : d \in secrets'.keys => Held(d)
  PROVE  KeysInv'
<1>1. homes' = homes /\ UNCHANGED devices
  BY NoneNew DEF KeysInv
<1>2. /\ calls'[CmdClient] = calls[CmdClient]
      /\ host'.todo = "create" => calls'[HostClient] = calls[HostClient]
      /\ \A x \in Client : calls'[x] \in {calls[x], Idle}
  BY Fields, ClientsAssumption DEF CmdClient, HostClient
<1>3. RequestsKeyed'
  BY <1>1, <1>2, IdleKeyed DEF KeysInv, RequestsKeyed
<1>4. ProfileKeyed'
  BY <1>1 DEF KeysInv, ProfileKeyed
<1>5. HostKeyed'
  BY <1>1, <1>2 DEF KeysInv, HostKeyed, HostGoesOn
<1>6. CmdKeyed'
  <2>1. AcceptKeyed' /\ JoinKeyed' /\ InitKeyed'
    BY <1>1, <1>2 DEF KeysInv, CmdKeyed, AcceptKeyed, JoinKeyed, InitKeyed, Writing
  <2>2. AskKeyed'
    BY <1>1, <1>2 DEF KeysInv, CmdKeyed, AskKeyed
  <2> QED
    BY <2>1, <2>2 DEF CmdKeyed
<1>7. \A d \in Doc : Local(d)' => Local(d)
  BY <1>2 DEF Local
<1>8. \A d \in Doc : Held(d)' => Held(d)
  <2>1. \A x \in Client : \A d \in Doc : HeldBy(calls'[x], d) => HeldBy(calls[x], d)
    BY <1>2, IdleKeyed
  <2>2. ASSUME NEW d \in Doc, Held(d)' PROVE Held(d)
    <3>1. CASE secrets'.token # 0 /\ d \in secrets'.keys
      BY <3>1
    <3>2. CASE host'.state = "serving" /\ host'.todo = "create" /\ d \in host'.held
      BY <3>2 DEF HostGoesOn, Held
    <3> QED
      BY <2>1, <2>2, <3>1, <3>2 DEF Held
  <2> QED
    BY <2>2
<1> QED
  BY <1>3, <1>4, <1>5, <1>6, <1>7, <1>8, QuietKeyed

\* When it writes no key at all.
LEMMA HostStaysKeyed ==
  ASSUME AccessInv, KeysInv, UNCHANGED tables, Remembered, UNCHANGED <<secrets, row, cmd, born>>,
         HostGoesOn,
         \/ UNCHANGED calls
         \/ calls' = [calls EXCEPT ![HostClient] = Idle] /\ host'.todo # "create"
  PROVE  KeysInv'
<1>1. secrets.token # 0 => /\ KeysOf(secrets.token, secrets'.keys, devices, homes)
                           /\ \A d \in Doc : d \in secrets'.keys => Held(d)
  BY DEF KeysInv, ProfileKeyed, Held
<1> QED
  BY <1>1, HostGoesKeyed

\* A key is forgotten.
LEMMA ForgetKeyed ==
  ASSUME AccessInv, HostInv, KeysInv, UNCHANGED tables, Remembered, UNCHANGED <<cmd, born>>,
         HostGoesOn, host.state = "serving",
         \/ UNCHANGED calls
         \/ calls' = [calls EXCEPT ![HostClient] = Idle] /\ host'.todo # "create",
         NEW d, ForgetDoc(d)
  PROVE  KeysInv'
<1>1. secrets'.token = secrets.token /\ secrets'.keys \subseteq secrets.keys /\ UNCHANGED row
  BY DEF ForgetDoc, HostInv, Shapes, NoFile
<1>2. cmd.at \notin Writing
  BY NoneWriting DEF HostInv
<1>3. secrets.token # 0 => /\ KeysOf(secrets.token, secrets'.keys, devices, homes)
                           /\ \A e \in Doc : e \in secrets'.keys => Held(e)
  BY <1>1 DEF KeysInv, ProfileKeyed, KeysOf, Held
<1> QED
  BY <1>1, <1>2, <1>3, HostGoesKeyed

\* Steps of a host, its sessions and its mirrors that touch no file but copies
\* of documents.
LEMMA QuietHostKeyed ==
  ASSUME AccessInv, HostInv, KeysInv, Remembered, UNCHANGED tables, UNCHANGED <<born, cmd>>,
         SessionStep \/ EditStep \/ MirrorStep
  PROVE  KeysInv'
<1>1. DOMAIN host = DOMAIN Off
  BY DEF HostInv, Shapes
<1>2. CASE SessionStep
  <2>1. host' = host \/ \E d : host' = [host EXCEPT !.asking = @ \ {d}]
    BY <1>2 DEF SessionStep
  <2>2. HostGoesOn /\ UNCHANGED <<calls, secrets, row>>
    BY <1>1, <1>2, <2>1 DEF SessionStep, HostGoesOn, Off
  <2> QED
    BY <2>2, HostStaysKeyed
<1>3. CASE EditStep
  <2>1. \/ \E d, ops : host' = [host EXCEPT !.mem[d] = ops, !.todo = "pump"]
        \/ host' = host
    BY <1>3 DEF EditStep, DocCommand, MirrorEdit
  <2>2. HostGoesOn
    BY <1>1, <2>1 DEF HostGoesOn, Off
  <2>3. UNCHANGED <<calls, secrets, row>>
    BY <1>3 DEF EditStep, DocCommand, MirrorEdit, profileVars
  <2> QED
    BY <2>2, <2>3, HostStaysKeyed
<1>4. CASE MirrorStep
  <2>1. PICK s \in Sub : (\E d \in Doc : Subscribe(s, d)) \/ Import(s) \/ MirrorUpdate(s) \/ Unsubscribe(s)
    BY <1>4 DEF MirrorStep
  <2>2. \/ \E d, ops : host' = [host EXCEPT !.mem[d] = ops, !.todo = "pump"]
        \/ host' = host
    BY <2>1 DEF Subscribe, Import, MirrorUpdate, Unsubscribe
  <2>3. HostGoesOn
    BY <1>1, <2>2 DEF HostGoesOn, Off
  <2>4. UNCHANGED <<calls, secrets, row>>
    BY <1>4, <2>1 DEF MirrorStep, Subscribe, Import, MirrorUpdate, Unsubscribe, profileVars
  <2> QED
    BY <2>3, <2>4, HostStaysKeyed
<1> QED
  BY <1>2, <1>3, <1>4

\* A host boots with the token and the Home of the profile; that Home's key is
\* there makes the two go together.
LEMMA LifeKeyed ==
  ASSUME AccessInv, HostInv, KeysInv, Remembered, UNCHANGED tables, UNCHANGED <<born, cmd>>, LifeStep
  PROVE  KeysInv'
<1>1. UNCHANGED <<calls, secrets, row>>
  BY DEF LifeStep, SpawnDaemon, StartApp, StartHost, BootHost, StopHost, profileVars
<1>2. CASE ~(BootHost /\ HomeKey)
  <2>1. host' = Off \/ \E who : host' = [Off EXCEPT !.state = "locked", !.who = who]
    BY <1>2 DEF LifeStep, SpawnDaemon, StartApp, StartHost, BootHost, StopHost
  <2>2. host'.state \in {"off", "locked"}
    <3>1. CASE host' = Off
      BY <3>1 DEF Off
    <3>2. ASSUME NEW who, host' = [Off EXCEPT !.state = "locked", !.who = who]
          PROVE  host'.state = "locked"
      BY <3>2 DEF Off
    <3> QED
      BY <2>1, <3>1, <3>2
  <2>3. HostGoesOn
    BY <2>2 DEF HostGoesOn
  <2> QED
    BY <1>1, <2>3, HostStaysKeyed
<1>3. CASE BootHost /\ HomeKey
  <2>1. host'.token = secrets.token /\ host'.primary = row.primary /\ host'.todo # "create"
    BY <1>3 DEF BootHost, Off, None
  <2>2. secrets.token # 0 => TokenHome(secrets.token, row.primary, devices, homes)
    BY <1>3 DEF KeysInv, ProfileKeyed, KeysOf, TokenHome, HomeKey
  <2>3. homes' = homes /\ UNCHANGED devices
    BY NoneNew DEF KeysInv
  <2>4. HostKeyed'
    BY <1>1, <2>1, <2>2, <2>3 DEF HostKeyed
  <2>5. RequestsKeyed' /\ ProfileKeyed' /\ CmdKeyed'
    BY <1>1, <2>3 DEF KeysInv, RequestsKeyed, ProfileKeyed, CmdKeyed, AcceptKeyed, JoinKeyed, InitKeyed, AskKeyed
  <2>6. /\ \A d \in Doc : Local(d)' => Local(d)
        /\ \A d \in Doc : Held(d)' => Held(d)
    BY <1>1, <2>1 DEF Local, Held
  <2> QED
    BY <2>4, <2>5, <2>6, QuietKeyed
<1> QED
  BY <1>2, <1>3

\* The loop's other sources.
LEMMA NetworkKeyed ==
  ASSUME AccessInv, HostInv, KeysInv, Remembered, UNCHANGED tables, UNCHANGED <<born, cmd>>, NetworkStep
  PROVE  KeysInv'
<1>1. DOMAIN host = DOMAIN Off /\ DOMAIN secrets = DOMAIN NoFile
  BY DEF HostInv, Shapes
<1>2. CASE UNCHANGED calls /\ (Pump \/ HostDisconnect \/ HostConnect)
  <2>1. HostGoesOn
    BY <1>1, <1>2 DEF Pump, HostDisconnect, HostConnect, Disconnected, HostGoesOn, Off, None
  <2>2. UNCHANGED <<secrets, row>>
    BY <1>2 DEF Pump, HostDisconnect, HostConnect, profileVars
  <2> QED
    BY <1>2, <2>1, <2>2, HostStaysKeyed
<1>3. ASSUME NEW d, UNCHANGED calls, Merged(d) PROVE KeysInv'
  <2>1. PICK ops : host' = [host EXCEPT !.mem[d] = ops, !.engine[d] = "idle", !.todo = "pump"]
    BY <1>3 DEF Merged
  <2>2. HostGoesOn /\ UNCHANGED <<secrets, row>>
    BY <1>1, <1>3, <2>1 DEF Merged, HostGoesOn, Off
  <2> QED
    BY <1>3, <2>2, HostStaysKeyed
<1>4. CASE UNCHANGED calls /\ HostFrame
  <2> DEFINE d == Head(conns[HostConn].wire).doc
  <2>1. CASE host' \in {host, Disconnected(host)} /\ UNCHANGED profileVars
    <3>1. HostGoesOn /\ UNCHANGED <<secrets, row>>
      BY <1>1, <2>1 DEF HostGoesOn, Disconnected, Off, profileVars
    <3> QED
      BY <1>4, <3>1, HostStaysKeyed
  <2>2. CASE Merged(d)
    BY <1>3, <1>4, <2>2
  <2>3. CASE host' = Forgotten(host, d) /\ ForgetDoc(d)
    <3> HIDE DEF d
    <3>1. HostGoesOn
      BY <1>1, <2>3 DEF HostGoesOn, Forgotten, Off
    <3>2. host.state = "serving"
      BY <1>4 DEF HostFrame, Serving
    <3> QED
      BY <1>4, <2>3, <3>1, <3>2, ForgetKeyed
  <2> QED
    BY <1>4, <2>1, <2>2, <2>3 DEF HostFrame
<1>5. CASE HostReply
  <2> DEFINE d == calls[HostClient].doc
  <2>1. host.state = "serving" /\ calls' = [calls EXCEPT ![HostClient] = Idle]
    BY <1>5 DEF HostReply
  <2>2. CASE WorkspaceCreated
    <3>1. /\ host.todo = "create" /\ secrets' = [secrets EXCEPT !.keys = host.held \cup {d}] /\ UNCHANGED row
          /\ \E m, e, k : host' = [host EXCEPT !.todo = "pump", !.held = {}, !.mem = m, !.engine = e, !.asking = k]
      BY <2>2 DEF WorkspaceCreated
    <3>2. HostGoesOn /\ host'.todo # "create"
      BY <1>1, <3>1 DEF HostGoesOn, Off
    <3>3. secrets'.token = secrets.token /\ secrets'.keys = host.held \cup {d}
      BY <1>1, <3>1 DEF NoFile
    <3>4. /\ secrets.token # 0 /\ KeysOf(secrets.token, host.held, devices, homes)
          /\ calls[HostClient].op = "createDoc"
      BY <2>1, <3>1 DEF KeysInv, HostKeyed
    <3>5. d \notin Homes(homes) /\ d \in Doc
      BY <3>4, ClientsAssumption DEF KeysInv, RequestsKeyed, RequestKeys, AccessInv, Requests, RequestOK
    <3>6. KeysOf(secrets.token, secrets'.keys, devices, homes)
      BY <3>3, <3>4, <3>5, NamesAssumption DEF KeysOf, NoFile
    <3>7. \A e \in Doc : e \in secrets'.keys => Held(e)
      BY <2>1, <3>1, <3>3, <3>4, ClientsAssumption DEF Held, HeldBy
    <3>8. cmd.at \notin Writing
      BY <2>1, NoneWriting
    <3> QED
      BY <2>1, <3>1, <3>2, <3>3, <3>4, <3>6, <3>7, <3>8, HostGoesKeyed
  <2>3. CASE WorkspaceDeleted
    <3>1. ForgetDoc(d) /\ host' = [Forgotten(host, d) EXCEPT !.todo = None]
      BY <2>3 DEF WorkspaceDeleted
    <3> HIDE DEF d
    <3>2. HostGoesOn /\ host'.todo # "create"
      BY <1>1, <3>1 DEF HostGoesOn, Forgotten, Off, None
    <3> QED
      BY <2>1, <3>1, <3>2, ForgetKeyed
  <2>4. CASE WorkspaceFailed
    <3>1. host' = [host EXCEPT !.todo = None, !.held = {}] /\ UNCHANGED <<secrets, row>>
      BY <2>4 DEF WorkspaceFailed, profileVars
    <3>2. HostGoesOn /\ host'.todo # "create"
      BY <1>1, <3>1 DEF HostGoesOn, Off, None
    <3> QED
      BY <2>1, <3>1, <3>2, HostStaysKeyed
  <2> QED
    BY <1>5, <2>2, <2>3, <2>4 DEF HostReply
<1> QED
  BY <1>2, <1>3, <1>4, <1>5 DEF NetworkStep, HostBroadcast

\* The steps of the host.
LEMMA HostStepKeyed ==
  ASSUME AccessInv, HostInv, KeysInv, Remembered, UNCHANGED tables, UNCHANGED <<born, cmd>>, HostStep
  PROVE  KeysInv'
BY QuietHostKeyed, LifeKeyed, NetworkKeyed DEF HostStep

\* A handler asks the server for a document, or to delete one.
LEMMA WorkspaceKeyed ==
  ASSUME AccessInv, HostInv, KeysInv, Remembered, UNCHANGED tables, UNCHANGED cmd, WorkspaceStep
  PROVE  KeysInv'
<1>1. /\ DOMAIN host = DOMAIN Off /\ UNCHANGED <<secrets, row>>
      /\ CmdClient \in Client /\ HostClient \in Client /\ HostClient # CmdClient
  BY ClientsAssumption DEF HostInv, Shapes, WorkspaceStep, profileVars, HostClient, CmdClient
<1>2. homes' = homes /\ UNCHANGED devices
  BY NoneNew DEF KeysInv
<1>3. ASSUME NEW q, calls' = [calls EXCEPT ![HostClient] = q], RequestKeys(q, devices, homes), q.op # "signup"
      PROVE  /\ RequestsKeyed' /\ ProfileKeyed' /\ CmdKeyed' /\ calls'[HostClient] = q
             /\ \A x \in Client : x # HostClient => calls'[x] = calls[x]
             /\ \A d \in Doc : Local(d)' => Local(d)
  <2>1. RequestsKeyed' /\ calls'[HostClient] = q /\ \A x \in Client : x # HostClient => calls'[x] = calls[x]
    BY <1>1, <1>2, <1>3, AskedKeyed DEF KeysInv
  <2>2. ProfileKeyed' /\ CmdKeyed'
    BY <1>1, <1>2, <2>1 DEF KeysInv, ProfileKeyed, CmdKeyed, AcceptKeyed, JoinKeyed, InitKeyed, AskKeyed
  <2>3. \A d \in Doc : Local(d)' => Local(d)
    BY <1>1, <2>1 DEF Local
  <2> QED
    BY <2>1, <2>2, <2>3
<1>4. ASSUME NEW d \in Doc, NewDoc(d), CreateWorkspace(d) PROVE KeysInv'
  <2> DEFINE q == [Request("createDoc", "auth") EXCEPT !.token = secrets.token, !.doc = d,
                                                      !.home = host.primary]
             L == {}
             H == {d}
  <2>1. /\ Serving /\ host.token # 0 /\ calls' = [calls EXCEPT ![HostClient] = q]
        /\ host' = [host EXCEPT !.todo = "create", !.held = secrets.keys]
    BY <1>4 DEF CreateWorkspace, Send
  <2>2. /\ q.op = "createDoc" /\ q.at = "auth" /\ q.token = secrets.token /\ q.doc = d
        /\ q.home = host.primary /\ q.list = {}
    BY DEF Request, Idle
  <2>3. /\ L \cap H = {} /\ (L \cup H) \cap born = {} /\ born \cup L \cup H \subseteq born'
        /\ d \notin Homes(homes)
    BY <1>4 DEF NewDoc, KeysInv, Chosen
  <2>4. /\ host.token = secrets.token /\ secrets.token # 0
        /\ TokenHome(secrets.token, host.primary, devices, homes)
        /\ KeysOf(secrets.token, secrets.keys, devices, homes)
    BY <2>1 DEF KeysInv, HostKeyed, ProfileKeyed, Serving
  <2>5. /\ host'.state = host.state /\ host'.primary = host.primary /\ host'.token = host.token
        /\ host'.held = secrets.keys
    BY <1>1, <2>1 DEF Off
  <2> HIDE DEF q, L
  <2>6. RequestKeys(q, devices, homes)
    BY <2>2, <2>3, <2>4 DEF RequestKeys
  <2>7. /\ RequestsKeyed' /\ ProfileKeyed' /\ CmdKeyed' /\ calls'[HostClient] = q
        /\ \A x \in Client : x # HostClient => calls'[x] = calls[x]
        /\ \A e \in Doc : Local(e)' => Local(e)
    BY <1>3, <2>1, <2>2, <2>6
  <2>8. HostKeyed'
    BY <1>1, <1>2, <2>2, <2>4, <2>5, <2>7 DEF HostKeyed
  <2>9. \A e \in Doc : Held(e)' => Held(e) \/ e \in H \cup Homes(homes)
    <3>1. \A x \in Client : \A e \in Doc : HeldBy(calls'[x], e) => HeldBy(calls[x], e) \/ e \in H
      BY <2>2, <2>7 DEF HeldBy
    <3>2. \A e \in Doc : e \in host'.held => Held(e)
      BY <2>4, <2>5 DEF Held
    <3> QED
      BY <1>1, <3>1, <3>2 DEF Held
  <2> HIDE DEF H
  <2> QED
    BY <2>3, <2>7, <2>8, <2>9, StepKeyed
<1>5. ASSUME NEW d \in Doc, DeleteWorkspace(d), UNCHANGED born PROVE KeysInv'
  <2> DEFINE q == [Request("deleteDoc", "auth") EXCEPT !.token = secrets.token, !.doc = d]
  <2>1. calls' = [calls EXCEPT ![HostClient] = q] /\ host' = [host EXCEPT !.todo = "delete"]
    BY <1>5 DEF DeleteWorkspace, Send
  <2>2. q.op = "deleteDoc" /\ q.list = {} /\ RequestKeys(q, devices, homes)
    BY DEF Request, Idle, RequestKeys
  <2> HIDE DEF q
  <2>3. /\ host'.state = host.state /\ host'.primary = host.primary /\ host'.token = host.token
        /\ host'.todo # "create"
    BY <1>1, <2>1 DEF Off
  <2>4. /\ RequestsKeyed' /\ ProfileKeyed' /\ CmdKeyed' /\ calls'[HostClient] = q
        /\ \A x \in Client : x # HostClient => calls'[x] = calls[x]
        /\ \A e \in Doc : Local(e)' => Local(e)
    BY <1>3, <2>1, <2>2
  <2>5. HostKeyed'
    BY <1>1, <1>2, <2>3 DEF KeysInv, HostKeyed
  <2>6. \A e \in Doc : Held(e)' => Held(e)
    <3>1. \A x \in Client : \A e \in Doc : HeldBy(calls'[x], e) => HeldBy(calls[x], e)
      BY <2>2, <2>4 DEF HeldBy
    <3> QED
      BY <1>1, <2>3, <3>1 DEF Held
  <2> QED
    BY <1>5, <2>4, <2>5, <2>6, QuietKeyed
<1> QED
  BY <1>4, <1>5 DEF WorkspaceStep

-----------------------------------------------------------------------------
(* The commands *)

\* What a command goes on with is sound, and was local or held before; L is
\* the id it chooses for a local workspace.
CmdHolds(L) ==
  LET q == calls'[CmdClient]
  IN /\ CmdKeyed'
     /\ RequestKeys(q, devices, homes)
     /\ q.op = "signup" => Local(q.doc) \/ q.doc \in L
     /\ \A d \in Doc : HeldBy(q, d) => Held(d)
     /\ cmd'.op = "init" => \A d \in cmd'.keys : Local(d) \/ d \in L
     /\ cmd'.op = "accept" => \A d \in Doc : d \in cmd'.held.keys \/ d = cmd'.doc => Held(d)
     /\ cmd'.op \in Joining /\ cmd'.at \in Joined =>
          \A d \in cmd'.keys : Held(d) \/ d \in Homes(homes)

\* A step of a command that leaves the account row and secrets.toml alone.
LEMMA CmdStepKeyed ==
  ASSUME AccessInv, KeysInv, UNCHANGED tables, Remembered, UNCHANGED <<secrets, row>>, HostGoesOn,
         NEW L, L \cap born = {}, born \cup L \subseteq born', CmdHolds(L),
         \A x \in Client : x # CmdClient => calls'[x] = calls[x]
  PROVE  KeysInv'
<1> DEFINE H == {}
<1>1. homes' = homes /\ UNCHANGED devices
  BY NoneNew DEF KeysInv
<1>2. CmdClient \in Client /\ HostClient \in Client /\ HostClient # CmdClient
  BY ClientsAssumption DEF HostClient, CmdClient
<1>3. RequestsKeyed'
  BY <1>1 DEF KeysInv, RequestsKeyed, CmdHolds
<1>4. ProfileKeyed' /\ CmdKeyed'
  BY <1>1 DEF KeysInv, ProfileKeyed, CmdHolds
<1>5. HostKeyed'
  BY <1>1, <1>2 DEF KeysInv, HostKeyed, HostGoesOn
<1>6. \A d \in Doc : Local(d)' => Local(d) \/ d \in L
  <2>1. ASSUME NEW d \in Doc, Local(d)' PROVE Local(d) \/ d \in L
    <3>1. CASE secrets.token = 0 /\ d \in secrets.keys
      BY <3>1 DEF Local
    <3> QED
      BY <2>1, <3>1 DEF Local, CmdHolds
  <2> QED
    BY <2>1
<1>7. \A d \in Doc : Held(d)' => Held(d) \/ d \in H \cup Homes(homes)
  <2>1. ASSUME NEW d \in Doc, NEW x \in Client, HeldBy(calls'[x], d) PROVE Held(d)
    <3>1. CASE x = CmdClient
      BY <2>1, <3>1 DEF CmdHolds
    <3>2. CASE x # CmdClient
      BY <2>1, <3>2 DEF Held
    <3> QED
      BY <3>1, <3>2
  <2>2. ASSUME NEW d \in Doc, Held(d)' PROVE Held(d) \/ d \in Homes(homes)
    <3>1. CASE secrets.token # 0 /\ d \in secrets.keys
      BY <3>1 DEF Held
    <3>2. CASE host'.state = "serving" /\ host'.todo = "create" /\ d \in host'.held
      BY <3>2 DEF HostGoesOn, Held
    <3>3. CASE \/ cmd'.op = "accept" /\ (d \in cmd'.held.keys \/ d = cmd'.doc)
               \/ cmd'.op \in Joining /\ cmd'.at \in Joined /\ d \in cmd'.keys
      BY <3>3 DEF CmdHolds
    <3> QED
      BY <2>1, <2>2, <3>1, <3>2, <3>3 DEF Held
  <2> QED
    BY <2>2
<1>8. L \cap H = {} /\ (L \cup H) \cap born = {} /\ born \cup L \cup H \subseteq born'
  OBVIOUS
<1> HIDE DEF H
<1> QED
  BY <1>3, <1>4, <1>5, <1>6, <1>7, <1>8, StepKeyed

\* A command asks, or takes its answer, with no document of its own.
LEMMA PlainKeyed ==
  ASSUME AccessInv, KeysInv, UNCHANGED tables, Remembered, UNCHANGED <<secrets, row, host, born>>,
         NEW q, calls' = [calls EXCEPT ![CmdClient] = q], RequestKeys(q, devices, homes),
         q.op # "signup", \A d \in Doc : ~HeldBy(q, d), cmd'.op \notin {"accept", "init"},
         cmd'.op \in Joining => cmd'.at \notin Joined, AskKeyed'
  PROVE  KeysInv'
<1> DEFINE L == {}
<1>1. calls'[CmdClient] = q /\ \A x \in Client : x # CmdClient => calls'[x] = calls[x]
  BY Fields, ClientsAssumption
<1>2. CmdHolds(L)
  BY <1>1 DEF CmdHolds, CmdKeyed, AcceptKeyed, JoinKeyed, InitKeyed
<1>3. L \cap born = {} /\ born \cup L \subseteq born'
  OBVIOUS
<1>4. HostGoesOn
  BY DEF HostGoesOn
<1> HIDE DEF L
<1> QED
  BY <1>1, <1>2, <1>3, <1>4, CmdStepKeyed

\* The first step of a command.
LEMMA BeginKeyed ==
  ASSUME AccessInv, HostInv, KeysInv, Remembered, UNCHANGED tables, BeginStep
  PROVE  KeysInv'
<1>1. UNCHANGED <<secrets, row, host>> /\ HostGoesOn
  BY DEF BeginStep, Rest, HostGoesOn
<1>2. Ready
  BY DEF BeginStep, BeginInit, BeginSignup, BeginLogin, BeginRecover, BeginPassword, BeginLogout,
         BeginDeleteAccount, BeginShareAccept, BeginClear
<1>3. homes' = homes /\ UNCHANGED devices /\ 0 \notin Doc /\ 0 \notin Homes(homes)
  BY NoneNew, NamesAssumption DEF KeysInv, Registry
<1> DEFINE asks(q) == calls' = [calls EXCEPT ![CmdClient] = q]
<1>4. ASSUME NEW q, asks(q)
      PROVE  calls'[CmdClient] = q /\ \A x \in Client : x # CmdClient => calls'[x] = calls[x]
  BY <1>4, Fields, ClientsAssumption
<1>5. ASSUME NEW d \in Doc, BeginInit(d) PROVE KeysInv'
  <2> DEFINE L == {d}
  <2>1. /\ UNCHANGED calls /\ cmd'.op = "init" /\ cmd'.at = "claim" /\ cmd'.keys = {d} /\ cmd'.token = 0
    BY <1>5 DEF BeginInit, NoCmd
  <2>2. L \cap born = {} /\ born \cup L \subseteq born'
    BY <1>5 DEF BeginInit, NewDoc
  <2>3. CmdKeyed'
    BY <2>1 DEF CmdKeyed, AcceptKeyed, JoinKeyed, InitKeyed, AskKeyed, Joining
  <2>4. RequestKeys(calls[CmdClient], devices, homes)
    BY ClientsAssumption DEF KeysInv, RequestsKeyed
  <2>5. CmdHolds(L)
    BY <1>2, <2>1, <2>3, <2>4, IdleKeyed DEF CmdHolds, Joining, Ready
  <2> HIDE DEF L
  <2> QED
    BY <1>1, <2>1, <2>2, <2>5, CmdStepKeyed
<1>6. ASSUME NEW a \in Account \ DOMAIN homes, NEW d \in Doc, BeginSignup(a, 1, d) PROVE KeysInv'
  <2> DEFINE doc == IF LocalOnlyDoc = 0 THEN d ELSE LocalOnlyDoc
             q == [Request("signup", "run") EXCEPT !.account = a, !.doc = doc, !.password = 1]
             L == IF LocalOnlyDoc = 0 THEN {d} ELSE {}
  <2>1. asks(q) /\ cmd'.op = "signup" /\ cmd'.at = "http" /\ cmd'.keys = {doc}
    BY <1>6 DEF BeginSignup, NoCmd, Send
  <2>2. L \cap born = {} /\ born \cup L \subseteq born'
    BY <1>6 DEF BeginSignup, NewDoc
  <2>3. Local(doc) \/ doc \in L
    BY <1>6 DEF BeginSignup, LocalOnlyDoc, IsLocalOnly, HomeKey, Local
  <2>4. q.op = "signup" /\ q.at = "run" /\ q.account = a /\ q.doc = doc /\ q.list = {}
    BY DEF Request, Idle
  <2> HIDE DEF q, doc, L
  <2>5. RequestKeys(q, devices, homes) /\ \A e \in Doc : ~HeldBy(q, e)
    BY <2>4 DEF RequestKeys, HeldBy
  <2>6. calls'[CmdClient] = q /\ \A x \in Client : x # CmdClient => calls'[x] = calls[x]
    BY <1>4, <2>1
  <2>7. CmdKeyed'
    BY <2>1, <2>4, <2>6 DEF CmdKeyed, AcceptKeyed, JoinKeyed, InitKeyed, AskKeyed, Joined
  <2>8. CmdHolds(L)
    BY <2>1, <2>3, <2>4, <2>5, <2>6, <2>7 DEF CmdHolds, Joined
  <2> QED
    BY <1>1, <2>2, <2>6, <2>8, CmdStepKeyed
<1>7. ASSUME NEW a, NEW p, BeginLogin(a, p) PROVE KeysInv'
  <2> DEFINE q == [Request("login", "run") EXCEPT !.account = a, !.password = p]
  <2>1. asks(q) /\ cmd'.op = "login" /\ cmd'.at = "http" /\ UNCHANGED born
    BY <1>7 DEF BeginLogin, NoCmd, Send
  <2>2. q.op = "login" /\ RequestKeys(q, devices, homes) /\ \A d \in Doc : ~HeldBy(q, d)
    BY DEF Request, Idle, RequestKeys, HeldBy
  <2> HIDE DEF q
  <2>3. AskKeyed'
    BY <1>4, <2>1, <2>2 DEF AskKeyed
  <2> QED
    BY <1>1, <2>1, <2>2, <2>3, PlainKeyed DEF Joined
<1>8. ASSUME NEW a, NEW new, BeginRecover(a, new) PROVE KeysInv'
  <2> DEFINE q == [Request("recover", "run") EXCEPT !.account = a]
  <2>1. asks(q) /\ cmd'.op = "recover" /\ cmd'.at = "http" /\ UNCHANGED born
    BY <1>8 DEF BeginRecover, NoCmd, Send
  <2>2. q.op = "recover" /\ RequestKeys(q, devices, homes) /\ \A d \in Doc : ~HeldBy(q, d)
    BY DEF Request, Idle, RequestKeys, HeldBy
  <2> HIDE DEF q
  <2>3. AskKeyed'
    BY <1>4, <2>1, <2>2 DEF AskKeyed
  <2> QED
    BY <1>1, <2>1, <2>2, <2>3, PlainKeyed DEF Joined
<1>9. CASE BeginPassword(1, 2) \/ BeginLogout
  <2>1. asks(Idle) /\ cmd'.op \in {"password", "logout"} /\ cmd'.at = "claim" /\ UNCHANGED born
    BY <1>2, <1>9, Fields, ClientsAssumption DEF BeginPassword, BeginLogout, NoCmd, Ready
  <2>2. AskKeyed'
    BY <2>1 DEF AskKeyed
  <2> QED
    BY <1>1, <2>1, <2>2, IdleKeyed, PlainKeyed DEF Joining
<1>10. CASE BeginDeleteAccount(1)
  <2> DEFINE q == [Request("deleteAccount", "auth") EXCEPT !.token = secrets.token, !.password = 1]
  <2>1. asks(q) /\ cmd'.op = "deleteAccount" /\ cmd'.at = "http" /\ UNCHANGED born
    BY <1>10 DEF BeginDeleteAccount, NoCmd, Send
  <2>2. q.op = "deleteAccount" /\ RequestKeys(q, devices, homes) /\ \A d \in Doc : ~HeldBy(q, d)
    BY DEF Request, Idle, RequestKeys, HeldBy
  <2> HIDE DEF q
  <2>3. AskKeyed'
    BY <2>1 DEF AskKeyed
  <2> QED
    BY <1>1, <2>1, <2>2, <2>3, PlainKeyed DEF Joined
<1>11. ASSUME NEW i, BeginShareAccept(i) PROVE KeysInv'
  <2> DEFINE q == [Request("accept", "auth") EXCEPT !.token = secrets.token, !.row = i,
                                                   !.home = row.primary]
             L == {}
  <2>1. /\ asks(q) /\ cmd'.op = "accept" /\ cmd'.at = "http" /\ cmd'.held = secrets /\ cmd'.doc = 0
        /\ UNCHANGED born /\ secrets.token # 0 /\ HomeKey
    BY <1>11 DEF BeginShareAccept, NoCmd, Send
  <2>2. L \cap born = {} /\ born \cup L \subseteq born'
    BY <2>1
  <2>3. /\ TokenHome(secrets.token, row.primary, devices, homes)
        /\ KeysOf(secrets.token, secrets.keys, devices, homes)
    BY <2>1 DEF KeysInv, ProfileKeyed, KeysOf, TokenHome, HomeKey
  <2>4. /\ q.op = "accept" /\ q.at = "auth" /\ q.token = secrets.token /\ q.home = row.primary
        /\ q.doc = 0 /\ q.list = {}
    BY DEF Request, Idle
  <2> HIDE DEF q
  <2>5. RequestKeys(q, devices, homes) /\ \A e \in Doc : ~HeldBy(q, e)
    BY <1>3, <2>3, <2>4 DEF RequestKeys, HeldBy
  <2>6. calls'[CmdClient] = q /\ \A x \in Client : x # CmdClient => calls'[x] = calls[x]
    BY <1>4, <2>1
  <2>7. CmdKeyed'
    BY <1>1, <1>3, <2>1, <2>3, <2>4, <2>6
       DEF CmdKeyed, AcceptKeyed, JoinKeyed, InitKeyed, AskKeyed, Joining
  <2>8. \A d \in Doc : d \in secrets.keys \/ d = 0 => Held(d)
    BY <1>3, <2>1 DEF Held
  <2>9. CmdHolds(L)
    BY <2>1, <2>4, <2>5, <2>6, <2>7, <2>8 DEF CmdHolds, Joining
  <2> HIDE DEF L
  <2> QED
    BY <1>1, <2>2, <2>6, <2>9, CmdStepKeyed
<1>12. CASE BeginClear
  <2>1. asks(Idle) /\ cmd'.op = "clear" /\ cmd'.at = "clear" /\ UNCHANGED born
    BY <1>2, <1>12, Fields, ClientsAssumption DEF BeginClear, NoCmd, Ready
  <2>2. AskKeyed'
    BY <2>1 DEF AskKeyed
  <2> QED
    BY <1>1, <2>1, <2>2, IdleKeyed, PlainKeyed DEF Joining
<1> QED
  BY <1>5, <1>6, <1>7, <1>8, <1>9, <1>10, <1>11, <1>12 DEF BeginStep

\* The claim, the copies of documents, and the end of a command.
LEMMA ClaimKeyed ==
  ASSUME AccessInv, HostInv, KeysInv, Remembered, UNCHANGED tables,
         Claim \/ Seed \/ ClearDb \/ Reseed \/ Done \/ Kill
  PROVE  KeysInv'
<1> DEFINE L == {}
<1>1. DOMAIN host = DOMAIN Off /\ DOMAIN cmd = DOMAIN NoCmd /\ CmdClient \in Client
  BY ClientsAssumption DEF HostInv, Shapes, AccessInv, Profile
<1>2. UNCHANGED <<calls, secrets, row, born>>
  BY DEF Claim, Seed, ClearDb, Reseed, Done, Kill, profileVars
<1>3. HostGoesOn
  <2>1. host' = host \/ host' = [host EXCEPT !.stop = TRUE]
    BY DEF Claim, Seed, ClearDb, Reseed, Done, Kill
  <2> QED
    BY <1>1, <2>1 DEF HostGoesOn, Off
<1>4. homes' = homes /\ UNCHANGED devices /\ L \cap born = {} /\ born \cup L \subseteq born'
  BY <1>2, NoneNew DEF KeysInv
<1>5. RequestKeys(calls[CmdClient], devices, homes)
  BY <1>1 DEF KeysInv, RequestsKeyed
<1>6. ASSUME CmdKeyed',
             \/ cmd'.op = None
             \/ /\ cmd'.op = cmd.op /\ cmd'.keys = cmd.keys /\ cmd'.doc = cmd.doc /\ cmd'.held = cmd.held
                /\ cmd.op \in Joining /\ cmd'.at \in Joined => cmd.at \in Joined
      PROVE  KeysInv'
  <2>1. calls[CmdClient].op = "signup" => Local(calls[CmdClient].doc)
    BY DEF Local
  <2>2. \A d \in Doc : HeldBy(calls[CmdClient], d) => Held(d)
    BY <1>1 DEF Held
  <2>3. /\ cmd'.op = "init" => \A d \in cmd'.keys : Local(d)
        /\ cmd'.op = "accept" => \A d \in Doc : d \in cmd'.held.keys \/ d = cmd'.doc => Held(d)
        /\ cmd'.op \in Joining /\ cmd'.at \in Joined => \A d \in cmd'.keys : Held(d)
    BY <1>6 DEF Local, Held, None, Joining
  <2>4. CmdHolds(L)
    BY <1>2, <1>5, <1>6, <2>1, <2>2, <2>3 DEF CmdHolds
  <2> HIDE DEF L
  <2> QED
    BY <1>2, <1>3, <1>4, <2>4, CmdStepKeyed
<1>7. CASE UNCHANGED cmd
  <2>1. CmdKeyed'
    BY <1>2, <1>4, <1>7 DEF KeysInv, CmdKeyed, AcceptKeyed, JoinKeyed, InitKeyed, AskKeyed
  <2> QED
    BY <1>6, <1>7, <2>1
<1>8. CASE cmd' = NoCmd
  <2>1. cmd'.op = None
    BY <1>8 DEF NoCmd
  <2>2. cmd'.at = None
    BY <1>8 DEF NoCmd
  <2>3. CmdKeyed'
    BY <2>1, <2>2 DEF CmdKeyed, AcceptKeyed, JoinKeyed, InitKeyed, AskKeyed, Joining, None
  <2> QED
    BY <1>6, <2>1, <2>3
<1>9. ASSUME NEW at, NEW over, cmd' = [cmd EXCEPT !.at = at, !.over = over],
             cmd.at \in {"claim", "seed"}, at \in {"seed", "row", "purge", "ask", "done"},
             cmd.op = "init" /\ at # "done" => secrets = NoFile, cmd.op # "accept"
      PROVE  KeysInv'
  <2>1. /\ cmd'.at = at /\ cmd'.op = cmd.op /\ cmd'.keys = cmd.keys /\ cmd'.doc = cmd.doc /\ cmd'.held = cmd.held
        /\ cmd'.token = cmd.token
    BY <1>1, <1>9 DEF NoCmd
  <2>2. AcceptKeyed' /\ InitKeyed' /\ AskKeyed'
    BY <1>2, <1>9, <2>1 DEF KeysInv, CmdKeyed, AcceptKeyed, InitKeyed, AskKeyed
  <2>3. JoinKeyed'
    BY <1>4, <1>9, <2>1 DEF KeysInv, CmdKeyed, JoinKeyed, Joined
  <2>4. cmd.at \in Joined
    BY <1>9 DEF Joined
  <2> QED
    BY <1>6, <2>1, <2>2, <2>3, <2>4 DEF CmdKeyed
<1>10. CASE Claim
  <2>1. cmd.at = "claim" /\ cmd.op \in Claiming
    BY <1>10 DEF Claim, HostInv, Holding
  <2>2. /\ AfterClaim \in {"seed", "row", "purge", "ask", "done"} /\ cmd.op # "accept"
        /\ cmd.op = "init" /\ AfterClaim # "done" => secrets = NoFile
    BY <2>1 DEF AfterClaim, Claiming, Founding
  <2>3. UNCHANGED cmd \/ cmd' = [cmd EXCEPT !.at = AfterClaim, !.over = secrets # NoFile]
    BY <1>10 DEF Claim
  <2> DEFINE at == AfterClaim
  <2> HIDE DEF at
  <2> QED
    BY <1>7, <1>9, <2>1, <2>2, <2>3 DEF at
<1>11. CASE Seed
  <2>1. cmd.at = "seed" /\ cmd' = [cmd EXCEPT !.at = "row"]
    BY <1>11 DEF Seed
  <2>2. cmd' = [cmd EXCEPT !.at = "row", !.over = cmd.over]
    BY <1>1, <2>1 DEF NoCmd
  <2>3. cmd.op # "accept" /\ (cmd.op = "init" => secrets = NoFile)
    BY <2>1 DEF KeysInv, CmdKeyed, InitKeyed, HostInv, Holding, Founding
  <2> QED
    BY <1>9, <2>1, <2>2, <2>3
<1>12. CASE ClearDb \/ Reseed
  <2>1. PICK at : cmd' = [cmd EXCEPT !.at = at] /\ at \in {"reseed", "done"}
    BY <1>12 DEF ClearDb, Reseed
  <2>2. /\ cmd'.at = at /\ cmd'.op = cmd.op /\ cmd'.keys = cmd.keys /\ cmd'.doc = cmd.doc /\ cmd'.held = cmd.held
        /\ cmd'.token = cmd.token
    BY <1>1, <2>1 DEF NoCmd
  <2>3. AcceptKeyed' /\ InitKeyed' /\ AskKeyed'
    BY <2>1, <2>2 DEF KeysInv, CmdKeyed, AcceptKeyed, InitKeyed, AskKeyed
  <2>4. JoinKeyed' /\ cmd'.at \notin Joined
    BY <2>1, <2>2 DEF JoinKeyed, Joined
  <2> QED
    BY <1>6, <2>2, <2>3, <2>4 DEF CmdKeyed
<1> QED
  BY <1>8, <1>10, <1>11, <1>12 DEF Done, Kill

\* The writes of the account row and of secrets.toml, by a command that founds a
\* profile, one that ends it, and `share accept`.
LEMMA WriteKeyed ==
  ASSUME AccessInv, HostInv, KeysInv, Remembered, UNCHANGED tables,
         WriteAccount \/ WriteSecrets \/ Purge \/ WriteShareKey
  PROVE  KeysInv'
<1>1. /\ DOMAIN cmd = DOMAIN NoCmd /\ DOMAIN host = DOMAIN Off /\ DOMAIN cmd.held = DOMAIN NoFile
      /\ UNCHANGED <<calls, born>>
  BY DEF HostInv, Shapes, AccessInv, Profile, WriteAccount, WriteSecrets, Purge, WriteShareKey
<1>2. homes' = homes /\ UNCHANGED devices
  BY NoneNew DEF KeysInv
<1>3. PICK at \in {"secrets", "done", "purgeDb", "purgeSecrets"} : cmd' = [cmd EXCEPT !.at = at]
  BY DEF WriteAccount, WriteSecrets, Purge, WriteShareKey
<1>4. /\ cmd'.at = at /\ cmd'.op = cmd.op /\ cmd'.keys = cmd.keys /\ cmd'.doc = cmd.doc /\ cmd'.held = cmd.held
      /\ cmd'.token = cmd.token /\ (at = "secrets" => WriteAccount /\ cmd.at = "row")
  BY <1>1, <1>3 DEF NoCmd, WriteAccount, WriteSecrets, Purge, WriteShareKey
<1>5. CmdKeyed'
  <2>1. AcceptKeyed' /\ AskKeyed'
    BY <1>3, <1>4 DEF AcceptKeyed, AskKeyed
  <2>2. InitKeyed'
    BY <1>3, <1>4 DEF KeysInv, CmdKeyed, InitKeyed, WriteAccount
  <2>3. JoinKeyed'
    BY <1>2, <1>3, <1>4 DEF KeysInv, CmdKeyed, JoinKeyed, Joined
  <2> QED
    BY <2>1, <2>2, <2>3 DEF CmdKeyed
<1>6. RequestsKeyed'
  BY <1>1, <1>2 DEF KeysInv, RequestsKeyed
<1>7. ASSUME ProfileKeyed', HostKeyed', HostGoesOn,
             \A d \in Doc : secrets'.token = 0 /\ d \in secrets'.keys => Local(d),
             \A d \in Doc : secrets'.token # 0 /\ d \in secrets'.keys => Held(d)
      PROVE  KeysInv'
  <2>1. \A d \in Doc : Local(d)' => Local(d)
    <3>1. ASSUME NEW d \in Doc, Local(d)' PROVE Local(d)
      <4>1. CASE secrets'.token = 0 /\ d \in secrets'.keys
        BY <1>7, <4>1
      <4> QED
        BY <1>1, <1>4, <3>1, <4>1 DEF Local
    <3> QED
      BY <3>1
  <2>2. \A d \in Doc : Held(d)' => Held(d)
    <3>1. ASSUME NEW d \in Doc, Held(d)' PROVE Held(d)
      <4>1. CASE secrets'.token # 0 /\ d \in secrets'.keys
        BY <1>7, <4>1
      <4>2. CASE host'.state = "serving" /\ host'.todo = "create" /\ d \in host'.held
        BY <1>7, <4>2 DEF HostGoesOn, Held
      <4>3. CASE cmd'.op \in Joining /\ cmd'.at \in Joined /\ d \in cmd'.keys
        BY <1>3, <1>4, <4>3 DEF Joined, Held
      <4> QED
        BY <1>1, <1>4, <3>1, <4>1, <4>2, <4>3 DEF Held
    <3> QED
      BY <3>1
  <2> QED
    BY <1>1, <1>5, <1>6, <1>7, <2>1, <2>2, QuietKeyed
<1>8. ASSUME lock = CmdClient, UNCHANGED host PROVE HostKeyed' /\ HostGoesOn
  BY <1>8, Alone DEF HostKeyed, HostGoesOn
<1>9. CASE WriteAccount
  <2>1. cmd.at = "row" /\ row' = AccountRow(cmd.doc, cmd.account) /\ UNCHANGED <<secrets, host>>
    BY <1>9 DEF WriteAccount
  <2>2. row'.primary = cmd.doc
    BY <2>1 DEF AccountRow, NoFile
  <2>3. cmd.op \in Founding /\ lock = CmdClient
    BY <2>1 DEF HostInv, Holding, Locking, Writing
  <2>4. secrets.token # 0 => cmd.doc \in Homes(homes)
    BY <2>1, <2>3 DEF KeysInv, CmdKeyed, InitKeyed, JoinKeyed, Founding, Joining, Joined, NoFile
  <2>5. ProfileKeyed'
    BY <1>2, <2>1, <2>2, <2>4 DEF KeysInv, ProfileKeyed
  <2> QED
    BY <1>7, <1>8, <2>1, <2>3, <2>5 DEF Local, Held
<1>10. CASE WriteSecrets
  <2>1. cmd.at = "secrets" /\ secrets' = SecretsFile(cmd.token, cmd.keys) /\ UNCHANGED <<row, host>>
    BY <1>10 DEF WriteSecrets
  <2>2. secrets'.token = cmd.token /\ secrets'.keys = cmd.keys
    BY <2>1 DEF SecretsFile, NoFile
  <2>3. cmd.op \in Founding /\ lock = CmdClient /\ row.primary = cmd.doc
    BY <2>1 DEF HostInv, Holding, Locking, Writing, Written
  <2>4. /\ cmd.op = "init" => cmd.token = 0
        /\ cmd.op # "init" => /\ cmd.op \in Joining /\ cmd.at \in Joined /\ cmd.token # 0
                              /\ KeysOf(cmd.token, cmd.keys, devices, homes) /\ cmd.doc \in Homes(homes)
    BY <2>1, <2>3 DEF KeysInv, CmdKeyed, InitKeyed, JoinKeyed, Founding, Joining, Joined
  <2>5. ProfileKeyed'
    BY <1>2, <2>1, <2>2, <2>3, <2>4 DEF ProfileKeyed
  <2>6. /\ \A d \in Doc : secrets'.token = 0 /\ d \in secrets'.keys => Local(d)
        /\ \A d \in Doc : secrets'.token # 0 /\ d \in secrets'.keys => Held(d)
    BY <2>2, <2>4 DEF Local, Held
  <2> QED
    BY <1>7, <1>8, <2>1, <2>3, <2>5, <2>6
<1>11. CASE Purge
  <2>1. lock = CmdClient /\ UNCHANGED host
    BY <1>11 DEF Purge, HostInv, Locking, Writing
  <2>2. CASE secrets' = NoFile
    <3>1. secrets'.token = 0 /\ secrets'.keys = {}
      BY <2>2 DEF NoFile
    <3>2. ProfileKeyed'
      BY <3>1 DEF ProfileKeyed
    <3> QED
      BY <1>7, <1>8, <2>1, <3>1, <3>2
  <2>3. CASE DatabaseRemoved /\ UNCHANGED secrets
    <3>1. ProfileKeyed'
      BY <1>2, <2>3 DEF KeysInv, ProfileKeyed, DatabaseRemoved
    <3> QED
      BY <1>7, <1>8, <2>1, <2>3, <3>1 DEF Local, Held
  <2> QED
    BY <1>11, <2>2, <2>3 DEF Purge
<1>12. CASE WriteShareKey
  <2>1. /\ cmd.at = "key" /\ secrets' = [cmd.held EXCEPT !.keys = @ \cup {cmd.doc}] /\ UNCHANGED row
        /\ host' = [host EXCEPT !.stop = host.state = "serving"]
    BY <1>12 DEF WriteShareKey
  <2>2. secrets'.token = cmd.held.token /\ secrets'.keys = cmd.held.keys \cup {cmd.doc}
    BY <1>1, <2>1 DEF NoFile
  <2>3. cmd.op = "accept"
    BY <2>1 DEF HostInv, Holding
  <2>4. /\ secrets.token # 0 /\ cmd.held.token = secrets.token /\ cmd.doc \in Doc \ Homes(homes)
        /\ KeysOf(cmd.held.token, cmd.held.keys, devices, homes)
    BY <2>1, <2>3 DEF KeysInv, CmdKeyed, AcceptKeyed
  <2>5. KeysOf(secrets'.token, secrets'.keys, devices, homes)
    BY <2>2, <2>4, NamesAssumption DEF KeysOf, NoFile
  <2>6. ProfileKeyed'
    BY <1>2, <2>1, <2>4, <2>5 DEF KeysInv, ProfileKeyed
  <2>7. /\ host'.state = host.state /\ host'.token = host.token /\ host'.primary = host.primary
        /\ host'.todo = host.todo /\ host'.held = host.held
    BY <1>1, <2>1 DEF Off
  <2>8. HostKeyed' /\ HostGoesOn
    BY <1>1, <1>2, <2>2, <2>4, <2>7 DEF KeysInv, HostKeyed, HostGoesOn
  <2>9. \A d \in Doc : d \in secrets'.keys => Held(d)
    BY <2>2, <2>3 DEF Held
  <2> QED
    BY <1>7, <2>2, <2>4, <2>6, <2>8, <2>9
<1> QED
  BY <1>9, <1>10, <1>11, <1>12

\* A command takes its answer and goes on.
LEMMA AnswerKeyed ==
  ASSUME AccessInv, HostInv, KeysInv, Remembered, UNCHANGED tables, Answered
  PROVE  KeysInv'
<1> DEFINE q == calls[CmdClient]
           L == {}
           asks(r) == calls' = [calls EXCEPT ![CmdClient] = r]
<1>1. /\ DOMAIN cmd = DOMAIN NoCmd /\ CmdClient \in Client /\ cmd.at = "http" /\ q.at = "answered"
      /\ UNCHANGED <<secrets, row, host, born>> /\ HostGoesOn
  BY ClientsAssumption DEF AccessInv, Profile, Answered, Rest, HostGoesOn
<1>2. /\ homes' = homes /\ UNCHANGED devices /\ 0 \notin Doc /\ devices \in Seq(Account \cup {None})
      /\ L \cap born = {} /\ born \cup L \subseteq born'
  BY <1>1, NoneNew, NamesAssumption DEF KeysInv, AccessInv, Tables, Credentials
<1>3. 0 \notin DOMAIN devices
  BY <1>2
<1>4. /\ RequestKeys(q, devices, homes) /\ NamesDocs(q)
      /\ \A d \in Doc : HeldBy(q, d) => Held(d)
  BY <1>1 DEF KeysInv, RequestsKeyed, HostInv, Waiting, Held
<1>5. ASSUME NEW r, asks(r)
      PROVE  calls'[CmdClient] = r /\ \A x \in Client : x # CmdClient => calls'[x] = calls[x]
  BY <1>5, Fields, ClientsAssumption
<1>6. ASSUME asks(Idle), CmdKeyed', cmd'.op = cmd.op,
             cmd'.op = "init" => cmd'.keys = cmd.keys,
             cmd'.op = "accept" => cmd'.held = cmd.held /\ (cmd'.doc \in Doc => Held(cmd'.doc)),
             cmd'.op \in Joining /\ cmd'.at \in Joined => \A d \in cmd'.keys : Held(d) \/ d \in Homes(homes)
      PROVE  KeysInv'
  <2>1. calls'[CmdClient] = Idle /\ \A x \in Client : x # CmdClient => calls'[x] = calls[x]
    BY <1>5, <1>6
  <2>2. /\ cmd'.op = "init" => \A d \in cmd'.keys : Local(d)
        /\ cmd'.op = "accept" => \A d \in Doc : d \in cmd'.held.keys \/ d = cmd'.doc => Held(d)
    BY <1>6 DEF Local, Held
  <2>3. CmdHolds(L)
    BY <1>6, <2>1, <2>2, IdleKeyed DEF CmdHolds
  <2> HIDE DEF L
  <2> QED
    BY <1>1, <1>2, <2>1, <2>3, CmdStepKeyed
<1>7. ASSUME asks(Idle), NEW at \in {"done", "claim"}, cmd' = [cmd EXCEPT !.at = at],
             at = "claim" => cmd.op = "deleteAccount"
      PROVE  KeysInv'
  <2>1. /\ cmd'.at = at /\ cmd'.op = cmd.op /\ cmd'.keys = cmd.keys /\ cmd'.doc = cmd.doc
        /\ cmd'.held = cmd.held /\ cmd'.token = cmd.token
    BY <1>1, <1>7 DEF NoCmd
  <2>2. CmdKeyed'
    BY <1>7, <2>1 DEF KeysInv, CmdKeyed, AcceptKeyed, JoinKeyed, InitKeyed, AskKeyed, Joining, Joined
  <2>3. cmd.op \in Joining => at \notin Joined
    BY <1>7 DEF Joining, Joined
  <2> QED
    BY <1>6, <1>7, <2>1, <2>2, <2>3 DEF Held
<1>8. ASSUME asks(Idle), cmd.op \in Joining, cmd'.op = cmd.op, cmd'.at = "claim", cmd'.token # 0,
             KeysOf(cmd'.token, cmd'.keys, devices, homes), cmd'.doc \in Homes(homes),
             \A d \in cmd'.keys : Held(d) \/ d \in Homes(homes)
      PROVE  KeysInv'
  <2>1. CmdKeyed'
    BY <1>2, <1>8 DEF CmdKeyed, AcceptKeyed, JoinKeyed, InitKeyed, AskKeyed, Joining
  <2> QED
    BY <1>6, <1>8, <2>1 DEF Joining
<1>9. ASSUME NEW m \in q.list PROVE m.doc \in Doc /\ Held(m.doc)
  BY <1>4 DEF NamesDocs, HeldBy
<1>10. /\ \A d \in Keys(q.list) : d \in Doc /\ Held(d)
       /\ Keys(q.list) # {} => q.list # {}
  BY <1>9 DEF Keys
<1>11. CASE q.out # "ok"
  BY <1>7, <1>11 DEF Answered, Ask
<1>12. CASE q.out = "ok" /\ cmd.op = "recover" /\ q.op = "recover"
  <2> DEFINE r == [Request("reset", "run") EXCEPT !.row = q.row, !.home = q.doc, !.new = cmd.new]
  <2>1. asks(r) /\ cmd' = [cmd EXCEPT !.doc = q.doc]
    BY <1>12 DEF Answered, RecoverAnswered, Ask
  <2>2. q.doc \in Homes(homes)
    BY <1>1, <1>2, <1>4, <1>12 DEF RequestKeys, NamesDocs
  <2>3. /\ r.op = "reset" /\ r.home = q.doc /\ RequestKeys(r, devices, homes)
        /\ \A d \in Doc : ~HeldBy(r, d)
    BY DEF Request, Idle, RequestKeys, HeldBy
  <2>4. cmd'.at = "http" /\ cmd'.op = "recover" /\ cmd'.doc = q.doc
    BY <1>1, <1>12, <2>1 DEF NoCmd
  <2> HIDE DEF r
  <2>5. AskKeyed'
    BY <1>2, <1>5, <2>1, <2>2, <2>3, <2>4 DEF AskKeyed
  <2> QED
    BY <1>1, <2>1, <2>3, <2>4, <2>5, PlainKeyed DEF Joined
<1>13. CASE q.out = "ok" /\ cmd.op = "recover" /\ q.op = "reset"
  <2> DEFINE r == [Request("docs", "auth") EXCEPT !.token = q.token]
  <2>1. asks(r) /\ cmd' = [cmd EXCEPT !.token = q.token]
    BY <1>13 DEF Answered, RecoverAnswered, Ask
  <2>2. /\ TokenHome(q.token, q.home, devices, homes) /\ q.home = cmd.doc /\ cmd.doc \in Homes(homes)
    BY <1>1, <1>4, <1>13 DEF RequestKeys, KeysInv, CmdKeyed, AskKeyed
  <2>3. q.token # 0
    BY <1>3, <2>2 DEF TokenHome
  <2>4. /\ r.op = "docs" /\ r.token = q.token /\ RequestKeys(r, devices, homes)
        /\ \A d \in Doc : ~HeldBy(r, d)
    BY DEF Request, Idle, RequestKeys, HeldBy
  <2>5. cmd'.at = "http" /\ cmd'.op = "recover" /\ cmd'.doc = cmd.doc /\ cmd'.token = q.token
    BY <1>1, <1>13, <2>1 DEF NoCmd
  <2> HIDE DEF r
  <2>6. AskKeyed'
    BY <1>2, <1>5, <2>1, <2>2, <2>3, <2>4, <2>5 DEF AskKeyed
  <2> QED
    BY <1>1, <2>1, <2>4, <2>5, <2>6, PlainKeyed DEF Joined
<1>14. CASE q.out = "ok" /\ cmd.op = "recover" /\ q.op = "docs"
  <2>1. asks(Idle) /\ (\/ cmd' = [cmd EXCEPT !.at = "done"]
                       \/ cmd' = [cmd EXCEPT !.at = "claim", !.keys = Keys(q.list) \cup {cmd.doc}])
    BY <1>14 DEF Answered, RecoverAnswered, Ask
  <2>2. CASE cmd' = [cmd EXCEPT !.at = "claim", !.keys = Keys(q.list) \cup {cmd.doc}]
    <3>1. /\ cmd'.at = "claim" /\ cmd'.op = cmd.op /\ cmd'.doc = cmd.doc /\ cmd'.token = cmd.token
          /\ cmd'.keys = Keys(q.list) \cup {cmd.doc}
      BY <1>1, <2>2 DEF NoCmd
    <3>2. /\ cmd.token # 0 /\ q.token = cmd.token /\ cmd.doc \in Homes(homes)
          /\ TokenHome(cmd.token, cmd.doc, devices, homes)
      BY <1>1, <1>14 DEF KeysInv, CmdKeyed, AskKeyed
    <3>3. Keys(q.list) # {} => KeysOf(cmd.token, Keys(q.list), devices, homes)
      BY <1>4, <1>10, <3>2 DEF RequestKeys
    <3>4. NoFile.primary \notin Homes(homes)
      BY <1>2 DEF NoFile, KeysInv, Registry
    <3>5. KeysOf(cmd.token, Keys(q.list) \cup {cmd.doc}, devices, homes)
      BY <3>2, <3>3, <3>4 DEF KeysOf, TokenHome
    <3> QED
      BY <1>8, <1>10, <1>14, <2>1, <3>1, <3>2, <3>5 DEF Joining
  <2> QED
    BY <1>7, <2>1, <2>2
<1>15. CASE q.out = "ok" /\ cmd.op = "signup"
  <2>1. asks(Idle) /\ cmd' = [cmd EXCEPT !.at = "claim", !.doc = q.doc, !.token = q.token]
    BY <1>15 DEF Answered, Ask
  <2>2. q.op = "signup" /\ cmd.keys = {q.doc}
    BY <1>1, <1>15 DEF HostInv, Waiting, KeysInv, CmdKeyed, AskKeyed
  <2>3. TokenHome(q.token, q.doc, devices, homes) /\ q.doc \in Homes(homes)
    BY <1>1, <1>4, <1>15, <2>2 DEF RequestKeys
  <2>4. cmd'.at = "claim" /\ cmd'.op = cmd.op /\ cmd'.doc = q.doc /\ cmd'.token = q.token /\ cmd'.keys = cmd.keys
    BY <1>1, <2>1 DEF NoCmd
  <2>5. q.token # 0 /\ KeysOf(q.token, cmd.keys, devices, homes)
    BY <1>2, <1>3, <2>2, <2>3 DEF TokenHome, KeysOf, NoFile, KeysInv, Registry
  <2> QED
    BY <1>8, <1>15, <2>1, <2>2, <2>3, <2>4, <2>5 DEF Joining
<1>16. CASE q.out = "ok" /\ cmd.op = "login"
  <2>1. /\ asks(Idle)
        /\ \/ cmd' = [cmd EXCEPT !.at = "done"]
           \/ /\ q.doc \in Keys(q.list)
              /\ cmd' = [cmd EXCEPT !.at = "claim", !.doc = q.doc, !.token = q.token, !.keys = Keys(q.list)]
    BY <1>16 DEF Answered, LoginAnswered, Ask
  <2>2. CASE /\ q.doc \in Keys(q.list)
             /\ cmd' = [cmd EXCEPT !.at = "claim", !.doc = q.doc, !.token = q.token, !.keys = Keys(q.list)]
    <3>1. cmd'.at = "claim" /\ cmd'.op = cmd.op /\ cmd'.doc = q.doc /\ cmd'.token = q.token /\ cmd'.keys = Keys(q.list)
      BY <1>1, <2>2 DEF NoCmd
    <3>2. q.op = "login" /\ q.list # {} /\ q.doc # 0
      BY <1>1, <1>2, <1>10, <1>16, <2>2 DEF KeysInv, CmdKeyed, AskKeyed
    <3>3. KeysOf(q.token, Keys(q.list), devices, homes) /\ q.doc \in Homes(homes)
      BY <1>4, <3>2 DEF RequestKeys
    <3>4. q.token # 0
      BY <1>3, <3>3 DEF KeysOf
    <3> QED
      BY <1>8, <1>10, <1>16, <2>1, <3>1, <3>3, <3>4 DEF Joining
  <2> QED
    BY <1>7, <2>1, <2>2
<1>17. CASE q.out = "ok" /\ cmd.op = "accept"
  <2>1. asks(Idle) /\ cmd' = [cmd EXCEPT !.at = "key", !.doc = q.doc]
    BY <1>17 DEF Answered, Ask
  <2>2. cmd'.at = "key" /\ cmd'.op = "accept" /\ cmd'.doc = q.doc /\ cmd'.held = cmd.held
    BY <1>1, <1>17, <2>1 DEF NoCmd
  <2>3. /\ q.op = "accept" /\ secrets.token # 0 /\ cmd.held.token = secrets.token
        /\ KeysOf(cmd.held.token, cmd.held.keys, devices, homes)
    BY <1>1, <1>17 DEF KeysInv, CmdKeyed, AcceptKeyed
  <2>4. q.doc \in Doc \ Homes(homes) /\ (q.doc \in Doc => Held(q.doc))
    BY <1>1, <1>4, <1>17, <2>3 DEF RequestKeys, HeldBy, NamesDocs
  <2>5. CmdKeyed'
    BY <1>1, <1>2, <2>2, <2>3, <2>4 DEF CmdKeyed, AcceptKeyed, JoinKeyed, InitKeyed, AskKeyed, Joining
  <2> QED
    BY <1>6, <1>17, <2>1, <2>2, <2>4, <2>5 DEF Joining
<1>18. CASE q.out = "ok" /\ cmd.op \in {"deleteAccount", "password"}
  <2>1. asks(Idle) /\ \E at \in {"done", "claim"} : cmd' = [cmd EXCEPT !.at = at] /\ (at = "claim" => cmd.op = "deleteAccount")
    BY <1>18 DEF Answered, Ask
  <2> QED
    BY <1>7, <2>1
<1> QED
  BY <1>11, <1>12, <1>13, <1>14, <1>15, <1>16, <1>17, <1>18 DEF Answered, RecoverAnswered

\* The password that is to be changed.
LEMMA AskPasswordKeyed ==
  ASSUME AccessInv, HostInv, KeysInv, Remembered, UNCHANGED tables, AskPassword
  PROVE  KeysInv'
<1> DEFINE asks(r) == calls' = [calls EXCEPT ![CmdClient] = r]
<1>1. /\ DOMAIN cmd = DOMAIN NoCmd /\ UNCHANGED <<secrets, row, host, born>> /\ cmd.op = "password"
      /\ CmdClient \in Client
  BY ClientsAssumption DEF AccessInv, Profile, AskPassword, Rest
<1>2. PICK at : cmd' = [cmd EXCEPT !.at = at]
  BY DEF AskPassword
<1>3. cmd'.op = "password"
  BY <1>1, <1>2 DEF NoCmd
<1>4. AskKeyed'
  BY <1>3 DEF AskKeyed
<1>5. CASE HomeKey
  <2> DEFINE q == [Request("password", "auth") EXCEPT !.token = cmd.token,
                              !.password = cmd.password, !.new = cmd.new, !.home = row.primary]
  <2>1. asks(q)
    BY <1>5 DEF AskPassword, Send
  <2>2. q.op = "password" /\ RequestKeys(q, devices, homes) /\ \A d \in Doc : ~HeldBy(q, d)
    BY DEF Request, Idle, RequestKeys, HeldBy
  <2> HIDE DEF q
  <2> QED
    BY <1>1, <1>3, <1>4, <2>1, <2>2, PlainKeyed DEF Joining
<1>6. CASE ~HomeKey
  <2> DEFINE L == {}
  <2>1. UNCHANGED calls
    BY <1>6 DEF AskPassword
  <2>2. L \cap born = {} /\ born \cup L \subseteq born' /\ HostGoesOn
    BY <1>1 DEF HostGoesOn
  <2>3. CmdKeyed'
    BY <1>3, <1>4 DEF CmdKeyed, AcceptKeyed, JoinKeyed, InitKeyed, Joining
  <2>4. CmdHolds(L)
    BY <1>1, <1>3, <2>1, <2>3 DEF CmdHolds, Joining, KeysInv, RequestsKeyed, Local, Held
  <2> HIDE DEF L
  <2> QED
    BY <1>1, <2>1, <2>2, <2>4, CmdStepKeyed
<1> QED
  BY <1>5, <1>6

\* The steps of the commands.
LEMMA CommandKeyed ==
  ASSUME AccessInv, HostInv, KeysInv, Remembered, UNCHANGED tables, CommandStep
  PROVE  KeysInv'
BY BeginKeyed, ClaimKeyed, WriteKeyed, AnswerKeyed, AskPasswordKeyed DEF CommandStep, Command

-----------------------------------------------------------------------------
(* All steps, and the starting points *)

\* Every step keeps the invariant.
LEMMA NextKeyed ==
  ASSUME AccessInv, HostInv, KeysInv, [Next]_vars
  PROVE  KeysInv'
<1>1. CASE Next
  <2>1. AnyStep /\ Remembered
    BY <1>1 DEF Next
  <2>2. CASE /\ \E d \in Doc : RemotePush(d)
             /\ UNCHANGED tables /\ UNCHANGED profileVars /\ UNCHANGED <<calls, host, cmd, born>>
    <3>1. HostGoesOn /\ UNCHANGED <<secrets, row>>
      BY <2>2 DEF HostGoesOn, profileVars
    <3> QED
      BY <2>1, <2>2, <3>1, HostStaysKeyed
  <2>3. CASE SessionStep
    <3>1. UNCHANGED tables /\ UNCHANGED <<born, cmd>>
      BY <2>3 DEF SessionStep
    <3> QED
      BY <2>1, <2>3, <3>1, QuietHostKeyed
  <2> QED
    BY <2>1, <2>2, <2>3, ServerKeyed, PeerKeyed, HostStepKeyed, WorkspaceKeyed, CommandKeyed DEF AnyStep
<1>2. CASE UNCHANGED vars
  <2>1. UNCHANGED <<accounts, docs, members, devices, invites, resets, calls, secrets, row, host, cmd, born, homes>>
    BY <1>2 DEF vars
  <2>2. /\ (Registry <=> Registry') /\ (HomeUnlockable <=> HomeUnlockable')
        /\ (RequestsKeyed <=> RequestsKeyed') /\ (ProfileKeyed <=> ProfileKeyed') /\ (HostKeyed <=> HostKeyed')
    BY <2>1 DEF Registry, HomeUnlockable, IsOwner, IsMember, RequestsKeyed, ProfileKeyed, HostKeyed
  <2>3. CmdKeyed <=> CmdKeyed'
    BY <2>1 DEF CmdKeyed, AcceptKeyed, JoinKeyed, InitKeyed, AskKeyed
  <2>4. \A d \in Doc : (Local(d) <=> Local(d)') /\ (Held(d) <=> Held(d)')
    BY <2>1 DEF Local, Held
  <2>5. (Apart <=> Apart') /\ (Chosen <=> Chosen')
    BY <2>1, <2>4 DEF Apart, Chosen
  <2> QED
    BY <2>2, <2>3, <2>5 DEF KeysInv
<1> QED
  BY <1>1, <1>2

\* The rows of the starting points.
LEMMA InitRegistry ==
  ASSUME Init
  PROVE  Registry /\ HomeUnlockable
<1> DEFINE start == mix.start
           known == start \in {"joined", "shared", "offered"}
           shared == IF start \in {"shared", "offered"} THEN {3} ELSE {}
           third == IF start = "shared" THEN {<<3, "A">>, <<3, "B">>} ELSE shared \X {"B"}
<1>1. "A" \in Account /\ "B" \in Account /\ 1 \in Doc /\ 2 \in Doc /\ 3 \in Doc
  BY StartsAssumption
<1>2. /\ Started(start) /\ invites = <<>> /\ resets = <<>>
      /\ homes = [a \in DOMAIN accounts |-> accounts[a].primary]
  BY DEF Init
<1>3. CASE ~known
  <2>1. accounts = [a \in {} |-> {}] /\ docs = {} /\ members = [k \in {} |-> {}] /\ devices = <<>>
    BY <1>2, <1>3 DEF Started
  <2>2. DOMAIN accounts = {} /\ DOMAIN members = {} /\ DOMAIN devices = {} /\ DOMAIN homes = {}
        /\ DOMAIN invites = {} /\ DOMAIN resets = {}
    BY <1>2, <2>1
  <2> QED
    BY <1>2, <2>1, <2>2 DEF Registry, HomeUnlockable, Homes
<1>4. CASE known
  <2>1. /\ docs = {1, 2} \cup shared /\ devices = <<"A", "B", "A">>
        /\ accounts = [a \in {"A", "B"} |-> [primary |-> IF a = "A" THEN 1 ELSE 2, password |-> 1]]
        /\ members = [k \in {<<1, "A">>, <<2, "B">>} \cup third |->
                        CASE k[1] # 3 -> Member("owner", UnderPassword(1))
                          [] k = <<3, "A">> -> Member("owner", UnderHome(1))
                          [] k = <<3, "B">> -> Member(IF start = "shared" THEN "member"
                                                      ELSE "owner", UnderHome(2))]
    BY <1>2, <1>4 DEF Started
  <2>2. /\ DOMAIN accounts = {"A", "B"} /\ accounts["A"].primary = 1 /\ accounts["B"].primary = 2
        /\ accounts["A"].password = 1 /\ accounts["B"].password = 1
    BY <2>1
  <2>3. homes = [a \in DOMAIN homes |-> homes[a]] /\ DOMAIN homes = {"A", "B"} /\ homes["A"] = 1 /\ homes["B"] = 2
    BY <1>2, <2>2
  <2>4. Homes(homes) = {1, 2}
    BY <2>3 DEF Homes
  <2>5. DOMAIN members = {<<1, "A">>, <<2, "B">>} \cup third
    BY <2>1
  <2>6. /\ third \subseteq {<<3, "A">>, <<3, "B">>} /\ shared \subseteq {3}
        /\ <<3, "A">> \in third => start = "shared"
    BY <1>4
  <2>7. /\ members[<<1, "A">>] = Member("owner", UnderPassword(1))
        /\ members[<<2, "B">>] = Member("owner", UnderPassword(1))
        /\ <<3, "A">> \in third => members[<<3, "A">>] = Member("owner", UnderHome(1))
        /\ <<3, "B">> \in third => \E role : members[<<3, "B">>] = Member(role, UnderHome(2))
    BY <2>1, <2>5
  <2>8. \A t \in DOMAIN devices : devices[t] \in {"A", "B"}
    BY <2>1
  <2>9. DOMAIN invites = {} /\ DOMAIN resets = {}
    BY <1>2
  <2> HIDE DEF third, shared, known, start
  <2>10. \A d, a : <<d, a>> \in DOMAIN members =>
           \/ d = 1 /\ a = "A"
           \/ d = 2 /\ a = "B"
           \/ d = 3 /\ a \in {"A", "B"} /\ <<d, a>> \in third
    BY <2>5, <2>6
  <2>11. Registry
    <3>1. \A a \in DOMAIN accounts, b \in Account : <<accounts[a].primary, b>> \in DOMAIN members => b = a
      BY <2>2, <2>10
    <3>2. \A d \in Doc, a \in Account : <<d, a>> \in DOMAIN members => a \in DOMAIN accounts
      BY <2>2, <2>10
    <3>3. \A d \in docs \cap Homes(homes) : \E a \in DOMAIN accounts : accounts[a].primary = d
      BY <2>2, <2>4
    <3>4. \A a \in DOMAIN accounts : homes[a] = accounts[a].primary
      BY <2>2, <2>3
    <3> QED
      BY <1>1, <2>2, <2>3, <2>4, <2>8, <2>9, <3>1, <3>2, <3>3, <3>4 DEF Registry
  <2>12. HomeUnlockable
    <3>1. \A r, w : Member(r, w).wrap = w /\ Member(r, w).role = r /\ ~Member(r, w).removed
      BY DEF Member
    <3>2. IsOwner(1, "A") /\ members[<<1, "A">>].wrap = UnderPassword(1)
      BY <2>5, <2>7, <3>1 DEF IsOwner, IsMember
    <3>3. IsOwner(2, "B") /\ members[<<2, "B">>].wrap = UnderPassword(1)
      BY <2>5, <2>7, <3>1 DEF IsOwner, IsMember
    <3>4. ASSUME NEW d \in docs \ {1}, IsMember(d, "A") PROVE members[<<d, "A">>].wrap = UnderHome(1)
      BY <2>7, <2>10, <3>1, <3>4 DEF IsMember
    <3>5. ASSUME NEW d \in docs \ {2}, IsMember(d, "B") PROVE members[<<d, "B">>].wrap = UnderHome(2)
      BY <2>7, <2>10, <3>1, <3>5 DEF IsMember
    <3>6. ASSUME NEW a \in {"A", "B"}, NEW home, home = accounts[a].primary
          PROVE  /\ IsOwner(home, a)
                 /\ members[<<home, a>>].wrap = UnderPassword(accounts[a].password)
                 /\ \A d \in docs \ {home} : IsMember(d, a) => members[<<d, a>>].wrap = UnderHome(home)
      <4>1. CASE a = "A"
        BY <2>2, <3>2, <3>4, <3>6, <4>1
      <4>2. CASE a = "B"
        BY <2>2, <3>3, <3>5, <3>6, <4>2
      <4> QED
        BY <4>1, <4>2
    <3> QED
      BY <2>2, <3>6 DEF HomeUnlockable
  <2> QED
    BY <2>11, <2>12
<1> QED
  BY <1>3, <1>4

\* It holds at every starting point.
LEMMA InitKeyedAll ==
  ASSUME Init
  PROVE  KeysInv
<1> DEFINE start == mix.start
           known == start \in {"joined", "shared", "offered"}
           own == IF start = "fresh" THEN {} ELSE IF start = "shared" THEN {1, 3} ELSE {1}
<1>1. /\ Started(start) /\ calls = [c \in Client |-> Idle] /\ host = Off /\ cmd = NoCmd
      /\ homes = [a \in DOMAIN accounts |-> accounts[a].primary]
  BY DEF Init
<1>2. /\ host.state = "off" /\ cmd.at = None /\ cmd.op = None /\ CmdClient \in Client
      /\ \A c \in Client : calls[c] = Idle
  BY <1>1, ClientsAssumption DEF Off, NoCmd
<1>3. Registry /\ HomeUnlockable
  BY InitRegistry
<1>4. /\ RequestKeys(Idle, devices, homes) /\ Idle.op = None /\ \A d \in Doc : ~HeldBy(Idle, d)
  BY DEF RequestKeys, Idle, HeldBy, None
<1>5. RequestsKeyed
  BY <1>2, <1>4 DEF RequestsKeyed, None
<1>6. HostKeyed /\ CmdKeyed
  BY <1>2 DEF HostKeyed, CmdKeyed, AcceptKeyed, JoinKeyed, InitKeyed, AskKeyed, Joining, None
<1>7. born = docs \cup own
  BY <1>1 DEF Started
<1>8. secrets.keys = own
  <2>1. secrets = IF own = {} THEN NoFile ELSE SecretsFile(IF known THEN 1 ELSE 0, own)
    BY <1>1 DEF Started
  <2> HIDE DEF own, known
  <2> QED
    BY <2>1 DEF SecretsFile, NoFile
<1>9. \A d \in Doc : /\ Local(d) <=> secrets.token = 0 /\ d \in own
                     /\ Held(d) <=> secrets.token # 0 /\ d \in own
  <2> HIDE DEF own
  <2> QED
    BY <1>2, <1>4, <1>8 DEF Local, Held, Joining, None
<1>10. CASE ~known
  <2>1. secrets.token = 0
    BY <1>1, <1>10 DEF Started, SecretsFile, NoFile
  <2>2. docs = {} /\ Homes(homes) = {}
    <3>1. docs = {} /\ accounts = [a \in {} |-> {}]
      BY <1>1, <1>10 DEF Started
    <3>2. DOMAIN homes = {}
      BY <1>1, <3>1
    <3> QED
      BY <3>1, <3>2 DEF Homes
  <2>3. ProfileKeyed
    BY <2>1 DEF ProfileKeyed
  <2> HIDE DEF own
  <2>4. Apart /\ Chosen
    BY <1>7, <1>9, <2>1, <2>2 DEF Apart, Chosen
  <2> QED
    BY <1>3, <1>5, <1>6, <2>3, <2>4 DEF KeysInv
<1>11. CASE known
  <2>1. /\ secrets.token = 1 /\ devices = <<"A", "B", "A">> /\ row.primary = 1
        /\ docs = {1, 2} \cup (IF start \in {"shared", "offered"} THEN {3} ELSE {})
        /\ accounts = [a \in {"A", "B"} |-> [primary |-> IF a = "A" THEN 1 ELSE 2, password |-> 1]]
    BY <1>1, <1>11 DEF Started, SecretsFile, AccountRow, NoFile
  <2>2. DOMAIN homes = {"A", "B"} /\ homes["A"] = 1 /\ homes["B"] = 2
    BY <1>1, <2>1
  <2>3. Homes(homes) = {1, 2}
    BY <2>2 DEF Homes
  <2>4. 1 \in DOMAIN devices /\ devices[1] = "A"
    BY <2>1
  <2>5. own \subseteq {1, 3}
    OBVIOUS
  <2> HIDE DEF own, known, start
  <2>6. KeysOf(1, own, devices, homes)
    BY <2>2, <2>3, <2>4, <2>5 DEF KeysOf, NoFile
  <2>7. ProfileKeyed
    BY <1>8, <2>1, <2>3, <2>6 DEF ProfileKeyed
  <2>8. Homes(homes) \subseteq docs
    BY <2>1, <2>3
  <2>9. Apart /\ Chosen
    BY <1>7, <1>9, <2>1, <2>8 DEF Apart, Chosen
  <2> QED
    BY <1>3, <1>5, <1>6, <2>7, <2>9 DEF KeysInv
<1> QED
  BY <1>10, <1>11

\* Tokens, keys and Homes stay together through every interleaving, crash and
\* lost reply: a request wraps a key under Home of the account its token stands
\* for (http/docs.rs, commands/share.rs, bootstrap.rs).
THEOREM KeysHold == Spec => []KeysInv
<1>1. Init => AccessInv /\ HostInv /\ KeysInv
  BY InitOK, InitKeeps, InitKeyedAll
<1>2. AccessInv /\ HostInv /\ KeysInv /\ [Next]_vars => (AccessInv /\ HostInv /\ KeysInv)'
  BY NextOK, NextKeeps, NextKeyed
<1> QED
  BY <1>1, <1>2, PTL DEF Spec

\* A login ends with every key: the password the server accepts opens Home's
\* key, and Home's key every other one, whatever password changes, recoveries,
\* invites, removals and deletions came before (unwrap_home,
\* unwrap_memberships).
THEOREM HomesOpen == Spec => []HomeUnlockable
<1>1. KeysInv => HomeUnlockable
  BY DEF KeysInv
<1> QED
  BY <1>1, KeysHold, PTL
=============================================================================
