---------------------------- MODULE AccessProofs ----------------------------
(***************************************************************************)
(* The tables and routes of HostSystem implement DocAccess, whatever the   *)
(* accounts, documents, clients and connections. A lemma for each route    *)
(* shows that its call to the database keeps the tables (Tables), keeps    *)
(* what the requests under way rely on (Requests), and maps to one step of *)
(* DocAccess or to none (Allowed).                                         *)
(***************************************************************************)
EXTENDS AccessInvariant, TLAPS

\* No row disappears: those that end keep their place.
Grows == DOMAIN invites \subseteq DOMAIN invites' /\ DOMAIN resets \subseteq DOMAIN resets'

\* A request whose route has gone on, or that was answered.
LEMMA Replaced ==
  ASSUME Requests, NEW c \in Client, NEW q, calls' = [calls EXCEPT ![c] = q],
         RequestOK(q, DOMAIN invites', DOMAIN resets'), Grows
  PROVE  Requests'
<1>1. calls' = [x \in Client |-> calls'[x]] BY DEF Requests
<1>2. ASSUME NEW x \in Client PROVE RequestOK(calls'[x], DOMAIN invites', DOMAIN resets')
  <2>1. CASE x = c BY <2>1 DEF Requests
  <2>2. CASE x # c
    <3>1. calls'[x] = calls[x] /\ RequestOK(calls[x], DOMAIN invites, DOMAIN resets) BY <2>2 DEF Requests
    <3> QED BY <3>1 DEF RequestOK, Grows
  <2> QED BY <2>1, <2>2
<1> QED BY <1>1, <1>2 DEF Requests

\* An answer keeps what the requests keep to.
LEMMA Answered_ ==
  ASSUME Requests, NEW c \in Client, NEW out, Answer(c, out), Grows,
         calls[c].at # "close", calls[c].op = "recover" => out # "ok"
  PROVE  Requests'
<1> DEFINE q == [calls[c] EXCEPT !.at = "answered", !.out = out]
<1>1. RequestOK(calls[c], DOMAIN invites, DOMAIN resets) BY DEF Requests
<1>2. calls' = [calls EXCEPT ![c] = q] BY <1>1 DEF Answer, Requests, RequestOK, Idle
<1>3. RequestOK(q, DOMAIN invites', DOMAIN resets') BY <1>1 DEF RequestOK, Idle, Grows
<1> HIDE DEF q
<1> QED BY <1>2, <1>3, Replaced

\* So does a route that goes on to its next call.
LEMMA Gone ==
  ASSUME Requests, NEW c \in Client, NEW at, Goto(c, at),
         calls[c].at # "close", at \notin {"close", "purge", "answered"}, Grows
  PROVE  Requests'
<1> DEFINE q == [calls[c] EXCEPT !.at = at]
<1>1. RequestOK(calls[c], DOMAIN invites, DOMAIN resets) BY DEF Requests
<1>2. calls' = [calls EXCEPT ![c] = q] BY <1>1 DEF Goto, Requests, RequestOK, Idle
<1>3. RequestOK(q, DOMAIN invites', DOMAIN resets') BY <1>1 DEF RequestOK, Idle, Grows
<1> HIDE DEF q
<1> QED BY <1>2, <1>3, Replaced

-----------------------------------------------------------------------------
(* The view of the tables that access depends on *)

Same ==
  \A d, a : (IsMember(d, a)' <=> IsMember(d, a)) /\ (IsOwner(d, a)' <=> IsOwner(d, a))

Allowed == Access!Next \/ UNCHANGED <<OwnerOf, Guests, Offers>>

Step == Tables' /\ Requests' /\ Allowed

\* The owner the mapping chooses is the one owner there is.
LEMMA OwnerOfIs ==
  ASSUME MemberRows, Owners, NEW d \in docs
  PROVE  /\ OwnerOf[d] \in Account
         /\ \A a \in Account : IsOwner(d, a) <=> a = OwnerOf[d]
<1>1. PICK a \in Account : IsOwner(d, a) BY DEF Owners
<1>2. OwnerOf[d] \in Account /\ IsOwner(d, OwnerOf[d]) BY <1>1 DEF OwnerOf, IsOwner, IsMember
<1> QED BY <1>2 DEF Owners

\* The same after a step.
LEMMA OwnerOfWillBe ==
  ASSUME MemberRows', Owners', NEW d \in docs'
  PROVE  /\ OwnerOf'[d] \in Account
         /\ \A a \in Account : IsOwner(d, a)' <=> a = OwnerOf'[d]
<1>1. PICK a \in Account : IsOwner(d, a)' BY DEF Owners
<1>2. OwnerOf'[d] \in Account /\ IsOwner(d, OwnerOf[d])' BY <1>1 DEF OwnerOf, IsOwner, IsMember
<1> QED BY <1>2 DEF Owners

\* Owners and guests are functions of who is a member and who an owner.
LEMMA SameView ==
  ASSUME MemberRows, Owners, MemberRows', Owners', Same, docs' = docs
  PROVE  OwnerOf' = OwnerOf /\ Guests' = Guests
<1>1. ASSUME NEW d \in docs PROVE OwnerOf'[d] = OwnerOf[d]
  BY OwnerOfIs, OwnerOfWillBe DEF Same
<1>2. OwnerOf' = OwnerOf BY <1>1 DEF OwnerOf, IsOwner, IsMember
<1>3. Guests' = Guests BY DEF Same, Guests, IsOwner, IsMember
<1> QED BY <1>2, <1>3

\* Nothing that access depends on changes.
LEMMA Quiet ==
  ASSUME Tables, AccountRows', MemberRows', Same, docs' = docs, invites' = invites,
         Credentials'
  PROVE  Tables' /\ Allowed
<1>1. Owners' BY DEF Tables, Owners, Same
<1>2. Invites' BY DEF Tables, Invites, Same
<1>3. OwnerOf' = OwnerOf /\ Guests' = Guests BY <1>1, SameView DEF Tables
<1>4. Offers' = Offers BY DEF Offers
<1> QED BY <1>1, <1>2, <1>3, <1>4 DEF Tables, Allowed

\* A step that changes no table is a stuttering step of DocAccess.
LEMMA Untouched ==
  ASSUME Tables, UNCHANGED tables
  PROVE  Tables' /\ Allowed
<1>1. Same BY DEF Same, IsMember, IsOwner, tables
<1>2. AccountRows' BY DEF Tables, AccountRows, tables
<1>3. MemberRows' BY DEF Tables, MemberRows, tables
<1>4. Credentials' BY DEF Tables, Credentials, tables
<1> QED BY <1>1, <1>2, <1>3, <1>4, Quiet DEF tables

\* A refusal changes no table.
LEMMA Refused ==
  ASSUME Tables, Requests, NEW c \in Client, NEW out, Refuse(c, out),
         calls[c].at # "close", out # "ok"
  PROVE  Step
<1>1. Tables' /\ Allowed BY Untouched DEF Refuse
<1>2. Requests' BY Answered_ DEF Refuse, tables, Grows
<1> QED BY <1>1, <1>2 DEF Step

-----------------------------------------------------------------------------
(* Routes that touch no table, or only devices and recovery sessions *)

\* The account of the token is read; nothing is written.
LEMMA AuthenticateStep ==
  ASSUME AccessInv, NEW c \in Client, Authenticate(c)
  PROVE  Step
<1> DEFINE a == DeviceAccount(calls[c].token)
           q == [calls[c] EXCEPT !.at = "run", !.account = a]
<1>1. RequestOK(calls[c], DOMAIN invites, DOMAIN resets) BY DEF AccessInv, Requests
<1>2. Tables' /\ Allowed BY Untouched DEF AccessInv, Authenticate
<1>3. invites' = invites /\ resets' = resets BY DEF Authenticate, tables
<1>4. a \in Account \cup {None} BY DEF DeviceAccount, AccessInv, Tables, Credentials
<1>5. CASE a # None
  <2>1. calls' = [calls EXCEPT ![c] = q]
    BY <1>1, <1>5 DEF Authenticate, AccessInv, Requests, RequestOK, Idle
  <2>2. RequestOK(q, DOMAIN invites', DOMAIN resets')
    BY <1>1, <1>3, <1>4, <1>5 DEF RequestOK, Idle, Authenticate
  <2> HIDE DEF q
  <2>3. Requests' BY <2>1, <2>2, <1>3, Replaced DEF AccessInv, Grows
  <2> QED BY <2>3, <1>2 DEF Step
<1>6. CASE a = None
  <2>1. Answer(c, "Unauthorized") BY <1>6 DEF Authenticate
  <2>2. Requests' BY <2>1, <1>3, Answered_ DEF AccessInv, Grows, Authenticate
  <2> QED BY <2>2, <1>2 DEF Step
<1> QED BY <1>5, <1>6

\* Login and password change compare hashes before they write.
LEMMA VerifyStep ==
  ASSUME AccessInv, NEW c \in Client, LoginVerify(c) \/ PasswordVerify(c)
  PROVE  Step
<1>1. Tables' /\ Allowed BY Untouched DEF AccessInv, LoginVerify, PasswordVerify
<1>2. invites' = invites /\ resets' = resets BY DEF LoginVerify, PasswordVerify, tables
<1>3. calls[c].at # "close" BY DEF LoginVerify, PasswordVerify, At
<1>4. \/ Goto(c, "device")
      \/ Goto(c, "update")
      \/ Answer(c, "InvalidCredentials")
  BY DEF LoginVerify, PasswordVerify
<1>5. Requests' BY <1>2, <1>3, <1>4, Gone, Answered_ DEF AccessInv, Grows
<1> QED BY <1>1, <1>5 DEF Step

\* So does account deletion, which goes on with an account there is.
LEMMA DeleteAccountVerifyStep ==
  ASSUME AccessInv, NEW c \in Client, DeleteAccountVerify(c)
  PROVE  Step
<1> DEFINE q == [calls[c] EXCEPT !.at = "purge"]
<1>1. RequestOK(calls[c], DOMAIN invites, DOMAIN resets) BY DEF AccessInv, Requests
<1>2. Tables' /\ Allowed BY Untouched DEF AccessInv, DeleteAccountVerify
<1>3. invites' = invites /\ resets' = resets BY DEF DeleteAccountVerify, tables
<1>4. CASE PasswordIs(c)
  <2>1. calls' = [calls EXCEPT ![c] = q]
    BY <1>1, <1>4 DEF DeleteAccountVerify, Goto, AccessInv, Requests, RequestOK, Idle
  <2>2. calls[c].account \in Account
    BY <1>4 DEF PasswordIs, AccessInv, Tables, AccountRows
  <2>3. RequestOK(q, DOMAIN invites', DOMAIN resets')
    BY <1>1, <1>3, <2>2 DEF RequestOK, Idle, DeleteAccountVerify, At
  <2> HIDE DEF q
  <2>4. Requests' BY <2>1, <2>3, <1>3, Replaced DEF AccessInv, Grows
  <2> QED BY <2>4, <1>2 DEF Step
<1>5. CASE ~PasswordIs(c)
  <2>1. Answer(c, "InvalidCredentials") BY <1>5 DEF DeleteAccountVerify
  <2>2. Requests' BY <2>1, <1>3, Answered_ DEF AccessInv, Grows, DeleteAccountVerify, At
  <2> QED BY <2>2, <1>2 DEF Step
<1> QED BY <1>4, <1>5

\* The memberships are read.
LEMMA ListDocsStep ==
  ASSUME AccessInv, NEW c \in Client, ListDocs(c)
  PROVE  Step
<1> DEFINE q == [calls[c] EXCEPT !.at = "answered", !.out = "ok",
                                 !.list = Memberships(calls[c].account)]
<1>1. RequestOK(calls[c], DOMAIN invites, DOMAIN resets) BY DEF AccessInv, Requests
<1>2. Tables' /\ Allowed BY Untouched DEF AccessInv, ListDocs
<1>3. invites' = invites /\ resets' = resets BY DEF ListDocs, tables
<1>4. calls' = [calls EXCEPT ![c] = q]
  BY <1>1 DEF ListDocs, AccessInv, Requests, RequestOK, Idle
<1>5. RequestOK(q, DOMAIN invites', DOMAIN resets') BY <1>1, <1>3 DEF RequestOK, Idle, ListDocs, At
<1> HIDE DEF q
<1>6. Requests' BY <1>3, <1>4, <1>5, Replaced DEF AccessInv, Grows
<1> QED BY <1>2, <1>6 DEF Step

\* The recovery code names the Home document of its account.
LEMMA RecoverVerifyStep ==
  ASSUME AccessInv, NEW c \in Client, RecoverVerify(c)
  PROVE  Step
<1> DEFINE a == calls[c].account
           q == [calls[c] EXCEPT !.at = "session", !.doc = accounts[a].primary]
<1>1. RequestOK(calls[c], DOMAIN invites, DOMAIN resets) BY DEF AccessInv, Requests
<1>2. Tables' /\ Allowed BY Untouched DEF AccessInv, RecoverVerify
<1>3. invites' = invites /\ resets' = resets BY DEF RecoverVerify, tables
<1>4. CASE a \in DOMAIN accounts
  <2>1. calls' = [calls EXCEPT ![c] = q]
    BY <1>1, <1>4 DEF RecoverVerify, AccessInv, Requests, RequestOK, Idle
  <2>2. accounts[a].primary \in Doc BY <1>4 DEF AccessInv, Tables, AccountRows
  <2>3. RequestOK(q, DOMAIN invites', DOMAIN resets')
    BY <1>1, <1>3, <2>2 DEF RequestOK, Idle, RecoverVerify, At
  <2> HIDE DEF q
  <2>4. Requests' BY <2>1, <2>3, <1>3, Replaced DEF AccessInv, Grows
  <2> QED BY <2>4, <1>2 DEF Step
<1>5. CASE a \notin DOMAIN accounts
  <2>1. Answer(c, "InvalidCredentials") BY <1>5 DEF RecoverVerify
  <2>2. Requests' BY <2>1, <1>3, Answered_ DEF AccessInv, Grows, RecoverVerify, At
  <2> QED BY <2>2, <1>2 DEF Step
<1> QED BY <1>4, <1>5

\* The rows of members, docs and invites are left alone.
LEMMA RowsKept ==
  ASSUME Tables, UNCHANGED <<accounts, docs, members, invites>>,
         Credentials'
  PROVE  Tables' /\ Allowed
<1>1. Same BY DEF Same, IsMember, IsOwner
<1>2. AccountRows' BY DEF Tables, AccountRows
<1>3. MemberRows' BY DEF Tables, MemberRows
<1> QED BY <1>1, <1>2, <1>3, Quiet

\* A device is a row of its own.
LEMMA CreateDeviceStep ==
  ASSUME AccessInv, NEW c \in Client, NEW at \in {"list", "answered"}, CreateDevice(c, at),
         calls[c].at # "close", calls[c].op # "recover"
  PROVE  Step
<1> DEFINE a == calls[c].account
           q == [calls[c] EXCEPT !.at = at, !.token = Len(devices) + 1,
                                 !.doc = accounts[a].primary, !.out = "ok"]
<1>1. RequestOK(calls[c], DOMAIN invites, DOMAIN resets) BY DEF AccessInv, Requests
<1>2. CASE a \in DOMAIN accounts
  <2>1. a \in Account /\ accounts[a].primary \in Doc
    BY <1>2 DEF AccessInv, Tables, AccountRows
  <2>2. Credentials'
    BY <1>2, <2>1 DEF CreateDevice, AccessInv, Tables, Credentials
  <2>3. UNCHANGED <<accounts, docs, members, invites, resets>> BY <1>2 DEF CreateDevice
  <2>4. Tables' /\ Allowed BY <2>2, <2>3, RowsKept DEF AccessInv
  <2>5. calls' = [calls EXCEPT ![c] = q]
    BY <1>1, <1>2 DEF CreateDevice, AccessInv, Requests, RequestOK, Idle
  <2>6. RequestOK(q, DOMAIN invites', DOMAIN resets') BY <1>1, <2>1, <2>3 DEF RequestOK, Idle
  <2> HIDE DEF q
  <2>7. Requests' BY <2>3, <2>5, <2>6, Replaced DEF AccessInv, Grows
  <2> QED BY <2>4, <2>7 DEF Step
<1>3. CASE a \notin DOMAIN accounts
  BY <1>3, Refused DEF CreateDevice, AccessInv
<1> QED BY <1>2, <1>3

\* A recovery session is answered with the row just added.
LEMMA RecoverSessionStep ==
  ASSUME AccessInv, NEW c \in Client, RecoverSession(c)
  PROVE  Step
<1> DEFINE q == [calls[c] EXCEPT !.at = "answered", !.out = "ok", !.row = Len(resets) + 1]
<1>1. RequestOK(calls[c], DOMAIN invites, DOMAIN resets) BY DEF AccessInv, Requests
<1>2. CASE calls[c].account \in DOMAIN accounts
  <2>1. UNCHANGED <<accounts, docs, members, invites>> /\ devices' = devices
    BY <1>2 DEF RecoverSession
  <2>6. calls[c].account \in Account BY <1>2 DEF AccessInv, Tables, AccountRows
  <2>7. Credentials' /\ Len(resets) + 1 \in DOMAIN resets' /\ Grows
    <3> DEFINE s == [account |-> calls[c].account, state |-> "open"]
    <3>1. s \in [account : Account, state : RowState] BY <2>6 DEF RowState
    <3>2. resets' = Append(resets, s) BY <1>2 DEF RecoverSession
    <3> HIDE DEF s
    <3> QED BY <2>1, <3>1, <3>2 DEF AccessInv, Tables, Credentials, Grows
  <2>2. Tables' /\ Allowed BY <2>1, <2>7, RowsKept DEF AccessInv, Tables
  <2>3. calls' = [calls EXCEPT ![c] = q]
    BY <1>1, <1>2 DEF RecoverSession, AccessInv, Requests, RequestOK, Idle
  <2>4. RequestOK(q, DOMAIN invites', DOMAIN resets') 
    BY <1>1, <2>1, <2>7 DEF RequestOK, Idle, RecoverSession, At
  <2> HIDE DEF q
  <2>5. Requests' BY <2>3, <2>4, <2>7, Replaced DEF AccessInv
  <2> QED BY <2>2, <2>5 DEF Step
<1>3. CASE calls[c].account \notin DOMAIN accounts
  BY <1>3, Refused DEF RecoverSession, AccessInv, At
<1> QED BY <1>2, <1>3

\* A revoked device keeps its row, with no account.
LEMMA RevokeDeviceStep ==
  ASSUME AccessInv, NEW c \in Client, RevokeDevice(c)
  PROVE  Step
<1> DEFINE q == calls[c]
<1>1. CASE q.row \in DOMAIN devices /\ devices[q.row] = q.account
  <2>1. UNCHANGED <<accounts, docs, members, invites, resets>> /\ Answer(c, "ok")
    BY <1>1 DEF RevokeDevice
  <2>2. Credentials'
    BY <1>1 DEF RevokeDevice, AccessInv, Tables, Credentials
  <2>3. Tables' /\ Allowed BY <2>1, <2>2, RowsKept DEF AccessInv
  <2>4. Requests' BY <2>1, Answered_ DEF AccessInv, Grows, RevokeDevice, At
  <2> QED BY <2>3, <2>4 DEF Step
<1>2. CASE ~(q.row \in DOMAIN devices /\ devices[q.row] = q.account)
  BY <1>2, Refused DEF RevokeDevice, AccessInv, At
<1> QED BY <1>1, <1>2

-----------------------------------------------------------------------------
(* Passwords *)

\* A password update rewraps one key and changes no membership.
LEMMA SetPasswordKeeps ==
  ASSUME Tables, NEW a, NEW new, SetPassword(a, new), UNCHANGED <<docs, invites>>, Credentials'
  PROVE  Tables' /\ Allowed
<1>1. AccountRows' BY DEF Tables, AccountRows, SetPassword
<1> DEFINE k == <<accounts[a].primary, a>>
<1>2. members' = [members EXCEPT ![k].wrap = UnderPassword(new)] BY DEF SetPassword
<1> HIDE DEF k
<1>3. /\ DOMAIN members' = DOMAIN members
      /\ members' = [j \in DOMAIN members |-> members'[j]]
      /\ \A j \in DOMAIN members :
           /\ DOMAIN members'[j] = {"role", "removed", "wrap"}
           /\ members'[j].removed = members[j].removed
           /\ members'[j].role = members[j].role
  BY <1>2 DEF Tables, MemberRows
<1>4. MemberRows' BY <1>3 DEF Tables, MemberRows
<1>5. Same BY <1>3 DEF Same, IsMember, IsOwner
<1> QED BY <1>1, <1>4, <1>5, Quiet DEF Tables

\* A password change by one who knows the password.
LEMMA PasswordUpdateStep ==
  ASSUME AccessInv, NEW c \in Client, PasswordUpdate(c)
  PROVE  Step
<1> DEFINE q == calls[c]
           ok == q.account \in DOMAIN accounts /\ accounts[q.account].primary = q.home
<1>1. CASE ok
  <2>1. /\ SetPassword(q.account, q.new)
        /\ UNCHANGED <<docs, devices, invites, resets>>
        /\ Answer(c, "ok")
    BY <1>1 DEF PasswordUpdate
  <2>4. Credentials' BY <2>1 DEF AccessInv, Tables, Credentials
  <2>2. Tables' /\ Allowed BY <2>1, <2>4, SetPasswordKeeps DEF AccessInv
  <2>3. Requests' BY <2>1, Answered_ DEF AccessInv, Grows, PasswordUpdate, At
  <2> QED BY <2>2, <2>3 DEF Step
<1>2. CASE ~ok
  BY <1>2, Refused DEF PasswordUpdate, AccessInv, At
<1> QED BY <1>1, <1>2

\* An element of a sequence is of its elements' type.
LEMMA InSeq ==
  ASSUME NEW S, NEW s \in Seq(S), NEW r \in DOMAIN s
  PROVE  s[r] \in S
OBVIOUS

\* A recovery session whose state changes is still one.
LEMMA ResetState ==
  ASSUME NEW A, NEW s \in Seq([account : A, state : RowState]), NEW r \in DOMAIN s,
         NEW v \in RowState
  PROVE  /\ [s EXCEPT ![r].state = v] \in Seq([account : A, state : RowState])
         /\ DOMAIN [s EXCEPT ![r].state = v] = DOMAIN s
<1> DEFINE x == [s[r] EXCEPT !.state = v]
<1>1. s[r] \in [account : A, state : RowState] BY InSeq
<1>2. x \in [account : A, state : RowState] BY <1>1
<1>3. [s EXCEPT ![r].state = v] = [s EXCEPT ![r] = x] BY <1>1
<1> HIDE DEF x
<1>4. [s EXCEPT ![r] = x] \in Seq([account : A, state : RowState]) BY <1>2
<1> QED BY <1>3, <1>4

\* An open recovery session is one of an account.
LEMMA PasswordResetStep ==
  ASSUME AccessInv, NEW c \in Client, PasswordReset(c)
  PROVE  Step
<1> DEFINE r == calls[c].row
           a == resets[r].account
           q == [calls[c] EXCEPT !.at = "device", !.account = a]
<1>1. /\ RequestOK(calls[c], DOMAIN invites, DOMAIN resets)
      /\ calls[c].at = "run"
      /\ calls[c].op = "reset"
  BY DEF AccessInv, Requests, PasswordReset, At
<1>2. r \in DOMAIN resets /\ a \in Account
  <2>1. r \in DOMAIN resets BY <1>1 DEF RequestOK
  <2>2. resets \in Seq([account : Account, state : RowState]) BY DEF AccessInv, Tables, Credentials
  <2> HIDE DEF r
  <2>3. resets[r] \in [account : Account, state : RowState] BY <2>1, <2>2, InSeq
  <2> QED BY <2>1, <2>3
<1>3. CASE Refuse(c, "RecoverySessionInvalid")
  BY <1>1, <1>3, Refused DEF AccessInv
<1>4. CASE Refuse(c, "DocKeysMismatch")
  BY <1>1, <1>4, Refused DEF AccessInv
<1>5. CASE /\ SetPassword(a, calls[c].new)
           /\ resets' = [resets EXCEPT ![r].state = "consumed"]
           /\ calls' = [calls EXCEPT ![c].at = "device", ![c].account = a]
           /\ UNCHANGED <<docs, devices, invites>>
  <2>1. Credentials' /\ DOMAIN resets' = DOMAIN resets
    BY <1>2, <1>5, ResetState DEF AccessInv, Tables, Credentials, RowState
  <2>2. Tables' /\ Allowed BY <1>5, <2>1, SetPasswordKeeps DEF AccessInv
  <2>3. calls' = [calls EXCEPT ![c] = q]
    BY <1>1, <1>5 DEF AccessInv, Requests, RequestOK, Idle
  <2>4. RequestOK(q, DOMAIN invites', DOMAIN resets')
    BY <1>1, <1>2, <1>5, <2>1 DEF RequestOK, Idle
  <2> HIDE DEF q
  <2>5. Requests' BY <1>5, <2>1, <2>3, <2>4, Replaced DEF AccessInv, Grows
  <2> QED BY <2>2, <2>5 DEF Step
<1> QED BY <1>3, <1>4, <1>5 DEF PasswordReset

-----------------------------------------------------------------------------
(* Documents *)

\* A new document with its owner.
LEMMA Founded ==
  ASSUME Tables, NEW d \in Doc \ docs, NEW a \in Account, NEW w,
         docs' = docs \cup {d}, members' = Put(members, <<d, a>>, Member("owner", w)),
         invites' = invites, AccountRows', Credentials'
  PROVE  Tables' /\ Allowed
<1>1. \A e, b : /\ IsMember(e, b)' <=> (e = d /\ b = a) \/ IsMember(e, b)
                /\ IsOwner(e, b)' <=> (e = d /\ b = a) \/ IsOwner(e, b)
  BY DEF IsMember, IsOwner, Put, Member, Tables, MemberRows
<1>2. MemberRows'
  <2> DEFINE k == <<d, a>>
             m == Member("owner", w)
  <2>1. DOMAIN m = {"role", "removed", "wrap"} /\ m.removed \in BOOLEAN BY DEF Member
  <2>2. k \in docs' \X Account /\ docs \X Account \subseteq docs' \X Account OBVIOUS
  <2>3. members' = Put(members, k, m) OBVIOUS
  <2> HIDE DEF k, m
  <2> QED BY <2>1, <2>2, <2>3 DEF Tables, MemberRows, Put
<1>3. \A b : ~IsOwner(d, b) /\ ~IsMember(d, b)
  BY DEF IsOwner, IsMember, Tables, MemberRows
<1>4. Owners' BY <1>1, <1>3 DEF Tables, Owners
<1>5. Invites' BY <1>1 DEF Tables, Invites
<1>6. \A e \in docs : OwnerOf'[e] = OwnerOf[e]
  BY <1>1, <1>2, <1>4, OwnerOfIs, OwnerOfWillBe DEF Tables
<1>7. OwnerOf'[d] = a BY <1>1, <1>2, <1>4, OwnerOfWillBe
<1>8. DOMAIN OwnerOf = docs /\ DOMAIN OwnerOf' = docs \cup {d} BY DEF OwnerOf
<1>9. OwnerOf' = [e \in DOMAIN OwnerOf \cup {d} |-> IF e = d THEN a ELSE OwnerOf[e]]
  <2>1. OwnerOf' = [e \in DOMAIN OwnerOf' |-> OwnerOf'[e]] BY DEF OwnerOf
  <2> QED BY <1>6, <1>7, <1>8, <2>1
<1>10. Guests' = Guests
  <2>1. ASSUME NEW e, NEW b PROVE <<e, b>> \in Guests' <=> <<e, b>> \in Guests
    BY <1>1, <1>3 DEF Guests, IsMember, IsOwner
  <2> QED BY <2>1 DEF Guests
<1>11. Offers' = Offers BY DEF Offers
<1>12. Access!Found(d, a) BY <1>8, <1>9, <1>10, <1>11 DEF Access!Found
<1> QED BY <1>2, <1>4, <1>5, <1>12 DEF Tables, Allowed, Access!Next

\* Signup founds the Home document of the new account.
LEMMA SignupStep ==
  ASSUME AccessInv, NEW c \in Client, Signup(c)
  PROVE  Step
<1> DEFINE q == calls[c]
           n == [calls[c] EXCEPT !.at = "answered", !.out = "ok", !.token = Len(devices) + 1]
<1>1. RequestOK(q, DOMAIN invites, DOMAIN resets) /\ q.at = "run" /\ q.op = "signup"
  BY DEF AccessInv, Requests, Signup, At
<1>2. q.account \in Account /\ q.doc \in Doc BY <1>1 DEF RequestOK
<1>3. CASE Refuse(c, "AccountExists") \/ Refuse(c, "DocExists")
  BY <1>1, <1>3, Refused DEF AccessInv
<1>4. CASE /\ q.doc \notin docs
           /\ docs' = docs \cup {q.doc}
           /\ accounts' = Put(accounts, q.account, [primary |-> q.doc, password |-> q.password])
           /\ members' = Put(members, <<q.doc, q.account>>,
                             Member("owner", UnderPassword(q.password)))
           /\ devices' = Append(devices, q.account)
           /\ calls' = [calls EXCEPT ![c].at = "answered", ![c].out = "ok",
                                     ![c].token = Len(devices) + 1]
           /\ UNCHANGED <<invites, resets>>
  <2>1. Credentials' BY <1>2, <1>4 DEF AccessInv, Tables, Credentials
  <2>2. AccountRows'
    <3> DEFINE r == [primary |-> q.doc, password |-> q.password]
    <3>1. DOMAIN r = {"primary", "password"} /\ r.primary \in Doc BY <1>2
    <3>2. accounts' = Put(accounts, q.account, r) BY <1>4
    <3> HIDE DEF r, q
    <3> QED BY <1>2, <3>1, <3>2 DEF AccessInv, Tables, AccountRows, Put
  <2>3. Tables' /\ Allowed BY <1>2, <1>4, <2>1, <2>2, Founded DEF AccessInv
  <2>4. calls' = [calls EXCEPT ![c] = n]
    BY <1>1, <1>4 DEF AccessInv, Requests, RequestOK, Idle
  <2>5. RequestOK(n, DOMAIN invites', DOMAIN resets') BY <1>1, <1>4 DEF RequestOK, Idle
  <2> HIDE DEF n
  <2>6. Requests' BY <1>4, <2>4, <2>5, Replaced DEF AccessInv, Grows
  <2> QED BY <2>3, <2>6 DEF Step
<1> QED BY <1>3, <1>4 DEF Signup

\* A document is founded by the account that creates it.
LEMMA CreateDocStep ==
  ASSUME AccessInv, NEW c \in Client, CreateDoc(c)
  PROVE  Step
<1> DEFINE q == calls[c]
           ok == q.account \in DOMAIN accounts /\ q.doc \notin docs
<1>1. RequestOK(q, DOMAIN invites, DOMAIN resets) /\ q.at = "run" /\ q.op = "createDoc"
  BY DEF AccessInv, Requests, CreateDoc, At
<1>2. CASE ok
  <2>1. q.account \in Account /\ q.doc \in Doc \ docs
    BY <1>1, <1>2 DEF RequestOK, AccessInv, Tables, AccountRows
  <2>2. /\ docs' = docs \cup {q.doc}
        /\ members' = Put(members, <<q.doc, q.account>>, Member("owner", UnderHome(q.home)))
        /\ Answer(c, "ok")
        /\ UNCHANGED <<accounts, devices, invites, resets>>
    BY <1>2 DEF CreateDoc
  <2>3. AccountRows' /\ Credentials' BY <2>2 DEF AccessInv, Tables, AccountRows, Credentials
  <2>4. Tables' /\ Allowed BY <2>1, <2>2, <2>3, Founded DEF AccessInv
  <2>5. Requests' BY <1>1, <2>2, Answered_ DEF AccessInv, Grows
  <2> QED BY <2>4, <2>5 DEF Step
<1>3. CASE ~ok
  BY <1>1, <1>3, Refused DEF CreateDoc, AccessInv
<1> QED BY <1>2, <1>3

\* Documents of one owner go, with their rows and invites; with an account
\* that departs, so do its memberships.
LEMMA Ended_ ==
  ASSUME Tables, NEW D \in SUBSET docs, NEW a \in Account, NEW departs \in BOOLEAN,
         \A d \in D : IsOwner(d, a),
         departs => \A d \in docs : IsOwner(d, a) => d \in D,
         NEW K,
         \A e, b : <<e, b>> \in DOMAIN members =>
           (<<e, b>> \in K <=> e \in D \/ (departs /\ b = a)),
         NEW by, by = None \/ (departs /\ by = a),
         docs' = docs \ D, members' = Drop(members, K), invites' = Withdrawn(D, by),
         AccountRows', Credentials'
  PROVE  Tables' /\ Access!End(D, a, departs)
<1>1. \A e, b : /\ IsMember(e, b)' <=> IsMember(e, b) /\ e \notin D /\ ~(departs /\ b = a)
                /\ IsOwner(e, b)' <=> IsOwner(e, b) /\ e \notin D /\ ~(departs /\ b = a)
  BY DEF IsMember, IsOwner, Drop, Tables, MemberRows
<1>2. MemberRows'
  <2>1. DOMAIN members' \subseteq docs' \X Account
    BY DEF Tables, MemberRows, Drop
  <2> QED BY <2>1 DEF Tables, MemberRows, Drop
<1>3. \A e \in docs' : \A b : IsOwner(e, b)' <=> IsOwner(e, b) BY <1>1
<1>4. Owners' BY <1>3 DEF Tables, Owners
<1>5. /\ invites' \in Seq([doc : Doc, by : Account, state : RowState])
      /\ DOMAIN invites' = DOMAIN invites
      /\ \A i \in DOMAIN invites :
           /\ invites'[i].doc = invites[i].doc
           /\ invites'[i].by = invites[i].by
           /\ invites'[i].state = "open" <=>
                invites[i].state = "open" /\ invites[i].doc \notin D /\ invites[i].by # by
  <2> DEFINE R == [doc : Doc, by : Account, state : RowState]
  <2>1. invites \in Seq(R) BY DEF Tables, Invites
  <2>2. ASSUME NEW i \in DOMAIN invites
        PROVE  /\ invites'[i] \in R
               /\ invites'[i].doc = invites[i].doc
               /\ invites'[i].by = invites[i].by
               /\ invites'[i].state = "open" <=>
                    invites[i].state = "open" /\ invites[i].doc \notin D /\ invites[i].by # by
    <3>1. invites[i] \in R BY <2>1, InSeq
    <3> QED BY <3>1 DEF Withdrawn, RowState
  <2>3. invites' = [i \in DOMAIN invites |-> invites'[i]] BY DEF Withdrawn
  <2> HIDE DEF R
  <2>4. invites' \in Seq(R) BY <2>1, <2>2, <2>3
  <2> QED BY <2>2, <2>3, <2>4 DEF R
<1>6. \A i \in DOMAIN invites :
        invites'[i].state = "open" <=> invites[i].state = "open" /\ invites[i].doc \notin D
  <2> SUFFICES ASSUME NEW i \in DOMAIN invites, invites[i].state = "open",
                      invites[i].doc \notin D
               PROVE  invites[i].by # by
    BY <1>5
  <2>1. IsOwner(invites[i].doc, invites[i].by) BY DEF Tables, Invites
  <2>2. invites[i].doc \in docs /\ invites[i].by \in Account
    BY <2>1 DEF IsOwner, IsMember, Tables, MemberRows
  <2> QED BY <2>1, <2>2, NamesAssumption
<1>7. Invites'
  <2> SUFFICES ASSUME NEW i \in DOMAIN invites, invites'[i].state = "open"
               PROVE  IsOwner(invites[i].doc, invites[i].by)'
    BY <1>5 DEF Invites
  <2>1. IsOwner(invites[i].doc, invites[i].by) /\ invites[i].doc \notin D
    BY <1>6 DEF Tables, Invites
  <2>2. invites[i].doc \in docs BY <2>1 DEF IsOwner, IsMember, Tables, MemberRows
  <2>3. invites'[i].doc = invites[i].doc /\ invites'[i].by = invites[i].by BY <1>5
  <2>4. ~(departs /\ invites[i].by = a) BY <2>1, <2>2
  <2> QED BY <1>1, <2>1, <2>3, <2>4
<1>8. DOMAIN OwnerOf = docs /\ DOMAIN OwnerOf' = docs \ D BY DEF OwnerOf
<1>9. \A e \in docs' : OwnerOf'[e] = OwnerOf[e]
  BY <1>2, <1>3, <1>4, OwnerOfIs, OwnerOfWillBe DEF Tables
<1>10. OwnerOf' = [e \in DOMAIN OwnerOf \ D |-> OwnerOf[e]]
  <2>1. OwnerOf' = [e \in DOMAIN OwnerOf' |-> OwnerOf'[e]] BY DEF OwnerOf
  <2> QED BY <1>8, <1>9, <2>1
<1>11. Guests' = {g \in Guests : g[1] \notin D /\ ~(departs /\ g[2] = a)}
  <2>1. ASSUME NEW e, NEW b
        PROVE  <<e, b>> \in Guests' <=>
                 <<e, b>> \in Guests /\ e \notin D /\ ~(departs /\ b = a)
    BY <1>1 DEF Guests, IsMember, IsOwner
  <2> QED BY <2>1 DEF Guests
<1>12. Offers' = {o \in Offers : o[2] \notin D} BY <1>5, <1>6 DEF Offers
<1>13. \A d \in D : OwnerOf[d] = a BY OwnerOfIs DEF Tables
<1>14. Access!End(D, a, departs) BY <1>10, <1>11, <1>12, <1>13 DEF Access!End
<1> QED BY <1>2, <1>4, <1>7, <1>14 DEF Tables

\* Its owner ends a document, with its members and its invites.
LEMMA DeleteDocStep ==
  ASSUME AccessInv, NEW c \in Client, DeleteDoc(c)
  PROVE  Step
<1> DEFINE q == calls[c]
           D == {q.doc}
           n == [calls[c] EXCEPT !.at = "close", !.out = "ok",
                                 !.close = {[doc |-> q.doc, account |-> None]}]
<1>1. RequestOK(q, DOMAIN invites, DOMAIN resets) /\ q.at = "run" /\ q.op = "deleteDoc"
  BY DEF AccessInv, Requests, DeleteDoc, At
<1>2. CASE OwnsShared(c)
  <2>1. IsOwner(q.doc, q.account) BY <1>2 DEF OwnsShared
  <2>2. q.doc \in docs /\ q.account \in Account /\ q.doc \in Doc
    BY <2>1 DEF IsOwner, IsMember, AccessInv, Tables, MemberRows
  <2>3. /\ docs' = docs \ D
        /\ members' = Drop(members, Rows(D))
        /\ invites' = Withdrawn(D, None)
        /\ calls' = [calls EXCEPT ![c].at = "close", ![c].out = "ok",
                                  ![c].close = {[doc |-> q.doc, account |-> None]}]
        /\ UNCHANGED <<accounts, devices, resets>>
    BY <1>2 DEF DeleteDoc
  <2>4. AccountRows' /\ Credentials' BY <2>3 DEF AccessInv, Tables, AccountRows, Credentials
  <2>5. \A e, b : <<e, b>> \in DOMAIN members => (<<e, b>> \in Rows(D) <=> e \in D)
    BY DEF Rows
  <2>6. Tables' /\ Access!End(D, q.account, FALSE)
    BY <2>1, <2>2, <2>3, <2>4, <2>5, Ended_ DEF AccessInv
  <2>7. Allowed
    <3>1. DOMAIN OwnerOf = docs BY DEF OwnerOf
    <3>2. OwnerOf[q.doc] = q.account BY <2>1, <2>2, OwnerOfIs DEF AccessInv, Tables
    <3> QED BY <2>2, <2>6, <3>1, <3>2 DEF Allowed, Access!Next
  <2>8. DOMAIN invites' = DOMAIN invites BY <2>3 DEF Withdrawn
  <2>9. calls' = [calls EXCEPT ![c] = n]
    BY <1>1, <2>3 DEF AccessInv, Requests, RequestOK, Idle
  <2>10. RequestOK(n, DOMAIN invites', DOMAIN resets')
    BY <1>1, <2>2, <2>3, <2>8 DEF RequestOK, Idle, Closes
  <2> HIDE DEF n
  <2>11. Requests' BY <2>3, <2>8, <2>9, <2>10, Replaced DEF AccessInv, Grows
  <2> QED BY <2>6, <2>7, <2>11 DEF Step
<1>3. CASE ~OwnsShared(c)
  BY <1>1, <1>3, Refused DEF DeleteDoc, AccessInv
<1> QED BY <1>2, <1>3

\* An account ends its documents and leaves the others.
LEMMA DeleteAccountStep ==
  ASSUME AccessInv, NEW c \in Client, DeleteAccount(c)
  PROVE  Step
<1> DEFINE a == calls[c].account
           owned == {d \in docs : IsOwner(d, a)}
           left == {d \in docs \ owned : IsMember(d, a)}
           K == Rows(owned) \cup {k \in DOMAIN members : k[2] = a}
           list == {[doc |-> d, account |-> None] : d \in owned}
                   \cup {[doc |-> d, account |-> a] : d \in left}
           n == [calls[c] EXCEPT !.at = "close", !.out = "ok", !.close = list]
<1>1. RequestOK(calls[c], DOMAIN invites, DOMAIN resets) /\ calls[c].at = "purge"
      /\ calls[c].op = "deleteAccount"
  BY DEF AccessInv, Requests, DeleteAccount, At
<1>2. a \in Account BY <1>1 DEF RequestOK
<1>3. /\ accounts' = Drop(accounts, {a})
      /\ docs' = docs \ owned
      /\ members' = Drop(members, K)
      /\ devices' = [t \in DOMAIN devices |-> IF devices[t] = a THEN None ELSE devices[t]]
      /\ invites' = Withdrawn(owned, a)
      /\ resets' = [r \in DOMAIN resets |->
                      IF resets[r].account = a THEN [resets[r] EXCEPT !.state = "gone"]
                      ELSE resets[r]]
      /\ calls' = [calls EXCEPT ![c].at = "close", ![c].out = "ok", ![c].close = list]
  BY DEF DeleteAccount
<1>4. AccountRows' BY <1>3 DEF AccessInv, Tables, AccountRows, Drop
<1>5. Credentials' /\ DOMAIN resets' = DOMAIN resets
  <2> DEFINE R == [account : Account, state : RowState]
  <2>1. devices \in Seq(Account \cup {None}) /\ resets \in Seq(R)
    BY DEF AccessInv, Tables, Credentials
  <2>2. devices' \in Seq(Account \cup {None}) BY <1>3, <2>1
  <2>3. ASSUME NEW r \in DOMAIN resets PROVE resets'[r] \in R
    <3>1. resets[r] \in R BY <2>1, InSeq
    <3> QED BY <1>3, <3>1 DEF RowState
  <2>4. resets' = [r \in DOMAIN resets |-> resets'[r]] BY <1>3
  <2> HIDE DEF R
  <2>5. resets' \in Seq(R) BY <2>1, <2>3, <2>4
  <2> QED BY <2>2, <2>4, <2>5 DEF Credentials, R
<1>6. \A e, b : <<e, b>> \in DOMAIN members => (<<e, b>> \in K <=> e \in owned \/ b = a)
  BY DEF Rows
<1>7. Tables' /\ Access!End(owned, a, TRUE)
  <2>1. owned \in SUBSET docs /\ \A d \in docs : IsOwner(d, a) <=> d \in owned OBVIOUS
  <2>2. \A e, b : <<e, b>> \in DOMAIN members =>
          (<<e, b>> \in K <=> e \in owned \/ (TRUE /\ b = a))
    BY <1>6
  <2>3. docs' = docs \ owned /\ members' = Drop(members, K) /\ invites' = Withdrawn(owned, a)
    BY <1>3
  <2>4. Tables BY DEF AccessInv
  <2> HIDE DEF K, owned, a
  <2> QED BY <1>2, <1>4, <1>5, <2>1, <2>2, <2>3, <2>4, Ended_
<1>8. Allowed
  <2>1. owned = {d \in DOMAIN OwnerOf : OwnerOf[d] = a}
    BY <1>2, OwnerOfIs DEF OwnerOf, AccessInv, Tables
  <2> QED BY <1>2, <1>7, <2>1 DEF Allowed, Access!Next
<1>9. DOMAIN invites' = DOMAIN invites BY <1>3 DEF Withdrawn
<1>10. list \subseteq Closes BY <1>2 DEF Closes, AccessInv, Tables, MemberRows
<1> HIDE DEF list
<1>11. calls' = [calls EXCEPT ![c] = n]
  BY <1>1, <1>3 DEF AccessInv, Requests, RequestOK, Idle
<1>12. RequestOK(n, DOMAIN invites', DOMAIN resets')
  BY <1>1, <1>2, <1>5, <1>9, <1>10 DEF RequestOK, Idle
<1> HIDE DEF n
<1>13. Requests' BY <1>5, <1>9, <1>11, <1>12, Replaced DEF AccessInv, Grows
<1> QED BY <1>7, <1>8, <1>13 DEF Step

-----------------------------------------------------------------------------
(* Invites *)

\* An invite whose state changes is still one.
LEMMA InviteState ==
  ASSUME Invites, NEW r \in DOMAIN invites, NEW v \in RowState,
         invites' = [invites EXCEPT ![r].state = v]
  PROVE  /\ invites' \in Seq([doc : Doc, by : Account, state : RowState])
         /\ DOMAIN invites' = DOMAIN invites
         /\ \A i \in DOMAIN invites :
              /\ invites'[i].doc = invites[i].doc
              /\ invites'[i].by = invites[i].by
              /\ invites'[i].state = IF i = r THEN v ELSE invites[i].state
<1> DEFINE R == [doc : Doc, by : Account, state : RowState]
           x == [invites[r] EXCEPT !.state = v]
<1>1. invites \in Seq(R) BY DEF Invites
<1>2. \A i \in DOMAIN invites : invites[i] \in R BY <1>1, InSeq
<1>3. x \in R /\ x.doc = invites[r].doc /\ x.by = invites[r].by /\ x.state = v BY <1>2
<1>4. invites' = [invites EXCEPT ![r] = x] BY <1>2
<1> HIDE DEF x, R
<1>5. [invites EXCEPT ![r] = x] \in Seq(R) BY <1>1, <1>3
<1>6. invites' \in Seq(R) BY <1>4, <1>5
<1>7. DOMAIN invites' = DOMAIN invites BY <1>4
<1>8. \A i \in DOMAIN invites : invites'[i] = IF i = r THEN x ELSE invites[i] BY <1>4
<1> QED BY <1>3, <1>6, <1>7, <1>8 DEF R

\* An invite that is open ends: revoked, expired or found used.
LEMMA Withdrawn_ ==
  ASSUME Tables, NEW r \in DOMAIN invites, NEW v \in RowState \ {"open"},
         invites' = [invites EXCEPT ![r].state = v], UNCHANGED <<accounts, docs, members>>,
         Credentials'
  PROVE  Tables' /\ Allowed /\ DOMAIN invites' = DOMAIN invites
<1>1. Same BY DEF Same, IsMember, IsOwner
<1>2. AccountRows' BY DEF Tables, AccountRows
<1>3. MemberRows' /\ Owners' BY <1>1 DEF Tables, MemberRows, Owners, Same
<1>4. /\ invites' \in Seq([doc : Doc, by : Account, state : RowState])
      /\ DOMAIN invites' = DOMAIN invites
      /\ \A i \in DOMAIN invites :
           /\ invites'[i].doc = invites[i].doc
           /\ invites'[i].by = invites[i].by
           /\ invites'[i].state = IF i = r THEN v ELSE invites[i].state
  BY InviteState DEF Tables
<1>5. Invites' BY <1>1, <1>4 DEF Tables, Invites, Same
<1>6. OwnerOf' = OwnerOf /\ Guests' = Guests BY <1>1, <1>3, SameView DEF Tables
<1>7. Offers' = Offers \ {<<r, invites[r].doc>>} BY <1>4 DEF Offers
<1>8. CASE invites[r].state = "open"
  <2>1. <<r, invites[r].doc>> \in Offers BY <1>8 DEF Offers
  <2>2. Access!Withdraw(<<r, invites[r].doc>>) BY <1>6, <1>7 DEF Access!Withdraw
  <2> QED BY <1>2, <1>3, <1>4, <1>5, <2>1, <2>2 DEF Tables, Allowed, Access!Next
<1>9. CASE invites[r].state # "open"
  <2>1. Offers' = Offers BY <1>4, <1>9 DEF Offers
  <2> QED BY <1>2, <1>3, <1>4, <1>5, <1>6, <2>1 DEF Tables, Allowed
<1> QED BY <1>8, <1>9

\* The owner withdraws an invite.
LEMMA RevokeInviteStep ==
  ASSUME AccessInv, NEW c \in Client, RevokeInvite(c)
  PROVE  Step
<1> DEFINE q == calls[c]
           ok == invites[q.row].state # "gone" /\ IsOwner(invites[q.row].doc, q.account)
<1>1. RequestOK(q, DOMAIN invites, DOMAIN resets) /\ q.at = "run" /\ q.op = "revokeInvite"
  BY DEF AccessInv, Requests, RevokeInvite, At
<1>2. CASE ok
  <2>1. q.row \in DOMAIN invites BY <1>1 DEF RequestOK
  <2>2. /\ invites' = [invites EXCEPT ![q.row].state = "gone"]
        /\ Answer(c, "ok")
        /\ UNCHANGED <<accounts, docs, members, devices, resets>>
    BY <1>2 DEF RevokeInvite
  <2>3. Credentials' BY <2>2 DEF AccessInv, Tables, Credentials
  <2>4. Tables' /\ Allowed /\ DOMAIN invites' = DOMAIN invites
    <3>1. "gone" \in RowState \ {"open"} BY DEF RowState
    <3>2. UNCHANGED <<accounts, docs, members>> BY <2>2
    <3> HIDE DEF q
    <3> QED BY <2>1, <2>2, <2>3, <3>1, <3>2, Withdrawn_ DEF AccessInv
  <2>5. Requests' BY <1>1, <2>2, <2>4, Answered_ DEF AccessInv, Grows
  <2> QED BY <2>4, <2>5 DEF Step
<1>3. CASE ~ok
  BY <1>1, <1>3, Refused DEF RevokeInvite, AccessInv
<1> QED BY <1>2, <1>3

\* The owner of a document that is not Home offers it.
LEMMA CreateInviteStep ==
  ASSUME AccessInv, NEW c \in Client, CreateInvite(c)
  PROVE  Step
<1> DEFINE q == calls[c]
           i == Len(invites) + 1
           new == [doc |-> q.doc, by |-> q.account, state |-> "open"]
           n == [calls[c] EXCEPT !.at = "answered", !.out = "ok", !.row = i]
<1>1. RequestOK(q, DOMAIN invites, DOMAIN resets) /\ q.at = "run" /\ q.op = "invite"
  BY DEF AccessInv, Requests, CreateInvite, At
<1>2. CASE OwnsShared(c)
  <2>1. IsOwner(q.doc, q.account) BY <1>2 DEF OwnsShared
  <2>2. q.doc \in docs /\ q.account \in Account /\ q.doc \in Doc
    BY <2>1 DEF IsOwner, IsMember, AccessInv, Tables, MemberRows
  <2>3. /\ invites' = Append(invites, new)
        /\ calls' = [calls EXCEPT ![c].at = "answered", ![c].out = "ok", ![c].row = i]
        /\ UNCHANGED <<accounts, docs, members, devices, resets>>
    BY <1>2 DEF CreateInvite
  <2>4. /\ new \in [doc : Doc, by : Account, state : RowState]
        /\ new.doc = q.doc /\ new.by = q.account /\ new.state = "open"
    BY <2>2 DEF RowState
  <2> HIDE DEF new
  <2>5. /\ i \notin DOMAIN invites
        /\ DOMAIN invites' = DOMAIN invites \cup {i}
        /\ invites' \in Seq([doc : Doc, by : Account, state : RowState])
        /\ invites'[i] = new
        /\ \A j \in DOMAIN invites : invites'[j] = invites[j]
    BY <2>3, <2>4 DEF AccessInv, Tables, Invites
  <2> HIDE DEF i
  <2>6. Same BY <2>3 DEF Same, IsMember, IsOwner
  <2>7. AccountRows' /\ Credentials' BY <2>3 DEF AccessInv, Tables, AccountRows, Credentials
  <2>8. MemberRows' /\ Owners' BY <2>3, <2>6 DEF AccessInv, Tables, MemberRows, Owners, Same
  <2>9. Invites'
    <3> SUFFICES ASSUME NEW j \in DOMAIN invites', invites'[j].state = "open"
                 PROVE  IsOwner(invites[j].doc, invites[j].by)'
      BY <2>5 DEF Invites
    <3>1. CASE j = i BY <3>1, <2>1, <2>4, <2>5, <2>6 DEF Same
    <3>2. CASE j # i BY <3>2, <2>5, <2>6 DEF AccessInv, Tables, Invites, Same
    <3> QED BY <3>1, <3>2
  <2>10. OwnerOf' = OwnerOf /\ Guests' = Guests
    BY <2>3, <2>6, <2>8, SameView DEF AccessInv, Tables
  <2>11. Offers' = Offers \cup {<<i, q.doc>>} BY <2>4, <2>5 DEF Offers
  <2>12. \A o \in Offers : o[1] # i BY <2>5 DEF Offers
  <2>13. Access!Offer(i, q.doc)
    <3>1. DOMAIN OwnerOf = docs BY DEF OwnerOf
    <3> QED BY <2>2, <2>10, <2>11, <2>12, <3>1 DEF Access!Offer
  <2>14. Allowed
    <3>1. <<i, q.doc>> \in Offers' /\ <<i, q.doc>>[1] = i BY <2>11
    <3>2. \E o \in Offers' : Access!Offer(o[1], q.doc)
      <4> DEFINE x == <<i, q.doc>>
      <4>1. Access!Offer(x[1], q.doc) BY <2>13
      <4> QED BY <3>1, <4>1
    <3>3. q.doc \in Doc BY <2>2
    <3> HIDE DEF q
    <3> QED BY <3>2, <3>3 DEF Allowed, Access!Next
  <2>15. calls' = [calls EXCEPT ![c] = n]
    BY <1>1, <2>3 DEF AccessInv, Requests, RequestOK, Idle
  <2>16. RequestOK(n, DOMAIN invites', DOMAIN resets')
    BY <1>1, <2>3, <2>5 DEF RequestOK, Idle
  <2> HIDE DEF n
  <2>17. Requests' BY <2>3, <2>5, <2>15, <2>16, Replaced DEF AccessInv, Grows
  <2> QED BY <2>7, <2>8, <2>9, <2>14, <2>17 DEF Step, Tables
<1>3. CASE ~OwnsShared(c)
  BY <1>1, <1>3, Refused DEF CreateInvite, AccessInv
<1> QED BY <1>2, <1>3

\* The row of a former member may come back; it was not the owner's.
LEMMA AcceptInviteStep ==
  ASSUME AccessInv, NEW c \in Client, AcceptInvite(c)
  PROVE  Step
<1> DEFINE q == calls[c]
           r == q.row
           d == invites[r].doc
           a == q.account
           m == Member("member", UnderHome(q.home))
           ok == invites[r].state = "open" /\ ~IsMember(d, a) /\ a \in DOMAIN accounts
           n == [calls[c] EXCEPT !.at = "answered", !.out = "ok", !.doc = d]
<1>1. RequestOK(q, DOMAIN invites, DOMAIN resets) /\ q.at = "run" /\ q.op = "accept"
  BY DEF AccessInv, Requests, AcceptInvite, At
<1>2. CASE ok
  <2>1. r \in DOMAIN invites BY <1>1 DEF RequestOK
  <2>2. a \in Account BY <1>2 DEF AccessInv, Tables, AccountRows
  <2>3. IsOwner(d, invites[r].by) BY <1>2, <2>1 DEF AccessInv, Tables, Invites
  <2>4. d \in docs /\ d \in Doc
    BY <2>3 DEF IsOwner, IsMember, AccessInv, Tables, MemberRows
  <2>5. /\ members' = Put(members, <<d, a>>, m)
        /\ invites' = [invites EXCEPT ![r].state = "consumed"]
        /\ calls' = [calls EXCEPT ![c].at = "answered", ![c].out = "ok", ![c].doc = d]
        /\ UNCHANGED <<accounts, docs, devices, resets>>
    BY <1>2 DEF AcceptInvite
  <2>6. /\ DOMAIN m = {"role", "removed", "wrap"}
        /\ m.removed = FALSE
        /\ m.role # "owner"
    BY DEF Member
  <2>7. invites[r].state = "open" /\ ~IsMember(d, a) BY <1>2
  <2>8. calls' = [calls EXCEPT ![c] = n]
    BY <1>1, <2>5 DEF AccessInv, Requests, RequestOK, Idle
  <2>9. RequestOK(n, DOMAIN invites, DOMAIN resets)
    BY <1>1, <2>4 DEF RequestOK, Idle
  <2> HIDE DEF n, m, d, a, r
  <2>10. ~IsOwner(d, a) BY <2>7 DEF IsOwner
  <2>11. \A e, b : /\ IsMember(e, b)' <=> (e = d /\ b = a) \/ IsMember(e, b)
                   /\ IsOwner(e, b)' <=> IsOwner(e, b)
    BY <2>5, <2>6, <2>10 DEF IsMember, IsOwner, Put, AccessInv, Tables, MemberRows
  <2>12. MemberRows'
    <3> DEFINE k == <<d, a>>
    <3>1. k \in docs \X Account BY <2>2, <2>4
    <3>2. members' = Put(members, k, m) BY <2>5
    <3> HIDE DEF k
    <3> QED BY <2>5, <2>6, <3>1, <3>2 DEF AccessInv, Tables, MemberRows, Put
  <2>13. Owners' BY <2>5, <2>11 DEF AccessInv, Tables, Owners
  <2>14. AccountRows' /\ Credentials' BY <2>5 DEF AccessInv, Tables, AccountRows, Credentials
  <2>15. /\ invites' \in Seq([doc : Doc, by : Account, state : RowState])
         /\ DOMAIN invites' = DOMAIN invites
         /\ \A i \in DOMAIN invites :
              /\ invites'[i].doc = invites[i].doc
              /\ invites'[i].by = invites[i].by
              /\ invites'[i].state = IF i = r THEN "consumed" ELSE invites[i].state
    <3>1. "consumed" \in RowState BY DEF RowState
    <3> QED BY <2>1, <2>5, <3>1, InviteState DEF AccessInv, Tables
  <2>16. Invites' BY <2>11, <2>15 DEF AccessInv, Tables, Invites
  <2>17. OwnerOf' = OwnerOf
    <3>1. \A e \in docs : OwnerOf'[e] = OwnerOf[e]
      BY <2>5, <2>11, <2>12, <2>13, OwnerOfIs, OwnerOfWillBe DEF AccessInv, Tables
    <3> QED BY <2>5, <3>1 DEF OwnerOf
  <2>18. Guests' = Guests \cup {<<d, a>>}
    <3>1. ASSUME NEW e, NEW b
          PROVE  <<e, b>> \in Guests' <=> <<e, b>> \in Guests \/ <<e, b>> = <<d, a>>
      BY <2>2, <2>4, <2>5, <2>10, <2>11 DEF Guests, IsMember, IsOwner
    <3>2. <<d, a>> \in docs \X Account BY <2>2, <2>4
    <3> QED BY <2>5, <3>1, <3>2 DEF Guests
  <2>19. Offers' = Offers \ {<<r, d>>} BY <2>15 DEF Offers, d
  <2>20. <<r, d>> \in Offers BY <2>1, <2>7 DEF Offers, d
  <2>21. OwnerOf[d] # a /\ <<d, a>> \notin Guests
    BY <2>2, <2>4, <2>7, <2>10, OwnerOfIs DEF Guests, AccessInv, Tables
  <2>22. Allowed
    <3> DEFINE o == <<r, d>>
    <3>1. Access!Join(o, a)
      BY <2>17, <2>18, <2>19, <2>21 DEF Access!Join
    <3>2. o \in Offers BY <2>20
    <3> HIDE DEF o
    <3> QED BY <2>2, <3>1, <3>2 DEF Allowed, Access!Next
  <2>23. Requests' BY <2>5, <2>8, <2>9, <2>15, Replaced DEF AccessInv, Grows
  <2> QED BY <2>12, <2>13, <2>14, <2>16, <2>22, <2>23 DEF Step, Tables
<1>3. CASE ~ok
  BY <1>1, <1>3, Refused DEF AcceptInvite, AccessInv
<1> QED BY <1>2, <1>3

\* The owner removes a member, never itself.
LEMMA RemoveMemberStep ==
  ASSUME AccessInv, NEW c \in Client, RemoveMember(c)
  PROVE  Step
<1> DEFINE q == calls[c]
           d == q.doc
           a == q.target
           ok == OwnsShared(c) /\ a # q.account /\ IsMember(d, a)
           list == {[doc |-> d, account |-> a]}
           n == [calls[c] EXCEPT !.at = "close", !.out = "ok", !.close = list]
<1>1. RequestOK(q, DOMAIN invites, DOMAIN resets) /\ q.at = "run" /\ q.op = "removeMember"
  BY DEF AccessInv, Requests, RemoveMember, At
<1>2. CASE ok
  <2>1. IsOwner(d, q.account) /\ a # q.account /\ IsMember(d, a) BY <1>2 DEF OwnsShared
  <2>2. /\ <<d, a>> \in DOMAIN members
        /\ d \in docs /\ d \in Doc /\ a \in Account /\ q.account \in Account
    BY <2>1 DEF IsOwner, IsMember, AccessInv, Tables, MemberRows
  <2>3. ~IsOwner(d, a) BY <2>1, <2>2 DEF AccessInv, Tables, Owners
  <2>4. /\ members' = [members EXCEPT ![<<d, a>>].removed = TRUE]
        /\ calls' = [calls EXCEPT ![c].at = "close", ![c].out = "ok", ![c].close = list]
        /\ UNCHANGED <<accounts, docs, devices, invites, resets>>
    BY <1>2 DEF RemoveMember
  <2>5. list \subseteq Closes BY <2>2 DEF Closes
  <2> HIDE DEF list
  <2>6. calls' = [calls EXCEPT ![c] = n]
    BY <1>1, <2>4 DEF AccessInv, Requests, RequestOK, Idle
  <2>7. RequestOK(n, DOMAIN invites, DOMAIN resets)
    BY <1>1, <2>5 DEF RequestOK, Idle
  <2> HIDE DEF n, d, a
  <2>8. /\ DOMAIN members' = DOMAIN members
        /\ members' = [j \in DOMAIN members |-> members'[j]]
        /\ \A j \in DOMAIN members :
             /\ DOMAIN members'[j] = {"role", "removed", "wrap"}
             /\ members'[j].removed = IF j = <<d, a>> THEN TRUE ELSE members[j].removed
             /\ members'[j].role = members[j].role
    <3> DEFINE k == <<d, a>>
    <3>1. members' = [members EXCEPT ![k].removed = TRUE] BY <2>4
    <3> HIDE DEF k
    <3>2. /\ DOMAIN members' = DOMAIN members
          /\ members' = [j \in DOMAIN members |-> members'[j]]
          /\ \A j \in DOMAIN members :
               /\ DOMAIN members'[j] = {"role", "removed", "wrap"}
               /\ members'[j].removed = IF j = k THEN TRUE ELSE members[j].removed
               /\ members'[j].role = members[j].role
      BY <3>1 DEF AccessInv, Tables, MemberRows
    <3> QED BY <3>2 DEF k
  <2>9. MemberRows' BY <2>4, <2>8 DEF AccessInv, Tables, MemberRows
  <2>10. \A e, b : /\ IsMember(e, b)' <=> IsMember(e, b) /\ ~(e = d /\ b = a)
                   /\ IsOwner(e, b)' <=> IsOwner(e, b)
    BY <2>3, <2>8 DEF IsMember, IsOwner
  <2>11. Owners' /\ Invites' BY <2>4, <2>10 DEF AccessInv, Tables, Owners, Invites
  <2>12. AccountRows' /\ Credentials' BY <2>4 DEF AccessInv, Tables, AccountRows, Credentials
  <2>13. OwnerOf' = OwnerOf
    <3>1. \A e \in docs : OwnerOf'[e] = OwnerOf[e]
      BY <2>4, <2>9, <2>10, <2>11, OwnerOfIs, OwnerOfWillBe DEF AccessInv, Tables
    <3> QED BY <2>4, <3>1 DEF OwnerOf
  <2>14. Guests' = Guests \ {<<d, a>>}
    <3>1. ASSUME NEW e, NEW b
          PROVE  <<e, b>> \in Guests' <=> <<e, b>> \in Guests /\ <<e, b>> # <<d, a>>
      BY <2>4, <2>10 DEF Guests, IsMember, IsOwner
    <3> QED BY <2>4, <3>1 DEF Guests
  <2>15. <<d, a>> \in Guests BY <2>1, <2>2, <2>3 DEF Guests
  <2>16. Offers' = Offers BY <2>4 DEF Offers
  <2>17. Allowed
    <3> DEFINE g == <<d, a>>
    <3>1. Access!Part(g) BY <2>13, <2>14, <2>16 DEF Access!Part
    <3>2. g \in Guests BY <2>15
    <3> HIDE DEF g
    <3> QED BY <3>1, <3>2 DEF Allowed, Access!Next
  <2>18. Requests' BY <2>4, <2>6, <2>7, Replaced DEF AccessInv, Grows
  <2> QED BY <2>9, <2>11, <2>12, <2>17, <2>18 DEF Step, Tables
<1>3. CASE ~ok
  BY <1>1, <1>3, Refused DEF RemoveMember, AccessInv
<1> QED BY <1>2, <1>3

\* Time ends an offer or a recovery session.
LEMMA ExpireStep ==
  ASSUME AccessInv, Expire
  PROVE  Step
<1>1. UNCHANGED <<accounts, docs, members, devices, calls>> BY DEF Expire
<1>2. CASE \E i \in DOMAIN invites :
             invites' = [invites EXCEPT ![i].state = "expired"] /\ UNCHANGED resets
  <2>1. PICK i \in DOMAIN invites :
          invites' = [invites EXCEPT ![i].state = "expired"] /\ UNCHANGED resets
    BY <1>2
  <2>2. "expired" \in RowState \ {"open"} BY DEF RowState
  <2>3. Credentials' BY <1>1, <2>1 DEF AccessInv, Tables, Credentials
  <2>4. UNCHANGED <<accounts, docs, members>> BY <1>1
  <2>5. Tables' /\ Allowed /\ DOMAIN invites' = DOMAIN invites
    BY <2>1, <2>2, <2>3, <2>4, Withdrawn_ DEF AccessInv
  <2>6. Requests' BY <1>1, <2>1, <2>5 DEF AccessInv, Requests
  <2> QED BY <2>5, <2>6 DEF Step
<1>3. CASE \E r \in DOMAIN resets :
             resets' = [resets EXCEPT ![r].state = "expired"] /\ UNCHANGED invites
  <2>1. PICK r \in DOMAIN resets :
          resets' = [resets EXCEPT ![r].state = "expired"] /\ UNCHANGED invites
    BY <1>3
  <2>2. "expired" \in RowState BY DEF RowState
  <2>3. Credentials' /\ DOMAIN resets' = DOMAIN resets
    BY <1>1, <2>1, <2>2, ResetState DEF AccessInv, Tables, Credentials
  <2>4. UNCHANGED <<accounts, docs, members, invites>> BY <1>1, <2>1
  <2>5. Tables' /\ Allowed BY <2>3, <2>4, RowsKept DEF AccessInv
  <2>6. Requests' BY <1>1, <2>3, <2>4 DEF AccessInv, Requests
  <2> QED BY <2>5, <2>6 DEF Step
<1> QED BY <1>2, <1>3 DEF Expire

\* Every call of every route is a step DocAccess allows.
LEMMA RouteStep ==
  ASSUME AccessInv, NEW c \in Client, Route(c)
  PROVE  Step
<1>1. CASE LoginDevice(c) BY <1>1, CreateDeviceStep DEF LoginDevice, At
<1>2. CASE ResetDevice(c) BY <1>2, CreateDeviceStep DEF ResetDevice, At
<1> QED BY <1>1, <1>2, AuthenticateStep, SignupStep, VerifyStep, ListDocsStep, RecoverVerifyStep,
           RecoverSessionStep, PasswordUpdateStep, PasswordResetStep, RevokeDeviceStep,
           DeleteAccountVerifyStep, DeleteAccountStep, CreateDocStep, DeleteDocStep,
           CreateInviteStep, RevokeInviteStep, AcceptInviteStep, RemoveMemberStep
        DEF Route

-----------------------------------------------------------------------------
(* Requests of clients *)

\* A client that has nothing under way, or has its answer, asks.
LEMMA Asked ==
  ASSUME AccessInv, NEW c, NEW q, calls' = [calls EXCEPT ![c] = q],
         c \in Client => RequestOK(q, DOMAIN invites, DOMAIN resets), UNCHANGED tables
  PROVE  Step
<1>1. Tables' /\ Allowed BY Untouched DEF AccessInv
<1>2. CASE c \in Client BY <1>1, <1>2, Replaced DEF AccessInv, tables, Grows, Step
<1>3. CASE c \notin Client
  <2>1. calls' = calls BY <1>3 DEF AccessInv, Requests
  <2> QED BY <1>1, <2>1 DEF AccessInv, Requests, tables, Step
<1> QED BY <1>2, <1>3

\* A step that changes neither tables nor requests.
LEMMA Silent ==
  ASSUME AccessInv, UNCHANGED tables, UNCHANGED calls
  PROVE  Step
BY Untouched DEF AccessInv, Requests, tables, Step

\* Telling the sessions changes no table, and shortens the list by one.
LEMMA CloseNextStep ==
  ASSUME AccessInv, NEW c \in Client, CloseNext(c)
  PROVE  Step
<1>1. PICK x \in calls[c].close :
        calls' = [calls EXCEPT ![c].close = @ \ {x},
                               ![c].at = IF calls[c].close = {x} THEN "answered" ELSE "close"]
  BY DEF CloseNext
<1> DEFINE at == IF calls[c].close = {x} THEN "answered" ELSE "close"
           rest == calls[c].close \ {x}
           q == [calls[c] EXCEPT !.close = rest, !.at = at]
<1>2. RequestOK(calls[c], DOMAIN invites, DOMAIN resets) BY DEF AccessInv, Requests
<1>3. at # "close" => rest = {} OBVIOUS
<1>4. rest \subseteq Closes BY <1>2 DEF RequestOK
<1>5. calls' = [calls EXCEPT ![c] = q]
  BY <1>1, <1>2 DEF AccessInv, Requests, RequestOK, Idle
<1>6. at \in {"answered", "close"} OBVIOUS
<1>7. calls[c].at = "close" BY DEF CloseNext
<1> HIDE DEF at, rest
<1>8. RequestOK(q, DOMAIN invites, DOMAIN resets)
  BY <1>2, <1>3, <1>4, <1>6, <1>7 DEF RequestOK, Idle
<1> QED BY <1>5, <1>8, Asked DEF CloseNext

\* What the clients of the server can send.
LEMMA AsksOK ==
  ASSUME Tables, NEW q \in Asks
  PROVE  /\ RequestOK(q, DOMAIN invites, DOMAIN resets)
         /\ q.list = {} /\ q.at \in {"run", "auth"}
<1> DEFINE ok(r) == /\ RequestOK(r, DOMAIN invites, DOMAIN resets)
                    /\ r.list = {} /\ r.at \in {"run", "auth"}
           login(a, p) == [Request("login", "run") EXCEPT !.account = a, !.password = p]
           password(t, p) ==
             [Authed("password", t) EXCEPT !.password = 1, !.new = p, !.home = HomeOf(t)]
           recover(a) == [Request("recover", "run") EXCEPT !.account = a]
           reset(r, d) == [Request("reset", "run") EXCEPT !.row = r, !.new = 2, !.home = d]
           delete(t, d) == [Authed("deleteDoc", t) EXCEPT !.doc = d]
           invite(t, d) == [Authed("invite", t) EXCEPT !.doc = d]
           accept(t, i) == [Authed("accept", t) EXCEPT !.row = i, !.home = HomeOf(t)]
           withdraw(t, i) == [Authed("revokeInvite", t) EXCEPT !.row = i]
           remove(t, d, a) == [Authed("removeMember", t) EXCEPT !.doc = d, !.target = a]
           revoke(t, r) == [Authed("revoke", t) EXCEPT !.row = r]
           leave(t) == [Authed("deleteAccount", t) EXCEPT !.password = 1]
<1>1. DOMAIN accounts \subseteq Account /\ docs \subseteq Doc
  BY DEF Tables, AccountRows, MemberRows
<1>2. /\ \A a \in DOMAIN accounts : \A p : ok(login(a, p))
      /\ \A t, p : ok(password(t, p))
      /\ \A a \in DOMAIN accounts : ok(recover(a))
      /\ \A r \in DOMAIN resets : \A d : ok(reset(r, d))
      /\ \A t : ok(Authed("docs", t))
  BY <1>1 DEF Request, Idle, Authed, RequestOK
<1>3. /\ \A t : \A d \in docs : ok(delete(t, d))
      /\ \A t : \A d \in docs : ok(invite(t, d))
      /\ \A t : \A i \in DOMAIN invites : ok(accept(t, i))
      /\ \A t : \A i \in DOMAIN invites : ok(withdraw(t, i))
  BY <1>1 DEF Request, Idle, Authed, RequestOK
<1>4. /\ \A t, a : \A d \in docs : ok(remove(t, d, a))
      /\ \A t, r : ok(revoke(t, r))
      /\ \A t : ok(leave(t))
  BY <1>1 DEF Request, Idle, Authed, RequestOK
<1>5. PasswordAsks = {login(a, p) : a \in DOMAIN accounts, p \in Password}
                     \cup {password(t, p) : t \in Tokens, p \in Password \ {1}}
  BY DEF PasswordAsks
<1>6. RecoverAsks = {recover(a) : a \in DOMAIN accounts}
                    \cup {reset(r, d) : r \in DOMAIN resets, d \in docs}
  BY DEF RecoverAsks
<1>7. DocAsks = {Authed("docs", t) : t \in Tokens} \cup {delete(t, d) : t \in Tokens, d \in docs}
  BY DEF DocAsks
<1>8. InviteAsks = {invite(t, d) : t \in Tokens, d \in docs}
                   \cup {accept(t, i) : t \in Tokens, i \in DOMAIN invites}
                   \cup {withdraw(t, i) : t \in Tokens, i \in DOMAIN invites}
  BY DEF InviteAsks
<1>9. RemoveAsks = {remove(t, d, a) : t \in Tokens, d \in docs, a \in DOMAIN accounts}
  BY DEF RemoveAsks
<1>10. Asks = UNION {Of("password", PasswordAsks), Of("recover", RecoverAsks), Of("docs", DocAsks),
                     Of("invite", InviteAsks), Of("remove", RemoveAsks),
                     Of("device", {revoke(t, r) : t \in Tokens, r \in Tokens}),
                     Of("deleteAccount", {leave(t) : t \in Tokens})}
  BY DEF Asks
<1> HIDE DEF ok, login, password, recover, reset, delete, invite, accept, withdraw, remove, revoke,
             leave
<1>11. \A r \in PasswordAsks \cup RecoverAsks \cup DocAsks : ok(r)
  BY <1>2, <1>3, <1>5, <1>6, <1>7
<1>12. \A r \in InviteAsks \cup RemoveAsks : ok(r)
  BY <1>3, <1>4, <1>8, <1>9
<1>13. ok(q) BY <1>4, <1>10, <1>11, <1>12 DEF Of
<1> QED BY <1>13 DEF ok

\* What a client sends has nothing to close and no place in a route yet.
LEMMA Fresh ==
  ASSUME Requests, NEW op, NEW at \in {"run", "auth"}
  PROVE  /\ RequestOK(Idle, DOMAIN invites, DOMAIN resets)
         /\ DOMAIN Request(op, at) = DOMAIN Idle
         /\ Request(op, at).op = op
         /\ Request(op, at).at = at
         /\ Request(op, at).close = {}
         /\ Request(op, at).account = None
         /\ Request(op, at).doc = 0
BY DEF RequestOK, Request, Idle, None

\* The steps of other clients.
LEMMA PeerStepOK ==
  ASSUME AccessInv, PeerStep
  PROVE  Step
<1>1. UNCHANGED tables BY DEF PeerStep
<1>2. ASSUME NEW c \in Peers, PeerSend(c) PROVE Step
  <2>1. PICK q \in Asks : calls' = [calls EXCEPT ![c] = q] BY <1>2 DEF PeerSend, Send
  <2> QED BY <1>1, <2>1, AsksOK, Asked DEF AccessInv
<1>3. ASSUME NEW c \in Peers, NEW d \in Doc, PeerCreateDoc(c, d) PROVE Step
  <2>1. PICK t \in Tokens :
          calls' = [calls EXCEPT ![c] = [Authed("createDoc", t) EXCEPT !.doc = d, !.home = HomeOf(t)]]
    BY <1>3 DEF PeerCreateDoc, Send
  <2> DEFINE q == [Authed("createDoc", t) EXCEPT !.doc = d, !.home = HomeOf(t)]
  <2>2. RequestOK(q, DOMAIN invites, DOMAIN resets) BY DEF RequestOK, Authed, Request, Idle
  <2> HIDE DEF q
  <2> QED BY <1>1, <2>1, <2>2, Asked DEF q
<1>4. ASSUME NEW c \in Client, DropReply(c) PROVE Step
  <2>1. calls' = [calls EXCEPT ![c] = Idle] BY <1>4 DEF DropReply
  <2>2. RequestOK(Idle, DOMAIN invites, DOMAIN resets) BY Fresh DEF AccessInv
  <2> QED BY <1>1, <2>1, <2>2, Asked
<1>5. ASSUME NEW c \in Client, LoseReply(c) PROVE Step
  <2> DEFINE q == [calls[c] EXCEPT !.out = "lost"]
  <2>1. RequestOK(calls[c], DOMAIN invites, DOMAIN resets) BY DEF AccessInv, Requests
  <2>2. calls' = [calls EXCEPT ![c] = q]
    BY <1>5, <2>1 DEF LoseReply, AccessInv, Requests, RequestOK, Idle
  <2>3. RequestOK(q, DOMAIN invites, DOMAIN resets) BY <2>1 DEF RequestOK, Idle
  <2> HIDE DEF q
  <2> QED BY <1>1, <2>2, <2>3, Asked
<1> QED BY <1>2, <1>3, <1>4, <1>5 DEF PeerStep

-----------------------------------------------------------------------------
(* The installation *)

\* The host asks for a workspace, or hears of one.
LEMMA WorkspaceStepOK ==
  ASSUME AccessInv, WorkspaceStep, UNCHANGED tables
  PROVE  Step
<1>1. ASSUME NEW d \in Doc, CreateWorkspace(d) PROVE Step
  <2> DEFINE q == [Request("createDoc", "auth") EXCEPT !.token = secrets.token, !.doc = d,
                                                      !.home = host.primary]
  <2>1. calls' = [calls EXCEPT ![HostClient] = q] BY <1>1 DEF CreateWorkspace, Send
  <2>2. RequestOK(q, DOMAIN invites, DOMAIN resets) BY DEF RequestOK, Request, Idle
  <2> HIDE DEF q
  <2> QED BY <2>1, <2>2, Asked
<1>2. ASSUME NEW d \in Doc, DeleteWorkspace(d) PROVE Step
  <2> DEFINE q == [Request("deleteDoc", "auth") EXCEPT !.token = secrets.token, !.doc = d]
  <2>1. calls' = [calls EXCEPT ![HostClient] = q] BY <1>2 DEF DeleteWorkspace, Send
  <2>2. RequestOK(q, DOMAIN invites, DOMAIN resets) BY DEF RequestOK, Request, Idle
  <2> HIDE DEF q
  <2> QED BY <2>1, <2>2, Asked
<1> QED BY <1>1, <1>2 DEF WorkspaceStep

\* The host asks nothing else, and takes its answers.
LEMMA HostStepOK ==
  ASSUME AccessInv, HostStep, UNCHANGED tables
  PROVE  Step
<1>1. CASE HostReply
  <2>1. calls' = [calls EXCEPT ![HostClient] = Idle] BY <1>1 DEF HostReply
  <2>2. RequestOK(Idle, DOMAIN invites, DOMAIN resets) BY Fresh DEF AccessInv
  <2> QED BY <2>1, <2>2, Asked
<1>2. CASE ~HostReply
  <2>1. UNCHANGED calls
    BY <1>2 DEF HostStep, LifeStep, EditStep, MirrorStep, NetworkStep
  <2> QED BY <2>1, Silent
<1> QED BY <1>1, <1>2

\* A command makes its first step.
LEMMA BeginStepOK ==
  ASSUME AccessInv, BeginStep, UNCHANGED tables
  PROVE  Step /\ Profile'
<1> DEFINE ok(q) == RequestOK(q, DOMAIN invites, DOMAIN resets)
           asks(q) == calls' = [calls EXCEPT ![CmdClient] = q]
<1>1. ASSUME NEW q, ok(q), asks(q) PROVE Step BY <1>1, Asked
<1>2. UNCHANGED row BY DEF BeginStep, Rest
<1>3. ASSUME DOMAIN cmd' = DOMAIN NoCmd, cmd'.doc \in Doc \cup {0} PROVE Profile'
  BY <1>2, <1>3 DEF AccessInv, Profile
<1>4. ASSUME NEW d \in Doc, BeginInit(d) PROVE Step /\ Profile'
  <2>1. DOMAIN cmd' = DOMAIN NoCmd /\ cmd'.doc = d BY <1>4 DEF BeginInit, NoCmd
  <2>2. Step BY <1>4, Silent DEF BeginInit
  <2> QED BY <1>3, <2>1, <2>2
<1>5. ASSUME NEW a \in Account, NEW d \in Doc, BeginSignup(a, 1, d) PROVE Step /\ Profile'
  <2> DEFINE doc == IF LocalOnlyDoc = 0 THEN d ELSE LocalOnlyDoc
             q == [Request("signup", "run") EXCEPT !.account = a, !.doc = doc, !.password = 1]
  <2>1. doc \in Doc BY DEF LocalOnlyDoc, AccessInv, Profile
  <2>2. asks(q) BY <1>5 DEF BeginSignup, Send
  <2>3. DOMAIN cmd' = DOMAIN NoCmd /\ cmd'.doc = 0 BY <1>5 DEF BeginSignup, NoCmd
  <2> HIDE DEF doc
  <2>4. ok(q) BY <2>1 DEF RequestOK, Request, Idle
  <2> HIDE DEF q, ok, asks
  <2> QED BY <1>1, <1>3, <2>2, <2>3, <2>4
<1>6. ASSUME NEW a \in DOMAIN accounts, NEW p, BeginLogin(a, p) PROVE Step /\ Profile'
  <2> DEFINE q == [Request("login", "run") EXCEPT !.account = a, !.password = p]
  <2>1. a \in Account BY DEF AccessInv, Tables, AccountRows
  <2>2. asks(q) BY <1>6 DEF BeginLogin, Send
  <2>3. DOMAIN cmd' = DOMAIN NoCmd /\ cmd'.doc = 0 BY <1>6 DEF BeginLogin, NoCmd
  <2>4. ok(q) BY <2>1 DEF RequestOK, Request, Idle
  <2> HIDE DEF q, ok, asks
  <2> QED BY <1>1, <1>3, <2>2, <2>3, <2>4
<1>7. ASSUME NEW a \in DOMAIN accounts, BeginRecover(a, 2) PROVE Step /\ Profile'
  <2> DEFINE q == [Request("recover", "run") EXCEPT !.account = a]
  <2>1. a \in Account BY DEF AccessInv, Tables, AccountRows
  <2>2. asks(q) BY <1>7 DEF BeginRecover, Send
  <2>3. DOMAIN cmd' = DOMAIN NoCmd /\ cmd'.doc = 0 BY <1>7 DEF BeginRecover, NoCmd
  <2>4. ok(q) BY <2>1 DEF RequestOK, Request, Idle
  <2> HIDE DEF q, ok, asks
  <2> QED BY <1>1, <1>3, <2>2, <2>3, <2>4
<1>8. CASE BeginPassword(1, 2) \/ BeginLogout
  <2>1. DOMAIN cmd' = DOMAIN NoCmd /\ cmd'.doc = 0 BY <1>8 DEF BeginPassword, BeginLogout, NoCmd
  <2>2. Step BY <1>8, Silent DEF BeginPassword, BeginLogout
  <2> QED BY <1>3, <2>1, <2>2
<1>9. CASE BeginDeleteAccount(1)
  <2> DEFINE q == [Request("deleteAccount", "auth") EXCEPT !.token = secrets.token, !.password = 1]
  <2>1. asks(q) BY <1>9 DEF BeginDeleteAccount, Send
  <2>2. DOMAIN cmd' = DOMAIN NoCmd /\ cmd'.doc = 0 BY <1>9 DEF BeginDeleteAccount, NoCmd
  <2>3. ok(q) BY DEF RequestOK, Request, Idle
  <2> HIDE DEF q, ok, asks
  <2> QED BY <1>1, <1>3, <2>1, <2>2, <2>3
<1>10. ASSUME NEW i \in DOMAIN invites, BeginShareAccept(i) PROVE Step /\ Profile'
  <2> DEFINE q == [Request("accept", "auth") EXCEPT !.token = secrets.token, !.row = i,
                                                   !.home = row.primary]
  <2>1. asks(q) BY <1>10 DEF BeginShareAccept, Send
  <2>2. DOMAIN cmd' = DOMAIN NoCmd /\ cmd'.doc = 0 BY <1>10 DEF BeginShareAccept, NoCmd
  <2>3. ok(q) BY DEF RequestOK, Request, Idle
  <2> HIDE DEF q, ok, asks
  <2> QED BY <1>1, <1>3, <2>1, <2>2, <2>3
<1>11. CASE BeginClear
  <2>1. DOMAIN cmd' = DOMAIN NoCmd /\ cmd'.doc = row.primary BY <1>11 DEF BeginClear, NoCmd
  <2>2. Step BY <1>11, Silent DEF BeginClear
  <2> QED BY <1>3, <2>1, <2>2 DEF AccessInv, Profile
<1> QED BY <1>4, <1>5, <1>6, <1>7, <1>8, <1>9, <1>10, <1>11 DEF BeginStep

\* A command goes on with the answer to its request, or asks the next one.
LEMMA AnsweredStep ==
  ASSUME AccessInv, AskPassword \/ Answered, UNCHANGED tables
  PROVE  Step /\ Profile'
<1> DEFINE ok(q) == RequestOK(q, DOMAIN invites, DOMAIN resets)
           asks(q) == calls' = [calls EXCEPT ![CmdClient] = q]
           r == calls[CmdClient]
<1>1. ASSUME NEW q, ok(q), asks(q) PROVE Step BY <1>1, Asked
<1>2. UNCHANGED row BY DEF AskPassword, Answered, Rest
<1>3. ASSUME DOMAIN cmd' = DOMAIN cmd, cmd'.doc \in Doc \cup {0} PROVE Profile'
  BY <1>2, <1>3 DEF AccessInv, Profile
<1>4. ok(r) /\ r.doc \in Doc \cup {0}
  BY ClientsAssumption DEF AccessInv, Requests, RequestOK
<1>5. DOMAIN cmd = DOMAIN NoCmd /\ cmd.doc \in Doc \cup {0} BY DEF AccessInv, Profile
<1>6. ok(Idle) BY Fresh DEF AccessInv
<1>7. CASE AskPassword
  <2> DEFINE q == [Request("password", "auth") EXCEPT !.token = cmd.token,
                     !.password = cmd.password, !.new = cmd.new, !.home = row.primary]
  <2>1. asks(q) \/ UNCHANGED calls BY <1>7 DEF AskPassword, Send
  <2>2. DOMAIN cmd' = DOMAIN cmd /\ cmd'.doc = cmd.doc BY <1>5, <1>7 DEF AskPassword, NoCmd
  <2>3. ok(q) BY DEF RequestOK, Request, Idle
  <2>4. UNCHANGED calls => asks(r) BY DEF AccessInv, Requests
  <2> HIDE DEF q, ok, asks, r
  <2> QED BY <1>1, <1>3, <1>4, <1>5, <2>1, <2>2, <2>3, <2>4
<1>8. CASE Answered
  <2>1. CASE asks(Idle)
    <3>1. DOMAIN cmd' = DOMAIN cmd /\ cmd'.doc \in {cmd.doc, r.doc}
      BY <1>5, <1>8, <2>1 DEF Answered, RecoverAnswered, LoginAnswered, Ask, NoCmd
    <3> HIDE DEF ok, asks
    <3> QED BY <1>1, <1>3, <1>4, <1>5, <1>6, <2>1, <3>1
  <2>2. CASE ~asks(Idle)
    <3>1. r.op \in {"recover", "reset"} /\ r.at = "answered" /\ r.out = "ok" /\ RecoverAnswered(r)
      BY <1>8, <2>2 DEF Answered, RecoverAnswered, Ask
    <3>2. CASE r.op = "recover"
      <4> DEFINE q == [Request("reset", "run") EXCEPT !.row = r.row, !.home = r.doc, !.new = cmd.new]
      <4>1. asks(q) /\ cmd' = [cmd EXCEPT !.doc = r.doc] BY <3>1, <3>2 DEF RecoverAnswered, Ask
      <4>2. DOMAIN cmd' = DOMAIN cmd /\ cmd'.doc = r.doc BY <1>5, <4>1 DEF NoCmd
      <4>3. r.row \in DOMAIN resets BY <1>4, <3>1, <3>2 DEF RequestOK
      <4>4. ok(q) BY <4>3 DEF RequestOK, Request, Idle
      <4> HIDE DEF q, ok, asks
      <4> QED BY <1>1, <1>3, <1>4, <4>1, <4>2, <4>4
    <3>3. CASE r.op = "reset"
      <4> DEFINE q == [Request("docs", "auth") EXCEPT !.token = r.token]
      <4>1. asks(q) /\ cmd' = [cmd EXCEPT !.token = r.token] BY <3>1, <3>3 DEF RecoverAnswered, Ask
      <4>2. DOMAIN cmd' = DOMAIN cmd /\ cmd'.doc = cmd.doc BY <1>5, <4>1 DEF NoCmd
      <4>3. ok(q) BY DEF RequestOK, Request, Idle
      <4> HIDE DEF q, ok, asks
      <4> QED BY <1>1, <1>3, <1>5, <4>1, <4>2, <4>3
    <3> QED BY <3>1, <3>2, <3>3
  <2> QED BY <2>1, <2>2
<1> QED BY <1>7, <1>8

\* The writes of a command ask nothing of the server.
LEMMA CommandStepOK ==
  ASSUME AccessInv, CommandStep, UNCHANGED tables
  PROVE  Step /\ Profile'
<1>1. CASE BeginStep BY <1>1, BeginStepOK
<1>2. CASE AskPassword \/ Answered BY <1>2, AnsweredStep
<1>3. DOMAIN cmd = DOMAIN NoCmd /\ cmd.doc \in Doc \cup {0} BY DEF AccessInv, Profile
<1>4. CASE Claim \/ Seed \/ WriteSecrets \/ WriteShareKey \/ ClearDb \/ Reseed
  <2>1. UNCHANGED calls /\ UNCHANGED row
    BY <1>4 DEF Claim, Seed, WriteSecrets, WriteShareKey, ClearDb, Reseed, profileVars
  <2>2. DOMAIN cmd' = DOMAIN cmd /\ cmd'.doc = cmd.doc
    BY <1>3, <1>4 DEF Claim, Seed, WriteSecrets, WriteShareKey, ClearDb, Reseed, NoCmd
  <2> QED BY <2>1, <2>2, Silent DEF AccessInv, Profile
<1>5. CASE WriteAccount \/ Purge
  <2>3. NoFile.primary = 0 /\ \A d, a : AccountRow(d, a).primary = d BY DEF AccountRow, NoFile
  <2>1. UNCHANGED calls /\ row'.primary \in {cmd.doc, row.primary, 0}
    BY <1>5, <2>3 DEF WriteAccount, Purge, DatabaseRemoved
  <2>2. DOMAIN cmd' = DOMAIN cmd /\ cmd'.doc = cmd.doc
    BY <1>3, <1>5 DEF WriteAccount, Purge, NoCmd
  <2> QED BY <1>3, <2>1, <2>2, Silent DEF AccessInv, Profile
<1>6. CASE Done \/ Kill
  <2>1. UNCHANGED calls /\ UNCHANGED row /\ cmd' = NoCmd
    BY <1>6 DEF Done, Kill
  <2>2. DOMAIN cmd' = DOMAIN NoCmd /\ cmd'.doc \in Doc \cup {0} BY <1>3, <2>1 DEF NoCmd
  <2> QED BY <2>1, <2>2, Silent DEF AccessInv, Profile
<1> QED BY <1>1, <1>2, <1>4, <1>5, <1>6 DEF CommandStep, Command

\* Only commands write the account row.
LEMMA RowKept ==
  ASSUME ServerStep \/ PeerStep \/ SessionStep \/ HostStep \/ WorkspaceStep
  PROVE  UNCHANGED row
<1>1. CASE ServerStep \/ PeerStep \/ SessionStep
  BY <1>1 DEF ServerStep, PeerStep, SessionStep, localVars
<1>2. CASE WorkspaceStep BY <1>2 DEF WorkspaceStep, profileVars
<1>3. CASE LifeStep
  BY <1>3 DEF LifeStep, SpawnDaemon, StartApp, StartHost, BootHost, StopHost, profileVars
<1>4. CASE EditStep BY <1>4 DEF EditStep, DocCommand, MirrorEdit, profileVars
<1>5. CASE MirrorStep
  BY <1>5 DEF MirrorStep, Subscribe, Import, MirrorUpdate, Unsubscribe, profileVars
<1>6. CASE NetworkStep
  <2>1. CASE Pump \/ HostDisconnect \/ HostConnect
    BY <2>1 DEF Pump, HostDisconnect, HostConnect, profileVars
  <2>2. CASE HostFrame BY <2>2 DEF HostFrame, Merged, ForgetDoc, profileVars
  <2>3. CASE \E d \in Doc : HostBroadcast(d) BY <2>3 DEF HostBroadcast, Merged
  <2>4. CASE HostReply
    BY <2>4 DEF HostReply, WorkspaceCreated, WorkspaceDeleted, WorkspaceFailed, ForgetDoc,
                profileVars
  <2> QED BY <1>6, <2>1, <2>2, <2>3, <2>4 DEF NetworkStep
<1> QED BY <1>1, <1>2, <1>3, <1>4, <1>5, <1>6 DEF HostStep

\* Every step keeps the invariant and is one the abstract specification allows.
LEMMA NextOK ==
  ASSUME AccessInv, [Next]_vars
  PROVE  AccessInv' /\ Allowed
<1>1. CASE ServerStep
  <2>1. ASSUME NEW c \in Client, Route(c) PROVE Step BY <2>1, RouteStep
  <2>2. ASSUME NEW c \in Client, CloseNext(c) PROVE Step BY <2>2, CloseNextStep
  <2>3. Step BY <1>1, <2>1, <2>2, ExpireStep DEF ServerStep
  <2>4. Profile' BY <1>1, RowKept DEF ServerStep, localVars, AccessInv, Profile
  <2> QED BY <2>3, <2>4 DEF Step, AccessInv
<1>2. CASE PeerStep
  <2>1. Profile' BY <1>2, RowKept DEF PeerStep, localVars, AccessInv, Profile
  <2> QED BY <1>2, <2>1, PeerStepOK DEF Step, AccessInv
<1>3. CASE SessionStep
  <2>1. Profile' BY <1>3 DEF SessionStep, AccessInv, Profile
  <2>2. Step BY <1>3, Silent DEF SessionStep
  <2> QED BY <2>1, <2>2 DEF Step, AccessInv
<1>4. CASE HostStep /\ UNCHANGED tables /\ UNCHANGED <<born, cmd>>
  <2>1. Profile' BY <1>4, RowKept DEF AccessInv, Profile
  <2> QED BY <1>4, <2>1, HostStepOK DEF Step, AccessInv
<1>5. CASE WorkspaceStep /\ UNCHANGED tables /\ UNCHANGED cmd
  <2>1. Profile' BY <1>5, RowKept DEF AccessInv, Profile
  <2> QED BY <1>5, <2>1, WorkspaceStepOK DEF Step, AccessInv
<1>6. CASE CommandStep /\ UNCHANGED tables /\ UNCHANGED sessionVars
  BY <1>6, CommandStepOK DEF Step, AccessInv
<1>7. CASE UNCHANGED tables /\ UNCHANGED <<calls, cmd, row>>
  <2>1. Profile' BY <1>7 DEF AccessInv, Profile
  <2> QED BY <1>7, <2>1, Silent DEF Step, AccessInv
<1>8. CASE UNCHANGED vars BY <1>7, <1>8 DEF vars, tables
<1> QED BY <1>1, <1>2, <1>3, <1>4, <1>5, <1>6, <1>7, <1>8 DEF Next, AnyStep, profileVars

-----------------------------------------------------------------------------
(* The starting points *)

\* At every starting point each document has one owner.
LEMMA InitTables ==
  ASSUME Init
  PROVE  Tables
<1> DEFINE start == mix.start
           known == start \in {"joined", "shared", "offered"}
           shared == IF start \in {"shared", "offered"} THEN {3} ELSE {}
           third == IF start = "shared" THEN {<<3, "A">>, <<3, "B">>} ELSE shared \X {"B"}
<1>1. "A" \in Account /\ "B" \in Account /\ 1 \in Doc /\ 2 \in Doc /\ 3 \in Doc
  BY StartsAssumption
<1>2. Started(start) /\ invites = <<>> /\ resets = <<>> BY DEF Init
<1>3. Invites BY <1>2 DEF Invites
<1>4. AccountRows BY <1>1, <1>2 DEF AccountRows, Started
<1>5. Credentials
  <2>1. devices = IF known THEN <<"A", "B", "A">> ELSE <<>> BY <1>2 DEF Started
  <2>2. <<"A", "B", "A">> \in Seq(Account \cup {None}) BY <1>1
  <2>3. <<>> \in Seq(Account \cup {None}) /\ <<>> \in Seq([account : Account, state : RowState])
    OBVIOUS
  <2>4. devices \in Seq(Account \cup {None})
    <3>1. CASE known BY <2>1, <2>2, <3>1
    <3>2. CASE ~known BY <2>1, <2>3, <3>2
    <3> QED BY <3>1, <3>2
  <2> QED BY <1>2, <2>3, <2>4 DEF Credentials
<1>6. CASE ~known
  <2>1. docs = {} /\ DOMAIN members = {} /\ members = [k \in {} |-> {}] BY <1>2, <1>6 DEF Started
  <2> QED BY <1>3, <1>4, <1>5, <2>1 DEF Tables, MemberRows, Owners
<1>7. CASE known
  <2>1. docs = {1, 2} \cup shared BY <1>2, <1>7 DEF Started
  <2>2. members = [k \in {<<1, "A">>, <<2, "B">>} \cup third |->
                     CASE k[1] # 3 -> Member("owner", UnderPassword(1))
                       [] k = <<3, "A">> -> Member("owner", UnderHome(1))
                       [] k = <<3, "B">> -> Member(IF start = "shared" THEN "member"
                                                   ELSE "owner", UnderHome(2))]
    BY <1>2, <1>7 DEF Started
  <2>3. DOMAIN members = {<<1, "A">>, <<2, "B">>} \cup third BY <2>2
  <2>4. /\ members[<<1, "A">>] = Member("owner", UnderPassword(1))
        /\ members[<<2, "B">>] = Member("owner", UnderPassword(1))
        /\ start = "shared" => /\ members[<<3, "A">>] = Member("owner", UnderHome(1))
                               /\ members[<<3, "B">>] = Member("member", UnderHome(2))
        /\ start = "offered" => members[<<3, "B">>] = Member("owner", UnderHome(2))
    BY <2>2, <2>3
  <2>5. /\ start = "shared" => third = {<<3, "A">>, <<3, "B">>}
        /\ start = "offered" => third = {<<3, "B">>}
        /\ start = "joined" => third = {}
    OBVIOUS
  <2>6. MemberRows
    <3>1. members = [k \in DOMAIN members |-> members[k]] BY <2>2
    <3>2. DOMAIN members \subseteq docs \X Account BY <1>1, <1>7, <2>1, <2>3, <2>5
    <3>3. \A k \in DOMAIN members : \E r, w : members[k] = Member(r, w)
      BY <1>7, <2>3, <2>4, <2>5
    <3>4. \A r, w : /\ DOMAIN Member(r, w) = {"role", "removed", "wrap"}
                    /\ Member(r, w).removed \in BOOLEAN
      BY DEF Member
    <3>5. docs \subseteq Doc BY <1>1, <2>1
    <3>6. \A k \in DOMAIN members : /\ DOMAIN members[k] = {"role", "removed", "wrap"}
                                    /\ members[k].removed \in BOOLEAN
      BY <3>3, <3>4
    <3> QED BY <3>1, <3>2, <3>5, <3>6 DEF MemberRows
  <2>7. Owners
    <3>1. CASE start = "joined"
      <4>1. \A d, a : IsOwner(d, a) <=> <<d, a>> \in {<<1, "A">>, <<2, "B">>}
        BY <2>3, <2>4, <2>5, <3>1 DEF IsOwner, IsMember, Member
      <4> QED BY <1>1, <2>1, <3>1, <4>1 DEF Owners
    <3>2. CASE start = "shared"
      <4>1. \A d, a : IsOwner(d, a) <=> <<d, a>> \in {<<1, "A">>, <<2, "B">>, <<3, "A">>}
        BY <2>3, <2>4, <2>5, <3>2 DEF IsOwner, IsMember, Member
      <4> QED BY <1>1, <2>1, <3>2, <4>1 DEF Owners
    <3>3. CASE start = "offered"
      <4>1. \A d, a : IsOwner(d, a) <=> <<d, a>> \in {<<1, "A">>, <<2, "B">>, <<3, "B">>}
        BY <2>3, <2>4, <2>5, <3>3 DEF IsOwner, IsMember, Member
      <4> QED BY <1>1, <2>1, <3>3, <4>1 DEF Owners
    <3> QED BY <1>7, <3>1, <3>2, <3>3
  <2> QED BY <1>3, <1>4, <1>5, <2>6, <2>7 DEF Tables
<1> QED BY <1>6, <1>7

\* The starting points satisfy the invariant and map to starting points.
LEMMA InitOK ==
  ASSUME Init
  PROVE  AccessInv /\ Access!Init
<1>1. Tables BY InitTables
<1>2. Requests
  <2>1. RequestOK(Idle, DOMAIN invites, DOMAIN resets) BY DEF RequestOK, Idle, None
  <2>2. calls = [c \in Client |-> Idle] BY DEF Init
  <2> QED BY <2>1, <2>2 DEF Requests
<1>3. Profile
  <2>1. row = NoFile \/ \E a : row = AccountRow(1, a) BY DEF Init, Started
  <2>2. NoFile.primary = 0 /\ \A a : AccountRow(1, a).primary = 1 BY DEF NoFile, AccountRow
  <2>3. 1 \in Doc BY StartsAssumption
  <2>4. cmd = NoCmd /\ NoCmd.doc = 0 BY DEF Init, NoCmd
  <2>5. row.primary \in Doc \cup {0} BY <2>1, <2>2, <2>3
  <2> QED BY <2>4, <2>5 DEF Profile
<1>4. OwnerOf \in [docs -> Account] BY <1>1, OwnerOfIs DEF Tables, OwnerOf
<1>5. DOMAIN OwnerOf = docs /\ docs \in SUBSET Doc BY <1>1 DEF OwnerOf, Tables, MemberRows
<1>6. Guests \subseteq {g \in (DOMAIN OwnerOf) \X Account : OwnerOf[g[1]] # g[2]}
  BY <1>1, <1>5, OwnerOfIs DEF Guests, Tables
<1>7. Offers = {} BY DEF Offers, Init
<1>8. OwnerOf \in UNION {[D -> Account] : D \in SUBSET Doc} BY <1>4, <1>5
<1> QED BY <1>1, <1>2, <1>3, <1>6, <1>7, <1>8 DEF AccessInv, Access!Init

\* AccessInv is inductive: one owner for each document, no row without its
\* document, an open invite only from the owner, and a list of sessions to close
\* only with the routes that end memberships.
THEOREM AccessHolds == Spec => []AccessInv
<1>1. Init => AccessInv BY InitOK
<1>2. AccessInv /\ [Next]_vars => AccessInv' BY NextOK
<1> QED BY <1>1, <1>2, PTL DEF Spec

\* The HTTP routes over the tables, a call to the database at a time and
\* whatever interleaves with it, implement DocAccess: one owner from creation
\* to end, an offer spent by the one account it lets in, no other way in, and
\* nothing left of a document that ends.
THEOREM SharingIsRefined == Spec => SharingRefined
<1>1. Init => AccessInv /\ Access!Init BY InitOK
<1>2. AccessInv /\ [Next]_vars => AccessInv' BY NextOK
<1>3. AccessInv /\ [Next]_vars => [Access!Next]_(Access!accessVars)
  BY NextOK DEF Allowed, Access!accessVars
<1> QED BY <1>1, <1>2, <1>3, PTL DEF Spec, SharingRefined, Access!Spec
=============================================================================
