------------------------------ MODULE Accounts ------------------------------
(***************************************************************************)
(* The server's accounts, documents, memberships, devices, invites and     *)
(* recovery sessions (server/src/auth), and the HTTP routes that read and  *)
(* change them (server/src/http). A call to the database is one step; what *)
(* a route does between two calls interleaves with every other route. A    *)
(* password is a version number, which stands for its hash and for the key *)
(* derived from it; the key of a document is named by the document. The    *)
(* name of an account stands for its email and its id together, so it is   *)
(* not used again after the account is deleted.                            *)
(***************************************************************************)
EXTENDS Integers, Sequences, FiniteSets

CONSTANTS Account, Doc, Client, Password

None == "none"

\* Nothing needs a document number 0 or an account called None.
ASSUME NamesAssumption == None \notin Account /\ 0 \notin Doc /\ 0 \notin Password

VARIABLES
  accounts,  \* rows of accounts, by email
  docs,      \* rows of docs
  members,   \* rows of doc_members, by document and account
  devices,   \* devices[t] is the account of token t, None once revoked
  invites,   \* rows of doc_invites, in the order of their creation
  resets,    \* rows of recovery_sessions, in the order of their creation
  calls      \* the HTTP request each client has under way

tables == <<accounts, docs, members, devices, invites, resets>>

Put(f, k, v) == [x \in DOMAIN f \cup {k} |-> IF x = k THEN v ELSE f[x]]

Drop(f, K) == [x \in DOMAIN f \ K |-> f[x]]

-----------------------------------------------------------------------------
(* Rows *)

\* A key wrapped under a password, or under the key of the Home document.
UnderPassword(p) == <<"password", p>>

UnderHome(d) == <<"home", d>>

Member(role, wrap) == [role |-> role, removed |-> FALSE, wrap |-> wrap]

IsMember(d, a) == <<d, a>> \in DOMAIN members /\ ~members[<<d, a>>].removed

IsOwner(d, a) == IsMember(d, a) /\ members[<<d, a>>].role = "owner"

Memberships(a) ==
  {[doc |-> d, wrap |-> members[<<d, a>>].wrap] : d \in {e \in Doc : IsMember(e, a)}}

Rows(D) == {k \in DOMAIN members : k[1] \in D}

\* Fault: the invites of a deleted document stay.
WithdrawnIssued(D, a) ==
  [i \in DOMAIN invites |->
     IF invites[i].by = a THEN [invites[i] EXCEPT !.state = "gone"] ELSE invites[i]]

\* The invites of these documents, and those an account issued, are deleted.
Withdrawn(D, a) ==
  [i \in DOMAIN invites |->
     IF invites[i].doc \in D \/ invites[i].by = a
     THEN [invites[i] EXCEPT !.state = "gone"] ELSE invites[i]]

-----------------------------------------------------------------------------
(* Requests. A request holds what its client sends and, while the route    *)
(* runs, what the route has read.                                          *)

Idle ==
  [op |-> None, at |-> None, token |-> 0, account |-> None, doc |-> 0, target |-> None,
   row |-> 0, password |-> 0, new |-> 0, home |-> 0, close |-> {}, out |-> None, list |-> {}]

Request(op, at) == [Idle EXCEPT !.op = op, !.at = at]

Send(c, q) == calls[c] = Idle /\ calls' = [calls EXCEPT ![c] = q]

At(c, op, at) == calls[c].op = op /\ calls[c].at = at

Goto(c, at) == calls' = [calls EXCEPT ![c].at = at]

Answer(c, out) == calls' = [calls EXCEPT ![c].at = "answered", ![c].out = out]

Refuse(c, out) == Answer(c, out) /\ UNCHANGED tables

\* The account of the device with this token; a revoked device has none.
DeviceAccount(t) == IF t \in DOMAIN devices THEN devices[t] ELSE None

Authenticate(c) ==
  /\ calls[c].at = "auth"
  /\ LET a == DeviceAccount(calls[c].token)
     IN IF a # None THEN calls' = [calls EXCEPT ![c].at = "run", ![c].account = a]
        ELSE Answer(c, "Unauthorized")
  /\ UNCHANGED tables

\* create_device, refused by its foreign key when the account is gone.
CreateDevice(c, at) ==
  LET a == calls[c].account
  IN IF a \in DOMAIN accounts
     THEN /\ devices' = Append(devices, a)
          /\ calls' = [calls EXCEPT ![c].at = at, ![c].token = Len(devices) + 1,
                                    ![c].doc = accounts[a].primary,
                                    ![c].out = "ok"]
          /\ UNCHANGED <<accounts, docs, members, invites, resets>>
     ELSE Refuse(c, "Internal")

-----------------------------------------------------------------------------
(* Accounts *)

Signup(c) ==
  LET q == calls[c]
  IN /\ At(c, "signup", "run")
     /\ \/ q.account \in DOMAIN accounts /\ Refuse(c, "AccountExists")
        \/ /\ q.account \notin DOMAIN accounts
           /\ q.doc \in docs
           /\ Refuse(c, "DocExists")
        \/ /\ q.account \notin DOMAIN accounts
           /\ q.doc \notin docs
           /\ docs' = docs \cup {q.doc}
           /\ accounts' = Put(accounts, q.account, [primary |-> q.doc, password |-> q.password])
           /\ members' = Put(members, <<q.doc, q.account>>,
                             Member("owner", UnderPassword(q.password)))
           /\ devices' = Append(devices, q.account)
           /\ calls' = [calls EXCEPT ![c].at = "answered", ![c].out = "ok",
                                     ![c].token = Len(devices) + 1]
           /\ UNCHANGED <<invites, resets>>

PasswordIs(c) ==
  LET q == calls[c]
  IN q.account \in DOMAIN accounts /\ accounts[q.account].password = q.password

\* find_account_by_email and the comparison of hashes; the device and the
\* memberships are calls of their own.
LoginVerify(c) ==
  /\ At(c, "login", "run")
  /\ IF PasswordIs(c) THEN Goto(c, "device") ELSE Answer(c, "InvalidCredentials")
  /\ UNCHANGED tables

LoginDevice(c) == At(c, "login", "device") /\ CreateDevice(c, "list")

\* list_memberships, for a login and for GET /api/docs.
ListDocs(c) ==
  /\ At(c, "login", "list") \/ At(c, "docs", "run")
  /\ calls' = [calls EXCEPT ![c].at = "answered", ![c].out = "ok",
                            ![c].list = Memberships(calls[c].account)]
  /\ UNCHANGED tables

\* The recovery code verifies; the session is stored by a later call.
RecoverVerify(c) ==
  LET a == calls[c].account
  IN /\ At(c, "recover", "run")
     /\ IF a \in DOMAIN accounts
        THEN calls' = [calls EXCEPT ![c].at = "session", ![c].doc = accounts[a].primary]
        ELSE Answer(c, "InvalidCredentials")
     /\ UNCHANGED tables

RecoverSession(c) ==
  LET a == calls[c].account
  IN /\ At(c, "recover", "session")
     /\ IF a \in DOMAIN accounts
        THEN /\ resets' = Append(resets, [account |-> a, state |-> "open"])
             /\ calls' = [calls EXCEPT ![c].at = "answered", ![c].out = "ok",
                                       ![c].row = Len(resets) + 1]
             /\ UNCHANGED <<accounts, docs, members, devices, invites>>
        ELSE Refuse(c, "Internal")

\* Fault: the Home key stays wrapped under the old password.
SetHash(a, new) ==
  /\ accounts' = [accounts EXCEPT ![a].password = new]
  /\ UNCHANGED members

\* apply_password_update: the hash and the wrap of the Home key together; a
\* request that does not rewrap exactly the primary document changes nothing.
SetPassword(a, new) ==
  /\ accounts' = [accounts EXCEPT ![a].password = new]
  /\ members' = [members EXCEPT ![<<accounts[a].primary, a>>].wrap = UnderPassword(new)]

PasswordVerify(c) ==
  /\ At(c, "password", "run")
  /\ IF PasswordIs(c) THEN Goto(c, "update") ELSE Answer(c, "InvalidCredentials")
  /\ UNCHANGED tables

PasswordUpdate(c) ==
  LET q == calls[c]
  IN /\ At(c, "password", "update")
     /\ IF q.account \in DOMAIN accounts /\ accounts[q.account].primary = q.home
        THEN /\ SetPassword(q.account, q.new)
             /\ Answer(c, "ok")
             /\ UNCHANGED <<docs, devices, invites, resets>>
        ELSE Refuse(c, "DocKeysMismatch")

\* reset_password_with_recovery_session: the session is consumed only when
\* the update is accepted; the new device is a later call.
PasswordReset(c) ==
  LET q == calls[c]
      a == resets[q.row].account
  IN /\ At(c, "reset", "run")
     /\ \/ resets[q.row].state # "open" /\ Refuse(c, "RecoverySessionInvalid")
        \/ /\ resets[q.row].state = "open"
           /\ accounts[a].primary # q.home
           /\ Refuse(c, "DocKeysMismatch")
        \/ /\ resets[q.row].state = "open"
           /\ accounts[a].primary = q.home
           /\ SetPassword(a, q.new)
           /\ resets' = [resets EXCEPT ![q.row].state = "consumed"]
           /\ calls' = [calls EXCEPT ![c].at = "device", ![c].account = a]
           /\ UNCHANGED <<docs, devices, invites>>

ResetDevice(c) == At(c, "reset", "device") /\ CreateDevice(c, "answered")

\* logout, and DELETE /api/devices/:id on another device of the account. The
\* device's sessions stay.
RevokeDevice(c) ==
  LET q == calls[c]
  IN /\ At(c, "revoke", "run")
     /\ IF q.row \in DOMAIN devices /\ devices[q.row] = q.account
        THEN /\ devices' = [devices EXCEPT ![q.row] = None]
             /\ Answer(c, "ok")
             /\ UNCHANGED <<accounts, docs, members, invites, resets>>
        ELSE Refuse(c, "NotFound")

DeleteAccountVerify(c) ==
  /\ At(c, "deleteAccount", "run")
  /\ IF PasswordIs(c) THEN Goto(c, "purge") ELSE Answer(c, "InvalidCredentials")
  /\ UNCHANGED tables

\* The documents it owns go with all their rows; it leaves the others.
DeleteAccount(c) ==
  LET a == calls[c].account
      owned == {d \in docs : IsOwner(d, a)}
      left == {d \in docs \ owned : IsMember(d, a)}
  IN /\ At(c, "deleteAccount", "purge")
     /\ accounts' = Drop(accounts, {a})
     /\ docs' = docs \ owned
     /\ members' = Drop(members, Rows(owned) \cup {k \in DOMAIN members : k[2] = a})
     /\ devices' = [t \in DOMAIN devices |-> IF devices[t] = a THEN None ELSE devices[t]]
     /\ invites' = Withdrawn(owned, a)
     /\ resets' = [r \in DOMAIN resets |->
                     IF resets[r].account = a THEN [resets[r] EXCEPT !.state = "gone"]
                     ELSE resets[r]]
     /\ calls' = [calls EXCEPT ![c].at = "close", ![c].out = "ok",
                               ![c].close = {[doc |-> d, account |-> None] : d \in owned}
                                    \cup {[doc |-> d, account |-> a] : d \in left}]

-----------------------------------------------------------------------------
(* Documents and sharing *)

\* The id is new; the keys of the tables refuse one in use and an account gone.
CreateDoc(c) ==
  LET q == calls[c]
  IN /\ At(c, "createDoc", "run")
     /\ IF q.account \in DOMAIN accounts /\ q.doc \notin docs
        THEN /\ docs' = docs \cup {q.doc}
             /\ members' = Put(members, <<q.doc, q.account>>, Member("owner", UnderHome(q.home)))
             /\ Answer(c, "ok")
             /\ UNCHANGED <<accounts, devices, invites, resets>>
        ELSE Refuse(c, "Internal")

IsPrimary(c) ==
  LET q == calls[c]
  IN q.account \in DOMAIN accounts /\ accounts[q.account].primary = q.doc

\* Home is kept out of sharing and deletion; the rest is for owners.
OwnsShared(c) == ~IsPrimary(c) /\ IsOwner(calls[c].doc, calls[c].account)

DeleteDoc(c) ==
  LET q == calls[c]
  IN /\ At(c, "deleteDoc", "run")
     /\ IF OwnsShared(c)
        THEN /\ docs' = docs \ {q.doc}
             /\ members' = Drop(members, Rows({q.doc}))
             /\ invites' = Withdrawn({q.doc}, None)
             /\ calls' = [calls EXCEPT ![c].at = "close", ![c].out = "ok",
                                       ![c].close = {[doc |-> q.doc, account |-> None]}]
             /\ UNCHANGED <<accounts, devices, resets>>
        ELSE Refuse(c, "Refused")

CreateInvite(c) ==
  LET q == calls[c]
  IN /\ At(c, "invite", "run")
     /\ IF OwnsShared(c)
        THEN /\ invites' = Append(invites, [doc |-> q.doc, by |-> q.account, state |-> "open"])
             /\ calls' = [calls EXCEPT ![c].at = "answered", ![c].out = "ok",
                                       ![c].row = Len(invites) + 1]
             /\ UNCHANGED <<accounts, docs, members, devices, resets>>
        ELSE Refuse(c, "Forbidden")

RevokeInvite(c) ==
  LET q == calls[c]
  IN /\ At(c, "revokeInvite", "run")
     /\ IF invites[q.row].state # "gone" /\ IsOwner(invites[q.row].doc, q.account)
        THEN /\ invites' = [invites EXCEPT ![q.row].state = "gone"]
             /\ Answer(c, "ok")
             /\ UNCHANGED <<accounts, docs, members, devices, resets>>
        ELSE Refuse(c, "NotFound")

\* Fault: the invite is not consumed.
AcceptAgain(c) ==
  LET q == calls[c]
      i == invites[q.row]
  IN /\ At(c, "accept", "run")
     /\ IF i.state = "open" /\ ~IsMember(i.doc, q.account) /\ q.account \in DOMAIN accounts
        THEN /\ members' = Put(members, <<i.doc, q.account>>, Member("member", UnderHome(q.home)))
             /\ calls' = [calls EXCEPT ![c].at = "answered", ![c].out = "ok", ![c].doc = i.doc]
             /\ UNCHANGED <<accounts, docs, devices, invites, resets>>
        ELSE Refuse(c, "Refused")

\* The invite is left open for a member; a removed member's row comes back.
AcceptInvite(c) ==
  LET q == calls[c]
      i == invites[q.row]
  IN /\ At(c, "accept", "run")
     /\ IF /\ i.state = "open"
           /\ ~IsMember(i.doc, q.account)
           /\ q.account \in DOMAIN accounts
        THEN /\ members' = Put(members, <<i.doc, q.account>>, Member("member", UnderHome(q.home)))
             /\ invites' = [invites EXCEPT ![q.row].state = "consumed"]
             /\ calls' = [calls EXCEPT ![c].at = "answered", ![c].out = "ok", ![c].doc = i.doc]
             /\ UNCHANGED <<accounts, docs, devices, resets>>
        ELSE Refuse(c, "Refused")

RemoveMember(c) ==
  LET q == calls[c]
  IN /\ At(c, "removeMember", "run")
     /\ IF /\ OwnsShared(c)
           /\ q.target # q.account
           /\ IsMember(q.doc, q.target)
        THEN /\ members' = [members EXCEPT ![<<q.doc, q.target>>].removed = TRUE]
             /\ calls' = [calls EXCEPT ![c].at = "close", ![c].out = "ok",
                                       ![c].close = {[doc |-> q.doc, account |-> q.target]}]
             /\ UNCHANGED <<accounts, docs, devices, invites, resets>>
        ELSE Refuse(c, "Refused")

\* Time passes.
Expire ==
  /\ \/ /\ \E i \in DOMAIN invites :
             /\ invites[i].state = "open"
             /\ invites' = [invites EXCEPT ![i].state = "expired"]
        /\ UNCHANGED resets
     \/ /\ \E r \in DOMAIN resets :
             /\ resets[r].state = "open"
             /\ resets' = [resets EXCEPT ![r].state = "expired"]
        /\ UNCHANGED invites
  /\ UNCHANGED <<accounts, docs, members, devices, calls>>

Route(c) ==
  \/ Authenticate(c)
  \/ Signup(c)
  \/ LoginVerify(c)
  \/ LoginDevice(c)
  \/ ListDocs(c)
  \/ RecoverVerify(c)
  \/ RecoverSession(c)
  \/ PasswordVerify(c)
  \/ PasswordUpdate(c)
  \/ PasswordReset(c)
  \/ ResetDevice(c)
  \/ RevokeDevice(c)
  \/ DeleteAccountVerify(c)
  \/ DeleteAccount(c)
  \/ CreateDoc(c)
  \/ DeleteDoc(c)
  \/ CreateInvite(c)
  \/ RevokeInvite(c)
  \/ AcceptInvite(c)
  \/ RemoveMember(c)
=============================================================================
