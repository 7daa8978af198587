-------------------------- MODULE AccessInvariant --------------------------
(***************************************************************************)
(* The inductive invariant behind SharingRefined and RevokedUnbound: what  *)
(* the tables, the requests under way and the sessions keep to, whichever  *)
(* routes interleave. Records are described by their fields, so that the   *)
(* invariant says nothing of values no rule of access depends on.          *)
(***************************************************************************)
EXTENDS HostSystem

\* The rows: one owner for each document, no row without its document, and an
\* open invite was issued by the owner.
AccountRows ==
  /\ accounts = [a \in DOMAIN accounts |-> accounts[a]]
  /\ DOMAIN accounts \subseteq Account
  /\ \A a \in DOMAIN accounts :
       DOMAIN accounts[a] = {"primary", "password"} /\ accounts[a].primary \in Doc

MemberRows ==
  /\ docs \subseteq Doc
  /\ members = [k \in DOMAIN members |-> members[k]]
  /\ DOMAIN members \subseteq docs \X Account
  /\ \A k \in DOMAIN members :
       /\ DOMAIN members[k] = {"role", "removed", "wrap"}
       /\ members[k].removed \in BOOLEAN

Owners ==
  /\ \A d \in docs : \E a \in Account : IsOwner(d, a)
  /\ \A d \in docs : \A a, b \in Account : IsOwner(d, a) /\ IsOwner(d, b) => a = b

RowState == {"open", "consumed", "expired", "gone"}

Invites ==
  /\ invites \in Seq([doc : Doc, by : Account, state : RowState])
  /\ \A i \in DOMAIN invites :
       invites[i].state = "open" => IsOwner(invites[i].doc, invites[i].by)

Credentials ==
  /\ devices \in Seq(Account \cup {None})
  /\ resets \in Seq([account : Account, state : RowState])

Tables == AccountRows /\ MemberRows /\ Owners /\ Invites /\ Credentials

-----------------------------------------------------------------------------
(* Requests *)

Closes == [doc : Doc, account : Account \cup {None}]

\* A route that ends memberships has a list of sessions to close, no other has
\* one; what a request names exists where its route relies on it: rows are the
\* invites there are, and sessions the recovery sessions.
RequestOK(q, rows, sessions) ==
  /\ DOMAIN q = DOMAIN Idle
  /\ q.account \in Account \cup {None}
  /\ q.doc \in Doc \cup {0}
  /\ q.close \subseteq Closes
  /\ q.at # "close" => q.close = {}
  /\ q.at = "close" => q.op \in {"deleteAccount", "deleteDoc", "removeMember"}
  /\ q.op = "signup" => q.account \in Account /\ q.doc \in Doc
  /\ q.op = "createDoc" => q.doc \in Doc
  /\ q.op \in {"accept", "revokeInvite"} => q.row \in rows
  /\ q.op = "reset" => q.row \in sessions
  /\ q.op = "recover" /\ q.at = "answered" /\ q.out = "ok" => q.row \in sessions
  /\ q.at = "purge" => q.account \in Account

Requests ==
  /\ calls = [c \in Client |-> calls[c]]
  /\ \A c \in Client : RequestOK(calls[c], DOMAIN invites, DOMAIN resets)

\* What signup, the only command that names a document of its own, relies on.
Profile ==
  /\ row.primary \in Doc \cup {0}
  /\ DOMAIN cmd = DOMAIN NoCmd
  /\ cmd.doc \in Doc \cup {0}

AccessInv == Tables /\ Requests /\ Profile

-----------------------------------------------------------------------------
(* Sessions *)

Message ==
  [t : {"Presence"}, doc : Doc, who : SUBSET (Account \cup {None})]
  \cup [t : {"Close", "Unbind", "End"}, doc : Doc]

SessionOK(s) ==
  /\ DOMAIN s = DOMAIN Down
  /\ s.up \in BOOLEAN
  /\ s.account \in Account \cup {None}
  /\ s.open \subseteq Doc
  /\ s.opening \in Doc \cup {0}
  /\ s.queue \in [Doc -> Seq(Message)]
  /\ s.full \subseteq Doc
  /\ s.stale \subseteq Doc

Sessions ==
  /\ subs \in [Doc -> SUBSET Conn]
  /\ conns = [k \in Conn |-> conns[k]]
  /\ \A k \in Conn : SessionOK(conns[k])

SessionInv == AccessInv /\ Sessions /\ RevokedUnbound

\* A subscriber's session is up, has the document open, and has not been sent
\* its end.
Subscribers ==
  /\ \A k \in Conn : DOMAIN conns[k].shown = Doc
  /\ \A d \in Doc : /\ IsFiniteSet(subs[d])
                    /\ \A k \in subs[d] : conns[k].up /\ d \in conns[k].open /\ ~Closing(k, d)

PresenceInv == AccessInv /\ Sessions /\ Subscribers /\ PresenceAgrees
=============================================================================
