----------------------------- MODULE DocAccess -----------------------------
(***************************************************************************)
(* What sharing promises (spec/sharing-plan.md), whatever the tables: a    *)
(* document has one owner from its creation to its end, an offer lets one  *)
(* account in and is spent by it, nobody gets in otherwise, and what is    *)
(* left of a document that ends is nothing.                                *)
(***************************************************************************)
CONSTANTS Account, Doc

VARIABLES
  owner,   \* the owner of each document there is
  guests,  \* pairs of a document and an account that joined it
  offers   \* pairs of an offer and its document

accessVars == <<owner, guests, offers>>

Init ==
  /\ owner \in UNION {[D -> Account] : D \in SUBSET Doc}
  /\ guests \in SUBSET {g \in (DOMAIN owner) \X Account : owner[g[1]] # g[2]}
  /\ offers = {}

Found(d, a) ==
  /\ d \notin DOMAIN owner
  /\ owner' = [e \in DOMAIN owner \cup {d} |-> IF e = d THEN a ELSE owner[e]]
  /\ UNCHANGED <<guests, offers>>

Offer(i, d) ==
  /\ d \in DOMAIN owner
  /\ \A o \in offers : o[1] # i
  /\ offers' = offers \cup {<<i, d>>}
  /\ UNCHANGED <<owner, guests>>

\* Withdrawn, or expired.
Withdraw(o) == offers' = offers \ {o} /\ UNCHANGED <<owner, guests>>

Join(o, a) ==
  /\ owner[o[2]] # a
  /\ <<o[2], a>> \notin guests
  /\ guests' = guests \cup {<<o[2], a>>}
  /\ offers' = offers \ {o}
  /\ UNCHANGED owner

Part(g) == guests' = guests \ {g} /\ UNCHANGED <<owner, offers>>

\* Documents of one owner end; with a departing account, so do its visits.
End(D, a, departs) ==
  /\ \A d \in D : owner[d] = a
  /\ owner' = [d \in DOMAIN owner \ D |-> owner[d]]
  /\ guests' = {g \in guests : g[1] \notin D /\ ~(departs /\ g[2] = a)}
  /\ offers' = {o \in offers : o[2] \notin D}

Next ==
  \/ \E d \in Doc, a \in Account : Found(d, a)
  \/ \E d \in Doc : \E o \in offers' : Offer(o[1], d)
  \/ \E o \in offers : Withdraw(o) \/ \E a \in Account : Join(o, a)
  \/ \E g \in guests : Part(g)
  \/ \E d \in DOMAIN owner : End({d}, owner[d], FALSE)
  \/ \E a \in Account : End({d \in DOMAIN owner : owner[d] = a}, a, TRUE)

Spec == Init /\ [][Next]_accessVars
=============================================================================
