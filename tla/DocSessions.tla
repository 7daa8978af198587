---------------------------- MODULE DocSessions ----------------------------
(***************************************************************************)
(* The WebSocket sessions of the server as far as access goes: which       *)
(* documents a connection has open, the registry of subscribers with its   *)
(* presence messages, and live revocation (server/src/sync/sessions.rs and *)
(* ws.rs). What flows over an open document is the matter of SyncServer.   *)
(***************************************************************************)
EXTENDS Accounts

CONSTANTS Conn

VARIABLES
  subs,   \* the registry: subs[d] is the set of connections subscribed to d
  conns   \* the session of each connection, and what its client was sent

sessionVars == <<subs, conns>>

\* queue: the channel of each open document, without the updates in it. full:
\* documents whose channel those have filled. wire: frames the client has not
\* read yet. shown: the accounts its client shows as present. History: late,
\* documents subscribed to after the membership that was checked had ended;
\* stale, documents whose last change of accounts the session was not told.
Down ==
  [up |-> FALSE, token |-> 0, account |-> None, open |-> {}, opening |-> 0,
   queue |-> [d \in Doc |-> <<>>], full |-> {}, shown |-> [d \in Doc |-> {}], wire |-> <<>>,
   late |-> {}, stale |-> {}]

Frame(t, d) == [t |-> t, doc |-> d]

Presence(d, who) == [t |-> "Presence", doc |-> d, who |-> who]

AccountSet(ks) == {conns[k].account : k \in ks}

\* try_send on the channel of d. A full channel loses the message, and a
\* subscriber that was to be closed loses the channel: the session reads what
\* is left and then its end.
Sent(s, d, msg) ==
  IF d \in s.full
  THEN IF msg.t = "Presence" THEN [s EXCEPT !.stale = @ \cup {d}]
       ELSE [s EXCEPT !.queue[d] = Append(@, Frame("End", d))]
  ELSE [s EXCEPT !.queue[d] = Append(@, msg),
                 !.stale = IF msg.t = "Presence" THEN @ \ {d} ELSE @]

\* Queue a message on the channel that each connection of ks has for d.
Queued(cs, d, ks, msg) == [k \in Conn |-> IF k \in ks THEN Sent(cs[k], d, msg) ELSE cs[k]]

\* Fault: nobody hears of it.
NotAnnounced(cs, d, ks) == cs

\* The registry of d goes from its subscribers to ks: the ones that stay
\* hear of it when the set of accounts changes.
Announced(cs, d, ks) ==
  IF AccountSet(ks) = AccountSet(subs[d]) THEN cs
  ELSE Queued(cs, d, ks, Presence(d, AccountSet(ks)))

\* The channel of d goes with the subscription.
Unbound(cs, k, d) ==
  [cs EXCEPT ![k].open = @ \ {d}, ![k].queue[d] = <<>>, ![k].full = @ \ {d},
             ![k].late = @ \ {d}, ![k].stale = @ \ {d}]

-----------------------------------------------------------------------------
(* Sessions *)

\* The handshake; authentication is the middleware's.
Accept(k, t) ==
  /\ ~conns[k].up
  /\ DeviceAccount(t) # None
  /\ conns' = [conns EXCEPT ![k] = [Down EXCEPT !.up = TRUE, !.token = t,
                                               !.account = DeviceAccount(t)]]
  /\ UNCHANGED subs

\* The documents that j must be told of when the subscriptions of k go.
Leaving(j, k) ==
  {d \in Doc : j \in subs[d] /\ AccountSet(subs[d] \ {k}) # AccountSet(subs[d])}

\* A session ends and its subscriptions are dropped; frames it has sent can
\* still be read.
Ended(k, wire) ==
  /\ subs' = [d \in Doc |-> subs[d] \ {k}]
  /\ conns' = [j \in Conn |->
                 IF j = k THEN [Down EXCEPT !.wire = wire]
                 ELSE [conns[j] EXCEPT
                         !.queue = [d \in Doc |->
                           IF d \in Leaving(j, k) \ conns[j].full
                           THEN Append(@[d], Presence(d, AccountSet(subs[d] \ {k})))
                           ELSE @[d]],
                         !.stale = (@ \ Leaving(j, k)) \cup (Leaving(j, k) \cap conns[j].full)]]

\* OpenDoc: the membership is read, and the session goes on or ends.
CanOpen(k, d) ==
  /\ conns[k].up
  /\ conns[k].opening = 0
  /\ IF IsMember(d, conns[k].account)
     THEN conns' = [conns EXCEPT ![k].opening = d] /\ UNCHANGED subs
     ELSE Ended(k, Append(conns[k].wire, Frame("DocRejected", d)))

Reopened(k, d) == [conns EXCEPT ![k].opening = 0, ![k].wire = Append(@, Frame("DocOpened", d))]

\* A channel for d; the client knows of its own account.
Bound(s, d) ==
  [s EXCEPT !.open = @ \cup {d}, !.queue[d] = <<>>, !.full = @ \ {d}, !.stale = @ \ {d},
            !.shown[d] = {s.account},
            !.late = IF IsMember(d, s.account) THEN @ ELSE @ \cup {d}]

\* subscribe, unless the document is open already. Someone alone is told
\* nothing.
OpenDoc(k) ==
  LET d == conns[k].opening
      ks == subs[d] \cup {k}
      who == AccountSet(ks)
      told == IF Cardinality(who) = 1 THEN {} ELSE IF who # AccountSet(subs[d]) THEN ks ELSE {k}
      opened == [Reopened(k, d) EXCEPT ![k] = Bound(@, d)]
  IN /\ conns[k].up
     /\ d # 0
     /\ \/ d \in conns[k].open /\ conns' = Reopened(k, d) /\ UNCHANGED subs
        \/ /\ d \notin conns[k].open
           /\ subs' = [subs EXCEPT ![d] = ks]
           /\ conns' = Queued(opened, d, told, Presence(d, who))

\* The session reads the channel of one of its documents; the end of a channel
\* ends the session.
Forward(k, d) ==
  /\ conns[k].up
  /\ conns[k].opening = 0
  /\ conns[k].queue[d] # <<>>
  /\ LET msg == Head(conns[k].queue[d])
         unbound == Unbound(conns, k, d)
     IN \/ /\ msg.t = "Presence"
           /\ conns' = [conns EXCEPT ![k].queue[d] = Tail(@), ![k].full = @ \ {d},
                                     ![k].shown[d] = msg.who]
           /\ UNCHANGED subs
        \/ /\ msg.t = "Close"
           /\ conns' = [unbound EXCEPT ![k].wire = Append(@, Frame("DocClosed", d))]
           /\ UNCHANGED subs
        \/ /\ msg.t = "Unbind"
           /\ conns' = unbound
           /\ UNCHANGED subs
        \/ msg.t = "End" /\ Ended(k, conns[k].wire)

\* It reads an update, and there is room again.
Drain(k, d) ==
  /\ conns[k].up
  /\ conns[k].opening = 0
  /\ d \in conns[k].full
  /\ conns' = [conns EXCEPT ![k].full = @ \ {d}]
  /\ UNCHANGED subs

\* The fan-out of a push on connection k. A subscriber whose channel is full
\* is dropped from the registry and nobody is told; the update may fill the
\* channels of others.
Broadcast(k, d) ==
  LET slow == {j \in subs[d] \ {k} : d \in conns[j].full}
      ks == subs[d] \ slow
      missed == IF AccountSet(ks) = AccountSet(subs[d]) THEN {} ELSE ks
  IN /\ conns[k].up
     /\ conns[k].opening = 0
     /\ d \in conns[k].open
     /\ subs' = [subs EXCEPT ![d] = ks]
     /\ \E filled \in SUBSET (ks \ {k}) :
          conns' = [j \in Conn |->
            [conns[j] EXCEPT !.queue[d] = IF j \in slow THEN Append(@, Frame("End", d)) ELSE @,
                             !.full = IF j \in filled THEN @ \cup {d} ELSE @,
                             !.stale = IF j \in missed THEN @ \cup {d} ELSE @]]

\* The connection breaks, or its client names a document that is not open.
EndSession(k) == conns[k].up /\ Ended(k, conns[k].wire)

-----------------------------------------------------------------------------
(* Live revocation, one document of a route's list at a time *)

\* Fault: the sessions that are dropped are not told.
DropForAccount(d, a) ==
  LET ks == {k \in subs[d] : conns[k].account # a}
  IN /\ subs' = [subs EXCEPT ![d] = ks]
     /\ conns' = Announced(conns, d, ks)

CloseForAccount(d, a) ==
  LET ks == {k \in subs[d] : conns[k].account # a}
  IN /\ subs' = [subs EXCEPT ![d] = ks]
     /\ conns' = Announced(Queued(conns, d, subs[d] \ ks, Frame("Close", d)), d, ks)

CloseDoc(d, t) ==
  LET own == {k \in subs[d] : conns[k].token = t}
  IN /\ subs' = [subs EXCEPT ![d] = {}]
     /\ conns' = Queued(Queued(conns, d, own, Frame("Unbind", d)),
                        d, subs[d] \ own, Frame("Close", d))

CloseNext(c) ==
  /\ calls[c].at = "close"
  /\ \E x \in calls[c].close :
       /\ calls' = [calls EXCEPT ![c].close = @ \ {x},
                                 ![c].at = IF calls[c].close = {x} THEN "answered" ELSE "close"]
       /\ IF x.account = None THEN CloseDoc(x.doc, calls[c].token)
          ELSE CloseForAccount(x.doc, x.account)
  /\ UNCHANGED tables
=============================================================================
