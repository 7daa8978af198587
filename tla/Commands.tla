------------------------------ MODULE Commands ------------------------------
(***************************************************************************)
(* The commands that rewrite the profile (cli/src/commands, bootstrap.rs): *)
(* a first local workspace, signup, login, recovery, password change,      *)
(* logout, account deletion, `db clear` and `share accept`. A command      *)
(* talks to the server, claims the profile by stopping whoever hosts it    *)
(* (cli/src/client.rs) and writes its files one at a time, secrets.toml    *)
(* last; it may be killed between any two steps.                           *)
(***************************************************************************)
EXTENDS Host

CmdClient == "cmd"

VARIABLES cmd, born   \* the command, and the document ids ever chosen

NoCmd ==
  [op |-> None, at |-> None, adopt |-> 0, doc |-> 0, keys |-> {}, token |-> 0,
   account |-> None, password |-> 0, new |-> 0, held |-> NoFile, over |-> FALSE]

NewDoc(d) == d \in Doc \ born /\ born' = born \cup {d}

Ready == cmd = NoCmd /\ calls[CmdClient] = Idle

Rest == <<lock, secrets, row, disk, seen, gen, emptied, lapses, host, mirrors, store, minted>>

-----------------------------------------------------------------------------
(* First steps, before anything is claimed *)

\* open_or_init_at finds no profile.
BeginInit(d) ==
  /\ Ready
  /\ secrets = NoFile
  /\ NewDoc(d)
  /\ cmd' = [NoCmd EXCEPT !.op = "init", !.at = "claim", !.doc = d, !.keys = {d}]
  /\ UNCHANGED calls

\* A local-only workspace is adopted: its id is the new account's document.
IsLocalOnly == secrets # NoFile /\ secrets.token = 0

LocalOnlyDoc == IF IsLocalOnly THEN row.primary ELSE 0

BeginSignup(a, p, d) ==
  LET adopt == LocalOnlyDoc
      doc == IF adopt = 0 THEN d ELSE adopt
  IN /\ Ready
     /\ IsLocalOnly => HomeKey
     /\ IF adopt = 0 THEN NewDoc(d) ELSE UNCHANGED born
     /\ cmd' = [NoCmd EXCEPT !.op = "signup", !.at = "http", !.adopt = adopt,
                             !.account = a, !.keys = {doc}]
     /\ Send(CmdClient, [Request("signup", "run") EXCEPT !.account = a, !.doc = doc,
                                                        !.password = p])

BeginLogin(a, p) ==
  /\ Ready
  /\ cmd' = [NoCmd EXCEPT !.op = "login", !.at = "http", !.account = a, !.password = p]
  /\ Send(CmdClient, [Request("login", "run") EXCEPT !.account = a, !.password = p])
  /\ UNCHANGED born

BeginRecover(a, new) ==
  /\ Ready
  /\ cmd' = [NoCmd EXCEPT !.op = "recover", !.at = "http", !.account = a, !.new = new]
  /\ Send(CmdClient, [Request("recover", "run") EXCEPT !.account = a])
  /\ UNCHANGED born

\* The profile is claimed before the server is asked.
BeginPassword(p, new) ==
  /\ Ready
  /\ secrets.token # 0
  /\ cmd' = [NoCmd EXCEPT !.op = "password", !.at = "claim", !.password = p, !.new = new,
                          !.token = secrets.token]
  /\ UNCHANGED <<calls, born>>

BeginLogout ==
  /\ Ready
  /\ secrets.token # 0
  /\ cmd' = [NoCmd EXCEPT !.op = "logout", !.at = "claim"]
  /\ UNCHANGED <<calls, born>>

BeginDeleteAccount(p) ==
  /\ Ready
  /\ secrets.token # 0
  /\ cmd' = [NoCmd EXCEPT !.op = "deleteAccount", !.at = "http"]
  /\ Send(CmdClient, [Request("deleteAccount", "auth") EXCEPT !.token = secrets.token,
                                                             !.password = p])
  /\ UNCHANGED born

\* The secrets read before the call are the ones written back after it.
BeginShareAccept(i) ==
  /\ Ready
  /\ secrets.token # 0
  /\ HomeKey
  /\ invites[i].state = "open"
  /\ cmd' = [NoCmd EXCEPT !.op = "accept", !.at = "http", !.held = secrets]
  /\ Send(CmdClient, [Request("accept", "auth") EXCEPT !.token = secrets.token, !.row = i,
                                                      !.home = row.primary])
  /\ UNCHANGED born

-----------------------------------------------------------------------------
(* The claim *)

AfterClaim ==
  CASE cmd.op = "init" -> IF secrets # NoFile THEN "done" ELSE "seed"
    [] cmd.op = "signup" -> IF cmd.adopt = 0 THEN "seed" ELSE "row"
    [] cmd.op \in {"login", "recover"} -> "seed"
    [] cmd.op \in {"logout", "deleteAccount"} -> "purge"
    [] cmd.op = "password" -> "ask"

\* Fault: a host that serves is not waited for.
ClaimAnyway ==
  /\ cmd.at = "claim"
  /\ lock' = CmdClient
  /\ cmd' = [cmd EXCEPT !.at = AfterClaim, !.over = secrets # NoFile]
  /\ UNCHANGED <<calls, lapses, born, host, mirrors, store, minted>>
  /\ UNCHANGED profileVars

\* A host is asked to stop; one that is starting is waited for.
Claim ==
  /\ cmd.at = "claim"
  /\ \/ /\ lock = None
        /\ lock' = CmdClient
        /\ cmd' = [cmd EXCEPT !.at = AfterClaim, !.over = secrets # NoFile]
        /\ UNCHANGED host
     \/ /\ host.state = "serving"
        /\ ~host.stop
        /\ host' = [host EXCEPT !.stop = TRUE]
        /\ UNCHANGED <<lock, cmd>>
  /\ UNCHANGED <<calls, lapses, born, mirrors, store, minted>>
  /\ UNCHANGED profileVars

-----------------------------------------------------------------------------
(* Answers *)

\* unwrap_home and unwrap_memberships: the Home key under the password just
\* used, every other key under the Home key; a wrap that does not open fails
\* the command.
Opens(list, home, wrap) ==
  \A m \in list : m.wrap = IF m.doc = home THEN wrap ELSE UnderHome(home)

Keys(list) == {m.doc : m \in list}

Ask(q) == calls' = [calls EXCEPT ![CmdClient] = q]

AskPassword ==
  /\ cmd.op = "password"
  /\ cmd.at = "ask"
  /\ \/ /\ HomeKey
        /\ cmd' = [cmd EXCEPT !.at = "http"]
        /\ Send(CmdClient, [Request("password", "auth") EXCEPT !.token = cmd.token,
                              !.password = cmd.password, !.new = cmd.new, !.home = row.primary])
     \/ ~HomeKey /\ cmd' = [cmd EXCEPT !.at = "done"] /\ UNCHANGED calls
  /\ UNCHANGED born
  /\ UNCHANGED Rest

LoginAnswered(q) ==
  IF q.doc \in Keys(q.list) /\ Opens(q.list, q.doc, UnderPassword(cmd.password))
  THEN cmd' = [cmd EXCEPT !.at = "claim", !.doc = q.doc, !.token = q.token,
                          !.keys = Keys(q.list)]
  ELSE cmd' = [cmd EXCEPT !.at = "done"]

\* Recovery asks for a session, then for the reset, then for the documents.
RecoverAnswered(q) ==
  \/ /\ q.op = "recover"
     /\ Ask([Request("reset", "run") EXCEPT !.row = q.row, !.home = q.doc, !.new = cmd.new])
     /\ cmd' = [cmd EXCEPT !.doc = q.doc]
  \/ /\ q.op = "reset"
     /\ Ask([Request("docs", "auth") EXCEPT !.token = q.token])
     /\ cmd' = [cmd EXCEPT !.token = q.token]
  \/ /\ q.op = "docs"
     /\ Ask(Idle)
     /\ IF Opens({m \in q.list : m.doc # cmd.doc}, cmd.doc, None)
        THEN cmd' = [cmd EXCEPT !.at = "claim", !.keys = Keys(q.list) \cup {cmd.doc}]
        ELSE cmd' = [cmd EXCEPT !.at = "done"]

Answered ==
  LET q == calls[CmdClient]
  IN /\ cmd.at = "http"
     /\ q.at = "answered"
     /\ \/ /\ q.out # "ok"
           /\ cmd' = [cmd EXCEPT !.at = "done"]
           /\ Ask(Idle)
        \/ /\ q.out = "ok"
           /\ cmd.op = "recover"
           /\ RecoverAnswered(q)
        \/ /\ q.out = "ok"
           /\ cmd.op # "recover"
           /\ Ask(Idle)
           /\ \/ /\ cmd.op = "signup"
                 /\ cmd' = [cmd EXCEPT !.at = "claim", !.doc = q.doc, !.token = q.token]
              \/ cmd.op = "login" /\ LoginAnswered(q)
              \/ cmd.op = "accept" /\ cmd' = [cmd EXCEPT !.at = "key", !.doc = q.doc]
              \/ cmd.op = "deleteAccount" /\ cmd' = [cmd EXCEPT !.at = "claim"]
              \/ cmd.op = "password" /\ cmd' = [cmd EXCEPT !.at = "done"]
     /\ UNCHANGED born
     /\ UNCHANGED Rest

-----------------------------------------------------------------------------
(* Writes, under the claim *)

\* Fault: secrets.toml is written with the snapshot, before the account row.
SeedAndMark ==
  /\ cmd.at = "seed"
  /\ cmd' = [cmd EXCEPT !.at = "row"]
  /\ Saved(cmd.doc, {Minted(PeerOf(FreeSlot), {})})
  /\ minted' = minted + 1
  /\ secrets' = SecretsFile(cmd.token, cmd.keys)
  /\ UNCHANGED <<calls, lapses, born, lock, row, seen, gen, emptied, host, mirrors, store>>

\* seed_snapshot: a first local document and a new account start from the
\* onboarding content, committed under a leased peer; a login starts from an
\* empty snapshot, and rows of the WAL stay if they were never folded. The
\* cursor stays as it is: over a profile of the same account, what is behind it
\* is not fetched again.
Seed ==
  LET welcome == cmd.op \in {"init", "signup"}
      old == BootDoc(cmd.doc)
  IN /\ cmd.at = "seed"
     /\ cmd' = [cmd EXCEPT !.at = "row"]
     /\ \/ /\ welcome
           /\ Saved(cmd.doc, {Minted(PeerOf(FreeSlot), {})})
           /\ minted' = minted + 1
           /\ UNCHANGED lapses
        \/ /\ ~welcome
           /\ \E kept \in {{}, old} :
                Saved(cmd.doc, kept) /\ Lapse("hollowed", cmd.doc, kept # old)
           /\ UNCHANGED minted
     /\ UNCHANGED <<calls, born, lock, secrets, row, seen, gen, emptied, host, mirrors, store>>

WriteAccount ==
  /\ cmd.at = "row"
  /\ cmd' = [cmd EXCEPT !.at = "secrets"]
  /\ row' = AccountRow(cmd.doc, cmd.account)
  /\ UNCHANGED <<calls, lapses, born, lock, secrets, disk, seen, gen, emptied, host, mirrors,
                 store, minted>>

WriteSecrets ==
  /\ cmd.at = "secrets"
  /\ cmd' = [cmd EXCEPT !.at = "done"]
  /\ secrets' = SecretsFile(cmd.token, cmd.keys)
  /\ UNCHANGED <<calls, lapses, born, lock, row, disk, seen, gen, emptied, host, mirrors,
                 store, minted>>

\* The database goes, peer_slots included: the next peer ids are new.
DatabaseRemoved ==
  /\ row' = NoFile
  /\ disk' = Drop(disk, Doc)
  /\ seen' = [d \in Doc |-> {}]
  /\ gen' = gen + 1
  /\ emptied' = {}

\* remove_dir_all: the files go one by one, in the order of the directory.
Purge ==
  /\ \/ /\ cmd.at \in {"purge", "purgeSecrets"}
        /\ cmd' = [cmd EXCEPT !.at = IF cmd.at = "purge" THEN "purgeDb" ELSE "done"]
        /\ secrets' = NoFile
        /\ UNCHANGED <<row, disk, seen, gen, emptied>>
     \/ /\ cmd.at \in {"purge", "purgeDb"}
        /\ cmd' = [cmd EXCEPT !.at = IF cmd.at = "purge" THEN "purgeSecrets" ELSE "done"]
        /\ DatabaseRemoved
        /\ UNCHANGED secrets
  /\ UNCHANGED <<calls, lapses, born, lock, host, mirrors, store, minted>>

\* share accept writes without a claim and asks a running host to stop.
WriteShareKey ==
  /\ cmd.at = "key"
  /\ secrets' = [cmd.held EXCEPT !.keys = @ \cup {cmd.doc}]
  /\ host' = [host EXCEPT !.stop = host.state = "serving"]
  /\ cmd' = [cmd EXCEPT !.at = "done"]
  /\ Lapse("overwritten", cmd.doc, secrets # cmd.held)
  /\ UNCHANGED <<calls, born, lock, row, disk, seen, gen, emptied, mirrors, store, minted>>

-----------------------------------------------------------------------------
(* db clear: refused while a host runs, and not claimed after that, so that *)
(* a host may start before the rows go or before a workspace is new again   *)

BeginClear ==
  /\ Ready
  /\ secrets # NoFile
  /\ lock = None
  /\ row # NoFile
  /\ HomeKey
  /\ cmd' = [NoCmd EXCEPT !.op = "clear", !.at = "clear", !.doc = row.primary,
                          !.account = row.account]
  /\ UNCHANGED <<calls, born>>

\* Home's rows and its cursor, unless the user declines.
ClearDb ==
  LET d == cmd.doc
  IN /\ cmd.at = "clear"
     /\ \/ /\ cmd' = [cmd EXCEPT !.at = IF cmd.account = None THEN "reseed" ELSE "done"]
           /\ disk' = Drop(disk, {d})
           /\ seen' = [seen EXCEPT ![d] = {}]
           /\ emptied' = emptied \cup {d}
           /\ Lapse("cleared", d, d \in DOMAIN host.mem)
        \/ /\ cmd' = [cmd EXCEPT !.at = "done"]
           /\ UNCHANGED <<disk, seen, emptied, lapses>>
     /\ UNCHANGED <<calls, born, lock, secrets, row, gen, host, mirrors, store, minted>>

\* A workspace whose account row names no account starts over from the
\* onboarding content; rows of the WAL stay, if a host has written some.
Reseed ==
  LET d == cmd.doc
      old == BootDoc(d)
  IN /\ cmd.at = "reseed"
     /\ cmd' = [cmd EXCEPT !.at = "done"]
     /\ \E kept \in {{}, old} : Saved(d, kept \cup {Minted(PeerOf(FreeSlot), {})})
     /\ minted' = minted + 1
     /\ emptied' = emptied \ {d}
     /\ Lapse("cleared", d, d \in DOMAIN host.mem \/ old # {})
     /\ UNCHANGED <<calls, born, lock, secrets, row, seen, gen, host, mirrors, store>>

-----------------------------------------------------------------------------
(* The end of a command *)

Release == lock' = IF lock = CmdClient THEN None ELSE lock

Done ==
  /\ cmd.at = "done"
  /\ cmd' = NoCmd
  /\ Release
  /\ UNCHANGED <<calls, lapses, born, secrets, row, disk, seen, gen, emptied, host, mirrors,
                 store, minted>>

\* The command is killed. Over a profile that exists the account row may be
\* of one account and secrets.toml of another from here on; of a profile that
\* was being removed secrets.toml may be all that is left.
Kill ==
  /\ cmd # NoCmd
  /\ Lapse("torn", cmd.doc, (cmd.at = "secrets" /\ cmd.over) \/ cmd.at = "purgeSecrets")
  /\ cmd' = NoCmd
  /\ Release
  /\ UNCHANGED <<calls, born, secrets, row, disk, seen, gen, emptied, host, mirrors,
                 store, minted>>

Command ==
  \/ Claim
  \/ AskPassword
  \/ Answered
  \/ Seed
  \/ WriteAccount
  \/ WriteSecrets
  \/ Purge
  \/ WriteShareKey
  \/ ClearDb
  \/ Reseed
  \/ Done
=============================================================================
