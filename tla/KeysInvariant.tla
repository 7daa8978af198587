--------------------------- MODULE KeysInvariant ---------------------------
(***************************************************************************)
(* The inductive invariant behind HomeUnlockable: whatever a request wraps *)
(* a key under is Home of the account its token stands for. A request made *)
(* by the installation takes its token from secrets.toml and Home from the *)
(* account row, two files that a killed command may leave of two accounts; *)
(* that Home's key is among the keys is what tells them apart, since no    *)
(* account is ever given the key of another one's Home. It rests on        *)
(* AccessInv and HostInv.                                                  *)
(***************************************************************************)
EXTENDS HostInvariant

Homes(H) == {H[a] : a \in DOMAIN H}

\* The rows are of accounts that exist. Home is its account's alone, and never
\* offered; a document that was some account's Home is one or is gone.
Registry ==
  /\ homes = [a \in DOMAIN homes |-> homes[a]]
  /\ Homes(homes) \subseteq Doc
  /\ DOMAIN accounts \subseteq DOMAIN homes
  /\ \A a \in DOMAIN accounts : homes[a] = accounts[a].primary
  /\ \A t \in DOMAIN devices : devices[t] \in DOMAIN accounts \cup {None}
  /\ \A r \in DOMAIN resets : resets[r].state = "open" => resets[r].account \in DOMAIN accounts
  /\ \A d \in Doc, a \in Account : <<d, a>> \in DOMAIN members => a \in DOMAIN accounts
  /\ \A a \in DOMAIN accounts, b \in Account :
       <<accounts[a].primary, b>> \in DOMAIN members => b = a
  /\ \A i \in DOMAIN invites : invites[i].state = "open" => invites[i].doc \notin Homes(homes)
  /\ \A d \in docs \cap Homes(homes) : \E a \in DOMAIN accounts : accounts[a].primary = d

-----------------------------------------------------------------------------
(* Tokens. D stands for the devices and H for the Homes.                   *)

\* A token that is good stands for the account with this Home.
TokenHome(t, h, D, H) == t \in DOMAIN D /\ (D[t] # None => h = H[D[t]])

\* No other account's Home is among the keys that go with a token, and no key
\* is of the document that an account row which is not there would name.
KeysOf(t, K, D, H) ==
  /\ t \in DOMAIN D
  /\ NoFile.primary \notin K
  /\ D[t] # None => \A d \in K \cap Homes(H) : d = H[D[t]]

\* A token that was given to an account.
TokenOf(t, a, D, H) == t \in DOMAIN D /\ a \in DOMAIN H /\ D[t] \in {a, None}

RequestKeys(q, D, H) ==
  /\ q.op \in {"createDoc", "accept"} =>
       /\ q.at = "auth" => TokenHome(q.token, q.home, D, H)
       /\ q.at = "run" => q.account \in DOMAIN H /\ q.home = H[q.account]
       /\ q.doc \notin Homes(H)
  /\ q.op \in {"login", "recover"} /\ q.doc # 0 => q.doc \in Homes(H)
  /\ (q.op = "login" /\ q.at = "list") \/ (q.op = "docs" /\ q.at = "run") =>
       TokenOf(q.token, q.account, D, H)
  /\ q.list # {} =>
       q.op \in {"login", "docs"} /\ q.at = "answered" /\ KeysOf(q.token, Keys(q.list), D, H)
  /\ q.op = "signup" => q.at # "auth" /\ (q.at = "run" => q.account \notin DOMAIN H)
  /\ q.op = "signup" /\ q.at = "answered" /\ q.out = "ok" =>
       TokenHome(q.token, q.doc, D, H) /\ q.doc \in Homes(H)
  /\ q.op = "reset" /\ q.at = "device" => q.account \in DOMAIN H /\ q.home = H[q.account]
  /\ q.op = "reset" /\ q.at = "answered" /\ q.out = "ok" => TokenHome(q.token, q.home, D, H)

RequestsKeyed ==
  \A c \in Client : /\ RequestKeys(calls[c], devices, homes)
                    /\ calls[c].op = "signup" => c = CmdClient

\* What the profile, the host and the command have goes with their tokens.
ProfileKeyed ==
  secrets.token # 0 =>
    /\ KeysOf(secrets.token, secrets.keys, devices, homes)
    /\ row # NoFile => row.primary \in Homes(homes)

HostKeyed ==
  host.state = "serving" =>
    /\ host.token = secrets.token
    /\ host.token # 0 => TokenHome(host.token, host.primary, devices, homes)
    /\ host.todo = "create" =>
         /\ secrets.token # 0
         /\ KeysOf(secrets.token, host.held, devices, homes)
         /\ calls[HostClient].op = "createDoc"

\* The commands that found a profile on an account, and when they have its keys.
Joining == {"signup", "login", "recover"}
Joined == {"claim", "seed", "row", "secrets"}

AcceptKeyed ==
  cmd.op = "accept" /\ cmd.at \in {"http", "key"} =>
    /\ secrets.token # 0
    /\ cmd.held.token = secrets.token
    /\ KeysOf(cmd.held.token, cmd.held.keys, devices, homes)
    /\ cmd.at = "http" => calls[CmdClient].op = "accept"
    /\ cmd.at = "key" => cmd.doc \in Doc \ Homes(homes)

JoinKeyed ==
  cmd.op \in Joining /\ cmd.at \in Joined =>
    /\ cmd.token # 0
    /\ KeysOf(cmd.token, cmd.keys, devices, homes)
    /\ cmd.doc \in Homes(homes)

\* A first local workspace has no token, and comes after no profile.
InitKeyed ==
  cmd.op = "init" =>
    cmd.token = 0 /\ (cmd.at \in {"seed", "row", "secrets"} => secrets = NoFile)

\* What the commands that found a profile have asked.
AskKeyed ==
  LET q == calls[CmdClient]
  IN cmd.at = "http" =>
       /\ cmd.op = "signup" => cmd.keys = {q.doc}
       /\ cmd.op = "login" => q.op = "login"
       /\ cmd.op = "recover" =>
            /\ q.op \in {"recover", "reset", "docs"}
            /\ q.op # "recover" => cmd.doc \in Homes(homes)
            /\ q.op = "reset" => q.home = cmd.doc
            /\ q.op = "docs" =>
                 /\ cmd.token # 0
                 /\ q.token = cmd.token
                 /\ TokenHome(cmd.token, cmd.doc, devices, homes)

CmdKeyed == AcceptKeyed /\ JoinKeyed /\ InitKeyed /\ AskKeyed

-----------------------------------------------------------------------------
(* Documents *)

\* Documents that are no account's yet and may become one's Home.
Local(d) ==
  \/ secrets.token = 0 /\ d \in secrets.keys
  \/ cmd.op = "init" /\ d \in cmd.keys
  \/ calls[CmdClient].op = "signup" /\ calls[CmdClient].doc = d

HeldBy(q, d) == (\E m \in q.list : m.doc = d) \/ (q.op \in {"createDoc", "accept"} /\ q.doc = d)

\* Documents that keys are kept for under a token, listed for an account, about
\* to be created or joined.
Held(d) ==
  \/ secrets.token # 0 /\ d \in secrets.keys
  \/ host.state = "serving" /\ host.todo = "create" /\ d \in host.held
  \/ cmd.op = "accept" /\ (d \in cmd.held.keys \/ d = cmd.doc)
  \/ cmd.op \in Joining /\ cmd.at \in Joined /\ d \in cmd.keys
  \/ \E c \in Client : HeldBy(calls[c], d)

\* The two are apart: a local workspace is on the server, or among the
\* documents of a token, only as a Home. And ids are chosen once.
Apart == \A d \in Doc : Local(d) /\ (d \in docs \/ Held(d)) => d \in Homes(homes)

Chosen == \A d \in Doc : d \in docs \cup Homes(homes) \/ Local(d) \/ Held(d) => d \in born

KeysInv ==
  /\ Registry
  /\ HomeUnlockable
  /\ RequestsKeyed
  /\ ProfileKeyed
  /\ HostKeyed
  /\ CmdKeyed
  /\ Apart
  /\ Chosen
=============================================================================
