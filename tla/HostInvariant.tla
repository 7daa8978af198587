--------------------------- MODULE HostInvariant ---------------------------
(***************************************************************************)
(* The inductive invariant behind ServesProfile, ProfileComplete and       *)
(* MirrorsCurrent: who may touch the profile when, what a command has      *)
(* written at each of its steps, and what a mirror has been sent. It rests *)
(* on AccessInv for the shape of requests and of the command.              *)
(***************************************************************************)
EXTENDS AccessInvariant

\* Records and functions that are changed in place.
Shapes ==
  /\ DOMAIN host = DOMAIN Off
  /\ DOMAIN secrets = DOMAIN NoFile
  /\ DOMAIN cmd.held = DOMAIN NoFile
  /\ mirrors = [s \in Sub |-> mirrors[s]]
  /\ \A s \in Sub : DOMAIN mirrors[s] = DOMAIN NoMirror

\* The steps of a command that write the profile.
Writing == {"seed", "row", "secrets", "purge", "purgeDb", "purgeSecrets", "ask"}

\* One process at a time: the lock is the host's while there is one, and a
\* command that writes has it.
Locking ==
  /\ host.state \in {"off", "locked", "serving"}
  /\ IF host.state = "off" THEN lock \in {None, CmdClient}
     ELSE host.who \in {"daemon", "app"} /\ lock = host.who
  /\ cmd.at \in Writing => lock = CmdClient
  /\ cmd.op = None => lock # CmdClient /\ cmd.at = None

\* The commands that make a profile, and all that claim it.
Founding == {"init", "signup", "login", "recover"}
Claiming == Founding \cup {"logout", "deleteAccount", "password"}

-----------------------------------------------------------------------------
(* The host and the profile *)

\* What a host serves: Home of the account row, with a key for each document,
\* also in the copy of the keys that a handler waiting for its reply has.
Hosting ==
  host.state = "serving" =>
    /\ host.primary = row.primary
    /\ host.primary \in DOMAIN host.mem
    /\ host.todo \in {None, "pump", "create", "delete"}
    /\ ~Lapsed("overwritten") =>
         /\ host.token = secrets.token
         /\ DOMAIN host.mem \subseteq secrets.keys
         /\ host.todo = "create" => DOMAIN host.mem \subseteq host.held
    /\ ~Lapsed("torn") =>
         /\ row # NoFile
         /\ host.primary \in secrets.keys
         /\ host.todo = "create" => host.primary \in host.held

\* The order of the writes: secrets.toml is there only with the account row
\* and Home's key, and the account row only with Home's copy.
Written ==
  /\ secrets # NoFile /\ cmd.at \notin {"secrets", "purgeSecrets"} /\ ~Lapsed("torn") =>
       row # NoFile /\ row.primary \in secrets.keys
  /\ row # NoFile => row.primary \in DOMAIN disk \cup emptied
  /\ cmd.at \in {"row", "secrets"} => cmd.doc \in DOMAIN disk \cup emptied
  /\ cmd.at = "secrets" => row # NoFile /\ row.primary = cmd.doc
  /\ cmd.at \in {"seed", "row", "secrets"} /\ ~cmd.over => secrets = NoFile
  /\ cmd.at = "purgeDb" => secrets = NoFile

\* What a command holds: the document it founds a profile on, the workspace it
\* adopts, the secrets it will write back, or the account row it has read.
Holding ==
  /\ cmd.at = "claim" => cmd.op \in Claiming
  /\ cmd.at \in {"seed", "row", "secrets"} => cmd.op \in Founding
  /\ cmd.at \in {"claim", "seed", "row", "secrets"} /\ cmd.op \in Founding =>
       cmd.doc \in Doc /\ cmd.doc \in cmd.keys
  /\ cmd.op = "signup" /\ cmd.adopt # 0 =>
       /\ cmd.keys = {cmd.adopt}
       /\ cmd.at \in {"http", "claim"} => row # NoFile /\ row.primary = cmd.adopt
  /\ cmd.op = "accept" /\ cmd.at \in {"http", "key"} /\ ~Lapsed("torn") =>
       row # NoFile /\ row.primary \in cmd.held.keys
  /\ cmd.at = "key" => cmd.op = "accept"
  /\ cmd.at \in {"clear", "reseed"} =>
       row # NoFile /\ row.primary = cmd.doc /\ row.account = cmd.account
  /\ cmd.at = "reseed" => cmd.account = None

-----------------------------------------------------------------------------
(* Requests *)

\* The answers that name documents name documents.
NamesDocs(q) ==
  /\ q.op = "recover" /\ (q.at = "session" \/ (q.at = "answered" /\ q.out = "ok")) => q.doc \in Doc
  /\ q.op = "accept" /\ q.at = "answered" /\ q.out = "ok" => q.doc \in Doc
  /\ \A m \in q.list : m.doc \in Doc

\* A request under way is the one that its command or its handler waits for.
Waiting ==
  /\ \A c \in Client : NamesDocs(calls[c])
  /\ host.todo = "delete" =>
       calls[HostClient].op = "deleteDoc" /\ calls[HostClient].doc # host.primary
  /\ cmd.at = "http" /\ cmd.op = "signup" =>
       /\ calls[CmdClient].op = "signup"
       /\ calls[CmdClient].doc \in cmd.keys
  /\ cmd.at = "http" /\ cmd.op = "recover" /\ calls[CmdClient].op \in {"reset", "docs"} =>
       cmd.doc \in Doc

-----------------------------------------------------------------------------
(* Mirrors *)

\* A mirror is live only under a host that has its document, it has or will
\* have all it was sent, and it made what it sends; unless a pump is due it
\* was sent all there is.
MirrorOK(m) ==
  /\ m.up \in Seq(m.has)
  /\ m.state = "live" =>
       /\ host.state = "serving"
       /\ m.doc \in DOMAIN host.mem
       /\ m.sent \subseteq m.has \cup m.down
       /\ host.todo # "pump" => host.mem[m.doc] \subseteq m.sent

Mirrored == \A s \in Sub : MirrorOK(mirrors[s])

\* The host has nothing that is not on disk, unless it was cleared.
OnDisk ==
  \A d \in DOMAIN host.mem :
    host.state = "serving" /\ ~Cleared(d) => host.mem[d] \subseteq BootDoc(d)

HostInv ==
  Shapes /\ Locking /\ Hosting /\ Written /\ Holding /\ Waiting /\ Mirrored /\ OnDisk
=============================================================================
