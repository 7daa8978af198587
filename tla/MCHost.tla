------------------------------- MODULE MCHost -------------------------------
(***************************************************************************)
(* Instances of HostSystem: one installation, two accounts, at most two    *)
(* routes at a time.                                                       *)
(***************************************************************************)
EXTENDS CopiesInvariant

Mix(start, kinds, commits, asks, opens, drops) ==
  [start |-> start, kinds |-> kinds, commits |-> 3 + commits, asks |-> asks, opens |-> opens,
   drops |-> drops]

MCMixes ==
  {Mix("local", {"app", "edit", "mirror"}, 3, 0, 0, 1),
   Mix("joined", {"daemon", "online", "edit", "remote"}, 2, 0, 0, 2),
   Mix("joined", {"app", "online", "mirror"}, 2, 0, 0, 1),
   Mix("joined", {"daemon", "online", "edit", "clear"}, 1, 1, 0, 1),
   Mix("fresh", {"daemon", "init", "signup", "edit"}, 3, 3, 0, 1),
   Mix("joined", {"daemon", "login", "edit", "online"}, 1, 2, 0, 1),
   Mix("joined", {"daemon", "logout", "init", "login"}, 1, 3, 0, 1),
   Mix("joined", {"daemon", "recoverCmd", "passwordCmd", "password"}, 0, 2, 0, 0),
   Mix("joined", {"login", "password", "passwordCmd"}, 0, 2, 0, 1),
   Mix("local", {"daemon", "edit", "clear"}, 2, 1, 0, 1),
   Mix("joined", {"recover", "password", "device", "expire"}, 0, 2, 0, 0),
   Mix("joined", {"docs", "invite", "expire"}, 0, 3, 0, 0),
   Mix("offered", {"invite", "accept", "daemon", "online"}, 0, 2, 0, 0),
   Mix("offered", {"invite", "accept", "app", "workspace"}, 1, 3, 0, 0),
   Mix("shared", {"invite", "remove"}, 0, 3, 0, 0),
   Mix("shared", {"web", "daemon", "online"}, 0, 0, 3, 1),
   Mix("shared", {"web", "slow", "daemon", "online"}, 0, 0, 4, 0),
   Mix("shared", {"remove", "web", "slow", "daemon", "online"}, 0, 1, 3, 0),
   Mix("shared", {"deleteAccount", "web"}, 0, 1, 3, 0),
   Mix("shared", {"docs", "web"}, 0, 1, 3, 0),
   Mix("shared", {"deleteAccountCmd", "daemon", "online", "lossy"}, 0, 2, 0, 1),
   Mix("joined", {"app", "online", "workspace"}, 1, 2, 0, 1),
   Mix("shared", {"app", "online", "workspace", "mirror", "lossy"}, 0, 1, 0, 0)}
=============================================================================
