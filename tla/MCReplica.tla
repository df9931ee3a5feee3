------------------------------ MODULE MCReplica ------------------------------
(***************************************************************************)
(* Instances of Replica for TLC: the ways a replica may be configured.     *)
(***************************************************************************)
EXTENDS Replica, TLC

Plain(value) == [plain |-> value, file |-> Unset]

Nothing == [type |-> NotSet, issuer |-> NotSet, client |-> NotSet, enabled |-> NotSet]

InEnvironment ==
  [Nothing EXCEPT !.issuer = Plain("url"), !.client = [plain |-> Unset, file |-> "key"]]

InFile == [NoProvider EXCEPT !.issuer = "url", !.client = "key"]

(* Google in the environment, as the README has it, with a secret file;    *)
(* GitLab in the file, which does not enable it.                           *)
Good ==
  [readable |-> TRUE, database |-> "up",
   file |-> [name \in Providers |-> IF name = "gitlab" THEN InFile ELSE Absent],
   env |-> [name \in Providers |-> IF name = "google" THEN InEnvironment ELSE Nothing],
   secret |-> "x", secretEnv |-> [plain |-> "key", file |-> Unreadable], tokens |-> TRUE]

(* One thing is wrong at a time, or left out.                              *)
MCSettings ==
  {Good,
   [Good EXCEPT !.readable = FALSE],
   [Good EXCEPT !.database = "down"],
   [Good EXCEPT !.database = "silent"],
   [Good EXCEPT !.env["gitlab"].enabled = Plain("x")],
   [Good EXCEPT !.env["google"] = Nothing],
   [Good EXCEPT !.env["google"].issuer = NotSet],
   [Good EXCEPT !.file["gitlab"].issuer = Empty],
   [Good EXCEPT !.secretEnv = [plain |-> "key", file |-> Empty]],
   [Good EXCEPT !.tokens = FALSE]}

=============================================================================
