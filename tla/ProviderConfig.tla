--------------------------- MODULE ProviderConfig ---------------------------
(***************************************************************************)
(* config.Load: defaults, then the file, then the environment, and the     *)
(* providers that the environment names.                                   *)
(*                                                                         *)
(* A variable K of the environment is a pair: the value of K and what is   *)
(* found at the path in K_FILE.  Fields that are merged alike are          *)
(* represented by one: the secret of the cookies for the texts of the      *)
(* service (Override), ISSUER_URL for those of a provider.                 *)
(***************************************************************************)
CONSTANTS Providers,   \* names, lower-case
          Texts,       \* values but the empty one
          TrueWords,   \* those that strconv.ParseBool takes for true
          FalseWords,  \* those that it takes for false
          Empty,       \* ""
          Unset,       \* no such variable, no K_FILE
          Unreadable,  \* K_FILE leads nowhere
          Absent       \* no such provider

ASSUME ConfigAssumption ==
  /\ TrueWords \cup FalseWords \cup Providers \subseteq Texts
  /\ TrueWords \cap FalseWords = {}
  /\ Texts \ Providers # {}
  /\ {Empty, Unset, Unreadable, Absent} \cap Texts = {}

Variable(values) ==
  [plain : values \cup {Empty, Unset}, file : values \cup {Empty, Unset, Unreadable}]

NotSet == [plain |-> Unset, file |-> Unset]

(* getEnv: the file if it can be read, be it empty, and the variable else. *)
GetEnv(v) ==
  IF v.file \notin {Unset, Unreadable} THEN v.file
  ELSE IF v.plain # Unset THEN v.plain
  ELSE Empty

(* A value of the environment counts for more than one of the file.        *)
Override(old, v) == IF GetEnv(v) = Empty THEN old ELSE GetEnv(v)

-----------------------------------------------------------------------------
Provider == [type : Texts \cup {Empty}, issuer : Texts \cup {Empty},
             client : Texts \cup {Empty}, enabled : BOOLEAN]

ASSUME AbsentAssumption == Absent \notin Provider

NoProvider == [type |-> Empty, issuer |-> Empty, client |-> Empty, enabled |-> FALSE]

ProviderVariables ==
  [type : Variable(Texts), issuer : Variable(Texts), client : Variable(Texts),
   enabled : Variable(Texts)]

(* discoverOIDCProviderNames: one variable is enough, set to "" or not.    *)
Discovered(env) == \E f \in DOMAIN env : env[f] # NotSet

(* loadOIDCProvidersFromEnv gives up on an ENABLED it cannot parse.        *)
EnabledParses(env) == GetEnv(env.enabled) \in TrueWords \cup FalseWords \cup {Empty}

Enabled(old, env, client) ==
  IF GetEnv(env.enabled) # Empty THEN GetEnv(env.enabled) \in TrueWords
  ELSE IF old = Absent THEN client # Empty
  ELSE old.enabled

(* Mutant of Merge: it does not start from the value of the file.          *)
MergeFromZero(name, old, env) ==
  LET type == Override(Empty, env.type)
      client == Override(Empty, env.client)
  IN  [type |-> IF type = Empty THEN name ELSE type,
       issuer |-> Override(Empty, env.issuer),
       client |-> client,
       enabled |-> Enabled(old, env, client)]

(* One turn of the loop: old is what the file says, or Absent.             *)
Merge(name, old, env) ==
  LET base == IF old = Absent THEN NoProvider ELSE old
      type == Override(base.type, env.type)
      client == Override(base.client, env.client)
  IN  [type |-> IF type = Empty THEN name ELSE type,
       issuer |-> Override(base.issuer, env.issuer),
       client |-> client,
       enabled |-> Enabled(old, env, client)]

(* cfg.OIDCProviders after Load, indexed as Start does.                    *)
LoadedProvider(name, old, env) ==
  IF Discovered(env) THEN Merge(name, old, env)
  ELSE IF old = Absent THEN NoProvider
  ELSE old

-----------------------------------------------------------------------------
(* Environments of one provider whose variables have at most one value     *)
(* each, but for ENABLED.                                                  *)
SmallEnvironments ==
  LET Of(values) == {v \in Variable(values) : v.file = Unset} IN
  {env \in [type : Of({CHOOSE t \in Texts : t \notin Providers}),
            issuer : Of({CHOOSE t \in Texts : TRUE}),
            client : Of({CHOOSE t \in Texts : TRUE}),
            enabled : Of(TrueWords \cup FalseWords)] : EnabledParses(env)}

=============================================================================
