------------------------------- MODULE Replica -------------------------------
(***************************************************************************)
(* One replica from its first line to its last: Start's way to a listening *)
(* server, what requests do meanwhile with the connections of the pool,    *)
(* and the shutdown of module Shutdown.  A request is a way through its    *)
(* handler: waiting for the world outside (the body of a POST, the answer  *)
(* of a provider), for a connection, in its transaction, answering.        *)
(***************************************************************************)
EXTENDS Shutdown, ProviderConfig, FiniteSets

CONSTANTS PoolSize,  \* SetMaxOpenConns: 25
          Secrets,   \* those of 16, 24 or 32 bytes, which AES accepts
          Settings   \* files and environments to start from

ASSUME ReplicaAssumption ==
  /\ PoolSize \in Nat \ {0}
  /\ Secrets \subseteq Texts
  /\ {"google", "gitlab"} \subseteq Providers

VARIABLES setting,  \* what this replica starts from
          boot,     \* Start's progress
          work,     \* what a request's handler is at
          task      \* what the goroutine it left is at

replicaVars == <<vars, setting, boot, work, task>>

(* Start's next step; in "listening" it is the one that asks for signals.  *)
Stages == {"load", "connect", "google", "gitlab", "cookie", "token", "listen",
           "listening", "serving"}

(* A handler's ways: a Register has a mail to send after its commit, a     *)
(* Resend a transaction and a mail after its answer; "form" is any other   *)
(* handler that waits for the world before its transaction (Login, Verify, *)
(* Callback), "plain" one that begins with it (Refresh, Logout, User),     *)
(* "ready" Readyz; Healthz and the providers' Start have nothing to wait   *)
(* for.                                                                    *)
Kinds == {"Register", "Resend", "form"}

Waits == {<<k, "outside">> : k \in Kinds}
         \cup {<<k, "begin">> : k \in {"Register", "form", "plain"}}
         \cup {<<k, "inTx">> : k \in {"Register", "form", "plain"}}
         \cup {<<"ready", "ping">>}
         \cup {<<k, "answer">> : k \in {"Register", "Resend", "plain"}}

NoWork == <<"none", "none">>

At(r, stage) == work[r][2] = stage

InUse ==
  Cardinality({r \in Requests : At(r, "inTx")})
    + Cardinality({r \in Requests : task[r] = "inTx"})

Alive == main # "exited"

-----------------------------------------------------------------------------
(* Start goes on, or log.Fatalf.                                           *)
Reach(stage) == boot' = stage /\ UNCHANGED vars

Fatal == Exit("fatal") /\ UNCHANGED boot

Loads ==
  /\ setting.readable
  /\ \A name \in Providers : EnabledParses(setting.env[name])

Loaded(name) == LoadedProvider(name, setting.file[name], setting.env[name])

(* config.Load.                                                            *)
Load ==
  /\ boot = "load"
  /\ \/ Loads /\ Reach("connect")
     \/ ~Loads /\ Fatal

(* Mutant of Connect: the ping has no deadline.                            *)
ConnectWithoutDeadline ==
  /\ boot = "connect"
  /\ \/ setting.database = "up" /\ Reach("google")
     \/ setting.database = "down" /\ Fatal

(* database.Connect: a ping with five seconds to answer.                   *)
Connect ==
  /\ boot = "connect"
  /\ \/ setting.database = "up" /\ Reach("google")
     \/ setting.database \in {"down", "silent"} /\ Fatal

(* Mutant of Discover: an error is logged, and Start goes on.              *)
DiscoverOrGoOn(name, next) ==
  /\ boot = name
  /\ Reach(next)

(* oidc.NewProvider, for a provider enabled or not, asks the issuer, with  *)
(* no deadline; without an issuer there is nobody to ask.                  *)
Discover(name, next) ==
  /\ boot = name
  /\ \/ Loaded(name).issuer # Empty /\ Reach(next)
     \/ Fatal

(* oauth.NewCookieService.                                                 *)
MakeCookieService ==
  /\ boot = "cookie"
  /\ \/ Override(setting.secret, setting.secretEnv) \in Secrets /\ Reach("token")
     \/ Override(setting.secret, setting.secretEnv) \notin Secrets /\ Fatal

(* accesstoken.LoadConfig, of a library: the settings of access tokens     *)
(* make sense to it or not.                                                *)
LoadAccessToken ==
  /\ boot = "token"
  /\ \/ setting.tokens /\ Reach("listen")
     \/ ~setting.tokens /\ Fatal

(* go srv.ListenAndServe() ...                                             *)
Listen ==
  /\ boot = "listen"
  /\ Reach("listening")

(* ... and only then signal.NotifyContext.                                 *)
Notify ==
  /\ boot = "listening"
  /\ Reach("serving")

(* Until then a signal has its default effect.                             *)
KilledEarly ==
  /\ boot # "serving"
  /\ Exit("killed")
  /\ UNCHANGED boot

(* Start's steps that come to an end, and those that need not.             *)
Boot == Load \/ Connect \/ MakeCookieService \/ LoadAccessToken \/ Listen \/ Notify

Discovery == Discover("google", "gitlab") \/ Discover("gitlab", "cookie")

-----------------------------------------------------------------------------
Go(r, way) == work' = [work EXCEPT ![r] = way]

(* What the first lines of the handlers wait for.                          *)
Enter(r) ==
  \/ \E k \in Kinds : Go(r, <<k, "outside">>)
  \/ Go(r, <<"plain", "begin">>)
  \/ Go(r, <<"ready", "ping">>)
  \/ Go(r, <<"plain", "answer">>)

(* The body is there, or the provider's answer; or it is refused.          *)
Arrive(r) ==
  /\ At(r, "outside")
  /\ \/ work[r][1] # "Resend" /\ Go(r, <<work[r][1], "begin">>)
     \/ work[r][1] = "Resend" /\ Go(r, <<"Resend", "answer">>)
     \/ Go(r, <<"plain", "answer">>)
  /\ UNCHANGED task

(* BeginContext gets a connection, or its context ends.                    *)
Begin(r) ==
  /\ At(r, "begin")
  /\ \/ InUse < PoolSize /\ Go(r, <<work[r][1], "inTx">>)
     \/ Go(r, <<"plain", "answer">>)
  /\ UNCHANGED task

(* Mutant of EndTx: without the deferred rollback, an error leaves the     *)
(* transaction open.                                                       *)
EndTxByCommitAlone(r) ==
  /\ At(r, "inTx")
  /\ work[r][1] = "Register" /\ Go(r, <<"Register", "answer">>)
  /\ UNCHANGED task

(* Commit, or the deferred RollbackUnlessCommitted.                        *)
EndTx(r) ==
  /\ At(r, "inTx")
  /\ \/ work[r][1] = "Register" /\ Go(r, <<"Register", "answer">>)
     \/ Go(r, <<"plain", "answer">>)
  /\ UNCHANGED task

(* Readyz: PingContext needs a connection too, and has five seconds; 200   *)
(* or 503.                                                                 *)
Ping(r) ==
  /\ At(r, "ping")
  /\ Go(r, <<"plain", "answer">>)
  /\ UNCHANGED task

(* handleResend, as a goroutine.                                           *)
TaskBegin(r) ==
  /\ task[r] = "begin"
  /\ InUse < PoolSize
  /\ task' = [task EXCEPT ![r] = "inTx"]
  /\ UNCHANGED work

TaskCommit(r) ==
  /\ task[r] = "inTx"
  /\ task' = [task EXCEPT ![r] = "mail"]
  /\ UNCHANGED work

(* The goroutine ends: the mail is sent, or something failed.              *)
TaskEnds(r) ==
  /\ MailOver(r)
  /\ task' = [task EXCEPT ![r] = "none"]
  /\ UNCHANGED work

(* The handler answers, and starts its goroutine.                          *)
Answer(r) ==
  /\ At(r, "answer")
  /\ Respond(r)
  /\ mail'[r] = "sending" <=> work[r][1] # "plain"
  /\ Go(r, NoWork)
  /\ task' = [task EXCEPT ![r] = CASE work[r][1] = "Register" -> "mail"
                                   [] work[r][1] = "Resend" -> "begin"
                                   [] OTHER -> "none"]

(* What a handler and its goroutine do with the database.                  *)
UseDatabase(r) == Begin(r) \/ EndTx(r) \/ Ping(r) \/ TaskBegin(r) \/ TaskCommit(r)

ReplicaInit ==
  /\ Init
  /\ setting \in Settings
  /\ boot = "load"
  /\ work = [r \in Requests |-> NoWork]
  /\ task = [r \in Requests |-> "none"]

Starting(A) == Alive /\ A /\ UNCHANGED <<setting, work, task>>

Serving(A) == A /\ UNCHANGED <<setting, boot, work, task>>

Handling(A) == Alive /\ A /\ UNCHANGED <<setting, boot>>

ReplicaNext ==
  \/ Starting(Boot)
  \/ Starting(Discovery)
  \/ Starting(KilledEarly)
  \/ boot \in {"listening", "serving"} /\ \E r \in Requests : Serving(Accept(r))
  \/ boot = "serving" /\ Serving(ServerFails)
  \/ boot = "serving" /\ Serving(Signal)
  \/ boot = "serving" /\ Serving(SecondSignal)
  \/ boot = "serving" /\ Serving(Process)
  \/ \E r \in Requests : Handling(Track(r) /\ Enter(r) /\ UNCHANGED task)
  \/ \E r \in Requests : Handling(Arrive(r) /\ UNCHANGED vars)
  \/ \E r \in Requests : Handling(UseDatabase(r) /\ UNCHANGED vars)
  \/ \E r \in Requests : Handling(Answer(r))
  \/ \E r \in Requests : Handling(TaskEnds(r))

(* Start's goroutine and those of the shutdown run, and their timers fire. *)
(* What a handler does with the database ends with its context (2, 5, 30   *)
(* or 60 seconds), and so does the goroutine it leaves.  Of clients,       *)
(* issuers and providers nothing is assumed: the server sets no deadline   *)
(* for reading a body, and discovery has none.                             *)
ReplicaSpec ==
  /\ ReplicaInit
  /\ [][ReplicaNext]_replicaVars
  /\ WF_replicaVars(Starting(Boot))
  /\ WF_replicaVars(Serving(boot = "serving" /\ Process))
  /\ \A r \in Requests : WF_replicaVars(Handling(UseDatabase(r) /\ UNCHANGED vars))
  /\ \A r \in Requests : WF_replicaVars(Handling(TaskEnds(r)))

-----------------------------------------------------------------------------
ReplicaTypeOK ==
  /\ TypeOK
  /\ setting \in Settings
  /\ boot \in Stages
  /\ work \in [Requests -> Waits \cup {NoWork}]
  /\ task \in [Requests -> {"none", "begin", "inTx", "mail"}]
  /\ Alive => \A r \in Requests : conn[r] = "handling" <=> work[r] # NoWork

(* One variable of a provider in the environment changes that field alone: *)
(* what the file says of the others stays.                                 *)
FileSurvivesEnvironment ==
  ReplicaInit =>
    \A name \in Providers, old \in Provider, env \in SmallEnvironments :
      LET loaded == LoadedProvider(name, old, env) IN
      /\ \A f \in {"type", "issuer", "client"} :
           GetEnv(env[f]) = Empty /\ old[f] # Empty => loaded[f] = old[f]
      /\ GetEnv(env.enabled) = Empty => loaded.enabled = old.enabled

(* Nobody is served by a replica that is half configured: the file and the *)
(* environment made sense, the database answered, every provider that is   *)
(* enabled has an issuer, the cookie's secret is a key and the settings of *)
(* access tokens were accepted.  (Client ids, the mail service and the     *)
(* secret of refresh tokens are looked at by nobody.)                      *)
ServesOnlyConfigured ==
  (\E r \in Requests : conn[r] # "none") =>
    /\ Loads
    /\ setting.database = "up"
    /\ \A name \in {"google", "gitlab"} : Loaded(name).enabled => Loaded(name).issuer # Empty
    /\ Override(setting.secret, setting.secretEnv) \in Secrets
    /\ setting.tokens

(* Start comes to serve or gives up; only an issuer that does not answer   *)
(* can keep it from either, password logins included.                      *)
OnlyIssuersStallStart ==
  <>(boot = "serving" \/ ~Alive) \/ <>[](boot \in {"google", "gitlab"})

(* An exhausted pool recovers by itself, although clients and providers    *)
(* may hang for ever: no handler waits for one of them with a connection   *)
(* in its hands.                                                           *)
PoolRecovers == InUse = PoolSize ~> InUse < PoolSize \/ ~Alive

=============================================================================
