# Notes Cloud Auth Service: a verification project

TLA+ models of the auth service in `src/auth_service`, the TLC runs that check
them on small instances, and the theorems that TLAPS proves about them for any
instance. `PROJECT.json` lists every run, mutant, mapped definition, finding,
hazard and theorem; this file says how they fit together.

Paths below are relative to `src/auth_service/internal/`.

## 1. The system

The service is one Go process (possibly several replicas) in front of one
PostgreSQL database. Every request is a goroutine; nearly every handler runs as
one transaction at PostgreSQL's default level, read committed. All that
handlers share is the database, except for the OIDC provider object and the
wait group, which the requests of one process share.

| Part | Source | State | Operations |
|---|---|---|---|
| Authentication | `auth/`, `domain/token_bundle/` | none of its own | Login, Logout, Refresh |
| Refresh tokens | `domain/refresh_token/`, `api_errors/refresh_token_errors.go` | table `refresh_tokens`; the client's cookie | Create, Get (FOR UPDATE), Revoke |
| Accounts | `domain/users/` | table `users` | Register, Verify, Resend, User; Create, VerifyUser, UpdateUser, FindOrCreateByOAuthIdentity |
| Verification codes | `domain/email_verification_tokens/`, `email-verification/` | table `email_verification_tokens` | Create, FindToken (FOR UPDATE), Delete, DeleteByUserID; a mail |
| Identities | `domain/user_identities/` | table `identities` | Create, Find, UpdateEmail |
| OIDC login | `oidc/`, `oauth/` | the provider object's `state` and `nonce`; the `oauth_session` cookie | Start, Callback |
| Transactions | `database/` | the connection pool | BeginContext, RollbackUnlessCommitted, Commit |
| Process | `api_facade/`, `middleware/request_tracker.go` | the wait group, the server | start-up, signal, shutdown |
| Configuration, input rules, probes, helpers | `config/`, `password/`, `probes/`, `http/`, `random/`, `uuid/`, ... | none after start-up | pure functions |

How the parts meet: Login and Callback end in `GenerateBundle`, which inserts a
refresh token; Refresh revokes one and inserts the next in one transaction;
Logout revokes one; Verify makes an account able to log in; Register and Resend
leave a goroutine behind that sends a mail (Resend's does its whole transaction
there). The client holds the refresh token in a cookie that each answer sets,
clears or leaves alone.

What is hard here: statements of concurrent transactions interleave; a row read
by one statement decides what a later statement does; each statement, the
COMMIT included, may fail or its acknowledgement be lost; answers get lost and
arrive out of order; a replica may stop anywhere; two requests write one shared
object without a lock; a shutdown races the requests it waits for; and a
replica's start depends on a file, an environment, a database and two issuers,
each of which may be wrong or silent. The repository's only test is one of the
password rules.

What makes the parts correct:

- tokens: a session has at most one live token, rotation is all or nothing, a
  cookie is set only with a stored token and cleared only for a dead one;
- accounts: a code verifies once, a waiting account has a code, a person of a
  provider keeps one account, no password account is entered through a provider;
- OIDC login: the session that is accepted is one, and the browser's own;
- browser: a client that does one thing at a time stays logged in until it
  logs out, and is logged out then;
- process: a replica that is half configured serves nobody, requests are cut
  off only by the timeout, the pool recovers by itself, and the process ends;
- configuration: what a file, a variable or a secret file sets is not lost;
- input: a registration is let in as its messages say, bytes apart.

## 2. The modules

| Module | Models | Runs |
|---|---|---|
| `TokenService` | what the refresh-token store promises: a session is opened, handed on, revoked, each in one atomic step | (refined by `RefreshTokens`, composed by `BrowserSession`) |
| `RefreshTokens` | Login, Refresh, Logout and Callback over `refresh_tokens`, one SQL statement per step | `refresh_tokens`, `refresh_tokens_locks`, `logout_unknown` |
| `RefreshTokensProofs` | the theorems about it | proved |
| `Verification` | what Register, Verify and Resend promise: an account comes with a code, a code is replaced or used up, each in one atomic step | (refined by `EmailVerification`) |
| `EmailVerification` | Register, Verify, Resend over `users` and `email_verification_tokens` | `verification`, `verification_expiry` |
| `EmailVerificationProofs` | the theorems about it | proved |
| `InputRules` | which names and passwords Register lets in, byte for byte | `verification` |
| `InputRulesProofs` | lemmas about texts, lengths and limits | proved |
| `BrowserSession` | a browser's cookie jar against `TokenService` | `browser`, `browser_domain` |
| `BrowserSessionProofs` | the theorems about it | proved |
| `Accounts` | what accounts promise: one address, one way in, each request one atomic step | (refined by `OAuthAccounts`) |
| `OAuthAccounts` | FindOrCreateByOAuthIdentity against Register, over `users` and `identities` | `oauth_accounts`, `oauth_email` |
| `OAuthAccountsProofs` | the theorems about it | proved |
| `OIDCLogin` | Start, the provider, Callback, in one browser or several | `oidc_login`, `oidc_race` |
| `OIDCLoginProofs` | the theorems about it | proved |
| `ProviderConfig` | `config.Load`: file, environment and secret files merged | `shutdown` |
| `ProviderConfigProofs` | the merge, for every environment; types | proved |
| `Shutdown` | `api_facade.Start` from the signal on | `shutdown` |
| `Replica` | `api_facade.Start` as a whole: `ProviderConfig` decides what it starts with, requests use the pool, `Shutdown` ends it | `shutdown` |
| `ReplicaProofs` | the theorems about it and the shutdown in it | proved |

The `MC...` modules only add symmetry sets and constant definitions.

### Conventions shared by the transactional modules

- Tables hold committed data. A handler's uncommitted writes are variables of
  the handler (`retired` and `fresh` in `RefreshTokens`; `doomed`, `fresh` and
  `claim` in `EmailVerification`; `claim`, `rowLock` and `subClaim` in
  `OAuthAccounts`). `Publish` makes them visible in one step.
- Row locks of `FOR UPDATE`, UPDATE and DELETE are variables; they are held
  until the transaction ends. A statement that needs a lock that is taken is
  disabled until it is free, or fails.
- `Fail` stands for any failing statement: an error of the database, the end of
  the request's context (2 s; 30 s for Resend; 60 s for Callback), a deadlock
  victim. It is followed by the deferred `RollbackUnlessCommitted` in the same
  step, since nothing of the handler runs in between that others could see.
- `CommitUnacknowledged` is a COMMIT that took effect and returned an error.
- A crash of a replica is `Vanish` in `RefreshTokens`; in the other two, where
  an early return leaves the same state behind as a crash, `Fail`, `SendFails`
  and `Answer` stand for it.
- Identifiers, codes and secrets are members of small sets and never repeat
  (uuid v4, 32 random bytes). A cookie is told apart by what the code can tell:
  absent, malformed, of no row, with a wrong HMAC (a changed
  `REFRESH_TOKEN_SECRET`), genuine.
- Time is an action: `Lapse` and `Expire` may happen at any moment.

`RefreshTokens`: a handler's `pc` names its next statement: `authenticate`
(auth.service.Login), `get` (`SELECT ... FOR UPDATE` and the HMAC), `check`
(RevokedAt, ExpiresAt), `revoke` (UPDATE), `issue` (INSERT), `commit`,
`answer`. `seen` is the RevokedAt that `check` looks at. `Cookie` gives the
effect of an answer on the client's cookie from the handler's error branches.
`family` is a history variable: the login from which a token descends.

`EmailVerification`: `DeleteByUserID` fixes the rows a DELETE visits, `DeleteRow`
visits them one by one in any order, waiting for each lock and skipping rows
that are gone, as read committed does. `WaitsFor` is the waits-for graph;
`VerifyDeadlockFree` speaks of its cycles as rings of handlers, each of which
waits for the next.

`BrowserSession`: the server side is `TokenService`, one step per request, which
`RefreshTokens` is shown to implement; the browser sends, receives in any order
and loses answers. `jar` keeps the cookies in order of creation, one per domain,
and `r.Cookie` takes the first.

`OAuthAccounts`: the schema is not in the repository. A unique index on
`users.email` is assumed because `Create` relies on it (`IsUniqueViolation`);
one on `(provider, provider_user_id)` is the constant `SubjectIndex`. With
`SubjectIndex = FALSE`, `SubjectKeepsAccount` fails: two first callbacks with
different addresses create two accounts.

`OIDCLogin`: `WithState` and `WithNonce` are separate steps because the shared
object is written without a lock. The data race has no further outcome: a Go
string is a pointer and a length, every state and nonce has the same length, and
a flow reads only after it has written both fields itself, so a torn read still
yields one of the values that were written. `at` is the browser in which a
callback URL is open: the authorization URL may be followed in any browser, and
a callback URL opened again in any (`Reopen`). Of the provider it is assumed
that an id token carries the nonce of the URL it answers; not that it takes a
code only once, so nothing is claimed of how often one URL logs in the browser
it belongs to: the cookie that should be cleared does stay.

The three abstract modules (`TokenService`, `Verification`, `Accounts`) know no
statements, locks or failures: every request is one step or none. The detailed
module names its own tables as their variables (`Promise == INSTANCE ... WITH`):
in `EmailVerification` the table of accounts is `status` and `codeOf` is
`owner`; in `OAuthAccounts` an account's way in (`Entry`) is the password or the
subject of its identity. The abstract modules say what a caller may rely on:
`Verification` that an account is stored with its first code, that a code is
taken away only with another one given, that a verification uses up a live
code; `Accounts` that no address and no person has two accounts, and that an
account never changes its way in.

`InputRules`: a text is a sequence of characters, each of one to four bytes
(`Width`; JSON decoding leaves nothing that is not UTF-8). Go's `len` and bcrypt
count bytes, the struct validator and the messages count symbols.

`ProviderConfig`: a variable `K` is a pair, its value and what `K_FILE` leads
to. `Merge` is one turn of the loop over the names in the environment,
`LoadedProvider` what `Start` finds in `cfg.OIDCProviders`. Fields merged by the
same three lines are represented by one.

`Replica`: `boot` is the statement of `Start` that comes next, `work` what the
handler of a request is at: waiting for the outside (the rest of a body, the
answer of a provider), for a connection, in its transaction, answering. `task`
is the goroutine that Register or Resend left. The number of connections in use
is the number of open transactions, since no handler opens a second one.
`Shutdown` is extended, not instantiated: its actions are the last part of the
same program, and `ReplicaNext` adds to each what the handler does.

`Shutdown`: the select, `srv.Shutdown`, `wg.Wait` and the timer are separate
actions; `Active` is what Shutdown waits for, `wg` what `wg.Wait` waits for, and
the two differ for a request that is accepted and not yet counted.

## 3. What the runs show

Passing runs:

- `refresh_tokens`: one password account and one provider account, three token
  ids, two requests, one expiry. Two requests are enough for every pairwise
  race on a row; three ids give a login followed by two refreshes (two
  rotations in a row), or two sessions that rotate at the same time. Checks the
  invariants of section 4, that no two requests deadlock, the atomicity of
  rotation, and that the store implements `TokenService`.
- `refresh_tokens_locks`: every row lock is released. Fairness: weak fairness of
  each handler's own steps, that is, a goroutine that can run is run and each
  statement returns or its context ends (`context.WithTimeout` in every
  handler). No fairness is assumed of clients, time or crashes. One provider
  account and two ids, without symmetry.
- `verification`: two accounts, three codes, three handlers: two resends race
  while the code they replace is being redeemed, the smallest case in which a
  resend waits for a verification and another resend. The tables are shown to
  change as `Verification` says. The same run evaluates `InputRules` over all
  names of up to four and passwords of up to seven characters (a space, a letter
  of one byte, one of two, a symbol of four), with the limits 8 < 72 < 128 scaled
  to 3 < 4 < 6 and 2 < 15 to 2 < 3: long enough for one character more than each
  limit, in bytes and in symbols, and for texts that bytes and symbols judge
  differently: two characters of three bytes and more, three of more than six.
- `browser`: two requests under way, four ids. Four ids are a login and a
  rotation of each of two sessions. Deadlock is checked.
- `oauth_accounts`: two people and three addresses (the third is what lets an
  address be freed while another person takes it), two handlers. The tables are
  shown to change as `Accounts` says.
- `oidc_login`: three flows over two browsers: two tabs of one browser and a
  stranger; every URL may be followed in either, and one callback URL is opened
  again.
- `shutdown`: a replica from start to end. Ten settings: one that is right
  (Google in the environment with a secret in a file, GitLab in the
  configuration file, not enabled) and nine with one thing wrong or left out
  each: no file, a database that refuses or is silent, an `ENABLED` that is no
  boolean, Google left out or enabled without an issuer, GitLab without one, a
  secret file that is there and empty, settings that the library of access
  tokens refuses. Three requests: one
  under way when the signal comes, one that slips in after `wg.Wait` returned,
  one that never ends. A pool of one connection, so that it is exhausted by any
  transaction. The rules of the merge are checked for every value of a variable,
  every provider a file may hold and every environment with at most one value per
  variable.
  Fairness (`ReplicaSpec`): `Start` and the goroutines and timers of the
  shutdown run; a handler's step on the database ends, because each context has
  a deadline (2 s, 5 s, 30 s, 60 s) that BeginTx and every statement observe;
  the goroutine a handler leaves ends for the same reason. Nothing is assumed of
  clients, issuers, providers and requests outside the database: no deadline
  bounds the reading of a body or the discovery of an issuer. So
  `SignalEndsProcess` holds also when a handler hangs, `PoolRecovers` when a
  client never sends its body, and `OnlyIssuersStallStart` names what can stall.

`CHECK_DEADLOCK FALSE` stands only where the system stops: in `oidc_login` every
flow ends, in `shutdown` the process does.

Runs that show a disagreement between the code and what the repository says of
it (details under "findings" in `PROJECT.json`):

| Run | What the code does |
|---|---|
| `logout_unknown` | `IsRefreshTokenNotFound` tests for another error, so a logout with an unknown token answers 500 and the cookie stays |
| `verification_expiry` | a code verifies its account after it expired |
| `browser_domain` | with `COOKIE_DOMAIN` set, logout does not clear the cookie the provider callback set |
| `oauth_email` | `UpdateEmail` is given the user's id: an address that changes and changes back stays the one in between |
| `oidc_race` | two Starts at once: a redirect carries another session's state or nonce |

Each property of a passing run comes with a mutant: a definition of the model
changed the way a bug would change the code, under which TLC finds the property
violated (`GetWithoutLock`: no FOR UPDATE; `RevokeTokenAtOnce`: an UPDATE outside
the transaction; and so on). A mutant stands right before what it mutates.

`ServesOnlyConfigured` says of a provider only what its being enabled calls for;
that `Start` asks for an issuer of the others too, and gives up without one, is
what the code does and nothing a deployment should count on (`ENABLED` is
documented as optional). What `Start` never looks at it does not mention: client
ids, the mail service's key, the secret of refresh tokens.

Some of what the code does is known and not claimed otherwise: overlapping
refreshes can log a browser out, a logout that overlaps a refresh can be undone
by its answer, a lost answer costs a session, a resend that races a verification
stores a surplus code, two resends can deadlock (the database breaks it). The
properties are stated with these conditions in them; the hazards list them.
Three more are in the models and no property calls them right or wrong: a
replica with no setting for GitLab does not start, although nothing enables
GitLab; two providers that only the configuration file describes, without a
type, share the type "", and with it the identities stored under it; a password
is measured in bytes and called too short in symbols.

Read and not covered by any property, since no state depends on them: a `K_FILE`
that is there and empty hides the variable `K`; every
error of `FindToken` is answered as an invalid code, every error of `FindByEmail`
at login as wrong credentials and every error of `FindByID` as 404; "all requests
done, clean exit" is also logged after `Shutdown` returned an error; Callback's
`access_token` cookie survives a logout for up to an hour; Readyz needs a
connection of the pool that the handlers may have exhausted.

## 4. What is proved

Every invariant and every action property that a passing run checks is proved
here for all values of the constants; what stays with TLC is listed at the end.

The six modules with behaviour have their theorems in a module of proofs. Each
proves an inductive invariant `IInv` with one lemma per action (or per group of
actions that do the same), and takes from it the properties that the runs check.
`IInv` was checked by TLC on the instance of the passing run before it was
proved. The pure functions of `InputRules` and `ProviderConfig` have lemmas and
theorems of their own, which the modules that extend them cite.

### RefreshTokens

`RefreshTokensProofs` proves, for any sets of accounts, tokens and requests and
any bound on expiries, with `RequestsAssumption` alone (the local accounts are
accounts, the bound is a natural number, `None` is no element of the sets):

| Theorem | Statement |
|---|---|
| `Invariance` | `Spec => []IInv` |
| `TypeCorrect` | `Spec => []TypeOK` |
| `SingleLiveToken` | `Spec => []OneLivePerSession` |
| `ClearingIsSafe` | `Spec => []ClearedTokenIsDead` |
| `AnswersAreStored` | `Spec => []AnsweredTokenIsStored` |
| `OwnersAreVerified` | `Spec => []SessionsOfVerifiedUsers` |
| `RotationIsAtomic` | `Spec => RotationAtomic` |
| `NeverDeadlocks` | `Spec => []RequestsNeverDeadlock` |
| `Implementation` | `Spec => ImplementsService` |

The argument. `OneLivePerSession` is not inductive: nothing in it says that the
token a refresh is about to replace is still live when the replacement is
published. `IInv` adds what carries that fact from statement to statement:

- `HandlerShape`: which handler can be at which statement, and that an
  unfinished login has passed the check of `email_verified`;
- `LockHeld`: from `get` to `commit` a handler holds the lock of its row;
- `RowAsSeen`: while it does, the row is what it saw, so a refresh past `check`
  works on a live row;
- `Pending`: the uncommitted UPDATE is of the handler's own row, the
  uncommitted INSERT has an id that no other handler and no row has;
- `AnswerMatches`: an answer's error says what was true of the row when it was
  met, and stays true (revoked and expired are for ever);
- `Sessions`: a token's session exists, and belongs to a verified account.

`Publish` is where these come together: the lock of the retired row is the
publisher's, so no other transaction is changing that session, and the new token
is the only live one. There is one lemma per action that `IInv` survives it, one
that a step has the shape `TokenService` allows (`StepImplements`: Commit of a
login is `Open`, of a refresh `Rotate`, of a logout `Revoke`; all other steps
stutter, except `VerifyEmail`, which is `Confirm`), and the temporal theorems
follow by PTL.

`NeverDeadlocks` needs the converse of `LockHeld`, `LockOwners`: a row that is
locked is locked by a handler between `check` and `commit`, and is the row of its
cookie. A handler that waits is before that and has no lock. `LocksReleased`
would hold with deadlocks too, since the deadline of each statement resolves
them; this is what says that there are none to resolve.

### EmailVerification

For any sets of accounts, codes and handlers, under `HandlersAssumption`:

| Theorem | Statement |
|---|---|
| `VerificationInvariance` | `Spec => []IInv` |
| `TypeCorrect` | `Spec => []TypeOK` |
| `RedeemedOnce` | `Spec => []CodeRedeemedOnce` |
| `WaitingHaveCodes` | `Spec => []UnverifiedHasCode` |
| `MailedAreCommitted` | `Spec => []MailedCodeWasCommitted` |
| `VerificationConsumes` | `Spec => VerifiedConsumesCode` |
| `VerificationImplemented` | `Spec => ImplementsVerification` |
| `SupersededAreDead` | `Spec => []SupersededCodeIsDead` |
| `VerificationsNeverDeadlock` | `Spec => []VerifyDeadlockFree` |
| `NarrowInput` | `Spec => []NarrowInputAsPromised` |
| `WideInput` | `Spec => []WideInputOffByBytes` |

Again a lock and a row that is as it was when it was locked. A handler holds the
lock of every code it has deleted or is verifying, until its transaction ends
(`JobShape`, `LocksHeld`); what is locked is live, and an address that is claimed
has no account (`LockedRows`); the codes a resend deletes are of the account it
resends to (`Rows`); the code about to be inserted is nobody else's
(`FreshCodes`); a code that is still there has verified nobody (`Redemption`). So
what a commit publishes is one step of `Verification`: `SignUp` for a
registration, `Replace` for a resend, `Confirm` for a verification. Resends that
race replace different sets of codes, which is why `Replace` lets the set be
any: the theorem does not claim that a resend leaves one code.

Two of the theorems need an invariant beside `IInv`:

- `Seen` follows the codes a resend's DELETE saw: each is still to be visited, or
  deleted by this transaction, or gone through another one. After the commit
  only the last is left.
- `LockHolders` says at which statements locks are held: an account's row is
  locked only by a handler at its commit. A verification for which somebody waits
  has locked its code (before that it holds nothing), so all it can wait for is
  the row of its account, hence for a handler at its commit, which waits for
  nobody: no ring closes. Resends that race are not covered, and do deadlock.

### InputRules

Under `InputAssumption` (a character has one to four bytes; the limits are
natural numbers, ordered as 8 < 72 < 128 for passwords and 2 < 15 for names),
`NarrowInput` and `WideInput` hold for every alphabet and all limits, the real
ones included, where the run scales them. The lemmas: a text has at least as
many bytes as symbols and at most four times as many (`BytesBounds`); trimming
leaves a text alone that neither begins nor ends with a space (`TrimmedText`); a
text is varied when one character differs from the first (`VariedText`). So the
rules and the messages ask the same of a password but for its length, which the
one measures in bytes (`PasswordsByBytes`) and the other in symbols
(`PasswordsBySymbols`). Where every character is a byte they agree
(`NarrowNames`, `NarrowPasswords`); where not, a password that passes unpromised
is too short in symbols, by three quarters at most, and what is refused though
promised has too many bytes (`MisjudgedPasswords`, `MisjudgedNames`). Under the
real limits that is a password of two symbols of four bytes, which `Register`
takes for one of eight.

### BrowserSession

For any sets of tokens and requests and any bound on expiries, under
`BrowserAssumption`:

| Theorem | Statement |
|---|---|
| `BrowserInvariant` | `Spec => []IInv` |
| `TypeCorrect` | `Spec => []TypeOK` |
| `CookieWorks` | without `DomainSet`: `Spec => []SerialBrowserStaysLoggedIn` |
| `LogoutIsFinal` | without `DomainSet`: `Spec => []SerialLogoutEndsSession` |
| `RefusalDropsToken` | without `DomainSet`: `Spec => RefusedTokenIsDropped` |
| `LogoutClearsCookie` | without `DomainSet`: `Spec => LogoutEmptiesJar` |

`DomainSet` is a deployment with `COOKIE_DOMAIN`. Run `browser` checks the first
three properties without it, run `browser_domain` shows that `LogoutEmptiesJar`
fails with it; `LogoutClearsCookie` completes the picture: without the domain,
and whatever overlaps or is lost, a logout empties the jar, so nothing but the
two cookies of different domains makes it fail.

The argument. Without the domain the jar holds at most one cookie (`OneCookie`).
As long as no two requests overlapped and no answer was lost, one request at most
is under way (`Alone`), and `SerialCookie` says what the cookie is worth before
that request is served, between the service's step and the answer (when the
cookie is behind: it has been revoked, and the answer brings its successor),
and after it. The service keeps one live token per session (`Sessions`), so a
logout, which revokes the token the browser has, leaves its session without any,
and no later request continues it (`SerialLogout`): a session goes on only from
a live token.

### OAuthAccounts

For any sets of people, addresses, accounts and handlers, under
`AccountsAssumption`:

| Theorem | Statement |
|---|---|
| `AccountsInvariance` | `Spec => []IInv` |
| `TypeCorrect` | `Spec => []TypeOK` |
| `OneWayIn` | `Spec => []AccountHasOneLogin` |
| `PasswordAccountsSafe` | `Spec => []NoTakeover` |
| `AccountKept` | with `SubjectIndex`: `Spec => SubjectKeepsAccount` |
| `AccountsImplemented` | with `SubjectIndex`: `Spec => ImplementsAccounts` |

The last two assume the unique index on subjects, which the schema, not part of
the repository, may or may not have; the others hold without it. A new account
is its creator's alone until it is committed, and the creator holds the address
and, by the index, the subject (`Creators`); an account that was found has the
identity of the person who is logging in (`FoundOwn`), hence no password
(`Rows`, `AccountHasOneLogin`); an address that a transaction holds is nobody
else's (`HeldIsFree`); `home` is the account with the person's identity
(`HomeIsOwn`). A commit is then `Open`, `Readdress` or no step of `Accounts`.

### OIDCLogin

For any sets of flows and browsers and any number of reopened URLs, under
`FlowsAssumption`:

| Theorem | Statement |
|---|---|
| `LoginInvariance` | `Spec => []IInv` |
| `TypeCorrect` | `Spec => []TypeOK` |
| `LoginOfOneSession` | `Spec => []AcceptedSessionIsOne` |

The proof asks nothing of the shared provider object but that a flow reads it
after somebody wrote it (`ProviderWritten`). A cookie is of a flow that its
browser started (`CookieIsOwn`), so the comparison of the state ties the URL to
the browser it is open in, whichever that is and also after the cookie was
replaced (`StateIsOwn`), and the comparison of the nonce ties the id token to
the state.

### Replica

For any set of requests, any pool and any settings. Nothing is assumed of the
constants but for `FieldsAreMerged`, about the merge, which uses
`ConfigAssumption` and `AbsentAssumption`:

| Theorem | Statement |
|---|---|
| `ReplicaInvariance` | `ReplicaSpec => []IInv` |
| `TypeCorrect` | `ReplicaSpec => []ReplicaTypeOK` |
| `ShutdownWaits` | `ReplicaSpec => []CutOnlyByTimeout` |
| `ConfiguredServes` | `ReplicaSpec => []ServesOnlyConfigured` |
| `FieldsAreMerged` | `ReplicaSpec => []FileSurvivesEnvironment` |

The wait group is the number of handlers, so it never falls below zero
(`Counted`); once `Shutdown` returned nil there is no request left and none is
accepted, and it returns an error only after the 25 seconds (`Drained`);
nothing is cut off before the end (`CutAtTheEnd`). `Start` comes to a statement
only past the checks before it (`Checked`), and nobody is accepted before it
listens (`AcceptedLate`).

### ProviderConfig

| Theorem | Statement |
|---|---|
| `FieldsSurvive` | a field of the file that the environment has no value for is kept |

It holds for every provider, every environment (a variable, a secret file, both
or neither for each field) and all texts. `FileSurvivesEnvironment` says the same
of the environments the run can enumerate; `FieldsAreMerged` of `Replica` follows
from it.

`ConfigAssumption` says that the words for true and false and the names of
providers are texts, that no word is both, that some text is no provider's name,
and that a variable that is empty, unset or a file that cannot be read is no
text; `AbsentAssumption`, that no provider's record stands for its absence.

### Only model-checked

- Liveness, which is out of the prover's reach: `LocksReleased`,
  `SignalEndsProcess`, `OnlyIssuersStallStart`, `PoolRecovers`.
- The properties of the runs that expect a violation: they are false.

## 5. What is not modelled

- The cryptography (HMAC, AES-GCM, bcrypt, JWT): taken to do what it promises.
- JSON encoding, logging, wording of answers, HTTP status codes beyond the
  distinction that decides the cookie.
- The gateway and the frontend: the browser of `BrowserSession` sends requests
  in any order, which covers whatever they do.
- `DB_PORT` and `COOKIE_SECURE`, whose parse errors are dropped, and
  `loadOIDCProvidersFromEnv`'s scopes: nothing modelled depends on them.
- Error mappings of `database/errors.go` that nobody calls.
- The wrappers `random/`, `uuid/`, `hasher/`, `encoder/`, `time/` and the signing
  of access tokens: one call each, without state.
- The misuse of `WaitGroup` (Add concurrent with Wait at zero) beyond the early
  return that `WaitReturns` allows.
- In `Shutdown`, a request is accepted once its header has been read: net/http
  closes a connection on which nothing was read for five seconds as idle, so
  that what `CutOnlyByTimeout` says begins with the header.
- Libraries beyond what the code relies on: that the database driver honours the
  ping's five seconds also while it connects (`OnlyIssuersStallStart` rests on
  it), and what `accesstoken.LoadConfig` looks at (it accepts or it does not).
- In `OAuthAccounts`, which identity an INSERT writes: a commit stores the one of
  the person who logs in, so that the properties see an INSERT that fails or does
  not happen with its transaction, not one that stores somebody else's.
- Deletion of accounts, password changes, key rotation: the code has none,
  except that a changed `REFRESH_TOKEN_SECRET` is the form `mismatched`.

## 6. The plan

Done, in this order: `TokenService` and `RefreshTokens` (the core of the
service), its proofs, `EmailVerification`, `BrowserSession`, `OAuthAccounts`,
`OIDCLogin`, `Shutdown`; then `Verification` and `Accounts` with the refinements,
`InputRules`, `ProviderConfig` and `Replica`.

Also done are the proofs of all six modules with behaviour and of the functions
of `InputRules` and `ProviderConfig`: no safety property of a passing run is left
without a theorem. What is left is to prove more than the runs ask:

1. `OAuthAccounts.UpdateUser` takes the row and the address in one step, and two
   callbacks that swap addresses in the database's order of locking are covered by
   `Fail` alone. With two steps, which of its requests can deadlock could be
   stated, as it is for the other two transactional modules.
2. In `Replica`, that the number of open transactions never exceeds the pool, with
   the finiteness of the sets it is counted in.

Worth proving and beyond the prover: the liveness properties.
