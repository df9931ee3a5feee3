--------------------------- MODULE OIDCLoginProofs ---------------------------
(***************************************************************************)
(* Proofs about OIDCLogin, for any number of flows, browsers and reloads.  *)
(***************************************************************************)
EXTENDS OIDCLogin, TLAPS

(* The provider object holds values once a flow has written them; a flow   *)
(* that was started has a browser, and one whose callback URL is open has  *)
(* a browser for it.                                                       *)
ProviderWritten ==
  \A f \in Flows :
    /\ pc[f] \in {"withNonce", "build"} => pState # None
    /\ pc[f] = "build" => pNonce # None
    /\ pc[f] # "idle" => browserOf[f] \in Browsers
    /\ pc[f] \in {"callback", "denied", "exchange", "extract", "done"} => at[f] \in Browsers
    /\ pc[f] \in {"idle", "withState", "withNonce", "build", "atProvider"} => result[f] = "none"

(* A browser's cookie is of a flow that this browser started.              *)
CookieIsOwn ==
  \A b \in Browsers :
    session[b] # None => pc[session[b]] # "idle" /\ browserOf[session[b]] = b

(* A callback that passed the check of the state is of a session of the    *)
(* browser it is open in, also after the cookie was replaced.              *)
StateIsOwn ==
  \A f \in Flows :
    /\ pc[f] \in {"exchange", "extract"} \/ result[f] = "logged_in" =>
         pc[url[f].state] # "idle" /\ browserOf[url[f].state] = at[f]
    /\ result[f] = "logged_in" => url[f].state = url[f].nonce

IInv ==
  /\ TypeOK
  /\ ProviderWritten
  /\ CookieIsOwn
  /\ StateIsOwn

(* The inductive invariant holds at the start.                             *)
LEMMA InitInvariant == Init => IInv
BY FlowsAssumption
   DEF Init, IInv, TypeOK, NoUrl, Results, ProviderWritten, CookieIsOwn, StateIsOwn

(* A browser asks for a login.                                             *)
LEMMA StartStep ==
  ASSUME IInv, NEW f \in Flows, NEW b \in Browsers, Start(f, b)
  PROVE  IInv'
<1> USE FlowsAssumption DEF IInv, Start
<1>1. TypeOK'
  BY DEF TypeOK, NoUrl, Results, ProviderWritten
<1>2. ProviderWritten'
  BY DEF TypeOK, ProviderWritten
<1>3. CookieIsOwn'
  BY DEF TypeOK, CookieIsOwn, ProviderWritten
<1>4. StateIsOwn'
  BY DEF TypeOK, StateIsOwn, ProviderWritten
<1> QED
  BY <1>1, <1>2, <1>3, <1>4

(* The two writes to the shared provider.                                  *)
LEMMA WriteStep ==
  ASSUME IInv, NEW f \in Flows, WithState(f) \/ WithNonce(f)
  PROVE  IInv'
<1> USE FlowsAssumption DEF IInv, WithState, WithNonce
<1>1. TypeOK'
  BY DEF TypeOK, NoUrl, Results, ProviderWritten
<1>2. ProviderWritten'
  BY DEF TypeOK, ProviderWritten
<1>3. CookieIsOwn'
  BY DEF TypeOK, CookieIsOwn, ProviderWritten
<1>4. StateIsOwn'
  BY DEF TypeOK, StateIsOwn, ProviderWritten
<1> QED
  BY <1>1, <1>2, <1>3, <1>4

(* The redirect, with whatever the provider object holds by now.           *)
LEMMA BuildStep ==
  ASSUME IInv, NEW f \in Flows, BuildAuthCodeURL(f)
  PROVE  IInv'
<1> USE FlowsAssumption DEF IInv, BuildAuthCodeURL
<1>1. TypeOK'
  BY DEF TypeOK, NoUrl, Results, ProviderWritten
<1>2. ProviderWritten'
  BY DEF TypeOK, ProviderWritten
<1>3. CookieIsOwn'
  BY DEF TypeOK, CookieIsOwn, ProviderWritten
<1>4. StateIsOwn'
  BY DEF TypeOK, StateIsOwn, ProviderWritten
<1> QED
  BY <1>1, <1>2, <1>3, <1>4

(* The provider sends a browser back, or the URL is opened again.          *)
LEMMA ReturnStep ==
  ASSUME IInv, NEW f \in Flows, NEW b \in Browsers, Authenticate(f, b) \/ Reopen(f, b)
  PROVE  IInv'
<1> USE FlowsAssumption DEF IInv, Authenticate, Reopen
<1>1. TypeOK'
  BY DEF TypeOK, NoUrl, Results, ProviderWritten
<1>2. ProviderWritten'
  BY DEF TypeOK, ProviderWritten
<1>3. CookieIsOwn'
  BY DEF TypeOK, CookieIsOwn, ProviderWritten
<1>4. StateIsOwn'
  BY DEF TypeOK, StateIsOwn, ProviderWritten
<1> QED
  BY <1>1, <1>2, <1>3, <1>4

(* The callback looks at cookie, state and code.                           *)
LEMMA CallbackStep ==
  ASSUME IInv, NEW f \in Flows, Callback(f)
  PROVE  IInv'
<1> USE FlowsAssumption DEF IInv, Callback, End
<1>1. TypeOK'
  BY DEF TypeOK, NoUrl, Results, ProviderWritten
<1>2. ProviderWritten'
  BY DEF TypeOK, ProviderWritten
<1>3. CookieIsOwn'
  BY DEF TypeOK, CookieIsOwn, ProviderWritten
<1>4. StateIsOwn'
  BY DEF TypeOK, StateIsOwn, ProviderWritten, StateMatches, CookieIsOwn
<1> QED
  BY <1>1, <1>2, <1>3, <1>4

(* The code is exchanged.                                                  *)
LEMMA ExchangeStep ==
  ASSUME IInv, NEW f \in Flows, Exchange(f)
  PROVE  IInv'
<1> USE FlowsAssumption DEF IInv, Exchange, End
<1>1. TypeOK'
  BY DEF TypeOK, NoUrl, Results, ProviderWritten
<1>2. ProviderWritten'
  BY DEF TypeOK, ProviderWritten
<1>3. CookieIsOwn'
  BY DEF TypeOK, CookieIsOwn, ProviderWritten
<1>4. StateIsOwn'
  BY DEF TypeOK, StateIsOwn, ProviderWritten
<1> QED
  BY <1>1, <1>2, <1>3, <1>4

(* The id token is looked at.                                              *)
LEMMA ExtractStep ==
  ASSUME IInv, NEW f \in Flows, Extract(f)
  PROVE  IInv'
<1> USE FlowsAssumption DEF IInv, Extract, End
<1>1. TypeOK'
  BY DEF TypeOK, NoUrl, Results, ProviderWritten
<1>2. ProviderWritten'
  BY DEF TypeOK, ProviderWritten
<1>3. CookieIsOwn'
  BY DEF TypeOK, CookieIsOwn, ProviderWritten
<1>4. StateIsOwn'
  BY DEF TypeOK, StateIsOwn, ProviderWritten, NonceMatches
<1> QED
  BY <1>1, <1>2, <1>3, <1>4

(* A cookie expires.                                                       *)
LEMMA ExpireStep ==
  ASSUME IInv, NEW b \in Browsers, SessionExpires(b)
  PROVE  IInv'
<1> USE FlowsAssumption DEF IInv, SessionExpires
<1>1. TypeOK'
  BY DEF TypeOK, NoUrl, Results, ProviderWritten
<1>2. ProviderWritten'
  BY DEF TypeOK, ProviderWritten
<1>3. CookieIsOwn'
  BY DEF TypeOK, CookieIsOwn, ProviderWritten
<1>4. StateIsOwn'
  BY DEF TypeOK, StateIsOwn, ProviderWritten
<1> QED
  BY <1>1, <1>2, <1>3, <1>4

LEMMA StutterStep == IInv /\ UNCHANGED vars => IInv'
BY DEF vars, IInv, TypeOK, ProviderWritten, CookieIsOwn, StateIsOwn

LEMMA StepInvariant == IInv /\ [Next]_vars => IInv'
<1> SUFFICES ASSUME IInv, [Next]_vars
             PROVE  IInv'
  OBVIOUS
<1>1. ASSUME NEW f \in Flows, NEW b \in Browsers,
             Start(f, b) \/ Authenticate(f, b) \/ Reopen(f, b)
      PROVE  IInv'
  BY <1>1, StartStep, ReturnStep
<1>2. ASSUME NEW f \in Flows,
             \/ WithState(f) \/ WithNonce(f) \/ BuildAuthCodeURL(f)
             \/ Callback(f) \/ Exchange(f) \/ Extract(f)
      PROVE  IInv'
  BY <1>2, WriteStep, BuildStep, CallbackStep, ExchangeStep, ExtractStep
<1>3. ASSUME NEW b \in Browsers, SessionExpires(b)
      PROVE  IInv'
  BY <1>3, ExpireStep
<1>4. CASE UNCHANGED vars
  BY <1>4, StutterStep
<1> QED
  BY <1>1, <1>2, <1>3, <1>4 DEF Next

(* The invariant holds in every reachable state.                           *)
THEOREM LoginInvariance == Spec => []IInv
<1>1. Init => IInv
  BY InitInvariant
<1>2. IInv /\ [Next]_vars => IInv'
  BY StepInvariant
<1> QED
  BY <1>1, <1>2, PTL DEF Spec

(* Every variable keeps its type.                                          *)
THEOREM TypeCorrect == Spec => []TypeOK
<1>1. IInv => TypeOK
  BY DEF IInv
<1> QED
  BY <1>1, LoginInvariance, PTL

(* A login is of one session, which the browser it ends in has started,    *)
(* wherever and however often callback URLs are opened: the state ties it  *)
(* to the browser and the nonce to the state, whatever the unlocked writes *)
(* to the provider object did.                                             *)
THEOREM LoginOfOneSession == Spec => []AcceptedSessionIsOne
<1>1. IInv => AcceptedSessionIsOne
  BY DEF IInv, StateIsOwn, AcceptedSessionIsOne
<1> QED
  BY <1>1, LoginInvariance, PTL

=============================================================================
