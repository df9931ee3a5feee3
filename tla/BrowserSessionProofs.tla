----------------------- MODULE BrowserSessionProofs -----------------------
(***************************************************************************)
(* Proofs about BrowserSession, for any number of accounts, tokens and     *)
(* requests under way.                                                     *)
(***************************************************************************)
EXTENDS BrowserSession, SequenceTheorems, TLAPS

Cookie == [slot : Slots, token : Tokens]

Busy(c) == call[c].state # "idle"

(* What a request and its answer can be.                                   *)
CallShape ==
  \A c \in Calls :
    LET k == call[c] IN
    /\ k.state = "idle" => k = NoCall
    /\ k.state = "sent" => k.status = "error" /\ k.new = None
    /\ k.status = "refused" => k.op = "Refresh" /\ k.token # None
    /\ k.status = "ok" /\ k.op # "Logout" => k.new # None

(* Whatever the browser has or is given was stored by the service; a token *)
(* it has logged out with is revoked.                                      *)
Known ==
  /\ \A i \in DOMAIN jar : row[jar[i].token] # "absent"
  /\ \A c \in Calls :
       LET k == call[c] IN
       /\ k.token # None => row[k.token] # "absent"
       /\ k.new # None => row[k.new] # "absent"
       /\ k.op = "Logout" /\ k.status = "ok" /\ k.token # None => row[k.token] = "revoked"

(* A session began with a login, and has one live token at most.           *)
Sessions ==
  /\ \A t \in Tokens :
       row[t] # "absent" => family[t] \in Tokens /\ row[family[t]] # "absent"
  /\ \A s, t \in Tokens : row[s] = "live" /\ row[t] = "live" /\ family[s] = family[t] => s = t
  /\ \A f \in loggedOut : row[f] # "absent"

(* Without COOKIE_DOMAIN there is one cookie at most.                      *)
OneCookie == ~DomainSet => Len(jar) <= 1 /\ \A i \in DOMAIN jar : jar[i].slot = "host"

Alone == ~overlapped => \A c, d \in Calls : Busy(c) /\ Busy(d) => c = d

(* One request at a time and no answer lost: what the cookie is worth,     *)
(* before, while and after the request under way is served.                *)
Serial == ~DomainSet /\ ~overlapped /\ ~lost

Kept(t) == jar # <<>> => Sent = t /\ row[t] = "live"

SerialCookie ==
  Serial =>
    /\ (\A c \in Calls : ~Busy(c)) => Kept(Sent)
    /\ \A c \in Calls :
         LET k == call[c] IN
         /\ k.state = "sent" => Kept(k.token) /\ (k.token # None => row[k.token] = "live")
         /\ k.state = "answered" /\ Effect(k) = "keep" => Kept(k.token)
         /\ k.state = "answered" /\ Effect(k) = "set" => row[k.new] = "live"

(* ... and what a logout has ended.                                        *)
SerialLogout ==
  Serial =>
    \A t \in Tokens :
      row[t] = "live" =>
        /\ family[t] \notin loggedOut
        /\ \A c \in Calls :
             LET k == call[c] IN
             k.op = "Logout" /\ k.status = "ok" /\ k.token # None => family[t] # family[k.token]

IInv ==
  /\ TypeOK
  /\ CallShape
  /\ Known
  /\ Sessions
  /\ OneCookie
  /\ Alone
  /\ SerialCookie
  /\ SerialLogout

-----------------------------------------------------------------------------
(* A cookie that is removed leaves the others, and none if it was alone.   *)
LEMMA WithoutCookie ==
  ASSUME jar \in Seq(Cookie), NEW s \in Slots
  PROVE  /\ Without(s) \in Seq(Cookie)
         /\ Len(Without(s)) <= Len(jar)
         /\ \A i \in DOMAIN Without(s) : \E j \in DOMAIN jar : Without(s)[i] = jar[j]
         /\ Len(jar) <= 1 /\ (\A i \in DOMAIN jar : jar[i].slot = s) => Without(s) = <<>>
<1>1. CASE \E i \in DOMAIN jar : jar[i].slot = s
  <2> DEFINE i == CHOOSE i \in DOMAIN jar : jar[i].slot = s
             front == SubSeq(jar, 1, i - 1)
             back == SubSeq(jar, i + 1, Len(jar))
  <2>1. i \in 1 .. Len(jar) /\ Len(jar) \in Nat
    BY <1>1, LenProperties
  <2>2. Without(s) = front \o back
    BY <1>1 DEF Without, RemoveAt
  <2> HIDE DEF i
  <2>3. /\ front \in Seq(Cookie) /\ Len(front) = i - 1
        /\ \A k \in 1 .. i - 1 : front[k] = jar[k]
    BY <2>1, SubSeqProperties
  <2>4. /\ back \in Seq(Cookie) /\ Len(back) = Len(jar) - i
        /\ \A k \in 1 .. Len(jar) - i : back[k] = jar[i + k]
    BY <2>1, SubSeqProperties
  <2> HIDE DEF front, back
  <2>5. /\ front \o back \in Seq(Cookie)
        /\ Len(front \o back) = Len(jar) - 1
    <3>1. front \o back \in Seq(Cookie) /\ Len(front \o back) = Len(front) + Len(back)
      BY <2>3, <2>4, ConcatProperties
    <3>2. Len(front) + Len(back) = Len(jar) - 1
      BY <2>1, <2>3, <2>4
    <3> QED
      BY <3>1, <3>2
  <2>6. Len(jar) <= 1 => front \o back = <<>>
    BY <2>1, <2>5, EmptySeq
  <2>7. DOMAIN (front \o back) = 1 .. Len(jar) - 1 /\ DOMAIN jar = 1 .. Len(jar)
    BY <2>5, LenProperties
  <2>8. ASSUME NEW k \in 1 .. Len(jar) - 1
        PROVE  \E j \in 1 .. Len(jar) : (front \o back)[k] = jar[j]
    <3>1. CASE k <= i - 1
      <4>1. (front \o back)[k] = front[k]
        BY <2>1, <2>3, <2>4, <3>1, ConcatProperties
      <4> QED
        BY <2>1, <2>3, <3>1, <4>1
    <3>2. CASE i <= k
      <4>1. k - (i - 1) \in 1 .. Len(jar) - i
        BY <2>1, <3>2
      <4>2. (front \o back)[k] = back[k - (i - 1)]
        BY <2>1, <2>3, <2>4, <3>2, ConcatProperties
      <4>3. (front \o back)[k] = jar[i + (k - (i - 1))]
        BY <2>4, <4>1, <4>2
      <4>4. i + (k - (i - 1)) \in 1 .. Len(jar)
        BY <2>1, <3>2
      <4> QED
        BY <4>3, <4>4
    <3>3. i \in Nat /\ k \in Nat
      BY <2>1
    <3>4. k <= i - 1 \/ i <= k
      BY <3>3
    <3> QED
      BY <3>1, <3>2, <3>4
  <2>9. \A k \in DOMAIN (front \o back) :
          \E j \in DOMAIN jar : (front \o back)[k] = jar[j]
    BY <2>7, <2>8
  <2>10. Len(front \o back) <= Len(jar)
    BY <2>1, <2>5
  <2> QED
    BY <2>2, <2>5, <2>6, <2>9, <2>10
<1>2. CASE ~\E i \in DOMAIN jar : jar[i].slot = s
  <2>1. Without(s) = jar /\ Len(jar) \in Nat /\ DOMAIN jar = 1 .. Len(jar)
    BY <1>2, LenProperties DEF Without
  <2>2. Len(jar) <= 1 /\ (\A i \in DOMAIN jar : jar[i].slot = s) => jar = <<>>
    BY <1>2, <2>1, EmptySeq
  <2> QED
    BY <2>1, <2>2
<1> QED
  BY <1>1, <1>2

(* A cookie that is set is there, beside those of the other domain.        *)
LEMMA CookieIsSet ==
  ASSUME jar \in Seq(Cookie), NEW s \in Slots, NEW t \in Tokens
  PROVE  /\ CookieSet(s, t) \in Seq(Cookie)
         /\ \A i \in DOMAIN CookieSet(s, t) :
              LET k == CookieSet(s, t)[i] IN
              \/ k.slot = s /\ k.token = t
              \/ \E j \in DOMAIN jar : k = jar[j]
         /\ Len(jar) <= 1 /\ (\A i \in DOMAIN jar : jar[i].slot = s) =>
              CookieSet(s, t) = <<[slot |-> s, token |-> t]>>
<1>1. Len(jar) \in Nat /\ DOMAIN jar = 1 .. Len(jar) /\ \A i \in 1 .. Len(jar) : jar[i] \in Cookie
  BY LenProperties, ElementOfSeq
<1>2. CASE \E i \in DOMAIN jar : jar[i].slot = s
  <2> DEFINE new == [i \in DOMAIN jar |->
                       IF jar[i].slot = s THEN [jar[i] EXCEPT !.token = t] ELSE jar[i]]
  <2>1. CookieSet(s, t) = new
    BY <1>2 DEF CookieSet
  <2>2. new \in [1 .. Len(jar) -> Cookie]
    BY <1>1 DEF Cookie
  <2>3. new \in Seq(Cookie) /\ Len(new) = Len(jar)
    BY <1>1, <2>2, IsASeq
  <2>4. \A i \in DOMAIN new : \/ new[i].slot = s /\ new[i].token = t
                              \/ new[i] = jar[i]
    BY <1>1 DEF Cookie
  <2>5. ASSUME Len(jar) <= 1, \A i \in DOMAIN jar : jar[i].slot = s
        PROVE  new = <<[slot |-> s, token |-> t]>>
    <3>1. Len(jar) = 1
      BY <1>1, <1>2, <2>5
    <3>2. new[1] = [slot |-> s, token |-> t]
      BY <1>1, <2>5, <3>1 DEF Cookie
    <3> QED
      BY <2>3, <3>1, <3>2
  <2> QED
    BY <2>1, <2>3, <2>4, <2>5
<1>3. CASE ~\E i \in DOMAIN jar : jar[i].slot = s
  <2> DEFINE k == [slot |-> s, token |-> t]
  <2>1. CookieSet(s, t) = Append(jar, k) /\ k \in Cookie
    BY <1>3 DEF CookieSet, Cookie
  <2>2. /\ Append(jar, k) \in Seq(Cookie)
        /\ Len(Append(jar, k)) = Len(jar) + 1
        /\ \A i \in 1 .. Len(jar) : Append(jar, k)[i] = jar[i]
        /\ Append(jar, k)[Len(jar) + 1] = k
    BY <2>1, AppendProperties
  <2>3. DOMAIN Append(jar, k) = 1 .. Len(jar) + 1
    BY <2>2, LenProperties
  <2>4. (\A i \in DOMAIN jar : jar[i].slot = s) => jar = <<>>
    BY <1>1, <1>3, EmptySeq
  <2>5. jar = <<>> => Append(jar, k) = <<k>>
    BY <2>2
  <2> QED
    BY <1>1, <2>1, <2>2, <2>3, <2>4, <2>5
<1> QED
  BY <1>2, <1>3

(* The cookie that is sent.                                                *)
LEMMA SentCookie ==
  ASSUME jar \in Seq(Cookie)
  PROVE  /\ jar = <<>> => Sent = None
         /\ jar # <<>> => 1 \in DOMAIN jar /\ Sent = jar[1].token /\ Sent \in Tokens
<1>1. CASE jar = <<>>
  BY <1>1 DEF Sent
<1>2. CASE jar # <<>>
  <2>1. Len(jar) \in Nat /\ Len(jar) # 0 /\ DOMAIN jar = 1 .. Len(jar)
    BY <1>2, LenProperties, EmptySeq
  <2>2. jar[1] \in Cookie
    BY <2>1, ElementOfSeq
  <2> QED
    BY <1>2, <2>1, <2>2 DEF Sent, Cookie
<1> QED
  BY <1>1, <1>2

LEMMA JarTokens ==
  ASSUME jar \in Seq(Cookie)
  PROVE  \A i \in DOMAIN jar : jar[i].slot \in Slots /\ jar[i].token \in Tokens
<1> SUFFICES ASSUME NEW i \in DOMAIN jar
             PROVE  jar[i].slot \in Slots /\ jar[i].token \in Tokens
  OBVIOUS
<1>1. i \in 1 .. Len(jar)
  BY LenProperties
<1>2. jar[i] \in Cookie
  BY <1>1, ElementOfSeq
<1> QED
  BY <1>2 DEF Cookie

-----------------------------------------------------------------------------
LEMMA InitEstablishesIInv == Init => IInv
<1> SUFFICES ASSUME Init PROVE IInv
  OBVIOUS
<1>1. jar = <<>> /\ jar \in Seq(Cookie) /\ Len(jar) = 0 /\ DOMAIN jar = {}
  BY EmptySeq DEF Init
<1>2. \A c \in Calls : call[c] = NoCall
  BY DEF Init
<1>3. \A t \in Tokens : row[t] = "absent"
  BY DEF Init, ServiceInit
<1>4. TypeOK
  BY <1>1 DEF TypeOK, Init, ServiceInit, ServiceTypeOK, CallType, NoCall, Cookie
<1>5. CallShape /\ Known
  BY <1>1, <1>2 DEF CallShape, Known, NoCall
<1>6. Sessions
  BY <1>3 DEF Init, Sessions
<1>7. OneCookie /\ Alone
  BY <1>1, <1>2 DEF OneCookie, Alone, Busy, NoCall
<1>8. SerialCookie /\ SerialLogout
  BY <1>1, <1>2, <1>3 DEF SerialCookie, SerialLogout, Kept, Busy, NoCall
<1> QED
  BY <1>4, <1>5, <1>6, <1>7, <1>8 DEF IInv

(* A request is sent: what is new is that it carries the cookie's token.   *)
LEMMA SendKeepsIInv ==
  ASSUME IInv, NEW c \in Calls, Send(c)
  PROVE  IInv'
<1> USE BrowserAssumption
<1>1. PICK op \in {"Login", "Callback", "Refresh", "Logout"} :
        call' = [call EXCEPT ![c] = [NoCall EXCEPT !.state = "sent", !.op = op, !.token = Sent]]
  BY DEF Send
<1>2. UNCHANGED <<row, userOf, family, verified, jar, lapsed, lost, loggedOut>>
  BY DEF Send, serviceVars
<1>3. /\ jar \in Seq(Cookie)
      /\ call \in [Calls -> CallType]
      /\ overlapped \in BOOLEAN
  BY DEF IInv, TypeOK, Cookie
<1>4. /\ jar = <<>> => Sent = None
      /\ jar # <<>> => 1 \in DOMAIN jar /\ Sent = jar[1].token /\ Sent \in Tokens
  BY <1>3, SentCookie
<1>5. /\ call'[c] = [state |-> "sent", op |-> op, token |-> Sent, status |-> "error", new |-> None]
      /\ \A d \in Calls \ {c} : call'[d] = call[d]
  BY <1>1, <1>3 DEF NoCall
<1>6. ~overlapped' => ~overlapped /\ \A d \in Calls : ~Busy(d)
  BY DEF Send, Busy
<1>7. TypeOK'
  <2>1. call'[c] \in CallType
    BY <1>4, <1>5 DEF CallType
  <2>2. call' \in [Calls -> CallType]
    BY <1>1, <1>3, <1>5, <2>1
  <2>3. overlapped' \in BOOLEAN
    BY DEF Send
  <2> QED
    BY <1>2, <2>2, <2>3 DEF IInv, TypeOK, ServiceTypeOK
<1>8. CallShape'
  BY <1>5 DEF IInv, CallShape, NoCall
<1>9. Known'
  BY <1>2, <1>4, <1>5 DEF IInv, Known
<1>10. Sessions' /\ OneCookie'
  BY <1>2 DEF IInv, Sessions, OneCookie
<1>11. Alone'
  BY <1>5, <1>6 DEF Alone, Busy
<1>12. SerialCookie'
  <2> SUFFICES ASSUME Serial' PROVE SerialCookie'
    BY DEF SerialCookie
  <2>1. Serial /\ \A d \in Calls : ~Busy(d)
    BY <1>2, <1>6 DEF Serial
  <2>2. Kept(Sent) /\ UNCHANGED Sent
    BY <1>2, <2>1 DEF IInv, SerialCookie, Sent
  <2>3. \A d \in Calls \ {c} : call'[d].state = "idle"
    BY <1>5, <2>1 DEF Busy
  <2> QED
    BY <1>2, <1>4, <1>5, <2>2, <2>3 DEF SerialCookie, Kept, Busy
<1>13. SerialLogout'
  BY <1>2, <1>5, <1>6 DEF IInv, SerialLogout, Serial
<1> QED
  BY <1>7, <1>8, <1>9, <1>10, <1>11, <1>12, <1>13 DEF IInv

-----------------------------------------------------------------------------
(* What the serving of a request has in common: the answer, and that the   *)
(* requests that are under way stay the same.                              *)
Answered(c, status, new) ==
  /\ call[c].state = "sent"
  /\ Reply(c, status, new)
  /\ UNCHANGED <<jar, lapsed, overlapped, loggedOut>>

LEMMA AnswerOfCall ==
  ASSUME IInv, NEW c \in Calls, NEW status \in {"ok", "refused", "error"},
         NEW new \in Tokens \cup {None}, Answered(c, status, new)
  PROVE  /\ call' \in [Calls -> CallType]
         /\ call'[c] = [state |-> "answered", op |-> call[c].op, token |-> call[c].token,
                        status |-> status, new |-> new]
         /\ \A d \in Calls \ {c} : call'[d] = call[d]
         /\ Alone'
         /\ ~overlapped' => \A d \in Calls \ {c} : call[d].state = "idle" /\ call[d] = NoCall
<1>1. call \in [Calls -> CallType] /\ call[c] \in CallType
  BY DEF IInv, TypeOK
<1>2. /\ call'[c] = [state |-> "answered", op |-> call[c].op, token |-> call[c].token,
                     status |-> status, new |-> new]
      /\ \A d \in Calls \ {c} : call'[d] = call[d]
  BY <1>1 DEF Answered, Reply, CallType
<1>3. call'[c] \in CallType
  BY <1>1, <1>2 DEF CallType
<1>4. call' \in [Calls -> CallType]
  BY <1>1, <1>3 DEF Answered, Reply
<1>5. Busy(c) /\ Alone /\ CallShape /\ UNCHANGED overlapped
  BY DEF Answered, IInv, Busy
<1>6. ~overlapped' => \A d \in Calls \ {c} : call[d].state = "idle" /\ call[d] = NoCall
  BY <1>5 DEF Alone, Busy, CallShape
<1>7. Alone'
  BY <1>2, <1>5, <1>6 DEF Alone, Busy
<1> QED
  BY <1>2, <1>4, <1>6, <1>7

LEMMA ErrorKeepsIInv ==
  ASSUME IInv, NEW c \in Calls, ServeError(c)
  PROVE  IInv'
<1> USE BrowserAssumption
<1>1. /\ Answered(c, "error", None)
      /\ UNCHANGED <<row, userOf, family, verified, jar, lapsed, overlapped, lost, loggedOut>>
  BY DEF ServeError, Answered, serviceVars
<1>2. /\ call' \in [Calls -> CallType]
      /\ call'[c] = [state |-> "answered", op |-> call[c].op, token |-> call[c].token,
                     status |-> "error", new |-> None]
      /\ \A d \in Calls \ {c} : call'[d] = call[d]
      /\ Alone'
      /\ ~overlapped' => \A d \in Calls \ {c} : call[d].state = "idle" /\ call[d] = NoCall
  BY <1>1, AnswerOfCall
<1>3. TypeOK'
  BY <1>1, <1>2 DEF IInv, TypeOK, ServiceTypeOK
<1>4. CallShape' /\ Known'
  BY <1>1, <1>2 DEF IInv, CallShape, Known, NoCall
<1>5. Sessions' /\ OneCookie'
  BY <1>1 DEF IInv, Sessions, OneCookie
<1>6. SerialCookie'
  <2> SUFFICES ASSUME Serial' PROVE SerialCookie'
    BY DEF SerialCookie
  <2>1. Serial /\ UNCHANGED Sent
    BY <1>1 DEF Serial, Sent
  <2>2. Kept(call[c].token)
    BY <1>1, <2>1 DEF IInv, SerialCookie, Answered
  <2>3. Kept(call[c].token)' /\ call'[c].token = call[c].token
    BY <1>1, <1>2, <2>1, <2>2 DEF Kept
  <2>4. Busy(c)' /\ \A d \in Calls \ {c} : call'[d].state = "idle"
    BY <1>1, <1>2 DEF Busy, Serial
  <2>5. Effect(call'[c]) = "keep"
    BY <1>2 DEF Effect
  <2> QED
    BY <1>2, <2>3, <2>4, <2>5 DEF SerialCookie, Kept
<1>7. SerialLogout'
  BY <1>1, <1>2 DEF IInv, SerialLogout, Serial
<1> QED
  BY <1>2, <1>3, <1>4, <1>5, <1>6, <1>7 DEF IInv

(* A login: the new token is the first of its session.                     *)
LEMMA LoginKeepsIInv ==
  ASSUME IInv, NEW c \in Calls, ServeLogin(c)
  PROVE  IInv'
<1> USE BrowserAssumption
<1>1. PICK n \in Tokens, u \in Users : Open(n, u) /\ Acknowledge(c, n)
  BY DEF ServeLogin
<1>2. PICK status \in {"ok", "error"}, new \in {n, None} :
        /\ Answered(c, status, new)
        /\ status = "ok" => new = n
        /\ status = "error" => new = None
        /\ ~lost' => ~lost /\ status = "ok"
        /\ lost \in BOOLEAN => lost' \in BOOLEAN
  <2>1. CASE Reply(c, "ok", n) /\ UNCHANGED lost
    BY <2>1 DEF ServeLogin, Answered
  <2>2. CASE Reply(c, "error", None) /\ lost' = TRUE
    BY <2>2 DEF ServeLogin, Answered
  <2> QED
    BY <1>1, <2>1, <2>2 DEF Acknowledge
<1>3. /\ call' \in [Calls -> CallType]
      /\ call'[c] = [state |-> "answered", op |-> call[c].op, token |-> call[c].token,
                     status |-> status, new |-> new]
      /\ \A d \in Calls \ {c} : call'[d] = call[d]
      /\ Alone'
      /\ ~overlapped' => \A d \in Calls \ {c} : call[d].state = "idle" /\ call[d] = NoCall
  BY <1>2, AnswerOfCall
<1>4. UNCHANGED <<jar, lapsed, overlapped, loggedOut, verified>>
  BY <1>1 DEF ServeLogin, Open
<1>5. call[c].op \in {"Login", "Callback"} /\ call[c].state = "sent"
  BY DEF ServeLogin
<1>6. /\ row \in [Tokens -> {"absent", "live", "revoked"}]
      /\ family \in [Tokens -> Tokens \cup {None}]
      /\ jar \in Seq(Cookie)
      /\ loggedOut \subseteq Tokens
      /\ call \in [Calls -> CallType]
  BY DEF IInv, TypeOK, ServiceTypeOK, Cookie
<1>7. /\ row[n] = "absent" /\ row'[n] = "live" /\ family'[n] = n
      /\ \A t \in Tokens \ {n} : row'[t] = row[t] /\ family'[t] = family[t]
  BY <1>1, <1>6 DEF Open
<1>8. TypeOK'
  BY <1>1, <1>2, <1>3, <1>4 DEF IInv, TypeOK, ServiceTypeOK, Open
<1>9. CallShape'
  BY <1>2, <1>3, <1>5 DEF IInv, CallShape
<1>10. \A t \in Tokens : row[t] # "absent" => row'[t] = row[t] /\ family'[t] = family[t]
  BY <1>7
<1>11. Known'
  <2>1. \A i \in DOMAIN jar' : row'[jar'[i].token] # "absent"
    BY <1>4, <1>6, <1>10, JarTokens DEF IInv, Known
  <2>2. ASSUME NEW d \in Calls
        PROVE  /\ call'[d].token # None => row'[call'[d].token] # "absent"
               /\ call'[d].new # None => row'[call'[d].new] # "absent"
               /\ call'[d].op = "Logout" /\ call'[d].status = "ok" /\ call'[d].token # None =>
                    row'[call'[d].token] = "revoked"
    <3>1. call[d].token \in Tokens \cup {None} /\ call[d].new \in Tokens \cup {None}
      BY <1>6 DEF CallType
    <3>2. CASE d = c
      BY <1>2, <1>3, <1>5, <1>7, <1>10, <3>1, <3>2 DEF IInv, Known
    <3>3. CASE d # c
      BY <1>3, <1>10, <3>1, <3>3 DEF IInv, Known
    <3> QED
      BY <3>2, <3>3
  <2> QED
    BY <2>1, <2>2 DEF Known
<1>12. \A t \in Tokens : row[t] # "absent" =>
         family[t] \in Tokens /\ row[family[t]] # "absent" /\ family[t] # n
  BY <1>7 DEF IInv, Sessions
<1>13. Sessions'
  <2>1. \A t \in Tokens : row'[t] # "absent" => family'[t] \in Tokens /\ row'[family'[t]] # "absent"
    BY <1>7, <1>12
  <2>2. ASSUME NEW s \in Tokens, NEW t \in Tokens,
               row'[s] = "live", row'[t] = "live", family'[s] = family'[t]
        PROVE  s = t
    BY <1>7, <1>12, <2>2 DEF IInv, Sessions
  <2>3. \A f \in loggedOut' : row'[f] # "absent"
    BY <1>4, <1>6, <1>10 DEF IInv, Sessions
  <2> QED
    BY <2>1, <2>2, <2>3 DEF Sessions
<1>14. OneCookie'
  BY <1>4 DEF IInv, OneCookie
<1>15. SerialCookie'
  <2> SUFFICES ASSUME Serial' PROVE SerialCookie'
    BY DEF SerialCookie
  <2>1. status = "ok" /\ new = n
    BY <1>2 DEF Serial
  <2>2. Busy(c)' /\ \A d \in Calls \ {c} : call'[d].state = "idle"
    BY <1>3 DEF Busy, Serial
  <2>3. Effect(call'[c]) = "set"
    BY <1>3, <1>5, <2>1 DEF Effect
  <2> QED
    BY <1>3, <1>7, <2>1, <2>2, <2>3 DEF SerialCookie
<1>16. SerialLogout'
  <2> SUFFICES ASSUME Serial', NEW t \in Tokens, row'[t] = "live"
               PROVE  /\ family'[t] \notin loggedOut'
                      /\ \A d \in Calls :
                           call'[d].op = "Logout" /\ call'[d].status = "ok" /\ call'[d].token # None =>
                             family'[t] # family'[call'[d].token]
    BY DEF SerialLogout
  <2>1. Serial
    BY <1>2, <1>4 DEF Serial
  <2>2. \A d \in Calls : ~(call'[d].op = "Logout" /\ call'[d].status = "ok" /\ call'[d].token # None)
    BY <1>3, <1>5 DEF Serial, NoCall
  <2>3. family'[t] \notin loggedOut'
    <3>1. CASE t = n
      BY <1>4, <1>7, <3>1 DEF IInv, Sessions
    <3>2. CASE t # n
      BY <1>4, <1>7, <2>1, <3>2 DEF IInv, SerialLogout
    <3> QED
      BY <3>1, <3>2
  <2> QED
    BY <2>2, <2>3
<1> QED
  BY <1>3, <1>8, <1>9, <1>11, <1>13, <1>14, <1>15, <1>16 DEF IInv

(* A refresh: the new token carries the session on.                        *)
LEMMA RotationKeepsIInv ==
  ASSUME IInv, NEW c \in Calls, call[c].op = "Refresh", call[c].state = "sent",
         NEW n \in Tokens, call[c].token # None, Rotate(call[c].token, n), Acknowledge(c, n),
         UNCHANGED <<jar, lapsed, overlapped, loggedOut>>
  PROVE  IInv'
<1> USE BrowserAssumption
<1> DEFINE t == call[c].token
<1>1. PICK status \in {"ok", "error"}, new \in {n, None} :
        /\ Answered(c, status, new)
        /\ status = "ok" => new = n
        /\ status = "error" => new = None
        /\ ~lost' => ~lost /\ status = "ok"
        /\ lost \in BOOLEAN => lost' \in BOOLEAN
  <2>1. CASE Reply(c, "ok", n) /\ UNCHANGED lost
    BY <2>1 DEF Answered
  <2>2. CASE Reply(c, "error", None) /\ lost' = TRUE
    BY <2>2 DEF Answered
  <2> QED
    BY <2>1, <2>2 DEF Acknowledge
<1>2. /\ call' \in [Calls -> CallType]
      /\ call'[c] = [state |-> "answered", op |-> call[c].op, token |-> t,
                     status |-> status, new |-> new]
      /\ \A d \in Calls \ {c} : call'[d] = call[d]
      /\ Alone'
      /\ ~overlapped' => \A d \in Calls \ {c} : call[d].state = "idle" /\ call[d] = NoCall
  BY <1>1, AnswerOfCall
<1>3. /\ row \in [Tokens -> {"absent", "live", "revoked"}]
      /\ family \in [Tokens -> Tokens \cup {None}]
      /\ userOf \in [Tokens -> Users \cup {None}]
      /\ jar \in Seq(Cookie)
      /\ loggedOut \subseteq Tokens
      /\ call \in [Calls -> CallType]
  BY DEF IInv, TypeOK, ServiceTypeOK, Cookie
<1>4. t \in Tokens
  BY <1>3 DEF CallType
<1>5. /\ row[t] = "live" /\ row[n] = "absent" /\ t # n
      /\ row'[t] = "revoked" /\ row'[n] = "live" /\ family'[n] = family[t]
      /\ \A x \in Tokens \ {t, n} : row'[x] = row[x]
      /\ \A x \in Tokens \ {n} : family'[x] = family[x]
  BY <1>3, <1>4 DEF Rotate
<1>6. TypeOK'
  <2>1. userOf[t] \in Users \cup {None} /\ family[t] \in Tokens \cup {None}
    BY <1>3, <1>4
  <2>2. ServiceTypeOK'
    BY <1>3, <1>4, <2>1 DEF IInv, TypeOK, ServiceTypeOK, Rotate
  <2> QED
    BY <1>1, <1>2, <2>2 DEF IInv, TypeOK
<1>7. CallShape'
  BY <1>1, <1>2 DEF IInv, CallShape
<1>8. \A x \in Tokens :
        /\ row[x] # "absent" => row'[x] # "absent" /\ family'[x] = family[x]
        /\ row[x] = "revoked" => row'[x] = "revoked"
        /\ row'[x] = "live" => x = n \/ (row[x] = "live" /\ x # t)
  BY <1>5
<1>9. Known'
  <2>1. \A i \in DOMAIN jar' : row'[jar'[i].token] # "absent"
    BY <1>3, <1>8, JarTokens DEF IInv, Known
  <2>2. ASSUME NEW d \in Calls
        PROVE  /\ call'[d].token # None => row'[call'[d].token] # "absent"
               /\ call'[d].new # None => row'[call'[d].new] # "absent"
               /\ call'[d].op = "Logout" /\ call'[d].status = "ok" /\ call'[d].token # None =>
                    row'[call'[d].token] = "revoked"
    <3>1. call[d].token \in Tokens \cup {None} /\ call[d].new \in Tokens \cup {None}
      BY <1>3 DEF CallType
    <3>2. CASE d = c
      BY <1>1, <1>2, <1>5, <3>2
    <3>3. CASE d # c
      BY <1>2, <1>8, <3>1, <3>3 DEF IInv, Known
    <3> QED
      BY <3>2, <3>3
  <2> QED
    BY <2>1, <2>2 DEF Known
<1>10. Sessions'
  <2>1. ASSUME NEW x \in Tokens, row'[x] # "absent"
        PROVE  family'[x] \in Tokens /\ row'[family'[x]] # "absent"
    <3>1. \A y \in Tokens : row[y] # "absent" => family[y] \in Tokens /\ row[family[y]] # "absent"
      BY DEF IInv, Sessions
    <3>2. CASE x = n
      BY <1>4, <1>5, <1>8, <3>1, <3>2
    <3>3. CASE x # n
      BY <1>5, <1>8, <2>1, <3>1, <3>3
    <3> QED
      BY <3>2, <3>3
  <2>2. ASSUME NEW x \in Tokens, NEW y \in Tokens,
               row'[x] = "live", row'[y] = "live", family'[x] = family'[y]
        PROVE  x = y
    BY <1>4, <1>5, <1>8, <2>2 DEF IInv, Sessions
  <2>3. \A f \in loggedOut' : row'[f] # "absent"
    BY <1>3, <1>8 DEF IInv, Sessions
  <2> QED
    BY <2>1, <2>2, <2>3 DEF Sessions
<1>11. OneCookie'
  BY DEF IInv, OneCookie
<1>12. SerialCookie'
  <2> SUFFICES ASSUME Serial' PROVE SerialCookie'
    BY DEF SerialCookie
  <2>1. status = "ok" /\ new = n
    BY <1>1 DEF Serial
  <2>2. Busy(c)' /\ \A d \in Calls \ {c} : call'[d].state = "idle"
    BY <1>2 DEF Busy, Serial
  <2>3. Effect(call'[c]) = "set"
    BY <1>2, <2>1 DEF Effect
  <2> QED
    BY <1>2, <1>5, <2>1, <2>2, <2>3 DEF SerialCookie
<1>13. SerialLogout'
  <2> SUFFICES ASSUME Serial', NEW x \in Tokens, row'[x] = "live"
               PROVE  /\ family'[x] \notin loggedOut'
                      /\ \A d \in Calls :
                           call'[d].op = "Logout" /\ call'[d].status = "ok" /\ call'[d].token # None =>
                             family'[x] # family'[call'[d].token]
    BY DEF SerialLogout
  <2>1. Serial
    BY <1>1 DEF Serial
  <2>2. \A d \in Calls : ~(call'[d].op = "Logout" /\ call'[d].status = "ok" /\ call'[d].token # None)
    BY <1>2 DEF Serial, NoCall
  <2>3. family'[x] \notin loggedOut'
    <3>1. CASE x = n
      BY <1>4, <1>5, <2>1, <3>1 DEF IInv, SerialLogout
    <3>2. CASE x # n
      BY <1>5, <1>8, <2>1, <3>2 DEF IInv, SerialLogout
    <3> QED
      BY <3>1, <3>2
  <2> QED
    BY <2>2, <2>3
<1> QED
  BY <1>2, <1>6, <1>7, <1>9, <1>10, <1>11, <1>12, <1>13 DEF IInv

(* A request that is refused, or a logout without a cookie: the store is   *)
(* as it was.                                                              *)
LEMMA AnswerKeepsIInv ==
  ASSUME IInv, NEW c \in Calls, NEW status \in {"ok", "refused"},
         Answered(c, status, None), UNCHANGED <<serviceVars, lost>>,
         \/ status = "refused" /\ call[c].op = "Refresh" /\ call[c].token # None
         \/ status = "ok" /\ call[c].op = "Logout" /\ call[c].token = None
  PROVE  IInv'
<1> USE BrowserAssumption
<1>1. UNCHANGED <<row, userOf, family, verified, jar, lapsed, overlapped, lost, loggedOut>>
  BY DEF Answered, serviceVars
<1>2. /\ call' \in [Calls -> CallType]
      /\ call'[c] = [state |-> "answered", op |-> call[c].op, token |-> call[c].token,
                     status |-> status, new |-> None]
      /\ \A d \in Calls \ {c} : call'[d] = call[d]
      /\ Alone'
      /\ ~overlapped' => \A d \in Calls \ {c} : call[d].state = "idle" /\ call[d] = NoCall
  BY AnswerOfCall
<1>3. TypeOK'
  BY <1>1, <1>2 DEF IInv, TypeOK, ServiceTypeOK
<1>4. CallShape' /\ Known'
  BY <1>1, <1>2 DEF IInv, CallShape, Known
<1>5. Sessions' /\ OneCookie'
  BY <1>1 DEF IInv, Sessions, OneCookie
<1>6. SerialCookie'
  <2> SUFFICES ASSUME Serial' PROVE SerialCookie'
    BY DEF SerialCookie
  <2>1. Busy(c)' /\ \A d \in Calls \ {c} : call'[d].state = "idle"
    BY <1>2 DEF Busy, Serial
  <2>2. Effect(call'[c]) = "clear"
    BY <1>2 DEF Effect
  <2> QED
    BY <1>2, <2>1, <2>2 DEF SerialCookie
<1>7. SerialLogout'
  BY <1>1, <1>2 DEF IInv, SerialLogout, Serial
<1> QED
  BY <1>2, <1>3, <1>4, <1>5, <1>6, <1>7 DEF IInv

LEMMA RefreshKeepsIInv ==
  ASSUME IInv, NEW c \in Calls, ServeRefresh(c)
  PROVE  IInv'
<1> USE BrowserAssumption
<1>1. /\ call[c].state = "sent" /\ call[c].op = "Refresh" /\ call[c].token # None
      /\ UNCHANGED <<jar, lapsed, overlapped, loggedOut>>
  BY DEF ServeRefresh
<1>2. CASE \E n \in Tokens : Rotate(call[c].token, n) /\ Acknowledge(c, n)
  BY <1>1, <1>2, RotationKeepsIInv
<1>3. CASE Reply(c, "refused", None) /\ UNCHANGED <<serviceVars, lost>>
  <2>1. Answered(c, "refused", None)
    BY <1>1, <1>3 DEF Answered
  <2> QED
    BY <1>1, <1>3, <2>1, AnswerKeepsIInv
<1> QED
  BY <1>2, <1>3 DEF ServeRefresh

(* A logout: of its session the revoked token was the only live one.       *)
LEMMA RevocationKeepsIInv ==
  ASSUME IInv, NEW c \in Calls, call[c].op = "Logout", call[c].state = "sent",
         call[c].token # None, Revoke(call[c].token), Acknowledge(c, None),
         UNCHANGED <<jar, lapsed, overlapped, loggedOut>>
  PROVE  IInv'
<1> USE BrowserAssumption
<1> DEFINE t == call[c].token
<1>1. PICK status \in {"ok", "error"} :
        /\ Answered(c, status, None)
        /\ ~lost' => ~lost /\ status = "ok"
        /\ lost \in BOOLEAN => lost' \in BOOLEAN
  <2>1. CASE Reply(c, "ok", None) /\ UNCHANGED lost
    BY <2>1 DEF Answered
  <2>2. CASE Reply(c, "error", None) /\ lost' = TRUE
    BY <2>2 DEF Answered
  <2> QED
    BY <2>1, <2>2 DEF Acknowledge
<1>2. /\ call' \in [Calls -> CallType]
      /\ call'[c] = [state |-> "answered", op |-> call[c].op, token |-> t,
                     status |-> status, new |-> None]
      /\ \A d \in Calls \ {c} : call'[d] = call[d]
      /\ Alone'
      /\ ~overlapped' => \A d \in Calls \ {c} : call[d].state = "idle" /\ call[d] = NoCall
  BY <1>1, AnswerOfCall
<1>3. /\ row \in [Tokens -> {"absent", "live", "revoked"}]
      /\ family \in [Tokens -> Tokens \cup {None}]
      /\ jar \in Seq(Cookie)
      /\ loggedOut \subseteq Tokens
      /\ call \in [Calls -> CallType]
  BY DEF IInv, TypeOK, ServiceTypeOK, Cookie
<1>4. t \in Tokens
  BY <1>3 DEF CallType
<1>5. /\ row[t] # "absent" /\ row'[t] = "revoked"
      /\ \A x \in Tokens \ {t} : row'[x] = row[x]
      /\ UNCHANGED family
  BY <1>3, <1>4 DEF Revoke
<1>6. TypeOK'
  BY <1>1, <1>2 DEF IInv, TypeOK, ServiceTypeOK, Revoke
<1>7. CallShape'
  BY <1>1, <1>2 DEF IInv, CallShape
<1>8. \A x \in Tokens :
        /\ row[x] # "absent" => row'[x] # "absent"
        /\ row[x] = "revoked" => row'[x] = "revoked"
        /\ row'[x] = "live" => row[x] = "live" /\ x # t
  BY <1>4, <1>5
<1>9. Known'
  <2>1. \A i \in DOMAIN jar' : row'[jar'[i].token] # "absent"
    BY <1>3, <1>8, JarTokens DEF IInv, Known
  <2>2. ASSUME NEW d \in Calls
        PROVE  /\ call'[d].token # None => row'[call'[d].token] # "absent"
               /\ call'[d].new # None => row'[call'[d].new] # "absent"
               /\ call'[d].op = "Logout" /\ call'[d].status = "ok" /\ call'[d].token # None =>
                    row'[call'[d].token] = "revoked"
    <3>1. call[d].token \in Tokens \cup {None} /\ call[d].new \in Tokens \cup {None}
      BY <1>3 DEF CallType
    <3>2. CASE d = c
      BY <1>2, <1>5, <3>2
    <3>3. CASE d # c
      BY <1>2, <1>8, <3>1, <3>3 DEF IInv, Known
    <3> QED
      BY <3>2, <3>3
  <2> QED
    BY <2>1, <2>2 DEF Known
<1>10. Sessions'
  BY <1>3, <1>5, <1>8 DEF IInv, Sessions
<1>11. OneCookie'
  BY DEF IInv, OneCookie
<1>12. SerialCookie'
  <2> SUFFICES ASSUME Serial' PROVE SerialCookie'
    BY DEF SerialCookie
  <2>1. status = "ok"
    BY <1>1 DEF Serial
  <2>2. Busy(c)' /\ \A d \in Calls \ {c} : call'[d].state = "idle"
    BY <1>2 DEF Busy, Serial
  <2>3. Effect(call'[c]) = "clear"
    BY <1>2, <2>1 DEF Effect
  <2> QED
    BY <1>2, <2>2, <2>3 DEF SerialCookie
<1>13. SerialLogout'
  <2> SUFFICES ASSUME Serial', NEW x \in Tokens, row'[x] = "live"
               PROVE  /\ family'[x] \notin loggedOut'
                      /\ \A d \in Calls :
                           call'[d].op = "Logout" /\ call'[d].status = "ok" /\ call'[d].token # None =>
                             family'[x] # family'[call'[d].token]
    BY DEF SerialLogout
  <2>1. Serial
    BY <1>1 DEF Serial
  <2>2. family'[x] \notin loggedOut'
    BY <1>5, <1>8, <2>1 DEF IInv, SerialLogout
  <2>3. row[t] = "live"
    BY <2>1 DEF IInv, SerialCookie
  <2>4. family[x] # family[t]
    BY <1>4, <1>8, <2>3 DEF IInv, Sessions
  <2>5. \A d \in Calls \ {c} : call'[d] = NoCall
    BY <1>2 DEF Serial
  <2> QED
    BY <1>2, <1>5, <2>2, <2>4, <2>5 DEF NoCall
<1> QED
  BY <1>2, <1>6, <1>7, <1>9, <1>10, <1>11, <1>12, <1>13 DEF IInv

LEMMA LogoutKeepsIInv ==
  ASSUME IInv, NEW c \in Calls, ServeLogout(c)
  PROVE  IInv'
<1>1. /\ call[c].state = "sent" /\ call[c].op = "Logout"
      /\ UNCHANGED <<jar, lapsed, overlapped, loggedOut>>
  BY DEF ServeLogout
<1>2. CASE call[c].token = None /\ Reply(c, "ok", None) /\ UNCHANGED <<serviceVars, lost>>
  <2>1. Answered(c, "ok", None)
    BY <1>1, <1>2 DEF Answered
  <2> QED
    BY <1>1, <1>2, <2>1, AnswerKeepsIInv
<1>3. CASE call[c].token # None /\ Revoke(call[c].token) /\ Acknowledge(c, None)
  BY <1>1, <1>3, RevocationKeepsIInv
<1> QED
  BY <1>2, <1>3 DEF ServeLogout

-----------------------------------------------------------------------------
(* What an answer leaves in the jar.                                       *)
LEMMA ReceivedJar ==
  ASSUME IInv, NEW c \in Calls, Receive(c)
  PROVE  /\ jar' \in Seq(Cookie)
         /\ \A i \in DOMAIN jar' :
              LET k == jar'[i] IN
              \/ \E j \in DOMAIN jar : k = jar[j]
              \/ Effect(call[c]) = "set" /\ k.token = call[c].new /\ k.slot = SlotOf(call[c].op)
         /\ Effect(call[c]) = "set" => call[c].new \in Tokens
         /\ Effect(call[c]) = "keep" => jar' = jar
         /\ ~DomainSet =>
              /\ Effect(call[c]) = "clear" => jar' = <<>>
              /\ Effect(call[c]) = "set" => jar' = <<[slot |-> "host", token |-> call[c].new]>>
<1> DEFINE s == SlotOf(call[c].op)
<1>1. jar \in Seq(Cookie) /\ s \in Slots /\ (~DomainSet => s = "host")
  BY DEF IInv, TypeOK, Cookie, SlotOf, Slots
<1>2. ~DomainSet => Len(jar) <= 1 /\ \A i \in DOMAIN jar : jar[i].slot = "host"
  BY DEF IInv, OneCookie
<1>3. jar' = CASE Effect(call[c]) = "set" -> CookieSet(s, call[c].new)
               [] Effect(call[c]) = "clear" -> Without(s)
               [] OTHER -> jar
  BY DEF Receive
<1>4. CASE Effect(call[c]) = "set"
  <2>1. call[c].new \in Tokens
    <3>1. call[c].status = "ok" /\ call[c].op # "Logout"
      BY <1>4 DEF Effect
    <3>2. call[c] \in CallType
      BY DEF IInv, TypeOK
    <3> QED
      BY <3>1, <3>2 DEF IInv, CallShape, CallType
  <2>2. jar' = CookieSet(s, call[c].new)
    BY <1>3, <1>4
  <2> HIDE DEF s
  <2>3. /\ CookieSet(s, call[c].new) \in Seq(Cookie)
        /\ \A i \in DOMAIN CookieSet(s, call[c].new) :
             LET k == CookieSet(s, call[c].new)[i] IN
             \/ k.slot = s /\ k.token = call[c].new
             \/ \E j \in DOMAIN jar : k = jar[j]
        /\ Len(jar) <= 1 /\ (\A i \in DOMAIN jar : jar[i].slot = s) =>
             CookieSet(s, call[c].new) = <<[slot |-> s, token |-> call[c].new]>>
    BY <1>1, <2>1, CookieIsSet
  <2>4. ~DomainSet => jar' = <<[slot |-> "host", token |-> call[c].new]>>
    BY <1>1, <1>2, <2>2, <2>3
  <2> QED
    BY <1>4, <2>1, <2>2, <2>3, <2>4 DEF s
<1>5. CASE Effect(call[c]) = "clear"
  <2>1. jar' = Without(s)
    BY <1>3, <1>5
  <2> HIDE DEF s
  <2>2. /\ Without(s) \in Seq(Cookie)
        /\ \A i \in DOMAIN Without(s) : \E j \in DOMAIN jar : Without(s)[i] = jar[j]
        /\ Len(jar) <= 1 /\ (\A i \in DOMAIN jar : jar[i].slot = s) => Without(s) = <<>>
    BY <1>1, WithoutCookie
  <2>3. ~DomainSet => jar' = <<>>
    BY <1>1, <1>2, <2>1, <2>2
  <2> QED
    BY <1>5, <2>1, <2>2, <2>3
<1>6. CASE Effect(call[c]) \notin {"set", "clear"}
  <2>1. jar' = jar
    BY <1>3, <1>6
  <2> QED
    BY <1>1, <1>6, <2>1
<1> QED
  BY <1>4, <1>5, <1>6

LEMMA ReceiveKeepsIInv ==
  ASSUME IInv, NEW c \in Calls, Receive(c)
  PROVE  IInv'
<1> USE BrowserAssumption
<1> DEFINE k == call[c]
           ended == k.op = "Logout" /\ k.status = "ok" /\ k.token # None
<1>1. /\ k.state = "answered"
      /\ UNCHANGED <<row, userOf, family, verified, lapsed, overlapped, lost>>
      /\ loggedOut' = IF ended THEN loggedOut \cup {family[k.token]} ELSE loggedOut
      /\ call' = [call EXCEPT ![c] = NoCall]
  BY DEF Receive, serviceVars
<1>2. /\ call \in [Calls -> CallType] /\ k \in CallType
      /\ jar \in Seq(Cookie)
      /\ loggedOut \subseteq Tokens
  BY DEF IInv, TypeOK, Cookie
<1>3. call'[c] = NoCall /\ \A d \in Calls \ {c} : call'[d] = call[d]
  BY <1>1, <1>2
<1>4. /\ jar' \in Seq(Cookie)
      /\ \A i \in DOMAIN jar' :
           \/ \E j \in DOMAIN jar : jar'[i] = jar[j]
           \/ Effect(k) = "set" /\ jar'[i].token = k.new /\ jar'[i].slot = SlotOf(k.op)
      /\ Effect(k) = "set" => k.new \in Tokens
      /\ Effect(k) = "keep" => jar' = jar
      /\ ~DomainSet =>
           /\ Effect(k) = "clear" => jar' = <<>>
           /\ Effect(k) = "set" => jar' = <<[slot |-> "host", token |-> k.new]>>
  BY ReceivedJar
<1>5. k.token \in Tokens \cup {None}
  BY <1>2 DEF CallType
<1>6. ended => family[k.token] \in Tokens /\ row[family[k.token]] # "absent"
  BY <1>5 DEF IInv, Known, Sessions
<1> HIDE DEF ended
<1>7. TypeOK'
  <2>1. NoCall \in CallType
    BY DEF NoCall, CallType
  <2>2. call' \in [Calls -> CallType]
    BY <1>1, <1>2, <2>1
  <2>3. loggedOut' \subseteq Tokens
    BY <1>1, <1>2, <1>6
  <2> QED
    BY <1>1, <1>4, <2>2, <2>3 DEF IInv, TypeOK, ServiceTypeOK, Cookie
<1>8. CallShape'
  BY <1>3 DEF IInv, CallShape, NoCall
<1>9. Known'
  <2>1. \A i \in DOMAIN jar' : row'[jar'[i].token] # "absent"
    BY <1>1, <1>2, <1>4 DEF IInv, Known
  <2>2. \A d \in Calls :
          /\ call'[d].token # None => row'[call'[d].token] # "absent"
          /\ call'[d].new # None => row'[call'[d].new] # "absent"
          /\ call'[d].op = "Logout" /\ call'[d].status = "ok" /\ call'[d].token # None =>
               row'[call'[d].token] = "revoked"
    BY <1>1, <1>3 DEF IInv, Known, NoCall
  <2> QED
    BY <2>1, <2>2 DEF Known
<1>10. Sessions'
  BY <1>1, <1>6 DEF IInv, Sessions
<1>11. OneCookie'
  <2> SUFFICES ASSUME ~DomainSet
               PROVE  Len(jar') <= 1 /\ \A i \in DOMAIN jar' : jar'[i].slot = "host"
    BY DEF OneCookie
  <2>1. Effect(k) \in {"set", "clear", "keep"}
    BY DEF Effect
  <2>2. CASE Effect(k) = "keep"
    BY <1>4, <2>2 DEF IInv, OneCookie
  <2>3. CASE Effect(k) = "clear"
    <3>1. jar' = <<>>
      BY <1>4, <2>3
    <3>2. Len(jar') = 0 /\ DOMAIN jar' = {}
      BY <3>1, EmptySeq
    <3> QED
      BY <3>2
  <2>4. CASE Effect(k) = "set"
    <3>1. jar' = <<[slot |-> "host", token |-> k.new]>>
      BY <1>4, <2>4
    <3>2. Len(jar') = 1 /\ DOMAIN jar' = {1} /\ jar'[1].slot = "host"
      BY <3>1
    <3> QED
      BY <3>2
  <2> QED
    BY <2>1, <2>2, <2>3, <2>4
<1>12. Alone'
  BY <1>1, <1>3 DEF IInv, Alone, Busy, NoCall
<1>13. SerialCookie'
  <2> SUFFICES ASSUME Serial' PROVE SerialCookie'
    BY DEF SerialCookie
  <2>1. Serial /\ Busy(c)
    BY <1>1 DEF Serial, Busy
  <2>2. \A d \in Calls : call'[d].state = "idle"
    <3>1. \A d \in Calls \ {c} : call[d].state = "idle"
      BY <2>1 DEF IInv, Alone, Serial, Busy
    <3> QED
      BY <1>3, <3>1 DEF NoCall
  <2>3. Kept(Sent)'
    <3>1. Effect(k) \in {"set", "clear", "keep"}
      BY DEF Effect
    <3>2. CASE Effect(k) = "keep"
      <4>1. jar' = jar /\ UNCHANGED Sent
        BY <1>4, <3>2 DEF Sent
      <4>2. Kept(k.token)
        BY <1>1, <2>1, <3>2 DEF IInv, SerialCookie
      <4> QED
        BY <1>1, <4>1, <4>2 DEF Kept
    <3>3. CASE Effect(k) = "clear"
      BY <1>4, <2>1, <3>3 DEF Kept, Serial
    <3>4. CASE Effect(k) = "set"
      <4>1. jar' = <<[slot |-> "host", token |-> k.new]>>
        BY <1>4, <2>1, <3>4 DEF Serial
      <4>2. jar' # <<>> /\ jar'[1].token = k.new
        BY <4>1
      <4>3. row[k.new] = "live"
        BY <1>1, <2>1, <3>4 DEF IInv, SerialCookie
      <4> QED
        BY <1>1, <4>2, <4>3 DEF Kept, Sent
    <3> QED
      BY <3>1, <3>2, <3>3, <3>4
  <2> QED
    BY <2>2, <2>3 DEF SerialCookie
<1>14. SerialLogout'
  <2> SUFFICES ASSUME Serial', NEW t \in Tokens, row'[t] = "live"
               PROVE  /\ family'[t] \notin loggedOut'
                      /\ \A d \in Calls :
                           call'[d].op = "Logout" /\ call'[d].status = "ok" /\ call'[d].token # None =>
                             family'[t] # family'[call'[d].token]
    BY DEF SerialLogout
  <2>1. Serial
    BY <1>1 DEF Serial
  <2>2. /\ family[t] \notin loggedOut
        /\ \A d \in Calls :
             call[d].op = "Logout" /\ call[d].status = "ok" /\ call[d].token # None =>
               family[t] # family[call[d].token]
    BY <1>1, <2>1 DEF IInv, SerialLogout
  <2>3. family'[t] \notin loggedOut'
    BY <1>1, <2>2 DEF ended
  <2> QED
    BY <1>1, <1>3, <2>2, <2>3 DEF NoCall
<1> QED
  BY <1>7, <1>8, <1>9, <1>10, <1>11, <1>12, <1>13, <1>14 DEF IInv

LEMMA LossKeepsIInv ==
  ASSUME IInv, NEW c \in Calls, Lose(c)
  PROVE  IInv'
<1> USE BrowserAssumption
<1>1. /\ call' = [call EXCEPT ![c] = NoCall] /\ lost' = TRUE
      /\ UNCHANGED <<row, userOf, family, verified, jar, lapsed, overlapped, loggedOut>>
  BY DEF Lose, serviceVars
<1>2. /\ call \in [Calls -> CallType]
      /\ NoCall \in CallType
  BY DEF IInv, TypeOK, NoCall, CallType
<1>3. call'[c] = NoCall /\ \A d \in Calls \ {c} : call'[d] = call[d]
  BY <1>1, <1>2
<1>4. TypeOK'
  BY <1>1, <1>2 DEF IInv, TypeOK, ServiceTypeOK
<1>5. CallShape' /\ Known'
  BY <1>1, <1>3 DEF IInv, CallShape, Known, NoCall
<1>6. Sessions' /\ OneCookie'
  BY <1>1 DEF IInv, Sessions, OneCookie
<1>7. Alone'
  BY <1>1, <1>3 DEF IInv, Alone, Busy, NoCall
<1>8. SerialCookie' /\ SerialLogout'
  BY <1>1 DEF SerialCookie, SerialLogout, Serial
<1> QED
  BY <1>4, <1>5, <1>6, <1>7, <1>8 DEF IInv

LEMMA ExpiryKeepsIInv ==
  ASSUME IInv, CookieExpires
  PROVE  IInv'
<1>1. PICK s \in Slots : Without(s) # jar /\ jar' = Without(s)
  BY DEF CookieExpires
<1>2. UNCHANGED <<row, userOf, family, verified, call, lapsed, overlapped, lost, loggedOut>>
  BY DEF CookieExpires, serviceVars
<1>3. jar \in Seq(Cookie)
  BY DEF IInv, TypeOK, Cookie
<1>4. /\ jar' \in Seq(Cookie)
      /\ \A i \in DOMAIN jar' : \E j \in DOMAIN jar : jar'[i] = jar[j]
      /\ Len(jar) <= 1 /\ (\A i \in DOMAIN jar : jar[i].slot = s) => jar' = <<>>
  BY <1>1, <1>3, WithoutCookie
<1>5. \E i \in DOMAIN jar : jar[i].slot = s
  BY <1>1 DEF Without
<1>6. ~DomainSet => jar' = <<>>
  BY <1>4, <1>5 DEF IInv, OneCookie
<1>7. TypeOK' /\ CallShape'
  BY <1>2, <1>4 DEF IInv, TypeOK, ServiceTypeOK, Cookie, CallShape
<1>8. Known'
  BY <1>2, <1>4 DEF IInv, Known
<1>9. Sessions' /\ Alone' /\ SerialLogout'
  BY <1>2 DEF IInv, Sessions, Alone, Busy, SerialLogout, Serial
<1>10. OneCookie'
  <2>1. jar' = <<>> => Len(jar') = 0 /\ DOMAIN jar' = {}
    BY EmptySeq
  <2> QED
    BY <1>6, <2>1 DEF OneCookie
<1>11. SerialCookie'
  BY <1>2, <1>6 DEF IInv, SerialCookie, Serial, Kept, Busy
<1> QED
  BY <1>7, <1>8, <1>9, <1>10, <1>11 DEF IInv

(* Thirty days, and steps in which nothing happens.                        *)
LEMMA LapseKeepsIInv ==
  ASSUME IInv, UNCHANGED <<serviceVars, jar, call, overlapped, lost, loggedOut>>,
         lapsed' \subseteq Tokens
  PROVE  IInv'
<1>1. UNCHANGED <<row, userOf, family, verified, jar, call, overlapped, lost, loggedOut, Sent>>
  BY DEF serviceVars, Sent
<1>2. TypeOK'
  BY <1>1 DEF IInv, TypeOK, ServiceTypeOK
<1>3. CallShape' /\ Known' /\ Sessions' /\ OneCookie' /\ Alone'
  BY <1>1 DEF IInv, CallShape, Known, Sessions, OneCookie, Alone, Busy
<1>4. SerialCookie' /\ SerialLogout'
  BY <1>1 DEF IInv, SerialCookie, SerialLogout, Serial, Kept, Busy
<1> QED
  BY <1>2, <1>3, <1>4 DEF IInv

LEMMA StepKeepsIInv == IInv /\ [Next]_vars => IInv'
<1> SUFFICES ASSUME IInv, [Next]_vars PROVE IInv'
  OBVIOUS
<1>1. ASSUME NEW c \in Calls, Send(c) PROVE IInv'
  BY <1>1, SendKeepsIInv
<1>2. ASSUME NEW c \in Calls, ServeLogin(c) PROVE IInv'
  BY <1>2, LoginKeepsIInv
<1>3. ASSUME NEW c \in Calls, ServeRefresh(c) PROVE IInv'
  BY <1>3, RefreshKeepsIInv
<1>4. ASSUME NEW c \in Calls, ServeLogout(c) PROVE IInv'
  BY <1>4, LogoutKeepsIInv
<1>5. ASSUME NEW c \in Calls, ServeError(c) PROVE IInv'
  BY <1>5, ErrorKeepsIInv
<1>6. ASSUME NEW c \in Calls, Receive(c) PROVE IInv'
  BY <1>6, ReceiveKeepsIInv
<1>7. ASSUME NEW c \in Calls, Lose(c) PROVE IInv'
  BY <1>7, LossKeepsIInv
<1>8. CASE CookieExpires
  BY <1>8, ExpiryKeepsIInv
<1>9. ASSUME NEW t \in Tokens, Lapse(t) PROVE IInv'
  <2>1. lapsed' \subseteq Tokens /\ UNCHANGED <<serviceVars, jar, call, overlapped, lost, loggedOut>>
    BY <1>9 DEF Lapse, IInv, TypeOK
  <2> QED
    BY <2>1, LapseKeepsIInv
<1>10. CASE UNCHANGED vars
  <2>1. lapsed' \subseteq Tokens /\ UNCHANGED <<serviceVars, jar, call, overlapped, lost, loggedOut>>
    BY <1>10 DEF vars, browserVars, IInv, TypeOK
  <2> QED
    BY <2>1, LapseKeepsIInv
<1> QED
  BY <1>1, <1>2, <1>3, <1>4, <1>5, <1>6, <1>7, <1>8, <1>9, <1>10 DEF Next

-----------------------------------------------------------------------------
(* The invariant of the browser and the service, with or without           *)
(* COOKIE_DOMAIN.                                                          *)
THEOREM BrowserInvariant == Spec => []IInv
<1>1. Init => IInv
  BY InitEstablishesIInv
<1>2. IInv /\ [Next]_vars => IInv'
  BY StepKeepsIInv
<1> QED
  BY <1>1, <1>2, PTL DEF Spec

(* The store, the jar and every request have the shape the handlers give   *)
(* them, with or without COOKIE_DOMAIN.                                    *)
THEOREM TypeCorrect == Spec => []TypeOK
<1>1. IInv => TypeOK
  BY DEF IInv
<1> QED
  BY <1>1, BrowserInvariant, PTL

(* Without COOKIE_DOMAIN, a browser that sends one request at a time and   *)
(* loses no answer has a live token in its cookie: Login, Refresh and      *)
(* Callback set what they committed, a refusal and a logout clear it.      *)
THEOREM CookieWorks ==
  ASSUME ~DomainSet
  PROVE  Spec => []SerialBrowserStaysLoggedIn
<1>1. IInv => SerialBrowserStaysLoggedIn
  BY DEF IInv, SerialCookie, Serial, Kept, Busy, SerialBrowserStaysLoggedIn
<1> QED
  BY <1>1, BrowserInvariant, PTL

(* Without COOKIE_DOMAIN, a logout that such a browser saw succeed ended   *)
(* the session: of its tokens none is live and none becomes live again.    *)
THEOREM LogoutIsFinal ==
  ASSUME ~DomainSet
  PROVE  Spec => []SerialLogoutEndsSession
<1>1. IInv => SerialLogoutEndsSession
  BY DEF IInv, SerialLogout, Serial, SerialLogoutEndsSession
<1> QED
  BY <1>1, BrowserInvariant, PTL

(* Without COOKIE_DOMAIN, and whatever was lost or overtaken before: after *)
(* the refusal of a refresh the browser has another cookie or none, so it  *)
(* does not go on offering the refused token.                              *)
THEOREM RefusalDropsToken ==
  ASSUME ~DomainSet
  PROVE  Spec => RefusedTokenIsDropped
<1>1. ASSUME IInv, NEW c \in Calls,
             Receive(c), call[c].op = "Refresh", call[c].status = "refused"
      PROVE  Sent' # call[c].token
  <2>1. Effect(call[c]) = "clear"
    BY <1>1 DEF Effect
  <2>2. jar' = <<>>
    BY <1>1, <2>1, ReceivedJar
  <2>3. Sent' = None
    BY <2>2 DEF Sent
  <2> QED
    BY <1>1, <2>3 DEF IInv, CallShape
<1>2. IInv /\ [Next]_vars =>
        [\A c \in Calls :
           Receive(c) /\ call[c].op = "Refresh" /\ call[c].status = "refused" =>
             Sent' # call[c].token]_vars
  BY <1>1
<1> QED
  BY <1>2, BrowserInvariant, PTL DEF Spec, RefusedTokenIsDropped

(* Without COOKIE_DOMAIN the logout does what the README says of it: its   *)
(* answer empties the jar, whatever else is under way.  What the run with  *)
(* COOKIE_DOMAIN refutes is therefore the doing of the cookie's domain.    *)
THEOREM LogoutClearsCookie ==
  ASSUME ~DomainSet
  PROVE  Spec => LogoutEmptiesJar
<1>1. ASSUME IInv, NEW c \in Calls,
             Receive(c), call[c].op = "Logout", call[c].status = "ok"
      PROVE  jar' = <<>>
  <2>1. Effect(call[c]) = "clear"
    BY <1>1 DEF Effect
  <2> QED
    BY <1>1, <2>1, ReceivedJar
<1>2. IInv /\ [Next]_vars =>
        [\A c \in Calls :
           Receive(c) /\ call[c].op = "Logout" /\ call[c].status = "ok" /\ ~overlapped =>
             jar' = <<>>]_vars
  BY <1>1
<1> QED
  BY <1>2, BrowserInvariant, PTL DEF Spec, LogoutEmptiesJar
=============================================================================
