---------------------------- MODULE AccountsProofs ----------------------------
(***************************************************************************)
(* Proofs about logging in and changing passwords and SSH, for any number  *)
(* of requests, passwords, failures and restarts.                          *)
(***************************************************************************)
EXTENDS Accounts, TLAPS

-----------------------------------------------------------------------------
(* The inductive invariant                                                 *)

Req == [kind  : {"login", "query", "change", "ssh"},
        at    : {"findUser", "createToken", "respond", "authenticate", "refused", "retry",
                 "checkPassword", "updateUser", "setSystemPassword",
                 "isSSHEnabled", "enable", "start"},
        given : Password \cup {None},
        new   : Password \cup BOOLEAN \cup {None},
        token : Nat \cup {None},
        since : SUBSET Password,
        alone : BOOLEAN]

\* What each kind of request is about, and where it may wait.
Shape(req) ==
    /\ req.kind = "login" =>
          req.given \in Password /\ req.at \in {"findUser", "createToken", "respond"}
    /\ req.kind = "query" => req.at \in {"authenticate", "refused", "retry"}
    /\ req.kind = "change" =>
          req.new \in Password /\ req.at \in {"authenticate", "refused", "retry",
                                   "checkPassword", "updateUser", "setSystemPassword"}
    /\ req.kind = "ssh" =>
          req.new \in BOOLEAN /\ req.at \in {"authenticate", "refused", "retry",
                                   "isSSHEnabled", "enable", "start"}

\* What has been checked was right at some moment; what a request that is
\* alone has done so far is still there.
RequestOK(req) ==
    /\ req \in Req /\ Shape(req)
    /\ req.token \in DOMAIN tokens \cup {None}
    /\ password \in req.since
    /\ req.at \in {"createToken", "respond", "updateUser", "setSystemPassword"}
         /\ req.given # None => req.given \in req.since
    /\ req.at = "setSystemPassword" /\ req.alone => password = req.new
    /\ req.at = "start" /\ req.alone => sshEnabled = req.new

RequestsInv ==
    /\ requests \in [Request -> Req \cup {Idle}]
    /\ \A r \in Request : requests[r] # Idle => RequestOK(requests[r])

AloneInv ==
    \A r, q \in Request :
        r # q /\ requests[r] # Idle /\ requests[q] # Idle /\ requests[r].alone
          => requests[q].kind # requests[r].kind

\* SSH runs as it is enabled, except between the two commands.
SSHInv ==
    rough \/ sshRunning = sshEnabled \/ \E r \in Request : requests[r].at = "start"

SecretInv ==
    /\ secrets \in Nat /\ tokens \in Seq(Nat)
    /\ promise = "writing" => secret = None /\ secrets >= 1

\* The part of TypeOK that is not about requests.
ServerOK ==
    /\ {password, osPassword} \subseteq Password
    /\ secret \in 1..secrets \cup {None}
    /\ promise \in {"unused", "reading", "writing", "kept", "rejected"}
    /\ jwtSecret \in 1..secrets \cup {None} /\ (promise = "kept" <=> jwtSecret # None)
    /\ \A i \in DOMAIN tokens : tokens[i] \in 1..secrets
    /\ expired \subseteq DOMAIN tokens /\ token \in DOMAIN tokens \cup {None}
    /\ {up, forbidden, sshEnabled, sshRunning, rough} \subseteq BOOLEAN

IInv == ServerOK /\ TokensVerify /\ SecretInv /\ RequestsInv /\ AloneInv /\ SSHInv

LEMMA TypeFromParts == ServerOK /\ RequestsInv => TypeOK
BY DEF ServerOK, RequestsInv, RequestOK, Req, TypeOK

LEMMA NotIdle ==
    ASSUME RequestsInv, NEW r \in Request, requests[r].at # "idle"
    PROVE  requests[r] # Idle /\ RequestOK(requests[r]) /\ requests[r] \in Req
BY DEF RequestsInv, RequestOK, Idle

LEMMA InitAccounts == Init => IInv
<1> SUFFICES ASSUME Init PROVE IInv
  OBVIOUS
<1>1. ServerOK
  <2>1. {up, forbidden, sshEnabled, sshRunning, rough} \subseteq BOOLEAN
    BY Zenon DEF Init
  <2>2. tokens = <<>> /\ DOMAIN tokens = {}
    BY DEF Init
  <2> QED BY <2>1, <2>2, AccountsAssumption DEF Init, ServerOK
<1>4. SecretInv
  BY DEF Init, SecretInv
<1>2. TokensVerify
  BY DEF Init, TokensVerify
<1>3. RequestsInv /\ AloneInv /\ SSHInv
  BY DEF Init, RequestsInv, AloneInv, SSHInv
<1> QED BY <1>1, <1>2, <1>3, <1>4 DEF IInv

-----------------------------------------------------------------------------
(* Steps of one request                                                    *)

\* A request goes on, or is answered, and the others see nothing of it.
LEMMA RequestGoesOn ==
    ASSUME IInv, NEW r \in Request, requests[r].at \notin {"idle", "start"},
           NEW next \in Req \cup {Idle},
           requests' = [requests EXCEPT ![r] = next],
           next # Idle => /\ next.kind = requests[r].kind /\ next.alone = requests[r].alone
                          /\ RequestOK(next)',
           DOMAIN tokens \subseteq DOMAIN tokens',
           UNCHANGED <<password, sshEnabled, sshRunning, rough>>
    PROVE  RequestsInv' /\ AloneInv' /\ SSHInv'
<1>0. requests[r] # Idle
  BY NotIdle DEF IInv
<1>1. \A q \in Request : requests'[q] = IF q = r THEN next ELSE requests[q]
  BY DEF IInv, RequestsInv
<1>2. RequestsInv'
  <2>1. requests' \in [Request -> Req \cup {Idle}]
    BY DEF IInv, RequestsInv
  <2>2. ASSUME NEW q \in Request, q # r, requests[q] # Idle PROVE RequestOK(requests[q])'
    <3>1. RequestOK(requests[q]) /\ requests'[q] = requests[q]
      BY <1>1, <2>2 DEF IInv, RequestsInv
    <3> QED BY <3>1 DEF RequestOK, Shape
  <2> QED BY <1>1, <2>1, <2>2 DEF RequestsInv, RequestOK, Shape
<1>3. AloneInv'
  BY <1>0, <1>1 DEF IInv, AloneInv
<1>4. SSHInv'
  BY <1>1 DEF IInv, SSHInv
<1> QED BY <1>2, <1>3, <1>4

\* The same, if only the place changes.
LEMMA GoesKeeps ==
    ASSUME IInv, NEW r \in Request, requests[r].at \notin {"idle", "start"},
           NEW at, Goes(r, at), RequestOK([requests[r] EXCEPT !.at = at]),
           UNCHANGED <<password, tokens, sshEnabled, sshRunning, rough>>
    PROVE  RequestsInv' /\ AloneInv' /\ SSHInv'
<1> DEFINE next == [requests[r] EXCEPT !.at = at]
<1>1. requests[r] \in Req
  BY NotIdle DEF IInv
<1>2. next \in Req /\ next.kind = requests[r].kind /\ next.alone = requests[r].alone
  BY <1>1 DEF RequestOK, Req
<1>3. requests' = [requests EXCEPT ![r] = next]
  BY DEF Goes
<1>4. PICK n \in Req : n = next
  BY <1>2
<1>5. RequestOK(n)'
  BY <1>4 DEF RequestOK, Shape
<1> QED BY <1>2, <1>3, <1>4, <1>5, RequestGoesOn

LEMMA AnswerKeeps ==
    ASSUME IInv, NEW r \in Request, requests[r].at \notin {"idle", "start"}, Answer(r),
           UNCHANGED <<password, tokens, sshEnabled, sshRunning, rough>>
    PROVE  RequestsInv' /\ AloneInv' /\ SSHInv'
BY RequestGoesOn DEF Answer

LEMMA ServerStays ==
    ASSUME IInv, UNCHANGED <<database, os, up, auth, browser>>
    PROVE  ServerOK' /\ TokensVerify' /\ SecretInv'
BY DEF IInv, ServerOK, TokensVerify, SecretInv, database, os, auth, browser

LEMMA BeginKeeps ==
    ASSUME IInv, NEW r \in Request, NEW kind, NEW at, NEW given, NEW new,
           Begin(r, kind, at, given, new),
           \/ kind = "login" /\ at = "findUser" /\ given \in Password /\ new = None
           \/ kind = "query" /\ at = "authenticate" /\ given = None /\ new = None
           \/ kind = "change" /\ at = "authenticate" /\ given \in Password \cup {None} /\ new \in Password
           \/ kind = "ssh" /\ at = "authenticate" /\ given = None /\ new \in BOOLEAN
    PROVE  IInv'
<1> DEFINE fresh == [kind |-> kind, at |-> at, given |-> given, new |-> new, token |-> token,
                     since |-> {password}, alone |-> InFlight(kind) = {}]
<1>1. /\ requests[r] = Idle
      /\ requests' = [q \in Request |->
            IF q = r THEN fresh
            ELSE IF q \in InFlight(kind) THEN [requests[q] EXCEPT !.alone = FALSE]
            ELSE requests[q]]
      /\ UNCHANGED <<database, os, up, auth, browser>>
  BY DEF Begin
<1>2. ServerOK' /\ TokensVerify' /\ SecretInv'
  BY <1>1, ServerStays
<1>3. UNCHANGED <<password, tokens, sshEnabled, sshRunning, rough>>
  BY <1>1 DEF database, os, auth
<1>4. PICK f \in Req : f = fresh
  <2>1. token \in Nat \cup {None} /\ password \in Password
    BY DEF IInv, ServerOK, SecretInv
  <2>2. (InFlight(kind) = {}) \in BOOLEAN
    OBVIOUS
  <2>3. fresh \in Req
    BY <2>1, <2>2 DEF Req
  <2> QED BY <2>3
<1>a. /\ f.kind = kind /\ f.at = at /\ f.given = given /\ f.new = new
      /\ f.token = token /\ f.since = {password}
  BY <1>4
<1>b. f.alone = (InFlight(kind) = {})
  BY <1>4, Zenon
<1>5. RequestOK(f)'
  <2>1. f.token \in DOMAIN tokens \cup {None} /\ password \in f.since
    BY <1>a DEF IInv, ServerOK
  <2>2. Shape(f)
    BY <1>a DEF Shape
  <2>3. f.at \in {"findUser", "authenticate"}
    BY <1>a
  <2> QED BY <1>3, <2>1, <2>2, <2>3 DEF RequestOK, Shape
<1>6. ASSUME NEW q \in Request, requests[q] # Idle
      PROVE  /\ requests[q] \in Req /\ RequestOK(requests[q])
             /\ [requests[q] EXCEPT !.alone = FALSE] \in Req
             /\ RequestOK([requests[q] EXCEPT !.alone = FALSE])
  <2>1. requests[q] \in Req /\ RequestOK(requests[q])
    BY <1>6 DEF IInv, RequestsInv, RequestOK
  <2> DEFINE e == [requests[q] EXCEPT !.alone = FALSE]
  <2>2. /\ e \in Req /\ e.alone = FALSE
        /\ e.kind = requests[q].kind /\ e.at = requests[q].at /\ e.given = requests[q].given
        /\ e.new = requests[q].new /\ e.token = requests[q].token
        /\ e.since = requests[q].since
    BY <2>1 DEF Req
  <2>3. Shape(e)
    BY <2>1, <2>2 DEF RequestOK, Shape
  <2>4. RequestOK(e)
    BY <2>1, <2>2, <2>3, Zenon DEF RequestOK
  <2> QED BY <2>1, <2>2, <2>4
<1>7. RequestsInv'
  <2>1. requests' \in [Request -> Req \cup {Idle}]
    <3>1. fresh \in Req
      BY <1>4
    <3> QED BY <1>1, <1>6, <3>1 DEF IInv, RequestsInv, InFlight
  <2>2. ASSUME NEW q \in Request, requests'[q] # Idle PROVE RequestOK(requests[q])'
    <3>1. CASE q = r
      BY <1>1, <1>4, <1>5, <3>1
    <3>2. CASE q # r
      <4>1. requests[q] # Idle
        BY <1>1, <2>2, <3>2 DEF InFlight
      <4>2. RequestOK(requests'[q])
        BY <1>1, <1>6, <3>2, <4>1
      <4> QED BY <1>3, <4>2 DEF RequestOK, Shape
    <3> QED BY <3>1, <3>2
  <2> QED BY <2>1, <2>2 DEF RequestsInv
<1>8. AloneInv'
  <2> SUFFICES ASSUME NEW p \in Request, NEW q \in Request, p # q, requests'[p] # Idle,
                      requests'[q] # Idle, requests'[p].alone
               PROVE  requests'[q].kind # requests'[p].kind
    BY DEF AloneInv
  <2>1. \A s \in Request : s # r => /\ requests'[s] # Idle => requests[s] # Idle
                                    /\ requests[s] # Idle => requests'[s].kind = requests[s].kind
    BY <1>1, <1>6 DEF InFlight, Req
  <2>2. requests'[r] = f
    BY <1>1, <1>4
  <2>3. CASE p = r
    <3>1. InFlight(kind) = {}
      BY <1>b, <2>2, <2>3
    <3>2. requests[q] # Idle /\ requests[q].kind # kind
      BY <2>1, <2>3, <3>1 DEF InFlight
    <3> QED BY <1>a, <2>1, <2>2, <2>3, <3>2
  <2>4. CASE p # r
    <3>1. requests[p] # Idle /\ requests'[p] = requests[p] /\ p \notin InFlight(kind)
      BY <1>1, <1>6, <2>1, <2>4 DEF Req
    <3>2. CASE q = r
      BY <1>a, <2>2, <3>1, <3>2 DEF InFlight
    <3>3. CASE q # r
      BY <2>1, <3>1, <3>3 DEF IInv, AloneInv
    <3> QED BY <3>2, <3>3
  <2> QED BY <2>3, <2>4
<1>9. SSHInv'
  <2>1. \A q \in Request : requests[q].at = "start" => requests'[q].at = "start"
    BY <1>1, <1>6 DEF Idle, Req, InFlight
  <2> QED BY <1>3, <2>1 DEF IInv, SSHInv
<1> QED BY <1>2, <1>7, <1>8, <1>9 DEF IInv

-----------------------------------------------------------------------------
(* The secret and the tokens                                               *)

LEMMA RequestsStay ==
    ASSUME IInv, UNCHANGED <<requests, password, tokens, sshEnabled, sshRunning, rough>>
    PROVE  RequestsInv' /\ AloneInv' /\ SSHInv'
BY DEF IInv, RequestsInv, RequestOK, Shape, AloneInv, SSHInv, InFlight

LEMMA SecretKeeps ==
    ASSUME IInv, Secret \/ SecretFails
    PROVE  IInv'
<1>1. /\ UNCHANGED <<password, os, up, tokens, expired, browser, requests>>
      /\ UNCHANGED <<password, tokens, sshEnabled, sshRunning, rough>>
  BY DEF Secret, SecretFails, GetJWTSecret, ReadSecret, WriteSecret, database, os, bounds
<1>2. RequestsInv' /\ AloneInv' /\ SSHInv'
  BY <1>1, RequestsStay
<1>3. CASE GetJWTSecret
  <2>1. promise = "unused" /\ promise' = "reading" /\ UNCHANGED <<secret, jwtSecret, secrets>>
    BY <1>3 DEF GetJWTSecret, database
  <2>2. ServerOK' /\ TokensVerify' /\ SecretInv'
    BY <1>1, <2>1 DEF IInv, ServerOK, TokensVerify, SecretInv, os, browser
  <2> QED BY <1>2, <2>2 DEF IInv
<1>4. CASE ReadSecret
  <2>1. /\ promise = "reading" /\ UNCHANGED secret
        /\ \/ secret # None /\ promise' = "kept" /\ jwtSecret' = secret /\ UNCHANGED secrets
           \/ secret = None /\ promise' = "writing" /\ secrets' = secrets + 1 /\ UNCHANGED jwtSecret
    BY <1>4 DEF ReadSecret, database
  <2>2. \A n \in 1..secrets : n \in 1..secrets'
    BY <2>1 DEF IInv, SecretInv
  <2>3. ServerOK' /\ TokensVerify' /\ SecretInv'
    BY <1>1, <2>1, <2>2 DEF IInv, ServerOK, TokensVerify, SecretInv, os, browser
  <2> QED BY <1>2, <2>3 DEF IInv
<1>5. CASE WriteSecret
  <2>1. /\ promise = "writing" /\ promise' = "kept" /\ UNCHANGED secrets
        /\ jwtSecret' = secrets /\ secret' = secrets
    BY <1>5 DEF WriteSecret
  <2>2. secret = None /\ secrets \in 1..secrets /\ secrets # None
    BY <2>1, NoneAssumption DEF IInv, SecretInv
  <2>3. DOMAIN tokens = {}
    BY <2>2, NoneAssumption DEF IInv, ServerOK, TokensVerify
  <2>4. ServerOK'
    BY <1>1, <2>1, <2>2 DEF IInv, ServerOK, os, browser
  <2>5. TokensVerify' /\ SecretInv'
    BY <1>1, <2>1, <2>3 DEF IInv, TokensVerify, SecretInv
  <2> QED BY <1>2, <2>4, <2>5 DEF IInv
<1>6. CASE SecretFails
  <2>1. /\ promise \in {"reading", "writing"} /\ promise' = "rejected"
        /\ UNCHANGED <<secret, jwtSecret, secrets>>
    BY <1>6 DEF SecretFails, database
  <2>2. ServerOK' /\ TokensVerify' /\ SecretInv'
    BY <1>1, <2>1 DEF IInv, ServerOK, TokensVerify, SecretInv, os, browser
  <2> QED BY <1>2, <2>2 DEF IInv
<1> QED BY <1>3, <1>4, <1>5, <1>6 DEF Secret

LEMMA CreateTokenKeeps ==
    ASSUME IInv, NEW r \in Request, CreateToken(r)
    PROVE  IInv'
<1>1. /\ requests[r].at = "createToken"
      /\ UNCHANGED <<database, os, up, promise, jwtSecret, secrets, expired, browser>>
  BY DEF CreateToken, At
<1>2. requests[r] # Idle /\ requests[r] \in Req /\ RequestOK(requests[r])
  BY <1>1, NotIdle DEF IInv
<1>3. CASE promise = "kept"
  <2>1. /\ tokens' = Append(tokens, jwtSecret)
        /\ requests' = [requests EXCEPT ![r].at = "respond", ![r].token = Len(tokens')]
    BY <1>3 DEF CreateToken
  <2>2. jwtSecret \in 1..secrets /\ jwtSecret = secret /\ secrets \in Nat
    BY <1>3 DEF IInv, ServerOK, TokensVerify, SecretInv
  <2>3. tokens \in Seq(Nat)
    BY DEF IInv, SecretInv
  <2>4. /\ tokens' \in Seq(Nat) /\ DOMAIN tokens \subseteq DOMAIN tokens'
        /\ Len(tokens') \in DOMAIN tokens' /\ Len(tokens') \in Nat
        /\ \A i \in DOMAIN tokens' : tokens'[i] = IF i \in DOMAIN tokens THEN tokens[i] ELSE jwtSecret
    BY <2>1, <2>2, <2>3
  <2>5. ServerOK' /\ TokensVerify' /\ SecretInv'
    BY <1>1, <2>2, <2>4 DEF IInv, ServerOK, TokensVerify, SecretInv, database, os, browser
  <2> DEFINE next == [requests[r] EXCEPT !.at = "respond", !.token = Len(tokens')]
  <2>6. /\ next \in Req /\ next.at = "respond" /\ next.token = Len(tokens')
        /\ next.kind = requests[r].kind /\ next.alone = requests[r].alone
        /\ next.given = requests[r].given /\ next.new = requests[r].new
        /\ next.since = requests[r].since
    BY <1>2, <2>4 DEF Req
  <2>7. requests' = [requests EXCEPT ![r] = next]
    BY <2>1
  <2>8. PICK n \in Req : n = next
    BY <2>6
  <2>9. RequestOK(n)'
    <3>1. Shape(n)
      BY <1>1, <1>2, <2>6, <2>8 DEF RequestOK, Shape
    <3> QED BY <1>1, <1>2, <2>4, <2>6, <2>8, <3>1 DEF RequestOK, Shape, database
  <2>10. UNCHANGED <<password, sshEnabled, sshRunning, rough>>
    BY <1>1 DEF database, os
  <2> QED BY <1>1, <2>4, <2>5, <2>6, <2>7, <2>8, <2>9, <2>10, RequestGoesOn DEF IInv
<1>4. CASE promise # "kept"
  <2>1. Answer(r) /\ UNCHANGED tokens
    BY <1>4 DEF CreateToken
  <2>2. UNCHANGED <<database, os, up, auth, browser>>
    BY <1>1, <2>1 DEF auth
  <2>3. ServerOK' /\ TokensVerify' /\ SecretInv'
    BY <2>2, ServerStays
  <2>4. RequestsInv' /\ AloneInv' /\ SSHInv'
    BY <1>1, <2>1, AnswerKeeps DEF database, os
  <2> QED BY <2>3, <2>4 DEF IInv
<1> QED BY <1>3, <1>4

LEMMA TokenStepsKeep ==
    ASSUME IInv, \/ \E r \in Request : StoreToken(r)
                 \/ \E t \in DOMAIN tokens : Expire(t)
                 \/ Logout \/ Start
    PROVE  IInv'
<1>1. ASSUME NEW r \in Request, StoreToken(r) PROVE IInv'
  <2>1. /\ requests[r].at = "respond" /\ Answer(r) /\ token' = requests[r].token
        /\ UNCHANGED <<database, os, up, auth, forbidden>>
    BY <1>1 DEF StoreToken, At
  <2>2. token' \in DOMAIN tokens \cup {None}
    BY <2>1, NotIdle DEF IInv, RequestOK
  <2>3. ServerOK' /\ TokensVerify' /\ SecretInv'
    BY <2>1, <2>2 DEF IInv, ServerOK, TokensVerify, SecretInv, database, os, auth
  <2>4. RequestsInv' /\ AloneInv' /\ SSHInv'
    BY <2>1, AnswerKeeps DEF database, os, auth
  <2> QED BY <2>3, <2>4 DEF IInv
<1>2. ASSUME NEW t \in DOMAIN tokens, Expire(t) PROVE IInv'
  <2>1. /\ expired' = expired \cup {t}
        /\ UNCHANGED <<database, os, up, promise, jwtSecret, secrets, tokens, browser, requests>>
    BY <1>2 DEF Expire
  <2>2. ServerOK' /\ TokensVerify' /\ SecretInv'
    BY <2>1 DEF IInv, ServerOK, TokensVerify, SecretInv, database, os, browser
  <2>3. RequestsInv' /\ AloneInv' /\ SSHInv'
    BY <2>1, RequestsStay DEF database, os
  <2> QED BY <2>2, <2>3 DEF IInv
<1>3. CASE Logout
  <2>1. /\ forbidden' = FALSE /\ token' = None
        /\ UNCHANGED <<database, os, up, auth, requests>>
    BY <1>3 DEF Logout
  <2>2. ServerOK' /\ TokensVerify' /\ SecretInv'
    BY <2>1 DEF IInv, ServerOK, TokensVerify, SecretInv, database, os, auth
  <2>3. RequestsInv' /\ AloneInv' /\ SSHInv'
    BY <2>1, RequestsStay DEF database, os, auth
  <2> QED BY <2>2, <2>3 DEF IInv
<1>4. CASE Start
  <2>1. up' = TRUE /\ UNCHANGED <<database, os, auth, browser, requests>>
    BY <1>4 DEF Start
  <2>2. ServerOK' /\ TokensVerify' /\ SecretInv'
    BY <2>1 DEF IInv, ServerOK, TokensVerify, SecretInv, database, os, auth, browser
  <2>3. RequestsInv' /\ AloneInv' /\ SSHInv'
    BY <2>1, RequestsStay DEF database, os, auth
  <2> QED BY <2>2, <2>3 DEF IInv
<1> QED BY <1>1, <1>2, <1>3, <1>4

-----------------------------------------------------------------------------
(* Operations                                                              *)

\* A step that answers the request or moves it on to a place it may be in.
LEMMA StepKeeps ==
    ASSUME IInv, NEW r \in Request, requests[r].at \notin {"idle", "start"},
           UNCHANGED <<database, os, up, auth, browser>>,
           Answer(r) \/ \E at : Goes(r, at) /\ RequestOK([requests[r] EXCEPT !.at = at])
    PROVE  IInv'
<1>1. ServerOK' /\ TokensVerify' /\ SecretInv'
  BY ServerStays
<1>2. UNCHANGED <<password, tokens, sshEnabled, sshRunning, rough>>
  BY DEF database, os, auth
<1>3. RequestsInv' /\ AloneInv' /\ SSHInv'
  BY <1>2, AnswerKeeps, GoesKeeps
<1> QED BY <1>1, <1>3 DEF IInv

\* The fields of a request that has moved.
LEMMA MovedFields ==
    ASSUME NEW req \in Req, NEW at \in {"createToken", "authenticate", "refused", "retry",
                 "checkPassword", "updateUser", "setSystemPassword", "isSSHEnabled", "enable", "start"}
    PROVE  LET moved == [req EXCEPT !.at = at]
           IN  /\ moved \in Req /\ moved.at = at
               /\ moved.kind = req.kind /\ moved.given = req.given /\ moved.new = req.new
               /\ moved.token = req.token /\ moved.since = req.since /\ moved.alone = req.alone
BY DEF Req

LEMMA MovesOn ==
    ASSUME NEW req, RequestOK(req), NEW at,
           \/ req.kind = "login" /\ at = "createToken" /\ req.given \in req.since
           \/ req.kind # "login" /\ at \in {"refused", "retry", "authenticate"}
           \/ req.kind = "change" /\ at = "checkPassword"
           \/ req.kind = "change" /\ at = "updateUser" /\ (req.given = None \/ req.given \in req.since)
           \/ req.kind = "ssh" /\ at \in {"isSSHEnabled", "enable"}
    PROVE  RequestOK([req EXCEPT !.at = at])
<1> DEFINE moved == [req EXCEPT !.at = at]
<1>1. req \in Req /\ Shape(req)
  BY DEF RequestOK
<1>2. at \in {"createToken", "authenticate", "refused", "retry", "checkPassword", "updateUser",
              "isSSHEnabled", "enable"}
  OBVIOUS
<1>3. /\ moved \in Req /\ moved.at = at
      /\ moved.kind = req.kind /\ moved.given = req.given /\ moved.new = req.new
      /\ moved.token = req.token /\ moved.since = req.since /\ moved.alone = req.alone
  BY <1>1, <1>2 DEF Req
<1>4. req.kind \in {"login", "query", "change", "ssh"}
  BY <1>1 DEF Req
<1> HIDE DEF moved
<1>5. Shape(moved)
  BY <1>1, <1>3, <1>4 DEF Shape
<1>6. moved.at \in {"createToken", "respond", "updateUser", "setSystemPassword"}
        /\ moved.given # None => moved.given \in moved.since
  BY <1>2, <1>3
<1>7. moved.at # "setSystemPassword" /\ moved.at # "start"
  BY <1>2, <1>3
<1>8. RequestOK(moved)
  BY <1>3, <1>5, <1>6, <1>7 DEF RequestOK
<1> QED BY <1>8 DEF moved

LEMMA LoginKeeps == ASSUME IInv, NEW r \in Request, FindUser(r) PROVE IInv'
<1>1. /\ requests[r].at = "findUser" /\ UNCHANGED <<database, os, up, auth, browser>>
      /\ IF requests[r].given = password THEN Goes(r, "createToken") ELSE Answer(r)
  BY DEF FindUser, At, Matches
<1>2. RequestOK(requests[r])
  BY <1>1, NotIdle DEF IInv
<1>3. requests[r].kind = "login" /\ password \in requests[r].since
  BY <1>1, <1>2 DEF RequestOK, Shape, Req
<1>4. requests[r].given = password => RequestOK([requests[r] EXCEPT !.at = "createToken"])
  BY <1>2, <1>3, MovesOn
<1> QED BY <1>1, <1>4, StepKeeps

LEMMA AuthenticateKeeps == ASSUME IInv, NEW r \in Request, Authenticate(r) PROVE IInv'
<1>1. /\ requests[r].at = "authenticate" /\ UNCHANGED <<database, os, up, auth, browser>>
      /\ Resolve(r, TRUE) \/ Resolve(r, FALSE) \/ Goes(r, "refused")
  BY DEF Authenticate, At
<1>2. RequestOK(requests[r])
  BY <1>1, NotIdle DEF IInv
<1>3. requests[r].kind \in {"query", "change", "ssh"}
  BY <1>1, <1>2 DEF RequestOK, Shape, Req
<1>4. RequestOK([requests[r] EXCEPT !.at = "refused"])
  BY <1>2, <1>3, MovesOn
<1>5. ASSUME NEW b \in BOOLEAN, Resolve(r, b)
      PROVE  Answer(r) \/ \E at : Goes(r, at) /\ RequestOK([requests[r] EXCEPT !.at = at])
  <2>1. CASE requests[r].kind = "query"
    BY <1>5, <2>1 DEF Resolve
  <2>2. CASE requests[r].kind = "change"
    <3>1. IF requests[r].given = None THEN Goes(r, "updateUser")
          ELSE IF b THEN Goes(r, "checkPassword") ELSE Answer(r)
      BY <1>5, <2>2 DEF Resolve
    <3>2. RequestOK([requests[r] EXCEPT !.at = "checkPassword"])
      BY <1>2, <2>2, MovesOn
    <3>3. requests[r].given = None => RequestOK([requests[r] EXCEPT !.at = "updateUser"])
      BY <1>2, <2>2, MovesOn
    <3> QED BY <3>1, <3>2, <3>3
  <2>3. CASE requests[r].kind = "ssh"
    <3>1. IF b THEN Goes(r, "isSSHEnabled") ELSE Answer(r)
      BY <1>5, <2>3 DEF Resolve
    <3>2. RequestOK([requests[r] EXCEPT !.at = "isSSHEnabled"])
      BY <1>2, <2>3, MovesOn
    <3> QED BY <3>1, <3>2
  <2> QED BY <1>3, <2>1, <2>2, <2>3
<1> QED BY <1>1, <1>4, <1>5, StepKeeps

LEMMA RefusedKeeps == ASSUME IInv, NEW r \in Request, Refused(r) PROVE IInv'
<1>1. /\ requests[r].at = "refused" /\ Goes(r, "retry") /\ forbidden' = TRUE
      /\ UNCHANGED <<database, os, up, auth, token>>
  BY DEF Refused, At
<1>2. RequestOK(requests[r])
  BY <1>1, NotIdle DEF IInv
<1>3. requests[r].kind # "login"
  BY <1>1, <1>2 DEF RequestOK, Shape
<1>4. RequestOK([requests[r] EXCEPT !.at = "retry"])
  BY <1>2, <1>3, MovesOn
<1>5. RequestsInv' /\ AloneInv' /\ SSHInv'
  BY <1>1, <1>4, GoesKeeps DEF database, os, auth
<1>6. ServerOK' /\ TokensVerify' /\ SecretInv'
  BY <1>1 DEF IInv, ServerOK, TokensVerify, SecretInv, database, os, auth
<1> QED BY <1>5, <1>6 DEF IInv

LEMMA RetryKeeps == ASSUME IInv, NEW r \in Request, Retry(r) PROVE IInv'
<1> DEFINE next == [requests[r] EXCEPT !.at = "authenticate", !.token = token]
<1>1. /\ requests[r].at = "retry" /\ requests' = [requests EXCEPT ![r] = next]
      /\ UNCHANGED <<database, os, up, auth, browser>>
  BY DEF Retry
<1>2. RequestOK(requests[r]) /\ requests[r] \in Req
  BY <1>1, NotIdle DEF IInv
<1>3. token \in DOMAIN tokens \cup {None} /\ token \in Nat \cup {None}
  BY DEF IInv, ServerOK, SecretInv
<1>4. /\ next \in Req /\ next.at = "authenticate" /\ next.token = token
      /\ next.kind = requests[r].kind /\ next.alone = requests[r].alone
      /\ next.given = requests[r].given /\ next.new = requests[r].new
      /\ next.since = requests[r].since
  BY <1>2, <1>3 DEF Req
<1>5. PICK n \in Req : n = next
  BY <1>4
<1>6. RequestOK(n)'
  <2>1. Shape(n)
    BY <1>1, <1>2, <1>4, <1>5 DEF RequestOK, Shape
  <2> QED BY <1>1, <1>2, <1>3, <1>4, <1>5, <2>1 DEF RequestOK, Shape, database, auth
<1>7. ServerOK' /\ TokensVerify' /\ SecretInv'
  BY <1>1, ServerStays
<1>8. DOMAIN tokens \subseteq DOMAIN tokens' /\ UNCHANGED <<password, sshEnabled, sshRunning, rough>>
  BY <1>1 DEF database, os, auth
<1> QED BY <1>1, <1>4, <1>5, <1>6, <1>7, <1>8, RequestGoesOn DEF IInv

LEMMA CheckPasswordKeeps == ASSUME IInv, NEW r \in Request, CheckPassword(r) PROVE IInv'
<1>1. /\ requests[r].at = "checkPassword" /\ UNCHANGED <<database, os, up, auth, browser>>
      /\ IF requests[r].given = password THEN Goes(r, "updateUser") ELSE Answer(r)
  BY DEF CheckPassword, At, Matches
<1>2. RequestOK(requests[r])
  BY <1>1, NotIdle DEF IInv
<1>3. requests[r].kind = "change" /\ password \in requests[r].since
  BY <1>1, <1>2 DEF RequestOK, Shape, Req
<1>4. requests[r].given = password => RequestOK([requests[r] EXCEPT !.at = "updateUser"])
  BY <1>2, <1>3, MovesOn
<1> QED BY <1>1, <1>4, StepKeeps

LEMMA IsSSHEnabledKeeps == ASSUME IInv, NEW r \in Request, IsSSHEnabled(r) PROVE IInv'
<1>1. /\ requests[r].at = "isSSHEnabled" /\ UNCHANGED <<database, os, up, auth, browser>>
      /\ Answer(r) \/ Goes(r, "enable")
  BY DEF IsSSHEnabled, At
<1>2. RequestOK(requests[r])
  BY <1>1, NotIdle DEF IInv
<1>3. requests[r].kind = "ssh"
  BY <1>1, <1>2 DEF RequestOK, Shape, Req
<1>4. RequestOK([requests[r] EXCEPT !.at = "enable"])
  BY <1>2, <1>3, MovesOn
<1> QED BY <1>1, <1>4, StepKeeps

\* A request is answered, wherever it was; nothing else that requests depend
\* on changes.
LEMMA AnswerFromAnywhere ==
    ASSUME IInv, NEW r \in Request, Answer(r), UNCHANGED <<password, tokens, sshEnabled>>
    PROVE  /\ RequestsInv' /\ AloneInv'
           /\ \A q \in Request : q # r => requests'[q] = requests[q]
<1>1. \A q \in Request : requests'[q] = IF q = r THEN Idle ELSE requests[q]
  BY DEF Answer, IInv, RequestsInv
<1>2. requests' \in [Request -> Req \cup {Idle}]
  BY DEF Answer, IInv, RequestsInv
<1>3. ASSUME NEW q \in Request, requests'[q] # Idle PROVE RequestOK(requests[q])'
  <2>1. RequestOK(requests[q]) /\ requests'[q] = requests[q]
    BY <1>1, <1>3 DEF IInv, RequestsInv
  <2> QED BY <2>1 DEF RequestOK, Shape
<1>4. AloneInv'
  BY <1>1 DEF IInv, AloneInv
<1> QED BY <1>1, <1>2, <1>3, <1>4 DEF RequestsInv

\* What the other requests learn when the password changes.
LEMMA SeenFields ==
    ASSUME NEW req \in Req, password' \in Password
    PROVE  /\ Seen(req) \in Req /\ Seen(req).since = req.since \cup {password'}
           /\ Seen(req).at = req.at /\ Seen(req).kind = req.kind /\ Seen(req).given = req.given
           /\ Seen(req).new = req.new /\ Seen(req).token = req.token
           /\ Seen(req).alone = req.alone
<1>1. req # Idle
  BY DEF Req, Idle
<1> QED BY <1>1 DEF Seen, Req

LEMMA UpdateUserKeeps == ASSUME IInv, NEW r \in Request, UpdateUser(r) PROVE IInv'
<1> DEFINE own == [Seen(requests[r]) EXCEPT !.at = "setSystemPassword"]
<1>1. /\ requests[r].at = "updateUser" /\ password' = requests[r].new
      /\ requests' = [q \in Request |-> IF q # r THEN Seen(requests[q]) ELSE own]
      /\ UNCHANGED <<secret, os, up, auth, browser>>
  BY DEF UpdateUser, At
<1>2. requests[r] # Idle /\ RequestOK(requests[r]) /\ requests[r] \in Req
  BY <1>1, NotIdle DEF IInv
<1>3. requests[r].kind = "change" /\ password' \in Password
  BY <1>1, <1>2 DEF RequestOK, Shape, Req
<1>4. /\ own \in Req /\ own.at = "setSystemPassword" /\ own.kind = "change"
      /\ own.given = requests[r].given /\ own.new = requests[r].new
      /\ own.token = requests[r].token /\ own.alone = requests[r].alone
      /\ own.since = requests[r].since \cup {password'}
  BY <1>2, <1>3, SeenFields DEF Req
<1> HIDE DEF own
<1>5. ASSUME NEW q \in Request, q # r, requests[q] # Idle
      PROVE  /\ requests[q] \in Req /\ RequestOK(requests[q])
             /\ requests'[q] = Seen(requests[q])
  BY <1>1, <1>5 DEF IInv, RequestsInv, RequestOK
<1>6. \A q \in Request : q # r /\ requests[q] = Idle => requests'[q] = Idle
  BY <1>1 DEF Seen
<1>7. requests'[r] = own
  BY <1>1
<1>8. UNCHANGED <<tokens, sshEnabled, sshRunning, rough>>
  BY <1>1 DEF os, auth
<1>9. RequestsInv'
  <2>1. \A q \in Request : requests'[q] \in Req \cup {Idle}
    BY <1>3, <1>4, <1>5, <1>6, <1>7, SeenFields
  <2>2. requests' \in [Request -> Req \cup {Idle}]
    BY <1>1, <2>1
  <2>3. RequestOK(requests[r])'
    <3>1. PICK o \in Req : o = own
      BY <1>4
    <3>2. Shape(o) /\ o.token \in DOMAIN tokens' \cup {None} /\ password' \in o.since
      BY <1>2, <1>3, <1>4, <1>8, <3>1 DEF RequestOK, Shape
    <3>3. o.given # None => o.given \in o.since
      BY <1>1, <1>2, <1>4, <3>1 DEF RequestOK
    <3>4. o.at = "setSystemPassword" /\ password' = o.new
      BY <1>1, <1>4, <3>1
    <3>5. RequestOK(o)'
      BY <3>2, <3>3, <3>4 DEF RequestOK, Shape
    <3>6. requests'[r] = o
      BY <1>7, <3>1
    <3> QED BY <3>5, <3>6
  <2>4. ASSUME NEW q \in Request, q # r, requests[q] # Idle PROVE RequestOK(requests[q])'
    <3>1. PICK s \in Req : s = Seen(requests[q])
      BY <1>3, <1>5, <2>4, SeenFields
    <3>2. /\ s.since = requests[q].since \cup {password'}
          /\ s.at = requests[q].at /\ s.kind = requests[q].kind /\ s.given = requests[q].given
          /\ s.new = requests[q].new /\ s.token = requests[q].token
          /\ s.alone = requests[q].alone
      BY <1>3, <1>5, <2>4, <3>1, SeenFields
    <3>3. RequestOK(requests[q])
      BY <1>5, <2>4
    <3>4. Shape(s) /\ s.token \in DOMAIN tokens' \cup {None} /\ password' \in s.since
      BY <1>8, <3>2, <3>3 DEF RequestOK, Shape
    <3>5. ~ (s.at = "setSystemPassword" /\ s.alone)
      <4>1. requests[q].at = "setSystemPassword" => requests[q].kind = "change"
        BY <3>3 DEF RequestOK, Shape, Req
      <4>2. requests[q].kind = "change" => ~ requests[q].alone
        BY <1>2, <1>3, <2>4 DEF IInv, AloneInv
      <4> QED BY <3>2, <4>1, <4>2
    <3>6. s.at = "start" /\ s.alone => sshEnabled' = s.new
      BY <1>8, <3>2, <3>3 DEF RequestOK
    <3>7. s.at \in {"createToken", "respond", "updateUser", "setSystemPassword"} /\ s.given # None
            => s.given \in s.since
      BY <3>2, <3>3 DEF RequestOK
    <3>8. RequestOK(s)'
      BY <3>4, <3>5, <3>6, <3>7 DEF RequestOK, Shape
    <3>9. requests'[q] = s
      BY <1>5, <2>4, <3>1
    <3> QED BY <3>8, <3>9
  <2> QED BY <1>6, <1>7, <2>2, <2>3, <2>4 DEF RequestsInv
<1>10. \A q \in Request : requests[q] # Idle =>
          /\ requests'[q].kind = requests[q].kind /\ requests'[q].alone = requests[q].alone
          /\ requests[q].at = "start" => requests'[q].at = "start"
  BY <1>1, <1>3, <1>4, <1>5, <1>7, SeenFields
<1>11. AloneInv'
  BY <1>2, <1>6, <1>10 DEF IInv, AloneInv
<1>12. SSHInv'
  BY <1>8, <1>10 DEF IInv, SSHInv, Idle
<1>13. ServerOK' /\ TokensVerify' /\ SecretInv'
  <2>1. {up, forbidden, sshEnabled, sshRunning, rough}' \subseteq BOOLEAN
    BY <1>1, Zenon DEF IInv, ServerOK, os, browser
  <2>2. TokensVerify' /\ SecretInv'
    BY <1>1 DEF IInv, TokensVerify, SecretInv, auth
  <2> QED BY <1>1, <1>3, <2>1, <2>2 DEF IInv, ServerOK, os, auth, browser
<1> QED BY <1>9, <1>11, <1>12, <1>13 DEF IInv

LEMMA SetSystemPasswordKeeps ==
    ASSUME IInv, NEW r \in Request, SetSystemPassword(r)
    PROVE  IInv'
<1>1. /\ requests[r].at = "setSystemPassword" /\ Answer(r) /\ osPassword' = requests[r].new
      /\ UNCHANGED <<database, sshEnabled, sshRunning, rough, up, auth, browser>>
  BY DEF SetSystemPassword, At
<1>2. osPassword' \in Password
  BY <1>1, NotIdle DEF IInv, RequestOK, Shape, Req
<1>3. RequestsInv' /\ AloneInv' /\ SSHInv'
  BY <1>1, AnswerKeeps DEF database, auth
<1>4. ServerOK' /\ TokensVerify' /\ SecretInv'
  BY <1>1, <1>2 DEF IInv, ServerOK, TokensVerify, SecretInv, database, auth, browser
<1> QED BY <1>3, <1>4 DEF IInv

LEMMA EnableSSHKeeps == ASSUME IInv, NEW r \in Request, EnableSSH(r) PROVE IInv'
<1> DEFINE next == [requests[r] EXCEPT !.at = "start"]
<1>1. /\ requests[r].at = "enable" /\ sshEnabled' = requests[r].new
      /\ requests' = [requests EXCEPT ![r] = next]
      /\ rough' = (rough \/ ~ requests[r].alone)
      /\ UNCHANGED <<database, osPassword, sshRunning, up, auth, browser>>
  BY DEF EnableSSH, At, Goes
<1>2. requests[r] # Idle /\ RequestOK(requests[r]) /\ requests[r] \in Req
  BY <1>1, NotIdle DEF IInv
<1>3. requests[r].kind = "ssh" /\ requests[r].new \in BOOLEAN
  BY <1>1, <1>2 DEF RequestOK, Shape, Req
<1>4. /\ next \in Req /\ next.at = "start" /\ next.kind = "ssh"
      /\ next.given = requests[r].given /\ next.new = requests[r].new
      /\ next.token = requests[r].token /\ next.alone = requests[r].alone
      /\ next.since = requests[r].since
  BY <1>2, <1>3, MovedFields
<1> HIDE DEF next
<1>5. \A q \in Request : requests'[q] = IF q = r THEN next ELSE requests[q]
  BY <1>1 DEF IInv, RequestsInv
<1>6. UNCHANGED <<password, tokens>>
  BY <1>1 DEF database, auth
<1>7. RequestsInv'
  <2>1. requests' \in [Request -> Req \cup {Idle}]
    BY <1>1, <1>4 DEF IInv, RequestsInv
  <2>2. PICK n \in Req : n = next
    BY <1>4
  <2>3. RequestOK(n)'
    <3>1. Shape(n)
      BY <1>3, <1>4, <2>2 DEF Shape
    <3>2. n.new = sshEnabled'
      BY <1>1, <1>4, <2>2
    <3> QED BY <1>2, <1>4, <1>6, <2>2, <3>1, <3>2 DEF RequestOK, Shape
  <2>4. ASSUME NEW q \in Request, q # r, requests[q] # Idle PROVE RequestOK(requests[q])'
    <3>1. RequestOK(requests[q]) /\ requests'[q] = requests[q]
      BY <1>5, <2>4 DEF IInv, RequestsInv
    <3>2. ~ (requests[q].at = "start" /\ requests[q].alone)
      <4>1. requests[q].at = "start" => requests[q].kind = "ssh"
        BY <3>1 DEF RequestOK, Shape, Req
      <4> QED BY <1>2, <1>3, <2>4, <4>1 DEF IInv, AloneInv
    <3>3. PICK o \in Req : o = requests[q]
      BY <3>1 DEF RequestOK
    <3>4. RequestOK(o)'
      BY <1>6, <3>1, <3>2, <3>3 DEF RequestOK, Shape
    <3> QED BY <3>1, <3>3, <3>4
  <2>5. requests'[r] = n
    BY <1>5, <2>2
  <2> QED BY <1>5, <2>1, <2>3, <2>4, <2>5 DEF RequestsInv
<1>8. AloneInv'
  BY <1>2, <1>3, <1>4, <1>5 DEF IInv, AloneInv
<1>9. SSHInv'
  BY <1>4, <1>5 DEF SSHInv
<1>10. ServerOK' /\ TokensVerify' /\ SecretInv'
  <2>1. sshEnabled' \in BOOLEAN /\ rough' \in BOOLEAN
    BY <1>1, <1>3, Zenon
  <2>2. {up, forbidden, sshEnabled, sshRunning, rough}' \subseteq BOOLEAN
    BY <1>1, <2>1, Zenon DEF IInv, ServerOK, browser
  <2>3. TokensVerify' /\ SecretInv'
    BY <1>1 DEF IInv, TokensVerify, SecretInv, database, auth
  <2> QED BY <1>1, <2>2, <2>3 DEF IInv, ServerOK, database, auth, browser
<1> QED BY <1>7, <1>8, <1>9, <1>10 DEF IInv

LEMMA StartSSHKeeps == ASSUME IInv, NEW r \in Request, StartSSH(r) PROVE IInv'
<1>1. /\ requests[r].at = "start" /\ Answer(r) /\ sshRunning' = requests[r].new
      /\ rough' = (rough \/ ~ requests[r].alone)
      /\ UNCHANGED <<database, osPassword, sshEnabled, up, auth, browser>>
  BY DEF StartSSH, At
<1>2. RequestOK(requests[r]) /\ requests[r].new \in BOOLEAN
  BY <1>1, NotIdle DEF IInv, RequestOK, Shape, Req
<1>3. RequestsInv' /\ AloneInv'
  BY <1>1, AnswerFromAnywhere DEF database, auth
<1>4. SSHInv'
  <2>1. requests[r].alone => sshEnabled' = sshRunning'
    BY <1>1, <1>2 DEF RequestOK
  <2> QED BY <1>1, <2>1, Zenon DEF SSHInv
<1>5. ServerOK' /\ TokensVerify' /\ SecretInv'
  <2>1. {up, forbidden, sshEnabled, sshRunning, rough}' \subseteq BOOLEAN
    BY <1>1, <1>2, Zenon DEF IInv, ServerOK, browser
  <2>2. TokensVerify' /\ SecretInv'
    BY <1>1 DEF IInv, TokensVerify, SecretInv, database, auth
  <2> QED BY <1>1, <2>1, <2>2 DEF IInv, ServerOK, database, auth, browser
<1> QED BY <1>3, <1>4, <1>5 DEF IInv

LEMMA RequestFailsKeeps == ASSUME IInv, NEW r \in Request, RequestFails(r) PROVE IInv'
<1>1. /\ Answer(r) /\ rough' = (rough \/ requests[r].at = "start")
      /\ UNCHANGED <<database, osPassword, sshEnabled, sshRunning, up, auth, browser>>
  BY DEF RequestFails
<1>2. RequestsInv' /\ AloneInv' /\ \A q \in Request : q # r => requests'[q] = requests[q]
  BY <1>1, AnswerFromAnywhere DEF database, auth
<1>3. SSHInv'
  BY <1>1, <1>2, Zenon DEF IInv, SSHInv
<1>4. ServerOK' /\ TokensVerify' /\ SecretInv'
  <2>1. {up, forbidden, sshEnabled, sshRunning, rough}' \subseteq BOOLEAN
    BY <1>1, Zenon DEF IInv, ServerOK, browser
  <2>2. TokensVerify' /\ SecretInv'
    BY <1>1 DEF IInv, TokensVerify, SecretInv, database, auth
  <2> QED BY <1>1, <2>1, <2>2 DEF IInv, ServerOK, database, auth, browser
<1> QED BY <1>2, <1>3, <1>4 DEF IInv

LEMMA StopKeeps == ASSUME IInv, Stop PROVE IInv'
<1> DEFINE retried(q) == [requests[q] EXCEPT !.at = "retry"]
<1>1. /\ up' = FALSE /\ promise' = "unused" /\ jwtSecret' = None
      /\ requests' = [q \in Request |->
            IF ~ AtServer(q) THEN requests[q]
            ELSE IF requests[q].kind = "login" THEN Idle
            ELSE retried(q)]
      /\ UNCHANGED <<database, osPassword, sshEnabled, secrets, tokens, expired, browser>>
  BY DEF Stop
<1>2. PICK reboot \in BOOLEAN :
          /\ sshRunning' = IF reboot THEN sshEnabled ELSE sshRunning
          /\ rough' = (~ reboot /\ (rough \/ \E q \in Request : requests[q].at = "start"))
  BY DEF Stop
<1>3. ASSUME NEW q \in Request, requests[q] # Idle
      PROVE  /\ requests[q] \in Req /\ RequestOK(requests[q])
             /\ retried(q) \in Req /\ retried(q).at = "retry"
             /\ retried(q).kind = requests[q].kind /\ retried(q).given = requests[q].given
             /\ retried(q).new = requests[q].new /\ retried(q).token = requests[q].token
             /\ retried(q).since = requests[q].since /\ retried(q).alone = requests[q].alone
  BY <1>3 DEF IInv, RequestsInv, RequestOK, Req
<1>4. \A q \in Request : requests[q] = Idle => requests'[q] = Idle
  BY <1>1 DEF AtServer, Idle
<1>5. ASSUME NEW q \in Request, requests[q] # Idle, requests'[q] # Idle
      PROVE  /\ requests'[q].kind = requests[q].kind /\ requests'[q].alone = requests[q].alone
             /\ \/ requests'[q] = requests[q] /\ requests[q].at = "retry"
                \/ requests'[q] = retried(q) /\ requests[q].kind # "login"
  <2>1. CASE ~ AtServer(q)
    <3>1. requests'[q] = requests[q]
      BY <1>1, <2>1
    <3>2. requests[q].at = "retry"
      BY <1>3, <1>5, <2>1 DEF AtServer, Req
    <3> QED BY <3>1, <3>2
  <2>2. CASE AtServer(q)
    <3>1. requests'[q] = retried(q) /\ requests[q].kind # "login"
      BY <1>1, <1>5, <2>2
    <3> QED BY <1>3, <1>5, <3>1
  <2> QED BY <2>1, <2>2
<1> HIDE DEF retried
<1>6. UNCHANGED <<password, tokens>>
  BY <1>1 DEF database
<1>7. RequestsInv'
  <2>1. \A q \in Request : requests'[q] \in Req \cup {Idle}
    BY <1>3, <1>4, <1>5
  <2>2. requests' \in [Request -> Req \cup {Idle}]
    BY <1>1, <2>1
  <2>3. ASSUME NEW q \in Request, requests'[q] # Idle PROVE RequestOK(requests[q])'
    <3>1. requests[q] # Idle
      BY <1>4, <2>3
    <3>2. RequestOK(requests[q]) /\ requests[q] \in Req
      BY <1>3, <3>1
    <3>3. PICK n \in Req : n = requests'[q]
      BY <2>1, <2>3
    <3>4. /\ n.at = "retry" /\ n.token = requests[q].token /\ n.since = requests[q].since
          /\ n.kind = requests[q].kind /\ n.new = requests[q].new /\ n.given = requests[q].given
      BY <1>3, <1>5, <2>3, <3>1, <3>3
    <3>5. requests[q].kind # "login"
      <4>1. requests[q].at = "retry" => requests[q].kind # "login"
        BY <3>2 DEF RequestOK, Shape
      <4> QED BY <1>5, <2>3, <3>1, <4>1
    <3>6. Shape(n)
      BY <3>2, <3>4, <3>5 DEF RequestOK, Shape
    <3>7. RequestOK(n)'
      BY <1>6, <3>2, <3>4, <3>6 DEF RequestOK, Shape
    <3> QED BY <3>3, <3>7
  <2> QED BY <2>2, <2>3 DEF RequestsInv
<1>8. AloneInv'
  BY <1>4, <1>5 DEF IInv, AloneInv
<1>9. SSHInv'
  <2>1. CASE reboot
    BY <1>1, <1>2, <2>1 DEF SSHInv
  <2>2. CASE ~ reboot
    <3>1. sshRunning' = sshRunning /\ sshEnabled' = sshEnabled
      BY <1>1, <1>2, <2>2
    <3>2. rough \/ (\E q \in Request : requests[q].at = "start") => rough'
      BY <1>2, <2>2, Zenon
    <3> QED BY <3>1, <3>2, Zenon DEF IInv, SSHInv
  <2> QED BY <2>1, <2>2
<1>10. ServerOK' /\ TokensVerify' /\ SecretInv'
  <2>1. {up, sshEnabled, sshRunning, rough} \subseteq BOOLEAN
    BY Zenon DEF IInv, ServerOK
  <2>2. sshRunning' \in BOOLEAN
    BY <1>2, <2>1
  <2>3. rough' \in BOOLEAN
    BY <1>2, Zenon
  <2>4. {up, forbidden, sshEnabled, sshRunning, rough}' \subseteq BOOLEAN
    BY <1>1, <2>2, <2>3, Zenon DEF IInv, ServerOK, browser
  <2>5. TokensVerify' /\ SecretInv'
    BY <1>1 DEF IInv, TokensVerify, SecretInv, database
  <2> QED BY <1>1, <2>4, <2>5 DEF IInv, ServerOK, database, browser
<1> QED BY <1>7, <1>8, <1>9, <1>10 DEF IInv

-----------------------------------------------------------------------------
(* The specification                                                       *)

LEMMA BeginRequestKeeps == ASSUME IInv, NEW r \in Request, BeginRequest(r) PROVE IInv'
<1>1. ASSUME NEW p \in Password, Login(r, p) PROVE IInv'
  BY <1>1, BeginKeeps DEF Login
<1>2. CASE Ask(r)
  BY <1>2, BeginKeeps DEF Ask
<1>3. ASSUME NEW old \in Password \cup {None}, NEW new \in Password, ChangePassword(r, old, new)
      PROVE  IInv'
  BY <1>3, BeginKeeps DEF ChangePassword
<1>4. ASSUME NEW enabled \in BOOLEAN, SetSSHEnabled(r, enabled) PROVE IInv'
  BY <1>4, BeginKeeps DEF SetSSHEnabled
<1> QED BY <1>1, <1>2, <1>3, <1>4 DEF BeginRequest

LEMMA NextAccounts == IInv /\ [Next]_vars => IInv'
<1> SUFFICES ASSUME IInv, [Next]_vars PROVE IInv'
  OBVIOUS
<1>1. ASSUME NEW r \in Request, ContinueRequest(r) PROVE IInv'
  BY <1>1, LoginKeeps, CreateTokenKeeps, TokenStepsKeep, AuthenticateKeeps, RefusedKeeps,
     RetryKeeps, CheckPasswordKeeps, UpdateUserKeeps, SetSystemPasswordKeeps,
     IsSSHEnabledKeeps, EnableSSHKeeps, StartSSHKeeps DEF ContinueRequest
<1>2. CASE UNCHANGED vars
  <2>1. UNCHANGED <<database, os, up, auth, browser, requests>>
    BY <1>2 DEF vars
  <2>2. ServerOK' /\ TokensVerify' /\ SecretInv'
    BY <2>1, ServerStays
  <2>3. RequestsInv' /\ AloneInv' /\ SSHInv'
    BY <2>1, RequestsStay DEF database, os, auth
  <2> QED BY <2>2, <2>3 DEF IInv
<1> QED BY <1>1, <1>2, BeginRequestKeeps, RequestFailsKeeps, SecretKeeps, TokenStepsKeep,
           StopKeeps DEF Next

LEMMA AccountsInvariance == Spec => []IInv
BY InitAccounts, NextAccounts, PTL DEF Spec

\* The types, and TokensVerify: every token that was issued is signed with the
\* secret that is stored, wherever getJWTSecret was cut off or failed.
THEOREM AccountsAreSafe == Spec => []Inv
<1>1. IInv => Inv
  BY TypeFromParts DEF IInv, Inv
<1> QED BY <1>1, AccountsInvariance, PTL

-----------------------------------------------------------------------------
(* What requests are answered with                                         *)

\* Nobody else answers a request.
LEMMA OthersWait ==
    ASSUME IInv, NEW r \in Request, NEW q \in Request, q # r, requests[r] # Idle,
           BeginRequest(q) \/ ContinueRequest(q) \/ RequestFails(q)
    PROVE  requests'[r] # Idle
<1>1. requests[r] \in Req /\ [requests[r] EXCEPT !.alone = FALSE] \in Req
  BY DEF IInv, RequestsInv, Req
<1>2. \A req \in Req : req # Idle
  BY DEF Req, Idle
<1>3. CASE \E n : requests' = [requests EXCEPT ![q] = n]
  BY <1>3 DEF IInv, RequestsInv
<1>4. CASE \E kind, at, given, new : Begin(q, kind, at, given, new)
  <2>1. requests'[r] \in {requests[r], [requests[r] EXCEPT !.alone = FALSE]}
    BY <1>4 DEF Begin
  <2> QED BY <1>1, <1>2, <2>1
<1>5. CASE UpdateUser(q)
  <2>1. requests'[r] = [requests[r] EXCEPT !.since = @ \cup {password'}]
    BY <1>5 DEF UpdateUser, Seen
  <2>2. requests'[r].at = requests[r].at /\ requests[r].at # "idle"
    BY <1>1, <2>1 DEF Req
  <2> QED BY <2>2 DEF Idle
<1>6. CASE BeginRequest(q)
  BY <1>4, <1>6 DEF BeginRequest, Login, Ask, ChangePassword, SetSSHEnabled
<1>7. CASE ContinueRequest(q) /\ ~ UpdateUser(q)
  <2>1. ASSUME (\E at : Goes(q, at)) \/ Answer(q) PROVE \E n : requests' = [requests EXCEPT ![q] = n]
    BY <2>1 DEF Goes, Answer
  <2>2. CASE Authenticate(q)
    <3>1. requests[q].kind \in {"query", "change", "ssh"}
      BY <2>2, NotIdle DEF IInv, Authenticate, At, RequestOK, Shape, Req
    <3>2. \A b \in BOOLEAN : Resolve(q, b) => (\E at : Goes(q, at)) \/ Answer(q)
      BY <3>1 DEF Resolve
    <3>3. Resolve(q, TRUE) \/ Resolve(q, FALSE) \/ Goes(q, "refused")
      BY <2>2 DEF Authenticate
    <3> QED BY <1>3, <2>1, <3>2, <3>3
  <2>3. CASE CreateToken(q) \/ Retry(q)
    <3>1. \E n : requests' = [requests EXCEPT ![q] = n]
      BY <2>3 DEF CreateToken, Retry, Answer
    <3> QED BY <1>3, <3>1
  <2>4. CASE ~ Authenticate(q) /\ ~ CreateToken(q) /\ ~ Retry(q)
    <3>1. (\E at : Goes(q, at)) \/ Answer(q)
      BY <1>7, <2>4 DEF ContinueRequest, FindUser, StoreToken, Refused, CheckPassword,
                        SetSystemPassword, IsSSHEnabled, EnableSSH, StartSSH
    <3> QED BY <1>3, <2>1, <3>1
  <2> QED BY <2>2, <2>3, <2>4
<1>8. CASE RequestFails(q)
  BY <1>3, <1>8 DEF RequestFails, Answer
<1> QED BY <1>5, <1>6, <1>7, <1>8

\* While the server is up, a request ends with a step of its own.
LEMMA EndsByItself ==
    ASSUME IInv, [Next]_vars, NEW r \in Request, requests[r] # Idle, requests'[r] = Idle, up'
    PROVE  ContinueRequest(r) \/ RequestFails(r)
<1>1. ~ UNCHANGED requests
  OBVIOUS
<1>2. ~ Stop
  BY DEF Stop
<1>3. PICK q \in Request : BeginRequest(q) \/ ContinueRequest(q) \/ RequestFails(q)
  BY <1>1, <1>2 DEF Next, vars, Secret, GetJWTSecret, ReadSecret, WriteSecret, SecretFails,
                    Logout, Expire, Start
<1>4. q = r
  BY <1>3, OthersWait
<1>5. ~ BeginRequest(r)
  BY DEF BeginRequest, Login, Ask, ChangePassword, SetSSHEnabled, Begin
<1> QED BY <1>3, <1>4, <1>5

\* The step is the one of the place where it was.
LEMMA EndsWhereItWas ==
    ASSUME IInv, [Next]_vars, NEW r \in Request, requests[r] # Idle, requests'[r] = Idle, up'
    PROVE  /\ requests[r].at = "findUser" => FindUser(r) \/ RequestFails(r)
           /\ requests[r].at = "checkPassword" => CheckPassword(r) \/ RequestFails(r)
           /\ requests[r].at = "updateUser" => UpdateUser(r) \/ RequestFails(r)
           /\ requests[r].at = "setSystemPassword" => SetSystemPassword(r) \/ RequestFails(r)
           /\ requests[r].at = "isSSHEnabled" => IsSSHEnabled(r)
           /\ requests[r].at = "enable" => EnableSSH(r) \/ RequestFails(r)
           /\ requests[r].at = "start" => StartSSH(r) \/ RequestFails(r)
<1>1. ContinueRequest(r) \/ RequestFails(r)
  BY EndsByItself
<1> QED BY <1>1 DEF ContinueRequest, FindUser, CreateToken, StoreToken, Authenticate, Refused,
                    Retry, CheckPassword, UpdateUser, SetSystemPassword, IsSSHEnabled, EnableSSH,
                    StartSSH, RequestFails, At

LEMMA FailuresAreCounted == Spec => [](failures \in Nat)
<1>1. Init => failures \in Nat
  BY DEF Init
<1>2. failures \in Nat /\ [Next]_vars => (failures \in Nat)'
  <2>1. [Next]_vars => failures' = failures \/ failures' = failures + 1
    BY DEF Next, vars, bounds, BeginRequest, Login, Ask, ChangePassword, SetSSHEnabled, Begin,
           ContinueRequest, FindUser, CreateToken, StoreToken, Authenticate, Refused, Retry,
           CheckPassword, UpdateUser, SetSystemPassword, IsSSHEnabled, EnableSSH, StartSSH,
           RequestFails, Secret, GetJWTSecret, ReadSecret, WriteSecret, SecretFails, Logout,
           Expire, Stop, Start
  <2> QED BY <2>1
<1> QED BY <1>1, <1>2, PTL DEF Spec

\* PasswordsAreChecked: a login or a change takes effect only if what was given
\* was the password at some moment since it was asked for, and is turned down
\* only if at some moment it was not, or if the database does not answer.
THEOREM ChecksAreRight == Spec => PasswordsAreChecked
<1> DEFINE Checked ==
      \A r \in Request :
          LET req == requests[r]
          IN  /\ req.at \in {"findUser", "checkPassword"} /\ requests'[r] = Idle /\ up'
                   /\ failures' = failures
                   => req.since # {req.given}
              /\ requests'[r] # Idle /\ requests'[r].at \in {"respond", "setSystemPassword"}
                   /\ requests'[r].given # None
                   => requests'[r].given \in requests'[r].since
<1>1. IInv /\ IInv' /\ failures \in Nat /\ [Next]_vars => Checked
  <2> SUFFICES ASSUME IInv, IInv', failures \in Nat, [Next]_vars, NEW r \in Request
               PROVE  /\ requests[r].at \in {"findUser", "checkPassword"} /\ requests'[r] = Idle /\ up'
                            /\ failures' = failures
                            => requests[r].since # {requests[r].given}
                      /\ requests'[r] # Idle /\ requests'[r].at \in {"respond", "setSystemPassword"}
                            /\ requests'[r].given # None
                            => requests'[r].given \in requests'[r].since
    OBVIOUS
  <2>1. ASSUME requests[r].at \in {"findUser", "checkPassword"}, requests'[r] = Idle, up',
               failures' = failures
        PROVE  requests[r].since # {requests[r].given}
    <3>1. requests[r] # Idle /\ RequestOK(requests[r])
      BY <2>1, NotIdle DEF IInv
    <3>2. FindUser(r) \/ CheckPassword(r)
      <4>1. RequestFails(r) => failures' = failures + 1
        BY DEF RequestFails
      <4> QED BY <2>1, <3>1, <4>1, EndsWhereItWas
    <3>3. Matches(requests[r].given) => \E at \in {"createToken", "updateUser"} : Goes(r, at)
      BY <3>2 DEF FindUser, CheckPassword
    <3>4. ASSUME NEW at \in {"createToken", "updateUser"}, Goes(r, at) PROVE FALSE
      <4>1. requests'[r] = [requests[r] EXCEPT !.at = at] /\ requests[r] \in Req
        BY <3>1, <3>4 DEF Goes, IInv, RequestsInv, RequestOK
      <4>2. requests'[r].at = at
        BY <4>1 DEF Req
      <4> QED BY <2>1, <4>2 DEF Idle
    <3>5. requests[r].given # password
      BY <3>3, <3>4 DEF Matches
    <3> QED BY <3>1, <3>5 DEF RequestOK
  <2>2. ASSUME requests'[r] # Idle, requests'[r].at \in {"respond", "setSystemPassword"},
               requests'[r].given # None
        PROVE  requests'[r].given \in requests'[r].since
    BY <2>2 DEF IInv, RequestsInv, RequestOK
  <2> QED BY <2>1, <2>2
<1>2. IInv /\ IInv' /\ failures \in Nat /\ [Next]_vars => [Checked]_vars
  BY <1>1
<1>3. [][Checked]_vars => PasswordsAreChecked
  BY DEF PasswordsAreChecked
<1> QED BY <1>2, <1>3, AccountsInvariance, FailuresAreCounted, PTL DEF Spec, PasswordsAreChecked

\* AcknowledgedIsComplete: an acknowledged change of the password that has met
\* no other one is in the database and in the operating system; one of SSH is
\* enabled and running, unless an earlier one was left half done.
THEOREM AcknowledgedChangesAreComplete == Spec => AcknowledgedIsComplete
<1> DEFINE Complete ==
      \A r \in Request :
          LET req == requests[r]
              acknowledged == requests'[r] = Idle /\ up' /\ failures' = failures
          IN  /\ req.at \in {"updateUser", "setSystemPassword"} /\ acknowledged /\ req.alone
                   => password' = req.new /\ osPassword' = req.new
              /\ req.at \in {"isSSHEnabled", "enable", "start"} /\ acknowledged /\ req.alone /\ ~ rough'
                   => sshEnabled' = req.new /\ sshRunning' = req.new
<1>1. IInv /\ failures \in Nat /\ [Next]_vars => Complete
  <2> SUFFICES ASSUME IInv, failures \in Nat, [Next]_vars, NEW r \in Request,
                      requests[r].at # "idle", requests'[r] = Idle, up', failures' = failures,
                      requests[r].alone
               PROVE  /\ requests[r].at \in {"updateUser", "setSystemPassword"}
                            => password' = requests[r].new /\ osPassword' = requests[r].new
                      /\ requests[r].at \in {"isSSHEnabled", "enable", "start"} /\ ~ rough'
                            => sshEnabled' = requests[r].new /\ sshRunning' = requests[r].new
    OBVIOUS
  <2>1. requests[r] # Idle /\ RequestOK(requests[r]) /\ requests[r] \in Req
    BY NotIdle DEF IInv
  <2>2. ~ RequestFails(r)
    <3>1. RequestFails(r) => failures' = failures + 1
      BY DEF RequestFails
    <3> QED BY <3>1
  <2>3. ASSUME NEW at, Goes(r, at), at # "idle" PROVE FALSE
    <3>1. requests'[r].at = at
      BY <2>1, <2>3 DEF Goes, IInv, RequestsInv, Req
    <3> QED BY <2>3, <3>1 DEF Idle
  <2>4. ~ UpdateUser(r)
    <3>1. SUFFICES ASSUME UpdateUser(r) PROVE FALSE
      OBVIOUS
    <3>2. password' \in Password
      BY <2>1, <3>1 DEF UpdateUser, At, RequestOK, Shape, Req
    <3>3. Seen(requests[r]) \in Req /\ requests'[r] = [Seen(requests[r]) EXCEPT !.at = "setSystemPassword"]
      BY <2>1, <3>1, <3>2, SeenFields DEF UpdateUser
    <3>4. requests'[r].at = "setSystemPassword"
      BY <3>3 DEF Req
    <3> QED BY <3>4 DEF Idle
  <2>5. ~ EnableSSH(r)
    BY <2>3 DEF EnableSSH
  <2>6. CASE requests[r].at \in {"updateUser", "setSystemPassword"}
    <3>1. SetSystemPassword(r) /\ requests[r].at = "setSystemPassword"
      BY <2>1, <2>2, <2>4, <2>6, EndsWhereItWas
    <3> QED BY <2>1, <3>1 DEF SetSystemPassword, database, RequestOK
  <2>7. CASE requests[r].at = "isSSHEnabled"
    <3>1. IsSSHEnabled(r)
      BY <2>1, <2>7, EndsWhereItWas
    <3>2. sshEnabled = requests[r].new /\ UNCHANGED os
      BY <2>3, <3>1 DEF IsSSHEnabled
    <3>3. requests[r].kind = "ssh"
      BY <2>1, <2>7 DEF RequestOK, Shape, Req
    <3>4. ASSUME NEW q \in Request, requests[q].at = "start" PROVE FALSE
      <4>1. requests[q] # Idle /\ requests[q].kind = "ssh" /\ q # r
        BY <2>7, <3>4, NotIdle DEF IInv, RequestOK, Shape, Req
      <4> QED BY <2>1, <3>3, <4>1 DEF IInv, AloneInv
    <3>5. ~ rough => sshRunning = sshEnabled
      BY <3>4 DEF IInv, SSHInv
    <3> QED BY <2>7, <3>2, <3>5 DEF os
  <2>8. CASE requests[r].at \in {"enable", "start"}
    <3>1. StartSSH(r) /\ requests[r].at = "start"
      BY <2>1, <2>2, <2>5, <2>8, EndsWhereItWas
    <3> QED BY <2>1, <3>1 DEF StartSSH, RequestOK
  <2> QED BY <2>6, <2>7, <2>8
<1>2. IInv /\ failures \in Nat /\ [Next]_vars => [Complete]_vars
  BY <1>1
<1> QED BY <1>2, AccountsInvariance, FailuresAreCounted, PTL DEF Spec, AcknowledgedIsComplete

=============================================================================
