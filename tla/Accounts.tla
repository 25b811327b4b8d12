------------------------------ MODULE Accounts ------------------------------
(***************************************************************************)
(* Logging in, tokens, and what the owner of a device may change about it: *)
(* the root password, which the database and the operating system both     *)
(* have, and SSH (src/server/auth, src/server/graphql/mutation,            *)
(* src/server/device/SSHHandler.js), from one browser (src/client/auth,    *)
(* src/client/apollo/client.js), as a device runs it: the JWT secret is    *)
(* generated and the security of the operating system is managed.          *)
(*                                                                         *)
(* Requests wait for the database, for hashing and for shell commands; the *)
(* process may be restarted and the device rebooted in between, and the    *)
(* browser sends again what was not answered.                              *)
(***************************************************************************)
EXTENDS Integers, Sequences, FiniteSets

CONSTANTS Password, InitialPassword,
          Request,                                \* requests in flight at a time
          MaxRequests, MaxFailures, MaxRestarts,  \* bounds on their numbers
          None

ASSUME AccountsAssumption == InitialPassword \in Password
ASSUME NoneAssumption == None \notin Password \cup Nat

VARIABLES
  (* The database *)
  password,  \* of the user root
  secret,    \* key jwtSecret
  (* The operating system *)
  osPassword, sshEnabled, sshRunning,
  (* The server process *)
  up,        \* it takes requests
  promise,   \* of getJWTSecret: where it waits, or how it ended
  jwtSecret, \* the secret that it was kept with
  secrets,   \* number of secrets generated
  tokens,    \* of each token issued, the secret that it is signed with
  expired,   \* tokens that have expired
  (* The browser *)
  token,     \* localStorage's token
  forbidden, \* onForbidden is about to run
  requests,  \* of each request in flight: where it waits, and its variables
  (* Bounds, and for the properties *)
  made, failures, restarts,
  rough      \* SSH commands have failed, overlapped or been interrupted

database == <<password, secret>>
os       == <<osPassword, sshEnabled, sshRunning, rough>>
auth     == <<promise, jwtSecret, secrets, tokens, expired>>
browser  == <<token, forbidden>>
bounds   == <<made, failures, restarts>>
vars == <<database, os, up, auth, browser, requests, bounds>>

Idle == [at |-> "idle"]
InFlight(kind) == {r \in Request : requests[r] # Idle /\ requests[r].kind = kind}

Init ==
    /\ password = InitialPassword /\ secret = None
    /\ osPassword = InitialPassword /\ sshEnabled = FALSE /\ sshRunning = FALSE /\ rough = FALSE
    /\ up = TRUE /\ promise = "unused" /\ jwtSecret = None /\ secrets = 0 /\ tokens = <<>> /\ expired = {}
    /\ token = None /\ forbidden = FALSE
    /\ requests = [r \in Request |-> Idle]
    /\ made = 0 /\ failures = 0 /\ restarts = 0

-----------------------------------------------------------------------------
(* Requests                                                                *)

\* A change is alone as long as no other request for the same is in flight;
\* since holds the passwords that root has had since the request was made.
Begin(r, kind, at, given, new) ==
    /\ requests[r] = Idle
    /\ made < MaxRequests /\ made' = made + 1
    /\ requests' = [q \in Request |->
          IF q = r
          THEN [kind |-> kind, at |-> at, given |-> given, new |-> new, token |-> token,
                since |-> {password}, alone |-> InFlight(kind) = {}]
          ELSE IF q \in InFlight(kind) THEN [requests[q] EXCEPT !.alone = FALSE]
          ELSE requests[q]]
    /\ UNCHANGED <<database, os, up, auth, browser, failures, restarts>>

Goes(r, at) == requests' = [requests EXCEPT ![r].at = at]
Answer(r)   == requests' = [requests EXCEPT ![r] = Idle]

\* What the server is doing for a request.
AtServer(r) == requests[r].at \notin {"idle", "retry"}
At(r, place) == up /\ requests[r].at = place

Login(r, given) == Begin(r, "login", "findUser", given, None)

\* A GraphQL operation of the user interface that changes nothing.
Ask(r) == Begin(r, "query", "authenticate", None, None)

\* With the old password, or (None) with the access code in connect mode.
ChangePassword(r, old, new) == Begin(r, "change", "authenticate", old, new)

SetSSHEnabled(r, enabled) == Begin(r, "ssh", "authenticate", None, enabled)

-----------------------------------------------------------------------------
(* The JWT secret                                                          *)

\* getJWTSecret runs once; everybody else gets the same promise.
GetJWTSecret ==
    /\ promise = "unused"
    /\ \E r \in Request :
          \/ At(r, "createToken")
          \/ At(r, "authenticate") /\ requests[r].token # None
    /\ promise' = "reading"
    /\ UNCHANGED <<database, os, up, jwtSecret, secrets, tokens, expired, browser, requests, bounds>>

ReadSecret ==
    /\ up /\ promise = "reading"
    /\ IF secret # None
       THEN promise' = "kept" /\ jwtSecret' = secret /\ UNCHANGED secrets
       ELSE promise' = "writing" /\ secrets' = secrets + 1 /\ UNCHANGED jwtSecret
    /\ UNCHANGED <<database, os, up, tokens, expired, browser, requests, bounds>>

\* Mutated form: the secret is used before it has been stored.
WriteSecret_NotAwaited ==
    /\ up /\ promise = "writing"
    /\ promise' = "kept" /\ jwtSecret' = secrets
    /\ secret' \in {secrets, secret}
    /\ UNCHANGED <<password, os, up, secrets, tokens, expired, browser, requests, bounds>>

WriteSecret ==
    /\ up /\ promise = "writing"
    /\ promise' = "kept" /\ jwtSecret' = secrets
    /\ secret' = secrets
    /\ UNCHANGED <<password, os, up, secrets, tokens, expired, browser, requests, bounds>>

\* The database does not answer.  The promise stays rejected.
SecretFails ==
    /\ up /\ promise \in {"reading", "writing"}
    /\ failures < MaxFailures /\ failures' = failures + 1
    /\ promise' = "rejected"
    /\ UNCHANGED <<database, os, up, jwtSecret, secrets, tokens, expired, browser, requests, made, restarts>>

-----------------------------------------------------------------------------
(* Logging in                                                              *)

\* Mutated form: passwords are compared with the one that was there first.
Matches_First(given) == given = InitialPassword

\* bcrypt.compare with the row that is read.
Matches(given) == given = password

\* authorize.
FindUser(r) ==
    /\ At(r, "findUser")
    /\ IF Matches(requests[r].given) THEN Goes(r, "createToken") ELSE Answer(r)
    /\ UNCHANGED <<database, os, up, auth, browser, bounds>>

\* createToken waits for the secret.  Any error makes the login fail.
CreateToken(r) ==
    /\ At(r, "createToken")
    /\ IF promise = "kept"
       THEN /\ tokens' = Append(tokens, jwtSecret)
            /\ requests' = [requests EXCEPT ![r].at = "respond", ![r].token = Len(tokens')]
       ELSE /\ promise = "rejected"
            /\ Answer(r) /\ UNCHANGED tokens
    /\ UNCHANGED <<database, os, up, promise, jwtSecret, secrets, expired, browser, bounds>>

\* The middleware of the browser stores the token.
StoreToken(r) ==
    /\ At(r, "respond")
    /\ token' = requests[r].token
    /\ Answer(r)
    /\ UNCHANGED <<database, os, up, auth, forbidden, bounds>>

Expire(t) ==
    /\ t \in DOMAIN tokens \ expired
    /\ expired' = expired \cup {t}
    /\ UNCHANGED <<database, os, up, promise, jwtSecret, secrets, tokens, browser, requests, bounds>>

-----------------------------------------------------------------------------
(* GraphQL operations                                                      *)

\* The first thing each operation's resolver does with the user id.
Resolve(r, loggedIn) ==
    CASE requests[r].kind = "query" -> Answer(r)
      [] requests[r].kind = "change" ->
            IF requests[r].given = None THEN Goes(r, "updateUser")
            ELSE IF loggedIn THEN Goes(r, "checkPassword") ELSE Answer(r)
      [] requests[r].kind = "ssh" -> IF loggedIn THEN Goes(r, "isSSHEnabled") ELSE Answer(r)

\* parseAuthHeader: no token is no user, a bad one is a 403.
Authenticate(r) ==
    /\ At(r, "authenticate")
    /\ LET t == requests[r].token
       IN  IF t = None THEN Resolve(r, FALSE)
           ELSE /\ promise \in {"kept", "rejected"}
                /\ IF promise = "kept" /\ t \notin expired /\ tokens[t] = jwtSecret
                   THEN Resolve(r, TRUE)
                   ELSE Goes(r, "refused")
    /\ UNCHANGED <<database, os, up, auth, browser, bounds>>

\* Mutated form: a 403 is an error like others.
Refused_NotReported(r) ==
    /\ At(r, "refused")
    /\ Goes(r, "retry")
    /\ UNCHANGED <<database, os, up, auth, browser, bounds>>

\* RetryLink in the browser: the session is going to end, and the operation
\* is going to be sent again.
Refused(r) ==
    /\ At(r, "refused")
    /\ forbidden' = TRUE
    /\ Goes(r, "retry")
    /\ UNCHANGED <<database, os, up, auth, token, bounds>>

\* authLink takes the token of the moment.
Retry(r) ==
    /\ up /\ requests[r].at = "retry"
    /\ requests' = [requests EXCEPT ![r].at = "authenticate", ![r].token = token]
    /\ UNCHANGED <<database, os, up, auth, browser, bounds>>

\* LOGOUT, on a 403 or by the user.
Logout ==
    /\ forbidden \/ token # None
    /\ forbidden' = FALSE
    /\ token' = None
    /\ UNCHANGED <<database, os, up, auth, requests, bounds>>

-----------------------------------------------------------------------------
(* The password                                                            *)

CheckPassword(r) ==
    /\ At(r, "checkPassword")
    /\ IF Matches(requests[r].given) THEN Goes(r, "updateUser") ELSE Answer(r)
    /\ UNCHANGED <<database, os, up, auth, browser, bounds>>

\* Each request in flight has seen this password.
Seen(req) == IF req = Idle THEN Idle ELSE [req EXCEPT !.since = @ \cup {password'}]

\* Mutated form: nothing is left to do if the user has that password already.
UpdateUser_IfChanged(r) ==
    /\ At(r, "updateUser")
    /\ password' = requests[r].new
    /\ requests' = [q \in Request |->
          IF q # r THEN Seen(requests[q])
          ELSE IF password = password' THEN Idle
          ELSE [Seen(requests[r]) EXCEPT !.at = "setSystemPassword"]]
    /\ UNCHANGED <<secret, os, up, auth, browser, bounds>>

\* user.update, with the hook that hashes the password.
UpdateUser(r) ==
    /\ At(r, "updateUser")
    /\ password' = requests[r].new
    /\ requests' = [q \in Request |->
          IF q # r THEN Seen(requests[q])
          ELSE [Seen(requests[r]) EXCEPT !.at = "setSystemPassword"]]
    /\ UNCHANGED <<secret, os, up, auth, browser, bounds>>

SetSystemPassword(r) ==
    /\ At(r, "setSystemPassword")
    /\ osPassword' = requests[r].new
    /\ Answer(r)
    /\ UNCHANGED <<database, sshEnabled, sshRunning, rough, up, auth, browser, bounds>>

-----------------------------------------------------------------------------
(* SSH                                                                     *)

\* systemctl is-enabled: nothing is done if it is what is wanted.
IsSSHEnabled(r) ==
    /\ At(r, "isSSHEnabled")
    /\ IF sshEnabled = requests[r].new THEN Answer(r) ELSE Goes(r, "enable")
    /\ UNCHANGED <<database, os, up, auth, browser, bounds>>

EnableSSH(r) ==
    /\ At(r, "enable")
    /\ sshEnabled' = requests[r].new
    /\ Goes(r, "start")
    /\ rough' = (rough \/ ~ requests[r].alone)
    /\ UNCHANGED <<database, osPassword, sshRunning, up, auth, browser, bounds>>

StartSSH(r) ==
    /\ At(r, "start")
    /\ sshRunning' = requests[r].new
    /\ Answer(r)
    /\ rough' = (rough \/ ~ requests[r].alone)
    /\ UNCHANGED <<database, osPassword, sshEnabled, up, auth, browser, bounds>>

\* A query of the database or a shell command fails, and the request with it.
RequestFails(r) ==
    /\ \E place \in {"findUser", "checkPassword", "updateUser",
                     "setSystemPassword", "enable", "start"} : At(r, place)
    /\ failures < MaxFailures /\ failures' = failures + 1
    /\ Answer(r)
    /\ rough' = (rough \/ requests[r].at = "start")
    /\ UNCHANGED <<database, osPassword, sshEnabled, sshRunning, up, auth, browser, made, restarts>>

-----------------------------------------------------------------------------
(* Restarts                                                                *)

\* The process ends.  What it was asked to do fails in the browser, which
\* sends GraphQL operations again.  With the device, SSH ends too.
Stop ==
    /\ up /\ restarts < MaxRestarts /\ restarts' = restarts + 1
    /\ up' = FALSE
    /\ promise' = "unused" /\ jwtSecret' = None
    /\ requests' = [r \in Request |->
          IF ~ AtServer(r) THEN requests[r]
          ELSE IF requests[r].kind = "login" THEN Idle
          ELSE [requests[r] EXCEPT !.at = "retry"]]
    /\ \E reboot \in BOOLEAN :
          /\ sshRunning' = IF reboot THEN sshEnabled ELSE sshRunning
          /\ rough' = (~ reboot /\ (rough \/ \E r \in Request : requests[r].at = "start"))
    /\ UNCHANGED <<database, osPassword, sshEnabled, secrets, tokens, expired, browser, made, failures>>

\* Server.start: the user root and its password are there (seedDatabase).
Start ==
    /\ ~ up
    /\ up' = TRUE
    /\ UNCHANGED <<database, os, auth, browser, requests, bounds>>

-----------------------------------------------------------------------------

\* What users do.
BeginRequest(r) ==
    \/ \E p \in Password : Login(r, p)
    \/ Ask(r)
    \/ \E old \in Password \cup {None}, new \in Password : ChangePassword(r, old, new)
    \/ \E enabled \in BOOLEAN : SetSSHEnabled(r, enabled)

ContinueRequest(r) ==
    \/ FindUser(r) \/ CreateToken(r) \/ StoreToken(r)
    \/ Authenticate(r) \/ Refused(r) \/ Retry(r)
    \/ CheckPassword(r) \/ UpdateUser(r) \/ SetSystemPassword(r)
    \/ IsSSHEnabled(r) \/ EnableSSH(r) \/ StartSSH(r)

Secret == GetJWTSecret \/ ReadSecret \/ WriteSecret

Next ==
    \/ \E r \in Request : BeginRequest(r) \/ ContinueRequest(r) \/ RequestFails(r)
    \/ Secret \/ SecretFails
    \/ Logout
    \/ \E t \in DOMAIN tokens : Expire(t)
    \/ Stop \/ Start

\* The database answers or fails, commands end, the browser's timers run, and
\* systemd starts the process again.
Fairness ==
    /\ \A r \in Request : WF_vars(ContinueRequest(r))
    /\ WF_vars(Secret) /\ WF_vars(forbidden /\ Logout) /\ WF_vars(Start)

Spec == Init /\ [][Next]_vars /\ Fairness

-----------------------------------------------------------------------------
(* Properties                                                              *)

TypeOK ==
    /\ {password, osPassword} \subseteq Password
    /\ secret \in 1..secrets \cup {None}
    /\ promise \in {"unused", "reading", "writing", "kept", "rejected"}
    /\ jwtSecret \in 1..secrets \cup {None} /\ (promise = "kept" <=> jwtSecret # None)
    /\ \A i \in DOMAIN tokens : tokens[i] \in 1..secrets
    /\ expired \subseteq DOMAIN tokens /\ token \in DOMAIN tokens \cup {None}
    /\ {up, forbidden, sshEnabled, sshRunning, rough} \subseteq BOOLEAN
    /\ \A r \in Request : requests[r] # Idle =>
          requests[r].token \in DOMAIN tokens \cup {None} /\ requests[r].since \subseteq Password

\* Every token that was ever issued is signed with the stored secret, so that
\* sessions outlive restarts, wherever the generation of the secret was cut.
TokensVerify ==
    /\ \A i \in DOMAIN tokens : tokens[i] = secret
    /\ jwtSecret # None => jwtSecret = secret

Inv == TypeOK /\ TokensVerify

\* A login or a change with the old password takes effect only if what was
\* given was the password at some moment since it was asked for, and is turned
\* down only if at some moment it was not, or if the database does not answer,
\* whatever changes of the password and restarts happen meanwhile.
PasswordsAreChecked ==
    [][\A r \in Request :
          LET req == requests[r]
          IN  /\ req.at \in {"findUser", "checkPassword"} /\ requests'[r] = Idle /\ up'
                   /\ failures' = failures
                   => req.since # {req.given}
              /\ requests'[r] # Idle /\ requests'[r].at \in {"respond", "setSystemPassword"}
                   /\ requests'[r].given # None
                   => requests'[r].given \in requests'[r].since]_vars

\* A change that is acknowledged and has not met another one is complete,
\* although it may have been cut off and sent again any number of times, and
\* whatever earlier ones left behind: both places have the new password, SSH
\* is enabled and running as was asked for.  For SSH, provided that no earlier
\* command was left half done.
AcknowledgedIsComplete ==
    [][\A r \in Request :
          LET req == requests[r]
              acknowledged == requests'[r] = Idle /\ up' /\ failures' = failures
          IN  /\ req.at \in {"updateUser", "setSystemPassword"} /\ acknowledged /\ req.alone
                   => password' = req.new /\ osPassword' = req.new
              /\ req.at \in {"isSSHEnabled", "enable", "start"} /\ acknowledged /\ req.alone /\ ~ rough'
                   => sshEnabled' = req.new /\ sshRunning' = req.new]_vars

\* Every request is answered in the end, and a token that the server refuses
\* does not stay in the browser.
RequestsEnd ==
    \A r \in Request : (requests[r] # Idle) ~> (requests[r] = Idle)

\* Statements that do not hold.  A session ends only if its token is bad or
\* the user ends it: a late 403 for an older token ends it too.
SessionsLast ==
    [][forbidden /\ token # None /\ token \notin expired /\ failures = 0 => token' # None]_vars

\* Whoever has the right password can log in: not after one failure of the
\* database, since the rejected promise is kept.
RightPasswordLogsIn ==
    [][\A r \in Request : requests[r].at = "createToken" /\ up' => requests'[r] # Idle]_vars

\* A change that is turned down changes nothing: it has, if the answer was
\* lost and the browser has sent it again.
RejectedChangesNothing ==
    [][\A r \in Request :
          requests[r].at = "checkPassword" /\ requests'[r] = Idle /\ up' /\ requests[r].alone
            /\ failures' = failures
            => Cardinality(requests[r].since) = 1]_vars

\* Asking for SSH makes it run: not if it was enabled but could not be started.
SSHIsRepaired ==
    [][\A r \in Request :
          requests[r].at = "isSSHEnabled" /\ requests'[r] = Idle /\ up' => sshRunning' = sshEnabled']_vars

=============================================================================
