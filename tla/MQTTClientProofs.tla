-------------------------- MODULE MQTTClientProofs ---------------------------
(***************************************************************************)
(* Proofs about the MQTT protocol handlers, for any number of client       *)
(* objects and any delay: they keep one live client, and what MQTTLink     *)
(* promises to the plugin.                                                 *)
(***************************************************************************)
EXTENDS MQTTClient, FiniteSetTheorems, TLAPS

\* The library of the SparkPlug handler lets go of a client that was ended.
SparkPlugIsFinal == "SPARKPLUG" \notin LateProtocols

-----------------------------------------------------------------------------
(* The inductive invariant                                                 *)

HandlerOK ==
    /\ protocol \in {"TEXT_JSON", "SPARKPLUG"}
    /\ endIsFinal \in BOOLEAN
    /\ ~ JSON => endIsFinal

\* The present client is the only live one; while the timer runs, and while
\* an ended client is still to close, a prompt library has none.
OneClient ==
    /\ Live \subseteq {client}
    /\ endIsFinal => /\ createTimer # NoTimer => Live = {}
                     /\ (\E c \in Client : state[c] = "ended") => Live = {}

\* What the JSON handler has told the plugin: the client that was connected
\* either is or has been ended, and its close is to come.
ToldOfAClient ==
    JSON /\ told => /\ connected
                    /\ endIsFinal => \E c \in Client : state[c] \in {"up", "ended"}

IInv == TypeOK /\ HandlerOK /\ OneClient /\ ToldOfAClient /\ DestroyedStaysDown /\ UpIsTold

LEMMA OneClientIsOne == OneClient => OneLiveClient
<1> SUFFICES ASSUME OneClient PROVE OneLiveClient
  OBVIOUS
<1>1. Live = {} \/ Live = {client}
  BY DEF OneClient
<1>2. Cardinality(Live) \in {0, 1}
  BY <1>1, FS_EmptySet, FS_Singleton
<1> QED BY <1>2 DEF OneLiveClient

LEMMA InitClient == ASSUME SparkPlugIsFinal PROVE Init => IInv
<1> SUFFICES ASSUME Init PROVE IInv
  OBVIOUS
<1>1. /\ client \in Client /\ protocol \in {"TEXT_JSON", "SPARKPLUG"}
      /\ state = [c \in Client |-> IF c = client THEN "trying" ELSE "new"]
      /\ connected = FALSE /\ destroyed = FALSE /\ createTimer = NoTimer /\ told = FALSE
  BY ClientAssumption DEF Init
<1>2. Live = {client}
  BY <1>1 DEF Live
<1>3. HandlerOK
  BY <1>1 DEF Init, HandlerOK, JSON, SparkPlugIsFinal
<1>4. TypeOK /\ OneClient /\ ToldOfAClient /\ DestroyedStaysDown /\ UpIsTold
  BY <1>1, <1>2 DEF TypeOK, OneClient, ToldOfAClient, DestroyedStaysDown, UpIsTold
<1> QED BY <1>3, <1>4 DEF IInv

LEMMA EndClientEnds ==
    ASSUME IInv
    PROVE  /\ EndClient \in [Client -> {"new", "trying", "up", "ended"}]
           /\ \A c \in Client : EndClient[c] \in {"new", "ended"}
           /\ \A c \in Client : state[c] = "new" => EndClient[c] = "new"
BY DEF IInv, TypeOK, OneClient, EndClient, Live

-----------------------------------------------------------------------------
(* Every step preserves it                                                 *)

LEMMA ConnectKeeps ==
    ASSUME IInv, NEW c \in Client, Connect(c)
    PROVE  IInv'
<1>1. /\ c \in Live /\ state' = [state EXCEPT ![c] = "up"]
      /\ connected' = TRUE /\ told' = TRUE
      /\ UNCHANGED <<protocol, endIsFinal, client, destroyed, createTimer>>
  BY DEF Connect, Live
<1>2. TypeOK'
  BY <1>1 DEF IInv, TypeOK
<1>3. HandlerOK'
  BY <1>1 DEF IInv, HandlerOK, JSON
<1>4. Live' = Live
  BY <1>1 DEF IInv, TypeOK, Live
<1>5. OneClient'
  BY <1>1, <1>4 DEF IInv, OneClient, TypeOK, Live
<1>6. ToldOfAClient'
  BY <1>1 DEF IInv, TypeOK, ToldOfAClient
<1>7. DestroyedStaysDown' /\ UpIsTold'
  BY <1>1 DEF IInv, DestroyedStaysDown, UpIsTold
<1> QED BY <1>2, <1>3, <1>5, <1>6, <1>7 DEF IInv

LEMMA CloseKeeps ==
    ASSUME IInv, NEW c \in Client, Close(c)
    PROVE  IInv'
<1>1. /\ state[c] # "new"
      /\ state' = [state EXCEPT ![c] = IF state[c] = "ended" THEN "new" ELSE "trying"]
      /\ connected' = FALSE
      /\ told' = IF JSON /\ ~ connected THEN told ELSE FALSE
      /\ UNCHANGED <<protocol, endIsFinal, client, destroyed, createTimer>>
  BY DEF Close
<1>2. TypeOK'
  BY <1>1 DEF IInv, TypeOK
<1>3. HandlerOK'
  BY <1>1 DEF IInv, HandlerOK, JSON
<1>4. Live' = Live
  BY <1>1 DEF IInv, TypeOK, Live
<1>5. OneClient'
  BY <1>1, <1>4 DEF IInv, OneClient, TypeOK, Live
<1>6. told' = FALSE
  BY <1>1 DEF IInv, ToldOfAClient, TypeOK
<1>7. ToldOfAClient' /\ DestroyedStaysDown'
  BY <1>1, <1>4, <1>6 DEF IInv, ToldOfAClient, DestroyedStaysDown
<1>8. UpIsTold'
  <2> SUFFICES ASSUME endIsFinal, NEW d \in Client, state'[d] = "up" PROVE FALSE
    BY <1>1 DEF UpIsTold
  <2>1. d # c /\ state[d] = "up"
    BY <1>1, <1>2 DEF IInv, TypeOK
  <2>2. d \in Live /\ c \in Live
    BY <1>1, <2>1 DEF IInv, OneClient, Live, TypeOK
  <2> QED BY <2>1, <2>2 DEF IInv, OneClient
<1> QED BY <1>2, <1>3, <1>5, <1>7, <1>8 DEF IInv

LEMMA ErrorKeeps ==
    ASSUME IInv, NEW c \in Client, Error(c)
    PROVE  IInv'
<1>1. /\ c \in Live \/ (state[c] = "ended" /\ ~ endIsFinal)
      /\ createTimer' = ErrorTimer
      /\ UNCHANGED <<protocol, endIsFinal, connected, destroyed>>
  BY DEF Error, Live
<1>2. HandlerOK'
  BY <1>1 DEF IInv, HandlerOK, JSON
<1>3. createTimer' \in {NoTimer} \cup 0..CreateDelay
  BY <1>1, ClientAssumption DEF IInv, TypeOK, ErrorTimer
<1>4. destroyed => createTimer' = createTimer
  <2> SUFFICES ASSUME destroyed PROVE createTimer' = createTimer
    OBVIOUS
  <2>1. c \notin Live
    BY DEF IInv, DestroyedStaysDown
  <2>2. JSON
    BY <1>1, <2>1 DEF IInv, HandlerOK
  <2> QED BY <1>1, <2>2 DEF ErrorTimer, MayRecreate
<1>5. CASE JSON
  <2>1. state' = [state EXCEPT ![c] = "ended"] /\ UNCHANGED <<client, told>>
    BY <1>5 DEF Error
  <2>2. TypeOK'
    BY <1>1, <1>3, <2>1 DEF IInv, TypeOK
  <2>3. Live' = Live \ {c}
    BY <2>1 DEF IInv, TypeOK, Live
  <2>4. endIsFinal => Live' = {}
    BY <1>1, <2>3 DEF IInv, OneClient
  <2>5. OneClient'
    BY <1>1, <2>1, <2>3, <2>4 DEF IInv, OneClient
  <2>6. ToldOfAClient'
    BY <1>1, <2>1 DEF IInv, ToldOfAClient, TypeOK, JSON
  <2>7. DestroyedStaysDown'
    BY <1>1, <1>4, <2>3 DEF IInv, DestroyedStaysDown
  <2>8. UpIsTold'
    BY <1>1, <2>1 DEF IInv, UpIsTold, TypeOK
  <2> QED BY <1>2, <2>2, <2>5, <2>6, <2>7, <2>8 DEF IInv
<1>6. CASE ~ JSON
  <2>1. state' = EndClient /\ client' = NoClient /\ told' = FALSE
    BY <1>6 DEF Error
  <2>2. TypeOK'
    BY <1>1, <1>3, <2>1, EndClientEnds DEF IInv, TypeOK
  <2>3. Live' = {}
    BY <2>1, EndClientEnds DEF Live
  <2>4. OneClient' /\ ToldOfAClient' /\ DestroyedStaysDown'
    BY <1>1, <1>4, <2>1, <2>3 DEF IInv, OneClient, ToldOfAClient, DestroyedStaysDown
  <2>5. UpIsTold'
    BY <2>1, EndClientEnds DEF UpIsTold
  <2> QED BY <1>2, <2>2, <2>4, <2>5 DEF IInv
<1> QED BY <1>5, <1>6

LEMMA CreateNewClientKeeps ==
    ASSUME IInv, CreateNewClient
    PROVE  IInv'
<1>1. /\ createTimer = 0 /\ createTimer' = NoTimer
      /\ endIsFinal => \A c \in Client : state[c] # "ended"
      /\ UNCHANGED <<protocol, endIsFinal, connected, destroyed, told>>
  BY DEF CreateNewClient
<1>2. PICK c \in Client : /\ state[c] = "new" /\ client' = c
                          /\ state' = [EndClient EXCEPT ![c] = "trying"]
  BY DEF CreateNewClient, SetupClient
<1>3. /\ EndClient \in [Client -> {"new", "trying", "up", "ended"}]
      /\ \A d \in Client : EndClient[d] \in {"new", "ended"}
  BY EndClientEnds
<1>4. TypeOK'
  BY <1>1, <1>2, <1>3 DEF IInv, TypeOK
<1>5. HandlerOK'
  BY <1>1 DEF IInv, HandlerOK, JSON
<1>6. Live' = {c}
  BY <1>2, <1>3 DEF Live
<1>7. ~ destroyed
  BY <1>1 DEF IInv, DestroyedStaysDown, NoTimer
<1>8. endIsFinal => Live = {} /\ EndClient = state
  <2> SUFFICES ASSUME endIsFinal PROVE Live = {} /\ EndClient = state
    OBVIOUS
  <2>1. Live = {}
    BY <1>1 DEF IInv, OneClient, NoTimer
  <2> QED BY <2>1 DEF EndClient, IInv, TypeOK
<1>9. OneClient'
  BY <1>1, <1>2, <1>3, <1>6, <1>8 DEF OneClient
<1>10. ToldOfAClient'
  <2>1. JSON /\ endIsFinal => ~ told
    BY <1>1, <1>8 DEF IInv, ToldOfAClient, Live
  <2> QED BY <1>1, <2>1 DEF IInv, ToldOfAClient, JSON
<1>11. DestroyedStaysDown' /\ UpIsTold'
  BY <1>1, <1>2, <1>3, <1>7 DEF DestroyedStaysDown, UpIsTold
<1> QED BY <1>4, <1>5, <1>9, <1>10, <1>11 DEF IInv

LEMMA DestroyKeeps ==
    ASSUME IInv, Destroy
    PROVE  IInv'
<1>1. /\ state' = EndClient /\ client' = NoClient /\ createTimer' = NoTimer
      /\ told' = FALSE /\ destroyed' = TRUE
      /\ UNCHANGED <<protocol, endIsFinal, connected>>
  BY DEF Destroy
<1>2. TypeOK'
  BY <1>1, EndClientEnds DEF IInv, TypeOK
<1>3. HandlerOK'
  BY <1>1 DEF IInv, HandlerOK, JSON
<1>4. Live' = {}
  BY <1>1, EndClientEnds DEF Live
<1>5. OneClient' /\ ToldOfAClient' /\ DestroyedStaysDown'
  BY <1>1, <1>4 DEF OneClient, ToldOfAClient, DestroyedStaysDown
<1>6. UpIsTold'
  BY <1>1, EndClientEnds DEF UpIsTold
<1> QED BY <1>2, <1>3, <1>5, <1>6 DEF IInv

LEMMA NextClient == IInv /\ [Next]_vars => IInv'
<1> SUFFICES ASSUME IInv, [Next]_vars PROVE IInv'
  OBVIOUS
<1>1. CASE Tick
  <2>1. /\ createTimer > 0 /\ createTimer' = createTimer - 1
        /\ UNCHANGED <<protocol, endIsFinal, state, client, connected, destroyed, told>>
    BY <1>1 DEF Tick
  <2>2. createTimer # NoTimer /\ createTimer' \in 0..CreateDelay
    BY <2>1, ClientAssumption DEF IInv, TypeOK, NoTimer
  <2> QED BY <2>1, <2>2 DEF IInv, TypeOK, HandlerOK, JSON, OneClient, Live, ToldOfAClient,
                            DestroyedStaysDown, UpIsTold
<1>2. CASE UNCHANGED vars
  BY <1>2 DEF vars, IInv, TypeOK, HandlerOK, JSON, OneClient, Live, ToldOfAClient,
              DestroyedStaysDown, UpIsTold
<1> QED BY <1>1, <1>2, ConnectKeeps, CloseKeeps, ErrorKeeps, CreateNewClientKeeps, DestroyKeeps
        DEF Next

-----------------------------------------------------------------------------
(* The theorems                                                            *)

LEMMA ClientInvariance == ASSUME SparkPlugIsFinal PROVE Spec => []IInv
<1> QED BY InitClient, NextClient, PTL DEF Spec

\* However errors, closes, timers and destroy() interleave: one live client at
\* most, none once destroyed, and the plugin knows of a connected one.
THEOREM HandlersAreSafe == ASSUME SparkPlugIsFinal PROVE Spec => []Inv
<1>1. IInv => Inv
  BY OneClientIsOne DEF IInv, Inv
<1> QED BY <1>1, ClientInvariance, PTL

\* A handler implements the link that the plugin relies on: each of its steps
\* is a connect, a disconnect or the destroy of MQTTLink, or nothing there.
THEOREM HandlersImplementLink == ASSUME SparkPlugIsFinal PROVE Spec => ImplementsLink
<1> DEFINE Step == Link!Connect \/ Link!Disconnect \/ Link!Destroy
<1>1. Init => Link!Init
  BY DEF Init, Link!Init
<1>2. IInv /\ [Next]_vars => [Step]_(Link!vars)
  <2> SUFFICES ASSUME IInv, [Next]_vars PROVE Step \/ UNCHANGED Link!vars
    OBVIOUS
  <2> USE DEF JSON
  <2>1. ASSUME NEW c \in Client, Connect(c) PROVE Step \/ UNCHANGED Link!vars
    <3>1. /\ state[c] = "trying" \/ (~ JSON /\ state[c] = "up")
          /\ told' = TRUE /\ UNCHANGED <<protocol, endIsFinal, destroyed>>
      BY <2>1 DEF Connect
    <3>2. ~ destroyed
      BY <3>1 DEF IInv, DestroyedStaysDown, Live
    <3>3. CASE endIsFinal
      <4>1. ~ told \/ ~ JSON
        BY <3>1, <3>3 DEF IInv, ToldOfAClient, OneClient, Live
      <4> QED BY <3>1, <3>2, <3>3, <4>1 DEF Link!Connect
    <3>4. CASE ~ endIsFinal
      BY <3>1, <3>4 DEF Link!vars
    <3> QED BY <3>3, <3>4
  <2>2. ASSUME NEW c \in Client, Close(c) PROVE Step \/ UNCHANGED Link!vars
    <3>1. /\ told' = told \/ told' = FALSE
          /\ UNCHANGED <<protocol, endIsFinal, destroyed>>
      BY <2>2 DEF Close
    <3> QED BY <3>1 DEF Link!Disconnect, Link!vars
  <2>3. ASSUME NEW c \in Client, Error(c) PROVE Step \/ UNCHANGED Link!vars
    <3>1. /\ told' = told \/ told' = FALSE
          /\ UNCHANGED <<protocol, endIsFinal, destroyed>>
      BY <2>3 DEF Error
    <3> QED BY <3>1 DEF Link!Disconnect, Link!vars
  <2>4. CASE Tick \/ CreateNewClient \/ UNCHANGED vars
    <3>1. UNCHANGED <<protocol, endIsFinal, told, destroyed>>
      BY <2>4 DEF Tick, CreateNewClient, vars
    <3> QED BY <3>1 DEF Link!vars
  <2>5. CASE Destroy
    BY <2>5 DEF Destroy, Link!Destroy
  <2> QED BY <2>1, <2>2, <2>3, <2>4, <2>5 DEF Next
<1> QED BY <1>1, <1>2, ClientInvariance, PTL DEF Spec, ImplementsLink, Link!Spec

=============================================================================
