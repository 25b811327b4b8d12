----------------------------- MODULE MQTTClient ------------------------------
(***************************************************************************)
(* The life of the MQTT clients that a protocol handler creates one after  *)
(* the other (src/server/mqtt/protocols/MQTTJSONHandler.js and             *)
(* SparkPlugHandler.js).  The client library is outside the repository: a  *)
(* client reconnects by itself until the handler ends it, and an ended     *)
(* client has a close event to come.                                       *)
(***************************************************************************)
EXTENDS FiniteSets, Integers

CONSTANTS Protocols,   \* of "TEXT_JSON" and "SPARKPLUG"
          Client,      \* client objects
          LateProtocols, \* those whose ended clients may emit late events
          CreateDelay  \* the 5 seconds before a new client is created

ASSUME ClientAssumption ==
    /\ Protocols \subseteq {"TEXT_JSON", "SPARKPLUG"}
    /\ LateProtocols \subseteq Protocols
    /\ CreateDelay \in Nat

NoClient == "no client"
NoTimer  == -1

VARIABLES
  protocol,   \* which of the two handlers this is
  endIsFinal, \* the library: an ended client's close comes promptly, as its last event
  state,      \* of each client: "new", "trying", "up" or "ended"
  client,     \* _client
  connected,  \* the JSON handler's _connected
  destroyed,  \* destroy() has been called
  createTimer,\* time left on _createNewClientTimeout
  told        \* what the events have told the plugin

vars == <<protocol, endIsFinal, state, client, connected, destroyed, createTimer, told>>

JSON == protocol = "TEXT_JSON"

\* Clients that try to be connected.
Live == {c \in Client : state[c] \in {"trying", "up"}}

\* Mutated form: the client is forgotten but not ended.
EndClient_Forgets == state

\* State of the clients after _endClient().
EndClient == [c \in Client |-> IF c = client /\ c \in Live THEN "ended" ELSE state[c]]

\* _setupClient().
SetupClient ==
    \E c \in Client :
        /\ state[c] = "new"
        /\ state' = [EndClient EXCEPT ![c] = "trying"]
        /\ client' = c

-----------------------------------------------------------------------------
(* Events of a client                                                      *)

\* "connect", or "birth" for SparkPlug, which may come again.
Connect(c) ==
    /\ state[c] = "trying" \/ (~ JSON /\ state[c] = "up")
    /\ state' = [state EXCEPT ![c] = "up"]
    /\ connected' = TRUE
    /\ told' = TRUE
    /\ UNCHANGED <<protocol, endIsFinal, client, destroyed, createTimer>>

\* "close".  A live client goes on trying; an ended one is finished with.
Close(c) ==
    /\ state[c] # "new"
    /\ state' = [state EXCEPT ![c] = IF @ = "ended" THEN "new" ELSE "trying"]
    /\ connected' = FALSE
    /\ told' = IF JSON /\ ~ connected THEN told ELSE FALSE
    /\ UNCHANGED <<protocol, endIsFinal, client, destroyed, createTimer>>

\* this._destroyed, which the SparkPlug handler never sets.
MayRecreate == ~ (JSON /\ destroyed)

\* Mutated form: a client that never connected is not replaced.
ErrorTimer_IfConnected == IF connected THEN CreateDelay ELSE createTimer

\* The timer after an error.
ErrorTimer == IF MayRecreate /\ createTimer = NoTimer THEN CreateDelay ELSE createTimer

\* "error": the JSON handler ends the client that has the error, SparkPlug
\* ends its present client and tells the plugin.
Error(c) ==
    /\ state[c] \in {"trying", "up"} \/ (state[c] = "ended" /\ ~ endIsFinal)
    /\ IF JSON
       THEN state' = [state EXCEPT ![c] = "ended"] /\ UNCHANGED <<client, told>>
       ELSE state' = EndClient /\ client' = NoClient /\ told' = FALSE
    /\ createTimer' = ErrorTimer
    /\ UNCHANGED <<protocol, endIsFinal, connected, destroyed>>

-----------------------------------------------------------------------------

Tick ==
    /\ createTimer > 0
    /\ createTimer' = createTimer - 1
    /\ UNCHANGED <<protocol, endIsFinal, state, client, connected, destroyed, told>>

\* The recreate timer, 5 seconds after an error.
CreateNewClient ==
    /\ createTimer = 0
    /\ endIsFinal => \A c \in Client : state[c] # "ended"
    /\ createTimer' = NoTimer
    /\ SetupClient
    /\ UNCHANGED <<protocol, endIsFinal, connected, destroyed, told>>

\* Mutated form: the timer is not cleared.
Destroy_KeepsTimer ==
    /\ ~ destroyed
    /\ destroyed' = TRUE
    /\ state' = EndClient
    /\ client' = NoClient
    /\ told' = FALSE
    /\ UNCHANGED <<protocol, endIsFinal, connected, createTimer>>

\* destroy() of the plugin and of its handler.
Destroy ==
    /\ ~ destroyed
    /\ destroyed' = TRUE
    /\ state' = EndClient
    /\ client' = NoClient
    /\ createTimer' = NoTimer
    /\ told' = FALSE
    /\ UNCHANGED <<protocol, endIsFinal, connected>>

\* start() has been called.
Init ==
    /\ protocol \in Protocols
    /\ endIsFinal \in {TRUE} \cup {protocol \notin LateProtocols}
    /\ client \in Client
    /\ state = [c \in Client |-> IF c = client THEN "trying" ELSE "new"]
    /\ connected = FALSE /\ destroyed = FALSE /\ createTimer = NoTimer /\ told = FALSE

Next ==
    \/ \E c \in Client : Connect(c) \/ Close(c) \/ Error(c)
    \/ Tick
    \/ CreateNewClient
    \/ Destroy

Spec == Init /\ [][Next]_vars

\* Sockets that have been ended close, and timers expire.
FairSpec == Spec /\ WF_vars(Tick) /\ WF_vars(CreateNewClient)
                 /\ \A c \in Client : WF_vars(state[c] = "ended" /\ Close(c))

-----------------------------------------------------------------------------
(* Properties                                                              *)

\* The shape of the state.
TypeOK ==
    /\ state \in [Client -> {"new", "trying", "up", "ended"}]
    /\ client \in Client \cup {NoClient}
    /\ createTimer \in {NoTimer} \cup 0..CreateDelay
    /\ {connected, destroyed, told} \subseteq BOOLEAN

\* However errors, closes and timers interleave, a handler never has two
\* clients that try to use the same client id.
OneLiveClient == Cardinality(Live) <= 1

\* A destroyed handler's clients are ended and no timer brings one back.
DestroyedStaysDown == destroyed => Live = {} /\ createTimer = NoTimer

\* A client that is connected is known to be: the plugin publishes.  A late
\* close of its predecessor would hide it.
UpIsTold == endIsFinal => \A c \in Client : state[c] = "up" => told

\* However errors, closes, timers and destroy() of the JSON and the SparkPlug
\* handler interleave: at most one live client, none once destroyed, and the
\* plugin knows of a connected one.
Inv == TypeOK /\ OneLiveClient /\ DestroyedStaysDown /\ UpIsTold

\* The handler keeps its promise to the plugin, if the library closes ended
\* clients promptly.
Link == INSTANCE MQTTLink WITH repeats <- ~ JSON, linkUp <- endIsFinal /\ told
ImplementsLink == Link!Spec

\* A handler that is in use gets a client again after an error.
Recovers == (Live = {}) ~> (Live # {} \/ destroyed)

=============================================================================
