------------------------------ MODULE MQTTLink -------------------------------
(***************************************************************************)
(* What an MQTT protocol handler promises the plugin that uses it          *)
(* (src/server/mqtt/protocols/MQTTProtocolHandler.js): connect and         *)
(* disconnect events, none of them a connect once it is destroyed.         *)
(***************************************************************************)
VARIABLES repeats,   \* a connect may come again (SparkPlug); never changes
          linkUp,    \* the last event was a connect
          destroyed  \* destroy() has been called

vars == <<repeats, linkUp, destroyed>>

Connect ==
    /\ ~ destroyed
    /\ ~ linkUp \/ repeats
    /\ linkUp' = TRUE
    /\ UNCHANGED <<repeats, destroyed>>

Disconnect ==
    /\ linkUp' = FALSE
    /\ UNCHANGED <<repeats, destroyed>>

Destroy ==
    /\ ~ destroyed
    /\ destroyed' = TRUE
    /\ linkUp' = FALSE
    /\ UNCHANGED repeats

Init == repeats \in BOOLEAN /\ linkUp = FALSE /\ destroyed = FALSE

Spec == Init /\ [][Connect \/ Disconnect \/ Destroy]_vars

=============================================================================
