---------------------------- MODULE MCMQTTPlugin -----------------------------
(***************************************************************************)
(* Small instances of the MQTTPlugin: tag x of another plugin goes to the  *)
(* broker, tag y comes from it.                                            *)
(***************************************************************************)
EXTENDS MQTTPlugin, TLC

CONSTANTS x, y, mx, my, item

XtoMQTT   == <<[internalTag |-> x, mqttTag |-> mx]>>
YfromMQTT == <<[internalTag |-> y, mqttTag |-> my]>>

Config_(protocol, all, interval, to) ==
    [protocol |-> protocol, publishAllPublicTags |-> all, minPublishInterval |-> interval,
     dataFromMQTTTimeout |-> 1, channelsToMQTT |-> to, channelsFromMQTT |-> YfromMQTT]

Plain  == Config_("TEXT_JSON", FALSE, 2, XtoMQTT)
All    == Config_("TEXT_JSON", TRUE, 0, <<>>)
Spark  == Config_("SPARKPLUG", FALSE, 0, XtoMQTT)
\* The name x on the broker is taken by another tag.
Taken  == Config_("TEXT_JSON", TRUE, 0, <<[internalTag |-> y, mqttTag |-> x]>>)

AllConfigs == {Plain, All, Spark, Taken}

\* Only these have metadata, to bound the state space.
SomeItems == [c \in AllConfigs |-> IF c \in {Plain, Taken} THEN {item} ELSE {}]

BackAndForth == {-1, 2}

\* The multiplier is 1: null becomes 0, as in JavaScript.
Times1 == [v \in Value |-> IF v = Null THEN 0 ELSE v]

=============================================================================
