---------------------------- MODULE MQTTChannels -----------------------------
(***************************************************************************)
(* Which tags an MQTT plugin publishes: _updateMQTTChannels of             *)
(* src/server/mqtt/MQTTPlugin.js.  A pure function of the configuration    *)
(* and of the system's public tags.                                        *)
(***************************************************************************)
EXTENDS Sequences, Integers

CONSTANTS Tag,      \* public tag names of the system
          MqttTag,  \* names on the broker; a public tag is also one
          None      \* undefined

ASSUME NamesAssumption == Tag \subseteq MqttTag

\* A channel of the configuration.  Only the enabled ones are listed.
Channel == [internalTag : Tag, mqttTag : MqttTag]

\* The fields of an MQTTConfig that the plugin's behaviour depends on.
MQTTConfig == [protocol             : {"SPARKPLUG", "TEXT_JSON"},
               publishAllPublicTags : BOOLEAN,
               minPublishInterval   : Nat,
               dataFromMQTTTimeout  : Nat \ {0},
               channelsToMQTT       : Seq(Channel),
               channelsFromMQTT     : Seq(Channel)]

SparkPlug(config) == config.protocol = "SPARKPLUG"

Elements(s) == {s[i] : i \in DOMAIN s}

InternalTags(channels) == {c.internalTag : c \in channels}
MqttTags(channels)     == {c.mqttTag : c \in channels}

FromTags(config) == InternalTags(Elements(config.channelsFromMQTT))

\* uniqBy: of the channels with the same internal tag the first one counts.
UniqByInternalTag(channels) ==
    {channels[i] : i \in {j \in DOMAIN channels :
        \A h \in 1..(j - 1) : channels[h].internalTag # channels[j].internalTag}}

\* The tags that difference() removes for coming from this plugin.  The code
\* hands it channel objects (filter and map only apply to the empty array),
\* and no tag name equals a channel object.
InternalTagsFromThisPlugin(config) == {}

\* What "publish all public tags" adds to the configured channels.
ExtraTags(config, publicTags) ==
    IF config.publishAllPublicTags
    THEN (publicTags \ InternalTagsFromThisPlugin(config))
           \ (InternalTags(Elements(config.channelsToMQTT))
                \cup MqttTags(Elements(config.channelsToMQTT)))
    ELSE {}

\* SparkPlug has to publish what it receives.
RePublished(config) == IF SparkPlug(config) THEN config.channelsFromMQTT ELSE <<>>

ToMQTTEnabledChannelConfigs(config, publicTags) ==
    LET configured == UniqByInternalTag(config.channelsToMQTT \o RePublished(config))
        extra      == ExtraTags(config, publicTags) \ InternalTags(configured)
    IN  configured \cup {[internalTag |-> t, mqttTag |-> t] : t \in extra}

=============================================================================
