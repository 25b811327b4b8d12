-------------------------- MODULE MQTTPluginProofs ---------------------------
(***************************************************************************)
(* Proofs about one MQTT plugin, for any configurations, tags, values,     *)
(* metadata and clock.                                                     *)
(***************************************************************************)
EXTENDS MQTTPlugin, SequenceTheorems, WellFoundedInduction, TLAPS

-----------------------------------------------------------------------------
(* The channels of a configuration                                         *)

LEMMA ConfigFields ==
    ASSUME NEW c \in Config
    PROVE  /\ c.minPublishInterval \in Nat /\ c.dataFromMQTTTimeout \in Nat
           /\ c.publishAllPublicTags \in BOOLEAN
           /\ c.channelsToMQTT \in Seq(Channel) /\ c.channelsFromMQTT \in Seq(Channel)
           /\ c.minPublishInterval < MaxAge /\ c.dataFromMQTTTimeout + 1 < MaxAge
BY ConfigAssumption DEF MQTTConfig

LEMMA FromTagsAreTags == ASSUME NEW c \in Config PROVE FromTags(c) \subseteq Tag
<1>1. c.channelsFromMQTT \in Seq(Channel)
  BY ConfigFields
<1>2. \A i \in DOMAIN c.channelsFromMQTT : c.channelsFromMQTT[i] \in Channel
  BY <1>1
<1> QED BY <1>2 DEF FromTags, InternalTags, Elements, Channel

\* uniqBy keeps a channel for each tag, and channels of the list only.
LEMMA UniqKeepsTags ==
    ASSUME NEW s \in Seq(Channel)
    PROVE  /\ UniqByInternalTag(s) \subseteq Elements(s)
           /\ InternalTags(UniqByInternalTag(s)) = InternalTags(Elements(s))
           /\ UniqByInternalTag(s) \subseteq Channel
<1>1. \A i \in DOMAIN s : i \in Nat /\ s[i] \in Channel
  OBVIOUS
<1>2. UniqByInternalTag(s) \subseteq Elements(s)
  BY DEF UniqByInternalTag, Elements
<1>3. ASSUME NEW t \in InternalTags(Elements(s)) PROVE t \in InternalTags(UniqByInternalTag(s))
  <2> DEFINE S == {i \in DOMAIN s : s[i].internalTag = t}
             R == {p \in Nat \X Nat : p[1] < p[2]}
  <2>1. S \subseteq Nat /\ S # {}
    BY <1>1, <1>3 DEF InternalTags, Elements
  <2>2. IsWellFoundedOn(R, Nat)
    BY NatLessThanWellFounded, Zenon DEF OpToRel
  <2>3. PICK m \in S : \A n \in S : ~ (<<n, m>> \in R)
    BY <2>1, <2>2, WFMin
  <2>4. \A n \in S : ~ (n < m)
    BY <2>1, <2>3
  <2>5. \A h \in 1..(m - 1) : s[h].internalTag # s[m].internalTag
    <3>1. SUFFICES ASSUME NEW h \in 1..(m - 1), s[h].internalTag = s[m].internalTag PROVE FALSE
      OBVIOUS
    <3>2. m \in DOMAIN s /\ s[m].internalTag = t /\ m \in Nat
      BY <1>1
    <3>3. h \in DOMAIN s
      BY <3>2
    <3> QED BY <2>4, <3>1, <3>2, <3>3
  <2>6. s[m] \in UniqByInternalTag(s)
    BY <2>5 DEF UniqByInternalTag
  <2> QED BY <2>6 DEF InternalTags
<1>4. UniqByInternalTag(s) \subseteq Channel
  BY <1>1, <1>2 DEF Elements
<1> QED BY <1>2, <1>3, <1>4 DEF InternalTags

\* The channels of a configuration: those it names are always among them; with
\* no others to publish there are no others.
LEMMA ChannelFacts ==
    ASSUME NEW c \in Config, NEW tags \in SUBSET Tag
    PROVE  LET published == InternalTags(ToMQTTEnabledChannelConfigs(c, tags))
               named     == InternalTags(Elements(c.channelsToMQTT))
           IN  /\ ToMQTTEnabledChannelConfigs(c, tags) \subseteq Channel
               /\ published \subseteq Tag
               /\ named \subseteq published
               /\ ~ c.publishAllPublicTags /\ ~ SparkPlug(c) => published \subseteq named
<1> DEFINE all        == c.channelsToMQTT \o RePublished(c)
           configured == UniqByInternalTag(all)
           extra      == ExtraTags(c, tags) \ InternalTags(configured)
           own        == {[internalTag |-> t, mqttTag |-> t] : t \in extra}
<1>1. c.channelsToMQTT \in Seq(Channel) /\ RePublished(c) \in Seq(Channel)
  BY ConfigFields DEF RePublished
<1>2. all \in Seq(Channel)
  BY <1>1, ConcatProperties
<1>3. InternalTags(configured) = InternalTags(Elements(all)) /\ configured \subseteq Channel
  BY <1>2, UniqKeepsTags
<1>4. Elements(c.channelsToMQTT) \subseteq Elements(all)
  <2>1. \A i \in DOMAIN c.channelsToMQTT : i \in DOMAIN all /\ all[i] = c.channelsToMQTT[i]
    BY <1>1
  <2> QED BY <2>1 DEF Elements
<1>5. ToMQTTEnabledChannelConfigs(c, tags) = configured \cup own
  BY DEF ToMQTTEnabledChannelConfigs
<1>6. extra \subseteq Tag
  BY DEF ExtraTags
<1>7. own \subseteq Channel
  BY <1>6, NamesAssumption DEF Channel
<1>8. InternalTags(own) = extra
  <2>1. \A o \in own : o.internalTag \in extra
    OBVIOUS
  <2>2. \A t \in extra : \E o \in own : o.internalTag = t
    <3>1. \A t \in extra : [internalTag |-> t, mqttTag |-> t].internalTag = t
      OBVIOUS
    <3> QED BY <3>1
  <2> HIDE DEF own, extra
  <2> QED BY <2>1, <2>2 DEF InternalTags
<1>9. InternalTags(configured \cup own) = InternalTags(configured) \cup extra
  BY <1>8 DEF InternalTags
<1>10. InternalTags(configured) \subseteq Tag
  BY <1>3 DEF InternalTags, Channel
<1>11. ASSUME ~ c.publishAllPublicTags, ~ SparkPlug(c)
       PROVE  extra = {} /\ Elements(all) = Elements(c.channelsToMQTT)
  <2>1. all = c.channelsToMQTT
    BY <1>1, <1>11, ConcatEmptySeq DEF RePublished
  <2> QED BY <1>11, <2>1 DEF ExtraTags
<1>12. InternalTags(Elements(c.channelsToMQTT)) \subseteq InternalTags(configured)
  BY <1>3, <1>4 DEF InternalTags
<1> HIDE DEF all, configured, extra, own
<1> QED BY <1>3, <1>5, <1>6, <1>7, <1>9, <1>10, <1>11, <1>12

-----------------------------------------------------------------------------
(* The inductive invariant                                                 *)

Types ==
    /\ config \in Config
    /\ publicTags \in SUBSET Tag
    /\ channels = ToMQTTEnabledChannelConfigs(config, publicTags)
    /\ metadata \in [Tag -> Items[config] \cup {None}]
    /\ store \in [Tag -> Value \cup {None}]
    /\ sent \in [Tag -> Value \cup {None}]
    /\ broker \in [Tag -> Value \cup {None}]
    /\ DOMAIN outbox \subseteq FromTags(config)
    /\ \A t \in DOMAIN outbox : outbox[t] \in Value
    /\ DOMAIN message \subseteq Tag
    /\ \A t \in DOMAIN message : message[t] \in Value \cup {None}
    /\ sending \in {"no", "data", "all"}
    /\ Idle => message = Nothing
    /\ \A t \in DOMAIN metadataToMQTT : metadataToMQTT[t] \in Items[config]
    /\ rxAge \in [FromTags(config) -> Int \cup {None}]

Booleans ==
    /\ linkUp \in BOOLEAN /\ connected \in BOOLEAN /\ destroyed \in BOOLEAN
    /\ checked \in BOOLEAN /\ clockSet \in BOOLEAN

\* The publish interval, on a wall clock that may be set.
TimesInv ==
    /\ timer = NoTimer \/ timer \in Nat
    /\ txAge \in Int /\ txAge <= MaxAge
    /\ brokerAge \in Int /\ brokerAge <= MaxAge
    /\ ~ clockSet => txAge >= 0 /\ timer <= config.minPublishInterval

\* A destroyed plugin has no connection and no publish timer; the JSON handler
\* and the plugin agree on the connection.
LinkInv ==
    /\ destroyed => ~ connected /\ ~ linkUp /\ timer = NoTimer
    /\ ~ SparkPlug(config) => (connected <=> linkUp)

\* ChangesAreSent, also while a message is being assembled: its values count as
\* sent already, and a cycle in that moment sends what has changed since.
SentInv ==
    /\ ~ destroyed => metadataToMQTT = MetadataFor(channels, metadata)
    /\ connected /\ timer = NoTimer =>
          \A t \in InternalTags(channels) :
              sent[t] = store[t] \/ (sent[t] = None /\ metadata[t] = None /\ t \notin ToTags)

\* Without a connection all is offline; with one, what is not offline has a
\* time of receipt, which the last check found to be recent.
ReceivedInv ==
    ~ SparkPlug(config) /\ ~ destroyed =>
        /\ ~ connected => \A t \in FromTags(config) : Emitted(t) = Null
        /\ ~ clockSet => \A t \in FromTags(config) : Emitted(t) # Null =>
              rxAge[t] # None /\ (checked => rxAge[t] <= config.dataFromMQTTTimeout)

IInv == Types /\ Booleans /\ TimesInv /\ LinkInv /\ SentInv /\ ReceivedInv

LEMMA TypesChannels ==
    ASSUME Types
    PROVE  /\ InternalTags(channels) \subseteq Tag /\ channels \subseteq Channel
           /\ ToTags \subseteq InternalTags(channels)
           /\ ~ config.publishAllPublicTags /\ ~ SparkPlug(config) => InternalTags(channels) \subseteq ToTags
           /\ Published = InternalTags(channels)
           /\ FromTags(config) \subseteq Tag
BY ChannelFacts, FromTagsAreTags DEF Types, ToTags, Published

LEMMA PutType ==
    ASSUME NEW D, NEW S, NEW f \in [D -> S], NEW g, \A t \in DOMAIN g : g[t] \in S
    PROVE  /\ Put(f, g) \in [D -> S]
           /\ \A t \in D : Put(f, g)[t] = IF t \in DOMAIN g THEN g[t] ELSE f[t]
BY DEF Put

\* The same for the tables of values, as a fact about functions.
LEMMA PutValues ==
    \A f \in [Tag -> Value \cup {None}] : \A g :
        (\A t \in DOMAIN g : g[t] \in Value \cup {None}) =>
            /\ Put(f, g) \in [Tag -> Value \cup {None}]
            /\ \A t \in Tag : Put(f, g)[t] = IF t \in DOMAIN g THEN g[t] ELSE f[t]
BY DEF Put

LEMMA NothingIsEmpty == DOMAIN Nothing = {}
BY DEF Nothing

LEMMA InitPlugin == Init => IInv
<1> SUFFICES ASSUME Init PROVE IInv
  OBVIOUS
<1>1. config \in Config /\ publicTags = FromTags(config) /\ FromTags(config) \subseteq Tag
  BY FromTagsAreTags DEF Init
<1>2. Types
  <2>1. sending = "no" /\ message = Nothing /\ metadataToMQTT = Nothing /\ outbox = OfflineTags
    BY DEF Init
  <2>2. rxAge \in [FromTags(config) -> Int \cup {None}]
    BY DEF Init, NoRxTimes
  <2>3. DOMAIN outbox = FromTags(config) /\ \A t \in DOMAIN outbox : outbox[t] \in Value
    BY <2>1, ValueAssumption DEF OfflineTags
  <2>4. /\ metadata \in [Tag -> Items[config] \cup {None}]
        /\ store \in [Tag -> Value \cup {None}] /\ sent \in [Tag -> Value \cup {None}]
        /\ broker \in [Tag -> Value \cup {None}]
    BY DEF Init
  <2>5. channels = ToMQTTEnabledChannelConfigs(config, publicTags)
    BY DEF Init
  <2> QED BY <1>1, <2>1, <2>2, <2>3, <2>4, <2>5, NothingIsEmpty DEF Types
<1>3. linkUp = FALSE /\ connected = FALSE /\ destroyed = FALSE /\ clockSet = FALSE
  BY DEF Init
<1>4. Booleans
  <2>1. checked \in BOOLEAN
    BY DEF Init, SparkPlug
  <2> QED BY <1>3, <2>1 DEF Booleans
<1>5. TimesInv
  <2>1. config.minPublishInterval \in Nat
    BY <1>1, ConfigFields
  <2> QED BY <2>1, ClockAssumption DEF Init, TimesInv, NoTimer
<1>6. LinkInv
  BY <1>3 DEF LinkInv
<1>7. SentInv
  <2>1. MetadataFor(channels, metadata) = Nothing
    <3>1. InternalTags(channels) \subseteq Tag
      BY <1>2, TypesChannels
    <3>2. \A t \in Tag : metadata[t] = None
      BY DEF Init
    <3>3. {u \in InternalTags(channels) : metadata[u] # None} = {}
      BY <3>1, <3>2
    <3> QED BY <3>3 DEF MetadataFor, Nothing
  <2> QED BY <1>3, <2>1 DEF Init, SentInv
<1>8. ReceivedInv
  <2>1. \A t \in FromTags(config) : Emitted(t) = Null
    BY DEF Init, Emitted, OfflineTags
  <2> QED BY <2>1 DEF ReceivedInv
<1> QED BY <1>2, <1>4, <1>5, <1>6, <1>7, <1>8 DEF IInv

-----------------------------------------------------------------------------
(* Publishing                                                              *)

\* What stays when neither the tag map nor what is received changes.
LEMMA ReceivedStays ==
    ASSUME IInv, UNCHANGED <<config, store, outbox, rxAge, connected, destroyed, checked, clockSet>>
    PROVE  ReceivedInv'
BY DEF IInv, ReceivedInv, Emitted

LEMMA FinishSendingKeeps == ASSUME IInv, FinishSending PROVE IInv'
<1>1. /\ ~ Idle /\ Deliver(message) /\ sending' = "no" /\ message' = Nothing
      /\ txAge' = IF sending = "data" THEN 0 ELSE txAge
      /\ UNCHANGED <<config, publicTags, metadata, store, outbox, linkUp, connected, destroyed,
                     channels, sent, metadataToMQTT, timer, rxAge, checked, clockSet>>
  BY DEF FinishSending, routerVars, linkVars, channelVars
<1>2. broker' \in [Tag -> Value \cup {None}]
  BY <1>1, PutType DEF IInv, Types, Deliver
<1>3. Types'
  BY <1>1, <1>2, NothingIsEmpty DEF IInv, Types
<1>4. TimesInv'
  BY <1>1, ClockAssumption DEF IInv, TimesInv, Deliver
<1>5. Booleans' /\ LinkInv'
  BY <1>1 DEF IInv, Booleans, LinkInv
<1>6. SentInv'
  BY <1>1 DEF IInv, SentInv, MetadataFor, ToTags
<1>7. ReceivedInv'
  BY <1>1, ReceivedStays
<1> QED BY <1>3, <1>4, <1>5, <1>6, <1>7 DEF IInv

LEMMA DelayedPublishKeeps == ASSUME IInv, DelayedPublish PROVE IInv'
<1>1. /\ Idle /\ timer = 0 /\ timer' = NoTimer
      /\ UNCHANGED <<config, publicTags, metadata, store, outbox, linkUp, connected, destroyed,
                     channels, metadataToMQTT, txAge, rxAge, checked, clockSet, broker, brokerAge>>
  BY DEF DelayedPublish, routerVars, linkVars, sendVars
<1>2. InternalTags(channels) \subseteq Tag
  BY TypesChannels DEF IInv
<1>3. CASE connected /\ ChannelsToSend(store) # {}
  <2>1. /\ sent' = Put(sent, message') /\ sending' = "data" /\ message' = ValuesOf(ChannelsToSend(store))
    BY <1>3 DEF DelayedPublish, Generate
  <2>2. /\ DOMAIN message' = ChannelsToSend(store) /\ ChannelsToSend(store) \subseteq Tag
        /\ \A t \in DOMAIN message' : message'[t] = store[t] /\ message'[t] \in Value \cup {None}
    BY <1>2, <2>1 DEF ValuesOf, ChannelsToSend, IInv, Types
  <2>3. /\ sent' \in [Tag -> Value \cup {None}]
        /\ \A t \in Tag : sent'[t] = IF t \in ChannelsToSend(store) THEN store[t] ELSE sent[t]
    <3>1. sent \in [Tag -> Value \cup {None}]
      BY DEF IInv, Types
    <3>2. /\ Put(sent, message') \in [Tag -> Value \cup {None}]
          /\ \A t \in Tag : Put(sent, message')[t] = IF t \in DOMAIN message' THEN message'[t] ELSE sent[t]
      BY <2>2, <3>1, PutValues
    <3> QED BY <2>1, <2>2, <3>2
  <2>4. Types'
    BY <1>1, <2>1, <2>2, <2>3 DEF IInv, Types, Idle
  <2>5. \A t \in InternalTags(channels) : sent'[t] = store[t]
    BY <1>2, <2>3 DEF ChannelsToSend
  <2>6. SentInv'
    BY <1>1, <2>5 DEF IInv, SentInv, MetadataFor, ToTags
  <2> QED BY <1>1, <2>4, <2>6, ReceivedStays, ConfigFields
          DEF IInv, Types, Booleans, TimesInv, LinkInv, NoTimer
<1>4. CASE ~ (connected /\ ChannelsToSend(store) # {})
  <2>1. UNCHANGED <<sent, sending, message>>
    BY <1>4 DEF DelayedPublish, sendVars
  <2>2. Types'
    BY <1>1, <2>1 DEF IInv, Types, Idle
  <2>3. connected => \A t \in InternalTags(channels) : sent[t] = store[t]
    BY <1>4 DEF ChannelsToSend
  <2>4. SentInv'
    BY <1>1, <2>1, <2>3 DEF IInv, SentInv, MetadataFor, ToTags
  <2> QED BY <1>1, <2>2, <2>4, ReceivedStays, ConfigFields
          DEF IInv, Types, Booleans, TimesInv, LinkInv, NoTimer
<1> QED BY <1>3, <1>4

\* A digest cycle.
LEMMA CycleKeeps == ASSUME IInv, Cycle PROVE IInv'
<1>0. PICK others \in [Tag \ FromTags(config) -> Value \cup {None}] :
          LET changes == {t \in DOMAIN others : others[t] # None}
              values  == Put(Put(store, outbox), [t \in changes |-> others[t]])
              changed == {t \in Tag : values[t] # store[t]}
          IN  /\ changed # {} \/ outbox # Nothing
              /\ store' = values
              /\ IF changed # {}
                 THEN DispatchCycleDone(values, changed \cap ToTags # {})
                 ELSE UNCHANGED <<sent, timer, txAge, broker, brokerAge>>
  BY DEF Cycle
<1>1. PICK changes, values, changed :
          /\ changes = {t \in DOMAIN others : others[t] # None}
          /\ values = Put(Put(store, outbox), [t \in changes |-> others[t]])
          /\ changed = {t \in Tag : values[t] # store[t]}
          /\ store' = values
          /\ IF changed # {}
             THEN DispatchCycleDone(values, changed \cap ToTags # {})
             ELSE UNCHANGED <<sent, timer, txAge, broker, brokerAge>>
  BY <1>0
<1>2. /\ outbox' = Nothing
      /\ UNCHANGED <<config, publicTags, metadata, linkUp, connected, destroyed, channels,
                     metadataToMQTT, rxAge, checked, clockSet, sending, message>>
  BY DEF Cycle, linkVars
<1>3. InternalTags(channels) \subseteq Tag /\ FromTags(config) \subseteq Tag
      /\ (~ config.publishAllPublicTags /\ ~ SparkPlug(config) => InternalTags(channels) \subseteq ToTags)
      /\ config \in Config
  BY TypesChannels DEF IInv, Types
<1>4. /\ values \in [Tag -> Value \cup {None}]
      /\ \A t \in FromTags(config) : values[t] = Emitted(t)
  <2>1. /\ Put(store, outbox) \in [Tag -> Value \cup {None}]
        /\ \A t \in Tag : Put(store, outbox)[t] = Emitted(t)
    <3>1. /\ store \in [Tag -> Value \cup {None}]
          /\ \A t \in DOMAIN outbox : outbox[t] \in Value \cup {None}
      BY DEF IInv, Types
    <3>2. /\ Put(store, outbox) \in [Tag -> Value \cup {None}]
          /\ \A t \in Tag : Put(store, outbox)[t] = IF t \in DOMAIN outbox THEN outbox[t] ELSE store[t]
      BY <3>1, PutValues
    <3> QED BY <3>2 DEF Emitted
  <2>2. /\ DOMAIN [t \in changes |-> others[t]] = changes
        /\ \A t \in changes : [u \in changes |-> others[u]][t] \in Value \cup {None}
        /\ changes \cap FromTags(config) = {}
    BY <1>1
  <2> DEFINE news == [t \in changes |-> others[t]]
  <2>3. \A t \in DOMAIN news : news[t] \in Value \cup {None}
    BY <2>2
  <2>4. values = Put(Put(store, outbox), news) /\ DOMAIN news \cap FromTags(config) = {}
    BY <1>1, <2>2
  <2> HIDE DEF news
  <2>5. /\ Put(Put(store, outbox), news) \in [Tag -> Value \cup {None}]
        /\ \A t \in Tag : Put(Put(store, outbox), news)[t]
              = IF t \in DOMAIN news THEN news[t] ELSE Put(store, outbox)[t]
    BY <2>1, <2>3, PutValues
  <2> QED BY <1>3, <2>1, <2>4, <2>5
<1>5. \/ UNCHANGED <<sent, timer, txAge, broker, brokerAge>>
      \/ /\ timer = NoTimer /\ connected /\ WaitTime(txAge) > 0 /\ timer' = WaitTime(txAge)
         /\ UNCHANGED <<sent, txAge, broker, brokerAge>>
      \/ /\ sent' = Put(sent, [t \in ChannelsToSend(values) |-> values[t]])
         /\ txAge' = 0 /\ timer' = timer /\ connected
         /\ Deliver([t \in ChannelsToSend(values) |-> values[t]])
  BY <1>1 DEF DispatchCycleDone, TxMaybeRequired
<1>6. /\ DOMAIN [t \in ChannelsToSend(values) |-> values[t]] = ChannelsToSend(values)
      /\ ChannelsToSend(values) \subseteq Tag
      /\ \A t \in ChannelsToSend(values) :
            [u \in ChannelsToSend(values) |-> values[u]][t] \in Value \cup {None}
  BY <1>3, <1>4 DEF ChannelsToSend
<1>7. sent' \in [Tag -> Value \cup {None}] /\ broker' \in [Tag -> Value \cup {None}]
  <2>1. CASE UNCHANGED <<sent, broker>>
    BY <2>1 DEF IInv, Types
  <2>2. CASE /\ sent' = Put(sent, [t \in ChannelsToSend(values) |-> values[t]])
             /\ Deliver([t \in ChannelsToSend(values) |-> values[t]])
    BY <1>6, <2>2, PutType DEF IInv, Types, Deliver
  <2> QED BY <1>5, <2>1, <2>2
<1>8. Types'
  BY <1>1, <1>2, <1>4, <1>7, NothingIsEmpty DEF IInv, Types, Idle
<1>9. Booleans'
  BY <1>2 DEF IInv, Booleans
<1>10. TimesInv'
  BY <1>2, <1>3, <1>5, ConfigFields, ClockAssumption DEF IInv, TimesInv, WaitTime, Deliver, NoTimer
<1>11. LinkInv'
  BY <1>2, <1>5 DEF IInv, LinkInv
<1>12. ASSUME connected, timer' = NoTimer
       PROVE  \A t \in InternalTags(channels) :
                 sent'[t] = values[t] \/ (sent'[t] = None /\ metadata[t] = None /\ t \notin ToTags)
  <2>1. timer = NoTimer
    BY <1>5, <1>10, <1>12 DEF IInv, TimesInv, NoTimer
  <2>2. CASE changed = {}
    <3>1. \A t \in Tag : values[t] = store[t]
      BY <1>1, <2>2
    <3>2. UNCHANGED sent
      BY <1>1, <2>2
    <3> QED BY <1>3, <1>12, <2>1, <3>1, <3>2 DEF IInv, SentInv
  <2>3. CASE changed # {} /\ ~ TxMaybeRequired(changed \cap ToTags # {})
    <3>1. ~ config.publishAllPublicTags /\ ~ SparkPlug(config) /\ changed \cap ToTags = {}
      BY <1>12, <2>3 DEF TxMaybeRequired
    <3>2. UNCHANGED sent
      BY <1>1, <2>3 DEF DispatchCycleDone
    <3>3. \A t \in InternalTags(channels) : values[t] = store[t]
      BY <1>1, <1>3, <3>1
    <3> QED BY <1>12, <2>1, <3>2, <3>3 DEF IInv, SentInv
  <2>4. CASE changed # {} /\ TxMaybeRequired(changed \cap ToTags # {})
    <3>1. CASE ChannelsToSend(values) = {}
      <4>1. UNCHANGED sent
        BY <1>1, <2>4, <3>1 DEF DispatchCycleDone
      <4> QED BY <3>1, <4>1 DEF ChannelsToSend
    <3>2. CASE ChannelsToSend(values) # {}
      <4>1. sent' = Put(sent, [t \in ChannelsToSend(values) |-> values[t]])
        BY <1>1, <1>12, <2>1, <2>4, <3>2 DEF DispatchCycleDone, NoTimer
      <4>2. \A t \in Tag : sent'[t] = IF t \in ChannelsToSend(values) THEN values[t] ELSE sent[t]
        <5> DEFINE now == [t \in ChannelsToSend(values) |-> values[t]]
        <5>1. sent \in [Tag -> Value \cup {None}]
          BY DEF IInv, Types
        <5>2. \A t \in Tag : Put(sent, now)[t] = IF t \in DOMAIN now THEN now[t] ELSE sent[t]
          BY <1>6, <5>1, PutValues
        <5> QED BY <1>6, <4>1, <5>2
      <4> QED BY <1>3, <4>2 DEF ChannelsToSend
    <3> QED BY <3>1, <3>2
  <2> QED BY <2>2, <2>3, <2>4
<1>13. SentInv'
  BY <1>1, <1>2, <1>12 DEF IInv, SentInv, MetadataFor, ToTags
<1>14. ReceivedInv'
  <2>1. \A t \in FromTags(config) : Emitted(t)' = Emitted(t)
    BY <1>1, <1>2, <1>4, NothingIsEmpty DEF Emitted
  <2> QED BY <1>2, <2>1 DEF IInv, ReceivedInv
<1> QED BY <1>8, <1>9, <1>10, <1>11, <1>13, <1>14 DEF IInv

-----------------------------------------------------------------------------
(* Tags and metadata                                                       *)

\* What becomes of the tables when the published tags or their metadata may
\* have changed: either all is taken to be sent, or the metadata of the
\* published tags is as before and only tags that were published keep what was
\* sent.
LEMMA MetadataFacts ==
    ASSUME IInv, Idle, UNCHANGED config,
           NEW published \in SUBSET Channel, NEW items \in [Tag -> Items[config] \cup {None}],
           OnMetadataChange(published, items), sent' = SentAfter(published, message'),
           UNCHANGED store
    PROVE  /\ metadataToMQTT' = MetadataFor(published, items)
           /\ \A t \in DOMAIN metadataToMQTT' : metadataToMQTT'[t] \in Items[config]
           /\ DOMAIN message' \subseteq Tag
           /\ \A t \in DOMAIN message' : message'[t] \in Value \cup {None}
           /\ sending' \in {"no", "data", "all"}
           /\ sending' = "no" => message' = Nothing
           /\ UNCHANGED <<broker, brokerAge>>
           /\ sent' \in [Tag -> Value \cup {None}]
           /\ \/ \A t \in InternalTags(published) : sent'[t] = store[t]
              \/ /\ metadataToMQTT' = metadataToMQTT
                 /\ \A t \in Tag : sent'[t] = IF t \in InternalTags(channels) \cap InternalTags(published)
                                              THEN sent[t] ELSE None
<1>1. InternalTags(published) \subseteq Tag
  BY DEF InternalTags, Channel
<1>2. metadataToMQTT' = MetadataFor(published, items)
  BY DEF OnMetadataChange
<1>3. \A t \in DOMAIN metadataToMQTT' : metadataToMQTT'[t] \in Items[config]
  BY <1>1, <1>2 DEF MetadataFor
<1>4. sent' \in [Tag -> Value \cup {None}]
  <2>1. sent \in [Tag -> Value \cup {None}] /\ \A t \in DOMAIN message' : message'[t] \in Value \cup {None}
    <3>1. CASE metadataToMQTT' = metadataToMQTT
      BY <3>1 DEF OnMetadataChange, IInv, Types, sendVars
    <3>2. CASE metadataToMQTT' # metadataToMQTT
      BY <1>1, <3>2 DEF OnMetadataChange, ValuesOf, IInv, Types
    <3> QED BY <3>1, <3>2
  <2> QED BY <2>1 DEF SentAfter
<1>5. CASE metadataToMQTT' = metadataToMQTT
  <2>1. message' = Nothing /\ sending' = "no" /\ UNCHANGED <<broker, brokerAge>>
    BY <1>5 DEF OnMetadataChange, sendVars, IInv, Types, Idle
  <2>2. \A t \in Tag : sent'[t] = IF t \in InternalTags(channels) \cap InternalTags(published)
                                  THEN sent[t] ELSE None
    BY <2>1, NothingIsEmpty DEF SentAfter
  <2> QED BY <1>2, <1>3, <1>4, <1>5, <2>1, <2>2, NothingIsEmpty
<1>6. CASE metadataToMQTT' # metadataToMQTT
  <2>1. /\ sending' = "all" /\ message' = ValuesOf(InternalTags(published))
        /\ UNCHANGED <<broker, brokerAge>>
    BY <1>6 DEF OnMetadataChange
  <2>2. /\ DOMAIN message' = InternalTags(published)
        /\ \A t \in DOMAIN message' : message'[t] = store[t]
    BY <2>1 DEF ValuesOf
  <2>3. \A t \in DOMAIN message' : message'[t] \in Value \cup {None}
    BY <1>1, <2>2 DEF IInv, Types
  <2>4. \A t \in InternalTags(published) : sent'[t] = store[t]
    BY <1>1, <2>2 DEF SentAfter
  <2> QED BY <1>1, <1>2, <1>3, <1>4, <2>1, <2>2, <2>3, <2>4
<1> QED BY <1>5, <1>6

LEMMA TagsChangedKeeps == ASSUME IInv, TagsChanged PROVE IInv'
<1>1. /\ Idle
      /\ channels' = ToMQTTEnabledChannelConfigs(config, publicTags')
      /\ OnMetadataChange(channels', metadata) /\ sent' = SentAfter(channels', message')
      /\ UNCHANGED <<config, metadata, store, outbox, linkUp, connected, destroyed,
                     timer, txAge, rxAge, checked, clockSet>>
  BY DEF TagsChanged, linkVars, timeVars
<1>2. config \in Config /\ FromTags(config) \subseteq Tag
  BY FromTagsAreTags DEF IInv, Types
<1>3. publicTags' \in SUBSET Tag
  BY <1>2 DEF TagsChanged
<1>4. channels' \in SUBSET Channel /\ ToTags \subseteq InternalTags(channels)
  BY <1>1, <1>2, <1>3, ChannelFacts, TypesChannels DEF IInv
<1>5. metadata \in [Tag -> Items[config] \cup {None}]
  BY DEF IInv, Types
<1>6. /\ metadataToMQTT' = MetadataFor(channels', metadata)
      /\ \A t \in DOMAIN metadataToMQTT' : metadataToMQTT'[t] \in Items[config]
      /\ DOMAIN message' \subseteq Tag
      /\ \A t \in DOMAIN message' : message'[t] \in Value \cup {None}
      /\ sending' \in {"no", "data", "all"}
      /\ sending' = "no" => message' = Nothing
      /\ UNCHANGED <<broker, brokerAge>>
      /\ sent' \in [Tag -> Value \cup {None}]
      /\ \/ \A t \in InternalTags(channels') : sent'[t] = store[t]
         \/ /\ metadataToMQTT' = metadataToMQTT
            /\ \A t \in Tag : sent'[t] = IF t \in InternalTags(channels) \cap InternalTags(channels')
                                         THEN sent[t] ELSE None
  BY <1>1, <1>4, <1>5, MetadataFacts
<1>7. Types'
  BY <1>1, <1>2, <1>3, <1>6 DEF IInv, Types, Idle
<1>8. Booleans' /\ TimesInv' /\ LinkInv'
  BY <1>1, <1>6 DEF IInv, Booleans, TimesInv, LinkInv
<1>9. ASSUME connected, timer = NoTimer, NEW t \in InternalTags(channels')
      PROVE  sent'[t] = store[t] \/ (sent'[t] = None /\ metadata[t] = None /\ t \notin ToTags)
  <2>1. t \in Tag
    BY <1>4 DEF InternalTags, Channel
  <2>2. CASE sent'[t] = store[t]
    BY <2>2
  <2>3. CASE /\ metadataToMQTT' = metadataToMQTT
             /\ sent'[t] = IF t \in InternalTags(channels) \cap InternalTags(channels')
                           THEN sent[t] ELSE None
    <3>1. CASE t \in InternalTags(channels)
      BY <1>9, <2>3, <3>1 DEF IInv, SentInv
    <3>2. CASE t \notin InternalTags(channels)
      <4>1. t \notin ToTags /\ sent'[t] = None
        BY <1>4, <2>3, <3>2
      <4>2. MetadataFor(channels', metadata) = MetadataFor(channels, metadata)
        BY <1>6, <1>9, <2>3 DEF IInv, LinkInv, SentInv
      <4>3. t \notin DOMAIN MetadataFor(channels, metadata)
        BY <3>2 DEF MetadataFor
      <4>4. t \notin DOMAIN MetadataFor(channels', metadata)
        BY <4>2, <4>3
      <4>5. metadata[t] = None
        BY <1>9, <4>4 DEF MetadataFor
      <4> QED BY <4>1, <4>5
    <3> QED BY <3>1, <3>2
  <2> QED BY <1>6, <2>1, <2>2, <2>3
<1>10. SentInv'
  BY <1>1, <1>6, <1>9 DEF SentInv, MetadataFor, ToTags
<1>11. ReceivedInv'
  BY <1>1, ReceivedStays
<1> QED BY <1>7, <1>8, <1>10, <1>11 DEF IInv

LEMMA MetadataChangeKeeps == ASSUME IInv, MetadataChange PROVE IInv'
<1>1. /\ Idle
      /\ IF destroyed THEN UNCHANGED <<metadataToMQTT, sendVars>>
                      ELSE OnMetadataChange(channels, metadata')
      /\ sent' = SentAfter(channels, message')
      /\ UNCHANGED <<config, publicTags, store, outbox, channels, linkUp, connected, destroyed,
                     timer, txAge, rxAge, checked, clockSet>>
  BY DEF MetadataChange, linkVars, timeVars
<1>2. channels \in SUBSET Channel /\ InternalTags(channels) \subseteq Tag
  BY TypesChannels DEF IInv
<1>3. metadata' \in [Tag -> Items[config] \cup {None}]
  BY DEF MetadataChange, IInv, Types
<1>4. Booleans' /\ LinkInv' /\ ReceivedInv'
  BY <1>1, ReceivedStays DEF IInv, Booleans, LinkInv
<1>5. CASE destroyed
  <2>1. UNCHANGED <<metadataToMQTT, sending, message, broker, brokerAge>> /\ message = Nothing
    BY <1>1, <1>5 DEF sendVars, IInv, Types
  <2>2. sent' \in [Tag -> Value \cup {None}]
    BY <1>1, <2>1, NothingIsEmpty DEF SentAfter, IInv, Types
  <2>3. Types' /\ TimesInv'
    BY <1>1, <1>3, <2>1, <2>2 DEF IInv, Types, TimesInv, Idle
  <2>4. SentInv'
    BY <1>1, <1>5 DEF IInv, LinkInv, SentInv
  <2> QED BY <1>4, <2>3, <2>4 DEF IInv
<1>6. CASE ~ destroyed
  <2>1. /\ metadataToMQTT' = MetadataFor(channels, metadata')
        /\ \A t \in DOMAIN metadataToMQTT' : metadataToMQTT'[t] \in Items[config]
        /\ DOMAIN message' \subseteq Tag
        /\ \A t \in DOMAIN message' : message'[t] \in Value \cup {None}
        /\ sending' \in {"no", "data", "all"}
        /\ sending' = "no" => message' = Nothing
        /\ UNCHANGED <<broker, brokerAge>>
        /\ sent' \in [Tag -> Value \cup {None}]
        /\ \/ \A t \in InternalTags(channels) : sent'[t] = store[t]
           \/ /\ metadataToMQTT' = metadataToMQTT
              /\ \A t \in Tag : sent'[t] = IF t \in InternalTags(channels) \cap InternalTags(channels)
                                           THEN sent[t] ELSE None
    BY <1>1, <1>2, <1>3, <1>6, MetadataFacts
  <2>2. Types' /\ TimesInv'
    BY <1>1, <1>3, <2>1 DEF IInv, Types, TimesInv, Idle
  <2>3. ASSUME connected, timer = NoTimer, NEW t \in InternalTags(channels)
        PROVE  sent'[t] = store[t] \/ (sent'[t] = None /\ metadata'[t] = None /\ t \notin ToTags)
    <3>1. CASE sent'[t] = store[t]
      BY <3>1
    <3>2. CASE metadataToMQTT' = metadataToMQTT /\ sent'[t] = sent[t]
      <4>1. MetadataFor(channels, metadata') = MetadataFor(channels, metadata)
        BY <1>6, <2>1, <3>2 DEF IInv, SentInv
      <4>2. DOMAIN MetadataFor(channels, metadata') = DOMAIN MetadataFor(channels, metadata)
        BY <4>1
      <4>3. metadata[t] = None => metadata'[t] = None
        BY <2>3, <4>2 DEF MetadataFor
      <4> QED BY <2>3, <3>2, <4>3 DEF IInv, SentInv
    <3> QED BY <1>2, <2>1, <3>1, <3>2
  <2>4. SentInv'
    BY <1>1, <2>1, <2>3 DEF SentInv, MetadataFor, ToTags
  <2> QED BY <1>4, <2>2, <2>4 DEF IInv
<1> QED BY <1>5, <1>6

-----------------------------------------------------------------------------
(* The connection                                                          *)

\* What emitting leaves in the system.
LEMMA EmitFacts ==
    ASSUME IInv, UNCHANGED <<config, store>>, NEW values, Emit(values),
           DOMAIN values \subseteq FromTags(config), \A t \in DOMAIN values : values[t] \in Value
    PROVE  /\ DOMAIN outbox' \subseteq FromTags(config)
           /\ \A t \in DOMAIN outbox' : outbox'[t] \in Value
           /\ ~ destroyed => \A t \in FromTags(config) :
                 Emitted(t)' = IF t \in DOMAIN values THEN values[t] ELSE Emitted(t)
<1>1. CASE destroyed
  BY <1>1 DEF Emit, IInv, Types
<1>2. CASE ~ destroyed
  <2>1. outbox' = Over(values, outbox)
    BY <1>2 DEF Emit
  <2>2. /\ DOMAIN outbox' = DOMAIN outbox \cup DOMAIN values
        /\ \A t \in DOMAIN outbox' : outbox'[t] = IF t \in DOMAIN values THEN values[t] ELSE outbox[t]
    BY <2>1 DEF Over
  <2>3. DOMAIN outbox \subseteq FromTags(config) /\ \A t \in DOMAIN outbox : outbox[t] \in Value
    BY DEF IInv, Types
  <2> QED BY <2>2, <2>3 DEF Emitted
<1> QED BY <1>1, <1>2

LEMMA OfflineFacts ==
    /\ DOMAIN OfflineTags = FromTags(config) /\ \A t \in FromTags(config) : OfflineTags[t] = Null
    /\ Null \in Value
    /\ NoRxTimes \in [FromTags(config) -> Int \cup {None}]
BY ValueAssumption DEF OfflineTags, NoRxTimes

LEMMA ConnectKeeps == ASSUME IInv, Connect PROVE IInv'
<1>1. /\ Idle /\ ~ destroyed /\ linkUp' = TRUE /\ connected' = TRUE
      /\ sent' = Put(sent, message') /\ sending' = "all" /\ message' = ValuesOf(InternalTags(channels))
      /\ UNCHANGED <<config, publicTags, metadata, store, outbox, destroyed, channels, metadataToMQTT,
                     timer, txAge, rxAge, checked, clockSet, broker, brokerAge>>
  BY DEF Connect, PublishAll, Generate, routerVars, timeVars
<1>2. InternalTags(channels) \subseteq Tag
  BY TypesChannels DEF IInv
<1>3. /\ DOMAIN message' = InternalTags(channels)
      /\ \A t \in DOMAIN message' : message'[t] = store[t] /\ message'[t] \in Value \cup {None}
  BY <1>1, <1>2 DEF ValuesOf, IInv, Types
<1>4. /\ sent' \in [Tag -> Value \cup {None}]
      /\ \A t \in Tag : sent'[t] = IF t \in DOMAIN message' THEN message'[t] ELSE sent[t]
  <2>1. sent \in [Tag -> Value \cup {None}]
    BY DEF IInv, Types
  <2> QED BY <1>1, <1>3, <2>1, PutValues
<1>5. Types'
  BY <1>1, <1>2, <1>3, <1>4 DEF IInv, Types, Idle
<1>6. \A t \in InternalTags(channels) : sent'[t] = store[t]
  BY <1>2, <1>3, <1>4
<1>7. SentInv'
  BY <1>1, <1>6 DEF IInv, SentInv, MetadataFor, ToTags
<1>8. ReceivedInv'
  BY <1>1 DEF IInv, ReceivedInv, Emitted
<1>9. Booleans' /\ TimesInv' /\ LinkInv'
  BY <1>1 DEF IInv, Booleans, TimesInv, LinkInv
<1> QED BY <1>5, <1>7, <1>8, <1>9 DEF IInv

LEMMA DisconnectKeeps == ASSUME IInv, Disconnect PROVE IInv'
<1>1. /\ Idle /\ linkUp' = FALSE /\ connected' = FALSE /\ timer' = NoTimer /\ rxAge' = NoRxTimes
      /\ Emit(OfflineTags)
      /\ UNCHANGED <<config, publicTags, metadata, store, destroyed, channels, sent, metadataToMQTT,
                     txAge, checked, clockSet, sending, message, broker, brokerAge>>
  BY DEF Disconnect, channelVars, sendVars
<1>2. /\ DOMAIN outbox' \subseteq FromTags(config) /\ \A t \in DOMAIN outbox' : outbox'[t] \in Value
      /\ ~ destroyed => \A t \in FromTags(config) : Emitted(t)' = Null
  BY <1>1, EmitFacts, OfflineFacts
<1>3. Types'
  BY <1>1, <1>2, OfflineFacts DEF IInv, Types, Idle
<1>4. TimesInv'
  <2>1. config.minPublishInterval \in Nat
    BY ConfigFields DEF IInv, Types
  <2> QED BY <1>1, <2>1 DEF IInv, TimesInv, NoTimer
<1>5. Booleans' /\ LinkInv'
  BY <1>1 DEF IInv, Booleans, LinkInv
<1>6. SentInv'
  BY <1>1 DEF IInv, SentInv, MetadataFor, ToTags
<1>7. ReceivedInv'
  BY <1>1, <1>2 DEF IInv, ReceivedInv
<1> QED BY <1>3, <1>4, <1>5, <1>6, <1>7 DEF IInv

LEMMA ErrorKeeps == ASSUME IInv, Error PROVE IInv'
<1>1. /\ SparkPlug(config) /\ linkUp' = FALSE /\ connected' = FALSE
      /\ UNCHANGED <<config, publicTags, metadata, store, outbox, destroyed, channels, sent,
                     metadataToMQTT, timer, txAge, rxAge, checked, clockSet, sending, message,
                     broker, brokerAge>>
  BY DEF Error, routerVars, channelVars, timeVars, sendVars
<1>2. Types'
  BY <1>1 DEF IInv, Types, Idle
<1>3. Booleans' /\ TimesInv' /\ LinkInv' /\ ReceivedInv'
  BY <1>1 DEF IInv, Booleans, TimesInv, LinkInv, ReceivedInv
<1>4. SentInv'
  BY <1>1 DEF IInv, SentInv, MetadataFor, ToTags
<1> QED BY <1>2, <1>3, <1>4 DEF IInv

LEMMA DestroyKeeps == ASSUME IInv, Destroy PROVE IInv'
<1>1. /\ linkUp' = FALSE /\ connected' = FALSE /\ destroyed' = TRUE /\ timer' = NoTimer
      /\ UNCHANGED <<config, publicTags, metadata, store, outbox, channels, sent,
                     metadataToMQTT, txAge, rxAge, checked, clockSet, sending, message,
                     broker, brokerAge>>
  BY DEF Destroy, routerVars, channelVars, sendVars
<1>2. Types'
  BY <1>1 DEF IInv, Types, Idle
<1>3. TimesInv'
  <2>1. config.minPublishInterval \in Nat
    BY ConfigFields DEF IInv, Types
  <2> QED BY <1>1, <2>1 DEF IInv, TimesInv, NoTimer
<1>4. Booleans' /\ LinkInv' /\ SentInv' /\ ReceivedInv'
  BY <1>1 DEF IInv, Booleans, LinkInv, SentInv, ReceivedInv
<1> QED BY <1>2, <1>3, <1>4 DEF IInv

-----------------------------------------------------------------------------
(* Receiving                                                               *)

\* Handlers that emit, and change times of receipt, leave the rest alone.
LEMMA ReceivingKeeps ==
    ASSUME IInv, NEW values, Emit(values), DOMAIN values \subseteq FromTags(config),
           \A t \in DOMAIN values : values[t] \in Value,
           rxAge' \in [FromTags(config) -> Int \cup {None}], checked' \in BOOLEAN,
           UNCHANGED <<config, publicTags, metadata, store, linkUp, connected, destroyed,
                       channels, sent, metadataToMQTT, timer, txAge, clockSet, sending,
                       message, broker, brokerAge>>
    PROVE  Types' /\ Booleans' /\ TimesInv' /\ LinkInv' /\ SentInv'
<1>1. DOMAIN outbox' \subseteq FromTags(config) /\ \A t \in DOMAIN outbox' : outbox'[t] \in Value
  BY EmitFacts
<1>2. Types'
  BY <1>1 DEF IInv, Types, Idle
<1>3. Booleans' /\ TimesInv' /\ LinkInv'
  BY DEF IInv, Booleans, TimesInv, LinkInv
<1>4. SentInv'
  BY DEF IInv, SentInv, MetadataFor, ToTags
<1> QED BY <1>2, <1>3, <1>4

LEMMA MessageKeeps == ASSUME IInv, Message PROVE IInv'
<1>1. /\ linkUp
      /\ UNCHANGED <<config, publicTags, metadata, store, linkUp, connected, destroyed, channels,
                     sent, metadataToMQTT, timer, txAge, checked, clockSet, sending, message,
                     broker, brokerAge>>
  BY DEF Message, linkVars, channelVars, sendVars
<1>2. PICK values :
          /\ Emit(values) /\ rxAge' = RxAgeAfter(values)
          /\ DOMAIN values \subseteq FromTags(config) /\ \A t \in DOMAIN values : values[t] \in Value
  <2>1. PICK named \in (SUBSET FromTags(config)) \ {{}} :
           \E received \in [named -> Value \cup {BadValue}] :
              LET accepted == {t \in named : received[t] # BadValue}
                  values   == [t \in accepted |-> Scale[received[t]]]
              IN  Emit(values) /\ rxAge' = RxAgeAfter(values)
    BY DEF Message
  <2>2. PICK received \in [named -> Value \cup {BadValue}] :
              LET accepted == {t \in named : received[t] # BadValue}
                  values   == [t \in accepted |-> Scale[received[t]]]
              IN  Emit(values) /\ rxAge' = RxAgeAfter(values)
    BY <2>1
  <2> DEFINE accepted == {t \in named : received[t] # BadValue}
             taken    == [t \in accepted |-> Scale[received[t]]]
  <2>3. \A t \in accepted : Scale[received[t]] \in Value
    BY ValueAssumption
  <2>4. DOMAIN taken \subseteq FromTags(config) /\ \A t \in DOMAIN taken : taken[t] \in Value
    BY <2>3
  <2> QED BY <2>2, <2>4
<1>3. rxAge \in [FromTags(config) -> Int \cup {None}] /\ checked \in BOOLEAN
  BY DEF IInv, Types, Booleans
<1>4. /\ rxAge' \in [FromTags(config) -> Int \cup {None}]
      /\ \A t \in FromTags(config) : rxAge'[t] = IF t \in DOMAIN values THEN 0 ELSE rxAge[t]
  BY <1>2, <1>3 DEF RxAgeAfter, Put
<1>5. Types' /\ Booleans' /\ TimesInv' /\ LinkInv' /\ SentInv'
  BY <1>1, <1>2, <1>3, <1>4, ReceivingKeeps
<1>6. ~ destroyed => \A t \in FromTags(config) :
         Emitted(t)' = IF t \in DOMAIN values THEN values[t] ELSE Emitted(t)
  BY <1>1, <1>2, EmitFacts
<1>7. config.dataFromMQTTTimeout \in Nat /\ None \notin Int
  BY ConfigFields, ValueAssumption DEF IInv, Types
<1>8. ReceivedInv'
  BY <1>1, <1>4, <1>6, <1>7 DEF IInv, LinkInv, ReceivedInv
<1> QED BY <1>5, <1>8 DEF IInv

LEMMA InvalidateKeeps == ASSUME IInv, Invalidate PROVE IInv'
<1>1. /\ SparkPlug(config) /\ rxAge' = NoRxTimes /\ Emit(OfflineTags)
      /\ UNCHANGED <<config, publicTags, metadata, store, linkUp, connected, destroyed, channels,
                     sent, metadataToMQTT, timer, txAge, checked, clockSet, sending, message,
                     broker, brokerAge>>
  BY DEF Invalidate, linkVars, channelVars, sendVars
<1>2. checked' \in BOOLEAN /\ rxAge' \in [FromTags(config) -> Int \cup {None}]
  BY <1>1, OfflineFacts DEF IInv, Booleans
<1>3. Types' /\ Booleans' /\ TimesInv' /\ LinkInv' /\ SentInv'
  BY <1>1, <1>2, OfflineFacts, ReceivingKeeps
<1>4. ReceivedInv'
  BY <1>1 DEF ReceivedInv
<1> QED BY <1>3, <1>4 DEF IInv

LEMMA MonitorRxKeeps == ASSUME IInv, MonitorRx PROVE IInv'
<1> DEFINE timedOut == {t \in DOMAIN rxAge : rxAge[t] # None /\ TimedOut(rxAge[t])}
           values   == [t \in timedOut |-> Null]
<1>1. /\ checked' = TRUE /\ rxAge' = Put(rxAge, [t \in timedOut |-> None]) /\ Emit(values)
      /\ UNCHANGED <<config, publicTags, metadata, store, linkUp, connected, destroyed, channels,
                     sent, metadataToMQTT, timer, txAge, clockSet, sending, message,
                     broker, brokerAge>>
  BY DEF MonitorRx, linkVars, channelVars, sendVars
<1>2. rxAge \in [FromTags(config) -> Int \cup {None}] /\ checked' \in BOOLEAN
  BY <1>1 DEF IInv, Types
<1>3. /\ rxAge' \in [FromTags(config) -> Int \cup {None}]
      /\ \A t \in FromTags(config) : rxAge'[t] = IF t \in timedOut THEN None ELSE rxAge[t]
  BY <1>1, <1>2 DEF Put
<1>4. /\ DOMAIN values = timedOut /\ timedOut \subseteq FromTags(config)
      /\ \A t \in DOMAIN values : values[t] = Null /\ values[t] \in Value
  BY <1>2, ValueAssumption
<1>5. Types' /\ Booleans' /\ TimesInv' /\ LinkInv' /\ SentInv'
  <2> HIDE DEF values
  <2> QED BY <1>1, <1>2, <1>3, <1>4, ReceivingKeeps
<1>6. ~ destroyed => \A t \in FromTags(config) :
         Emitted(t)' = IF t \in timedOut THEN Null ELSE Emitted(t)
  <2> HIDE DEF values, timedOut
  <2> QED BY <1>1, <1>4, EmitFacts
<1>7. config.dataFromMQTTTimeout \in Nat /\ None \notin Int
  BY ConfigFields, ValueAssumption DEF IInv, Types
<1>8. \A t \in FromTags(config) : t \notin timedOut /\ rxAge[t] # None =>
         rxAge[t] <= config.dataFromMQTTTimeout
  BY <1>2, <1>7 DEF TimedOut
<1>9. ReceivedInv'
  <2> HIDE DEF values, timedOut
  <2> QED BY <1>1, <1>3, <1>6, <1>8 DEF IInv, ReceivedInv
<1> QED BY <1>5, <1>9 DEF IInv

-----------------------------------------------------------------------------
(* Time                                                                    *)

LEMMA AgedType ==
    ASSUME NEW age \in Int \cup {None}, NEW by \in Int
    PROVE  /\ Aged(age, by) \in Int \cup {None}
           /\ Aged(age, by) = None <=> age = None
           /\ age # None => /\ Aged(age, by) \in Int /\ Aged(age, by) <= MaxAge
                            /\ age >= 0 /\ by >= 0 => Aged(age, by) >= 0
BY ValueAssumption, ClockAssumption DEF Aged, Capped

\* Where time passes, only ages and the publish timer change.
LEMMA TimeKeeps ==
    ASSUME IInv, rxAge' \in [FromTags(config) -> Int \cup {None}],
           checked' \in BOOLEAN, clockSet' \in BOOLEAN,
           UNCHANGED <<config, publicTags, metadata, store, outbox, linkUp, connected, destroyed,
                       channels, sent, metadataToMQTT, sending, message, broker>>
    PROVE  Types' /\ Booleans'
<1>1. Types'
  BY DEF IInv, Types, Idle
<1>2. Booleans'
  BY DEF IInv, Booleans
<1> QED BY <1>1, <1>2

LEMMA TickKeeps == ASSUME IInv, Tick PROVE IInv'
<1>1. /\ timer # 0 /\ timer' = (IF timer = NoTimer THEN NoTimer ELSE timer - 1)
      /\ txAge' = Aged(txAge, 1) /\ brokerAge' = Aged(brokerAge, 1)
      /\ rxAge' = [t \in DOMAIN rxAge |-> Aged(rxAge[t], 1)]
      /\ checked' = SparkPlug(config)
      /\ UNCHANGED <<config, publicTags, metadata, store, outbox, linkUp, connected, destroyed,
                     channels, sent, metadataToMQTT, clockSet, sending, message, broker>>
  BY DEF Tick, routerVars, linkVars, channelVars
<1>2. rxAge \in [FromTags(config) -> Int \cup {None}]
  BY DEF IInv, Types
<1>3. /\ rxAge' \in [FromTags(config) -> Int \cup {None}]
      /\ \A t \in FromTags(config) : rxAge'[t] = None <=> rxAge[t] = None
  <2>1. /\ DOMAIN rxAge' = FromTags(config)
        /\ \A t \in FromTags(config) : rxAge'[t] = Aged(rxAge[t], 1)
    BY <1>1, <1>2
  <2>2. \A t \in FromTags(config) : rxAge[t] \in Int \cup {None}
    BY <1>2
  <2>3. \A t \in FromTags(config) :
           rxAge'[t] \in Int \cup {None} /\ (rxAge'[t] = None <=> rxAge[t] = None)
    <3> TAKE t \in FromTags(config)
    <3>1. rxAge[t] \in Int \cup {None} /\ 1 \in Int
      BY <2>2
    <3>2. Aged(rxAge[t], 1) \in Int \cup {None} /\ (Aged(rxAge[t], 1) = None <=> rxAge[t] = None)
      BY <3>1, AgedType
    <3> QED BY <2>1, <3>2
  <2>4. rxAge' = [t \in DOMAIN rxAge' |-> rxAge'[t]]
    BY <1>1
  <2> QED BY <2>1, <2>3, <2>4
<1>4. checked' \in BOOLEAN /\ clockSet' \in BOOLEAN
  BY <1>1 DEF SparkPlug, IInv, Booleans
<1>5. Types' /\ Booleans'
  BY <1>1, <1>3, <1>4, TimeKeeps
<1>6. TimesInv'
  <2>1. config.minPublishInterval \in Nat /\ txAge \in Int /\ brokerAge \in Int
    BY ConfigFields DEF IInv, Types, TimesInv
  <2>2. txAge # None /\ brokerAge # None
    BY <2>1, ValueAssumption
  <2>3. /\ txAge' \in Int /\ txAge' <= MaxAge /\ (txAge >= 0 => txAge' >= 0)
        /\ brokerAge' \in Int /\ brokerAge' <= MaxAge
    BY <1>1, <2>1, <2>2, AgedType
  <2> QED BY <1>1, <2>1, <2>3 DEF IInv, TimesInv, NoTimer
<1>7. timer' = NoTimer <=> timer = NoTimer
  BY <1>1 DEF IInv, TimesInv, NoTimer
<1>8. LinkInv' /\ SentInv'
  BY <1>1, <1>7 DEF IInv, LinkInv, SentInv, MetadataFor, ToTags
<1>9. ReceivedInv'
  BY <1>1, <1>3 DEF IInv, ReceivedInv, Emitted
<1> QED BY <1>5, <1>6, <1>8, <1>9 DEF IInv

LEMMA SetClockKeeps == ASSUME IInv, SetClock PROVE IInv'
<1>1. PICK by \in ClockSteps :
         txAge' = Aged(txAge, by) /\ rxAge' = [t \in DOMAIN rxAge |-> Aged(rxAge[t], by)]
  BY DEF SetClock
<1>2. /\ clockSet' = TRUE
      /\ UNCHANGED <<config, publicTags, metadata, store, outbox, linkUp, connected, destroyed,
                     channels, sent, metadataToMQTT, timer, checked, sending, message, broker,
                     brokerAge>>
  BY DEF SetClock, routerVars, linkVars, channelVars, sendVars
<1>3. rxAge \in [FromTags(config) -> Int \cup {None}] /\ by \in Int
  BY ClockAssumption DEF IInv, Types
<1>4. rxAge' \in [FromTags(config) -> Int \cup {None}]
  BY <1>1, <1>3, AgedType
<1>5. Types' /\ Booleans'
  <2>1. checked' \in BOOLEAN /\ clockSet' \in BOOLEAN
    BY <1>2 DEF IInv, Booleans
  <2> QED BY <1>2, <1>4, <2>1, TimeKeeps
<1>6. TimesInv'
  <2>1. txAge \in Int /\ txAge # None
    BY ValueAssumption DEF IInv, TimesInv
  <2>2. txAge' \in Int /\ txAge' <= MaxAge
    BY <1>1, <1>3, <2>1, AgedType
  <2> QED BY <1>2, <2>2 DEF IInv, TimesInv
<1>7. LinkInv' /\ SentInv'
  BY <1>2 DEF IInv, LinkInv, SentInv, MetadataFor, ToTags
<1>8. ReceivedInv'
  BY <1>2 DEF IInv, ReceivedInv, Emitted
<1> QED BY <1>5, <1>6, <1>7, <1>8 DEF IInv

-----------------------------------------------------------------------------
(* The theorems                                                            *)

LEMMA StutterKeeps == ASSUME IInv, UNCHANGED vars PROVE IInv'
<1>1. UNCHANGED <<config, publicTags, metadata, store, outbox, linkUp, connected, destroyed,
                  channels, sent, metadataToMQTT, timer, txAge, rxAge, checked, clockSet,
                  sending, message, broker, brokerAge>>
  BY DEF vars, routerVars, linkVars, channelVars, timeVars, sendVars
<1>2. Types'
  BY <1>1 DEF IInv, Types, Idle
<1>3. Booleans' /\ TimesInv' /\ LinkInv'
  BY <1>1 DEF IInv, Booleans, TimesInv, LinkInv
<1>4. SentInv'
  BY <1>1 DEF IInv, SentInv, MetadataFor, ToTags
<1>5. ReceivedInv'
  BY <1>1, ReceivedStays
<1> QED BY <1>2, <1>3, <1>4, <1>5 DEF IInv

LEMMA PluginInvariance == Spec => []IInv
<1>1. Init => IInv
  BY InitPlugin
<1>2. IInv /\ [Next]_vars => IInv'
  <2> SUFFICES ASSUME IInv, [Next]_vars PROVE IInv'
    OBVIOUS
  <2>1. CASE FinishSending
    BY <2>1, FinishSendingKeeps
  <2>2. CASE Cycle
    BY <2>2, CycleKeeps
  <2>3. CASE DelayedPublish
    BY <2>3, DelayedPublishKeeps
  <2>4. CASE TagsChanged
    BY <2>4, TagsChangedKeeps
  <2>5. CASE MetadataChange
    BY <2>5, MetadataChangeKeeps
  <2>6. CASE Connect
    BY <2>6, ConnectKeeps
  <2>7. CASE Disconnect
    BY <2>7, DisconnectKeeps
  <2>8. CASE Error
    BY <2>8, ErrorKeeps
  <2>9. CASE Destroy
    BY <2>9, DestroyKeeps
  <2>10. CASE Message
    BY <2>10, MessageKeeps
  <2>11. CASE Invalidate
    BY <2>11, InvalidateKeeps
  <2>12. CASE MonitorRx
    BY <2>12, MonitorRxKeeps
  <2>13. CASE Tick
    BY <2>13, TickKeeps
  <2>14. CASE SetClock
    BY <2>14, SetClockKeeps
  <2>15. CASE UNCHANGED vars
    BY <2>15, StutterKeeps
  <2> QED BY <2>1, <2>2, <2>3, <2>4, <2>5, <2>6, <2>7, <2>8, <2>9, <2>10, <2>11, <2>12,
             <2>13, <2>14, <2>15 DEF Next
<1> QED BY <1>1, <1>2, PTL DEF Spec

\* Types hold, data that came over a lost connection is null, and data that is
\* older than the timeout is null after the next check (MQTTPlugin.js:199).
THEOREM WhatIsReceivedIsRenewed == Spec => []Inv
<1>1. IInv => Inv
  <2> SUFFICES ASSUME IInv PROVE Inv
    OBVIOUS
  <2>1. config \in Config /\ FromTags(config) \subseteq Tag /\ channels \subseteq Channel
    BY TypesChannels DEF IInv, Types
  <2>2. TypeOK
    BY <2>1 DEF IInv, Types, TimesInv, TypeOK, NoTimer
  <2>3. OfflineMeansNull /\ OldDataIsOffline
    BY DEF IInv, ReceivedInv, OfflineMeansNull, OldDataIsOffline
  <2> QED BY <2>2, <2>3 DEF Inv
<1> QED BY <1>1, PluginInvariance, PTL

\* Whatever changes while the plugin is connected, values, public tags or
\* metadata: nothing it publishes is left behind (MQTTPlugin.js:240-288).
THEOREM NoChangeIsMissed == Spec => []ChangesAreSent
<1>1. IInv => ChangesAreSent
  BY TypesChannels DEF IInv, SentInv, ChangesAreSent
<1> QED BY <1>1, PluginInvariance, PTL

\* After destroy() nothing is published, by no timer and in no cycle of a
\* router that still calls the plugin (MQTTPlugin.js:149).
THEOREM DestroyedStaysQuiet == Spec => DestroyedIsQuiet
<1> DEFINE Quiet == destroyed => timer' = NoTimer /\ UNCHANGED broker
<1>1. IInv /\ [Next]_vars => [Quiet]_vars
  <2> SUFFICES ASSUME IInv, Next, destroyed PROVE timer' = NoTimer /\ UNCHANGED broker
    OBVIOUS
  <2>1. ~ connected /\ ~ linkUp /\ timer = NoTimer
    BY DEF IInv, LinkInv
  <2>2. CASE FinishSending
    BY <2>1, <2>2 DEF FinishSending, Deliver
  <2>3. CASE Cycle
    BY <2>1, <2>3 DEF Cycle, DispatchCycleDone, TxMaybeRequired
  <2>4. CASE DelayedPublish
    BY <2>1, <2>4 DEF DelayedPublish, NoTimer
  <2>5. CASE TagsChanged
    BY <2>1, <2>5 DEF TagsChanged, OnMetadataChange, timeVars, sendVars
  <2>6. CASE MetadataChange
    BY <2>1, <2>6 DEF MetadataChange, OnMetadataChange, timeVars, sendVars
  <2>7. CASE Connect \/ Destroy
    BY <2>7 DEF Connect, Destroy
  <2>8. CASE Disconnect \/ Error
    BY <2>1, <2>8 DEF Disconnect, Error, timeVars, sendVars
  <2>9. CASE Message \/ Invalidate \/ MonitorRx
    BY <2>1, <2>9 DEF Message, Invalidate, MonitorRx, sendVars
  <2>10. CASE Tick \/ SetClock
    BY <2>1, <2>10 DEF Tick, SetClock, sendVars
  <2> QED BY <2>2, <2>3, <2>4, <2>5, <2>6, <2>7, <2>8, <2>9, <2>10 DEF Next
<1> QED BY <1>1, PluginInvariance, PTL DEF Spec, DestroyedIsQuiet

=============================================================================
