----------------------------- MODULE MQTTPlugin ------------------------------
(***************************************************************************)
(* One MQTT plugin (src/server/mqtt/MQTTPlugin.js) between the tag router  *)
(* and a broker.                                                           *)
(*                                                                         *)
(* The router is a tag map "store" and a batch "outbox" of what the plugin *)
(* has emitted and the router has not ingested.  A digest cycle applies    *)
(* the outbox and the changes of other plugins and ends with a call of     *)
(* dispatchCycleDone.  When the plugin emits outside of a cycle the router *)
(* may start one at once, inside the plugin's own call: the plugin emits   *)
(* its "MQTT value" tags between taking the values it will send and        *)
(* sending them, and "sending" is that moment.  Those tags themselves only *)
(* show values to users and are left out.                                  *)
(*                                                                         *)
(* Times are ages on the wall clock, as the code subtracts them; SetClock  *)
(* shifts ages but not running timers.                                     *)
(***************************************************************************)
EXTENDS MQTTChannels

CONSTANTS Config,      \* the configurations to choose from
          Value,       \* tag values
          Null,        \* the value of a tag that is offline
          BadValue,    \* a value of the wrong type, in a message
          Scale,       \* what multiplier and offset make of a value
          Items,       \* the metadata items to choose from, with each configuration
          ClockSteps,  \* how far the wall clock may be set, once
          MaxAge       \* ages above it are not told apart

ASSUME ConfigAssumption ==
    /\ Config \subseteq MQTTConfig
    /\ \A config \in Config :
          /\ config.minPublishInterval < MaxAge
          /\ config.dataFromMQTTTimeout + 1 < MaxAge
ASSUME ValueAssumption ==
    /\ Null \in Value /\ None \notin Value /\ None \notin Int
    /\ BadValue \notin Value \cup {None}
    /\ Scale \in [Value -> Value]
ASSUME ClockAssumption == MaxAge \in Nat /\ ClockSteps \subseteq Int

NoTimer == -1
Nothing == [t \in {} |-> None]   \* no tags

VARIABLES
  config,     \* _config
  publicTags, \* what the router's publicTags() returns
  metadata,   \* what the MetadataHandler has for each tag
  store,      \* the router's tag map
  outbox,     \* emitted by the plugin, not yet in the tag map
  linkUp,     \* the protocol handler's connection
  connected,  \* _connected
  destroyed,  \* destroy() has been called
  channels,   \* _toMQTTEnabledChannelConfigs
  sent,       \* sentValue of _toMQTTChannelStates, by internal tag
  metadataToMQTT, \* _metadataToMQTT
  timer,      \* time left on _publishDataTimeout
  txAge,      \* time since _lastTxTime
  rxAge,      \* time since each of _dataFromMQTTRxTimes, by internal tag
  checked,    \* the receive monitor has run since the last tick
  sending,    \* "no", or the kind of message being assembled
  message,    \* its values, by internal tag
  broker,     \* what the broker last received for each internal tag
  brokerAge,  \* real time since the broker last received data
  clockSet    \* the wall clock has been set

routerVars  == <<publicTags, metadata, store, outbox>>
linkVars    == <<linkUp, connected, destroyed>>
channelVars == <<channels, sent, metadataToMQTT>>
timeVars    == <<timer, txAge, rxAge, checked, clockSet>>
sendVars    == <<sending, message, broker, brokerAge>>
vars == <<config, routerVars, linkVars, channelVars, timeVars, sendVars>>

Idle == sending = "no"

\* f with the values of g, where g has one.
Put(f, g) == [t \in DOMAIN f |-> IF t \in DOMAIN g THEN g[t] ELSE f[t]]

\* The values of g over those of f, for the tags of both.
Over(g, f) ==
    [t \in DOMAIN f \cup DOMAIN g |-> IF t \in DOMAIN g THEN g[t] ELSE f[t]]

Capped(age) == IF age > MaxAge THEN MaxAge ELSE age

ToTags == InternalTags(Elements(config.channelsToMQTT))

-----------------------------------------------------------------------------
(* Publishing                                                              *)

\* _getChannelsToSend(), without sendAll.
ChannelsToSend(values) == {t \in InternalTags(channels) : values[t] # sent[t]}

ValuesOf(tags) == [t \in tags |-> store[t]]

\* _generateDataMessage() up to the emit: the values are taken and count as
\* sent.
Generate(kind, tags) ==
    /\ sent' = Put(sent, ValuesOf(tags))
    /\ sending' = kind
    /\ message' = ValuesOf(tags)

\* _publishAll().
PublishAll == Generate("all", InternalTags(channels)) /\ UNCHANGED <<broker, brokerAge>>

\* The handler's publishData() gives the message to the client.
Deliver(values) ==
    /\ broker' = IF linkUp THEN Put(broker, values) ELSE broker
    /\ brokerAge' = IF linkUp THEN 0 ELSE brokerAge

\* After the emit: publishData() or publishAll() of the protocol handler.
FinishSending ==
    /\ ~ Idle
    /\ Deliver(message)
    /\ txAge' = IF sending = "data" THEN 0 ELSE txAge
    /\ sending' = "no"
    /\ message' = Nothing
    /\ UNCHANGED <<config, routerVars, linkVars, channelVars, timer, rxAge, checked,
                   clockSet>>

\* Mutated form: SparkPlug is not told apart.
TxMaybeRequired_InputsOnly(inputsChanged) ==
    connected /\ (config.publishAllPublicTags \/ inputsChanged)

TxMaybeRequired(inputsChanged) ==
    connected /\ (config.publishAllPublicTags \/ inputsChanged \/ SparkPlug(config))

\* minWaitTime; 0 or less means now.
WaitTime(age) ==
    IF config.minPublishInterval > 0 THEN config.minPublishInterval - age ELSE 0

\* dispatchCycleDone(), once the tag map holds "values".  Inside a cycle the
\* emit is only queued, and the data goes out at once.
DispatchCycleDone(values, inputsChanged) ==
    LET toSend == ChannelsToSend(values)
        now    == [t \in toSend |-> values[t]]
    IN  IF TxMaybeRequired(inputsChanged) /\ timer = NoTimer /\ toSend # {}
        THEN IF WaitTime(txAge) > 0
             THEN timer' = WaitTime(txAge) /\ UNCHANGED <<sent, txAge, broker, brokerAge>>
             ELSE /\ sent' = Put(sent, now)
                  /\ txAge' = 0
                  /\ Deliver(now)
                  /\ UNCHANGED timer
        ELSE UNCHANGED <<sent, timer, txAge, broker, brokerAge>>

\* A digest cycle: the outbox and changes of other plugins go into the tag
\* map.  It runs from the event loop, or inside the plugin's emit.
Cycle ==
    /\ Idle \/ message # Nothing
    /\ \E others \in [Tag \ FromTags(config) -> Value \cup {None}] :
          LET changes == {t \in DOMAIN others : others[t] # None}
              values  == Put(Put(store, outbox), [t \in changes |-> others[t]])
              changed == {t \in Tag : values[t] # store[t]}
          IN  /\ changed # {} \/ outbox # Nothing
              /\ store' = values
              /\ IF changed # {}
                 THEN DispatchCycleDone(values, changed \cap ToTags # {})
                 ELSE UNCHANGED <<sent, timer, txAge, broker, brokerAge>>
    /\ outbox' = Nothing
    /\ UNCHANGED <<config, publicTags, metadata, linkVars, channels, metadataToMQTT,
                   rxAge, checked, clockSet, sending, message>>

\* Mutated form: publishes what changed during the call only.
DelayedPublish_Drops ==
    /\ Idle
    /\ timer = 0
    /\ timer' = NoTimer
    /\ UNCHANGED <<config, routerVars, linkVars, channelVars, txAge, rxAge, checked,
                   clockSet, sendVars>>

\* _doDelayedPublish().
DelayedPublish ==
    /\ Idle
    /\ timer = 0
    /\ timer' = NoTimer
    /\ IF connected /\ ChannelsToSend(store) # {}
       THEN Generate("data", ChannelsToSend(store)) /\ UNCHANGED <<broker, brokerAge>>
       ELSE UNCHANGED <<sent, sendVars>>
    /\ UNCHANGED <<config, routerVars, linkVars, channels, metadataToMQTT, txAge, rxAge,
                   checked, clockSet>>

-----------------------------------------------------------------------------
(* Tags and metadata                                                       *)

\* _updateMetadataToMQTT(): the metadata of the published tags.
MetadataFor(published, items) ==
    [t \in {u \in InternalTags(published) : items[u] # None} |-> items[t]]

\* _onMetadataChange(): publish everything when the metadata differs.
OnMetadataChange(published, items) ==
    /\ metadataToMQTT' = MetadataFor(published, items)
    /\ IF metadataToMQTT' # metadataToMQTT
       THEN /\ sending' = "all"
            /\ message' = ValuesOf(InternalTags(published))
            /\ UNCHANGED <<broker, brokerAge>>
       ELSE UNCHANGED sendVars

\* sentValue after _updateMQTTChannels() and the values just taken to be sent.
SentAfter(published, taken) ==
    [t \in Tag |-> IF t \in DOMAIN taken THEN taken[t]
                   ELSE IF t \in InternalTags(channels) \cap InternalTags(published)
                        THEN sent[t] ELSE None]

\* tagsChanged(): another plugin's tags come or go.
TagsChanged ==
    /\ Idle
    /\ \E others \in SUBSET (Tag \ FromTags(config)) :
          publicTags' = others \cup FromTags(config)
    /\ publicTags' # publicTags
    /\ channels' = ToMQTTEnabledChannelConfigs(config, publicTags')
    /\ OnMetadataChange(channels', metadata)
    /\ sent' = SentAfter(channels', message')
    /\ UNCHANGED <<config, metadata, store, outbox, linkVars, timeVars>>

\* The MetadataHandler announces a new item.  destroy() stops listening.
MetadataChange ==
    /\ Idle
    /\ \E t \in Tag, item \in Items[config] :
          /\ metadata[t] # item
          /\ metadata' = [metadata EXCEPT ![t] = item]
    /\ IF destroyed THEN UNCHANGED <<metadataToMQTT, sendVars>>
                    ELSE OnMetadataChange(channels, metadata')
    /\ sent' = SentAfter(channels, message')
    /\ UNCHANGED <<config, publicTags, store, outbox, channels, linkVars, timeVars>>

-----------------------------------------------------------------------------
(* The connection                                                          *)

OfflineTags == [t \in FromTags(config) |-> Null]
NoRxTimes   == [t \in FromTags(config) |-> None]

\* What the plugin emits reaches the router as long as it listens.
Emit(values) == outbox' = IF destroyed THEN outbox ELSE Over(values, outbox)

\* _handleConnect(): the JSON client connects, or SparkPlug asks for a birth
\* certificate, which it may do again and again.
Connect ==
    /\ Idle
    /\ ~ destroyed
    /\ linkUp => SparkPlug(config)
    /\ linkUp' = TRUE
    /\ connected' = TRUE
    /\ PublishAll
    /\ UNCHANGED <<config, routerVars, destroyed, channels, metadataToMQTT, timeVars>>

\* _handleDisconnect(), for the JSON handler only when it was connected.
Disconnect ==
    /\ Idle
    /\ linkUp \/ SparkPlug(config)
    /\ linkUp' = FALSE
    /\ connected' = FALSE
    /\ timer' = NoTimer
    /\ rxAge' = NoRxTimes
    /\ Emit(OfflineTags)
    /\ UNCHANGED <<config, publicTags, metadata, store, destroyed, channelVars, txAge,
                   checked, clockSet, sendVars>>

\* _handleError(), for SparkPlug only: the handler stops the client.  The
\* publish timer runs on.
Error ==
    /\ Idle
    /\ SparkPlug(config)
    /\ linkUp' = FALSE
    /\ connected' = FALSE
    /\ UNCHANGED <<config, routerVars, destroyed, channelVars, timeVars, sendVars>>

\* Mutated form: a delayed publish stays scheduled.
Destroy_KeepsTimer ==
    /\ Idle
    /\ ~ destroyed
    /\ destroyed' = TRUE
    /\ connected' = FALSE
    /\ linkUp' = FALSE
    /\ UNCHANGED <<config, routerVars, channelVars, timeVars, sendVars>>

\* destroy().  The feature has already removed the router's listeners, but
\* the router goes on calling the plugin until it gets its new list.
Destroy ==
    /\ Idle
    /\ ~ destroyed
    /\ destroyed' = TRUE
    /\ connected' = FALSE
    /\ linkUp' = FALSE
    /\ timer' = NoTimer
    /\ UNCHANGED <<config, routerVars, channelVars, txAge, rxAge, checked, clockSet,
                   sendVars>>

-----------------------------------------------------------------------------
(* Receiving                                                               *)

RxAgeAfter(values) == Put(rxAge, [t \in DOMAIN values |-> 0])

\* _setValuesFromMQTT(): a message with a value for some channels.  A value of
\* the wrong type is ignored.
Message ==
    /\ Idle
    /\ linkUp
    /\ \E tags \in (SUBSET FromTags(config)) \ {{}} :
       \E received \in [tags -> Value \cup {BadValue}] :
          LET accepted == {t \in tags : received[t] # BadValue}
              values   == [t \in accepted |-> Scale[received[t]]]
          IN  /\ Emit(values)
              /\ rxAge' = RxAgeAfter(values)
    /\ UNCHANGED <<config, publicTags, metadata, store, linkVars, channelVars, timer,
                   txAge, checked, clockSet, sendVars>>

\* SparkPlug's scada host goes offline.
Invalidate ==
    /\ Idle
    /\ SparkPlug(config)
    /\ rxAge' = NoRxTimes
    /\ Emit(OfflineTags)
    /\ UNCHANGED <<config, publicTags, metadata, store, linkVars, channelVars, timer,
                   txAge, checked, clockSet, sendVars>>

\* Mutated form: off by one.
TimedOut_Late(age) == age > config.dataFromMQTTTimeout + 1

TimedOut(age) == age > config.dataFromMQTTTimeout

\* The receive monitor, which nobody stops.  SparkPlug needs none.
MonitorRx ==
    /\ Idle
    /\ ~ checked
    /\ checked' = TRUE
    /\ LET timedOut == {t \in DOMAIN rxAge : rxAge[t] # None /\ TimedOut(rxAge[t])}
       IN  /\ rxAge' = Put(rxAge, [t \in timedOut |-> None])
           /\ Emit([t \in timedOut |-> Null])
    /\ UNCHANGED <<config, publicTags, metadata, store, linkVars, channelVars, timer,
                   txAge, clockSet, sendVars>>

-----------------------------------------------------------------------------
(* Time                                                                    *)

Aged(age, by) == IF age = None THEN None ELSE Capped(age + by)

\* One unit of real time.  Timers that have expired are served first.
Tick ==
    /\ Idle
    /\ timer # 0
    /\ checked
    /\ timer' = IF timer = NoTimer THEN NoTimer ELSE timer - 1
    /\ txAge' = Aged(txAge, 1)
    /\ rxAge' = [t \in DOMAIN rxAge |-> Aged(rxAge[t], 1)]
    /\ brokerAge' = Aged(brokerAge, 1)
    /\ checked' = SparkPlug(config)
    /\ UNCHANGED <<config, routerVars, linkVars, channelVars, clockSet, sending, message,
                   broker>>

\* The wall clock is set, forward or back.
SetClock ==
    /\ Idle
    /\ ~ clockSet
    /\ clockSet' = TRUE
    /\ \E by \in ClockSteps :
          /\ txAge' = Aged(txAge, by)
          /\ rxAge' = [t \in DOMAIN rxAge |-> Aged(rxAge[t], by)]
    /\ UNCHANGED <<config, routerVars, linkVars, channelVars, timer, checked, sendVars>>

-----------------------------------------------------------------------------

\* start() has been called: all tags are offline, nothing is connected.
Init ==
    /\ config \in Config
    /\ publicTags = FromTags(config)
    /\ metadata = [t \in Tag |-> None]
    /\ store = [t \in Tag |-> None]
    /\ outbox = OfflineTags
    /\ linkUp = FALSE /\ connected = FALSE /\ destroyed = FALSE
    /\ channels = ToMQTTEnabledChannelConfigs(config, publicTags)
    /\ sent = [t \in Tag |-> None]
    /\ metadataToMQTT = Nothing
    /\ timer = NoTimer
    /\ txAge = MaxAge
    /\ rxAge = NoRxTimes
    /\ checked = SparkPlug(config)
    /\ sending = "no" /\ message = Nothing
    /\ broker = [t \in Tag |-> None]
    /\ brokerAge = MaxAge
    /\ clockSet = FALSE

Next ==
    \/ FinishSending \/ Cycle \/ DelayedPublish
    \/ TagsChanged \/ MetadataChange
    \/ Connect \/ Disconnect \/ Error \/ Destroy
    \/ Message \/ Invalidate \/ MonitorRx
    \/ Tick \/ SetClock

Spec == Init /\ [][Next]_vars

\* The code on the stack runs on, and timers are served as time passes.
FairSpec == Spec /\ WF_vars(FinishSending) /\ WF_vars(DelayedPublish)
                 /\ WF_vars(MonitorRx) /\ WF_vars(Tick)

-----------------------------------------------------------------------------
(* Properties                                                              *)

\* The value the system will have for a tag once the router ingests it.
Emitted(t) == IF t \in DOMAIN outbox THEN outbox[t] ELSE store[t]

Published == InternalTags(ToMQTTEnabledChannelConfigs(config, publicTags))

\* The shape of the state.  The wait for a delayed publish never exceeds the
\* interval, unless the clock is set back.
TypeOK ==
    /\ config \in Config
    /\ publicTags \subseteq Tag /\ channels \subseteq Channel
    /\ store \in [Tag -> Value \cup {None}] /\ DOMAIN outbox \subseteq Tag
    /\ sent \in [Tag -> Value \cup {None}] /\ broker \in [Tag -> Value \cup {None}]
    /\ \A t \in DOMAIN metadataToMQTT : metadataToMQTT[t] \in Items[config]
    /\ timer \in Nat \cup {NoTimer} /\ (clockSet \/ timer <= config.minPublishInterval)
    /\ \A age \in {txAge, brokerAge} : age <= MaxAge
    /\ sending \in {"no", "data", "all"}

\* While the plugin is connected and waits for nothing, every tag it should
\* publish counts as sent with its present value: a change of value, of the
\* public tags or of metadata is never missed.  A tag that has just become
\* public waits for the next cycle, unless it has metadata.
ChangesAreSent ==
    Idle /\ connected /\ timer = NoTimer =>
        \A t \in Published :
            \/ sent[t] = store[t]
            \/ sent[t] = None /\ metadata[t] = None /\ t \notin ToTags

\* MQTTPlugin.js:84 calls a channel state "stored state on the value [...]
\* sent": the broker's last value of a tag is the one that counts as sent.
SentIsWhatWasSent ==
    Idle /\ connected => \A t \in InternalTags(channels) : broker[t] = sent[t]

\* MQTTConfig.js:64 calls minPublishInterval the "minimum interval, in
\* milliseconds, for publishing data".  A birth message may break it.  This
\* does not hold: the message after a birth message does not wait for it.
PublishesAreSpaced ==
    [][brokerAge # 0 /\ brokerAge' = 0 =>
          brokerAge >= config.minPublishInterval \/ sending = "all" \/ clockSet]_vars

\* MQTTPlugin.js:316 says that "publish all" filters out "tags that either
\* come from this plugin, or are already published by this plugin".  This does
\* not hold: the condition's operators bind otherwise than it is written.
OwnTagsAreNotExtra ==
    ExtraTags(config, publicTags) \cap FromTags(config) = {}

\* A destroyed plugin publishes nothing and has no publish timer, although the
\* router goes on calling it for a while.
DestroyedIsQuiet ==
    [][destroyed => timer' = NoTimer /\ UNCHANGED broker]_vars

\* When the connection is lost nothing that came over it stays in the system.
OfflineMeansNull ==
    ~ connected /\ ~ destroyed /\ ~ SparkPlug(config) =>
        \A t \in FromTags(config) : Emitted(t) = Null

\* A value from MQTT that has not been renewed for the timeout is replaced by
\* null at the next check.
OldDataIsOffline ==
    ~ SparkPlug(config) /\ checked /\ ~ destroyed /\ ~ clockSet =>
        \A t \in FromTags(config) :
            Emitted(t) # Null => rxAge[t] # None /\ rxAge[t] <= config.dataFromMQTTTimeout

\* Types, and what has come from MQTT: it is in the system only as long as it
\* is renewed over a connection.
Inv == TypeOK /\ OfflineMeansNull /\ OldDataIsOffline

\* A changed value of a configured channel goes out, or the connection goes.
ChangesGoOut ==
    \A t \in Tag :
        (connected /\ t \in ToTags /\ sent[t] # store[t])
            ~> (sent[t] = store[t] \/ ~ connected)

=============================================================================
