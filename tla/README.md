# Verification of the iron-pi webapp

TLA+ models of the Node.js server that runs on the Iron Pi (and of the parts of
its browser client that keep state), TLC runs that check them on small
instances, and TLAPS proofs. Paths below are relative to the repository root.

## 1. The system

The server connects *data plugins* (local I/O hardware, MQTT clients, GraphQL
subscribers) to one *tag map*: a table from tag names to time/value pairs.

    SPI daemon --deviceInputStates--> LocalIODataPlugin --data--> DataRouter
    MQTT broker ---message---> MQTTJSON/SparkPlug handler -> MQTTPlugin --data--^
    DataRouter --inputsChanged / dispatchCycleDone / tagsChanged--> every plugin
        LocalIODataPlugin --outputs--> SPI daemon, MQTTPlugin --publish--> broker,
        GraphQLDataPlugin --publish--> PubSub --> web clients
    GraphQL mutation -> Sequelize model -> after hooks -> LocalIOFeature /
        MQTTFeature -> new plugin lists and configurations for the DataRouter

JavaScript runs one callback at a time, so two handlers never interleave inside
one another, except at the places that make this system hard:

* a handler calls plugins, and a plugin may emit into the caller (re-entrancy);
* an `await` (database, shell command, file) lets anything happen before the
  rest of the handler runs;
* timers, sockets and debounced events arrive in any order.

| component | source | state | operations |
|---|---|---|---|
| Tag router | `src/server/data-router/DataRouter.js` | plugin list, listeners, routing tables, tag map, pending batch, rate limit timer, locals of a digest cycle | `dispatch`, `_runDispatchQueue`, `setPlugins`, `_pluginIOsChanged`, `stop` |
| Mapping calculation | `src/server/data-router/calculateMappingInfo.js` | none | one pure function |
| GraphQL data plugin | `src/server/data-router/GraphQLDataPlugin.js` | none | publishes each changed tag at the end of a cycle |
| Local I/O plugin and feature | `src/server/localio/` | channel configurations, last raw inputs, output values, published channel states | `_channelUpdated`, `_handleDeviceInputStates`, `inputsChanged`, `dispatchCycleDone` |
| Control logic, calibration | `src/server/calc/` | none | `evaluateControlLogic`, `Calibrator.calibrate` |
| MQTT plugin | `src/server/mqtt/MQTTPlugin.js` | tags last published, publish timer, receive monitors, connection status | `_onConnect`, `_onDisconnect`, `inputsChanged`, `dispatchCycleDone`, `_publish`, `destroy` |
| MQTT client handlers | `src/server/mqtt/protocols/` | client object, recreate timer | constructor, connect/close/error handlers, `destroy` |
| MQTT feature | `src/server/mqtt/MQTTFeature.js` | one plugin for each configuration, debounced change event | after-create/update/destroy hooks of the models |
| Connect mode | `src/server/device/ConnectModeHandler.js`, `AccessCodeHandler.js`, `LEDHandler` | button state, timers, access code | button events, timeouts |
| Network settings | `src/server/network-settings/` | `/etc/network/interfaces`, `/etc/resolv.conf` | `getNetworkState`, `setMode` |
| Server, database | `src/server/Server.js`, `initDatabase.js`, `sequelize/` | running flag, features, HTTP server, copied and applied migrations | `start`, `stop`, hot reload |
| Local I/O and metadata mutations | `src/server/localio/graphql/mutation/`, `src/server/graphql/mutation/`, `src/server/metadata/` | rows of channels and metadata, the plugin's channels, the metadata cache | `updateLocalIOChannel`, `updateLocalIOChannelCalibration`, `createMetadataItem`, `updateMetadataItem`, hooks |
| Accounts | `src/server/auth/`, `graphql/mutation/changePassword.js`, `setSSHEnabled.js`, `device/SSHHandler.js`, `src/client/auth/`, `src/client/apollo/client.js` | user, JWT secret, the system's password and SSH service, the browser's token | login, token check, password change, SSH, resending, logout |
| Settings, GraphQL schema | `src/server/graphql/`, `models/` | database rows | queries, subscriptions |
| Browser client | `src/client/`, `src/universal/` | Redux store, Apollo cache, forms | UI |


### What is hard, and what makes each part correct

Every place is listed under "hazards" in `PROJECT.json`, with the properties
that watch it. In short:

* **Tag router.** Plugins emit from inside the calls a digest cycle makes; a
  sanity count may give a cycle up; a timer postpones ingestion by a wall clock
  that may be set; plugins are replaced while data is on its way; what a plugin
  declares is computed at every call, and may change without an event. Correct
  means: every reader has been handed the present value of what it reads, every
  change is reported at the end of a cycle, all readers of a pass see one tag map,
  accepted data is ingested, the cached tables are those of the declarations that
  plugins have announced.
* **MQTT plugin.** A change may have to wait for the publish interval, while the
  connection, the set of public tags or the metadata change. Correct means: no
  change is missed, what arrived over a lost connection is taken offline, old
  data is taken offline, a destroyed plugin is quiet.
* **MQTT client handlers.** Late events of old clients meet timers that make new
  ones. Correct means: one live client, none after `destroy`, a new one after an
  error, and the connect/disconnect protocol the plugin relies on.
* **MQTT feature.** Hooks read a row back asynchronously; several mutations
  overlap; the router gets the list a second later. Correct means: no leaked
  plugin (client), what runs is what the row says, a destroyed plugin is never
  started, the router has the list in the end.
* **Local I/O.** An input passes through up to three passes and the end of a
  cycle before an output follows; channels are reconfigured meanwhile. Correct
  means: inputs and outputs agree with the present configuration whenever the
  router is at rest, also when channels share a tag, for which the router may take
  no value at all.
* **Connect mode.** Presses are only seen in sampled status messages and timed by
  a clock that may be set. Correct means: no press is missed, connect mode ends,
  each network mode is commanded once and in order.
* **Network settings.** A file is read, rewritten in place and an interface
  restarted, by calls that overlap, fail half-way or lose power. Correct means:
  other sections survive what can be survived, one mode is in force after each
  write, the interface runs in the mode of the file after each restart.
* **Calculations.** Boundary cases of interpolation; three-valued logic.
* **Channel and metadata mutations.** A mutation waits for the database several
  times; other requests change the same rows meanwhile, and two copies of the
  rows follow by hooks that carry what was read. Correct means: a mutation that
  is alone with its channel changes what it names and nothing else, and the
  copies agree with the database at rest.
* **Server start.** Migrations are listed while they are still being copied,
  applied and recorded in two steps; channels are created in two steps each, all
  at once; the device may lose power anywhere. Correct means: what serves is
  complete and can start again, what users configured is kept, a device on which
  all is in place gets to serve.
* **Accounts.** The secret of all tokens is made by the first request that needs
  it; a password is changed in two places, SSH by two commands; the browser sends
  again what was not answered. Correct means: tokens survive every crash, a
  password counts only if it was the password, what is acknowledged is complete,
  every request ends.

## 2. Modules

| module | models | rests on |
|---|---|---|
| `MappingInfo` | `calculateMappingInfo`: providers, duplicates, problems, public tags | |
| `DataRouter` | the router; plugins are its environment | `MappingInfo` |
| `DataRouterProofs` | theorems about both: digest cycles; plugins, tables and mappings | `DataRouter` |
| `MQTTChannels` | which channels an MQTT configuration has enabled, under which names | |
| `MQTTPlugin` | one MQTT plugin between the router and a broker | `MQTTChannels` |
| `MQTTPluginProofs` | theorems about it | `MQTTPlugin` |
| `MQTTLink` | what a protocol handler promises to the plugin (abstract) | |
| `MQTTClient` | the two protocol handlers and their client objects | refines `MQTTLink` |
| `MQTTClientProofs` | theorems about them, the refinement among them | `MQTTClient` |
| `MQTTFeature` | configurations in the database become running plugins | |
| `MQTTFeatureProofs` | theorems about it | `MQTTFeature` |
| `ControlLogic` | `evaluateControlLogic` | |
| `Calibrator` | `Calibrator`, with exact fractions | |
| `Calculations` | an input that is recalibrated, an output whose tags change | `Calibrator`, `ControlLogic` |
| `LocalIO` | the local I/O plugin on a tag map | `ControlLogic` |
| `LocalIOProofs` | theorems about the plugin and the calculations | `LocalIO`, `Calculations` |
| `ConnectMode` | the connect button | |
| `NetworkSettings` | `/etc/network/interfaces` and its writers | |
| `DeviceProofs` | theorems about the button and the network settings | `ConnectMode`, `NetworkSettings` |
| `ChannelMutations` | requests that change channels, calibrations and metadata, and the copies of the rows | |
| `ServerStart` | the server process from launch to service, with these requests | extends `ChannelMutations` |
| `ServerStartProofs` | theorems about both | `ServerStart` |
| `Accounts` | logins, tokens, passwords, SSH, and the browser that asks for them | |
| `AccountsProofs` | theorems about it | `Accounts` |

An `MC` module gives a specification small constants; its `.cfg` files are the
runs. A definition `X_Word` that stands right before `X` is a mutated form of
`X`: a plausible bug, which the run of the property it is listed with in
`PROJECT.json` has to find. No specification uses it.

### How they correspond to the code

**DataRouter.** A digest cycle (`_runDispatchQueue`) calls plugins, and a plugin
may emit from inside a call, so the cycle is a sequence of steps: `phase` says
which loop is running, `outer`/`inner` are the two sanity counts, `toNotify` and
`toFinish` what is left of the loop over plugins. Events from outside are only
enabled at rest. `InputsChanged(k)` and `DispatchCycleDone(p)` are one call each,
with what the plugin emits from it; the order in which plugins are called is
left open. `dispatch` (sources, rounding, cancelling, wait) is `Dispatch`;
`setPlugins` with its listeners, `start()` calls and `destroy()` calls is
`InstallPlugins` and `StartPlugin`; `_pluginIOsChanged` is `PluginIOsChanged`, and
its loop of `tagsChanged()` calls, from which plugins may emit, is `TagsChanged`;
`stop` is `Stop`. `ios` is what `ioMappings()` would return now, in the order of
the mappings. It changes with an event (`IOsChanged`) or without one
(`IOsChangeSilently`): the mappings of the Local I/O plugin depend on the analog
hardware that is detected at the time (`LocalIODataPlugin.js:160`), and nothing
emits `iosChanged` when it is found or lost. The tables then stay those of
`readIOs`, what the last `_pluginIOsChanged` read, and `silent` has the plugins
that have changed and announced nothing since. `_enforceTagSources` uses both: the
cached provider, and of its live mappings the first one of the tag (`IsSettable`).
`seen`, `finished`, `knownTags`, `readIOs`, `silent` and `aborted` are history
variables.

**MQTTPlugin.** The router is abstracted to a tag map `store` and the batch
`outbox` the plugin has emitted; `Cycle` is a digest cycle that ends with the
plugin's `dispatchCycleDone`. Between assembling and sending a message the
plugin emits its "MQTT value" tags; `sending` is that moment, in which another
cycle may run. The tags themselves only show values to users and are left out.
`tick`s of time age everything; `SetClock` shifts what is computed from
`Date.now()` but not running timers. The names of the tags of a configuration
are distinct and only enabled channels are listed.

**MQTTClient.** One constant set of client objects, one of which is current. The
client libraries are outside of `src/`: a SparkPlug client that was ended emits
nothing more, and a JSON client (mqtt.js) either likewise (`endIsFinal`) or
emits late errors and closes.

**MQTTFeature.** A mutation writes the row, reads it back (`Fetch`, `FetchFails`)
and goes on with what it read (`Saved`, `Deleted`). The debounced
`pluginsChanged` is a flag. Ids are never reused. `suspect` marks ids whose last
mutations overlapped or failed, `unmade` a constructor that threw.

**LocalIO.** Of the router this module has pending data, passes and the end of a
cycle. `undefined` and `null` are one value, `false`/`true` are 0/1. The module
has digital channels. Analog ones have their calibration in `Calculations`, and two
effects that are left out here: a calibrator that throws, as it does on duplicate
points (`DuplicatesAreRemoved`), ends every `_updateData` before its emit
(`LocalIODataPlugin.js:287`) and so stops the data of all channels, and the raw
tag of an analog input is declared only while the hardware supports it. Nothing keeps channels from
having the same tag. Two of them that are both settable, or both not, leave the
tag without a provider (`calculateMappingInfo.js:57`), and the router deletes its
value from every emit (`DataRouter.js:213`): `Provided` and `EnforceTagSources`.
Of one settable channel and one that is not, the plugin remains the provider,
`_updateData` writes their values in the order of the channels, and the last one
(`Owner`) decides. The instance has both kinds of pairs. No other plugin is
assumed to declare the tag of a local channel; what happens then is in
`DataRouter`.

**Calculations.** `Calibrator` and `ControlLogic` are pure operators; the numbers
are integers, a calibrated value is a fraction, and the rounding of floating
point is left out. `Calculations` gives them an input that is read and
recalibrated and an output whose tags come and go, so that properties can
relate results before and after a step.

**ConnectMode.** `Message` is a status message of the device with any of its
fields missing; times are scaled down in their order. **NetworkSettings.** The
four address fields of a section are one; the queue in `setMode` is left out
because nothing ever assigns `_setModeInProgress`. A write opens and truncates the
file (`Truncate`) and then writes from its beginning (`WriteFile`), so that a text
that another call has written in between may remain behind it. Reading or opening
may fail (`FileFails`), and so may the write after the truncation, when the disk is
full, say (`WriteFails`): `setNetworkSettings` then ends before
`_restartNetworking` and leaves the file truncated or partly written, as does a
loss of power (`CutOff` is what the two have in common). `ModesInForce` is what
`ifup` finds in the section.

**ChannelMutations.** A request is a record in `requests`: `at` names the `await`
it stands at, the other fields are its local variables; every action is what
runs between two awaits. `rows` and `metadata` are the tables, `held` the
channels of `LocalIODataPlugin`, `cache` what `MetadataHandler` holds. `UPDATE`
statements name columns (`Merge`); the configuration is one JSON column and is
replaced as a whole. A configuration is a mode and a calibration. `overlapped`
is a history variable: the channels and tags that two requests used at once.

**ServerStart.** `phase` is the `await` of `Server.start`, with `initDatabase`,
`migrate` and `_loadChannels` inlined; `Launch` is systemd. The migrations are
those of the features, numbered by name, in one directory; a copy that is cut off
is `"torn"`. A migration is applied in one step and recorded in the next. A start
that finds no tables fails where the channels are loaded. `_channels` is indexed
by channel: the mismatch of index and id that follows from rows that are no
prefix of the channels is left out, and so is an outage of the database while
the server serves.

**Accounts.** As in `ChannelMutations`, a request is where it waits and what it
holds. The one user is root. `promise` is the memoized promise of `getJWTSecret`;
a token is the number of the secret it is signed with. Resending is the
browser's (`Refused`, `Retry`); the waits of its retry link are left out, and so
are tokens of subscriptions, which keep the connection they came with. A query of
the user, its update and the shell commands may fail, and the request with them
(`RequestFails`). `since`
(the passwords root has had since the request was made), `alone` and `rough` are
for the properties.

## 3. What the runs check

| run | question | shows |
|---|---|---|
| `router_dispatch` | digest cycles: two plugins whose data loops, both sanity counts, rounding, cancelling, clock jumps | readers and reports are complete, passes see one tag map, cycles end, accepted data is ingested |
| `router_registry` | plugins are replaced and remapped, also without an event, while data is on its way, and emit from `tagsChanged()` | `RegistryIsCurrent` (tables and public tags), `MappingIsReported` (one provider or a report), listeners stay right, `ReadersAreCurrent` through every remapping that is announced |
| `mqtt_publish` | one plugin, four configurations: connections, interval, tags, metadata, timeouts, destruction | changes are never missed and go out, offline data is null, a destroyed plugin is quiet |
| `mqtt_client` | both handlers through errors, recreation and destruction | one live client, the promise of `MQTTLink`, recovery |
| `mqtt_feature` | overlapping mutations, unusable rows, delayed lists | no leaked client, rows and plugins agree, dead plugins stay down, the router catches up |
| `calc` | all calibrations of up to three points, all logics of up to three conditions | `CalibrationIsSound` (points are met, rising stays rising), known results are final |
| `calibrator_duplicates` | are duplicate points removed? | no: the constructor throws |
| `connect_mode` | presses of all lengths, lost reports, a clock that is set | presses are seen, connect mode is timed, commands come in order |
| `network_settings` | three calls, two at a time; reads, writes and restarts that fail; power loss | `FileIsSound` (sections survive unless a write is cut off, one mode is in force after each write that is not), live agrees with the file after a restart |
| `local_io` | two channels, reconfigured and commanded, which may share a tag | `ValuesFollow`: the tags that are provided and the outputs agree with the configuration at rest; forced outputs reach the device |
| `server` | two channels, two migrations; a new device or one in service; two crashes, two requests | what serves is complete and restartable, copies agree, mutations are exact, starts keep data, an intact device gets to serve |
| `accounts` | two requests at a time, three in all; a failure, a restart or reboot | tokens stay valid, passwords are checked against the password of the time, what is acknowledged is complete, requests end |

### Bounds, and why they are enough

* Router: two or three plugins (one that replaces another with the same key),
  two or three tags, limits 2 and 3 for the sanity counts (the code has 20 for
  the outer loop, `DataRouter.js:293`, and 50 for the inner one, `:298`): the smallest at which a cycle can go on, be extended by
  `dispatchCycleDone`, and be given up. Three values are needed for a value
  that is rounded to another and for one that cancels a pending change. The
  clock reads 0 or 3 (2 in `router_registry`) in any order, with an interval of
  2: before, at and after the wait.
* MQTT plugin: one tag each way, which may clash; the interval is 0 or 2 and ages
  stop at 3, above every threshold; the clock is set once. Metadata exists with
  two configurations only.
* MQTT client: four client objects, three of which may be old ones.
* MQTT feature: two ids, two mutations at a time, five writes, of which one is
  unusable.
* Connect mode: three presses, time up to 9, the clock is set once.
* Network settings: two calls at a time, three in all, and three files, with one
  address: what an address says is copied, never compared, and the two modes tell
  settings apart. The calls are interchangeable, so that symmetry is sound; both
  properties are invariants.
* Local I/O: two channels, one of them read by the condition of the other. Channel
  0 may have the tag of channel 1 as an input (no provider), as a settable output
  (two sources of one plugin, of which the later channel gives the value), or not
  at all. Disabled channels are left to the proofs, which hold of all
  configurations.
* Server: two channels, of which one has an analog input; two migrations, of which
  one cannot be applied twice, so that their order, a list that has one and not
  the other, and a crash between applying and recording all occur; two crashes
  (one inside the start that follows the other) and two requests.
* Accounts: two passwords, two requests at a time and three in all (a login, then
  two that overlap), one failure, one restart or reboot.

`CHECK_DEADLOCK FALSE` stands where the program really may stop: the router after
`stop()`, a destroyed MQTT client, a server whose start has failed, and where a
bound on calls, mutations, writes or requests has been used up.

### Fairness, and why the code justifies it

Code that has been called runs to its end, timers expire and are served, the
database answers, sockets that were ended close, and a cycle of the router ends
(`CyclesEnd` of `DataRouter` is the reason). `LocalIO` assumes in addition that
the router comes to rest again and again (`[]<>AtRest`): a plugin that answers
each cycle with new data would keep it busy. Nothing assumes that users, brokers
or the network do anything, except that a connection that stays up is needed for
changes to go out. `ServerStart` assumes that systemd launches the server when it
has ended (`Restart=always` of `src/os/etc/systemd/system/iron-pi-webapp.service`),
that Postgres comes up, and that what `Server.start` waits for is answered.
`Accounts` assumes the same of requests, of the secret, of the browser's timer
that ends a session (`onForbidden`) and of a restart.

### Statements of the repository that the code does not keep

`DuplicatesAreRemoved` has a run that refutes it (see "findings" in
`PROJECT.json`): the loop over the segments counts the raw points and throws on
duplicates (`src/server/calc/Calibrator.js:37`, stated at `:23`).

The others are definitions in the modules, with the reason in their comment; put
in the place of the properties of the run of their module, TLC refutes each
within a minute:

* `SystemTagsAreKnown` (`DataRouter`): plugins are not told of tags that are
  internal (`DataRouter.js:415`), although `PluginTypes.js:34` says "called when
  system tags are added or removed".
* `TablesAreLive` (`DataRouter`): the Local I/O plugin changes its mappings with the
  analog hardware and emits no `iosChanged` (`LocalIODataPlugin.js:160`), although
  `PluginTypes.js:43` says it is "emitted by a DataPlugin when it has changed which
  tags it reads from or writes to". The router keeps the old tables until the next
  event.
* `AdditionalSourcesAreTheOthers` (`DataRouter`): of a tag with several sources
  the wrong one is left out of the list (`calculateMappingInfo.js:65`,
  `PluginConfigTypes.js:50`).
* `SentIsWhatWasSent` (`MQTTPlugin`): a message is overtaken by a newer one that a
  digest cycle inside its own emit publishes; the broker keeps the older value
  (`MQTTPlugin.js:400`, stated at `:84`).
* `PublishesAreSpaced` (`MQTTPlugin`): the publish of a birth message does not
  count for the minimum interval (`MQTTPlugin.js:372`, `MQTTConfig.js:64`).
* `OwnTagsAreNotExtra` (`MQTTPlugin`): tags from MQTT are published back
  (operator precedence at `MQTTPlugin.js:322`, comment at `:316`).
* `ChangesAreAnnounced` (`MQTTFeature`): a constructor that throws leaves the old
  plugin destroyed and the change unannounced (`MQTTFeature.js:86`,
  `PluginTypes.js:75`).
* `SettingsAreRead` (`NetworkSettings`): commented addresses are not read back
  (`NetworkSettingsHandler.js:112`, comment at `:95`).
* `CommandsAreObeyed` (`LocalIO`): commands that reach the plugin while the
  channel is in another mode are forgotten, and repeating them changes nothing (`LocalIODataPlugin.js:247`,
  stated at `:62`).
* `FailedStartEnds` (`ServerStart`): `Server.start` swallows its errors
  (`Server.js:330`), so that the handler that ends the process
  (`src/server/index.js:8`) never runs. Set `MaxCrashes` to 0.
* `NewServerServes` (`ServerStart`): `await` of an array does not wait, Umzug may
  list the migrations before they are copied (`initDatabase.js:39`).
* `CrashesAreSurvived` (`ServerStart`): a channel whose metadata was created and
  whose row was not makes every later start fail (`LocalIODataPlugin.js:126`).
* `CalibrationKeepsMode` (`ServerStart`): a calibration writes back the mode that
  was read before another mutation (`updateLocalIOChannelCalibration.js:36`).
* `SessionsLast` (`Accounts`): a late 403 for an older token ends a newer session
  (`src/client/apollo/client.js:51`).
* `RightPasswordLogsIn` (`Accounts`): `once` keeps a promise that was rejected, so
  that after one failure of the database nobody can log in until a restart
  (`jwtSecretHandler.js:11`).
* `RejectedChangesNothing` (`Accounts`): a change whose answer was lost is sent
  again and turned down, having been made (`client.js:52`).
* `SSHIsRepaired` (`Accounts`): SSH that is enabled and not running is left so
  (`SSHHandler.js:34`).

## 4. What is proved

All theorems hold for every value of the constants that the named assumptions
allow: any number of plugins, tags, values, clients, configurations, channels,
conditions, calibration points, migrations, passwords, requests and crashes, any
file, any durations and any clock. Every invariant and action property that a
passing run checks is stated by one of them. Each
component has an inductive invariant (`IInv`; `NetworkInv` for the network
settings, `CalcTypes` for the calculations), the conjunction of the invariants
below; lemmas show that it holds initially and that each action preserves it, one
lemma or step for each action and one step for each conjunct that the action can
disturb.

| module | theorems |
|---|---|
| `DataRouterProofs` | `Invariance`, `TypeCorrectness`, `ListenersArePluginsAlways`, `PendingIsChangeAlways`, `PendingHasTimerAlways`, `ReadersAreCurrentAlways`, `CyclesAreReportedAlways`, `SnapshotsStayStable`, `RegistryStaysCurrent`, `MappingStaysReported` |
| `MQTTPluginProofs` | `WhatIsReceivedIsRenewed`, `NoChangeIsMissed`, `DestroyedStaysQuiet` |
| `MQTTClientProofs` | `HandlersAreSafe`, `HandlersImplementLink` (refinement of `MQTTLink`) |
| `MQTTFeatureProofs` | `NoClientLeaks`, `SettledStaysInAgreement`, `DestroyedIsNotStarted` |
| `LocalIOProofs` | `LocalIOIsSafe`, `ValuesFollowAlways`, `CalibrationStaysSound`, `KnownStaysFinal` |
| `DeviceProofs` | `ConnectModeIsTimed`, `CommandsComeInOrder`, `PressesAreSeen`, `FileIsSoundAlways`, `LiveIsConfiguredAlways` |
| `ServerStartProofs` | `ServerIsSafe`, `MutationsChangeWhatTheyName`, `StartsKeepData` |
| `AccountsProofs` | `AccountsAreSafe`, `ChecksAreRight`, `AcknowledgedChangesAreComplete` |

**Assumptions.** They are ASSUMEs of the modules, which the runs evaluate on
their constants, but for the last one below. Plugins have a key each, no list given to
`setPlugins` has two of one key (with two, the code keeps one registered and both
started), no data has the name of a set command (`SetCommandAssumption`,
`src/universal/types/Tag.js`), the interval of the router is positive and its
sanity counts at least 2. Tags are names on the broker, ages are integers,
intervals lie below the age from which ages are not told apart. The feature's
configurations are finitely many. `None` is no value, channels are no tags, the
durations of connect mode are natural numbers. Local channels are numbered from
0, their configurations are rows of the database's type, what conditions compare
are tags, and `null` is neither 0 nor 1. The file of the network settings has at
most one section for eth0 at first. Coordinates and readings are integers, as in
the model. The two theorems of `MQTTClientProofs` have `SparkPlugIsFinal` as their hypothesis: SparkPlug is not among `LateProtocols`,
that is, a client of the SparkPlug library emits no error after it was ended.
`SparkPlugHandler.js:74` tests a flag that is never set, so that such an error
would bring a client back after `destroy`.

**Tag router.** `IInv` of `DataRouterProofs` is `TypeOK`, `CycleShape` (which
variables of a cycle may be in use in which phase), `ListenersArePlugins`,
`PendingIsChange`, `TimerBound`, `PendingHasTimer`, `ReadersInv` and
`CycleReportInv`. The last two make the wanted properties inductive.
`ReadersAreCurrent` speaks of the time between cycles; inside one, `ReadersInv`
says a reader may lag behind only in tags of the pass that is running, and only
while it has still to be called. `CycleReportInv` says the same of
`dispatchCycleDone`. `PendingIsChange` is needed because a pass hands over only
the tags that changed. Plugins in `silent` are left out of it: what they read now
may not be what the tables have. For the registry, `KnownInv` adds what plugins that are
still to be told or started know, and the proof of `MappingStaysReported` derives `MappingIsReported` from the definition of
`CalculateMappingInfo` for all mappings.

**MQTT plugin.** `SentInv` is `ChangesAreSent` while a message is being assembled
as well: its values count as sent already, and a cycle inside the emit sends what
has changed since. It needs that the metadata the plugin holds is that of its
channels, since this is what decides whether all is published again when tags
become public; `ChannelFacts` shows that the configured tags are always among the
channels (`uniqBy` keeps one of each). `ReceivedInv` speaks of what the system
will have for a tag once the router has ingested what was emitted, so that a
digest cycle changes nothing of it.

**MQTT client and feature.** `ToldOfAClient` and `HandlerOK` tie the timer, the
client and what the plugin was told to each other; with them each step is one of
`MQTTLink` or a stutter. In the feature, `MapInv` (the map's plugins are theirs
and not destroyed), `RouterInv` (what was started and not destroyed is still the
router's) and `Fresh` (a lone mutation of an id that is not suspect has read
what its row has) carry the three results through the debounced list.

**Connect mode.** `UnseenInv`: a press that no message has counted makes the next
count differ. `HoldInv` ties the commands given to the time the button is held,
`PressInv` the time since a press to what is left of the timer.

**Network settings.** `FileIsSound` only speaks of the file between calls; inside
one the file is empty, and what will be written was computed from what was read
before. `FileInv` therefore says, unless calls overlapped, that one call uses the
file at a time, that the file and the lines it has computed have at most one eth0
section, that these lines say its settings, and so does the file after a write;
and that the rest is as at first, unless a write has been cut off. That the first
sentence survives a write that is cut off is why a part of sound lines has at most
one section (`PartHasOneSection`), and why the next write repairs the section. The
lemmas say where the section of a file begins and ends and that `NewLines` puts
the new one in its place: what is before and after it is kept, and only it is read
back. `LiveInv` needs none of this: until the file is truncated or a restart is
due, a successful restart has set the mode that the file says, and a write that
fails or loses power takes `restarted` back. So it holds of calls that overlap as
well.

**Local I/O.** `EmittedInv`: what the router would take of what `_updateData`
would emit now is in the tag map or on its way to it, so that a tag that has lost
its provider is left as it is. It is why `_channelUpdated` has to emit, why the tags of
conditions have to be inputs of the plugin, and why a pass that changes none of
the plugin's inputs may skip it: `Data` depends on the inputs only
(`OnlyInputsCount`). `LevelsInv`: between cycles the levels are those of the tag map.
At rest nothing is on its way, and the two together are `ValuesFollow`.

**Calculations.** Both arguments take a least counterexample in place of an
induction. Of the logic: if a known result were lost, there would be a first
condition after which it is, and there `and` and `or` would have turned a result
that is kept into one that is not; in the same way a shortest logic without
results shows that the recursive function exists (`StepwiseExists`). Of the calibration: `Rank` numbers the points by rising x, so that each
segment is one with a positive `dx`; every reading of a point lies in its segment
or at the end of the one before, and both give its y; segments of rising points
rise, and meet where they touch.

**Server.** `FilesInv` relates the copies of the migrations, Umzug's list and
table, and the schema; `ChannelsInv` the channels and metadata that are there to
those still being created; `ServedInv` says what each request knows of the rows
of its channel and tag unless they overlapped, that requests that use the same
are marked so, and that the copies agree.

**Accounts.** `SecretInv` follows the promise of the secret; `RequestOK` says what
was true when a request passed its check and what a lone change has done so far;
`AloneInv` that a lone request has no other of its kind beside it; `SSHInv` that
SSH runs as it is enabled, except between the two commands.

**Only model-checked.** The liveness properties: `CyclesEnd`, `PendingIsIngested`,
`ChangesGoOut`, `Recovers`, `RouterCatchesUp`, `ForcedIsPutOut`,
`IntactServerServes`, `RequestsEnd`. Liveness under fairness is out of the
prover's reach.

## 5. Not modelled, and why

The GraphQL schema and the models are declarations over libraries, and most of
the client is views over Apollo and Redux, which keep what they were last told;
its sessions and what it sends again are in `Accounts`. What migrations do to the
schema is left out; their order, listing and recording are in `ServerStart`.
Server-side rendering, views, the LED messages and utilities are pure output or
formatting; the GraphQL data plugin is one stateless loop over what the router
tells it at the end of a cycle (`CyclesAreReported`); the signal generator and
the test handlers are not part of the product. Payload encoding, the channel
states shown to users and the parsing of system command output
(`getNetworkState`) are abstracted. The largest part of the repository by lines
is type declarations of libraries (`flow-typed/`) and declarations of the user
interface, in which nothing changes state.

## 6. Plan

Order: the router first, since everything goes through it; then MQTT, local I/O
and the device; then the requests that change rows, the start of the server and
the accounts. All of these are checked, and their safety and action properties are proved.
What is left, in the order of its use:

1. `TagBus`: an abstract tag map that applies batches and tells readers, with
   `DataRouter` shown to implement it, and `LocalIO` and `MQTTPlugin` put on it
   instead of each having its own abstraction of the router.
2. The composition of `ConnectMode` with `NetworkSettings` (`Server.js:131`), and
   of `ChannelMutations` with `LocalIO`: retagged channels while data is on its
   way.
3. `Client`: subscriptions across component updates.

Runs are merged as components are added: one run asks each question of a
component, so that the number of runs stays readable.
