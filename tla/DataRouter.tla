----------------------------- MODULE DataRouter ------------------------------
(***************************************************************************)
(* The DataRouter (src/server/data-router/DataRouter.js): it takes batches *)
(* of tag values from data plugins, applies them to the tag map in a       *)
(* digest cycle and tells the plugins what changed.                        *)
(*                                                                         *)
(* JavaScript runs one callback at a time, but a digest cycle calls        *)
(* plugins, and a plugin may emit data from inside such a call.  A cycle   *)
(* is therefore a sequence of steps, one per plugin call, and "phase" says *)
(* which loop of _runDispatchQueue is running; events from outside (data,  *)
(* timers, new plugin lists) only happen when no cycle is.                 *)
(***************************************************************************)
EXTENDS MappingInfo, Integers, Sequences

CONSTANTS Value,             \* tag values, after any numeric encoding
          Batches,           \* what each plugin may emit in one event
          PluginLists,       \* the lists setPlugins may be called with
          IOChoices,         \* the I/O mappings each plugin may declare
          Round,             \* the rounding that metadata gives a tag
          Clock,             \* readings of Date.now(), in no order
          MinIngestInterval, \* MIN_INGEST_INTERVAL_MILLIS
          InnerLimit,        \* sanity count of the inner digest loop
          OuterLimit         \* sanity count of the outer digest loop

\* A partial map from tags to values; None stands for no entry.
Batch     == [Name -> Value \cup {None}]
ValuesMap == [Tag -> Value \cup {None}]
NoBatch   == [n \in Name |-> None]
NoValues  == [t \in Tag |-> None]

ASSUME ValueAssumption == None \notin Value
ASSUME BatchAssumption ==
    /\ Batches \in [Plugin -> SUBSET Batch]
    /\ Round \in [Tag -> [Value -> Value]]
ASSUME PluginListAssumption ==
    /\ PluginLists \subseteq Seq(Plugin)
    /\ \A list \in PluginLists : \A i, j \in DOMAIN list :
          PluginKey[list[i]] = PluginKey[list[j]] => i = j
ASSUME IOAssumption == IOChoices \in [Plugin -> (SUBSET Seq(Mapping)) \ {{}}]
ASSUME LimitAssumption ==
    /\ Clock \subseteq Int
    /\ MinIngestInterval \in Nat \ {0}
    /\ InnerLimit \in Nat \ {0, 1}
    /\ OuterLimit \in Nat \ {0, 1}

NoTimer == -1

VARIABLES
  (* Registered plugins *)
  plugins,      \* _plugins, as a set
  listening,    \* plugins whose events the router listens to
  telling,      \* plugins whose tagsChanged() _pluginIOsChanged has still to call
  starting,     \* added plugins whose start() setPlugins has still to call
  destroyed,    \* plugins whose destroy() setPlugins has called
  stopped,      \* stop() has been called
  ios,          \* what each plugin's ioMappings() returns now
  mapping,      \* the tables of the last _pluginIOsChanged
  (* Data *)
  tagMap,       \* _tagMap
  pending,      \* _dispatchTagMap
  (* Rate limit *)
  lastIngest,   \* _lastIngestTime
  timer,        \* time left on _ingestRateLimitTimeout, or NoTimer
  (* Locals of _runDispatchQueue *)
  phase,        \* the loop that is running
  outer,        \* outerSanityCount
  inner,        \* innerSanityCount
  tagsPass,     \* tagsChangedThisPass
  tagsCycle,    \* tagsChangedThisCycle
  toNotify,     \* of pluginsChangedThisPass, those still to be called
  toFinish,     \* plugins whose dispatchCycleDone has still to be called
  lastOk,       \* _lastDispatchOk
  (* What plugins know, for the properties; the code has no such state *)
  seen,         \* the value of each tag the last inputsChanged handed over
  finished,     \* the value of each tag the last dispatchCycleDone reported
  knownTags,    \* the system's tags when each plugin was last told to look
  readIOs,      \* the mappings that the last _pluginIOsChanged read
  silent,       \* plugins that changed theirs and have emitted nothing since
  aborted       \* some cycle was given up by a sanity count

registryVars == <<plugins, listening, telling, starting, destroyed, stopped, ios,
                  mapping, knownTags, readIOs, silent>>
cycleVars    == <<phase, outer, inner, tagsPass, tagsCycle, toNotify, toFinish>>
vars == <<registryVars, tagMap, pending, lastIngest, timer, cycleVars, lastOk,
          seen, finished, aborted>>

Idle == phase = "idle"

\* Nothing is on the stack: the event loop may deliver the next event.
AtRest == Idle /\ telling = {} /\ starting = {}

Member(k) == CHOOSE p \in plugins : PluginKey[p] = k

-----------------------------------------------------------------------------
(* dispatch(): from an emitted batch to the pending changes                *)

\* The first mapping of the tag that its provider declares, read live, says it
\* is settable.
IsSettable(n) ==
    /\ mapping.provider[n] # None
    /\ \E p \in plugins :
          /\ PluginKey[p] = mapping.provider[n]
          /\ \E i \in DOMAIN ios[p] :
                /\ ios[p][i].tagFromPlugin = n /\ ios[p][i].settable
                /\ \A h \in 1..(i - 1) : ios[p][h].tagFromPlugin # n

\* A plugin sets the tags it provides.  Its value for a settable tag of
\* another plugin becomes a set command; any other value is dropped.
EnforceTagSources(k, batch) ==
    [t \in Tag |->
        IF t \in Name
        THEN IF mapping.provider[t] = k THEN batch[t] ELSE None
        ELSE LET n == CHOOSE m \in Name : tagToSetCommand(m) = t
             IN  IF mapping.provider[n] # k /\ IsSettable(n)
                 THEN batch[n] ELSE None]

ApplyRounding(values) ==
    [t \in Tag |-> IF values[t] = None THEN None ELSE Round[t][values[t]]]

\* A value equal to the pending one changes nothing; one equal to the tag map
\* cancels the pending change; any other replaces it.
ApplyChanges(values) ==
    [t \in Tag |-> IF values[t] \in {None, pending[t]} THEN pending[t]
                   ELSE IF values[t] = tagMap[t] THEN None
                   ELSE values[t]]

PendingAfter(p, batch) ==
    ApplyChanges(ApplyRounding(EnforceTagSources(PluginKey[p], batch)))

DataChanged(newPending) ==
    \E t \in Tag : newPending[t] # None /\ newPending[t] # pending[t]

-----------------------------------------------------------------------------
(* _runDispatchQueue()                                                     *)

Changed(changes) == {t \in Tag : changes[t] # None}

\* Mutated form: reports the tags of the last pass only.
AddToCycle_LastPass(cycleTags, changed) == changed

AddToCycle(cycleTags, changed) == cycleTags \cup changed

\* Mutated form: a tag that changed in an earlier pass is not notified again.
Readers_FirstChange(changed) == UNION {mapping.dests[t] : t \in changed \ tagsCycle}

Readers(changed) == UNION {mapping.dests[t] : t \in changed}

\* The tag map with the changes put in.
Applied(changes) ==
    [t \in Tag |-> IF changes[t] # None THEN changes[t] ELSE tagMap[t]]

\* The top of the inner loop: apply the pending changes and work out which
\* plugins listen to them.  A pass that concerns nobody ends the inner loop.
StartPass(changes, cycleTags) ==
    LET changed == Changed(changes)
        readers == Readers(changed)
    IN  /\ tagMap' = Applied(changes)
        /\ pending' = NoValues
        /\ tagsPass' = changed
        /\ tagsCycle' = AddToCycle(cycleTags, changed)
        /\ toNotify' = readers
        /\ phase' = IF readers = {} THEN "cycleDone" ELSE "notify"
        /\ toFinish' = IF readers = {} THEN plugins ELSE {}

RunDispatchQueue(time, changes) ==
    /\ lastIngest' = time
    /\ outer' = OuterLimit - 1
    /\ inner' = InnerLimit - 1
    /\ StartPass(changes, {})

\* The function returns; its locals are gone.
LeaveCycle(ok) ==
    /\ phase' = "idle"
    /\ outer' = 0 /\ inner' = 0
    /\ tagsPass' = {} /\ tagsCycle' = {} /\ toNotify' = {} /\ toFinish' = {}
    /\ lastOk' = ok
    /\ aborted' = (aborted \/ ~ ok)

\* Mutated form: without the Math.min.
Delay_Unclamped(wait) == wait

\* The delay of a new timer.  A clock set back cannot make it long.
Delay(wait) == IF wait < MinIngestInterval THEN wait ELSE MinIngestInterval

\* The code's dispatch(), called by plugin p's data listener when no cycle is
\* running.  A run that starts here leaves an outstanding timer alone.
Dispatch(p, batch) ==
    LET changes == PendingAfter(p, batch)
    IN  /\ UNCHANGED <<lastOk, aborted, seen, finished>>
        /\ \/ /\ ~ DataChanged(changes)
              /\ pending' = changes
              /\ UNCHANGED <<tagMap, lastIngest, timer, cycleVars>>
           \/ /\ DataChanged(changes)
              /\ \E time \in Clock :
                    LET wait == lastIngest + MinIngestInterval - time
                    IN  \/ /\ wait <= 0
                           /\ RunDispatchQueue(time, changes)
                           /\ UNCHANGED timer
                        \/ /\ wait > 0
                           /\ pending' = changes
                           /\ timer' = IF timer # NoTimer THEN timer ELSE Delay(wait)
                           /\ UNCHANGED <<tagMap, lastIngest, cycleVars>>

-----------------------------------------------------------------------------
(* Events from the event loop                                              *)

\* A plugin emits data of its own accord.
EmitData(p) ==
    /\ AtRest
    /\ p \in listening
    /\ \E batch \in Batches[p] : Dispatch(p, batch)
    /\ UNCHANGED registryVars

\* Real time passes; only the timer can tell.
Tick ==
    /\ AtRest
    /\ timer > 0
    /\ timer' = timer - 1
    /\ UNCHANGED <<registryVars, tagMap, pending, lastIngest, cycleVars, lastOk,
                   seen, finished, aborted>>

\* Mutated form: checks the rate limit once more.
IngestTimeout_IfDue ==
    /\ AtRest
    /\ timer = 0
    /\ timer' = NoTimer
    /\ \E time \in Clock :
          \/ time >= lastIngest + MinIngestInterval /\ RunDispatchQueue(time, pending)
          \/ time < lastIngest + MinIngestInterval
             /\ UNCHANGED <<tagMap, pending, lastIngest, cycleVars>>
    /\ UNCHANGED <<registryVars, lastOk, seen, finished, aborted>>

\* The delayed ingest.
IngestTimeout ==
    /\ AtRest
    /\ timer = 0
    /\ timer' = NoTimer
    /\ \E time \in Clock : RunDispatchQueue(time, pending)
    /\ UNCHANGED <<registryVars, lastOk, seen, finished, aborted>>

-----------------------------------------------------------------------------
(* Plugin calls and loop ends inside a cycle                               *)

\* Inside a call a plugin emits one batch or none.
Reaction(p) == Batches[p] \cup {NoBatch}

\* Mutated form: data emitted inside the call goes into the tag map at once.
InputsChanged_AppliedAtOnce(k) ==
    /\ phase = "notify"
    /\ k \in toNotify
    /\ toNotify' = toNotify \ {k}
    /\ \E batch \in Reaction(Member(k)) :
          /\ pending' = PendingAfter(Member(k), batch)
          /\ tagMap' = Applied(pending')
    /\ UNCHANGED <<registryVars, lastIngest, timer, phase, outer, inner, tagsPass,
                   tagsCycle, toFinish, lastOk, seen, finished, aborted>>

\* plugin.inputsChanged() of one reader of this pass.  A plugin that throws
\* has returned as far as the router is concerned.
InputsChanged(k) ==
    /\ phase = "notify"
    /\ k \in toNotify
    /\ toNotify' = toNotify \ {k}
    /\ \E batch \in Reaction(Member(k)) : pending' = PendingAfter(Member(k), batch)
    /\ seen' = [seen EXCEPT ![Member(k)] =
                   [t \in Tag |-> IF t \in tagsPass THEN tagMap[t] ELSE @[t]]]
    /\ UNCHANGED <<registryVars, tagMap, lastIngest, timer, phase, outer, inner,
                   tagsPass, tagsCycle, toFinish, lastOk, finished, aborted>>

\* Mutated form: the sanity count is not counted down.
PassesLeft_Same(count) == count

\* Mutated form: the sanity count counts up.
PassesLeft_Up(count) == count + 1

PassesLeft(count) == count - 1

\* while (pluginsChangedThisPass.size): a pass that called a plugin is
\* followed by another one, unless the sanity count runs out.
NextPass ==
    /\ phase = "notify"
    /\ toNotify = {}
    /\ \/ /\ inner > 1
          /\ inner' = PassesLeft(inner)
          /\ StartPass(pending, tagsCycle)
          /\ UNCHANGED <<outer, lastOk, aborted>>
       \/ /\ inner <= 1
          /\ LeaveCycle(FALSE)
          /\ UNCHANGED <<tagMap, pending>>
    /\ UNCHANGED <<registryVars, lastIngest, timer, seen, finished>>

\* plugin.dispatchCycleDone() of one plugin.
DispatchCycleDone(p) ==
    /\ phase = "cycleDone"
    /\ p \in toFinish
    /\ toFinish' = toFinish \ {p}
    /\ \E batch \in Reaction(p) : pending' = PendingAfter(p, batch)
    /\ finished' = [finished EXCEPT ![p] =
                       [t \in Tag |-> IF t \in tagsCycle THEN tagMap[t] ELSE @[t]]]
    /\ UNCHANGED <<registryVars, tagMap, lastIngest, timer, phase, outer, inner,
                   tagsPass, tagsCycle, toNotify, lastOk, seen, aborted>>

\* while (Object.keys(this._dispatchTagMap).length)
EndCycle ==
    /\ phase = "cycleDone"
    /\ toFinish = {}
    /\ \/ /\ pending = NoValues
          /\ LeaveCycle(TRUE)
          /\ UNCHANGED <<tagMap, pending>>
       \/ /\ pending # NoValues
          /\ outer > 1
          /\ outer' = outer - 1
          /\ inner' = InnerLimit - 1
          /\ StartPass(pending, {})
          /\ UNCHANGED <<lastOk, aborted>>
       \/ /\ pending # NoValues
          /\ outer <= 1
          /\ LeaveCycle(FALSE)
          /\ UNCHANGED <<tagMap, pending>>
    /\ UNCHANGED <<registryVars, lastIngest, timer, seen, finished>>

-----------------------------------------------------------------------------
(* Plugins and their mappings                                              *)

\* Mutated form: the tables are computed from the plugin list being replaced.
TablesOf_OldList(installed, declared) == CalculateMappingInfo(plugins, declared)

TablesOf(installed, declared) == CalculateMappingInfo(installed, declared)

PublicTagsDiffer(info) == info.publicTags # mapping.publicTags

\* _pluginIOsChanged() up to its last loop: read what every plugin declares and
\* recompute the tables; when the public tags differ, tagsChanged() follows for
\* every plugin.  The plugins in "informed", which are new or announce a change
\* themselves, look the values of all their tags up; the others do not.
PluginIOsChanged(installed, declared, informed) ==
    LET info == TablesOf(installed, declared)
    IN  /\ mapping' = info
        /\ telling' = IF PublicTagsDiffer(info) THEN installed ELSE {}
        /\ readIOs' = declared
        /\ silent' = silent \ informed
        /\ seen' = [p \in Plugin |-> IF p \in informed THEN tagMap ELSE seen[p]]

\* A plugin changes what it reads or writes, or has done so before, and emits
\* iosChanged.
IOsChanged(p) ==
    /\ AtRest
    /\ p \in listening
    /\ \E declared \in IOChoices[p] :
          /\ ios' = [ios EXCEPT ![p] = declared]
          /\ PluginIOsChanged(plugins, ios', {p})
    /\ UNCHANGED <<plugins, listening, starting, destroyed, stopped, knownTags, tagMap,
                   pending, lastIngest, timer, cycleVars, lastOk, finished, aborted>>

\* What ioMappings() returns changes and nobody is told: the Local I/O plugin
\* works it out from the hardware that is detected at the time of the call.
IOsChangeSilently(p) ==
    /\ AtRest
    /\ p \in plugins
    /\ \E declared \in IOChoices[p] :
          /\ declared # ios[p]
          /\ ios' = [ios EXCEPT ![p] = declared]
    /\ silent' = silent \cup {p}
    /\ UNCHANGED <<plugins, listening, telling, starting, destroyed, stopped, mapping,
                   knownTags, readIOs, tagMap, pending, lastIngest, timer, cycleVars,
                   lastOk, seen, finished, aborted>>

\* plugin.tagsChanged() of one plugin, in which it may emit data.
TagsChanged(p) ==
    /\ Idle
    /\ p \in telling
    /\ telling' = telling \ {p}
    /\ knownTags' = [knownTags EXCEPT ![p] = mapping.tags]
    /\ \E batch \in Reaction(p) : Dispatch(p, batch)
    /\ UNCHANGED <<plugins, listening, starting, destroyed, stopped, ios, mapping,
                   readIOs, silent>>

\* The plugins of a list that setPlugins accepts: the first one of each key.
Accepted(list) ==
    {list[i] : i \in {j \in DOMAIN list :
                         \A h \in 1..(j - 1) : PluginKey[list[h]] # PluginKey[list[j]]}}

\* Mutated form: the listeners of a removed plugin stay.
ListeningAfter_Kept(removed, added) == listening \cup added

ListeningAfter(removed, added) == (listening \ removed) \cup added

\* setPlugins() up to _pluginIOsChanged's and its own last loops: start() follows
\* for each added plugin.
InstallPlugins(list) ==
    LET given   == {list[i] : i \in DOMAIN list}
        removed == plugins \ given
        added   == Accepted(list) \ plugins
    IN  /\ plugins' = Accepted(list)
        /\ listening' = ListeningAfter(removed, added)
        /\ destroyed' = destroyed \cup removed
        /\ starting' = added
        /\ PluginIOsChanged(plugins', ios, added)
        /\ finished' = [p \in Plugin |-> IF p \in added THEN tagMap ELSE finished[p]]
        /\ UNCHANGED <<ios, knownTags, tagMap, pending, lastIngest, cycleVars, lastOk,
                       aborted>>

\* A feature's plugins changed.  It never offers a plugin again once the
\* router has dropped it.
SetPlugins ==
    /\ AtRest
    /\ ~ stopped
    /\ \E list \in PluginLists :
          /\ \A i \in DOMAIN list : list[i] \notin destroyed
          /\ InstallPlugins(list)
    /\ UNCHANGED <<stopped, timer>>

\* An added plugin's start(), in which it may emit data.  The data may start
\* a cycle, and the plugins that have not started yet take part in it.
StartPlugin(p) ==
    /\ Idle
    /\ telling = {}
    /\ p \in starting
    /\ starting' = starting \ {p}
    /\ knownTags' = [knownTags EXCEPT ![p] = mapping.tags]
    /\ \E batch \in Reaction(p) : Dispatch(p, batch)
    /\ UNCHANGED <<plugins, listening, telling, destroyed, stopped, ios, mapping,
                   readIOs, silent>>

\* stop(): no timer and no plugins.  The server calls nothing after it.
Stop ==
    /\ AtRest
    /\ ~ stopped
    /\ stopped' = TRUE
    /\ timer' = NoTimer
    /\ InstallPlugins(<<>>)

-----------------------------------------------------------------------------

Init ==
    /\ plugins = {} /\ listening = {} /\ telling = {} /\ starting = {}
    /\ destroyed = {} /\ silent = {}
    /\ stopped = FALSE
    /\ ios \in {f \in [Plugin -> UNION {IOChoices[p] : p \in Plugin}] :
                   \A p \in Plugin : f[p] \in IOChoices[p]}
    /\ readIOs = ios
    /\ mapping = CalculateMappingInfo({}, ios)
    /\ tagMap = NoValues
    /\ pending = NoValues
    /\ lastIngest = 0
    /\ timer = NoTimer
    /\ phase = "idle"
    /\ outer = 0 /\ inner = 0
    /\ tagsPass = {} /\ tagsCycle = {} /\ toNotify = {} /\ toFinish = {}
    /\ lastOk = TRUE
    /\ seen = [p \in Plugin |-> NoValues]
    /\ finished = [p \in Plugin |-> NoValues]
    /\ knownTags = [p \in Plugin |-> {}]
    /\ aborted = FALSE

\* The steps of the code that is on the stack.
Running ==
    \/ \E k \in Key : InputsChanged(k)
    \/ NextPass
    \/ \E p \in Plugin : DispatchCycleDone(p)
    \/ EndCycle
    \/ \E p \in Plugin : TagsChanged(p) \/ StartPlugin(p)

Next ==
    \/ \E p \in Plugin : EmitData(p)
    \/ Tick
    \/ IngestTimeout
    \/ Running
    \/ \E p \in Plugin : IOsChanged(p) \/ IOsChangeSilently(p)
    \/ SetPlugins
    \/ Stop

Spec == Init /\ [][Next]_vars

\* Code that is running runs on, time passes and an expired timer is served.
Fairness == WF_vars(Running) /\ WF_vars(Tick) /\ WF_vars(IngestTimeout)

FairSpec == Spec /\ Fairness

-----------------------------------------------------------------------------
(* Properties                                                              *)

\* The shape of the state.
TypeOK ==
    /\ plugins \subseteq Plugin /\ listening \subseteq Plugin
    /\ telling \subseteq Plugin /\ starting \subseteq Plugin
    /\ destroyed \subseteq Plugin /\ silent \subseteq Plugin
    /\ stopped \in BOOLEAN
    /\ ios \in [Plugin -> Seq(Mapping)] /\ readIOs \in [Plugin -> Seq(Mapping)]
    /\ mapping.provider \in [Name -> Key \cup {None}]
    /\ mapping.dests \in [Tag -> SUBSET Key]
    /\ mapping.tags \in SUBSET Name
    /\ tagMap \in ValuesMap /\ pending \in ValuesMap
    /\ lastIngest \in Int
    /\ timer \in Nat \cup {NoTimer}
    /\ phase \in {"idle", "notify", "cycleDone"}
    /\ outer \in 0..(OuterLimit - 1) /\ inner \in 0..(InnerLimit - 1)
    /\ tagsPass \subseteq Tag /\ tagsCycle \subseteq Tag
    /\ toNotify \subseteq Key /\ toFinish \subseteq Plugin
    /\ lastOk \in BOOLEAN /\ aborted \in BOOLEAN
    /\ seen \in [Plugin -> ValuesMap] /\ finished \in [Plugin -> ValuesMap]
    /\ knownTags \in [Plugin -> SUBSET Name]

\* The plugins the router calls are the plugins it hears, one for each key,
\* and none of them has been destroyed (setPlugins's listener bookkeeping
\* when an instance is replaced by another one with the same key).
ListenersArePlugins ==
    /\ listening = plugins
    /\ plugins \cap destroyed = {}
    /\ telling \subseteq plugins /\ starting \subseteq plugins
    /\ \A p, q \in plugins : PluginKey[p] = PluginKey[q] => p = q

\* The cached tables are the ones the registered plugins' declarations give, as
\* they are now: but for a plugin whose declarations changed without an event,
\* of which the router may still use what it read before.
TablesAreCurrent ==
    /\ mapping = CalculateMappingInfo(plugins, readIOs)
    /\ \A p \in plugins \ silent : readIOs[p] = ios[p]

\* PluginTypes.js:43 says that iosChanged is "emitted by a DataPlugin when it has
\* changed which tags it reads from or writes to".  The Local I/O plugin does
\* not when analog hardware is found or lost, so that this does not hold.
TablesAreLive == mapping = CalculateMappingInfo(plugins, ios)

\* What waits in _dispatchTagMap is a change: a pending value always differs
\* from the value in the tag map, or the cycle it triggers would report a
\* change that did not happen (_applyChangesToDispatchTagMap's cancelling).
PendingIsChange == \A t \in Tag : pending[t] # None => pending[t] # tagMap[t]

\* Data that waits outside a cycle has a timer that will ingest it after no
\* more than the minimum interval, however the clock jumps, unless the last
\* cycle was given up or the router has stopped.
PendingHasTimer ==
    Idle /\ pending # NoValues =>
        timer \in 0..MinIngestInterval \/ ~ lastOk \/ stopped

Reads(p, t) == \E i \in DOMAIN ios[p] : t \in ios[p][i].tagsToPlugin

\* When no cycle runs, every plugin has been handed the tag map's value of
\* every tag it declares to read: through cascades, data emitted from inside
\* callbacks, replacements, remappings and even cycles the sanity counts gave
\* up, unless it changed its declarations without an event.
ReadersAreCurrent ==
    Idle => \A p \in plugins \ silent, t \in Tag :
                Reads(p, t) => seen[p][t] = tagMap[t]

\* As long as no cycle has been given up, every plugin has been told of the
\* tag map's value of every tag by dispatchCycleDone, which is what publishes
\* to GraphQL and MQTT and drives the outputs.
CyclesAreReported ==
    Idle /\ ~ aborted => \A p \in plugins : finished[p] = tagMap

\* Every plugin was told of the public tags there are now, by tagsChanged()
\* or because it looked when it started.
PublicTagsAreKnown ==
    AtRest => \A p \in plugins : knownTags[p] \ InternalName = mapping.publicTags

\* What the router and its plugins know of each other does not go stale.
RegistryIsCurrent == TablesAreCurrent /\ PublicTagsAreKnown

\* PluginTypes.js:34 says that tagsChanged is "called when system tags are
\* added or removed".  The code leaves internal tags out, so that this does
\* not hold.
SystemTagsAreKnown ==
    AtRest => \A p \in plugins : knownTags[p] = mapping.tags

\* All the plugins a pass or a cycle end calls see the same tag map: data that
\* one of them emits meanwhile waits (no glitches between two readers).
SnapshotsAreStable ==
    [][toNotify # {} \/ toFinish # {} => UNCHANGED tagMap]_vars

\* The provider of a tag is a plugin that declared it, and any other source
\* is a non-settable one beside the provider's settable one.
ProviderIsUnambiguous ==
    \A n \in Name : mapping.provider[n] # None =>
        \E l \in Sources(plugins, readIOs, n) :
            /\ PluginKey[l.plugin] = mapping.provider[n]
            /\ \A other \in Sources(plugins, readIOs, n) \ {l} :
                  l.mapping.settable /\ ~ other.mapping.settable

\* A tag that is read but will get no value is reported: at the reader when
\* it has no source, at all of its sources when it has too many.
BrokenReadsAreReported ==
    \A l \in Locations(plugins, readIOs) : \A n \in l.mapping.tagsToPlugin \cap Name :
        mapping.provider[n] = None =>
            LET at == {problem.location : problem \in
                          {q \in mapping.problems : q.tag = n}}
            IN  at = IF Sources(plugins, readIOs, n) = {}
                     THEN {r \in Locations(plugins, readIOs) : n \in r.mapping.tagsToPlugin}
                     ELSE Sources(plugins, readIOs, n)

\* Of several sources one is unambiguous, or all who are concerned are told.
MappingIsReported == ProviderIsUnambiguous /\ BrokenReadsAreReported

\* PluginConfigTypes.js:50 calls additionalSources the "additional places
\* where this tag is sourced": the other sources of a duplicated tag.  The
\* code may leave out another one than the first, so that this does not hold.
AdditionalSourcesAreTheOthers ==
    \A problem \in mapping.problems : problem.problem = "multipleSources" =>
        problem.additionalSources =
            Sources(plugins, readIOs, problem.tag) \ {problem.location}

\* Every cycle ends, whatever plugins emit from inside it (sanity counts).
CyclesEnd == (~ AtRest) ~> AtRest

\* Data the router accepted is ingested.
PendingIsIngested ==
    (AtRest /\ pending # NoValues /\ lastOk) ~> (pending = NoValues \/ stopped)

=============================================================================
