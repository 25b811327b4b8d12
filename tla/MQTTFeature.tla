---------------------------- MODULE MQTTFeature ------------------------------
(***************************************************************************)
(* How a change of an MQTT configuration in the database becomes a running *)
(* plugin: the model hooks of src/server/mqtt/MQTTFeature.js, the debounced *)
(* change event, and the DataRouter's setPlugins that starts and destroys  *)
(* plugins.                                                                *)
(*                                                                         *)
(* A mutation is three steps with other callbacks in between: the row is   *)
(* written, the hook's query reads it back with its channels, and the      *)
(* hook goes on with what it has read.                                     *)
(***************************************************************************)
EXTENDS Integers, Sequences, SequencesExt

CONSTANTS Id,          \* configuration ids, given out once each
          Request,     \* mutations that may be in flight at the same time
          MaxVersion,  \* bound on the number of writes
          Invalid      \* versions that the MQTTPlugin constructor rejects

ASSUME FeatureAssumption ==
    IsFiniteSet(Id) /\ MaxVersion \in Nat \ {0} /\ Invalid \subseteq 1..MaxVersion

\* A row is the version that was written last, or one of these.
NotYet == -1
Gone   == 0
Row    == NotYet..MaxVersion

Free == [op |-> "free"]
\* read is what the hook's query has returned, NotYet while it is on its way.
Mutation == [op : {"save", "delete"}, id : Id, read : Row]

NoPlugin == 0

VARIABLES
  rows,       \* the table of configurations, channels included
  written,    \* number of writes so far
  requests,   \* the mutation each request is at
  made,       \* the plugins constructed so far: configuration and version
  dataPlugins,\* _dataPlugins: the place in "made" of each id's plugin
  destroyed,  \* plugins whose destroy() was called
  announce,   \* the debounced change event is to come
  registered, \* plugins the DataRouter has
  started,    \* plugins the DataRouter has started
  stopped,    \* Server.stop() has been called
  suspect,    \* for the properties: ids whose last mutations overlapped or failed
  unmade      \* for the properties: a constructor has thrown

vars == <<rows, written, requests, made, dataPlugins, destroyed, announce,
          registered, started, stopped, suspect, unmade>>

\* getDataPlugins().
Current == {dataPlugins[id] : id \in Id} \ {NoPlugin}

InFlight(id) == {r \in Request : requests[r] # Free /\ requests[r].id = id}

-----------------------------------------------------------------------------
(* Mutations                                                               *)

\* A mutation begins with a write.  A lone one makes good for those before it.
Write(r, id, op, row) ==
    /\ ~ stopped
    /\ requests[r] = Free
    /\ written < MaxVersion
    /\ written' = written + 1
    /\ rows' = [rows EXCEPT ![id] = row]
    /\ requests' = [requests EXCEPT ![r] = [op |-> op, id |-> id, read |-> NotYet]]
    /\ suspect' = IF InFlight(id) = {} THEN suspect \ {id} ELSE suspect \cup {id}
    /\ UNCHANGED <<made, dataPlugins, destroyed, announce, registered, started, stopped, unmade>>

\* create or update of the configuration or of one of its channels.
Save(r, id) == rows[id] # Gone /\ Write(r, id, "save", written + 1)

Delete(r, id) == rows[id] \notin {NotYet, Gone} /\ Write(r, id, "delete", Gone)

\* The database answers the query of the hook.
Fetch(r) ==
    /\ requests[r].op = "save"
    /\ requests[r].read = NotYet
    /\ requests' = [requests EXCEPT ![r].read = rows[requests[r].id]]
    /\ UNCHANGED <<rows, written, made, dataPlugins, destroyed, announce, registered,
                   started, stopped, suspect, unmade>>

\* The query fails, and with it the hook.
FetchFails(r) ==
    /\ requests[r].op = "save"
    /\ requests' = [requests EXCEPT ![r] = Free]
    /\ suspect' = suspect \cup {requests[r].id}
    /\ UNCHANGED <<rows, written, made, dataPlugins, destroyed, announce, registered,
                   started, stopped, unmade>>

-----------------------------------------------------------------------------
(* Plugins                                                                 *)

\* Mutated form: the plugin is removed from the map only.
DestroyDataPlugin_Forgets(id) == destroyed

\* The destroyed plugins after _destroyDataPlugin(id).
DestroyDataPlugin(id) == destroyed \cup ({dataPlugins[id]} \ {NoPlugin})

\* Mutated form: the change is only announced for an id that had a plugin.
CreateDataPlugin_AnnounceUpdates(id, version) ==
    /\ destroyed' = DestroyDataPlugin(id)
    /\ unmade' = (unmade \/ version \in Invalid)
    /\ IF version \in Invalid
       THEN dataPlugins' = [dataPlugins EXCEPT ![id] = NoPlugin] /\ UNCHANGED <<made, announce>>
       ELSE /\ made' = Append(made, [id |-> id, version |-> version])
            /\ dataPlugins' = [dataPlugins EXCEPT ![id] = Len(made')]
            /\ announce' = (announce \/ dataPlugins[id] # NoPlugin)

\* _createDataPlugin.  A constructor that throws leaves the id without a
\* plugin, and nothing is announced.
CreateDataPlugin(id, version) ==
    /\ destroyed' = DestroyDataPlugin(id)
    /\ unmade' = (unmade \/ version \in Invalid)
    /\ IF version \in Invalid
       THEN dataPlugins' = [dataPlugins EXCEPT ![id] = NoPlugin] /\ UNCHANGED <<made, announce>>
       ELSE /\ made' = Append(made, [id |-> id, version |-> version])
            /\ dataPlugins' = [dataPlugins EXCEPT ![id] = Len(made')]
            /\ announce' = TRUE

\* Mutated form: a plugin the map already has is kept.
Saved_KeepsOld(r) ==
    /\ requests[r].op = "save"
    /\ requests[r].read # NotYet
    /\ IF requests[r].read = Gone \/ dataPlugins[requests[r].id] # NoPlugin
       THEN UNCHANGED <<made, dataPlugins, destroyed, announce, unmade>>
       ELSE CreateDataPlugin(requests[r].id, requests[r].read)
    /\ requests' = [requests EXCEPT ![r] = Free]
    /\ UNCHANGED <<rows, written, registered, started, stopped, suspect>>

\* The rest of _handleMQTTConfigCreatedOrUpdated or _handleMQTTChannelConfigChange.
Saved(r) ==
    /\ requests[r].op = "save"
    /\ requests[r].read # NotYet
    /\ IF requests[r].read = Gone
       THEN UNCHANGED <<made, dataPlugins, destroyed, announce, unmade>>
       ELSE CreateDataPlugin(requests[r].id, requests[r].read)
    /\ requests' = [requests EXCEPT ![r] = Free]
    /\ UNCHANGED <<rows, written, registered, started, stopped, suspect>>

\* _handleMQTTConfigDestroyed, once the row is deleted and if the hooks are
\* still there.
Deleted(r) ==
    /\ requests[r].op = "delete"
    /\ IF stopped
       THEN UNCHANGED <<destroyed, dataPlugins, announce>>
       ELSE /\ destroyed' = DestroyDataPlugin(requests[r].id)
            /\ dataPlugins' = [dataPlugins EXCEPT ![requests[r].id] = NoPlugin]
            /\ announce' = TRUE
    /\ requests' = [requests EXCEPT ![r] = Free]
    /\ UNCHANGED <<rows, written, made, registered, started, stopped, suspect, unmade>>

-----------------------------------------------------------------------------
(* The DataRouter                                                          *)

\* Mutated form: every plugin that was created is started.
EmitPluginsChanged_StartsMade ==
    /\ announce
    /\ announce' = FALSE
    /\ registered' = Current
    /\ destroyed' = destroyed \cup (registered \ Current)
    /\ started' = DOMAIN made
    /\ UNCHANGED <<rows, written, requests, made, dataPlugins, stopped, suspect, unmade>>

\* The debounced event: Server calls setPlugins with getDataPlugins(), which
\* destroys the plugins that are gone and starts those that are new.  After
\* Server.stop() nobody listens.
EmitPluginsChanged ==
    /\ announce
    /\ announce' = FALSE
    /\ IF stopped
       THEN UNCHANGED <<registered, destroyed, started>>
       ELSE /\ registered' = Current
            /\ destroyed' = destroyed \cup (registered \ Current)
            /\ started' = started \cup (Current \ registered)
    /\ UNCHANGED <<rows, written, requests, made, dataPlugins, stopped, suspect, unmade>>

\* Server.stop(): the router destroys its plugins, the hooks and the listener
\* are removed.  A query that has begun may still be answered.
Stop ==
    /\ ~ stopped
    /\ stopped' = TRUE
    /\ destroyed' = destroyed \cup registered
    /\ registered' = {}
    /\ UNCHANGED <<rows, written, requests, made, dataPlugins, announce, started, suspect, unmade>>

-----------------------------------------------------------------------------

\* Server.start() has run: createDataPlugins, setPlugins and the hooks.
Init ==
    /\ rows \in [Id -> {NotYet, 1}]
    /\ written = 1
    /\ made = SetToSeq({[id |-> id, version |-> 1] :
                           id \in {i \in Id : rows[i] = 1 /\ 1 \notin Invalid}})
    /\ dataPlugins = [id \in Id |->
          LET mine == {o \in DOMAIN made : made[o].id = id}
          IN  IF mine = {} THEN NoPlugin ELSE CHOOSE o \in mine : TRUE]
    /\ registered = DOMAIN made /\ started = DOMAIN made
    /\ requests = [r \in Request |-> Free]
    /\ destroyed = {} /\ announce = FALSE /\ stopped = FALSE
    /\ suspect = {} /\ unmade = (\E id \in Id : rows[id] \in Invalid)

Next ==
    \/ \E r \in Request :
          \/ \E id \in Id : Save(r, id) \/ Delete(r, id)
          \/ Fetch(r) \/ FetchFails(r) \/ Saved(r) \/ Deleted(r)
    \/ EmitPluginsChanged
    \/ Stop

Spec == Init /\ [][Next]_vars

\* Timers fire, and the database answers.
FairSpec ==
    /\ Spec
    /\ WF_vars(EmitPluginsChanged)
    /\ \A r \in Request : WF_vars(Fetch(r)) /\ WF_vars(Saved(r)) /\ WF_vars(Deleted(r))

-----------------------------------------------------------------------------
(* Properties                                                              *)

\* The shape of the state.
TypeOK ==
    /\ rows \in [Id -> Row]
    /\ requests \in [Request -> {Free} \cup Mutation]
    /\ made \in Seq([id : Id, version : 1..MaxVersion])
    /\ dataPlugins \in [Id -> {NoPlugin} \cup DOMAIN made]
    /\ \A ps \in {destroyed, registered, started} : ps \subseteq DOMAIN made
    /\ {announce, stopped, unmade} \subseteq BOOLEAN
    /\ suspect \subseteq Id

\* However mutations, debounced events and the router interleave, no MQTT
\* client is leaked: a plugin that was started and not destroyed is the one
\* the feature has for its configuration, or the server has not stopped yet.
NoLeakedClient ==
    \A o \in started \ destroyed : ~ stopped /\ dataPlugins[made[o].id] = o

\* Types, and no leaked client in whatever order rows are read back.
Inv == TypeOK /\ NoLeakedClient

\* A plugin that has been destroyed is never started.
DeadStayDown == [][(started' \ started) \cap destroyed' = {}]_vars

\* Once all its mutations are over, an id runs what its row says, unless the
\* last ones overlapped or failed to read the row.
SettledAgrees ==
    \A id \in Id : InFlight(id) = {} /\ id \notin suspect /\ ~ stopped =>
        LET o == dataPlugins[id]
        IN  IF rows[id] \in {NotYet, Gone} \cup Invalid THEN o = NoPlugin
            ELSE o # NoPlugin /\ made[o].version = rows[id]

\* A list of plugins that is not the router's is announced (PluginTypes.js:75).
\* This does not hold: a constructor that throws prevents the event.
ChangesAreAnnounced == ~ stopped /\ registered # Current => announce

\* The router gets the feature's plugins in the end, unless a plugin could not
\* be made.
RouterCatchesUp ==
    (registered # Current) ~> (registered = Current \/ stopped \/ unmade)

=============================================================================
