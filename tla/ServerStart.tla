----------------------------- MODULE ServerStart -----------------------------
(***************************************************************************)
(* The life of the server process (src/server/Server.js), from systemd's   *)
(* launch to the requests it serves: waiting for the database, copying and *)
(* running the migrations of the features (src/server/initDatabase.js),    *)
(* loading the metadata, loading and creating the channels, starting the   *)
(* plugins.  The process may crash or be restarted at any step; the        *)
(* database and the files stay as they are.                                *)
(***************************************************************************)
EXTENDS ChannelMutations

CONSTANTS Migration,    \* the features' migrations, numbered in the order of their names
          Fragile,      \* those that fail when applied twice
          Needed,       \* those without which the plugins cannot be created
          DefaultTag,   \* of each channel: the tag it is created with
          DefaultItem, DefaultConfig,
          MaxCrashes    \* bound on the number of crashes and restarts

ASSUME StartAssumption ==
    /\ Migration \subseteq Nat /\ Fragile \subseteq Migration /\ Needed \subseteq Migration
    /\ DefaultTag \in [Channel -> Tag] /\ DefaultItem \in Item /\ DefaultConfig \in Config
    /\ MaxCrashes \in Nat

VARIABLES
  phase,     \* where Server.start is
  (* The device *)
  dbUp,      \* Postgres accepts connections
  files,     \* of each migration, its copy in migrations/features
  applied,   \* migrations that the schema shows
  recorded,  \* migrations in the table of Umzug
  crashes,   \* number of crashes
  (* The process *)
  copying,   \* migrations being copied
  todo,      \* migrations that Umzug has listed
  total,     \* number of channels that _loadChannels counted
  newItems,  \* channels whose metadata is being created
  newRows    \* channels being created

startVars == <<phase, dbUp, files, applied, recorded, crashes, copying, todo, total,
               newItems, newRows>>
vars == <<channelVars, startVars>>

Up == phase # "down"

Nobody == [c \in Channel |-> None]
NoItem == [t \in Tag |-> None]
AllIdle == [r \in Request |-> Idle]

\* A new device, or one on which all is in place.
Init ==
    /\ phase = "down" /\ dbUp = FALSE /\ crashes = 0
    /\ \/ /\ files = [m \in Migration |-> "absent"]
          /\ applied = {} /\ rows = Nobody /\ metadata = NoItem
       \/ /\ files = [m \in Migration |-> "whole"]
          /\ applied = Migration
          /\ rows = [c \in Channel |-> [tag |-> DefaultTag[c], config |-> DefaultConfig]]
          /\ metadata = [t \in Tag |-> IF \E c \in Channel : DefaultTag[c] = t
                                       THEN DefaultItem ELSE None]
    /\ recorded = applied
    /\ held = Nobody /\ cache = NoItem /\ detected = FALSE
    /\ requests = AllIdle /\ made = 0 /\ overlapped = {}
    /\ copying = {} /\ todo = {} /\ total = 0 /\ newItems = {} /\ newRows = {}

-----------------------------------------------------------------------------
(* The process and its surroundings                                        *)

\* systemd, at boot and whenever the process has ended.
Launch ==
    /\ phase = "down"
    /\ phase' = "database"
    /\ held' = Nobody /\ cache' = NoItem /\ detected' = FALSE /\ total' = 0
    /\ UNCHANGED <<database, requests, made, overlapped, dbUp, files, applied, recorded,
                   crashes, copying, todo, newItems, newRows>>

\* A crash, a restart by hand, or a power loss, which takes Postgres along.
Crash ==
    /\ Up /\ crashes < MaxCrashes
    /\ phase' = "down"
    /\ crashes' = crashes + 1
    /\ requests' = AllIdle /\ overlapped' = {}
    /\ copying' = {} /\ todo' = {} /\ newItems' = {} /\ newRows' = {}
    /\ dbUp' \in {dbUp, FALSE}
    /\ UNCHANGED <<database, copies, detected, made, files, applied, recorded, total>>

\* Postgres is up.
DatabaseUp ==
    /\ ~ dbUp
    /\ dbUp' = TRUE
    /\ UNCHANGED <<channelVars, phase, files, applied, recorded, crashes, copying, todo,
                   total, newItems, newRows>>

\* EVENT_DEVICES_DETECTED.
DevicesDetected ==
    /\ Up /\ ~ detected
    /\ detected' = TRUE
    /\ UNCHANGED <<database, copies, requests, made, overlapped, startVars>>

-----------------------------------------------------------------------------
(* initDatabase and sequelizeMigrate                                       *)

\* databaseReady gives up after a while; Server.start catches all errors.
DatabaseTimeout ==
    /\ phase = "database" /\ ~ dbUp
    /\ phase' = "failed"
    /\ UNCHANGED <<channelVars, dbUp, files, applied, recorded, crashes, copying, todo,
                   total, newItems, newRows>>

\* copyIfNewer leaves alone what is there already.
DatabaseReady ==
    /\ phase = "database" /\ dbUp
    /\ phase' = "list"
    /\ copying' = {m \in Migration : files[m] = "absent"}
    /\ UNCHANGED <<channelVars, dbUp, files, applied, recorded, crashes, todo, total,
                   newItems, newRows>>

\* A copy goes on, whatever Server.start is doing.
CopyMigration(m) ==
    /\ m \in copying
    /\ IF files[m] = "absent"
       THEN files' = [files EXCEPT ![m] = "torn"] /\ UNCHANGED copying
       ELSE files' = [files EXCEPT ![m] = "whole"] /\ copying' = copying \ {m}
    /\ UNCHANGED <<channelVars, phase, dbUp, applied, recorded, crashes, todo, total,
                   newItems, newRows>>

\* Mutated form: Umzug lists all files.
ListMigrations_All ==
    /\ phase = "list"
    /\ phase' = "migrate"
    /\ todo' = {m \in Migration : files[m] # "absent"}
    /\ UNCHANGED <<channelVars, dbUp, files, applied, recorded, crashes, copying, total,
                   newItems, newRows>>

\* Umzug lists the files that are there by now: nothing waits for the copies.
ListMigrations ==
    /\ phase = "list"
    /\ phase' = "migrate"
    /\ todo' = {m \in Migration : files[m] # "absent"} \ recorded
    /\ UNCHANGED <<channelVars, dbUp, files, applied, recorded, crashes, copying, total,
                   newItems, newRows>>

First(S) == CHOOSE m \in S : \A n \in S : m <= n

\* up of the next migration.
ApplyMigration ==
    /\ phase = "migrate" /\ todo # {}
    /\ LET m == First(todo)
       IN  IF files[m] = "torn" \/ m \in applied \cap Fragile
           THEN phase' = "failed" /\ UNCHANGED applied
           ELSE phase' = "record" /\ applied' = applied \cup {m}
    /\ UNCHANGED <<channelVars, dbUp, files, recorded, crashes, copying, todo, total,
                   newItems, newRows>>

\* logMigration of its storage.
RecordMigration ==
    /\ phase = "record"
    /\ phase' = "migrate"
    /\ recorded' = recorded \cup {First(todo)}
    /\ todo' = todo \ {First(todo)}
    /\ UNCHANGED <<channelVars, dbUp, files, applied, crashes, copying, total,
                   newItems, newRows>>

-----------------------------------------------------------------------------
(* Metadata, plugins, serving                                              *)

\* MetadataHandler.loadMetadata.
LoadMetadata ==
    /\ phase = "migrate" /\ todo = {}
    /\ phase' = "plugins"
    /\ cache' = metadata
    /\ UNCHANGED <<database, held, detected, requests, made, overlapped, dbUp, files,
                   applied, recorded, crashes, copying, todo, total, newItems, newRows>>

\* Mutated form: one channel too few is created.
ChannelsToCreate_OffByOne(found, n) == (found + 1)..(n - 1)

ChannelsToCreate(found, n) == found..(n - 1)

\* createDataPlugins: _loadChannels finds the rows and begins to create those
\* that it counts to be missing.
LoadChannels ==
    /\ phase = "plugins"
    /\ IF Needed \subseteq applied
       THEN LET found == Cardinality({c \in Channel : rows[c] # None})
            IN  /\ held' = rows
                /\ total' = IF detected THEN NumChannels ELSE 0
                /\ newItems' = ChannelsToCreate(found, total')
                /\ phase' = IF newItems' = {} THEN "start" ELSE "channels"
       ELSE phase' = "failed" /\ UNCHANGED <<held, total, newItems>>
    /\ UNCHANGED <<database, cache, detected, requests, made, overlapped, dbUp, files,
                   applied, recorded, crashes, copying, todo, newRows>>

\* Mutated form: metadata that is there is overwritten.
Refused_Never(present) == FALSE

\* A primary key that is there already.
Refused(present) == present # None

\* A refused item ends the start, but not the creation of the other channels.
CreateItem(c) ==
    /\ c \in newItems
    /\ newItems' = newItems \ {c}
    /\ IF Refused(metadata[DefaultTag[c]])
       THEN phase' = "failed" /\ UNCHANGED <<metadata, cache, newRows>>
       ELSE /\ metadata' = [metadata EXCEPT ![DefaultTag[c]] = DefaultItem]
            /\ HandleMetadataChange(DefaultTag[c], DefaultItem)
            /\ newRows' = newRows \cup {c}
            /\ UNCHANGED phase
    /\ UNCHANGED <<rows, held, detected, requests, made, overlapped, dbUp, files, applied,
                   recorded, crashes, copying, todo, total>>

CreateRow(c) ==
    /\ c \in newRows
    /\ newRows' = newRows \ {c}
    /\ IF Refused(rows[c])
       THEN phase' = "failed" /\ UNCHANGED rows
       ELSE /\ rows' = [rows EXCEPT ![c] = [tag |-> DefaultTag[c], config |-> DefaultConfig]]
            /\ UNCHANGED phase
    /\ UNCHANGED <<metadata, copies, detected, requests, made, overlapped, dbUp, files,
                   applied, recorded, crashes, copying, todo, total, newItems>>

\* All channels are there and are read again.
ChannelsCreated ==
    /\ phase = "channels" /\ newItems = {} /\ newRows = {}
    /\ phase' = "start"
    /\ held' = rows
    /\ UNCHANGED <<database, cache, detected, requests, made, overlapped, dbUp, files,
                   applied, recorded, crashes, copying, todo, total, newItems, newRows>>

\* _updateData throws when it makes the Calibrator.
Broken(row) ==
    row # None /\ row.config.mode = "ANALOG_INPUT" /\ row.config.calibration \in Unusable

\* setPlugins starts the plugins; then the server listens.
StartPlugins ==
    /\ phase = "start"
    /\ phase' = IF \E c \in Channel : Broken(held[c]) THEN "failed" ELSE "serving"
    /\ UNCHANGED <<channelVars, dbUp, files, applied, recorded, crashes, copying, todo,
                   total, newItems, newRows>>

Serve ==
    /\ phase = "serving"
    /\ \E r \in Request : BeginRequest(r) \/ ContinueRequest(r)
    /\ UNCHANGED startVars

-----------------------------------------------------------------------------

Start ==
    \/ DatabaseTimeout \/ DatabaseReady \/ ListMigrations \/ ApplyMigration \/ RecordMigration
    \/ LoadMetadata \/ LoadChannels \/ ChannelsCreated \/ StartPlugins
    \/ \E m \in Migration : CopyMigration(m)
    \/ \E c \in Channel : CreateItem(c) \/ CreateRow(c)

Next == Launch \/ Crash \/ DatabaseUp \/ DevicesDetected \/ Start \/ Serve

\* systemd restarts what has ended, the process goes on, and Postgres comes up
\* in the end.  Nobody has to restart a server that has not ended.
Fairness == WF_vars(Launch) /\ WF_vars(Start) /\ WF_vars(DatabaseUp)

Spec == Init /\ [][Next]_vars /\ Fairness

-----------------------------------------------------------------------------
(* Properties                                                              *)

TypeOK ==
    /\ ChannelsTypeOK
    /\ phase \in {"down", "database", "list", "migrate", "record", "plugins", "channels",
                  "start", "serving", "failed"}
    /\ dbUp \in BOOLEAN
    /\ files \in [Migration -> {"absent", "torn", "whole"}]
    /\ recorded \subseteq applied /\ applied \subseteq Migration
    /\ crashes \in 0..MaxCrashes
    /\ copying \subseteq Migration /\ todo \subseteq Migration
    /\ total \in {0, NumChannels}
    /\ newItems \subseteq Channel /\ newRows \subseteq Channel

\* A server that serves has all tables, and of every channel that it counted
\* the row, the copy of it, and the metadata of its tag.
ServingIsReady ==
    phase = "serving" =>
        /\ Needed \subseteq applied
        /\ \A c \in 0..(total - 1) :
              /\ rows[c] # None /\ held[c] # None
              /\ rows[c].tag # None => metadata[rows[c].tag] # None

\* What a start needs to find.
Intact ==
    /\ Needed \subseteq applied /\ applied \cap Fragile \subseteq recorded
    /\ \A m \in Migration \ recorded : files[m] = "whole"
    /\ \A c \in Channel : rows[c] # None /\ ~ Broken(rows[c])

\* A server that serves all channels leaves things so that it starts again,
\* once the copies are through, unless a calibration has been saved that no
\* Calibrator can be made of.
ServingIsRestartable ==
    phase = "serving" /\ total = NumChannels /\ copying = {} /\ ~ (\E c \in Channel : Broken(rows[c]))
      => Intact

\* Between requests the plugin's channels and the metadata cache are what the
\* database has, whatever requests there have been, except where two of them
\* were about the same channel or tag at once.
CopiesAgree ==
    phase = "serving" =>
        /\ \A c \in Channel \ (overlapped \cup InUse) : held[c] = rows[c]
        /\ \A t \in Tag \ (overlapped \cup InUse) : cache[t] = metadata[t]

\* All of these together; the database keeps metadata for every channel's tag.
Inv == TypeOK /\ TagsHaveMetadata /\ ServingIsReady /\ ServingIsRestartable /\ CopiesAgree

\* A mutation that was alone with its channel has changed in the row what it
\* named and nothing else, or has changed nothing, also with mutations of other
\* channels and of metadata going on.
MutationsAreExact ==
    [][\A r \in Request :
          LET req == requests[r]
          IN  req # Idle /\ requests'[r] = Idle /\ phase' = "serving"
                /\ req.channel # None /\ req.channel \notin overlapped
              => rows'[req.channel] \in {req.before, Wanted(req)}]_vars

\* A row that is there, of a channel or of metadata, is changed only by a
\* mutation that is about it: no start, however often it is interrupted and
\* repeated, overwrites what users have configured.
StartKeepsData ==
    [][/\ \A c \in Channel : rows[c] # None =>
             rows'[c] = rows[c] \/ \E r \in InFlight : requests[r].channel = c
       /\ \A t \in Tag : metadata[t] # None =>
             metadata'[t] = metadata[t] \/ \E r \in InFlight : requests[r].tag = t]_vars

\* With the database up and all in place, a server that has been launched gets
\* to serve, unless it is stopped.
IntactServerServes ==
    (phase = "database" /\ dbUp /\ Intact) ~> (phase \in {"serving", "down"})

\* What src/server/index.js has a handler for: a start that has failed ends the
\* process, so that systemd starts it again.
FailedStartEnds == (phase = "failed") ~> (phase = "down")

\* Statements that do not hold.  A new device with its database up gets to
\* serve: not if Umzug lists the migrations before they have been copied.
NewServerServes ==
    (phase = "list" /\ applied = {} /\ crashes = 0) ~> (phase \in {"serving", "down"})

\* With all migrations in place, a server is not kept from starting by a crash
\* of an earlier start: it is, by one that left a channel half created.
CrashesAreSurvived ==
    (phase = "database" /\ dbUp /\ made = 0 /\ recorded = Migration) ~> (phase \in {"serving", "down"})

\* Saving a calibration does not change the mode of a channel: it does, when
\* the configuration was read before another mutation changed it.
CalibrationKeepsMode ==
    [][\A r \in Request :
          LET req == requests[r]
          IN  req.at = "updateChannel" /\ requests'[r].at = "channelHook" /\ req.calibration # None
              => rows'[req.channel].config.mode = rows[req.channel].config.mode]_vars

=============================================================================
