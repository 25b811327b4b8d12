-------------------------- MODULE ServerStartProofs --------------------------
(***************************************************************************)
(* Proofs about the start of the server and the mutations that it serves,  *)
(* for any number of channels, migrations, requests and crashes.           *)
(***************************************************************************)
EXTENDS ServerStart, FiniteSetTheorems, TLAPS

Constants ==
    /\ NumChannels \in Nat /\ MaxRequests \in Nat /\ MaxCrashes \in Nat
    /\ Channel \cap Tag = {}
    /\ Analog \subseteq Channel /\ Configs \subseteq Config
    /\ Migration \subseteq Nat /\ Fragile \subseteq Migration /\ Needed \subseteq Migration
    /\ DefaultTag \in [Channel -> Tag] /\ DefaultItem \in Item /\ DefaultConfig \in Config
    /\ None \notin Channel /\ None \notin Tag /\ None \notin Item
    /\ None \notin Calibration /\ None \notin Config /\ None \notin Row

LEMMA ConstantsOK == Constants
BY ChannelAssumption, NoneAssumption, StartAssumption DEF Constants

-----------------------------------------------------------------------------
(* The inductive invariant: migrations                                     *)

\* Files that have been listed, and after that all that was listed is through.
Listed == {"migrate", "record"}
Loaded == {"plugins", "channels", "start", "serving"}

\* What has been applied was whole; no file is forgotten between the copies,
\* Umzug's list and its table.
FilesInv ==
    /\ \A m \in applied : files[m] = "whole"
    /\ phase \in {"list"} \cup Listed \cup Loaded =>
          \A m \in Migration : files[m] = "absent" => m \in copying
    /\ phase \in Listed =>
          /\ \A m \in Migration : files[m] = "torn" => m \in copying \cup todo
          /\ applied \subseteq recorded \cup todo
          /\ \A m \in todo : files[m] # "absent"
    /\ phase = "record" => todo # {} /\ First(todo) \in applied
    /\ phase \in Loaded =>
          /\ \A m \in Migration : files[m] = "torn" => m \in copying
          /\ applied \subseteq recorded

StartTypes ==
    /\ phase \in {"down", "database", "list", "migrate", "record", "plugins", "channels",
                  "start", "serving", "failed"}
    /\ dbUp \in BOOLEAN
    /\ files \in [Migration -> {"absent", "torn", "whole"}]
    /\ recorded \subseteq applied /\ applied \subseteq Migration
    /\ crashes \in 0..MaxCrashes
    /\ copying \subseteq Migration /\ todo \subseteq Migration
    /\ total \in {0, NumChannels}
    /\ newItems \subseteq Channel /\ newRows \subseteq Channel

-----------------------------------------------------------------------------
(* Channels                                                                *)

DataTypes ==
    /\ rows \in [Channel -> Row \cup {None}]
    /\ metadata \in [Tag -> Item \cup {None}]
    /\ held \in [Channel -> Row \cup {None}]
    /\ cache \in [Tag -> Item \cup {None}]
    /\ detected \in BOOLEAN
    /\ made \in 0..MaxRequests
    /\ overlapped \subseteq Channel \cup Tag

\* A row is created after its metadata.  While channels are created, those that
\* were counted are there or on their way, or one is on its way that has a row
\* already, which is going to be refused.
ChannelsInv ==
    /\ TagsHaveMetadata
    /\ \A c \in Channel : rows[c] # None \/ c \in newRows => metadata[DefaultTag[c]] # None
    /\ newItems \cup newRows # {} => phase \in {"channels", "failed"}
    /\ phase \in {"channels", "start", "serving"} => Needed \subseteq applied
    /\ phase = "channels" =>
          \/ \A c \in 0..(total - 1) : rows[c] # None \/ c \in newItems \cup newRows
          \/ \E c \in newItems : rows[c] # None
    /\ phase \in {"start", "serving"} =>
          \A c \in 0..(total - 1) : rows[c] # None /\ held[c] # None
    /\ phase = "start" => held = rows
    /\ phase \in {"plugins", "channels", "start"} => cache = metadata

-----------------------------------------------------------------------------
(* Requests                                                                *)

AboutItem == {"selectItem", "createItem", "updateItem", "itemHook"}

Req == [at          : AboutItem \cup {"readConfig", "selectChannel", "updateChannel", "channelHook"},
        channel     : Channel \cup {None},
        tag         : Tag \cup {None},
        item        : Item \cup {None},
        config      : Config \cup {None},
        calibration : Calibration \cup {None},
        read        : Row \cup {None},
        before      : Row \cup {None}]

\* What each place needs to know.
Shape(req) ==
    /\ req.at \in AboutItem => req.tag # None /\ req.item # None /\ req.calibration = None
    /\ req.at \notin AboutItem => req.channel # None
    /\ req.at \in {"updateChannel", "channelHook"} => req.read # None
    /\ req.at = "readConfig" => req.calibration # None
    /\ req.calibration # None => req.tag = None

\* A request that is alone with its channel: before its UPDATE the row is what
\* it was, and the plugin's copy too; after it, the row is what was asked for.
ChannelOK(req) ==
    LET row == rows[req.channel]
    IN  /\ IF req.at = "channelHook"
           THEN row = Merge(req.read, req.tag, req.config) /\ row = Wanted(req)
           ELSE held[req.channel] = row /\ row = req.before
        /\ req.at = "updateChannel" => req.read = row
        /\ req.calibration # None /\ req.at # "readConfig" =>
              /\ req.before # None
              /\ req.config = WithCalibration(req.before.config, req.calibration)

\* The same with its tag and the cache.
ItemOK(req) ==
    IF req.at = "itemHook" THEN metadata[req.tag] = req.item
    ELSE cache[req.tag] = metadata[req.tag]

RequestOK(req) ==
    /\ req \in Req /\ Shape(req)
    /\ req.at \in {"updateChannel", "channelHook"} => rows[req.channel] # None
    /\ req.channel # None /\ req.channel \notin overlapped => ChannelOK(req)
    /\ req.tag # None /\ req.tag \notin overlapped => ItemOK(req)

RequestsInv ==
    /\ requests \in [Request -> Req \cup {Idle}]
    /\ \A r \in Request : requests[r] # Idle => RequestOK(requests[r]) /\ phase = "serving"

\* What two requests use is overlapped.
AloneInv ==
    \A r, q \in Request :
        r # q /\ requests[r] # Idle /\ requests[q] # Idle
          => Uses(requests[r]) \cap Uses(requests[q]) \subseteq overlapped

ServedInv == RequestsInv /\ AloneInv /\ CopiesAgree

IInv == StartTypes /\ FilesInv /\ DataTypes /\ ChannelsInv /\ ServedInv

LEMMA ReqNotIdle == \A req \in Req : req # Idle
BY DEF Req, Idle, AboutItem

LEMMA TypeFromParts == IInv => TypeOK
<1> SUFFICES ASSUME IInv PROVE TypeOK
  OBVIOUS
<1>1. ChannelsTypeOK
  <2>1. \A r \in InFlight : requests[r] \in Req
    BY DEF IInv, ServedInv, RequestsInv, InFlight
  <2> QED BY <2>1 DEF IInv, DataTypes, ServedInv, RequestsInv, ChannelsTypeOK, Req
<1> QED BY <1>1 DEF IInv, StartTypes, TypeOK

\* A set of migrations has a first.
LEMMA FirstIsLeast ==
    ASSUME NEW S \in SUBSET Nat, S # {}
    PROVE  First(S) \in S
<1> DEFINE R == {p \in Nat \X Nat : p[1] < p[2]}
<1>1. IsWellFoundedOn(R, Nat)
  BY NatLessThanWellFounded, Zenon DEF OpToRel
<1>2. PICK m \in S : \A n \in S : ~ (<<n, m>> \in R)
  BY <1>1, WFMin
<1>3. \A n \in S : ~ (n < m)
  BY <1>2
<1>4. \A n \in S : m <= n
  BY <1>3
<1> QED BY <1>4 DEF First

\* Channels are finitely many, and as many as they are numbered.
LEMMA CountedChannels ==
    ASSUME NEW S \in SUBSET Channel
    PROVE  /\ Cardinality(S) \in Nat
           /\ Cardinality(S) >= NumChannels => S = Channel
           /\ S \subseteq 0..(Cardinality(S) - 1) => S = 0..(Cardinality(S) - 1)
<1> USE ConstantsOK DEF Constants
<1>1. IsFiniteSet(Channel) /\ Cardinality(Channel) = NumChannels
  BY FS_Interval DEF Channel
<1>2. IsFiniteSet(S) /\ Cardinality(S) <= NumChannels /\ (NumChannels = Cardinality(S) => S = Channel)
  BY <1>1, FS_Subset
<1>3. Cardinality(S) \in Nat
  BY <1>2, FS_CardinalityType
<1>4. ASSUME S \subseteq 0..(Cardinality(S) - 1) PROVE S = 0..(Cardinality(S) - 1)
  <2> DEFINE n == Cardinality(S)
  <2>1. IsFiniteSet(0..(n - 1)) /\ Cardinality(0..(n - 1)) = n
    BY <1>3, FS_Interval
  <2> QED BY <1>4, <2>1, FS_Subset
<1> QED BY <1>2, <1>3, <1>4

LEMMA InitServer == Init => IInv
<1> SUFFICES ASSUME Init PROVE IInv
  OBVIOUS
<1> USE ConstantsOK DEF Constants
<1>1. /\ phase = "down" /\ dbUp = FALSE /\ crashes = 0 /\ recorded = applied
      /\ held = Nobody /\ cache = NoItem /\ detected = FALSE
      /\ requests = AllIdle /\ made = 0 /\ overlapped = {}
      /\ copying = {} /\ todo = {} /\ total = 0 /\ newItems = {} /\ newRows = {}
  BY DEF Init
<1>2. \A c \in Channel : [tag |-> DefaultTag[c], config |-> DefaultConfig] \in Row
  BY DEF Row
<1>3. files \in [Migration -> {"absent", "torn", "whole"}] /\ applied \subseteq Migration
      /\ \A m \in applied : files[m] = "whole"
  <2>1. CASE files = [m \in Migration |-> "absent"] /\ applied = {}
    BY <2>1
  <2>2. CASE files = [m \in Migration |-> "whole"] /\ applied = Migration
    BY <2>2
  <2> QED BY <2>1, <2>2 DEF Init
<1>8. StartTypes
  <2>1. dbUp \in BOOLEAN
    BY <1>1
  <2>2. crashes \in 0..MaxCrashes
    BY <1>1
  <2> QED BY <1>1, <1>3, <2>1, <2>2 DEF StartTypes
<1>9. FilesInv
  BY <1>1, <1>3 DEF FilesInv, Listed, Loaded
<1>4. /\ rows \in [Channel -> Row \cup {None}] /\ metadata \in [Tag -> Item \cup {None}]
      /\ \A c \in Channel : rows[c] # None => /\ rows[c].tag = DefaultTag[c]
                                              /\ metadata[DefaultTag[c]] # None
  <2>1. CASE rows = Nobody /\ metadata = NoItem
    BY <2>1 DEF Nobody, NoItem
  <2>2. CASE /\ rows = [c \in Channel |-> [tag |-> DefaultTag[c], config |-> DefaultConfig]]
             /\ metadata = [t \in Tag |-> IF \E c \in Channel : DefaultTag[c] = t
                                          THEN DefaultItem ELSE None]
    BY <1>2, <2>2
  <2> QED BY <2>1, <2>2 DEF Init
<1>5. DataTypes
  <2>1. detected \in BOOLEAN
    BY <1>1
  <2>2. made \in 0..MaxRequests
    BY <1>1
  <2>3. held \in [Channel -> Row \cup {None}] /\ cache \in [Tag -> Item \cup {None}]
    BY <1>1 DEF Nobody, NoItem
  <2> QED BY <1>1, <1>4, <2>1, <2>2, <2>3 DEF DataTypes
<1>6. ChannelsInv
  BY <1>1, <1>4 DEF ChannelsInv, TagsHaveMetadata
<1>7. ServedInv
  BY <1>1 DEF ServedInv, RequestsInv, AloneInv, CopiesAgree, AllIdle
<1> QED BY <1>5, <1>6, <1>7, <1>8, <1>9 DEF IInv

-----------------------------------------------------------------------------
(* Starting                                                                *)

\* Requests are there only while the server serves.
LEMMA NotServed ==
    ASSUME IInv, phase # "serving", phase' # "serving", UNCHANGED requests
    PROVE  ServedInv'
<1>1. \A r \in Request : requests'[r] = Idle
  BY DEF IInv, ServedInv, RequestsInv
<1>2. requests' \in [Request -> Req \cup {Idle}]
  BY DEF IInv, ServedInv, RequestsInv
<1>3. RequestsInv' /\ AloneInv'
  BY <1>1, <1>2 DEF RequestsInv, AloneInv
<1>4. CopiesAgree'
  BY DEF CopiesAgree
<1> QED BY <1>3, <1>4 DEF ServedInv

LEMMA ServedStays ==
    ASSUME IInv, UNCHANGED <<rows, metadata, held, cache, requests, overlapped, phase>>
    PROVE  ServedInv'
BY DEF IInv, ServedInv, RequestsInv, AloneInv, CopiesAgree, RequestOK, Shape, ChannelOK, ItemOK,
       Wanted, InUse, InFlight, Uses

LEMMA DataStay ==
    ASSUME IInv, UNCHANGED <<rows, metadata, held, cache, made, overlapped>>, detected' \in BOOLEAN
    PROVE  DataTypes'
BY DEF IInv, DataTypes

LEMMA SurroundingsKeep ==
    ASSUME IInv, Launch \/ Crash \/ DatabaseUp \/ DevicesDetected \/ DatabaseTimeout
    PROVE  IInv'
<1> USE ConstantsOK DEF Constants
<1>1. CASE Launch
  <2>1. /\ phase = "down" /\ phase' = "database" /\ held' = Nobody /\ cache' = NoItem
        /\ detected' = FALSE /\ total' = 0
        /\ UNCHANGED <<rows, metadata, requests, made, overlapped, dbUp, files, applied, recorded,
                       crashes, copying, todo, newItems, newRows>>
    BY <1>1 DEF Launch, database
  <2>2. ServedInv'
    BY <2>1, NotServed
  <2>3. DataTypes'
    <3>1. detected' \in BOOLEAN
      BY <2>1
    <3>2. held' \in [Channel -> Row \cup {None}] /\ cache' \in [Tag -> Item \cup {None}]
      BY <2>1 DEF Nobody, NoItem
    <3> QED BY <2>1, <3>1, <3>2 DEF IInv, DataTypes
  <2>4. StartTypes' /\ FilesInv'
    BY <2>1 DEF IInv, StartTypes, FilesInv, Listed, Loaded
  <2>5. ChannelsInv'
    BY <2>1 DEF IInv, ChannelsInv, TagsHaveMetadata
  <2> QED BY <2>2, <2>3, <2>4, <2>5 DEF IInv
<1>2. CASE Crash
  <2>1. /\ phase' = "down" /\ crashes < MaxCrashes /\ crashes' = crashes + 1
        /\ requests' = AllIdle /\ overlapped' = {}
        /\ copying' = {} /\ todo' = {} /\ newItems' = {} /\ newRows' = {}
        /\ dbUp' \in {dbUp, FALSE}
        /\ UNCHANGED <<rows, metadata, held, cache, detected, made, files, applied, recorded, total>>
    BY <1>2 DEF Crash, database, copies
  <2>2. ServedInv'
    BY <2>1 DEF ServedInv, RequestsInv, AloneInv, CopiesAgree, AllIdle
  <2>3. DataTypes'
    BY <2>1 DEF IInv, DataTypes
  <2>4. StartTypes'
    <3>1. dbUp' \in BOOLEAN
      BY <2>1 DEF IInv, StartTypes
    <3>2. crashes' \in 0..MaxCrashes
      BY <2>1 DEF IInv, StartTypes
    <3> QED BY <2>1, <3>1, <3>2 DEF IInv, StartTypes
  <2>5. FilesInv' /\ ChannelsInv'
    BY <2>1 DEF IInv, FilesInv, ChannelsInv, TagsHaveMetadata, Listed, Loaded
  <2> QED BY <2>2, <2>3, <2>4, <2>5 DEF IInv
<1>3. CASE DatabaseUp
  <2>1. dbUp' = TRUE
        /\ UNCHANGED <<channelVars, phase, files, applied, recorded, crashes, copying, todo,
                       total, newItems, newRows>>
    BY <1>3 DEF DatabaseUp
  <2>2. UNCHANGED <<rows, metadata, held, cache, detected, requests, made, overlapped>>
    BY <2>1 DEF channelVars
  <2>3. ServedInv' /\ DataTypes'
    <3>1. detected' \in BOOLEAN
      BY <2>2 DEF IInv, DataTypes
    <3> QED BY <2>1, <2>2, <3>1, ServedStays, DataStay
  <2>4. StartTypes'
    <3>1. dbUp' \in BOOLEAN
      BY <2>1
    <3> QED BY <2>1, <3>1 DEF IInv, StartTypes
  <2>5. FilesInv' /\ ChannelsInv'
    BY <2>1, <2>2 DEF IInv, FilesInv, ChannelsInv, TagsHaveMetadata
  <2> QED BY <2>3, <2>4, <2>5 DEF IInv
<1>4. CASE DevicesDetected
  <2>1. detected' = TRUE /\ UNCHANGED <<database, copies, requests, made, overlapped, startVars>>
    BY <1>4 DEF DevicesDetected
  <2>2. /\ UNCHANGED <<rows, metadata, held, cache, requests, made, overlapped, phase, dbUp, files,
                       applied, recorded, crashes, copying, todo, total, newItems, newRows>>
        /\ detected' \in BOOLEAN
    BY <2>1 DEF database, copies, startVars
  <2>3. ServedInv' /\ DataTypes'
    BY <2>2, ServedStays, DataStay
  <2>4. StartTypes' /\ FilesInv' /\ ChannelsInv'
    BY <2>2 DEF IInv, StartTypes, FilesInv, ChannelsInv, TagsHaveMetadata
  <2> QED BY <2>3, <2>4 DEF IInv
<1>5. CASE DatabaseTimeout
  <2>1. /\ phase = "database" /\ phase' = "failed"
        /\ UNCHANGED <<channelVars, dbUp, files, applied, recorded, crashes, copying, todo,
                       total, newItems, newRows>>
    BY <1>5 DEF DatabaseTimeout
  <2>2. UNCHANGED <<rows, metadata, held, cache, detected, requests, made, overlapped>>
    BY <2>1 DEF channelVars
  <2>3. ServedInv' /\ DataTypes'
    <3>1. detected' \in BOOLEAN
      BY <2>2 DEF IInv, DataTypes
    <3> QED BY <2>1, <2>2, <3>1, NotServed, DataStay
  <2>4. StartTypes' /\ FilesInv' /\ ChannelsInv'
    BY <2>1, <2>2 DEF IInv, StartTypes, FilesInv, ChannelsInv, TagsHaveMetadata, Listed, Loaded
  <2> QED BY <2>3, <2>4 DEF IInv
<1> QED BY <1>1, <1>2, <1>3, <1>4, <1>5

LEMMA MigrationsKeep ==
    ASSUME IInv, \/ DatabaseReady \/ ListMigrations \/ ApplyMigration \/ RecordMigration
                 \/ \E m \in Migration : CopyMigration(m)
    PROVE  IInv'
<1> USE ConstantsOK DEF Constants
<1>1. /\ UNCHANGED <<channelVars, dbUp, crashes, total, newItems, newRows>>
      /\ UNCHANGED <<rows, metadata, held, cache, detected, requests, made, overlapped>>
  BY DEF DatabaseReady, ListMigrations, ApplyMigration, RecordMigration, CopyMigration, channelVars
<1>2. \/ phase' = phase
      \/ phase \in {"database", "list", "migrate", "record"}
         /\ phase' \in {"list", "migrate", "record", "failed"}
  BY DEF DatabaseReady, ListMigrations, ApplyMigration, RecordMigration, CopyMigration
<1>3. ServedInv' /\ DataTypes'
  <2>1. detected' \in BOOLEAN
    BY <1>1 DEF IInv, DataTypes
  <2> QED BY <1>1, <1>2, <2>1, NotServed, ServedStays, DataStay
<1>4. ASSUME applied \subseteq applied' PROVE ChannelsInv'
  BY <1>1, <1>2, <1>4 DEF IInv, ChannelsInv, TagsHaveMetadata
<1>5. dbUp' \in BOOLEAN
  BY <1>1 DEF IInv, StartTypes
<1>6. CASE DatabaseReady
  <2>1. /\ phase' = "list" /\ copying' = {m \in Migration : files[m] = "absent"}
        /\ UNCHANGED <<files, applied, recorded, todo>>
    BY <1>6 DEF DatabaseReady
  <2>2. StartTypes'
    BY <1>1, <1>5, <2>1 DEF IInv, StartTypes
  <2>3. FilesInv'
    BY <2>1 DEF IInv, FilesInv, Listed, Loaded
  <2> QED BY <1>3, <1>4, <2>1, <2>2, <2>3 DEF IInv
<1>7. CASE ListMigrations
  <2>1. /\ phase = "list" /\ phase' = "migrate"
        /\ todo' = {m \in Migration : files[m] # "absent"} \ recorded
        /\ UNCHANGED <<files, applied, recorded, copying>>
    BY <1>7 DEF ListMigrations
  <2>2. StartTypes'
    BY <1>1, <1>5, <2>1 DEF IInv, StartTypes
  <2>3. FilesInv'
    BY <2>1 DEF IInv, StartTypes, FilesInv, Listed, Loaded
  <2> QED BY <1>3, <1>4, <2>1, <2>2, <2>3 DEF IInv
<1>8. CASE ApplyMigration
  <2>1. /\ phase = "migrate" /\ todo # {} /\ UNCHANGED <<files, recorded, copying, todo>>
        /\ \/ phase' = "failed" /\ UNCHANGED applied
           \/ files[First(todo)] # "torn" /\ phase' = "record"
              /\ applied' = applied \cup {First(todo)}
    BY <1>8 DEF ApplyMigration
  <2>2. First(todo) \in todo /\ First(todo) \in Migration
    <3>1. todo \in SUBSET Nat /\ todo \subseteq Migration
      BY DEF IInv, StartTypes
    <3> QED BY <2>1, <3>1, FirstIsLeast
  <2>3. StartTypes'
    BY <1>1, <1>5, <2>1, <2>2 DEF IInv, StartTypes
  <2>4. phase' = "record" => files[First(todo)] = "whole"
    BY <2>1, <2>2 DEF IInv, StartTypes, FilesInv, Listed
  <2>5. FilesInv'
    BY <2>1, <2>2, <2>4 DEF IInv, StartTypes, FilesInv, Listed, Loaded
  <2> QED BY <1>3, <1>4, <2>1, <2>3, <2>5 DEF IInv
<1>9. CASE RecordMigration
  <2>1. /\ phase = "record" /\ phase' = "migrate"
        /\ recorded' = recorded \cup {First(todo)} /\ todo' = todo \ {First(todo)}
        /\ UNCHANGED <<files, applied, copying>>
    BY <1>9 DEF RecordMigration
  <2>2. First(todo) \in applied /\ files[First(todo)] = "whole"
    BY <2>1 DEF IInv, FilesInv
  <2>3. StartTypes'
    BY <1>1, <1>5, <2>1, <2>2 DEF IInv, StartTypes
  <2>4. FilesInv'
    BY <2>1, <2>2 DEF IInv, FilesInv, Listed, Loaded
  <2> QED BY <1>3, <1>4, <2>1, <2>3, <2>4 DEF IInv
<1>10. ASSUME NEW m \in Migration, CopyMigration(m) PROVE IInv'
  <2>1. /\ m \in copying /\ UNCHANGED <<phase, applied, recorded, todo>>
        /\ \/ /\ files[m] = "absent" /\ files' = [files EXCEPT ![m] = "torn"]
              /\ UNCHANGED copying
           \/ files' = [files EXCEPT ![m] = "whole"] /\ copying' = copying \ {m}
    BY <1>10 DEF CopyMigration
  <2>2. StartTypes'
    BY <1>1, <1>5, <2>1 DEF IInv, StartTypes
  <2>3. files \in [Migration -> {"absent", "torn", "whole"}]
    BY DEF IInv, StartTypes
  <2>4. FilesInv'
    BY <2>1, <2>3 DEF IInv, StartTypes, FilesInv
  <2> QED BY <1>3, <1>4, <2>1, <2>2, <2>4 DEF IInv
<1> QED BY <1>6, <1>7, <1>8, <1>9, <1>10

LEMMA LoadKeeps ==
    ASSUME IInv, LoadMetadata \/ LoadChannels \/ ChannelsCreated \/ StartPlugins
    PROVE  IInv'
<1> USE ConstantsOK DEF Constants
<1>1. UNCHANGED <<rows, metadata, detected, requests, made, overlapped, dbUp, files, applied,
                  recorded, crashes, copying, todo, newRows>>
  BY DEF LoadMetadata, LoadChannels, ChannelsCreated, StartPlugins, database, channelVars
<1>2. dbUp' \in BOOLEAN /\ detected' \in BOOLEAN
  BY <1>1 DEF IInv, StartTypes, DataTypes
<1>3. CASE LoadMetadata
  <2>1. /\ phase = "migrate" /\ todo = {} /\ phase' = "plugins" /\ cache' = metadata
        /\ UNCHANGED <<held, total, newItems>>
    BY <1>3 DEF LoadMetadata
  <2>2. DataTypes' /\ ServedInv'
    BY <1>1, <1>2, <2>1, NotServed DEF IInv, DataTypes
  <2>3. StartTypes'
    BY <1>1, <1>2, <2>1 DEF IInv, StartTypes
  <2>4. FilesInv' /\ ChannelsInv'
    BY <1>1, <2>1 DEF IInv, FilesInv, ChannelsInv, TagsHaveMetadata, Listed, Loaded
  <2> QED BY <2>2, <2>3, <2>4 DEF IInv
<1>4. CASE LoadChannels
  <2> DEFINE S == {c \in Channel : rows[c] # None}
             found == Cardinality(S)
  <2>1. phase = "plugins" /\ UNCHANGED cache
    BY <1>4 DEF LoadChannels
  <2>2. newItems = {} /\ newRows = {}
    BY <2>1 DEF IInv, ChannelsInv
  <2>3. S \in SUBSET Channel
    OBVIOUS
  <2> HIDE DEF S
  <2>4. /\ found \in Nat
        /\ found >= NumChannels => S = Channel
        /\ S \subseteq 0..(found - 1) => S = 0..(found - 1)
    BY <2>3, CountedChannels
  <2>5. CASE Needed \subseteq applied
    <3>1. /\ held' = rows /\ total' = IF detected THEN NumChannels ELSE 0
          /\ newItems' = found..(total' - 1)
          /\ phase' = IF newItems' = {} THEN "start" ELSE "channels"
      BY <1>4, <2>5 DEF LoadChannels, ChannelsToCreate, S
    <3>2. total' \in {0, NumChannels} /\ newItems' \subseteq Channel
      BY <2>4, <3>1 DEF Channel
    <3>3. StartTypes'
      BY <1>1, <1>2, <3>1, <3>2 DEF IInv, StartTypes
    <3>4. DataTypes' /\ ServedInv'
      BY <1>1, <1>2, <2>1, <3>1, NotServed DEF IInv, DataTypes
    <3>5. FilesInv'
      <4>1. phase' \in {"start", "channels"}
        BY <3>1
      <4> QED BY <1>1, <2>1, <4>1 DEF IInv, FilesInv, Listed, Loaded
    <3>6. ASSUME newItems' = {} PROVE \A c \in 0..(total' - 1) : rows[c] # None
      <4>1. CASE total' = 0
        BY <4>1
      <4>2. CASE total' = NumChannels
        <5>1. found >= NumChannels
          BY <2>4, <3>1, <3>6, <4>2
        <5>2. S = Channel /\ 0..(total' - 1) = Channel
          BY <2>4, <4>2, <5>1 DEF Channel
        <5> QED BY <5>2 DEF S
      <4> QED BY <3>2, <4>1, <4>2
    <3>7. ASSUME newItems' # {}
          PROVE  \/ \A c \in 0..(total' - 1) : rows[c] # None \/ c \in newItems'
                 \/ \E c \in newItems' : rows[c] # None
      <4> SUFFICES ASSUME \A c \in newItems' : rows[c] = None, NEW c \in 0..(total' - 1),
                          c \notin newItems'
                   PROVE  rows[c] # None
        OBVIOUS
      <4>1. total' = NumChannels
        BY <2>4, <3>1, <3>2, <3>7
      <4>2. \A d \in S : d \in 0..(NumChannels - 1) /\ d \notin newItems'
        BY <2>3 DEF S, Channel
      <4>3. S \subseteq 0..(found - 1)
        BY <2>4, <3>1, <4>1, <4>2
      <4>4. c \in 0..(found - 1)
        BY <2>4, <3>1, <4>1
      <4> QED BY <2>4, <4>3, <4>4 DEF S
    <3>8. ChannelsInv'
      <4>1. phase' = "start" => \A c \in 0..(total' - 1) : rows'[c] # None /\ held'[c] # None
        BY <1>1, <3>1, <3>6
      <4>2. phase' = "channels" =>
              \/ \A c \in 0..(total' - 1) : rows'[c] # None \/ c \in newItems' \cup newRows'
              \/ \E c \in newItems' : rows'[c] # None
        BY <1>1, <3>1, <3>7
      <4>3. newItems' \cup newRows' # {} => phase' \in {"channels", "failed"}
        BY <1>1, <2>2, <3>1
      <4>4. cache' = metadata' /\ Needed \subseteq applied' /\ held' = rows'
            /\ phase' \in {"start", "channels"}
        BY <1>1, <2>1, <2>5, <3>1 DEF IInv, ChannelsInv
      <4>5. TagsHaveMetadata' /\ \A c \in Channel : rows'[c] # None \/ c \in newRows' => metadata'[DefaultTag[c]] # None
        BY <1>1 DEF IInv, ChannelsInv, TagsHaveMetadata
      <4> QED BY <4>1, <4>2, <4>3, <4>4, <4>5 DEF ChannelsInv
    <3> QED BY <3>3, <3>4, <3>5, <3>8 DEF IInv
  <2>6. CASE ~ (Needed \subseteq applied)
    <3>1. phase' = "failed" /\ UNCHANGED <<held, total, newItems>>
      BY <1>4, <2>6 DEF LoadChannels
    <3>2. DataTypes' /\ ServedInv'
      BY <1>1, <1>2, <2>1, <3>1, NotServed DEF IInv, DataTypes
    <3>3. StartTypes'
      BY <1>1, <1>2, <3>1 DEF IInv, StartTypes
    <3>4. FilesInv' /\ ChannelsInv'
      BY <1>1, <2>1, <3>1 DEF IInv, FilesInv, ChannelsInv, TagsHaveMetadata, Listed, Loaded
    <3> QED BY <3>2, <3>3, <3>4 DEF IInv
  <2> QED BY <2>5, <2>6
<1>5. CASE ChannelsCreated
  <2>1. /\ phase = "channels" /\ newItems = {} /\ newRows = {} /\ phase' = "start"
        /\ held' = rows /\ UNCHANGED <<cache, total, newItems>>
    BY <1>5 DEF ChannelsCreated
  <2>2. DataTypes' /\ ServedInv'
    BY <1>1, <1>2, <2>1, NotServed DEF IInv, DataTypes
  <2>3. StartTypes'
    BY <1>1, <1>2, <2>1 DEF IInv, StartTypes
  <2>4. FilesInv' /\ ChannelsInv'
    BY <1>1, <2>1 DEF IInv, FilesInv, ChannelsInv, TagsHaveMetadata, Listed, Loaded
  <2> QED BY <2>2, <2>3, <2>4 DEF IInv
<1>6. CASE StartPlugins
  <2>1. /\ phase = "start" /\ phase' \in {"failed", "serving"}
        /\ UNCHANGED <<held, cache, total, newItems>>
    BY <1>6 DEF StartPlugins, channelVars
  <2>2. DataTypes'
    BY <1>1, <1>2, <2>1 DEF IInv, DataTypes
  <2>3. StartTypes'
    BY <1>1, <1>2, <2>1 DEF IInv, StartTypes
  <2>4. FilesInv' /\ ChannelsInv'
    BY <1>1, <2>1 DEF IInv, FilesInv, ChannelsInv, TagsHaveMetadata, Listed, Loaded
  <2>5. ServedInv'
    <3>1. \A r \in Request : requests'[r] = Idle
      BY <1>1, <2>1 DEF IInv, ServedInv, RequestsInv
    <3>2. RequestsInv' /\ AloneInv'
      BY <1>1, <3>1 DEF IInv, ServedInv, RequestsInv, AloneInv
    <3>3. CopiesAgree'
      BY <1>1, <2>1 DEF IInv, ChannelsInv, CopiesAgree
    <3> QED BY <3>2, <3>3 DEF ServedInv
  <2> QED BY <2>2, <2>3, <2>4, <2>5 DEF IInv
<1> QED BY <1>3, <1>4, <1>5, <1>6

LEMMA CreateKeeps ==
    ASSUME IInv, NEW c \in Channel, CreateItem(c) \/ CreateRow(c)
    PROVE  IInv'
<1> USE ConstantsOK DEF Constants
<1>1. /\ phase \in {"channels", "failed"} /\ phase' \in {phase, "failed"}
      /\ UNCHANGED <<held, detected, requests, made, overlapped, dbUp, files, applied, recorded,
                     crashes, copying, todo, total>>
  BY DEF CreateItem, CreateRow, copies, IInv, ChannelsInv
<1>2. ServedInv'
  BY <1>1, NotServed
<1>3. dbUp' \in BOOLEAN /\ detected' \in BOOLEAN
  BY <1>1 DEF IInv, StartTypes, DataTypes
<1>4. FilesInv'
  BY <1>1 DEF IInv, FilesInv, Listed, Loaded
<1>5. DefaultTag[c] \in Tag
  OBVIOUS
<1>6. CASE CreateItem(c)
  <2>1. c \in newItems /\ newItems' = newItems \ {c} /\ UNCHANGED rows
    BY <1>6 DEF CreateItem
  <2>2. CASE metadata[DefaultTag[c]] # None
    <3>1. phase' = "failed" /\ UNCHANGED <<metadata, cache, newRows>>
      BY <1>6, <2>2 DEF CreateItem, Refused
    <3>2. DataTypes' /\ StartTypes'
      BY <1>1, <1>3, <2>1, <3>1 DEF IInv, DataTypes, StartTypes
    <3>3. ChannelsInv'
      BY <1>1, <2>1, <3>1 DEF IInv, ChannelsInv, TagsHaveMetadata
    <3> QED BY <1>2, <1>4, <3>2, <3>3 DEF IInv
  <2>3. CASE metadata[DefaultTag[c]] = None
    <3>1. /\ metadata' = [metadata EXCEPT ![DefaultTag[c]] = DefaultItem]
          /\ cache' = [cache EXCEPT ![DefaultTag[c]] = DefaultItem]
          /\ newRows' = newRows \cup {c} /\ phase' = phase
      BY <1>6, <2>3 DEF CreateItem, Refused, HandleMetadataChange
    <3>2. DataTypes' /\ StartTypes'
      BY <1>1, <1>3, <1>5, <2>1, <3>1 DEF IInv, DataTypes, StartTypes
    <3>3. \A t \in Tag : metadata[t] # None => metadata'[t] # None
      BY <3>1 DEF IInv, DataTypes
    <3>4. metadata'[DefaultTag[c]] # None
      BY <1>5, <3>1 DEF IInv, DataTypes
    <3>5. TagsHaveMetadata'
      <4>1. \A d \in Channel : rows[d] # None => rows[d].tag \in Tag \cup {None}
        BY DEF IInv, DataTypes, Row
      <4> QED BY <2>1, <3>3, <4>1 DEF IInv, ChannelsInv, TagsHaveMetadata
    <3>6. \A d \in Channel : rows'[d] # None \/ d \in newRows' => metadata'[DefaultTag[d]] # None
      BY <2>1, <3>1, <3>3, <3>4 DEF IInv, ChannelsInv
    <3>7. rows[c] = None
      BY <2>3 DEF IInv, ChannelsInv
    <3>8. phase' = "channels" =>
            \/ \A d \in 0..(total' - 1) : rows'[d] # None \/ d \in newItems' \cup newRows'
            \/ \E d \in newItems' : rows'[d] # None
      BY <1>1, <2>1, <3>1, <3>7 DEF IInv, ChannelsInv
    <3>9. phase' = "channels" => cache' = metadata'
      BY <3>1 DEF IInv, ChannelsInv
    <3>10. ChannelsInv'
      BY <1>1, <3>5, <3>6, <3>8, <3>9 DEF IInv, ChannelsInv
    <3> QED BY <1>2, <1>4, <3>2, <3>10 DEF IInv
  <2> QED BY <2>2, <2>3
<1>7. CASE CreateRow(c)
  <2>1. c \in newRows /\ newRows' = newRows \ {c} /\ UNCHANGED <<metadata, cache, newItems>>
    BY <1>7 DEF CreateRow, copies
  <2>2. CASE rows[c] # None
    <3>1. phase' = "failed" /\ UNCHANGED rows
      BY <1>7, <2>2 DEF CreateRow, Refused
    <3>2. DataTypes' /\ StartTypes'
      BY <1>1, <1>3, <2>1, <3>1 DEF IInv, DataTypes, StartTypes
    <3>3. ChannelsInv'
      BY <1>1, <2>1, <3>1 DEF IInv, ChannelsInv, TagsHaveMetadata
    <3> QED BY <1>2, <1>4, <3>2, <3>3 DEF IInv
  <2>3. CASE rows[c] = None
    <3>1. /\ rows' = [rows EXCEPT ![c] = [tag |-> DefaultTag[c], config |-> DefaultConfig]]
          /\ phase' = phase
      BY <1>7, <2>3 DEF CreateRow, Refused
    <3>2. PICK row \in Row : row = [tag |-> DefaultTag[c], config |-> DefaultConfig]
      BY <1>5 DEF Row
    <3>3. rows' = [rows EXCEPT ![c] = row] /\ row.tag = DefaultTag[c] /\ row # None
      BY <3>1, <3>2
    <3>4. DataTypes' /\ StartTypes'
      BY <1>1, <1>3, <2>1, <3>1, <3>3 DEF IInv, DataTypes, StartTypes
    <3>5. \A d \in Channel : rows'[d] = IF d = c THEN row ELSE rows[d]
      BY <3>3 DEF IInv, DataTypes
    <3>6. metadata[DefaultTag[c]] # None
      BY <2>1 DEF IInv, ChannelsInv
    <3>7. TagsHaveMetadata'
      BY <2>1, <3>3, <3>5, <3>6 DEF IInv, ChannelsInv, TagsHaveMetadata
    <3>8. \A d \in Channel : rows'[d] # None \/ d \in newRows' => metadata'[DefaultTag[d]] # None
      BY <2>1, <3>5, <3>6 DEF IInv, ChannelsInv
    <3>9. 0..(total - 1) \subseteq Channel
      BY DEF IInv, StartTypes, Channel
    <3>10. phase' = "channels" =>
            \/ \A d \in 0..(total' - 1) : rows'[d] # None \/ d \in newItems' \cup newRows'
            \/ \E d \in newItems' : rows'[d] # None
      BY <1>1, <2>1, <3>1, <3>3, <3>5, <3>9 DEF IInv, ChannelsInv, StartTypes
    <3>11. phase' = "channels" => cache' = metadata'
      BY <2>1, <3>1 DEF IInv, ChannelsInv
    <3>12. ChannelsInv'
      BY <1>1, <2>1, <3>1, <3>7, <3>8, <3>10, <3>11 DEF IInv, ChannelsInv
    <3> QED BY <1>2, <1>4, <3>4, <3>12 DEF IInv
  <2> QED BY <2>2, <2>3
<1> QED BY <1>6, <1>7

-----------------------------------------------------------------------------
(* Serving                                                                 *)

\* A step of a request, which may write its own channel and its own tag, and
\* goes on or is answered.
ServeEffect(r, next) ==
    LET ch == requests[r].channel
        t  == requests[r].tag
    IN  /\ requests' = [requests EXCEPT ![r] = next]
        /\ next # Idle => next.channel = ch /\ next.tag = t /\ RequestOK(next)'
        /\ next = Idle => /\ ch # None /\ ch \notin overlapped => held'[ch] = rows'[ch]
                          /\ t # None /\ t \notin overlapped => cache'[t] = metadata'[t]
        /\ UNCHANGED <<detected, made, overlapped>>
        /\ rows' \in [Channel -> Row \cup {None}] /\ held' \in [Channel -> Row \cup {None}]
        /\ metadata' \in [Tag -> Item \cup {None}] /\ cache' \in [Tag -> Item \cup {None}]
        /\ \A c \in Channel : c # ch => rows'[c] = rows[c] /\ held'[c] = held[c]
        /\ \A u \in Tag : u # t => metadata'[u] = metadata[u] /\ cache'[u] = cache[u]
        /\ \A c \in Channel : /\ rows'[c] # None <=> rows[c] # None
                              /\ held[c] # None => held'[c] # None
        /\ \A u \in Tag : metadata[u] # None => metadata'[u] # None
        /\ TagsHaveMetadata'

\* Such a step leaves the other requests where they were.
LEMMA ServeStep ==
    ASSUME IInv, NEW r \in Request, requests[r] # Idle, UNCHANGED startVars,
           NEW next \in Req \cup {Idle}, ServeEffect(r, next)
    PROVE  IInv'
<1>a. PICK ch, t : ch = requests[r].channel /\ t = requests[r].tag
  OBVIOUS
<1>b. /\ requests' = [requests EXCEPT ![r] = next]
      /\ next # Idle => next.channel = ch /\ next.tag = t /\ RequestOK(next)'
      /\ next = Idle => /\ ch # None /\ ch \notin overlapped => held'[ch] = rows'[ch]
                        /\ t # None /\ t \notin overlapped => cache'[t] = metadata'[t]
      /\ UNCHANGED <<detected, made, overlapped>>
      /\ rows' \in [Channel -> Row \cup {None}] /\ held' \in [Channel -> Row \cup {None}]
      /\ metadata' \in [Tag -> Item \cup {None}] /\ cache' \in [Tag -> Item \cup {None}]
      /\ \A c \in Channel : c # ch => rows'[c] = rows[c] /\ held'[c] = held[c]
      /\ \A u \in Tag : u # t => metadata'[u] = metadata[u] /\ cache'[u] = cache[u]
      /\ \A c \in Channel : (rows'[c] # None <=> rows[c] # None) /\ (held[c] # None => held'[c] # None)
      /\ \A u \in Tag : metadata[u] # None => metadata'[u] # None
      /\ TagsHaveMetadata'
  BY <1>a DEF ServeEffect
<1> USE <1>a, <1>b, ConstantsOK DEF Constants
<1>1. phase = "serving"
  BY DEF IInv, ServedInv, RequestsInv
<1>2. UNCHANGED <<phase, dbUp, files, applied, recorded, crashes, copying, todo, total, newItems,
                  newRows>>
  BY DEF startVars
<1>3. StartTypes' /\ FilesInv'
  <2>1. dbUp' \in BOOLEAN
    BY <1>2 DEF IInv, StartTypes
  <2> QED BY <1>2, <2>1 DEF IInv, StartTypes, FilesInv
<1>4. DataTypes'
  <2>1. detected' \in BOOLEAN
    BY DEF IInv, DataTypes
  <2> QED BY <2>1 DEF IInv, DataTypes
<1>5. ChannelsInv'
  <2>1. newItems = {} /\ newRows = {}
    BY <1>1 DEF IInv, ChannelsInv
  <2>2. \A c \in 0..(total - 1) : c \in Channel
    BY DEF IInv, StartTypes, Channel
  <2> QED BY <1>1, <1>2, <2>1, <2>2 DEF IInv, ChannelsInv
<1>6. \A q \in Request : requests'[q] = IF q = r THEN next ELSE requests[q]
  BY DEF IInv, ServedInv, RequestsInv
<1>7. \A q \in Request : requests[q] # Idle => requests[q] \in Req /\ RequestOK(requests[q])
  BY DEF IInv, ServedInv, RequestsInv, RequestOK
<1>8. \A q \in Request : q # r /\ requests[q] # Idle =>
          Uses(requests[q]) \cap ({ch, t} \ {None}) \subseteq overlapped
  BY DEF IInv, ServedInv, AloneInv, Uses
<1>9. RequestsInv'
  <2>1. requests' \in [Request -> Req \cup {Idle}]
    BY DEF IInv, ServedInv, RequestsInv
  <2>2. ASSUME NEW q \in Request, q # r, requests[q] # Idle PROVE RequestOK(requests[q])'
    <3>1. PICK o \in Req : o = requests[q]
      BY <1>7, <2>2
    <3>2. RequestOK(o) /\ requests'[q] = o
      BY <1>6, <1>7, <2>2, <3>1
    <3>3. o.channel \in Channel \cup {None} /\ o.tag \in Tag \cup {None}
      BY DEF Req
    <3>4. ASSUME o.channel # None, o.channel \notin overlapped PROVE ChannelOK(o)'
      <4>1. o.channel # ch /\ o.channel \in Channel
        BY <1>8, <2>2, <3>1, <3>3, <3>4 DEF Uses
      <4>2. rows'[o.channel] = rows[o.channel] /\ held'[o.channel] = held[o.channel]
        BY <4>1
      <4>3. ChannelOK(o)
        BY <3>2, <3>4 DEF RequestOK
      <4> QED BY <4>2, <4>3 DEF ChannelOK, Wanted
    <3>5. ASSUME o.tag # None, o.tag \notin overlapped PROVE ItemOK(o)'
      <4>1. o.tag # t /\ o.tag \in Tag
        BY <1>8, <2>2, <3>1, <3>3, <3>5 DEF Uses
      <4>2. metadata'[o.tag] = metadata[o.tag] /\ cache'[o.tag] = cache[o.tag]
        BY <4>1
      <4>3. ItemOK(o)
        BY <3>2, <3>5 DEF RequestOK
      <4> QED BY <4>2, <4>3 DEF ItemOK
    <3>6. o.at \in {"updateChannel", "channelHook"} => rows'[o.channel] # None
      <4>1. o.at \in {"updateChannel", "channelHook"} => o.channel \in Channel
        BY <3>2, <3>3 DEF RequestOK, Shape, AboutItem
      <4> QED BY <3>2, <4>1 DEF RequestOK
    <3>7. RequestOK(o)'
      BY <3>2, <3>4, <3>5, <3>6 DEF RequestOK, Shape
    <3> QED BY <3>2, <3>7
  <2>3. ASSUME next # Idle PROVE RequestOK(requests[r])'
    BY <1>6, <2>3
  <2> QED BY <1>1, <1>2, <1>6, <2>1, <2>2, <2>3 DEF RequestsInv
<1>10. AloneInv'
  <2>1. next # Idle => Uses(next) = Uses(requests[r])
    BY DEF Uses
  <2> QED BY <1>6, <2>1 DEF IInv, ServedInv, AloneInv
<1>11. CopiesAgree'
  <2>1. \A x : x \in InUse /\ x \notin InUse' => x \in {ch, t} /\ next = Idle
    <3>1. SUFFICES ASSUME NEW q \in Request, requests[q] # Idle, NEW x \in Uses(requests[q]), x \notin InUse'
                   PROVE  x \in {ch, t} /\ next = Idle
      BY DEF InUse, InFlight
    <3>2. q = r
      BY <1>6, <3>1 DEF InUse, InFlight
    <3>3. x \in {ch, t}
      BY <3>1, <3>2 DEF Uses
    <3>4. CASE next # Idle
      <4>1. Uses(requests'[r]) = Uses(requests[r]) /\ requests'[r] # Idle
        BY <1>6, <3>4 DEF Uses
      <4> QED BY <3>1, <3>2, <4>1 DEF InUse, InFlight
    <3> QED BY <3>3, <3>4
  <2>2. {ch, t} \ {None} \subseteq InUse
    BY DEF InUse, InFlight, Uses
  <2>3. ASSUME NEW c \in Channel, c \notin overlapped, c \notin InUse' PROVE held'[c] = rows'[c]
    <3>1. CASE c = ch
      <4>1. next = Idle
        BY <2>1, <2>2, <2>3, <3>1
      <4> QED BY <2>3, <3>1, <4>1
    <3>2. CASE c # ch
      <4>1. t \in Tag \cup {None}
        BY <1>7 DEF Req
      <4>2. c \notin InUse
        BY <2>1, <2>3, <3>2, <4>1
      <4> QED BY <1>1, <2>3, <3>2, <4>2 DEF IInv, ServedInv, CopiesAgree
    <3> QED BY <3>1, <3>2
  <2>4. ASSUME NEW u \in Tag, u \notin overlapped, u \notin InUse' PROVE cache'[u] = metadata'[u]
    <3>1. CASE u = t
      BY <2>1, <2>2, <2>4, <3>1
    <3>2. CASE u # t
      <4>1. ch \in Channel \cup {None}
        BY <1>7 DEF Req
      <4>2. u \notin InUse
        BY <2>1, <2>4, <3>2, <4>1
      <4> QED BY <1>1, <2>4, <3>2, <4>2 DEF IInv, ServedInv, CopiesAgree
    <3> QED BY <3>1, <3>2
  <2> QED BY <1>1, <1>2, <2>3, <2>4 DEF CopiesAgree
<1> QED BY <1>3, <1>4, <1>5, <1>9, <1>10, <1>11 DEF IInv, ServedInv

\* The state while the server serves, as the steps of requests need it.
LEMMA ServingState ==
    ASSUME IInv, NEW r \in Request, requests[r] # Idle
    PROVE  /\ requests[r] \in Req /\ RequestOK(requests[r]) /\ Shape(requests[r])
           /\ rows \in [Channel -> Row \cup {None}] /\ held \in [Channel -> Row \cup {None}]
           /\ metadata \in [Tag -> Item \cup {None}] /\ cache \in [Tag -> Item \cup {None}]
           /\ requests[r].channel \in Channel \cup {None} /\ requests[r].tag \in Tag \cup {None}
           /\ TagsHaveMetadata
BY DEF IInv, ServedInv, RequestsInv, RequestOK, DataTypes, Req, ChannelsInv

\* A step that writes nothing, and moves on or is answered.
LEMMA StepKeeps ==
    ASSUME IInv, NEW r \in Request, requests[r] # Idle, UNCHANGED startVars,
           UNCHANGED <<database, copies, detected, made, overlapped>>,
           NEW next \in Req \cup {Idle}, requests' = [requests EXCEPT ![r] = next],
           next # Idle => /\ next.channel = requests[r].channel /\ next.tag = requests[r].tag
                          /\ RequestOK(next),
           next = Idle => requests[r].at \notin {"itemHook", "channelHook"}
    PROVE  IInv'
<1>1. PICK ch, t : ch = requests[r].channel /\ t = requests[r].tag
  OBVIOUS
<1>2. UNCHANGED <<rows, metadata, held, cache, detected, made, overlapped>>
  BY DEF database, copies
<1>3. next # Idle => RequestOK(next)'
  BY <1>2 DEF RequestOK, Shape, ChannelOK, ItemOK, Wanted
<1>4. next = Idle => /\ ch # None /\ ch \notin overlapped => held'[ch] = rows'[ch]
                     /\ t # None /\ t \notin overlapped => cache'[t] = metadata'[t]
  BY <1>1, <1>2, ServingState DEF RequestOK, ChannelOK, ItemOK
<1>5. TagsHaveMetadata'
  BY <1>2, ServingState DEF TagsHaveMetadata
<1>6. /\ rows' \in [Channel -> Row \cup {None}] /\ held' \in [Channel -> Row \cup {None}]
      /\ metadata' \in [Tag -> Item \cup {None}] /\ cache' \in [Tag -> Item \cup {None}]
  BY <1>2, ServingState
<1>7. ServeEffect(r, next)
  BY <1>1, <1>2, <1>3, <1>4, <1>5, <1>6 DEF ServeEffect
<1> QED BY <1>7, ServeStep

\* The fields of a request that has moved.
LEMMA MovedFields ==
    ASSUME NEW req \in Req,
           NEW at \in AboutItem \cup {"readConfig", "selectChannel", "updateChannel", "channelHook"}
    PROVE  LET moved == [req EXCEPT !.at = at]
           IN  /\ moved \in Req /\ moved.at = at
               /\ moved.channel = req.channel /\ moved.tag = req.tag /\ moved.item = req.item
               /\ moved.config = req.config /\ moved.calibration = req.calibration
               /\ moved.read = req.read /\ moved.before = req.before
BY DEF Req

LEMMA BeginKeeps ==
    ASSUME IInv, phase = "serving", UNCHANGED startVars, NEW r \in Request,
           NEW at \in AboutItem \cup {"readConfig", "selectChannel"},
           NEW c \in Channel \cup {None}, NEW tag \in Tag \cup {None}, NEW item \in Item \cup {None},
           NEW config \in Config \cup {None}, NEW calibration \in Calibration \cup {None},
           Begin(r, Asks(at, c, tag, item, config, calibration)),
           at # "itemHook",
           at \in AboutItem => tag # None /\ item # None /\ calibration = None,
           at \notin AboutItem => c # None,
           at = "readConfig" <=> calibration # None,
           calibration # None => tag = None
    PROVE  IInv'
<1> USE ConstantsOK DEF Constants
<1> DEFINE fresh == Asks(at, c, tag, item, config, calibration)
<1>1. /\ requests[r] = Idle /\ made < MaxRequests /\ made' = made + 1
      /\ requests' = [requests EXCEPT ![r] = fresh]
      /\ overlapped' = overlapped \cup (Uses(fresh) \cap InUse)
      /\ UNCHANGED <<rows, metadata, held, cache, detected>>
  BY DEF Begin, database, copies
<1>2. fresh \in Req
  BY DEF Asks, Req, IInv, DataTypes
<1>3. PICK f \in Req : f = fresh
  BY <1>2
<1>4. /\ f.at = at /\ f.channel = c /\ f.tag = tag /\ f.item = item /\ f.config = config
      /\ f.calibration = calibration /\ f.read = None
      /\ f.before = IF c = None THEN None ELSE rows[c]
  BY <1>3 DEF Asks
<1>5. /\ requests' = [requests EXCEPT ![r] = f]
      /\ overlapped' = overlapped \cup (Uses(f) \cap InUse)
  BY <1>1, <1>3
<1> HIDE DEF fresh
<1>6. UNCHANGED <<phase, dbUp, files, applied, recorded, crashes, copying, todo, total, newItems,
                  newRows>>
  BY DEF startVars
<1>7. StartTypes' /\ FilesInv' /\ ChannelsInv'
  <2>1. dbUp' \in BOOLEAN
    BY <1>6 DEF IInv, StartTypes
  <2> QED BY <1>1, <1>6, <2>1 DEF IInv, StartTypes, FilesInv, ChannelsInv, TagsHaveMetadata
<1>8. DataTypes'
  <2>1. detected' \in BOOLEAN
    BY <1>1 DEF IInv, DataTypes
  <2>2. made' \in 0..MaxRequests
    BY <1>1 DEF IInv, DataTypes
  <2>3. overlapped' \subseteq Channel \cup Tag
    BY <1>4, <1>5 DEF IInv, DataTypes, Uses
  <2> QED BY <1>1, <2>1, <2>2, <2>3 DEF IInv, DataTypes
<1>9. \A q \in Request : requests'[q] = IF q = r THEN f ELSE requests[q]
  BY <1>5 DEF IInv, ServedInv, RequestsInv
<1>10. RequestOK(f)'
  <2>1. Shape(f)
    BY <1>4 DEF Shape, AboutItem
  <2>2. ASSUME c # None, c \notin overlapped' PROVE ChannelOK(f)'
    <3>1. c \in Uses(f)
      BY <1>4, <2>2 DEF Uses
    <3>2. c \notin InUse /\ c \notin overlapped
      BY <1>5, <2>2, <3>1
    <3>3. held[c] = rows[c]
      BY <2>2, <3>2 DEF IInv, ServedInv, CopiesAgree
    <3>4. f.at # "channelHook" /\ f.at # "updateChannel"
      BY <1>4 DEF AboutItem
    <3> QED BY <1>1, <1>4, <2>2, <3>3, <3>4 DEF ChannelOK
  <2>3. ASSUME tag # None, tag \notin overlapped' PROVE ItemOK(f)'
    <3>1. tag \in Uses(f)
      BY <1>4, <2>3 DEF Uses
    <3>2. tag \notin InUse /\ tag \notin overlapped
      BY <1>5, <2>3, <3>1
    <3>3. cache[tag] = metadata[tag]
      BY <2>3, <3>2 DEF IInv, ServedInv, CopiesAgree
    <3> QED BY <1>1, <1>4, <3>3 DEF ItemOK
  <2>4. f.at \notin {"updateChannel", "channelHook"}
    BY <1>4 DEF AboutItem
  <2> QED BY <1>4, <2>1, <2>2, <2>3, <2>4 DEF RequestOK, Shape
<1>11. RequestsInv'
  <2>1. requests' \in [Request -> Req \cup {Idle}]
    BY <1>5 DEF IInv, ServedInv, RequestsInv
  <2>2. ASSUME NEW q \in Request, q # r, requests[q] # Idle PROVE RequestOK(requests[q])'
    <3>1. RequestOK(requests[q]) /\ requests'[q] = requests[q]
      BY <1>9, <2>2 DEF IInv, ServedInv, RequestsInv
    <3>2. overlapped \subseteq overlapped'
      BY <1>5
    <3> QED BY <1>1, <3>1, <3>2 DEF RequestOK, Shape, ChannelOK, ItemOK, Wanted
  <2>3. RequestOK(requests[r])'
    BY <1>9, <1>10
  <2> QED BY <1>6, <1>9, <2>1, <2>2, <2>3 DEF RequestsInv
<1>12. AloneInv'
  <2>1. overlapped \subseteq overlapped'
    BY <1>5
  <2>2. \A q \in Request : requests[q] # Idle => Uses(requests[q]) \cap Uses(f) \subseteq overlapped'
    BY <1>5 DEF InUse, InFlight
  <2> QED BY <1>1, <1>9, <2>1, <2>2 DEF IInv, ServedInv, AloneInv
<1>13. CopiesAgree'
  <2>1. f # Idle
    BY ReqNotIdle
  <2>2. InUse \subseteq InUse' /\ overlapped \subseteq overlapped'
    BY <1>1, <1>5, <1>9 DEF InUse, InFlight
  <2> QED BY <1>1, <1>6, <2>2 DEF IInv, ServedInv, CopiesAgree
<1> QED BY <1>7, <1>8, <1>11, <1>12, <1>13 DEF IInv, ServedInv

LEMMA BeginRequestKeeps ==
    ASSUME IInv, phase = "serving", UNCHANGED startVars, NEW r \in Request, BeginRequest(r)
    PROVE  IInv'
<1> USE ConstantsOK DEF Constants
<1>1. ASSUME NEW c \in Channel, NEW config \in Configs \cup {None}, NEW tag \in Tag \cup {None},
             NEW item \in Item \cup {None}, UpdateLocalIOChannel(r, c, tag, item, config)
      PROVE  IInv'
  <2>1. PICK at \in {"selectItem", "selectChannel"} :
            /\ Begin(r, Asks(at, c, tag, item, config, None))
            /\ at = "selectItem" => item # None /\ tag # None
    BY <1>1 DEF UpdateLocalIOChannel
  <2>2. at \in AboutItem => at = "selectItem"
    BY DEF AboutItem
  <2>3. at \in AboutItem \cup {"readConfig", "selectChannel"} /\ at # "itemHook" /\ at # "readConfig"
    BY DEF AboutItem
  <2> QED BY <2>1, <2>2, <2>3, BeginKeeps
<1>2. ASSUME NEW c \in Channel, NEW calibration \in Calibration,
             UpdateLocalIOChannelCalibration(r, c, calibration)
      PROVE  IInv'
  <2>1. Begin(r, Asks("readConfig", c, None, None, None, calibration))
    BY <1>2 DEF UpdateLocalIOChannelCalibration
  <2>2. "readConfig" \notin AboutItem
    BY DEF AboutItem
  <2>3. calibration # None
    OBVIOUS
  <2> QED BY <2>1, <2>2, <2>3, BeginKeeps
<1>3. ASSUME NEW tag \in Tag, NEW item \in Item,
             CreateMetadataItem(r, tag, item) \/ UpdateMetadataItem(r, tag, item)
      PROVE  IInv'
  <2>1. PICK at \in {"createItem", "selectItem"} : Begin(r, Asks(at, None, tag, item, None, None))
    BY <1>3 DEF CreateMetadataItem, UpdateMetadataItem
  <2>2. at \in AboutItem /\ at # "itemHook" /\ at # "readConfig"
    BY DEF AboutItem
  <2>3. tag # None /\ item # None
    OBVIOUS
  <2> QED BY <2>1, <2>2, <2>3, BeginKeeps
<1> QED BY <1>1, <1>2, <1>3 DEF BeginRequest

\* A request goes on to another place.
LEMMA GoesKeeps ==
    ASSUME IInv, NEW r \in Request, requests[r] # Idle, UNCHANGED startVars,
           UNCHANGED <<database, copies, detected, made, overlapped>>,
           NEW at \in {"createItem", "updateItem"}, Goes(r, at), requests[r].at = "selectItem"
    PROVE  IInv'
<1>1. PICK req \in Req : req = requests[r] /\ RequestOK(req)
  BY ServingState
<1>2. at \in AboutItem
  BY DEF AboutItem
<1>3. PICK next \in Req : next = [req EXCEPT !.at = at]
  BY <1>1, <1>2, MovedFields
<1>4. /\ next.at = at /\ next.channel = req.channel /\ next.tag = req.tag /\ next.item = req.item
      /\ next.config = req.config /\ next.calibration = req.calibration
      /\ next.read = req.read /\ next.before = req.before
  BY <1>2, <1>3, MovedFields
<1>5. requests' = [requests EXCEPT ![r] = next]
  BY <1>1, <1>3 DEF Goes
<1>6. RequestOK(next)
  <2>1. Shape(next)
    BY <1>1, <1>4 DEF RequestOK, Shape, AboutItem
  <2>2. ChannelOK(req) => ChannelOK(next)
    BY <1>1, <1>4 DEF ChannelOK, Wanted
  <2>3. ItemOK(req) => ItemOK(next)
    BY <1>1, <1>4 DEF ItemOK
  <2> QED BY <1>1, <1>4, <2>1, <2>2, <2>3 DEF RequestOK
<1> QED BY <1>1, <1>3, <1>4, <1>5, <1>6, ReqNotIdle, StepKeeps

\* A request is answered before it has written anything, or between its writes.
LEMMA AnswerKeeps ==
    ASSUME IInv, NEW r \in Request, requests[r] # Idle, UNCHANGED startVars,
           UNCHANGED <<database, copies, detected, made, overlapped>>,
           Answer(r), requests[r].at \notin {"itemHook", "channelHook"}
    PROVE  IInv'
<1>1. PICK next \in Req \cup {Idle} : next = Idle
  OBVIOUS
<1>2. requests' = [requests EXCEPT ![r] = next]
  BY <1>1 DEF Answer
<1> QED BY <1>1, <1>2, StepKeeps

LEMMA ReadingKeeps ==
    ASSUME IInv, UNCHANGED startVars, NEW r \in Request, requests[r] # Idle,
           SelectItem(r) \/ ReadConfig(r) \/ SelectChannel(r)
    PROVE  IInv'
<1> USE ConstantsOK DEF Constants
<1>1. PICK req \in Req : req = requests[r] /\ RequestOK(req) /\ Shape(req)
  BY ServingState
<1>2. CASE SelectItem(r)
  <2>1. /\ requests[r].at = "selectItem"
        /\ UNCHANGED <<database, copies, detected, made, overlapped>>
        /\ Answer(r) \/ \E at \in {"createItem", "updateItem"} : Goes(r, at)
    BY <1>2 DEF SelectItem
  <2> QED BY <2>1, GoesKeeps, AnswerKeeps
<1>3. ASSUME ReadConfig(r) \/ SelectChannel(r)
      PROVE  /\ req.channel \in Channel
             /\ rows[req.channel] \in Row \cup {None}
             /\ UNCHANGED <<database, copies, detected, made, overlapped>>
             /\ requests[r].at \notin {"itemHook", "channelHook"}
  <2>1. UNCHANGED <<database, copies, detected, made, overlapped>>
    BY <1>3 DEF ReadConfig, SelectChannel
  <2>2. requests[r].at \notin {"itemHook", "channelHook"} /\ req.channel \in Channel
    BY <1>1, <1>3 DEF ReadConfig, SelectChannel, Shape, AboutItem, Req
  <2> QED BY <2>1, <2>2, ServingState
<1>4. CASE ReadConfig(r)
  <2>1. CASE rows[req.channel] = None
    BY <1>1, <1>3, <1>4, <2>1, AnswerKeeps DEF ReadConfig
  <2>2. CASE rows[req.channel] # None
    <3> DEFINE row == rows[req.channel]
               config == WithCalibration(row.config, req.calibration)
    <3>1. req.at = "readConfig" /\ req.calibration \in Calibration /\ req.tag = None
      BY <1>1, <1>4 DEF ReadConfig, Shape, Req
    <3>2. config \in Config
      BY <1>3, <1>4, <2>2, <3>1 DEF Row, Config, WithCalibration
    <3>3. PICK next : next = [req EXCEPT !.at = "selectChannel", !.config = config]
      OBVIOUS
    <3>4. /\ next \in Req /\ next.at = "selectChannel" /\ next.config = config
          /\ next.channel = req.channel /\ next.tag = req.tag /\ next.item = req.item
          /\ next.calibration = req.calibration
          /\ next.read = req.read /\ next.before = req.before
      BY <3>2, <3>3 DEF Req
    <3>5. requests' = [requests EXCEPT ![r] = next]
      BY <1>1, <1>4, <2>2, <3>3 DEF ReadConfig
    <3>6. ChannelOK(req) => ChannelOK(next)
      BY <2>2, <3>1, <3>4 DEF ChannelOK
    <3>7. Shape(next)
      BY <1>1, <1>3, <1>4, <3>1, <3>4 DEF Shape, AboutItem
    <3>8. RequestOK(next)
      BY <1>1, <3>1, <3>4, <3>6, <3>7 DEF RequestOK
    <3> HIDE DEF config, row
    <3> QED BY <1>1, <1>3, <1>4, <3>4, <3>5, <3>8, ReqNotIdle, StepKeeps
  <2> QED BY <2>1, <2>2
<1>5. CASE SelectChannel(r)
  <2>1. CASE rows[req.channel] = None
    BY <1>1, <1>3, <1>5, <2>1, AnswerKeeps DEF SelectChannel
  <2>2. CASE rows[req.channel] # None
    <3>1. PICK next : next = [req EXCEPT !.at = "updateChannel", !.read = rows[req.channel]]
      OBVIOUS
    <3>2. /\ next \in Req /\ next.at = "updateChannel" /\ next.read = rows[req.channel]
          /\ next.channel = req.channel /\ next.tag = req.tag /\ next.item = req.item
          /\ next.config = req.config /\ next.calibration = req.calibration
          /\ next.before = req.before
      BY <1>3, <1>5, <2>2, <3>1 DEF Req
    <3>3. requests' = [requests EXCEPT ![r] = next]
      BY <1>1, <1>5, <2>2, <3>1 DEF SelectChannel
    <3>4. req.at = "selectChannel"
      BY <1>1, <1>5 DEF SelectChannel
    <3>5. ChannelOK(req) => ChannelOK(next)
      BY <3>2, <3>4 DEF ChannelOK
    <3>6. ItemOK(req) => ItemOK(next)
      BY <3>2, <3>4 DEF ItemOK
    <3>7. Shape(next)
      BY <1>1, <1>3, <1>5, <2>2, <3>2, <3>4 DEF Shape, AboutItem
    <3>8. RequestOK(next)
      BY <1>1, <2>2, <3>2, <3>5, <3>6, <3>7 DEF RequestOK
    <3> QED BY <1>1, <1>3, <1>5, <3>2, <3>3, <3>8, ReqNotIdle, StepKeeps
  <2> QED BY <2>1, <2>2
<1> QED BY <1>2, <1>4, <1>5

LEMMA ItemWritesKeep ==
    ASSUME IInv, UNCHANGED startVars, NEW r \in Request, requests[r] # Idle,
           WriteItem(r) \/ ItemHook(r)
    PROVE  IInv'
<1> USE ConstantsOK DEF Constants
<1>1. PICK req \in Req : req = requests[r] /\ RequestOK(req) /\ Shape(req)
  BY ServingState
<1>2. PICK ch, t : ch = req.channel /\ t = req.tag
  OBVIOUS
<1>3. req.at \in {"createItem", "updateItem", "itemHook"} /\ t \in Tag /\ req.item \in Item
      /\ req.calibration = None /\ ch \in Channel \cup {None}
  BY <1>1, <1>2 DEF WriteItem, ItemHook, Shape, Req, AboutItem
<1>4. CASE WriteItem(r)
  <2>1. CASE requests[r].at = "createItem" /\ metadata[requests[r].tag] # None
    BY <1>4, <2>1, AnswerKeeps DEF WriteItem, database
  <2>2. CASE ~ (requests[r].at = "createItem" /\ metadata[requests[r].tag] # None)
    <3>1. /\ metadata' = [metadata EXCEPT ![t] = req.item] /\ Goes(r, "itemHook")
          /\ UNCHANGED <<rows, held, cache, detected, made, overlapped>>
      BY <1>1, <1>2, <1>4, <2>2 DEF WriteItem, copies
    <3>2. PICK next \in Req : next = [req EXCEPT !.at = "itemHook"]
      BY <1>1, MovedFields DEF AboutItem
    <3>3. /\ next.at = "itemHook" /\ next.channel = ch /\ next.tag = t /\ next.item = req.item
          /\ next.config = req.config /\ next.calibration = req.calibration
          /\ next.read = req.read /\ next.before = req.before
      BY <1>2, <3>2, MovedFields DEF AboutItem
    <3>4. requests' = [requests EXCEPT ![r] = next]
      BY <1>1, <3>1, <3>2 DEF Goes
    <3>5. ChannelOK(req) => ChannelOK(next)'
      BY <1>2, <1>3, <3>1, <3>3 DEF ChannelOK
    <3>6. metadata'[t] = req.item
      BY <1>3, <3>1, ServingState
    <3>7. RequestOK(next)'
      <4>1. Shape(next)
        BY <1>1, <1>2, <1>3, <3>3 DEF Shape, AboutItem
      <4>2. ItemOK(next)'
        BY <3>3, <3>6 DEF ItemOK
      <4> QED BY <1>1, <1>2, <3>1, <3>3, <3>5, <4>1, <4>2 DEF RequestOK, Shape
    <3>8. /\ metadata' \in [Tag -> Item \cup {None}]
          /\ \A u \in Tag : u # t => metadata'[u] = metadata[u]
          /\ \A u \in Tag : metadata[u] # None => metadata'[u] # None
      BY <1>3, <3>1, ServingState
    <3>9. TagsHaveMetadata'
      BY <3>1, <3>8, ServingState DEF TagsHaveMetadata, Row
    <3>10. next # Idle
      BY ReqNotIdle
    <3>11. /\ rows' \in [Channel -> Row \cup {None}] /\ held' \in [Channel -> Row \cup {None}]
           /\ cache' \in [Tag -> Item \cup {None}]
      BY <3>1, ServingState
    <3>12. ch = requests[r].channel /\ t = requests[r].tag
      BY <1>1, <1>2
    <3>13. ServeEffect(r, next)
      BY <3>1, <3>3, <3>4, <3>7, <3>8, <3>9, <3>10, <3>11, <3>12 DEF ServeEffect
    <3> QED BY <3>13, ServeStep
  <2> QED BY <2>1, <2>2
<1>5. CASE ItemHook(r)
  <2>1. /\ req.at = "itemHook" /\ cache' = [cache EXCEPT ![t] = req.item]
        /\ IF ch = None \/ Unsupported(ch, req.config) THEN Answer(r) ELSE Goes(r, "selectChannel")
        /\ UNCHANGED <<rows, metadata, held, detected, made, overlapped>>
    BY <1>1, <1>2, <1>5 DEF ItemHook, HandleMetadataChange, database
  <2>2. /\ cache' \in [Tag -> Item \cup {None}] /\ cache'[t] = req.item
        /\ \A u \in Tag : u # t => cache'[u] = cache[u]
    BY <1>3, <2>1, ServingState
  <2>3. t \notin overlapped => cache'[t] = metadata'[t]
    <3>1. t \notin overlapped => ItemOK(req)
      BY <1>1, <1>2, <1>3 DEF RequestOK
    <3> QED BY <1>2, <2>1, <2>2, <3>1 DEF ItemOK
  <2>4. ch # None /\ ch \notin overlapped => ChannelOK(req)
    BY <1>1, <1>2 DEF RequestOK
  <2>5. ch # None /\ ch \notin overlapped => held'[ch] = rows'[ch]
    BY <1>2, <2>1, <2>4 DEF ChannelOK
  <2>6. PICK next \in Req \cup {Idle} :
            /\ requests' = [requests EXCEPT ![r] = next]
            /\ next # Idle => next = [req EXCEPT !.at = "selectChannel"] /\ ch # None
    <3>1. CASE Answer(r)
      BY <3>1 DEF Answer
    <3>2. CASE Goes(r, "selectChannel") /\ ch # None
      <4>1. [req EXCEPT !.at = "selectChannel"] \in Req
        BY MovedFields
      <4> QED BY <1>1, <3>2, <4>1 DEF Goes
    <3> QED BY <2>1, <3>1, <3>2
  <2>7. ASSUME next # Idle PROVE next.channel = ch /\ next.tag = t /\ RequestOK(next)'
    <3>1. next = [req EXCEPT !.at = "selectChannel"] /\ ch # None /\ next \in Req
      BY <2>6, <2>7
    <3>2. /\ next.at = "selectChannel" /\ next.channel = ch /\ next.tag = t /\ next.item = req.item
          /\ next.config = req.config /\ next.calibration = req.calibration
          /\ next.read = req.read /\ next.before = req.before
      BY <1>2, <3>1, MovedFields
    <3>3. ChannelOK(req) => ChannelOK(next)'
      BY <1>2, <1>3, <2>1, <3>2 DEF ChannelOK
    <3>4. t \notin overlapped => ItemOK(next)'
      BY <2>3, <3>2 DEF ItemOK
    <3>5. Shape(next)
      BY <1>1, <1>3, <3>1, <3>2 DEF Shape, AboutItem
    <3> QED BY <2>1, <2>4, <3>1, <3>2, <3>3, <3>4, <3>5 DEF RequestOK, Shape
  <2>8. TagsHaveMetadata'
    BY <2>1, ServingState DEF TagsHaveMetadata
  <2>9. /\ rows' \in [Channel -> Row \cup {None}] /\ held' \in [Channel -> Row \cup {None}]
        /\ metadata' \in [Tag -> Item \cup {None}]
    BY <2>1, ServingState
  <2>10. ch = requests[r].channel /\ t = requests[r].tag
    BY <1>1, <1>2
  <2>11. /\ UNCHANGED <<detected, made, overlapped>> /\ UNCHANGED <<rows, metadata, held>>
         /\ \A u \in Tag : metadata[u] # None => metadata'[u] # None
    BY <2>1
  <2>12. ServeEffect(r, next)
    BY <2>2, <2>3, <2>5, <2>6, <2>7, <2>8, <2>9, <2>10, <2>11 DEF ServeEffect
  <2> QED BY <2>12, ServeStep
<1> QED BY <1>4, <1>5

LEMMA ChannelWritesKeep ==
    ASSUME IInv, UNCHANGED startVars, NEW r \in Request, requests[r] # Idle,
           UpdateChannel(r) \/ ChannelHook(r)
    PROVE  IInv'
<1> USE ConstantsOK DEF Constants
<1>1. PICK req \in Req : req = requests[r] /\ RequestOK(req) /\ Shape(req)
  BY ServingState
<1>2. PICK ch, t : ch = req.channel /\ t = req.tag
  OBVIOUS
<1>3. /\ req.at \in {"updateChannel", "channelHook"} /\ ch \in Channel /\ t \in Tag \cup {None}
      /\ req.read \in Row /\ rows[ch] \in Row /\ req.config \in Config \cup {None}
      /\ req.calibration # None => t = None
  <2>1. req.at \in {"updateChannel", "channelHook"}
    BY <1>1 DEF UpdateChannel, ChannelHook
  <2>2. ch \in Channel
    BY <1>1, <1>2, <2>1 DEF Shape, AboutItem, Req
  <2>3. rows[ch] \in Row
    BY <1>1, <1>2, <2>1, <2>2, ServingState DEF RequestOK
  <2> QED BY <1>1, <1>2, <2>1, <2>2, <2>3 DEF Shape, Req
<1>4. \A row \in Row : /\ Merge(row, t, req.config) \in Row
                       /\ Merge(row, t, req.config).tag = IF t = None THEN row.tag ELSE t
  BY <1>3 DEF Merge, Row
<1>5. ch = requests[r].channel /\ t = requests[r].tag
  BY <1>1, <1>2
<1>6. CASE UpdateChannel(r)
  <2>1. CASE t # None /\ metadata[t] = None
    <3>1. requests[r].at = "updateChannel" /\ Answer(r)
          /\ UNCHANGED <<database, copies, detected, made, overlapped>>
      BY <1>5, <1>6, <2>1 DEF UpdateChannel, database
    <3> QED BY <3>1, AnswerKeeps
  <2>2. CASE ~ (t # None /\ metadata[t] = None)
    <3>1. /\ req.at = "updateChannel"
          /\ rows' = [rows EXCEPT ![ch] = Merge(@, t, req.config)]
          /\ Goes(r, "channelHook")
          /\ UNCHANGED <<metadata, held, cache, detected, made, overlapped>>
      BY <1>1, <1>2, <1>6, <2>2 DEF UpdateChannel, copies
    <3>2. PICK next \in Req : next = [req EXCEPT !.at = "channelHook"]
      BY <1>1, MovedFields DEF AboutItem
    <3>3. /\ next.at = "channelHook" /\ next.channel = ch /\ next.tag = t /\ next.item = req.item
          /\ next.config = req.config /\ next.calibration = req.calibration
          /\ next.read = req.read /\ next.before = req.before
      BY <1>2, <3>2, MovedFields DEF AboutItem
    <3>4. requests' = [requests EXCEPT ![r] = next]
      BY <1>1, <3>1, <3>2 DEF Goes
    <3>5. /\ rows' \in [Channel -> Row \cup {None}] /\ rows'[ch] = Merge(rows[ch], t, req.config)
          /\ \A c \in Channel : c # ch => rows'[c] = rows[c]
          /\ rows'[ch] \in Row
      BY <1>3, <1>4, <3>1, ServingState
    <3>6. ASSUME ch \notin overlapped PROVE ChannelOK(next)'
      <4>1. ChannelOK(req)
        BY <1>1, <1>2, <1>3, <3>6 DEF RequestOK
      <4>2. rows[ch] = req.before /\ rows[ch] = req.read
        BY <1>2, <3>1, <4>1 DEF ChannelOK
      <4>3. rows'[ch] = Merge(next.read, next.tag, next.config)
        BY <3>3, <3>5, <4>2
      <4>4. rows'[ch] = Wanted(next)
        <5>1. next.before \in Row
          BY <1>3, <3>3, <4>2
        <5>2. CASE req.calibration = None
          BY <3>3, <3>5, <4>2, <5>1, <5>2 DEF Wanted
        <5>3. CASE req.calibration # None
          <6>1. req.config = WithCalibration(req.before.config, req.calibration) /\ t = None
            BY <1>3, <3>1, <4>1, <5>3 DEF ChannelOK
          <6>2. req.config # None
            <7>1. req.before.config \in Config /\ req.calibration \in Calibration
              BY <3>3, <5>1, <5>3 DEF Row, Req
            <7>2. WithCalibration(req.before.config, req.calibration) \in Config
              BY <7>1 DEF WithCalibration, Config
            <7> QED BY <6>1, <7>2
          <6>3. rows'[ch] = [tag |-> req.before.tag, config |-> req.config]
            BY <3>5, <4>2, <6>1, <6>2 DEF Merge
          <6>4. Wanted(next) = [req.before EXCEPT !.config.calibration = req.calibration]
            BY <3>3, <5>1, <5>3 DEF Wanted
          <6>5. [req.before EXCEPT !.config.calibration = req.calibration]
                  = [tag |-> req.before.tag, config |-> req.config]
            BY <3>3, <5>1, <6>1 DEF WithCalibration, Row
          <6> QED BY <6>3, <6>4, <6>5
        <5> QED BY <5>2, <5>3
      <4>5. next.calibration # None => /\ next.before # None
                                       /\ next.config = WithCalibration(next.before.config, next.calibration)
        BY <3>1, <3>3, <4>1 DEF ChannelOK
      <4> QED BY <3>3, <4>3, <4>4, <4>5 DEF ChannelOK, Wanted
    <3>7. RequestOK(next)'
      <4>1. Shape(next)
        BY <1>1, <1>2, <1>3, <3>3 DEF Shape, AboutItem
      <4>2. t # None /\ t \notin overlapped => ItemOK(next)'
        <5>1. t # None /\ t \notin overlapped => ItemOK(req)
          BY <1>1, <1>2 DEF RequestOK
        <5> QED BY <1>2, <3>1, <3>3, <5>1 DEF ItemOK
      <4> QED BY <3>1, <3>3, <3>5, <3>6, <4>1, <4>2 DEF RequestOK, Shape
    <3>8. TagsHaveMetadata'
      <4>1. SUFFICES ASSUME NEW c \in Channel, rows'[c] # None, rows'[c].tag # None
                     PROVE  metadata[rows'[c].tag] # None
        BY <3>1 DEF TagsHaveMetadata
      <4>2. CASE c # ch
        BY <3>5, <4>1, <4>2, ServingState DEF TagsHaveMetadata
      <4>3. CASE c = ch
        <5>1. rows'[c].tag = IF t = None THEN rows[ch].tag ELSE t
          BY <1>3, <1>4, <3>5, <4>3
        <5>2. rows[ch] # None
          BY <1>3
        <5> QED BY <1>3, <2>2, <4>1, <5>1, <5>2, ServingState DEF TagsHaveMetadata
      <4> QED BY <4>2, <4>3
    <3>9. /\ held' \in [Channel -> Row \cup {None}]
          /\ metadata' \in [Tag -> Item \cup {None}] /\ cache' \in [Tag -> Item \cup {None}]
      BY <3>1, ServingState
    <3>10. /\ \A c \in Channel : c # ch => rows'[c] = rows[c] /\ held'[c] = held[c]
           /\ \A u \in Tag : metadata'[u] = metadata[u] /\ cache'[u] = cache[u]
           /\ \A c \in Channel : (rows'[c] # None <=> rows[c] # None) /\ held'[c] = held[c]
      BY <1>3, <3>1, <3>5
    <3>11. UNCHANGED <<detected, made, overlapped>>
      BY <3>1
    <3>12. next # Idle
      BY ReqNotIdle
    <3>13. ServeEffect(r, next)
      BY <1>5, <3>3, <3>4, <3>5, <3>7, <3>8, <3>9, <3>10, <3>11, <3>12 DEF ServeEffect
    <3> QED BY <3>13, ServeStep
  <2> QED BY <2>1, <2>2
<1>7. CASE ChannelHook(r)
  <2>1. /\ req.at = "channelHook" /\ held' = [held EXCEPT ![ch] = Merge(req.read, t, req.config)]
        /\ requests' = [requests EXCEPT ![r] = Idle]
        /\ UNCHANGED <<rows, metadata, cache, detected, made, overlapped>>
    BY <1>1, <1>2, <1>7 DEF ChannelHook, ChannelUpdated, Answer, database
  <2>2. /\ held' \in [Channel -> Row \cup {None}] /\ held'[ch] = Merge(req.read, t, req.config)
        /\ held'[ch] \in Row
        /\ \A c \in Channel : c # ch => held'[c] = held[c]
    BY <1>3, <1>4, <2>1, ServingState
  <2>3. ch \notin overlapped => held'[ch] = rows'[ch]
    <3>1. ch \notin overlapped => ChannelOK(req)
      BY <1>1, <1>2, <1>3 DEF RequestOK
    <3> QED BY <1>2, <2>1, <2>2, <3>1 DEF ChannelOK
  <2>4. t # None /\ t \notin overlapped => cache'[t] = metadata'[t]
    <3>1. t # None /\ t \notin overlapped => ItemOK(req)
      BY <1>1, <1>2 DEF RequestOK
    <3> QED BY <1>2, <2>1, <3>1 DEF ItemOK
  <2>5. cache' \in [Tag -> Item \cup {None}]
    BY <2>1, ServingState
  <2>6. /\ \A u \in Tag : cache'[u] = cache[u]
        /\ \A c \in Channel : held[c] # None => held'[c] # None
    BY <1>3, <2>1, <2>2
  <2>7. UNCHANGED <<metadata, rows, detected, made, overlapped>>
    BY <2>1
  <2>8. rows' \in [Channel -> Row \cup {None}] /\ metadata' \in [Tag -> Item \cup {None}]
        /\ TagsHaveMetadata'
    BY <2>1, ServingState DEF TagsHaveMetadata
  <2>9. ServeEffect(r, Idle)
    BY <1>5, <2>1, <2>2, <2>3, <2>4, <2>5, <2>6, <2>7, <2>8 DEF ServeEffect
  <2> QED BY <2>9, ServeStep
<1> QED BY <1>6, <1>7

-----------------------------------------------------------------------------
(* The server                                                              *)

LEMMA NextServer == IInv /\ [Next]_vars => IInv'
<1> SUFFICES ASSUME IInv, [Next]_vars PROVE IInv'
  OBVIOUS
<1>1. CASE Launch \/ Crash \/ DatabaseUp \/ DevicesDetected \/ DatabaseTimeout
  BY <1>1, SurroundingsKeep
<1>2. CASE Serve
  <2>1. PICK r \in Request : /\ phase = "serving" /\ UNCHANGED startVars
                             /\ BeginRequest(r) \/ ContinueRequest(r)
    BY <1>2 DEF Serve
  <2>2. CASE BeginRequest(r)
    BY <2>1, <2>2, BeginRequestKeeps
  <2>3. CASE ContinueRequest(r)
    <3>1. requests[r] # Idle
      BY <2>3 DEF ContinueRequest, SelectItem, WriteItem, ItemHook, ReadConfig, SelectChannel,
                  UpdateChannel, ChannelHook, Idle
    <3> QED BY <2>1, <2>3, <3>1, ReadingKeeps, ItemWritesKeep, ChannelWritesKeep DEF ContinueRequest
  <2> QED BY <2>1, <2>2, <2>3
<1>3. CASE DatabaseReady \/ ListMigrations \/ ApplyMigration \/ RecordMigration
           \/ \E m \in Migration : CopyMigration(m)
  BY <1>3, MigrationsKeep
<1>4. CASE LoadMetadata \/ LoadChannels \/ ChannelsCreated \/ StartPlugins
  BY <1>4, LoadKeeps
<1>5. CASE \E c \in Channel : CreateItem(c) \/ CreateRow(c)
  BY <1>5, CreateKeeps
<1>6. CASE UNCHANGED vars
  <2>1. UNCHANGED <<rows, metadata, held, cache, detected, requests, made, overlapped, phase, dbUp,
                    files, applied, recorded, crashes, copying, todo, total, newItems, newRows>>
    BY <1>6 DEF vars, channelVars, startVars
  <2>2. dbUp' \in BOOLEAN /\ detected' \in BOOLEAN
    BY <2>1 DEF IInv, StartTypes, DataTypes
  <2>3. ServedInv' /\ DataTypes'
    BY <2>1, <2>2, ServedStays, DataStay
  <2>4. StartTypes' /\ FilesInv' /\ ChannelsInv'
    BY <2>1, <2>2 DEF IInv, StartTypes, FilesInv, ChannelsInv, TagsHaveMetadata
  <2> QED BY <2>3, <2>4 DEF IInv
<1> QED BY <1>1, <1>2, <1>3, <1>4, <1>5, <1>6 DEF Next, Start

LEMMA ServerInvariance == Spec => []IInv
BY InitServer, NextServer, PTL DEF Spec

LEMMA ReadyFromInvariant == IInv => Inv
<1> SUFFICES ASSUME IInv PROVE Inv
  OBVIOUS
<1> USE ConstantsOK DEF Constants
<1>1. TypeOK /\ TagsHaveMetadata /\ CopiesAgree
  BY TypeFromParts DEF IInv, ChannelsInv, ServedInv
<1>2. ServingIsReady
  <2>1. \A c \in 0..(total - 1) : c \in Channel
    BY DEF IInv, StartTypes, Channel
  <2> QED BY <1>1, <2>1 DEF IInv, ChannelsInv, ServingIsReady, TagsHaveMetadata
<1>3. ServingIsRestartable
  <2>1. SUFFICES ASSUME phase = "serving", total = NumChannels, copying = {},
                        \A c \in Channel : ~ Broken(rows[c])
                 PROVE  Intact
    BY DEF ServingIsRestartable
  <2>2. Needed \subseteq applied /\ applied \cap Fragile \subseteq recorded
    BY <2>1 DEF IInv, ChannelsInv, FilesInv, Loaded
  <2>3. \A m \in Migration : files[m] = "whole"
    <3>1. \A m \in Migration : files[m] \in {"absent", "torn", "whole"}
      BY DEF IInv, StartTypes
    <3> QED BY <2>1, <3>1 DEF IInv, FilesInv, Loaded
  <2>4. \A c \in Channel : rows[c] # None
    BY <2>1 DEF IInv, ChannelsInv, Channel
  <2> QED BY <2>1, <2>2, <2>3, <2>4 DEF Intact
<1> QED BY <1>1, <1>2, <1>3 DEF Inv

\* Server.js, LocalIODataPlugin.js, MetadataHandler.js: at all times the types are
\* right and channels' tags have metadata; a server that serves has what it
\* needs and could start again; its copies agree with the database.
THEOREM ServerIsSafe == Spec => []Inv
BY ServerInvariance, ReadyFromInvariant, PTL

LEMMA StepsAreExact ==
    ASSUME IInv, [Next]_vars, NEW r \in Request, requests[r] # Idle, requests'[r] = Idle,
           phase' = "serving", requests[r].channel # None, requests[r].channel \notin overlapped
    PROVE  rows'[requests[r].channel] \in {requests[r].before, Wanted(requests[r])}
<1>1. ~ UNCHANGED requests
  OBVIOUS
<1>2. Serve
  <2>1. ~ Crash
    BY DEF Crash
  <2>2. Launch \/ DatabaseUp \/ DevicesDetected \/ UNCHANGED vars => UNCHANGED requests
    BY DEF Launch, DatabaseUp, DevicesDetected, vars, channelVars
  <2>3. Start => UNCHANGED requests
    BY DEF Start, DatabaseTimeout, DatabaseReady, ListMigrations, ApplyMigration, RecordMigration,
           LoadMetadata, LoadChannels, ChannelsCreated, StartPlugins, CopyMigration, CreateItem,
           CreateRow, channelVars
  <2> QED BY <1>1, <2>1, <2>2, <2>3 DEF Next
<1>3. PICK q \in Request : BeginRequest(q) \/ ContinueRequest(q)
  BY <1>2 DEF Serve
<1>4. requests \in [Request -> Req \cup {Idle}]
  BY DEF IInv, ServedInv, RequestsInv
<1>5. q = r
  <2>1. PICK e : requests' = [requests EXCEPT ![q] = e]
    <3>1. CASE BeginRequest(q)
      BY <3>1 DEF BeginRequest, UpdateLocalIOChannel, UpdateLocalIOChannelCalibration,
                  CreateMetadataItem, UpdateMetadataItem, Begin
    <3>2. CASE ContinueRequest(q)
      BY <3>2 DEF ContinueRequest, SelectItem, WriteItem, ItemHook, ReadConfig, SelectChannel,
                  UpdateChannel, ChannelHook, Goes, Answer
    <3> QED BY <1>3, <3>1, <3>2
  <2> QED BY <1>4, <2>1
<1>6. ContinueRequest(r)
  BY <1>3, <1>5 DEF BeginRequest, UpdateLocalIOChannel, UpdateLocalIOChannelCalibration,
                    CreateMetadataItem, UpdateMetadataItem, Begin
<1>7. UNCHANGED rows
  <2>1. CASE UpdateChannel(r)
    <3>1. ASSUME Goes(r, "channelHook") PROVE FALSE
      <4>1. PICK req \in Req : req = requests[r]
        BY <1>4
      <4>2. requests'[r] = [req EXCEPT !.at = "channelHook"]
        BY <1>4, <3>1, <4>1 DEF Goes
      <4>3. requests'[r].at = "channelHook"
        BY <4>2 DEF Req
      <4> QED BY <4>3 DEF Idle
    <3> QED BY <2>1, <3>1 DEF UpdateChannel
  <2>2. CASE ~ UpdateChannel(r)
    BY <1>6, <2>2 DEF ContinueRequest, SelectItem, WriteItem, ItemHook, ReadConfig, SelectChannel,
                      ChannelHook, database
  <2> QED BY <2>1, <2>2
<1>8. ChannelOK(requests[r])
  BY ServingState DEF RequestOK
<1> QED BY <1>7, <1>8 DEF ChannelOK

\* updateLocalIOChannel.js, updateLocalIOChannelCalibration.js: a mutation that
\* was alone with its channel has changed what it was asked to, or nothing.
THEOREM MutationsChangeWhatTheyName == Spec => MutationsAreExact
<1>1. IInv /\ [Next]_vars =>
        [\A r \in Request :
          LET req == requests[r]
          IN  req # Idle /\ requests'[r] = Idle /\ phase' = "serving"
                /\ req.channel # None /\ req.channel \notin overlapped
              => rows'[req.channel] \in {req.before, Wanted(req)}]_vars
  BY StepsAreExact
<1> QED BY <1>1, ServerInvariance, PTL DEF Spec, MutationsAreExact

LEMMA RowsStay ==
    ASSUME IInv, [Next]_vars, NEW c \in Channel, rows[c] # None, rows'[c] # rows[c]
    PROVE  \E r \in InFlight : requests[r].channel = c
<1>1. rows \in [Channel -> Row \cup {None}]
  BY DEF IInv, DataTypes
<1>2. ASSUME NEW d \in Channel, CreateRow(d) PROVE FALSE
  <2>1. UNCHANGED rows \/ (rows[d] = None /\ \E e : rows' = [rows EXCEPT ![d] = e])
    BY <1>2 DEF CreateRow, Refused
  <2> QED BY <1>1, <2>1
<1>3. ASSUME NEW r \in Request, UpdateChannel(r) PROVE r \in InFlight /\ requests[r].channel = c
  <2>1. requests[r] # Idle
    BY <1>3 DEF UpdateChannel, Idle
  <2>2. PICK e : rows' = [rows EXCEPT ![requests[r].channel] = e]
    BY <1>3 DEF UpdateChannel
  <2> QED BY <1>1, <2>1, <2>2 DEF InFlight
<1>4. ASSUME NEW r \in Request, ContinueRequest(r) \/ BeginRequest(r), ~ UpdateChannel(r) PROVE FALSE
  BY <1>4 DEF ContinueRequest, SelectItem, WriteItem, ItemHook, ReadConfig, SelectChannel,
              ChannelHook, BeginRequest, UpdateLocalIOChannel, UpdateLocalIOChannelCalibration,
              CreateMetadataItem, UpdateMetadataItem, Begin, database
<1>5. Launch \/ Crash \/ DatabaseUp \/ DevicesDetected \/ UNCHANGED vars => UNCHANGED rows
  BY DEF Launch, Crash, DatabaseUp, DevicesDetected, vars, channelVars, database
<1>6. Start => (\E d \in Channel : CreateRow(d)) \/ UNCHANGED rows
  BY DEF Start, DatabaseTimeout, DatabaseReady, ListMigrations, ApplyMigration, RecordMigration,
         LoadMetadata, LoadChannels, ChannelsCreated, StartPlugins, CopyMigration, CreateItem,
         channelVars, database
<1> QED BY <1>2, <1>3, <1>4, <1>5, <1>6 DEF Next, Serve

LEMMA ItemsStay ==
    ASSUME IInv, [Next]_vars, NEW t \in Tag, metadata[t] # None, metadata'[t] # metadata[t]
    PROVE  \E r \in InFlight : requests[r].tag = t
<1>1. metadata \in [Tag -> Item \cup {None}]
  BY DEF IInv, DataTypes
<1>2. ASSUME NEW d \in Channel, CreateItem(d) PROVE FALSE
  <2>1. UNCHANGED metadata
        \/ (metadata[DefaultTag[d]] = None /\ \E e : metadata' = [metadata EXCEPT ![DefaultTag[d]] = e])
    BY <1>2 DEF CreateItem, Refused
  <2> QED BY <1>1, <2>1
<1>3. ASSUME NEW r \in Request, WriteItem(r) PROVE r \in InFlight /\ requests[r].tag = t
  <2>1. requests[r] # Idle
    BY <1>3 DEF WriteItem, Idle
  <2>2. PICK e : metadata' = [metadata EXCEPT ![requests[r].tag] = e]
    BY <1>3 DEF WriteItem
  <2> QED BY <1>1, <2>1, <2>2 DEF InFlight
<1>4. ASSUME NEW r \in Request, ContinueRequest(r) \/ BeginRequest(r), ~ WriteItem(r) PROVE FALSE
  BY <1>4 DEF ContinueRequest, SelectItem, UpdateChannel, ItemHook, ReadConfig, SelectChannel,
              ChannelHook, BeginRequest, UpdateLocalIOChannel, UpdateLocalIOChannelCalibration,
              CreateMetadataItem, UpdateMetadataItem, Begin, database
<1>5. Launch \/ Crash \/ DatabaseUp \/ DevicesDetected \/ UNCHANGED vars => UNCHANGED metadata
  BY DEF Launch, Crash, DatabaseUp, DevicesDetected, vars, channelVars, database
<1>6. Start => (\E d \in Channel : CreateItem(d)) \/ UNCHANGED metadata
  BY DEF Start, DatabaseTimeout, DatabaseReady, ListMigrations, ApplyMigration, RecordMigration,
         LoadMetadata, LoadChannels, ChannelsCreated, StartPlugins, CopyMigration, CreateRow,
         channelVars, database
<1> QED BY <1>2, <1>3, <1>4, <1>5, <1>6 DEF Next, Serve

\* LocalIODataPlugin.js, sequelizeMigrate.js: a start, however often it has been
\* interrupted, leaves alone the rows that are there.
THEOREM StartsKeepData == Spec => StartKeepsData
<1>1. IInv /\ [Next]_vars =>
        [/\ \A c \in Channel : rows[c] # None =>
              rows'[c] = rows[c] \/ \E r \in InFlight : requests[r].channel = c
         /\ \A t \in Tag : metadata[t] # None =>
              metadata'[t] = metadata[t] \/ \E r \in InFlight : requests[r].tag = t]_vars
  BY RowsStay, ItemsStay
<1> QED BY <1>1, ServerInvariance, PTL DEF Spec, StartKeepsData

=============================================================================
