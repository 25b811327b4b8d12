-------------------------- MODULE ChannelMutations --------------------------
(***************************************************************************)
(* The GraphQL mutations of local I/O channels and of metadata             *)
(* (src/server/localio/graphql/mutation, src/server/graphql/mutation) on   *)
(* the rows of the database, and the two copies of these rows that the     *)
(* server works with: the channels of LocalIODataPlugin and the cache of   *)
(* MetadataHandler, which follow by way of Sequelize's hooks.              *)
(*                                                                         *)
(* A request waits for the database several times; requests run at the     *)
(* same time, and the answers of the database come in any order.           *)
(***************************************************************************)
EXTENDS Integers, FiniteSets

CONSTANTS NumChannels,  \* I/O channels of the hardware
          Analog,       \* those with an analog input
          Tag, Item,    \* tags and what metadata says of them
          Calibration,  \* calibrations of an analog input
          Unusable,     \* those of which no Calibrator can be made
          Configs,      \* configurations that users ask for
          Request,      \* requests in flight at a time
          MaxRequests,  \* bound on the number of requests
          None

Channel == 0..(NumChannels - 1)

Config == [mode : {"ANALOG_INPUT", "DIGITAL_INPUT", "DISABLED"},
           calibration : Calibration \cup {None}]
Row == [tag : Tag \cup {None}, config : Config]

ASSUME ChannelAssumption ==
    /\ NumChannels \in Nat /\ MaxRequests \in Nat
    /\ Channel \cap Tag = {}
    /\ Analog \subseteq Channel /\ Unusable \subseteq Calibration /\ Configs \subseteq Config
ASSUME NoneAssumption ==
    /\ None \notin Channel /\ None \notin Tag /\ None \notin Item
    /\ None \notin Calibration /\ None \notin Config /\ None \notin Row

VARIABLES
  (* The database *)
  rows,       \* table LocalIOChannels
  metadata,   \* table Metadata
  (* The server *)
  held,       \* _channels of the plugin
  cache,      \* _metadata of MetadataHandler
  detected,   \* the device client knows the hardware
  requests,   \* of each request in flight: where it waits, and its variables
  made,       \* number of requests made
  (* For the properties *)
  overlapped  \* channels and tags that two requests have mutated at once

database    == <<rows, metadata>>
copies      == <<held, cache>>
channelVars == <<rows, metadata, held, cache, detected, requests, made, overlapped>>

Idle == [at |-> "idle"]
InFlight == {r \in Request : requests[r] # Idle}

\* What a request is about.
Uses(req) == {req.channel, req.tag} \ {None}
InUse     == UNION {Uses(requests[r]) : r \in InFlight}

\* The columns that an UPDATE names.
Merge(row, tag, config) ==
    [tag    |-> IF tag = None THEN row.tag ELSE tag,
     config |-> IF config = None THEN row.config ELSE config]

-----------------------------------------------------------------------------
(* Requests                                                                *)

Begin(r, req) ==
    /\ requests[r] = Idle
    /\ made < MaxRequests
    /\ made' = made + 1
    /\ requests' = [requests EXCEPT ![r] = req]
    /\ overlapped' = overlapped \cup (Uses(req) \cap InUse)
    /\ UNCHANGED <<database, copies, detected>>

Goes(r, at) == requests' = [requests EXCEPT ![r].at = at]
Answer(r)   == requests' = [requests EXCEPT ![r] = Idle]

\* before is there for the properties: the row at the time of the request.
Asks(at, c, tag, item, config, calibration) ==
    [at |-> at, channel |-> c, tag |-> tag, item |-> item, config |-> config,
     calibration |-> calibration, read |-> None,
     before |-> IF c = None THEN None ELSE rows[c]]

\* channelSupportsAnalog asks the hardware, as far as it is known.
Unsupported(c, config) ==
    config # None /\ config.mode = "ANALOG_INPUT" /\ ~ (detected /\ c \in Analog)

\* updateLocalIOChannel, with or without a metadata item.
UpdateLocalIOChannel(r, c, tag, item, config) ==
    /\ IF item # None THEN tag # None ELSE ~ Unsupported(c, config)
    /\ {tag, config} # {None}
    /\ Begin(r, Asks(IF item # None THEN "selectItem" ELSE "selectChannel",
                     c, tag, item, config, None))

\* updateLocalIOChannelCalibration.
UpdateLocalIOChannelCalibration(r, c, calibration) ==
    Begin(r, Asks("readConfig", c, None, None, None, calibration))

CreateMetadataItem(r, tag, item) == Begin(r, Asks("createItem", None, tag, item, None, None))
UpdateMetadataItem(r, tag, item) == Begin(r, Asks("selectItem", None, tag, item, None, None))

-----------------------------------------------------------------------------
(* Metadata                                                                *)

\* SequelizeMetadataItem.update reads the row.  Without one, the mutation of a
\* channel goes on to create it, that of an item fails.
SelectItem(r) ==
    /\ requests[r].at = "selectItem"
    /\ IF metadata[requests[r].tag] # None THEN Goes(r, "updateItem")
       ELSE IF requests[r].channel # None THEN Goes(r, "createItem")
       ELSE Answer(r)
    /\ UNCHANGED <<database, copies, detected, made, overlapped>>

\* The item is written.  A second row for the tag violates the primary key.
WriteItem(r) ==
    /\ requests[r].at \in {"createItem", "updateItem"}
    /\ IF requests[r].at = "createItem" /\ metadata[requests[r].tag] # None
       THEN Answer(r) /\ UNCHANGED metadata
       ELSE /\ metadata' = [metadata EXCEPT ![requests[r].tag] = requests[r].item]
            /\ Goes(r, "itemHook")
    /\ UNCHANGED <<rows, copies, detected, made, overlapped>>

\* MetadataHandler._handleMetadataChange.
HandleMetadataChange(tag, item) == cache' = [cache EXCEPT ![tag] = item]

\* The hook runs; the mutation of a channel then goes on to the channel, if
\* the channel can be what the configuration says.
ItemHook(r) ==
    /\ requests[r].at = "itemHook"
    /\ HandleMetadataChange(requests[r].tag, requests[r].item)
    /\ IF requests[r].channel = None \/ Unsupported(requests[r].channel, requests[r].config)
       THEN Answer(r)
       ELSE Goes(r, "selectChannel")
    /\ UNCHANGED <<database, held, detected, made, overlapped>>

-----------------------------------------------------------------------------
(* Channels                                                                *)

\* Mutated form: the new configuration has nothing but the calibration.
WithCalibration_Fresh(config, calibration) ==
    [mode |-> "ANALOG_INPUT", calibration |-> calibration]

WithCalibration(config, calibration) == [config EXCEPT !.calibration = calibration]

\* The configuration is read, in order to be written back with the calibration.
ReadConfig(r) ==
    /\ requests[r].at = "readConfig"
    /\ LET row == rows[requests[r].channel]
       IN  IF row = None THEN Answer(r)
           ELSE requests' = [requests EXCEPT
                   ![r].at = "selectChannel",
                   ![r].config = WithCalibration(row.config, requests[r].calibration)]
    /\ UNCHANGED <<database, copies, detected, made, overlapped>>

\* LocalIOChannel.update reads the row that the hook is going to see.
SelectChannel(r) ==
    /\ requests[r].at = "selectChannel"
    /\ LET row == rows[requests[r].channel]
       IN  IF row = None THEN Answer(r)
           ELSE requests' = [requests EXCEPT ![r].at = "updateChannel", ![r].read = row]
    /\ UNCHANGED <<database, copies, detected, made, overlapped>>

\* It writes the named columns.  The tag has to be one that has metadata.
UpdateChannel(r) ==
    LET req == requests[r]
    IN  /\ req.at = "updateChannel"
        /\ IF req.tag # None /\ metadata[req.tag] = None
           THEN Answer(r) /\ UNCHANGED rows
           ELSE /\ rows' = [rows EXCEPT ![req.channel] = Merge(@, req.tag, req.config)]
                /\ Goes(r, "channelHook")
        /\ UNCHANGED <<metadata, copies, detected, made, overlapped>>

\* Mutated form: the plugin goes on with the row as it was read.
ChannelUpdated_AsRead(c, read, tag, config) == held' = [held EXCEPT ![c] = read]

\* LocalIODataPlugin._channelUpdated, with what was read and the new values.
\* With an unusable calibration it throws, after that.
ChannelUpdated(c, read, tag, config) ==
    held' = [held EXCEPT ![c] = Merge(read, tag, config)]

ChannelHook(r) ==
    /\ requests[r].at = "channelHook"
    /\ ChannelUpdated(requests[r].channel, requests[r].read, requests[r].tag, requests[r].config)
    /\ Answer(r)
    /\ UNCHANGED <<database, cache, detected, made, overlapped>>

-----------------------------------------------------------------------------

BeginRequest(r) ==
    \/ \E c \in Channel, config \in Configs \cup {None}, tag \in Tag \cup {None},
          item \in Item \cup {None} : UpdateLocalIOChannel(r, c, tag, item, config)
    \/ \E c \in Channel, calibration \in Calibration :
          UpdateLocalIOChannelCalibration(r, c, calibration)
    \/ \E tag \in Tag, item \in Item :
          CreateMetadataItem(r, tag, item) \/ UpdateMetadataItem(r, tag, item)

ContinueRequest(r) ==
    \/ SelectItem(r) \/ WriteItem(r) \/ ItemHook(r)
    \/ ReadConfig(r) \/ SelectChannel(r) \/ UpdateChannel(r) \/ ChannelHook(r)

-----------------------------------------------------------------------------
(* Properties                                                              *)

ChannelsTypeOK ==
    /\ rows \in [Channel -> Row \cup {None}]
    /\ metadata \in [Tag -> Item \cup {None}]
    /\ held \in [Channel -> Row \cup {None}]
    /\ cache \in [Tag -> Item \cup {None}]
    /\ detected \in BOOLEAN
    /\ DOMAIN requests = Request
    /\ \A r \in InFlight :
          /\ requests[r].channel \in Channel \cup {None}
          /\ requests[r].tag \in Tag \cup {None}
          /\ requests[r].config \in Config \cup {None}
          /\ {requests[r].read, requests[r].before} \subseteq Row \cup {None}
    /\ made \in 0..MaxRequests
    /\ overlapped \subseteq Channel \cup Tag

\* The database refuses a channel whose tag has no metadata.
TagsHaveMetadata ==
    \A c \in Channel : rows[c] # None /\ rows[c].tag # None => metadata[rows[c].tag] # None

\* What a mutation asks of the row it found when it began.
Wanted(req) ==
    IF req.before = None THEN None
    ELSE IF req.calibration # None
    THEN [req.before EXCEPT !.config.calibration = req.calibration]
    ELSE Merge(req.before, req.tag, req.config)

=============================================================================
