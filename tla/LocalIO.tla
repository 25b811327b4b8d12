------------------------------- MODULE LocalIO -------------------------------
(***************************************************************************)
(* The local I/O plugin (src/server/localio/LocalIODataPlugin.js) on the   *)
(* tag map: from raw digital inputs and set commands to the levels of the  *)
(* outputs.                                                                *)
(*                                                                         *)
(* Of the DataRouter this module has what the plugin sees of it: of the    *)
(* data it emits, the values of tags that have one source are pending for  *)
(* a while, a digest cycle is a number of passes, each of which puts all   *)
(* the pending data into the tag map and calls inputsChanged if the plugin *)
(* reads any of it, and a dispatchCycleDone.  No other plugin declares the *)
(* tags of local channels.                                                 *)
(*                                                                         *)
(* There are no analog channels here.  They differ in the calibration, see *)
(* Calibrator; one whose calibrator throws ends every _updateData before   *)
(* its emit, so that the data of all channels stops.                       *)
(***************************************************************************)
EXTENDS ControlLogic

CONSTANTS NumChannels, \* number of channels of the hardware
          TagName,     \* public tags
          Configs,     \* the configurations each channel may be given
          None         \* a channel without a tag

Id == 0 .. NumChannels - 1

\* Values are those of ControlLogic: 0, 1, and Unavailable for null.
Null  == Unavailable
Value == {0, 1, Null}

\* A channel's row.  logic is the condition of CONTROL_MODE_CONDITION.
Config == [mode : {"DIGITAL_INPUT", "DIGITAL_OUTPUT", "DISABLED"},
           controlMode : {"FORCE_OFF", "FORCE_ON", "CONDITION", "OUTPUT_A_TAG"},
           logic : Seq(Condition), reversePolarity : BOOLEAN, safeState : {0, 1},
           tag : TagName \cup {None}]

Raw(id)     == <<"raw", id>>
System(id)  == <<"system", id>>
Control(id) == <<"control", id>>
Tag(t)      == <<"tag", t>>
SetCommand(t) == <<"set", t>>

BusTag == ({"raw", "system", "control"} \X Id) \cup ({"tag", "set"} \X TagName)

ASSUME ChannelAssumption == NumChannels \in Nat
ASSUME ConfigAssumption == Configs \in [Id -> SUBSET Config]
ASSUME TagAssumption == ConditionTag \subseteq TagName
ASSUME NullAssumption == Null \notin {0, 1}

VARIABLES
  (* The DataRouter *)
  tagMap, pending, inCycle,
  (* LocalIODataPlugin *)
  channels,        \* _channels: the configuration of each channel
  outputTagValues, \* _outputTagValues
  curOutputValues, \* _curOutputValues
  (* The hardware *)
  hardware,        \* hardwareInfo() knows the devices
  levels           \* the levels that the devices were last told to put out

vars == <<tagMap, pending, inCycle, channels, outputTagValues, curOutputValues,
          hardware, levels>>

-----------------------------------------------------------------------------
(* The tag map                                                             *)

NoData == [t \in {} |-> Null]

\* The values that change the tag map.
Changes(values, map) == [t \in {u \in DOMAIN values : values[u] # map[u]} |-> values[t]]

\* Pending values after an emit.
Dispatch(values) ==
    Changes([t \in DOMAIN pending \cup DOMAIN values |->
                IF t \in DOMAIN values THEN values[t] ELSE pending[t]], tagMap)

\* The tags of conditions, and their values.
LogicTags(logic) == {logic[i].tag : i \in DOMAIN logic}
TagValues(logic, map) == [t \in LogicTags(logic) |-> map[Tag(t)]]

-----------------------------------------------------------------------------
(* What the plugin computes                                                *)

Reversed(v) == IF v = Null THEN Null ELSE 1 - v

Is(config, mode) == config.mode = mode

IsOutputtingATag(config) ==
    Is(config, "DIGITAL_OUTPUT") /\ config.controlMode = "OUTPUT_A_TAG"

\* A condition's tags and the set command are inputs of an output channel.
TagsToPlugin(id, config) ==
    CASE Is(config, "DIGITAL_INPUT") -> {Raw(id)}
      [] Is(config, "DISABLED") -> {}
      [] Is(config, "DIGITAL_OUTPUT") ->
            {Control(id)}
              \cup (IF config.controlMode = "CONDITION"
                    THEN {Tag(t) : t \in LogicTags(config.logic)}
                    ELSE IF config.tag # None THEN {SetCommand(config.tag)} ELSE {})

Settable(config) ==
    Is(config, "DIGITAL_OUTPUT") /\ config.controlMode # "CONDITION" /\ config.tag # None

\* What the control mode asks for.
ControlValue(id, config, map, outputs) ==
    CASE config.controlMode = "FORCE_OFF" -> 0
      [] config.controlMode = "FORCE_ON"  -> 1
      [] config.controlMode = "CONDITION" ->
            LET result == EvaluateControlLogic(config.logic, TagValues(config.logic, map))
            IN  IF result = Unknown THEN Null ELSE IF result = "true" THEN 1 ELSE 0
      [] config.controlMode = "OUTPUT_A_TAG" ->
            IF config.tag # None THEN outputs[id] ELSE Null

\* An output without a control value takes its safe state.
SystemValue(id, config, map, outputs) ==
    IF Is(config, "DIGITAL_INPUT")
    THEN IF config.reversePolarity THEN Reversed(map[Raw(id)]) ELSE map[Raw(id)]
    ELSE LET control == ControlValue(id, config, map, outputs)
         IN  IF control # Null THEN control ELSE config.safeState

EnabledChannels(configs) == {id \in Id : ~ Is(configs[id], "DISABLED")}

\* The channels whose mappings declare a tag.  Nothing keeps channels from
\* having the same one.
Tagged(configs, t) == {id \in EnabledChannels(configs) : configs[id].tag = t}

\* The plugin provides a tag unless two settable channels have it, or two that
\* are not (calculateMappingInfo): of one of each, both remain.
Provided(configs, t) ==
    /\ Tagged(configs, t) # {}
    /\ \A i, j \in Tagged(configs, t) : Settable(configs[i]) = Settable(configs[j]) => i = j

\* The channel whose value _updateData emits for a tag: the last one.
Owner(configs, t) == Max(Tagged(configs, t))

\* The tags that _updateData emits, and their values.
DataTags(configs) ==
    LET enabled == EnabledChannels(configs)
    IN  {System(id) : id \in enabled}
          \cup {Tag(configs[id].tag) : id \in {i \in enabled : configs[i].tag # None}}
          \cup {Control(id) : id \in {i \in enabled : Is(configs[i], "DIGITAL_OUTPUT")}}

Data(configs, map, outputs) ==
    LET System_ == [id \in Id |-> SystemValue(id, configs[id], map, outputs)]
    IN  [t \in DataTags(configs) |->
            CASE t[1] = "system"  -> System_[t[2]]
              [] t[1] = "tag"     -> System_[Owner(configs, t[2])]
              [] t[1] = "control" -> ControlValue(t[2], configs[t[2]], map, outputs)]

\* What the router takes of that: it drops the values of tags that the plugin
\* does not provide.
EnforceTagSources(configs, values) ==
    [u \in {v \in DOMAIN values : v[1] = "tag" => Provided(configs, v[2])} |-> values[u]]

Emitted(configs, map, outputs) == EnforceTagSources(configs, Data(configs, map, outputs))

\* Mutated form: a channel that is no longer an output keeps its level.
OutputValues_Kept(configs, map) ==
    [id \in Id |->
        IF Is(configs[id], "DIGITAL_OUTPUT")
        THEN LET v == IF map[System(id)] # Null THEN map[System(id)] ELSE configs[id].safeState
             IN  (v = 1) # configs[id].reversePolarity
        ELSE map[System(id)] = 1]

\* The levels that _updateChannelStates computes.
OutputValues(configs, map) ==
    [id \in Id |->
        /\ Is(configs[id], "DIGITAL_OUTPUT")
        /\ LET v == IF map[System(id)] # Null THEN map[System(id)] ELSE configs[id].safeState
           IN  (v = 1) # configs[id].reversePolarity]

\* _updateChannelStates: changed levels go out at once, if the hardware is known.
UpdateChannelStates(configs, map) ==
    /\ curOutputValues' = OutputValues(configs, map)
    /\ levels' = IF curOutputValues' # curOutputValues /\ hardware
                 THEN curOutputValues' ELSE levels

-----------------------------------------------------------------------------
(* Digest cycles                                                           *)

\* _outputTagValues after the set commands of a pass.
CommandedOutputs(map, changed) ==
    [id \in Id |->
        IF IsOutputtingATag(channels[id]) /\ channels[id].tag # None
             /\ SetCommand(channels[id].tag) \in changed
        THEN map[SetCommand(channels[id].tag)]
        ELSE outputTagValues[id]]

\* Mutated form: a condition's tags are not inputs.
Pass_NoConditions ==
    /\ pending # NoData
    /\ LET map == [t \in BusTag |-> IF t \in DOMAIN pending THEN pending[t] ELSE tagMap[t]]
           read == {t \in UNION {TagsToPlugin(id, channels[id]) : id \in Id} : t[1] # "tag"}
           outputs == CommandedOutputs(map, DOMAIN pending)
       IN  /\ tagMap' = map
           /\ IF read \cap DOMAIN pending = {}
              THEN pending' = NoData /\ UNCHANGED outputTagValues
              ELSE /\ outputTagValues' = outputs
                   /\ pending' = Changes(Emitted(channels, map, outputs), map)
    /\ inCycle' = TRUE
    /\ UNCHANGED <<channels, curOutputValues, hardware, levels>>

\* One pass of a cycle, the first one included: the pending data goes into
\* the tag map, and inputsChanged is called if the plugin reads any of it.
Pass ==
    /\ pending # NoData
    /\ LET map == [t \in BusTag |-> IF t \in DOMAIN pending THEN pending[t] ELSE tagMap[t]]
           read == UNION {TagsToPlugin(id, channels[id]) : id \in Id}
           outputs == CommandedOutputs(map, DOMAIN pending)
       IN  /\ tagMap' = map
           /\ IF read \cap DOMAIN pending = {}
              THEN pending' = NoData /\ UNCHANGED outputTagValues
              ELSE /\ outputTagValues' = outputs
                   /\ pending' = Changes(Emitted(channels, map, outputs), map)
    /\ inCycle' = TRUE
    /\ UNCHANGED <<channels, curOutputValues, hardware, levels>>

\* The end of a cycle: dispatchCycleDone.
DispatchCycleDone ==
    /\ inCycle
    /\ pending = NoData
    /\ inCycle' = FALSE
    /\ UpdateChannelStates(channels, tagMap)
    /\ UNCHANGED <<tagMap, pending, channels, outputTagValues, hardware>>

-----------------------------------------------------------------------------
(* Events                                                                  *)

\* _handleDeviceInputStates: the raw inputs of all channels.
HandleDeviceInputStates ==
    /\ ~ inCycle /\ hardware
    /\ \E inputs \in [Id -> {0, 1}] :
          pending' = Dispatch([t \in {Raw(id) : id \in Id} |-> inputs[t[2]]])
    /\ UNCHANGED <<tagMap, inCycle, channels, outputTagValues, curOutputValues,
                   hardware, levels>>

\* Another plugin emits a tag that this one provides: a set command, if the
\* first channel that declares the tag is settable.
Command(t, v) ==
    /\ Provided(channels, t)
    /\ Settable(channels[Min(Tagged(channels, t))])
    /\ pending' = Dispatch([u \in {SetCommand(t)} |-> v])
    /\ UNCHANGED <<tagMap, inCycle, channels, outputTagValues, curOutputValues,
                   hardware, levels>>

\* _channelUpdated: the new data waits for the router's rate limit, and the
\* states follow from the tag map as it is; or the emit itself runs the cycle,
\* at whose end the states follow.
ChannelUpdated(id, config) ==
    /\ ~ inCycle
    /\ LET configs == [channels EXCEPT ![id] = config]
       IN  /\ channels' = configs
           /\ pending' = Dispatch(Emitted(configs, tagMap, outputTagValues))
           /\ \/ UpdateChannelStates(configs, tagMap) /\ UNCHANGED inCycle
              \/ /\ pending' # NoData
                 /\ inCycle' = TRUE
                 /\ UNCHANGED <<curOutputValues, levels>>
    /\ UNCHANGED <<tagMap, outputTagValues, hardware>>

\* Mutated form: devices that put out nothing are left alone.
SendOutputValues_IfDriven ==
    /\ hardware
    /\ \E id \in Id : levels[id]
    /\ levels' = curOutputValues
    /\ UNCHANGED <<tagMap, pending, inCycle, channels, outputTagValues,
                   curOutputValues, hardware>>

\* The refresh interval.
SendOutputValues ==
    /\ hardware
    /\ levels' = curOutputValues
    /\ UNCHANGED <<tagMap, pending, inCycle, channels, outputTagValues,
                   curOutputValues, hardware>>

\* The hardware is detected; or the daemon is gone, and the outputs go off.
HardwareDetected ==
    /\ ~ hardware
    /\ hardware' = TRUE
    /\ UNCHANGED <<tagMap, pending, inCycle, channels, outputTagValues,
                   curOutputValues, levels>>

HardwareReset ==
    /\ hardware
    /\ hardware' = FALSE
    /\ levels' = [id \in Id |-> FALSE]
    /\ UNCHANGED <<tagMap, pending, inCycle, channels, outputTagValues, curOutputValues>>

\* start() has been called.
Init ==
    /\ channels \in [Id -> UNION {Configs[id] : id \in Id}]
    /\ \A id \in Id : channels[id] \in Configs[id]
    /\ tagMap = [t \in BusTag |-> Null]
    /\ outputTagValues = [id \in Id |-> Null]
    /\ pending = Changes(Emitted(channels, tagMap, outputTagValues), tagMap)
    /\ curOutputValues = OutputValues(channels, tagMap)
    /\ hardware \in BOOLEAN
    /\ levels = [id \in Id |-> hardware /\ curOutputValues[id]]
    /\ inCycle = FALSE

Next ==
    \/ Pass \/ DispatchCycleDone
    \/ HandleDeviceInputStates
    \/ \E t \in TagName, v \in Value : Command(t, v)
    \/ \E id \in Id : \E config \in Configs[id] : ChannelUpdated(id, config)
    \/ SendOutputValues \/ HardwareDetected \/ HardwareReset

Spec == Init /\ [][Next]_vars

\* No data is on its way.
AtRest == ~ inCycle /\ pending = NoData

\* The router ends its cycles, the refresh interval is an interval, and the
\* plugins do not answer each other for ever (see CyclesEnd of DataRouter for
\* what happens if they do).
FairSpec ==
    /\ Spec
    /\ WF_vars(Pass) /\ WF_vars(DispatchCycleDone) /\ WF_vars(SendOutputValues)
    /\ []<>AtRest

-----------------------------------------------------------------------------
(* Properties                                                              *)

\* The shape of the state.
TypeOK ==
    /\ tagMap \in [BusTag -> Value]
    /\ DOMAIN pending \subseteq BusTag /\ \A t \in DOMAIN pending : pending[t] \in Value
    /\ {inCycle, hardware} \subseteq BOOLEAN
    /\ \A id \in Id : channels[id] \in Configs[id]
    /\ outputTagValues \in [Id -> Value]
    /\ {curOutputValues, levels} \subseteq [Id -> BOOLEAN]

\* At rest a digital input's tag has its raw value in its polarity, whatever
\* configurations the channels had while the value was on its way, if the
\* plugin provides the tag and no later channel has it.
InputsFollow ==
    AtRest => \A id \in Id :
        LET c == channels[id]
            Decides == Provided(channels, c.tag) /\ id = Owner(channels, c.tag)
        IN  Is(c, "DIGITAL_INPUT") /\ c.tag # None /\ Decides =>
                tagMap[Tag(c.tag)] =
                    IF c.reversePolarity THEN Reversed(tagMap[Raw(id)]) ELSE tagMap[Raw(id)]

\* At rest an output's level is what its control mode asks for, evaluated on
\* the values that its tags have now, or its safe state, in its polarity.
\* Between the two lie up to three passes and a dispatchCycleDone.
OutputsFollow ==
    AtRest => \A id \in Id :
        LET c == channels[id]
            v == ControlValue(id, c, tagMap, outputTagValues)
        IN  Is(c, "DIGITAL_OUTPUT") =>
                curOutputValues[id] = ((v = 1 \/ (v = Null /\ c.safeState = 1)) # c.reversePolarity)

\* At rest nothing lags behind: neither the tags of inputs nor the outputs.
ValuesFollow == InputsFollow /\ OutputsFollow

\* A channel that is not an output is off, already before the router has
\* taken the data of its new configuration.
InactiveIsOff ==
    \A id \in Id : ~ inCycle /\ ~ Is(channels[id], "DIGITAL_OUTPUT") => ~ curOutputValues[id]

\* Types, and outputs that are off as soon as their channel is not one.
Inv == TypeOK /\ InactiveIsOff

\* What the comment on _outputTagValues says: the values that were set by
\* another plugin, for every channel that outputs its tag.
CommandsAreObeyed ==
    AtRest => \A id \in Id :
        LET c == channels[id]
        IN  IsOutputtingATag(c) /\ c.tag # None =>
                outputTagValues[id] = tagMap[SetCommand(c.tag)]

\* An output that is forced on or off ends up so at its device, in its
\* polarity, although the value has to go through the emit, the passes and
\* dispatchCycleDone, and although a reset of the hardware loses the level.
ForcedIsPutOut ==
    \A id \in Id :
        LET c == channels[id]
            Forced == hardware /\ Is(c, "DIGITAL_OUTPUT") /\ c.controlMode \in {"FORCE_ON", "FORCE_OFF"}
        IN  Forced ~> (Forced => levels[id] = ((c.controlMode = "FORCE_ON") # c.reversePolarity))

=============================================================================
