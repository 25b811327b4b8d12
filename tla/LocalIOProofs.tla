---------------------------- MODULE LocalIOProofs -----------------------------
(***************************************************************************)
(* Proofs about local channels: the plugin on its tag map, for any number  *)
(* of channels, any configurations and any conditions; and the functions   *)
(* it computes with, for any calibration points and any logic.             *)
(***************************************************************************)
EXTENDS LocalIO, Calculations, FiniteSetTheorems, WellFoundedInduction, TLAPS

Maps == [BusTag -> Value]
Rows == [Id -> Config]

-----------------------------------------------------------------------------
(* Configurations                                                          *)

LEMMA IdsAreNumbers == \A id \in Id : id \in Nat /\ NumChannels - id \in Nat
BY ChannelAssumption DEF Id

LEMMA ConfigFields ==
    ASSUME NEW c \in Config
    PROVE  /\ c.mode \in {"DIGITAL_INPUT", "DIGITAL_OUTPUT", "DISABLED"}
           /\ c.controlMode \in {"FORCE_OFF", "FORCE_ON", "CONDITION", "OUTPUT_A_TAG"}
           /\ c.reversePolarity \in BOOLEAN /\ c.safeState \in {0, 1}
           /\ c.tag = None \/ c.tag \in TagName
           /\ LogicTags(c.logic) \subseteq TagName
<1>1. c.logic \in Seq(Condition)
  BY DEF Config
<1>2. \A i \in DOMAIN c.logic : c.logic[i].tag \in ConditionTag
  <2>1. PICK logic \in Seq(Condition) : logic = c.logic
    BY <1>1
  <2>2. \A i \in DOMAIN logic : logic[i] \in Condition
    OBVIOUS
  <2> QED BY <2>1, <2>2 DEF Condition
<1>3. LogicTags(c.logic) \subseteq TagName
  BY <1>2, TagAssumption DEF LogicTags
<1> QED BY <1>3 DEF Config

LEMMA ConfigsAreConfigs == \A id \in Id : Configs[id] \subseteq Config
BY ConfigAssumption

LEMMA BusTags ==
    /\ \A id \in Id : Raw(id) \in BusTag /\ System(id) \in BusTag /\ Control(id) \in BusTag
    /\ \A t \in TagName : Tag(t) \in BusTag /\ SetCommand(t) \in BusTag
BY DEF BusTag, Raw, System, Control, Tag, SetCommand

\* A tag of some channels has one of them as its owner.
LEMMA OwnerIsTagged ==
    ASSUME NEW configs, NEW t, Tagged(configs, t) # {}
    PROVE  Owner(configs, t) \in Tagged(configs, t)
<1> DEFINE S == {n \in Nat : \E id \in Tagged(configs, t) : n = NumChannels - id}
           R == {p \in Nat \X Nat : p[1] < p[2]}
<1>1. Tagged(configs, t) \subseteq Id
  BY DEF Tagged, EnabledChannels
<1>2. S \subseteq Nat /\ S # {}
  BY <1>1, IdsAreNumbers
<1>3. IsWellFoundedOn(R, Nat)
  BY NatLessThanWellFounded, Zenon DEF OpToRel
<1>4. PICK m \in S : \A n \in S : ~ (<<n, m>> \in R)
  BY <1>2, <1>3, WFMin
<1>5. PICK last \in Tagged(configs, t) : m = NumChannels - last
  OBVIOUS
<1>6. \A id \in Tagged(configs, t) : last >= id
  <2> TAKE id \in Tagged(configs, t)
  <2>1. NumChannels - id \in S
    BY <1>1, IdsAreNumbers
  <2>2. ~ (NumChannels - id < m)
    <3>1. m \in Nat /\ NumChannels - id \in Nat
      BY <1>2, <2>1
    <3> QED BY <1>4, <2>1, <3>1
  <2>3. id \in Nat /\ last \in Nat /\ NumChannels - id \in Nat
    BY <1>1, IdsAreNumbers
  <2> HIDE DEF S, R
  <2> QED BY <1>5, <2>2, <2>3, ChannelAssumption
<1> QED BY <1>6 DEF Owner, Max

-----------------------------------------------------------------------------
(* What the plugin computes                                                *)

LEMMA Levels == {0, 1} \subseteq Value /\ Null \in Value /\ Null # 0 /\ Null # 1
BY NullAssumption DEF Value

LEMMA ReversedType == ASSUME NEW v \in Value PROVE Reversed(v) \in Value
<1>1. CASE v = Null
  BY <1>1, Levels DEF Reversed
<1>2. CASE v # Null
  BY <1>2, Levels DEF Reversed, Value
<1> QED BY <1>1, <1>2

LEMMA ControlValueType ==
    ASSUME NEW id \in Id, NEW c \in Config, NEW map, NEW outputs \in [Id -> Value]
    PROVE  ControlValue(id, c, map, outputs) \in Value
<1>1. CASE c.controlMode = "CONDITION"
  BY <1>1, Levels DEF ControlValue
<1>2. CASE c.controlMode \in {"FORCE_OFF", "FORCE_ON"}
  BY <1>2, Levels DEF ControlValue
<1>3. CASE c.controlMode = "OUTPUT_A_TAG"
  BY <1>3, Levels DEF ControlValue
<1> QED BY <1>1, <1>2, <1>3, ConfigFields

\* The value of an output is never null.
LEMMA SystemValueType ==
    ASSUME NEW id \in Id, NEW c \in Config, NEW map \in Maps, NEW outputs \in [Id -> Value]
    PROVE  /\ SystemValue(id, c, map, outputs) \in Value
           /\ ~ Is(c, "DIGITAL_INPUT") => SystemValue(id, c, map, outputs) \in {0, 1}
<1>1. CASE Is(c, "DIGITAL_INPUT")
  <2>1. map[Raw(id)] \in Value
    BY BusTags DEF Maps
  <2> QED BY <1>1, <2>1, ReversedType DEF SystemValue
<1>2. CASE ~ Is(c, "DIGITAL_INPUT")
  <2> DEFINE control == ControlValue(id, c, map, outputs)
  <2>1. control \in Value
    BY ControlValueType
  <2>2. SystemValue(id, c, map, outputs) = IF control # Null THEN control ELSE c.safeState
    BY <1>2 DEF SystemValue
  <2> QED BY <1>2, <2>1, <2>2, ConfigFields, Levels DEF Value
<1> QED BY <1>1, <1>2

LEMMA DataTagsAreBusTags ==
    ASSUME NEW configs \in Rows PROVE DataTags(configs) \subseteq BusTag
<1>1. \A id \in Id : configs[id].tag # None => configs[id].tag \in TagName
  BY ConfigFields DEF Rows
<1> QED BY <1>1, BusTags DEF DataTags, EnabledChannels

\* The three kinds of tags that are emitted, and where their values come from.
LEMMA DataValues ==
    ASSUME NEW configs \in Rows, NEW map, NEW outputs
    PROVE  LET data == Data(configs, map, outputs)
               Value_(id) == SystemValue(id, configs[id], map, outputs)
           IN  /\ DOMAIN data = DataTags(configs)
               /\ \A id \in EnabledChannels(configs) :
                     /\ System(id) \in DataTags(configs)
                     /\ data[System(id)] = Value_(id)
                     /\ configs[id].tag # None => Tag(configs[id].tag) \in DataTags(configs)
               /\ \A t : Tag(t) \in DataTags(configs) =>
                     /\ Owner(configs, t) \in EnabledChannels(configs)
                     /\ data[Tag(t)] = Value_(Owner(configs, t))
               /\ \A id : Control(id) \in DataTags(configs) =>
                     /\ id \in Id /\ Is(configs[id], "DIGITAL_OUTPUT")
                     /\ data[Control(id)] = ControlValue(id, configs[id], map, outputs)
               /\ \A u \in DataTags(configs) :
                     \/ \E id \in EnabledChannels(configs) : u = System(id)
                     \/ \E t : u = Tag(t)
                     \/ \E id : u = Control(id)
<1> DEFINE data == Data(configs, map, outputs)
           V == [id \in Id |-> SystemValue(id, configs[id], map, outputs)]
<1>1. data = [u \in DataTags(configs) |->
            CASE u[1] = "system"  -> V[u[2]]
              [] u[1] = "tag"     -> V[Owner(configs, u[2])]
              [] u[1] = "control" -> ControlValue(u[2], configs[u[2]], map, outputs)]
  BY DEF Data
<1>2. EnabledChannels(configs) \subseteq Id
  BY DEF EnabledChannels
<1>3. \A id \in EnabledChannels(configs) :
         System(id) \in DataTags(configs) /\ data[System(id)] = V[id]
  <2> TAKE id \in EnabledChannels(configs)
  <2>1. System(id) \in DataTags(configs)
    BY DEF DataTags
  <2>2. System(id)[1] = "system" /\ System(id)[2] = id
    BY DEF System
  <2> QED BY <1>1, <2>1, <2>2
<1>4. \A id \in EnabledChannels(configs) :
         configs[id].tag # None => Tag(configs[id].tag) \in DataTags(configs)
  BY DEF DataTags
<1>5. ASSUME NEW t, Tag(t) \in DataTags(configs)
      PROVE  Owner(configs, t) \in EnabledChannels(configs) /\ data[Tag(t)] = V[Owner(configs, t)]
  <2>1. Tag(t)[1] = "tag" /\ Tag(t)[2] = t
    BY DEF Tag
  <2>2. PICK id \in EnabledChannels(configs) : configs[id].tag = t
    BY <1>5 DEF DataTags, Tag, System, Control
  <2>3. Owner(configs, t) \in Tagged(configs, t)
    BY <2>2, OwnerIsTagged DEF Tagged
  <2>4. Owner(configs, t) \in EnabledChannels(configs)
    BY <2>3 DEF Tagged
  <2>5. data[Tag(t)] = V[Owner(configs, t)]
    BY <1>1, <1>5, <2>1
  <2> QED BY <2>4, <2>5
<1>6. ASSUME NEW id, Control(id) \in DataTags(configs)
      PROVE  /\ id \in Id /\ Is(configs[id], "DIGITAL_OUTPUT")
             /\ data[Control(id)] = ControlValue(id, configs[id], map, outputs)
  <2>1. Control(id)[1] = "control" /\ Control(id)[2] = id
    BY DEF Control
  <2>2. id \in Id /\ Is(configs[id], "DIGITAL_OUTPUT")
    BY <1>2, <1>6 DEF DataTags, Tag, System, Control
  <2>3. data[Control(id)] = ControlValue(id, configs[id], map, outputs)
    BY <1>1, <1>6, <2>1
  <2> QED BY <2>2, <2>3
<1>7. \A u \in DataTags(configs) :
         \/ \E id \in EnabledChannels(configs) : u = System(id)
         \/ \E t : u = Tag(t)
         \/ \E id : u = Control(id)
  BY DEF DataTags
<1>8. \A id \in EnabledChannels(configs) : V[id] = SystemValue(id, configs[id], map, outputs)
  BY <1>2
<1>9. DOMAIN data = DataTags(configs)
  BY <1>1
<1> QED BY <1>3, <1>4, <1>5, <1>6, <1>7, <1>8, <1>9, Zenon

LEMMA DataType ==
    ASSUME NEW configs \in Rows, NEW map \in Maps, NEW outputs \in [Id -> Value],
           NEW u \in DataTags(configs)
    PROVE  Data(configs, map, outputs)[u] \in Value
<1>1. \A id \in Id : /\ SystemValue(id, configs[id], map, outputs) \in Value
                     /\ ControlValue(id, configs[id], map, outputs) \in Value
  BY SystemValueType, ControlValueType DEF Rows
<1>2. EnabledChannels(configs) \subseteq Id
  BY DEF EnabledChannels
<1>3. CASE \E id \in EnabledChannels(configs) : u = System(id)
  BY <1>1, <1>2, <1>3, DataValues
<1>4. CASE \E t : u = Tag(t)
  BY <1>1, <1>2, <1>4, DataValues
<1>5. CASE \E id : u = Control(id)
  BY <1>1, <1>5, DataValues
<1> QED BY <1>3, <1>4, <1>5, DataValues

\* The tags that the plugin is told of.
TagsRead(configs) == UNION {TagsToPlugin(id, configs[id]) : id \in Id}

\* The plugin is told of every tag that what it emits depends on.
LEMMA OnlyInputsCount ==
    ASSUME NEW configs \in Rows, NEW map \in Maps, NEW other \in Maps, NEW outputs,
           \A u \in TagsRead(configs) : map[u] = other[u]
    PROVE  Data(configs, map, outputs) = Data(configs, other, outputs)
<1>1. \A id \in Id : Is(configs[id], "DIGITAL_INPUT") => map[Raw(id)] = other[Raw(id)]
  <2> SUFFICES ASSUME NEW id \in Id, Is(configs[id], "DIGITAL_INPUT")
               PROVE  map[Raw(id)] = other[Raw(id)]
    OBVIOUS
  <2>1. TagsToPlugin(id, configs[id]) = {Raw(id)}
    BY DEF TagsToPlugin, Is
  <2>2. Raw(id) \in TagsRead(configs)
    BY <2>1 DEF TagsRead
  <2> QED BY <2>2
<1>2. \A id \in Id : Is(configs[id], "DIGITAL_OUTPUT") =>
         ControlValue(id, configs[id], map, outputs) = ControlValue(id, configs[id], other, outputs)
  <2> SUFFICES ASSUME NEW id \in Id, Is(configs[id], "DIGITAL_OUTPUT")
               PROVE  ControlValue(id, configs[id], map, outputs)
                        = ControlValue(id, configs[id], other, outputs)
    OBVIOUS
  <2> DEFINE c == configs[id]
  <2>0. c.controlMode \in {"FORCE_OFF", "FORCE_ON", "CONDITION", "OUTPUT_A_TAG"}
    BY ConfigFields DEF Rows
  <2>1. CASE c.controlMode = "CONDITION"
    <3>1. \A t \in LogicTags(c.logic) : Tag(t) \in TagsToPlugin(id, c)
      BY <2>1 DEF TagsToPlugin, Is
    <3>2. \A t \in LogicTags(c.logic) : Tag(t) \in TagsRead(configs)
      BY <3>1 DEF TagsRead
    <3>3. TagValues(c.logic, map) = TagValues(c.logic, other)
      BY <3>2 DEF TagValues
    <3>4. EvaluateControlLogic(c.logic, TagValues(c.logic, map))
            = EvaluateControlLogic(c.logic, TagValues(c.logic, other))
      BY <3>3
    <3> QED BY <2>1, <3>4 DEF ControlValue
  <2>2. CASE c.controlMode # "CONDITION"
    BY <2>0, <2>2 DEF ControlValue
  <2> QED BY <2>1, <2>2
<1>3. \A id \in EnabledChannels(configs) :
         SystemValue(id, configs[id], map, outputs) = SystemValue(id, configs[id], other, outputs)
  <2> TAKE id \in EnabledChannels(configs)
  <2>1. id \in Id /\ ~ Is(configs[id], "DISABLED")
    BY DEF EnabledChannels
  <2>2. Is(configs[id], "DIGITAL_INPUT") \/ Is(configs[id], "DIGITAL_OUTPUT")
    BY <2>1, ConfigFields DEF Rows, Is
  <2> QED BY <1>1, <1>2, <2>1, <2>2 DEF SystemValue, Is
<1> DEFINE d == Data(configs, map, outputs)
           e == Data(configs, other, outputs)
<1>4. \A u \in DataTags(configs) : d[u] = e[u]
  <2> TAKE u \in DataTags(configs)
  <2>1. CASE \E id \in EnabledChannels(configs) : u = System(id)
    BY <1>3, <2>1, DataValues
  <2>2. CASE \E t : u = Tag(t)
    BY <1>3, <2>2, DataValues
  <2>3. CASE \E id : u = Control(id)
    BY <1>2, <2>3, DataValues
  <2> QED BY <2>1, <2>2, <2>3, DataValues
<1> QED BY <1>4 DEF Data


\* The tags whose values the router takes.
TakenTags(configs) == {u \in DataTags(configs) : u[1] = "tag" => Provided(configs, u[2])}

LEMMA EmittedFacts ==
    ASSUME NEW configs \in Rows, NEW map, NEW outputs
    PROVE  /\ DOMAIN Emitted(configs, map, outputs) = TakenTags(configs)
           /\ \A u \in TakenTags(configs) :
                 Emitted(configs, map, outputs)[u] = Data(configs, map, outputs)[u]
           /\ \A id \in EnabledChannels(configs) : System(id) \in TakenTags(configs)
           /\ \A id \in EnabledChannels(configs) :
                 configs[id].tag # None /\ Provided(configs, configs[id].tag) =>
                     Tag(configs[id].tag) \in TakenTags(configs)
           /\ TakenTags(configs) \subseteq DataTags(configs)
<1> DEFINE data == Data(configs, map, outputs)
<1>1. DOMAIN data = DataTags(configs)
  BY DataValues
<1>2. Emitted(configs, map, outputs) = [u \in TakenTags(configs) |-> data[u]]
  BY <1>1 DEF Emitted, EnforceTagSources, TakenTags
<1>3. \A id \in EnabledChannels(configs) : System(id) \in TakenTags(configs)
  <2> TAKE id \in EnabledChannels(configs)
  <2>1. System(id) \in DataTags(configs) /\ System(id)[1] # "tag"
    BY DataValues DEF System
  <2> QED BY <2>1 DEF TakenTags
<1>4. ASSUME NEW id \in EnabledChannels(configs), configs[id].tag # None,
             Provided(configs, configs[id].tag)
      PROVE  Tag(configs[id].tag) \in TakenTags(configs)
  <2>1. Tag(configs[id].tag) \in DataTags(configs)
    BY <1>4, DataValues
  <2>2. Tag(configs[id].tag)[2] = configs[id].tag
    BY DEF Tag
  <2> QED BY <1>4, <2>1, <2>2 DEF TakenTags
<1>5. TakenTags(configs) \subseteq DataTags(configs)
  BY DEF TakenTags
<1> HIDE DEF data
<1>6. \A u \in TakenTags(configs) : Emitted(configs, map, outputs)[u] = data[u]
  BY <1>2
<1>7. DOMAIN Emitted(configs, map, outputs) = TakenTags(configs)
  BY <1>2
<1> QED BY <1>3, <1>4, <1>5, <1>6, <1>7 DEF data

LEMMA OutputValuesType ==
    ASSUME NEW configs \in Rows, NEW map
    PROVE  /\ OutputValues(configs, map) \in [Id -> BOOLEAN]
           /\ \A id \in Id : ~ Is(configs[id], "DIGITAL_OUTPUT") => ~ OutputValues(configs, map)[id]
BY DEF OutputValues

-----------------------------------------------------------------------------
(* Data on its way                                                         *)

\* What the value of a tag will be once the pending data is in the tag map.
Coming(data, map, u) == IF u \in DOMAIN data THEN data[u] ELSE map[u]

IsData(data) == DOMAIN data \subseteq BusTag /\ \A u \in DOMAIN data : data[u] \in Value

LEMMA ChangesFacts ==
    ASSUME NEW values, NEW map
    PROVE  /\ IsData(values) => IsData(Changes(values, map))
           /\ \A u : Coming(Changes(values, map), map, u) = Coming(values, map, u)
BY DEF Changes, Coming, IsData

\* An emit replaces what was on its way for its tags, and nothing else.
LEMMA DispatchFacts ==
    ASSUME NEW values
    PROVE  /\ IsData(pending) /\ IsData(values) => IsData(Dispatch(values))
           /\ \A u \in DOMAIN values : Coming(Dispatch(values), tagMap, u) = values[u]
           /\ \A u : u \notin DOMAIN values =>
                 Coming(Dispatch(values), tagMap, u) = Coming(pending, tagMap, u)
<1> DEFINE all == [u \in DOMAIN pending \cup DOMAIN values |->
                      IF u \in DOMAIN values THEN values[u] ELSE pending[u]]
<1>1. Dispatch(values) = Changes(all, tagMap)
  BY DEF Dispatch
<1>2. IsData(pending) /\ IsData(values) => IsData(all)
  BY DEF IsData
<1>3. \A u \in DOMAIN values : Coming(all, tagMap, u) = values[u]
  BY DEF Coming
<1>4. \A u : u \notin DOMAIN values => Coming(all, tagMap, u) = Coming(pending, tagMap, u)
  BY DEF Coming
<1> HIDE DEF all
<1> QED BY <1>1, <1>2, <1>3, <1>4, ChangesFacts

-----------------------------------------------------------------------------
(* The inductive invariant                                                 *)

Types ==
    /\ tagMap \in Maps /\ IsData(pending)
    /\ inCycle \in BOOLEAN /\ hardware \in BOOLEAN
    /\ channels \in Rows /\ \A id \in Id : channels[id] \in Configs[id]
    /\ outputTagValues \in [Id -> Value]
    /\ curOutputValues \in [Id -> BOOLEAN] /\ levels \in [Id -> BOOLEAN]

\* What the router would take of an _updateData now, it has taken: it is in
\* the tag map or on its way to it.
EmittedInv ==
    \A u \in TakenTags(channels) :
        Coming(pending, tagMap, u) = Emitted(channels, tagMap, outputTagValues)[u]

\* Between cycles the levels are those of the tag map.
LevelsInv == ~ inCycle => curOutputValues = OutputValues(channels, tagMap)

IInv == Types /\ EmittedInv /\ LevelsInv

\* What the plugin emits are values of tags.
LEMMA EmittedIsData ==
    ASSUME NEW configs \in Rows, NEW map \in Maps, NEW outputs \in [Id -> Value]
    PROVE  /\ IsData(Emitted(configs, map, outputs))
           /\ DOMAIN Emitted(configs, map, outputs) = TakenTags(configs)
BY EmittedFacts, DataType, DataTagsAreBusTags DEF IsData

LEMMA InitIInv == Init => IInv
<1> SUFFICES ASSUME Init PROVE IInv
  OBVIOUS
<1>1. tagMap \in Maps /\ outputTagValues \in [Id -> Value]
  BY Levels DEF Init, Maps
<1>2. channels \in Rows /\ \A id \in Id : channels[id] \in Configs[id]
  BY ConfigsAreConfigs DEF Init, Rows
<1> DEFINE data == Emitted(channels, tagMap, outputTagValues)
<1>3. IsData(data) /\ DOMAIN data = TakenTags(channels)
  BY <1>1, <1>2, EmittedIsData
<1>4. pending = Changes(data, tagMap)
  BY DEF Init
<1> HIDE DEF data
<1>5. IsData(pending) /\ \A u : Coming(pending, tagMap, u) = Coming(data, tagMap, u)
  BY <1>3, <1>4, ChangesFacts
<1>6. EmittedInv
  BY <1>3, <1>5 DEF EmittedInv, Coming, data
<1>7. curOutputValues \in [Id -> BOOLEAN] /\ LevelsInv
  BY <1>2, OutputValuesType DEF Init, LevelsInv
<1>8. inCycle \in BOOLEAN /\ hardware \in BOOLEAN /\ levels \in [Id -> BOOLEAN]
  BY <1>7 DEF Init
<1> QED BY <1>1, <1>2, <1>5, <1>6, <1>7, <1>8 DEF IInv, Types

-----------------------------------------------------------------------------
(* Steps                                                                   *)

\* An emit of tags that are not the plugin's own output changes nothing of it.
LEMMA OtherEmits ==
    ASSUME IInv, NEW values, IsData(values), DOMAIN values \cap TakenTags(channels) = {},
           pending' = Dispatch(values),
           UNCHANGED <<tagMap, inCycle, channels, outputTagValues, curOutputValues,
                       hardware, levels>>
    PROVE  IInv'
<1>1. IsData(pending')
  BY DispatchFacts DEF IInv, Types
<1>2. \A u \in TakenTags(channels) : Coming(pending', tagMap, u) = Coming(pending, tagMap, u)
  BY DispatchFacts
<1>3. Types'
  BY <1>1 DEF IInv, Types
<1>4. EmittedInv'
  BY <1>2 DEF IInv, EmittedInv
<1>5. LevelsInv'
  BY DEF IInv, LevelsInv
<1> QED BY <1>3, <1>4, <1>5 DEF IInv

LEMMA NotEmitted ==
    ASSUME NEW configs \in Rows
    PROVE  /\ \A id : Raw(id) \notin TakenTags(configs)
           /\ \A t : SetCommand(t) \notin TakenTags(configs)
BY DEF TakenTags, DataTags, Raw, SetCommand, System, Tag, Control

LEMMA HandleDeviceInputStatesIInv == IInv /\ HandleDeviceInputStates => IInv'
<1> SUFFICES ASSUME IInv, HandleDeviceInputStates PROVE IInv'
  OBVIOUS
<1>1. PICK inputs \in [Id -> {0, 1}] :
         pending' = Dispatch([u \in {Raw(id) : id \in Id} |-> inputs[u[2]]])
  BY DEF HandleDeviceInputStates
<1> DEFINE values == [u \in {Raw(id) : id \in Id} |-> inputs[u[2]]]
<1>2. IsData(values)
  <2>1. \A id \in Id : Raw(id)[2] = id /\ Raw(id) \in BusTag
    BY BusTags DEF Raw
  <2> QED BY <2>1, Levels DEF IsData
<1>3. DOMAIN values \cap TakenTags(channels) = {}
  BY NotEmitted DEF IInv, Types
<1> HIDE DEF values
<1> QED BY <1>1, <1>2, <1>3, OtherEmits DEF HandleDeviceInputStates, values

LEMMA CommandIInv == ASSUME NEW t \in TagName, NEW v \in Value, IInv, Command(t, v) PROVE IInv'
<1> DEFINE values == [u \in {SetCommand(t)} |-> v]
<1>1. IsData(values)
  BY BusTags DEF IsData
<1>2. DOMAIN values \cap TakenTags(channels) = {}
  BY NotEmitted DEF IInv, Types
<1>3. pending' = Dispatch(values)
  BY DEF Command
<1> HIDE DEF values
<1> QED BY <1>1, <1>2, <1>3, OtherEmits DEF Command

LEMMA PassIInv == IInv /\ Pass => IInv'
<1> SUFFICES ASSUME IInv, Pass PROVE IInv'
  OBVIOUS
<1> DEFINE map == [u \in BusTag |-> IF u \in DOMAIN pending THEN pending[u] ELSE tagMap[u]]
           outputs == CommandedOutputs(map, DOMAIN pending)
           data == Emitted(channels, map, outputs)
<1>0. Types /\ EmittedInv
  BY DEF IInv
<1>1. tagMap' = map /\ map \in Maps /\ \A u \in BusTag : map[u] = Coming(pending, tagMap, u)
  BY <1>0 DEF Pass, Types, Maps, IsData, Coming
<1>2. /\ inCycle' = TRUE
      /\ UNCHANGED <<channels, curOutputValues, hardware, levels>>
  BY DEF Pass
<1>3. channels \in Rows /\ outputTagValues \in [Id -> Value]
  BY <1>0 DEF Types
<1>4. TakenTags(channels) \subseteq BusTag
  BY <1>3, DataTagsAreBusTags, EmittedFacts
<1>5. LevelsInv'
  BY <1>2 DEF LevelsInv
<1>6. CASE TagsRead(channels) \cap DOMAIN pending = {}
  <2>1. pending' = NoData /\ outputTagValues' = outputTagValues
    BY <1>6 DEF Pass, TagsRead
  <2>2. IsData(pending') /\ \A u : Coming(pending', tagMap', u) = tagMap'[u]
    BY <2>1 DEF NoData, IsData, Coming
  <2>3. \A u \in TagsRead(channels) : u \in BusTag => map[u] = tagMap[u]
    BY <1>6
  <2>4. TagsRead(channels) \subseteq BusTag
    <3>1. \A id \in Id : TagsToPlugin(id, channels[id]) \subseteq BusTag
      <4> TAKE id \in Id
      <4>1. /\ LogicTags(channels[id].logic) \subseteq TagName
            /\ channels[id].tag # None => channels[id].tag \in TagName
            /\ channels[id].mode \in {"DIGITAL_INPUT", "DIGITAL_OUTPUT", "DISABLED"}
        BY <1>3, ConfigFields DEF Rows
      <4> QED BY <4>1, BusTags DEF TagsToPlugin, Is
    <3> QED BY <3>1 DEF TagsRead
  <2>5. Emitted(channels, map, outputTagValues) = Emitted(channels, tagMap, outputTagValues)
    <3>1. Data(channels, map, outputTagValues) = Data(channels, tagMap, outputTagValues)
      BY <1>0, <1>1, <1>3, <2>3, <2>4, OnlyInputsCount DEF Types
    <3> QED BY <3>1 DEF Emitted
  <2>6. \A u \in TakenTags(channels) : tagMap'[u] = Emitted(channels, tagMap, outputTagValues)[u]
    BY <1>0, <1>1, <1>4 DEF EmittedInv
  <2>7. EmittedInv'
    BY <1>1, <1>2, <2>1, <2>2, <2>5, <2>6 DEF EmittedInv
  <2>8. Types'
    BY <1>0, <1>1, <1>2, <2>1, <2>2 DEF Types
  <2> QED BY <1>5, <2>7, <2>8 DEF IInv
<1>7. CASE TagsRead(channels) \cap DOMAIN pending # {}
  <2>1. outputTagValues' = outputs /\ pending' = Changes(data, map)
    BY <1>7 DEF Pass, TagsRead
  <2>2. outputs \in [Id -> Value]
    <3>1. \A id \in Id : channels[id].tag # None => SetCommand(channels[id].tag) \in BusTag
      BY <1>3, ConfigFields, BusTags DEF Rows
    <3>2. \A u \in BusTag : map[u] \in Value
      BY <1>1 DEF Maps
    <3> HIDE DEF map
    <3> QED BY <1>3, <3>1, <3>2 DEF CommandedOutputs
  <2> HIDE DEF map, outputs
  <2>3. IsData(data) /\ DOMAIN data = TakenTags(channels)
    BY <1>1, <1>3, <2>2, EmittedIsData
  <2>4. data = Emitted(channels', tagMap', outputTagValues')
    BY <1>1, <1>2, <2>1
  <2> HIDE DEF data
  <2>5. IsData(pending') /\ \A u : Coming(pending', map, u) = Coming(data, map, u)
    BY <2>1, <2>3, ChangesFacts
  <2>6. EmittedInv'
    BY <1>1, <1>2, <2>3, <2>4, <2>5 DEF EmittedInv, Coming
  <2>7. Types'
    BY <1>0, <1>1, <1>2, <2>1, <2>2, <2>5 DEF Types
  <2> QED BY <1>5, <2>6, <2>7 DEF IInv
<1> QED BY <1>6, <1>7

LEMMA ChannelUpdatedIInv ==
    ASSUME NEW id \in Id, NEW config \in Configs[id], IInv, ChannelUpdated(id, config)
    PROVE  IInv'
<1> DEFINE configs == [channels EXCEPT ![id] = config]
           data == Emitted(configs, tagMap, outputTagValues)
<1>0. Types
  BY DEF IInv
<1>1. channels' = configs /\ pending' = Dispatch(data)
  BY DEF ChannelUpdated
<1>2. UNCHANGED <<tagMap, outputTagValues, hardware>>
  BY DEF ChannelUpdated
<1>3. configs \in Rows /\ \A i \in Id : configs[i] \in Configs[i]
  BY <1>0, ConfigsAreConfigs DEF Types, Rows
<1>4. \/ UpdateChannelStates(configs, tagMap) /\ inCycle' = inCycle
      \/ inCycle' = TRUE /\ UNCHANGED <<curOutputValues, levels>>
  BY DEF ChannelUpdated
<1> HIDE DEF configs
<1>5. IsData(data) /\ DOMAIN data = TakenTags(configs)
  BY <1>0, <1>3, EmittedIsData DEF Types
<1>6. data = Emitted(channels', tagMap', outputTagValues')
  BY <1>1, <1>2
<1> HIDE DEF data
<1>7. IsData(pending') /\ \A u \in TakenTags(configs) : Coming(pending', tagMap, u) = data[u]
  BY <1>0, <1>1, <1>5, DispatchFacts DEF Types
<1>8. EmittedInv'
  BY <1>1, <1>2, <1>6, <1>7 DEF EmittedInv
<1>9. OutputValues(configs, tagMap) \in [Id -> BOOLEAN]
  BY <1>3, OutputValuesType
<1>10. /\ curOutputValues' \in [Id -> BOOLEAN] /\ levels' \in [Id -> BOOLEAN]
       /\ inCycle' \in BOOLEAN
  BY <1>0, <1>4, <1>9 DEF UpdateChannelStates, Types
<1>11. LevelsInv'
  BY <1>1, <1>2, <1>4 DEF LevelsInv, UpdateChannelStates
<1>12. Types'
  BY <1>0, <1>1, <1>2, <1>3, <1>7, <1>10 DEF Types
<1> QED BY <1>8, <1>11, <1>12 DEF IInv

LEMMA DispatchCycleDoneIInv == IInv /\ DispatchCycleDone => IInv'
<1> SUFFICES ASSUME IInv, DispatchCycleDone PROVE IInv'
  OBVIOUS
<1>1. /\ UpdateChannelStates(channels, tagMap) /\ inCycle' = FALSE
      /\ UNCHANGED <<tagMap, pending, channels, outputTagValues, hardware>>
  BY DEF DispatchCycleDone
<1>2. OutputValues(channels, tagMap) \in [Id -> BOOLEAN]
  BY OutputValuesType DEF IInv, Types
<1>3. Types'
  BY <1>1, <1>2 DEF IInv, Types, UpdateChannelStates
<1>4. EmittedInv'
  BY <1>1 DEF IInv, EmittedInv
<1>5. LevelsInv'
  BY <1>1 DEF LevelsInv, UpdateChannelStates
<1> QED BY <1>3, <1>4, <1>5 DEF IInv

\* Steps of the hardware, which the plugin does not see.
LEMMA HardwareIInv ==
    ASSUME IInv, hardware' \in BOOLEAN, levels' \in [Id -> BOOLEAN],
           UNCHANGED <<tagMap, pending, inCycle, channels, outputTagValues, curOutputValues>>
    PROVE  IInv'
<1>1. Types'
  BY DEF IInv, Types
<1>2. EmittedInv'
  BY DEF IInv, EmittedInv
<1>3. LevelsInv'
  BY DEF IInv, LevelsInv
<1> QED BY <1>1, <1>2, <1>3 DEF IInv

LEMMA NextIInv == IInv /\ [Next]_vars => IInv'
<1> SUFFICES ASSUME IInv, [Next]_vars PROVE IInv'
  OBVIOUS
<1>0. /\ curOutputValues \in [Id -> BOOLEAN] /\ levels \in [Id -> BOOLEAN]
      /\ hardware \in BOOLEAN /\ [id \in Id |-> FALSE] \in [Id -> BOOLEAN]
  BY DEF IInv, Types
<1>1. CASE Pass
  BY <1>1, PassIInv
<1>2. CASE DispatchCycleDone
  BY <1>2, DispatchCycleDoneIInv
<1>3. CASE HandleDeviceInputStates
  BY <1>3, HandleDeviceInputStatesIInv
<1>4. CASE \E t \in TagName, v \in Value : Command(t, v)
  BY <1>4, CommandIInv
<1>5. CASE \E id \in Id : \E config \in Configs[id] : ChannelUpdated(id, config)
  BY <1>5, ChannelUpdatedIInv
<1>6. CASE SendOutputValues
  BY <1>0, <1>6, HardwareIInv DEF SendOutputValues
<1>7. CASE HardwareDetected
  BY <1>0, <1>7, HardwareIInv DEF HardwareDetected
<1>8. CASE HardwareReset
  BY <1>0, <1>8, HardwareIInv DEF HardwareReset
<1>9. CASE UNCHANGED vars
  BY <1>0, <1>9, HardwareIInv DEF vars
<1> QED BY <1>1, <1>2, <1>3, <1>4, <1>5, <1>6, <1>7, <1>8, <1>9 DEF Next

-----------------------------------------------------------------------------
(* Theorems                                                                *)

LEMMA IInvInv == IInv => Inv
<1> SUFFICES ASSUME IInv PROVE Inv
  OBVIOUS
<1>1. TypeOK
  <2>1. {inCycle, hardware} \subseteq BOOLEAN /\ {curOutputValues, levels} \subseteq [Id -> BOOLEAN]
    BY DEF IInv, Types
  <2> QED BY <2>1 DEF IInv, Types, TypeOK, IsData, Maps
<1>2. InactiveIsOff
  BY OutputValuesType DEF IInv, Types, LevelsInv, InactiveIsOff
<1> QED BY <1>1, <1>2 DEF Inv

\* At rest the tag map has what _updateData would emit.
LEMMA AtRestMap ==
    ASSUME IInv, AtRest
    PROVE  \A u \in TakenTags(channels) : tagMap[u] = Emitted(channels, tagMap, outputTagValues)[u]
BY DEF IInv, EmittedInv, AtRest, Coming, NoData

LEMMA IInvInputsFollow == IInv => InputsFollow
<1> SUFFICES ASSUME IInv, AtRest, NEW id \in Id, Is(channels[id], "DIGITAL_INPUT"),
                    channels[id].tag # None, Provided(channels, channels[id].tag),
                    id = Owner(channels, channels[id].tag)
             PROVE  tagMap[Tag(channels[id].tag)] =
                        IF channels[id].reversePolarity THEN Reversed(tagMap[Raw(id)])
                        ELSE tagMap[Raw(id)]
  BY DEF InputsFollow
<1>1. channels \in Rows /\ id \in EnabledChannels(channels)
  BY DEF IInv, Types, EnabledChannels, Is
<1> DEFINE u == Tag(channels[id].tag)
<1>2. u \in TakenTags(channels) /\ u \in DataTags(channels)
  BY <1>1, EmittedFacts
<1>3. tagMap[u] = Data(channels, tagMap, outputTagValues)[u]
  BY <1>1, <1>2, AtRestMap, EmittedFacts
<1>4. tagMap[u] = SystemValue(id, channels[id], tagMap, outputTagValues)
  BY <1>1, <1>2, <1>3, DataValues
<1> QED BY <1>4 DEF SystemValue

LEMMA IInvOutputsFollow == IInv => OutputsFollow
<1> SUFFICES ASSUME IInv, AtRest, NEW id \in Id, Is(channels[id], "DIGITAL_OUTPUT")
             PROVE  LET c == channels[id]
                        v == ControlValue(id, c, tagMap, outputTagValues)
                    IN  curOutputValues[id]
                          = ((v = 1 \/ (v = Null /\ c.safeState = 1)) # c.reversePolarity)
  BY DEF OutputsFollow
<1> DEFINE c == channels[id]
           v == ControlValue(id, c, tagMap, outputTagValues)
           out == tagMap[System(id)]
<1>1. channels \in Rows /\ id \in EnabledChannels(channels) /\ c \in Config
  BY DEF IInv, Types, EnabledChannels, Is, Rows
<1>2. out = SystemValue(id, c, tagMap, outputTagValues)
  <2>1. System(id) \in TakenTags(channels)
    BY <1>1, EmittedFacts
  <2>2. out = Data(channels, tagMap, outputTagValues)[System(id)]
    BY <1>1, <2>1, AtRestMap, EmittedFacts
  <2> QED BY <1>1, <2>2, DataValues
<1>3. out = IF v # Null THEN v ELSE c.safeState
  BY <1>2 DEF SystemValue, Is
<1>4. v \in Value /\ c.safeState \in {0, 1}
  BY <1>1, ControlValueType, ConfigFields DEF IInv, Types
<1>5. out # Null /\ (out = 1 <=> v = 1 \/ (v = Null /\ c.safeState = 1))
  BY <1>3, <1>4, Levels DEF Value
<1>6. curOutputValues[id] = ((out = 1) # c.reversePolarity)
  <2>1. curOutputValues = OutputValues(channels, tagMap)
    BY DEF IInv, LevelsInv, AtRest
  <2>2. OutputValues(channels, tagMap)[id] = ((out = 1) # c.reversePolarity)
    BY <1>5 DEF OutputValues
  <2> QED BY <2>1, <2>2
<1> HIDE DEF c, v, out
<1>7. (out = 1) = (v = 1 \/ (v = Null /\ c.safeState = 1))
  BY <1>5
<1> QED BY <1>6, <1>7 DEF c, v

\* The plugin's types are right, and an output is off as soon as its channel
\* is not one: _channelUpdated recomputes the levels before the router has the
\* new data.
THEOREM LocalIOIsSafe == Spec => []Inv
<1>1. Spec => []IInv
  BY InitIInv, NextIInv, PTL DEF Spec
<1> QED BY <1>1, IInvInv, PTL

\* Whenever the router is at rest, the tags that the plugin provides and whose
\* last channel is an input, and the levels of all outputs, are those of the
\* present configurations, conditions and commands, whatever happened while the
\* data was on its way.
THEOREM ValuesFollowAlways == Spec => []ValuesFollow
<1>1. Spec => []IInv
  BY InitIInv, NextIInv, PTL DEF Spec
<1>2. IInv => ValuesFollow
  BY IInvInputsFollow, IInvOutputsFollow DEF ValuesFollow
<1> QED BY <1>1, <1>2, PTL

-----------------------------------------------------------------------------
(* The calculations: control logic                                         *)

\* The result after a condition, of the one before.
Joined(c, before, holds) == IF c.operator = "OR" THEN Or(before, holds) ELSE And(before, holds)

Stepwise(logic, values, r) ==
    \A i \in DOMAIN logic :
        r[i] = IF i = 1 THEN EvaluateCondition(logic[i], values)
               ELSE Joined(logic[i], r[i - 1], EvaluateCondition(logic[i], values))

LEMMA EvaluatesToTruth ==
    /\ \A c, values : EvaluateCondition(c, values) \in Truth
    /\ \A c, a, b : a \in Truth /\ b \in Truth => Joined(c, a, b) \in Truth
<1>1. \A b : Known(b) \in Truth
  BY DEF Known, Truth
<1>2. \A c, values : EvaluateCondition(c, values) \in Truth
  BY <1>1 DEF EvaluateCondition, Truth
<1>3. \A a, b : Or(a, b) \in Truth /\ And(a, b) \in Truth
  BY DEF Or, And, Truth
<1> QED BY <1>2, <1>3 DEF Joined

\* The recursion has a solution.
LEMMA StepwiseExists ==
    ASSUME NEW n \in Nat, NEW logic, DOMAIN logic = 1..n, NEW values
    PROVE  \E r \in [1..n -> Truth] : Stepwise(logic, values, r)
<1> DEFINE E(i) == EvaluateCondition(logic[i], values)
           Good(k, r) == \A i \in 1..k : r[i] = IF i = 1 THEN E(i) ELSE Joined(logic[i], r[i - 1], E(i))
           Solvable(k) == \E r \in [1..k -> Truth] : Good(k, r)
           S == {k \in 0..n : ~ Solvable(k)}
           R == {p \in Nat \X Nat : p[1] < p[2]}
<1> HIDE DEF Solvable
<1>1. S = {}
  <2> SUFFICES ASSUME S # {} PROVE FALSE
    OBVIOUS
  <2>1. S \subseteq Nat
    OBVIOUS
  <2>2. IsWellFoundedOn(R, Nat)
    BY NatLessThanWellFounded, Zenon DEF OpToRel
  <2>3. PICK k \in S : \A m \in S : ~ (<<m, k>> \in R)
    BY <2>1, <2>2, WFMin
  <2>4. k \in 0..n /\ ~ Solvable(k)
    BY <2>3
  <2>5. \A m \in 0..n : m < k => Solvable(m)
    <3> SUFFICES ASSUME NEW m \in 0..n, m < k, ~ Solvable(m) PROVE FALSE
      OBVIOUS
    <3>1. m \in S
      OBVIOUS
    <3>2. ~ (<<m, k>> \in R)
      BY <2>3, <3>1
    <3>3. m \in Nat /\ k \in Nat
      BY <2>4
    <3> QED BY <3>2, <3>3
  <2> HIDE DEF R, S
  <2> USE DEF Solvable
  <2>6. CASE k = 0
    <3>1. [i \in 1..0 |-> Unknown] \in [1..0 -> Truth]
      BY DEF Truth
    <3>2. Good(0, [i \in 1..0 |-> Unknown])
      OBVIOUS
    <3> QED BY <2>4, <2>6, <3>1, <3>2
  <2>7. CASE k # 0
    <3>1. k - 1 \in 0..n /\ k - 1 < k
      BY <2>4, <2>7
    <3>2. PICK r \in [1..(k - 1) -> Truth] : Good(k - 1, r)
      BY <2>5, <3>1
    <3> DEFINE last == IF k = 1 THEN E(k) ELSE Joined(logic[k], r[k - 1], E(k))
               g == [i \in 1..k |-> IF i = k THEN last ELSE r[i]]
    <3>3. last \in Truth
      <4>1. E(k) \in Truth
        BY EvaluatesToTruth
      <4>2. k # 1 => r[k - 1] \in Truth
        BY <2>4, <2>7, <3>2
      <4> QED BY <4>1, <4>2, EvaluatesToTruth
    <3> HIDE DEF last
    <3>4. g \in [1..k -> Truth]
      BY <2>4, <3>2, <3>3
    <3>5. Good(k, g)
      <4> SUFFICES ASSUME NEW i \in 1..k
                   PROVE  g[i] = IF i = 1 THEN E(i) ELSE Joined(logic[i], g[i - 1], E(i))
        OBVIOUS
      <4>1. CASE i = k
        <5>1. g[i] = last
          BY <4>1
        <5>2. i # 1 => g[i - 1] = r[i - 1]
          BY <2>4, <4>1
        <5> QED BY <4>1, <5>1, <5>2 DEF last
      <4>2. CASE i # k
        <5>1. i \in 1..(k - 1) /\ (i # 1 => i - 1 \in 1..k /\ i - 1 # k)
          BY <2>4, <4>2
        <5>2. g[i] = r[i] /\ (i # 1 => g[i - 1] = r[i - 1])
          BY <4>2, <5>1
        <5> QED BY <3>2, <5>1, <5>2
      <4> QED BY <4>1, <4>2
    <3> QED BY <2>4, <3>4, <3>5
  <2> QED BY <2>6, <2>7
<1>2. Solvable(n)
  BY <1>1
<1> QED BY <1>2 DEF Solvable, Stepwise

\* Results is that solution.
LEMMA ResultsAreStepwise ==
    ASSUME NEW n \in Nat, NEW logic, DOMAIN logic = 1..n, NEW values
    PROVE  Stepwise(logic, values, Results(logic, values))
<1> DEFINE Rec(r) ==
        [i \in DOMAIN logic |->
            LET holds == EvaluateCondition(logic[i], values)
            IN  IF i = 1 THEN holds
                ELSE IF logic[i].operator = "OR" THEN Or(r[i - 1], holds)
                ELSE And(r[i - 1], holds)]
<1>1. Results(logic, values) = CHOOSE r : r = Rec(r)
  BY DEF Results
<1>2. PICK r \in [1..n -> Truth] : Stepwise(logic, values, r)
  BY StepwiseExists
<1>3. r = Rec(r)
  BY <1>2 DEF Stepwise, Joined
<1>4. Results(logic, values) = Rec(Results(logic, values))
  <2> HIDE DEF Rec
  <2> QED BY <1>1, <1>3
<1> QED BY <1>4 DEF Stepwise, Joined

\* A known result of a condition does not change when a value turns out.
LEMMA ConditionIsFinal ==
    ASSUME NEW c, NEW values, NEW later, c.comparison # "UNAVAILABLE",
           values[c.tag] \in {later[c.tag], Unavailable}
    PROVE  EvaluateCondition(c, values) \in {Unknown, EvaluateCondition(c, later)}
<1>1. CASE Unavailable \in {values[c.tag], c.setpoint}
  BY <1>1 DEF EvaluateCondition
<1>2. CASE Unavailable \notin {values[c.tag], c.setpoint}
  BY <1>2 DEF EvaluateCondition
<1> QED BY <1>1, <1>2

LEMMA JoinedIsFinal ==
    ASSUME NEW c, NEW a, NEW b, NEW a2, NEW b2, a \in {Unknown, a2}, b \in {Unknown, b2}
    PROVE  Joined(c, a, b) \in {Unknown, Joined(c, a2, b2)}
<1>1. Or(a, b) \in {Unknown, Or(a2, b2)}
  BY DEF Or, Unknown
<1>2. And(a, b) \in {Unknown, And(a2, b2)}
  BY DEF And, Unknown
<1> QED BY <1>1, <1>2 DEF Joined

\* Nor does the result after any number of conditions.
LEMMA ResultsAreFinal ==
    ASSUME NEW n \in Nat, NEW logic, DOMAIN logic = 1..n, NEW values, NEW later,
           \A i \in 1..n : /\ logic[i].comparison # "UNAVAILABLE"
                           /\ values[logic[i].tag] \in {later[logic[i].tag], Unavailable},
           NEW i \in 1..n
    PROVE  Results(logic, values)[i] \in {Unknown, Results(logic, later)[i]}
<1> DEFINE R == {p \in Nat \X Nat : p[1] < p[2]}
<1>1. PICK r : r = Results(logic, values)
  OBVIOUS
<1>2. PICK q : q = Results(logic, later)
  OBVIOUS
<1>3. Stepwise(logic, values, r) /\ Stepwise(logic, later, q)
  BY <1>1, <1>2, ResultsAreStepwise
<1> DEFINE Final(k) == r[k] \in {Unknown, q[k]}
           S == {k \in 1..n : ~ Final(k)}
<1> HIDE DEF Final
<1>4. S = {}
  <2> SUFFICES ASSUME S # {} PROVE FALSE
    OBVIOUS
  <2>0. S \subseteq Nat
    OBVIOUS
  <2>1. IsWellFoundedOn(R, Nat)
    BY NatLessThanWellFounded, Zenon DEF OpToRel
  <2>2. PICK k \in S : \A m \in S : ~ (<<m, k>> \in R)
    BY <2>0, <2>1, WFMin
  <2>3. k \in 1..n /\ ~ Final(k)
    BY <2>2
  <2>4. k # 1 => k - 1 \in 1..n /\ Final(k - 1)
    <3> SUFFICES ASSUME k # 1, ~ Final(k - 1) PROVE FALSE
      BY <2>3
    <3>1. k - 1 \in S /\ k - 1 \in Nat /\ k \in Nat /\ k - 1 < k
      BY <2>3
    <3>2. ~ (<<k - 1, k>> \in R)
      BY <2>2, <3>1
    <3> QED BY <3>1, <3>2
  <2> HIDE DEF R, S
  <2>5. PICK a, b : a = EvaluateCondition(logic[k], values) /\ b = EvaluateCondition(logic[k], later)
    OBVIOUS
  <2>6. a \in {Unknown, b}
    BY <2>3, <2>5, ConditionIsFinal
  <2>7. CASE k = 1
    <3>1. r[k] = a /\ q[k] = b
      BY <1>3, <2>3, <2>5, <2>7 DEF Stepwise
    <3> QED BY <2>3, <2>6, <3>1 DEF Final
  <2>8. CASE k # 1
    <3>1. r[k] = Joined(logic[k], r[k - 1], a) /\ q[k] = Joined(logic[k], q[k - 1], b)
      BY <1>3, <2>3, <2>5, <2>8 DEF Stepwise
    <3>2. r[k - 1] \in {Unknown, q[k - 1]}
      BY <2>4, <2>8 DEF Final
    <3>3. r[k] \in {Unknown, q[k]}
      BY <2>6, <3>1, <3>2, JoinedIsFinal
    <3> QED BY <2>3, <3>3 DEF Final
  <2> QED BY <2>7, <2>8
<1>5. Final(i)
  BY <1>4
<1> QED BY <1>1, <1>2, <1>5 DEF Final

-----------------------------------------------------------------------------
(* The calculations: steps                                                 *)

CalcTypes ==
    /\ calPoints \in Calibrations \cup {<<>>} /\ reading \in Reading
    /\ conditions \in Logics \cup {<<>>} /\ readings \in Readings

LEMMA CalcTypesInv ==
    /\ CalcInit => CalcTypes
    /\ CalcTypes /\ [CalcNext]_calcVars => CalcTypes'
<1>1. CalcInit => CalcTypes
  <2>1. NoReadings \in Readings
    BY DEF NoReadings, Readings
  <2> QED BY <2>1 DEF CalcInit, CalcTypes
<1>2. ASSUME CalcTypes, AnalogInput PROVE CalcTypes'
  <2>1. CASE reading' \in Reading /\ UNCHANGED calPoints
    BY <1>2, <2>1 DEF CalcTypes, AnalogInput
  <2>2. ASSUME NEW i \in DOMAIN calPoints, NEW p \in Point,
               calPoints' = [calPoints EXCEPT ![i] = p], UNCHANGED reading
        PROVE  CalcTypes'
    <3>1. calPoints' \in Calibrations
      <4>1. calPoints # <<>>
        BY <2>2
      <4>2. PICK n \in 0..MaxPoints : calPoints \in [1..n -> Point]
        BY <1>2, <4>1 DEF CalcTypes, Calibrations
      <4>3. calPoints' \in [1..n -> Point]
        BY <2>2, <4>2
      <4> QED BY <4>3 DEF Calibrations
    <3> QED BY <1>2, <2>2, <3>1 DEF CalcTypes, AnalogInput
  <2> QED BY <1>2, <2>1, <2>2 DEF AnalogInput
<1>3. ASSUME CalcTypes, Output PROVE CalcTypes'
  BY <1>3 DEF CalcTypes, Output, Readings
<1>4. ASSUME CalcTypes, UNCHANGED calcVars PROVE CalcTypes'
  BY <1>4 DEF CalcTypes, calcVars
<1> QED BY <1>1, <1>2, <1>3, <1>4 DEF CalcNext

\* A result of the logic of an output that is known while values are missing
\* is the result when they are there, for any conditions that do not ask for
\* availability (evaluateControlLogic).
THEOREM KnownStaysFinal == CalcSpec => KnownIsFinal
<1> DEFINE Premise ==
        /\ \A t \in ConditionTag : readings[t] \in {readings'[t], Unavailable}
        /\ \A i \in DOMAIN conditions : conditions[i].comparison # "UNAVAILABLE"
        /\ Evaluated # Unknown
<1>1. ASSUME CalcTypes, CalcNext, Premise PROVE Evaluated' = Evaluated
  <2>1. conditions' = conditions
    BY <1>1 DEF CalcNext, AnalogInput, Output
  <2>2. conditions # <<>>
    BY <1>1 DEF Evaluated, EvaluateControlLogic
  <2>3. PICK n \in 0..MaxConditions : conditions \in [1..n -> Conditions]
    BY <1>1, <2>2 DEF CalcTypes, Logics
  <2>4. n \in Nat /\ conditions \in Seq(Conditions) /\ Len(conditions) = n /\ DOMAIN conditions = 1..n
    BY <2>3, NumbersAssumption
  <2>5. n \in 1..n
    BY <2>2, <2>4
  <2>6. \A i \in 1..n : /\ conditions[i].comparison # "UNAVAILABLE"
                        /\ readings[conditions[i].tag] \in {readings'[conditions[i].tag], Unavailable}
    <3>1. \A c \in Conditions : c.tag \in ConditionTag
      BY DEF Conditions, Condition
    <3> QED BY <1>1, <2>3, <2>4, <3>1
  <2>7. Results(conditions, readings)[n] \in {Unknown, Results(conditions, readings')[n]}
    BY <2>4, <2>5, <2>6, ResultsAreFinal
  <2>8. /\ Evaluated = Results(conditions, readings)[n]
        /\ Evaluated' = Results(conditions, readings')[n]
    BY <2>1, <2>2, <2>4 DEF Evaluated, EvaluateControlLogic
  <2> QED BY <1>1, <2>7, <2>8
<1>2. CalcTypes /\ [CalcNext]_calcVars => [Premise => Evaluated' = Evaluated]_calcVars
  BY <1>1
<1>3. CalcSpec => []CalcTypes
  BY CalcTypesInv, PTL DEF CalcSpec
<1>4. [][Premise => Evaluated' = Evaluated]_calcVars => KnownIsFinal
  BY PTL DEF KnownIsFinal
<1> QED BY <1>2, <1>3, <1>4, PTL DEF CalcSpec

-----------------------------------------------------------------------------
(* Calibration: the points by rising x                                     *)

DistinctXs(raw) == \A i, j \in DOMAIN raw : raw[i].x = raw[j].x => i = j

LEMMA PointsAreNumbers == \A p \in Point : p.x \in Int /\ p.y \in Int
BY NumbersAssumption DEF Point

LEMMA XsAreFinite ==
    ASSUME NEW n \in Nat, NEW raw \in [1..n -> Point], DistinctXs(raw)
    PROVE  IsFiniteSet(Xs(raw)) /\ Cardinality(Xs(raw)) = n /\ Xs(raw) \subseteq Int
<1> DEFINE f == [i \in 1..n |-> raw[i].x]
<1>1. f \in Bijection(1..n, Xs(raw))
  <2>1. f \in [1..n -> Xs(raw)]
    BY DEF Xs
  <2>2. f \in Injection(1..n, Xs(raw))
    BY <2>1 DEF DistinctXs, Injection, IsInjective
  <2>3. f \in Surjection(1..n, Xs(raw))
    BY <2>1 DEF Xs, Surjection
  <2> QED BY <2>2, <2>3 DEF Bijection
<1>2. ExistsBijection(1..n, Xs(raw))
  BY <1>1 DEF ExistsBijection
<1>3. IsFiniteSet(1..n) /\ Cardinality(1..n) = n
  BY FS_Interval
<1>4. IsFiniteSet(Xs(raw)) /\ Cardinality(Xs(raw)) = n
  BY <1>2, <1>3, FS_Bijection
<1>5. Xs(raw) \subseteq Int
  BY PointsAreNumbers DEF Xs
<1> QED BY <1>4, <1>5

LEMMA RankRises ==
    ASSUME NEW n \in Nat, NEW raw \in [1..n -> Point], DistinctXs(raw)
    PROVE  /\ \A x \in Xs(raw) : Rank(raw, x) \in 1..n
           /\ \A x, z \in Xs(raw) : x < z => Rank(raw, x) < Rank(raw, z)
<1> DEFINE X == Xs(raw)
           Upto(x) == {z \in X : z <= x}
<1>0. IsFiniteSet(X) /\ Cardinality(X) = n /\ X \subseteq Int
  BY XsAreFinite
<1>1. \A x \in X : Rank(raw, x) = Cardinality(Upto(x)) /\ x \in Upto(x) /\ Upto(x) \in SUBSET X
  BY <1>0 DEF Rank
<1> HIDE DEF X
<1>2. ASSUME NEW x \in X PROVE Rank(raw, x) \in 1..n
  <2>1. IsFiniteSet(Upto(x)) /\ Cardinality(Upto(x)) <= n
    BY <1>0, <1>1, FS_Subset
  <2>2. Cardinality(Upto(x)) \in Nat
    BY <2>1, FS_CardinalityType
  <2>3. Cardinality(Upto(x)) # 0
    BY <1>1, <2>1, FS_EmptySet
  <2>4. PICK r \in Nat : r = Cardinality(Upto(x))
    BY <2>2
  <2> QED BY <1>1, <2>1, <2>3, <2>4
<1>3. ASSUME NEW x \in X, NEW z \in X, x < z PROVE Rank(raw, x) < Rank(raw, z)
  <2>0. IsFiniteSet(Upto(z))
    BY <1>0, <1>1, FS_Subset
  <2>1. Upto(x) \in SUBSET Upto(z)
    <3>1. \A w \in X : w <= x => w <= z
      <4> TAKE w \in X
      <4>1. w \in Int /\ x \in Int /\ z \in Int
        BY <1>0
      <4> QED BY <1>3, <4>1
    <3> QED BY <3>1
  <2>2. z \in Upto(z) /\ z \notin Upto(x)
    BY <1>0, <1>3
  <2>3. Cardinality(Upto(x)) <= Cardinality(Upto(z)) /\ Cardinality(Upto(x)) # Cardinality(Upto(z))
    BY <2>0, <2>1, <2>2, FS_Subset
  <2>4. PICK r, q \in 1..n : r = Rank(raw, x) /\ q = Rank(raw, z)
    BY <1>2
  <2>5. r <= q /\ r # q
    BY <1>1, <2>3, <2>4
  <2> QED BY <2>4, <2>5
<1> QED BY <1>2, <1>3 DEF X

\* Deduplicated has all the points, by rising x.
LEMMA DeduplicatedRises ==
    ASSUME NEW n \in Nat, NEW raw \in [1..n -> Point], DistinctXs(raw)
    PROVE  LET points == Deduplicated(raw)
           IN  /\ points \in [1..n -> Point]
               /\ \A j, k \in 1..n : j < k => points[j].x < points[k].x
               /\ \A i \in 1..n : \E k \in 1..n : points[k] = raw[i]
               /\ \A k \in 1..n : \E i \in 1..n : points[k] = raw[i]
<1> DEFINE X == Xs(raw)
           f == [x \in X |-> Rank(raw, x)]
           points == Deduplicated(raw)
           Kth(i, k) == Rank(raw, raw[i].x) = k /\ \A j \in 1..(i - 1) : raw[j].x # raw[i].x
<1>0. IsFiniteSet(X) /\ Cardinality(X) = n /\ X \subseteq Int
  BY XsAreFinite
<1>1. /\ \A x \in X : Rank(raw, x) \in 1..n
      /\ \A x, z \in X : x < z => Rank(raw, x) < Rank(raw, z)
  BY RankRises
<1>2. f \in Surjection(X, 1..n)
  <2>1. \A x, z \in X : Rank(raw, x) = Rank(raw, z) => x = z
    BY <1>0, <1>1
  <2>2. f \in Injection(X, 1..n)
    <3>1. f \in [X -> 1..n]
      BY <1>1
    <3> QED BY <2>1, <3>1 DEF Injection, IsInjective
  <2>3. IsFiniteSet(1..n) /\ Cardinality(1..n) = n
    BY FS_Interval
  <2> QED BY <1>0, <2>2, <2>3, FS_Injection
<1>3. \A k \in 1..n : \E i \in 1..n : Rank(raw, raw[i].x) = k
  <2>1. \A k \in 1..n : \E x \in X : Rank(raw, x) = k
    BY <1>2 DEF Surjection
  <2> QED BY <2>1 DEF Xs
<1>4. \A i \in 1..n : \A j \in 1..(i - 1) : raw[j].x # raw[i].x
  BY DEF DistinctXs
<1>5. ASSUME NEW k \in 1..n
      PROVE  \E i \in 1..n : points[k] = raw[i] /\ Rank(raw, raw[i].x) = k
  <2>1. points[k] = raw[CHOOSE i \in 1..n : Kth(i, k)]
    BY <1>0 DEF Deduplicated
  <2>2. \E i \in 1..n : Kth(i, k)
    BY <1>3, <1>4
  <2> HIDE DEF Kth, points
  <2>3. PICK i \in 1..n : points[k] = raw[i] /\ Kth(i, k)
    BY <2>1, <2>2
  <2> QED BY <2>3 DEF Kth
<1>6. points \in [1..n -> Point]
  <2>1. points = [k \in 1..n |-> points[k]]
    BY <1>0 DEF Deduplicated
  <2> HIDE DEF points
  <2>2. \A k \in 1..n : points[k] \in Point
    BY <1>5
  <2> QED BY <2>1, <2>2
<1> HIDE DEF points
<1>7. ASSUME NEW j \in 1..n, NEW k \in 1..n, j < k PROVE points[j].x < points[k].x
  <2>1. PICK u, v \in X : /\ points[j].x = u /\ points[k].x = v
                          /\ Rank(raw, u) = j /\ Rank(raw, v) = k
    BY <1>5 DEF Xs
  <2>2. ~ (v < u) /\ u # v
    BY <1>1, <1>7, <2>1
  <2> QED BY <1>0, <2>1, <2>2
<1>8. ASSUME NEW i \in 1..n PROVE \E k \in 1..n : points[k] = raw[i]
  <2>1. raw[i].x \in X
    BY DEF Xs
  <2>2. PICK k \in 1..n : k = Rank(raw, raw[i].x)
    BY <1>1, <2>1
  <2>3. PICK j \in 1..n : points[k] = raw[j] /\ Rank(raw, raw[j].x) = k
    BY <1>5
  <2>4. raw[j].x \in X
    BY DEF Xs
  <2>5. raw[j].x = raw[i].x
    BY <1>0, <1>1, <2>1, <2>2, <2>3, <2>4
  <2>6. j = i
    BY <2>5 DEF DistinctXs
  <2> QED BY <2>3, <2>6
<1> QED BY <1>5, <1>6, <1>7, <1>8 DEF points

-----------------------------------------------------------------------------
(* Calibration: the segments                                               *)

\* Segments that begin further and further right.
Rightward(segs, m) ==
    /\ DOMAIN segs = 1..m /\ \A i \in 1..m : segs[i] \in Segment /\ segs[i].dx > 0
    /\ \A i, j \in 1..m : i < j => segs[i].x < segs[j].x

LEMMA GreatestNumber ==
    ASSUME NEW m \in Nat, NEW S \in SUBSET (1..m), S # {}
    PROVE  \E k \in S : \A j \in S : j <= k
<1> DEFINE R == {p \in Nat \X Nat : p[1] < p[2]}
           T == {d \in Nat : \E k \in S : d = m - k}
<1>1. IsWellFoundedOn(R, Nat)
  BY NatLessThanWellFounded, Zenon DEF OpToRel
<1>2. T \subseteq Nat /\ T # {}
  <2>1. PICK k \in S : TRUE
    OBVIOUS
  <2>2. m - k \in Nat
    OBVIOUS
  <2> QED BY <2>1, <2>2
<1>3. PICK d \in T : \A e \in T : ~ (<<e, d>> \in R)
  BY <1>1, <1>2, WFMin
<1>4. PICK k \in S : d = m - k
  BY <1>3
<1>5. \A j \in S : j <= k
  <2> TAKE j \in S
  <2>1. m - j \in Nat /\ m - k \in Nat /\ j \in Nat /\ k \in Nat
    OBVIOUS
  <2>2. ~ (<<m - j, m - k>> \in R)
    BY <1>3, <1>4, <2>1
  <2> QED BY <2>1, <2>2
<1> QED BY <1>5

\* The segment of a value begins at or before it, but for the first one, and
\* the next one begins after it.
LEMMA SegmentFound ==
    ASSUME NEW m \in Nat \ {0}, NEW segs, Rightward(segs, m), NEW v \in Int
    PROVE  LET k == SegmentOf(segs, v)
           IN  /\ k \in 1..m
               /\ k # 1 => segs[k].x <= v
               /\ k < m => v < segs[k + 1].x
<1> DEFINE begun == {i \in DOMAIN segs : \A j \in 1..i : segs[j].x <= v}
           k == SegmentOf(segs, v)
<1>0. DOMAIN segs = 1..m /\ \A i \in 1..m : segs[i].x \in Int
  BY DEF Rightward, Segment
<1>1. k = IF begun = {} THEN 1 ELSE CHOOSE i \in begun : \A j \in begun : j <= i
  BY DEF SegmentOf
<1> HIDE DEF k
<1>2. CASE begun = {}
  <2>1. k = 1
    BY <1>1, <1>2
  <2>2. ~ (segs[1].x <= v)
    <3>1. 1 \in 1..m /\ \A j \in 1..1 : j = 1
      OBVIOUS
    <3> QED BY <1>0, <1>2, <3>1
  <2>3. k < m => v < segs[k + 1].x
    <3> SUFFICES ASSUME 1 < m PROVE v < segs[2].x
      BY <2>1
    <3>1. 1 \in 1..m /\ 2 \in 1..m /\ 1 < 2
      OBVIOUS
    <3>2. segs[1].x < segs[2].x
      BY <3>1 DEF Rightward
    <3> QED BY <1>0, <2>2, <3>1, <3>2
  <2> QED BY <2>1, <2>3 DEF k
<1>3. CASE begun # {}
  <2>1. begun \in SUBSET (1..m)
    BY <1>0
  <2>2. k \in begun /\ \A j \in begun : j <= k
    BY <1>1, <1>3, <2>1, GreatestNumber
  <2>3. k \in 1..m /\ \A j \in 1..k : segs[j].x <= v
    BY <2>1, <2>2
  <2>4. k < m => v < segs[k + 1].x
    <3> SUFFICES ASSUME k < m, ~ (v < segs[k + 1].x) PROVE FALSE
      OBVIOUS
    <3>1. k + 1 \in 1..m /\ \A j \in 1..(k + 1) : j \in 1..k \/ j = k + 1
      BY <2>3
    <3>2. \A j \in 1..(k + 1) : segs[j].x <= v
      BY <1>0, <2>3, <3>1
    <3>3. k + 1 \in begun
      BY <1>0, <3>1, <3>2
    <3> QED BY <2>2, <2>3, <3>3
  <2> QED BY <2>3, <2>4 DEF k
<1> QED BY <1>2, <1>3

\* What the segments of a calibration with two or more points are.
LEMMA SegmentsOfPoints ==
    ASSUME NEW n \in Nat, n >= 2, NEW raw \in [1..n -> Point], DistinctXs(raw)
    PROVE  LET points == Deduplicated(raw)
               segs == Calibration(raw)
           IN  /\ Rightward(segs, n - 1)
               /\ \A i \in 1..(n - 1) :
                     /\ segs[i].x = points[i].x /\ segs[i].y = points[i].y
                     /\ segs[i].dx = points[i + 1].x - points[i].x
                     /\ segs[i].dy = points[i + 1].y - points[i].y
<1>1. PICK points : points = Deduplicated(raw)
  OBVIOUS
<1>2. points \in [1..n -> Point] /\ \A j, k \in 1..n : j < k => points[j].x < points[k].x
  BY <1>1, DeduplicatedRises
<1>3. Len(raw) = n /\ Len(points) = n
  BY <1>2
<1>4. PICK segs : segs = [i \in 1..(n - 1) |->
                [x |-> points[i].x, y |-> points[i].y,
                 dx |-> points[i + 1].x - points[i].x, dy |-> points[i + 1].y - points[i].y]]
  OBVIOUS
<1>5. Calibration(raw) = segs
  BY <1>1, <1>3, <1>4 DEF Calibration, Segments
<1>6. ASSUME NEW i \in 1..(n - 1)
      PROVE  /\ segs[i] \in Segment /\ segs[i].dx > 0
             /\ segs[i].x = points[i].x /\ segs[i].y = points[i].y
             /\ segs[i].dx = points[i + 1].x - points[i].x
             /\ segs[i].dy = points[i + 1].y - points[i].y
  <2>1. i \in 1..n /\ i + 1 \in 1..n /\ i < i + 1
    OBVIOUS
  <2>2. /\ points[i].x \in Int /\ points[i].y \in Int
        /\ points[i + 1].x \in Int /\ points[i + 1].y \in Int
        /\ points[i].x < points[i + 1].x
    BY <1>2, <2>1, PointsAreNumbers
  <2>3. segs[i] = [x |-> points[i].x, y |-> points[i].y,
                   dx |-> points[i + 1].x - points[i].x, dy |-> points[i + 1].y - points[i].y]
    BY <1>4
  <2> QED BY <2>2, <2>3 DEF Segment
<1>7. \A i, j \in 1..(n - 1) : i < j => segs[i].x < segs[j].x
  <2> TAKE i, j \in 1..(n - 1)
  <2>1. i \in 1..n /\ j \in 1..n
    OBVIOUS
  <2> QED BY <1>2, <1>6, <2>1
<1>8. DOMAIN segs = 1..(n - 1)
  BY <1>4
<1> QED BY <1>1, <1>5, <1>6, <1>7, <1>8 DEF Rightward

\* What the one segment of a smaller calibration is.
LEMMA SegmentOfOffset ==
    ASSUME NEW n \in {0, 1}, NEW raw \in [1..n -> Point]
    PROVE  LET segs == Calibration(raw)
           IN  /\ Rightward(segs, 1) /\ segs[1].x = 0 /\ segs[1].dx = 1 /\ segs[1].dy = 1
               /\ n = 1 => segs[1].y = raw[1].y - raw[1].x
<1>1. Len(raw) = n /\ ~ (n >= 2)
  OBVIOUS
<1>2. PICK y : y = IF n = 1 THEN raw[1].y - raw[1].x ELSE 0
  OBVIOUS
<1>3. y \in Int
  BY <1>2, PointsAreNumbers
<1>4. Calibration(raw) = <<[x |-> 0, y |-> y, dx |-> 1, dy |-> 1]>>
  BY <1>1, <1>2 DEF Calibration, Offset
<1>5. PICK s : s = [x |-> 0, y |-> y, dx |-> 1, dy |-> 1]
  OBVIOUS
<1>6. s \in Segment /\ s.x = 0 /\ s.y = y /\ s.dx = 1 /\ s.dy = 1
  BY <1>3, <1>5 DEF Segment
<1>7. PICK segs : segs = <<s>>
  OBVIOUS
<1>8. DOMAIN segs = 1..1 /\ segs[1] = s
  BY <1>7
<1>9. \A i \in 1..1 : i = 1
  OBVIOUS
<1>10. Rightward(segs, 1)
  BY <1>6, <1>8, <1>9 DEF Rightward
<1>11. Calibration(raw) = segs
  BY <1>4, <1>5, <1>7
<1> QED BY <1>2, <1>6, <1>8, <1>10, <1>11

\* Products and order.
LEMMA NonnegativeProduct == ASSUME NEW a \in Int, NEW b \in Int, 0 <= a, 0 <= b PROVE 0 <= a * b
OBVIOUS

LEMMA SmallerProduct ==
    ASSUME NEW a \in Int, NEW b \in Int, NEW c \in Int, a <= b, 0 <= c
    PROVE  a * c <= b * c
OBVIOUS

LEMMA ProductOfSum ==
    ASSUME NEW a \in Int, NEW b \in Int, NEW c \in Int
    PROVE  /\ a * c + (b - a) * c = b * c
           /\ a * c - b * c = (a - b) * c
OBVIOUS

\* A fraction below a number is below a fraction above a greater one.
LEMMA FractionsBetween ==
    ASSUME NEW n1 \in Int, NEW d1 \in Int, NEW n2 \in Int, NEW d2 \in Int, NEW y1 \in Int, NEW y2 \in Int,
           0 < d1, 0 < d2, n1 <= y1 * d1, y1 <= y2, y2 * d2 <= n2
    PROVE  n1 * d2 <= n2 * d1
<1>1. n1 * d2 <= (y1 * d1) * d2
  OBVIOUS
<1>2. (y1 * d1) * d2 = (y1 * d2) * d1
  OBVIOUS
<1>3. y1 * d2 <= y2 * d2
  OBVIOUS
<1>4. (y1 * d2) * d1 <= (y2 * d2) * d1
  BY <1>3
<1>5. (y2 * d2) * d1 <= n2 * d1
  OBVIOUS
<1> QED BY <1>1, <1>2, <1>4, <1>5

LEMMA CalibratedBySegment ==
    ASSUME NEW segs, NEW v, NEW s, s = segs[SegmentOf(segs, v)]
    PROVE  /\ Calibrate(segs, v).num = s.y * s.dx + s.dy * (v - s.x)
           /\ Calibrate(segs, v).den = s.dx
BY DEF Calibrate

LEMMA EveryPointIsMet ==
    ASSUME NEW n \in Nat, NEW raw \in [1..n -> Point], DistinctXs(raw)
    PROVE  PointsAreMet(raw)
<1> SUFFICES ASSUME NEW i \in 1..n
             PROVE  Calibrated(raw, raw[i].x).num = raw[i].y * Calibrated(raw, raw[i].x).den
  BY DEF PointsAreMet
<1>0. PICK v, w \in Int : v = raw[i].x /\ w = raw[i].y
  BY PointsAreNumbers
<1>1. PICK segs : segs = Calibration(raw)
  OBVIOUS
<1>2. PICK k : k = SegmentOf(segs, v)
  OBVIOUS
<1>3. PICK s : s = segs[k]
  OBVIOUS
<1>4. /\ Calibrate(segs, v).num = s.y * s.dx + s.dy * (v - s.x)
      /\ Calibrate(segs, v).den = s.dx
  BY <1>2, <1>3, CalibratedBySegment
<1>5. CASE n = 1
  <2>1. i = 1 /\ n \in {0, 1}
    BY <1>5
  <2>2. /\ Rightward(segs, 1) /\ segs[1].x = 0 /\ segs[1].dx = 1 /\ segs[1].dy = 1
        /\ segs[1].y = w - v
    BY <1>0, <1>1, <1>5, <2>1, SegmentOfOffset
  <2>3. k \in 1..1
    BY <1>0, <1>2, <2>2, SegmentFound
  <2>4. s.x = 0 /\ s.dx = 1 /\ s.dy = 1 /\ s.y = w - v
    BY <1>3, <2>2, <2>3
  <2>5. s.y * s.dx + s.dy * (v - s.x) = w * s.dx
    BY <1>0, <2>4
  <2> QED BY <1>0, <1>1, <1>4, <2>5 DEF Calibrated
<1>6. CASE n >= 2
  <2>1. PICK points : points = Deduplicated(raw)
    OBVIOUS
  <2>2. /\ points \in [1..n -> Point]
        /\ \A j, l \in 1..n : j < l => points[j].x < points[l].x
        /\ \E l \in 1..n : points[l] = raw[i]
    BY <2>1, DeduplicatedRises
  <2>3. PICK l \in 1..n : points[l] = raw[i]
    BY <2>2
  <2>4. /\ Rightward(segs, n - 1)
        /\ \A j \in 1..(n - 1) :
              /\ segs[j].x = points[j].x /\ segs[j].y = points[j].y
              /\ segs[j].dx = points[j + 1].x - points[j].x
              /\ segs[j].dy = points[j + 1].y - points[j].y
    BY <1>1, <1>6, <2>1, SegmentsOfPoints
  <2>5. /\ k \in 1..(n - 1)
        /\ k # 1 => segs[k].x <= v
        /\ k < n - 1 => v < segs[k + 1].x
    <3>1. PICK m \in Nat \ {0} : m = n - 1
      BY <1>6
    <3>2. Rightward(segs, m)
      BY <2>4, <3>1
    <3>3. k \in 1..m /\ (k # 1 => segs[k].x <= v) /\ (k < m => v < segs[k + 1].x)
      BY <1>0, <1>2, <3>2, SegmentFound
    <3> QED BY <3>1, <3>3
  <2>6. points[l].x = v /\ points[l].y = w
    BY <1>0, <2>3
  <2>7. \A j \in 1..n : points[j].x \in Int /\ points[j].y \in Int
    BY <2>2, PointsAreNumbers
  <2>8. k \in 1..n /\ k + 1 \in 1..n
    BY <2>5
  <2>9. /\ s.x = points[k].x /\ s.y = points[k].y
        /\ s.dx = points[k + 1].x - points[k].x /\ s.dy = points[k + 1].y - points[k].y
    BY <1>3, <2>4, <2>5
  <2>10. l = k \/ l = k + 1
    <3>1. ~ (l < k)
      <4>1. l < k => points[l].x < points[k].x /\ points[k].x <= v
        BY <2>2, <2>3, <2>4, <2>5, <2>8
      <4> QED BY <2>6, <2>7, <2>8, <4>1
    <3>2. ~ (k + 1 < l)
      <4>1. k + 1 < l => points[k + 1].x < points[l].x /\ k < n - 1 /\ k + 1 \in 1..(n - 1)
        BY <2>2, <2>3, <2>8
      <4>2. k + 1 < l => v < points[k + 1].x
        BY <2>4, <2>5, <4>1
      <4> QED BY <2>6, <2>7, <2>8, <4>1, <4>2
    <3> QED BY <2>3, <2>8, <3>1, <3>2
  <2>11. s.x \in Int /\ s.y \in Int /\ s.dx \in Int /\ s.dy \in Int
    BY <2>7, <2>8, <2>9
  <2>12. CASE l = k
    <3>1. s.x = v /\ s.y = w
      BY <2>6, <2>9, <2>12
    <3>2. s.dy * (v - s.x) = 0
      BY <1>0, <2>11, <3>1
    <3>3. s.y * s.dx + s.dy * (v - s.x) = w * s.dx
      BY <1>0, <2>11, <3>1, <3>2
    <3> QED BY <1>0, <1>1, <1>4, <3>3 DEF Calibrated
  <2>13. CASE l = k + 1
    <3>1. v - s.x = s.dx /\ w - s.y = s.dy
      BY <2>6, <2>9, <2>13
    <3>2. s.y * s.dx + (w - s.y) * s.dx = w * s.dx
      BY <1>0, <2>11, ProductOfSum
    <3>3. s.y * s.dx + s.dy * (v - s.x) = w * s.dx
      BY <3>1, <3>2
    <3> QED BY <1>0, <1>1, <1>4, <3>3 DEF Calibrated
  <2> QED BY <2>10, <2>12, <2>13
<1> QED BY <1>5, <1>6

\* Segments that go up, each to where the next one begins or below.
Upward(segs, m) ==
    /\ \A i \in 1..m : segs[i].dy >= 0
    /\ \A i, j \in 1..m : i < j => segs[i].y + segs[i].dy <= segs[j].y
    /\ \A i \in 1..m : i < m => segs[i].dx = segs[i + 1].x - segs[i].x

LEMMA UpwardRises ==
    ASSUME NEW m \in Nat \ {0}, NEW segs, Rightward(segs, m), Upward(segs, m),
           NEW u \in Int, NEW v \in Int, u <= v
    PROVE  Leq(Calibrate(segs, u), Calibrate(segs, v))
<1>1. PICK k, l : k = SegmentOf(segs, u) /\ l = SegmentOf(segs, v)
  OBVIOUS
<1>2. k \in 1..m /\ (k # 1 => segs[k].x <= u) /\ (k < m => u < segs[k + 1].x)
  BY <1>1, SegmentFound
<1>3. l \in 1..m /\ (l # 1 => segs[l].x <= v) /\ (l < m => v < segs[l + 1].x)
  BY <1>1, SegmentFound
<1>4. PICK s, t \in Segment : s = segs[k] /\ t = segs[l] /\ s.dx > 0 /\ t.dx > 0
  BY <1>2, <1>3 DEF Rightward
<1>5. /\ s.x \in Int /\ s.y \in Int /\ s.dx \in Int /\ s.dy \in Int
      /\ t.x \in Int /\ t.y \in Int /\ t.dx \in Int /\ t.dy \in Int
  BY <1>4 DEF Segment
<1>6. s.dy >= 0 /\ t.dy >= 0
  BY <1>2, <1>3, <1>4 DEF Upward
<1>7. PICK a, b \in Int : a = s.y * s.dx + s.dy * (u - s.x) /\ b = t.y * t.dx + t.dy * (v - t.x)
  BY <1>5
<1>8. /\ Calibrate(segs, u).num = a /\ Calibrate(segs, u).den = s.dx
      /\ Calibrate(segs, v).num = b /\ Calibrate(segs, v).den = t.dx
  BY <1>1, <1>4, <1>7, CalibratedBySegment
<1>9. \A i \in 1..m : segs[i].x \in Int
  BY DEF Rightward, Segment
<1>10. ~ (l < k)
  <2> SUFFICES ASSUME l < k PROVE FALSE
    OBVIOUS
  <2>1. l + 1 \in 1..m /\ l < m /\ k # 1 /\ (l + 1 < k \/ l + 1 = k)
    BY <1>2, <1>3
  <2>2. segs[l + 1].x <= segs[k].x
    BY <1>2, <1>9, <2>1 DEF Rightward
  <2>3. segs[k].x <= u /\ v < segs[l + 1].x
    BY <1>2, <1>3, <2>1
  <2> QED BY <1>2, <1>9, <2>1, <2>2, <2>3
<1>11. a * t.dx <= b * s.dx
  <2>1. CASE k = l
    <3>1. s = t
      BY <1>4, <2>1
    <3>2. s.dy * (v - s.x) - s.dy * (u - s.x) = s.dy * (v - u)
      BY <1>5
    <3>3. 0 <= s.dy * (v - u)
      BY <1>5, <1>6, NonnegativeProduct
    <3>4. PICK p, q, r \in Int : p = s.dy * (u - s.x) /\ q = s.dy * (v - s.x) /\ r = s.y * s.dx
      BY <1>5
    <3>5. a = r + p /\ b = r + q
      BY <1>7, <3>1, <3>4
    <3>6. p <= q
      BY <3>2, <3>3, <3>4
    <3>7. a <= b
      BY <3>5, <3>6
    <3>8. a * s.dx <= b * s.dx
      BY <1>4, <1>5, <3>7, SmallerProduct
    <3> QED BY <3>1, <3>8
  <2>2. CASE k < l
    <3>1. /\ k < m /\ l # 1
          /\ s.y + s.dy <= t.y
          /\ s.dx = segs[k + 1].x - s.x
      BY <1>2, <1>3, <1>4, <2>2 DEF Upward
    <3>2. u - s.x <= s.dx
      <4>1. segs[k + 1].x \in Int /\ u < segs[k + 1].x
        BY <1>2, <1>9, <3>1
      <4> QED BY <1>5, <3>1, <4>1
    <3>3. 0 <= v - t.x
      BY <1>3, <1>4, <1>5, <3>1
    <3>4. a <= (s.y + s.dy) * s.dx
      <4>1. (u - s.x) * s.dy <= s.dx * s.dy
        BY <1>5, <1>6, <3>2, SmallerProduct
      <4>2. s.y * s.dx + s.dx * s.dy = (s.y + s.dy) * s.dx /\ (u - s.x) * s.dy = s.dy * (u - s.x)
        BY <1>5
      <4>3. PICK p, q, r \in Int : p = s.dy * (u - s.x) /\ q = s.dx * s.dy /\ r = s.y * s.dx
        BY <1>5
      <4> QED BY <1>7, <4>1, <4>2, <4>3
    <3>5. t.y * t.dx <= b
      <4>1. 0 <= t.dy * (v - t.x)
        BY <1>5, <1>6, <3>3, NonnegativeProduct
      <4>2. PICK q, r \in Int : q = t.dy * (v - t.x) /\ r = t.y * t.dx
        BY <1>5
      <4> QED BY <1>7, <4>1, <4>2
    <3> QED BY <1>4, <1>5, <3>1, <3>4, <3>5, FractionsBetween
  <2> QED BY <1>2, <1>3, <1>10, <2>1, <2>2
<1> QED BY <1>8, <1>11 DEF Leq

LEMMA RisingPointsRise ==
    ASSUME NEW n \in Nat, NEW raw \in [1..n -> Point], DistinctXs(raw), NEW u \in Reading
    PROVE  RisingStaysRising(raw, u)
<1> SUFFICES ASSUME \A i, j \in 1..n : raw[i].x < raw[j].x => raw[i].y <= raw[j].y,
                    NEW v \in Reading, u <= v
             PROVE  Leq(Calibrated(raw, u), Calibrated(raw, v))
  BY DEF RisingStaysRising
<1>0. u \in Int /\ v \in Int
  BY NumbersAssumption
<1>1. PICK segs : segs = Calibration(raw)
  OBVIOUS
<1>2. CASE n \in {0, 1}
  <2>1. Rightward(segs, 1) /\ segs[1].dy = 1
    BY <1>1, <1>2, SegmentOfOffset
  <2>2. \A i \in 1..1 : i = 1
    OBVIOUS
  <2>3. Upward(segs, 1)
    BY <2>1, <2>2 DEF Upward
  <2>4. 1 \in Nat \ {0}
    OBVIOUS
  <2> QED BY <1>0, <1>1, <2>1, <2>3, <2>4, UpwardRises DEF Calibrated
<1>3. CASE n >= 2
  <2>0. PICK m \in Nat \ {0} : m = n - 1
    BY <1>3
  <2>1. PICK points : points = Deduplicated(raw)
    OBVIOUS
  <2>2. /\ points \in [1..n -> Point]
        /\ \A j, k \in 1..n : j < k => points[j].x < points[k].x
        /\ \A k \in 1..n : \E i \in 1..n : points[k] = raw[i]
    BY <2>1, DeduplicatedRises
  <2>3. /\ Rightward(segs, m)
        /\ \A j \in 1..m :
              /\ segs[j].x = points[j].x /\ segs[j].y = points[j].y
              /\ segs[j].dx = points[j + 1].x - points[j].x
              /\ segs[j].dy = points[j + 1].y - points[j].y
    BY <1>1, <1>3, <2>0, <2>1, SegmentsOfPoints
  <2>4. \A j \in 1..n : points[j].x \in Int /\ points[j].y \in Int
    BY <2>2, PointsAreNumbers
  <2>5. \A j, k \in 1..n : j < k => points[j].y <= points[k].y
    <3> TAKE j, k \in 1..n
    <3> HAVE j < k
    <3>1. PICK i, h \in 1..n : points[j] = raw[i] /\ points[k] = raw[h]
      BY <2>2
    <3>2. raw[i].x < raw[h].x
      BY <2>2, <3>1
    <3> QED BY <3>1, <3>2
  <2>6. Upward(segs, m)
    <3>1. ASSUME NEW i \in 1..m
          PROVE  /\ segs[i].dy >= 0
                 /\ i < m => segs[i].dx = segs[i + 1].x - segs[i].x
      <4>1. i \in 1..n /\ i + 1 \in 1..n /\ i < i + 1 /\ (i < m => i + 1 \in 1..m)
        BY <2>0
      <4>2. points[i].y <= points[i + 1].y /\ points[i].y \in Int /\ points[i + 1].y \in Int
        BY <2>4, <2>5, <4>1
      <4>3. segs[i].dy >= 0
        BY <2>3, <4>2
      <4> QED BY <2>3, <4>1, <4>3
    <3>2. ASSUME NEW i \in 1..m, NEW j \in 1..m, i < j
          PROVE  segs[i].y + segs[i].dy <= segs[j].y
      <4>1. i \in 1..n /\ i + 1 \in 1..n /\ j \in 1..n /\ (i + 1 < j \/ i + 1 = j)
        BY <2>0, <3>2
      <4>2. points[i + 1].y <= points[j].y
        BY <2>4, <2>5, <4>1
      <4>3. segs[i].y + segs[i].dy = points[i + 1].y
        <5>1. PICK y, z \in Int : y = points[i].y /\ z = points[i + 1].y
          BY <2>4, <4>1
        <5>2. segs[i].y = y /\ segs[i].dy = z - y
          BY <2>3, <5>1
        <5>3. y + (z - y) = z
          BY <5>1
        <5> QED BY <5>1, <5>2, <5>3
      <4> QED BY <2>3, <4>2, <4>3
    <3> QED BY <3>1, <3>2 DEF Upward
  <2> QED BY <1>0, <1>1, <2>3, <2>6, UpwardRises DEF Calibrated
<1> QED BY <1>2, <1>3

\* A calibration whose points differ in x meets every one of them, in whatever
\* order they were entered, and rises if they do (the constructor of
\* Calibrator and calibrate).
THEOREM CalibrationStaysSound == CalcSpec => []CalibrationIsSound
<1>1. CalcTypes => CalibrationIsSound
  <2> SUFFICES ASSUME CalcTypes, DistinctXs(calPoints)
               PROVE  PointsAreMet(calPoints) /\ RisingStaysRising(calPoints, reading)
    BY DEF CalibrationIsSound, DistinctXs
  <2>1. \E n \in Nat : calPoints \in [1..n -> Point]
    <3>1. <<>> \in [1..0 -> Point] /\ 0 \in Nat
      OBVIOUS
    <3>2. CASE calPoints = <<>>
      BY <3>1, <3>2
    <3>3. CASE calPoints \in Calibrations
      <4>1. PICK n \in 0..MaxPoints : calPoints \in [1..n -> Point]
        BY <3>3 DEF Calibrations
      <4>2. n \in Nat
        BY <4>1, NumbersAssumption
      <4> QED BY <4>1, <4>2
    <3> QED BY <3>2, <3>3 DEF CalcTypes
  <2>2. PICK n \in Nat : calPoints \in [1..n -> Point]
    BY <2>1
  <2>3. PointsAreMet(calPoints)
    BY <2>2, EveryPointIsMet
  <2>4. RisingStaysRising(calPoints, reading)
    BY <2>2, RisingPointsRise DEF CalcTypes
  <2> QED BY <2>3, <2>4
<1>2. CalcSpec => []CalcTypes
  BY CalcTypesInv, PTL DEF CalcSpec
<1> QED BY <1>1, <1>2, PTL

=============================================================================
