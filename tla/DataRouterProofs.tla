-------------------------- MODULE DataRouterProofs ---------------------------
(***************************************************************************)
(* Proofs about the DataRouter, for all plugins, tags, mappings, batches,  *)
(* clocks and limits.                                                      *)
(***************************************************************************)
EXTENDS DataRouter, TLAPS

ConstantsOK == /\ InternalName \subseteq Name
               /\ PluginKey \in [Plugin -> Key]
               /\ None \notin Name \cup Key
               /\ None \notin Value
               /\ Batches \in [Plugin -> SUBSET Batch]
               /\ Round \in [Tag -> [Value -> Value]]
               /\ IOChoices \in [Plugin -> (SUBSET Seq(Mapping)) \ {{}}]
               /\ PluginLists \subseteq Seq(Plugin)
               /\ MinIngestInterval \in Nat \ {0}
               /\ InnerLimit \in Nat \ {0, 1}
               /\ OuterLimit \in Nat \ {0, 1}
               /\ Clock \subseteq Int

LEMMA Constants == ConstantsOK
BY NamesAssumption, KeysAssumption, NoneAssumption, ValueAssumption, BatchAssumption,
   PluginListAssumption, IOAssumption, LimitAssumption DEF ConstantsOK

-----------------------------------------------------------------------------
(* What the operators return                                               *)

LEMMA ProviderType ==
    ASSUME NEW installed \in SUBSET Plugin, NEW declared, NEW n
    PROVE  ProviderOf(Sources(installed, declared, n)) \in Key \cup {None}
<1> DEFINE S == Sources(installed, declared, n)
<1>1. \A l \in S : l.plugin \in Plugin
  BY DEF Sources, Locations
<1>2. \A l \in S : PluginKey[l.plugin] \in Key
  BY <1>1, Constants DEF ConstantsOK
<1>3. SettableOf(S) \subseteq S /\ UnsettableOf(S) \subseteq S
  BY DEF SettableOf, UnsettableOf
<1>4. S # {} => SettableOf(S) # {} \/ UnsettableOf(S) # {}
  BY DEF SettableOf, UnsettableOf
<1>5. CASE SettableOf(S) # {}
  <2>1. (CHOOSE l \in SettableOf(S) : TRUE) \in S
    BY <1>3, <1>5
  <2> QED BY <2>1, <1>2, <1>5 DEF ProviderOf
<1>6. CASE SettableOf(S) = {} /\ S # {}
  <2>1. (CHOOSE l \in UnsettableOf(S) : TRUE) \in S
    BY <1>3, <1>4, <1>6
  <2> QED BY <2>1, <1>2, <1>6 DEF ProviderOf
<1>7. CASE S = {}
  BY <1>7 DEF ProviderOf
<1> QED BY <1>5, <1>6, <1>7

LEMMA MappingInfoType ==
    ASSUME NEW installed \in SUBSET Plugin, NEW declared
    PROVE  LET info == CalculateMappingInfo(installed, declared)
           IN  /\ info.provider \in [Name -> Key \cup {None}]
               /\ info.dests \in [Tag -> SUBSET {PluginKey[p] : p \in installed}]
               /\ info.dests \in [Tag -> SUBSET Key]
               /\ info.tags \in SUBSET Name
<1> DEFINE info == CalculateMappingInfo(installed, declared)
<1>1. info.provider = [n \in Name |-> ProviderOf(Sources(installed, declared, n))]
  BY DEF CalculateMappingInfo
<1>2. info.dests = [t \in Tag |-> Destinations(installed, declared, t)]
  BY DEF CalculateMappingInfo
<1>3. \A t \in Tag : Destinations(installed, declared, t) \subseteq {PluginKey[p] : p \in installed}
  BY DEF Destinations
<1>4. {PluginKey[p] : p \in installed} \subseteq Key
  BY Constants DEF ConstantsOK
<1>5. info.tags = {n \in Name : Sources(installed, declared, n) # {}}
  BY DEF CalculateMappingInfo
<1>6. info.provider \in [Name -> Key \cup {None}]
  BY <1>1, ProviderType
<1>7. info.dests \in [Tag -> SUBSET {PluginKey[p] : p \in installed}]
  BY <1>2, <1>3
<1>8. info.dests \in [Tag -> SUBSET Key]
  BY <1>7, <1>4
<1> QED BY <1>5, <1>6, <1>7, <1>8

LEMMA NoValuesType == NoValues \in ValuesMap /\ NoBatch \in Batch
BY DEF NoValues, ValuesMap, NoBatch, Batch

LEMMA ReactionType == ASSUME NEW p \in Plugin PROVE Reaction(p) \subseteq Batch
BY Constants, NoValuesType DEF Reaction, ConstantsOK

LEMMA EnforceType ==
    ASSUME NEW k, NEW batch \in Batch
    PROVE  EnforceTagSources(k, batch) \in ValuesMap
<1>1. ASSUME NEW t \in Tag, t \notin Name
      PROVE  (CHOOSE m \in Name : tagToSetCommand(m) = t) \in Name
  BY <1>1 DEF Tag, SetCommand
<1> QED BY <1>1 DEF EnforceTagSources, ValuesMap, Batch

LEMMA PendingAfterType ==
    ASSUME TypeOK, NEW p, NEW batch \in Batch
    PROVE  PendingAfter(p, batch) \in ValuesMap
<1>1. EnforceTagSources(PluginKey[p], batch) \in ValuesMap
  BY EnforceType
<1>2. ASSUME NEW v \in ValuesMap PROVE ApplyRounding(v) \in ValuesMap
  BY Constants DEF ApplyRounding, ValuesMap, ConstantsOK
<1>3. ASSUME NEW v \in ValuesMap PROVE ApplyChanges(v) \in ValuesMap
  BY DEF ApplyChanges, ValuesMap, TypeOK
<1> QED BY <1>1, <1>2, <1>3 DEF PendingAfter

\* A batch leaves no pending value that the tag map already has.
LEMMA PendingAfterIsChange ==
    ASSUME TypeOK, PendingIsChange, NEW p, NEW batch \in Batch, NEW t \in Tag,
           PendingAfter(p, batch)[t] # None
    PROVE  PendingAfter(p, batch)[t] # tagMap[t]
BY DEF PendingAfter, ApplyChanges, PendingIsChange

-----------------------------------------------------------------------------
(* Type correctness                                                        *)

RegistryTypeOK ==
    /\ plugins \subseteq Plugin /\ listening \subseteq Plugin
    /\ telling \subseteq Plugin /\ starting \subseteq Plugin
    /\ destroyed \subseteq Plugin /\ silent \subseteq Plugin
    /\ stopped \in BOOLEAN
    /\ ios \in [Plugin -> Seq(Mapping)] /\ readIOs \in [Plugin -> Seq(Mapping)]
    /\ mapping.provider \in [Name -> Key \cup {None}]
    /\ mapping.dests \in [Tag -> SUBSET Key]
    /\ mapping.tags \in SUBSET Name
    /\ knownTags \in [Plugin -> SUBSET Name]

CycleTypeOK ==
    /\ tagMap \in ValuesMap /\ pending \in ValuesMap
    /\ lastIngest \in Int
    /\ timer \in Nat \cup {NoTimer}
    /\ phase \in {"idle", "notify", "cycleDone"}
    /\ outer \in 0..(OuterLimit - 1) /\ inner \in 0..(InnerLimit - 1)
    /\ tagsPass \subseteq Tag /\ tagsCycle \subseteq Tag
    /\ toNotify \subseteq Key /\ toFinish \subseteq Plugin
    /\ lastOk \in BOOLEAN /\ aborted \in BOOLEAN

KnowledgeTypeOK ==
    seen \in [Plugin -> ValuesMap] /\ finished \in [Plugin -> ValuesMap]

LEMMA TypeParts == TypeOK <=> RegistryTypeOK /\ CycleTypeOK /\ KnowledgeTypeOK
BY DEF TypeOK, RegistryTypeOK, CycleTypeOK, KnowledgeTypeOK

LEMMA StartPassType ==
    ASSUME TypeOK, NEW changes \in ValuesMap, NEW cycleTags \in SUBSET Tag,
           StartPass(changes, cycleTags)
    PROVE  /\ tagMap' \in ValuesMap /\ pending' = NoValues
           /\ pending' \in ValuesMap
           /\ phase' \in {"notify", "cycleDone"}
           /\ tagsPass' \subseteq Tag /\ tagsCycle' \subseteq Tag
           /\ toNotify' \subseteq Key /\ toFinish' \subseteq Plugin
<1>1. Changed(changes) \subseteq Tag
  BY DEF Changed
<1>2. Readers(Changed(changes)) \subseteq Key
  BY <1>1 DEF Readers, TypeOK
<1>3. Applied(changes) \in ValuesMap
  BY DEF Applied, ValuesMap, TypeOK
<1> QED BY <1>1, <1>2, <1>3, NoValuesType DEF StartPass, AddToCycle, TypeOK

LEMMA RunDispatchQueueType ==
    ASSUME TypeOK, NEW changes \in ValuesMap, NEW time \in Clock,
           RunDispatchQueue(time, changes)
    PROVE  /\ tagMap' \in ValuesMap /\ pending' = NoValues
           /\ pending' \in ValuesMap
           /\ phase' \in {"notify", "cycleDone"}
           /\ tagsPass' \subseteq Tag /\ tagsCycle' \subseteq Tag
           /\ toNotify' \subseteq Key /\ toFinish' \subseteq Plugin
           /\ lastIngest' \in Int
           /\ outer' \in 0..(OuterLimit - 1) /\ inner' \in 0..(InnerLimit - 1)
<1>1. StartPass(changes, {})
  BY DEF RunDispatchQueue
<1>2. /\ lastIngest' \in Int
      /\ outer' \in 0..(OuterLimit - 1) /\ inner' \in 0..(InnerLimit - 1)
  BY Constants DEF RunDispatchQueue, ConstantsOK
<1> QED BY <1>1, <1>2, StartPassType

LEMMA LeaveCycleType ==
    ASSUME TypeOK, NEW ok \in BOOLEAN, LeaveCycle(ok),
           UNCHANGED <<tagMap, pending, lastIngest, timer>>
    PROVE  CycleTypeOK'
BY Constants DEF LeaveCycle, TypeOK, CycleTypeOK, ConstantsOK

LEMMA DispatchType ==
    ASSUME TypeOK, NEW p \in Plugin, NEW batch \in Batch, Dispatch(p, batch)
    PROVE  CycleTypeOK' /\ KnowledgeTypeOK'
<1> DEFINE changes == PendingAfter(p, batch)
<1>1. changes \in ValuesMap
  BY PendingAfterType
<1>2. CASE ~ DataChanged(changes)
  BY <1>1, <1>2 DEF Dispatch, TypeOK, CycleTypeOK, KnowledgeTypeOK, cycleVars
<1>3. CASE DataChanged(changes)
  <2>1. PICK time \in Clock :
          LET wait == lastIngest + MinIngestInterval - time
          IN  \/ /\ wait <= 0
                 /\ RunDispatchQueue(time, changes)
                 /\ UNCHANGED timer
              \/ /\ wait > 0
                 /\ pending' = changes
                 /\ timer' = IF timer # NoTimer THEN timer ELSE Delay(wait)
                 /\ UNCHANGED <<tagMap, lastIngest, cycleVars>>
    BY <1>3 DEF Dispatch
  <2>2. UNCHANGED <<lastOk, aborted, seen, finished>>
    BY DEF Dispatch
  <2>3. CASE RunDispatchQueue(time, changes) /\ UNCHANGED timer
    BY <1>1, <2>2, <2>3, RunDispatchQueueType DEF CycleTypeOK, KnowledgeTypeOK, TypeOK
  <2>4. CASE /\ lastIngest + MinIngestInterval - time > 0
             /\ pending' = changes
             /\ timer' = IF timer # NoTimer THEN timer
                         ELSE Delay(lastIngest + MinIngestInterval - time)
             /\ UNCHANGED <<tagMap, lastIngest, cycleVars>>
    <3>1. time \in Int /\ lastIngest \in Int /\ MinIngestInterval \in Nat
      BY Constants DEF ConstantsOK, TypeOK
    <3>2. timer' \in Nat \cup {NoTimer}
      BY <2>4, <3>1 DEF Delay, TypeOK
    <3> QED BY <1>1, <2>2, <2>4, <3>2 DEF CycleTypeOK, KnowledgeTypeOK, TypeOK, cycleVars
  <2> QED BY <2>1, <2>3, <2>4
<1> QED BY <1>2, <1>3

LEMMA InitTypeOK == Init => TypeOK
<1> SUFFICES ASSUME Init PROVE TypeOK
  OBVIOUS
<1>1. ios \in [Plugin -> Seq(Mapping)]
  <2>1. \A p \in Plugin : IOChoices[p] \subseteq Seq(Mapping)
    <3>1. \A p \in Plugin : IOChoices[p] \in (SUBSET Seq(Mapping)) \ {{}}
      BY Constants DEF ConstantsOK
    <3> QED BY <3>1
  <2>2. ios \in [Plugin -> UNION {IOChoices[p] : p \in Plugin}]
    BY Zenon DEF Init
  <2>3. UNION {IOChoices[p] : p \in Plugin} \subseteq Seq(Mapping)
    BY <2>1
  <2> QED BY <2>2, <2>3
<1>2. /\ mapping.provider \in [Name -> Key \cup {None}]
      /\ mapping.dests \in [Tag -> SUBSET Key]
      /\ mapping.tags \in SUBSET Name
  BY MappingInfoType, {} \in SUBSET Plugin DEF Init
<1>3. 0 \in 0..(OuterLimit - 1) /\ 0 \in 0..(InnerLimit - 1)
  BY Constants DEF ConstantsOK
<1>4. [p \in Plugin |-> NoValues] \in [Plugin -> ValuesMap]
  BY NoValuesType
<1>5. RegistryTypeOK
  <2>1. knownTags = [p \in Plugin |-> {}]
    BY DEF Init
  <2>2. knownTags \in [Plugin -> SUBSET Name]
    BY <2>1
  <2> QED BY <1>1, <1>2, <2>2 DEF Init, RegistryTypeOK
<1>6. CycleTypeOK
  <2>1. tagMap \in ValuesMap /\ pending \in ValuesMap
    BY NoValuesType DEF Init
  <2>2. lastIngest \in Int /\ timer \in Nat \cup {NoTimer}
    BY DEF Init
  <2> QED BY <1>3, <2>1, <2>2 DEF Init, CycleTypeOK
<1>7. KnowledgeTypeOK
  BY <1>4 DEF Init, KnowledgeTypeOK
<1> QED BY <1>5, <1>6, <1>7, TypeParts

LEMMA PluginIOsChangedType ==
    ASSUME TypeOK, NEW installed \in SUBSET Plugin, NEW declared, NEW informed,
           PluginIOsChanged(installed, declared, informed)
    PROVE  /\ mapping' = TablesOf(installed, declared)
           /\ mapping'.provider \in [Name -> Key \cup {None}]
           /\ mapping'.dests \in [Tag -> SUBSET Key]
           /\ mapping'.tags \in SUBSET Name
           /\ telling' \subseteq installed
           /\ readIOs' = declared
           /\ silent' \subseteq Plugin
           /\ seen' \in [Plugin -> ValuesMap]
<1> DEFINE info == TablesOf(installed, declared)
<1>1. /\ info.provider \in [Name -> Key \cup {None}]
      /\ info.dests \in [Tag -> SUBSET Key]
      /\ info.tags \in SUBSET Name
  BY MappingInfoType DEF TablesOf
<1>2. mapping' = info
  BY DEF PluginIOsChanged
<1>3. telling' \subseteq installed /\ readIOs' = declared /\ silent' \subseteq Plugin
  BY DEF PluginIOsChanged, TypeOK
<1>4. seen' \in [Plugin -> ValuesMap]
  BY DEF PluginIOsChanged, TypeOK
<1> QED BY <1>1, <1>2, <1>3, <1>4

LEMMA AcceptedType == ASSUME NEW list \in Seq(Plugin) PROVE Accepted(list) \subseteq Plugin
BY DEF Accepted

LEMMA InstallPluginsType ==
    ASSUME TypeOK, NEW list \in Seq(Plugin), InstallPlugins(list)
    PROVE  /\ plugins' = Accepted(list)
           /\ plugins' \subseteq Plugin /\ listening' \subseteq Plugin
           /\ telling' \subseteq Plugin /\ starting' \subseteq Plugin
           /\ destroyed' \subseteq Plugin /\ silent' \subseteq Plugin
           /\ ios' \in [Plugin -> Seq(Mapping)] /\ readIOs' \in [Plugin -> Seq(Mapping)]
           /\ mapping' = TablesOf(Accepted(list), ios)
           /\ mapping'.provider \in [Name -> Key \cup {None}]
           /\ mapping'.dests \in [Tag -> SUBSET Key]
           /\ mapping'.tags \in SUBSET Name
           /\ knownTags' \in [Plugin -> SUBSET Name]
           /\ KnowledgeTypeOK'
<1>1. Accepted(list) \subseteq Plugin
  BY AcceptedType
<1>2. /\ plugins' = Accepted(list)
      /\ PluginIOsChanged(Accepted(list), ios, Accepted(list) \ plugins)
  BY DEF InstallPlugins
<1>3. finished' \in [Plugin -> ValuesMap]
  BY DEF InstallPlugins, TypeOK
<1>4. /\ listening' \subseteq Plugin /\ destroyed' \subseteq Plugin
      /\ starting' \subseteq Plugin
  BY <1>1 DEF InstallPlugins, ListeningAfter, TypeOK
<1>5. ios' = ios /\ ios \in [Plugin -> Seq(Mapping)] /\ knownTags' \in [Plugin -> SUBSET Name]
  BY DEF InstallPlugins, TypeOK
<1>6. /\ mapping' = TablesOf(Accepted(list), ios)
      /\ mapping'.provider \in [Name -> Key \cup {None}]
      /\ mapping'.dests \in [Tag -> SUBSET Key]
      /\ mapping'.tags \in SUBSET Name
      /\ telling' \subseteq Plugin /\ readIOs' = ios /\ silent' \subseteq Plugin
      /\ seen' \in [Plugin -> ValuesMap]
  BY <1>1, <1>2, PluginIOsChangedType
<1> QED BY <1>1, <1>2, <1>3, <1>4, <1>5, <1>6 DEF KnowledgeTypeOK

\* The shape of a cycle: which locals are in use in which loop, and that the
\* plugins it calls are the registered ones.
CycleShape ==
    /\ phase = "idle" => toNotify = {} /\ toFinish = {}
    /\ phase = "notify" => toFinish = {}
    /\ phase = "cycleDone" => toNotify = {}
    /\ tagsPass \subseteq tagsCycle
    /\ toNotify \subseteq {PluginKey[p] : p \in plugins}
    /\ toFinish \subseteq plugins
    /\ mapping.dests \in [Tag -> SUBSET {PluginKey[p] : p \in plugins}]

LEMMA MemberOfKey ==
    ASSUME CycleShape, NEW k \in toNotify
    PROVE  Member(k) \in plugins /\ PluginKey[Member(k)] = k
<1>1. \E p \in plugins : PluginKey[p] = k
  BY DEF CycleShape
<1> QED BY <1>1 DEF Member

\* One step per action of Next.
LEMMA NextTypeOK == TypeOK /\ CycleShape /\ [Next]_vars => TypeOK'
<1> SUFFICES ASSUME TypeOK, CycleShape, [Next]_vars PROVE TypeOK'
  OBVIOUS
<1> USE DEF registryVars
<1>0. RegistryTypeOK /\ CycleTypeOK /\ KnowledgeTypeOK
  BY TypeParts
<1> SUFFICES RegistryTypeOK' /\ CycleTypeOK' /\ KnowledgeTypeOK'
  BY DEF TypeOK, RegistryTypeOK, CycleTypeOK, KnowledgeTypeOK
<1>1. ASSUME NEW p \in Plugin, EmitData(p)
      PROVE  RegistryTypeOK' /\ CycleTypeOK' /\ KnowledgeTypeOK'
  <2>1. PICK batch \in Batches[p] : Dispatch(p, batch)
    BY <1>1 DEF EmitData
  <2>2. batch \in Batch
    BY <2>1, Constants DEF ConstantsOK
  <2>3. RegistryTypeOK'
    BY <1>0, <1>1 DEF EmitData, RegistryTypeOK
  <2> QED BY <2>1, <2>2, <2>3, DispatchType
<1>2. CASE Tick
  <2>1. timer' \in Nat
    BY <1>0, <1>2 DEF Tick, CycleTypeOK, NoTimer
  <2> QED BY <1>0, <1>2, <2>1
          DEF Tick, RegistryTypeOK, CycleTypeOK, KnowledgeTypeOK, cycleVars
<1>3. CASE IngestTimeout
  <2>1. PICK time \in Clock : RunDispatchQueue(time, pending)
    BY <1>3 DEF IngestTimeout
  <2>2. UNCHANGED <<registryVars, lastOk, seen, finished, aborted>> /\ timer' = NoTimer
    BY <1>3 DEF IngestTimeout
  <2>3. pending \in ValuesMap
    BY DEF TypeOK
  <2> QED BY <1>0, <2>1, <2>2, <2>3, RunDispatchQueueType
          DEF RegistryTypeOK, CycleTypeOK, KnowledgeTypeOK
<1>4. ASSUME NEW k \in Key, InputsChanged(k)
      PROVE  RegistryTypeOK' /\ CycleTypeOK' /\ KnowledgeTypeOK'
  <2>1. Member(k) \in Plugin
    BY <1>4, MemberOfKey DEF InputsChanged, TypeOK
  <2>2. PICK batch \in Reaction(Member(k)) : pending' = PendingAfter(Member(k), batch)
    BY <1>4 DEF InputsChanged
  <2>3. pending' \in ValuesMap
    BY <2>1, <2>2, ReactionType, PendingAfterType
  <2>4. [t \in Tag |-> IF t \in tagsPass THEN tagMap[t] ELSE seen[Member(k)][t]] \in ValuesMap
    BY <2>1 DEF TypeOK, ValuesMap
  <2>5. seen' \in [Plugin -> ValuesMap]
    BY <1>4, <2>4 DEF InputsChanged, TypeOK
  <2> QED BY <1>0, <1>4, <2>3, <2>5
          DEF InputsChanged, RegistryTypeOK, CycleTypeOK, KnowledgeTypeOK
<1>5. CASE NextPass
  <2>1. RegistryTypeOK' /\ KnowledgeTypeOK'
    BY <1>0, <1>5 DEF NextPass, RegistryTypeOK, KnowledgeTypeOK
  <2>0. inner \in Int
    BY Constants DEF TypeOK, ConstantsOK
  <2>2. CASE inner > 1
    <3>0. ~ (inner <= 1)
      BY <2>0, <2>2
    <3>1. /\ StartPass(pending, tagsCycle) /\ inner' = inner - 1
          /\ UNCHANGED <<outer, lastOk, aborted, lastIngest, timer>>
      BY <1>5, <3>0, Zenon DEF NextPass, PassesLeft
    <3>2. pending \in ValuesMap /\ tagsCycle \in SUBSET Tag
      BY DEF TypeOK
    <3>3. inner' \in 0..(InnerLimit - 1)
      BY <2>2, <3>1, Constants DEF TypeOK, ConstantsOK
    <3>4. CycleTypeOK'
      BY <1>0, <3>1, <3>2, <3>3, StartPassType DEF CycleTypeOK
    <3> QED BY <2>1, <3>4
  <2>3. CASE ~ (inner > 1)
    <3>1. LeaveCycle(FALSE) /\ UNCHANGED <<tagMap, pending, lastIngest, timer>>
      BY <1>5, <2>3 DEF NextPass
    <3> QED BY <2>1, <3>1, LeaveCycleType
  <2> QED BY <2>2, <2>3
<1>6. ASSUME NEW p \in Plugin, DispatchCycleDone(p)
      PROVE  RegistryTypeOK' /\ CycleTypeOK' /\ KnowledgeTypeOK'
  <2>1. PICK batch \in Reaction(p) : pending' = PendingAfter(p, batch)
    BY <1>6 DEF DispatchCycleDone
  <2>2. pending' \in ValuesMap
    BY <2>1, ReactionType, PendingAfterType
  <2>3. [t \in Tag |-> IF t \in tagsCycle THEN tagMap[t] ELSE finished[p][t]] \in ValuesMap
    BY DEF TypeOK, ValuesMap
  <2>4. finished' \in [Plugin -> ValuesMap]
    BY <1>6, <2>3 DEF DispatchCycleDone, TypeOK
  <2> QED BY <1>0, <1>6, <2>2, <2>4
          DEF DispatchCycleDone, RegistryTypeOK, CycleTypeOK, KnowledgeTypeOK
<1>7. CASE EndCycle
  <2>1. RegistryTypeOK' /\ KnowledgeTypeOK'
    BY <1>0, <1>7 DEF EndCycle, RegistryTypeOK, KnowledgeTypeOK
  <2>2. ASSUME NEW ok \in BOOLEAN, LeaveCycle(ok), UNCHANGED <<tagMap, pending>>
        PROVE  CycleTypeOK'
    BY <1>7, <2>2, LeaveCycleType DEF EndCycle
  <2>3. ASSUME StartPass(pending, {}), outer > 1, outer' = outer - 1,
               inner' = InnerLimit - 1, UNCHANGED <<lastOk, aborted>>
        PROVE  CycleTypeOK'
    <3>1. pending \in ValuesMap
      BY DEF TypeOK
    <3>2. outer' \in 0..(OuterLimit - 1) /\ inner' \in 0..(InnerLimit - 1)
      BY <2>3, Constants DEF TypeOK, ConstantsOK
    <3>3. UNCHANGED <<lastIngest, timer>>
      BY <1>7 DEF EndCycle
    <3> QED BY <1>0, <2>3, <3>1, <3>2, <3>3, StartPassType DEF CycleTypeOK
  <2> QED BY <1>7, <2>1, <2>2, <2>3 DEF EndCycle
<1>8. ASSUME NEW p \in Plugin, StartPlugin(p)
      PROVE  RegistryTypeOK' /\ CycleTypeOK' /\ KnowledgeTypeOK'
  <2>1. PICK batch \in Reaction(p) : Dispatch(p, batch)
    BY <1>8 DEF StartPlugin
  <2>2. batch \in Batch
    BY <2>1, ReactionType
  <2>3. RegistryTypeOK'
    BY <1>0, <1>8 DEF StartPlugin, RegistryTypeOK
  <2> QED BY <2>1, <2>2, <2>3, DispatchType
<1>9. ASSUME NEW p \in Plugin, NEW declared \in IOChoices[p],
             ios' = [ios EXCEPT ![p] = declared]
      PROVE  ios' \in [Plugin -> Seq(Mapping)]
  <2>1. IOChoices[p] \in (SUBSET Seq(Mapping)) \ {{}}
    BY Constants DEF ConstantsOK
  <2>2. declared \in Seq(Mapping)
    BY <1>9, <2>1
  <2> QED BY <1>9, <2>2 DEF TypeOK
<1>14. ASSUME NEW p \in Plugin, IOsChanged(p)
       PROVE  RegistryTypeOK' /\ CycleTypeOK' /\ KnowledgeTypeOK'
  <2>1. PICK declared \in IOChoices[p] :
           /\ ios' = [ios EXCEPT ![p] = declared]
           /\ PluginIOsChanged(plugins, ios', {p})
    BY <1>14 DEF IOsChanged
  <2>3. ios' \in [Plugin -> Seq(Mapping)]
    BY <1>9, <2>1
  <2>4. plugins \in SUBSET Plugin
    BY DEF TypeOK
  <2>5. /\ mapping'.provider \in [Name -> Key \cup {None}]
        /\ mapping'.dests \in [Tag -> SUBSET Key]
        /\ mapping'.tags \in SUBSET Name
        /\ telling' \subseteq Plugin /\ readIOs' = ios' /\ silent' \subseteq Plugin
        /\ seen' \in [Plugin -> ValuesMap]
    BY <2>1, <2>4, PluginIOsChangedType
  <2> QED BY <1>0, <1>14, <2>3, <2>5
          DEF IOsChanged, RegistryTypeOK, CycleTypeOK, KnowledgeTypeOK, cycleVars
<1>15. ASSUME NEW p \in Plugin, IOsChangeSilently(p)
       PROVE  RegistryTypeOK' /\ CycleTypeOK' /\ KnowledgeTypeOK'
  <2>1. ios' \in [Plugin -> Seq(Mapping)]
    BY <1>9, <1>15 DEF IOsChangeSilently
  <2> QED BY <1>0, <1>15, <2>1
          DEF IOsChangeSilently, RegistryTypeOK, CycleTypeOK, KnowledgeTypeOK, cycleVars
<1>16. ASSUME NEW p \in Plugin, TagsChanged(p)
       PROVE  RegistryTypeOK' /\ CycleTypeOK' /\ KnowledgeTypeOK'
  <2>1. PICK batch \in Reaction(p) : Dispatch(p, batch)
    BY <1>16 DEF TagsChanged
  <2>2. batch \in Batch
    BY <2>1, ReactionType
  <2>3. RegistryTypeOK'
    BY <1>0, <1>16 DEF TagsChanged, RegistryTypeOK
  <2> QED BY <2>1, <2>2, <2>3, DispatchType
<1>10. ASSUME NEW list \in Seq(Plugin), InstallPlugins(list), stopped' \in BOOLEAN,
              timer' \in {timer, NoTimer}
       PROVE  RegistryTypeOK' /\ CycleTypeOK' /\ KnowledgeTypeOK'
  <2>1. CycleTypeOK'
    BY <1>0, <1>10 DEF InstallPlugins, CycleTypeOK, cycleVars
  <2> QED BY <1>10, <2>1, InstallPluginsType DEF RegistryTypeOK
<1>11. CASE SetPlugins
  <2>1. PICK list \in PluginLists : InstallPlugins(list)
    BY <1>11 DEF SetPlugins
  <2>2. list \in Seq(Plugin)
    BY <2>1, Constants DEF ConstantsOK
  <2>3. stopped' \in BOOLEAN /\ timer' \in {timer, NoTimer}
    BY <1>11 DEF SetPlugins, TypeOK
  <2> QED BY <2>1, <2>2, <2>3, <1>10
<1>12. CASE Stop
  <2>1. InstallPlugins(<<>>) /\ stopped' \in BOOLEAN /\ timer' \in {timer, NoTimer}
    BY <1>12 DEF Stop
  <2>2. <<>> \in Seq(Plugin)
    OBVIOUS
  <2> QED BY <2>1, <2>2, <1>10
<1>13. CASE UNCHANGED vars
  BY <1>0, <1>13 DEF vars, RegistryTypeOK, CycleTypeOK, KnowledgeTypeOK, cycleVars
<1> QED BY <1>1, <1>2, <1>3, <1>4, <1>5, <1>6, <1>7, <1>8, <1>11, <1>12, <1>13,
           <1>14, <1>15, <1>16
        DEF Next, Running

-----------------------------------------------------------------------------
(* The inductive invariant                                                 *)

\* Between two passes every reader is up to date; inside a pass those still
\* to be called miss the tags of this pass, and no others.
ReadersInv ==
    \A p \in plugins \ silent, t \in Tag : Reads(p, t) =>
        \/ seen[p][t] = tagMap[t]
        \/ PluginKey[p] \in toNotify /\ t \in tagsPass

\* The same for dispatchCycleDone and the tags of the cycle.
CycleReportInv ==
    aborted \/ \A p \in plugins, t \in Tag :
        \/ finished[p][t] = tagMap[t]
        \/ t \in tagsCycle /\ (phase = "notify" \/ p \in toFinish)

\* No timer runs longer than the minimum interval.
TimerBound == timer \in 0..MinIngestInterval \cup {NoTimer}

KnowledgeInv == ReadersInv /\ CycleReportInv

\* Who declares to read a tag is called when it changes.
LEMMA ReadersAreCalled ==
    ASSUME TablesAreCurrent, NEW p \in plugins \ silent, NEW t \in Tag, Reads(p, t)
    PROVE  PluginKey[p] \in mapping.dests[t]
<1>1. readIOs[p] = ios[p]
  BY DEF TablesAreCurrent
<1>2. \E i \in DOMAIN readIOs[p] : t \in readIOs[p][i].tagsToPlugin
  BY <1>1 DEF Reads
<1>3. PluginKey[p] \in Destinations(plugins, readIOs, t)
  BY <1>2 DEF Destinations
<1>4. mapping.dests[t] = Destinations(plugins, readIOs, t)
  BY DEF TablesAreCurrent, CalculateMappingInfo
<1> QED BY <1>3, <1>4

IInv ==
    /\ TypeOK
    /\ CycleShape
    /\ ListenersArePlugins
    /\ TablesAreCurrent
    /\ PendingIsChange
    /\ TimerBound
    /\ PendingHasTimer
    /\ KnowledgeInv

-----------------------------------------------------------------------------
(* The registry part: what a list of plugins leads to                      *)

LEMMA AcceptedList ==
    ASSUME NEW list \in PluginLists \cup {<<>>}
    PROVE  /\ list \in Seq(Plugin)
           /\ Accepted(list) = {list[i] : i \in DOMAIN list}
           /\ \A p, q \in Accepted(list) : PluginKey[p] = PluginKey[q] => p = q
<1>1. list \in Seq(Plugin)
  <2>1. PluginLists \subseteq Seq(Plugin)
    BY Constants DEF ConstantsOK
  <2>2. <<>> \in Seq(Plugin)
    OBVIOUS
  <2> QED BY <2>1, <2>2
<1>2. \A i, j \in DOMAIN list : PluginKey[list[i]] = PluginKey[list[j]] => i = j
  <2>1. CASE list \in PluginLists
    BY <2>1, PluginListAssumption
  <2>2. CASE list = <<>>
    BY <2>2
  <2> QED BY <2>1, <2>2
<1>3. DOMAIN list = 1..Len(list) /\ Len(list) \in Nat
  BY <1>1
<1>4. \A j \in DOMAIN list : \A h \in 1..(j - 1) : PluginKey[list[h]] # PluginKey[list[j]]
  <2> SUFFICES ASSUME NEW j \in DOMAIN list, NEW h \in 1..(j - 1)
               PROVE  PluginKey[list[h]] # PluginKey[list[j]]
    OBVIOUS
  <2>1. h \in DOMAIN list /\ h # j
    BY <1>3
  <2> QED BY <1>2, <2>1
<1>5. Accepted(list) = {list[i] : i \in DOMAIN list}
  BY <1>4 DEF Accepted
<1> QED BY <1>1, <1>2, <1>5

LEMMA InstallPluginsInv ==
    ASSUME TypeOK, CycleShape, ListenersArePlugins, PendingIsChange, KnowledgeInv,
           AtRest,
           NEW list \in PluginLists \cup {<<>>},
           \A i \in DOMAIN list : list[i] \notin destroyed,
           TablesAreCurrent, InstallPlugins(list)
    PROVE  /\ CycleShape' /\ ListenersArePlugins' /\ PendingIsChange' /\ KnowledgeInv'
           /\ TablesAreCurrent'
<1> DEFINE given   == {list[i] : i \in DOMAIN list}
           removed == plugins \ given
           added   == Accepted(list) \ plugins
<1>1. /\ list \in Seq(Plugin) /\ Accepted(list) = given
      /\ \A p, q \in Accepted(list) : PluginKey[p] = PluginKey[q] => p = q
  BY AcceptedList
<1>2. /\ plugins' = given
      /\ listening' = (listening \ removed) \cup added
      /\ destroyed' = destroyed \cup removed
      /\ starting' = added
      /\ UNCHANGED <<tagMap, pending, cycleVars, aborted>>
  BY <1>1 DEF InstallPlugins, ListeningAfter
<1>3. ListenersArePlugins'
  <2>1. \A p \in given : p \notin destroyed
    OBVIOUS
  <2>2. listening' = plugins'
    BY <1>1, <1>2 DEF ListenersArePlugins
  <2>3. plugins' \cap destroyed' = {}
    BY <1>2, <2>1
  <2>4. telling' \subseteq plugins' /\ starting' \subseteq plugins'
    BY <1>1, <1>2 DEF InstallPlugins, PluginIOsChanged
  <2> QED BY <1>1, <1>2, <2>2, <2>3, <2>4 DEF ListenersArePlugins
<1>4. Accepted(list) \in SUBSET Plugin
  BY <1>1, AcceptedType
<1>5. mapping' = TablesOf(plugins', ios)
  BY <1>1, <1>2, InstallPluginsType
<1>6. mapping'.dests \in [Tag -> SUBSET {PluginKey[p] : p \in plugins'}]
  BY <1>1, <1>2, <1>4, <1>5, MappingInfoType DEF TablesOf
<1>7. toNotify = {} /\ toFinish = {}
  BY DEF AtRest, Idle, CycleShape
<1>8. CycleShape'
  BY <1>2, <1>6, <1>7 DEF CycleShape, cycleVars
<1>9. PendingIsChange'
  BY <1>2 DEF PendingIsChange
<1>10. ReadersInv'
  <2> SUFFICES ASSUME NEW p \in plugins', p \notin silent', NEW t \in Tag, Reads(p, t)
               PROVE  seen'[p][t] = tagMap[t]
    <3>1. ios' = ios
      BY DEF InstallPlugins
    <3> QED BY <1>2, <3>1 DEF ReadersInv, Reads
  <2>1. p \in Plugin
    BY <1>1, <1>2, <1>4
  <2>2. silent' = silent \ added /\ seen'[p] = IF p \in added THEN tagMap ELSE seen[p]
    BY <2>1 DEF InstallPlugins, PluginIOsChanged
  <2>3. p \notin added => p \in plugins \ silent
    BY <1>1, <1>2, <2>2
  <2> QED BY <1>7, <2>2, <2>3 DEF KnowledgeInv, ReadersInv
<1>11. CycleReportInv'
  <2> SUFFICES ASSUME ~ aborted, NEW p \in plugins', NEW t \in Tag
               PROVE  finished'[p][t] = tagMap[t]
    BY <1>2 DEF CycleReportInv
  <2>1. p \in Plugin
    BY <1>1, <1>2, <1>4
  <2>2. finished'[p] = IF p \in added THEN tagMap ELSE finished[p]
    BY <2>1 DEF InstallPlugins
  <2>3. p \notin added => finished[p][t] = tagMap[t]
    BY <1>1, <1>2, <1>7 DEF KnowledgeInv, CycleReportInv, AtRest, Idle
  <2> QED BY <2>2, <2>3
<1>12. TablesAreCurrent'
  BY <1>1, <1>2 DEF InstallPlugins, PluginIOsChanged, TablesOf, TablesAreCurrent
<1> QED BY <1>3, <1>8, <1>9, <1>10, <1>11, <1>12 DEF KnowledgeInv

-----------------------------------------------------------------------------
(* The cycle part                                                          *)

LEMMA StartPassInv ==
    ASSUME TypeOK, CycleShape, TablesAreCurrent,
           NEW changes \in ValuesMap, NEW cycleTags \in SUBSET Tag,
           \A p \in plugins \ silent, t \in Tag :
              Reads(p, t) => seen[p][t] = tagMap[t],
           aborted \/ \A p \in plugins, t \in Tag :
              finished[p][t] = tagMap[t] \/ t \in cycleTags,
           StartPass(changes, cycleTags),
           UNCHANGED <<plugins, ios, silent, mapping, seen, finished, aborted>>
    PROVE  CycleShape' /\ PendingIsChange' /\ KnowledgeInv' /\ phase' # "idle"
<1> DEFINE changed == Changed(changes)
           readers == Readers(changed)
<1>1. /\ tagMap' = Applied(changes)
      /\ pending' = NoValues
      /\ tagsPass' = changed
      /\ tagsCycle' = cycleTags \cup changed
      /\ toNotify' = readers
      /\ phase' = IF readers = {} THEN "cycleDone" ELSE "notify"
      /\ toFinish' = IF readers = {} THEN plugins ELSE {}
  BY DEF StartPass, AddToCycle
<1>2. \A t \in Tag : t \notin changed => tagMap'[t] = tagMap[t]
  BY <1>1 DEF Applied, Changed
<1>3. \A t \in changed : mapping.dests[t] \subseteq readers
  BY DEF Readers
<1>4. readers \subseteq {PluginKey[p] : p \in plugins}
  BY DEF Readers, Changed, CycleShape
<1>5. CycleShape'
  BY <1>1, <1>4 DEF CycleShape
<1>6. PendingIsChange'
  BY <1>1 DEF PendingIsChange, NoValues
<1>7. ReadersInv'
  <2> SUFFICES ASSUME NEW p \in plugins \ silent, NEW t \in Tag, Reads(p, t)
               PROVE  \/ seen[p][t] = tagMap'[t]
                      \/ PluginKey[p] \in toNotify' /\ t \in tagsPass'
    BY DEF ReadersInv, Reads
  <2>1. PluginKey[p] \in mapping.dests[t]
    BY ReadersAreCalled
  <2> QED BY <1>1, <1>2, <1>3, <2>1
<1>8. CycleReportInv'
  <2> SUFFICES ASSUME ~ aborted, NEW p \in plugins, NEW t \in Tag
               PROVE  \/ finished[p][t] = tagMap'[t]
                      \/ t \in tagsCycle' /\ (phase' = "notify" \/ p \in toFinish')
    BY DEF CycleReportInv
  <2>1. CASE t \in tagsCycle'
    BY <1>1, <2>1
  <2>2. CASE t \notin tagsCycle'
    BY <1>1, <1>2, <2>2
  <2> QED BY <2>1, <2>2
<1> QED BY <1>1, <1>5, <1>6, <1>7, <1>8 DEF KnowledgeInv

\* What IInv says between two passes and between two cycles.
LEMMA BetweenPasses ==
    ASSUME CycleShape, KnowledgeInv, toNotify = {}
    PROVE  /\ \A p \in plugins \ silent, t \in Tag :
                  Reads(p, t) => seen[p][t] = tagMap[t]
           /\ aborted \/ \A p \in plugins, t \in Tag :
                  finished[p][t] = tagMap[t] \/ t \in tagsCycle
           /\ phase # "notify" /\ toFinish = {} =>
                aborted \/ \A p \in plugins, t \in Tag : finished[p][t] = tagMap[t]
BY DEF KnowledgeInv, ReadersInv, CycleReportInv

LEMMA RunDispatchQueueInv ==
    ASSUME TypeOK, CycleShape, TablesAreCurrent, KnowledgeInv, Idle,
           NEW changes \in ValuesMap, NEW time \in Clock, RunDispatchQueue(time, changes),
           UNCHANGED <<plugins, ios, silent, mapping, seen, finished, aborted>>
    PROVE  CycleShape' /\ PendingIsChange' /\ KnowledgeInv' /\ phase' # "idle"
<1>1. toNotify = {} /\ toFinish = {} /\ phase # "notify"
  BY DEF CycleShape, Idle
<1>2. StartPass(changes, {}) /\ {} \in SUBSET Tag
  BY DEF RunDispatchQueue
<1>3. aborted \/ \A p \in plugins, t \in Tag : finished[p][t] = tagMap[t] \/ t \in {}
  BY <1>1, BetweenPasses
<1>4. \A p \in plugins \ silent, t \in Tag :
         Reads(p, t) => seen[p][t] = tagMap[t]
  BY <1>1, BetweenPasses
<1> QED BY <1>2, <1>3, <1>4, StartPassInv

LEMMA LeaveCycleInv ==
    ASSUME TypeOK, CycleShape, KnowledgeInv, PendingIsChange, toNotify = {},
           NEW ok \in BOOLEAN, LeaveCycle(ok),
           ok => pending = NoValues /\ toFinish = {} /\ phase # "notify",
           UNCHANGED <<plugins, ios, silent, mapping, seen, finished, tagMap, pending, timer>>
    PROVE  CycleShape' /\ PendingIsChange' /\ KnowledgeInv' /\ PendingHasTimer'
<1>1. /\ phase' = "idle" /\ lastOk' = ok /\ aborted' = (aborted \/ ~ ok)
      /\ tagsPass' = {} /\ tagsCycle' = {} /\ toNotify' = {} /\ toFinish' = {}
  BY DEF LeaveCycle
<1>2. CycleShape'
  BY <1>1 DEF CycleShape
<1>3. PendingIsChange'
  BY DEF PendingIsChange
<1>4. ReadersInv'
  BY <1>1, BetweenPasses DEF ReadersInv, Reads
<1>5. CycleReportInv'
  BY <1>1, BetweenPasses DEF CycleReportInv
<1>6. PendingHasTimer'
  BY <1>1 DEF PendingHasTimer
<1> QED BY <1>2, <1>3, <1>4, <1>5, <1>6 DEF KnowledgeInv

LEMMA DispatchInv ==
    ASSUME TypeOK, CycleShape, TablesAreCurrent, KnowledgeInv, PendingIsChange,
           TimerBound, PendingHasTimer, Idle, NEW p \in Plugin, NEW batch \in Batch, Dispatch(p, batch),
           UNCHANGED <<plugins, ios, silent, mapping, stopped>>
    PROVE  CycleShape' /\ PendingIsChange' /\ KnowledgeInv' /\ TimerBound' /\ PendingHasTimer'
<1> DEFINE changes == PendingAfter(p, batch)
<1>1. changes \in ValuesMap
  BY PendingAfterType
<1>2. UNCHANGED <<lastOk, aborted, seen, finished>>
  BY DEF Dispatch
<1>3. ASSUME pending' = changes, UNCHANGED <<tagMap, cycleVars>>
      PROVE  CycleShape' /\ PendingIsChange' /\ KnowledgeInv'
  <2>1. PendingIsChange'
    BY <1>3, PendingAfterIsChange DEF PendingIsChange
  <2>2. CycleShape'
    BY <1>3 DEF CycleShape, cycleVars
  <2>3. KnowledgeInv'
    BY <1>2, <1>3 DEF KnowledgeInv, ReadersInv, Reads, CycleReportInv, cycleVars
  <2> QED BY <2>1, <2>2, <2>3
<1>4. CASE ~ DataChanged(changes)
  <2>1. pending' = changes /\ UNCHANGED <<tagMap, timer, cycleVars>>
    BY <1>4 DEF Dispatch
  <2>2. PendingHasTimer'
    <3>1. changes # NoValues => pending # NoValues
      BY <1>1, <1>4 DEF DataChanged, NoValues, ValuesMap, TypeOK
    <3> QED BY <1>2, <2>1, <3>1 DEF PendingHasTimer, Idle, cycleVars
  <2> QED BY <1>3, <2>1, <2>2 DEF TimerBound
<1>5. CASE DataChanged(changes)
  <2>1. PICK time \in Clock :
          LET wait == lastIngest + MinIngestInterval - time
          IN  \/ /\ wait <= 0
                 /\ RunDispatchQueue(time, changes)
                 /\ UNCHANGED timer
              \/ /\ wait > 0
                 /\ pending' = changes
                 /\ timer' = IF timer # NoTimer THEN timer ELSE Delay(wait)
                 /\ UNCHANGED <<tagMap, lastIngest, cycleVars>>
    BY <1>5 DEF Dispatch
  <2>2. CASE RunDispatchQueue(time, changes) /\ UNCHANGED timer
    <3>1. CycleShape' /\ PendingIsChange' /\ KnowledgeInv' /\ phase' # "idle"
      BY <1>1, <1>2, <2>2, RunDispatchQueueInv
    <3> QED BY <2>2, <3>1 DEF TimerBound, PendingHasTimer, Idle
  <2>3. CASE /\ lastIngest + MinIngestInterval - time > 0
             /\ pending' = changes
             /\ timer' = IF timer # NoTimer THEN timer
                         ELSE Delay(lastIngest + MinIngestInterval - time)
             /\ UNCHANGED <<tagMap, lastIngest, cycleVars>>
    <3>1. time \in Int /\ lastIngest \in Int /\ MinIngestInterval \in Nat
      BY Constants DEF ConstantsOK, TypeOK
    <3>2. timer' \in 0..MinIngestInterval
      BY <2>3, <3>1 DEF Delay, TimerBound
    <3> QED BY <1>3, <2>3, <3>2 DEF TimerBound, PendingHasTimer
  <2> QED BY <2>1, <2>2, <2>3
<1> QED BY <1>4, <1>5

-----------------------------------------------------------------------------
(* The invariant holds initially and every step preserves it               *)

LEMMA InitInv == Init => IInv
<1> SUFFICES ASSUME Init PROVE IInv
  OBVIOUS
<1>1. TypeOK
  BY InitTypeOK
<1>2. mapping.dests \in [Tag -> SUBSET {PluginKey[p] : p \in {}}]
  BY MappingInfoType, {} \in SUBSET Plugin DEF Init
<1>3. CycleShape
  BY <1>2 DEF Init, CycleShape
<1>4. ListenersArePlugins
  BY DEF Init, ListenersArePlugins
<1>5. PendingIsChange /\ PendingHasTimer
  BY DEF Init, PendingIsChange, PendingHasTimer, NoValues
<1>6. TimerBound
  BY DEF Init, TimerBound
<1>7. KnowledgeInv
  BY DEF Init, KnowledgeInv, ReadersInv, CycleReportInv
<1>8. TablesAreCurrent
  <2>1. plugins = {} /\ readIOs = ios /\ mapping = CalculateMappingInfo({}, ios)
    BY DEF Init
  <2> QED BY <2>1 DEF TablesAreCurrent
<1> QED BY <1>1, <1>3, <1>4, <1>5, <1>6, <1>7, <1>8 DEF IInv

LEMMA NextInv == IInv /\ [Next]_vars => IInv'
<1> SUFFICES ASSUME IInv, [Next]_vars PROVE IInv'
  OBVIOUS
<1> DEFINE CycleInv == CycleShape /\ PendingIsChange /\ KnowledgeInv
                       /\ TimerBound /\ PendingHasTimer /\ TablesAreCurrent
<1> USE DEF registryVars
<1>0. /\ TypeOK /\ CycleShape /\ ListenersArePlugins /\ TablesAreCurrent
      /\ PendingIsChange /\ TimerBound /\ PendingHasTimer /\ KnowledgeInv
  BY DEF IInv
<1>t. TypeOK'
  BY <1>0, NextTypeOK
<1> SUFFICES ListenersArePlugins' /\ CycleInv'
  BY <1>t DEF IInv
<1>u. ASSUME UNCHANGED <<plugins, ios, readIOs, silent, mapping>> PROVE TablesAreCurrent'
  BY <1>0, <1>u DEF TablesAreCurrent
<1>1. ASSUME NEW p \in Plugin, EmitData(p) PROVE ListenersArePlugins' /\ CycleInv'
  <2>1. PICK batch \in Batches[p] : Dispatch(p, batch)
    BY <1>1 DEF EmitData
  <2>2. batch \in Batch
    BY <2>1, Constants DEF ConstantsOK
  <2>3. Idle /\ UNCHANGED registryVars
    BY <1>1 DEF EmitData, AtRest
  <2> QED BY <1>0, <1>u, <2>1, <2>2, <2>3, DispatchInv DEF ListenersArePlugins
<1>2. CASE Tick
  <2>1. timer' = timer - 1 /\ timer > 0
        /\ UNCHANGED <<registryVars, tagMap, pending, cycleVars, lastOk, seen, finished, aborted>>
    BY <1>2 DEF Tick
  <2>2. timer \in 1..MinIngestInterval /\ timer' \in 0..MinIngestInterval
    BY <1>0, <2>1, Constants DEF TimerBound, NoTimer, ConstantsOK
  <2>3. TimerBound' /\ PendingHasTimer'
    BY <2>2 DEF TimerBound, PendingHasTimer
  <2>4. CycleShape' /\ ListenersArePlugins'
    BY <1>0, <2>1 DEF CycleShape, ListenersArePlugins, cycleVars
  <2>5. PendingIsChange' /\ KnowledgeInv'
    BY <1>0, <2>1
       DEF PendingIsChange, KnowledgeInv, ReadersInv, Reads, CycleReportInv, cycleVars
  <2> QED BY <1>u, <2>1, <2>3, <2>4, <2>5
<1>3. CASE IngestTimeout
  <2>1. PICK time \in Clock : RunDispatchQueue(time, pending)
    BY <1>3 DEF IngestTimeout
  <2>2. /\ Idle /\ timer' = NoTimer
        /\ UNCHANGED <<registryVars, seen, finished, aborted>>
    BY <1>3 DEF IngestTimeout, AtRest
  <2>3. pending \in ValuesMap
    BY <1>0 DEF TypeOK
  <2>4. CycleShape' /\ PendingIsChange' /\ KnowledgeInv' /\ phase' # "idle"
    BY <1>0, <2>1, <2>2, <2>3, RunDispatchQueueInv
  <2> QED BY <1>0, <1>u, <2>2, <2>4
          DEF ListenersArePlugins, TimerBound, PendingHasTimer, Idle
<1>4. ASSUME NEW k \in Key, InputsChanged(k) PROVE ListenersArePlugins' /\ CycleInv'
  <2> DEFINE q == Member(k)
  <2>1. /\ phase = "notify" /\ k \in toNotify /\ toNotify' = toNotify \ {k}
        /\ seen' = [seen EXCEPT ![q] =
                      [t \in Tag |-> IF t \in tagsPass THEN tagMap[t] ELSE seen[q][t]]]
        /\ UNCHANGED <<registryVars, tagMap, timer, phase, tagsPass, tagsCycle,
                       toFinish, lastOk, finished, aborted>>
    BY <1>4 DEF InputsChanged
  <2>2. q \in plugins /\ PluginKey[q] = k
    BY <1>0, <2>1, MemberOfKey
  <2>3. PICK batch \in Reaction(q) : pending' = PendingAfter(q, batch)
    BY <1>4 DEF InputsChanged
  <2>4. batch \in Batch
    BY <1>0, <2>2, <2>3, ReactionType DEF TypeOK
  <2>5. PendingIsChange'
    BY <1>0, <2>1, <2>3, <2>4, PendingAfterIsChange DEF PendingIsChange
  <2>6. ReadersInv'
    <3> SUFFICES ASSUME NEW p \in plugins \ silent, NEW t \in Tag, Reads(p, t)
                 PROVE  \/ seen'[p][t] = tagMap[t]
                        \/ PluginKey[p] \in toNotify' /\ t \in tagsPass
      BY <2>1 DEF ReadersInv, Reads
    <3>1. p \in Plugin
      BY <1>0 DEF TypeOK
    <3>2. \/ seen[p][t] = tagMap[t]
          \/ PluginKey[p] \in toNotify /\ t \in tagsPass
      BY <1>0 DEF KnowledgeInv, ReadersInv
    <3>3. CASE p = q
      <4>1. seen'[p] = [u \in Tag |-> IF u \in tagsPass THEN tagMap[u] ELSE seen[q][u]]
        BY <1>0, <2>1, <3>1, <3>3 DEF TypeOK
      <4> QED BY <3>2, <3>3, <4>1
    <3>4. CASE p # q
      <4>1. seen'[p] = seen[p]
        BY <1>0, <2>1, <3>1, <3>4 DEF TypeOK
      <4>2. PluginKey[p] # k
        BY <1>0, <2>2, <3>4 DEF ListenersArePlugins
      <4> QED BY <2>1, <3>2, <4>1, <4>2
    <3> QED BY <3>3, <3>4
  <2>7. CycleReportInv'
    BY <1>0, <2>1 DEF KnowledgeInv, CycleReportInv
  <2>8. CycleShape' /\ ListenersArePlugins'
    BY <1>0, <2>1 DEF CycleShape, ListenersArePlugins
  <2>9. TimerBound' /\ PendingHasTimer'
    BY <1>0, <2>1 DEF TimerBound, PendingHasTimer, Idle
  <2> QED BY <1>u, <2>1, <2>5, <2>6, <2>7, <2>8, <2>9 DEF KnowledgeInv
<1>5. CASE NextPass
  <2>1. /\ phase = "notify" /\ toNotify = {}
        /\ UNCHANGED <<registryVars, lastIngest, timer, seen, finished>>
    BY <1>5 DEF NextPass
  <2>2. ListenersArePlugins' /\ TimerBound'
    BY <1>0, <2>1 DEF ListenersArePlugins, TimerBound
  <2>3. CASE StartPass(pending, tagsCycle) /\ UNCHANGED <<outer, lastOk, aborted>>
    <3>1. pending \in ValuesMap /\ tagsCycle \in SUBSET Tag
      BY <1>0 DEF TypeOK
    <3>2. CycleShape' /\ PendingIsChange' /\ KnowledgeInv' /\ phase' # "idle"
      BY <1>0, <2>1, <2>3, <3>1, BetweenPasses, StartPassInv
    <3> QED BY <1>u, <2>1, <2>2, <3>2 DEF PendingHasTimer, Idle
  <2>4. CASE LeaveCycle(FALSE) /\ UNCHANGED <<tagMap, pending>>
    BY <1>0, <1>u, <2>1, <2>2, <2>4, LeaveCycleInv
  <2> QED BY <1>5, <2>3, <2>4 DEF NextPass
<1>6. ASSUME NEW p \in Plugin, DispatchCycleDone(p) PROVE ListenersArePlugins' /\ CycleInv'
  <2>1. /\ phase = "cycleDone" /\ p \in toFinish /\ toFinish' = toFinish \ {p}
        /\ finished' = [finished EXCEPT ![p] =
                          [t \in Tag |-> IF t \in tagsCycle THEN tagMap[t] ELSE finished[p][t]]]
        /\ UNCHANGED <<registryVars, tagMap, timer, phase, tagsPass, tagsCycle,
                       toNotify, lastOk, seen, aborted>>
    BY <1>6 DEF DispatchCycleDone
  <2>2. PICK batch \in Reaction(p) : pending' = PendingAfter(p, batch)
    BY <1>6 DEF DispatchCycleDone
  <2>3. batch \in Batch
    BY <2>2, ReactionType
  <2>4. PendingIsChange'
    BY <1>0, <2>1, <2>2, <2>3, PendingAfterIsChange DEF PendingIsChange
  <2>5. CycleReportInv'
    <3> SUFFICES ASSUME ~ aborted, NEW r \in plugins, NEW t \in Tag
                 PROVE  \/ finished'[r][t] = tagMap[t]
                        \/ t \in tagsCycle /\ r \in toFinish'
      BY <2>1 DEF CycleReportInv
    <3>1. r \in Plugin
      BY <1>0 DEF TypeOK
    <3>2. \/ finished[r][t] = tagMap[t]
          \/ t \in tagsCycle /\ r \in toFinish
      BY <1>0, <2>1 DEF KnowledgeInv, CycleReportInv
    <3>3. finished'[r] = IF r = p
                         THEN [u \in Tag |-> IF u \in tagsCycle THEN tagMap[u] ELSE finished[p][u]]
                         ELSE finished[r]
      BY <1>0, <2>1, <3>1 DEF TypeOK
    <3> QED BY <2>1, <3>2, <3>3
  <2>6. ReadersInv'
    BY <1>0, <2>1 DEF KnowledgeInv, ReadersInv, Reads
  <2>7. CycleShape' /\ ListenersArePlugins'
    BY <1>0, <2>1 DEF CycleShape, ListenersArePlugins
  <2>8. TimerBound' /\ PendingHasTimer'
    BY <1>0, <2>1 DEF TimerBound, PendingHasTimer, Idle
  <2> QED BY <1>u, <2>1, <2>4, <2>5, <2>6, <2>7, <2>8 DEF KnowledgeInv
<1>7. CASE EndCycle
  <2>1. /\ phase = "cycleDone" /\ toFinish = {}
        /\ UNCHANGED <<registryVars, lastIngest, timer, seen, finished>>
    BY <1>7 DEF EndCycle
  <2>2. toNotify = {}
    BY <1>0, <2>1 DEF CycleShape
  <2>3. ListenersArePlugins' /\ TimerBound'
    BY <1>0, <2>1 DEF ListenersArePlugins, TimerBound
  <2>4. CASE StartPass(pending, {}) /\ UNCHANGED <<lastOk, aborted>>
    <3>1. pending \in ValuesMap /\ {} \in SUBSET Tag
      BY <1>0 DEF TypeOK
    <3>2. aborted \/ \A p \in plugins, t \in Tag : finished[p][t] = tagMap[t] \/ t \in {}
      BY <1>0, <2>1, <2>2, BetweenPasses
    <3>3. CycleShape' /\ PendingIsChange' /\ KnowledgeInv' /\ phase' # "idle"
      BY <1>0, <2>1, <2>2, <2>4, <3>1, <3>2, BetweenPasses, StartPassInv
    <3> QED BY <1>u, <2>1, <2>3, <3>3 DEF PendingHasTimer, Idle
  <2>5. ASSUME NEW ok \in BOOLEAN, LeaveCycle(ok), ok => pending = NoValues,
               UNCHANGED <<tagMap, pending>>
        PROVE  CycleInv'
    BY <1>0, <1>u, <2>1, <2>2, <2>3, <2>5, LeaveCycleInv
  <2> QED BY <1>7, <2>3, <2>4, <2>5 DEF EndCycle
<1>8. ASSUME NEW p \in Plugin, StartPlugin(p) \/ TagsChanged(p)
      PROVE  ListenersArePlugins' /\ CycleInv'
  <2>1. PICK batch \in Reaction(p) : Dispatch(p, batch)
    BY <1>8 DEF StartPlugin, TagsChanged
  <2>2. batch \in Batch
    BY <2>1, ReactionType
  <2>3. /\ Idle /\ telling' \subseteq telling /\ starting' \subseteq starting
        /\ UNCHANGED <<plugins, listening, destroyed, stopped, ios, readIOs, silent, mapping>>
    BY <1>8 DEF StartPlugin, TagsChanged
  <2> QED BY <1>0, <1>u, <2>1, <2>2, <2>3, DispatchInv DEF ListenersArePlugins
<1>9. ASSUME NEW p \in Plugin, IOsChanged(p) PROVE ListenersArePlugins' /\ CycleInv'
  <2>1. /\ AtRest
        /\ UNCHANGED <<plugins, listening, starting, destroyed, stopped, tagMap, pending,
                       timer, cycleVars, lastOk, finished, aborted>>
    BY <1>9 DEF IOsChanged
  <2>2. PICK declared \in IOChoices[p] :
           /\ ios' = [ios EXCEPT ![p] = declared]
           /\ PluginIOsChanged(plugins, ios', {p})
    BY <1>9 DEF IOsChanged
  <2>3. plugins \in SUBSET Plugin
    BY <1>0 DEF TypeOK
  <2>4. /\ mapping' = TablesOf(plugins, ios') /\ telling' \subseteq plugins
        /\ readIOs' = ios' /\ silent' = silent \ {p}
        /\ seen' = [r \in Plugin |-> IF r \in {p} THEN tagMap ELSE seen[r]]
    BY <2>2 DEF PluginIOsChanged
  <2>5. mapping'.dests \in [Tag -> SUBSET {PluginKey[r] : r \in plugins}]
    BY <2>3, <2>4, MappingInfoType DEF TablesOf
  <2>6. CycleShape'
    BY <1>0, <2>1, <2>5 DEF CycleShape, cycleVars
  <2>7. ReadersInv'
    <3> SUFFICES ASSUME NEW r \in plugins, r \notin silent', NEW t \in Tag, Reads(r, t)'
                 PROVE  seen'[r][t] = tagMap[t]
      BY <2>1 DEF ReadersInv
    <3>1. r \in Plugin
      BY <2>3
    <3>2. CASE r = p
      BY <2>4, <3>1, <3>2
    <3>3. CASE r # p
      <4>1. ios'[r] = ios[r] /\ seen'[r] = seen[r] /\ r \notin silent
        BY <1>0, <2>2, <2>4, <3>1, <3>3 DEF TypeOK
      <4>2. Reads(r, t)
        BY <4>1 DEF Reads
      <4> QED BY <1>0, <2>1, <4>1, <4>2
              DEF KnowledgeInv, ReadersInv, AtRest, Idle, CycleShape
    <3> QED BY <3>2, <3>3
  <2>8. CycleReportInv'
    BY <1>0, <2>1 DEF KnowledgeInv, CycleReportInv, cycleVars
  <2>9. ListenersArePlugins' /\ PendingIsChange' /\ TimerBound' /\ PendingHasTimer'
    BY <1>0, <2>1, <2>4 DEF ListenersArePlugins, PendingIsChange, TimerBound,
                            PendingHasTimer, Idle, cycleVars
  <2>10. TablesAreCurrent'
    BY <2>1, <2>4 DEF TablesOf, TablesAreCurrent
  <2> QED BY <2>6, <2>7, <2>8, <2>9, <2>10 DEF KnowledgeInv
<1>13. ASSUME NEW p \in Plugin, IOsChangeSilently(p) PROVE ListenersArePlugins' /\ CycleInv'
  <2>1. /\ silent' = silent \cup {p}
        /\ UNCHANGED <<plugins, listening, telling, starting, destroyed, stopped, mapping,
                       readIOs, tagMap, pending, timer, cycleVars, lastOk, seen, finished,
                       aborted>>
    BY <1>13 DEF IOsChangeSilently
  <2>2. PICK declared : ios' = [ios EXCEPT ![p] = declared]
    BY <1>13 DEF IOsChangeSilently
  <2>3. \A r \in plugins \ silent' : ios'[r] = ios[r] /\ r \in plugins \ silent
    BY <1>0, <2>1, <2>2 DEF TypeOK
  <2>4. TablesAreCurrent'
    BY <1>0, <2>1, <2>3 DEF TablesAreCurrent
  <2>5. ReadersInv'
    BY <1>0, <2>1, <2>3 DEF KnowledgeInv, ReadersInv, Reads, cycleVars
  <2>6. CycleReportInv' /\ CycleShape' /\ ListenersArePlugins'
    BY <1>0, <2>1
       DEF KnowledgeInv, CycleReportInv, CycleShape, ListenersArePlugins, cycleVars
  <2>7. PendingIsChange' /\ TimerBound' /\ PendingHasTimer'
    BY <1>0, <2>1 DEF PendingIsChange, TimerBound, PendingHasTimer, Idle, cycleVars
  <2> QED BY <2>4, <2>5, <2>6, <2>7 DEF KnowledgeInv
<1>10. CASE SetPlugins
  <2>1. PICK list \in PluginLists :
           /\ \A i \in DOMAIN list : list[i] \notin destroyed
           /\ InstallPlugins(list)
    BY <1>10 DEF SetPlugins
  <2>2. AtRest /\ UNCHANGED <<stopped, timer>>
    BY <1>10 DEF SetPlugins
  <2>3. /\ CycleShape' /\ ListenersArePlugins' /\ PendingIsChange' /\ KnowledgeInv'
        /\ TablesAreCurrent'
    BY <1>0, <2>1, <2>2, InstallPluginsInv
  <2>4. TimerBound' /\ PendingHasTimer'
    BY <1>0, <2>1, <2>2
       DEF TimerBound, PendingHasTimer, Idle, InstallPlugins, cycleVars
  <2> QED BY <2>3, <2>4
<1>11. CASE Stop
  <2>1. AtRest /\ stopped' = TRUE /\ timer' = NoTimer /\ InstallPlugins(<<>>)
    BY <1>11 DEF Stop
  <2>2. /\ CycleShape' /\ ListenersArePlugins' /\ PendingIsChange' /\ KnowledgeInv'
        /\ TablesAreCurrent'
    BY <1>0, <2>1, InstallPluginsInv
  <2>3. TimerBound' /\ PendingHasTimer'
    BY <2>1 DEF TimerBound, PendingHasTimer
  <2> QED BY <2>2, <2>3
<1>12. CASE UNCHANGED vars
  <2>1. CycleShape' /\ ListenersArePlugins' /\ PendingIsChange'
    BY <1>0, <1>12 DEF vars, CycleShape, ListenersArePlugins, PendingIsChange, cycleVars
  <2>2. KnowledgeInv' /\ TimerBound' /\ PendingHasTimer'
    BY <1>0, <1>12 DEF vars, KnowledgeInv, ReadersInv, Reads, CycleReportInv, TimerBound,
                       PendingHasTimer, Idle, cycleVars
  <2> QED BY <1>u, <1>12, <2>1, <2>2 DEF vars
<1> QED BY <1>1, <1>2, <1>3, <1>4, <1>5, <1>6, <1>7, <1>8, <1>9, <1>10, <1>11, <1>12, <1>13
        DEF Next, Running

-----------------------------------------------------------------------------
(* The theorems                                                            *)

\* The inductive invariant holds in every reachable state of the router.
THEOREM Invariance == Spec => []IInv
<1> QED BY InitInv, NextInv, PTL DEF Spec

\* Every reachable state has the shape TypeOK gives: in particular the sanity
\* counts of _runDispatchQueue stay within their limits.
THEOREM TypeCorrectness == Spec => []TypeOK
<1>1. IInv => TypeOK
  BY DEF IInv
<1> QED BY <1>1, Invariance, PTL

\* setPlugins leaves the router listening to the plugins it calls, and to no
\* others, whatever lists it is given and whatever is emitted meanwhile.
THEOREM ListenersArePluginsAlways == Spec => []ListenersArePlugins
<1>1. IInv => ListenersArePlugins
  BY DEF IInv
<1> QED BY <1>1, Invariance, PTL

\* Nothing waits in _dispatchTagMap that is already in the tag map.
THEOREM PendingIsChangeAlways == Spec => []PendingIsChange
<1>1. IInv => PendingIsChange
  BY DEF IInv
<1> QED BY <1>1, Invariance, PTL

\* Data that waits for the rate limit has a timer of bounded length, for any
\* clock at all.
THEOREM PendingHasTimerAlways == Spec => []PendingHasTimer
<1>1. IInv => PendingHasTimer
  BY DEF IInv
<1> QED BY <1>1, Invariance, PTL

\* Between cycles every plugin has been handed the tag map's values of what it
\* declares to read, for any number of plugins that emit anything from any
\* callback and any sequence of replacements and remappings, unless its own
\* declarations changed without an event.
THEOREM ReadersAreCurrentAlways == Spec => []ReadersAreCurrent
<1>1. IInv => ReadersAreCurrent
  BY DEF IInv, KnowledgeInv, ReadersInv, CycleShape, ReadersAreCurrent, Idle
<1> QED BY <1>1, Invariance, PTL

\* Unless a sanity count has given a cycle up, every plugin's
\* dispatchCycleDone has reported every value in the tag map.
THEOREM CyclesAreReportedAlways == Spec => []CyclesAreReported
<1>1. IInv => CyclesAreReported
  <2> SUFFICES ASSUME IInv, Idle, ~ aborted, NEW p \in plugins
               PROVE  finished[p] = tagMap
    BY DEF CyclesAreReported
  <2>1. TypeOK /\ CycleShape /\ CycleReportInv
    BY DEF IInv, KnowledgeInv
  <2>2. \A t \in Tag : finished[p][t] = tagMap[t]
    BY <2>1 DEF CycleReportInv, CycleShape, Idle
  <2>3. finished[p] \in ValuesMap /\ tagMap \in ValuesMap
    BY <2>1 DEF TypeOK
  <2> QED BY <2>2, <2>3 DEF ValuesMap
<1> QED BY <1>1, Invariance, PTL

\* The tag map stands still from the first to the last call of a pass, and
\* from the first to the last dispatchCycleDone of a cycle.
THEOREM SnapshotsStayStable == Spec => SnapshotsAreStable
<1> DEFINE Stable == toNotify # {} \/ toFinish # {} => UNCHANGED tagMap
<1>1. IInv /\ [Next]_vars => [Stable]_vars
  <2> SUFFICES ASSUME CycleShape, [Next]_vars, toNotify # {} \/ toFinish # {},
                      vars' # vars
               PROVE  UNCHANGED tagMap
    BY DEF IInv
  <2>1. ~ Idle /\ ~ AtRest
    BY DEF CycleShape, Idle, AtRest
  <2>2. ~ NextPass /\ ~ EndCycle
    BY DEF CycleShape, NextPass, EndCycle
  <2>3. ASSUME NEW p \in Plugin
        PROVE  /\ ~ EmitData(p) /\ ~ IOsChanged(p) /\ ~ IOsChangeSilently(p)
               /\ ~ StartPlugin(p) /\ ~ TagsChanged(p)
    BY <2>1 DEF EmitData, IOsChanged, IOsChangeSilently, StartPlugin, TagsChanged
  <2>4. ~ Tick /\ ~ IngestTimeout /\ ~ SetPlugins /\ ~ Stop
    BY <2>1 DEF Tick, IngestTimeout, SetPlugins, Stop
  <2>5. \/ \E k \in Key : InputsChanged(k)
        \/ \E p \in Plugin : DispatchCycleDone(p)
    BY <2>2, <2>3, <2>4 DEF Next, Running
  <2> QED BY <2>5 DEF InputsChanged, DispatchCycleDone
<1> QED BY <1>1, Invariance, PTL DEF Spec, SnapshotsAreStable

-----------------------------------------------------------------------------
(* The registry: the cached tables, and what plugins know of the tags of   *)
(* the system.                                                             *)

LEMMA CommandsAreNoNames == Name \cap SetCommand = {}
BY SetCommandAssumption

-----------------------------------------------------------------------------
(* The tables                                                              *)

\* Of a plugin that is not about to be told or to start, what it knows is up
\* to date.
KnownInv ==
    \A p \in plugins \ (telling \cup starting) : knownTags[p] \ InternalName = mapping.publicTags

LEMMA PublicTagsOfInfo ==
    ASSUME NEW installed, NEW declared
    PROVE  LET info == CalculateMappingInfo(installed, declared)
           IN  info.publicTags = info.tags \ InternalName
BY DEF CalculateMappingInfo

\* A plugin that knew the public tags and is not about to be told knows them
\* afterwards, whatever list of plugins the tables are computed for.
LEMMA PluginIOsChangedTells ==
    ASSUME NEW installed, NEW declared, NEW informed,
           PluginIOsChanged(installed, declared, informed),
           NEW p \in installed, p \notin telling',
           knownTags[p] \ InternalName = mapping.publicTags
    PROVE  knownTags[p] \ InternalName = mapping'.publicTags
<1>1. ~ PublicTagsDiffer(TablesOf(installed, declared))
  BY DEF PluginIOsChanged
<1> QED BY <1>1 DEF PluginIOsChanged, PublicTagsDiffer

LEMMA InstallPluginsRegistry ==
    ASSUME KnownInv, AtRest, NEW list, InstallPlugins(list)
    PROVE  KnownInv'
<1>1. /\ plugins' = Accepted(list) /\ knownTags' = knownTags
      /\ starting' = Accepted(list) \ plugins
      /\ PluginIOsChanged(Accepted(list), ios, Accepted(list) \ plugins)
  BY DEF InstallPlugins
<1> SUFFICES ASSUME NEW p \in plugins', p \notin telling', p \notin starting'
             PROVE  knownTags[p] \ InternalName = mapping'.publicTags
  BY <1>1 DEF KnownInv
<1>2. p \in plugins \ (telling \cup starting)
  BY <1>1 DEF AtRest
<1> QED BY <1>1, <1>2, PluginIOsChangedTells DEF KnownInv

\* A plugin that is told, or starts, looks at the tags there are.
LEMMA ToldKnows ==
    ASSUME TypeOK, TablesAreCurrent, KnownInv, NEW p \in Plugin,
           knownTags' = [knownTags EXCEPT ![p] = mapping.tags],
           telling \cup starting \subseteq telling' \cup starting' \cup {p},
           UNCHANGED <<plugins, mapping>>
    PROVE  KnownInv'
<1>1. mapping.publicTags = mapping.tags \ InternalName
  BY PublicTagsOfInfo DEF TablesAreCurrent
<1> SUFFICES ASSUME NEW q \in plugins, q \notin telling' \cup starting'
             PROVE  knownTags'[q] \ InternalName = mapping.publicTags
  BY DEF KnownInv
<1>2. CASE q = p
  BY <1>1, <1>2 DEF TypeOK
<1>3. CASE q # p
  <2>1. knownTags'[q] = knownTags[q] /\ q \notin telling \cup starting
    BY <1>3 DEF TypeOK
  <2> QED BY <2>1 DEF KnownInv
<1> QED BY <1>2, <1>3

LEMMA NextRegistry == IInv /\ KnownInv /\ [Next]_vars => KnownInv'
<1> SUFFICES ASSUME IInv, KnownInv, [Next]_vars PROVE KnownInv'
  OBVIOUS
<1>0. TypeOK /\ TablesAreCurrent
  BY DEF IInv
<1>1. ASSUME UNCHANGED registryVars PROVE KnownInv'
  BY <1>1 DEF registryVars, KnownInv
<1>2. ASSUME NEW p \in Plugin, EmitData(p) PROVE KnownInv'
  BY <1>1, <1>2 DEF EmitData
<1>3. CASE Tick \/ IngestTimeout \/ NextPass \/ EndCycle
  BY <1>1, <1>3 DEF Tick, IngestTimeout, NextPass, EndCycle
<1>4. ASSUME NEW k \in Key, InputsChanged(k) PROVE KnownInv'
  BY <1>1, <1>4 DEF InputsChanged
<1>5. ASSUME NEW p \in Plugin, DispatchCycleDone(p) PROVE KnownInv'
  BY <1>1, <1>5 DEF DispatchCycleDone
<1>6. ASSUME NEW p \in Plugin, StartPlugin(p) PROVE KnownInv'
  BY <1>0, <1>6, ToldKnows DEF StartPlugin
<1>7. ASSUME NEW p \in Plugin, TagsChanged(p) PROVE KnownInv'
  BY <1>0, <1>7, ToldKnows DEF TagsChanged
<1>8. ASSUME NEW p \in Plugin, IOsChanged(p) PROVE KnownInv'
  <2>1. PluginIOsChanged(plugins, ios', {p}) /\ AtRest /\ UNCHANGED <<plugins, starting, knownTags>>
    BY <1>8 DEF IOsChanged
  <2> SUFFICES ASSUME NEW q \in plugins, q \notin telling', q \notin starting
               PROVE  knownTags[q] \ InternalName = mapping'.publicTags
    BY <2>1 DEF KnownInv
  <2>2. knownTags[q] \ InternalName = mapping.publicTags
    BY <2>1 DEF KnownInv, AtRest
  <2> QED BY <2>1, <2>2, PluginIOsChangedTells
<1>9. ASSUME NEW p \in Plugin, IOsChangeSilently(p) PROVE KnownInv'
  BY <1>9 DEF IOsChangeSilently, KnownInv
<1>10. CASE SetPlugins
  <2>1. AtRest /\ \E list \in PluginLists : InstallPlugins(list)
    BY <1>10 DEF SetPlugins
  <2> QED BY <2>1, InstallPluginsRegistry
<1>11. CASE Stop
  <2>1. AtRest /\ InstallPlugins(<<>>)
    BY <1>11 DEF Stop
  <2> QED BY <2>1, InstallPluginsRegistry
<1>12. CASE UNCHANGED vars
  BY <1>1, <1>12 DEF vars
<1> QED BY <1>2, <1>3, <1>4, <1>5, <1>6, <1>7, <1>8, <1>9, <1>10, <1>11, <1>12
        DEF Next, Running

\* The cached tables are always those of the plugins that are registered, with
\* the declarations the router last read; those are the plugins' present ones,
\* but for plugins whose declarations changed without an event.  And every
\* plugin knows the public tags.  For all sequences of lists, starts, remappings
\* and silent changes, with data emitted from inside tagsChanged() and start().
THEOREM RegistryStaysCurrent == Spec => []RegistryIsCurrent
<1>1. Init => KnownInv
  BY DEF Init, KnownInv
<1>2. IInv /\ KnownInv => RegistryIsCurrent
  BY DEF IInv, RegistryIsCurrent, PublicTagsAreKnown, KnownInv, AtRest
<1> QED BY <1>1, <1>2, NextRegistry, Invariance, PTL DEF Spec

-----------------------------------------------------------------------------
(* What the tables say                                                     *)

LEMMA NoSourcesNoDuplicate == ~ IsDuplicate({})
BY DEF IsDuplicate, SettableOf, UnsettableOf

\* A provider is one of the locations; all others give way to it.
LEMMA ProviderIsASource ==
    ASSUME NEW locations, ProviderOf(locations) # None
    PROVE  \E l \in locations :
              /\ PluginKey[l.plugin] = ProviderOf(locations)
              /\ \A other \in locations \ {l} :
                    l.mapping.settable /\ ~ other.mapping.settable
<1>1. locations # {} /\ ~ IsDuplicate(locations)
  BY DEF ProviderOf
<1>2. CASE SettableOf(locations) # {}
  <2> DEFINE l == CHOOSE s \in SettableOf(locations) : TRUE
  <2>1. l \in locations /\ l.mapping.settable
    <3>1. l \in SettableOf(locations)
      BY <1>2
    <3> QED BY <3>1 DEF SettableOf
  <2>2. PluginKey[l.plugin] = ProviderOf(locations)
    BY <1>1, <1>2 DEF ProviderOf
  <2>3. \A other \in locations \ {l} : ~ other.mapping.settable
    BY <1>1, <2>1 DEF IsDuplicate, SettableOf
  <2> QED BY <2>1, <2>2, <2>3
<1>3. CASE SettableOf(locations) = {}
  <2> DEFINE l == CHOOSE s \in UnsettableOf(locations) : TRUE
  <2>0. UnsettableOf(locations) = locations
    BY <1>3 DEF SettableOf, UnsettableOf
  <2>1. l \in UnsettableOf(locations)
    BY <1>1, <2>0
  <2>2. PluginKey[l.plugin] = ProviderOf(locations)
    BY <1>1, <1>3 DEF ProviderOf
  <2>3. locations \ {l} = {}
    BY <1>1, <2>0, <2>1 DEF IsDuplicate
  <2> QED BY <2>0, <2>1, <2>2, <2>3
<1> QED BY <1>2, <1>3

LEMMA NoProvider ==
    ASSUME NEW installed \in SUBSET Plugin, NEW declared, NEW n \in Name,
           ProviderOf(Sources(installed, declared, n)) = None
    PROVE  Sources(installed, declared, n) = {} \/ IsDuplicate(Sources(installed, declared, n))
<1> DEFINE S == Sources(installed, declared, n)
<1> SUFFICES ASSUME S # {}, ~ IsDuplicate(S) PROVE FALSE
  OBVIOUS
<1>1. \A l \in S : PluginKey[l.plugin] # None
  BY Constants DEF Sources, Locations, ConstantsOK
<1>2. CASE SettableOf(S) # {}
  <2> DEFINE l == CHOOSE s \in SettableOf(S) : TRUE
  <2>1. l \in S
    BY <1>2 DEF SettableOf
  <2>2. PluginKey[l.plugin] = None
    BY <1>2 DEF ProviderOf
  <2> QED BY <1>1, <2>1, <2>2
<1>3. CASE SettableOf(S) = {}
  <2> DEFINE l == CHOOSE s \in UnsettableOf(S) : TRUE
  <2>1. UnsettableOf(S) = S
    BY <1>3 DEF SettableOf, UnsettableOf
  <2>2. l \in S
    BY <2>1
  <2>3. PluginKey[l.plugin] = None
    BY <1>3 DEF ProviderOf
  <2> QED BY <1>1, <2>2, <2>3
<1> QED BY <1>2, <1>3

\* A problem of the first kind is one of a tag with too many sources, at one
\* of them.
LEMMA MultipleSourcesOf ==
    ASSUME NEW installed, NEW declared, NEW n \in Name
    PROVE  {problem.location : problem \in
               {q \in MultipleSourcesProblems(installed, declared) : q.tag = n}}
             = IF IsDuplicate(Sources(installed, declared, n))
               THEN Sources(installed, declared, n) ELSE {}
<1> DEFINE S(m) == Sources(installed, declared, m)
           P(m, l) == [location |-> l, tag |-> m, problem |-> "multipleSources",
                       additionalSources |-> AdditionalSources(S(m), l)]
           all == MultipleSourcesProblems(installed, declared)
           at  == {problem.location : problem \in {q \in all : q.tag = n}}
<1>1. \A q : q \in all <=> \E m \in Name : IsDuplicate(S(m)) /\ \E l \in S(m) : q = P(m, l)
  BY DEF MultipleSourcesProblems, Reported
<1>2. \A m, l : P(m, l).tag = m /\ P(m, l).location = l
  OBVIOUS
<1>3. \A l : l \in at <=> IsDuplicate(S(n)) /\ l \in S(n)
  <2>1. ASSUME NEW l \in at PROVE IsDuplicate(S(n)) /\ l \in S(n)
    <3>1. PICK q \in all : q.tag = n /\ l = q.location
      BY <2>1
    <3>2. PICK m \in Name : IsDuplicate(S(m)) /\ \E k \in S(m) : q = P(m, k)
      BY <1>1
    <3>3. PICK k \in S(m) : q = P(m, k)
      BY <3>2
    <3>4. m = n /\ k = l
      BY <1>2, <3>1, <3>3
    <3> QED BY <3>2, <3>3, <3>4
  <2>2. ASSUME IsDuplicate(S(n)), NEW l \in S(n) PROVE l \in at
    <3>1. P(n, l) \in all
      BY <1>1, <2>2
    <3>2. P(n, l) \in {q \in all : q.tag = n} /\ l = P(n, l).location
      BY <1>2, <3>1
    <3> QED BY <3>2
  <2> QED BY <2>1, <2>2
<1>4. IsDuplicate(S(n)) => at = S(n)
  BY <1>3
<1>5. ~ IsDuplicate(S(n)) => at = {}
  BY <1>3
<1> QED BY <1>4, <1>5

\* One of the second kind is one of a tag with no source, at one of its readers.
LEMMA NoSourceOf ==
    ASSUME NEW installed, NEW declared, NEW n \in Name
    PROVE  {problem.location : problem \in
               {q \in NoSourceProblems(installed, declared) : q.tag = n}}
             = IF /\ ProviderOf(Sources(installed, declared, n)) = None
                  /\ ~ IsDuplicate(Sources(installed, declared, n))
               THEN {r \in Locations(installed, declared) : n \in r.mapping.tagsToPlugin}
               ELSE {}
<1> DEFINE S(m) == Sources(installed, declared, m)
           missing(m) == ProviderOf(S(m)) = None /\ ~ IsDuplicate(S(m))
           P(m, l) == [location |-> l, tag |-> m, problem |-> "noSource",
                       additionalSources |-> {}]
           L   == Locations(installed, declared)
           all == NoSourceProblems(installed, declared)
           at  == {problem.location : problem \in {q \in all : q.tag = n}}
           readers == {r \in L : n \in r.mapping.tagsToPlugin}
<1>1. \A q : q \in all <=> \E l \in L : \E m \in l.mapping.tagsToPlugin \ SetCommand :
                              missing(m) /\ q = P(m, l)
  BY DEF NoSourceProblems
<1>2. \A m, l : P(m, l).tag = m /\ P(m, l).location = l
  OBVIOUS
<1>3. \A l : l \in at <=> missing(n) /\ l \in readers
  <2>1. ASSUME NEW l \in at PROVE missing(n) /\ l \in readers
    <3>1. PICK q \in all : q.tag = n /\ l = q.location
      BY <2>1
    <3>2. PICK k \in L : \E m \in k.mapping.tagsToPlugin \ SetCommand :
                            missing(m) /\ q = P(m, k)
      BY <1>1
    <3>3. PICK m \in k.mapping.tagsToPlugin \ SetCommand : missing(m) /\ q = P(m, k)
      BY <3>2
    <3>4. m = n /\ k = l
      BY <1>2, <3>1, <3>3
    <3> QED BY <3>3, <3>4
  <2>2. ASSUME missing(n), NEW l \in readers PROVE l \in at
    <3>1. n \in l.mapping.tagsToPlugin \ SetCommand
      BY CommandsAreNoNames
    <3>2. P(n, l) \in all
      BY <1>1, <2>2, <3>1
    <3>3. P(n, l) \in {q \in all : q.tag = n} /\ l = P(n, l).location
      BY <1>2, <3>2
    <3> QED BY <3>3
  <2> QED BY <2>1, <2>2
<1>4. missing(n) => at = readers
  BY <1>3
<1>5. ~ missing(n) => at = {}
  BY <1>3
<1> QED BY <1>4, <1>5

LEMMA TablesAreReported == TypeOK /\ TablesAreCurrent => MappingIsReported
<1> SUFFICES ASSUME TypeOK, TablesAreCurrent PROVE MappingIsReported
  OBVIOUS
<1> DEFINE S(n) == Sources(plugins, readIOs, n)
<1>0. plugins \in SUBSET Plugin
  BY DEF TypeOK
<1>1. \A n \in Name : mapping.provider[n] = ProviderOf(S(n))
  BY DEF TablesAreCurrent, CalculateMappingInfo
<1>2. mapping.problems = MultipleSourcesProblems(plugins, readIOs) \cup NoSourceProblems(plugins, readIOs)
  BY DEF TablesAreCurrent, CalculateMappingInfo
<1>3. ProviderIsUnambiguous
  <2> SUFFICES ASSUME NEW n \in Name, ProviderOf(S(n)) # None
               PROVE  \E l \in S(n) :
                         /\ PluginKey[l.plugin] = ProviderOf(S(n))
                         /\ \A other \in S(n) \ {l} :
                               l.mapping.settable /\ ~ other.mapping.settable
    BY <1>1 DEF ProviderIsUnambiguous
  <2> QED BY ProviderIsASource
<1>4. BrokenReadsAreReported
  <2> SUFFICES ASSUME NEW n \in Name, mapping.provider[n] = None
               PROVE  {problem.location : problem \in {q \in mapping.problems : q.tag = n}}
                        = IF S(n) = {}
                          THEN {r \in Locations(plugins, readIOs) : n \in r.mapping.tagsToPlugin}
                          ELSE S(n)
    BY DEF BrokenReadsAreReported
  <2> DEFINE At(problems) == {problem.location : problem \in {q \in problems : q.tag = n}}
             multiple == MultipleSourcesProblems(plugins, readIOs)
             none     == NoSourceProblems(plugins, readIOs)
  <2>1. At(mapping.problems) = At(multiple) \cup At(none)
    BY <1>2
  <2>2. At(multiple) = IF IsDuplicate(S(n)) THEN S(n) ELSE {}
    BY MultipleSourcesOf
  <2>3. At(none) = IF ProviderOf(S(n)) = None /\ ~ IsDuplicate(S(n))
                   THEN {r \in Locations(plugins, readIOs) : n \in r.mapping.tagsToPlugin} ELSE {}
    BY NoSourceOf
  <2>4. ProviderOf(S(n)) = None
    BY <1>1
  <2>5. CASE S(n) = {}
    <3>1. ~ IsDuplicate(S(n))
      BY <2>5, NoSourcesNoDuplicate
    <3> QED BY <2>1, <2>2, <2>3, <2>4, <2>5, <3>1
  <2>6. CASE S(n) # {}
    <3>1. IsDuplicate(S(n))
      BY <1>0, <2>4, <2>6, NoProvider
    <3> QED BY <2>1, <2>2, <2>3, <2>6, <3>1
  <2> QED BY <2>5, <2>6
<1> QED BY <1>3, <1>4 DEF MappingIsReported

\* Whatever the router has read that plugins declare, a tag has one provider
\* that its other sources give way to, or it has none and everybody who is
\* concerned is told.
THEOREM MappingStaysReported == Spec => []MappingIsReported
<1>1. IInv => MappingIsReported
  BY TablesAreReported DEF IInv
<1> QED BY <1>1, Invariance, PTL

=============================================================================
