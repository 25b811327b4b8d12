----------------------------- MODULE MappingInfo -----------------------------
(***************************************************************************)
(* calculateMappingInfo: from the I/O mappings that every registered data  *)
(* plugin declares, the routing tables the DataRouter works with.  A pure  *)
(* function of its input; src/server/data-router/calculateMappingInfo.js.  *)
(***************************************************************************)
EXTENDS FiniteSets

CONSTANTS Name,          \* tag names that users and plugins give to data
          InternalName,  \* the names that start with "_internal/"
          Plugin,        \* plugin instances
          Key,           \* plugin keys: JSON of [pluginType, pluginId]
          PluginKey,     \* the key of each instance
          MappingId,     \* channel ids
          None           \* no tag, no value, no plugin

ASSUME NamesAssumption == InternalName \subseteq Name
ASSUME KeysAssumption  == PluginKey \in [Plugin -> Key]
ASSUME NoneAssumption  == None \notin Name \cup Key

\* A set command is the tag another plugin's value for a settable tag is
\* written to; it is internal and nobody declares it as an output.
tagToSetCommand(n) == <<"_internal/tagSet", n>>

SetCommand == {tagToSetCommand(n) : n \in Name}

\* Nobody gives data the name of a set command.
ASSUME SetCommandAssumption == Name \cap SetCommand = {}

Tag        == Name \cup SetCommand

\* One declared channel of a plugin.
Mapping == [id: MappingId, tagFromPlugin: Name \cup {None},
            tagsToPlugin: SUBSET Tag, settable: BOOLEAN]

-----------------------------------------------------------------------------
(* Step 1: the sources and the destination plugins of every tag.           *)

\* A place in the system: one mapping of one plugin.
Locations(installed, ios) ==
    UNION {{[plugin |-> p, index |-> i, mapping |-> ios[p][i]] : i \in DOMAIN ios[p]}
             : p \in installed}

Sources(installed, ios, n) ==
    {l \in Locations(installed, ios) : l.mapping.tagFromPlugin = n}

\* Mutated form: one reader of a tag replaces another one in the table.
Destinations_Replaced(installed, ios, t) ==
    LET readers == {PluginKey[p] : p \in {q \in installed :
                        \E i \in DOMAIN ios[q] : t \in ios[q][i].tagsToPlugin}}
    IN  IF readers = {} THEN {} ELSE {CHOOSE k \in readers : TRUE}

Destinations(installed, ios, t) ==
    {PluginKey[p] : p \in {q \in installed :
                              \E i \in DOMAIN ios[q] : t \in ios[q][i].tagsToPlugin}}

(* Step 2: a tag may have one source, or one settable and one that is not. *)

SettableOf(locations)   == {l \in locations : l.mapping.settable}
UnsettableOf(locations) == {l \in locations : ~ l.mapping.settable}

IsDuplicate(locations) ==
    \/ \E a, b \in SettableOf(locations)   : a # b
    \/ \E a, b \in UnsettableOf(locations) : a # b

\* The settable source wins over the other one.
ProviderOf(locations) ==
    IF locations = {} \/ IsDuplicate(locations) THEN None
    ELSE IF SettableOf(locations) # {}
         THEN PluginKey[(CHOOSE l \in SettableOf(locations) : TRUE).plugin]
         ELSE PluginKey[(CHOOSE l \in UnsettableOf(locations) : TRUE).plugin]

\* The source list a multipleSources report carries: the code takes the one
\* element that splice cuts out of a copy of the list, the location itself.
AdditionalSources(locations, l) == {l}

\* Mutated form: the settable sources of a conflict are not reported.
Reported_Unsettable(sources) == UnsettableOf(sources)

Reported(sources) == sources

MultipleSourcesProblems(installed, ios) ==
    UNION {LET sources == Sources(installed, ios, n)
           IN  IF IsDuplicate(sources)
               THEN {[location |-> l, tag |-> n, problem |-> "multipleSources",
                      additionalSources |-> AdditionalSources(sources, l)]
                       : l \in Reported(sources)}
               ELSE {} : n \in Name}

(* Step 3: a tag that a plugin reads and nobody provides.  Set commands    *)
(* have no declared source and are left out.                               *)

NoSourceProblems(installed, ios) ==
    LET missing(n) == LET sources == Sources(installed, ios, n)
                      IN  ProviderOf(sources) = None /\ ~ IsDuplicate(sources)
    IN  UNION {{[location |-> l, tag |-> t, problem |-> "noSource",
                 additionalSources |-> {}]
                  : t \in {u \in l.mapping.tagsToPlugin \ SetCommand : missing(u)}}
                 : l \in Locations(installed, ios)}

-----------------------------------------------------------------------------

CalculateMappingInfo(installed, ios) ==
    LET sourced == {n \in Name : Sources(installed, ios, n) # {}}
    IN  [tags       |-> sourced,
         publicTags |-> sourced \ InternalName,
         provider   |-> [n \in Name |-> ProviderOf(Sources(installed, ios, n))],
         dests      |-> [t \in Tag |-> Destinations(installed, ios, t)],
         duplicates |-> {n \in Name : IsDuplicate(Sources(installed, ios, n))},
         problems   |-> MultipleSourcesProblems(installed, ios)
                          \cup NoSourceProblems(installed, ios)]

=============================================================================
