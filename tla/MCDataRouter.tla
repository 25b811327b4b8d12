---------------------------- MODULE MCDataRouter -----------------------------
(***************************************************************************)
(* Small instances of the DataRouter.  Plugin io (the Local I/O plugin)    *)
(* provides the settable tag x and reads its set command and y; plugin     *)
(* mqtt, and mqtt2 that replaces it, provide y, read x and also set x.     *)
(***************************************************************************)
EXTENDS DataRouter, TLC

CONSTANTS x, y, z, io, mqtt, mqtt2, ioKey, mqttKey, c1, c2

Channel(id, from, to, settable) ==
    [id |-> id, tagFromPlugin |-> from, tagsToPlugin |-> to, settable |-> settable]

OneTag(n, v) == [NoBatch EXCEPT ![n] = v]

-----------------------------------------------------------------------------
(* Dispatching: fixed mappings, data that loops through both plugins.      *)

DName == {x, y}
DPlugin == {io, mqtt}
DPluginKey == (io :> ioKey) @@ (mqtt :> mqttKey)
DIO == (io   :> {<<Channel(c1, x, {tagToSetCommand(x), y}, TRUE)>>})
    @@ (mqtt :> {<<Channel(c1, y, {x}, FALSE)>>})
DBatches == (io   :> {OneTag(x, 0), OneTag(x, 1)})
         @@ (mqtt :> {OneTag(y, 0), [OneTag(y, 2) EXCEPT ![x] = 1]})
\* Only y is rounded: 2 and 1 are the same.
DRound == [t \in Tag |-> [v \in Value |-> IF t = y /\ v = 2 THEN 1 ELSE v]]
DLists == {<<io, mqtt>>}

-----------------------------------------------------------------------------
(* Replacing plugins and remapping: x may be settable, duplicated, without *)
(* a source, or declared twice by one plugin, and the internal tag z comes *)
(* and goes.                                                               *)

Reader(id, to) == Channel(id, None, to, FALSE)

RName == {x, y, z}
RPlugin == {io, mqtt, mqtt2}
RPluginKey == (io :> ioKey) @@ (mqtt :> mqttKey) @@ (mqtt2 :> mqttKey)
RIO == (io    :> {<<Channel(c1, x, {tagToSetCommand(x), y}, TRUE)>>,
                  <<Reader(c1, {x, y}), Channel(c2, z, {}, FALSE)>>})
    @@ (mqtt  :> {<<Channel(c1, y, {}, FALSE), Reader(c2, {x})>>})
    @@ (mqtt2 :> {<<Channel(c1, x, {z}, FALSE)>>,
                  <<Channel(c2, x, {x}, FALSE), Channel(c1, x, {}, TRUE)>>})
RBatches == [p \in RPlugin |-> {OneTag(x, 0)}]
RRound == [t \in Tag |-> [v \in Value |-> v]]
RLists == {<<io>>, <<mqtt, io>>, <<io, mqtt2>>, <<mqtt2>>}

=============================================================================
