\* Plugin replacement and remapping, with data on the way.
SPECIFICATION Spec
CONSTANTS
  x = x
  y = y
  z = z
  io = io
  mqtt = mqtt
  mqtt2 = mqtt2
  ioKey = ioKey
  mqttKey = mqttKey
  c1 = c1
  c2 = c2
  None = None
  Name <- RName
  InternalName = {z}
  Plugin <- RPlugin
  Key = {ioKey, mqttKey}
  PluginKey <- RPluginKey
  MappingId = {c1, c2}
  Value = {0}
  Batches <- RBatches
  PluginLists <- RLists
  IOChoices <- RIO
  Round <- RRound
  Clock = {0, 2}
  MinIngestInterval = 2
  InnerLimit = 3
  OuterLimit = 3
INVARIANTS
  ListenersArePlugins
  RegistryIsCurrent
  MappingIsReported
  ReadersAreCurrent
CHECK_DEADLOCK FALSE
