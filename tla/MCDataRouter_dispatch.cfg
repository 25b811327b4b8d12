\* Digest cycles: both sanity counts, cancelling changes, rate limit; every cycle
\* ends and accepted data is ingested.
SPECIFICATION FairSpec
CONSTANTS
  x = x
  y = y
  z = z
  io = io
  mqtt = mqtt
  mqtt2 = mqtt2
  ioKey = ioKey
  mqttKey = mqttKey
  c1 = c1
  c2 = c2
  None = None
  Name <- DName
  InternalName = {}
  Plugin <- DPlugin
  Key = {ioKey, mqttKey}
  PluginKey <- DPluginKey
  MappingId = {c1}
  Value = {0, 1, 2}
  Batches <- DBatches
  PluginLists <- DLists
  IOChoices <- DIO
  Round <- DRound
  Clock = {0, 3}
  MinIngestInterval = 2
  InnerLimit = 3
  OuterLimit = 2
INVARIANTS
  TypeOK
  PendingHasTimer
  ReadersAreCurrent
  CyclesAreReported
PROPERTIES
  SnapshotsAreStable
  CyclesEnd
  PendingIsIngested
CHECK_DEADLOCK FALSE
