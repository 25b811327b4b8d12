\* Publishing and receiving, under four configurations.
SPECIFICATION FairSpec
CONSTANTS
  x = x
  y = y
  mx = mx
  my = my
  None = None
  Null = Null
  BadValue = BadValue
  Tag = {x, y}
  MqttTag = {mx, my, x, y}
  Config <- AllConfigs
  Value = {0, Null}
  Scale <- Times1
  item = item
  Items <- SomeItems
  ClockSteps <- BackAndForth
  MaxAge = 3
INVARIANTS
  Inv
  ChangesAreSent
PROPERTIES
  DestroyedIsQuiet
  ChangesGoOut
