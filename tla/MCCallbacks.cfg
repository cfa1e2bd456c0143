SPECIFICATION CallbacksFairSpec
CONSTANTS
  t1 = t1
  t2 = t2
  net = net
  load = load
  e1 = e1
  ServiceThread = {t1, t2}
  Producer = {net, load}
  Loader = load
  Main = Main
  Event = {e1}
  NoCallback = NoCallback
  Limit = 1
  MaxPending = 2
  MaxTasks = 1
PROPERTIES
  ImplementsQueue
  SyncEnds
  ShutdownEndsOrCutOff
CHECK_DEADLOCK FALSE
