SPECIFICATION Spec
CONSTANTS
  None = None
  Connections = Connections  QueueBrowser = QueueBrowser  Discovery = Discovery  Explorer = Explorer
  Order <- ByPriority
  c1 = c1  c2 = c2  c3 = c3
  Confs <- SomeConfs
  Wide <- OneWide
  MaxLoads = 2
  MaxPages = 2
INVARIANTS StartIsComplete ConnectionIsValidated ButtonTells RowsAreOfConnection
PROPERTY EndsForCause
CHECK_DEADLOCK FALSE
