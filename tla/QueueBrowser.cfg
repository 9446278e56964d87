SPECIFICATION BrowserSpec
CONSTANTS
  q1 = q1  q2 = q2  q3 = q3
  Queues <- ThreeQueues
  Content <- SomeContent
  MaxBindings = 2
  Cap = 2
  Conds <- OneCond
  Meets <- SomeMeet
  MaxBrowsers = 3
  Null = Null
INVARIANTS ShownIsStored WithinLimits
PROPERTY DeletesWhatIsShown
VIEW Seen
CHECK_DEADLOCK FALSE
