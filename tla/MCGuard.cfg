\* Two application threads, the watchdog, and callbacks and clocks that fail.
SPECIFICATION Spec
CONSTANTS
  t1 = t1  t2 = t2
  NoCall = NoCall
  Threads <- MCThreads2
  Watchdog = 2
  MaxSeq = 2
  MaxDepth = 2
  MaxNow = 5
CHECK_DEADLOCK FALSE
INVARIANTS DrivenOnlyArmed
PROPERTIES WatchdogStops KeepsPromise
