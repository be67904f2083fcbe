\* Threads run and I/O ends; but a converter need not end, and its deadline may be far.
SPECIFICATION HostConvSpec
CONSTANTS
  Downloads = {d1}
  Converting = d1
  Free = Free
  MaxOpens = 2
  Genuine = {1}
  MaxExecutables = 2
  MaxContents = 3
  Blocks = {b1, b2}
  MaxWrites = 2
INVARIANTS NoUseAfterReset OnlyProbedExecutableRuns GroupStopped DeliveredOutputWhole
PROPERTY CloseEnds
CHECK_DEADLOCK FALSE
