\* Two overlapping calls, the command, one visitor, one fault.
CONSTANTS
  c1 = c1
  c2 = c2
  k1 = k1
  v1 = v1
  Calls = {c1, c2}
  Commands = {k1}
  Visitors = {v1}
  MaxWorlds = 14
  MaxFaults = 1
SPECIFICATION FairSpec
PROPERTIES
  KeepsWorlds
  DailyWorld
