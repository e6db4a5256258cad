SPECIFICATION MCSpec
CONSTANTS
  Byte = 3
  HighBytes = {0, 2}
  Models = {"6526", "8521"}
  Source = {"TB", "SP"}
  TimerB = "TB"
  OnAccess = {"SP"}
  SerialModels = {TRUE, FALSE}
  Gaps = {1, 2}
  Stale = {2, 4, 6}
  Programs <- MCPrograms
  MaxTenths = 2
INVARIANTS QueuedOnce Agree FlagsOwed LineExplained Signalled BytesAnnounced CutOffRightly
PROPERTIES TimerExpires BytesEnd KeepsTime OneMoment AlarmOnce
