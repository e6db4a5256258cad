SPECIFICATION Spec
CONSTANTS
  FALL_OFF = 2
  Files <- MCFiles
  Wild <- MCWild
  DirValues <- MCDirValues
  DataValues <- MCDataValues
INVARIANTS SongPlays DriverWorks ChargeHolds HooksOfTune
PROPERTIES CodeVisible BankKept
