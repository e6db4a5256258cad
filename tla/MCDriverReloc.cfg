SPECIFICATION Spec
CONSTANTS
  FALL_OFF = 2
  Files <- MCFiles
  Wild <- MCWild
  DirValues <- MCDirValues
  DataValues <- MCDataValues
INVARIANT RelocInfoChecked
