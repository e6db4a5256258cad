SPECIFICATION MCSpec
CONSTANTS
  Builders = {b1, b2}
  Emu = {1, 2, 3, 4}
  None = None
  Tunes <- MCTunes
  Configs <- MCConfigs
  Default <- MCDefault
  Folders <- MCFolders
  Buffers <- MCBuffers
  Loaders = {"loadFile", "callback"}
SYMMETRY Interchangeable
INVARIANT UsedDevices
