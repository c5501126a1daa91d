SPECIFICATION Spec
CONSTANTS
  MaxUploads = 2
  MaxResets = 2
  MaxFails = 1
  Limit = 2
  MaxBoots = 4
  MaxGen = 2
INVARIANTS
  TypesOK
  WritesComeUp
  LoaderHonest
  LoaderKeeps
  RestartInOrder
  BootKept
  FilesKept
PROPERTIES
  NeverOvertaken
CHECK_DEADLOCK FALSE
