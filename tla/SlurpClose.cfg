\* A read that fails.
CONSTANTS
  Bytes = {"a", "b", "NUL"}
  MaxFileSize = 4
  Inodes = {"f", "g"}
  Versions <- MCVersions
SPECIFICATION Spec
INVARIANT ClosesFile
