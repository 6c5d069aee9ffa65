\* Files of up to four bytes, one more than the array takes.
CONSTANTS
  Bytes = {"a", "b", "NUL"}
  MaxFileSize = 4
  Inodes = {"f", "g"}
  Versions <- MCVersions
SPECIFICATION FairSpec
INVARIANTS
  TypeOK
  BytesInPlace
PROPERTY Terminates
