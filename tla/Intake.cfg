CONSTANTS
  Blank = Blank
  Dot = Dot
  Absent = Absent
  Placeholder = Placeholder
  Word = Word
  Files <- AllFiles
  MaxControlArchiveSize = 2560
  MaxControlFileSize = 600
SPECIFICATION Spec
INVARIANTS
  TypeOK
  AcceptsWellFormed
  EntryDescribesFile
  PessimisticBounds
PROPERTIES
  RepublishKeepsConforming
