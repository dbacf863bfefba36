CONSTANTS
  Blank = Blank
  Dot = Dot
  Absent = Absent
  Placeholder = Placeholder
  Word = Word
  Files <- FoldedFiles
  MaxControlArchiveSize = 2560
  MaxControlFileSize = 600
SPECIFICATION Spec
PROPERTIES
  RepublishKeeps
