SPECIFICATION Spec
CHECK_DEADLOCK FALSE
CONSTANTS
  Valid <- MCValid
  Rel <- MCRel
  Abs <- MCAbs
  KiB <- MCKiB
  V6 = {"::2"}
  Loopback = {"127.0.0.1"}
  Files <- MCFiles
  Texts <- MCTexts
  MaxEdits = 1
  Profiles = {"a", "b"}
  Docs <- MCDocs
  MaxDepth = 3
  MaxEdited = 1
  Names <- MCNames
  Buffers = {"c0", "c1", "bad"}
  PaneRows = 2
  ProfileRows = 1
  Page = 1
  Report = 1
  MaxStarted = 1
  MaxOutside = 1
INVARIANT EscLeads
