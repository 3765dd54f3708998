\* Two discs with the same CDDB id, two entries, two restarts.
SPECIFICATION Spec
CONSTANTS
  Discs = {"single", "album"}
  Starts <- MCStarts
  Tracks <- MCTracks
  Leadout <- MCLeadout
  WithText = {"album"}
  LastTrack = 2
  Ids = {"id1", "id2"}
  DiscId <- MCDiscId
  Entries = {"e1", "e2"}
  EntryId <- MCEntryId
  Offsets <- MCOffsets
  Titles <- MCTitles
  MaxCrash = 2
INVARIANTS
  IInv
  TagsAreForDisc
  KnownIsFound
  FileIsInMemory
\* Nothing is left to ask once every disc is found and MaxCrash is reached.
CHECK_DEADLOCK FALSE
