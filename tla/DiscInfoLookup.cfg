\* The same discs and entries: what is stored and not found.
SPECIFICATION Spec
CONSTANTS
  Discs = {"single", "album"}
  Starts <- MCStarts
  Tracks <- MCTracks
  Leadout <- MCLeadout
  WithText = {"album"}
  LastTrack = 2
  Ids = {"id1", "id2"}
  DiscId <- MCDiscId
  Entries = {"e1", "e2"}
  EntryId <- MCEntryId
  Offsets <- MCOffsets
  Titles <- MCTitles
  MaxCrash = 2
PROPERTIES
  LookupWorks
