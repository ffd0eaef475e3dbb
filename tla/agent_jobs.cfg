SPECIFICATION FairSpec
CONSTANTS
  Urls <- MCUrls
  Hints <- MCHints
  Texts <- MCTexts
  Noise = {"ad"}
  Similar <- MCSimilar
  Agreeing <- MCAgreeing
  Searches <- MCSearches
  PagesOf <- MCPagesOf
  HasLangSearch = TRUE
  MaxSources = 2
  MaxPerChunk = 2
  Pages = {"gov", "news", "blog"}
  NoUrl = "none"
  OwnSource <- MCOwnSource
  HitLists <- MCHitLists
  MaxHits = 2
  TextCases <- MCTextCases
  Agents = {a1, a2}
  Files = {"notes", "env"}
  Guarded = {"env"}
  Lines = {"base", "new", "log"}
  Absent = Absent
  Unread = Unread
  Offered = {"file_read", "file_write", "file_edit", "folder_create", "folder_list", "shell_run"}
  Requests <- MCRequests
  MaxUses = 3
  Contents <- MCContents
  Outputs <- MCOutputs
INVARIANTS TypeOK DisputesExact BestSourcesKept ReportOfOneAttempt VerdictFollows
  PostsCoverText RefusedForCause PostsFilled OneAttached
PROPERTIES LostOnlyByStaleWriter JobsEnd
\* Jobs end.
CHECK_DEADLOCK FALSE
