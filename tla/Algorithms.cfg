SPECIFICATION AlgorithmsSpec
CONSTANTS
  Unset = Unset  Null = Null
  Day = 2  FetchChunk = 2
  MaxPasses = 3
  Inbox = Inbox  Sent = Sent  Trash = Trash
  PerCap = 2  TotalCap = 3  MaxNames = 3  Digits <- SmallDigits
  Line = 8  TailSize = 12
  MessageIds <- SmallIds
  Boxes <- SmallBoxes  Queries <- SmallQueries  Vanishing <- SmallVanishing
  FolderNames = {"x", "y", "z"}  FolderLists <- SmallFolders  Dates <- SmallDates  Limits <- SmallLimits
  MailAccounts <- SmallAccounts
  CandidateLists <- SmallCandidates  KnownIdSets <- SmallKnown
  NameParts <- SmallParts  AttachmentLists <- SmallAttachments  Saves <- SmallSaves
  PartSizes <- SmallSizes  Ranges <- SmallRanges
CHECK_DEADLOCK FALSE
INVARIANTS NewestMatching AllFoldersExact WholeThread WalkClosed CapsHold NothingOverwritten WindowExact
