SPECIFICATION Spec
CONSTANTS
  Words <- TwoWords
  TextOrder <- AsTexts
  Versions <- SixVersions
  Malformed <- BadVersions
  Requests <- OneRequest
  IncludePrerelease = TRUE
  MinVersion <- Lowest
  MaxVersion = None
  MaxEntries = 3
  None = None
  rc = rc
  zero1 = zero1
  request = request
INVARIANTS NotPassedOver QuietAnswerIsHighest LatestIsHighest
