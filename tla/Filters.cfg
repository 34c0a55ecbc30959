SPECIFICATION FairSpec
CONSTANTS
  BlockContents <- MCBlockContents
  Slots = 1
  MaxBlocks = 3
  PageSize = 1
  LogsPageMax = 9
  BlockLogsPageMax = 9
  ResultsPageMax = 9
  RetryCount = 1
  Retries = 1
  RetryCodes = {404}
  MaxBlockRange = 5
  BlockRangeLimit = 1
  MaxTimeRange = 9
  PercentageBuffer = 0
  EntityType <- MCAddresses
  EvmAddress <- MCAddresses
  FilterIds = {f1}
  Requests = {r1, r2}
  FromBlocks <- MCFromBlocks
  ToBlocks <- MCToBlocks
  Enabled = TRUE
  Redis = TRUE
  MaxFaults = 1
INVARIANTS LostHasCause RepeatsHaveCause
PROPERTY EveryChangeIsAnswered
CHECK_DEADLOCK FALSE
