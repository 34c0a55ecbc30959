SPECIFICATION ChainSpec
CONSTANTS
  BlockContents <- MCBlockContents
  Slots = 2
  MaxBlocks = 4
  PageSize = 2
  LogsPageMax = 3
  BlockLogsPageMax = 4
  ResultsPageMax = 5
  RetryCount = 2
  Retries = 1
  RetryCodes = {404}
  MaxBlockRange = 0
  BlockRangeLimit = 1
  MaxTimeRange = 6
  PercentageBuffer = 10
  EntityType <- MCEntityType
  EvmAddress <- MCEvmAddress
  Accounts = {"a", "b"}
  InitialBalance = 10
  BalancesInterval = 5
  AccountPage = 2
  PendingCount = 1
  CreatedAt <- MCCreatedAt
  MaxGas = 5
  RevertStatuses = {"WRONG_NONCE", "INVALID_ACCOUNT_ID"}
  MaxBlockSize = 9
  FeeHistoryMax = 3
  FeeHistoryFixed = FALSE
  AddressLists <- MCAddressLists
  MaxPagination = 3
  DebugEnabled = TRUE
  OpcodesEnabled = TRUE
INVARIANTS StatesAtBlock BlocksAgree NoImmatureAnswers LogsOfRange TracesAgree
CHECK_DEADLOCK FALSE
