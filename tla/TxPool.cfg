SPECIFICATION Spec
CONSTANTS
  Calls = {1, 2, 3}
  Shapes <- MCShapes
  Funds <- MCFunds
  Unbalanced = {"f"}
  SignatureRequired = {"d"}
  Subsidized = {"c"}
  Limits <- MCLimits
  Chain = 1
  NetworkGasPrice = 5
  GasPriceBuffer = 1
  TinybarToWeibar = 10
  GasCosts <- MCGasCosts
  MaxFaults = 1
INVARIANTS  PoolViewsAgree
CHECK_DEADLOCK FALSE
