SPECIFICATION PricingSpec
CONSTANTS
  Table <- MCTable
  Names <- MCNames
  Registered <- MCRegistered
  LiteLLM <- MCLiteLLM
  MaxInput = 2
  MaxOutput = 1
PROPERTIES
  BillExact
  UnknownNotCheaper
  EstimateCovers
CONSTRAINT OneRegistersOrRaceName
CHECK_DEADLOCK FALSE
