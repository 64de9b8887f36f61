\* One valid configuration and its edits, four vaults, six files.
CONSTANTS
  Settings <- MCSettings
  Units <- MCUnits
  IntWidth <- MCIntWidth
  Lower <- MCLower
  Configurations <- MCConfigurations
  Vaults <- MCVaults
  SuppressionFiles <- MCSuppressionFiles
  Requests <- MCRequests
  RecipientDomain <- MCRecipientDomain
  MaxSuppressions = 2
  RecipientOrder <- MCRecipientOrder
  ListedByDefault = 2
  ListedAtMost = 3
  Addresses <- MCAddresses
  RawRequests <- MCRawRequests
  Literals <- MCLiterals
  Locales <- MCLocales
  VarNames <- MCVarNames
  Normalized <- MCNormalized
  PlainPlaces <- PlainZeros
  MaxBody = 10
  MaxTemplateVars = 8
  MaxContext = 8
  MaxFields = 2
SPECIFICATION Spec
INVARIANTS StartsAgain ServesEveryRequest AttemptsReachProvider RouteHonoured FingerprintFaithful OneCaller
