SPECIFICATION FairSpec
CONSTANTS
  Handler = {h1}
  Refresher = bg
  MaxVersion = 2
  ManifestURL <- MCChangingURLs
  ConfigTTL = 1
  ManifestTTL = 1
  HubBound = 1
  CdnBound = 1
  Horizon = 7
INVARIANTS
  TypeOK
PROPERTIES
  AnswerMatchesConfig
  ImplementsConfigRegister
  ImplementsManifestRegister
  RequestsEnd
  ManifestConverges
