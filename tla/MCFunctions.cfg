SPECIFICATION Spec
CHECK_DEADLOCK FALSE
CONSTANTS
  UintSize = 8
  IntMax = 15
  Nodes <- MCNodes
  Names <- MCNames
  PodSpecs <- MCPodSpecs
  Ledgers <- MCLedgers
  Config <- MCConfig
  Tokens <- MCTokens
  Asks <- MCAsks
  AnyImage <- MCAnyImage
  Volumes <- MCVolumes
  Listings <- MCListings
  Resources <- MCResources
  NewTypes <- MCNewTypes
  Codes <- MCCodes
INVARIANTS
  ListsAreEffective
  BookingIsUndone
  NamesTellObjectsApart
  LabelsNameTheWorkload
  SourceCarriesCode
  DemandCoversMachine
  AddressIsUnicast
