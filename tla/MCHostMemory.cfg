SPECIFICATION SpecScan
CONSTANTS
  Addr = {0, 1, 3, 5}
  Byte = {0, 1}
  PageSize = 4
  PageLength = 4
  Limit = 6
  Inputs <- MCInputs
  Policy = "zero"
  Images <- MCImages
  Programs <- MCPrograms
  Options <- MCOptions
  MaxGeneration = 1
  AddressLimit = 8
  DefaultStackSize = 2
  NoValue = NoValue
  Refused = Refused
  NoImage = NoImage
INVARIANTS
  NoOverlap
  MapsTheHoles
  RegionsDisjoint
  UnmappedIsZero
  StacksUsable
PROPERTIES
  GenerationGuardsBytes
  PermissionsKept
  ScanIsAtomic
