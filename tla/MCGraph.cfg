SPECIFICATION Spec
CONSTANTS
  Queries = {1, 2, 3}
  Databases = {"d1", "d2", "d3"}
  Digest <- MCDigest
  NoNumber = NoNumber
  Throws = Throws
  Undefined = Undefined
  Configurations <- MCConfigurations
  NewText = "d"
INVARIANTS PortsFit GraphFits RowsArrive EditInvalidates EditSpares
