SPECIFICATION Spec
CHECK_DEADLOCK FALSE
CONSTANTS
  VersionTexts <- MCVersionTexts
  SpecifierTexts <- MCSpecifierTexts
  ImportBodies <- MCImportBodies
  Listings <- MCListings
  Contents = {"x", "y"}
  MaxUpdates = 1
  UvDocs <- MCUvDocs
  Base <- MCBase
  HashParts <- MCHashParts
  WheelNames <- MCWheelNames
  Pools <- MCPools
  AuditFiles <- MCAuditFiles
  TargetABIs <- MCTargetABIs
  WasmPools <- MCWasmPools
  Targets <- MCTargets
  Worlds <- MCWorlds
INVARIANTS VersionOrder ImportLaws IndexLaws LockExport WheelChoice WheelLaws
