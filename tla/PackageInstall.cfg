SPECIFICATION Spec
CONSTANTS
  Catalog <- MCCatalog
  FirstPublished <- MCFirstPublished
  Needs <- MCNeeds
  PackageJsons <- MCPackageJsons
  Scripted <- Tool
  Patchable = {2}
  Top = Top
  None = None
INVARIANTS
  TypeOK
  StoreHarmIsDoubled
  ManifestIsKept
  PatchesAreApplied
  InstallsAreReproducible
