SPECIFICATION Spec
CONSTANTS
  Scripts <- MCScripts
  MountPoint = "/system"
  Paths <- MCPaths
  Parents <- MCParents
  Files <- MCFiles
  FsType = "ext4"
  Parts <- MCParts
  Images <- MCImages
  Package <- MCPackage
  PackageDirs <- MCPackageDirs
  Props <- MCProps
  FileProps <- MCFileProps
  Number <- MCNumber
  Null = Null
  Idle = Idle
  MaxLosses = 2
  MaxErrors = 1
INVARIANTS RestartsAreInvisible ComesBackToInstall PatchFailureRetries
PROPERTIES NothingAfterAbort InstallEnds
