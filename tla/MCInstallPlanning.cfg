CONSTANTS
  native = native
  cross = cross
  compiler = compiler
  linker = linker
  clang = clang
  gcc = gcc
  lld = lld
  tar = tar
  zip = zip
  rar = rar
  NoTool = NoTool
  Target <- MCTarget
  Component <- MCComponent
  Tool <- MCTool
  Format <- MCFormat
  Supported <- MCSupported
  ComponentOf <- MCComponentOf
  ScopeOrder <- MCScopeOrder
  Policy <- MCPolicy
  Catalog <- MCCatalog
  Selection <- MCSelection
  MaxPreferences = 2
SPECIFICATION Spec
INVARIANTS
  PreferencesAreLatest ExecutesCurrentPlan ReleaseOrderSound
PROPERTIES OfflineStillInstalls
