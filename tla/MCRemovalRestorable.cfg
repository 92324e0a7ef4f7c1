CONSTANTS
  old = old
  new = new
  other = other
  compiler = compiler
  linker = linker
  cc = cc
  ld = ld
  NoPkg = NoPkg
  NoProc = NoProc
  Package <- MCPackage
  Scope <- MCScope
  ScopeOf <- MCScopeOf
  ToolOf <- MCToolOf
  Rank <- MCRank
  Command <- MCCommand
  CommandsOf <- MCCommandsOf
  Proc = {p1}
  MaxFaults = 1
  MaxDamage = 1
SPECIFICATION FairSpec
PROPERTY RemovalRestorable
