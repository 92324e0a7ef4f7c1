CONSTANTS
  old = old
  new = new
  other = other
  compiler = compiler
  linker = linker
  cc = cc
  ld = ld
  NoPkg = NoPkg
  NoProc = NoProc
  Package <- MCPackage
  Scope <- MCScope
  ScopeOf <- MCScopeOf
  ToolOf <- MCToolOf
  Rank <- MCRank
  Command <- MCCommand
  CommandsOf <- MCCommandsOf
  Proc = {p1, p2}
  MaxFaults = 2
  MaxDamage = 0
SPECIFICATION FairSpec
PROPERTY PendingResolves
