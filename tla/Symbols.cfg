SPECIFICATION SymbolSpec
CONSTANTS
  p = p
  q = q
  Payloads <- MCPayloads
  MaxAddress = 5
  MaxTime = 2
  MaxModules = 3
  Worlds <- MCWorlds
  Resolvers <- MCResolvers
  MaxCrashes = 1
INVARIANTS ModulesFound SymbolsOfTheirModules BuildsChecked GivesUpForAReason
CHECK_DEADLOCK FALSE
