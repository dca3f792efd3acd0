\* Two requests, every step may fail.
SPECIFICATION Spec
CONSTANTS
  r1 = r1
  r2 = r2
  Requests <- MCRequests
  Languages <- MCLanguages
  Amounts = {2, 4, 6}
  RAM_LIMIT = 5
  Faults <- MCAllFaults
  MaxCrashes = 0
SYMMETRY Symmetry
INVARIANTS TypeOK RamLedger ManagedRamWithinLimit ConfinedWhileAlive
