\* Two requests of which one may fill the ledger, a crash, every step may fail
\* but the kill and the removals, on a fair scheduler.
SPECIFICATION FairSpec
CONSTANTS
  r1 = r1
  r2 = r2
  Requests <- MCRequests
  Languages = {"java"}
  Amounts = {1, 2}
  RAM_LIMIT = 2
  Faults <- MCLiveFaults
  MaxCrashes = 1
INVARIANTS ConfinedWhileAlive GoneWhenAnswered InitBuiltOnce
PROPERTIES RemovedLast ImplementsAdmission ImplementsControlGroup Answered
