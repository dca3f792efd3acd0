------------------------- MODULE SandboxServerProofs -------------------------
(***************************************************************************)
(* What SandboxServer keeps for any requests, limits, faults and crashes.  *)
(***************************************************************************)
EXTENDS SandboxServer, FiniteSetTheorems, TLAPS

-----------------------------------------------------------------------------
(* Sums as numbers of units.                                               *)

\* The units of finitely many requests are finitely many.
LEMMA UnitsFinite ==
  ASSUME NEW l, NEW R \in SUBSET Requests
  PROVE  IsFiniteSet(Units(l, R))
<1>1. IsFiniteSet(R)
  BY FS_Subset, RequestsAssumption
<1>2. IsFiniteSet(1..RAM_LIMIT)
  BY FS_Interval, LimitAssumption
<1>3. IsFiniteSet(R \X (1..RAM_LIMIT))
  BY <1>1, <1>2, FS_Product
<1>4. Units(l, R) \subseteq R \X (1..RAM_LIMIT)
  BY DEF Units
<1> QED BY <1>3, <1>4, FS_Subset

\* One request has as many units as its limit says, if that fits at all.
LEMMA UnitsOfOne ==
  ASSUME NEW l, NEW r \in Requests, l[r] \in 0..RAM_LIMIT
  PROVE  Cardinality(Units(l, {r})) = l[r]
<1> DEFINE f == [i \in 1..l[r] |-> <<r, i>>]
<1>1. RAM_LIMIT \in Nat /\ l[r] \in Nat /\ l[r] <= RAM_LIMIT
  BY LimitAssumption
<1>2. Units(l, {r}) = {<<r, i>> : i \in 1..l[r]}
  BY <1>1 DEF Units
<1>3. f \in Bijection(1..l[r], Units(l, {r}))
  BY <1>2 DEF Bijection, Injection, Surjection, IsInjective
<1>4. IsFiniteSet(1..l[r]) /\ Cardinality(1..l[r]) = l[r]
  <2>1. /\ IsFiniteSet(1..l[r])
        /\ Cardinality(1..l[r]) = IF 1 > l[r] THEN 0 ELSE l[r] - 1 + 1
    <3>1. 1 \in Int /\ l[r] \in Int
      BY <1>1
    <3> QED BY <3>1, FS_Interval, Zenon
  <2> QED BY <1>1, <2>1
<1>5. ExistsBijection(1..l[r], Units(l, {r}))
  BY <1>3 DEF ExistsBijection
<1> QED BY <1>4, <1>5, FS_Bijection

\* A further request adds its limit to the sum.
LEMMA UnitsAdd ==
  ASSUME NEW l, NEW R \in SUBSET Requests, NEW r \in Requests \ R,
         l[r] \in 0..RAM_LIMIT
  PROVE  Cardinality(Units(l, R \cup {r})) = Cardinality(Units(l, R)) + l[r]
<1>1. Units(l, R \cup {r}) = Units(l, R) \cup Units(l, {r})
  BY DEF Units
<1>2. Units(l, R) \cap Units(l, {r}) = {}
  BY DEF Units
<1>3. IsFiniteSet(Units(l, R)) /\ IsFiniteSet(Units(l, {r}))
  BY UnitsFinite
<1>4. Cardinality(Units(l, R)) \in Nat
  BY <1>3, FS_CardinalityType
<1>5. Cardinality(Units(l, {r})) = l[r]
  BY UnitsOfOne
<1>6. Cardinality({}) = 0
  BY FS_EmptySet
<1>7. Cardinality(Units(l, R) \cup Units(l, {r}))
        = Cardinality(Units(l, R)) + Cardinality(Units(l, {r}))
            - Cardinality(Units(l, R) \cap Units(l, {r}))
  BY <1>3, FS_Union, Zenon
<1>8. Cardinality(Units(l, R)) + l[r] - 0 = Cardinality(Units(l, R)) + l[r]
  BY <1>4, LimitAssumption
<1> QED BY <1>1, <1>2, <1>5, <1>6, <1>7, <1>8, Zenon

\* The sum over fewer requests is no larger.
LEMMA UnitsMonotone ==
  ASSUME NEW l, NEW R \in SUBSET Requests, NEW S \in SUBSET R
  PROVE  Cardinality(Units(l, S)) <= Cardinality(Units(l, R))
<1>1. Units(l, S) \subseteq Units(l, R)
  BY DEF Units
<1> QED BY <1>1, UnitsFinite, FS_Subset
-----------------------------------------------------------------------------
(* Types.                                                                  *)

\* The initial states have the types.
LEMMA InitTypes == Init => Types
BY LimitAssumption, CrashAssumption DEF Init, Types, Places, Outcomes, Kinds

\* A limit is a number of KB.
LEMMA LimitsAreNumbers ==
  ASSUME Types, NEW r \in Requests
  PROVE  limit[r] \in Nat
<1>1. limit \in [Requests -> Amounts \cup {0}]
  BY DEF Types
<1>2. Amounts \cup {0} \subseteq Nat
  BY AmountsAssumption
<1>3. limit[r] \in Amounts \cup {0}
  BY <1>1
<1> QED BY <1>2, <1>3

\* Every step keeps the types.
LEMMA NextTypes ==
  ASSUME Types, [Next]_vars
  PROVE  Types'
<1> USE AmountsAssumption, LimitAssumption, CrashAssumption
<1> USE DEF Types, Places, Setup, Waiting, Unwind, Outcomes, Kinds, Goto,
            FailTo, Gain, Drop, Undone, NeverMade, Kill, call, proc
<1>1. CASE \E r \in Requests : CannotReserve(r)
  BY <1>1 DEF CannotReserve
<1>2. CASE \E r \in Requests : ReserveRAM(r)
  <2> PICK r \in Requests : ReserveRAM(r)
    BY <1>2
  <2>1. limit[r] \in Nat
    BY LimitsAreNumbers
  <2>2. ram_available' \in Nat
    BY <2>1 DEF ReserveRAM, Fits
  <2> QED BY <2>2 DEF ReserveRAM
<1>3. CASE \E r \in Requests : ReleaseRAM(r)
  <2> PICK r \in Requests : ReleaseRAM(r)
    BY <1>3
  <2>1. limit[r] \in Nat
    BY LimitsAreNumbers
  <2>2. ram_available' \in Nat
    BY <2>1 DEF ReleaseRAM, Fits
  <2> QED BY <2>2 DEF ReleaseRAM
<1>4. CASE \E r \in Requests : Reply(r)
  BY <1>4 DEF Reply
<1>5. CASE \E r \in Requests : PrepareWorkspace(r)
  BY <1>5 DEF PrepareWorkspace
<1>6. CASE \E r \in Requests : NoCompile(r)
  BY <1>6 DEF NoCompile
<1>7. CASE \E r \in Requests : EnterOnce(r)
  BY <1>7 DEF EnterOnce
<1>8. CASE \E r \in Requests : LeaveOnce(r)
  BY <1>8 DEF LeaveOnce
<1>9. CASE \E r \in Requests : InstallInit(r)
  BY <1>9 DEF InstallInit
<1>10. CASE \E r \in Requests : NewCgroupV2(r)
  BY <1>10 DEF NewCgroupV2
<1>11. CASE \E r \in Requests : PrepareRuntimeMounts(r)
  BY <1>11 DEF PrepareRuntimeMounts
<1>12. CASE \E r \in Requests : OpenFD(r)
  BY <1>12 DEF OpenFD
<1>13. CASE \E r \in Requests : StartSandbox(r)
  BY <1>13 DEF StartSandbox
<1>14. CASE \E r \in Requests : WaitDone(r)
  BY <1>14 DEF WaitDone
<1>15. CASE \E r \in Requests : WaitTimedOut(r)
  BY <1>15 DEF WaitTimedOut
<1>16. CASE \E r \in Requests : HardKillProcessGroup(r)
  BY <1>16 DEF HardKillProcessGroup
<1>17. CASE \E r \in Requests : KillAll(r)
  BY <1>17 DEF KillAll
<1>18. CASE \E r \in Requests : Drain(r)
  BY <1>18 DEF Drain
<1>19. CASE \E r \in Requests : FinalizeResponse(r)
  BY <1>19 DEF FinalizeResponse
<1>20. CASE \E r \in Requests : CloseFD(r)
  BY <1>20 DEF CloseFD
<1>21. CASE \E r \in Requests : CloseCgroup(r)
  BY <1>21 DEF CloseCgroup
<1>22. CASE \E r \in Requests : CleanupRuntimeMounts(r)
  BY <1>22 DEF CleanupRuntimeMounts
<1>23. CASE \E r \in Requests : RemoveWorkspace(r)
  BY <1>23 DEF RemoveWorkspace
<1>24. CASE \E r \in Requests : NamespaceEmpty(r)
  BY <1>24 DEF NamespaceEmpty
<1>25. CASE \E r \in Requests : Reap(r)
  BY <1>25 DEF Reap
<1>26. CASE \E r \in Requests : TimerFires(r)
  BY <1>26 DEF TimerFires
<1>27. CASE \E r \in Requests : Receive(r)
  BY <1>27 DEF Receive
<1>28. CASE \E r \in Requests : CompilerEnds(r)
  BY <1>28 DEF CompilerEnds
<1>29. CASE \E r \in Requests : LeaveGroup(r)
  BY <1>29 DEF LeaveGroup
<1>30. CASE \E r \in Requests : ProgramEnds(r)
  BY <1>30 DEF ProgramEnds
<1>31. CASE Crash
  BY <1>31 DEF Crash
<1>32. CASE Quiet \/ UNCHANGED vars
  BY <1>32 DEF Quiet, vars
<1> QED
  BY <1>1, <1>2, <1>3, <1>4, <1>5, <1>6, <1>7, <1>8, <1>9, <1>10, <1>11,
     <1>12, <1>13, <1>14, <1>15, <1>16, <1>17, <1>18, <1>19, <1>20, <1>21,
     <1>22, <1>23, <1>24, <1>25, <1>26, <1>27, <1>28, <1>29, <1>30, <1>31,
     <1>32 DEF Next, Goroutine, Host, Outside

-----------------------------------------------------------------------------
(* Where a goroutine is tells which processes its sandbox has.             *)

\* No process is there at the start.
LEMMA InitProcesses == Init => ProcessesByPlace
BY DEF Init, ProcessesByPlace

\* Only StartSandbox makes a process, and only after cmd.Wait has returned
\* does the goroutine go on.
LEMMA NextProcesses ==
  ASSUME Types, ProcessesByPlace, [Next]_vars
  PROVE  ProcessesByPlace'
<1> USE DEF Types, ProcessesByPlace, Setup, Waiting, Unwind, Goto, FailTo,
            Kill, call, proc
<1>1. CASE \E r \in Requests : CannotReserve(r)
  BY <1>1 DEF CannotReserve
<1>2. CASE \E r \in Requests : ReserveRAM(r)
  BY <1>2 DEF ReserveRAM
<1>3. CASE \E r \in Requests : ReleaseRAM(r)
  BY <1>3 DEF ReleaseRAM
<1>4. CASE \E r \in Requests : Reply(r)
  BY <1>4 DEF Reply
<1>5. CASE \E r \in Requests : PrepareWorkspace(r)
  BY <1>5 DEF PrepareWorkspace
<1>6. CASE \E r \in Requests : NoCompile(r)
  BY <1>6 DEF NoCompile
<1>7. CASE \E r \in Requests : EnterOnce(r)
  BY <1>7 DEF EnterOnce
<1>8. CASE \E r \in Requests : LeaveOnce(r)
  BY <1>8 DEF LeaveOnce
<1>9. CASE \E r \in Requests : InstallInit(r)
  BY <1>9 DEF InstallInit
<1>10. CASE \E r \in Requests : NewCgroupV2(r)
  BY <1>10 DEF NewCgroupV2
<1>11. CASE \E r \in Requests : PrepareRuntimeMounts(r)
  BY <1>11 DEF PrepareRuntimeMounts
<1>12. CASE \E r \in Requests : OpenFD(r)
  BY <1>12 DEF OpenFD
<1>13. CASE \E r \in Requests : StartSandbox(r)
  BY <1>13 DEF StartSandbox
<1>14. CASE \E r \in Requests : WaitDone(r)
  BY <1>14 DEF WaitDone
<1>15. CASE \E r \in Requests : WaitTimedOut(r)
  BY <1>15 DEF WaitTimedOut
<1>16. CASE \E r \in Requests : HardKillProcessGroup(r)
  BY <1>16 DEF HardKillProcessGroup
<1>17. CASE \E r \in Requests : KillAll(r)
  BY <1>17 DEF KillAll
<1>18. CASE \E r \in Requests : Drain(r)
  BY <1>18 DEF Drain
<1>19. CASE \E r \in Requests : FinalizeResponse(r)
  BY <1>19 DEF FinalizeResponse
<1>20. CASE \E r \in Requests : CloseFD(r)
  BY <1>20 DEF CloseFD
<1>21. CASE \E r \in Requests : CloseCgroup(r)
  BY <1>21 DEF CloseCgroup
<1>22. CASE \E r \in Requests : CleanupRuntimeMounts(r)
  BY <1>22 DEF CleanupRuntimeMounts
<1>23. CASE \E r \in Requests : RemoveWorkspace(r)
  BY <1>23 DEF RemoveWorkspace
<1>24. CASE \E r \in Requests : NamespaceEmpty(r)
  BY <1>24 DEF NamespaceEmpty
<1>25. CASE \E r \in Requests : Reap(r)
  BY <1>25 DEF Reap
<1>26. CASE \E r \in Requests : TimerFires(r)
  BY <1>26 DEF TimerFires
<1>27. CASE \E r \in Requests : Receive(r)
  BY <1>27 DEF Receive
<1>28. CASE \E r \in Requests : CompilerEnds(r)
  BY <1>28 DEF CompilerEnds
<1>29. CASE \E r \in Requests : LeaveGroup(r)
  BY <1>29 DEF LeaveGroup
<1>30. CASE \E r \in Requests : ProgramEnds(r)
  BY <1>30 DEF ProgramEnds
<1>31. CASE Crash
  BY <1>31 DEF Crash
<1>32. CASE Quiet \/ UNCHANGED vars
  BY <1>32 DEF Quiet, vars
<1> QED
  BY <1>1, <1>2, <1>3, <1>4, <1>5, <1>6, <1>7, <1>8, <1>9, <1>10, <1>11,
     <1>12, <1>13, <1>14, <1>15, <1>16, <1>17, <1>18, <1>19, <1>20, <1>21,
     <1>22, <1>23, <1>24, <1>25, <1>26, <1>27, <1>28, <1>29, <1>30, <1>31,
     <1>32 DEF Next, Goroutine, Host, Outside

-----------------------------------------------------------------------------
(* Where a goroutine is tells what its sandbox has on the host.            *)

\* No goroutine is past its first step at the start.
LEMMA InitResources == Init => ResourcesByPlace
BY DEF Init, ResourcesByPlace, Setup, Waiting

\* What one step gains is only dropped by the deferred calls.
LEMMA NextResources ==
  ASSUME Types, ResourcesByPlace, [Next]_vars
  PROVE  ResourcesByPlace'
<1> USE DEF Types, ResourcesByPlace, Setup, Waiting, Unwind, Goto, FailTo,
            Gain, Drop, Undone, NeverMade, call, proc
<1>1. CASE \E r \in Requests : CannotReserve(r)
  BY <1>1 DEF CannotReserve
<1>2. CASE \E r \in Requests : ReserveRAM(r)
  BY <1>2 DEF ReserveRAM
<1>3. CASE \E r \in Requests : ReleaseRAM(r)
  BY <1>3 DEF ReleaseRAM
<1>4. CASE \E r \in Requests : Reply(r)
  BY <1>4 DEF Reply
<1>5. CASE \E r \in Requests : PrepareWorkspace(r)
  BY <1>5 DEF PrepareWorkspace
<1>6. CASE \E r \in Requests : NoCompile(r)
  BY <1>6 DEF NoCompile
<1>7. CASE \E r \in Requests : EnterOnce(r)
  BY <1>7 DEF EnterOnce
<1>8. CASE \E r \in Requests : LeaveOnce(r)
  BY <1>8 DEF LeaveOnce
<1>9. CASE \E r \in Requests : InstallInit(r)
  BY <1>9 DEF InstallInit
<1>10. CASE \E r \in Requests : NewCgroupV2(r)
  BY <1>10 DEF NewCgroupV2
<1>11. CASE \E r \in Requests : PrepareRuntimeMounts(r)
  BY <1>11 DEF PrepareRuntimeMounts
<1>12. CASE \E r \in Requests : OpenFD(r)
  BY <1>12 DEF OpenFD
<1>13. CASE \E r \in Requests : StartSandbox(r)
  BY <1>13 DEF StartSandbox
<1>14. CASE \E r \in Requests : WaitDone(r)
  BY <1>14 DEF WaitDone
<1>15. CASE \E r \in Requests : WaitTimedOut(r)
  BY <1>15 DEF WaitTimedOut
<1>16. CASE \E r \in Requests : HardKillProcessGroup(r)
  BY <1>16 DEF HardKillProcessGroup
<1>17. CASE \E r \in Requests : KillAll(r)
  BY <1>17 DEF KillAll
<1>18. CASE \E r \in Requests : Drain(r)
  BY <1>18 DEF Drain
<1>19. CASE \E r \in Requests : FinalizeResponse(r)
  BY <1>19 DEF FinalizeResponse
<1>20. CASE \E r \in Requests : CloseFD(r)
  BY <1>20 DEF CloseFD
<1>21. CASE \E r \in Requests : CloseCgroup(r)
  BY <1>21 DEF CloseCgroup
<1>22. CASE \E r \in Requests : CleanupRuntimeMounts(r)
  BY <1>22 DEF CleanupRuntimeMounts
<1>23. CASE \E r \in Requests : RemoveWorkspace(r)
  BY <1>23 DEF RemoveWorkspace
<1>24. CASE \E r \in Requests : NamespaceEmpty(r)
  BY <1>24 DEF NamespaceEmpty
<1>25. CASE \E r \in Requests : Reap(r)
  BY <1>25 DEF Reap
<1>26. CASE \E r \in Requests : TimerFires(r)
  BY <1>26 DEF TimerFires
<1>27. CASE \E r \in Requests : Receive(r)
  BY <1>27 DEF Receive
<1>28. CASE \E r \in Requests : CompilerEnds(r)
  BY <1>28 DEF CompilerEnds
<1>29. CASE \E r \in Requests : LeaveGroup(r)
  BY <1>29 DEF LeaveGroup
<1>30. CASE \E r \in Requests : ProgramEnds(r)
  BY <1>30 DEF ProgramEnds
<1>31. CASE Crash
  BY <1>31 DEF Crash
<1>32. CASE Quiet \/ UNCHANGED vars
  BY <1>32 DEF Quiet, vars
<1> QED
  BY <1>1, <1>2, <1>3, <1>4, <1>5, <1>6, <1>7, <1>8, <1>9, <1>10, <1>11,
     <1>12, <1>13, <1>14, <1>15, <1>16, <1>17, <1>18, <1>19, <1>20, <1>21,
     <1>22, <1>23, <1>24, <1>25, <1>26, <1>27, <1>28, <1>29, <1>30, <1>31,
     <1>32 DEF Next, Goroutine, Host, Outside

-----------------------------------------------------------------------------
(* Who holds RAM was found to fit.                                         *)

\* Nobody holds RAM at the start.
LEMMA InitFit == Init => HoldersFit
BY DEF Init, HoldersFit, Holding, Setup, Waiting, Unwind

\* Only ReserveRAM lets a request in, and a refused one never holds.
LEMMA NextFit ==
  ASSUME Types, HoldersFit, [Next]_vars
  PROVE  HoldersFit'
<1> USE DEF Types, HoldersFit, Holding, Setup, Waiting, Unwind, Goto, FailTo,
            InFlight, call, proc
<1>1. CASE \E r \in Requests : CannotReserve(r)
  BY <1>1 DEF CannotReserve
<1>2. CASE \E r \in Requests : ReserveRAM(r)
  BY <1>2 DEF ReserveRAM, Fits
<1>3. CASE \E r \in Requests : ReleaseRAM(r)
  BY <1>3 DEF ReleaseRAM
<1>4. CASE \E r \in Requests : Reply(r)
  BY <1>4 DEF Reply
<1>5. CASE \E r \in Requests : PrepareWorkspace(r)
  BY <1>5 DEF PrepareWorkspace
<1>6. CASE \E r \in Requests : NoCompile(r)
  BY <1>6 DEF NoCompile
<1>7. CASE \E r \in Requests : EnterOnce(r)
  BY <1>7 DEF EnterOnce
<1>8. CASE \E r \in Requests : LeaveOnce(r)
  BY <1>8 DEF LeaveOnce
<1>9. CASE \E r \in Requests : InstallInit(r)
  BY <1>9 DEF InstallInit
<1>10. CASE \E r \in Requests : NewCgroupV2(r)
  BY <1>10 DEF NewCgroupV2
<1>11. CASE \E r \in Requests : PrepareRuntimeMounts(r)
  BY <1>11 DEF PrepareRuntimeMounts
<1>12. CASE \E r \in Requests : OpenFD(r)
  BY <1>12 DEF OpenFD
<1>13. CASE \E r \in Requests : StartSandbox(r)
  BY <1>13 DEF StartSandbox
<1>14. CASE \E r \in Requests : WaitDone(r)
  BY <1>14 DEF WaitDone
<1>15. CASE \E r \in Requests : WaitTimedOut(r)
  BY <1>15 DEF WaitTimedOut
<1>16. CASE \E r \in Requests : HardKillProcessGroup(r)
  BY <1>16 DEF HardKillProcessGroup
<1>17. CASE \E r \in Requests : KillAll(r)
  BY <1>17 DEF KillAll
<1>18. CASE \E r \in Requests : Drain(r)
  BY <1>18 DEF Drain
<1>19. CASE \E r \in Requests : FinalizeResponse(r)
  BY <1>19 DEF FinalizeResponse
<1>20. CASE \E r \in Requests : CloseFD(r)
  BY <1>20 DEF CloseFD
<1>21. CASE \E r \in Requests : CloseCgroup(r)
  BY <1>21 DEF CloseCgroup
<1>22. CASE \E r \in Requests : CleanupRuntimeMounts(r)
  BY <1>22 DEF CleanupRuntimeMounts
<1>23. CASE \E r \in Requests : RemoveWorkspace(r)
  BY <1>23 DEF RemoveWorkspace
<1>24. CASE \E r \in Requests : NamespaceEmpty(r)
  BY <1>24 DEF NamespaceEmpty
<1>25. CASE \E r \in Requests : Reap(r)
  BY <1>25 DEF Reap
<1>26. CASE \E r \in Requests : TimerFires(r)
  BY <1>26 DEF TimerFires
<1>27. CASE \E r \in Requests : Receive(r)
  BY <1>27 DEF Receive
<1>28. CASE \E r \in Requests : CompilerEnds(r)
  BY <1>28 DEF CompilerEnds
<1>29. CASE \E r \in Requests : LeaveGroup(r)
  BY <1>29 DEF LeaveGroup
<1>30. CASE \E r \in Requests : ProgramEnds(r)
  BY <1>30 DEF ProgramEnds
<1>31. CASE Crash
  BY <1>31 DEF Crash
<1>32. CASE Quiet \/ UNCHANGED vars
  BY <1>32 DEF Quiet, vars
<1> QED
  BY <1>1, <1>2, <1>3, <1>4, <1>5, <1>6, <1>7, <1>8, <1>9, <1>10, <1>11,
     <1>12, <1>13, <1>14, <1>15, <1>16, <1>17, <1>18, <1>19, <1>20, <1>21,
     <1>22, <1>23, <1>24, <1>25, <1>26, <1>27, <1>28, <1>29, <1>30, <1>31,
     <1>32 DEF Next, Goroutine, Host, Outside

-----------------------------------------------------------------------------
(* The ledger.                                                             *)

\* A step that neither the ledger nor the clients notice.
Silent == /\ limit' = limit
          /\ ram_available' = ram_available
          /\ \A r \in Requests : Standing(r)' = Standing(r)

\* Five actions concern the ledger, all the others are silent.
LEMMA NextKinds ==
  ASSUME Types, HoldersFit, [Next]_vars
  PROVE  \/ Silent
         \/ Crash
         \/ \E r \in Requests : \/ Receive(r) \/ CannotReserve(r)
                                \/ ReserveRAM(r) \/ ReleaseRAM(r)
<1> USE DEF Types, HoldersFit, Silent, Standing, Holding, Setup, Waiting,
            Unwind, Goto, FailTo, call, proc
<1>1. CASE \E r \in Requests : CannotReserve(r)
  BY <1>1
<1>2. CASE \E r \in Requests : ReserveRAM(r)
  BY <1>2
<1>3. CASE \E r \in Requests : ReleaseRAM(r)
  BY <1>3
<1>4. CASE \E r \in Requests : Reply(r)
  BY <1>4 DEF Reply
<1>5. CASE \E r \in Requests : PrepareWorkspace(r)
  BY <1>5 DEF PrepareWorkspace
<1>6. CASE \E r \in Requests : NoCompile(r)
  BY <1>6 DEF NoCompile
<1>7. CASE \E r \in Requests : EnterOnce(r)
  BY <1>7 DEF EnterOnce
<1>8. CASE \E r \in Requests : LeaveOnce(r)
  BY <1>8 DEF LeaveOnce
<1>9. CASE \E r \in Requests : InstallInit(r)
  BY <1>9 DEF InstallInit
<1>10. CASE \E r \in Requests : NewCgroupV2(r)
  BY <1>10 DEF NewCgroupV2
<1>11. CASE \E r \in Requests : PrepareRuntimeMounts(r)
  BY <1>11 DEF PrepareRuntimeMounts
<1>12. CASE \E r \in Requests : OpenFD(r)
  BY <1>12 DEF OpenFD
<1>13. CASE \E r \in Requests : StartSandbox(r)
  BY <1>13 DEF StartSandbox
<1>14. CASE \E r \in Requests : WaitDone(r)
  BY <1>14 DEF WaitDone
<1>15. CASE \E r \in Requests : WaitTimedOut(r)
  BY <1>15 DEF WaitTimedOut
<1>16. CASE \E r \in Requests : HardKillProcessGroup(r)
  BY <1>16 DEF HardKillProcessGroup
<1>17. CASE \E r \in Requests : KillAll(r)
  BY <1>17 DEF KillAll
<1>18. CASE \E r \in Requests : Drain(r)
  BY <1>18 DEF Drain
<1>19. CASE \E r \in Requests : FinalizeResponse(r)
  BY <1>19 DEF FinalizeResponse
<1>20. CASE \E r \in Requests : CloseFD(r)
  BY <1>20 DEF CloseFD
<1>21. CASE \E r \in Requests : CloseCgroup(r)
  BY <1>21 DEF CloseCgroup
<1>22. CASE \E r \in Requests : CleanupRuntimeMounts(r)
  BY <1>22 DEF CleanupRuntimeMounts
<1>23. CASE \E r \in Requests : RemoveWorkspace(r)
  BY <1>23 DEF RemoveWorkspace
<1>24. CASE \E r \in Requests : NamespaceEmpty(r)
  BY <1>24 DEF NamespaceEmpty
<1>25. CASE \E r \in Requests : Reap(r)
  BY <1>25 DEF Reap
<1>26. CASE \E r \in Requests : TimerFires(r)
  BY <1>26 DEF TimerFires
<1>27. CASE \E r \in Requests : Receive(r)
  BY <1>27
<1>28. CASE \E r \in Requests : CompilerEnds(r)
  BY <1>28 DEF CompilerEnds
<1>29. CASE \E r \in Requests : LeaveGroup(r)
  BY <1>29 DEF LeaveGroup
<1>30. CASE \E r \in Requests : ProgramEnds(r)
  BY <1>30 DEF ProgramEnds
<1>31. CASE Crash
  BY <1>31
<1>32. CASE Quiet \/ UNCHANGED vars
  BY <1>32 DEF Quiet, vars
<1> QED
  BY <1>1, <1>2, <1>3, <1>4, <1>5, <1>6, <1>7, <1>8, <1>9, <1>10, <1>11,
     <1>12, <1>13, <1>14, <1>15, <1>16, <1>17, <1>18, <1>19, <1>20, <1>21,
     <1>22, <1>23, <1>24, <1>25, <1>26, <1>27, <1>28, <1>29, <1>30, <1>31,
     <1>32 DEF Next, Goroutine, Host, Outside

\* Who holds RAM is who stands as admitted.
LEMMA HoldersStand == Holders = {r \in Requests : Standing(r) = "admitted"}
BY DEF Holders, Standing, Holding, Setup, Waiting, Unwind

\* The sum depends on nothing but the limits of those it is taken over.
LEMMA UnitsAgree ==
  ASSUME NEW l, NEW m, NEW R \in SUBSET Requests, \A r \in R : l[r] = m[r]
  PROVE  Units(l, R) = Units(m, R)
BY DEF Units

\* The sum over nobody is 0.
LEMMA UnitsOfNone == \A l : Cardinality(Units(l, {})) = 0
<1>1. \A l : Units(l, {}) = {}
  BY DEF Units
<1> QED BY <1>1, FS_EmptySet, Zenon

\* The sum is a number.
LEMMA UnitsNumber ==
  ASSUME NEW l, NEW R \in SUBSET Requests
  PROVE  Cardinality(Units(l, R)) \in Nat
BY UnitsFinite, FS_CardinalityType

\* Nobody holds anything at the start.
LEMMA InitLedger == Init => RamLedger
<1> SUFFICES ASSUME Init PROVE RamLedger
  OBVIOUS
<1>1. Holders = {}
  BY DEF Init, Holders, Holding, Setup, Waiting, Unwind
<1>2. Cardinality(Units(limit, Holders)) = 0
  BY <1>1, UnitsOfNone, Zenon
<1>3. ram_available = RAM_LIMIT
  BY DEF Init
<1> QED BY <1>2, <1>3, LimitAssumption DEF RamLedger

\* A step that leaves the counter, the holders and their limits alone keeps
\* the ledger exact.
LEMMA KeepsLedger ==
  ASSUME RamLedger, ram_available' = ram_available, Holders' = Holders,
         \A r \in Holders : limit'[r] = limit[r]
  PROVE  RamLedger'
<1>1. Holders \in SUBSET Requests
  BY DEF Holders
<1>2. Units(limit', Holders) = Units(limit, Holders)
  BY <1>1, UnitsAgree
<1>3. Units(limit, Holders)' = Units(limit', Holders)
  BY DEF Units
<1> QED BY <1>2, <1>3 DEF RamLedger

\* Every step keeps the ledger exact: ReserveRAM and ReleaseRAM move a limit
\* between the counter and the sum.
LEMMA NextLedger ==
  ASSUME Types, HoldersFit, RamLedger, [Next]_vars
  PROVE  RamLedger'
<1> USE DEF Types
<1> DEFINE sum == Cardinality(Units(limit, Holders))
<1>1. Holders \in SUBSET Requests
  BY DEF Holders
<1>2. sum \in Nat /\ ram_available \in Nat /\ RAM_LIMIT \in Nat
  BY <1>1, UnitsNumber, LimitAssumption
<1>3. ram_available + sum = RAM_LIMIT
  BY DEF RamLedger
<1>4. CASE Silent
  <2>1. Holders' = Holders
    BY <1>4, HoldersStand DEF Silent, Holders, Standing, Holding, Setup,
       Waiting, Unwind
  <2> QED BY <1>4, <2>1, KeepsLedger DEF Silent
<1>5. CASE Crash
  <2>1. Holders' = {}
    BY <1>5 DEF Crash, Holders, Holding, InFlight, Setup, Waiting, Unwind
  <2>2. Cardinality(Units(limit, Holders)') = 0
    <3>1. Units(limit, Holders)' = Units(limit', {})
      BY <2>1 DEF Units
    <3> QED BY <3>1, UnitsOfNone, Zenon
  <2>3. ram_available' = RAM_LIMIT
    BY <1>5 DEF Crash
  <2> QED BY <1>2, <2>2, <2>3 DEF RamLedger
<1>6. ASSUME NEW r \in Requests, Receive(r)
      PROVE  RamLedger'
  <2> USE <1>6 DEF Receive, Goto
  <2>1. Holders' = Holders
    BY DEF Holders, Holding, Setup, Waiting, Unwind
  <2>2. \A q \in Holders : limit'[q] = limit[q]
    BY DEF Holders, Holding, Setup, Waiting, Unwind
  <2>3. ram_available' = ram_available
    OBVIOUS
  <2> QED BY <2>1, <2>2, <2>3, KeepsLedger
<1>7. ASSUME NEW r \in Requests, CannotReserve(r)
      PROVE  RamLedger'
  <2> USE <1>7 DEF CannotReserve, Goto, call
  <2>1. Holders' = Holders
    BY DEF Holders, Holding, Setup, Waiting, Unwind
  <2>2. limit' = limit /\ ram_available' = ram_available
    OBVIOUS
  <2> QED BY <2>1, <2>2, KeepsLedger
<1>8. ASSUME NEW r \in Requests, ReserveRAM(r)
      PROVE  RamLedger'
  <2> USE <1>8 DEF ReserveRAM, Goto, call
  <2>1. Holders' = Holders \cup {r} /\ r \notin Holders
    BY DEF Holders, Holding, Setup, Waiting, Unwind
  <2>2. limit[r] \in Nat
    BY LimitsAreNumbers
  <2>3. limit[r] <= RAM_LIMIT /\ limit[r] <= ram_available
    BY DEF Fits
  <2>4. Cardinality(Units(limit, Holders \cup {r})) = sum + limit[r]
    BY <1>1, <1>2, <2>1, <2>2, <2>3, UnitsAdd
  <2>5. Units(limit, Holders)' = Units(limit, Holders \cup {r})
    BY <2>1 DEF Units
  <2>6. ram_available' = ram_available - limit[r]
    OBVIOUS
  <2>7. Cardinality(Units(limit, Holders)') = sum + limit[r]
    BY <2>4, <2>5, Zenon
  <2> HIDE <1>8
  <2>8. (ram_available - limit[r]) + (sum + limit[r]) = RAM_LIMIT
    <3>1. \A a, b, c, d \in Nat : a + b = c => (a - d) + (b + d) = c
      OBVIOUS
    <3> QED BY <1>2, <1>3, <2>2, <3>1
  <2>9. ram_available' + Cardinality(Units(limit, Holders)') = RAM_LIMIT
    BY <2>6, <2>7, <2>8, Zenon
  <2> QED BY <2>9 DEF RamLedger
<1>9. ASSUME NEW r \in Requests, ReleaseRAM(r)
      PROVE  RamLedger'
  <2> USE <1>9 DEF ReleaseRAM, Goto, call
  <2> DEFINE rest == Holders \ {r}
  <2>1. /\ Holders' = rest
        /\ Holders = rest \cup {r}
        /\ r \in Requests \ rest
        /\ rest \in SUBSET Requests
    BY <1>1 DEF Holders, Holding, Setup, Waiting, Unwind
  <2>2. limit[r] \in Nat
    BY LimitsAreNumbers
  <2>3. limit[r] <= RAM_LIMIT
    BY DEF HoldersFit, Holding, Unwind
  <2>4. Cardinality(Units(limit, rest \cup {r}))
          = Cardinality(Units(limit, rest)) + limit[r]
    BY <1>2, <2>1, <2>2, <2>3, UnitsAdd
  <2>5. Units(limit, Holders)' = Units(limit, rest)
    BY <2>1 DEF Units
  <2>6. ram_available' = ram_available + limit[r]
    OBVIOUS
  <2>7. sum = Cardinality(Units(limit, Holders)') + limit[r]
    BY <2>1, <2>4, <2>5, Zenon
  <2>8. Cardinality(Units(limit, Holders)') \in Nat
    BY <2>1, <2>5, UnitsNumber, Zenon
  <2> HIDE <1>9
  <2> HIDE DEF sum
  <2>9. ram_available' + Cardinality(Units(limit, Holders)') = RAM_LIMIT
    BY <1>2, <1>3, <2>2, <2>6, <2>7, <2>8
  <2> QED BY <2>9 DEF RamLedger
<1> QED BY <1>4, <1>5, <1>6, <1>7, <1>8, <1>9, NextKinds

-----------------------------------------------------------------------------
(* What confines a sandbox.                                                *)

\* No process is there to be confined at the start.
LEMMA InitConfined == Init => ConfinedWhileAlive
BY DEF Init, ConfinedWhileAlive, Alive

\* A process appears only where the directory, the control group and the
\* mounts are there, and they go only when no process is left; a crash takes
\* none of them.
LEMMA NextConfined ==
  ASSUME Types, ProcessesByPlace, ResourcesByPlace, ConfinedWhileAlive,
         [Next]_vars
  PROVE  ConfinedWhileAlive'
<1> USE DEF Types, ProcessesByPlace, ResourcesByPlace, ConfinedWhileAlive,
            Alive, Setup, Waiting, Unwind, Goto, FailTo, Gain, Drop, Undone,
            NeverMade, Kill, call, proc
<1>1. CASE \E r \in Requests : CannotReserve(r)
  BY <1>1 DEF CannotReserve
<1>2. CASE \E r \in Requests : ReserveRAM(r)
  BY <1>2 DEF ReserveRAM
<1>3. CASE \E r \in Requests : ReleaseRAM(r)
  BY <1>3 DEF ReleaseRAM
<1>4. CASE \E r \in Requests : Reply(r)
  BY <1>4 DEF Reply
<1>5. CASE \E r \in Requests : PrepareWorkspace(r)
  BY <1>5 DEF PrepareWorkspace
<1>6. CASE \E r \in Requests : NoCompile(r)
  BY <1>6 DEF NoCompile
<1>7. CASE \E r \in Requests : EnterOnce(r)
  BY <1>7 DEF EnterOnce
<1>8. CASE \E r \in Requests : LeaveOnce(r)
  BY <1>8 DEF LeaveOnce
<1>9. CASE \E r \in Requests : InstallInit(r)
  BY <1>9 DEF InstallInit
<1>10. CASE \E r \in Requests : NewCgroupV2(r)
  BY <1>10 DEF NewCgroupV2
<1>11. CASE \E r \in Requests : PrepareRuntimeMounts(r)
  BY <1>11 DEF PrepareRuntimeMounts
<1>12. CASE \E r \in Requests : OpenFD(r)
  BY <1>12 DEF OpenFD
<1>13. CASE \E r \in Requests : StartSandbox(r)
  BY <1>13 DEF StartSandbox
<1>14. CASE \E r \in Requests : WaitDone(r)
  BY <1>14 DEF WaitDone
<1>15. CASE \E r \in Requests : WaitTimedOut(r)
  BY <1>15 DEF WaitTimedOut
<1>16. CASE \E r \in Requests : HardKillProcessGroup(r)
  BY <1>16 DEF HardKillProcessGroup
<1>17. CASE \E r \in Requests : KillAll(r)
  BY <1>17 DEF KillAll
<1>18. CASE \E r \in Requests : Drain(r)
  BY <1>18 DEF Drain
<1>19. CASE \E r \in Requests : FinalizeResponse(r)
  BY <1>19 DEF FinalizeResponse
<1>20. CASE \E r \in Requests : CloseFD(r)
  BY <1>20 DEF CloseFD
<1>21. CASE \E r \in Requests : CloseCgroup(r)
  BY <1>21 DEF CloseCgroup
<1>22. CASE \E r \in Requests : CleanupRuntimeMounts(r)
  BY <1>22 DEF CleanupRuntimeMounts
<1>23. CASE \E r \in Requests : RemoveWorkspace(r)
  BY <1>23 DEF RemoveWorkspace
<1>24. CASE \E r \in Requests : NamespaceEmpty(r)
  BY <1>24 DEF NamespaceEmpty
<1>25. CASE \E r \in Requests : Reap(r)
  BY <1>25 DEF Reap
<1>26. CASE \E r \in Requests : TimerFires(r)
  BY <1>26 DEF TimerFires
<1>27. CASE \E r \in Requests : Receive(r)
  BY <1>27 DEF Receive
<1>28. CASE \E r \in Requests : CompilerEnds(r)
  BY <1>28 DEF CompilerEnds
<1>29. CASE \E r \in Requests : LeaveGroup(r)
  BY <1>29 DEF LeaveGroup
<1>30. CASE \E r \in Requests : ProgramEnds(r)
  BY <1>30 DEF ProgramEnds
<1>31. CASE Crash
  BY <1>31 DEF Crash
<1>32. CASE Quiet \/ UNCHANGED vars
  BY <1>32 DEF Quiet, vars
<1> QED
  BY <1>1, <1>2, <1>3, <1>4, <1>5, <1>6, <1>7, <1>8, <1>9, <1>10, <1>11,
     <1>12, <1>13, <1>14, <1>15, <1>16, <1>17, <1>18, <1>19, <1>20, <1>21,
     <1>22, <1>23, <1>24, <1>25, <1>26, <1>27, <1>28, <1>29, <1>30, <1>31,
     <1>32 DEF Next, Goroutine, Host, Outside

-----------------------------------------------------------------------------
(* What is left when a request is answered.                                *)

\* What a request can have at each place of its way out, and at the places
\* before anything was made.
LeftoversByPlace ==
  \A r \in Requests :
    /\ pc[r] \in {"idle", "reserve", "prepare"} => res[r] = {}
    /\ "build_dir" \in res[r] => pc[r] \in {"build", "lost"} \/ MayFail("remove")
    /\ "fd" \in res[r] => pc[r] \in {"start", "finalize", "close_fd"} \cup Waiting
    /\ pc[r] \in {"compile", "build", "ensure", "cgroup", "unmount", "remove",
                  "release", "reply", "done"}
         => "cgroup" \notin res[r] \/ MayFail("rmdir")
    /\ pc[r] \in {"compile", "build", "ensure", "cgroup", "mounts", "remove",
                  "release", "reply", "done"}
         => "mounts" \notin res[r] \/ MayFail("unmount")
    /\ "dir" \in res[r] /\ pc[r] \in {"release", "reply", "done"}
         => MayFail("remove") \/ MayFail("unmount")

\* Nothing is on the host at the start.
LEMMA InitLeftovers == Init => LeftoversByPlace
BY DEF Init, LeftoversByPlace, Setup, Waiting, Unwind

\* The deferred calls undo what was made, or fail.
LEMMA NextLeftovers ==
  ASSUME Types, ProcessesByPlace, LeftoversByPlace, [Next]_vars
  PROVE  LeftoversByPlace'
<1> USE DEF Types, ProcessesByPlace, LeftoversByPlace, Alive, MayFail, Setup,
            Waiting, Unwind, Goto, FailTo, InFlight, Gain, Drop, Undone,
            NeverMade, call, proc
<1>1. CASE \E r \in Requests : CannotReserve(r)
  BY <1>1 DEF CannotReserve
<1>2. CASE \E r \in Requests : ReserveRAM(r)
  BY <1>2 DEF ReserveRAM
<1>3. CASE \E r \in Requests : ReleaseRAM(r)
  BY <1>3 DEF ReleaseRAM
<1>4. CASE \E r \in Requests : Reply(r)
  BY <1>4 DEF Reply
<1>5. CASE \E r \in Requests : PrepareWorkspace(r)
  BY <1>5 DEF PrepareWorkspace
<1>6. CASE \E r \in Requests : NoCompile(r)
  BY <1>6 DEF NoCompile
<1>7. CASE \E r \in Requests : EnterOnce(r)
  BY <1>7 DEF EnterOnce
<1>8. CASE \E r \in Requests : LeaveOnce(r)
  BY <1>8 DEF LeaveOnce
<1>9. CASE \E r \in Requests : InstallInit(r)
  BY <1>9 DEF InstallInit
<1>10. CASE \E r \in Requests : NewCgroupV2(r)
  BY <1>10 DEF NewCgroupV2
<1>11. CASE \E r \in Requests : PrepareRuntimeMounts(r)
  BY <1>11 DEF PrepareRuntimeMounts
<1>12. CASE \E r \in Requests : OpenFD(r)
  BY <1>12 DEF OpenFD
<1>13. CASE \E r \in Requests : StartSandbox(r)
  BY <1>13 DEF StartSandbox
<1>14. CASE \E r \in Requests : WaitDone(r)
  BY <1>14 DEF WaitDone
<1>15. CASE \E r \in Requests : WaitTimedOut(r)
  BY <1>15 DEF WaitTimedOut
<1>16. CASE \E r \in Requests : HardKillProcessGroup(r)
  BY <1>16 DEF HardKillProcessGroup
<1>17. CASE \E r \in Requests : KillAll(r)
  BY <1>17 DEF KillAll
<1>18. CASE \E r \in Requests : Drain(r)
  BY <1>18 DEF Drain
<1>19. CASE \E r \in Requests : FinalizeResponse(r)
  BY <1>19 DEF FinalizeResponse
<1>20. CASE \E r \in Requests : CloseFD(r)
  BY <1>20 DEF CloseFD
<1>21. CASE \E r \in Requests : CloseCgroup(r)
  BY <1>21 DEF CloseCgroup
<1>22. CASE \E r \in Requests : CleanupRuntimeMounts(r)
  BY <1>22 DEF CleanupRuntimeMounts
<1>23. CASE \E r \in Requests : RemoveWorkspace(r)
  BY <1>23 DEF RemoveWorkspace
<1>24. CASE \E r \in Requests : NamespaceEmpty(r)
  BY <1>24 DEF NamespaceEmpty
<1>25. CASE \E r \in Requests : Reap(r)
  BY <1>25 DEF Reap
<1>26. CASE \E r \in Requests : TimerFires(r)
  BY <1>26 DEF TimerFires
<1>27. CASE \E r \in Requests : Receive(r)
  BY <1>27 DEF Receive
<1>28. CASE \E r \in Requests : CompilerEnds(r)
  BY <1>28 DEF CompilerEnds
<1>29. CASE \E r \in Requests : LeaveGroup(r)
  BY <1>29 DEF LeaveGroup
<1>30. CASE \E r \in Requests : ProgramEnds(r)
  BY <1>30 DEF ProgramEnds
<1>31. CASE Crash
  BY <1>31 DEF Crash
<1>32. CASE Quiet \/ UNCHANGED vars
  BY <1>32 DEF Quiet, vars
<1> QED
  BY <1>1, <1>2, <1>3, <1>4, <1>5, <1>6, <1>7, <1>8, <1>9, <1>10, <1>11,
     <1>12, <1>13, <1>14, <1>15, <1>16, <1>17, <1>18, <1>19, <1>20, <1>21,
     <1>22, <1>23, <1>24, <1>25, <1>26, <1>27, <1>28, <1>29, <1>30, <1>31,
     <1>32 DEF Next, Goroutine, Host, Outside

\* Only RemoveWorkspace takes a directory away.
LEMMA OnlyRemoveWorkspace ==
  ASSUME Types, [Next]_vars,
         NEW q \in Requests, "dir" \in res[q], "dir" \notin res'[q]
  PROVE  RemoveWorkspace(q)
<1> USE DEF Types, Gain, Drop, Undone, NeverMade, call, proc
<1>1. CASE \E r \in Requests : CannotReserve(r)
  BY <1>1 DEF CannotReserve
<1>2. CASE \E r \in Requests : ReserveRAM(r)
  BY <1>2 DEF ReserveRAM
<1>3. CASE \E r \in Requests : ReleaseRAM(r)
  BY <1>3 DEF ReleaseRAM
<1>4. CASE \E r \in Requests : Reply(r)
  BY <1>4 DEF Reply
<1>5. CASE \E r \in Requests : PrepareWorkspace(r)
  BY <1>5 DEF PrepareWorkspace
<1>6. CASE \E r \in Requests : NoCompile(r)
  BY <1>6 DEF NoCompile
<1>7. CASE \E r \in Requests : EnterOnce(r)
  BY <1>7 DEF EnterOnce
<1>8. CASE \E r \in Requests : LeaveOnce(r)
  BY <1>8 DEF LeaveOnce
<1>9. CASE \E r \in Requests : InstallInit(r)
  BY <1>9 DEF InstallInit
<1>10. CASE \E r \in Requests : NewCgroupV2(r)
  BY <1>10 DEF NewCgroupV2
<1>11. CASE \E r \in Requests : PrepareRuntimeMounts(r)
  BY <1>11 DEF PrepareRuntimeMounts
<1>12. CASE \E r \in Requests : OpenFD(r)
  BY <1>12 DEF OpenFD
<1>13. CASE \E r \in Requests : StartSandbox(r)
  BY <1>13 DEF StartSandbox
<1>14. CASE \E r \in Requests : WaitDone(r)
  BY <1>14 DEF WaitDone
<1>15. CASE \E r \in Requests : WaitTimedOut(r)
  BY <1>15 DEF WaitTimedOut
<1>16. CASE \E r \in Requests : HardKillProcessGroup(r)
  BY <1>16 DEF HardKillProcessGroup
<1>17. CASE \E r \in Requests : KillAll(r)
  BY <1>17 DEF KillAll
<1>18. CASE \E r \in Requests : Drain(r)
  BY <1>18 DEF Drain
<1>19. CASE \E r \in Requests : FinalizeResponse(r)
  BY <1>19 DEF FinalizeResponse
<1>20. CASE \E r \in Requests : CloseFD(r)
  BY <1>20 DEF CloseFD
<1>21. CASE \E r \in Requests : CloseCgroup(r)
  BY <1>21 DEF CloseCgroup
<1>22. CASE \E r \in Requests : CleanupRuntimeMounts(r)
  BY <1>22 DEF CleanupRuntimeMounts
<1>23. CASE \E r \in Requests : RemoveWorkspace(r)
  BY <1>23 DEF RemoveWorkspace
<1>24. CASE \E r \in Requests : NamespaceEmpty(r)
  BY <1>24 DEF NamespaceEmpty
<1>25. CASE \E r \in Requests : Reap(r)
  BY <1>25 DEF Reap
<1>26. CASE \E r \in Requests : TimerFires(r)
  BY <1>26 DEF TimerFires
<1>27. CASE \E r \in Requests : Receive(r)
  BY <1>27 DEF Receive
<1>28. CASE \E r \in Requests : CompilerEnds(r)
  BY <1>28 DEF CompilerEnds
<1>29. CASE \E r \in Requests : LeaveGroup(r)
  BY <1>29 DEF LeaveGroup
<1>30. CASE \E r \in Requests : ProgramEnds(r)
  BY <1>30 DEF ProgramEnds
<1>31. CASE Crash
  BY <1>31 DEF Crash
<1>32. CASE Quiet \/ UNCHANGED vars
  BY <1>32 DEF Quiet, vars
<1> QED
  BY <1>1, <1>2, <1>3, <1>4, <1>5, <1>6, <1>7, <1>8, <1>9, <1>10, <1>11,
     <1>12, <1>13, <1>14, <1>15, <1>16, <1>17, <1>18, <1>19, <1>20, <1>21,
     <1>22, <1>23, <1>24, <1>25, <1>26, <1>27, <1>28, <1>29, <1>30, <1>31,
     <1>32 DEF Next, Goroutine, Host, Outside

-----------------------------------------------------------------------------
(* The sandbox-init binary.                                                *)

\* Who is inside the function of sandboxInitOnce, and who is past it.
BuilderByPlace ==
  /\ \A r \in Requests :
       /\ pc[r] = "build" => once = "building"
       /\ pc[r] \in {"cgroup", "mounts", "openfd", "start"} \cup Waiting
            => once = "built"
  /\ \A r, q \in Requests : pc[r] = "build" /\ pc[q] = "build" => r = q
  /\ once = "building" => \E r \in Requests : pc[r] = "build"

\* Nobody builds at the start.
LEMMA InitBuilder == Init => BuilderByPlace
BY DEF Init, BuilderByPlace, Waiting

\* Only the first to come enters the function, and none passes before it has
\* left it; a crash takes the builder and the flag together.
LEMMA NextBuilder ==
  ASSUME Types, BuilderByPlace, [Next]_vars
  PROVE  BuilderByPlace'
<1> USE DEF Types, BuilderByPlace, Setup, Waiting, Unwind, Goto, FailTo,
            InFlight, call, proc
<1>1. CASE \E r \in Requests : CannotReserve(r)
  BY <1>1 DEF CannotReserve
<1>2. CASE \E r \in Requests : ReserveRAM(r)
  BY <1>2 DEF ReserveRAM
<1>3. CASE \E r \in Requests : ReleaseRAM(r)
  BY <1>3 DEF ReleaseRAM
<1>4. CASE \E r \in Requests : Reply(r)
  BY <1>4 DEF Reply
<1>5. CASE \E r \in Requests : PrepareWorkspace(r)
  BY <1>5 DEF PrepareWorkspace
<1>6. CASE \E r \in Requests : NoCompile(r)
  BY <1>6 DEF NoCompile
<1>7. CASE \E r \in Requests : EnterOnce(r)
  BY <1>7 DEF EnterOnce
<1>8. CASE \E r \in Requests : LeaveOnce(r)
  BY <1>8 DEF LeaveOnce
<1>9. CASE \E r \in Requests : InstallInit(r)
  BY <1>9 DEF InstallInit
<1>10. CASE \E r \in Requests : NewCgroupV2(r)
  BY <1>10 DEF NewCgroupV2
<1>11. CASE \E r \in Requests : PrepareRuntimeMounts(r)
  BY <1>11 DEF PrepareRuntimeMounts
<1>12. CASE \E r \in Requests : OpenFD(r)
  BY <1>12 DEF OpenFD
<1>13. CASE \E r \in Requests : StartSandbox(r)
  BY <1>13 DEF StartSandbox
<1>14. CASE \E r \in Requests : WaitDone(r)
  BY <1>14 DEF WaitDone
<1>15. CASE \E r \in Requests : WaitTimedOut(r)
  BY <1>15 DEF WaitTimedOut
<1>16. CASE \E r \in Requests : HardKillProcessGroup(r)
  BY <1>16 DEF HardKillProcessGroup
<1>17. CASE \E r \in Requests : KillAll(r)
  BY <1>17 DEF KillAll
<1>18. CASE \E r \in Requests : Drain(r)
  BY <1>18 DEF Drain
<1>19. CASE \E r \in Requests : FinalizeResponse(r)
  BY <1>19 DEF FinalizeResponse
<1>20. CASE \E r \in Requests : CloseFD(r)
  BY <1>20 DEF CloseFD
<1>21. CASE \E r \in Requests : CloseCgroup(r)
  BY <1>21 DEF CloseCgroup
<1>22. CASE \E r \in Requests : CleanupRuntimeMounts(r)
  BY <1>22 DEF CleanupRuntimeMounts
<1>23. CASE \E r \in Requests : RemoveWorkspace(r)
  BY <1>23 DEF RemoveWorkspace
<1>24. CASE \E r \in Requests : NamespaceEmpty(r)
  BY <1>24 DEF NamespaceEmpty
<1>25. CASE \E r \in Requests : Reap(r)
  BY <1>25 DEF Reap
<1>26. CASE \E r \in Requests : TimerFires(r)
  BY <1>26 DEF TimerFires
<1>27. CASE \E r \in Requests : Receive(r)
  BY <1>27 DEF Receive
<1>28. CASE \E r \in Requests : CompilerEnds(r)
  BY <1>28 DEF CompilerEnds
<1>29. CASE \E r \in Requests : LeaveGroup(r)
  BY <1>29 DEF LeaveGroup
<1>30. CASE \E r \in Requests : ProgramEnds(r)
  BY <1>30 DEF ProgramEnds
<1>31. CASE Crash
  BY <1>31 DEF Crash
<1>32. CASE Quiet \/ UNCHANGED vars
  BY <1>32 DEF Quiet, vars
<1> QED
  BY <1>1, <1>2, <1>3, <1>4, <1>5, <1>6, <1>7, <1>8, <1>9, <1>10, <1>11,
     <1>12, <1>13, <1>14, <1>15, <1>16, <1>17, <1>18, <1>19, <1>20, <1>21,
     <1>22, <1>23, <1>24, <1>25, <1>26, <1>27, <1>28, <1>29, <1>30, <1>31,
     <1>32 DEF Next, Goroutine, Host, Outside

-----------------------------------------------------------------------------
(* The theorems.                                                           *)

\* What every step keeps: each part needs the ones before it.
IInv == /\ Types
        /\ HoldersFit
        /\ RamLedger
        /\ ProcessesByPlace
        /\ ResourcesByPlace
        /\ ConfinedWhileAlive
        /\ LeftoversByPlace
        /\ BuilderByPlace

\* The invariant holds at the start, and every step keeps it.
LEMMA Inductive == Spec => []IInv
<1>1. Init => IInv
  BY InitTypes, InitFit, InitLedger, InitProcesses, InitResources,
     InitConfined, InitLeftovers, InitBuilder DEF IInv
<1>2. IInv /\ [Next]_vars => IInv'
  <2> SUFFICES ASSUME IInv, [Next]_vars PROVE IInv'
    OBVIOUS
  <2>1. Types' /\ HoldersFit' /\ RamLedger'
    BY NextTypes, NextFit, NextLedger DEF IInv
  <2>2. ProcessesByPlace' /\ ResourcesByPlace' /\ ConfinedWhileAlive'
    BY NextProcesses, NextResources, NextConfined DEF IInv
  <2>3. LeftoversByPlace' /\ BuilderByPlace'
    BY NextLeftovers, NextBuilder DEF IInv
  <2> QED BY <2>1, <2>2, <2>3 DEF IInv
<1> QED BY <1>1, <1>2, PTL DEF Spec

\* The variables have their types, and the RAM counter, unsigned in the
\* code, neither goes below zero nor above its capacity
\* (resourcemanager/memory.go).
THEOREM TypeCorrect == Spec => []TypeOK
<1>1. IInv => TypeOK
  <2> SUFFICES ASSUME IInv PROVE TypeOK
    OBVIOUS
  <2>1. Holders \in SUBSET Requests
    BY DEF Holders
  <2>2. Cardinality(Units(limit, Holders)) \in Nat
    BY <2>1, UnitsNumber
  <2>3. ram_available \in Nat
    BY DEF IInv, Types
  <2>4. ram_available + Cardinality(Units(limit, Holders)) = RAM_LIMIT
    BY DEF IInv, RamLedger
  <2>5. ram_available <= RAM_LIMIT
    BY <2>2, <2>3, <2>4, LimitAssumption
  <2> QED BY <2>5 DEF IInv, TypeOK
<1> QED BY <1>1, Inductive, PTL

\* The ledger is exact on every path, whatever fails and however often the
\* server crashes: no reservation is lost, returned twice or returned with
\* another amount (dispatcher.Dispatch, resourcemanager/memory.go).
THEOREM LedgerExact == Spec => []RamLedger
<1>1. IInv => RamLedger
  BY DEF IInv
<1> QED BY <1>1, Inductive, PTL

\* The sandboxes of the present server never have more than GLOBAL_RAM_LIMIT
\* between them: their requests hold RAM as long as a process is left
\* (dispatcher.Dispatch, executor.Execute, config/globals.go).
THEOREM WithinLimit == Spec => []ManagedRamWithinLimit
<1>1. IInv => ManagedRamWithinLimit
  <2> SUFFICES ASSUME IInv PROVE ManagedRamWithinLimit
    OBVIOUS
  <2>1. Holders \in SUBSET Requests
    BY DEF Holders
  <2>2. Managed \in SUBSET Holders
    BY DEF IInv, Types, ProcessesByPlace, Managed, Holders, Alive, Holding,
       Places, Setup, Waiting, Unwind
  <2>3. Cardinality(Units(limit, Managed)) <= Cardinality(Units(limit, Holders))
    BY <2>1, <2>2, UnitsMonotone
  <2>4. Managed \in SUBSET Requests
    BY <2>1, <2>2
  <2>5. /\ Cardinality(Units(limit, Holders)) \in Nat
        /\ Cardinality(Units(limit, Managed)) \in Nat
    BY <2>1, <2>4, UnitsNumber
  <2>6. ram_available \in Nat
    BY DEF IInv, Types
  <2>7. ram_available + Cardinality(Units(limit, Holders)) = RAM_LIMIT
    BY DEF IInv, RamLedger
  <2> QED BY <2>3, <2>5, <2>6, <2>7, LimitAssumption DEF ManagedRamWithinLimit
<1> QED BY <1>1, Inductive, PTL

\* No process of a program ever runs without the control group, the
\* directory and the mounts that confine it, not even after a crash of the
\* server (executor.Execute, the order of its deferred calls).
THEOREM Confined == Spec => []ConfinedWhileAlive
<1>1. IInv => ConfinedWhileAlive
  BY DEF IInv
<1> QED BY <1>1, Inductive, PTL

\* A client that has its reply has left no process behind, and no directory,
\* mount or control group but one whose removal failed (executor.Execute,
\* every return of it).
THEOREM GoneAtTheEnd == Spec => []GoneWhenAnswered
<1>1. IInv => GoneWhenAnswered
  <2> SUFFICES ASSUME IInv,
                      NEW r \in Requests, pc[r] \in {"release", "reply", "done"}
               PROVE  /\ root[r] \in {"none", "reaped"}
                      /\ res[r] \subseteq Leftovers
    BY DEF GoneWhenAnswered
  <2>1. root[r] \in {"none", "reaped"}
    BY DEF IInv, ProcessesByPlace, Unwind
  <2>2. res[r] \subseteq Kinds
    BY DEF IInv, Types
  <2>3. /\ "build_dir" \in res[r] => MayFail("remove")
        /\ "fd" \notin res[r]
    BY DEF IInv, LeftoversByPlace, Waiting
  <2>4. /\ "cgroup" \in res[r] => MayFail("rmdir")
        /\ "mounts" \in res[r] => MayFail("unmount")
        /\ "dir" \in res[r] => MayFail("remove") \/ MayFail("unmount")
    BY DEF IInv, LeftoversByPlace
  <2> QED BY <2>1, <2>2, <2>3, <2>4 DEF Leftovers, Kinds
<1> QED BY <1>1, Inductive, PTL

\* No sandbox is set up behind a binary that was not built, and one request
\* at most builds it (executor/sandbox_init.go).
THEOREM BuiltOnce == Spec => []InitBuiltOnce
<1>1. IInv => InitBuiltOnce
  <2> SUFFICES ASSUME IInv PROVE InitBuiltOnce
    OBVIOUS
  <2> DEFINE builders == {r \in Requests : pc[r] = "build"}
  <2>1. CASE once = "building"
    <3> PICK r \in Requests : pc[r] = "build"
      BY <2>1 DEF IInv, BuilderByPlace
    <3>1. builders = {r}
      BY DEF IInv, BuilderByPlace
    <3>2. Cardinality({r}) = 1
      BY FS_Singleton
    <3>3. Cardinality(builders) = 1
      BY <3>1, <3>2, Zenon
    <3> QED BY <2>1, <3>3 DEF IInv, BuilderByPlace, InitBuiltOnce
  <2>2. CASE once # "building"
    <3>1. builders = {}
      BY <2>2 DEF IInv, BuilderByPlace
    <3>2. Cardinality({}) = 0
      BY FS_EmptySet
    <3>3. Cardinality(builders) = 0
      BY <3>1, <3>2, Zenon
    <3> QED BY <2>2, <3>3 DEF IInv, BuilderByPlace, InitBuiltOnce
  <2> QED BY <2>1, <2>2
<1> QED BY <1>1, Inductive, PTL

\* A directory goes last: RemoveWorkspace finds no mount, no process and no
\* control group but one whose removal failed (executor.Execute).
THEOREM DirectoryLast == Spec => RemovedLast
<1>1. IInv /\ [Next]_vars =>
        [\A r \in Requests :
           "dir" \in res[r] /\ "dir" \notin res'[r] =>
             /\ "mounts" \notin res[r]
             /\ "cgroup" \in res[r] => MayFail("rmdir")
             /\ ~Alive(r)]_vars
  <2> SUFFICES ASSUME IInv, [Next]_vars,
                      NEW r \in Requests, "dir" \in res[r], "dir" \notin res'[r]
               PROVE  /\ "mounts" \notin res[r]
                      /\ "cgroup" \in res[r] => MayFail("rmdir")
                      /\ ~Alive(r)
    OBVIOUS
  <2>1. RemoveWorkspace(r)
    BY OnlyRemoveWorkspace DEF IInv
  <2>2. pc[r] = "remove" /\ "mounts" \notin res[r]
    BY <2>1 DEF RemoveWorkspace
  <2>3. "cgroup" \in res[r] => MayFail("rmdir")
    BY <2>2 DEF IInv, LeftoversByPlace
  <2>4. ~Alive(r)
    BY <2>2 DEF IInv, ProcessesByPlace, Unwind, Alive
  <2> QED BY <2>2, <2>3, <2>4
<1> QED BY <1>1, Inductive, PTL DEF Spec, RemovedLast

=============================================================================
