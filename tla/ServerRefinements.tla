--------------------------- MODULE ServerRefinements ---------------------------
(***************************************************************************)
(* SandboxServer keeps two promises: every step of the server, seen        *)
(* through Standing, is a step of Admission or none, and it is, for every  *)
(* request, a step of ControlGroup or none.                                *)
(***************************************************************************)
EXTENDS SandboxServerProofs

-----------------------------------------------------------------------------
(* Admission.                                                              *)

\* The instance counts as this module does.
LEMMA SameCardinality == \A S : Promise!Cardinality(S) = Cardinality(S)
BY DEF Promise!Cardinality, Cardinality

\* What is left by the promise is what the ledger says.
LEMMA FreeIsAvailable ==
  ASSUME IInv
  PROVE  Promise!Free = ram_available
<1>1. Promise!AdmittedUnits = Units(limit, Holders)
  <2>1. Promise!AdmittedUnits
          = {u \in Requests \X (1..RAM_LIMIT) :
               Standing(u[1]) = "admitted" /\ u[2] <= limit[u[1]]}
    BY DEF Promise!AdmittedUnits
  <2>2. \A u \in Requests \X (1..RAM_LIMIT) :
          u[1] \in Requests /\ (Standing(u[1]) = "admitted" <=> u[1] \in Holders)
    BY HoldersStand
  <2>3. Units(limit, Holders)
          = {u \in Requests \X (1..RAM_LIMIT) :
               u[1] \in Holders /\ u[2] <= limit[u[1]]}
    BY DEF Units, Holders
  <2> QED BY <2>1, <2>2, <2>3
<1>2. Holders \in SUBSET Requests
  BY DEF Holders
<1>3. Cardinality(Units(limit, Holders)) \in Nat
  BY <1>2, UnitsNumber
<1>4. ram_available \in Nat
  BY DEF IInv, Types
<1>5. ram_available + Cardinality(Units(limit, Holders)) = RAM_LIMIT
  BY DEF IInv, RamLedger
<1>6. RAM_LIMIT - Cardinality(Units(limit, Holders)) = ram_available
  BY <1>3, <1>4, <1>5, LimitAssumption
<1> QED BY <1>1, <1>6, SameCardinality, Zenon DEF Promise!Free

\* Under the ledger's invariant its two tests are one: what is available is
\* never more than the capacity.
LEMMA FitsIsFree ==
  ASSUME IInv, NEW r \in Requests
  PROVE  Fits(r) <=> limit[r] <= Promise!Free
<1>1. limit[r] \in Nat
  BY LimitsAreNumbers DEF IInv
<1>2. Holders \in SUBSET Requests
  BY DEF Holders
<1>3. Cardinality(Units(limit, Holders)) \in Nat
  BY <1>2, UnitsNumber
<1>4. ram_available \in Nat
  BY DEF IInv, Types
<1>5. ram_available + Cardinality(Units(limit, Holders)) = RAM_LIMIT
  BY DEF IInv, RamLedger
<1>6. ram_available <= RAM_LIMIT
  BY <1>3, <1>4, <1>5, LimitAssumption
<1>7. limit[r] <= RAM_LIMIT /\ limit[r] <= ram_available
        <=> limit[r] <= ram_available
  BY <1>1, <1>4, <1>6, LimitAssumption
<1> QED BY <1>7, FreeIsAvailable DEF Fits

-----------------------------------------------------------------------------
\* The server starts where the promise does.
LEMMA AdmissionInit == Init => Promise!Init
BY DEF Init, Promise!Init, Standing

\* Every step of the server is a step of the promise or none.
LEMMA AdmissionNext ==
  ASSUME IInv, [Next]_vars
  PROVE  [Promise!Next]_(Promise!vars)
<1> USE DEF IInv, Types, HoldersFit, Standing, Holding, Setup, Waiting, Unwind
<1>1. CASE Silent
  BY <1>1 DEF Silent, Promise!vars
<1>2. ASSUME NEW r \in Requests, Receive(r)
      PROVE  Promise!Ask(r)
  BY <1>2 DEF Receive, Goto, Promise!Ask
<1>3. ASSUME NEW r \in Requests, CannotReserve(r)
      PROVE  Promise!Refuse(r)
  <2>1. ~(limit[r] <= Promise!Free)
    BY <1>3, FitsIsFree DEF CannotReserve
  <2>2. limit[r] > Promise!Free
    BY <2>1, FreeIsAvailable, LimitsAreNumbers
  <2> QED BY <1>3, <2>2 DEF CannotReserve, Goto, call, Promise!Refuse
<1>4. ASSUME NEW r \in Requests, ReserveRAM(r)
      PROVE  Promise!Admit(r)
  <2>1. limit[r] <= Promise!Free
    BY <1>4, FitsIsFree DEF ReserveRAM
  <2> QED BY <1>4, <2>1 DEF ReserveRAM, Goto, call, Promise!Admit
<1>5. ASSUME NEW r \in Requests, ReleaseRAM(r)
      PROVE  Promise!Return(r)
  BY <1>5 DEF ReleaseRAM, Goto, call, Promise!Return
<1>6. CASE Crash
  <2>1. Promise!Restart
    BY <1>6 DEF Crash, InFlight, Places, call, Promise!Restart
  <2> QED BY <2>1 DEF Promise!Next
<1> QED
  BY <1>1, <1>2, <1>3, <1>4, <1>5, <1>6, NextKinds DEF Promise!Next

\* What the ledger and its two tests do, seen from the clients, is Admission:
\* a request is admitted when its memory fits what the others leave, refused
\* only when it does not, and gives back what it got
\* (resourcemanager/memory.go, dispatcher.Dispatch).
THEOREM KeepsAdmission == Spec => ImplementsAdmission
<1>1. Spec => []IInv
  BY Inductive
<1>2. Init => Promise!Init
  BY AdmissionInit
<1>3. IInv /\ [Next]_vars => [Promise!Next]_(Promise!vars)
  BY AdmissionNext
<1> QED BY <1>1, <1>2, <1>3, PTL DEF Spec, ImplementsAdmission, Promise!Spec

-----------------------------------------------------------------------------
(* ControlGroup, request by request.                                       *)

\* There is no group before NewCgroupV2 and, once it was made, one until
\* cg.Close.
GroupByPlace ==
  \A r \in Requests :
    /\ pc[r] \in {"idle", "reserve", "prepare", "compile", "build", "ensure",
                  "cgroup"} => "cgroup" \notin res[r]
    /\ pc[r] \in {"finalize", "close_fd", "close_cgroup"} => "cgroup" \in res[r]

\* Every step keeps that.
LEMMA NextGroup ==
  ASSUME Types, LeftoversByPlace, ResourcesByPlace, GroupByPlace, [Next]_vars
  PROVE  GroupByPlace'
<1> USE DEF Types, LeftoversByPlace, ResourcesByPlace, GroupByPlace, MayFail,
            Setup, Waiting, Unwind, Goto, FailTo, InFlight, Gain, Drop, Undone,
            NeverMade, call, proc
<1>1. CASE \E r \in Requests : CannotReserve(r)
  BY <1>1 DEF CannotReserve
<1>2. CASE \E r \in Requests : ReserveRAM(r)
  BY <1>2 DEF ReserveRAM
<1>3. CASE \E r \in Requests : ReleaseRAM(r)
  BY <1>3 DEF ReleaseRAM
<1>4. CASE \E r \in Requests : Reply(r)
  BY <1>4 DEF Reply
<1>5. CASE \E r \in Requests : PrepareWorkspace(r)
  BY <1>5 DEF PrepareWorkspace
<1>6. CASE \E r \in Requests : NoCompile(r)
  BY <1>6 DEF NoCompile
<1>7. CASE \E r \in Requests : EnterOnce(r)
  BY <1>7 DEF EnterOnce
<1>8. CASE \E r \in Requests : LeaveOnce(r)
  BY <1>8 DEF LeaveOnce
<1>9. CASE \E r \in Requests : InstallInit(r)
  BY <1>9 DEF InstallInit
<1>10. CASE \E r \in Requests : NewCgroupV2(r)
  BY <1>10 DEF NewCgroupV2
<1>11. CASE \E r \in Requests : PrepareRuntimeMounts(r)
  BY <1>11 DEF PrepareRuntimeMounts
<1>12. CASE \E r \in Requests : OpenFD(r)
  BY <1>12 DEF OpenFD
<1>13. CASE \E r \in Requests : StartSandbox(r)
  BY <1>13 DEF StartSandbox
<1>14. CASE \E r \in Requests : WaitDone(r)
  BY <1>14 DEF WaitDone
<1>15. CASE \E r \in Requests : WaitTimedOut(r)
  BY <1>15 DEF WaitTimedOut
<1>16. CASE \E r \in Requests : HardKillProcessGroup(r)
  BY <1>16 DEF HardKillProcessGroup
<1>17. CASE \E r \in Requests : KillAll(r)
  BY <1>17 DEF KillAll
<1>18. CASE \E r \in Requests : Drain(r)
  BY <1>18 DEF Drain
<1>19. CASE \E r \in Requests : FinalizeResponse(r)
  BY <1>19 DEF FinalizeResponse
<1>20. CASE \E r \in Requests : CloseFD(r)
  BY <1>20 DEF CloseFD
<1>21. CASE \E r \in Requests : CloseCgroup(r)
  BY <1>21 DEF CloseCgroup
<1>22. CASE \E r \in Requests : CleanupRuntimeMounts(r)
  BY <1>22 DEF CleanupRuntimeMounts
<1>23. CASE \E r \in Requests : RemoveWorkspace(r)
  BY <1>23 DEF RemoveWorkspace
<1>24. CASE \E r \in Requests : NamespaceEmpty(r)
  BY <1>24 DEF NamespaceEmpty
<1>25. CASE \E r \in Requests : Reap(r)
  BY <1>25 DEF Reap
<1>26. CASE \E r \in Requests : TimerFires(r)
  BY <1>26 DEF TimerFires
<1>27. CASE \E r \in Requests : Receive(r)
  BY <1>27 DEF Receive
<1>28. CASE \E r \in Requests : CompilerEnds(r)
  BY <1>28 DEF CompilerEnds
<1>29. CASE \E r \in Requests : LeaveGroup(r)
  BY <1>29 DEF LeaveGroup
<1>30. CASE \E r \in Requests : ProgramEnds(r)
  BY <1>30 DEF ProgramEnds
<1>31. CASE Crash
  BY <1>31 DEF Crash
<1>32. CASE Quiet \/ UNCHANGED vars
  BY <1>32 DEF Quiet, vars
<1> QED
  BY <1>1, <1>2, <1>3, <1>4, <1>5, <1>6, <1>7, <1>8, <1>9, <1>10, <1>11,
     <1>12, <1>13, <1>14, <1>15, <1>16, <1>17, <1>18, <1>19, <1>20, <1>21,
     <1>22, <1>23, <1>24, <1>25, <1>26, <1>27, <1>28, <1>29, <1>30, <1>31,
     <1>32 DEF Next, Goroutine, Host, Outside

\* What the promise sees of a request.
LEMMA GroupInit ==
  ASSUME Init, NEW q \in Requests
  PROVE  Group(q)!Init
BY DEF Init, Group!Init, GroupOf, SandboxOf, Setup

\* Every step of the server is, for each request, a step of the promise or
\* none.
LEMMA GroupStep ==
  ASSUME IInv, GroupByPlace, [Next]_vars, NEW q \in Requests
  PROVE  [Group(q)!Next]_(Group(q)!vars)
<1> USE DEF IInv, Types, ProcessesByPlace, ResourcesByPlace, GroupByPlace,
            GroupOf, SandboxOf, Alive, MayFail, Setup, Waiting, Unwind, Places,
            Goto, FailTo, InFlight, Gain, Drop, Undone, NeverMade, Kill, call,
            proc, Group!Next, Group!vars, Group!Make, Group!Fail, Group!Start,
            Group!Doom, Group!Empty, Group!Remove, Group!Crash
<1>1. CASE \E r \in Requests : CannotReserve(r)
  BY <1>1 DEF CannotReserve
<1>2. CASE \E r \in Requests : ReserveRAM(r)
  BY <1>2 DEF ReserveRAM
<1>3. CASE \E r \in Requests : ReleaseRAM(r)
  BY <1>3 DEF ReleaseRAM
<1>4. CASE \E r \in Requests : Reply(r)
  BY <1>4 DEF Reply
<1>5. CASE \E r \in Requests : PrepareWorkspace(r)
  BY <1>5 DEF PrepareWorkspace
<1>6. CASE \E r \in Requests : NoCompile(r)
  BY <1>6 DEF NoCompile
<1>7. CASE \E r \in Requests : EnterOnce(r)
  BY <1>7 DEF EnterOnce
<1>8. CASE \E r \in Requests : LeaveOnce(r)
  BY <1>8 DEF LeaveOnce
<1>9. CASE \E r \in Requests : InstallInit(r)
  BY <1>9 DEF InstallInit
<1>10. CASE \E r \in Requests : NewCgroupV2(r)
  BY <1>10 DEF NewCgroupV2
<1>11. CASE \E r \in Requests : PrepareRuntimeMounts(r)
  BY <1>11 DEF PrepareRuntimeMounts
<1>12. CASE \E r \in Requests : OpenFD(r)
  BY <1>12 DEF OpenFD
<1>13. CASE \E r \in Requests : StartSandbox(r)
  BY <1>13 DEF StartSandbox
<1>14. CASE \E r \in Requests : WaitDone(r)
  BY <1>14 DEF WaitDone
<1>15. CASE \E r \in Requests : WaitTimedOut(r)
  BY <1>15 DEF WaitTimedOut
<1>16. CASE \E r \in Requests : HardKillProcessGroup(r)
  BY <1>16 DEF HardKillProcessGroup
<1>17. CASE \E r \in Requests : KillAll(r)
  BY <1>17 DEF KillAll
<1>18. CASE \E r \in Requests : Drain(r)
  BY <1>18 DEF Drain
<1>19. CASE \E r \in Requests : FinalizeResponse(r)
  BY <1>19 DEF FinalizeResponse
<1>20. CASE \E r \in Requests : CloseFD(r)
  BY <1>20 DEF CloseFD
<1>21. CASE \E r \in Requests : CloseCgroup(r)
  BY <1>21 DEF CloseCgroup
<1>22. CASE \E r \in Requests : CleanupRuntimeMounts(r)
  BY <1>22 DEF CleanupRuntimeMounts
<1>23. CASE \E r \in Requests : RemoveWorkspace(r)
  BY <1>23 DEF RemoveWorkspace
<1>24. CASE \E r \in Requests : NamespaceEmpty(r)
  BY <1>24 DEF NamespaceEmpty
<1>25. CASE \E r \in Requests : Reap(r)
  BY <1>25 DEF Reap
<1>26. CASE \E r \in Requests : TimerFires(r)
  BY <1>26 DEF TimerFires
<1>27. CASE \E r \in Requests : Receive(r)
  BY <1>27 DEF Receive
<1>28. CASE \E r \in Requests : CompilerEnds(r)
  BY <1>28 DEF CompilerEnds
<1>29. CASE \E r \in Requests : LeaveGroup(r)
  BY <1>29 DEF LeaveGroup
<1>30. CASE \E r \in Requests : ProgramEnds(r)
  BY <1>30 DEF ProgramEnds
<1>31. CASE Crash
  BY <1>31 DEF Crash
<1>32. CASE Quiet \/ UNCHANGED vars
  BY <1>32 DEF Quiet, vars
<1> QED
  BY <1>1, <1>2, <1>3, <1>4, <1>5, <1>6, <1>7, <1>8, <1>9, <1>10, <1>11,
     <1>12, <1>13, <1>14, <1>15, <1>16, <1>17, <1>18, <1>19, <1>20, <1>21,
     <1>22, <1>23, <1>24, <1>25, <1>26, <1>27, <1>28, <1>29, <1>30, <1>31,
     <1>32 DEF Next, Goroutine, Host, Outside

\* No sandbox starts in a group that lacks a limit, and none loses its group
\* before it is gone, whichever step of Execute fails and in whatever order
\* requests run, unless the server crashes (executor.Execute, NewCgroupV2,
\* cg.Close).
THEOREM KeepsControlGroup == Spec => ImplementsControlGroup
<1>1. Init => GroupByPlace /\ \A r \in Requests : Group(r)!Init
  BY GroupInit DEF Init, GroupByPlace
<1>2. IInv /\ GroupByPlace /\ [Next]_vars => GroupByPlace'
  BY NextGroup DEF IInv
<1>3. IInv /\ GroupByPlace /\ [Next]_vars =>
        [\A r \in Requests : [Group(r)!Next]_(Group(r)!vars)]_vars
  BY GroupStep
<1> QED BY <1>1, <1>2, <1>3, Inductive, PTL DEF Spec, ImplementsControlGroup
=============================================================================
