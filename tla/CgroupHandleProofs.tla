-------------------------- MODULE CgroupHandleProofs --------------------------
(***************************************************************************)
(* What CgroupHandle keeps for any control files, any number of processes, *)
(* any sizes, every kernel and any failing calls, and that it keeps the    *)
(* promise of ControlGroup.                                                *)
(***************************************************************************)
EXTENDS CgroupHandle, TLAPS

-----------------------------------------------------------------------------
(* The inductive invariant.                                                *)

\* KillAll runs for waitForSandbox, or for Close.
Killing(place) == pc \in {"kill_all", "kill_each"} /\ after = place

Closing == Killing("remove") \/ pc \in {"close", "remove", "closed"}

\* Where the goroutine is tells what has become of the sandbox.
SandboxByPlace ==
  /\ pc \in {"create", "configure", "start"} => sandbox = "none"
  /\ pc \in {"sample", "wait", "kill_group", "drain"} \/ Killing("drain") =>
       sandbox # "none"
  /\ pc \in {"stop", "join", "measure"} => sandbox = "reaped"
  /\ Measured => Closing /\ sandbox = "reaped"
  /\ Closing => sandbox \in {"none", "reaped"}
  /\ pc \in {"kill_all", "kill_each"} => after \in {"drain", "remove"}

\* Nobody is there before cmd.Start or behind cmd.Wait, and nobody stays
\* without pid 1; KillAll has it on its list as long as it is not killed, or
\* returns that it could not be.
DoomedWithRoot ==
  /\ sandbox \in {"none", "reaped"} => alive = {}
  /\ Root \notin alive => killed = alive
  /\ pc = "kill_each" /\ ~killErr /\ Root \in alive \ killed => Root \in list
  /\ pc = "drain" /\ ~killErr => Root \notin alive \ killed

\* Where the goroutine is tells what has become of the group.
ControlByPlace ==
  /\ pc = "create" => dir = "none" /\ written # Files
  /\ pc = "configure" => written # Files
  /\ pc = "start" \/ sandbox # "none" => written = Files
  /\ pc \notin {"create", "closed"} =>
       dir = "there" \/ (Closing /\ dir = "gone")

\* What the sampler has read and stored, against what was there to read.
Readings ==
  /\ usage <= highest
  /\ current <= seen /\ peak <= seen /\ seen <= highest
  /\ seen = IF sampler = "read" THEN Larger(peak, current) ELSE peak

\* The goroutine of the sampler is there between its start and the join.
SamplerByPlace ==
  /\ pc \in {"create", "configure", "start", "sample"} => sampler = "off"
  /\ pc = "measure" \/ Closing => sampler \in {"off", "done"}

\* What every step keeps.
IInv == /\ TypeOK
        /\ SandboxByPlace /\ DoomedWithRoot /\ ControlByPlace
        /\ SamplerByPlace /\ Readings /\ PeakCovered

-----------------------------------------------------------------------------
(* Types.                                                                  *)

\* A quotient, rounded up.
LEMMA RoundedUp ==
  ASSUME NEW bytes \in Nat
  PROVE  /\ bytesToKB(bytes) \in Nat
         /\ bytesToKB(bytes) * KB >= bytes
         /\ (bytesToKB(bytes) - 1) * KB < bytes
BY MemoryAssumption DEF bytesToKB

\* Multiplying by a size keeps the order.
LEMMA Ordered ==
  ASSUME NEW a \in Nat, NEW b \in Nat, a <= b
  PROVE  a * KB <= b * KB
BY MemoryAssumption

\* More bytes are not fewer kilobytes.
LEMMA RoundedInOrder ==
  ASSUME NEW bytes \in Nat, NEW more \in Nat, bytes <= more
  PROVE  bytesToKB(bytes) <= bytesToKB(more)
<1> DEFINE r == bytesToKB(bytes)
           m == bytesToKB(more)
<1>1. /\ r \in Nat /\ m \in Nat /\ KB \in Nat
      /\ (r - 1) * KB < bytes /\ m * KB >= more
  BY RoundedUp, MemoryAssumption
<1> HIDE DEF r, m
<1>2. ASSUME m < r PROVE FALSE
  <2>1. r - 1 \in Nat /\ m <= r - 1
    BY <1>1, <1>2
  <2>2. m * KB <= (r - 1) * KB
    BY <1>1, <2>1, Ordered
  <2>3. m * KB \in Nat /\ (r - 1) * KB \in Nat
    BY <1>1, <2>1
  <2> QED BY <1>1, <2>2, <2>3
<1>3. r <= m
  BY <1>1, <1>2
<1> QED BY <1>3 DEF r, m

\* The figure is in kilobytes.
LEMMA Figure ==
  ASSUME TypeOK
  PROVE  Larger(rss, bytesToKB(Larger(peak, ReadMemoryPeakBytes)))
           \in 0..Larger(MaxRss, bytesToKB(MaxUsage))
<1> DEFINE bytes == Larger(peak, ReadMemoryPeakBytes)
<1>1. bytes \in Nat /\ bytes <= MaxUsage /\ MaxUsage \in Nat
  BY MemoryAssumption DEF TypeOK, Larger, ReadMemoryPeakBytes
<1>2. /\ bytesToKB(bytes) \in Nat /\ bytesToKB(MaxUsage) \in Nat
      /\ bytesToKB(bytes) <= bytesToKB(MaxUsage)
  BY <1>1, RoundedUp, RoundedInOrder
<1>3. rss \in Nat /\ rss <= MaxRss /\ MaxRss \in Nat
  BY MemoryAssumption DEF TypeOK
<1> HIDE DEF bytes
<1>4. Larger(rss, bytesToKB(bytes)) \in 0..Larger(MaxRss, bytesToKB(MaxUsage))
  BY <1>2, <1>3 DEF Larger
<1> QED BY <1>4 DEF bytes

\* The initial states have the types.
LEMMA InitTypes == Init => TypeOK
<1> SUFFICES ASSUME Init PROVE TypeOK
  OBVIOUS
<1>1. 0 \in 0..MaxUsage
  BY MemoryAssumption
<1>2. bytesToKB(MaxUsage) \in Nat
  BY RoundedUp, MemoryAssumption
<1>3. -1 \in -1..Larger(MaxRss, bytesToKB(MaxUsage))
  BY <1>2, MemoryAssumption DEF Larger
<1>4. memoryUsed \in -1..Larger(MaxRss, bytesToKB(MaxUsage))
  BY <1>3 DEF Init
<1> QED BY <1>1, <1>4 DEF Init, TypeOK, Places

\* Every step keeps the types.
LEMMA NextTypes ==
  ASSUME TypeOK, SandboxByPlace, DoomedWithRoot, [Next]_vars
  PROVE  TypeOK'
<1> USE MemoryAssumption, RootAssumption
<1> USE DEF TypeOK, Places, Larger, Passes, vars, fixed, control, processes,
            memory, sampling, kills, request, SandboxByPlace, DoomedWithRoot
<1>1. CASE createCgroupPath
  BY <1>1 DEF createCgroupPath
<1>2. CASE \E f \in Files : writeCgroupControl(f)
  BY <1>2 DEF writeCgroupControl
<1>3. CASE WriteFails
  BY <1>3 DEF WriteFails
<1>4. CASE startSandbox
  BY <1>4 DEF startSandbox
<1>5. CASE startMemorySampler
  BY <1>5 DEF startMemorySampler
<1>6. CASE WaitDone
  BY <1>6 DEF WaitDone
<1>7. CASE TimedOut
  BY <1>7 DEF TimedOut
<1>8. CASE hardKillProcessGroup
  BY <1>8 DEF hardKillProcessGroup
<1>9. CASE Drain
  BY <1>9 DEF Drain
<1>10. CASE CgroupKill
  BY <1>10 DEF CgroupKill
<1>11. CASE readCgroupPIDs
  BY <1>11 DEF readCgroupPIDs
<1>12. CASE \E p \in Pids : KillOne(p)
  BY <1>12 DEF KillOne
<1>13. CASE Killed
  BY <1>13 DEF Killed
<1>14. CASE closeCancel
  BY <1>14 DEF closeCancel
<1>15. CASE Join
  BY <1>15 DEF Join
<1>16. CASE determinePeakKB
  <2>1. memoryUsed' \in -1..Larger(MaxRss, bytesToKB(MaxUsage))
    BY <1>16, Figure DEF determinePeakKB
  <2> QED BY <1>16, <2>1 DEF determinePeakKB
<1>17. CASE CloseKills
  BY <1>17 DEF CloseKills
<1>18. CASE Removed
  BY <1>18 DEF Removed
<1>19. CASE NotRemoved
  BY <1>19 DEF NotRemoved, Remains
<1>20. CASE Tick
  BY <1>20 DEF Tick
<1>21. CASE updatePeak
  BY <1>21 DEF updatePeak
<1>22. CASE SamplerReturns
  BY <1>22 DEF SamplerReturns
<1>23. CASE TwoSeconds
  BY <1>23 DEF TwoSeconds
<1>24. CASE Fork
  BY <1>24 DEF Fork
<1>25. CASE \E p \in Pids : Dies(p)
  BY <1>25 DEF Dies
<1>26. CASE Reap
  BY <1>26 DEF Reap
<1>27. CASE Charge
  BY <1>27 DEF Charge
<1>28. CASE Closed \/ UNCHANGED vars
  BY <1>28 DEF Closed
<1>29. CASE CgroupKillFails
  BY <1>29 DEF CgroupKillFails
<1>30. CASE RemovedByOthers
  BY <1>30 DEF RemovedByOthers
<1> QED
  BY <1>1, <1>2, <1>3, <1>4, <1>5, <1>6, <1>7, <1>8, <1>9, <1>10, <1>11,
     <1>12, <1>13, <1>14, <1>15, <1>16, <1>17, <1>18, <1>19, <1>20, <1>21,
     <1>22, <1>23, <1>24, <1>25, <1>26, <1>27, <1>28, <1>29, <1>30
     DEF Next, Goroutine, Sampler

-----------------------------------------------------------------------------
(* Where the goroutine is.                                                 *)

\* The sandbox is there where waitForSandbox wants it, and nowhere else.
LEMMA NextSandbox ==
  ASSUME TypeOK, SandboxByPlace, [Next]_vars
  PROVE  SandboxByPlace'
<1> USE DEF SandboxByPlace, Closing, Killing, Measured, Passes, vars, fixed,
            control, processes, memory, sampling, kills, request
<1>1. CASE createCgroupPath
  BY <1>1 DEF createCgroupPath
<1>2. CASE \E f \in Files : writeCgroupControl(f)
  BY <1>2 DEF writeCgroupControl
<1>3. CASE WriteFails
  BY <1>3 DEF WriteFails
<1>4. CASE startSandbox
  BY <1>4 DEF startSandbox
<1>5. CASE startMemorySampler
  BY <1>5 DEF startMemorySampler
<1>6. CASE WaitDone
  BY <1>6 DEF WaitDone
<1>7. CASE TimedOut
  BY <1>7 DEF TimedOut
<1>8. CASE hardKillProcessGroup
  BY <1>8 DEF hardKillProcessGroup
<1>9. CASE Drain
  BY <1>9 DEF Drain
<1>10. CASE CgroupKill
  BY <1>10 DEF CgroupKill
<1>11. CASE readCgroupPIDs
  BY <1>11 DEF readCgroupPIDs
<1>12. CASE \E p \in Pids : KillOne(p)
  BY <1>12 DEF KillOne
<1>13. CASE Killed
  BY <1>13 DEF Killed
<1>14. CASE closeCancel
  BY <1>14 DEF closeCancel
<1>15. CASE Join
  BY <1>15 DEF Join
<1>16. CASE determinePeakKB
  BY <1>16 DEF determinePeakKB
<1>17. CASE CloseKills
  BY <1>17 DEF CloseKills
<1>18. CASE Removed
  BY <1>18 DEF Removed
<1>19. CASE NotRemoved
  BY <1>19 DEF NotRemoved, Remains
<1>20. CASE Tick
  BY <1>20 DEF Tick
<1>21. CASE updatePeak
  BY <1>21 DEF updatePeak
<1>22. CASE SamplerReturns
  BY <1>22 DEF SamplerReturns
<1>23. CASE TwoSeconds
  BY <1>23 DEF TwoSeconds
<1>24. CASE Fork
  BY <1>24 DEF Fork
<1>25. CASE \E p \in Pids : Dies(p)
  BY <1>25 DEF Dies
<1>26. CASE Reap
  BY <1>26 DEF Reap
<1>27. CASE Charge
  BY <1>27 DEF Charge
<1>28. CASE Closed \/ UNCHANGED vars
  BY <1>28 DEF Closed
<1>29. CASE CgroupKillFails
  BY <1>29 DEF CgroupKillFails
<1>30. CASE RemovedByOthers
  BY <1>30 DEF RemovedByOthers
<1> QED
  BY <1>1, <1>2, <1>3, <1>4, <1>5, <1>6, <1>7, <1>8, <1>9, <1>10, <1>11,
     <1>12, <1>13, <1>14, <1>15, <1>16, <1>17, <1>18, <1>19, <1>20, <1>21,
     <1>22, <1>23, <1>24, <1>25, <1>26, <1>27, <1>28, <1>29, <1>30
     DEF Next, Goroutine, Sampler

\* Forking does not save a sandbox whose pid 1 is killed.
LEMMA NextDoomed ==
  ASSUME TypeOK, SandboxByPlace, DoomedWithRoot, [Next]_vars
  PROVE  DoomedWithRoot'
<1> USE RootAssumption
<1> USE DEF TypeOK, SandboxByPlace, DoomedWithRoot, Passes, vars, fixed,
            control, processes, memory, sampling, kills, request
<1>1. CASE createCgroupPath
  BY <1>1 DEF createCgroupPath
<1>2. CASE \E f \in Files : writeCgroupControl(f)
  BY <1>2 DEF writeCgroupControl
<1>3. CASE WriteFails
  BY <1>3 DEF WriteFails
<1>4. CASE startSandbox
  BY <1>4 DEF startSandbox
<1>5. CASE startMemorySampler
  BY <1>5 DEF startMemorySampler
<1>6. CASE WaitDone
  BY <1>6 DEF WaitDone
<1>7. CASE TimedOut
  BY <1>7 DEF TimedOut
<1>8. CASE hardKillProcessGroup
  BY <1>8 DEF hardKillProcessGroup
<1>9. CASE Drain
  BY <1>9 DEF Drain
<1>10. CASE CgroupKill
  BY <1>10 DEF CgroupKill
<1>11. CASE readCgroupPIDs
  BY <1>11 DEF readCgroupPIDs
<1>12. CASE \E p \in Pids : KillOne(p)
  BY <1>12 DEF KillOne
<1>13. CASE Killed
  BY <1>13 DEF Killed
<1>14. CASE closeCancel
  BY <1>14 DEF closeCancel
<1>15. CASE Join
  BY <1>15 DEF Join
<1>16. CASE determinePeakKB
  BY <1>16 DEF determinePeakKB
<1>17. CASE CloseKills
  BY <1>17 DEF CloseKills
<1>18. CASE Removed
  BY <1>18 DEF Removed
<1>19. CASE NotRemoved
  BY <1>19 DEF NotRemoved, Remains
<1>20. CASE Tick
  BY <1>20 DEF Tick
<1>21. CASE updatePeak
  BY <1>21 DEF updatePeak
<1>22. CASE SamplerReturns
  BY <1>22 DEF SamplerReturns
<1>23. CASE TwoSeconds
  BY <1>23 DEF TwoSeconds
<1>24. CASE Fork
  BY <1>24 DEF Fork
<1>25. CASE \E p \in Pids : Dies(p)
  BY <1>25 DEF Dies
<1>26. CASE Reap
  BY <1>26 DEF Reap
<1>27. CASE Charge
  BY <1>27 DEF Charge
<1>28. CASE Closed \/ UNCHANGED vars
  BY <1>28 DEF Closed
<1>29. CASE CgroupKillFails
  BY <1>29 DEF CgroupKillFails
<1>30. CASE RemovedByOthers
  BY <1>30 DEF RemovedByOthers
<1> QED
  BY <1>1, <1>2, <1>3, <1>4, <1>5, <1>6, <1>7, <1>8, <1>9, <1>10, <1>11,
     <1>12, <1>13, <1>14, <1>15, <1>16, <1>17, <1>18, <1>19, <1>20, <1>21,
     <1>22, <1>23, <1>24, <1>25, <1>26, <1>27, <1>28, <1>29, <1>30
     DEF Next, Goroutine, Sampler

\* A sandbox is started behind all the limits.
LEMMA NextControl ==
  ASSUME SandboxByPlace, ControlByPlace, [Next]_vars
  PROVE  ControlByPlace'
<1> USE FilesAssumption
<1> USE DEF SandboxByPlace, ControlByPlace, Closing, Killing, Passes, vars,
            fixed, control, processes, memory, sampling, kills, request
<1>1. CASE createCgroupPath
  BY <1>1 DEF createCgroupPath
<1>2. CASE \E f \in Files : writeCgroupControl(f)
  BY <1>2 DEF writeCgroupControl
<1>3. CASE WriteFails
  BY <1>3 DEF WriteFails
<1>4. CASE startSandbox
  BY <1>4 DEF startSandbox
<1>5. CASE startMemorySampler
  BY <1>5 DEF startMemorySampler
<1>6. CASE WaitDone
  BY <1>6 DEF WaitDone
<1>7. CASE TimedOut
  BY <1>7 DEF TimedOut
<1>8. CASE hardKillProcessGroup
  BY <1>8 DEF hardKillProcessGroup
<1>9. CASE Drain
  BY <1>9 DEF Drain
<1>10. CASE CgroupKill
  BY <1>10 DEF CgroupKill
<1>11. CASE readCgroupPIDs
  BY <1>11 DEF readCgroupPIDs
<1>12. CASE \E p \in Pids : KillOne(p)
  BY <1>12 DEF KillOne
<1>13. CASE Killed
  BY <1>13 DEF Killed
<1>14. CASE closeCancel
  BY <1>14 DEF closeCancel
<1>15. CASE Join
  BY <1>15 DEF Join
<1>16. CASE determinePeakKB
  BY <1>16 DEF determinePeakKB
<1>17. CASE CloseKills
  BY <1>17 DEF CloseKills
<1>18. CASE Removed
  BY <1>18 DEF Removed
<1>19. CASE NotRemoved
  BY <1>19 DEF NotRemoved, Remains
<1>20. CASE Tick
  BY <1>20 DEF Tick
<1>21. CASE updatePeak
  BY <1>21 DEF updatePeak
<1>22. CASE SamplerReturns
  BY <1>22 DEF SamplerReturns
<1>23. CASE TwoSeconds
  BY <1>23 DEF TwoSeconds
<1>24. CASE Fork
  BY <1>24 DEF Fork
<1>25. CASE \E p \in Pids : Dies(p)
  BY <1>25 DEF Dies
<1>26. CASE Reap
  BY <1>26 DEF Reap
<1>27. CASE Charge
  BY <1>27 DEF Charge
<1>28. CASE Closed \/ UNCHANGED vars
  BY <1>28 DEF Closed
<1>29. CASE CgroupKillFails
  BY <1>29 DEF CgroupKillFails
<1>30. CASE RemovedByOthers
  BY <1>30 DEF RemovedByOthers
<1> QED
  BY <1>1, <1>2, <1>3, <1>4, <1>5, <1>6, <1>7, <1>8, <1>9, <1>10, <1>11,
     <1>12, <1>13, <1>14, <1>15, <1>16, <1>17, <1>18, <1>19, <1>20, <1>21,
     <1>22, <1>23, <1>24, <1>25, <1>26, <1>27, <1>28, <1>29, <1>30
     DEF Next, Goroutine, Sampler

\* Behind the join the sampler has nothing to do.
LEMMA NextSampler ==
  ASSUME SandboxByPlace, SamplerByPlace, [Next]_vars
  PROVE  SamplerByPlace'
<1> USE DEF SandboxByPlace, SamplerByPlace, Closing, Killing, Measured, Passes,
            vars, fixed, control, processes, memory, sampling, kills, request
<1>1. CASE createCgroupPath
  BY <1>1 DEF createCgroupPath
<1>2. CASE \E f \in Files : writeCgroupControl(f)
  BY <1>2 DEF writeCgroupControl
<1>3. CASE WriteFails
  BY <1>3 DEF WriteFails
<1>4. CASE startSandbox
  BY <1>4 DEF startSandbox
<1>5. CASE startMemorySampler
  BY <1>5 DEF startMemorySampler
<1>6. CASE WaitDone
  BY <1>6 DEF WaitDone
<1>7. CASE TimedOut
  BY <1>7 DEF TimedOut
<1>8. CASE hardKillProcessGroup
  BY <1>8 DEF hardKillProcessGroup
<1>9. CASE Drain
  BY <1>9 DEF Drain
<1>10. CASE CgroupKill
  BY <1>10 DEF CgroupKill
<1>11. CASE readCgroupPIDs
  BY <1>11 DEF readCgroupPIDs
<1>12. CASE \E p \in Pids : KillOne(p)
  BY <1>12 DEF KillOne
<1>13. CASE Killed
  BY <1>13 DEF Killed
<1>14. CASE closeCancel
  BY <1>14 DEF closeCancel
<1>15. CASE Join
  BY <1>15 DEF Join
<1>16. CASE determinePeakKB
  BY <1>16 DEF determinePeakKB
<1>17. CASE CloseKills
  BY <1>17 DEF CloseKills
<1>18. CASE Removed
  BY <1>18 DEF Removed
<1>19. CASE NotRemoved
  BY <1>19 DEF NotRemoved, Remains
<1>20. CASE Tick
  BY <1>20 DEF Tick
<1>21. CASE updatePeak
  BY <1>21 DEF updatePeak
<1>22. CASE SamplerReturns
  BY <1>22 DEF SamplerReturns
<1>23. CASE TwoSeconds
  BY <1>23 DEF TwoSeconds
<1>24. CASE Fork
  BY <1>24 DEF Fork
<1>25. CASE \E p \in Pids : Dies(p)
  BY <1>25 DEF Dies
<1>26. CASE Reap
  BY <1>26 DEF Reap
<1>27. CASE Charge
  BY <1>27 DEF Charge
<1>28. CASE Closed \/ UNCHANGED vars
  BY <1>28 DEF Closed
<1>29. CASE CgroupKillFails
  BY <1>29 DEF CgroupKillFails
<1>30. CASE RemovedByOthers
  BY <1>30 DEF RemovedByOthers
<1> QED
  BY <1>1, <1>2, <1>3, <1>4, <1>5, <1>6, <1>7, <1>8, <1>9, <1>10, <1>11,
     <1>12, <1>13, <1>14, <1>15, <1>16, <1>17, <1>18, <1>19, <1>20, <1>21,
     <1>22, <1>23, <1>24, <1>25, <1>26, <1>27, <1>28, <1>29, <1>30
     DEF Next, Goroutine, Sampler

-----------------------------------------------------------------------------
(* The memory figure.                                                      *)

\* The peak stored, and the value in hand, make up what was read.
LEMMA NextReadings ==
  ASSUME TypeOK, SamplerByPlace, Readings, [Next]_vars
  PROVE  Readings'
<1> USE MemoryAssumption
<1> USE DEF TypeOK, SamplerByPlace, Readings, Larger, Passes, vars, fixed,
            control, processes, memory, sampling, kills, request
<1>1. CASE createCgroupPath
  BY <1>1 DEF createCgroupPath
<1>2. CASE \E f \in Files : writeCgroupControl(f)
  BY <1>2 DEF writeCgroupControl
<1>3. CASE WriteFails
  BY <1>3 DEF WriteFails
<1>4. CASE startSandbox
  BY <1>4 DEF startSandbox
<1>5. CASE startMemorySampler
  BY <1>5 DEF startMemorySampler
<1>6. CASE WaitDone
  BY <1>6 DEF WaitDone
<1>7. CASE TimedOut
  BY <1>7 DEF TimedOut
<1>8. CASE hardKillProcessGroup
  BY <1>8 DEF hardKillProcessGroup
<1>9. CASE Drain
  BY <1>9 DEF Drain
<1>10. CASE CgroupKill
  BY <1>10 DEF CgroupKill
<1>11. CASE readCgroupPIDs
  BY <1>11 DEF readCgroupPIDs
<1>12. CASE \E p \in Pids : KillOne(p)
  BY <1>12 DEF KillOne
<1>13. CASE Killed
  BY <1>13 DEF Killed
<1>14. CASE closeCancel
  BY <1>14 DEF closeCancel
<1>15. CASE Join
  BY <1>15 DEF Join
<1>16. CASE determinePeakKB
  BY <1>16 DEF determinePeakKB
<1>17. CASE CloseKills
  BY <1>17 DEF CloseKills
<1>18. CASE Removed
  BY <1>18 DEF Removed
<1>19. CASE NotRemoved
  BY <1>19 DEF NotRemoved, Remains
<1>20. CASE Tick
  BY <1>20 DEF Tick
<1>21. CASE updatePeak
  BY <1>21 DEF updatePeak
<1>22. CASE SamplerReturns
  BY <1>22 DEF SamplerReturns
<1>23. CASE TwoSeconds
  BY <1>23 DEF TwoSeconds
<1>24. CASE Fork
  BY <1>24 DEF Fork
<1>25. CASE \E p \in Pids : Dies(p)
  BY <1>25 DEF Dies
<1>26. CASE Reap
  BY <1>26 DEF Reap
<1>27. CASE Charge
  BY <1>27 DEF Charge
<1>28. CASE Closed \/ UNCHANGED vars
  BY <1>28 DEF Closed
<1>29. CASE CgroupKillFails
  BY <1>29 DEF CgroupKillFails
<1>30. CASE RemovedByOthers
  BY <1>30 DEF RemovedByOthers
<1> QED
  BY <1>1, <1>2, <1>3, <1>4, <1>5, <1>6, <1>7, <1>8, <1>9, <1>10, <1>11,
     <1>12, <1>13, <1>14, <1>15, <1>16, <1>17, <1>18, <1>19, <1>20, <1>21,
     <1>22, <1>23, <1>24, <1>25, <1>26, <1>27, <1>28, <1>29, <1>30
     DEF Next, Goroutine, Sampler

\* The figure covers what was read, and is covered by what was there.
LEMMA FigureCovers ==
  ASSUME TypeOK, Readings, sampler # "read",
         NEW figure,
         figure = Larger(rss, bytesToKB(Larger(peak, ReadMemoryPeakBytes)))
  PROVE  /\ figure * KB >= seen
         /\ kernel.peak => figure * KB >= highest
         /\ figure > rss => (figure - 1) * KB < highest
<1> DEFINE bytes == Larger(peak, ReadMemoryPeakBytes)
           rounded == bytesToKB(bytes)
<1>1. /\ peak \in Nat /\ highest \in Nat /\ seen \in Nat /\ rss \in Nat
      /\ KB \in Nat /\ seen = peak /\ seen <= highest
  BY MemoryAssumption DEF TypeOK, Readings
<1>2. /\ bytes \in Nat /\ seen <= bytes /\ bytes <= highest
      /\ kernel.peak => bytes = highest
  BY <1>1 DEF Larger, ReadMemoryPeakBytes
<1>3. /\ rounded \in Nat
      /\ rounded * KB >= bytes
      /\ (rounded - 1) * KB < bytes
  BY <1>2, RoundedUp
<1>4. /\ figure \in Nat /\ rounded <= figure
      /\ figure > rss => figure = rounded
  BY <1>1, <1>3 DEF Larger
<1>5. rounded * KB <= figure * KB
  BY <1>3, <1>4, Ordered
<1> HIDE DEF bytes, rounded
<1>6. rounded * KB \in Nat /\ figure * KB \in Nat
  BY <1>1, <1>3, <1>4
<1>7. figure * KB >= bytes
  BY <1>2, <1>3, <1>5, <1>6
<1>8. figure * KB >= seen /\ (kernel.peak => figure * KB >= highest)
  BY <1>1, <1>2, <1>6, <1>7
<1>9. ASSUME figure > rss
      PROVE  (figure - 1) * KB < highest
  <2>1. figure = rounded /\ (rounded - 1) * KB \in Int
    BY <1>1, <1>3, <1>4, <1>9
  <2> QED BY <1>1, <1>2, <1>3, <2>1
<1> QED BY <1>8, <1>9

\* The figure is only made once, when nobody reads or charges any more.
LEMMA NextPeak ==
  ASSUME IInv, [Next]_vars
  PROVE  PeakCovered'
<1> USE DEF IInv
<1>1. CASE determinePeakKB
  <2>1. sampler # "read"
    BY <1>1 DEF determinePeakKB, SamplerByPlace
  <2>2. /\ memoryUsed'
             = Larger(rss, bytesToKB(Larger(peak, ReadMemoryPeakBytes)))
        /\ UNCHANGED <<rss, kernel, seen, highest>>
    BY <1>1 DEF determinePeakKB, fixed, memory, sampling
  <2> QED BY <2>1, <2>2, FigureCovers DEF PeakCovered
<1>2. CASE UNCHANGED <<memoryUsed, rss, kernel, seen, highest>>
  BY <1>2 DEF PeakCovered, Measured
<1>3. CASE Tick \/ Charge
  <2>1. ~Measured /\ memoryUsed' = memoryUsed
    BY <1>3 DEF Tick, Charge, SandboxByPlace, DoomedWithRoot, SamplerByPlace,
         request
  <2> QED BY <2>1 DEF PeakCovered, Measured
<1>4. determinePeakKB \/ Tick \/ Charge
        \/ UNCHANGED <<memoryUsed, rss, kernel, seen, highest>>
  BY DEF Next, Goroutine, Sampler, createCgroupPath, writeCgroupControl,
       WriteFails, startSandbox, startMemorySampler, WaitDone, TimedOut,
       hardKillProcessGroup, Drain, CgroupKill, readCgroupPIDs, KillOne, Killed,
       closeCancel, Join, CloseKills, Removed, NotRemoved, updatePeak,
       SamplerReturns, TwoSeconds, Fork, Dies, Reap, Closed, Passes, vars,
       fixed, memory, sampling, request, CgroupKillFails, RemovedByOthers
<1> QED BY <1>1, <1>2, <1>3, <1>4

-----------------------------------------------------------------------------
(* The theorems.                                                           *)

\* The invariant holds at the start, and every step keeps it.
LEMMA Inductive == Spec => []IInv
<1>1. Init => IInv
  <2> SUFFICES ASSUME Init PROVE IInv
    OBVIOUS
  <2>1. TypeOK
    BY InitTypes
  <2>2. SandboxByPlace /\ DoomedWithRoot /\ SamplerByPlace /\ PeakCovered
    BY DEF Init, SandboxByPlace, DoomedWithRoot, SamplerByPlace, PeakCovered,
         Closing, Killing, Measured
  <2>3. ControlByPlace /\ Readings
    BY FilesAssumption
       DEF Init, ControlByPlace, Closing, Killing, Readings, Larger
  <2> QED BY <2>1, <2>2, <2>3 DEF IInv
<1>2. IInv /\ [Next]_vars => IInv'
  BY NextTypes, NextSandbox, NextDoomed, NextControl, NextSampler,
     NextReadings, NextPeak DEF IInv
<1> QED BY <1>1, <1>2, PTL DEF Spec

\* The variables keep their types, and only a process that is there has a
\* signal pending.
THEOREM TypeCorrect == Spec => []TypeOK
<1>1. IInv => TypeOK
  BY DEF IInv
<1> QED BY <1>1, Inductive, PTL

\* However many processes the program forks while KillAll reads and kills
\* them one by one, it is doomed when KillAll returns without an error; and
\* with one or without, the reply is made of a sandbox that is gone
\* (cgroup_runtime.go, process_wait.go).
THEOREM KilledAll == Spec => []KilledForGood
<1>1. IInv => KilledForGood
  BY DEF IInv, SandboxByPlace, DoomedWithRoot, KilledForGood
<1> QED BY <1>1, Inductive, PTL

\* Behind wg.Wait there is no sampler (sampler.go).
THEOREM SamplerEnds == Spec => []SamplerJoined
<1>1. IInv => SamplerJoined
  BY DEF IInv, SamplerByPlace, Closing, SamplerJoined
<1> QED BY <1>1, Inductive, PTL

\* The memory figure is neither less than what was read of the group nor more
\* than it had, to a kilobyte (response.go, sampler.go).
THEOREM FigureHonest == Spec => []PeakCovered
<1>1. IInv => PeakCovered
  BY DEF IInv
<1> QED BY <1>1, Inductive, PTL

-----------------------------------------------------------------------------
(* The refinement.                                                         *)

\* Every step is a step of ControlGroup or none.
LEMMA MapNext ==
  ASSUME IInv, [Next]_vars
  PROVE  [Group!Next]_(Group!vars)
<1> USE RootAssumption
<1> USE DEF IInv, TypeOK, SandboxByPlace, DoomedWithRoot, ControlByPlace,
            Closing, Killing, Passes, vars, fixed, control, processes, memory,
            sampling, kills, request,
            Group!Next, Group!vars, Group!Make, Group!Fail, Group!Start,
            Group!Doom, Group!Empty, Group!Remove
<1>1. CASE createCgroupPath
  BY <1>1 DEF createCgroupPath
<1>2. CASE \E f \in Files : writeCgroupControl(f)
  BY <1>2 DEF writeCgroupControl
<1>3. CASE WriteFails
  BY <1>3 DEF WriteFails
<1>4. CASE startSandbox
  BY <1>4 DEF startSandbox
<1>5. CASE startMemorySampler
  BY <1>5 DEF startMemorySampler
<1>6. CASE WaitDone
  BY <1>6 DEF WaitDone
<1>7. CASE TimedOut
  BY <1>7 DEF TimedOut
<1>8. CASE hardKillProcessGroup
  BY <1>8 DEF hardKillProcessGroup
<1>9. CASE Drain
  BY <1>9 DEF Drain
<1>10. CASE CgroupKill
  BY <1>10 DEF CgroupKill
<1>11. CASE readCgroupPIDs
  BY <1>11 DEF readCgroupPIDs
<1>12. CASE \E p \in Pids : KillOne(p)
  BY <1>12 DEF KillOne
<1>13. CASE Killed
  BY <1>13 DEF Killed
<1>14. CASE closeCancel
  BY <1>14 DEF closeCancel
<1>15. CASE Join
  BY <1>15 DEF Join
<1>16. CASE determinePeakKB
  BY <1>16 DEF determinePeakKB
<1>17. CASE CloseKills
  BY <1>17 DEF CloseKills
<1>18. CASE Removed
  BY <1>18 DEF Removed
<1>19. CASE NotRemoved
  BY <1>19 DEF NotRemoved, Remains
<1>20. CASE Tick
  BY <1>20 DEF Tick
<1>21. CASE updatePeak
  BY <1>21 DEF updatePeak
<1>22. CASE SamplerReturns
  BY <1>22 DEF SamplerReturns
<1>23. CASE TwoSeconds
  BY <1>23 DEF TwoSeconds
<1>24. CASE Fork
  BY <1>24 DEF Fork
<1>25. CASE \E p \in Pids : Dies(p)
  BY <1>25 DEF Dies
<1>26. CASE Reap
  BY <1>26 DEF Reap
<1>27. CASE Charge
  BY <1>27 DEF Charge
<1>28. CASE Closed \/ UNCHANGED vars
  BY <1>28 DEF Closed
<1>29. CASE CgroupKillFails
  BY <1>29 DEF CgroupKillFails
<1>30. CASE RemovedByOthers
  BY <1>30 DEF RemovedByOthers
<1> QED
  BY <1>1, <1>2, <1>3, <1>4, <1>5, <1>6, <1>7, <1>8, <1>9, <1>10, <1>11,
     <1>12, <1>13, <1>14, <1>15, <1>16, <1>17, <1>18, <1>19, <1>20, <1>21,
     <1>22, <1>23, <1>24, <1>25, <1>26, <1>27, <1>28, <1>29, <1>30
     DEF Next, Goroutine, Sampler

\* Whoever drives the group by these steps keeps the promise: no start
\* without all limits, no way back for a killed sandbox, no group closed under
\* one (cgroup_create.go, cgroup_runtime.go, process_wait.go).
THEOREM Implements == Spec => ImplementsControlGroup
<1>1. Init => Group!Init
  BY FilesAssumption DEF Init, Group!Init
<1>2. IInv /\ [Next]_vars => [Group!Next]_(Group!vars)
  BY MapNext
<1> QED BY <1>1, <1>2, Inductive, PTL
       DEF Spec, ImplementsControlGroup, Group!Spec
=============================================================================
