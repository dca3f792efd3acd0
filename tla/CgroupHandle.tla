----------------------------- MODULE CgroupHandle -----------------------------
(***************************************************************************)
(* The life of one control group: NewCgroupV2 write by write, the sandbox  *)
(* in it with a program that forks, the sampler beside it, waitForSandbox  *)
(* with its kills, the memory figure of the reply, and the retries of      *)
(* Close.  SandboxServer takes each of these as one step.                  *)
(***************************************************************************)
EXTENDS Integers

CONSTANTS
  Files,      \* the control files cgroupControlFiles names
  Pids,       \* the pids of the sandbox, as many as pids.max allows at once
  Root,       \* the first of them, pid 1 of the sandbox's namespace
  MaxUsage,   \* bound: memory.current, in bytes
  KB,         \* bytes of a kilobyte
  MaxRss,     \* bound: the rusage of the sandbox, in KB
  Kernels,    \* [kill, peak]: what opening cgroup.kill gives on the host,
              \* and whether it has memory.peak
  Faults      \* the calls that may fail

ASSUME FilesAssumption == Files # {}
ASSUME RootAssumption == Root \in Pids
ASSUME MemoryAssumption ==
  MaxUsage \in Nat /\ MaxRss \in Nat /\ KB \in Nat \ {0}
\* os.WriteFile opens with O_CREATE: on a kernel without cgroup.kill, cgroupfs
\* answers that with a permission error ("denied"); "absent" is ErrNotExist,
\* the answer KillAll has its fallback for.
ASSUME KernelAssumption ==
  Kernels \subseteq [kill : {"works", "denied", "absent"}, peak : BOOLEAN]
\* "kill": a signal, or the write to cgroup.kill; "read": cgroup.procs;
\* "gone": somebody else removes the empty group.
ASSUME FaultAssumption ==
  Faults \subseteq {"mkdir", "write", "start", "kill", "read", "rmdir", "gone"}

VARIABLES
  kernel,      \* the kernel of the host
  pc,          \* where the goroutine of the request is
  written,     \* the control files that are written
  dir,         \* the directory of the group: "none", "there", "gone"
  sandbox,     \* "none", "started", "reaped" by cmd.Wait
  alive,       \* the processes in the group
  killed,      \* those among them with a SIGKILL pending
  list,        \* what readCgroupPIDs gave KillAll
  after,       \* where KillAll returns to
  killErr,     \* whether it returned an error, which nobody looks at
  late,        \* whether the deadline of Close has passed
  usage,       \* memory.current
  highest,     \* what memory.peak says, where the kernel has it
  cancel,      \* whether the sampler's channel is closed
  sampler,     \* its goroutine: "off", "select", "read", "done"
  current,     \* what it has read last
  peak,        \* its peak
  seen,        \* history: the largest value it has read
  rss,         \* ru_maxrss
  memoryUsed   \* what finalizeResponse makes of them, -1 before

fixed     == <<kernel, rss>>
control   == <<written, dir>>
processes == <<sandbox, alive, killed>>
memory    == <<usage, highest>>
sampling  == <<cancel, sampler, current, peak, seen>>
kills     == <<list, after, killErr, late>>
vars == <<fixed, pc, control, processes, memory, sampling, kills, memoryUsed>>

\* What the request's goroutine has to itself.
request == <<pc, control, kills, memoryUsed>>

\* The goroutine only goes on.
Passes(from, to) ==
  /\ pc = from /\ pc' = to
  /\ UNCHANGED <<fixed, control, processes, memory, sampling, kills, memoryUsed>>

MayFail(fault) == fault \in Faults
Larger(a, b) == IF a > b THEN a ELSE b

-----------------------------------------------------------------------------
Init == /\ kernel \in Kernels /\ rss \in 0..MaxRss
        /\ pc = "create" /\ written = {} /\ dir = "none"
        /\ sandbox = "none" /\ alive = {} /\ killed = {}
        /\ usage = 0 /\ highest = 0
        /\ cancel = FALSE /\ sampler = "off"
        /\ current = 0 /\ peak = 0 /\ seen = 0
        /\ list = {} /\ after = "none" /\ killErr = FALSE /\ late = FALSE
        /\ memoryUsed = -1

-----------------------------------------------------------------------------
(* NewCgroupV2.                                                            *)

createCgroupPath ==
  /\ pc = "create"
  /\ \/ pc' = "configure" /\ dir' = "there"
     \/ MayFail("mkdir") /\ pc' = "closed" /\ UNCHANGED dir
  /\ UNCHANGED <<fixed, written, processes, memory, sampling, kills, memoryUsed>>

\* The range over a map takes the files in any order.
writeCgroupControl(f) ==
  /\ pc = "configure" /\ f \notin written
  /\ written' = written \cup {f}
  /\ pc' = IF written' = Files THEN "start" ELSE "configure"
  /\ UNCHANGED <<fixed, dir, processes, memory, sampling, kills, memoryUsed>>

\* Mutant: the error of a write is lost.
MutWriteFails == MayFail("write") /\ Passes("configure", "start")

\* The handle is closed at the first write that fails.
WriteFails == MayFail("write") /\ Passes("configure", "close")

-----------------------------------------------------------------------------
(* The sandbox is started in the group, or a step up to that fails and the *)
(* deferred Close runs.                                                    *)

startSandbox ==
  /\ pc = "start"
  /\ \/ pc' = "sample" /\ sandbox' = "started" /\ alive' = {Root}
     \/ MayFail("start") /\ pc' = "close" /\ UNCHANGED <<sandbox, alive>>
  /\ UNCHANGED <<fixed, control, killed, memory, sampling, kills, memoryUsed>>

startMemorySampler ==
  /\ pc = "sample" /\ pc' = "wait"
  /\ sampler' = "select"
  /\ UNCHANGED <<fixed, control, processes, memory, cancel, current, peak, seen,
                 kills, memoryUsed>>

-----------------------------------------------------------------------------
(* waitForSandbox.                                                         *)

WaitDone == sandbox = "reaped" /\ Passes("wait", "stop")

TimedOut == Passes("wait", "kill_group")

\* Whoever has left the process group of Root is not reached.
hardKillProcessGroup ==
  /\ pc = "kill_group" /\ pc' = "kill_all"
  /\ \E reached \in SUBSET alive : killed' = killed \cup reached
  /\ after' = "drain" /\ killErr' = FALSE
  /\ UNCHANGED <<fixed, control, sandbox, alive, memory, sampling, list, late,
                 memoryUsed>>

\* <-done
Drain == sandbox = "reaped" /\ Passes("drain", "stop")

-----------------------------------------------------------------------------
(* KillAll, from waitForSandbox or from Close.                             *)

\* One write to cgroup.kill reaches everybody, whoever forks meanwhile.
CgroupKill ==
  /\ pc = "kill_all" /\ dir = "there" /\ kernel.kill = "works"
  /\ killed' = alive
  /\ pc' = after
  /\ UNCHANGED <<fixed, control, sandbox, alive, memory, sampling, kills,
                 memoryUsed>>

\* Any error but ErrNotExist ends KillAll, with nobody killed.
CgroupKillFails ==
  /\ pc = "kill_all" /\ dir = "there"
  /\ kernel.kill = "denied" \/ MayFail("kill")
  /\ pc' = after /\ killErr' = TRUE
  /\ UNCHANGED <<fixed, control, processes, memory, sampling, list, after, late,
                 memoryUsed>>

\* ErrNotExist: of the file, or of the whole group.
NoCgroupKill == kernel.kill = "absent" \/ dir = "gone"

\* Mutant: the last line of cgroup.procs is lost.
MutReadCgroupPIDs ==
  /\ pc = "kill_all" /\ NoCgroupKill /\ pc' = "kill_each"
  /\ \E last \in Pids : list' = alive \ {last}
  /\ UNCHANGED <<fixed, control, processes, memory, sampling, after, killErr,
                 late, memoryUsed>>

\* The fallback: the processes of this moment, to be killed one by one.
readCgroupPIDs ==
  /\ pc = "kill_all" /\ NoCgroupKill
  /\ \/ /\ dir = "there" /\ pc' = "kill_each"
        /\ list' = alive
        /\ UNCHANGED killErr
     \/ /\ dir = "gone" \/ MayFail("read")
        /\ pc' = after /\ killErr' = TRUE
        /\ UNCHANGED list
  /\ UNCHANGED <<fixed, control, processes, memory, sampling, after, late,
                 memoryUsed>>

\* A process that has gone meanwhile (ESRCH) is passed over; one that cannot
\* be killed is left alive, and its error returned at the end.
KillOne(p) ==
  /\ pc = "kill_each" /\ p \in list
  /\ list' = list \ {p}
  /\ \/ /\ killed' = killed \cup (alive \cap {p})
        /\ UNCHANGED killErr
     \/ /\ MayFail("kill") /\ p \in alive
        /\ killErr' = TRUE
        /\ UNCHANGED killed
  /\ UNCHANGED <<fixed, pc, control, sandbox, alive, memory, sampling, after,
                 late, memoryUsed>>

Killed == list = {} /\ Passes("kill_each", after)

-----------------------------------------------------------------------------
(* The sampler.  Go's select takes either of two ready channels; a tick is *)
(* ready every five milliseconds.                                          *)

Tick == /\ sampler = "select" /\ dir = "there"
        /\ current' = usage /\ seen' = Larger(seen, usage)
        /\ sampler' = "read"
        /\ UNCHANGED <<fixed, request, processes, memory, cancel, peak>>

\* Mutant: the value read last is stored.
MutUpdatePeak == /\ sampler = "read" /\ sampler' = "select"
                 /\ peak' = current
                 /\ UNCHANGED <<fixed, request, processes, memory, cancel,
                                current, seen>>

\* No other goroutine stores to it, so the compare-and-swap never repeats.
updatePeak == /\ sampler = "read" /\ sampler' = "select"
              /\ peak' = Larger(peak, current)
              /\ UNCHANGED <<fixed, request, processes, memory, cancel,
                             current, seen>>

SamplerReturns == /\ sampler = "select" /\ cancel
                  /\ sampler' = "done"
                  /\ UNCHANGED <<fixed, request, processes, memory, cancel,
                                 current, peak, seen>>

closeCancel == /\ pc = "stop" /\ pc' = "join"
               /\ cancel' = TRUE
               /\ UNCHANGED <<fixed, control, processes, memory, sampler,
                              current, peak, seen, kills, memoryUsed>>

\* Mutant: the peak is read without waiting.
MutJoin == Passes("join", "measure")

\* wg.Wait
Join == sampler = "done" /\ Passes("join", "measure")

-----------------------------------------------------------------------------
(* finalizeResponse's figure, then the deferred Close.                     *)

bytesToKB(bytes) == (bytes + KB - 1) \div KB

ReadMemoryPeakBytes == IF kernel.peak THEN highest ELSE 0

\* Mutant: the bytes are told as if they were kilobytes.
MutDeterminePeakKB ==
  /\ pc = "measure" /\ pc' = "close"
  /\ memoryUsed' = Larger(rss, Larger(peak, ReadMemoryPeakBytes))
  /\ UNCHANGED <<fixed, control, processes, memory, sampling, kills>>

determinePeakKB ==
  /\ pc = "measure" /\ pc' = "close"
  /\ memoryUsed' = Larger(rss, bytesToKB(Larger(peak, ReadMemoryPeakBytes)))
  /\ UNCHANGED <<fixed, control, processes, memory, sampling, kills>>

\* Each round of Close begins with a KillAll.
CloseKills ==
  /\ pc = "close" /\ pc' = "kill_all"
  /\ after' = "remove" /\ killErr' = FALSE
  /\ UNCHANGED <<fixed, control, processes, memory, sampling, list, late,
                 memoryUsed>>

\* Nobody is left, and the group is removed, now or by somebody else.
Removed ==
  /\ pc = "remove" /\ alive = {} /\ pc' = "closed"
  /\ dir' = "gone"
  /\ UNCHANGED <<fixed, written, processes, memory, sampling, kills, memoryUsed>>

\* Somebody is still there, the processes cannot be read, or the kernel is not
\* done with the group.
Remains == dir = "there" /\ (alive # {} \/ MayFail("read") \/ MayFail("rmdir"))

\* Mutant: Close tries for ever.
MutNotRemoved == Remains /\ Passes("remove", "close")

\* Another round, before the deadline.
NotRemoved == Remains /\ Passes("remove", IF late THEN "closed" ELSE "close")

TwoSeconds == /\ pc \in {"kill_all", "kill_each", "remove", "close"}
              /\ after = "remove" /\ ~late
              /\ late' = TRUE
              /\ UNCHANGED <<fixed, pc, control, processes, memory, sampling,
                             list, after, killErr, memoryUsed>>

-----------------------------------------------------------------------------
(* The kernel and the program.                                             *)

\* Who has a SIGKILL pending forks no more.
Fork == /\ \E p \in alive \ killed, child \in Pids \ alive :
             alive' = alive \cup {child}
        /\ UNCHANGED <<fixed, request, sandbox, killed, memory, sampling>>

\* A process ends, killed or not; pid 1 takes its namespace with it.
Dies(p) == /\ p \in alive
           /\ alive' = alive \ {p}
           /\ killed' = IF p = Root THEN alive' ELSE killed \ {p}
           /\ UNCHANGED <<fixed, request, sandbox, memory, sampling>>

\* cmd.Wait returns in its goroutine: pid 1 is reaped behind all the others.
Reap == /\ sandbox = "started" /\ alive = {}
        /\ sandbox' = "reaped"
        /\ UNCHANGED <<fixed, request, alive, killed, memory, sampling>>

\* An administrator or systemd removes the empty group under Close.
RemovedByOthers ==
  /\ MayFail("gone") /\ dir = "there" /\ alive = {}
  /\ \/ pc \in {"close", "remove"}
     \/ pc \in {"kill_all", "kill_each"} /\ after = "remove"
  /\ dir' = "gone"
  /\ UNCHANGED <<fixed, pc, written, processes, memory, sampling, kills,
                 memoryUsed>>

Charge == /\ alive # {}
          /\ usage' \in (0..MaxUsage) \ {usage}
          /\ highest' = Larger(highest, usage')
          /\ UNCHANGED <<fixed, request, processes, sampling>>

-----------------------------------------------------------------------------
Goroutine ==
  \/ createCgroupPath \/ WriteFails \/ \E f \in Files : writeCgroupControl(f)
  \/ startSandbox \/ startMemorySampler
  \/ WaitDone \/ TimedOut \/ hardKillProcessGroup \/ Drain
  \/ CgroupKill \/ CgroupKillFails
  \/ readCgroupPIDs \/ (\E p \in Pids : KillOne(p)) \/ Killed
  \/ closeCancel \/ Join \/ determinePeakKB
  \/ CloseKills \/ Removed \/ NotRemoved

Sampler == Tick \/ updatePeak \/ SamplerReturns

KilledDies == \E p \in killed : Dies(p)

Closed == pc = "closed" /\ UNCHANGED vars

Next == \/ Goroutine \/ Sampler \/ TwoSeconds
        \/ Fork \/ (\E p \in Pids : Dies(p)) \/ Reap \/ Charge
        \/ RemovedByOthers
        \/ Closed

Spec == Init /\ [][Next]_vars

\* The goroutine goes on, the deadline included; the kernel delivers what is
\* pending; time passes; and a select does not refuse for ever a channel that
\* is ready again and again.  A program need not end.
FairSpec == /\ Spec
            /\ WF_vars(Goroutine) /\ WF_vars(TwoSeconds)
            /\ WF_vars(KilledDies) /\ WF_vars(Reap)
            /\ WF_vars(updatePeak) /\ SF_vars(SamplerReturns)

-----------------------------------------------------------------------------
(* Properties.                                                             *)

Places == {"create", "configure", "start", "sample", "wait", "kill_group",
           "kill_all", "kill_each", "drain", "stop", "join", "measure",
           "close", "remove", "closed"}

\* Types of the variables: only a live process has a signal pending, and the
\* figure is in kilobytes.
TypeOK ==
  /\ kernel \in Kernels
  /\ pc \in Places /\ after \in {"none", "drain", "remove"}
  /\ written \subseteq Files /\ dir \in {"none", "there", "gone"}
  /\ sandbox \in {"none", "started", "reaped"}
  /\ killed \subseteq alive /\ alive \subseteq Pids /\ list \subseteq Pids
  /\ killErr \in BOOLEAN /\ late \in BOOLEAN /\ cancel \in BOOLEAN
  /\ sampler \in {"off", "select", "read", "done"}
  /\ {usage, highest, current, peak, seen} \subseteq 0..MaxUsage
  /\ rss \in 0..MaxRss
  /\ memoryUsed \in -1..Larger(MaxRss, bytesToKB(MaxUsage))

Measured == memoryUsed >= 0

\* A KillAll that returns no error has doomed the sandbox, whatever it forks
\* while its pids are read and killed one by one (cgroup_runtime.go, KillAll);
\* and even after one that failed, of which waitForSandbox does not hear, the
\* reply is only made of a sandbox of which nobody is left (process_wait.go).
KilledForGood ==
  /\ pc = "drain" /\ ~killErr => Root \notin alive \ killed
  /\ pc \in {"stop", "join", "measure"} \/ Measured =>
       alive = {} /\ sandbox = "reaped"

\* What README.md says of the timeout: a program that runs longer is killed
\* immediately, so nothing waits any more for one that is not (process_wait.go).
KilledOnTimeout == pc = "drain" => Root \notin alive \ killed

\* The sampler does not outlive its stop (sampler.go): nobody reads the files
\* of a group that Close removes, nor raises a peak that was reported.
SamplerJoined ==
  pc \in {"measure", "close", "remove", "closed"} => sampler \in {"off", "done"}

\* The figure told to the client covers every reading of the sampler and,
\* where the kernel keeps it, the true peak; and it is no more than the group
\* or the sandbox really had (response.go, determinePeakKB).
PeakCovered ==
  Measured =>
    /\ memoryUsed * KB >= seen
    /\ kernel.peak => memoryUsed * KB >= highest
    /\ memoryUsed > rss => (memoryUsed - 1) * KB < highest

\* What the sandbox may rely on: SandboxServer implements the same in single
\* steps.
Group == INSTANCE ControlGroup WITH
  serving <- TRUE,
  group <- IF pc = "closed" THEN IF dir = "there" THEN "left" ELSE "gone"
           ELSE IF written = Files THEN "ready" ELSE "none",
  sandbox <- CASE sandbox = "none"                    -> "none"
               [] sandbox = "reaped"                  -> "gone"
               [] sandbox = "started"
                    /\ Root \in alive \ killed        -> "running"
               [] OTHER                               -> "doomed"

\* No sandbox starts with a limit missing, none comes back once it is killed,
\* and its group is not closed before it is gone, whichever of the writes,
\* kills and removals fail (cgroup_create.go, cgroup_runtime.go).
ImplementsControlGroup == Group!Spec

\* The request gets through, with a program that never ends by itself and
\* with a group that the kernel does not let go; the one thing that can hold
\* it for ever is a program that neither the signal to the process group nor
\* a failing KillAll has reached (process_wait.go, sampler.go,
\* cgroup_runtime.go).
Closes == \/ <>(pc = "closed")
          \/ <>[](pc = "drain" /\ killErr /\ Root \in alive \ killed)
=============================================================================
