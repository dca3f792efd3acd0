---------------------------- MODULE SandboxServer ----------------------------
(***************************************************************************)
(* The server at work: one goroutine per request, from the handler through *)
(* dispatcher.Dispatch and executor.Execute to the reply, sharing the RAM  *)
(* ledger and the sandbox-init binary, and driving one sandbox each: a     *)
(* directory, read-only mounts, a control group and a process tree of the  *)
(* host.  Around them the kernel, the program under test, the timers, the  *)
(* failures of any step the code tests for, and a crash of the server,     *)
(* which loses its memory and leaves the host as it was.                   *)
(***************************************************************************)
EXTENDS Integers, FiniteSets

CONSTANTS
  Requests,    \* the requests clients send, each once
  Languages,   \* the "language" fields they hold
  Amounts,     \* the memory limits normalizeRequest gives them, in KB
  RAM_LIMIT,   \* GLOBAL_RAM_LIMIT, in KB
  Faults,      \* the steps that may fail
  MaxCrashes   \* bound: how often the server crashes

SetupFaults   == {"prepare", "build", "install", "cgroup", "mounts", "openfd",
                  "start", "wait", "kill"}
CleanupFaults == {"rmdir", "unmount", "remove"}

ASSUME AmountsAssumption == Amounts \subseteq Nat \ {0}
ASSUME LimitAssumption == RAM_LIMIT \in Nat
ASSUME RequestsAssumption == IsFiniteSet(Requests)
ASSUME FaultsAssumption == Faults \subseteq SetupFaults \cup CleanupFaults
ASSUME CrashAssumption == MaxCrashes \in Nat

VARIABLES
  pc,            \* where the goroutine of a request is
  lang, limit,   \* its language and its memory limit
  outcome,       \* what Dispatch will return for it
  ram_available, \* the RAM ledger
  once,          \* sandboxInitOnce and what its function left
  ctx,           \* the timeout context of a request
  res,           \* what a request has on the host, beside processes
  root,          \* the first process of its sandbox, pid 1 of its namespace
  grouped,       \* whether that process is still in its own process group
  crashes

vars == <<pc, lang, limit, outcome, ram_available, once, ctx, res, root,
          grouped, crashes>>
call == <<lang, limit>>
proc == <<root, grouped>>

-----------------------------------------------------------------------------
(* Languages (executor, normalizeLanguage and buildWorkspacePlan).         *)

normalizeLanguage(l) ==
  CASE l \in {"python", "py", "python3"} -> "python3"
    [] l \in {"c++", "cpp"}              -> "cpp"
    [] OTHER                             -> l

Supported(l)   == normalizeLanguage(l) \in {"c", "cpp", "java", "python3"}
Compiled(l)    == normalizeLanguage(l) \in {"c", "cpp", "java"}
NeedsMounts(l) == normalizeLanguage(l) \in {"java", "python3"}

-----------------------------------------------------------------------------
(* The places of a goroutine.                                              *)

\* Between a granted ReserveRAM and the deferred releaseRAM.
Setup   == {"prepare", "compile", "build", "ensure", "cgroup", "mounts",
            "openfd", "start"}
Waiting == {"wait", "kill_group", "kill_cgroup", "drain"}
Unwind  == {"finalize", "close_fd", "close_cgroup", "unmount", "remove",
            "release"}
Places  == {"idle", "reserve"} \cup Setup \cup Waiting \cup Unwind
             \cup {"reply", "done", "lost"}

Holding(r)  == pc[r] \in Setup \cup Waiting \cup Unwind
InFlight(r) == pc[r] \notin {"idle", "done", "lost"}

Goto(r, place) == pc' = [pc EXCEPT ![r] = place]

\* Mutant: an error returns past the deferred calls.
MutFailTo(r, place) == /\ Goto(r, "reply")
                       /\ outcome' = [outcome EXCEPT ![r] = "error"]

\* A step fails: its error goes up, the deferred calls from place on run.
FailTo(r, place) == /\ Goto(r, place)
                    /\ outcome' = [outcome EXCEPT ![r] = "error"]

MayFail(fault) == fault \in Faults

Gain(r, kinds) == [res EXCEPT ![r] = @ \cup kinds]
Drop(r, kinds) == [res EXCEPT ![r] = @ \ kinds]

\* Undoing a step whose own error the code ignores: what it should remove
\* stays behind when it fails.
Undone(r, kinds, fault) ==
  {Drop(r, kinds)} \cup (IF MayFail(fault) THEN {res} ELSE {})

\* The step never happened, or was half done and its undoing failed.
NeverMade(r, kinds, fault) ==
  {res} \cup (IF MayFail(fault) THEN {Gain(r, kinds)} ELSE {})

-----------------------------------------------------------------------------
(* Processes.  A killed or exited pid 1 takes its whole namespace with it: *)
(* it is "dying" until the kernel has killed the descendants, "zombie"     *)
(* when only its status is left, "reaped" when somebody waited for it.     *)
(* The control group has processes while it is running or dying.           *)

Alive(r) == root[r] \in {"running", "dying"}

Kill(r) == [root EXCEPT ![r] = IF @ = "running" THEN "dying" ELSE @]

-----------------------------------------------------------------------------
Init == /\ pc = [r \in Requests |-> "idle"]
        /\ lang \in [Requests -> Languages]
        /\ limit = [r \in Requests |-> 0]
        /\ outcome = [r \in Requests |-> "none"]
        /\ ram_available = RAM_LIMIT
        /\ once = "unused"
        /\ ctx = [r \in Requests |-> "none"]
        /\ res = [r \in Requests |-> {}]
        /\ root = [r \in Requests |-> "none"]
        /\ grouped = [r \in Requests |-> TRUE]
        /\ crashes = 0

-----------------------------------------------------------------------------
(* Dispatch (dispatcher, resourcemanager).                                 *)

\* A body arrives and is normalised; its language was fixed at the start.
Receive(r) ==
  /\ pc[r] = "idle"
  /\ \E a \in Amounts : limit' = [limit EXCEPT ![r] = a]
  /\ Goto(r, "reserve")
  /\ UNCHANGED <<lang, outcome, ram_available, once, ctx, res, proc, crashes>>

\* Mutant: only the whole capacity is tested.
MutFitsCapacity(r) == limit[r] <= RAM_LIMIT

\* Mutant: the last KB is never given away.
MutFitsStrictly(r) == limit[r] < RAM_LIMIT /\ limit[r] < ram_available

Fits(r) == limit[r] <= RAM_LIMIT /\ limit[r] <= ram_available

CannotReserve(r) ==
  /\ pc[r] = "reserve"
  /\ ~Fits(r)
  /\ outcome' = [outcome EXCEPT ![r] = "refused"]
  /\ Goto(r, "reply")
  /\ UNCHANGED <<call, ram_available, once, ctx, res, proc, crashes>>

ReserveRAM(r) ==
  /\ pc[r] = "reserve"
  /\ Fits(r)
  /\ ram_available' = ram_available - limit[r]
  /\ Goto(r, "prepare")
  /\ UNCHANGED <<call, outcome, once, ctx, res, proc, crashes>>

ReleaseRAM(r) ==
  /\ pc[r] = "release"
  /\ ram_available' = ram_available + limit[r]
  /\ Goto(r, "reply")
  /\ UNCHANGED <<call, outcome, once, ctx, res, proc, crashes>>

Reply(r) ==
  /\ pc[r] = "reply"
  /\ Goto(r, "done")
  /\ UNCHANGED <<call, outcome, ram_available, once, ctx, res, proc, crashes>>

-----------------------------------------------------------------------------
(* Setting the sandbox up (executor, Execute).                             *)

\* A directory with the source in it; on any error it is removed again.
PrepareWorkspace(r) ==
  /\ pc[r] = "prepare"
  /\ \/ /\ Supported(lang[r])
        /\ res' = Gain(r, {"dir"})
        /\ Goto(r, "compile")
        /\ UNCHANGED outcome
     \/ /\ ~Supported(lang[r]) \/ MayFail("prepare")
        /\ res' \in NeverMade(r, {"dir"}, "remove")
        /\ FailTo(r, "release")
  /\ UNCHANGED <<call, ram_available, once, ctx, proc, crashes>>

\* Languages without a compiler go straight on.
NoCompile(r) ==
  /\ pc[r] = "compile"
  /\ ~Compiled(lang[r])
  /\ Goto(r, "ensure")
  /\ UNCHANGED <<call, outcome, ram_available, once, ctx, res, proc, crashes>>

\* The compiler ends.  Nothing limits how long it takes.
CompilerEnds(r) ==
  /\ pc[r] = "compile"
  /\ Compiled(lang[r])
  /\ \/ Goto(r, "ensure") /\ UNCHANGED outcome
     \/ /\ Goto(r, "unmount")
        /\ outcome' = [outcome EXCEPT ![r] = "compile_error"]
  /\ UNCHANGED <<call, ram_available, once, ctx, res, proc, crashes>>

\* Mutant: a nil check instead of sync.Once.
MutEnterOnce(r) ==
  /\ pc[r] = "ensure"
  /\ once \in {"unused", "building"}
  /\ once' = "building"
  /\ res' = Gain(r, {"build_dir"})
  /\ Goto(r, "build")
  /\ UNCHANGED <<call, outcome, ram_available, ctx, proc, crashes>>

\* sandboxInitOnce: the first to come runs the function, in a directory of
\* its own, and the others wait for it to end.
EnterOnce(r) ==
  /\ pc[r] = "ensure"
  /\ once = "unused"
  /\ once' = "building"
  /\ res' = Gain(r, {"build_dir"})
  /\ Goto(r, "build")
  /\ UNCHANGED <<call, outcome, ram_available, ctx, proc, crashes>>

LeaveOnce(r) ==
  /\ pc[r] = "build"
  /\ once' \in {"built"} \cup (IF MayFail("build") THEN {"failed"} ELSE {})
  /\ res' \in Undone(r, {"build_dir"}, "remove")
  /\ Goto(r, "ensure")
  /\ UNCHANGED <<call, outcome, ram_available, ctx, proc, crashes>>

\* The rest of ensureSandboxInitBinary, once the function has run.
InstallInit(r) ==
  /\ pc[r] = "ensure"
  /\ \/ once = "built" /\ Goto(r, "cgroup") /\ UNCHANGED outcome
     \/ /\ once = "failed" \/ (once = "built" /\ MayFail("install"))
        /\ FailTo(r, "unmount")
  /\ UNCHANGED <<call, ram_available, once, ctx, res, proc, crashes>>

\* Mutant: an error is no reason to stop.
MutNewCgroupV2(r) ==
  /\ pc[r] = "cgroup"
  /\ res' \in {res, Gain(r, {"cgroup"})}
  /\ Goto(r, "mounts")
  /\ UNCHANGED <<call, outcome, ram_available, once, ctx, proc, crashes>>

\* Created and limited, or closed again at the first write that fails.
NewCgroupV2(r) ==
  /\ pc[r] = "cgroup"
  /\ \/ /\ res' = Gain(r, {"cgroup"})
        /\ Goto(r, "mounts")
        /\ UNCHANGED outcome
     \/ /\ MayFail("cgroup")
        /\ res' \in NeverMade(r, {"cgroup"}, "rmdir")
        /\ FailTo(r, "unmount")
  /\ UNCHANGED <<call, ram_available, once, ctx, proc, crashes>>

\* The read-only mounts of an interpreted language, rolled back on error.
PrepareRuntimeMounts(r) ==
  /\ pc[r] = "mounts"
  /\ \/ /\ res' = Gain(r, IF NeedsMounts(lang[r]) THEN {"mounts"} ELSE {})
        /\ Goto(r, "openfd")
        /\ UNCHANGED outcome
     \/ /\ NeedsMounts(lang[r]) /\ MayFail("mounts")
        /\ res' \in NeverMade(r, {"mounts"}, "unmount")
        /\ FailTo(r, "close_cgroup")
  /\ UNCHANGED <<call, ram_available, once, ctx, proc, crashes>>

\* The timeout starts to run here, before the process is there.
OpenFD(r) ==
  /\ pc[r] = "openfd"
  /\ ctx' = [ctx EXCEPT ![r] = "armed"]
  /\ \/ /\ res' = Gain(r, {"fd"})
        /\ Goto(r, "start")
        /\ UNCHANGED outcome
     \/ /\ MayFail("openfd")
        /\ FailTo(r, "close_fd")
        /\ UNCHANGED res
  /\ UNCHANGED <<call, ram_available, once, proc, crashes>>

\* cmd.Start: a process in namespaces, a process group and the control
\* group of its own.
StartSandbox(r) ==
  /\ pc[r] = "start"
  /\ \/ /\ root' = [root EXCEPT ![r] = "running"]
        /\ Goto(r, "wait")
        /\ UNCHANGED outcome
     \/ /\ MayFail("start")
        /\ FailTo(r, "close_fd")
        /\ UNCHANGED root
  /\ UNCHANGED <<call, ram_available, once, ctx, res, grouped, crashes>>

-----------------------------------------------------------------------------
(* Waiting for the sandbox (executor, waitForSandbox).                     *)

\* The select takes the result: cmd.Wait has returned in its goroutine.
WaitDone(r) ==
  /\ pc[r] = "wait"
  /\ root[r] = "reaped"
  /\ outcome' = [outcome EXCEPT ![r] = "answer"]
  /\ Goto(r, "finalize")
  /\ UNCHANGED <<call, ram_available, once, ctx, res, proc, crashes>>

\* The select takes the deadline, even if the result is there as well.
WaitTimedOut(r) ==
  /\ pc[r] = "wait"
  /\ ctx[r] = "fired"
  /\ Goto(r, "kill_group")
  /\ UNCHANGED <<call, outcome, ram_available, once, ctx, res, proc, crashes>>

\* kill(-pid) reaches the process only while it leads that group.
HardKillProcessGroup(r) ==
  /\ pc[r] = "kill_group"
  /\ root' = IF grouped[r] THEN Kill(r) ELSE root
  /\ Goto(r, "kill_cgroup")
  /\ UNCHANGED <<call, outcome, ram_available, once, ctx, res, grouped, crashes>>

\* Mutant: the process group is trusted to hold every process.
MutNoKillAll(r) ==
  /\ pc[r] = "kill_cgroup"
  /\ Goto(r, "drain")
  /\ UNCHANGED <<call, outcome, ram_available, once, ctx, res, proc, crashes>>

\* Mutant: nobody waits for the killed process.
MutNoDrain(r) ==
  /\ pc[r] = "kill_cgroup"
  /\ root' = Kill(r)
  /\ outcome' = [outcome EXCEPT ![r] = "timeout"]
  /\ Goto(r, "finalize")
  /\ UNCHANGED <<call, ram_available, once, ctx, res, grouped, crashes>>

KillAll(r) ==
  /\ pc[r] = "kill_cgroup"
  /\ root' \in {Kill(r)} \cup (IF MayFail("kill") THEN {root} ELSE {})
  /\ Goto(r, "drain")
  /\ UNCHANGED <<call, outcome, ram_available, once, ctx, res, grouped, crashes>>

\* <-done after the kills.
Drain(r) ==
  /\ pc[r] = "drain"
  /\ root[r] = "reaped"
  /\ outcome' = [outcome EXCEPT ![r] = "timeout"]
  /\ Goto(r, "finalize")
  /\ UNCHANGED <<call, ram_available, once, ctx, res, proc, crashes>>

-----------------------------------------------------------------------------
(* Unwinding: finalizeResponse, then the deferred calls, last one first.   *)

\* Wait may have returned an error that is no exit status.
FinalizeResponse(r) ==
  /\ pc[r] = "finalize"
  /\ \/ Goto(r, "close_fd") /\ UNCHANGED outcome
     \/ MayFail("wait") /\ FailTo(r, "close_fd")
  /\ UNCHANGED <<call, ram_available, once, ctx, res, proc, crashes>>

\* Mutant: Execute does not defer cg.Close.
MutCloseFD(r) ==
  /\ pc[r] = "close_fd"
  /\ res' = Drop(r, {"fd"})
  /\ ctx' = [ctx EXCEPT ![r] = "cancelled"]
  /\ Goto(r, "unmount")
  /\ UNCHANGED <<call, outcome, ram_available, once, proc, crashes>>

CloseFD(r) ==
  /\ pc[r] = "close_fd"
  /\ res' = Drop(r, {"fd"})
  /\ ctx' = [ctx EXCEPT ![r] = "cancelled"]
  /\ Goto(r, "close_cgroup")
  /\ UNCHANGED <<call, outcome, ram_available, once, proc, crashes>>

\* cg.Close: kill, then remove; after two seconds of processes that stay or
\* of a directory that cannot be removed it gives up.
CloseCgroup(r) ==
  /\ pc[r] = "close_cgroup"
  /\ root' = Kill(r)
  /\ res' \in IF Alive(r) THEN {res} ELSE Undone(r, {"cgroup"}, "rmdir")
  /\ Goto(r, "unmount")
  /\ UNCHANGED <<call, outcome, ram_available, once, ctx, grouped, crashes>>

CleanupRuntimeMounts(r) ==
  /\ pc[r] = "unmount"
  /\ res' \in Undone(r, {"mounts"}, "unmount")
  /\ Goto(r, "remove")
  /\ UNCHANGED <<call, outcome, ram_available, once, ctx, proc, crashes>>

\* RemoveAll cannot remove a directory with a read-only mount in it.
RemoveWorkspace(r) ==
  /\ pc[r] = "remove"
  /\ res' \in IF "mounts" \in res[r] THEN {res}
              ELSE Undone(r, {"dir"}, "remove")
  /\ Goto(r, "release")
  /\ UNCHANGED <<call, outcome, ram_available, once, ctx, proc, crashes>>

-----------------------------------------------------------------------------
(* The program, the kernel and the clock.                                  *)

\* A program may move itself to another process group.
LeaveGroup(r) ==
  /\ root[r] = "running" /\ grouped[r]
  /\ grouped' = [grouped EXCEPT ![r] = FALSE]
  /\ UNCHANGED <<pc, call, outcome, ram_available, once, ctx, res, root, crashes>>

\* It exits, or a signal or the memory limit ends it.
ProgramEnds(r) ==
  /\ root[r] = "running"
  /\ root' = Kill(r)
  /\ UNCHANGED <<pc, call, outcome, ram_available, once, ctx, res, grouped, crashes>>

\* The kernel has killed and waited for the rest of the namespace.
NamespaceEmpty(r) ==
  /\ root[r] = "dying"
  /\ root' = [root EXCEPT ![r] = "zombie"]
  /\ UNCHANGED <<pc, call, outcome, ram_available, once, ctx, res, grouped, crashes>>

\* cmd.Wait in the goroutine of waitForSandbox; the host's init process for
\* the orphans of a server that crashed.
Reap(r) ==
  /\ root[r] = "zombie"
  /\ pc[r] \in Waiting \cup {"lost"}
  /\ root' = [root EXCEPT ![r] = "reaped"]
  /\ UNCHANGED <<pc, call, outcome, ram_available, once, ctx, res, grouped, crashes>>

TimerFires(r) ==
  /\ ctx[r] = "armed"
  /\ ctx' = [ctx EXCEPT ![r] = "fired"]
  /\ UNCHANGED <<pc, call, outcome, ram_available, once, res, proc, crashes>>

\* The server dies and is started again: goroutines, timers, descriptors and
\* package variables are gone, the host keeps everything else.
Crash ==
  /\ crashes < MaxCrashes
  /\ \E r \in Requests : InFlight(r)
  /\ crashes' = crashes + 1
  /\ pc' = [r \in Requests |-> IF InFlight(r) THEN "lost" ELSE pc[r]]
  /\ ctx' = [r \in Requests |-> "none"]
  /\ res' = [r \in Requests |-> res[r] \ {"fd"}]
  /\ ram_available' = RAM_LIMIT
  /\ once' = "unused"
  /\ UNCHANGED <<call, outcome, proc>>

-----------------------------------------------------------------------------
(* What runs by itself: a goroutine goes on, the kernel finishes what it   *)
(* began, time passes.  Nothing makes a client send, a compiler end, a     *)
(* program end or a server crash.                                          *)
Goroutine(r) ==
  \/ CannotReserve(r) \/ ReserveRAM(r) \/ ReleaseRAM(r) \/ Reply(r)
  \/ PrepareWorkspace(r) \/ NoCompile(r) \/ EnterOnce(r) \/ LeaveOnce(r)
  \/ InstallInit(r) \/ NewCgroupV2(r) \/ PrepareRuntimeMounts(r)
  \/ OpenFD(r) \/ StartSandbox(r)
  \/ WaitDone(r) \/ WaitTimedOut(r) \/ HardKillProcessGroup(r)
  \/ KillAll(r) \/ Drain(r)
  \/ FinalizeResponse(r) \/ CloseFD(r) \/ CloseCgroup(r)
  \/ CleanupRuntimeMounts(r) \/ RemoveWorkspace(r)

Host(r) == NamespaceEmpty(r) \/ Reap(r)

Outside(r) == Receive(r) \/ CompilerEnds(r) \/ LeaveGroup(r) \/ ProgramEnds(r)

\* The server is idle again and no sandbox is left to run.
Quiet == /\ \A r \in Requests : pc[r] \in {"done", "lost"} /\ ~Alive(r)
         /\ UNCHANGED vars

Next == \/ \E r \in Requests :
             Goroutine(r) \/ Host(r) \/ TimerFires(r) \/ Outside(r)
        \/ Crash
        \/ Quiet

Spec == Init /\ [][Next]_vars

Fairness == \A r \in Requests : /\ WF_vars(Goroutine(r))
                                /\ WF_vars(Host(r))
                                /\ WF_vars(TimerFires(r))

FairSpec == Spec /\ Fairness

-----------------------------------------------------------------------------
(* Properties.                                                             *)

Outcomes == {"none", "refused", "error", "compile_error", "answer", "timeout"}
Kinds    == {"dir", "build_dir", "cgroup", "mounts", "fd"}

\* Types of the variables.
Types ==
  /\ pc \in [Requests -> Places]
  /\ lang \in [Requests -> Languages]
  /\ limit \in [Requests -> Amounts \cup {0}]
  /\ outcome \in [Requests -> Outcomes]
  /\ ram_available \in Nat
  /\ once \in {"unused", "building", "built", "failed"}
  /\ ctx \in [Requests -> {"none", "armed", "fired", "cancelled"}]
  /\ res \in [Requests -> SUBSET Kinds]
  /\ root \in [Requests -> {"none", "running", "dying", "zombie", "reaped"}]
  /\ grouped \in [Requests -> BOOLEAN]
  /\ crashes \in 0..MaxCrashes

\* Types, and the ledger neither wraps below zero nor gives back more than
\* it has lent (resourcemanager/memory.go, an unsigned counter).
TypeOK == Types /\ ram_available <= RAM_LIMIT

\* The KBs that the requests of a set R have by the limits l, one element
\* each: their number is the sum of those limits.
Units(l, R) == {u \in R \X (1..RAM_LIMIT) : u[2] <= l[u[1]]}

Holders == {r \in Requests : Holding(r)}

\* The ledger is exact: what is missing from it is what the requests between
\* ReserveRAM and the deferred releaseRAM hold, on every path through
\* Execute, each error path included (resourcemanager/memory.go).
RamLedger == ram_available + Cardinality(Units(limit, Holders)) = RAM_LIMIT

\* The sandboxes whose server is still there never have more than the
\* configured RAM between them (config/globals.go), since a sandbox is only
\* given back to the ledger when its last process is gone.
Managed == {r \in Requests : Alive(r) /\ pc[r] # "lost"}
ManagedRamWithinLimit == Cardinality(Units(limit, Managed)) <= RAM_LIMIT

\* The same of all sandboxes that run.
RunningRamWithinLimit ==
  Cardinality(Units(limit, {r \in Requests : Alive(r)})) <= RAM_LIMIT

\* While a sandbox has processes, what confines them is there: their control
\* group, by which they are killed and measured, their directory and, where
\* the language needs them, its mounts.
ConfinedWhileAlive ==
  \A r \in Requests : Alive(r) =>
    /\ {"dir", "cgroup"} \subseteq res[r]
    /\ NeedsMounts(lang[r]) => "mounts" \in res[r]

\* What may be left on the host when a step that undoes another one fails.
Leftovers ==
  {k \in Kinds : \/ k = "cgroup" /\ MayFail("rmdir")
                 \/ k = "mounts" /\ MayFail("unmount")
                 \/ k = "dir" /\ (MayFail("remove") \/ MayFail("unmount"))
                 \/ k = "build_dir" /\ MayFail("remove")}

\* When a client has its reply, its sandbox is gone: no process, and nothing
\* on the host but what a failed removal left.
GoneWhenAnswered ==
  \A r \in Requests : pc[r] \in {"release", "reply", "done"} =>
    /\ root[r] \in {"none", "reaped"}
    /\ res[r] \subseteq Leftovers

\* A sandbox is only set up behind a sandbox-init binary that was built, and
\* one goroutine at most builds it (sync.Once).
InitBuiltOnce ==
  /\ \A r \in Requests :
       pc[r] \in {"cgroup", "mounts", "openfd", "start"} \cup Waiting
         => once = "built"
  /\ Cardinality({r \in Requests : pc[r] = "build"})
       = (IF once = "building" THEN 1 ELSE 0)

\* A directory is never removed under a mount, a control group or a process
\* that still uses it: the deferred calls undo the setup last one first.
RemovedLast ==
  [][\A r \in Requests :
       "dir" \in res[r] /\ "dir" \notin res'[r] =>
         /\ "mounts" \notin res[r]
         /\ "cgroup" \in res[r] => MayFail("rmdir")
         /\ ~Alive(r)]_vars

\* Whatever the program does, even leaving its process group, and whatever
\* other requests wait in their compilers: once a request is past its own
\* compiler, it is answered, unless the server crashes.
Answered ==
  \A r \in Requests : pc[r] = "ensure" ~> pc[r] \in {"done", "lost"}

-----------------------------------------------------------------------------
(* What makes the invariants inductive: where a goroutine is tells what its*)
(* sandbox has.                                                            *)

ProcessesByPlace ==
  \A r \in Requests :
    /\ pc[r] \in {"idle", "reserve"} \cup Setup => root[r] = "none"
    /\ pc[r] \in Unwind \cup {"reply", "done"} => root[r] \in {"none", "reaped"}

ResourcesByPlace ==
  \A r \in Requests :
    /\ pc[r] \in (Setup \ {"prepare"}) \cup Waiting => "dir" \in res[r]
    /\ pc[r] \in {"mounts", "openfd", "start"} \cup Waiting => "cgroup" \in res[r]
    /\ pc[r] \in {"openfd", "start"} \cup Waiting /\ NeedsMounts(lang[r])
         => "mounts" \in res[r]

\* Who holds RAM was found to fit, and was not refused.
HoldersFit ==
  \A r \in Requests :
    /\ Holding(r) => limit[r] <= RAM_LIMIT
    /\ Holding(r) \/ pc[r] \in {"idle", "reserve"} => outcome[r] # "refused"

-----------------------------------------------------------------------------
(* The promise to the clients.                                             *)

\* What a request that reached Dispatch gets: an admission that holds what
\* it says and ends, or a refusal for want of memory.
Standing(r) == IF pc[r] = "idle" THEN "new"
               ELSE IF pc[r] = "reserve" THEN "asking"
               ELSE IF Holding(r) THEN "admitted"
               ELSE IF outcome[r] = "refused" THEN "refused"
               ELSE "over"

Promise == INSTANCE Admission WITH
             status <- [r \in Requests |-> Standing(r)],
             amount <- limit

\* The ledger and its two tests implement Admission: the counter never
\* drifts from the sum it stands for, so a refusal is always due.
ImplementsAdmission == Promise!Spec

-----------------------------------------------------------------------------
(* The promise to each sandbox.                                            *)

GroupOf(r) ==
  IF "cgroup" \in res[r]
  THEN IF pc[r] \in {"unmount", "remove", "release", "reply", "done", "lost"}
       THEN "left" ELSE "ready"
  ELSE IF pc[r] \in {"idle", "reserve"} \cup Setup THEN "none" ELSE "gone"

SandboxOf(r) == CASE root[r] \in {"none", "running"} -> root[r]
                  [] root[r] \in {"dying", "zombie"} -> "doomed"
                  [] root[r] = "reaped"              -> "gone"

Group(r) == INSTANCE ControlGroup WITH
              group <- GroupOf(r),
              sandbox <- SandboxOf(r),
              serving <- pc[r] # "lost"

\* A sandbox starts in a group that was made with all its limits, and that
\* group is given up behind it on every path through Execute's deferred
\* calls, but for a crash of the server.  CgroupHandle, which opens up the
\* steps that drive the group, implements the same.
ImplementsControlGroup ==
  /\ \A r \in Requests : Group(r)!Init
  /\ [][\A r \in Requests : [Group(r)!Next]_(Group(r)!vars)]_vars
=============================================================================
