# A verification development of ContainerizationAPI

ContainerizationAPI ("CodeSandboxAPI") is a Go server that runs programs which
clients send it. A request names a language, some code, some input, a timeout
and an amount of memory; the server runs the program in a sandbox made of a
directory, Linux namespaces, a control group and a seccomp filter, and answers
with what it printed. A web page sends such requests and shows the answers.

This directory holds TLA+ models of the server's control flow, the TLC
configurations that check them on small instances, and proofs, checked by
TLAPS, that hold for every number of requests, every limit, every choice of
failing steps, every number of crashes, every word size, every kernel's set of
capabilities, every list of mounts, every cap on the output and every number of
clicks, whatever the environment holds and whatever the host has mounted.

    tlc -workers 2 -config MCServerFaults.cfg MCServer
    tlapm SandboxServerProofs.tla
    tlapm ServerRefinements.tla
    tlapm CgroupHandleProofs.tla
    tlapm LimitsProofs.tla
    tlapm SandboxInitProofs.tla
    tlapm RuntimeMountsProofs.tla
    tlapm ResponseProofs.tla
    tlapm CompilerPageProofs.tla

## 1. The system

Paths are relative to the root of the repository.

### Components, their state and their operations

| component | state | operations |
|---|---|---|
| routes, models (`routes/`, `models/`) | none | bind the JSON body; `/execute` converts seconds to a `time.Duration`; call `Dispatch`; map a `Response` and an error to a status and a body |
| dispatcher (`dispatcher/main.go`) | `workerActive` (only tests write it) | `normalizeRequest`, the capacity test, `ReserveRAM`, `executor.Execute`, the deferred release, `cannotReserveResponse` |
| RAM ledger (`resourcemanager/memory.go`, `main.go`) | one unsigned counter under a mutex | `ReserveRAM`, `ReleaseRAM` |
| executor (`executor/main.go`, `process_wait.go`, `signals.go`, `command.go`) | per request: workspace, control group, command, context | `Execute` and its deferred calls, `startSandbox`, `waitForSandbox` |
| workspace (`executor/workspace.go`) | `ws.dir`, `ws.runtimeMounts`, `ws.mountedTargets`; the host's directories and mounts | `prepareWorkspace`, `compileWorkspace`, `prepareRuntimeMounts`, `cleanupWorkspace` |
| sandbox-init builder (`executor/sandbox_init.go`) | `sandboxInitOnce`, `sandboxInitBinary`, `sandboxInitErr` | build once, install in each workspace |
| sandbox-init, the C program in the same file | the credentials and filters of the process it becomes | mount procfs, drop capabilities, install seccomp, `execve` |
| response (`executor/response.go`, `limited_buffer.go`) | two capped buffers per request | `Write`, `finalizeResponse` |
| memory sampler (`executor/sampler.go`) | a peak, a channel, a wait group | start, sample every 5 ms, stop |
| control groups (`resourcemanager/cgroup_*.go`) | a directory below `/sys/fs/cgroup` per request | `NewCgroupV2`, `OpenFD`, `KillAll`, `Close`, read `memory.*` |
| configuration (`config/`) | constants after start-up | parse the environment |
| debug route (`routes/debug.go`) | none | print the configuration and the ledger |
| web page (`web/src/`) | editor text per language, settings, a "running" flag | choose a language, edit, run, show the card of a reply |

### How they interact

Every HTTP request is a goroutine that goes through the route, `Dispatch` and
`Execute` by plain calls, so one control state per request describes them all.
The goroutines meet in three places: the ledger (under a mutex), the
`sync.Once` of sandbox-init, and the host (distinct directories and control
groups, one pid space). Inside a request a second goroutine runs `cmd.Wait`, a
timer cancels the context and the sampler reads the control group. The program
under test runs beside all of it. A crash of the server loses its memory and
keeps what is on the host.

### What is hard, and what must be true

* **Accounting.** `Execute` returns from ten places. Whatever path is taken, the
  ledger gives back exactly what it lent (`RamLedger`), an admission or a refusal
  is always due (`ImplementsAdmission`), and the counter, unsigned, never wraps
  (`TypeOK`).
* **The limit means something.** RAM is returned when `Execute` returns; it
  protects the host only if no process of that sandbox is left then
  (`ManagedRamWithinLimit`, `GoneWhenAnswered`).
* **Set up and unwind.** Six kinds of things on the host are created in an order
  and undone by deferred calls in the reverse order; each call may fail
  (`ConfinedWhileAlive`, `RemovedLast`, `GoneWhenAnswered`).
* **Bind mounts.** `/usr` of the host is mounted into a directory that ends in
  `os.RemoveAll`. Failing halfway must not turn into deleting the host
  (`HostFilesKept`, `OnlyStuckMountsLeft`, `SandboxSeesReadOnly`, `InnerFirst`).
* **The deadline races the end of the program**, and the program may have left
  its process group (`Answered`, `GoneWhenAnswered`).
* **First use.** The first requests race to build sandbox-init, and the build may
  fail (`InitBuiltOnce`).
* **Numbers.** Two units of time, a clamp, a unit conversion, an unsigned limit
  of which zero means "none" (`WithinMaxima`, `HonoursTimeout`,
  `CgroupMatchesReservation`).
* **The control group.** Six limits are written one by one before a sandbox may
  start in it; where there is no `cgroup.kill` the processes are to be read and
  killed one by one while they fork; `KillAll` may return an error that nobody
  looks at; a group that cannot be removed must not keep the request
  (`ImplementsControlGroup`, `KilledForGood`, `Closes`).
* **The memory figure** is made of three readings, one of them by a goroutine that
  is being stopped (`PeakCovered`, `SamplerJoined`).
* **The page** has an editor that loads late, code that may be the user's or a
  starter, and handlers that wait for the network (`EditorFollowsLanguage`,
  `OwnCodeKept`, `ShownIsLastReply`, `RunComesBack`).
* **The verdict.** Exit status, signal, memory events, deadline, broken stream and
  truncation all meet in one text that the page then compares with two messages
  (`TextIntact`, `OneVerdict`, `FailureIsShown`).

`PROJECT.json` lists every hazard at its line, with the properties that cover it
or the reason why none does.

## 2. The modules

| module | models | lines of code it stands for |
|---|---|---|
| `SandboxServer` | all requests at once, the host, the kernel, crashes | `dispatcher`, `executor/main.go`, `process_wait.go`, `signals.go`, the outcomes of `workspace.go`, `sandbox_init.go`, `cgroup_create.go`, `cgroup_runtime.go`, `memory.go` |
| `Admission` | the abstract promise: who is admitted, who is refused | what `ReserveRAM`, `ReleaseRAM` and `Dispatch` are for |
| `ControlGroup` | the abstract promise to a sandbox: its limits are there before it starts and its group after it ends | what `NewCgroupV2`, `KillAll` and `Close` are for |
| `CgroupHandle` | one control group from `mkdir` to `rmdir`, with the kills, the sampler and the memory figure | `cgroup_create.go`, `cgroup_runtime.go`, `sampler.go`, `process_wait.go`, `signals.go`, `determinePeakKB` |
| `CompilerPage` | one page: sidebar, editor, run button | `editor-pane.astro`, `language-sidebar.astro`, the handler in `output-pane.astro` |
| `RuntimeMounts` | one request's bind mounts, system call by system call | `workspace.go` 164-238 |
| `Response` | one execution, from what the program prints to the card on the page | `response.go`, `limited_buffer.go`, the routes, `output-pane.astro` |
| `SandboxInit` | one sandbox's first process, system call by system call | the C program in `sandbox_init.go`, `command.go` |
| `Limits` | one request's numbers, from the body to `memory.max` | `models.go`, `normalizeRequest`, `cgroup_limits.go` |
| `MCServer`, `MCMounts`, `MCLimits`, `MCCgroup` | the small instances | |
| `SandboxServerProofs`, `ServerRefinements`, `CgroupHandleProofs`, `LimitsProofs`, `SandboxInitProofs`, `RuntimeMountsProofs`, `ResponseProofs`, `CompilerPageProofs` | the theorems | |

### SandboxServer

`pc[r]` is the place of request `r`'s goroutine; the names are those of the step
it is about to take. `Setup` is the part of `Execute` before the process is
there, `Waiting` is `waitForSandbox`, `Unwind` is `finalizeResponse` and the
deferred calls in the order Go runs them. A step that fails enters `Unwind` at
the first deferred call already registered: that is the argument of `FailTo`, and
it is the thing most easily got wrong in the code.

| variable | in the code |
|---|---|
| `ram_available` | the counter of the ledger |
| `limit`, `lang`, `outcome` | `req.MemoryLimit` after `normalizeRequest`, `req.Language`, the returned `Response` and error |
| `once` | `sandboxInitOnce` with `sandboxInitErr` |
| `ctx` | the context of `context.WithTimeout` |
| `res` | what the request has on the host: its directory, the build directory of sandbox-init, its control group, its mounts, the descriptor |
| `root` | the first process of the sandbox, pid 1 of its namespace |
| `grouped` | whether `kill(-pid)` still reaches that process |

The kernel's side is small. Killing pid 1 of a namespace kills the namespace:
`root` goes from `running` to `dying`, to `zombie` when the descendants are gone,
and to `reaped` when `cmd.Wait` has returned. The program may leave its process
group (`LeaveGroup`) and may end at any time (`ProgramEnds`).

`Faults` says which steps may fail. A step whose error the code returns fails
visibly; a step whose error the code ignores (`_ = os.RemoveAll`, the unmounts,
the two seconds of `Close`) may leave behind what it should have removed
(`Undone`); a step that undoes itself on an error may fail at that as well
(`NeverMade`). `Close` is one step that succeeds only when no process is left.

A crash sends every request in flight to `lost`, fills the ledger, forgets `once`
and the timers, closes the descriptors, and leaves directories, mounts, control
groups and processes as they are. That is what the process's death does: nothing
in `executor/command.go` ties a sandbox to the life of the server.

`Standing` maps a state to `Admission`: *asking* at the ledger, *admitted* while
the goroutine holds RAM, *refused*, or *over*. A sum of limits is written as the
number of elements of `Units`, one element per KB, which needs no recursion and
can be proved about.

`Group(r)` maps the same state to `ControlGroup`, one instance per request: the
group is *ready* between `NewCgroupV2` and `CloseCgroup`, afterwards *gone* or
*left*, and the sandbox is *doomed* from the first thing that ends it.

### CgroupHandle and ControlGroup

`CgroupHandle` opens up the steps of `SandboxServer` that drive the control group
of one request. `pc` is again the place of the request's goroutine.

| variable | in the code |
|---|---|
| `written`, `dir` | the files that `configureCgroupFiles` has written; the directory |
| `alive`, `killed` | `cgroup.procs`, and who of them has a SIGKILL pending |
| `sandbox` | whether `cmd.Start` and `cmd.Wait` have returned |
| `list`, `after`, `killErr`, `late` | the pids `KillAll` goes through, its caller, whether it returned an error, the deadline of `Close` |
| `sampler`, `cancel`, `current`, `peak` | the goroutine of `run`, the closed channel, `current`, `s.peak` |
| `usage`, `highest` | `memory.current`, `memory.peak` |
| `memoryUsed` | `MemoryUsed` of the `Response` |

`seen` is history. `kernel` says what the host's kernel is like. Opening
`cgroup.kill` gives one of three answers: it *works*; it is *denied*, which is
what cgroupfs says to `O_CREATE` where the file is missing; or it is *absent*,
`ErrNotExist`, the one answer `KillAll` has its fallback for. Without
`memory.peak` the reading gives 0. The map of control files is walked in any
order. What fails between `NewCgroupV2` and the start of the process has the same
effect on the group, one call of `Close`, and is one alternative of
`startSandbox`. `kill(-pid)` reaches any set of processes, those still in the
group of the first. Whoever has a SIGKILL pending forks no more; with the first
process the whole namespace is doomed, and `cmd.Wait` returns behind the last.

`KillAll` has three ways to return an error, and each is an alternative of a step:
the write to `cgroup.kill` fails with anything but `ErrNotExist`
(`CgroupKillFails`, nobody is killed and the fallback is not tried),
`cgroup.procs` cannot be read, or one kill is refused and the others go on.
`killErr` remembers it for the properties; the code drops it in both callers.
`Close` kills, reads and removes until it is done or late; `Remains` are the
reasons for another round, and `RemovedByOthers` lets somebody else remove the
group, once it is empty and `Close` is at it, which is the `ErrNotExist` that
`Close` provides for.

`ControlGroup` is seven short actions. Here a group is *ready* when all its files
are written and a sandbox is *doomed* once its first process is dead or killed.
Both modules implement it, so what `SandboxServer` takes in one step is what the
steps of `CgroupHandle` come to.

### CompilerPage

`pressed` is the button of the sidebar, the one place `getLanguage` asks;
`activeLanguage` is the editor's. While `loaded` is false the editor does not hear
a choice. Codes are the starter of each language, a file's, the user's own, or
the empty one that `getCode` gives while there is no editor. `ReplaceStarter` is
the condition of `setEditorLanguage`. Each click on "run" starts a handler of its
own, with a place before and one after the reply has come; the guard `MayRun` is
all that keeps two of them apart. `output`, `card` and `details` carry the run
they tell of. `typed`, `missed` and `sent.astray` are history.

### RuntimeMounts

The list `ws.runtimeMounts` is walked by `index`; the host (`kind`) has a
directory, a link or nothing at each source. A bind is writable until the second
`mount` call makes it read-only, and recorded only after that. `mounts` is the
kernel's side, `mountedTargets` the code's. `Fault` counts failing calls;
`RemountFails` undoes the bind on the spot, where the undoing can fail too.
`RemoveAll` deletes what it can write. `umount2` with `MNT_DETACH` takes a whole
subtree, so the order matters where one source lies in another (`Inside`).

A host may have mounts of its own below a source (`below`). The bind is recursive,
so they come along (`submounts`) and go with their source's mount. The remount
that follows is of the one mount, whatever its flags say: they stay as writable as
they are on the host, and `SandboxSeesReadOnly` says just that. It does not follow
that `RemoveAll` gets at them. It goes down into an entry only when `unlink` says
that it is a directory, and in a read-only mount the kernel answers `EROFS`
before it looks at the entry. A mount that the unmount failed on shields what lies
below it as long as it is read-only; `Reached` is this rule, and `HostFilesKept` is
checked and proved with it.

### Response

Text is a sequence of pieces; a newline is a piece, because `appendErrorLine`
asks whether the text ends in one. `Cap` stands for the 1 MiB of a
`limitedBuffer`. `Verdict` is the chain of `append...` calls of
`finalizeResponse`. `Answer` is what both routes do with the result, `Shows` what
the page does with the reply. Status codes are 0 (none yet), 200 and 500.

### SandboxInit

`SandboxServer` starts a sandbox in one step; this is what the process does
between that step and the program under test. `position` is the place in `main`,
`capability` the loop variable of `drop_capabilities`, and the other variables are
what the kernel keeps of the process. Each call is allowed or not by what the
process still has (`MayMount`, `MayDrop`, `MayFilter`); an allowed call may fail
all the same. `known` is how many capabilities the kernel knows. For one that only
the headers know, PR_CAPBSET_DROP gives the EINVAL that the loop ignores; one that
only the kernel knows is never dropped from the bounding set, since
`CAP_LAST_CAP` is the headers'. `capset` still empties the effective set, and
`no_new_privs` keeps an `execve` from filling it again. Which
system calls the filter denies is a list, and not modelled.

### Limits

A Go `time.Duration` is a word with `WordSize` values; `Int64` is its wrapping.
The instance uses a word of 256 values so that the grid has bodies on both sides
of an overflow. Both routes are modelled: `/execute` multiplies by `time.Second`,
`/v2/execute` takes nanoseconds from the body. `Config` is `config.Config`, loaded
when the server starts and never changed: durations that may be negative, and
amounts that may be zero, with no relation between a default and its maximum, for
no code asks for one. `WithinMaxima` therefore says of what goes over a maximum,
and of every zero, which value of the environment it comes from.

## 3. The runs

| run | question | bounds | result |
|---|---|---|---|
| `server_faults` | do accounting and confinement hold whichever steps fail? | 2 requests, three languages (compiled with mounts, interpreted, unsupported), amounts 2, 4, 6 of a RAM of 5, all 12 faults, no crash | holds, 1.1 million states |
| `server_crash` | do they survive a restart, does a reply leave nothing behind, does the server implement `Admission` and `ControlGroup`, and is every request answered once it is past its compiler? | 2 requests of amounts 1 and 2 on a RAM of 2, java, one crash, every fault but a failing kill and failing removals | holds, 82 thousand states |
| `server_orphans` | is the comment on `GLOBAL_RAM_LIMIT` true across a restart? | 2 requests, one crash | violated |
| `limits` | do the conversions and clamps agree? | a grid of bodies, some over the word; four environments: the usual one, defaults over their maxima, zero defaults, a maximum of zero and one below | holds, 1.6 thousand states |
| `limits_overflow` | is the README true of very large timeouts? | the same grid, the usual environment | violated |
| `response` | is every failure told, once, and the text kept? | buffers of 2 pieces, up to 3 written to each stream | holds, 59 thousand states |
| `response_limit` | is the README's reply for a limit the one sent? | the same | violated |
| `mounts` | do rollback and cleanup leave the host alone? | 5 sources, one inside another, 54 hosts, each without mounts of its own below the sources, with one below the outer or with one below each of the two, up to 2 failing calls | holds, 12 thousand states |
| `cgroup` | does one control group keep its promise step by step, and the request get through? | 2 control files, 3 processes, 6 kernels, 3 bytes of memory in kilobytes of 2, every call may fail | holds, 0.58 million states |
| `cgroup_timeout` | is a program killed when its time is over, on a kernel without `cgroup.kill`? | one such kernel, 2 processes, no call fails otherwise | violated |
| `page` | do the panes of the page agree? | 3 languages, 2 runs | holds, 0.14 million states |
| `init` | does a program under test ever run with a privilege left, and is the order of `main` one the kernel permits? | headers with 6 capabilities, kernels that know 4, 6 or 8, every call may fail | holds, 432 states |

**Why the bounds are enough.** Two requests meet in every pair of steps, and every
race of the server is between two: for the `Once`, for the ledger, between a
holder and a newcomer. The amounts of `server_faults` include one over the
capacity, two that fit only one at a time and two that fit together; in
`server_crash` either of two requests may be refused because of the other. One
crash is all that matters for what is left behind: a second finds the same kind of
state. For the safety properties of `SandboxServer` the question is moot, since
the theorems need no bounds. Two failing calls are what it takes to reach a mount
that stays writable; three pieces overflow a buffer of two in each way (a piece
that does not fit, a pair of which one does). A buffer of one piece would hide the
second way. Three processes are one that is in the list of pids, one that is not
and the first; two control files are enough to fail between them, in either order;
three bytes are one full and one started kilobyte. Two runs are one and the one
that would overlap it; a third language lets a choice be made twice before it
comes back. The loop over six capabilities meets those that are needed later,
those that are not, those that the kernel does not know and those that only the
kernel knows.

**Deadlock** is checked in every run: each specification has an explicit
stuttering step (`Quiet`, `Returned`, `Shown`, `Served`, `Done`, `Closed`; on the
page a button can always be pressed) for the states in which the system is
properly at rest, so a state that cannot go on otherwise is an error.

**Symmetry** of the requests is used in `server_faults` only, where nothing is
temporal.

### Fairness

`FairSpec` assumes weak fairness of each goroutine (the Go scheduler is
preemptive, and no step of `Goroutine` waits on anything but what its guard says),
of the kernel (a dying namespace empties, `cmd.Wait` returns for a zombie) and of
the timers. It assumes nothing of clients, of the compiler (which
`compileWorkspace` runs without a timeout), of the program, which may run for
ever, and of crashes. This is why `Answered` starts at `ensure`, after the
compiler, and why it is worth saying: another request may sit in its compiler for
ever at the same time. One thing the fairness does assume is that the `gcc` which
`loadSandboxInitBinary` starts comes to an end (`LeaveOnce` is a step of
`Goroutine`): the code gives it no timeout, and were it to hang, every request
that needs sandbox-init would wait in the `Once` with it. `server_crash` lets
every step fail but the kill through the control group. Were that to fail too for
a program that has left its group, the request would wait in `<-done` for ever;
the code has no second resort. `cgroup`, where `KillAll` does fail, says exactly
that: `Closes` is "the request gets through, or it waits for ever in `<-done` for
a program that neither the signal to the process group nor a failing `KillAll` has
reached". Failing removals are left to `server_faults`: without them
`GoneWhenAnswered` and `RemovedLast` are at their strictest, a reply leaves
nothing at all on the host.

`CgroupHandle` assumes that the request's goroutine goes on, its timeout included,
that the kernel delivers what is pending and `cmd.Wait` returns, that time passes,
and that the sampler's goroutine runs. Its return is *strongly* fair: the select
of `run` has two channels, and a tick may be taken instead of the closed channel
any number of times, which disables the return until the tick is served. Go
chooses among ready channels at random, so it is not refused for ever. Nothing is
assumed of the program, which may never end. On the page a fetch settles, be it
with an error, and so does reading a body; nothing makes the editor load or the
user click.

### Where the code and its documentation disagree

1. `limits_overflow`: `/execute` multiplies before it clamps. From 9223372037
   seconds on, the product wraps in an int64, and the program gets a wrong or
   negative timeout instead of `MAX_TIMEOUT` (`README.md:405`).
2. `server_orphans`: `GLOBAL_RAM_LIMIT` is documented as the RAM of "all running
   sandboxes at any given time" (`config/globals.go:6`); after a crash the old
   sandboxes are not counted and have no timer.
3. `response_limit`: the README shows no output on a timeout and the message alone
   (`README.md:99-100`, `138`). The code keeps the output and appends the
   diagnostic of the SIGKILL, and the page, which compares the whole text, never
   shows its timeout or memory card for a killed program.
4. `cgroup_timeout`: a program over its time "gets killed immediately"
   (`README.md:27`). On a kernel without `cgroup.kill` the write to that file is
   refused with a permission error, because `os.WriteFile` opens with `O_CREATE`;
   `KillAll` takes only `ErrNotExist` for "not there", so it returns the error,
   which nobody reads, and never comes to its fallback. A program that has left its
   process group runs on, and its request waits.

Two more are plain in the models without a run of their own. A program whose memory
was reclaimed at its limit (`events.Max`) and that the deadline cut later is told
"Memory limit exceeded" and nothing of its time, where `README.md:27` says that a
timeout returns "Execution Timed Out"; `OneVerdict` states what is told, exactly.
And a compiler that cannot be started gives an empty reply with status 200, like a
silent program (`README.md:62`); `FailureIsShown` covers every other failure and
names this one in its comment.

## 4. The proofs

Every safety invariant and every action property that a passing run checks is a
theorem, for every value of the constants; so are the three refinements. Each
theorem rests on an inductive invariant, `IInv` of its module, which TLC checked on
the instances of section 3 before it was proved.

About the server, `SandboxServerProofs` and `ServerRefinements` assume what
`SandboxServer` states of its constants, and nothing else: `Requests` is finite,
`Amounts` are positive numbers (`normalizeRequest` never gives zero as long as
`DEFAULT_MEMORY_LIMIT` and `MAX_MEMORY_LIMIT` are), `RAM_LIMIT` and `MaxCrashes`
are numbers, `Faults` is any set of the named ones.

| theorem | says | checked in |
|---|---|---|
| `TypeCorrect` | `Spec => []TypeOK` | `server_faults` |
| `LedgerExact` | `Spec => []RamLedger` | `server_faults` |
| `WithinLimit` | `Spec => []ManagedRamWithinLimit` | `server_faults` |
| `Confined` | `Spec => []ConfinedWhileAlive` | `server_faults`, `server_crash` |
| `GoneAtTheEnd` | `Spec => []GoneWhenAnswered` | `server_crash` |
| `BuiltOnce` | `Spec => []InitBuiltOnce` | `server_crash` |
| `DirectoryLast` | `Spec => RemovedLast` | `server_crash` |
| `KeepsAdmission` (`ServerRefinements`) | `Spec => ImplementsAdmission` | `server_crash` |
| `KeepsControlGroup` (`ServerRefinements`) | `Spec => ImplementsControlGroup` | `server_crash` |

**The inductive invariant** is `IInv`. None of the properties is inductive alone:
the ledger says nothing of processes, and the properties about processes say
nothing of a goroutine that has not come to them yet. What is added says what a
request has *because of where its goroutine is*:

* `ProcessesByPlace`: no process before `StartSandbox`, none left after
  `waitForSandbox`. This is the channel receive: `WaitDone` and `Drain` need
  `reaped`.
* `ResourcesByPlace`: what a place finds made by the steps before it.
* `LeftoversByPlace`: what a place on the way out may still find, and which failed
  step is to blame.
* `BuilderByPlace`: who is inside the function of `sandboxInitOnce`, and who is
  past it.
* `HoldersFit`: who holds RAM was found to fit by `ReserveRAM`, and was not
  refused. The first makes `Units`, which counts up to `RAM_LIMIT`, the true sum.

The ledger itself is proved through `NextKinds`: four actions and `Crash` concern
it, and all others are `Silent`, they change neither the counter, nor a limit, nor
the standing of a request. `ReserveRAM` and `ReleaseRAM` move one request's units,
by `UnitsAdd`. The refinement has the same five cases: `FreeIsAvailable` turns the
exact ledger into "what is free in `Admission` is `ram_available`", and
`FitsIsFree` shows that of the two tests the code makes only the second ever
decides. The bound on running sandboxes follows because a sandbox with a process
belongs to a request that holds RAM (`ProcessesByPlace`), and a smaller set has a
smaller sum (`UnitsMonotone`).

The second refinement is per request: `GroupStep` shows, for one request at a time,
that every step is a step of `ControlGroup` for it or none. It needs one part more
than `IInv`, `GroupByPlace`: there is no group before `NewCgroupV2`, and a group
that was made is still there when `cg.Close` comes to it.

About one control group, `CgroupHandleProofs` assumes that there is a control file
to write, that `Root` is a pid, that the sizes are numbers and a kilobyte has a
byte; `Pids`, `Kernels` and `Faults` are any sets of their kinds:

| theorem | says | checked in |
|---|---|---|
| `TypeCorrect` | `Spec => []TypeOK` | `cgroup` |
| `KilledAll` | `Spec => []KilledForGood` | `cgroup` |
| `SamplerEnds` | `Spec => []SamplerJoined` | `cgroup` |
| `FigureHonest` | `Spec => []PeakCovered` | `cgroup` |
| `Implements` | `Spec => ImplementsControlGroup` | `cgroup` |

The invariant has one part per thing that the goroutine's place decides
(`SandboxByPlace`, `ControlByPlace`, `SamplerByPlace`) and two that do not depend
on it. `DoomedWithRoot` is the argument against the race of `KillAll` with `fork`:
pid 1 is on the list that `readCgroupPIDs` gave as long as it is not killed or its
kill has been refused (`killErr`), and once it has gone everybody else has a
signal pending, so nobody forks. `Readings` says that the stored peak and the
value in the sampler's hand together make up what it has read; behind the join
there is nothing in its hand. `RoundedUp` is the arithmetic of `bytesToKB`.

About the limits, `LimitsProofs` assumes that `WordSize`, `Second` and `KB` are
positive numbers, that bodies hold numbers, and of the environment only the types of
its five values: none is related to another, durations may be negative and amounts
zero. It shows, for every word size, every environment and every body:

| theorem | says | checked in |
|---|---|---|
| `TypeCorrect` | `Spec => []TypeOK` | `limits` |
| `Clamped` | `Spec => []WithinMaxima` | `limits` |
| `LedgerAndKernelAgree` | `Spec => []CgroupMatchesReservation` | `limits` |
| `TimeoutHonoured` | `Spec => []HonoursTimeout` | `limits` |

The invariant adds what is known between two handlers: `BoundTimeout`, the
duration that reached `Dispatch` is the one asked for, `BoundMemory`, the same of
the memory, and `ReservedMemory`, the amount reserved is the request's limit. The
arithmetic is in three lemmas: a representable number is its own word
(`WordOfRepresentable`), the product of seconds is exact if it fits
(`SecondsConverted`), and so is the product of kilobytes (`BytesOfLimit`).

About sandbox-init, `SandboxInitProofs` assumes that `CAP_SYS_ADMIN` and
`CAP_SETPCAP` are among the capabilities of every kernel, and what `execvp` may do.
A kernel may know fewer capabilities than the headers, or more:

| theorem | says | checked in |
|---|---|---|
| `TypeCorrect` | `Spec => []TypeOK` | `init` |
| `Confinement` | `Spec => []NothingLeft` | `init` |
| `OrderIsPermitted` | `Spec => []OrderPermitted` | `init` |

The invariant adds `DoneBefore`: what `main` has done before each of its places
and, as important for the order, what it has *not* done yet: the effective set is
whole up to `capset`. In the loop, no capability below the loop variable is left.

About the mounts, `RuntimeMountsProofs` assumes what section 5 says of the list of
sources, and that `MaxFaults` is a number. Hosts, lists and nestings are any:

| theorem | says | checked in |
|---|---|---|
| `TypeCorrect` | `Spec => []TypeOK` | `mounts` |
| `ReadOnly` | `Spec => []SandboxSeesReadOnly` | `mounts` |
| `HostKept` | `Spec => []HostFilesKept` | `mounts` |
| `OnlyStuckLeft` | `Spec => []OnlyStuckMountsLeft` | `mounts` |
| `InnerBeforeOuter` | `Spec => InnerFirst` | `mounts` |

The invariant compares three records of the same thing: the place in the list, the
kernel's mounts and `ws.mountedTargets`. `NoneForgotten` is the heart: a mount is
recorded, or stuck, or the one that `bindMountReadOnly` is at between its two
calls (`HalfMade`). `RecordedInOrder` says that the record follows the list, so
its last target lies behind all others; a source inside that target would lie
further behind still (`InsideLater`), hence it is not recorded, hence it is gone
or stuck. That proves `InnerFirst`, and also that an unmount never takes a
recorded mount with it, without which `NoneForgotten` would not be inductive.
`WritableByTwoFaults` is the account of `HostFilesKept`: a mount is writable only
half made, or at the price of two failures. `SubmountsFollow` is an invariant of
its own: the host's mounts below a source come with its mount and go with it.
`SetUp` says that nothing is amiss as long as nothing has failed.

About the reply, `ResponseProofs` assumes that `Cap` is a positive number and
`MaxWritten` a number:

| theorem | says | checked in |
|---|---|---|
| `TypeCorrect` | `Spec => []TypeOK` | `response` |
| `Intact` | `Spec => []TextIntact` | `response` |
| `FailureShows` | `Spec => []FailureIsShown` | `response` |
| `OneOnly` | `Spec => []OneVerdict` | `response` |

Two lemmas carry these. `WriteKeepsHead`: if a buffer is the head of what was
written, it is so after the next write, be that kept, cut or dropped.
`LineAppended`: `appendErrorLine` keeps the text before it and puts one message on
a line of its own; chained three times it gives `VerdictSays`, which determines
the messages of a verdict from the memory events, the deadline and the exit status
(`Said`). The rest of the invariant ties the phases together: what is returned is
the verdict of the run as it stands, because nothing of the run changes behind
`Finalizes`; a deadline or an OOM kill implies that the program has ended, and an
OOM that the limit was met before it (`LimitsEnd`), and a reply without a run is
one of four (`Unstarted`).

About the page, `CompilerPageProofs` assumes that `MaxRuns` is a number and
nothing of the languages:

| theorem | says | checked in |
|---|---|---|
| `TypeCorrect` | `Spec => []TypeOK` | `page` |
| `EditorFollows` | `Spec => []EditorFollowsLanguage` | `page` |
| `OwnCodeStays` | `Spec => OwnCodeKept` | `page` |
| `ShownIsLast` | `Spec => []ShownIsLastReply` | `page` |

`EditorBelieves` says that what the editor takes for a starter is the one of the
language it works in; `OneHandler`, that a waiting handler is the one of the last
run, which makes the single flag enough; `PanesOfLast`, what that handler has
already cleared and what it fills in.

**Only model-checked:** `Answered`, `Closes` and `RunComesBack`: liveness under
fairness is out of the prover's reach. The sums, texts and lists of the modules are
written without recursion, as sets of units and as sequences, so that no theorem needs
an induction over data.

## 5. What is assumed and what is left out

* `Limits` takes any environment. No code relates one value of it to another, and
  the model shows what follows: a default over its maximum is not clamped, a zero
  default or maximum of memory reserves nothing and writes "max", a negative
  timeout is passed on. `SandboxServer` starts where `Limits` ends, with amounts that
  are positive; an environment with a zero among them is outside of it.
* What `KillAll` finds where there is no `cgroup.kill` is "denied" on cgroupfs;
  "absent", the answer its fallback is written for, is kept so that the fallback is
  checked too.
* `unlink` in a read-only mount fails with `EROFS` before it tells a directory from
  a file, and `os.RemoveAll` goes down only into what it was told is a directory.
  The host's mounts below a source stay writable *for the sandbox*, as far as their
  files' permissions go; that is what `SandboxSeesReadOnly` leaves open, and says.
* Pids are not reused between `cmd.Wait` and `kill(-pid)`, nor between the reading
  of `cgroup.procs` and the kills that follow; a process is known by its request,
  or by its pid.
* No source of a runtime is listed twice, and one that lies in another comes behind
  it: `defaultRuntimeMounts` gives `/usr`, `/lib`, `/lib64`, `/bin`, and the one
  directory that is appended is the one of `java.security`, with its links
  resolved.
* The floats of `bytesToKB` are exact, as they are for every size a host can have.
* `DEFAULT_MEMORY_LIMIT` and the like do not change while the server runs.
* A capability that only the kernel knows, and not the headers of sandbox-init,
  stays in the bounding set: `NothingLeft` speaks of the headers' there, and of
  `no_new_privs` for the rest.
* `memory.events` can be read when the reply is made. The code takes an unreadable
  one for no event at all.
* Bodies that are not JSON are answered by the framework and never reach
  `Dispatch`.
* `HostFilesKept` is stated for one failing call: with two, a remount and the
  unmount that follows it, the model does delete host files, as the code would.
* The card for a program that itself prints one of the two messages is not
  modelled.
* A click on run before the editor has loaded sends what `getCode` falls back to,
  an empty program; `CompilerPage` treats it as a program like any other.
* `cpu_time` is a number the modules leave out. What it measures is the wall clock
  from start to reaping (`executor/main.go:99`, `:106`), whatever its name says.
* Not modelled: the debug route and the page's layout (no state of their own), the
  rules of the seccomp filter (a list), how a number is formatted or parsed in the
  output pane, the directories `resolveJavaRuntime` looks in, and `AddProcess`,
  which nothing calls. `PROJECT.json` has the list by component.

## 6. The plan

Done, in this order, because each rests on the one before: `Limits` (what a
request is), `SandboxServer` with `Admission` (what a server does with many of
them), `Response` (what a client is told), `RuntimeMounts` (the part of the
executor with the most to lose), `SandboxInit` (what a started sandbox is), the
proofs about `SandboxServer`, `Limits` and `SandboxInit`; then `ControlGroup` with
`CgroupHandle` (the steps `SandboxServer` takes in one, and the sampler),
`CompilerPage` (what the page does with the replies), the proofs about
`CgroupHandle` and the refinement of `ControlGroup`; then the proofs about
`RuntimeMounts`, `Response` and `CompilerPage`. Nothing that has a state is left
to model, and no safety property that a run checks is left to prove.

Next: the promise of `RuntimeMounts` as an abstract specification of its own, shown
of `SandboxServer` as `ControlGroup` is, so that the one step
`PrepareRuntimeMounts` and the steps it stands for are tied by a theorem too.
