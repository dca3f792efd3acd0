----------------------------- MODULE SandboxInit -----------------------------
(***************************************************************************)
(* sandbox-init, the C program that every sandbox starts with: from the    *)
(* process that buildSandboxCommand describes, root in namespaces of its   *)
(* own, to the program under test.  It mounts procfs, gives up its         *)
(* capabilities one by one, installs the system call filter and calls      *)
(* execvp; any call may fail.  The kernel checks each call against the     *)
(* privileges that are left, so the order of the calls matters.            *)
(***************************************************************************)
EXTENDS Integers, Sequences

CONSTANTS
  CAP_LAST_CAP,   \* the last capability the headers know
  Kernels,        \* how many capabilities the kernels know
  SYS_ADMIN,      \* the capability that mounts
  SETPCAP,        \* the capability that drops from the bounding set
  Commands        \* what may become of execvp

\* No kernel is without these two; a kernel may know fewer capabilities than
\* the headers sandbox-init is built with, or more.
ASSUME CapabilitiesAssumption ==
  /\ CAP_LAST_CAP \in Nat
  /\ Kernels \subseteq Nat
  /\ \A k \in Kernels : SYS_ADMIN \in 0..k-1 /\ SETPCAP \in 0..k-1
ASSUME CommandsAssumption ==
  Commands \subseteq {"runs", "not found", "not executable", "none"}

VARIABLES
  known,         \* how many capabilities this kernel knows
  command,       \* what argv[1] is
  position,      \* the step main is at
  capability,    \* the loop variable of drop_capabilities
  bounding, effective,  \* the capability sets of the process
  no_new_privs, filter, \* what install_seccomp_filter sets
  procfs,        \* whether /proc is mounted
  image,         \* what the process runs, or its exit status
  failed         \* whether a call failed that was permitted

vars == <<known, command, position, capability, bounding, effective,
          no_new_privs, filter, procfs, image, failed>>
world == <<known, command>>
caps  == <<capability, bounding, effective>>
jail  == <<no_new_privs, filter>>

\* Mutant: capset gives the capabilities up before the loop has used them.
MutOrder == <<"arguments", "procfs", "ambient", "capset", "bounding",
              "no_new_privs", "filter", "exec">>

Order == <<"arguments", "procfs", "ambient", "bounding", "capset",
           "no_new_privs", "filter", "exec">>

At(step) == image = "sandbox-init" /\ Order[position] = step

Proceed == position' = position + 1 /\ UNCHANGED <<image, failed>>

\* main returns 126: the step was not permitted, or failed.
Refused(permitted) == /\ image' = "exit 126"
                      /\ failed' = permitted
                      /\ UNCHANGED position

-----------------------------------------------------------------------------
\* The process as cmd.Start makes it: root of a new user namespace, with
\* no_new_privs if Go's SysProcAttr has a field for it.
Init == /\ known \in Kernels
        /\ command \in Commands
        /\ position = 1 /\ capability = 0
        /\ bounding = 0..known-1 /\ effective = 0..known-1
        /\ no_new_privs \in BOOLEAN /\ filter = FALSE /\ procfs = FALSE
        /\ image = "sandbox-init"
        /\ failed = FALSE

Arguments ==
  /\ At("arguments")
  /\ IF command = "none" THEN Refused(FALSE) ELSE Proceed
  /\ UNCHANGED <<world, caps, jail, procfs>>

MayMount == SYS_ADMIN \in effective /\ ~filter

\* mkdir, for which an existing directory is no failure, and mount.
mount_procfs ==
  /\ At("procfs")
  /\ \/ MayMount /\ Proceed /\ procfs' = TRUE
     \/ Refused(MayMount) /\ UNCHANGED procfs
  /\ UNCHANGED <<world, caps, jail>>

\* The ambient set of a process that was never given one is empty.
ClearAmbient ==
  /\ At("ambient")
  /\ Proceed \/ Refused(TRUE)
  /\ UNCHANGED <<world, caps, jail, procfs>>

\* Mutant: the loop stops one short.
MutLoopEnds == capability >= CAP_LAST_CAP

\* Mutant: the loop goes on for one too many.
MutLoopLong == capability > CAP_LAST_CAP + 1

LoopEnds == capability > CAP_LAST_CAP

MayDrop == SETPCAP \in effective

\* PR_CAPBSET_DROP of one capability.  The kernel first asks for SETPCAP; a
\* capability it does not know is EINVAL then, which the loop ignores.
DropBounding ==
  /\ At("bounding") /\ ~LoopEnds
  /\ \/ /\ MayDrop
        /\ bounding' = bounding \ {capability}
        /\ capability' = capability + 1
        /\ UNCHANGED <<position, image, failed>>
     \/ /\ MayDrop => capability < known
        /\ Refused(MayDrop)
        /\ UNCHANGED <<bounding, capability>>
  /\ UNCHANGED <<world, effective, jail, procfs>>

BoundingDropped ==
  /\ At("bounding") /\ LoopEnds
  /\ Proceed
  /\ UNCHANGED <<world, caps, jail, procfs>>

\* capset with all sets empty, always permitted.
Capset ==
  /\ At("capset")
  /\ \/ Proceed /\ effective' = {}
     \/ Refused(TRUE) /\ UNCHANGED effective
  /\ UNCHANGED <<world, capability, bounding, jail, procfs>>

SetNoNewPrivs ==
  /\ At("no_new_privs")
  /\ \/ Proceed /\ no_new_privs' = TRUE
     \/ Refused(TRUE) /\ UNCHANGED no_new_privs
  /\ UNCHANGED <<world, caps, filter, procfs>>

MayFilter == no_new_privs \/ SYS_ADMIN \in effective

SetFilter ==
  /\ At("filter")
  /\ \/ MayFilter /\ Proceed /\ filter' = TRUE
     \/ Refused(MayFilter) /\ UNCHANGED filter
  /\ UNCHANGED <<world, caps, no_new_privs, procfs>>

\* execvp by root: the program would have what is left of the bounding set,
\* but gains nothing over its own under no_new_privs.
Exec ==
  /\ At("exec")
  /\ IF command = "runs"
     THEN /\ image' = "program"
          /\ effective' = IF no_new_privs THEN effective \cap bounding
                          ELSE bounding
     ELSE /\ image' = IF command = "not found" THEN "exit 127" ELSE "exit 126"
          /\ UNCHANGED effective
  /\ UNCHANGED <<world, position, capability, bounding, jail, procfs, failed>>

Done == image # "sandbox-init" /\ UNCHANGED vars

Next == \/ Arguments \/ mount_procfs \/ ClearAmbient
        \/ DropBounding \/ BoundingDropped \/ Capset
        \/ SetNoNewPrivs \/ SetFilter \/ Exec \/ Done

Spec == Init /\ [][Next]_vars

-----------------------------------------------------------------------------
(* Properties.                                                             *)

\* Types of the variables; the loop ends behind the last capability.
TypeOK ==
  /\ known \in Kernels /\ command \in Commands
  /\ position \in DOMAIN Order
  /\ capability \in 0..CAP_LAST_CAP + 1
  /\ bounding \subseteq 0..known-1 /\ effective \subseteq 0..known-1
  /\ no_new_privs \in BOOLEAN /\ filter \in BOOLEAN /\ procfs \in BOOLEAN
  /\ image \in {"sandbox-init", "program", "exit 126", "exit 127"}
  /\ failed \in BOOLEAN

\* Whatever fails, the program under test only ever runs with nothing left:
\* no capability to use, none that the headers know to gain by a further
\* execve, no privileged system call, and a procfs of its own
\* (sandbox_init_test.go: it "must not fail open").  Capabilities that only a
\* newer kernel knows stay in the bounding set; no_new_privs alone keeps the
\* program from them.
NothingLeft ==
  image = "program" =>
    /\ effective = {} /\ bounding \cap 0..CAP_LAST_CAP = {}
    /\ no_new_privs /\ filter /\ procfs

\* The order of the steps is one that the kernel permits: none takes away a
\* privilege that a later one needs, so that sandbox-init gives up only when
\* a permitted call fails, and otherwise exits with what execvp says.
OrderPermitted ==
  /\ image = "exit 126" =>
       failed \/ command \in {"none", "not executable"}
  /\ image = "exit 127" => ~failed /\ command = "not found"
=============================================================================
