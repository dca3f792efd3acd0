---------------------------- MODULE RuntimeMounts ----------------------------
(***************************************************************************)
(* The read-only view of the host that an interpreted program gets in its  *)
(* directory: prepareRuntimeMounts binds the runtime's directories one by  *)
(* one, each bound writable first and remounted read-only, rolls all back  *)
(* on an error, and cleanupWorkspace unmounts what is recorded and removes *)
(* the directory.  Any system call may fail.  What the host has mounted    *)
(* below a directory is bound with it (MS_REC); the remount is of the one  *)
(* mount only, whatever its flags say.                                     *)
(***************************************************************************)
EXTENDS Integers, Sequences, FiniteSets, SequencesExt

CONSTANTS
  Sources,    \* the sequence ws.runtimeMounts
  HostKinds,  \* what the hosts may have there: functions on the sources
  HostMounts, \* below which of them the hosts may have writable mounts
  Inside,     \* pairs <<s, t>>: s lies in t on the host
  MaxFaults   \* bound: how many system calls fail

SourceSet == Range(Sources)

\* No source is there twice, and one that lies in another comes after it: the
\* directory of java.security after the four of defaultRuntimeMounts.
ASSUME SourcesAssumption == Sources \in Seq(SourceSet) /\ IsInjective(Sources)
ASSUME KindsAssumption ==
  HostKinds \subseteq [SourceSet -> {"dir", "link", "absent"}]
ASSUME HostMountsAssumption == HostMounts \subseteq SUBSET SourceSet
ASSUME InsideAssumption ==
  /\ Inside \subseteq SourceSet \X SourceSet
  /\ \A i, j \in DOMAIN Sources :
       <<Sources[i], Sources[j]>> \in Inside => j < i
ASSUME MaxFaultsAssumption == MaxFaults \in Nat

VARIABLES
  kind,            \* what this host has at each source
  below,           \* below which of them it has writable mounts
  at,              \* where the goroutine is
  index,           \* the source prepareRuntimeMounts is at
  mountedTargets,  \* ws.mountedTargets
  mounts,          \* the kernel's mounts in the directory: source -> mode
  submounts,       \* sources with which the host's mounts below have come
  failed,          \* whether prepareRuntimeMounts returned an error
  stuck,           \* targets that an unmount call failed on
  deleted,         \* sources whose files were deleted on the host
  faults           \* how many system calls failed

host == <<kind, below>>
vars == <<host, at, index, mountedTargets, mounts, submounts, failed, stuck,
          deleted, faults>>

Source == Sources[index]

\* A system call fails.
Fault == /\ faults < MaxFaults
         /\ faults' = faults + 1

Mounted == DOMAIN mounts

\* umount2(MNT_DETACH) takes the mount and all that is mounted inside it.
Detached(target) ==
  LET left == {m \in Mounted : m # target /\ <<m, target>> \notin Inside}
  IN [m \in left |-> mounts[m]]

Detach(target) == /\ mounts' = Detached(target)
                  /\ submounts' = submounts \cap DOMAIN mounts'

-----------------------------------------------------------------------------
Init == /\ kind \in HostKinds
        /\ below \in HostMounts /\ \A s \in below : kind[s] = "dir"
        /\ at = "private"
        /\ index = 1
        /\ mountedTargets = <<>>
        /\ mounts = [m \in {} |-> "rw"] /\ submounts = {}
        /\ failed = FALSE
        /\ stuck = {} /\ deleted = {}
        /\ faults = 0

-----------------------------------------------------------------------------
(* prepareRuntimeMounts.                                                   *)

\* An error: roll back what is recorded, then return it.
Rollback == /\ Fault
            /\ failed' = TRUE
            /\ at' = "cleanup"

\* The root is made private, so that unmounting does not propagate.
MakePrivate ==
  /\ at = "private"
  /\ \/ at' = "source" /\ UNCHANGED <<failed, faults>>
     \/ Rollback
  /\ UNCHANGED <<host, index, mountedTargets, mounts, submounts, stuck,
                 deleted>>

\* A source that is missing is skipped, a link is mirrored.
SkipSource ==
  /\ at = "source" /\ index <= Len(Sources)
  /\ kind[Source] \in {"absent", "link"}
  /\ index' = index + 1
  /\ UNCHANGED <<host, at, mountedTargets, mounts, submounts, failed, stuck,
                 deleted, faults>>

\* Lstat, MkdirAll, Readlink, RemoveAll or Symlink fails.
SourceFails ==
  /\ at = "source" /\ index <= Len(Sources)
  /\ Rollback
  /\ UNCHANGED <<host, index, mountedTargets, mounts, submounts, stuck,
                 deleted>>

\* The first mount of bindMountReadOnly: writable still, and with all that the
\* host has mounted below.
Bind ==
  /\ at = "source" /\ index <= Len(Sources)
  /\ kind[Source] = "dir"
  /\ mounts' = [m \in Mounted \cup {Source} |->
                  IF m = Source THEN "rw" ELSE mounts[m]]
  /\ submounts' = submounts \cup (below \cap {Source})
  /\ at' = "remount"
  /\ UNCHANGED <<host, index, mountedTargets, failed, stuck, deleted, faults>>

\* Mutant: the target is recorded before it is read-only, but not at all
\* when the remount works.
MutRemount ==
  /\ at = "remount"
  /\ mounts' = [mounts EXCEPT ![Source] = "ro"]
  /\ index' = index + 1
  /\ at' = "source"
  /\ UNCHANGED <<host, mountedTargets, submounts, failed, stuck, deleted,
                 faults>>

\* Mutant: the remount is forgotten.
MutNoRemount ==
  /\ at = "remount"
  /\ mountedTargets' = Append(mountedTargets, Source)
  /\ index' = index + 1
  /\ at' = "source"
  /\ UNCHANGED <<host, mounts, submounts, failed, stuck, deleted, faults>>

\* The kernel remounts the target alone, MS_REC or not.
Remount ==
  /\ at = "remount"
  /\ mounts' = [mounts EXCEPT ![Source] = "ro"]
  /\ mountedTargets' = Append(mountedTargets, Source)
  /\ index' = index + 1
  /\ at' = "source"
  /\ UNCHANGED <<host, submounts, failed, stuck, deleted, faults>>

\* Mutant: the failed target is left to the rollback, which does not know it.
MutRemountFails ==
  /\ at = "remount"
  /\ Rollback
  /\ UNCHANGED <<host, index, mountedTargets, mounts, submounts, stuck,
                 deleted>>

\* The second mount fails: the first one is undone on the spot, if it can.
RemountFails ==
  /\ at = "remount"
  /\ failed' = TRUE
  /\ at' = "cleanup"
  /\ \/ /\ faults < MaxFaults
        /\ faults' = faults + 1
        /\ Detach(Source)
        /\ UNCHANGED stuck
     \/ /\ faults + 1 < MaxFaults
        /\ faults' = faults + 2
        /\ stuck' = stuck \cup {Source}
        /\ UNCHANGED <<mounts, submounts>>
  /\ UNCHANGED <<host, index, mountedTargets, deleted>>

\* All sources are done: the sandbox is started, runs and ends.
Prepared ==
  /\ at = "source" /\ index > Len(Sources)
  /\ at' = "sandbox"
  /\ UNCHANGED <<host, index, mountedTargets, mounts, submounts, failed,
                 stuck, deleted, faults>>

SandboxEnds ==
  /\ at = "sandbox"
  /\ at' = "cleanup"
  /\ UNCHANGED <<host, index, mountedTargets, mounts, submounts, failed,
                 stuck, deleted, faults>>

-----------------------------------------------------------------------------
(* cleanupRuntimeMounts and cleanupWorkspace.                              *)

\* The call on one target; its error is ignored.
Unmounts(target) ==
  \/ Detach(target) /\ UNCHANGED <<stuck, faults>>
  \/ /\ Fault /\ stuck' = stuck \cup {target}
     /\ UNCHANGED <<mounts, submounts>>

\* Mutant: in the order they were mounted.
MutUnmount ==
  /\ at = "cleanup"
  /\ mountedTargets # <<>>
  /\ Unmounts(Head(mountedTargets))
  /\ mountedTargets' = Tail(mountedTargets)
  /\ UNCHANGED <<host, at, index, failed, deleted>>

\* One round of the loop, last target first: what is left of the sequence is
\* what the loop variable has still to go through.
Unmount ==
  /\ at = "cleanup"
  /\ mountedTargets # <<>>
  /\ Unmounts(Last(mountedTargets))
  /\ mountedTargets' = Front(mountedTargets)
  /\ UNCHANGED <<host, at, index, failed, deleted>>

CleanedUp ==
  /\ at = "cleanup"
  /\ mountedTargets = <<>>
  /\ at' = "remove"
  /\ UNCHANGED <<host, index, mountedTargets, mounts, submounts, failed,
                 stuck, deleted, faults>>

\* os.RemoveAll goes down into a directory only if the kernel tells it that an
\* entry is one (EISDIR).  In a read-only mount every unlink gives EROFS before
\* that, so what is mounted below one is out of reach, writable or not.
Reached(m) == \A outer \in Mounted : <<m, outer>> \in Inside =>
                                        mounts[outer] = "rw"

\* All it can write below the directory is deleted: a mount that has stayed
\* writable, and the host's mounts below that.
RemoveAll ==
  /\ at = "remove"
  /\ deleted' = {m \in Mounted : mounts[m] = "rw" /\ Reached(m)}
  /\ at' = "returned"
  /\ UNCHANGED <<host, index, mountedTargets, mounts, submounts, failed,
                 stuck, faults>>

Returned == at = "returned" /\ UNCHANGED vars

Next == \/ MakePrivate \/ SkipSource \/ SourceFails \/ Bind
        \/ Remount \/ RemountFails \/ Prepared \/ SandboxEnds
        \/ Unmount \/ CleanedUp \/ RemoveAll \/ Returned

Spec == Init /\ [][Next]_vars

-----------------------------------------------------------------------------
(* Properties.                                                             *)

\* Types of the variables; what is recorded is mounted.
TypeOK ==
  /\ kind \in HostKinds /\ below \in HostMounts
  /\ at \in {"private", "source", "remount", "sandbox", "cleanup", "remove",
             "returned"}
  /\ index \in 1..Len(Sources) + 1
  /\ mountedTargets \in Seq(SourceSet)
  /\ Range(mountedTargets) \subseteq Mounted
  /\ Mounted \subseteq SourceSet /\ submounts \subseteq Mounted
  /\ \A m \in Mounted : mounts[m] \in {"rw", "ro"}
  /\ failed \in BOOLEAN
  /\ stuck \subseteq SourceSet /\ deleted \subseteq SourceSet
  /\ faults \in 0..MaxFaults

\* A sandbox only ever runs over the directories that its host has, each one's
\* own mount read-only and recorded so that it can be undone; the mounts that
\* the host has below them are all there too, and as writable as on the host,
\* for the remount does not reach them (bindMountReadOnly).
SandboxSeesReadOnly ==
  at = "sandbox" =>
    /\ Mounted = {s \in SourceSet : kind[s] = "dir"}
    /\ \A m \in Mounted : mounts[m] = "ro"
    /\ Range(mountedTargets) = Mounted
    /\ submounts = below

\* No failure of one system call makes the removal of a sandbox's directory
\* delete files of the host, also where the host has mounts below a directory
\* that stay writable: it takes a remount that fails and an unmount that
\* fails after it (bindMountReadOnly, cleanupWorkspace).
HostFilesKept == faults <= 1 => deleted = {}

\* Whatever fails, once Execute returns the only mounts left are those the
\* kernel refused to unmount (the rollback knows every other).
OnlyStuckMountsLeft == at = "returned" => Mounted \subseteq stuck

\* A mount is never taken away before the mounts inside it, unless those
\* could not be unmounted themselves (cleanupRuntimeMounts, reverse order).
InnerFirst ==
  [][\A p \in Inside :
       p[2] \in Mounted \ Mounted' =>
         p[1] \notin Mounted \/ p[1] \in stuck]_vars
=============================================================================
