-------------------------- MODULE RuntimeMountsProofs --------------------------
(***************************************************************************)
(* What RuntimeMounts keeps for any list of sources, any hosts and any     *)
(* number of failing system calls.                                         *)
(***************************************************************************)
EXTENDS RuntimeMounts, SequenceTheorems, TLAPS

USE DEF host, Detach

-----------------------------------------------------------------------------
(* Sources have their places in the list.                                  *)

\* The place of a source.
Position(s) == CHOOSE k \in DOMAIN Sources : Sources[k] = s

\* The list is a sequence.
LEMMA SourcesList ==
  /\ Len(Sources) \in Nat /\ DOMAIN Sources = 1..Len(Sources)
  /\ \A k \in 1..Len(Sources) : Sources[k] \in SourceSet
BY SourcesAssumption DEF SourceSet, Range

\* Every source has one place.
LEMMA PositionOfSource ==
  /\ \A s \in SourceSet :
       Position(s) \in 1..Len(Sources) /\ Sources[Position(s)] = s
  /\ \A k \in 1..Len(Sources) : Position(Sources[k]) = k
<1>1. \A s \in SourceSet :
        Position(s) \in DOMAIN Sources /\ Sources[Position(s)] = s
  BY DEF Position, SourceSet, Range
<1>2. \A k \in DOMAIN Sources : Position(Sources[k]) = k
  BY <1>1, SourcesList, SourcesAssumption DEF IsInjective
<1> QED BY <1>1, <1>2, SourcesList

\* What lies in another source has a later place.
LEMMA InsideLater ==
  ASSUME NEW s, NEW t, <<s, t>> \in Inside
  PROVE  /\ s \in SourceSet /\ t \in SourceSet
         /\ Position(t) < Position(s)
<1>1. s \in SourceSet /\ t \in SourceSet
  BY InsideAssumption
<1>2. /\ Position(s) \in DOMAIN Sources /\ Sources[Position(s)] = s
      /\ Position(t) \in DOMAIN Sources /\ Sources[Position(t)] = t
  BY <1>1, PositionOfSource, SourcesList
<1> QED BY <1>1, <1>2, InsideAssumption

-----------------------------------------------------------------------------
(* The inductive invariant.                                                *)

\* The types alone.
Types ==
  /\ kind \in [SourceSet -> {"dir", "link", "absent"}] /\ kind \in HostKinds
  /\ at \in {"private", "source", "remount", "sandbox", "cleanup", "remove",
             "returned"}
  /\ index \in 1..(Len(Sources) + 1)
  /\ mountedTargets \in Seq(SourceSet)
  /\ Mounted \subseteq SourceSet
  /\ mounts \in [Mounted -> {"rw", "ro"}]
  /\ failed \in BOOLEAN
  /\ stuck \subseteq SourceSet /\ deleted \subseteq SourceSet
  /\ faults \in 0..MaxFaults

Recorded(m) == \E i \in 1..Len(mountedTargets) : mountedTargets[i] = m

\* Whether m is the mount bindMountReadOnly is at, bound but not remounted.
HalfMade(m) == at = "remount" /\ m = Source

\* What is recorded is mounted, and in the order of the list.
RecordedInOrder ==
  /\ \A i \in 1..Len(mountedTargets) : mountedTargets[i] \in Mounted
  /\ \A i, j \in 1..Len(mountedTargets) :
       i < j => Position(mountedTargets[i]) < Position(mountedTargets[j])
  /\ at \in {"private", "source", "remount"} =>
       \A i \in 1..Len(mountedTargets) : Position(mountedTargets[i]) < index

\* Nothing is mounted that prepareRuntimeMounts has not come to.
ReachedOnly ==
  /\ at \in {"private", "source"} => \A m \in Mounted : Position(m) < index
  /\ at = "remount" =>
       /\ index <= Len(Sources) /\ kind[Source] = "dir" /\ Source \in Mounted
       /\ \A m \in Mounted : Position(m) <= index

\* No mount is forgotten: it is recorded, or the kernel does not let it go.
NoneForgotten ==
  \A m \in Mounted : Recorded(m) \/ m \in stuck \/ HalfMade(m)

\* It takes two failures to leave a mount writable.
WritableByTwoFaults ==
  /\ \A m \in Mounted : mounts[m] = "rw" => HalfMade(m) \/ faults >= 2
  /\ deleted # {} => faults >= 2

\* As long as nothing has failed, every directory that was reached is there.
SetUp ==
  /\ at \in {"private", "source", "remount", "sandbox"} =>
       /\ stuck = {}
       /\ \A m \in Mounted :
            kind[m] = "dir" /\ (mounts[m] = "ro" \/ HalfMade(m))
       /\ \A k \in 1..Len(Sources) :
            k < index /\ kind[Sources[k]] = "dir" => Sources[k] \in Mounted
  /\ at = "sandbox" => index > Len(Sources)
  /\ at \in {"remove", "returned"} => mountedTargets = <<>>

\* What every step keeps.
IInv == /\ Types /\ RecordedInOrder /\ ReachedOnly /\ NoneForgotten
        /\ WritableByTwoFaults /\ SetUp

-----------------------------------------------------------------------------
\* It holds at the start.
LEMMA InitInvariant == Init => IInv
<1> SUFFICES ASSUME Init PROVE IInv
  OBVIOUS
<1>1. Mounted = {} /\ mounts = [m \in {} |-> "rw"]
  BY DEF Init, Mounted
<1>2. Types
  <2>1. mountedTargets \in Seq(SourceSet)
    BY EmptySeq DEF Init
  <2>2. index \in 1..(Len(Sources) + 1) /\ faults \in 0..MaxFaults
    BY SourcesList, MaxFaultsAssumption DEF Init
  <2>3. mounts \in [Mounted -> {"rw", "ro"}]
    BY <1>1
  <2> QED BY <1>1, <2>1, <2>2, <2>3, KindsAssumption DEF Init, Types
<1>3. /\ RecordedInOrder /\ ReachedOnly /\ NoneForgotten
      /\ WritableByTwoFaults /\ SetUp
  BY <1>1, SourcesList
     DEF Init, RecordedInOrder, ReachedOnly, NoneForgotten,
         WritableByTwoFaults, SetUp
<1> QED BY <1>2, <1>3 DEF IInv

-----------------------------------------------------------------------------
(* The loop of cleanupRuntimeMounts.                                       *)

\* The sequence of targets without its last one.
LEMMA FrontOfTargets ==
  ASSUME NEW S, NEW s \in Seq(S), s # <<>>
  PROVE  /\ Len(s) \in Nat /\ Len(s) >= 1
         /\ Last(s) = s[Len(s)] /\ Last(s) \in S
         /\ Front(s) \in Seq(S) /\ Len(Front(s)) = Len(s) - 1
         /\ \A i \in 1..(Len(s) - 1) : Front(s)[i] = s[i]
<1>1. Len(s) \in Nat \ {0}
  BY EmptySeq, LenProperties
<1>2. \A i \in 1..Len(s) : s[i] \in S
  BY ElementOfSeq
<1>3. /\ SubSeq(s, 1, Len(s) - 1) \in Seq(S)
      /\ Len(SubSeq(s, 1, Len(s) - 1)) = Len(s) - 1
      /\ \A i \in 1..(Len(s) - 1) : SubSeq(s, 1, Len(s) - 1)[i] = s[i]
  <2>1. 1 \in Int /\ Len(s) - 1 \in Int
        /\ (\A i \in 1..(Len(s) - 1) : s[i] \in S)
    BY <1>1, <1>2
  <2>2. /\ SubSeq(s, 1, Len(s) - 1) \in Seq(S)
        /\ Len(SubSeq(s, 1, Len(s) - 1)) =
             IF 1 <= Len(s) - 1 THEN (Len(s) - 1) - 1 + 1 ELSE 0
        /\ \A i \in 1..((Len(s) - 1) - 1 + 1) :
             SubSeq(s, 1, Len(s) - 1)[i] = s[1 + i - 1]
    BY <2>1, SubSeqProperties
  <2>3. (Len(s) - 1) - 1 + 1 = Len(s) - 1 /\ \A i \in Int : 1 + i - 1 = i
    BY <1>1
  <2>4. Len(SubSeq(s, 1, Len(s) - 1)) = Len(s) - 1
    <3>1. CASE 1 <= Len(s) - 1
      BY <2>2, <2>3, <3>1
    <3>2. CASE ~(1 <= Len(s) - 1)
      <4>1. \A k \in Nat \ {0} : ~(1 <= k - 1) => k - 1 = 0
        OBVIOUS
      <4>2. Len(s) - 1 = 0
        BY ONLY <1>1, <3>2, <4>1
      <4> QED BY <2>2, <3>2, <4>2
    <3> QED BY <3>1, <3>2
  <2>5. \A i \in 1..(Len(s) - 1) : SubSeq(s, 1, Len(s) - 1)[i] = s[1 + i - 1]
    BY ONLY <2>2, <2>3
  <2>6. \A i \in 1..(Len(s) - 1) : i \in Int
    BY <1>1
  <2> QED BY ONLY <2>2, <2>3, <2>4, <2>5, <2>6
<1> QED BY <1>1, <1>2, <1>3 DEF Front, Last

\* What umount2 leaves.
LEMMA DetachedLeaves ==
  ASSUME Types, NEW t
  PROVE  /\ DOMAIN Detached(t) =
              {m \in Mounted : m # t /\ <<m, t>> \notin Inside}
         /\ \A m \in DOMAIN Detached(t) : Detached(t)[m] = mounts[m]
         /\ Detached(t) \in [DOMAIN Detached(t) -> {"rw", "ro"}]
BY DEF Detached, Types

-----------------------------------------------------------------------------
(* Every action keeps the invariant.                                       *)

\* A step that neither mounts nor unmounts, nor counts a source.
LEMMA SameMounts ==
  ASSUME IInv, UNCHANGED <<kind, index, mountedTargets, mounts, stuck>>,
         at # "remount"
  PROVE  /\ Mounted' = Mounted
         /\ \A m : Recorded(m)' = Recorded(m)
         /\ \A m \in Mounted : Recorded(m) \/ m \in stuck
         /\ \A m \in Mounted : mounts[m] = "rw" => faults >= 2
BY DEF IInv, Mounted, Recorded, NoneForgotten, WritableByTwoFaults, HalfMade

\* The steps after which nothing is mounted any more keep the invariant.
LEMMA OnlyPlaceMoves ==
  ASSUME IInv, UNCHANGED <<kind, index, mountedTargets, mounts, stuck>>,
         at # "remount", at' \in {"cleanup", "remove", "returned"},
         at' \in {"remove", "returned"} => mountedTargets = <<>>,
         failed' \in BOOLEAN, faults' \in 0..MaxFaults, faults' >= faults,
         \/ deleted' = deleted
         \/ deleted' \subseteq {m \in Mounted : mounts[m] = "rw"}
  PROVE  IInv'
<1>1. faults \in Int /\ faults' \in Int
  BY MaxFaultsAssumption DEF IInv, Types
<1>2. Types'
  <2>1. deleted' \subseteq SourceSet
    BY DEF IInv, Types
  <2> QED BY <2>1 DEF IInv, Types, Mounted
<1>3. RecordedInOrder'
  BY DEF IInv, RecordedInOrder, Mounted
<1>4. ReachedOnly'
  BY DEF ReachedOnly
<1>5. NoneForgotten'
  BY SameMounts DEF NoneForgotten
<1>6. WritableByTwoFaults'
  <2>1. \A m \in Mounted : mounts[m] = "rw" => faults >= 2
    BY SameMounts
  <2>2. deleted' # {} => faults >= 2
    BY <2>1 DEF IInv, WritableByTwoFaults
  <2>3. \A m \in Mounted' : mounts'[m] = "rw" => faults' >= 2
    BY <1>1, <2>1 DEF Mounted
  <2> QED BY <1>1, <2>2, <2>3 DEF WritableByTwoFaults
<1>7. SetUp'
  BY DEF SetUp
<1> QED BY <1>2, <1>3, <1>4, <1>5, <1>6, <1>7 DEF IInv

\* A failing system call is counted.
LEMMA FaultCounts ==
  ASSUME Types, Fault
  PROVE  faults' \in 0..MaxFaults /\ faults' >= faults
BY MaxFaultsAssumption DEF Types, Fault

\* The root is made private, or is not.
LEMMA MakePrivateKeeps ==
  ASSUME IInv, MakePrivate PROVE IInv'
<1>1. CASE Rollback
  BY <1>1, OnlyPlaceMoves, FaultCounts DEF IInv, Rollback, MakePrivate
<1>2. CASE at' = "source" /\ UNCHANGED <<failed, faults>>
  <2>1. /\ at = "private"
        /\ UNCHANGED <<kind, index, mountedTargets, mounts, stuck, deleted>>
    BY DEF MakePrivate
  <2>2. Types'
    BY <1>2, <2>1 DEF IInv, Types, Mounted
  <2>3. RecordedInOrder' /\ ReachedOnly'
    BY <1>2, <2>1 DEF IInv, RecordedInOrder, ReachedOnly, Mounted
  <2>4. NoneForgotten' /\ WritableByTwoFaults'
    BY <1>2, <2>1, SameMounts
       DEF IInv, NoneForgotten, WritableByTwoFaults, Mounted
  <2>5. SetUp'
    BY <1>2, <2>1 DEF IInv, SetUp, Mounted, HalfMade
  <2> QED BY <2>2, <2>3, <2>4, <2>5 DEF IInv
<1> QED BY <1>1, <1>2 DEF MakePrivate

\* A source is skipped.
LEMMA SkipSourceKeeps ==
  ASSUME IInv, SkipSource PROVE IInv'
<1>1. /\ at = "source" /\ at' = "source" /\ index' = index + 1
      /\ index \in 1..Len(Sources) /\ kind[Source] \in {"absent", "link"}
      /\ UNCHANGED <<kind, mountedTargets, mounts, failed, stuck, deleted,
                     faults>>
  BY SourcesList DEF IInv, Types, SkipSource
<1>2. index' \in 1..(Len(Sources) + 1)
  BY <1>1, SourcesList
<1>3. Types'
  BY <1>1, <1>2 DEF IInv, Types, Mounted
<1>4. \A m \in SourceSet : Position(m) \in Int
  BY PositionOfSource, SourcesList
<1>5. ReachedOnly'
  BY <1>1, <1>4 DEF IInv, Types, ReachedOnly, Mounted
<1>6. RecordedInOrder'
  <2>1. \A i \in 1..Len(mountedTargets) : mountedTargets[i] \in SourceSet
    BY DEF IInv, Types, RecordedInOrder
  <2>2. \A i \in 1..Len(mountedTargets) : Position(mountedTargets[i]) < index'
    BY <1>1, <1>4, <2>1 DEF IInv, RecordedInOrder
  <2> QED BY <1>1, <2>2 DEF IInv, RecordedInOrder, Mounted
<1>7. NoneForgotten' /\ WritableByTwoFaults'
  BY <1>1 DEF IInv, NoneForgotten, WritableByTwoFaults, Mounted, Recorded,
              HalfMade
<1>8. SetUp'
  <2>1. \A k \in 1..Len(Sources) :
          k < index' /\ kind[Sources[k]] = "dir" => Sources[k] \in Mounted
    <3> SUFFICES ASSUME NEW k \in 1..Len(Sources), k < index',
                        kind[Sources[k]] = "dir"
                 PROVE  Sources[k] \in Mounted
      OBVIOUS
    <3>1. k # index
      BY <1>1 DEF Source
    <3>2. k < index
      BY <1>1, <3>1
    <3> QED BY <1>1, <3>2 DEF IInv, SetUp
  <2> QED BY <1>1, <2>1 DEF IInv, SetUp, Mounted, HalfMade
<1> QED BY <1>3, <1>5, <1>6, <1>7, <1>8 DEF IInv

\* A source that cannot be looked at or mirrored ends the preparation.
LEMMA SourceFailsKeeps ==
  ASSUME IInv, SourceFails PROVE IInv'
BY OnlyPlaceMoves, FaultCounts DEF IInv, SourceFails, Rollback

\* The first mount of a source.
LEMMA BindKeeps ==
  ASSUME IInv, Bind PROVE IInv'
<1>1. /\ at = "source" /\ at' = "remount"
      /\ index \in 1..Len(Sources) /\ kind[Source] = "dir"
      /\ UNCHANGED <<kind, index, mountedTargets, failed, stuck, deleted,
                     faults>>
  BY SourcesList DEF IInv, Types, Bind
<1>2. Source \in SourceSet /\ Position(Source) = index /\ Source' = Source
  BY <1>1, SourcesList, PositionOfSource DEF Source
<1>3. Mounted' = Mounted \cup {Source}
  BY DEF Bind, Mounted
<1>4. /\ mounts'[Source] = "rw"
      /\ \A m \in Mounted : m # Source => mounts'[m] = mounts[m]
  BY DEF Bind
<1>5. Types'
  <2>1. mounts' \in [Mounted' -> {"rw", "ro"}]
    BY <1>3 DEF Bind, IInv, Types
  <2>2. Mounted' \subseteq SourceSet
    BY <1>2, <1>3 DEF IInv, Types
  <2> QED BY <1>1, <2>1, <2>2 DEF IInv, Types
<1>6. \A m \in SourceSet : Position(m) \in Int
  BY PositionOfSource, SourcesList
<1>7. RecordedInOrder'
  BY <1>1, <1>3 DEF IInv, RecordedInOrder
<1>8. ReachedOnly'
  BY <1>1, <1>2, <1>3, <1>6 DEF IInv, Types, ReachedOnly
<1>9. NoneForgotten'
  BY <1>1, <1>2, <1>3 DEF IInv, NoneForgotten, HalfMade, Recorded
<1>10. WritableByTwoFaults'
  BY <1>1, <1>2, <1>3, <1>4 DEF IInv, WritableByTwoFaults, HalfMade
<1>11. SetUp'
  <2>1. \A m \in Mounted' :
          kind[m] = "dir" /\ (mounts'[m] = "ro" \/ m = Source)
    BY <1>1, <1>3, <1>4 DEF IInv, SetUp, HalfMade
  <2>2. \A k \in 1..Len(Sources) :
          k < index /\ kind[Sources[k]] = "dir" => Sources[k] \in Mounted'
    BY <1>1, <1>3 DEF IInv, SetUp
  <2> QED BY <1>1, <1>2, <2>1, <2>2 DEF IInv, SetUp, HalfMade
<1> QED BY <1>5, <1>7, <1>8, <1>9, <1>10, <1>11 DEF IInv

\* The second mount of a source.
LEMMA RemountKeeps ==
  ASSUME IInv, Remount PROVE IInv'
<1>1. /\ at = "remount" /\ at' = "source" /\ index' = index + 1
      /\ index \in 1..Len(Sources) /\ kind[Source] = "dir"
      /\ Source \in Mounted
      /\ mounts' = [mounts EXCEPT ![Source] = "ro"]
      /\ mountedTargets' = Append(mountedTargets, Source)
      /\ UNCHANGED <<kind, failed, stuck, deleted, faults>>
  BY SourcesList DEF IInv, Types, ReachedOnly, Remount
<1>2. Source \in SourceSet /\ Position(Source) = index
  BY <1>1, SourcesList, PositionOfSource DEF Source
<1>3. Mounted' = Mounted
  BY <1>1 DEF Mounted
<1>4. /\ mounts'[Source] = "ro"
      /\ \A m \in Mounted : m # Source => mounts'[m] = mounts[m]
  BY <1>1 DEF IInv, Types
<1>5. /\ Len(mountedTargets) \in Nat
      /\ mountedTargets' \in Seq(SourceSet)
      /\ Len(mountedTargets') = Len(mountedTargets) + 1
      /\ \A i \in 1..Len(mountedTargets) :
           mountedTargets'[i] = mountedTargets[i]
      /\ mountedTargets'[Len(mountedTargets) + 1] = Source
  BY <1>1, <1>2, AppendProperties, LenProperties DEF IInv, Types
<1>6. \A i \in 1..Len(mountedTargets') :
        i \in 1..Len(mountedTargets) \/ i = Len(mountedTargets) + 1
  BY <1>5
<1>7. \A m \in SourceSet : Position(m) \in Int
  BY PositionOfSource, SourcesList
<1>8. Types'
  <2>1. index' \in 1..(Len(Sources) + 1)
    BY <1>1, SourcesList
  <2>2. mounts' \in [Mounted' -> {"rw", "ro"}]
    BY <1>1, <1>3 DEF IInv, Types
  <2> QED BY <1>1, <1>3, <1>5, <2>1, <2>2 DEF IInv, Types
<1>9. RecordedInOrder'
  <2>1. \A i \in 1..Len(mountedTargets') : mountedTargets'[i] \in Mounted'
    BY <1>1, <1>3, <1>5, <1>6 DEF IInv, RecordedInOrder
  <2>2. \A i \in 1..Len(mountedTargets) :
          /\ mountedTargets[i] \in SourceSet
          /\ Position(mountedTargets[i]) < index
    BY <1>1 DEF IInv, Types, RecordedInOrder
  <2>3. \A i \in 1..Len(mountedTargets') : Position(mountedTargets'[i]) < index'
    BY <1>1, <1>2, <1>5, <1>6, <1>7, <2>2
  <2>4. ASSUME NEW i \in 1..Len(mountedTargets'),
               NEW j \in 1..Len(mountedTargets'), i < j
        PROVE  Position(mountedTargets'[i]) < Position(mountedTargets'[j])
    <3>1. i \in 1..Len(mountedTargets)
      BY <1>5, <2>4
    <3>2. CASE j \in 1..Len(mountedTargets)
      BY <1>5, <2>4, <3>1, <3>2 DEF IInv, RecordedInOrder
    <3>3. CASE j = Len(mountedTargets) + 1
      BY <1>2, <1>5, <2>2, <3>1, <3>3
    <3> QED BY <1>6, <3>2, <3>3
  <2> QED BY <2>1, <2>3, <2>4 DEF RecordedInOrder
<1>10. ReachedOnly'
  BY <1>1, <1>3, <1>7 DEF IInv, Types, ReachedOnly
<1>11. NoneForgotten'
  <2> SUFFICES ASSUME NEW m \in Mounted
               PROVE  m \in stuck \/ Recorded(m)'
    BY <1>1, <1>3 DEF NoneForgotten
  <2>1. CASE m = Source
    BY <1>5, <2>1 DEF Recorded
  <2>2. CASE Recorded(m)
    BY <1>5, <2>2 DEF Recorded
  <2> QED BY <1>1, <2>1, <2>2 DEF IInv, NoneForgotten, HalfMade
<1>12. WritableByTwoFaults'
  BY <1>1, <1>3, <1>4 DEF IInv, WritableByTwoFaults, HalfMade
<1>13. SetUp'
  <2>1. \A m \in Mounted : kind[m] = "dir" /\ mounts'[m] = "ro"
    BY <1>1, <1>4 DEF IInv, SetUp, HalfMade
  <2>2. \A k \in 1..Len(Sources) :
          k < index' /\ kind[Sources[k]] = "dir" => Sources[k] \in Mounted
    <3> SUFFICES ASSUME NEW k \in 1..Len(Sources), k < index',
                        kind[Sources[k]] = "dir"
                 PROVE  Sources[k] \in Mounted
      OBVIOUS
    <3>1. k < index \/ k = index
      BY <1>1
    <3> QED BY <1>1, <3>1 DEF IInv, SetUp, Source
  <2> QED BY <1>1, <1>3, <2>1, <2>2 DEF IInv, SetUp
<1> QED BY <1>8, <1>9, <1>10, <1>11, <1>12, <1>13 DEF IInv

\* The second mount fails, and the first is undone or stays.
LEMMA RemountFailsKeeps ==
  ASSUME IInv, RemountFails PROVE IInv'
<1>1. /\ at = "remount" /\ at' = "cleanup" /\ failed' = TRUE
      /\ index \in 1..Len(Sources) /\ Source \in Mounted
      /\ UNCHANGED <<kind, index, mountedTargets, deleted>>
  BY SourcesList DEF IInv, Types, ReachedOnly, RemountFails
<1>2. Source \in SourceSet /\ Position(Source) = index
  BY <1>1, SourcesList, PositionOfSource DEF Source
<1>3. /\ faults' \in 0..MaxFaults /\ faults' >= faults
      /\ faults \in Int
  BY MaxFaultsAssumption DEF IInv, Types, RemountFails
<1>4. /\ at' \notin {"private", "source", "remount", "sandbox", "remove",
                     "returned"}
      /\ \A m : Recorded(m)' = Recorded(m)
      /\ \A m : ~HalfMade(m)'
  BY <1>1 DEF Recorded, HalfMade
<1>5. ReachedOnly' /\ SetUp'
  BY <1>4 DEF ReachedOnly, SetUp
<1>6. CASE mounts' = Detached(Source) /\ UNCHANGED stuck
  <2>1. /\ Mounted' = {m \in Mounted : m # Source
                                       /\ <<m, Source>> \notin Inside}
        /\ \A m \in Mounted' : mounts'[m] = mounts[m]
        /\ mounts' \in [Mounted' -> {"rw", "ro"}]
    BY <1>6, DetachedLeaves DEF IInv, Mounted
  <2>2. Types'
    BY <1>1, <1>3, <1>6, <2>1 DEF IInv, Types
  <2>3. RecordedInOrder'
    <3>1. ASSUME NEW i \in 1..Len(mountedTargets)
          PROVE  mountedTargets[i] \in Mounted'
      <4>1. /\ mountedTargets[i] \in Mounted
            /\ mountedTargets[i] \in SourceSet
            /\ Position(mountedTargets[i]) < index
        BY <1>1 DEF IInv, Types, RecordedInOrder
      <4>2. Position(mountedTargets[i]) \in Int /\ index \in Int
        BY <1>1, <4>1, PositionOfSource, SourcesList
      <4>3. mountedTargets[i] # Source
        BY <1>2, <4>1, <4>2
      <4>4. <<mountedTargets[i], Source>> \notin Inside
        BY <1>2, <4>1, <4>2, InsideLater
      <4> QED BY <2>1, <4>1, <4>3, <4>4
    <3> QED BY <1>1, <3>1 DEF IInv, RecordedInOrder
  <2>4. NoneForgotten'
    BY <1>1, <1>4, <1>6, <2>1 DEF IInv, NoneForgotten, HalfMade
  <2>5. WritableByTwoFaults'
    <3>1. \A m \in Mounted' : mounts'[m] = "rw" => faults >= 2
      BY <2>1 DEF IInv, WritableByTwoFaults, HalfMade
    <3> QED BY <1>1, <1>3, <3>1 DEF IInv, WritableByTwoFaults
  <2> QED BY <1>5, <2>2, <2>3, <2>4, <2>5 DEF IInv
<1>7. CASE /\ faults' = faults + 2
           /\ stuck' = stuck \cup {Source} /\ UNCHANGED mounts
  <2>1. Mounted' = Mounted
    BY <1>7 DEF Mounted
  <2>2. Types'
    BY <1>1, <1>2, <1>3, <1>7, <2>1 DEF IInv, Types
  <2>3. RecordedInOrder'
    BY <1>1, <2>1 DEF IInv, RecordedInOrder
  <2>4. NoneForgotten'
    BY <1>4, <1>7, <2>1 DEF IInv, NoneForgotten, HalfMade
  <2>5. WritableByTwoFaults'
    <3>1. faults' >= 2
      BY <1>7 DEF IInv, Types
    <3> QED BY <3>1 DEF WritableByTwoFaults
  <2> QED BY <1>5, <2>2, <2>3, <2>4, <2>5 DEF IInv
<1> QED BY <1>6, <1>7 DEF RemountFails

\* All sources are there, and the sandbox is started.
LEMMA PreparedKeeps ==
  ASSUME IInv, Prepared PROVE IInv'
<1>1. /\ at = "source" /\ at' = "sandbox" /\ index > Len(Sources)
      /\ UNCHANGED <<kind, index, mountedTargets, mounts, failed, stuck,
                     deleted, faults>>
  BY DEF Prepared
<1>2. Types' /\ RecordedInOrder' /\ ReachedOnly'
  BY <1>1 DEF IInv, Types, RecordedInOrder, ReachedOnly, Mounted
<1>3. NoneForgotten' /\ WritableByTwoFaults'
  BY <1>1, SameMounts DEF IInv, NoneForgotten, WritableByTwoFaults, Mounted
<1>4. SetUp'
  BY <1>1 DEF IInv, SetUp, Mounted, HalfMade
<1> QED BY <1>2, <1>3, <1>4 DEF IInv

\* The last target recorded, which is what a round of the loop unmounts.
LEMMA LastTarget ==
  ASSUME IInv, at = "cleanup", mountedTargets # <<>>
  PROVE  /\ Len(mountedTargets) \in Nat /\ Len(mountedTargets) >= 1
         /\ Last(mountedTargets) = mountedTargets[Len(mountedTargets)]
         /\ Last(mountedTargets) \in SourceSet
         /\ Front(mountedTargets) \in Seq(SourceSet)
         /\ Len(Front(mountedTargets)) = Len(mountedTargets) - 1
         /\ \A i \in 1..(Len(mountedTargets) - 1) :
              /\ Front(mountedTargets)[i] = mountedTargets[i]
              /\ mountedTargets[i] \in SourceSet
              /\ Position(mountedTargets[i]) < Position(Last(mountedTargets))
         /\ \A m : Recorded(m) =>
              \/ m = Last(mountedTargets)
              \/ \E i \in 1..(Len(mountedTargets) - 1) : mountedTargets[i] = m
<1>1. mountedTargets \in Seq(SourceSet)
  BY DEF IInv, Types
<1>2. /\ Len(mountedTargets) \in Nat /\ Len(mountedTargets) >= 1
      /\ Last(mountedTargets) = mountedTargets[Len(mountedTargets)]
      /\ Last(mountedTargets) \in SourceSet
      /\ Front(mountedTargets) \in Seq(SourceSet)
      /\ Len(Front(mountedTargets)) = Len(mountedTargets) - 1
      /\ \A i \in 1..(Len(mountedTargets) - 1) :
           Front(mountedTargets)[i] = mountedTargets[i]
  BY <1>1, FrontOfTargets
<1>3. \A i \in 1..Len(mountedTargets) : mountedTargets[i] \in SourceSet
  BY <1>1, ElementOfSeq
<1>4. \A i \in 1..(Len(mountedTargets) - 1) :
        /\ i \in 1..Len(mountedTargets) /\ i < Len(mountedTargets)
        /\ Len(mountedTargets) \in 1..Len(mountedTargets)
  BY <1>2
<1>5. \A i \in 1..(Len(mountedTargets) - 1) :
        Position(mountedTargets[i]) < Position(Last(mountedTargets))
  BY <1>2, <1>4 DEF IInv, RecordedInOrder
<1>6. \A i \in 1..Len(mountedTargets) :
        i = Len(mountedTargets) \/ i \in 1..(Len(mountedTargets) - 1)
  BY <1>2
<1>7. \A m : Recorded(m) =>
        \/ m = Last(mountedTargets)
        \/ \E i \in 1..(Len(mountedTargets) - 1) : mountedTargets[i] = m
  BY <1>2, <1>6 DEF Recorded
<1> QED BY <1>2, <1>3, <1>4, <1>5, <1>7

\* One round of the loop of cleanupRuntimeMounts.
LEMMA UnmountKeeps ==
  ASSUME IInv, Unmount PROVE IInv'
<1> DEFINE target == Last(mountedTargets)
           n == Len(mountedTargets) - 1
<1>1. /\ at = "cleanup" /\ mountedTargets # <<>>
      /\ mountedTargets' = Front(mountedTargets)
      /\ Unmounts(target)
      /\ UNCHANGED <<kind, at, index, failed, deleted>>
  BY DEF Unmount
<1>2. /\ n \in Nat /\ target \in SourceSet
      /\ mountedTargets' \in Seq(SourceSet) /\ Len(mountedTargets') = n
      /\ \A i \in 1..n :
           /\ mountedTargets'[i] = mountedTargets[i]
           /\ mountedTargets[i] \in SourceSet
           /\ Position(mountedTargets[i]) < Position(target)
      /\ \A m : Recorded(m) =>
           m = target \/ \E i \in 1..n : mountedTargets[i] = m
  BY <1>1, LastTarget
<1>3. /\ \A i \in 1..n : i \in 1..Len(mountedTargets)
      /\ \A m : ~HalfMade(m) /\ ~HalfMade(m)'
  BY <1>1, LastTarget DEF HalfMade
<1>4. \A m \in Mounted :
        \/ m = target \/ m \in stuck
        \/ \E i \in 1..n : mountedTargets'[i] = m
  BY <1>2, <1>3 DEF IInv, NoneForgotten
<1>5. \A i, j \in 1..n :
        i < j => Position(mountedTargets'[i]) < Position(mountedTargets'[j])
  BY <1>2, <1>3 DEF IInv, RecordedInOrder
<1>6. \A i \in 1..n : mountedTargets'[i] \in Mounted
  BY <1>2, <1>3 DEF IInv, RecordedInOrder
<1>7. /\ faults \in Int /\ faults' \in 0..MaxFaults /\ faults' >= faults
      /\ UNCHANGED faults \/ Fault
  BY <1>1, FaultCounts, MaxFaultsAssumption DEF Unmounts, IInv, Types
<1>8. ReachedOnly' /\ SetUp'
  BY <1>1 DEF ReachedOnly, SetUp
<1>9. \A m \in Mounted : mounts[m] = "rw" => faults >= 2
  BY <1>3 DEF IInv, WritableByTwoFaults
<1>10. CASE mounts' = Detached(target) /\ UNCHANGED <<stuck, faults>>
  <2>1. /\ Mounted' = {m \in Mounted : m # target
                                       /\ <<m, target>> \notin Inside}
        /\ \A m \in Mounted' : mounts'[m] = mounts[m]
        /\ mounts' \in [Mounted' -> {"rw", "ro"}]
    BY <1>10, DetachedLeaves DEF IInv, Mounted
  <2>2. Types'
    BY <1>1, <1>2, <1>10, <2>1 DEF IInv, Types
  <2>3. RecordedInOrder'
    <3>1. ASSUME NEW i \in 1..n
          PROVE  mountedTargets'[i] \in Mounted'
      <4>1. /\ mountedTargets'[i] \in SourceSet
            /\ Position(mountedTargets'[i]) < Position(target)
            /\ Position(mountedTargets'[i]) \in Int
            /\ Position(target) \in Int
        BY <1>2, PositionOfSource, SourcesList
      <4>2. mountedTargets'[i] # target
        BY <4>1
      <4>3. <<mountedTargets'[i], target>> \notin Inside
        BY <4>1, InsideLater
      <4> QED BY <1>6, <2>1, <4>2, <4>3
    <3> QED BY <1>1, <1>2, <1>5, <3>1 DEF RecordedInOrder
  <2>4. NoneForgotten'
    BY <1>2, <1>4, <1>10, <2>1 DEF NoneForgotten, Recorded
  <2>5. WritableByTwoFaults'
    BY <1>1, <1>9, <1>10, <2>1 DEF IInv, WritableByTwoFaults
  <2> QED BY <1>8, <2>2, <2>3, <2>4, <2>5 DEF IInv
<1>11. CASE stuck' = stuck \cup {target} /\ UNCHANGED mounts
  <2>1. Mounted' = Mounted
    BY <1>11 DEF Mounted
  <2>2. Types'
    BY <1>1, <1>2, <1>7, <1>11, <2>1 DEF IInv, Types
  <2>3. RecordedInOrder'
    BY <1>1, <1>2, <1>5, <1>6, <2>1 DEF RecordedInOrder
  <2>4. NoneForgotten'
    BY <1>2, <1>4, <1>11, <2>1 DEF NoneForgotten, Recorded
  <2>5. WritableByTwoFaults'
    BY <1>1, <1>7, <1>9, <1>11, <2>1 DEF IInv, WritableByTwoFaults
  <2> QED BY <1>8, <2>2, <2>3, <2>4, <2>5 DEF IInv
<1> QED BY <1>1, <1>10, <1>11 DEF Unmounts

\* Every step keeps the invariant.
LEMMA Inductive == IInv /\ [Next]_vars => IInv'
<1> SUFFICES ASSUME IInv, [Next]_vars PROVE IInv'
  OBVIOUS
<1>1. CASE UNCHANGED vars
  BY <1>1 DEF vars, IInv, Types, RecordedInOrder, ReachedOnly, NoneForgotten,
              WritableByTwoFaults, SetUp, Mounted, Recorded, HalfMade, Source
<1>2. CASE SandboxEnds
  <2>1. faults' \in 0..MaxFaults /\ faults' >= faults
    BY <1>2, MaxFaultsAssumption DEF SandboxEnds, IInv, Types
  <2> QED BY <1>2, <2>1, OnlyPlaceMoves DEF SandboxEnds, IInv, Types
<1>3. CASE CleanedUp
  <2>1. faults' \in 0..MaxFaults /\ faults' >= faults
    BY <1>3, MaxFaultsAssumption DEF CleanedUp, IInv, Types
  <2> QED BY <1>3, <2>1, OnlyPlaceMoves DEF CleanedUp, IInv, Types
<1>4. CASE RemoveAll
  <2>1. faults' \in 0..MaxFaults /\ faults' >= faults
    BY <1>4, MaxFaultsAssumption DEF RemoveAll, IInv, Types
  <2>2. mountedTargets = <<>>
    BY <1>4 DEF RemoveAll, IInv, SetUp
  <2> QED BY <1>4, <2>1, <2>2, OnlyPlaceMoves DEF RemoveAll, IInv, Types
<1>5. CASE Returned
  BY <1>1, <1>5 DEF Returned
<1> QED
  BY <1>1, <1>2, <1>3, <1>4, <1>5, MakePrivateKeeps, SkipSourceKeeps,
     SourceFailsKeeps, BindKeeps, RemountKeeps, RemountFailsKeeps,
     PreparedKeeps, UnmountKeeps DEF Next

\* The invariant holds in every state of every behaviour.
LEMMA Invariant == Spec => []IInv
BY InitInvariant, Inductive, PTL DEF Spec

\* The host's mounts below a source come with its mount and go with it.
SubmountsFollow ==
  /\ below \in HostMounts /\ \A s \in below : kind[s] = "dir"
  /\ submounts = Mounted \cap below

\* Every step keeps that.
LEMMA Following == Spec => []SubmountsFollow
<1>1. Init => SubmountsFollow
  BY DEF Init, SubmountsFollow, Mounted
<1>2. ASSUME SubmountsFollow, [Next]_vars PROVE SubmountsFollow'
  <2>1. CASE UNCHANGED <<host, mounts, submounts>>
    BY <1>2, <2>1 DEF SubmountsFollow, Mounted
  <2>2. CASE Bind
    BY <1>2, <2>2 DEF Bind, SubmountsFollow, Mounted
  <2>3. CASE Remount
    BY <1>2, <2>3 DEF Remount, SubmountsFollow, Mounted
  <2>4. ASSUME NEW t, Detach(t), UNCHANGED host PROVE SubmountsFollow'
    <3>1. Mounted' \subseteq Mounted /\ submounts' = submounts \cap Mounted'
      BY <2>4 DEF Detached, Mounted
    <3> QED BY <1>2, <2>4, <3>1 DEF SubmountsFollow
  <2>5. CASE Unmount
    BY <2>1, <2>4, <2>5 DEF Unmount, Unmounts
  <2>6. CASE RemountFails
    BY <2>1, <2>4, <2>6 DEF RemountFails
  <2> QED
    BY <1>2, <2>1, <2>2, <2>3, <2>5, <2>6
       DEF Next, vars, MakePrivate, SkipSource, SourceFails, Prepared,
           SandboxEnds, CleanedUp, RemoveAll, Returned
<1> QED BY <1>1, <1>2, PTL DEF Spec

-----------------------------------------------------------------------------
(* The properties.                                                         *)

\* The variables have their types, and whatever is recorded is mounted.
THEOREM TypeCorrect == Spec => []TypeOK
<1>1. IInv /\ SubmountsFollow => TypeOK
  BY DEF IInv, Types, RecordedInOrder, TypeOK, Range, SubmountsFollow
<1> QED BY <1>1, Invariant, Following, PTL

\* Whatever the host has, a sandbox runs over exactly the directories it has,
\* the mount of each read-only and recorded, and over just those mounts below
\* them that the host has, which stay as they are on the host
\* (prepareRuntimeMounts, bindMountReadOnly).
THEOREM ReadOnly == Spec => []SandboxSeesReadOnly
<1>1. IInv /\ SubmountsFollow => SandboxSeesReadOnly
  <2> SUFFICES ASSUME IInv, SubmountsFollow, at = "sandbox"
               PROVE  /\ Mounted = {s \in SourceSet : kind[s] = "dir"}
                      /\ \A m \in Mounted : mounts[m] = "ro"
                      /\ Range(mountedTargets) = Mounted
                      /\ submounts = below
    BY DEF SandboxSeesReadOnly
  <2>1. \A m : ~HalfMade(m)
    BY DEF HalfMade
  <2>2. \A m \in Mounted :
          m \in SourceSet /\ kind[m] = "dir" /\ mounts[m] = "ro"
    BY <2>1 DEF IInv, Types, SetUp
  <2>3. ASSUME NEW s \in SourceSet, kind[s] = "dir" PROVE s \in Mounted
    <3>1. /\ Position(s) \in 1..Len(Sources) /\ Sources[Position(s)] = s
          /\ index > Len(Sources) /\ index \in Int
      BY PositionOfSource, SourcesList DEF IInv, Types, SetUp
    <3>2. Position(s) < index
      BY <3>1, SourcesList
    <3> QED BY <2>3, <3>1, <3>2 DEF IInv, SetUp
  <2>4. Range(mountedTargets) \subseteq Mounted
    BY DEF IInv, Types, RecordedInOrder, Range
  <2>5. \A m \in Mounted : Recorded(m)
    BY <2>1 DEF IInv, NoneForgotten, SetUp
  <2>6. Mounted \subseteq Range(mountedTargets)
    BY <2>5 DEF IInv, Types, Recorded, Range
  <2>7. submounts = below
    BY <2>3, HostMountsAssumption DEF SubmountsFollow
  <2> QED BY <2>2, <2>3, <2>4, <2>6, <2>7
<1> QED BY <1>1, Invariant, Following, PTL

\* No single failure deletes files of the host, whatever the sources, whatever
\* the host has mounted below them and however many system calls may fail
\* (bindMountReadOnly, cleanupWorkspace).
THEOREM HostKept == Spec => []HostFilesKept
<1>1. IInv => HostFilesKept
  BY MaxFaultsAssumption DEF IInv, Types, WritableByTwoFaults, HostFilesKept
<1> QED BY <1>1, Invariant, PTL

\* Once Execute returns, what is mounted is what the kernel did not let go.
THEOREM OnlyStuckLeft == Spec => []OnlyStuckMountsLeft
<1>1. IInv => OnlyStuckMountsLeft
  BY LenProperties, EmptySeq
     DEF IInv, NoneForgotten, SetUp, Recorded, HalfMade, OnlyStuckMountsLeft
<1> QED BY <1>1, Invariant, PTL

\* No step takes a mount away before those inside it, stuck ones apart: the
\* reverse order of cleanupRuntimeMounts does it for any nesting.
THEOREM InnerBeforeOuter == Spec => InnerFirst
<1> DEFINE Orderly ==
      \A p \in Inside :
        p[2] \in Mounted \ Mounted' => p[1] \notin Mounted \/ p[1] \in stuck
<1>1. \A p \in Inside :
        /\ p[1] \in SourceSet /\ p[2] \in SourceSet
        /\ Position(p[2]) \in Int /\ Position(p[1]) \in Int
        /\ Position(p[2]) < Position(p[1])
  <2>1. \A p \in Inside : p = <<p[1], p[2]>>
    BY InsideAssumption
  <2>2. \A p \in Inside : /\ p[1] \in SourceSet /\ p[2] \in SourceSet
                          /\ Position(p[2]) < Position(p[1])
    BY <2>1, InsideLater
  <2> QED BY <2>2, PositionOfSource, SourcesList
<1>2. ASSUME IInv, [Next]_vars PROVE Orderly
  <2>1. CASE Unmount
    <3> SUFFICES ASSUME NEW p \in Inside, p[2] \in Mounted \ Mounted',
                        p[1] \in Mounted
                 PROVE  p[1] \in stuck
      OBVIOUS
    <3> DEFINE target == Last(mountedTargets)
    <3>1. at = "cleanup" /\ mountedTargets # <<>> /\ Unmounts(target)
      BY <2>1 DEF Unmount
    <3>2. mounts' = Detached(target)
      BY <3>1 DEF Unmounts, Mounted
    <3>3. p[2] = target \/ <<p[2], target>> \in Inside
      BY <1>2, <3>2, DetachedLeaves DEF IInv, Mounted
    <3>4. target \in SourceSet /\ Position(target) \in Int
      BY <1>2, <3>1, LastTarget, PositionOfSource, SourcesList
    <3>5. Position(target) < Position(p[1])
      <4>1. CASE p[2] = target
        BY <1>1, <4>1
      <4>2. CASE <<p[2], target>> \in Inside
        BY <1>1, <3>4, <4>2, InsideLater
      <4> QED BY <3>3, <4>1, <4>2
    <3>6. ~Recorded(p[1])
      <4>1. SUFFICES ASSUME Recorded(p[1]) PROVE FALSE
        OBVIOUS
      <4>2. \/ p[1] = target
            \/ \E i \in 1..(Len(mountedTargets) - 1) :
                 mountedTargets[i] = p[1] /\ Position(p[1]) < Position(target)
        BY <1>2, <3>1, <4>1, LastTarget
      <4> QED BY <1>1, <3>4, <3>5, <4>2
    <3>7. ~HalfMade(p[1])
      BY <3>1 DEF HalfMade
    <3> QED BY <1>2, <3>6, <3>7 DEF IInv, NoneForgotten
  <2>2. CASE RemountFails
    <3> SUFFICES ASSUME NEW p \in Inside, p[2] \in Mounted \ Mounted',
                        p[1] \in Mounted
                 PROVE  FALSE
      OBVIOUS
    <3>1. /\ at = "remount" /\ index \in 1..Len(Sources)
          /\ \A m \in Mounted : Position(m) <= index
      BY <1>2, <2>2, SourcesList DEF RemountFails, IInv, Types, ReachedOnly
    <3>2. Source \in SourceSet /\ Position(Source) = index /\ index \in Int
      BY <3>1, SourcesList, PositionOfSource DEF Source
    <3>3. mounts' = Detached(Source)
      BY <2>2 DEF RemountFails, Mounted
    <3>4. p[2] = Source \/ <<p[2], Source>> \in Inside
      BY <1>2, <3>3, DetachedLeaves DEF IInv, Mounted
    <3>5. index < Position(p[1])
      <4>1. CASE p[2] = Source
        BY <1>1, <3>2, <4>1
      <4>2. CASE <<p[2], Source>> \in Inside
        BY <1>1, <3>2, <4>2, InsideLater
      <4> QED BY <3>4, <4>1, <4>2
    <3> QED BY <1>1, <3>1, <3>2, <3>5
  <2>3. CASE ~Unmount /\ ~RemountFails
    <3>1. Mounted \subseteq Mounted'
      <4>1. CASE UNCHANGED mounts
        BY <4>1 DEF Mounted
      <4>2. CASE Bind
        BY <4>2 DEF Bind, Mounted
      <4>3. CASE Remount
        BY <4>3 DEF Remount, Mounted
      <4> QED
        BY <1>2, <2>3, <4>1, <4>2, <4>3
           DEF Next, vars, MakePrivate, SkipSource, SourceFails, Prepared,
               SandboxEnds, CleanedUp, RemoveAll, Returned
    <3> QED BY <3>1
  <2> QED BY <2>1, <2>2, <2>3
<1>3. IInv /\ [Next]_vars => [Orderly]_vars
  BY <1>2
<1> QED BY <1>3, Invariant, PTL DEF Spec, InnerFirst
=============================================================================
