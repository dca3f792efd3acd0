-------------------------- MODULE SandboxInitProofs --------------------------
(***************************************************************************)
(* What SandboxInit keeps for any number of capabilities, any kernel and   *)
(* any failing call.                                                       *)
(***************************************************************************)
EXTENDS SandboxInit, TLAPS

-----------------------------------------------------------------------------
\* The steps of main in their order.
LEMMA Shape ==
  /\ DOMAIN Order = 1..8
  /\ Order[1] = "arguments" /\ Order[2] = "procfs" /\ Order[3] = "ambient"
  /\ Order[4] = "bounding" /\ Order[5] = "capset"
  /\ Order[6] = "no_new_privs" /\ Order[7] = "filter" /\ Order[8] = "exec"
<1>1. Len(Order) = 8 /\ DOMAIN Order = 1..Len(Order)
  BY DEF Order
<1>2. DOMAIN Order = 1..8
  BY <1>1
<1>3. /\ Order[1] = "arguments" /\ Order[2] = "procfs" /\ Order[3] = "ambient"
      /\ Order[4] = "bounding" /\ Order[5] = "capset"
      /\ Order[6] = "no_new_privs" /\ Order[7] = "filter" /\ Order[8] = "exec"
  BY DEF Order
<1> QED BY <1>2, <1>3

\* A step is at one place only.
LEMMA Places ==
  ASSUME position \in 1..8
  PROVE  /\ At("arguments") => position = 1
         /\ At("procfs") => position = 2
         /\ At("ambient") => position = 3
         /\ At("bounding") => position = 4
         /\ At("capset") => position = 5
         /\ At("no_new_privs") => position = 6
         /\ At("filter") => position = 7
         /\ At("exec") => position = 8
<1>1. position \in {1, 2, 3, 4, 5, 6, 7, 8}
  OBVIOUS
<1> QED BY <1>1, Shape DEF At

\* What main has done before a place of it, and what it has not: the
\* capabilities are whole as long as a step may need them.
DoneBefore ==
  /\ position > 1 => command # "none"
  /\ position > 2 => procfs
  /\ \A c \in bounding : c >= capability
  /\ position > 4 => capability > CAP_LAST_CAP
  /\ position <= 5 => effective = 0..known-1
  /\ position > 5 => effective = {}
  /\ position > 6 => no_new_privs
  /\ position <= 7 => ~filter
  /\ position > 7 => filter

\* main is at one of its steps.
Place == position \in 1..8

\* The other types.
Types ==
  /\ known \in Kernels /\ command \in Commands
  /\ capability \in 0..CAP_LAST_CAP + 1
  /\ bounding \subseteq 0..known-1 /\ effective \subseteq 0..known-1
  /\ image \in {"sandbox-init", "program", "exit 126", "exit 127"}

\* The types of the flags.
Flags ==
  /\ no_new_privs \in BOOLEAN /\ filter \in BOOLEAN /\ procfs \in BOOLEAN
  /\ failed \in BOOLEAN

\* What every step keeps.
IInv == /\ Place /\ Types /\ Flags
        /\ NothingLeft
        /\ OrderPermitted
        /\ image = "sandbox-init" => DoneBefore /\ ~failed

\* A kernel knows some capabilities, the two that matter among them.
LEMMA KnownCapabilities ==
  ASSUME Types
  PROVE  /\ known \in Nat /\ CAP_LAST_CAP \in Nat
         /\ SYS_ADMIN \in 0..known-1 /\ SETPCAP \in 0..known-1
<1>1. known \in Kernels
  BY DEF Types
<1>2. known \in Nat /\ CAP_LAST_CAP \in Nat
  BY <1>1, CapabilitiesAssumption
<1>3. SYS_ADMIN \in 0..known-1 /\ SETPCAP \in 0..known-1
  BY <1>1, CapabilitiesAssumption
<1> QED BY <1>2, <1>3

\* The process starts whole.
LEMMA InitInvariant == Init => IInv
<1> SUFFICES ASSUME Init PROVE IInv
  OBVIOUS
<1>1. known \in Nat /\ CAP_LAST_CAP \in Nat
  BY CapabilitiesAssumption DEF Init
<1>2. Types
  BY <1>1 DEF Init, Types
<1>3. DoneBefore
  BY <1>1 DEF Init, DoneBefore
<1>4. Flags /\ ~failed
  BY DEF Init, Flags
<1>5. NothingLeft /\ OrderPermitted
  BY DEF Init, NothingLeft, OrderPermitted
<1>6. Place
  BY DEF Init, Place
<1> QED BY <1>2, <1>3, <1>4, <1>5, <1>6 DEF IInv

\* Every step keeps the invariant.
LEMMA NextInvariant ==
  ASSUME IInv, [Next]_vars
  PROVE  IInv'
<1> USE DEF Proceed, Refused, world, caps, jail
<1>1. /\ known \in Nat /\ CAP_LAST_CAP \in Nat
      /\ SYS_ADMIN \in 0..known-1 /\ SETPCAP \in 0..known-1
  BY KnownCapabilities DEF IInv
<1>2. Place /\ Types /\ Flags /\ NothingLeft /\ OrderPermitted
  BY DEF IInv
<1>3. CASE Arguments
  <2>1. position = 1 /\ image = "sandbox-init"
    BY <1>2, <1>3, Places DEF Arguments, At, Place
  <2>2. DoneBefore /\ ~failed
    BY <2>1 DEF IInv
  <2>4. position' = 1 \/ position' = 2
    <3>1. Refused(FALSE) => position' = 1
      BY <2>1
    <3>2. Proceed => position' = 2
      BY <2>1
    <3> HIDE DEF Refused, Proceed
    <3> QED BY <1>3, <3>1, <3>2 DEF Arguments
  <2>5. Types'
    BY <1>1, <1>2, <1>3, <2>1 DEF Arguments, Types
  <2>6. Flags'
    BY <1>1, <1>2, <1>3, <2>1, <2>2 DEF Arguments, Flags
  <2>7. NothingLeft' /\ OrderPermitted'
    BY <1>1, <1>2, <1>3, <2>1, <2>2
       DEF Arguments, NothingLeft, OrderPermitted, Types, DoneBefore
  <2>8. (image = "sandbox-init" => DoneBefore /\ ~failed)'
    BY <1>1, <1>2, <1>3, <2>1, <2>2
       DEF Arguments, Types, DoneBefore
  <2> QED BY <2>4, <2>5, <2>6, <2>7, <2>8 DEF IInv, Place
<1>4. CASE mount_procfs
  <2>1. position = 2 /\ image = "sandbox-init"
    BY <1>2, <1>4, Places DEF mount_procfs, At, Place
  <2>2. DoneBefore /\ ~failed
    BY <2>1 DEF IInv
  <2>3. MayMount
    BY <1>1, <2>1, <2>2 DEF DoneBefore, MayMount
  <2>4. position' = 2 \/ position' = 3
    <3>1. Refused(MayMount) => position' = 2
      BY <2>1
    <3>2. Proceed => position' = 3
      BY <2>1
    <3> HIDE DEF Refused, Proceed
    <3> QED BY <1>4, <3>1, <3>2 DEF mount_procfs
  <2>5. Types'
    BY <1>1, <1>2, <1>4, <2>1, <2>3 DEF mount_procfs, Types
  <2>6. Flags'
    BY <1>1, <1>2, <1>4, <2>1, <2>2, <2>3 DEF mount_procfs, Flags
  <2>7. NothingLeft' /\ OrderPermitted'
    BY <1>1, <1>2, <1>4, <2>1, <2>2, <2>3
       DEF mount_procfs, NothingLeft, OrderPermitted, Types, DoneBefore
  <2>8. (image = "sandbox-init" => DoneBefore /\ ~failed)'
    BY <1>1, <1>2, <1>4, <2>1, <2>2, <2>3
       DEF mount_procfs, Types, DoneBefore
  <2> QED BY <2>4, <2>5, <2>6, <2>7, <2>8 DEF IInv, Place
<1>5. CASE ClearAmbient
  <2>1. position = 3 /\ image = "sandbox-init"
    BY <1>2, <1>5, Places DEF ClearAmbient, At, Place
  <2>2. DoneBefore /\ ~failed
    BY <2>1 DEF IInv
  <2>4. position' = 3 \/ position' = 4
    <3>1. Refused(TRUE) => position' = 3
      BY <2>1
    <3>2. Proceed => position' = 4
      BY <2>1
    <3> HIDE DEF Refused, Proceed
    <3> QED BY <1>5, <3>1, <3>2 DEF ClearAmbient
  <2>5. Types'
    BY <1>1, <1>2, <1>5, <2>1 DEF ClearAmbient, Types
  <2>6. Flags'
    BY <1>1, <1>2, <1>5, <2>1, <2>2 DEF ClearAmbient, Flags
  <2>7. NothingLeft' /\ OrderPermitted'
    BY <1>1, <1>2, <1>5, <2>1, <2>2
       DEF ClearAmbient, NothingLeft, OrderPermitted, Types, DoneBefore
  <2>8. (image = "sandbox-init" => DoneBefore /\ ~failed)'
    BY <1>1, <1>2, <1>5, <2>1, <2>2
       DEF ClearAmbient, Types, DoneBefore
  <2> QED BY <2>4, <2>5, <2>6, <2>7, <2>8 DEF IInv, Place
<1>6. CASE DropBounding
  <2>1. position = 4 /\ image = "sandbox-init"
    BY <1>2, <1>6, Places DEF DropBounding, At, Place
  <2>2. DoneBefore /\ ~failed
    BY <2>1 DEF IInv
  <2>3. MayDrop
    BY <1>1, <2>1, <2>2 DEF DoneBefore, MayDrop
  <2>4. position' = 4
    BY <1>6, <2>1 DEF DropBounding
  <2>5. /\ known' = known /\ command' = command /\ effective' = effective
        /\ UNCHANGED <<no_new_privs, filter, procfs>>
    BY <1>6 DEF DropBounding
  <2>6. CASE Refused(MayDrop) /\ UNCHANGED <<bounding, capability>>
    <3>1. image' = "exit 126" /\ failed' = TRUE
      BY <2>3, <2>6
    <3>2. (Types /\ Flags)'
      BY <1>2, <2>5, <2>6, <3>1 DEF Types, Flags
    <3>3. NothingLeft' /\ OrderPermitted'
      BY <3>1 DEF NothingLeft, OrderPermitted
    <3>4. image' # "sandbox-init"
      BY <3>1
    <3>5. Place'
      BY <2>4 DEF Place
    <3> QED BY <3>2, <3>3, <3>4, <3>5 DEF IInv
  <2>7. CASE /\ bounding' = bounding \ {capability}
             /\ capability' = capability + 1
             /\ UNCHANGED <<position, image, failed>>
    <3>1. capability' \in 0..CAP_LAST_CAP + 1
      <4>1. ~(capability > CAP_LAST_CAP)
        BY <1>6 DEF DropBounding, LoopEnds
      <4>2. capability \in 0..CAP_LAST_CAP + 1
        BY <1>2 DEF Types
      <4>3. capability' = capability + 1
        BY <2>7
      <4> QED BY <1>1, <4>1, <4>2, <4>3
    <3>2. (Types /\ Flags)'
      BY <1>2, <2>5, <2>7, <3>1 DEF Types, Flags
    <3>3. NothingLeft' /\ OrderPermitted'
      BY <2>1, <2>7 DEF NothingLeft, OrderPermitted
    <3>4. ASSUME NEW c \in bounding'
          PROVE  c >= capability'
      <4>1. c \in bounding /\ c # capability /\ c \in 0..known-1
        BY <1>2, <2>7 DEF Types
      <4>2. c >= capability /\ capability \in 0..CAP_LAST_CAP + 1
        BY <1>2, <2>2, <4>1 DEF Types, DoneBefore
      <4> QED BY <1>1, <2>7, <4>1, <4>2
    <3>5. DoneBefore' /\ ~failed'
      BY <2>1, <2>2, <2>4, <2>5, <2>7, <3>4 DEF DoneBefore
    <3> QED BY <2>4, <3>2, <3>3, <3>5 DEF IInv, Place
  <2> QED BY <1>6, <2>6, <2>7 DEF DropBounding
<1>7. CASE BoundingDropped
  <2>1. position = 4 /\ image = "sandbox-init"
    BY <1>2, <1>7, Places DEF BoundingDropped, At, Place
  <2>2. DoneBefore /\ ~failed
    BY <2>1 DEF IInv
  <2>4. Types'
    BY <1>1, <1>2, <1>7, <2>1 DEF BoundingDropped, Types, LoopEnds
  <2>5. Flags'
    BY <1>1, <1>2, <1>7, <2>1, <2>2 DEF BoundingDropped, Flags
  <2>6. NothingLeft' /\ OrderPermitted'
    BY <1>1, <1>2, <1>7, <2>1, <2>2
       DEF BoundingDropped, NothingLeft, OrderPermitted, Types, DoneBefore,
           LoopEnds
  <2>7. (image = "sandbox-init" => DoneBefore /\ ~failed)'
    BY <1>1, <1>2, <1>7, <2>1, <2>2
       DEF BoundingDropped, Types, DoneBefore, LoopEnds
  <2>8. position' = 5
    BY <1>7, <2>1 DEF BoundingDropped
  <2> QED BY <2>4, <2>5, <2>6, <2>7, <2>8 DEF IInv, Place
<1>8. CASE Capset
  <2>1. position = 5 /\ image = "sandbox-init"
    BY <1>2, <1>8, Places DEF Capset, At, Place
  <2>2. DoneBefore /\ ~failed
    BY <2>1 DEF IInv
  <2>4. position' = 5 \/ position' = 6
    <3>1. Refused(TRUE) => position' = 5
      BY <2>1
    <3>2. Proceed => position' = 6
      BY <2>1
    <3> HIDE DEF Refused, Proceed
    <3> QED BY <1>8, <3>1, <3>2 DEF Capset
  <2>5. Types'
    BY <1>1, <1>2, <1>8, <2>1 DEF Capset, Types
  <2>6. Flags'
    BY <1>1, <1>2, <1>8, <2>1, <2>2 DEF Capset, Flags
  <2>7. NothingLeft' /\ OrderPermitted'
    BY <1>1, <1>2, <1>8, <2>1, <2>2
       DEF Capset, NothingLeft, OrderPermitted, Types, DoneBefore
  <2>8. (image = "sandbox-init" => DoneBefore /\ ~failed)'
    BY <1>1, <1>2, <1>8, <2>1, <2>2
       DEF Capset, Types, DoneBefore
  <2> QED BY <2>4, <2>5, <2>6, <2>7, <2>8 DEF IInv, Place
<1>9. CASE SetNoNewPrivs
  <2>1. position = 6 /\ image = "sandbox-init"
    BY <1>2, <1>9, Places DEF SetNoNewPrivs, At, Place
  <2>2. DoneBefore /\ ~failed
    BY <2>1 DEF IInv
  <2>4. position' = 6 \/ position' = 7
    <3>1. Refused(TRUE) => position' = 6
      BY <2>1
    <3>2. Proceed => position' = 7
      BY <2>1
    <3> HIDE DEF Refused, Proceed
    <3> QED BY <1>9, <3>1, <3>2 DEF SetNoNewPrivs
  <2>5. Types'
    BY <1>1, <1>2, <1>9, <2>1 DEF SetNoNewPrivs, Types
  <2>6. Flags'
    BY <1>1, <1>2, <1>9, <2>1, <2>2 DEF SetNoNewPrivs, Flags
  <2>7. NothingLeft' /\ OrderPermitted'
    BY <1>1, <1>2, <1>9, <2>1, <2>2
       DEF SetNoNewPrivs, NothingLeft, OrderPermitted, Types, DoneBefore
  <2>8. (image = "sandbox-init" => DoneBefore /\ ~failed)'
    BY <1>1, <1>2, <1>9, <2>1, <2>2
       DEF SetNoNewPrivs, Types, DoneBefore
  <2> QED BY <2>4, <2>5, <2>6, <2>7, <2>8 DEF IInv, Place
<1>10. CASE SetFilter
  <2>1. position = 7 /\ image = "sandbox-init"
    BY <1>2, <1>10, Places DEF SetFilter, At, Place
  <2>2. DoneBefore /\ ~failed
    BY <2>1 DEF IInv
  <2>3. MayFilter
    BY <1>1, <2>1, <2>2 DEF DoneBefore, MayFilter
  <2>4. position' = 7 \/ position' = 8
    <3>1. Refused(MayFilter) => position' = 7
      BY <2>1
    <3>2. Proceed => position' = 8
      BY <2>1
    <3> HIDE DEF Refused, Proceed
    <3> QED BY <1>10, <3>1, <3>2 DEF SetFilter
  <2>5. Types'
    BY <1>1, <1>2, <1>10, <2>1, <2>3 DEF SetFilter, Types
  <2>6. Flags'
    BY <1>1, <1>2, <1>10, <2>1, <2>2, <2>3 DEF SetFilter, Flags
  <2>7. NothingLeft' /\ OrderPermitted'
    BY <1>1, <1>2, <1>10, <2>1, <2>2, <2>3
       DEF SetFilter, NothingLeft, OrderPermitted, Types, DoneBefore
  <2>8. (image = "sandbox-init" => DoneBefore /\ ~failed)'
    BY <1>1, <1>2, <1>10, <2>1, <2>2, <2>3
       DEF SetFilter, Types, DoneBefore
  <2> QED BY <2>4, <2>5, <2>6, <2>7, <2>8 DEF IInv, Place
<1>11. CASE Exec
  <2>1. position = 8 /\ image = "sandbox-init"
    BY <1>2, <1>11, Places DEF Exec, At, Place
  <2>2. DoneBefore /\ ~failed
    BY <2>1 DEF IInv
  <2>4. Types'
    BY <1>1, <1>2, <1>11, <2>1 DEF Exec, Types
  <2>5. Flags'
    BY <1>1, <1>2, <1>11, <2>1, <2>2 DEF Exec, Flags
  <2>3. bounding \cap 0..CAP_LAST_CAP = {}
    <3> SUFFICES ASSUME NEW c \in bounding \cap 0..CAP_LAST_CAP
                 PROVE  FALSE
      OBVIOUS
    <3>1. capability > CAP_LAST_CAP /\ c >= capability
      BY <2>1, <2>2 DEF DoneBefore
    <3>2. capability \in 0..CAP_LAST_CAP + 1
      BY <1>2 DEF Types
    <3> QED BY <1>1, <3>1, <3>2
  <2>6. NothingLeft' /\ OrderPermitted'
    <3>1. CASE command = "runs"
      <4>1. /\ bounding' = bounding /\ effective' = {} /\ image' = "program"
            /\ UNCHANGED <<no_new_privs, filter, procfs>>
        BY <1>11, <2>1, <2>2, <3>1 DEF Exec, DoneBefore
      <4> QED BY <2>1, <2>2, <2>3, <4>1
             DEF NothingLeft, OrderPermitted, DoneBefore
    <3>2. CASE command # "runs"
      <4>1. command \in {"not found", "not executable", "none"}
        BY <1>2, <3>2, CommandsAssumption DEF Types
      <4> QED BY <1>2, <1>11, <2>1, <2>2, <3>2, <4>1
             DEF Exec, NothingLeft, OrderPermitted
    <3> QED BY <3>1, <3>2
  <2>7. (image = "sandbox-init" => DoneBefore /\ ~failed)'
    BY <1>1, <1>2, <1>11, <2>1, <2>2
       DEF Exec, Types, DoneBefore
  <2>8. position' = 8
    BY <1>11, <2>1 DEF Exec
  <2> QED BY <2>4, <2>5, <2>6, <2>7, <2>8 DEF IInv, Place
<1>12. CASE Done \/ UNCHANGED vars
  <2>1. UNCHANGED vars
    BY <1>12 DEF Done
  <2>2. (Place /\ Types /\ Flags)'
    BY <1>2, <2>1 DEF vars, Place, Types, Flags
  <2>3. (NothingLeft /\ OrderPermitted)'
    BY <1>2, <2>1 DEF vars, NothingLeft, OrderPermitted
  <2>4. (image = "sandbox-init" => DoneBefore /\ ~failed)'
    BY <2>1 DEF vars, DoneBefore, IInv
  <2> QED BY <2>2, <2>3, <2>4 DEF IInv
<1> QED BY <1>3, <1>4, <1>5, <1>6, <1>7, <1>8, <1>9, <1>10, <1>11, <1>12
       DEF Next

\* The invariant holds at the start, and every step keeps it.
LEMMA Inductive == Spec => []IInv
BY InitInvariant, NextInvariant, PTL DEF Spec

-----------------------------------------------------------------------------
(* The theorems.                                                           *)

\* The variables keep their types; the loop of drop_capabilities ends behind
\* the last capability.
THEOREM TypeCorrect == Spec => []TypeOK
<1>1. IInv => TypeOK
  BY Shape DEF IInv, Place, Types, Flags, TypeOK
<1> QED BY <1>1, Inductive, PTL

\* Whatever call fails, and whether the kernel knows fewer or more
\* capabilities than the headers, the program under test only runs without
\* any capability in effect and with none of the headers' left to gain; those
\* of a newer kernel are out of its reach by no_new_privs (main of
\* sandbox_init.c).
THEOREM Confinement == Spec => []NothingLeft
<1>1. IInv => NothingLeft
  BY DEF IInv
<1> QED BY <1>1, Inductive, PTL

\* sandbox-init never takes from itself what it still needs, and its exit
\* status tells a failure from a missing program (main of sandbox_init.c).
THEOREM OrderIsPermitted == Spec => []OrderPermitted
<1>1. IInv => OrderPermitted
  BY DEF IInv
<1> QED BY <1>1, Inductive, PTL
=============================================================================
