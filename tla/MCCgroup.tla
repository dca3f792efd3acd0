------------------------------- MODULE MCCgroup -------------------------------
(***************************************************************************)
(* One control group on every kind of kernel.                              *)
(***************************************************************************)
EXTENDS CgroupHandle

CONSTANTS p1, p2, p3

MCKernels == [kill : {"works", "denied", "absent"}, peak : BOOLEAN]

\* Linux before 5.14: no cgroup.kill, no memory.peak.
OldKernels == [kill : {"denied"}, peak : {FALSE}]
=============================================================================
