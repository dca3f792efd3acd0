------------------------------ MODULE MCLimits ------------------------------
(***************************************************************************)
(* Limits on an 8-bit word.  A second is 5 units, so a body asking for     *)
(* MCWrappingSeconds does not fit the word and one asking for              *)
(* MCFittingSeconds does.                                                  *)
(***************************************************************************)
EXTENDS Limits

MCFittingSeconds  == {0, 1, 5, 6, 12, 13, 25}
MCWrappingSeconds == {26, 40, 51, 52, 60, 255}
MCSeconds         == MCFittingSeconds \cup MCWrappingSeconds
MCDurations       == {-128, -1, 0, 1, 29, 30, 31, 127}
MCMemory          == {0, 1, 3, 6, 7, 8, 200}

\* The usual environment, a default over its maximum, zeros, and a maximum
\* below zero.
Usual     == [MaxTimeout |-> 30, DefaultTimeout |-> 10, MaxMemoryLimit |-> 7,
              DefaultMemoryLimit |-> 2, RAM_LIMIT |-> 6]
MCUsual   == {Usual}
MCConfigs == {Usual,
              [Usual EXCEPT !.DefaultTimeout = 31, !.DefaultMemoryLimit = 8,
                            !.RAM_LIMIT = 9],
              [Usual EXCEPT !.DefaultTimeout = 0, !.DefaultMemoryLimit = 0],
              [Usual EXCEPT !.MaxTimeout = -1, !.MaxMemoryLimit = 0]}

=============================================================================
