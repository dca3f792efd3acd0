----------------------------- MODULE ControlGroup -----------------------------
(***************************************************************************)
(* What a sandbox may rely on in its control group, whoever drives it: the *)
(* sandbox starts only in a group that has all its limits, and the group   *)
(* is given up only when the sandbox is gone or was never started, unless  *)
(* the server dies.                                                        *)
(***************************************************************************)
VARIABLES
  group,     \* "none", "ready", "gone", or "left" on the host for good
  sandbox,   \* "none", "running", "doomed" to end, "gone"
  serving    \* whether the server is still there that made them

vars == <<group, sandbox, serving>>

Init == group = "none" /\ sandbox = "none" /\ serving = TRUE

Make == /\ serving /\ group = "none"
        /\ group' = "ready"
        /\ UNCHANGED <<sandbox, serving>>

\* It was not made, or not with all its limits, and was given up at once.
Fail == /\ serving /\ group = "none"
        /\ group' \in {"gone", "left"}
        /\ UNCHANGED <<sandbox, serving>>

Start == /\ serving /\ group = "ready" /\ sandbox = "none"
         /\ sandbox' = "running"
         /\ UNCHANGED <<group, serving>>

\* The sandbox ends by itself or is killed: there is no way back.
Doom == /\ sandbox = "running"
        /\ sandbox' = "doomed"
        /\ UNCHANGED <<group, serving>>

\* The last process has gone.
Empty == /\ sandbox = "doomed"
         /\ sandbox' = "gone"
         /\ UNCHANGED <<group, serving>>

Remove == /\ serving /\ group = "ready" /\ sandbox \in {"none", "gone"}
          /\ group' \in {"gone", "left"}
          /\ UNCHANGED <<sandbox, serving>>

\* The server dies: nobody makes or removes a group for this sandbox again.
Crash == /\ serving
         /\ serving' = FALSE
         /\ group' = CASE group = "none"  -> "gone"
                       [] group = "ready" -> "left"
                       [] OTHER           -> group
         /\ UNCHANGED sandbox

Next == Make \/ Fail \/ Start \/ Doom \/ Empty \/ Remove \/ Crash

Spec == Init /\ [][Next]_vars
=============================================================================
