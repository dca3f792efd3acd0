------------------------------ MODULE Admission ------------------------------
(***************************************************************************)
(* What the dispatcher promises its callers about memory, without a ledger:*)
(* a request is admitted exactly when its amount fits what the admitted    *)
(* ones leave of the capacity, it is refused exactly when it does not, no  *)
(* request waits for another, and what was admitted is returned.  A        *)
(* restart of the server forgets everything that was asked or admitted.    *)
(***************************************************************************)
EXTENDS Integers, FiniteSets

CONSTANTS
  Requests,
  Amounts,   \* the amounts a request may ask for, in KB
  RAM_LIMIT  \* the capacity, in KB

VARIABLES
  status,  \* status[r] is where request r stands
  amount   \* amount[r] is what it asked for

vars == <<status, amount>>

Statuses == {"new", "asking", "admitted", "refused", "over"}

\* One element for each KB that an admitted request holds: their number is
\* the sum of the admitted amounts.
AdmittedUnits ==
  {u \in Requests \X (1..RAM_LIMIT) :
     status[u[1]] = "admitted" /\ u[2] <= amount[u[1]]}

Free == RAM_LIMIT - Cardinality(AdmittedUnits)

-----------------------------------------------------------------------------
Init == /\ status = [r \in Requests |-> "new"]
        /\ amount = [r \in Requests |-> 0]

Ask(r) == /\ status[r] = "new"
          /\ \E a \in Amounts : amount' = [amount EXCEPT ![r] = a]
          /\ status' = [status EXCEPT ![r] = "asking"]

Admit(r) == /\ status[r] = "asking"
            /\ amount[r] <= Free
            /\ status' = [status EXCEPT ![r] = "admitted"]
            /\ UNCHANGED amount

Refuse(r) == /\ status[r] = "asking"
             /\ amount[r] > Free
             /\ status' = [status EXCEPT ![r] = "refused"]
             /\ UNCHANGED amount

Return(r) == /\ status[r] = "admitted"
             /\ status' = [status EXCEPT ![r] = "over"]
             /\ UNCHANGED amount

Restart == /\ status' = [r \in Requests |->
                           IF status[r] \in {"asking", "admitted"}
                           THEN "over" ELSE status[r]]
           /\ UNCHANGED amount

Next == \/ \E r \in Requests : Ask(r) \/ Admit(r) \/ Refuse(r) \/ Return(r)
        \/ Restart

Spec == Init /\ [][Next]_vars
=============================================================================
