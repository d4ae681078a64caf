--------------------------- MODULE PlanLifecycle ---------------------------
(***************************************************************************)
(* What the plan engine promises its clients, with no kernel, no timers    *)
(* and no crashes: a plan is submitted, at most one plan at a time is on   *)
(* probation ("applied"), and a plan leaves probation once and for all,    *)
(* by a confirm, by a revert, or - only when its deadline has passed - by  *)
(* expiry.                                                                 *)
(***************************************************************************)
EXTENDS Naturals

CONSTANT MaxPlans

VARIABLES
    status,   \* plan id -> lifecycle state
    overdue   \* plans on probation whose deadline has passed

PlanIds == 1..MaxPlans
Settled == {"confirmed", "reverted", "expired"}

vars == <<status, overdue>>

Init ==
    /\ status = [p \in PlanIds |-> "none"]
    /\ overdue = {}

(* Ids are handed out in order.                                            *)
Submit(p) ==
    /\ status[p] = "none"
    /\ \A q \in 1..(p - 1) : status[q] # "none"
    /\ status' = [status EXCEPT ![p] = "pending"]
    /\ UNCHANGED overdue

Begin(p) ==
    /\ status[p] = "pending"
    /\ \A q \in PlanIds : status[q] # "applied"
    /\ status' = [status EXCEPT ![p] = "applied"]
    /\ UNCHANGED overdue

DeadlinePasses(p) ==
    /\ status[p] = "applied"
    /\ overdue' = overdue \cup {p}
    /\ UNCHANGED status

Settle(p, outcome) ==
    /\ status[p] = "applied"
    /\ outcome = "expired" => p \in overdue
    /\ status' = [status EXCEPT ![p] = outcome]
    /\ overdue' = overdue \ {p}

Next ==
    \E p \in PlanIds :
        \/ Submit(p)
        \/ Begin(p)
        \/ DeadlinePasses(p)
        \/ \E outcome \in Settled : Settle(p, outcome)

Spec == Init /\ [][Next]_vars
=============================================================================
