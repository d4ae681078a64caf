---------------------------- MODULE PlanHistory ----------------------------
(***************************************************************************)
(* The plan engine with a memory: history variables that no code keeps,    *)
(* for the properties that compare the kernel with what was decided in the *)
(* past, and the discipline of a client that finishes one plan before it   *)
(* creates the next.                                                       *)
(***************************************************************************)
EXTENDS PlanEngine

VARIABLES
    base,     \* the kernel as the last confirm left it
    latest,   \* the plan confirmed last
    torn,     \* an Apply was cut short by a crash
    lost,     \* the host was rebooted
    hollow    \* a plan was confirmed that the kernel did not hold in full

history == <<base, latest, torn, lost, hollow>>
hvars == <<vars, history>>

Confirmed(p) == state[p] = "applied" /\ state'[p] = "confirmed"
Dies == phase # "down" /\ phase' = "down"
InPlace(p) == \A r \in Targets(desired[p]) : live[r] = <<desired[p][r]>>

Remember ==
    /\ base' = IF \E p \in PlanId : Confirmed(p) THEN live' ELSE base
    /\ latest' = IF \E p \in PlanId : Confirmed(p)
                 THEN CHOOSE p \in PlanId : Confirmed(p) ELSE latest
    /\ torn' = (torn \/ (Dies /\ op.kind = "apply"))
    /\ lost' = (lost \/ (Dies /\ Reboot))
    /\ hollow' = (hollow \/ \E p \in PlanId : Confirmed(p) /\ ~InPlace(p))

HInit == /\ Init
         /\ base = live /\ latest = NoPlan
         /\ torn = FALSE /\ lost = FALSE /\ hollow = FALSE
HNext == Next /\ Remember
HSpec == HInit /\ [][HNext]_hvars

(* A client that creates a plan only while none is on probation, and       *)
(* applies only the plan it created last: snapshots are then as fresh as   *)
(* the client can make them.                                               *)
OneAtATime ==
    /\ \A p \in PlanId : state[p] = "none" /\ state'[p] = "pending" => Applied = {}
    /\ op.kind = "idle" /\ op'.kind = "apply" =>
          \A q \in (op'.plan + 1)..MaxPlans : state[q] = "none"

CarefulSpec == HInit /\ [][HNext /\ OneAtATime]_hvars

Quiet == Serving /\ Applied = {}

(* With a careful client, once no plan is on probation the kernel is       *)
(* exactly what the last confirm left - duplicated, lost or leftover rules *)
(* included - after any sequence of applies, reverts, expiries, restarts   *)
(* in the middle of a revert and boot reconciles.  (A restart during a     *)
(* probation can leave the plan in part, by the boot reconcile or by a     *)
(* revert it cuts short; once such a plan is confirmed, the next boot      *)
(* reconcile changes the kernel.)                                          *)
KernelIsCommitted == Quiet /\ Clean /\ ~torn /\ ~lost /\ ~hollow => live = base

(* After a restart, of the daemon or of the host, the boot sequence leaves *)
(* every resource of the last confirmed plan in place, one rule per        *)
(* priority, even when the watchdog reverts an overdue plan in between or  *)
(* an Apply was cut short.                                                 *)
BootHeals ==
    [][phase = "boot" /\ phase' = "serving" /\ latest # NoPlan /\ Clean' /\ ~hollow
         => InPlace(latest)]_hvars

(* What an Apply that failed has not put back, and that it is one resource *)
(* at most - the one whose command failed; a rule among them is gone or is *)
(* the new one, and has no second rule beside it.                          *)
Behind == {r \in Targets(desired[op.plan]) : live[r] # op.snap[r]}
OneBehind == \A q, r \in Behind : q = r /\ (IsRule(r) => live[r] \in {<<>>, <<Wanted(r)>>})

(* An Apply that returns an error after a single failed command has put    *)
(* everything it had installed back to the snapshot, in all four stages    *)
(* and rules included; also after the database failure that follows the    *)
(* last stage.  The resource whose command failed is not put back: a rule  *)
(* that is replaced is deleted first, so it may be missing, and it alone.  *)
FailedApplyRollsBack ==
    [][op.kind = "apply" /\ op.err /\ op'.kind = "idle" /\ phase' = "serving"
         /\ faults = 1 /\ ~refused /\ ~hollow =>
         /\ \A r \in op.done : live[r] = op.snap[r]
         /\ ~torn /\ ~lost => OneBehind]_hvars

(* With a careful client and no restart, the plan that gets confirmed is   *)
(* what the kernel runs, rules included.                                   *)
ConfirmedIsLive ==
    [][\A p \in PlanId : Confirmed(p) /\ Clean /\ crashes = 0 => InPlace(p)]_hvars

-----------------------------------------------------------------------------
(* What the repository says, and the code does not do.                     *)

(* types.go:38, "Snapshot is the pre-apply live state of everything the    *)
(* plan targets".                                                          *)
SnapshotIsPreApply ==
    [][op.kind = "idle" /\ op'.kind = "apply" =>
         op'.snap = Capture(live, desired[op'.plan])]_hvars

(* engine.go:269, "Crashed mid-apply plans stay 'pending' - safe".         *)
CrashedApplyIsSafe == Quiet /\ Clean /\ ~lost => live = base

(* engine.go:307, "reboot reconcile is recovery, not a policy change": it  *)
(* does not alter what a plan on probation has put in the kernel.          *)
BootIsNoPolicyChange ==
    [][op.kind = "boot" /\ ~lost =>
         \A p \in Applied : \A r \in Targets(desired[p]) : live'[r] = live[r]]_hvars

(* engine.go:243, "Each revert is best-effort; we keep going and surface   *)
(* the first error": a plan that ends reverted or expired has all its      *)
(* rules back as well.                                                     *)
RevertSurfacesErrors ==
    [][\A p \in PlanId : state[p] = "applied" /\ state'[p] \in {"reverted", "expired"} =>
         \A r \in Targets(desired[p]) : Observe(live[r]) = snapshotPre[p][r]]_hvars
=============================================================================
