----------------------------- MODULE PlanEngine -----------------------------
(***************************************************************************)
(* The plan engine of the agent (internal/plan/engine.go) at the grain of  *)
(* single kernel commands.  One mutex serialises its handlers, so `op`,    *)
(* the handler that holds it, is a single record; commands fail, the       *)
(* daemon or the host dies between two commands, timers fire while a       *)
(* handler runs, and the boot sequence recovers what the database shows.   *)
(*                                                                         *)
(* A handler that ends in an error before it changes anything (a plan in   *)
(* the wrong state, another plan applied, a failed read) is a step that    *)
(* changes nothing and is not written down.  Requests are the desired      *)
(* states that pass the ownership gates of Create.                         *)
(***************************************************************************)
EXTENDS Integers, Resources

CONSTANTS
    MaxPlans,         \* bound: plans ever created
    Request,          \* desired states a client may POST
    AskedTimeout,     \* timeout_sec values a client may ask for
    DefaultTimeout, MinTimeout, MaxTimeout,
    MaxTime,          \* bound: the clock runs this far, and on to a deadline
    MaxFaults,        \* bound: kernel and database errors injected
    MaxCrashes        \* bound: deaths of the daemon or the host

PlanId == 1..MaxPlans
NoPlan == 0

ASSUME PlansAssumption == MaxPlans \in Nat
ASSUME RequestAssumption == Request \subseteq DesiredState
ASSUME BoundsAssumption == {MaxTime, MaxFaults, MaxCrashes} \subseteq Nat
ASSUME TimeoutAssumption ==
    /\ AskedTimeout \subseteq Int
    /\ {DefaultTimeout, MinTimeout, MaxTimeout} \subseteq Nat
    /\ 0 < MinTimeout /\ MinTimeout <= DefaultTimeout /\ DefaultTimeout <= MaxTimeout

(* Mutant: only the upper limit is enforced.                               *)
ClampTimeout_UpperOnly(s) == IF s > MaxTimeout THEN MaxTimeout ELSE s

ClampTimeout(s) == IF s <= 0 THEN DefaultTimeout
                   ELSE IF s < MinTimeout THEN MinTimeout
                   ELSE IF s > MaxTimeout THEN MaxTimeout ELSE s

VARIABLES
    (* the plans table; column x of plan p is x[p]                         *)
    state, desired, snapshotPre, deadline, confirmedAt,
    (* the kernel                                                          *)
    live,
    (* the daemon                                                          *)
    phase,        \* "down", then the steps of runDaemon
    recovering,   \* applied plans the loop of Recover has yet to visit
    armed,        \* plans whose watchdog timer is running
    fired,        \* plans whose watchdog waits for the mutex
    op,           \* the handler holding the mutex
    (* the environment                                                     *)
    now, faults, refused, crashes

db == <<state, desired, snapshotPre, deadline, confirmedAt>>
daemon == <<phase, recovering, armed, fired>>
environment == <<now, faults, refused, crashes>>
vars == <<db, live, daemon, op, environment>>

PlanState == {"none", "pending", "applied", "confirmed", "reverted", "expired"}
Final == {"confirmed", "reverted", "expired"}
Phase == {"down", "recover", "boot", "serving"}

(* A handler in progress.  todo: resources still to install; done: those   *)
(* installed; undo: those still to put back; half: the rule that was       *)
(* deleted and not yet re-added; err: it will return an error.             *)
Operation == [kind : {"idle", "apply", "revert", "boot"},
              plan : PlanId \cup {NoPlan},
              snap : Snapshot,
              todo : SUBSET Resource,
              done : SUBSET Resource,
              undo : SUBSET Resource,
              half : SUBSET Resource,
              err : BOOLEAN,
              timeout : Nat,
              outcome : {"reverted", "expired"}]

Idle == [kind |-> "idle", plan |-> NoPlan, snap |-> [r \in Resource |-> <<>>],
         todo |-> {}, done |-> {}, undo |-> {}, half |-> {}, err |-> FALSE,
         timeout |-> 0, outcome |-> "reverted"]

TypeOK ==
    /\ state \in [PlanId -> PlanState]
    /\ desired \in [PlanId -> DesiredState]
    /\ snapshotPre \in [PlanId -> Snapshot]
    /\ deadline \in [PlanId -> Nat]
    /\ confirmedAt \in [PlanId -> Nat]
    /\ live \in [Resource -> Cell]
    /\ phase \in Phase
    /\ recovering \subseteq PlanId
    /\ armed \subseteq PlanId
    /\ fired \subseteq PlanId
    /\ op \in Operation
    /\ now \in Nat
    /\ faults \in Nat
    /\ refused \in BOOLEAN
    /\ crashes \in Nat

Init ==
    /\ state = [p \in PlanId |-> "none"]
    /\ desired = [p \in PlanId |-> [r \in Resource |-> NotListed]]
    /\ snapshotPre = [p \in PlanId |-> [r \in Resource |-> <<>>]]
    /\ deadline = [p \in PlanId |-> 0]
    /\ confirmedAt = [p \in PlanId |-> 0]
    /\ live \in [Resource -> SnapCell]
    /\ phase = "serving"
    /\ recovering = {} /\ armed = {} /\ fired = {}
    /\ op = Idle
    /\ now = 0 /\ faults = 0 /\ refused = FALSE /\ crashes = 0

-----------------------------------------------------------------------------
(* Outcomes of a kernel command or a database statement.                   *)

Succeeds == UNCHANGED <<faults, refused>>

Fails == /\ faults < MaxFaults
         /\ faults' = faults + 1
         /\ UNCHANGED refused

(* The kernel refuses a rule it already has: nothing is broken, yet the    *)
(* engine gets an error.                                                   *)
Refused == /\ refused' = TRUE
           /\ UNCHANGED faults

(* No command has ever returned an error.                                  *)
Clean == faults = 0 /\ ~refused

(* Mutant: handlers do not exclude one another.                            *)
Mutex_NotTaken == phase # "recover"

Mutex == op.kind = "idle" /\ phase # "recover"
Serving == Mutex /\ phase = "serving"
Applied == {p \in PlanId : state[p] = "applied"}

-----------------------------------------------------------------------------
(* The client's handlers.                                                  *)

Create(p, d) ==
    /\ Serving
    /\ state[p] = "none"
    /\ \A q \in 1..(p - 1) : state[q] # "none"
    /\ state' = [state EXCEPT ![p] = "pending"]
    /\ desired' = [desired EXCEPT ![p] = d]
    /\ snapshotPre' = [snapshotPre EXCEPT ![p] = Capture(live, d)]
    /\ UNCHANGED <<deadline, confirmedAt, live, daemon, op, environment>>

(* Mutant: Apply looks at its own plan only.                               *)
StartApply_OwnPlanOnly(p, seconds) ==
    /\ Serving
    /\ state[p] = "pending"
    /\ op' = [Idle EXCEPT !.kind = "apply", !.plan = p, !.snap = snapshotPre[p],
                          !.todo = Targets(desired[p]),
                          !.timeout = ClampTimeout(seconds)]
    /\ UNCHANGED <<db, live, daemon, environment>>

StartApply(p, seconds) ==
    /\ Serving
    /\ Applied = {}
    /\ state[p] = "pending"
    /\ op' = [Idle EXCEPT !.kind = "apply", !.plan = p, !.snap = snapshotPre[p],
                          !.todo = Targets(desired[p]),
                          !.timeout = ClampTimeout(seconds)]
    /\ UNCHANGED <<db, live, daemon, environment>>

(* Confirm stops the watchdog before it writes: when the write fails, the  *)
(* plan stays applied with no timer.                                       *)
Confirm(p) ==
    /\ Serving
    /\ state[p] = "applied"
    /\ armed' = armed \ {p}
    /\ \/ /\ Succeeds
          /\ state' = [state EXCEPT ![p] = "confirmed"]
          /\ confirmedAt' = [confirmedAt EXCEPT ![p] = now]
       \/ /\ Fails
          /\ UNCHANGED <<state, confirmedAt>>
    /\ UNCHANGED <<desired, snapshotPre, deadline, live, phase, recovering, fired,
                   op, now, crashes>>

(* revertLocked up to its first kernel command.                            *)
BeginRevert(p, outcome) ==
    /\ op' = [Idle EXCEPT !.kind = "revert", !.plan = p, !.snap = snapshotPre[p],
                          !.undo = Targets(desired[p]), !.outcome = outcome]
    /\ armed' = armed \ {p}

StartRevert(p) ==
    /\ Serving
    /\ state[p] = "applied"
    /\ BeginRevert(p, "reverted")
    /\ UNCHANGED <<db, live, phase, recovering, fired, environment>>

-----------------------------------------------------------------------------
(* The watchdog.  A timer that has fired cannot be stopped any more: its   *)
(* goroutine waits for the mutex and then trusts the database.             *)

TimerFires(p) ==
    /\ p \in armed
    /\ now >= deadline[p]
    /\ armed' = armed \ {p}
    /\ fired' = fired \cup {p}
    /\ UNCHANGED <<db, live, phase, recovering, op, environment>>

(* Mutant: the watchdog trusts its timer instead of the database.          *)
WatchdogRuns_TrustsTimer(p) ==
    /\ p \in fired
    /\ Mutex
    /\ fired' = fired \ {p}
    /\ BeginRevert(p, "expired")
    /\ UNCHANGED <<db, live, phase, recovering, environment>>

WatchdogRuns(p) ==
    /\ p \in fired
    /\ Mutex
    /\ fired' = fired \ {p}
    /\ \/ /\ state[p] = "applied"
          /\ BeginRevert(p, "expired")
          /\ Succeeds
       \/ /\ state[p] # "applied"
          /\ UNCHANGED <<op, armed>>
          /\ Succeeds
       \/ /\ Fails                      \* GetPlan fails: logged, not retried
          /\ UNCHANGED <<op, armed>>
    /\ UNCHANGED <<db, live, phase, recovering, now, crashes>>

-----------------------------------------------------------------------------
(* Installing the desired state, for Apply and for ReconcileBoot.          *)

(* r belongs to the first stage that still has something to install.       *)
Installing(r) ==
    /\ op.kind \in {"apply", "boot"}
    /\ op.undo = {}
    /\ op.half \subseteq {r}
    /\ r \in op.todo
    /\ \A x \in op.todo : RankOf(r) <= RankOf(x)

Wanted(r) == desired[op.plan][r]

(* Mutant: any rule on the priority will do.                               *)
AlreadyThere_AnyRule(r) == IsRule(r) /\ op.snap[r] # <<>>

(* applyRules makes no call for a rule the snapshot says is in place.      *)
AlreadyThere(r) == IsRule(r) /\ op.snap[r] = <<Wanted(r)>>

(* Mutant: the old rule stays on its priority.                             *)
MustDeleteFirst_Never(r) == FALSE

MustDeleteFirst(r) ==
    IsRule(r) /\ op.snap[r] # <<>> /\ op.snap[r] # <<Wanted(r)>> /\ r \notin op.half

Installed(r) == [op EXCEPT !.todo = @ \ {r}, !.done = @ \cup {r}, !.half = {}]

(* Mutant: the error of a stage is lost.                                   *)
StageFailed_Swallowed(r) == [op EXCEPT !.todo = @ \ {r}, !.half = {}]

(* Mutant: earlier stages stay installed.                                  *)
StageFailed_OwnStageOnly(r) ==
    [op EXCEPT !.todo = {}, !.undo = {x \in op.done : RankOf(x) = RankOf(r)},
               !.half = {}, !.err = TRUE]

(* The stage of r has failed.  Apply puts back everything installed so     *)
(* far - never r itself - and returns the error; ReconcileBoot puts back   *)
(* this stage only and goes on to the next one.                            *)
StageFailed(r) ==
    IF op.kind = "apply"
    THEN [op EXCEPT !.todo = {}, !.undo = op.done, !.half = {}, !.err = TRUE]
    ELSE [op EXCEPT !.todo = {x \in @ : RankOf(x) > RankOf(r)},
                    !.undo = {x \in op.done : RankOf(x) = RankOf(r)},
                    !.half = {}]

SkipRule(r) ==
    /\ Installing(r)
    /\ AlreadyThere(r)
    /\ op' = Installed(r)
    /\ UNCHANGED <<db, live, daemon, environment>>

DeleteOldRule(r) ==
    /\ Installing(r)
    /\ MustDeleteFirst(r)
    /\ \/ /\ Succeeds
          /\ live' = [live EXCEPT ![r] = AfterRuleDel(@)]
          /\ op' = [op EXCEPT !.half = {r}]
       \/ /\ Fails
          /\ \E c \in {live[r], AfterRuleDel(live[r])} : live' = [live EXCEPT ![r] = c]
          /\ op' = StageFailed(r)
    /\ UNCHANGED <<db, daemon, now, crashes>>

Install(r) ==
    /\ Installing(r)
    /\ ~AlreadyThere(r)
    /\ ~MustDeleteFirst(r)
    /\ \/ /\ ~(IsRule(r) /\ RuleAddRefused(live[r], Wanted(r)))
          /\ Succeeds
          /\ live' = [live EXCEPT ![r] = AfterInstall(r, @, Wanted(r))]
          /\ op' = Installed(r)
       \/ /\ IsRule(r) /\ RuleAddRefused(live[r], Wanted(r))
          /\ Refused
          /\ op' = StageFailed(r)
          /\ UNCHANGED live
       \/ /\ Fails
          /\ \E c \in AfterFailedInstall(r, live[r], Wanted(r)) :
                live' = [live EXCEPT ![r] = c]
          /\ op' = StageFailed(r)
    /\ UNCHANGED <<db, daemon, now, crashes>>

-----------------------------------------------------------------------------
(* Putting resources back to a snapshot, last stage first, keeping going   *)
(* on errors.                                                              *)

Restoring(r) ==
    /\ op.half \subseteq {r}
    /\ r \in op.undo
    /\ \A x \in op.undo : RankOf(r) >= RankOf(x)

Restored(r) == [op EXCEPT !.undo = @ \ {r}, !.half = {}]

(* Mutant: the error of a restore is lost.                                 *)
RestoreFailed_Swallowed(r) == Restored(r)

(* Only revertLocked reports the errors of its restores.                   *)
RestoreFailed(r) == [Restored(r) EXCEPT !.err = @ \/ op.kind = "revert"]

(* ipset, nft table, route: one command, replace or destroy.               *)
Restore(r) ==
    /\ Restoring(r)
    /\ ~IsRule(r)
    /\ \/ /\ Succeeds
          /\ live' = [live EXCEPT ![r] = op.snap[r]]
          /\ op' = Restored(r)
       \/ /\ Fails
          /\ \E c \in {live[r], op.snap[r]} \cup
                      (IF op.snap[r] = <<>> THEN {}
                       ELSE AfterFailedInstall(r, live[r], op.snap[r][1])) :
                live' = [live EXCEPT ![r] = c]
          /\ op' = RestoreFailed(r)
    /\ UNCHANGED <<db, daemon, now, crashes>>

(* A rule is deleted first, and the error of that RuleDel is dropped.      *)
RestoreRuleDel(r) ==
    /\ Restoring(r)
    /\ IsRule(r)
    /\ r \notin op.half
    /\ \/ Succeeds /\ live' = [live EXCEPT ![r] = AfterRuleDel(@)]
       \/ /\ Fails
          /\ \E c \in {live[r], AfterRuleDel(live[r])} : live' = [live EXCEPT ![r] = c]
    /\ op' = IF op.snap[r] = <<>> THEN Restored(r) ELSE [op EXCEPT !.half = {r}]
    /\ UNCHANGED <<db, daemon, now, crashes>>

RestoreRuleAdd(r) ==
    /\ Restoring(r)
    /\ IsRule(r)
    /\ r \in op.half
    /\ \/ /\ ~RuleAddRefused(live[r], op.snap[r][1])
          /\ Succeeds
          /\ live' = [live EXCEPT ![r] = Append(@, op.snap[r][1])]
          /\ op' = Restored(r)
       \/ /\ RuleAddRefused(live[r], op.snap[r][1])
          /\ Refused
          /\ op' = RestoreFailed(r)
          /\ UNCHANGED live
       \/ /\ Fails
          /\ \E c \in AfterFailedInstall(r, live[r], op.snap[r][1]) :
                live' = [live EXCEPT ![r] = c]
          /\ op' = RestoreFailed(r)
    /\ UNCHANGED <<db, daemon, now, crashes>>

-----------------------------------------------------------------------------
(* The ends of the handlers.                                               *)

(* Mutant: the watchdog is not scheduled.                                  *)
FinishApply_NoWatchdog ==
    /\ op.kind = "apply" /\ ~op.err
    /\ op.todo = {} /\ op.undo = {}
    /\ Succeeds
    /\ state' = [state EXCEPT ![op.plan] = "applied"]
    /\ deadline' = [deadline EXCEPT ![op.plan] = now + op.timeout]
    /\ op' = Idle
    /\ UNCHANGED <<desired, snapshotPre, confirmedAt, live, daemon, now, crashes>>

(* MarkApplied, then the watchdog; when the row cannot be written, every   *)
(* resource is put back.                                                   *)
FinishApply ==
    /\ op.kind = "apply" /\ ~op.err
    /\ op.todo = {} /\ op.undo = {}
    /\ \/ /\ Succeeds
          /\ state' = [state EXCEPT ![op.plan] = "applied"]
          /\ deadline' = [deadline EXCEPT ![op.plan] = now + op.timeout]
          /\ armed' = armed \cup {op.plan}
          /\ op' = Idle
       \/ /\ Fails
          /\ op' = [op EXCEPT !.undo = op.done, !.err = TRUE]
          /\ UNCHANGED <<state, deadline, armed>>
    /\ UNCHANGED <<desired, snapshotPre, confirmedAt, live, phase, recovering,
                   fired, now, crashes>>

AbortApply ==
    /\ op.kind = "apply" /\ op.err
    /\ op.undo = {}
    /\ op' = Idle
    /\ UNCHANGED <<db, live, daemon, environment>>

(* Any restore error leaves the plan applied; its watchdog is gone.        *)
FinishRevert ==
    /\ op.kind = "revert"
    /\ op.undo = {}
    /\ op' = Idle
    /\ \/ op.err /\ Succeeds /\ UNCHANGED state
       \/ ~op.err /\ Succeeds /\ state' = [state EXCEPT ![op.plan] = op.outcome]
       \/ ~op.err /\ Fails /\ UNCHANGED state
    /\ UNCHANGED <<desired, snapshotPre, deadline, confirmedAt, live, daemon, now, crashes>>

-----------------------------------------------------------------------------
(* Death and restart: systemd restarts the daemon, runDaemon recovers.     *)

Die ==
    /\ phase # "down"
    /\ crashes < MaxCrashes
    /\ crashes' = crashes + 1
    /\ phase' = "down"
    /\ recovering' = {} /\ armed' = {} /\ fired' = {}
    /\ op' = Idle
    /\ UNCHANGED <<db, now, faults, refused>>

Crash == Die /\ UNCHANGED live

(* The host restarts: the kernel forgets, the database does not.           *)
Reboot == Die /\ live' = [r \in Resource |-> <<>>]

Restart ==
    /\ phase = "down"
    /\ phase' = "recover"
    /\ recovering' = Applied
    /\ UNCHANGED <<db, live, armed, fired, op, environment>>

(* Mutant: a plan within its deadline gets no new timer.                   *)
RecoverPlan_OverdueOnly(p) ==
    /\ phase = "recover" /\ op.kind = "idle"
    /\ p \in recovering
    /\ recovering' = recovering \ {p}
    /\ \/ now >= deadline[p] /\ BeginRevert(p, "expired")
       \/ now < deadline[p] /\ UNCHANGED <<op, armed>>
    /\ UNCHANGED <<db, live, phase, fired, environment>>

(* Mutant: the deadline is not compared with the clock.                    *)
RecoverPlan_AllOverdue(p) ==
    /\ phase = "recover" /\ op.kind = "idle"
    /\ p \in recovering
    /\ recovering' = recovering \ {p}
    /\ BeginRevert(p, "expired")
    /\ UNCHANGED <<db, live, phase, fired, environment>>

(* One turn of Recover's loop, which holds the mutex throughout.           *)
RecoverPlan(p) ==
    /\ phase = "recover" /\ op.kind = "idle"
    /\ p \in recovering
    /\ recovering' = recovering \ {p}
    /\ \/ now >= deadline[p] /\ Succeeds /\ BeginRevert(p, "expired")
       \/ now >= deadline[p] /\ Fails /\ UNCHANGED <<op, armed>>    \* logged only
       \/ now < deadline[p] /\ Succeeds /\ armed' = armed \cup {p} /\ UNCHANGED op
    /\ UNCHANGED <<db, live, phase, fired, now, crashes>>

RecoverDone ==
    /\ phase = "recover" /\ op.kind = "idle"
    /\ recovering = {}
    /\ phase' = "boot"
    /\ UNCHANGED <<db, live, recovering, armed, fired, op, environment>>

(* ORDER BY confirmed_at DESC, id DESC LIMIT 1, in seconds.                *)
IsLastConfirmed(p) ==
    /\ state[p] = "confirmed"
    /\ \A q \in PlanId \ {p} : state[q] = "confirmed" =>
          \/ confirmedAt[q] < confirmedAt[p]
          \/ confirmedAt[q] = confirmedAt[p] /\ q < p

(* Mutant: boot reuses the snapshot taken when the plan was created.       *)
BootApply_OldSnapshot(p) ==
    /\ Mutex /\ phase = "boot"
    /\ IsLastConfirmed(p)
    /\ op' = [Idle EXCEPT !.kind = "boot", !.plan = p,
                          !.snap = snapshotPre[p],
                          !.todo = Targets(desired[p])]
    /\ UNCHANGED <<db, live, daemon, environment>>

BootApply(p) ==
    /\ Mutex /\ phase = "boot"
    /\ IsLastConfirmed(p)
    /\ op' = [Idle EXCEPT !.kind = "boot", !.plan = p,
                          !.snap = Capture(live, desired[p]),
                          !.todo = Targets(desired[p])]
    /\ UNCHANGED <<db, live, daemon, environment>>

(* Nothing was ever confirmed, or a read fails (the shared 30 s context    *)
(* has run out, a listing fails): the daemon serves anyway.                *)
BootSkips ==
    /\ Mutex /\ phase = "boot"
    /\ \/ Succeeds /\ \A p \in PlanId : state[p] # "confirmed"
       \/ Fails /\ \E p \in PlanId : state[p] = "confirmed"
    /\ phase' = "serving"
    /\ UNCHANGED <<db, live, recovering, armed, fired, op, now, crashes>>

FinishBoot ==
    /\ op.kind = "boot"
    /\ op.todo = {} /\ op.undo = {}
    /\ op' = Idle
    /\ phase' = "serving"
    /\ UNCHANGED <<db, live, recovering, armed, fired, environment>>

(* Bound: the clock stops at MaxTime, but never short of a deadline that a *)
(* timer waits for.                                                        *)
Tick ==
    /\ now < MaxTime \/ \E p \in armed : now < deadline[p]
    /\ now' = now + 1
    /\ UNCHANGED <<db, live, daemon, op, faults, refused, crashes>>

-----------------------------------------------------------------------------
(* Whatever the handler holding the mutex does next.                       *)
HandlerStep ==
    \/ \E r \in Resource :
          \/ SkipRule(r) \/ DeleteOldRule(r) \/ Install(r)
          \/ Restore(r) \/ RestoreRuleDel(r) \/ RestoreRuleAdd(r)
    \/ FinishApply \/ AbortApply \/ FinishRevert \/ FinishBoot

BootStep ==
    \/ Restart
    \/ \E p \in PlanId : RecoverPlan(p) \/ BootApply(p)
    \/ RecoverDone \/ BootSkips

ClientStep ==
    \E p \in PlanId :
        \/ \E d \in Request : Create(p, d)
        \/ \E s \in AskedTimeout : StartApply(p, s)
        \/ Confirm(p)
        \/ StartRevert(p)

Next ==
    \/ ClientStep
    \/ \E p \in PlanId : TimerFires(p) \/ WatchdogRuns(p)
    \/ HandlerStep
    \/ BootStep
    \/ Crash \/ Reboot
    \/ Tick

Spec == Init /\ [][Next]_vars

(* Time passes, timers fire, a handler runs to its end, systemd restarts   *)
(* the daemon (Restart=always) and the Go mutex is starvation-free.        *)
(* Clients and failures owe us nothing.                                    *)
Fairness ==
    /\ WF_vars(Tick)
    /\ WF_vars(HandlerStep)
    /\ WF_vars(BootStep)
    /\ \A p \in PlanId : WF_vars(TimerFires(p)) /\ SF_vars(WatchdogRuns(p))

FairSpec == Spec /\ Fairness

-----------------------------------------------------------------------------
(* Safety.                                                                 *)

(* At most one plan is on probation, whatever crashes, fails or races.     *)
(* Apply checks this once, many kernel commands before it writes the row.  *)
AtMostOneApplied == \A p, q \in Applied : p = q

(* The handler in progress acts on what it read when it took the mutex: it *)
(* checked the plan's state many commands ago, and nothing - no client, no *)
(* watchdog, no restart - has changed it since.                            *)
HandlerOwnsPlan ==
    /\ op.kind = "apply" =>
          op.plan \in PlanId /\ state[op.plan] = "pending" /\ Applied = {} /\ phase = "serving"
    /\ op.kind = "revert" =>
          op.plan \in PlanId /\ state[op.plan] = "applied" /\ phase # "down"
    /\ op.kind = "boot" =>
          op.plan \in PlanId /\ state[op.plan] = "confirmed" /\ phase = "boot"

(* As long as no command has failed, an applied plan always has somebody   *)
(* who will end its probation: a running timer, a watchdog waiting for the *)
(* mutex, the loop of Recover, or a revert in progress - across restarts,  *)
(* and although Confirm and Revert stop the timer before they write.       *)
Guarded(p) == \/ p \in armed \cup fired \cup recovering
              \/ op.kind = "revert" /\ op.plan = p

WatchdogCovers == Clean /\ phase # "down" => \A p \in Applied : Guarded(p)

(* A probation is never cut short: neither a timer left from before a      *)
(* restart nor Recover expires a plan ahead of its deadline.               *)
NeverExpiredEarly ==
    [][\A p \in PlanId : state[p] # "expired" /\ state'[p] = "expired"
                            => now >= deadline[p]]_vars

(* The engine implements the lifecycle it promises.                        *)
Overdue == {p \in Applied : now >= deadline[p]}
Lifecycle == INSTANCE PlanLifecycle WITH status <- state, overdue <- Overdue
ImplementsLifecycle == Lifecycle!Spec

(* When a plan becomes applied, every ipset, nft table and route it lists  *)
(* holds what it asked for - after the kernel changed under an old         *)
(* snapshot, after retries of a failed Apply, with faults and crashes.     *)
AppliedIsInstalled ==
    [][\A p \in PlanId : state[p] = "pending" /\ state'[p] = "applied" =>
         \A r \in Targets(desired[p]) : ~IsRule(r) => live[r] = <<desired[p][r]>>]_vars

(* When a plan ends reverted or expired, every ipset, nft table and route  *)
(* it lists is as its snapshot recorded it: a revert that failed halfway,  *)
(* or was cut by a crash, never counts as done.                            *)
RevertIsRestored ==
    [][\A p \in PlanId : state[p] = "applied" /\ state'[p] \in {"reverted", "expired"} =>
         \A r \in Targets(desired[p]) : ~IsRule(r) => live[r] = snapshotPre[p][r]]_vars

-----------------------------------------------------------------------------
(* Liveness.                                                               *)

(* A change nobody confirms is rolled back: an applied plan is settled     *)
(* unless some command failed.                                             *)
ProbationEnds ==
    \A p \in PlanId : state[p] = "applied" ~> (state[p] \in Final \/ ~Clean)

(* README, "Plan -> apply -> confirm": if you do not confirm within the    *)
(* timeout, the change is auto-reverted.                                   *)
AutoReverted == \A p \in PlanId : state[p] = "applied" ~> state[p] \in Final
=============================================================================
