------------------------- MODULE PlanPromises_proofs -----------------------
(***************************************************************************)
(* What the plan engine promises its clients, for every number of plans,   *)
(* every set of resources and requests, all timeouts and any number of     *)
(* faults and crashes: it implements PlanLifecycle, never expires a plan   *)
(* early, and applied means installed and reverted means restored.         *)
(*                                                                         *)
(* To IInv come what the handlers' deadlines rest on (DeadlinesOK) and     *)
(* what a handler without an error has achieved so far (WorkOK).           *)
(***************************************************************************)
EXTENDS PlanEngine_proofs

(* Timers are those of plans that were applied once; one that has fired, a *)
(* revert that will report "expired", are past the plan's deadline; and an *)
(* apply in progress will leave some time before its own.                  *)
DeadlinesOK ==
    /\ \A p \in armed \cup fired : state[p] \notin {"none", "pending"}
    /\ \A p \in fired : state[p] = "applied" => now >= deadline[p]
    /\ op.kind = "revert" /\ op.outcome = "expired" => now >= deadline[op.plan]
    /\ op.kind = "apply" => op.timeout > 0

(* Resources other than rules that the handler is through with.            *)
ApplyInstalls ==
    op.kind = "apply" /\ ~op.err =>
        /\ op.undo = {}
        /\ Targets(desired[op.plan]) \subseteq op.todo \cup op.done
        /\ \A r \in op.done : ~IsRule(r) => live[r] = <<desired[op.plan][r]>>

RevertRestores ==
    op.kind = "revert" /\ ~op.err =>
        /\ op.snap = snapshotPre[op.plan]
        /\ \A r \in Targets(desired[op.plan]) \ op.undo : ~IsRule(r) => live[r] = op.snap[r]

WorkOK == ApplyInstalls /\ RevertRestores

PInv == IInv /\ DeadlinesOK /\ WorkOK

-----------------------------------------------------------------------------
(* A step of the handler that installs or restores leaves the rows, the    *)
(* timers and what the handler is about alone.                             *)
Working(r) ==
    \/ SkipRule(r) \/ DeleteOldRule(r) \/ Install(r)
    \/ Restore(r) \/ RestoreRuleDel(r) \/ RestoreRuleAdd(r)

LEMMA WorkKeepsHandler ==
    ASSUME TypeOK, NEW r \in Resource, Working(r)
    PROVE  /\ UNCHANGED <<state, desired, snapshotPre, deadline, phase, recovering, armed, fired, now>>
           /\ op'.kind = op.kind /\ op'.plan = op.plan /\ op'.snap = op.snap
           /\ op'.timeout = op.timeout /\ op'.outcome = op.outcome
<1>. USE DEF TypeOK, Operation, db, daemon, environment
<1>1. CASE SkipRule(r)
  BY <1>1 DEF SkipRule, Installed
<1>2. CASE DeleteOldRule(r)
  BY <1>2 DEF DeleteOldRule, StageFailed
<1>3. CASE Install(r)
  BY <1>3 DEF Install, StageFailed, Installed
<1>4. CASE Restore(r)
  BY <1>4 DEF Restore, RestoreFailed, Restored
<1>5. CASE RestoreRuleDel(r)
  BY <1>5 DEF RestoreRuleDel, Restored
<1>6. CASE RestoreRuleAdd(r)
  BY <1>6 DEF RestoreRuleAdd, RestoreFailed, Restored
<1>. QED  BY <1>1, <1>2, <1>3, <1>4, <1>5, <1>6 DEF Working

LEMMA RevertBegins ==
    ASSUME NEW p, NEW outcome, BeginRevert(p, outcome)
    PROVE  /\ op'.kind = "revert" /\ op'.plan = p /\ op'.snap = snapshotPre[p]
           /\ op'.undo = Targets(desired[p]) /\ op'.outcome = outcome /\ op'.err = FALSE
           /\ armed' = armed \ {p}
BY DEF BeginRevert, Idle

-----------------------------------------------------------------------------
(* Deadlines.                                                              *)

LEMMA ClientDeadlines ==
    ASSUME TypeOK, DeadlinesOK, ClientStep
    PROVE  DeadlinesOK'
<1>. USE DEF DeadlinesOK
<1>1. ASSUME NEW p \in PlanId, NEW d \in Request, Create(p, d)
      PROVE  DeadlinesOK'
  BY <1>1 DEF Create, Serving, Mutex, TypeOK, daemon, environment
<1>2. ASSUME NEW p \in PlanId, NEW s \in AskedTimeout, StartApply(p, s)
      PROVE  DeadlinesOK'
  <2>1. op'.kind = "apply" /\ op'.timeout > 0
    BY <1>2, ClampIsPositive DEF StartApply, Idle
  <2>. QED  BY <1>2, <2>1 DEF StartApply, db, daemon, environment
<1>3. ASSUME NEW p \in PlanId, Confirm(p)
      PROVE  DeadlinesOK'
  BY <1>3 DEF Confirm, Serving, Mutex, TypeOK
<1>4. ASSUME NEW p \in PlanId, StartRevert(p)
      PROVE  DeadlinesOK'
  <2>1. op'.kind = "revert" /\ op'.outcome = "reverted" /\ armed' \subseteq armed
    BY <1>4, RevertBegins DEF StartRevert
  <2>. QED  BY <1>4, <2>1 DEF StartRevert, db, environment
<1>. QED  BY <1>1, <1>2, <1>3, <1>4 DEF ClientStep

LEMMA WatchdogDeadlines ==
    ASSUME TypeOK, DeadlinesOK, NEW p \in PlanId, TimerFires(p) \/ WatchdogRuns(p)
    PROVE  DeadlinesOK'
<1>. USE DEF DeadlinesOK
<1>1. CASE TimerFires(p)
  BY <1>1 DEF TimerFires, db, environment
<1>2. CASE WatchdogRuns(p) /\ state[p] = "applied" /\ BeginRevert(p, "expired")
  <2>1. now >= deadline[p]
    BY <1>2 DEF WatchdogRuns
  <2>. QED  BY <1>2, <2>1, RevertBegins DEF WatchdogRuns, db
<1>3. CASE WatchdogRuns(p) /\ UNCHANGED <<op, armed>>
  BY <1>3 DEF WatchdogRuns, db
<1>. QED  BY <1>1, <1>2, <1>3 DEF WatchdogRuns

LEMMA HandlerDeadlines ==
    ASSUME TypeOK, HandlerOwnsPlan, DeadlinesOK, HandlerStep
    PROVE  DeadlinesOK'
<1>. USE DEF DeadlinesOK
<1>1. ASSUME NEW r \in Resource, Working(r)
      PROVE  DeadlinesOK'
  BY <1>1, WorkKeepsHandler
<1>2. CASE FinishApply
  <2>1. op.plan \in PlanId /\ state[op.plan] = "pending"
    BY <1>2 DEF FinishApply, HandlerOwnsPlan
  <2>2. op.plan \notin armed \cup fired
    BY <2>1
  <2>3. fired' = fired /\ now' = now
    BY <1>2 DEF FinishApply
  <2>4. CASE /\ state' = [state EXCEPT ![op.plan] = "applied"]
             /\ deadline' = [deadline EXCEPT ![op.plan] = now + op.timeout]
             /\ armed' = armed \cup {op.plan}
             /\ op' = Idle
    <3>1. \A p \in PlanId : p # op.plan => state'[p] = state[p] /\ deadline'[p] = deadline[p]
      BY <2>4 DEF TypeOK
    <3>2. state'[op.plan] = "applied" /\ op'.kind = "idle"
      BY <2>1, <2>4 DEF TypeOK, Idle
    <3>3. armed \cup fired \subseteq PlanId
      BY DEF TypeOK
    <3>. QED  BY <2>2, <2>3, <2>4, <3>1, <3>2, <3>3
  <2>5. CASE /\ op' = [op EXCEPT !.undo = op.done, !.err = TRUE]
             /\ UNCHANGED <<state, deadline, armed>>
    <3>1. op'.kind = "apply" /\ op'.timeout = op.timeout
      BY <1>2, <2>5 DEF FinishApply, TypeOK, Operation
    <3>. QED  BY <1>2, <2>3, <2>5, <3>1 DEF FinishApply
  <2>. QED  BY <1>2, <2>4, <2>5 DEF FinishApply
<1>3. CASE AbortApply
  BY <1>3 DEF AbortApply, Idle, db, daemon, environment
<1>4. CASE FinishRevert
  <2>1. op.plan \in PlanId /\ op.outcome \in {"reverted", "expired"}
    BY <1>4 DEF FinishRevert, HandlerOwnsPlan, TypeOK, Operation
  <2>. QED  BY <1>4, <2>1 DEF FinishRevert, Idle, TypeOK, daemon
<1>5. CASE FinishBoot
  BY <1>5 DEF FinishBoot, Idle, db, environment
<1>. QED  BY <1>1, <1>2, <1>3, <1>4, <1>5 DEF HandlerStep, Working

LEMMA BootDeadlines ==
    ASSUME TypeOK, DaemonLists, DeadlinesOK, BootStep
    PROVE  DeadlinesOK'
<1>. USE DEF DeadlinesOK
<1>1. CASE Restart
  BY <1>1 DEF Restart, db, environment
<1>2. ASSUME NEW p \in PlanId, RecoverPlan(p)
      PROVE  DeadlinesOK'
  <2>1. state[p] = "applied"
    BY <1>2 DEF RecoverPlan, DaemonLists, Applied
  <2>2. CASE now >= deadline[p] /\ BeginRevert(p, "expired")
    BY <1>2, <2>2, RevertBegins DEF RecoverPlan, db
  <2>3. CASE UNCHANGED op /\ armed' \subseteq armed \cup {p}
    BY <1>2, <2>1, <2>3 DEF RecoverPlan, db
  <2>. QED  BY <1>2, <2>2, <2>3 DEF RecoverPlan
<1>3. ASSUME NEW p \in PlanId, BootApply(p)
      PROVE  DeadlinesOK'
  BY <1>3 DEF BootApply, Idle, db, daemon, environment
<1>4. CASE RecoverDone
  BY <1>4 DEF RecoverDone, db, environment
<1>5. CASE BootSkips
  BY <1>5 DEF BootSkips, db
<1>. QED  BY <1>1, <1>2, <1>3, <1>4, <1>5 DEF BootStep

LEMMA DeadlinesStep ==
    ASSUME TypeOK, HandlerOwnsPlan, DaemonLists, DeadlinesOK, [Next]_vars
    PROVE  DeadlinesOK'
<1>1. CASE Crash \/ Reboot
  BY <1>1 DEF Crash, Reboot, Die, Idle, DeadlinesOK
<1>2. CASE Tick
  <2>1. \A p \in PlanId : deadline[p] \in Nat /\ now \in Nat
    BY DEF TypeOK
  <2>2. fired \subseteq PlanId /\ (op.kind = "revert" => op.plan \in PlanId)
    BY DEF TypeOK, HandlerOwnsPlan
  <2>. QED  BY <1>2, <2>1, <2>2 DEF Tick, DeadlinesOK, db, daemon
<1>3. CASE UNCHANGED vars
  BY <1>3 DEF DeadlinesOK, vars, db, daemon, environment
<1>. QED
  BY <1>1, <1>2, <1>3, ClientDeadlines, WatchdogDeadlines, HandlerDeadlines, BootDeadlines DEF Next

-----------------------------------------------------------------------------
(* What the handler has achieved.                                          *)

LEMMA InstallingWork ==
    ASSUME TypeOK, WorkOK, NEW r \in Resource,
           SkipRule(r) \/ DeleteOldRule(r) \/ Install(r)
    PROVE  WorkOK'
<1>1. /\ op.kind \in {"apply", "boot"} /\ op.undo = {} /\ op.kind # "revert"
      /\ op'.kind = op.kind /\ op'.plan = op.plan /\ UNCHANGED desired
  BY WorkKeepsHandler DEF Working, SkipRule, DeleteOldRule, Install, Installing
<1>2. RevertRestores'
  BY <1>1 DEF RevertRestores
<1>3. ApplyInstalls'
  <2>. SUFFICES ASSUME op'.kind = "apply", ~op'.err
                PROVE  ApplyInstalls'
    BY DEF ApplyInstalls
  <2>1. StageFailed(r).err
    BY <1>1 DEF StageFailed, TypeOK, Operation
  <2>2. op.err = FALSE \/ op.err = TRUE
    BY DEF TypeOK, Operation
  <2>3. CASE op' = Installed(r)
    <3>1. /\ op'.todo = op.todo \ {r} /\ op'.done = op.done \cup {r}
          /\ op'.undo = {} /\ op'.err = op.err
      BY <1>1, <2>3 DEF Installed, TypeOK, Operation
    <3>2. ASSUME NEW x \in op'.done, ~IsRule(x)
          PROVE  live'[x] = <<desired'[op'.plan][x]>>
      <4>1. CASE x = r
        <5>1. Install(r) /\ ~op'.err
          BY <3>2, <4>1 DEF SkipRule, DeleteOldRule, AlreadyThere, MustDeleteFirst
        <5>2. live' = [live EXCEPT ![r] = AfterInstall(r, @, Wanted(r))]
          BY <2>1, <5>1 DEF Install
        <5>. QED  BY <1>1, <3>2, <4>1, <5>2 DEF AfterInstall, Wanted, TypeOK
      <4>2. CASE x # r
        <5>1. x \in op.done /\ op.kind = "apply" /\ ~op.err
          BY <1>1, <3>1, <3>2, <4>2
        <5>2. x \in Resource /\ live'[x] = live[x]
          BY <4>2, <5>1 DEF SkipRule, DeleteOldRule, Install, TypeOK, Operation
        <5>. QED  BY <1>1, <3>2, <5>1, <5>2 DEF WorkOK, ApplyInstalls
      <4>. QED  BY <4>1, <4>2
    <3>3. op.kind = "apply" /\ ~op.err
      BY <1>1, <3>1
    <3>. QED  BY <1>1, <3>1, <3>2, <3>3 DEF WorkOK, ApplyInstalls
  <2>4. CASE op' = [op EXCEPT !.half = {r}] /\ DeleteOldRule(r)
    <3>1. /\ op'.todo = op.todo /\ op'.done = op.done /\ op'.undo = {} /\ op'.err = op.err
      BY <1>1, <2>4 DEF TypeOK, Operation
    <3>2. \A x \in Resource : ~IsRule(x) => live'[x] = live[x]
      BY <2>4 DEF DeleteOldRule, MustDeleteFirst, TypeOK
    <3>3. op.done \subseteq Resource
      BY DEF TypeOK, Operation
    <3>. QED  BY <1>1, <3>1, <3>2, <3>3 DEF WorkOK, ApplyInstalls
  <2>. QED  BY <2>1, <2>3, <2>4 DEF SkipRule, DeleteOldRule, Install
<1>. QED  BY <1>2, <1>3 DEF WorkOK

LEMMA RestoringWork ==
    ASSUME TypeOK, WorkOK, NEW r \in Resource,
           Restore(r) \/ RestoreRuleDel(r) \/ RestoreRuleAdd(r)
    PROVE  WorkOK'
<1>1. /\ r \in op.undo
      /\ op'.kind = op.kind /\ op'.plan = op.plan /\ op'.snap = op.snap
      /\ UNCHANGED <<desired, snapshotPre>>
  BY WorkKeepsHandler DEF Working, Restore, RestoreRuleDel, RestoreRuleAdd, Restoring
<1>2. /\ Restored(r).undo = op.undo \ {r} /\ Restored(r).err = op.err
      /\ RestoreFailed(r).err = (op.err \/ op.kind = "revert")
  BY DEF Restored, RestoreFailed, TypeOK, Operation
<1>3. op.err => op'.err
  BY <1>2 DEF Restore, RestoreRuleDel, RestoreRuleAdd, TypeOK, Operation
<1>4. ApplyInstalls'
  <2>1. op.kind = "apply" => op.err
    BY <1>1 DEF WorkOK, ApplyInstalls
  <2>. QED  BY <1>1, <1>3, <2>1 DEF ApplyInstalls
<1>5. RevertRestores'
  <2>. SUFFICES ASSUME op.kind = "revert", ~op.err, ~op'.err
                PROVE  RevertRestores'
    BY <1>1, <1>3 DEF RevertRestores
  <2>1. op' # RestoreFailed(r)
    BY <1>2
  <2>2. \/ op' = Restored(r)
        \/ IsRule(r) /\ op' = [op EXCEPT !.half = {r}]
    BY <2>1 DEF Restore, RestoreRuleDel, RestoreRuleAdd
  <2>3. op'.undo = op.undo \ {r} \/ (IsRule(r) /\ op'.undo = op.undo)
    BY <1>2, <2>2 DEF TypeOK, Operation
  <2>4. ASSUME NEW x \in Targets(desired[op.plan]) \ op'.undo, ~IsRule(x)
        PROVE  live'[x] = op.snap[x]
    <3>1. x \in Resource
      BY DEF Targets
    <3>2. CASE x = r
      <4>1. Restore(r) /\ live' = [live EXCEPT ![r] = op.snap[r]]
        BY <2>1, <2>4, <3>2 DEF Restore, RestoreRuleDel, RestoreRuleAdd
      <4>. QED  BY <3>2, <4>1 DEF TypeOK
    <3>3. CASE x # r
      <4>1. live'[x] = live[x]
        BY <3>1, <3>3 DEF Restore, RestoreRuleDel, RestoreRuleAdd, TypeOK
      <4>2. x \notin op.undo
        BY <2>3, <2>4, <3>3
      <4>. QED  BY <2>4, <4>1, <4>2 DEF WorkOK, RevertRestores
    <3>. QED  BY <3>2, <3>3
  <2>5. op.snap = snapshotPre[op.plan]
    BY DEF WorkOK, RevertRestores
  <2>. QED  BY <1>1, <2>4, <2>5 DEF RevertRestores
<1>. QED  BY <1>4, <1>5 DEF WorkOK

(* A revert that begins has everything still to put back.                  *)
LEMMA RevertBeginsWork ==
    ASSUME NEW p, NEW outcome, BeginRevert(p, outcome), UNCHANGED <<desired, snapshotPre>>
    PROVE  WorkOK'
<1>1. op'.kind = "revert" /\ op'.plan = p /\ op'.snap = snapshotPre[p]
      /\ op'.undo = Targets(desired[p])
  BY RevertBegins
<1>. QED  BY <1>1 DEF WorkOK, ApplyInstalls, RevertRestores

(* Steps that leave the handler's work alone, or end it.                   *)
LEMMA OtherWork ==
    ASSUME WorkOK,
           \/ UNCHANGED <<op, live, desired, snapshotPre>>
           \/ op'.kind \in {"idle", "boot"}
    PROVE  WorkOK'
BY DEF WorkOK, ApplyInstalls, RevertRestores

LEMMA WorkStep ==
    ASSUME TypeOK, HandlerOwnsPlan, WorkOK, [Next]_vars
    PROVE  WorkOK'
<1>1. ASSUME NEW p \in PlanId, NEW d \in Request, Create(p, d)
      PROVE  WorkOK'
  <2>1. op'.kind = "idle"
    BY <1>1 DEF Create, Serving, Mutex
  <2>. QED  BY <2>1, OtherWork
<1>2. ASSUME NEW p \in PlanId, NEW s \in AskedTimeout, StartApply(p, s)
      PROVE  WorkOK'
  <2>1. /\ op'.kind = "apply" /\ op'.plan = p /\ op'.todo = Targets(desired[p])
        /\ op'.done = {} /\ op'.undo = {}
    BY <1>2 DEF StartApply, Idle
  <2>2. desired' = desired
    BY <1>2 DEF StartApply, db
  <2>. QED  BY <2>1, <2>2 DEF WorkOK, ApplyInstalls, RevertRestores
<1>3. ASSUME NEW p \in PlanId, Confirm(p) \/ StartRevert(p)
      PROVE  WorkOK'
  BY <1>3, OtherWork, RevertBeginsWork DEF Confirm, StartRevert, db
<1>4. ASSUME NEW p \in PlanId, TimerFires(p) \/ WatchdogRuns(p)
      PROVE  WorkOK'
  BY <1>4, OtherWork, RevertBeginsWork DEF TimerFires, WatchdogRuns, db
<1>5. CASE FinishApply
  <2>1. CASE op' = Idle
    BY <2>1, OtherWork DEF Idle
  <2>2. CASE op' = [op EXCEPT !.undo = op.done, !.err = TRUE]
    <3>1. op'.kind = "apply" /\ op'.err
      BY <1>5, <2>2 DEF FinishApply, TypeOK, Operation
    <3>. QED  BY <3>1 DEF WorkOK, ApplyInstalls, RevertRestores
  <2>. QED  BY <1>5, <2>1, <2>2 DEF FinishApply
<1>6. CASE AbortApply \/ FinishRevert \/ FinishBoot \/ Crash \/ Reboot
  <2>1. op'.kind = "idle"
    BY <1>6 DEF AbortApply, FinishRevert, FinishBoot, Crash, Reboot, Die, Idle
  <2>. QED  BY <2>1, OtherWork
<1>7. CASE BootStep
  <2>1. ASSUME NEW p \in PlanId, BootApply(p)
        PROVE  WorkOK'
    <3>1. op'.kind = "boot"
      BY <2>1 DEF BootApply, Idle
    <3>. QED  BY <3>1, OtherWork
  <2>2. ASSUME NEW p \in PlanId, RecoverPlan(p)
        PROVE  WorkOK'
    BY <2>2, OtherWork, RevertBeginsWork DEF RecoverPlan, db
  <2>3. CASE Restart \/ RecoverDone \/ BootSkips
    BY <2>3, OtherWork DEF Restart, RecoverDone, BootSkips, db
  <2>. QED  BY <1>7, <2>1, <2>2, <2>3 DEF BootStep
<1>8. CASE Tick \/ UNCHANGED vars
  BY <1>8, OtherWork DEF Tick, vars, db
<1>. QED
  BY <1>1, <1>2, <1>3, <1>4, <1>5, <1>6, <1>7, <1>8, InstallingWork, RestoringWork
  DEF Next, ClientStep, HandlerStep

LEMMA PInvariance == Spec => []PInv
<1>1. Init => DeadlinesOK /\ WorkOK
  BY DEF Init, Idle, DeadlinesOK, WorkOK, ApplyInstalls, RevertRestores
<1>2. PInv /\ [Next]_vars => PInv'
  BY StepIInv, DeadlinesStep, WorkStep DEF PInv, IInv
<1>. QED  BY InitIInv, <1>1, <1>2, PTL DEF Spec, PInv

-----------------------------------------------------------------------------
(* Every way in which a row changes its state.                             *)

Submitted(p) ==
    /\ state[p] = "none" /\ \A q \in 1..(p - 1) : state[q] # "none"
    /\ state' = [state EXCEPT ![p] = "pending"]
    /\ UNCHANGED <<deadline, now>>

ApplyDone ==
    /\ op.kind = "apply" /\ ~op.err /\ op.todo = {}
    /\ state' = [state EXCEPT ![op.plan] = "applied"]
    /\ deadline' = [deadline EXCEPT ![op.plan] = now + op.timeout]
    /\ UNCHANGED now

ConfirmDone(p) ==
    /\ state[p] = "applied"
    /\ state' = [state EXCEPT ![p] = "confirmed"]
    /\ UNCHANGED <<deadline, now>>

RevertDone ==
    /\ op.kind = "revert" /\ ~op.err /\ op.undo = {}
    /\ state' = [state EXCEPT ![op.plan] = op.outcome]
    /\ UNCHANGED <<deadline, now>>

RowsKept == UNCHANGED <<state, deadline>> /\ now' \in {now, now + 1}

LEMMA StateChanges ==
    ASSUME TypeOK, [Next]_vars
    PROVE  RowsKept \/ ApplyDone \/ RevertDone \/ \E p \in PlanId : Submitted(p) \/ ConfirmDone(p)
<1>1. ASSUME NEW p \in PlanId, NEW d \in Request, Create(p, d)
      PROVE  Submitted(p)
  BY <1>1 DEF Create, Submitted, environment
<1>2. ASSUME NEW p \in PlanId, NEW s \in AskedTimeout, StartApply(p, s) \/ StartRevert(p)
      PROVE  RowsKept
  BY <1>2 DEF StartApply, StartRevert, RowsKept, db, environment
<1>3. ASSUME NEW p \in PlanId, Confirm(p)
      PROVE  RowsKept \/ ConfirmDone(p)
  BY <1>3 DEF Confirm, RowsKept, ConfirmDone
<1>4. ASSUME NEW p \in PlanId, StartRevert(p) \/ TimerFires(p) \/ WatchdogRuns(p)
      PROVE  RowsKept
  BY <1>4 DEF StartRevert, TimerFires, WatchdogRuns, RowsKept, db, environment
<1>5. ASSUME NEW r \in Resource, Working(r)
      PROVE  RowsKept
  BY <1>5, WorkKeepsHandler DEF RowsKept
<1>6. CASE FinishApply
  BY <1>6 DEF FinishApply, RowsKept, ApplyDone
<1>7. CASE FinishRevert
  BY <1>7 DEF FinishRevert, RowsKept, RevertDone
<1>8. CASE AbortApply \/ FinishBoot
  BY <1>8 DEF AbortApply, FinishBoot, RowsKept, db, environment
<1>9. CASE BootStep
  BY <1>9 DEF BootStep, Restart, RecoverPlan, BootApply, RecoverDone, BootSkips,
              RowsKept, db, environment
<1>10. CASE Crash \/ Reboot \/ Tick \/ UNCHANGED vars
  BY <1>10 DEF Crash, Reboot, Die, Tick, vars, RowsKept, db, environment
<1>. QED
  BY <1>1, <1>2, <1>3, <1>4, <1>5, <1>6, <1>7, <1>8, <1>9, <1>10
  DEF Next, ClientStep, HandlerStep, Working

-----------------------------------------------------------------------------
(* The engine implements the lifecycle.                                    *)

LEMMA LifecycleInit == Init => Lifecycle!Init
BY DEF Init, Lifecycle!Init, Lifecycle!PlanIds, PlanId, Overdue, Applied

(* A plan that leaves probation leaves the overdue ones with it.           *)
LEMMA Settles ==
    ASSUME PInv, NEW p \in PlanId, state[p] = "applied",
           NEW outcome \in {"confirmed", "reverted", "expired"},
           state' = [state EXCEPT ![p] = outcome], UNCHANGED <<deadline, now>>,
           outcome = "expired" => now >= deadline[p]
    PROVE  Lifecycle!Settle(p, outcome)
<1>1. Overdue' = Overdue \ {p}
  BY DEF Overdue, Applied, PInv, IInv, TypeOK
<1>2. outcome = "expired" => p \in Overdue
  BY DEF Overdue, Applied
<1>. QED  BY <1>1, <1>2 DEF Lifecycle!Settle

LEMMA LifecycleStep == PInv /\ [Next]_vars => [Lifecycle!Next]_<<state, Overdue>>
<1>. SUFFICES ASSUME PInv, [Next]_vars
              PROVE  [Lifecycle!Next]_<<state, Overdue>>
  OBVIOUS
<1>0. TypeOK /\ AtMostOneApplied /\ HandlerOwnsPlan /\ DeadlinesOK
  BY DEF PInv, IInv
<1>. USE DEF Lifecycle!Next, Lifecycle!PlanIds, Lifecycle!Settled, PlanId
<1>1. CASE RowsKept
  <2>1. CASE Overdue' = Overdue
    BY <1>1, <2>1 DEF RowsKept
  <2>2. CASE Overdue' # Overdue
    <3>1. \A p \in PlanId : deadline[p] \in Nat /\ now \in Nat
      BY <1>0 DEF TypeOK
    <3>2. Applied' = Applied /\ Applied \subseteq PlanId
      BY <1>1 DEF RowsKept, Applied
    <3>3. Overdue \subseteq Overdue' /\ Overdue' \subseteq Applied
      <4>1. deadline' = deadline /\ now' \in {now, now + 1}
        BY <1>1 DEF RowsKept
      <4>2. \A p \in Applied : now >= deadline[p] => now' >= deadline'[p]
        BY <3>1, <3>2, <4>1
      <4>. QED  BY <3>2, <4>2 DEF Overdue
    <3>4. PICK p \in Applied : p \in Overdue' /\ p \notin Overdue
      BY <2>2, <3>3
    <3>5. Applied = {p}
      BY <1>0, <3>4 DEF AtMostOneApplied
    <3>6. Overdue' = Overdue \cup {p}
      BY <3>3, <3>4, <3>5
    <3>7. Lifecycle!DeadlinePasses(p)
      BY <1>1, <3>4, <3>6 DEF Lifecycle!DeadlinePasses, Applied, RowsKept
    <3>. QED  BY <3>2, <3>4, <3>7
  <2>. QED  BY <2>1, <2>2
<1>2. ASSUME NEW p \in PlanId, Submitted(p)
      PROVE  Lifecycle!Submit(p)
  <2>1. Applied' = Applied
    BY <1>0, <1>2 DEF Submitted, Applied, TypeOK
  <2>2. Overdue' = Overdue
    BY <1>2, <2>1 DEF Submitted, Overdue
  <2>. QED  BY <1>2, <2>2 DEF Submitted, Lifecycle!Submit
<1>3. CASE ApplyDone
  <2>1. /\ op.plan \in PlanId /\ state[op.plan] = "pending" /\ Applied = {}
        /\ op.timeout > 0 /\ op.timeout \in Nat /\ now \in Nat
    BY <1>0, <1>3 DEF ApplyDone, HandlerOwnsPlan, DeadlinesOK, TypeOK, Operation
  <2>2. Applied' = {op.plan}
    BY <1>0, <1>3, <2>1 DEF ApplyDone, Applied, TypeOK
  <2>3. deadline'[op.plan] = now + op.timeout /\ now' = now
    BY <1>0, <1>3, <2>1 DEF ApplyDone, TypeOK
  <2>4. Overdue' = {} /\ Overdue = {}
    BY <2>1, <2>2, <2>3 DEF Overdue
  <2>5. Lifecycle!Begin(op.plan)
    BY <1>3, <2>1, <2>4 DEF Lifecycle!Begin, ApplyDone, Applied
  <2>. QED  BY <2>1, <2>5
<1>4. ASSUME NEW p \in PlanId, ConfirmDone(p)
      PROVE  Lifecycle!Settle(p, "confirmed")
  BY <1>4, Settles DEF ConfirmDone
<1>5. CASE RevertDone
  <2>1. /\ op.plan \in PlanId /\ state[op.plan] = "applied"
        /\ op.outcome \in {"reverted", "expired"}
        /\ op.outcome = "expired" => now >= deadline[op.plan]
    BY <1>0, <1>5 DEF RevertDone, HandlerOwnsPlan, DeadlinesOK, TypeOK, Operation
  <2>2. Lifecycle!Settle(op.plan, op.outcome)
    BY <1>5, <2>1, Settles DEF RevertDone
  <2>. QED  BY <2>1, <2>2
<1>. QED  BY <1>0, <1>1, <1>2, <1>3, <1>4, <1>5, StateChanges

(* The engine, with its kernel commands, timers, errors, crashes and boot  *)
(* sequence, implements the lifecycle clients are promised (engine.go and  *)
(* the state column of store/plans.go).                                    *)
THEOREM EngineImplementsLifecycle == Spec => ImplementsLifecycle
<1>1. PInv /\ [Next]_vars => [Lifecycle!Next]_(Lifecycle!vars)
  BY LifecycleStep DEF Lifecycle!vars
<1>. QED  BY LifecycleInit, <1>1, PInvariance, PTL DEF Spec, Lifecycle!Spec, ImplementsLifecycle

-----------------------------------------------------------------------------
(* Neither a timer left over from another life of the daemon nor Recover   *)
(* expires a plan before its deadline (watchdogFired, Recover).            *)
THEOREM NoEarlyExpiry == Spec => NeverExpiredEarly
<1>. DEFINE InTime == \A p \in PlanId : state[p] # "expired" /\ state'[p] = "expired"
                         => now >= deadline[p]
<1>1. PInv /\ [Next]_vars => [InTime]_vars
  <2>. SUFFICES ASSUME PInv, [Next]_vars, NEW p \in PlanId,
                       state[p] # "expired", state'[p] = "expired"
                PROVE  now >= deadline[p]
    OBVIOUS
  <2>1. TypeOK /\ DeadlinesOK
    BY DEF PInv, IInv
  <2>2. RevertDone /\ p = op.plan /\ op.outcome = "expired"
    BY <2>1, StateChanges DEF RowsKept, ApplyDone, RevertDone, Submitted, ConfirmDone, TypeOK
  <2>. QED  BY <2>1, <2>2 DEF RevertDone, DeadlinesOK
<1>. QED  BY <1>1, PInvariance, PTL DEF Spec, NeverExpiredEarly

(* When MarkApplied writes a row, every ipset, nft table and route of the  *)
(* plan holds what was asked for (Engine.Apply).                           *)
THEOREM AppliedMeansInstalled == Spec => AppliedIsInstalled
<1>. DEFINE Holds == \A p \in PlanId : state[p] = "pending" /\ state'[p] = "applied" =>
                       \A r \in Targets(desired[p]) : ~IsRule(r) => live[r] = <<desired[p][r]>>
<1>1. PInv /\ [Next]_vars => [Holds]_vars
  <2>. SUFFICES ASSUME PInv, [Next]_vars, NEW p \in PlanId,
                       state[p] = "pending", state'[p] = "applied",
                       NEW r \in Targets(desired[p]), ~IsRule(r)
                PROVE  live[r] = <<desired[p][r]>>
    OBVIOUS
  <2>1. TypeOK /\ HandlerOwnsPlan /\ ApplyInstalls
    BY DEF PInv, IInv, WorkOK
  <2>2. op.kind = "revert" => state[op.plan] = "applied"
    BY <2>1 DEF HandlerOwnsPlan
  <2>3. ApplyDone /\ p = op.plan
    BY <2>1, <2>2, StateChanges DEF RowsKept, ApplyDone, RevertDone, Submitted, ConfirmDone, TypeOK
  <2>. QED  BY <2>1, <2>3 DEF ApplyDone, ApplyInstalls
<1>. QED  BY <1>1, PInvariance, PTL DEF Spec, AppliedIsInstalled

(* When MarkReverted writes a row, every ipset, nft table and route of the *)
(* plan is as the snapshot recorded it (revertLocked).                     *)
THEOREM RevertedMeansRestored == Spec => RevertIsRestored
<1>. DEFINE Back == \A p \in PlanId : state[p] = "applied" /\ state'[p] \in {"reverted", "expired"} =>
                      \A r \in Targets(desired[p]) : ~IsRule(r) => live[r] = snapshotPre[p][r]
<1>1. PInv /\ [Next]_vars => [Back]_vars
  <2>. SUFFICES ASSUME PInv, [Next]_vars, NEW p \in PlanId,
                       state[p] = "applied", state'[p] \in {"reverted", "expired"},
                       NEW r \in Targets(desired[p]), ~IsRule(r)
                PROVE  live[r] = snapshotPre[p][r]
    OBVIOUS
  <2>1. TypeOK /\ RevertRestores
    BY DEF PInv, IInv, WorkOK
  <2>2. RevertDone /\ p = op.plan
    BY <2>1, StateChanges DEF RowsKept, ApplyDone, RevertDone, Submitted, ConfirmDone, TypeOK
  <2>. QED  BY <2>1, <2>2 DEF RevertDone, RevertRestores
<1>. QED  BY <1>1, PInvariance, PTL DEF Spec, RevertIsRestored

LEMMA OnlyCreateAsks ==
    ASSUME [Next]_vars
    PROVE  \/ UNCHANGED <<desired, snapshotPre>>
           \/ \E p \in PlanId, d \in Request : Create(p, d)
<1>. USE DEF db, environment, daemon
<1>1. ASSUME NEW p \in PlanId, \/ \E s \in AskedTimeout : StartApply(p, s)
                               \/ Confirm(p) \/ StartRevert(p) \/ TimerFires(p) \/ WatchdogRuns(p)
      PROVE  UNCHANGED <<desired, snapshotPre>>
  BY <1>1 DEF StartApply, Confirm, StartRevert, TimerFires, WatchdogRuns
<1>2. ASSUME NEW r \in Resource, Working(r)
      PROVE  UNCHANGED <<desired, snapshotPre>>
  BY <1>2 DEF Working, SkipRule, DeleteOldRule, Install, Restore, RestoreRuleDel, RestoreRuleAdd
<1>3. CASE FinishApply \/ AbortApply \/ FinishRevert \/ FinishBoot
  BY <1>3 DEF FinishApply, AbortApply, FinishRevert, FinishBoot
<1>4. CASE BootStep
  BY <1>4 DEF BootStep, Restart, RecoverPlan, BootApply, RecoverDone, BootSkips
<1>5. CASE Crash \/ Reboot \/ Tick \/ UNCHANGED vars
  BY <1>5 DEF Crash, Reboot, Die, Tick, vars
<1>. QED  BY <1>1, <1>2, <1>3, <1>4, <1>5 DEF Next, ClientStep, HandlerStep, Working

(* What a plan asks for and the snapshot it can go back to are written     *)
(* once, by Create, and no client, timer, crash or boot takes a plan out   *)
(* of a settled state (the UPDATEs of store/plans.go).                     *)
THEOREM RowsAreFinal ==
    Spec => [][\A p \in PlanId :
                  /\ state[p] # "none" => desired'[p] = desired[p] /\ snapshotPre'[p] = snapshotPre[p]
                  /\ state[p] \in {"confirmed", "reverted", "expired"} => state'[p] = state[p]]_vars
<1>. DEFINE Unchanging == \A p \in PlanId :
                /\ state[p] # "none" => desired'[p] = desired[p] /\ snapshotPre'[p] = snapshotPre[p]
                /\ state[p] \in {"confirmed", "reverted", "expired"} => state'[p] = state[p]
<1>1. PInv /\ [Next]_vars => [Unchanging]_vars
  <2>. SUFFICES ASSUME PInv, [Next]_vars, NEW p \in PlanId
                PROVE  /\ state[p] # "none" => desired'[p] = desired[p] /\ snapshotPre'[p] = snapshotPre[p]
                       /\ state[p] \in {"confirmed", "reverted", "expired"} => state'[p] = state[p]
    OBVIOUS
  <2>1. TypeOK /\ HandlerOwnsPlan
    BY DEF PInv, IInv
  <2>2. state[p] # "none" => desired'[p] = desired[p] /\ snapshotPre'[p] = snapshotPre[p]
    BY <2>1, OnlyCreateAsks DEF Create, TypeOK
  <2>3. state[p] \in {"confirmed", "reverted", "expired"} => state'[p] = state[p]
    BY <2>1, StateChanges
       DEF RowsKept, ApplyDone, RevertDone, Submitted, ConfirmDone, HandlerOwnsPlan, TypeOK
  <2>. QED  BY <2>2, <2>3
<1>. QED  BY <1>1, PInvariance, PTL DEF Spec
=============================================================================
