------------------------- MODULE PlanEngine_proofs -------------------------
(***************************************************************************)
(* Safety of the plan engine for every number of plans, every set of       *)
(* resources and requests, every timeout and any number of faults and      *)
(* crashes.                                                                *)
(*                                                                         *)
(* The inductive invariant IInv adds to the invariants of interest what    *)
(* the handler in progress relies on: the plan it works on is still in the *)
(* state it was in when the handler took the mutex (HandlerOwnsPlan), what *)
(* is left to install was asked for, a half-replaced rule has an old rule  *)
(* to return to (HandlerWork), a dead  *)
(* daemon has no timers and Recover's loop visits applied plans only       *)
(* (DaemonLists), and a revert that will report an error has  *)
(* met one (ErrorIsReal).                                                  *)
(***************************************************************************)
EXTENDS PlanEngine, SequenceTheorems, TLAPS

HandlerWork ==
    /\ op.kind \in {"apply", "boot"} => op.todo \subseteq Targets(desired[op.plan])
    /\ \A r \in op.half : op.snap[r] # <<>>

DaemonLists ==
    /\ phase = "down" => armed = {} /\ fired = {} /\ op.kind = "idle"
    /\ phase # "recover" => recovering = {}
    /\ recovering \subseteq Applied
    /\ op.kind = "revert" => op.plan \notin recovering

ErrorIsReal == op.kind = "revert" /\ op.err => ~Clean

IInv ==
    /\ TypeOK
    /\ HandlerWork
    /\ HandlerOwnsPlan
    /\ DaemonLists
    /\ AtMostOneApplied
    /\ ErrorIsReal
    /\ WatchdogCovers

-----------------------------------------------------------------------------
(* What the kernel commands make of a cell.                                *)

LEMMA SnapCellIsCell ==
    ASSUME NEW s \in SnapCell
    PROVE  /\ s \in Cell
           /\ s # <<>> => s[1] \in Value
<1>1. CASE s = <<>>
  BY <1>1 DEF Cell
<1>2. CASE s # <<>>
  <2>1. PICK v \in Value : s = <<v>>
    BY <1>2 DEF SnapCell
  <2>. QED  BY <2>1 DEF Cell
<1>. QED  BY <1>1, <1>2

LEMMA AppendIsCell ==
    ASSUME NEW c \in Cell, NEW v \in Value
    PROVE  Append(c, v) \in Cell
BY AppendProperties DEF Cell

LEMMA RuleDelIsCell ==
    ASSUME NEW c \in Cell
    PROVE  AfterRuleDel(c) \in Cell
<1>1. CASE c = <<>>
  BY <1>1 DEF AfterRuleDel, Cell
<1>2. CASE c # <<>>
  BY <1>2, HeadTailProperties DEF AfterRuleDel, Cell
<1>. QED  BY <1>1, <1>2

LEMMA InstallIsCell ==
    ASSUME NEW r \in Resource, NEW c \in Cell, NEW v \in Value
    PROVE  /\ AfterInstall(r, c, v) \in Cell
           /\ AfterFailedInstall(r, c, v) \subseteq Cell
<1>1. <<v>> \in Cell /\ <<EmptySet>> \in Cell
  BY EmptySetAssumption DEF Cell
<1>2. AfterInstall(r, c, v) \in Cell
  BY <1>1, AppendIsCell DEF AfterInstall
<1>. QED  BY <1>1, <1>2 DEF AfterFailedInstall

LEMMA ObserveIsSnapCell ==
    ASSUME NEW c \in Cell
    PROVE  Observe(c) \in SnapCell
<1>1. CASE c = <<>>
  BY <1>1 DEF Observe, SnapCell
<1>2. CASE c # <<>>
  <2>1. Len(c) \in 1..Len(c)
    BY <1>2, EmptySeq, LenProperties DEF Cell
  <2>2. c[Len(c)] \in Value
    BY <2>1, ElementOfSeq DEF Cell
  <2>. QED  BY <1>2, <2>2 DEF Observe, SnapCell
<1>. QED  BY <1>1, <1>2

LEMMA CaptureIsSnapshot ==
    ASSUME NEW k \in [Resource -> Cell], NEW d \in DesiredState
    PROVE  Capture(k, d) \in Snapshot
<1>1. \A r \in Resource : k[r] \in Cell /\ Observe(k[r]) \in SnapCell
  BY ObserveIsSnapCell
<1>2. <<>> \in SnapCell
  BY DEF SnapCell
<1>. QED  BY <1>1, <1>2 DEF Capture, Snapshot

LEMMA ClampIsPositive ==
    ASSUME NEW s \in AskedTimeout
    PROVE  ClampTimeout(s) \in Nat /\ ClampTimeout(s) > 0
BY TimeoutAssumption DEF ClampTimeout

LEMMA IdleIsOperation == Idle \in Operation
BY DEF Idle, Operation, Snapshot, SnapCell

-----------------------------------------------------------------------------
(* Type correctness.                                                       *)

LEMMA InitTypeOK == Init => TypeOK
<1>. SUFFICES ASSUME Init PROVE TypeOK
  OBVIOUS
<1>1. live \in [Resource -> Cell]
  <2>1. SnapCell \subseteq Cell
    BY SnapCellIsCell
  <2>. QED  BY <2>1 DEF Init
<1>2. [r \in Resource |-> <<>>] \in Snapshot /\ [r \in Resource |-> NotListed] \in DesiredState
  BY DEF Snapshot, SnapCell, DesiredState
<1>3. op \in Operation
  BY IdleIsOperation DEF Init
<1>. QED  BY <1>1, <1>2, <1>3 DEF Init, TypeOK, PlanState, Phase

LEMMA RevertIsOperation ==
    ASSUME TypeOK, NEW p \in PlanId, NEW outcome \in {"reverted", "expired"},
           BeginRevert(p, outcome)
    PROVE  op' \in Operation /\ armed' \subseteq PlanId
BY IdleIsOperation DEF TypeOK, BeginRevert, Operation, Idle, Targets

LEMMA ClientTypeOK ==
    ASSUME TypeOK, ClientStep
    PROVE  TypeOK'
<1>. USE DEF TypeOK
<1>1. ASSUME NEW p \in PlanId, NEW d \in Request, Create(p, d)
      PROVE  TypeOK'
  <2>1. d \in DesiredState /\ Capture(live, d) \in Snapshot
    BY RequestAssumption, CaptureIsSnapshot
  <2>2. state' \in [PlanId -> PlanState]
    BY <1>1 DEF Create, PlanState
  <2>3. desired' \in [PlanId -> DesiredState] /\ snapshotPre' \in [PlanId -> Snapshot]
    BY <1>1, <2>1 DEF Create
  <2>. QED  BY <1>1, <2>2, <2>3 DEF Create, daemon, environment
<1>2. ASSUME NEW p \in PlanId, NEW s \in AskedTimeout, StartApply(p, s)
      PROVE  TypeOK'
  <2>1. op' \in Operation
    BY <1>2, IdleIsOperation, ClampIsPositive DEF StartApply, Operation, Idle, Targets
  <2>. QED  BY <1>2, <2>1 DEF StartApply, db, daemon, environment
<1>3. ASSUME NEW p \in PlanId, Confirm(p)
      PROVE  TypeOK'
  BY <1>3 DEF Confirm, Succeeds, Fails, PlanState
<1>4. ASSUME NEW p \in PlanId, StartRevert(p)
      PROVE  TypeOK'
  <2>1. op' \in Operation /\ armed' \subseteq PlanId
    BY <1>4, RevertIsOperation DEF StartRevert
  <2>. QED  BY <1>4, <2>1 DEF StartRevert, db, environment
<1>. QED  BY <1>1, <1>2, <1>3, <1>4 DEF ClientStep

LEMMA WatchdogTypeOK ==
    ASSUME TypeOK, NEW p \in PlanId, TimerFires(p) \/ WatchdogRuns(p)
    PROVE  TypeOK'
<1>. USE DEF TypeOK
<1>1. CASE TimerFires(p)
  BY <1>1 DEF TimerFires, db, environment
<1>2. CASE WatchdogRuns(p)
  <2>1. op' \in Operation /\ armed' \subseteq PlanId
    BY <1>2, RevertIsOperation DEF WatchdogRuns
  <2>. QED  BY <1>2, <2>1 DEF WatchdogRuns, Succeeds, Fails, db
<1>. QED  BY <1>1, <1>2

(* A command's outcome only ever adds to the errors met so far.            *)
LEMMA OutcomeIsTyped ==
    ASSUME TypeOK, Succeeds \/ Fails \/ Refused
    PROVE  /\ faults' \in Nat /\ refused' \in BOOLEAN
           /\ Clean' => Clean
           /\ Fails \/ Refused => ~Clean'
<1>1. CASE Succeeds
  BY <1>1 DEF TypeOK, Succeeds, Fails, Refused, Clean
<1>2. CASE Fails
  <2>1. faults' \in Nat /\ faults' # 0
    BY <1>2 DEF TypeOK, Fails
  <2>. QED  BY <1>2, <2>1 DEF TypeOK, Fails, Clean
<1>3. CASE Refused
  BY <1>3 DEF TypeOK, Refused, Clean
<1>. QED  BY <1>1, <1>2, <1>3

(* The records that describe a handler in progress.                        *)
LEMMA HandlerRecords ==
    ASSUME TypeOK, NEW r \in Resource
    PROVE  /\ Installed(r) \in Operation
           /\ StageFailed(r) \in Operation
           /\ Restored(r) \in Operation
           /\ RestoreFailed(r) \in Operation
           /\ [op EXCEPT !.half = {r}] \in Operation
<1>1. Installed(r) \in Operation /\ Restored(r) \in Operation
  BY DEF TypeOK, Operation, Installed, Restored
<1>2. [op EXCEPT !.half = {r}] \in Operation
  BY DEF TypeOK, Operation
<1>3. RestoreFailed(r) \in Operation
  BY <1>1 DEF TypeOK, Operation, RestoreFailed
<1>4. StageFailed(r) \in Operation
  BY DEF TypeOK, Operation, StageFailed
<1>. QED  BY <1>1, <1>2, <1>3, <1>4

LEMMA InstallTypeOK ==
    ASSUME TypeOK, HandlerWork, HandlerOwnsPlan, NEW r \in Resource,
           SkipRule(r) \/ DeleteOldRule(r) \/ Install(r)
    PROVE  TypeOK'
<1>1. op' \in Operation
  BY HandlerRecords DEF SkipRule, DeleteOldRule, Install
<1>2. Wanted(r) \in Value
  <2>1. Installing(r)
    BY DEF SkipRule, DeleteOldRule, Install
  <2>2. op.plan \in PlanId /\ r \in Targets(desired[op.plan])
    BY <2>1 DEF Installing, HandlerWork, HandlerOwnsPlan
  <2>. QED  BY <2>2 DEF Wanted, Targets, TypeOK, DesiredState
<1>3. live[r] \in Cell /\ AfterRuleDel(live[r]) \in Cell
  BY RuleDelIsCell DEF TypeOK
<1>4. live' \in [Resource -> Cell]
  BY <1>2, <1>3, InstallIsCell DEF TypeOK, SkipRule, DeleteOldRule, Install
<1>5. Succeeds \/ Fails \/ Refused
  BY DEF SkipRule, DeleteOldRule, Install, Succeeds, environment
<1>6. faults' \in Nat /\ refused' \in BOOLEAN
  BY <1>5, OutcomeIsTyped
<1>. QED
  BY <1>1, <1>4, <1>6
  DEF TypeOK, SkipRule, DeleteOldRule, Install, db, daemon, environment

LEMMA RestoreTypeOK ==
    ASSUME TypeOK, HandlerWork, NEW r \in Resource,
           Restore(r) \/ RestoreRuleDel(r) \/ RestoreRuleAdd(r)
    PROVE  TypeOK'
<1>1. op' \in Operation
  BY HandlerRecords DEF Restore, RestoreRuleDel, RestoreRuleAdd
<1>2. op.snap[r] \in Cell /\ (op.snap[r] # <<>> => op.snap[r][1] \in Value)
  <2>1. op.snap[r] \in SnapCell
    BY DEF TypeOK, Operation, Snapshot
  <2>. QED  BY <2>1, SnapCellIsCell
<1>3. live[r] \in Cell /\ AfterRuleDel(live[r]) \in Cell
  BY RuleDelIsCell DEF TypeOK
<1>4. live' \in [Resource -> Cell]
  <2>1. CASE Restore(r)
    BY <1>2, <1>3, <2>1, InstallIsCell DEF TypeOK, Restore
  <2>2. CASE RestoreRuleDel(r)
    BY <1>3, <2>2 DEF TypeOK, RestoreRuleDel
  <2>3. CASE RestoreRuleAdd(r)
    <3>1. op.snap[r][1] \in Value
      BY <1>2, <2>3 DEF RestoreRuleAdd, HandlerWork
    <3>. QED  BY <1>3, <2>3, <3>1, InstallIsCell, AppendIsCell DEF TypeOK, RestoreRuleAdd
  <2>. QED  BY <2>1, <2>2, <2>3
<1>5. Succeeds \/ Fails \/ Refused
  BY DEF Restore, RestoreRuleDel, RestoreRuleAdd
<1>6. faults' \in Nat /\ refused' \in BOOLEAN
  BY <1>5, OutcomeIsTyped
<1>. QED
  BY <1>1, <1>4, <1>6 DEF TypeOK, Restore, RestoreRuleDel, RestoreRuleAdd, db, daemon

LEMMA FinishTypeOK ==
    ASSUME TypeOK, HandlerOwnsPlan,
           FinishApply \/ AbortApply \/ FinishRevert \/ FinishBoot
    PROVE  TypeOK'
<1>. USE DEF TypeOK
<1>1. CASE FinishApply
  <2>1. op.plan \in PlanId /\ op.timeout \in Nat
    BY <1>1 DEF FinishApply, HandlerOwnsPlan, Operation
  <2>2. op' \in Operation
    BY <1>1, IdleIsOperation DEF FinishApply, Operation
  <2>. QED  BY <1>1, <2>1, <2>2 DEF FinishApply, Succeeds, Fails, PlanState
<1>2. CASE AbortApply
  BY <1>2, IdleIsOperation DEF AbortApply, db, daemon, environment
<1>3. CASE FinishRevert
  <2>1. op.plan \in PlanId /\ op.outcome \in PlanState
    BY <1>3 DEF FinishRevert, HandlerOwnsPlan, Operation, PlanState
  <2>. QED  BY <1>3, <2>1, IdleIsOperation DEF FinishRevert, Succeeds, Fails, daemon
<1>4. CASE FinishBoot
  BY <1>4, IdleIsOperation DEF FinishBoot, db, environment, Phase
<1>. QED  BY <1>1, <1>2, <1>3, <1>4

LEMMA BootTypeOK ==
    ASSUME TypeOK, BootStep
    PROVE  TypeOK'
<1>. USE DEF TypeOK
<1>1. CASE Restart
  BY <1>1 DEF Restart, Applied, Phase, db, environment
<1>2. ASSUME NEW p \in PlanId, RecoverPlan(p)
      PROVE  TypeOK'
  <2>1. op' \in Operation /\ armed' \subseteq PlanId
    BY <1>2, RevertIsOperation DEF RecoverPlan
  <2>. QED  BY <1>2, <2>1 DEF RecoverPlan, Succeeds, Fails, db
<1>3. ASSUME NEW p \in PlanId, BootApply(p)
      PROVE  TypeOK'
  <2>1. Capture(live, desired[p]) \in Snapshot
    BY CaptureIsSnapshot
  <2>2. op' \in Operation
    BY <1>3, <2>1, IdleIsOperation DEF BootApply, Operation, Idle, Targets
  <2>. QED  BY <1>3, <2>2 DEF BootApply, db, daemon, environment
<1>4. CASE RecoverDone
  BY <1>4 DEF RecoverDone, Phase, db, environment
<1>5. CASE BootSkips
  BY <1>5 DEF BootSkips, Succeeds, Fails, Phase, db
<1>. QED  BY <1>1, <1>2, <1>3, <1>4, <1>5 DEF BootStep

LEMMA EnvironmentTypeOK ==
    ASSUME TypeOK, Crash \/ Reboot \/ Tick
    PROVE  TypeOK'
<1>1. CASE Crash
  BY <1>1, IdleIsOperation DEF TypeOK, Crash, Die, Phase, db
<1>2. CASE Reboot
  <2>1. live' \in [Resource -> Cell]
    BY <1>2, SnapCellIsCell DEF Reboot, SnapCell
  <2>. QED  BY <1>2, <2>1, IdleIsOperation DEF TypeOK, Reboot, Die, Phase, db
<1>3. CASE Tick
  BY <1>3 DEF TypeOK, Tick, db, daemon
<1>. QED  BY <1>1, <1>2, <1>3

LEMMA StepTypeOK ==
    ASSUME TypeOK, HandlerWork, HandlerOwnsPlan, [Next]_vars
    PROVE  TypeOK'
<1>1. CASE HandlerStep
  BY <1>1, InstallTypeOK, RestoreTypeOK, FinishTypeOK DEF HandlerStep
<1>2. CASE UNCHANGED vars
  BY <1>2 DEF TypeOK, vars, db, daemon, environment
<1>. QED
  BY <1>1, <1>2, ClientTypeOK, WatchdogTypeOK, BootTypeOK, EnvironmentTypeOK DEF Next

-----------------------------------------------------------------------------
(* What the handler in progress relies on.                                 *)

(* The three ways an operation ends or begins leave nothing half done.     *)
LEMMA HandlerWorkStep ==
    ASSUME TypeOK, HandlerWork, [Next]_vars
    PROVE  HandlerWork'
<1>. USE DEF HandlerWork
<1>1. CASE UNCHANGED <<op, desired>>
  BY <1>1
<1>2. CASE op' = Idle
  BY <1>2 DEF Idle
<1>3. ASSUME NEW p \in PlanId, NEW outcome \in {"reverted", "expired"},
             BeginRevert(p, outcome)
      PROVE  HandlerWork'
  BY <1>3 DEF BeginRevert, Idle
<1>4. ASSUME NEW p \in PlanId, NEW d \in Request, Create(p, d)
      PROVE  HandlerWork'
  BY <1>4 DEF Create, Serving, Mutex
<1>5. ASSUME NEW p \in PlanId, NEW s \in AskedTimeout, StartApply(p, s)
      PROVE  HandlerWork'
  BY <1>5 DEF StartApply, Idle, db
<1>6. ASSUME NEW p \in PlanId, BootApply(p)
      PROVE  HandlerWork'
  BY <1>6 DEF BootApply, Idle, db
<1>7. ASSUME NEW r \in Resource, SkipRule(r) \/ DeleteOldRule(r) \/ Install(r)
      PROVE  HandlerWork'
  <2>1. desired' = desired /\ op.kind \in {"apply", "boot"}
    BY <1>7 DEF SkipRule, DeleteOldRule, Install, Installing, db
  <2>2. CASE op' = Installed(r)
    BY <2>1, <2>2 DEF Installed, TypeOK, Operation
  <2>3. CASE op' = StageFailed(r)
    BY <2>1, <2>3 DEF StageFailed, TypeOK, Operation
  <2>4. CASE MustDeleteFirst(r) /\ op' = [op EXCEPT !.half = {r}]
    BY <2>1, <2>4 DEF MustDeleteFirst, TypeOK, Operation
  <2>. QED  BY <1>7, <2>2, <2>3, <2>4 DEF SkipRule, DeleteOldRule, Install
<1>8. ASSUME NEW r \in Resource, Restore(r) \/ RestoreRuleDel(r) \/ RestoreRuleAdd(r)
      PROVE  HandlerWork'
  <2>1. desired' = desired
    BY <1>8 DEF Restore, RestoreRuleDel, RestoreRuleAdd, db
  <2>2. CASE op' = Restored(r) \/ op' = RestoreFailed(r)
    BY <2>1, <2>2 DEF Restored, RestoreFailed, TypeOK, Operation
  <2>3. CASE op.snap[r] # <<>> /\ op' = [op EXCEPT !.half = {r}]
    BY <2>1, <2>3 DEF TypeOK, Operation
  <2>. QED  BY <1>8, <2>2, <2>3 DEF Restore, RestoreRuleDel, RestoreRuleAdd
<1>9. CASE FinishApply
  <2>1. CASE op' = [op EXCEPT !.undo = op.done, !.err = TRUE]
    <3>1. /\ op'.kind = op.kind /\ op'.plan = op.plan /\ op'.todo = op.todo
          /\ op'.half = op.half /\ op'.snap = op.snap
      BY <2>1 DEF TypeOK, Operation
    <3>. QED  BY <1>9, <3>1 DEF FinishApply
  <2>. QED  BY <1>9, <2>1, <1>2 DEF FinishApply
<1>. QED
  <2>1. CASE ClientStep
    BY <2>1, <1>1, <1>3, <1>4, <1>5 DEF ClientStep, Confirm, StartRevert
  <2>2. CASE HandlerStep
    BY <2>2, <1>2, <1>7, <1>8, <1>9 DEF HandlerStep, AbortApply, FinishRevert, FinishBoot
  <2>3. CASE BootStep
    <3>1. ASSUME NEW p \in PlanId, RecoverPlan(p)
          PROVE  HandlerWork'
      BY <3>1, <1>1, <1>3 DEF RecoverPlan, db
    <3>2. CASE Restart \/ RecoverDone \/ BootSkips
      BY <3>2, <1>1 DEF Restart, RecoverDone, BootSkips, db
    <3>. QED  BY <2>3, <3>1, <3>2, <1>6 DEF BootStep
  <2>4. ASSUME NEW p \in PlanId, TimerFires(p) \/ WatchdogRuns(p)
        PROVE  HandlerWork'
    BY <2>4, <1>1, <1>3 DEF TimerFires, WatchdogRuns, db
  <2>5. CASE Crash \/ Reboot \/ Tick \/ UNCHANGED vars
    BY <2>5, <1>1, <1>2 DEF Crash, Reboot, Die, Tick, vars, db
  <2>. QED  BY <2>1, <2>2, <2>3, <2>4, <2>5 DEF Next

(* A handler's plan stays in the state the handler found it in.            *)
LEMMA HandlerOwnsPlanStep ==
    ASSUME TypeOK, HandlerOwnsPlan, DaemonLists, [Next]_vars
    PROVE  HandlerOwnsPlan'
<1>. USE DEF HandlerOwnsPlan
<1>1. CASE UNCHANGED <<op, state, phase>>
  BY <1>1 DEF Applied
<1>2. CASE op' = Idle
  BY <1>2 DEF Idle
<1>3. ASSUME NEW p \in PlanId, NEW outcome \in {"reverted", "expired"},
             BeginRevert(p, outcome), state[p] = "applied", phase # "down",
             UNCHANGED <<state, phase>>
      PROVE  HandlerOwnsPlan'
  BY <1>3 DEF BeginRevert, Idle
<1>4. CASE op' = op /\ op.kind = "idle"
  BY <1>4
<1>5. ASSUME NEW p \in PlanId, NEW s \in AskedTimeout, StartApply(p, s)
      PROVE  HandlerOwnsPlan'
  BY <1>5 DEF StartApply, Serving, Idle, Applied, db, daemon
<1>6. ASSUME NEW p \in PlanId, BootApply(p)
      PROVE  HandlerOwnsPlan'
  BY <1>6 DEF BootApply, IsLastConfirmed, Idle, db, daemon
<1>7. CASE /\ op'.kind = op.kind /\ op'.plan = op.plan
           /\ UNCHANGED <<state, phase>>
  BY <1>7 DEF Applied
<1>. QED
  <2>1. CASE ClientStep
    BY <2>1, <1>3, <1>4, <1>5
    DEF ClientStep, Create, Confirm, StartRevert, Serving, Mutex, db
  <2>2. ASSUME NEW r \in Resource,
               \/ SkipRule(r) \/ DeleteOldRule(r) \/ Install(r)
               \/ Restore(r) \/ RestoreRuleDel(r) \/ RestoreRuleAdd(r)
        PROVE  HandlerOwnsPlan'
    <3>1. UNCHANGED <<state, phase>>
      BY <2>2 DEF SkipRule, DeleteOldRule, Install, Restore, RestoreRuleDel,
                  RestoreRuleAdd, db, daemon
    <3>2. op'.kind = op.kind /\ op'.plan = op.plan
      BY <2>2 DEF SkipRule, DeleteOldRule, Install, Restore, RestoreRuleDel,
                  RestoreRuleAdd, Installed, StageFailed, Restored, RestoreFailed,
                  TypeOK, Operation
    <3>. QED  BY <1>7, <3>1, <3>2
  <2>3. CASE FinishApply
    BY <2>3, <1>2, <1>7 DEF FinishApply, TypeOK, Operation
  <2>4. CASE AbortApply \/ FinishRevert \/ FinishBoot
    BY <2>4, <1>2 DEF AbortApply, FinishRevert, FinishBoot
  <2>5. CASE BootStep
    <3>1. ASSUME NEW p \in PlanId, RecoverPlan(p)
          PROVE  HandlerOwnsPlan'
      BY <3>1, <1>1, <1>3 DEF RecoverPlan, DaemonLists, Applied, db
    <3>2. CASE Restart \/ RecoverDone \/ BootSkips
      BY <3>2, <1>4 DEF Restart, RecoverDone, BootSkips, Mutex, DaemonLists
    <3>. QED  BY <2>5, <3>1, <3>2, <1>6 DEF BootStep
  <2>6. ASSUME NEW p \in PlanId, TimerFires(p) \/ WatchdogRuns(p)
        PROVE  HandlerOwnsPlan'
    <3>1. CASE TimerFires(p)
      BY <3>1, <1>1 DEF TimerFires, db
    <3>2. CASE WatchdogRuns(p)
      BY <3>2, <1>1, <1>3 DEF WatchdogRuns, DaemonLists, db
    <3>. QED  BY <2>6, <3>1, <3>2
  <2>7. CASE Crash \/ Reboot \/ Tick \/ UNCHANGED vars
    BY <2>7, <1>1, <1>2 DEF Crash, Reboot, Die, Tick, vars, db, daemon
  <2>. QED  BY <2>1, <2>2, <2>3, <2>4, <2>5, <2>6, <2>7 DEF Next, HandlerStep

(* A dead daemon holds nothing, and Recover visits applied plans only.     *)
LEMMA DaemonListsStep ==
    ASSUME TypeOK, HandlerOwnsPlan, DaemonLists, [Next]_vars
    PROVE  DaemonLists'
<1>. USE DEF DaemonLists
<1>1. CASE ClientStep
  <2>1. phase' = "serving" /\ recovering' = {}
    BY <1>1 DEF ClientStep, Create, StartApply, Confirm, StartRevert, Serving, daemon
  <2>. QED  BY <2>1
<1>2. ASSUME NEW p \in PlanId, TimerFires(p) \/ WatchdogRuns(p)
      PROVE  DaemonLists'
  <2>1. CASE TimerFires(p)
    BY <2>1 DEF TimerFires, Applied, db
  <2>2. CASE WatchdogRuns(p)
    <3>1. phase' = phase /\ phase \notin {"down", "recover"} /\ recovering' = {}
      BY <2>2 DEF WatchdogRuns, Mutex
    <3>. QED  BY <3>1
  <2>. QED  BY <1>2, <2>1, <2>2
<1>3. ASSUME NEW r \in Resource,
             \/ SkipRule(r) \/ DeleteOldRule(r) \/ Install(r)
             \/ Restore(r) \/ RestoreRuleDel(r) \/ RestoreRuleAdd(r)
      PROVE  DaemonLists'
  <2>1. UNCHANGED <<state, phase, recovering, armed, fired>>
    BY <1>3 DEF SkipRule, DeleteOldRule, Install, Restore, RestoreRuleDel,
                RestoreRuleAdd, db, daemon
  <2>2. op'.kind = op.kind /\ op'.plan = op.plan
    BY <1>3 DEF SkipRule, DeleteOldRule, Install, Restore, RestoreRuleDel,
                RestoreRuleAdd, Installed, StageFailed, Restored, RestoreFailed,
                TypeOK, Operation
  <2>. QED  BY <2>1, <2>2 DEF Applied
<1>4. CASE FinishApply
  <2>1. phase = "serving" /\ phase' = phase /\ recovering' = recovering
    BY <1>4 DEF FinishApply, HandlerOwnsPlan
  <2>. QED  BY <2>1
<1>5. CASE AbortApply
  BY <1>5 DEF AbortApply, Idle, Applied, db, daemon
<1>6. CASE FinishRevert
  <2>1. op'.kind = "idle" /\ UNCHANGED daemon /\ op.plan \notin recovering
    BY <1>6 DEF FinishRevert, Idle
  <2>2. \A p \in PlanId \ {op.plan} : state'[p] = state[p]
    BY <1>6 DEF FinishRevert, TypeOK
  <2>. QED  BY <2>1, <2>2 DEF Applied, daemon
<1>7. CASE FinishBoot
  BY <1>7 DEF FinishBoot, HandlerOwnsPlan, Idle
<1>8. CASE BootStep
  <2>1. CASE Restart
    BY <2>1 DEF Restart, Applied, db
  <2>2. ASSUME NEW p \in PlanId, RecoverPlan(p)
        PROVE  DaemonLists'
    BY <2>2 DEF RecoverPlan, BeginRevert, Idle, Applied, db
  <2>3. ASSUME NEW p \in PlanId, BootApply(p)
        PROVE  DaemonLists'
    BY <2>3 DEF BootApply, Mutex, daemon
  <2>4. CASE RecoverDone \/ BootSkips
    BY <2>4 DEF RecoverDone, BootSkips, Mutex
  <2>. QED  BY <1>8, <2>1, <2>2, <2>3, <2>4 DEF BootStep
<1>9. CASE Crash \/ Reboot
  BY <1>9 DEF Crash, Reboot, Die, Idle
<1>10. CASE Tick \/ UNCHANGED vars
  BY <1>10 DEF Tick, vars, Applied, db, daemon
<1>. QED
  BY <1>1, <1>2, <1>3, <1>4, <1>5, <1>6, <1>7, <1>8, <1>9, <1>10 DEF Next, HandlerStep

-----------------------------------------------------------------------------
(* The safety of the lifecycle.                                            *)

(* Only Apply adds an applied plan, and it held the mutex since it saw     *)
(* that there was none.                                                    *)
LEMMA AtMostOneAppliedStep ==
    ASSUME TypeOK, HandlerOwnsPlan, AtMostOneApplied, [Next]_vars
    PROVE  AtMostOneApplied'
<1>. USE DEF AtMostOneApplied
<1>1. CASE Applied' \subseteq Applied
  BY <1>1
<1>2. CASE UNCHANGED state
  BY <1>2, <1>1 DEF Applied
<1>3. CASE FinishApply
  <2>1. CASE UNCHANGED state
    BY <2>1, <1>2
  <2>2. CASE state' = [state EXCEPT ![op.plan] = "applied"]
    BY <2>2, <1>3 DEF FinishApply, HandlerOwnsPlan, Applied, TypeOK
  <2>. QED  BY <1>3, <2>1, <2>2 DEF FinishApply
<1>4. CASE FinishRevert
  <2>1. op.outcome # "applied"
    BY DEF TypeOK, Operation
  <2>. QED  BY <1>4, <2>1, <1>1 DEF FinishRevert, Applied, TypeOK
<1>5. CASE ClientStep
  <2>1. ASSUME NEW p \in PlanId, NEW d \in Request, Create(p, d)
        PROVE  Applied' \subseteq Applied
    BY <2>1 DEF Create, Applied, TypeOK
  <2>2. ASSUME NEW p \in PlanId, Confirm(p)
        PROVE  Applied' \subseteq Applied
    BY <2>2 DEF Confirm, Applied, TypeOK
  <2>. QED  BY <1>5, <2>1, <2>2, <1>1, <1>2 DEF ClientStep, StartApply, StartRevert, db
<1>. QED
  <2>1. ASSUME NEW r \in Resource,
               \/ SkipRule(r) \/ DeleteOldRule(r) \/ Install(r)
               \/ Restore(r) \/ RestoreRuleDel(r) \/ RestoreRuleAdd(r)
        PROVE  UNCHANGED state
    BY <2>1 DEF SkipRule, DeleteOldRule, Install, Restore, RestoreRuleDel,
                RestoreRuleAdd, db
  <2>2. CASE AbortApply \/ FinishBoot \/ BootStep
    BY <2>2, <1>2 DEF AbortApply, FinishBoot, BootStep, Restart, RecoverPlan, BootApply,
                      RecoverDone, BootSkips, db
  <2>3. CASE \E p \in PlanId : TimerFires(p) \/ WatchdogRuns(p)
    BY <2>3, <1>2 DEF TimerFires, WatchdogRuns, db
  <2>4. CASE Crash \/ Reboot \/ Tick \/ UNCHANGED vars
    BY <2>4, <1>2 DEF Crash, Reboot, Die, Tick, vars, db
  <2>. QED  BY <1>3, <1>4, <1>5, <1>2, <2>1, <2>2, <2>3, <2>4 DEF Next, HandlerStep

(* A revert starts without an error, and only a command that failed or was *)
(* refused gives it one.                                                   *)
LEMMA ErrorIsRealStep ==
    ASSUME TypeOK, ErrorIsReal, [Next]_vars
    PROVE  ErrorIsReal'
<1>. USE DEF ErrorIsReal
<1>1. CASE UNCHANGED <<op, faults, refused>>
  BY <1>1 DEF Clean
<1>2. CASE ~op'.err \/ op'.kind # "revert"
  BY <1>2
<1>3. ASSUME NEW r \in Resource,
             \/ SkipRule(r) \/ DeleteOldRule(r) \/ Install(r)
             \/ Restore(r) \/ RestoreRuleDel(r) \/ RestoreRuleAdd(r)
      PROVE  ErrorIsReal'
  <2>1. Clean' => Clean /\ Succeeds
    <3>1. Succeeds \/ Fails \/ Refused
      BY <1>3 DEF SkipRule, DeleteOldRule, Install, Restore, RestoreRuleDel,
                  RestoreRuleAdd, Succeeds, environment
    <3>. QED  BY <3>1, OutcomeIsTyped
  <2>2. CASE Installing(r)
    <3>1. op'.kind = op.kind /\ op.kind # "revert"
      BY <1>3, <2>2 DEF SkipRule, DeleteOldRule, Install, Restore, RestoreRuleDel,
                  RestoreRuleAdd, Installed, StageFailed, Restored, RestoreFailed,
                  Installing, TypeOK, Operation
    <3>. QED  BY <3>1
  <2>3. CASE op'.kind = op.kind /\ op'.err = op.err
    BY <2>1, <2>3
  <2>4. CASE Fails \/ Refused
    BY <2>4, OutcomeIsTyped
  <2>5. CASE op' = Restored(r) \/ op' = [op EXCEPT !.half = {r}]
    BY <2>5, <2>3 DEF Restored, TypeOK, Operation
  <2>. QED  BY <1>3, <2>2, <2>4, <2>5
            DEF SkipRule, DeleteOldRule, Install, Restore, RestoreRuleDel, RestoreRuleAdd
<1>4. ASSUME NEW p \in PlanId, NEW outcome \in {"reverted", "expired"},
             BeginRevert(p, outcome)
      PROVE  ErrorIsReal'
  BY <1>4, <1>2 DEF BeginRevert, Idle
<1>5. CASE op' = Idle
  BY <1>5, <1>2 DEF Idle
<1>6. CASE op' = op /\ (Succeeds \/ Fails)
  <2>1. Clean' => Clean
    BY <1>6, OutcomeIsTyped
  <2>. QED  BY <1>6, <2>1
<1>7. CASE ClientStep
  <2>1. ASSUME NEW p \in PlanId, NEW s \in AskedTimeout, StartApply(p, s)
        PROVE  ErrorIsReal'
    BY <2>1, <1>2 DEF StartApply, Idle
  <2>. QED  BY <1>7, <1>1, <1>4, <1>6, <2>1
            DEF ClientStep, Create, Confirm, StartRevert, environment
<1>8. CASE \E p \in PlanId : TimerFires(p) \/ WatchdogRuns(p)
  BY <1>8, <1>1, <1>4, <1>6 DEF TimerFires, WatchdogRuns, environment
<1>9. CASE BootStep
  <2>1. ASSUME NEW p \in PlanId, RecoverPlan(p)
        PROVE  ErrorIsReal'
    BY <2>1, <1>4, <1>6 DEF RecoverPlan
  <2>2. ASSUME NEW p \in PlanId, BootApply(p)
        PROVE  ErrorIsReal'
    BY <2>2, <1>2 DEF BootApply, Idle
  <2>. QED  BY <1>9, <1>1, <1>6, <2>1, <2>2
            DEF BootStep, Restart, RecoverDone, BootSkips, environment
<1>10. CASE FinishApply
  <2>1. CASE op' = Idle
    BY <2>1, <1>5
  <2>2. CASE op' = [op EXCEPT !.undo = op.done, !.err = TRUE]
    BY <1>10, <2>2, <1>2 DEF FinishApply, TypeOK, Operation
  <2>. QED  BY <1>10, <2>1, <2>2 DEF FinishApply
<1>11. CASE AbortApply \/ FinishRevert \/ FinishBoot
  BY <1>11, <1>5 DEF AbortApply, FinishRevert, FinishBoot
<1>12. CASE Crash \/ Reboot \/ Tick \/ UNCHANGED vars
  BY <1>12, <1>1, <1>5 DEF Crash, Reboot, Die, Tick, vars, environment
<1>. QED
  BY <1>3, <1>7, <1>8, <1>9, <1>10, <1>11, <1>12 DEF Next, HandlerStep

(* Every step that takes a guard away from an applied plan gives it        *)
(* another one, ends its probation, or has met an error.                   *)
LEMMA WatchdogCoversStep ==
    ASSUME TypeOK, HandlerOwnsPlan, DaemonLists, ErrorIsReal, WatchdogCovers, [Next]_vars
    PROVE  WatchdogCovers'
<1>. USE DEF WatchdogCovers, Guarded
<1>1. CASE ~Clean' \/ phase' = "down"
  BY <1>1
<1>2. CASE /\ Clean' => Clean
           /\ phase' # "down" => phase # "down"
           /\ Applied' \subseteq Applied
           /\ \A p \in Applied' : Guarded(p) => Guarded(p)'
  BY <1>2
<1>3. ASSUME NEW p \in PlanId, NEW outcome \in {"reverted", "expired"},
             BeginRevert(p, outcome), op.kind = "idle", Succeeds, UNCHANGED <<state, phase>>,
             fired \ {p} \subseteq fired', recovering \ {p} \subseteq recovering'
      PROVE  WatchdogCovers'
  <2>1. op'.kind = "revert" /\ op'.plan = p /\ armed' = armed \ {p}
    BY <1>3 DEF BeginRevert, Idle
  <2>2. \A q \in Applied : Guarded(q) => Guarded(q)'
    BY <1>3, <2>1
  <2>. QED  BY <1>2, <1>3, <2>2 DEF Succeeds, Clean, Applied
<1>4. CASE ClientStep
  <2>1. ASSUME NEW p \in PlanId, NEW d \in Request, Create(p, d)
        PROVE  WatchdogCovers'
    <3>1. Applied' \subseteq Applied
      BY <2>1 DEF Create, Applied, TypeOK
    <3>. QED  BY <2>1, <3>1, <1>2 DEF Create, daemon, environment, Clean
  <2>2. ASSUME NEW p \in PlanId, NEW s \in AskedTimeout, StartApply(p, s)
        PROVE  WatchdogCovers'
    <3>1. op.kind = "idle" /\ UNCHANGED <<state, armed, fired, recovering, phase, faults, refused>>
      BY <2>2 DEF StartApply, Serving, Mutex, db, daemon, environment
    <3>. QED  BY <3>1, <1>2 DEF Applied, Clean
  <2>3. ASSUME NEW p \in PlanId, Confirm(p)
        PROVE  WatchdogCovers'
    <3>1. CASE Fails
      BY <3>1, <1>1, OutcomeIsTyped
    <3>2. CASE Succeeds /\ state' = [state EXCEPT ![p] = "confirmed"]
      <4>1. Applied' = Applied \ {p}
        BY <3>2 DEF Applied, TypeOK
      <4>2. \A q \in Applied' : Guarded(q) => Guarded(q)'
        BY <2>3, <4>1 DEF Confirm
      <4>. QED  BY <2>3, <3>2, <4>1, <4>2, <1>2 DEF Confirm, Succeeds, Clean
    <3>. QED  BY <2>3, <3>1, <3>2 DEF Confirm
  <2>4. ASSUME NEW p \in PlanId, StartRevert(p)
        PROVE  WatchdogCovers'
    BY <2>4, <1>3 DEF StartRevert, Serving, Mutex, Succeeds, db, environment
  <2>. QED  BY <1>4, <2>1, <2>2, <2>3, <2>4 DEF ClientStep
<1>5. ASSUME NEW p \in PlanId, TimerFires(p) \/ WatchdogRuns(p)
      PROVE  WatchdogCovers'
  <2>1. CASE TimerFires(p)
    BY <2>1, <1>2 DEF TimerFires, Applied, Clean, db, environment
  <2>2. CASE WatchdogRuns(p)
    <3>1. CASE Fails
      BY <3>1, <1>1, OutcomeIsTyped
    <3>2. CASE BeginRevert(p, "expired") /\ Succeeds
      BY <2>2, <3>2, <1>3 DEF WatchdogRuns, Mutex, db
    <3>3. CASE state[p] # "applied" /\ UNCHANGED <<op, armed>> /\ Succeeds
      BY <2>2, <3>3, <1>2 DEF WatchdogRuns, Succeeds, Applied, Clean, db
    <3>. QED  BY <2>2, <3>1, <3>2, <3>3 DEF WatchdogRuns
  <2>. QED  BY <1>5, <2>1, <2>2
<1>6. ASSUME NEW r \in Resource,
             \/ SkipRule(r) \/ DeleteOldRule(r) \/ Install(r)
             \/ Restore(r) \/ RestoreRuleDel(r) \/ RestoreRuleAdd(r)
      PROVE  WatchdogCovers'
  <2>1. UNCHANGED <<state, phase, recovering, armed, fired>>
    BY <1>6 DEF SkipRule, DeleteOldRule, Install, Restore, RestoreRuleDel,
                RestoreRuleAdd, db, daemon
  <2>2. op'.kind = op.kind /\ op'.plan = op.plan
    BY <1>6 DEF SkipRule, DeleteOldRule, Install, Restore, RestoreRuleDel,
                RestoreRuleAdd, Installed, StageFailed, Restored, RestoreFailed,
                TypeOK, Operation
  <2>3. Clean' => Clean
    <3>1. Succeeds \/ Fails \/ Refused
      BY <1>6 DEF SkipRule, DeleteOldRule, Install, Restore, RestoreRuleDel,
                  RestoreRuleAdd, Succeeds, environment
    <3>. QED  BY <3>1, OutcomeIsTyped
  <2>. QED  BY <2>1, <2>2, <2>3, <1>2 DEF Applied
<1>7. CASE FinishApply
  <2>1. CASE Fails
    BY <2>1, <1>1, OutcomeIsTyped
  <2>2. CASE /\ Succeeds
             /\ state' = [state EXCEPT ![op.plan] = "applied"]
             /\ armed' = armed \cup {op.plan}
    <3>1. Applied' \subseteq Applied \cup {op.plan}
      BY <2>2 DEF Applied, TypeOK
    <3>2. op.kind # "revert" /\ Clean = Clean' /\ UNCHANGED <<fired, recovering, phase>>
      BY <1>7, <2>2 DEF FinishApply, Succeeds, Clean
    <3>. QED  BY <2>2, <3>1, <3>2
  <2>. QED  BY <1>7, <2>1, <2>2 DEF FinishApply
<1>8. CASE AbortApply \/ FinishBoot
  <2>1. op.kind # "revert" /\ UNCHANGED <<state, armed, fired, recovering, faults, refused>>
    BY <1>8 DEF AbortApply, FinishBoot, db, daemon, environment
  <2>2. phase # "down"
    BY <1>8 DEF AbortApply, FinishBoot, HandlerOwnsPlan
  <2>. QED  BY <2>1, <2>2, <1>2 DEF Applied, Clean
<1>9. CASE FinishRevert
  <2>1. CASE Fails
    BY <2>1, <1>1, OutcomeIsTyped
  <2>2. CASE op.err /\ Succeeds
    BY <1>9, <2>2, <1>1 DEF FinishRevert, ErrorIsReal, Succeeds, Clean
  <2>3. CASE Succeeds /\ state' = [state EXCEPT ![op.plan] = op.outcome]
    <3>1. Applied' \subseteq Applied \ {op.plan}
      BY <1>9, <2>3 DEF FinishRevert, HandlerOwnsPlan, Applied, TypeOK, Operation
    <3>2. \A q \in Applied' : Guarded(q) => Guarded(q)'
      BY <1>9, <3>1 DEF FinishRevert, daemon
    <3>. QED  BY <1>9, <2>3, <3>1, <3>2, <1>2 DEF FinishRevert, Succeeds, Clean, daemon
  <2>. QED  BY <1>9, <2>1, <2>2, <2>3 DEF FinishRevert
<1>10. CASE BootStep
  <2>1. CASE Restart
    BY <2>1 DEF Restart, Applied, db
  <2>2. ASSUME NEW p \in PlanId, RecoverPlan(p)
        PROVE  WatchdogCovers'
    <3>1. CASE Fails
      BY <3>1, <1>1, OutcomeIsTyped
    <3>2. CASE Succeeds /\ BeginRevert(p, "expired")
      BY <2>2, <3>2, <1>3 DEF RecoverPlan, db
    <3>3. CASE Succeeds /\ armed' = armed \cup {p} /\ UNCHANGED op
      BY <2>2, <3>3, <1>2 DEF RecoverPlan, Succeeds, Applied, Clean, db
    <3>. QED  BY <2>2, <3>1, <3>2, <3>3 DEF RecoverPlan
  <2>3. ASSUME NEW p \in PlanId, BootApply(p)
        PROVE  WatchdogCovers'
    <3>1. op.kind = "idle" /\ UNCHANGED <<state, armed, fired, recovering, phase, faults, refused>>
      BY <2>3 DEF BootApply, Mutex, db, daemon, environment
    <3>. QED  BY <3>1, <1>2 DEF Applied, Clean
  <2>4. CASE RecoverDone
    BY <2>4, <1>2 DEF RecoverDone, Applied, Clean, db, environment
  <2>5. CASE BootSkips
    <3>1. Succeeds \/ Fails
      BY <2>5 DEF BootSkips
    <3>2. Clean' => Clean
      BY <3>1, OutcomeIsTyped
    <3>. QED  BY <2>5, <3>2, <1>2 DEF BootSkips, Applied, db
  <2>. QED  BY <1>10, <2>1, <2>2, <2>3, <2>4, <2>5 DEF BootStep
<1>11. CASE Crash \/ Reboot
  BY <1>11, <1>1 DEF Crash, Reboot, Die
<1>12. CASE Tick \/ UNCHANGED vars
  BY <1>12, <1>2 DEF Tick, vars, Applied, Clean, db, daemon, environment
<1>. QED
  BY <1>4, <1>5, <1>6, <1>7, <1>8, <1>9, <1>10, <1>11, <1>12 DEF Next, HandlerStep

-----------------------------------------------------------------------------
(* The theorems.                                                           *)

LEMMA InitIInv == Init => IInv
<1>. SUFFICES ASSUME Init PROVE IInv
  OBVIOUS
<1>1. Applied = {}
  BY DEF Init, Applied
<1>2. op.kind = "idle" /\ op.half = {} /\ recovering = {} /\ phase = "serving"
  BY DEF Init, Idle
<1>. QED
  BY <1>1, <1>2, InitTypeOK
  DEF IInv, HandlerWork, HandlerOwnsPlan, DaemonLists, AtMostOneApplied, ErrorIsReal,
      WatchdogCovers

LEMMA StepIInv == IInv /\ [Next]_vars => IInv'
BY StepTypeOK, HandlerWorkStep, HandlerOwnsPlanStep, DaemonListsStep, AtMostOneAppliedStep,
   ErrorIsRealStep, WatchdogCoversStep
DEF IInv

LEMMA Invariance == Spec => []IInv
BY InitIInv, StepIInv, PTL DEF Spec

(* Every row, snapshot, kernel cell and handler record is well formed in   *)
(* every reachable state; in particular no deadline lies before the epoch  *)
(* and no handler works on a plan that does not exist.                     *)
THEOREM TypeCorrect == Spec => []TypeOK
<1>1. IInv => TypeOK
  BY DEF IInv
<1>. QED  BY <1>1, Invariance, PTL

(* Never are two plans on probation at once, whatever fails or crashes.    *)
THEOREM OneProbation == Spec => []AtMostOneApplied
<1>1. IInv => AtMostOneApplied
  BY DEF IInv
<1>. QED  BY <1>1, Invariance, PTL

(* What a handler read when it took the mutex is still so when it writes.  *)
THEOREM HandlersAreExclusive == Spec => []HandlerOwnsPlan
<1>1. IInv => HandlerOwnsPlan
  BY DEF IInv
<1>. QED  BY <1>1, Invariance, PTL

(* Short of a failed command, every applied plan has somebody who will end *)
(* its probation, across any number of restarts.                           *)
THEOREM ProbationIsGuarded == Spec => []WatchdogCovers
<1>1. IInv => WatchdogCovers
  BY DEF IInv
<1>. QED  BY <1>1, Invariance, PTL
=============================================================================
