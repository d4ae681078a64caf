------------------------ MODULE PlanHistory_proofs -------------------------
(***************************************************************************)
(* What a careful client can rely on, for every number of plans, every set *)
(* of resources and requests and any number of crashes: between plans the  *)
(* kernel is what the last confirm left, boot heals a restarted host, what *)
(* is confirmed is live, and a failed Apply undoes what it did - rules     *)
(* included, which the engine replaces in two commands and may stack.      *)
(*                                                                         *)
(* The inductive invariant HInv says what the kernel may hold, cell by     *)
(* cell, as long as no command has failed: CellsOK for every restart,      *)
(* BaseOK for the runs without a torn Apply or a reboot of the host.       *)
(***************************************************************************)
EXTENDS PlanHistory, PlanPromises_proofs

(* Plans only a careful client can have: nothing was created after them.   *)
Newest(p) == \A q \in PlanId : q > p => state[q] = "none"
InHand(p) == state[p] \in {"pending", "applied"} /\ Newest(p)

(* No command has failed, and what was confirmed was in the kernel.        *)
Sane == Clean /\ ~hollow
Intact == Sane /\ ~torn /\ ~lost

(* Resources of the last confirmed plan, and what it asks for.             *)
Committed(r) == latest # NoPlan /\ r \in Targets(desired[latest])
Kept(r) == <<desired[latest][r]>>

(* Resources of the plan that is on probation or being applied.            *)
Touched(r) == \E p \in PlanId :
    /\ state[p] = "applied" \/ (op.kind = "apply" /\ op.plan = p)
    /\ r \in Targets(desired[p])

(* The plan on probation is the newest; the last confirmed plan is the one *)
(* ReconcileBoot would choose.                                             *)
PlansInOrder ==
    /\ \A p \in Applied : Newest(p)
    /\ op.kind = "apply" => Newest(op.plan)
    /\ op.kind = "boot" => op.plan = latest
    /\ latest # NoPlan => state[latest] = "confirmed"
    /\ \A p \in PlanId : state[p] = "confirmed" =>
          /\ latest # NoPlan /\ p <= latest
          /\ confirmedAt[p] <= confirmedAt[latest] /\ confirmedAt[p] <= now

HistoryOK ==
    /\ latest \in PlanId \cup {NoPlan}
    /\ {torn, lost, hollow} \subseteq BOOLEAN
    /\ crashes = 0 => phase = "serving" /\ ~torn /\ ~lost /\ (Clean => ~hollow)

(* What the handler in progress knows of the cells it works on.            *)
HandlerCells ==
    /\ \A r \in op.half : live[r] = <<>>
    /\ op.half \subseteq op.todo \cup op.undo
    /\ ~op.err
    /\ op.kind # "revert" => op.undo = {}
    /\ op.kind \in {"apply", "boot"} =>
          op.todo \cap op.done = {} /\ \A r \in op.half : ~AlreadyThere(r)
    /\ op.kind \in {"apply", "revert"} => op.snap = snapshotPre[op.plan]
    /\ op.kind = "apply" => op.done \cup op.todo = Targets(desired[op.plan])
    /\ op.kind = "boot" =>
          /\ \A r \in op.todo \ op.half : IsRule(r) => op.snap[r] = live[r]
          /\ \A r \in Targets(desired[op.plan]) \ op.todo : live[r] = Kept(r)
    /\ op.kind = "revert" =>
          /\ op.undo \subseteq Targets(desired[op.plan])
          /\ \A r \in Targets(desired[op.plan]) \ op.undo : live[r] = op.snap[r]

(* No priority holds two rules.                                            *)
CellsAreSingle == \A r \in Resource : live[r] \in SnapCell

(* Snapshots have the resources of the last confirmed plan as it wants     *)
(* them, and so has the kernel while the daemon serves.                    *)
SnapshotsKeep ==
    \A p \in PlanId : InHand(p) =>
        \A r \in Targets(desired[p]) : Committed(r) => snapshotPre[p][r] = Kept(r)

CommittedIsLive ==
    phase = "serving" => \A r \in Resource : Committed(r) /\ ~Touched(r) => live[r] = Kept(r)

(* What a plan still to be applied will find is what its snapshot says,    *)
(* what it asks for itself, or nothing.                                    *)
PendingFits ==
    \A p \in PlanId : InHand(p) /\ state[p] = "pending" =>
        \A r \in Targets(desired[p]) : live[r] \in {<<>>, snapshotPre[p][r], <<desired[p][r]>>}

CellsOK == CellsAreSingle /\ SnapshotsKeep /\ CommittedIsLive /\ PendingFits

(* The kernel is the last confirmed one but for the plan in hand, whose    *)
(* snapshot has it: it can be put back.                                    *)
BaseOK ==
    /\ base \in Snapshot
    /\ \A r \in Resource : Committed(r) => base[r] = Kept(r)
    /\ \A p \in PlanId : InHand(p) => \A r \in Targets(desired[p]) : snapshotPre[p][r] = base[r]
    /\ \A r \in Resource : ~Touched(r) => live[r] = base[r]
    /\ op.kind = "apply" =>
          /\ \A r \in op.todo \ op.half : live[r] = op.snap[r]
          /\ \A r \in op.done : live[r] = <<desired[op.plan][r]>>
    /\ crashes = 0 /\ op.kind = "idle" => \A p \in Applied : InPlace(p)

(* Of what a failing Apply will not put back, the resource whose command   *)
(* failed is all that differs from the snapshot.                           *)
LeftOK == \A q, r \in Behind \ op.done : q = r /\ (IsRule(r) => live[r] \in {<<>>, <<Wanted(r)>>})

(* An Apply that is putting its resources back after one failed command.   *)
UndoOK ==
    op.kind = "apply" /\ op.err /\ faults = 1 /\ ~refused /\ ~hollow =>
        /\ op.todo = {} /\ op.undo \subseteq op.done /\ op.half \subseteq op.undo
        /\ \A r \in op.undo : live[r] \in SnapCell
        /\ \A r \in op.half : live[r] = <<>>
        /\ \A r \in op.done \ op.undo : live[r] = op.snap[r]
        /\ ~torn /\ ~lost => LeftOK

HInv ==
    /\ HistoryOK
    /\ PlansInOrder
    /\ Sane => HandlerCells /\ CellsOK
    /\ Intact => BaseOK
    /\ UndoOK

HStep == [HNext /\ OneAtATime]_hvars

-----------------------------------------------------------------------------
(* The steps of the engine, by what they do to rows, kernel and handler.   *)

Rests == UNCHANGED <<state, desired, snapshotPre, confirmedAt, live>>

Waits ==
    /\ Rests /\ UNCHANGED op
    /\ now' \in {now, now + 1}
    /\ op.kind # "idle" => UNCHANGED <<faults, refused>>
    /\ phase' = "serving" => \/ phase = "serving"
                             \/ \A p \in PlanId : state[p] # "confirmed"
                             \/ faults' = faults + 1
    /\ phase = "serving" => phase' = "serving"
    /\ phase' = "down" => phase = "down"
    /\ UNCHANGED crashes

Reverts(p) ==
    /\ Rests
    /\ op.kind = "idle" /\ state[p] = "applied"
    /\ op' = [Idle EXCEPT !.kind = "revert", !.plan = p, !.snap = snapshotPre[p],
                          !.undo = Targets(desired[p]), !.outcome = op'.outcome]
    /\ UNCHANGED <<phase, now, crashes>>

LEMMA StepShapes ==
    ASSUME TypeOK, DaemonLists, [Next]_vars
    PROVE  \/ Waits
           \/ \E p \in PlanId :
                 \/ Reverts(p) \/ Confirm(p) \/ BootApply(p)
                 \/ \E d \in Request : Create(p, d)
                 \/ \E s \in AskedTimeout : StartApply(p, s)
           \/ \E r \in Resource : Working(r)
           \/ FinishApply \/ AbortApply \/ FinishRevert \/ FinishBoot
           \/ Crash \/ Reboot
<1>. USE DEF Rests, db, daemon, environment
<1>1. CASE UNCHANGED vars
  BY <1>1 DEF vars, Waits
<1>2. CASE Tick
  BY <1>2 DEF Tick, Waits
<1>3. ASSUME NEW p \in PlanId, TimerFires(p)
      PROVE  Waits
  BY <1>3 DEF TimerFires, Waits
<1>4. ASSUME NEW p \in PlanId, StartRevert(p)
      PROVE  Reverts(p)
  BY <1>4 DEF StartRevert, Serving, Mutex, BeginRevert, Reverts, Idle
<1>5. ASSUME NEW p \in PlanId, WatchdogRuns(p)
      PROVE  Waits \/ Reverts(p)
  <2>1. CASE UNCHANGED op
    BY <1>5, <2>1 DEF WatchdogRuns, Mutex, Waits
  <2>2. CASE state[p] = "applied" /\ BeginRevert(p, "expired")
    BY <1>5, <2>2 DEF WatchdogRuns, Mutex, BeginRevert, Reverts, Idle
  <2>. QED  BY <1>5, <2>1, <2>2 DEF WatchdogRuns
<1>6. ASSUME NEW p \in PlanId, RecoverPlan(p)
      PROVE  Waits \/ Reverts(p)
  <2>1. CASE UNCHANGED op
    BY <1>6, <2>1 DEF RecoverPlan, Waits
  <2>2. CASE BeginRevert(p, "expired")
    <3>1. state[p] = "applied"
      BY <1>6 DEF RecoverPlan, DaemonLists, Applied
    <3>. QED  BY <1>6, <2>2, <3>1 DEF RecoverPlan, BeginRevert, Reverts, Idle
  <2>. QED  BY <1>6, <2>1, <2>2 DEF RecoverPlan
<1>7. CASE Restart \/ RecoverDone \/ BootSkips
  BY <1>7 DEF Restart, RecoverDone, BootSkips, Mutex, Succeeds, Fails, Waits
<1>8. CASE HandlerStep
  BY <1>8 DEF HandlerStep, Working
<1>. QED
  BY <1>1, <1>2, <1>3, <1>4, <1>5, <1>6, <1>7, <1>8 DEF Next, ClientStep, BootStep

(* Errors are for ever, and so is what the history has remembered.         *)
LEMMA ErrorsStay ==
    ASSUME TypeOK, [Next]_vars
    PROVE  /\ faults' \in {faults, faults + 1}
           /\ refused => refused'
           /\ Clean' => Clean /\ faults' = faults
<1>. DEFINE Stay == faults' \in {faults, faults + 1} /\ (refused' = refused \/ refused')
<1>1. Stay
  <2>. USE DEF Succeeds, Fails, Refused, environment, db, daemon
  <2>1. CASE ClientStep
    BY <2>1 DEF ClientStep, Create, StartApply, Confirm, StartRevert
  <2>2. ASSUME NEW p \in PlanId, TimerFires(p) \/ WatchdogRuns(p)
        PROVE  Stay
    BY <2>2 DEF TimerFires, WatchdogRuns
  <2>3. ASSUME NEW r \in Resource, Working(r)
        PROVE  Stay
    BY <2>3 DEF Working, SkipRule, DeleteOldRule, Install, Restore, RestoreRuleDel, RestoreRuleAdd
  <2>4. CASE FinishApply \/ AbortApply \/ FinishRevert \/ FinishBoot
    BY <2>4 DEF FinishApply, AbortApply, FinishRevert, FinishBoot
  <2>5. CASE BootStep
    BY <2>5 DEF BootStep, Restart, RecoverPlan, BootApply, RecoverDone, BootSkips
  <2>6. CASE Crash \/ Reboot \/ Tick \/ UNCHANGED vars
    BY <2>6 DEF Crash, Reboot, Die, Tick, vars
  <2>. QED  BY <2>1, <2>2, <2>3, <2>4, <2>5, <2>6 DEF Next, HandlerStep, Working
<1>. QED  BY <1>1 DEF Clean, TypeOK

LEMMA StepIsEngineStep == HStep => [Next]_vars
BY DEF HStep, HNext, hvars

LEMMA NothingConfirmed ==
    ASSUME hollow \in BOOLEAN, HStep, \A p \in PlanId : ~Confirmed(p)
    PROVE  UNCHANGED <<base, latest, hollow>>
BY DEF HStep, HNext, Remember, hvars, history

LEMMA RestsConfirmNothing ==
    ASSUME hollow \in BOOLEAN, HStep, UNCHANGED state
    PROVE  UNCHANGED <<base, latest, hollow>>
BY NothingConfirmed DEF Confirmed

LEMMA HistoryStays ==
    ASSUME TypeOK, HStep, {torn, lost, hollow} \subseteq BOOLEAN
    PROVE  /\ {torn', lost', hollow'} \subseteq BOOLEAN
           /\ Sane' => Sane
           /\ Intact' => Intact
           /\ Intact' /\ Die => op.kind # "apply"
           /\ Intact' => ~Reboot
<1>1. CASE UNCHANGED hvars
  BY <1>1, ErrorsStay, StepIsEngineStep DEF hvars, history, Sane, Intact, vars, daemon, Die, Reboot
<1>2. CASE Remember
  BY <1>2, ErrorsStay, StepIsEngineStep DEF Remember, Sane, Intact, Dies, Die, Reboot
<1>. QED  BY <1>1, <1>2 DEF HStep, HNext

(* The step that confirms a plan.                                          *)
LEMMA ConfirmRemembers ==
    ASSUME TypeOK, HStep, NEW p \in PlanId, Confirm(p), faults' = faults
    PROVE  /\ state[p] = "applied" /\ state' = [state EXCEPT ![p] = "confirmed"]
           /\ confirmedAt' = [confirmedAt EXCEPT ![p] = now] /\ now' = now
           /\ op.kind = "idle" /\ phase = "serving"
           /\ UNCHANGED <<desired, snapshotPre, live, op, phase, crashes>>
           /\ base' = live /\ latest' = p
           /\ hollow' <=> (hollow \/ ~InPlace(p))
<1>1. /\ state[p] = "applied" /\ state' = [state EXCEPT ![p] = "confirmed"]
      /\ confirmedAt' = [confirmedAt EXCEPT ![p] = now] /\ now' = now
      /\ op.kind = "idle" /\ phase = "serving"
      /\ UNCHANGED <<desired, snapshotPre, live, op, phase, crashes>>
  BY DEF Confirm, Serving, Mutex, Fails, TypeOK
<1>2. \A q \in PlanId : Confirmed(q) <=> q = p
  BY <1>1 DEF Confirmed, TypeOK
<1>3. Remember
  BY <1>1 DEF HStep, HNext, hvars, vars, db, TypeOK
<1>4. (CHOOSE q \in PlanId : Confirmed(q)) = p
  BY <1>2
<1>. QED  BY <1>1, <1>2, <1>3, <1>4 DEF Remember

-----------------------------------------------------------------------------
(* The order of the plans.                                                 *)

(* Facts that the lemmas below share.                                      *)
Known == IInv /\ WorkOK /\ HistoryOK /\ PlansInOrder

LEMMA LastConfirmedIsLatest ==
    ASSUME TypeOK, HistoryOK, PlansInOrder, NEW p \in PlanId, IsLastConfirmed(p)
    PROVE  p = latest
<1>1. state[p] = "confirmed" /\ latest \in PlanId /\ state[latest] = "confirmed"
  BY DEF IsLastConfirmed, PlansInOrder, HistoryOK
<1>2. p <= latest /\ confirmedAt[p] <= confirmedAt[latest]
  BY <1>1 DEF PlansInOrder
<1>3. confirmedAt[p] \in Nat /\ confirmedAt[latest] \in Nat /\ p \in Nat /\ latest \in Nat
  BY <1>1, PlansAssumption DEF TypeOK, PlanId
<1>. QED  BY <1>1, <1>2, <1>3 DEF IsLastConfirmed

LEMMA OrderStep ==
    ASSUME Known, HStep
    PROVE  PlansInOrder'
<1>0. TypeOK /\ HandlerOwnsPlan /\ AtMostOneApplied /\ DaemonLists /\ HistoryOK /\ PlansInOrder
  BY DEF Known, IInv
<1>1. hollow \in BOOLEAN /\ (latest # NoPlan => latest \in PlanId)
  BY <1>0 DEF HistoryOK
<1>2. \A p \in PlanId : p \in Nat /\ confirmedAt[p] \in Nat
  BY <1>0, PlansAssumption DEF PlanId, TypeOK
<1>3. now \in Nat /\ state \in [PlanId -> PlanState]
  BY <1>0 DEF TypeOK
<1>4. CASE Waits
  BY <1>0, <1>1, <1>2, <1>3, <1>4, RestsConfirmNothing DEF Waits, Rests, PlansInOrder, Newest, Applied
<1>5. ASSUME NEW p \in PlanId, Reverts(p)
      PROVE  PlansInOrder'
  <2>1. UNCHANGED <<state, confirmedAt>> /\ op'.kind = "revert" /\ now' = now
    BY <1>5 DEF Reverts, Idle, Rests
  <2>. QED  BY <1>0, <1>1, <2>1, RestsConfirmNothing DEF PlansInOrder, Newest, Applied
<1>6. ASSUME NEW p \in PlanId, Confirm(p)
      PROVE  PlansInOrder'
  <2>1. CASE faults' = faults
    <3>1. Applied = {p} /\ Newest(p)
      BY <1>0, <1>6, <2>1, ConfirmRemembers DEF AtMostOneApplied, Applied, PlansInOrder
    <3>2. /\ latest' = p /\ state' = [state EXCEPT ![p] = "confirmed"]
          /\ confirmedAt' = [confirmedAt EXCEPT ![p] = now] /\ now' = now
          /\ op' = op /\ op.kind = "idle"
      BY <1>0, <1>6, <2>1, ConfirmRemembers
    <3>3. Applied' = {}
      BY <1>3, <3>1, <3>2 DEF Applied
    <3>4. confirmedAt'[p] = now /\ state'[p] = "confirmed"
      BY <1>0, <1>3, <3>2 DEF TypeOK
    <3>5. ASSUME NEW q \in PlanId, q # p, state'[q] = "confirmed"
          PROVE  q <= p /\ confirmedAt'[q] <= now
      <4>1. state[q] = "confirmed" /\ confirmedAt'[q] = confirmedAt[q]
        BY <1>0, <1>3, <3>2, <3>5 DEF TypeOK
      <4>2. ~(q > p)
        BY <3>1, <4>1 DEF Newest
      <4>. QED  BY <1>0, <1>2, <4>1, <4>2 DEF PlansInOrder
    <3>6. p # NoPlan
      BY DEF PlanId, NoPlan
    <3>. QED  BY <1>2, <1>3, <3>2, <3>3, <3>4, <3>5, <3>6 DEF PlansInOrder
  <2>2. CASE faults' # faults
    <3>1. UNCHANGED <<state, confirmedAt, op, now>>
      BY <1>6, <2>2 DEF Confirm, Succeeds
    <3>. QED  BY <1>0, <1>1, <3>1, RestsConfirmNothing DEF PlansInOrder, Newest, Applied
  <2>. QED  BY <2>1, <2>2
<1>7. ASSUME NEW p \in PlanId, BootApply(p)
      PROVE  PlansInOrder'
  <2>1. UNCHANGED <<state, confirmedAt, now>> /\ op'.kind = "boot" /\ op'.plan = p /\ p = latest
    BY <1>0, <1>7, LastConfirmedIsLatest DEF BootApply, Idle, db, environment
  <2>. QED  BY <1>0, <1>1, <2>1, RestsConfirmNothing DEF PlansInOrder, Newest, Applied
<1>8. ASSUME NEW p \in PlanId, NEW d \in Request, Create(p, d)
      PROVE  PlansInOrder'
  <2>1. /\ state[p] = "none" /\ state' = [state EXCEPT ![p] = "pending"]
        /\ op' = op /\ op.kind = "idle" /\ UNCHANGED <<confirmedAt, now>>
    BY <1>8 DEF Create, Serving, Mutex, environment
  <2>2. state'[p] = "pending" /\ \A q \in PlanId \ {p} : state'[q] = state[q]
    BY <1>3, <2>1
  <2>3. Applied = {}
    <3>1. OneAtATime
      BY <2>1, <2>2 DEF HStep, hvars, vars, db
    <3>. QED  BY <2>1, <2>2, <3>1 DEF OneAtATime
  <2>4. Applied' = {} /\ latest' = latest
    BY <1>1, <2>1, <2>2, <2>3, NothingConfirmed DEF Applied, Confirmed
  <2>. QED  BY <1>0, <2>1, <2>2, <2>4 DEF PlansInOrder
<1>9. ASSUME NEW p \in PlanId, NEW s \in AskedTimeout, StartApply(p, s)
      PROVE  PlansInOrder'
  <2>1. /\ UNCHANGED <<state, confirmedAt, now>> /\ op'.kind = "apply" /\ op'.plan = p
        /\ op.kind = "idle"
    BY <1>9 DEF StartApply, Serving, Mutex, Idle, db, environment
  <2>2. \A q \in (p + 1)..MaxPlans : state[q] = "none"
    BY <2>1 DEF HStep, OneAtATime, hvars, vars
  <2>3. Newest(p)
    BY <2>2, PlansAssumption DEF Newest, PlanId
  <2>. QED  BY <1>0, <1>1, <2>1, <2>3, RestsConfirmNothing DEF PlansInOrder, Newest, Applied
<1>10. ASSUME NEW r \in Resource, Working(r)
       PROVE  PlansInOrder'
  <2>1. UNCHANGED confirmedAt
    BY <1>10 DEF Working, SkipRule, DeleteOldRule, Install, Restore, RestoreRuleDel, RestoreRuleAdd, db
  <2>. QED  BY <1>0, <1>1, <1>10, <2>1, WorkKeepsHandler, RestsConfirmNothing
            DEF PlansInOrder, Newest, Applied
<1>11. CASE FinishApply \/ FinishRevert
  <2>1. /\ op.plan \in PlanId /\ Newest(op.plan) /\ state[op.plan] \in {"pending", "applied"}
        /\ UNCHANGED <<confirmedAt, now>>
        /\ op' = Idle \/ (op'.kind = "apply" /\ op'.plan = op.plan /\ UNCHANGED state)
    BY <1>0, <1>11 DEF FinishApply, FinishRevert, HandlerOwnsPlan, PlansInOrder, Applied, TypeOK, Operation
  <2>2. \/ state' = state
        \/ \E x \in {"applied", "reverted", "expired"} :
              /\ state' = [state EXCEPT ![op.plan] = x]
              /\ x = "applied" => op.kind = "apply"
    BY <1>0, <1>11 DEF FinishApply, FinishRevert, TypeOK, Operation
  <2>3. CASE state' = state
    BY <1>0, <1>1, <2>1, <2>3, RestsConfirmNothing DEF PlansInOrder, Newest, Applied, Idle
  <2>4. CASE \E x \in {"applied", "reverted", "expired"} : state' = [state EXCEPT ![op.plan] = x]
    <3>1. /\ \A q \in PlanId \ {op.plan} : state'[q] = state[q]
          /\ state'[op.plan] \in {"applied", "reverted", "expired"}
      BY <1>3, <2>1, <2>4
    <3>2. latest' = latest
      BY <1>1, <3>1, NothingConfirmed DEF Confirmed
    <3>3. op.plan # latest
      BY <1>0, <2>1 DEF PlansInOrder, NoPlan, PlanId
    <3>4. \A q \in PlanId : q > op.plan => state'[q] = "none"
      <4>1. \A q \in PlanId : q > op.plan => q # op.plan
        BY <1>2, <2>1
      <4>. QED  BY <2>1, <3>1, <4>1 DEF Newest
    <3>5. CASE op' = Idle
      <4>1. Applied' \subseteq Applied \cup {op.plan}
        BY <3>1 DEF Applied
      <4>2. \A q \in Applied' : Newest(q)'
        <5>1. ASSUME NEW q \in Applied, q # op.plan
              PROVE  Newest(q)'
          <6>1. q \in PlanId /\ ~(op.plan > q)
            BY <1>0, <2>1, <5>1 DEF PlansInOrder, Newest, Applied
          <6>2. \A x \in PlanId : x > q => x # op.plan
            BY <1>2, <2>1, <6>1
          <6>. QED  BY <1>0, <3>1, <6>1, <6>2 DEF PlansInOrder, Newest
        <5>. QED  BY <3>4, <4>1, <5>1 DEF Newest
      <4>3. op'.kind = "idle" /\ UNCHANGED <<confirmedAt, now, latest>>
        BY <2>1, <3>2, <3>5 DEF Idle
      <4>4. \A q \in PlanId : state'[q] = "confirmed" <=> state[q] = "confirmed" /\ q # op.plan
        BY <3>1
      <4>5. latest # NoPlan => state'[latest] = "confirmed"
        BY <1>0, <1>1, <3>3, <4>4 DEF PlansInOrder
      <4>. QED  BY <1>0, <4>2, <4>3, <4>4, <4>5 DEF PlansInOrder
    <3>. QED  BY <2>1, <2>3, <3>5
  <2>. QED  BY <2>2, <2>3, <2>4
<1>12. CASE AbortApply \/ FinishBoot \/ Crash \/ Reboot
  <2>1. UNCHANGED <<state, confirmedAt, now>> /\ op' = Idle
    BY <1>12 DEF AbortApply, FinishBoot, Crash, Reboot, Die, db, environment
  <2>. QED  BY <1>0, <1>1, <2>1, RestsConfirmNothing DEF PlansInOrder, Newest, Applied, Idle
<1>. QED
  BY <1>0, <1>4, <1>5, <1>6, <1>7, <1>8, <1>9, <1>10, <1>11, <1>12, StepShapes, StepIsEngineStep

-----------------------------------------------------------------------------
(* What a command that succeeds makes of its cell.                         *)

InstallDone(r) ==
    /\ op.kind \in {"apply", "boot"} /\ r \in op.todo /\ op.half \subseteq {r}
    /\ op'.todo = op.todo \ {r} /\ op'.done = op.done \cup {r}
    /\ op'.half = {} /\ op'.undo = op.undo /\ op'.err = op.err
    /\ live'[r] = <<Wanted(r)>> \/ (AlreadyThere(r) /\ live'[r] = live[r])

RuleDeleted(r) ==
    /\ op.kind \in {"apply", "boot"} /\ r \in op.todo /\ op.half \subseteq {r}
    /\ MustDeleteFirst(r) /\ live'[r] = <<>>
    /\ op'.todo = op.todo /\ op'.done = op.done
    /\ op'.half = {r} /\ op'.undo = op.undo /\ op'.err = op.err

RestoreDone(r) ==
    /\ r \in op.undo /\ op.half \subseteq {r}
    /\ op'.undo = op.undo \ {r} /\ op'.half = {} /\ op'.err = op.err
    /\ op'.todo = op.todo /\ op'.done = op.done
    /\ live'[r] = op.snap[r]

RestoreHalfDone(r) ==
    /\ r \in op.undo /\ op.half \subseteq {r}
    /\ op'.undo = op.undo /\ op'.half = {r} /\ op'.err = op.err
    /\ op'.todo = op.todo /\ op'.done = op.done
    /\ live'[r] = <<>>

LEMMA SnapCells ==
    ASSUME NEW c \in SnapCell
    PROVE  /\ AfterRuleDel(c) = <<>> /\ Observe(c) = c
           /\ c # <<>> => c[1] \in Value /\ c = <<c[1]>>
<1>1. CASE c = <<>>
  BY <1>1 DEF AfterRuleDel, Observe
<1>2. CASE c # <<>>
  <2>1. PICK v \in Value : c = <<v>>
    BY <1>2 DEF SnapCell
  <2>. QED  BY <2>1 DEF AfterRuleDel, Observe
<1>. QED  BY <1>1, <1>2

LEMMA AppendToNone ==
    ASSUME NEW v
    PROVE  Append(<<>>, v) = <<v>>
OBVIOUS

LEMMA OtherCells ==
    ASSUME TypeOK, NEW r \in Resource, Working(r)
    PROVE  /\ \A x \in Resource \ {r} : live'[x] = live[x]
           /\ UNCHANGED <<confirmedAt, crashes>>
<1>. USE DEF TypeOK, db, environment
<1>1. CASE SkipRule(r)
  BY <1>1 DEF SkipRule
<1>2. CASE DeleteOldRule(r) \/ Install(r)
  BY <1>2 DEF DeleteOldRule, Install
<1>3. CASE Restore(r) \/ RestoreRuleDel(r) \/ RestoreRuleAdd(r)
  BY <1>3 DEF Restore, RestoreRuleDel, RestoreRuleAdd
<1>. QED  BY <1>1, <1>2, <1>3 DEF Working

LEMMA RestoreShapes ==
    ASSUME TypeOK, NEW r \in Resource, live[r] \in SnapCell,
           r \in op.half => live[r] = <<>> /\ op.snap[r] # <<>>,
           faults' = faults, refused = FALSE, refused' = FALSE,
           Restore(r) \/ RestoreRuleDel(r) \/ RestoreRuleAdd(r)
    PROVE  RestoreDone(r) \/ RestoreHalfDone(r)
<1>0. /\ op.snap[r] \in SnapCell /\ faults \in Nat /\ live \in [Resource -> Cell]
      /\ op \in Operation
  BY DEF TypeOK, Operation, Snapshot
<1>. USE DEF Fails, Refused, Succeeds
<1>a. /\ Restored(r).undo = op.undo \ {r} /\ Restored(r).half = {} /\ Restored(r).err = op.err
      /\ Restored(r).todo = op.todo /\ Restored(r).done = op.done
  BY <1>0 DEF Restored, Operation
<1>1. CASE Restore(r)
  <2>1. r \in op.undo /\ op.half \subseteq {r}
    BY <1>1 DEF Restore, Restoring
  <2>2. op' = Restored(r) /\ live' = [live EXCEPT ![r] = op.snap[r]]
    BY <1>0, <1>1 DEF Restore
  <2>. QED  BY <1>0, <1>a, <2>1, <2>2 DEF RestoreDone
<1>2. CASE RestoreRuleDel(r)
  <2>1. r \in op.undo /\ op.half \subseteq {r}
    BY <1>2 DEF RestoreRuleDel, Restoring
  <2>2. live' = [live EXCEPT ![r] = AfterRuleDel(live[r])]
    BY <1>0, <1>2 DEF RestoreRuleDel
  <2>3. live'[r] = <<>>
    BY <1>0, <2>2, SnapCells
  <2>4. CASE op.snap[r] = <<>>
    BY <1>2, <1>a, <2>1, <2>3, <2>4 DEF RestoreRuleDel, RestoreDone
  <2>5. CASE op.snap[r] # <<>>
    <3>1. op' = [op EXCEPT !.half = {r}]
      BY <1>2, <2>5 DEF RestoreRuleDel
    <3>. QED  BY <1>0, <2>1, <2>3, <3>1 DEF RestoreHalfDone, Operation
  <2>. QED  BY <2>4, <2>5
<1>3. CASE RestoreRuleAdd(r)
  <2>1. r \in op.undo /\ op.half \subseteq {r} /\ r \in op.half
    BY <1>3 DEF RestoreRuleAdd, Restoring
  <2>2. op' = Restored(r) /\ live' = [live EXCEPT ![r] = Append(live[r], op.snap[r][1])]
    BY <1>0, <1>3 DEF RestoreRuleAdd
  <2>3. live'[r] = <<op.snap[r][1]>>
    BY <1>0, <2>1, <2>2, AppendToNone
  <2>4. op.snap[r] = <<op.snap[r][1]>>
    BY <1>0, <2>1, SnapCells
  <2>. QED  BY <1>a, <2>1, <2>2, <2>3, <2>4 DEF RestoreDone
<1>. QED  BY <1>1, <1>2, <1>3

(* The cell an install meets, when no command has failed.                  *)
LEMMA MeetsEmptyCell ==
    ASSUME Known, Sane, HandlerCells, CellsOK, NEW r \in Resource,
           Install(r), IsRule(r), ~RuleAddRefused(live[r], Wanted(r))
    PROVE  live[r] = <<>>
<1>1. op.kind \in {"apply", "boot"} /\ r \in op.todo /\ ~AlreadyThere(r) /\ ~MustDeleteFirst(r)
  BY DEF Install, Installing
<1>2. CASE r \in op.half
  BY <1>1, <1>2 DEF HandlerCells
<1>3. CASE r \notin op.half
  <2>1. op.snap[r] = <<>>
    BY <1>1, <1>3 DEF AlreadyThere, MustDeleteFirst
  <2>2. CASE op.kind = "boot"
    BY <1>1, <1>3, <2>1, <2>2 DEF HandlerCells
  <2>3. CASE op.kind = "apply"
    <3>1. op.plan \in PlanId /\ InHand(op.plan) /\ state[op.plan] = "pending"
      BY <2>3 DEF Known, IInv, HandlerOwnsPlan, InHand, PlansInOrder
    <3>2. r \in Targets(desired[op.plan]) /\ op.snap = snapshotPre[op.plan]
      BY <1>1, <2>3 DEF Known, IInv, HandlerWork, HandlerCells
    <3>3. live[r] \in {<<>>, <<Wanted(r)>>}
      BY <2>1, <3>1, <3>2 DEF CellsOK, PendingFits, Wanted
    <3>4. RuleAddRefused(<<Wanted(r)>>, Wanted(r))
      BY DEF RuleAddRefused
    <3>. QED  BY <3>3, <3>4
  <2>. QED  BY <1>1, <2>2, <2>3
<1>. QED  BY <1>2, <1>3

LEMMA Worked ==
    ASSUME Known, Sane, faults' = faults, refused' = FALSE, HandlerCells, CellsOK,
           NEW r \in Resource, Working(r)
    PROVE  \/ InstallDone(r) \/ RuleDeleted(r)
           \/ op.kind = "revert" /\ (RestoreDone(r) \/ RestoreHalfDone(r))
<1>0. /\ TypeOK /\ op \in Operation /\ faults \in Nat /\ refused = FALSE
      /\ live[r] \in SnapCell
  BY DEF Known, IInv, TypeOK, Sane, Clean, CellsOK, CellsAreSingle
<1>. USE DEF Fails, Refused, Succeeds
<1>a. /\ Installed(r).todo = op.todo \ {r} /\ Installed(r).done = op.done \cup {r}
      /\ Installed(r).half = {} /\ Installed(r).undo = op.undo /\ Installed(r).err = op.err
  BY <1>0 DEF Installed, Operation
<1>1. CASE SkipRule(r)
  BY <1>1, <1>a DEF SkipRule, Installing, InstallDone
<1>2. CASE DeleteOldRule(r)
  <2>1. /\ op.kind \in {"apply", "boot"} /\ r \in op.todo /\ op.half \subseteq {r}
        /\ MustDeleteFirst(r)
    BY <1>2 DEF DeleteOldRule, Installing
  <2>2. live' = [live EXCEPT ![r] = AfterRuleDel(live[r])] /\ op' = [op EXCEPT !.half = {r}]
    BY <1>0, <1>2 DEF DeleteOldRule
  <2>3. live'[r] = <<>>
    BY <1>0, <2>2, SnapCells DEF TypeOK
  <2>. QED  BY <1>0, <2>1, <2>2, <2>3 DEF RuleDeleted, Operation
<1>3. CASE Install(r)
  <2>1. op.kind \in {"apply", "boot"} /\ r \in op.todo /\ op.half \subseteq {r}
    BY <1>3 DEF Install, Installing
  <2>2. /\ ~(IsRule(r) /\ RuleAddRefused(live[r], Wanted(r)))
        /\ live' = [live EXCEPT ![r] = AfterInstall(r, live[r], Wanted(r))]
        /\ op' = Installed(r)
    BY <1>0, <1>3 DEF Install
  <2>3. AfterInstall(r, live[r], Wanted(r)) = <<Wanted(r)>>
    BY <1>3, <2>2, MeetsEmptyCell, AppendToNone DEF AfterInstall
  <2>. QED  BY <1>0, <1>a, <2>1, <2>2, <2>3 DEF InstallDone, TypeOK
<1>4. CASE Restore(r) \/ RestoreRuleDel(r) \/ RestoreRuleAdd(r)
  <2>1. r \in op.undo
    BY <1>4 DEF Restore, RestoreRuleDel, RestoreRuleAdd, Restoring
  <2>3. op.kind = "revert"
    BY <2>1 DEF HandlerCells
  <2>4. r \in op.half => live[r] = <<>> /\ op.snap[r] # <<>>
    BY <2>3 DEF Known, IInv, HandlerWork, HandlerCells
  <2>. QED  BY <1>0, <1>4, <2>3, <2>4, RestoreShapes
<1>. QED  BY <1>1, <1>2, <1>3, <1>4 DEF Working

-----------------------------------------------------------------------------
(* The handler's cells.                                                    *)

(* A step in which no command has failed, now or before.                   *)
SaneStep == /\ Known /\ HStep
            /\ Sane /\ Sane' /\ HandlerCells /\ CellsOK

LEMMA SaneFacts ==
    ASSUME SaneStep
    PROVE  /\ TypeOK /\ HandlerWork /\ HandlerOwnsPlan /\ DaemonLists /\ AtMostOneApplied
           /\ HistoryOK /\ PlansInOrder /\ [Next]_vars
           /\ op \in Operation /\ hollow \in BOOLEAN /\ (latest # NoPlan => latest \in PlanId)
           /\ faults' = faults /\ faults \in Nat /\ refused = FALSE /\ refused' = FALSE /\ ~op.err
<1>1. TypeOK /\ HistoryOK /\ HandlerWork /\ HandlerOwnsPlan /\ DaemonLists /\ AtMostOneApplied
      /\ PlansInOrder /\ [Next]_vars
  BY StepIsEngineStep DEF SaneStep, Known, IInv
<1>2. faults' = faults /\ ~refused /\ ~refused'
  BY <1>1, ErrorsStay DEF SaneStep, Sane, Clean
<1>. QED  BY <1>1, <1>2 DEF SaneStep, TypeOK, HistoryOK, HandlerCells

LEMMA WorkFrame ==
    ASSUME Known, HStep, NEW r \in Resource, Working(r)
    PROVE  /\ UNCHANGED <<state, desired, snapshotPre, phase, now, confirmedAt, crashes,
                          base, latest, hollow>>
           /\ op'.kind = op.kind /\ op'.plan = op.plan /\ op'.snap = op.snap
           /\ \A x \in Resource \ {r} : live'[x] = live[x]
<1>1. TypeOK /\ hollow \in BOOLEAN
  BY DEF Known, IInv, HistoryOK
<1>. QED  BY <1>1, WorkKeepsHandler, OtherCells, RestsConfirmNothing

(* The handlers that only touch their own row, or none.                    *)
LEMMA FinishFrame ==
    ASSUME SaneStep, FinishApply \/ AbortApply \/ FinishRevert \/ FinishBoot
    PROVE  /\ op' = Idle /\ ~AbortApply
           /\ UNCHANGED <<desired, snapshotPre, live, confirmedAt, now, crashes, base, latest, hollow>>
           /\ FinishApply => /\ op.kind = "apply" /\ op.todo = {} /\ phase' = phase
                             /\ state' = [state EXCEPT ![op.plan] = "applied"]
           /\ FinishRevert => /\ op.kind = "revert" /\ op.undo = {} /\ phase' = phase
                              /\ state' = [state EXCEPT ![op.plan] = op.outcome]
                              /\ op.outcome \in {"reverted", "expired"}
           /\ FinishBoot => op.kind = "boot" /\ op.todo = {} /\ UNCHANGED state
<1>. USE SaneFacts
<1>1. CASE FinishApply
  <2>1. /\ op' = Idle /\ op.kind = "apply" /\ op.todo = {} /\ phase' = phase
        /\ state' = [state EXCEPT ![op.plan] = "applied"]
        /\ UNCHANGED <<desired, snapshotPre, live, confirmedAt, now, crashes>>
    BY <1>1 DEF FinishApply, Fails
  <2>2. UNCHANGED <<base, latest, hollow>>
    BY <2>1, NothingConfirmed DEF Confirmed, HandlerOwnsPlan, SaneStep, TypeOK
  <2>. QED  BY <1>1, <2>1, <2>2 DEF FinishRevert, FinishBoot, AbortApply
<1>2. CASE AbortApply
  BY <1>2 DEF AbortApply
<1>3. CASE FinishRevert
  <2>1. /\ op' = Idle /\ op.kind = "revert" /\ op.undo = {} /\ phase' = phase
        /\ state' = [state EXCEPT ![op.plan] = op.outcome]
        /\ UNCHANGED <<desired, snapshotPre, live, confirmedAt, now, crashes>>
    BY <1>3 DEF FinishRevert, Fails, daemon
  <2>2. op.outcome \in {"reverted", "expired"}
    BY DEF Operation
  <2>3. UNCHANGED <<base, latest, hollow>>
    BY <2>1, <2>2, NothingConfirmed DEF Confirmed, HandlerOwnsPlan, SaneStep, TypeOK
  <2>. QED  BY <1>3, <2>1, <2>2, <2>3 DEF FinishApply, FinishBoot, AbortApply
<1>4. CASE FinishBoot
  <2>1. UNCHANGED <<state, desired, snapshotPre, confirmedAt, live, now, crashes>> /\ op' = Idle
        /\ op.kind = "boot" /\ op.todo = {}
    BY <1>4 DEF FinishBoot, db, environment
  <2>. QED  BY <1>4, <2>1, RestsConfirmNothing DEF FinishApply, FinishRevert, AbortApply, SaneStep
<1>. QED  BY <1>1, <1>2, <1>3, <1>4

LEMMA IdleCells == op' = Idle => HandlerCells'
BY DEF Idle, HandlerCells

LEMMA WorkCells ==
    ASSUME SaneStep, NEW r \in Resource, Working(r)
    PROVE  HandlerCells'
<1>. USE SaneFacts
<1>1. /\ UNCHANGED <<desired, snapshotPre, latest>>
      /\ op'.kind = op.kind /\ op'.plan = op.plan /\ op'.snap = op.snap
      /\ \A x \in Resource \ {r} : live'[x] = live[x]
  BY WorkFrame DEF SaneStep
<1>2. \A x : (AlreadyThere(x)' <=> AlreadyThere(x)) /\ Kept(x)' = Kept(x)
  BY <1>1 DEF AlreadyThere, Wanted, Kept
<1>3. op.todo \cup op.undo \subseteq Resource
  BY DEF Operation
<1>4. CASE InstallDone(r)
  <2>1. /\ op.kind \in {"apply", "boot"} /\ r \in op.todo /\ op.undo = {}
        /\ op'.half = {} /\ op'.undo = {} /\ ~op'.err
        /\ op'.todo = op.todo \ {r} /\ op'.done = op.done \cup {r}
    BY <1>4 DEF InstallDone, SaneStep, HandlerCells
  <2>2. CASE op.kind = "apply"
    <3>1. op.done \cup op.todo = Targets(desired[op.plan])
      BY <2>2 DEF SaneStep, HandlerCells
    <3>. QED  BY <1>1, <2>1, <2>2, <3>1 DEF SaneStep, HandlerCells
  <2>3. CASE op.kind = "boot"
    <3>1. live'[r] = Kept(r)
      <4>1. Kept(r) = <<Wanted(r)>>
        BY <2>3 DEF Kept, Wanted, PlansInOrder
      <4>2. CASE AlreadyThere(r) /\ live'[r] = live[r]
        <5>1. r \in op.todo \ op.half /\ IsRule(r) /\ op.snap[r] = <<Wanted(r)>>
          BY <2>1, <2>3, <4>2 DEF SaneStep, HandlerCells, AlreadyThere
        <5>. QED  BY <2>3, <4>1, <4>2, <5>1 DEF SaneStep, HandlerCells
      <4>. QED  BY <1>4, <4>1, <4>2 DEF InstallDone
    <3>2. op.half \subseteq {r}
      BY <1>4 DEF InstallDone
    <3>3. \A x \in op'.todo \ op'.half : IsRule(x) => op'.snap[x] = live'[x]
      BY <1>1, <1>3, <2>1, <2>3, <3>2 DEF SaneStep, HandlerCells
    <3>4. \A x \in Targets(desired[op.plan]) \ op'.todo : live'[x] = Kept(x)
      BY <1>1, <2>1, <2>3, <3>1 DEF SaneStep, HandlerCells, Targets
    <3>. QED  BY <1>1, <1>2, <2>1, <2>3, <3>3, <3>4 DEF SaneStep, HandlerCells
  <2>. QED  BY <2>1, <2>2, <2>3
<1>5. CASE RuleDeleted(r)
  <2>1. /\ op.kind \in {"apply", "boot"} /\ r \in op.todo /\ op.undo = {} /\ op.half \subseteq {r}
        /\ op'.half = {r} /\ op'.undo = {} /\ ~op'.err /\ live'[r] = <<>>
        /\ op'.todo = op.todo /\ op'.done = op.done /\ ~AlreadyThere(r)
    BY <1>5 DEF RuleDeleted, SaneStep, HandlerCells, MustDeleteFirst, AlreadyThere
  <2>2. CASE op.kind = "apply"
    <3>1. op.done \cup op.todo = Targets(desired[op.plan]) /\ op.snap = snapshotPre[op.plan]
          /\ op.todo \cap op.done = {}
      BY <2>2 DEF SaneStep, HandlerCells
    <3>. QED  BY <1>1, <1>2, <2>1, <2>2, <3>1 DEF HandlerCells
  <2>3. CASE op.kind = "boot"
    <3>1. \A x \in op'.todo \ op'.half : IsRule(x) => op'.snap[x] = live'[x]
      BY <1>1, <1>3, <2>1, <2>3 DEF SaneStep, HandlerCells
    <3>2. \A x \in Targets(desired[op.plan]) \ op'.todo : live'[x] = Kept(x)
      BY <1>1, <2>1, <2>3 DEF SaneStep, HandlerCells, Targets
    <3>3. op.todo \cap op.done = {}
      BY <2>3 DEF SaneStep, HandlerCells
    <3>. QED  BY <1>1, <1>2, <2>1, <2>3, <3>1, <3>2, <3>3 DEF HandlerCells
  <2>. QED  BY <2>1, <2>2, <2>3
<1>6. CASE op.kind = "revert" /\ (RestoreDone(r) \/ RestoreHalfDone(r))
  <2>1. /\ op.snap = snapshotPre[op.plan] /\ op.undo \subseteq Targets(desired[op.plan])
        /\ \A x \in Targets(desired[op.plan]) \ op.undo : live[x] = op.snap[x]
    BY <1>6 DEF SaneStep, HandlerCells
  <2>2. /\ ~op'.err /\ r \in op.undo
        /\ \/ op'.undo = op.undo \ {r} /\ op'.half = {} /\ live'[r] = op.snap[r]
           \/ op'.undo = op.undo /\ op'.half = {r} /\ live'[r] = <<>>
    BY <1>6 DEF RestoreDone, RestoreHalfDone
  <2>3. \A x \in Targets(desired[op.plan]) \ op'.undo : live'[x] = op.snap[x]
    BY <1>1, <2>1, <2>2 DEF Targets
  <2>. QED  BY <1>1, <1>6, <2>1, <2>2, <2>3 DEF HandlerCells
<1>. QED  BY <1>4, <1>5, <1>6, Worked DEF SaneStep

LEMMA HandlerCellsStep ==
    ASSUME SaneStep
    PROVE  HandlerCells'
<1>. USE SaneFacts
<1>1. CASE Waits
  <2>1. UNCHANGED <<op, live, desired, snapshotPre, latest>>
    BY <1>1, RestsConfirmNothing DEF Waits, Rests, SaneStep
  <2>2. \A x : (AlreadyThere(x)' <=> AlreadyThere(x)) /\ Kept(x)' = Kept(x)
    BY <2>1 DEF AlreadyThere, Wanted, Kept
  <2>. QED  BY <2>1, <2>2 DEF SaneStep, HandlerCells
<1>2. ASSUME NEW p \in PlanId, Reverts(p)
      PROVE  HandlerCells'
  <2>1. /\ op'.kind = "revert" /\ op'.plan = p /\ op'.snap = snapshotPre[p] /\ ~op'.err
        /\ op'.undo = Targets(desired[p]) /\ op'.half = {}
        /\ UNCHANGED <<desired, snapshotPre>>
    BY <1>2 DEF Reverts, Idle, Rests
  <2>. QED  BY <2>1 DEF HandlerCells
<1>3. ASSUME NEW p \in PlanId, Confirm(p) \/ \E d \in Request : Create(p, d)
      PROVE  HandlerCells'
  <2>1. UNCHANGED <<op, live>> /\ op.kind = "idle"
    BY <1>3 DEF Confirm, Create, Serving, Mutex
  <2>. QED  BY <2>1 DEF SaneStep, HandlerCells
<1>4. ASSUME NEW p \in PlanId, BootApply(p)
      PROVE  HandlerCells'
  <2>1. /\ op'.kind = "boot" /\ op'.plan = p /\ op'.snap = Capture(live, desired[p]) /\ ~op'.err
        /\ op'.todo = Targets(desired[p]) /\ op'.done = {} /\ op'.undo = {} /\ op'.half = {}
        /\ UNCHANGED <<desired, live, state>>
    BY <1>4 DEF BootApply, Idle, db
  <2>2. \A r \in Targets(desired[p]) : op'.snap[r] = live[r]
    BY <2>1, SnapCells DEF Capture, Targets, SaneStep, CellsOK, CellsAreSingle
  <2>. QED  BY <2>1, <2>2 DEF HandlerCells
<1>5. ASSUME NEW p \in PlanId, NEW s \in AskedTimeout, StartApply(p, s)
      PROVE  HandlerCells'
  <2>1. /\ op'.kind = "apply" /\ op'.plan = p /\ op'.snap = snapshotPre[p] /\ ~op'.err
        /\ op'.todo = Targets(desired[p]) /\ op'.done = {} /\ op'.undo = {} /\ op'.half = {}
        /\ UNCHANGED <<desired, snapshotPre>>
    BY <1>5 DEF StartApply, Idle, db
  <2>. QED  BY <2>1 DEF HandlerCells
<1>6. CASE FinishApply \/ AbortApply \/ FinishRevert \/ FinishBoot
  BY <1>6, FinishFrame, IdleCells
<1>7. CASE Crash \/ Reboot
  BY <1>7, IdleCells DEF Crash, Reboot, Die
<1>. QED  BY <1>1, <1>2, <1>3, <1>4, <1>5, <1>6, <1>7, WorkCells, StepShapes

-----------------------------------------------------------------------------
(* The cells of the kernel.                                                *)

LEMMA OneInHand ==
    ASSUME NEW p \in PlanId, NEW q \in PlanId, InHand(p), InHand(q)
    PROVE  p = q
<1>1. p \in Nat /\ q \in Nat
  BY PlansAssumption DEF PlanId
<1>2. ~(p > q) /\ ~(q > p)
  BY DEF InHand, Newest
<1>. QED  BY <1>1, <1>2

(* A plan in hand was there before, unless it has just been created.       *)
LEMMA InHandStays ==
    ASSUME \A q \in PlanId : state[q] # "none" => state'[q] # "none",
           NEW p \in PlanId, InHand(p)', state[p] \in {"pending", "applied"}
    PROVE  InHand(p)
BY DEF InHand, Newest

(* What a plan finishes, or works on, is in hand.                          *)
LEMMA AtWork ==
    ASSUME SaneStep
    PROVE  /\ op.kind \in {"apply", "revert"} => op.plan \in PlanId /\ InHand(op.plan)
           /\ op.kind = "apply" => state[op.plan] = "pending"
           /\ op.kind = "revert" => state[op.plan] = "applied"
           /\ op.kind = "boot" => op.plan = latest /\ latest \in PlanId
           /\ \A p \in Applied : InHand(p)
BY SaneFacts DEF HandlerOwnsPlan, PlansInOrder, InHand, Applied

LEMMA RestsCells ==
    ASSUME SaneStep, Rests, phase' = "serving" => phase = "serving" \/ latest = NoPlan,
           \A r \in Resource : Touched(r) => Touched(r)'
    PROVE  CellsOK'
<1>. USE SaneFacts DEF SaneStep
<1>1. UNCHANGED <<latest, state, desired, snapshotPre, live>>
  BY RestsConfirmNothing DEF Rests
<1>. QED  BY <1>1 DEF CellsOK, CellsAreSingle, SnapshotsKeep, CommittedIsLive, PendingFits,
                      InHand, Newest, Committed, Kept

LEMMA ConfirmCells ==
    ASSUME SaneStep, NEW p \in PlanId, Confirm(p)
    PROVE  CellsOK'
<1>. USE SaneFacts DEF SaneStep
<1>1. /\ state[p] = "applied" /\ state' = [state EXCEPT ![p] = "confirmed"]
      /\ UNCHANGED <<desired, live>> /\ latest' = p /\ InPlace(p)
  BY ConfirmRemembers DEF Sane
<1>2. ASSUME NEW q \in PlanId
      PROVE  ~InHand(q)'
  <2>1. InHand(p)
    BY <1>1, AtWork DEF Applied
  <2>2. state'[p] = "confirmed" /\ \A x \in PlanId : state[x] # "none" => state'[x] # "none"
    BY <1>1 DEF TypeOK
  <2>3. CASE state[q] \in {"pending", "applied"}
    BY <2>1, <2>2, <2>3, OneInHand, InHandStays DEF InHand
  <2>4. CASE state[q] \notin {"pending", "applied"}
    BY <1>1, <2>4 DEF InHand, TypeOK
  <2>. QED  BY <2>3, <2>4
<1>3. CellsAreSingle' /\ SnapshotsKeep' /\ PendingFits'
  BY <1>1, <1>2 DEF CellsOK, CellsAreSingle, SnapshotsKeep, PendingFits
<1>4. CommittedIsLive'
  BY <1>1 DEF CommittedIsLive, Committed, Kept, InPlace
<1>. QED  BY <1>3, <1>4 DEF CellsOK

LEMMA CreateShape ==
    ASSUME SaneStep, NEW p \in PlanId, NEW d \in Request, Create(p, d)
    PROVE  /\ state[p] = "none" /\ state' = [state EXCEPT ![p] = "pending"]
           /\ desired'[p] = d /\ \A q \in PlanId \ {p} : desired'[q] = desired[q]
           /\ snapshotPre'[p] = Capture(live, d)
           /\ \A q \in PlanId \ {p} : snapshotPre'[q] = snapshotPre[q]
           /\ phase = "serving" /\ op.kind = "idle" /\ Applied = {} /\ Applied' = {}
           /\ latest # p
           /\ UNCHANGED <<live, op, phase, latest, base, hollow, crashes>>
           /\ \A r \in Resource : ~Touched(r) /\ ~Touched(r)'
           /\ \A r \in Targets(d) : Capture(live, d)[r] = live[r]
<1>. USE SaneFacts DEF SaneStep
<1>1. /\ state[p] = "none" /\ state' = [state EXCEPT ![p] = "pending"]
      /\ desired' = [desired EXCEPT ![p] = d]
      /\ snapshotPre' = [snapshotPre EXCEPT ![p] = Capture(live, d)]
      /\ phase = "serving" /\ op.kind = "idle"
      /\ UNCHANGED <<live, op, phase, crashes>>
  BY DEF Create, Serving, Mutex, daemon, environment
<1>2. state'[p] = "pending" /\ \A q \in PlanId \ {p} : state'[q] = state[q]
  BY <1>1 DEF TypeOK
<1>3. Applied = {}
  <2>1. OneAtATime
    BY <1>1, <1>2 DEF HStep, hvars, vars, db
  <2>. QED  BY <1>1, <1>2, <2>1 DEF OneAtATime
<1>4. Applied' = {} /\ UNCHANGED <<latest, base, hollow>>
  BY <1>2, <1>3, NothingConfirmed DEF Applied, Confirmed
<1>5. \A r \in Targets(d) : Capture(live, d)[r] = live[r]
  BY SnapCells DEF Capture, Targets, CellsOK, CellsAreSingle
<1>6. latest # p
  BY <1>1 DEF PlansInOrder, NoPlan, PlanId
<1>. QED  BY <1>1, <1>2, <1>3, <1>4, <1>5, <1>6 DEF TypeOK, Touched, Applied

LEMMA CreateCells ==
    ASSUME SaneStep, NEW p \in PlanId, NEW d \in Request, Create(p, d)
    PROVE  CellsOK'
<1>. USE SaneFacts DEF SaneStep
<1>1. \A r : (Committed(r)' <=> Committed(r)) /\ (Committed(r) => Kept(r)' = Kept(r))
  BY CreateShape DEF Committed, Kept
<1>2. CellsAreSingle' /\ CommittedIsLive'
  BY <1>1, CreateShape DEF CellsOK, CellsAreSingle, CommittedIsLive
<1>3. \A q \in PlanId \ {p} : InHand(q)' => InHand(q)
  BY CreateShape, InHandStays DEF TypeOK, InHand
<1>4. state'[p] = "pending"
  BY CreateShape DEF TypeOK
<1>5. SnapshotsKeep'
  <2>. SUFFICES ASSUME NEW q \in PlanId, InHand(q)', NEW r \in Targets(desired'[q]), Committed(r)'
                PROVE  snapshotPre'[q][r] = Kept(r)'
    BY DEF SnapshotsKeep
  <2>1. CASE q = p
    <3>1. r \in Resource /\ ~Touched(r) /\ phase = "serving" /\ snapshotPre'[q][r] = live[r]
      BY <2>1, CreateShape DEF Targets
    <3>. QED  BY <1>1, <3>1 DEF CellsOK, CommittedIsLive
  <2>2. CASE q # p
    BY <1>1, <1>3, <2>2, CreateShape DEF CellsOK, SnapshotsKeep
  <2>. QED  BY <2>1, <2>2
<1>6. PendingFits'
  <2>. SUFFICES ASSUME NEW q \in PlanId, InHand(q)', state'[q] = "pending",
                       NEW r \in Targets(desired'[q])
                PROVE  live'[r] \in {<<>>, snapshotPre'[q][r], <<desired'[q][r]>>}
    BY DEF PendingFits
  <2>1. CASE q = p
    BY <2>1, CreateShape
  <2>2. CASE q # p
    <3>1. state[q] = "pending"
      BY <2>2, CreateShape DEF TypeOK
    <3>. QED  BY <1>3, <2>2, <3>1, CreateShape DEF CellsOK, PendingFits
  <2>. QED  BY <2>1, <2>2
<1>. QED  BY <1>2, <1>5, <1>6 DEF CellsOK

(* Whatever r becomes under the hands of a handler.                        *)
LEMMA WorkedCell ==
    ASSUME SaneStep, NEW r \in Resource, Working(r)
    PROVE  /\ op.kind \in {"apply", "revert", "boot"} /\ r \in Targets(desired[op.plan])
           /\ op.kind \in {"apply", "boot"} => live'[r] \in {<<>>, live[r], <<Wanted(r)>>}
           /\ op.kind = "revert" => live'[r] \in {<<>>, op.snap[r]}
           /\ live'[r] \in SnapCell
           /\ op.kind # "boot" => Touched(r)
<1>. USE SaneFacts DEF SaneStep
<1>1. \/ InstallDone(r) \/ RuleDeleted(r)
      \/ op.kind = "revert" /\ (RestoreDone(r) \/ RestoreHalfDone(r))
  BY Worked
<1>2. op.kind \in {"apply", "revert", "boot"} /\ r \in Targets(desired[op.plan])
  BY <1>1 DEF InstallDone, RuleDeleted, RestoreDone, RestoreHalfDone, HandlerWork, HandlerCells
<1>3. /\ op.kind \in {"apply", "boot"} => live'[r] \in {<<>>, live[r], <<Wanted(r)>>}
      /\ op.kind = "revert" => live'[r] \in {<<>>, op.snap[r]}
  BY <1>1 DEF InstallDone, RuleDeleted, RestoreDone, RestoreHalfDone
<1>4. op.plan \in PlanId
  BY <1>2 DEF HandlerOwnsPlan
<1>5. Wanted(r) \in Value
  BY <1>2, <1>4 DEF Wanted, Targets, DesiredState, TypeOK
<1>6. op.snap[r] \in SnapCell /\ live[r] \in SnapCell /\ <<Wanted(r)>> \in SnapCell /\ <<>> \in SnapCell
  BY <1>5 DEF Operation, Snapshot, SnapCell, CellsOK, CellsAreSingle
<1>7. live'[r] \in SnapCell
  BY <1>2, <1>3, <1>6
<1>8. op.kind # "boot" => Touched(r)
  BY <1>2, <1>4 DEF Touched, HandlerOwnsPlan
<1>. QED  BY <1>2, <1>3, <1>7, <1>8

LEMMA WorkingCells ==
    ASSUME SaneStep, NEW r \in Resource, Working(r)
    PROVE  CellsOK'
<1>. USE SaneFacts DEF SaneStep
<1>1. /\ UNCHANGED <<state, desired, snapshotPre, phase, latest>>
      /\ op'.kind = op.kind /\ op'.plan = op.plan
      /\ \A x \in Resource \ {r} : live'[x] = live[x]
  BY WorkFrame
<1>2. \A x : /\ (Committed(x)' <=> Committed(x)) /\ Kept(x)' = Kept(x)
             /\ (Touched(x)' <=> Touched(x))
  BY <1>1 DEF Committed, Kept, Touched
<1>3. \A q \in PlanId : InHand(q)' <=> InHand(q)
  BY <1>1 DEF InHand, Newest
<1>4. CellsAreSingle'
  BY <1>1, WorkedCell DEF CellsOK, CellsAreSingle
<1>5. SnapshotsKeep'
  BY <1>1, <1>2, <1>3 DEF CellsOK, SnapshotsKeep
<1>6. CommittedIsLive'
  <2>1. phase = "serving" => Touched(r)
    BY WorkedCell DEF HandlerOwnsPlan
  <2>. QED  BY <1>1, <1>2, <2>1 DEF CellsOK, CommittedIsLive
<1>7. PendingFits'
  <2>. SUFFICES ASSUME NEW q \in PlanId, InHand(q), state[q] = "pending",
                       r \in Targets(desired[q])
                PROVE  live'[r] \in {<<>>, snapshotPre[q][r], <<desired[q][r]>>}
    BY <1>1, <1>3 DEF PendingFits, CellsOK, Targets
  <2>0. live[r] \in {<<>>, snapshotPre[q][r], <<desired[q][r]>>}
    BY DEF CellsOK, PendingFits
  <2>1. CASE op.kind = "apply"
    <3>1. op.plan = q
      BY <2>1, AtWork, OneInHand
    <3>. QED  BY <2>0, <2>1, <3>1, WorkedCell DEF Wanted
  <2>2. CASE op.kind = "boot"
    <3>1. Committed(r) /\ Kept(r) = <<Wanted(r)>>
      BY <2>2, WorkedCell, AtWork DEF Committed, Kept, Wanted, NoPlan, PlanId
    <3>2. snapshotPre[q][r] = Kept(r)
      BY <3>1 DEF CellsOK, SnapshotsKeep
    <3>. QED  BY <2>0, <2>2, <3>1, <3>2, WorkedCell
  <2>3. CASE op.kind = "revert"
    BY <2>3, AtWork, OneInHand
  <2>. QED  BY <2>1, <2>2, <2>3, WorkedCell
<1>. QED  BY <1>4, <1>5, <1>6, <1>7 DEF CellsOK

LEMMA FinishCells ==
    ASSUME SaneStep, FinishApply \/ AbortApply \/ FinishRevert \/ FinishBoot
    PROVE  CellsOK'
<1>. USE SaneFacts DEF SaneStep
<1>1. op'.kind = "idle" /\ UNCHANGED <<desired, snapshotPre, live, latest>>
  BY FinishFrame DEF Idle
<1>2. /\ \A q \in PlanId : state[q] # "none" => state'[q] # "none"
      /\ \A q \in PlanId : state'[q] \in {"pending", "applied"} => state[q] \in {"pending", "applied"}
      /\ \A q \in PlanId : state'[q] = "pending" => state[q] = "pending"
  BY FinishFrame, AtWork DEF TypeOK
<1>3. \A q \in PlanId : InHand(q)' => InHand(q)
  BY <1>2, InHandStays DEF InHand
<1>4. \A x : (Committed(x)' <=> Committed(x)) /\ Kept(x)' = Kept(x)
  BY <1>1 DEF Committed, Kept
<1>5. CellsAreSingle' /\ SnapshotsKeep' /\ PendingFits'
  BY <1>1, <1>2, <1>3, <1>4 DEF CellsOK, CellsAreSingle, SnapshotsKeep, PendingFits
<1>6. CommittedIsLive'
  <2>. SUFFICES ASSUME phase' = "serving", NEW r \in Resource, Committed(r), ~Touched(r)'
                PROVE  live[r] = Kept(r)
    BY <1>1, <1>4 DEF CommittedIsLive
  <2>1. CASE FinishApply
    <3>1. phase = "serving"
      BY <2>1, FinishFrame
    <3>2. ~Touched(r)
      BY <1>1, <2>1, FinishFrame, AtWork DEF Touched, TypeOK
    <3>. QED  BY <3>1, <3>2 DEF CellsOK, CommittedIsLive
  <2>2. CASE FinishRevert
    <3>1. op.kind = "revert" /\ op.undo = {} /\ phase = "serving" /\ op.plan \in PlanId
          /\ InHand(op.plan) /\ state[op.plan] = "applied"
      BY <2>2, FinishFrame, AtWork
    <3>2. CASE r \in Targets(desired[op.plan])
      BY <3>1, <3>2 DEF HandlerCells, CellsOK, SnapshotsKeep
    <3>3. CASE r \notin Targets(desired[op.plan])
      <4>1. ~Touched(r)
        BY <3>1, <3>3 DEF Touched, AtMostOneApplied, Applied
      <4>. QED  BY <3>1, <4>1 DEF CellsOK, CommittedIsLive
    <3>. QED  BY <3>2, <3>3
  <2>3. CASE FinishBoot
    <3>1. r \in Targets(desired[op.plan]) /\ op.kind = "boot" /\ op.todo = {}
      BY <2>3, FinishFrame, AtWork DEF Committed
    <3>. QED  BY <3>1 DEF HandlerCells
  <2>. QED  BY <2>1, <2>2, <2>3, FinishFrame
<1>. QED  BY <1>5, <1>6 DEF CellsOK

LEMMA DieCells ==
    ASSUME SaneStep, Crash \/ Reboot
    PROVE  CellsOK'
<1>. USE SaneFacts DEF SaneStep
<1>1. UNCHANGED <<state, desired, snapshotPre>> /\ phase' = "down"
  BY DEF Crash, Reboot, Die, db
<1>2. latest' = latest
  BY <1>1, RestsConfirmNothing
<1>3. \A r \in Resource : live'[r] \in {<<>>, live[r]}
  BY DEF Crash, Reboot
<1>4. <<>> \in SnapCell
  BY DEF SnapCell
<1>5. CellsAreSingle' /\ CommittedIsLive'
  BY <1>1, <1>3, <1>4 DEF CellsOK, CellsAreSingle, CommittedIsLive
<1>6. SnapshotsKeep'
  BY <1>1, <1>2 DEF CellsOK, SnapshotsKeep, InHand, Newest, Committed, Kept
<1>7. PendingFits'
  BY <1>1, <1>3 DEF CellsOK, PendingFits, InHand, Newest, Targets
<1>. QED  BY <1>5, <1>6, <1>7 DEF CellsOK

LEMMA CellsStep ==
    ASSUME SaneStep
    PROVE  CellsOK'
<1>. USE SaneFacts DEF SaneStep
<1>1. CASE Waits
  <2>1. Rests /\ op' = op /\ (phase' = "serving" => phase = "serving" \/ latest = NoPlan)
    BY <1>1 DEF Waits, PlansInOrder
  <2>. QED  BY <2>1, RestsCells DEF Touched, Rests
<1>2. ASSUME NEW p \in PlanId, Reverts(p)
      PROVE  CellsOK'
  <2>1. Rests /\ op.kind = "idle" /\ phase' = phase
    BY <1>2 DEF Reverts
  <2>. QED  BY <2>1, RestsCells DEF Touched, Rests
<1>3. ASSUME NEW p \in PlanId, BootApply(p) \/ \E s \in AskedTimeout : StartApply(p, s)
      PROVE  CellsOK'
  <2>1. Rests /\ op.kind = "idle" /\ phase' = phase
    BY <1>3 DEF BootApply, StartApply, Serving, Mutex, Rests, db, daemon
  <2>. QED  BY <2>1, RestsCells DEF Touched, Rests
<1>. QED  BY <1>1, <1>2, <1>3, ConfirmCells, CreateCells, WorkingCells, FinishCells, DieCells, StepShapes

-----------------------------------------------------------------------------
(* The kernel and what the last confirm left.                              *)

IntactStep == SaneStep /\ Intact /\ Intact' /\ BaseOK

(* Nothing but the rows of the plans in hand changes.                      *)
LEMMA RestsBase ==
    ASSUME IntactStep, Rests,
           \A r \in Resource : Touched(r) => Touched(r)',
           op'.kind = "apply" => op' = op,
           op'.kind = "idle" /\ crashes' = 0 => op.kind = "idle" /\ crashes = 0
    PROVE  BaseOK'
<1>. USE SaneFacts DEF IntactStep, SaneStep
<1>1. UNCHANGED <<latest, base, state, desired, snapshotPre, live>>
  BY RestsConfirmNothing DEF Rests
<1>. QED  BY <1>1 DEF BaseOK, InHand, Newest, Committed, Kept, InPlace, Applied

LEMMA ConfirmBase ==
    ASSUME IntactStep, NEW p \in PlanId, Confirm(p)
    PROVE  BaseOK'
<1>. USE SaneFacts DEF IntactStep, SaneStep
<1>1. /\ state[p] = "applied" /\ state' = [state EXCEPT ![p] = "confirmed"]
      /\ UNCHANGED <<desired, live, op>> /\ latest' = p /\ base' = live /\ InPlace(p)
      /\ op.kind = "idle"
  BY ConfirmRemembers DEF Sane
<1>2. base' \in Snapshot
  BY <1>1 DEF CellsOK, CellsAreSingle, Snapshot, TypeOK
<1>3. state'[p] = "confirmed" /\ \A x \in PlanId : state[x] # "none" => state'[x] # "none"
  BY <1>1 DEF TypeOK
<1>4. Applied' = {} /\ \A q \in PlanId : ~InHand(q)'
  <2>1. InHand(p)
    BY <1>1, AtWork DEF Applied
  <2>2. ASSUME NEW q \in PlanId, InHand(q)'
        PROVE  FALSE
    <3>1. q # p /\ state[q] \in {"pending", "applied"}
      BY <1>1, <1>3, <2>2 DEF InHand, TypeOK
    <3>. QED  BY <1>3, <2>1, <2>2, <3>1, OneInHand, InHandStays
  <2>3. Applied' = {}
    BY <1>1, <1>3 DEF AtMostOneApplied, Applied, TypeOK
  <2>. QED  BY <2>2, <2>3
<1>5. \A r \in Resource : Committed(r)' => base'[r] = Kept(r)'
  BY <1>1 DEF Committed, Kept, InPlace
<1>. QED  BY <1>1, <1>2, <1>4, <1>5 DEF BaseOK

LEMMA CreateBase ==
    ASSUME IntactStep, NEW p \in PlanId, NEW d \in Request, Create(p, d)
    PROVE  BaseOK'
<1>. USE SaneFacts DEF IntactStep, SaneStep
<1>1. \A r : (Committed(r)' <=> Committed(r)) /\ (Committed(r) => Kept(r)' = Kept(r))
  BY CreateShape DEF Committed, Kept
<1>2. \A q \in PlanId \ {p} : InHand(q)' => InHand(q)
  BY CreateShape, InHandStays DEF TypeOK, InHand
<1>3. ASSUME NEW q \in PlanId, InHand(q)', NEW r \in Targets(desired'[q])
      PROVE  snapshotPre'[q][r] = base'[r]
  <2>1. CASE q = p
    <3>1. r \in Resource /\ ~Touched(r) /\ snapshotPre'[q][r] = live[r] /\ base' = base
      BY <1>3, <2>1, CreateShape DEF Targets
    <3>. QED  BY <3>1 DEF BaseOK
  <2>2. CASE q # p
    BY <1>2, <1>3, <2>2, CreateShape DEF BaseOK
  <2>. QED  BY <2>1, <2>2
<1>. QED  BY <1>1, <1>3, CreateShape DEF BaseOK

LEMMA StartBase ==
    ASSUME IntactStep, NEW p \in PlanId, NEW s \in AskedTimeout, StartApply(p, s)
    PROVE  BaseOK'
<1>. USE SaneFacts DEF IntactStep, SaneStep
<1>1. /\ UNCHANGED <<state, desired, snapshotPre, live>>
      /\ op.kind = "idle" /\ op'.kind = "apply" /\ op'.plan = p /\ op'.snap = snapshotPre[p]
      /\ op'.todo = Targets(desired[p]) /\ op'.done = {} /\ op'.half = {}
      /\ Applied = {} /\ state[p] = "pending"
  BY DEF StartApply, Serving, Mutex, Idle, db
<1>2. UNCHANGED <<base, latest>>
  BY <1>1, RestsConfirmNothing
<1>3. InHand(p)
  <2>1. OneAtATime
    BY <1>1 DEF HStep, hvars, vars
  <2>2. \A q \in (p + 1)..MaxPlans : state[q] = "none"
    BY <1>1, <2>1 DEF OneAtATime
  <2>. QED  BY <1>1, <2>2, PlansAssumption DEF InHand, Newest, PlanId
<1>4. \A r \in Resource : ~Touched(r)
  BY <1>1 DEF Touched, Applied
<1>5. \A r \in op'.todo : live[r] = op'.snap[r]
  BY <1>1, <1>3, <1>4 DEF BaseOK, Targets
<1>. QED  BY <1>1, <1>2, <1>4, <1>5 DEF BaseOK, InHand, Newest, Committed, Kept

LEMMA WorkingBase ==
    ASSUME IntactStep, NEW r \in Resource, Working(r)
    PROVE  BaseOK'
<1>. USE SaneFacts DEF IntactStep, SaneStep
<1>1. /\ UNCHANGED <<state, desired, snapshotPre, phase, latest, base>>
      /\ op'.kind = op.kind /\ op'.plan = op.plan /\ op'.snap = op.snap
      /\ \A x \in Resource \ {r} : live'[x] = live[x]
  BY WorkFrame
<1>2. \A x : /\ (Committed(x)' <=> Committed(x)) /\ Kept(x)' = Kept(x)
             /\ (Touched(x)' <=> Touched(x))
  BY <1>1 DEF Committed, Kept, Touched
<1>3. \A q \in PlanId : InHand(q)' <=> InHand(q)
  BY <1>1 DEF InHand, Newest
<1>4. \A x \in Resource : ~Touched(x) => live'[x] = base[x]
  <2>1. CASE op.kind # "boot"
    BY <1>1, <2>1, WorkedCell DEF BaseOK
  <2>2. CASE op.kind = "boot"
    <3>. SUFFICES ASSUME ~Touched(r)
                  PROVE  live'[r] = base[r]
      BY <1>1 DEF BaseOK
    <3>1. Committed(r) /\ Kept(r) = <<Wanted(r)>>
      BY <2>2, WorkedCell, AtWork DEF Committed, Kept, Wanted, NoPlan, PlanId
    <3>2. live[r] = <<Wanted(r)>> /\ base[r] = <<Wanted(r)>>
      BY <3>1 DEF BaseOK
    <3>3. ~RuleDeleted(r)
      <4>. SUFFICES ASSUME RuleDeleted(r)
                    PROVE  FALSE
        OBVIOUS
      <4>1. /\ IsRule(r) /\ r \in op.todo \ op.half /\ op.snap[r] # <<Wanted(r)>>
        BY DEF RuleDeleted, MustDeleteFirst
      <4>. QED  BY <2>2, <3>2, <4>1 DEF HandlerCells
    <3>. QED  BY <2>2, <3>2, <3>3, Worked DEF InstallDone
  <2>. QED  BY <2>1, <2>2
<1>5. CASE op.kind = "apply"
  <2>1. /\ op.todo \cap op.done = {} /\ op.todo \cup op.done \subseteq Resource
        /\ \A x \in op.half : ~AlreadyThere(x)
    BY <1>5 DEF HandlerCells, Operation
  <2>2. CASE InstallDone(r)
    <3>1. live'[r] = <<Wanted(r)>>
      <4>1. CASE AlreadyThere(r) /\ live'[r] = live[r]
        <5>1. r \in op.todo \ op.half
          BY <2>1, <2>2, <4>1 DEF InstallDone
        <5>. QED  BY <1>5, <4>1, <5>1 DEF BaseOK, AlreadyThere
      <4>. QED  BY <2>2, <4>1 DEF InstallDone
    <3>2. \A x \in op'.todo : live'[x] = op.snap[x]
      BY <1>1, <1>5, <2>1, <2>2 DEF InstallDone, BaseOK
    <3>3. \A x \in op'.done : live'[x] = <<desired[op.plan][x]>>
      BY <1>1, <1>5, <2>1, <2>2, <3>1 DEF InstallDone, BaseOK, Wanted
    <3>. QED  BY <1>1, <1>2, <1>3, <1>4, <1>5, <3>2, <3>3 DEF BaseOK
  <2>3. CASE RuleDeleted(r)
    <3>1. \A x \in op'.todo \ op'.half : live'[x] = op.snap[x]
      BY <1>1, <1>5, <2>1, <2>3 DEF RuleDeleted, BaseOK
    <3>2. \A x \in op'.done : live'[x] = <<desired[op.plan][x]>>
      BY <1>1, <1>5, <2>1, <2>3 DEF RuleDeleted, BaseOK
    <3>. QED  BY <1>1, <1>2, <1>3, <1>4, <1>5, <3>1, <3>2 DEF BaseOK
  <2>. QED  BY <1>5, <2>2, <2>3, Worked
<1>6. CASE op.kind # "apply"
  BY <1>1, <1>2, <1>3, <1>4, <1>6, WorkedCell DEF BaseOK
<1>. QED  BY <1>5, <1>6

LEMMA FinishBase ==
    ASSUME IntactStep, FinishApply \/ AbortApply \/ FinishRevert \/ FinishBoot
    PROVE  BaseOK'
<1>. USE SaneFacts DEF IntactStep, SaneStep
<1>1. op'.kind = "idle" /\ UNCHANGED <<desired, snapshotPre, live, latest, base, crashes>>
  BY FinishFrame DEF Idle
<1>2. /\ \A q \in PlanId : state[q] # "none" => state'[q] # "none"
      /\ \A q \in PlanId : state'[q] \in {"pending", "applied"} => state[q] \in {"pending", "applied"}
  BY FinishFrame, AtWork DEF TypeOK
<1>3. \A q \in PlanId : InHand(q)' => InHand(q)
  BY <1>2, InHandStays DEF InHand
<1>4. \A x : (Committed(x)' <=> Committed(x)) /\ Kept(x)' = Kept(x)
  BY <1>1 DEF Committed, Kept
<1>5. ASSUME NEW r \in Resource, ~Touched(r)'
      PROVE  live[r] = base[r]
  <2>1. CASE FinishApply \/ FinishBoot
    <3>1. ~Touched(r)
      BY <1>1, <1>5, <2>1, FinishFrame, AtWork DEF Touched, TypeOK
    <3>. QED  BY <3>1 DEF BaseOK
  <2>2. CASE FinishRevert
    <3>1. op.kind = "revert" /\ op.undo = {} /\ op.plan \in PlanId
          /\ InHand(op.plan) /\ state[op.plan] = "applied"
      BY <2>2, FinishFrame, AtWork
    <3>2. CASE r \in Targets(desired[op.plan])
      BY <3>1, <3>2 DEF HandlerCells, BaseOK
    <3>3. CASE r \notin Targets(desired[op.plan])
      <4>1. ~Touched(r)
        BY <3>1, <3>3 DEF Touched, AtMostOneApplied, Applied
      <4>. QED  BY <4>1 DEF BaseOK
    <3>. QED  BY <3>2, <3>3
  <2>. QED  BY <2>1, <2>2, FinishFrame
<1>6. crashes' = 0 => \A p \in Applied' : InPlace(p)'
  <2>. SUFFICES ASSUME crashes = 0, NEW p \in Applied'
                PROVE  InPlace(p)
    BY <1>1 DEF InPlace
  <2>1. CASE FinishApply
    <3>1. op.kind = "apply" /\ op.todo = {} /\ Applied = {} /\ op.plan \in PlanId
      BY <2>1, FinishFrame DEF HandlerOwnsPlan
    <3>2. p = op.plan
      BY <2>1, <3>1, FinishFrame DEF Applied, TypeOK
    <3>3. op.done = Targets(desired[p])
      BY <3>1, <3>2 DEF HandlerCells
    <3>. QED  BY <3>1, <3>2, <3>3 DEF BaseOK, InPlace
  <2>2. CASE FinishRevert
    <3>1. /\ op.plan \in PlanId /\ Applied = {op.plan}
          /\ state' = [state EXCEPT ![op.plan] = op.outcome] /\ op.outcome # "applied"
      BY <2>2, FinishFrame, AtWork DEF AtMostOneApplied, Applied
    <3>. QED  BY <3>1 DEF Applied, TypeOK
  <2>3. CASE FinishBoot
    BY <2>3, FinishFrame DEF HandlerOwnsPlan, HistoryOK
  <2>. QED  BY <2>1, <2>2, <2>3, FinishFrame
<1>. QED  BY <1>1, <1>3, <1>4, <1>5, <1>6 DEF BaseOK

LEMMA BaseStep ==
    ASSUME IntactStep
    PROVE  BaseOK'
<1>. USE SaneFacts DEF IntactStep, SaneStep
<1>1. CASE Waits
  BY <1>1, RestsBase DEF Waits, Rests, Touched
<1>2. ASSUME NEW p \in PlanId, Reverts(p)
      PROVE  BaseOK'
  <2>1. Rests /\ op.kind = "idle" /\ op'.kind = "revert"
    BY <1>2 DEF Reverts, Idle
  <2>. QED  BY <2>1, RestsBase DEF Rests, Touched
<1>3. ASSUME NEW p \in PlanId, BootApply(p)
      PROVE  BaseOK'
  <2>1. Rests /\ op.kind = "idle" /\ op'.kind = "boot"
    BY <1>3 DEF BootApply, Mutex, Rests, Idle, db
  <2>. QED  BY <2>1, RestsBase DEF Rests, Touched
<1>4. CASE Crash \/ Reboot
  <2>1. /\ Rests /\ crashes' = crashes + 1 /\ crashes \in Nat
        /\ op'.kind = "idle" /\ op.kind # "apply"
    BY <1>4, HistoryStays DEF Crash, Reboot, Die, Rests, Idle, db, TypeOK, HistoryOK
  <2>2. crashes' # 0
    BY <2>1
  <2>. QED  BY <2>1, <2>2, RestsBase DEF Rests, Touched
<1>. QED
  BY <1>1, <1>2, <1>3, <1>4, ConfirmBase, CreateBase, StartBase, WorkingBase, FinishBase, StepShapes

-----------------------------------------------------------------------------
(* A failed Apply puts its resources back.                                 *)

(* Its one failed command was the first: the handler had made no error.    *)
LEMMA OneFailure ==
    ASSUME Known, HStep, Sane => HandlerCells /\ CellsOK,
           faults' = 1, ~refused', ~hollow'
    PROVE  /\ ~refused /\ ~hollow /\ faults \in {0, 1}
           /\ ~torn' => ~torn
           /\ ~lost' => ~lost
           /\ faults = 0 => Sane
           /\ op.err => faults = 1
<1>1. TypeOK /\ HistoryOK
  BY DEF Known, IInv
<1>2. /\ faults \in Nat /\ faults' \in {faults, faults + 1} /\ ~refused
  BY <1>1, ErrorsStay, StepIsEngineStep DEF TypeOK
<1>3. ~hollow /\ (~torn' => ~torn) /\ (~lost' => ~lost)
  <2>1. CASE Remember
    <3>1. hollow => hollow'
      BY <2>1, Zenon DEF Remember
    <3>2. torn => torn'
      BY <2>1, Zenon DEF Remember
    <3>3. lost => lost'
      BY <2>1, Zenon DEF Remember
    <3>. QED  BY <3>1, <3>2, <3>3
  <2>2. CASE UNCHANGED hvars
    <3>1. hollow' = hollow /\ torn' = torn /\ lost' = lost
      BY <2>2 DEF hvars, history
    <3>. QED  BY <3>1
  <2>. QED  BY <2>1, <2>2 DEF HStep, HNext
<1>4. faults = 0 => Sane
  BY <1>2, <1>3 DEF Sane, Clean
<1>. QED  BY <1>2, <1>3, <1>4 DEF HandlerCells

LEMMA FailedStage ==
    ASSUME Known, HStep, faults = 0, faults' = 1, ~refused, ~refused', Sane, HandlerCells, CellsOK,
           Intact => BaseOK,
           op.kind = "apply", NEW r \in Resource, Working(r), op'.err
    PROVE  /\ op'.todo = {} /\ op'.undo = op.done /\ op'.done = op.done /\ op'.half = {}
           /\ \A x \in op.done : live'[x] \in SnapCell
           /\ Intact => LeftOK'
<1>0. TypeOK /\ op \in Operation /\ ~op.err /\ op.undo = {} /\ op.todo \cap op.done = {}
  BY DEF Known, IInv, TypeOK, HandlerCells
<1>. USE DEF Fails, Refused, Succeeds
<1>1. /\ r \in op.todo /\ op.half \subseteq {r} /\ op' = StageFailed(r)
      /\ \/ DeleteOldRule(r) /\ (live' = live \/ live' = [live EXCEPT ![r] = AfterRuleDel(live[r])])
         \/ /\ Install(r) /\ ~AlreadyThere(r) /\ ~MustDeleteFirst(r)
            /\ \E c \in AfterFailedInstall(r, live[r], Wanted(r)) : live' = [live EXCEPT ![r] = c]
  <2>1. CASE SkipRule(r)
    BY <1>0, <2>1 DEF SkipRule, Installed, Operation
  <2>2. CASE DeleteOldRule(r)
    <3>1. r \in op.todo /\ op.half \subseteq {r}
      BY <2>2 DEF DeleteOldRule, Installing
    <3>2. [op EXCEPT !.half = {r}].err = FALSE
      BY <1>0 DEF Operation
    <3>3. op' = StageFailed(r) /\ \E c \in {live[r], AfterRuleDel(live[r])} : live' = [live EXCEPT ![r] = c]
      BY <1>0, <2>2, <3>2 DEF DeleteOldRule
    <3>4. [live EXCEPT ![r] = live[r]] = live
      BY <1>0 DEF TypeOK
    <3>. QED  BY <2>2, <3>1, <3>3, <3>4
  <2>3. CASE Install(r)
    <3>1. r \in op.todo /\ op.half \subseteq {r} /\ ~AlreadyThere(r) /\ ~MustDeleteFirst(r)
      BY <2>3 DEF Install, Installing
    <3>2. Installed(r).err = FALSE
      BY <1>0 DEF Installed, Operation
    <3>3. /\ op' = StageFailed(r)
          /\ \E c \in AfterFailedInstall(r, live[r], Wanted(r)) : live' = [live EXCEPT ![r] = c]
      BY <1>0, <2>3, <3>2 DEF Install
    <3>. QED  BY <2>3, <3>1, <3>3
  <2>4. CASE Restore(r) \/ RestoreRuleDel(r) \/ RestoreRuleAdd(r)
    BY <1>0, <2>4 DEF Restore, RestoreRuleDel, RestoreRuleAdd, Restoring
  <2>. QED  BY <2>1, <2>2, <2>3, <2>4 DEF Working
<1>2. op'.todo = {} /\ op'.undo = op.done /\ op'.done = op.done /\ op'.half = {}
  BY <1>0, <1>1 DEF StageFailed, Operation
<1>3. \A x \in op.done : x \in Resource /\ x # r
  BY <1>0, <1>1 DEF Operation
<1>4. ASSUME Intact
      PROVE  LeftOK'
  <2>1. /\ op'.plan = op.plan /\ op'.snap = op.snap /\ desired' = desired
        /\ \A x \in Resource \ {r} : live'[x] = live[x]
    BY <1>0, OtherCells, WorkFrame, WorkKeepsHandler
  <2>2. /\ op.done \cup op.todo = Targets(desired[op.plan])
        /\ \A x \in op.todo \ op.half : live[x] = op.snap[x]
        /\ \A x \in op.half : live[x] = <<>>
    BY <1>4 DEF HandlerCells, BaseOK
  <2>3. Behind' \ op'.done \subseteq {r}
    <3>1. Behind' = {x \in Targets(desired[op.plan]) : live'[x] # op.snap[x]}
      BY <2>1 DEF Behind
    <3>2. \A x \in op.todo \ {r} : live'[x] = op.snap[x]
      BY <1>0, <1>1, <2>1, <2>2 DEF Operation
    <3>. QED  BY <1>2, <2>2, <3>1, <3>2
  <2>4. ASSUME IsRule(r), r \in Behind'
        PROVE  live'[r] \in {<<>>, <<Wanted(r)'>>}
    <3>0. Wanted(r)' = Wanted(r) /\ live \in [Resource -> Cell] /\ live[r] \in SnapCell /\ live'[r] # op.snap[r]
      BY <1>0, <2>1, <2>4 DEF Wanted, TypeOK, CellsOK, CellsAreSingle, Behind
    <3>1. CASE live' = [live EXCEPT ![r] = AfterRuleDel(live[r])]
      BY <3>0, <3>1, SnapCells
    <3>2. CASE DeleteOldRule(r) /\ live' = live
      <4>1. r \notin op.half
        BY <3>2 DEF DeleteOldRule, MustDeleteFirst
      <4>. QED  BY <1>1, <2>2, <3>0, <3>2, <4>1
    <3>3. CASE /\ ~AlreadyThere(r) /\ ~MustDeleteFirst(r)
               /\ \E c \in AfterFailedInstall(r, live[r], Wanted(r)) : live' = [live EXCEPT ![r] = c]
      <4>1. live[r] = <<>>
        BY <1>1, <2>2, <2>4, <3>3 DEF AlreadyThere, MustDeleteFirst
      <4>2. AfterFailedInstall(r, <<>>, Wanted(r)) = {<<>>, <<Wanted(r)>>}
        BY <2>4, AppendToNone DEF AfterFailedInstall, AfterInstall, IsRule
      <4>. QED  BY <3>0, <3>3, <4>1, <4>2
    <3>. QED  BY <1>1, <3>1, <3>2, <3>3
  <2>. QED  BY <2>3, <2>4 DEF LeftOK
<1>. QED  BY <1>0, <1>2, <1>3, <1>4, OtherCells DEF CellsOK, CellsAreSingle

LEMMA UndoWork ==
    ASSUME Known, HStep, Sane => HandlerCells /\ CellsOK, Intact => BaseOK, UndoOK,
           NEW r \in Resource, Working(r)
    PROVE  UndoOK'
<1>. SUFFICES ASSUME op'.kind = "apply", op'.err, faults' = 1, ~refused', ~hollow'
              PROVE  UndoOK'
  BY DEF UndoOK
<1>0. TypeOK /\ op \in Operation /\ faults \in Nat /\ refused = FALSE /\ refused' = FALSE
  BY OneFailure DEF Known, IInv, TypeOK
<1>1. op.kind = "apply" /\ op'.snap = op.snap /\ \A x \in Resource \ {r} : live'[x] = live[x]
  BY WorkFrame
<1>2. CASE op.err
  <2>1. /\ op.todo = {} /\ op.undo \subseteq op.done /\ op.half \subseteq op.undo
        /\ \A x \in op.undo : live[x] \in SnapCell
        /\ \A x \in op.half : live[x] = <<>>
        /\ \A x \in op.done \ op.undo : live[x] = op.snap[x]
        /\ faults' = faults
        /\ ~torn' /\ ~lost' => LeftOK
    BY <1>1, <1>2, OneFailure DEF UndoOK
  <2>2. Restore(r) \/ RestoreRuleDel(r) \/ RestoreRuleAdd(r)
    BY <2>1 DEF Working, SkipRule, DeleteOldRule, Install, Installing
  <2>3. r \in op.undo /\ (r \in op.half => live[r] = <<>> /\ op.snap[r] # <<>>)
    BY <2>1, <2>2 DEF Restore, RestoreRuleDel, RestoreRuleAdd, Restoring, Known, IInv, HandlerWork
  <2>4. RestoreDone(r) \/ RestoreHalfDone(r)
    BY <1>0, <2>1, <2>2, <2>3, RestoreShapes
  <2>5. op.done \subseteq Resource /\ <<>> \in SnapCell
    BY <1>0 DEF Operation, SnapCell
  <2>6. LeftOK => LeftOK'
    <3>1. op'.plan = op.plan /\ desired' = desired /\ op'.done = op.done
      BY <1>0, <1>1, <2>4, WorkFrame, WorkKeepsHandler DEF RestoreDone, RestoreHalfDone
    <3>2. r \in op.done /\ Targets(desired[op.plan]) \subseteq Resource
      BY <2>1, <2>3 DEF Targets
    <3>3. Behind' \ op'.done = Behind \ op.done
      BY <1>1, <3>1, <3>2 DEF Behind
    <3>4. \A x \in Behind \ op.done : live'[x] = live[x] /\ Wanted(x)' = Wanted(x)
      BY <1>1, <3>1, <3>2 DEF Behind, Wanted
    <3>. QED  BY <3>3, <3>4 DEF LeftOK
  <2>. QED  BY <1>1, <2>1, <2>3, <2>4, <2>5, <2>6 DEF RestoreDone, RestoreHalfDone, UndoOK
<1>3. CASE ~op.err
  <2>1. faults = 0
    <3>. SUFFICES ASSUME faults = 1
                  PROVE  FALSE
      BY OneFailure
    <3>a. /\ Installed(r).err = FALSE /\ Restored(r).err = FALSE /\ RestoreFailed(r).err = FALSE
          /\ [op EXCEPT !.half = {r}].err = FALSE
      BY <1>0, <1>1, <1>3 DEF Installed, Restored, RestoreFailed, Operation
    <3>b. ~Fails /\ ~Refused
      BY <1>0 DEF Fails, Refused
    <3>1. CASE SkipRule(r)
      BY <3>1, <3>a DEF SkipRule
    <3>2. CASE DeleteOldRule(r) \/ Install(r)
      BY <3>2, <3>a, <3>b DEF DeleteOldRule, Install
    <3>3. CASE Restore(r) \/ RestoreRuleDel(r) \/ RestoreRuleAdd(r)
      BY <3>3, <3>a, <3>b DEF Restore, RestoreRuleDel, RestoreRuleAdd
    <3>. QED  BY <3>1, <3>2, <3>3 DEF Working
  <2>2. /\ op'.todo = {} /\ op'.undo = op.done /\ op'.done = op.done /\ op'.half = {}
        /\ \A x \in op.done : live'[x] \in SnapCell
        /\ ~torn' /\ ~lost' => LeftOK'
    BY <1>0, <1>1, <2>1, OneFailure, FailedStage DEF Intact
  <2>. QED  BY <2>2 DEF UndoOK
<1>. QED  BY <1>0, <1>2, <1>3

LEMMA UndoStep ==
    ASSUME Known, HStep, Sane => HandlerCells /\ CellsOK, Intact => BaseOK, UndoOK
    PROVE  UndoOK'
<1>. SUFFICES ASSUME op'.kind = "apply", op'.err, faults' = 1, ~refused', ~hollow'
              PROVE  UndoOK'
  BY DEF UndoOK
<1>0. TypeOK /\ DaemonLists /\ op \in Operation /\ faults \in Nat
  BY DEF Known, IInv, TypeOK
<1>1. CASE Waits
  <2>1. UNCHANGED <<op, live, desired>> /\ faults' = faults
    BY <1>1 DEF Waits, Rests
  <2>2. LeftOK => LeftOK'
    BY <2>1 DEF LeftOK, Behind, Wanted
  <2>. QED  BY <2>1, <2>2, OneFailure DEF UndoOK
<1>2. ASSUME NEW p \in PlanId, Reverts(p) \/ BootApply(p)
      PROVE  UndoOK'
  <2>1. op'.kind # "apply"
    BY <1>2 DEF Reverts, BootApply, Idle
  <2>. QED  BY <2>1
<1>3. ASSUME NEW p \in PlanId, Confirm(p) \/ \E d \in Request : Create(p, d)
      PROVE  UndoOK'
  BY <1>3 DEF Confirm, Create, Serving, Mutex
<1>4. ASSUME NEW p \in PlanId, NEW s \in AskedTimeout, StartApply(p, s)
      PROVE  UndoOK'
  <2>1. ~op'.err
    BY <1>4 DEF StartApply, Idle
  <2>. QED  BY <2>1
<1>5. CASE FinishApply
  <2>1. /\ Fails /\ op' = [op EXCEPT !.undo = op.done, !.err = TRUE] /\ live' = live
        /\ op.kind = "apply" /\ ~op.err /\ op.todo = {} /\ op.undo = {}
    BY <1>5 DEF FinishApply, Idle
  <2>2. Sane
    BY <1>0, <2>1, OneFailure DEF Fails
  <2>3. /\ op'.todo = {} /\ op'.undo = op.done /\ op'.done = op.done /\ op'.half = {}
        /\ op.done \subseteq Resource
    BY <1>0, <2>1, <2>2 DEF Operation, HandlerCells
  <2>4. LeftOK'
    <3>1. op'.plan = op.plan /\ desired' = desired
      BY <1>0, <1>5, <2>1 DEF FinishApply, Operation
    <3>2. op.done = Targets(desired[op.plan])
      BY <2>1, <2>2 DEF HandlerCells
    <3>3. Behind' \ op'.done = {}
      BY <2>3, <3>1, <3>2 DEF Behind
    <3>. QED  BY <3>3 DEF LeftOK
  <2>. QED  BY <2>1, <2>2, <2>3, <2>4 DEF UndoOK, CellsOK, CellsAreSingle
<1>6. CASE AbortApply \/ FinishRevert \/ FinishBoot \/ Crash \/ Reboot
  <2>1. op' = Idle
    BY <1>6 DEF AbortApply, FinishRevert, FinishBoot, Crash, Reboot, Die
  <2>. QED  BY <2>1 DEF Idle
<1>. QED  BY <1>0, <1>1, <1>2, <1>3, <1>4, <1>5, <1>6, UndoWork, StepShapes, StepIsEngineStep

-----------------------------------------------------------------------------
(* The history.                                                            *)

LEMMA CrashesCount ==
    ASSUME TypeOK, DaemonLists, HandlerOwnsPlan, [Next]_vars
    PROVE  \/ Die /\ crashes' # 0
           \/ ~Dies /\ crashes' = crashes /\ (phase = "serving" => phase' = "serving")
<1>1. CASE Waits
  BY <1>1 DEF Waits, Dies
<1>2. ASSUME NEW p \in PlanId,
             \/ Reverts(p) \/ Confirm(p) \/ BootApply(p)
             \/ \E d \in Request : Create(p, d)
             \/ \E s \in AskedTimeout : StartApply(p, s)
      PROVE  crashes' = crashes /\ phase' = phase
  BY <1>2 DEF Reverts, Confirm, BootApply, Create, StartApply, daemon, environment
<1>3. ASSUME NEW r \in Resource, Working(r)
      PROVE  crashes' = crashes /\ phase' = phase
  BY <1>3, WorkKeepsHandler, OtherCells
<1>4. CASE FinishApply \/ AbortApply \/ FinishRevert
  BY <1>4 DEF FinishApply, AbortApply, FinishRevert, Dies, daemon, environment
<1>5. CASE FinishBoot
  BY <1>5 DEF FinishBoot, Dies, environment
<1>6. CASE Crash \/ Reboot
  BY <1>6 DEF Crash, Reboot, Die, TypeOK
<1>. QED  BY <1>1, <1>2, <1>3, <1>4, <1>5, <1>6, StepShapes DEF Dies

LEMMA ConfirmsAtRest ==
    ASSUME Known, HStep, NEW p \in PlanId, Confirmed(p)
    PROVE  op.kind = "idle"
<1>0. TypeOK /\ DaemonLists /\ [Next]_vars
  BY StepIsEngineStep DEF Known, IInv
<1>1. ~Waits /\ \A q \in PlanId : ~Reverts(q)
  BY DEF Waits, Reverts, Rests, Confirmed
<1>2. \A r \in Resource : ~Working(r)
  BY <1>0, WorkKeepsHandler DEF Confirmed
<1>3. ~FinishApply /\ ~AbortApply /\ ~FinishBoot /\ ~Crash /\ ~Reboot
  BY <1>0 DEF FinishApply, AbortApply, FinishBoot, Crash, Reboot, Die, db, Confirmed, TypeOK
<1>4. ~FinishRevert
  BY <1>0 DEF FinishRevert, Confirmed, TypeOK, Operation
<1>. QED
  BY <1>0, <1>1, <1>2, <1>3, <1>4, StepShapes
     DEF Confirm, BootApply, Create, StartApply, Serving, Mutex

LEMMA HistoryStep ==
    ASSUME Known, HStep, Intact => BaseOK
    PROVE  HistoryOK'
<1>0. TypeOK /\ HistoryOK /\ DaemonLists /\ HandlerOwnsPlan /\ [Next]_vars
  BY StepIsEngineStep DEF Known, IInv
<1>1. {torn', lost', hollow'} \subseteq BOOLEAN
  BY <1>0, HistoryStays DEF HistoryOK
<1>2. latest' \in PlanId \cup {NoPlan}
  <2>1. CASE UNCHANGED hvars
    BY <1>0, <2>1 DEF hvars, history, HistoryOK
  <2>2. CASE Remember
    BY <1>0, <2>2 DEF Remember, HistoryOK
  <2>. QED  BY <2>1, <2>2 DEF HStep, HNext
<1>3. ASSUME crashes' = 0
      PROVE  /\ phase' = "serving" /\ ~torn' /\ ~lost'
             /\ Clean' => ~hollow'
  <2>1. ~Dies /\ crashes = 0 /\ phase' = "serving"
    BY <1>0, <1>3, CrashesCount DEF HistoryOK
  <2>2. ~torn' /\ ~lost'
    BY <1>0, <2>1 DEF HStep, HNext, Remember, hvars, history, HistoryOK
  <2>3. ASSUME Clean', hollow'
        PROVE  FALSE
    <3>1. Intact /\ crashes = 0 /\ ~hollow
      BY <1>0, <2>1, <2>3, ErrorsStay DEF Intact, Sane, HistoryOK
    <3>2. PICK p \in PlanId : Confirmed(p) /\ ~InPlace(p)
      BY <2>3, <3>1 DEF HStep, HNext, Remember, hvars, history
    <3>3. op.kind = "idle"
      BY <3>2, ConfirmsAtRest
    <3>. QED  BY <3>1, <3>2, <3>3 DEF BaseOK, Confirmed, Applied
  <2>. QED  BY <2>1, <2>2, <2>3
<1>. QED  BY <1>1, <1>2, <1>3 DEF HistoryOK

-----------------------------------------------------------------------------
(* The invariant, and what it is for.                                      *)

LEMMA InitHInv == HInit => HInv
<1>. SUFFICES ASSUME HInit
              PROVE  HInv
  OBVIOUS
<1>1. /\ \A p \in PlanId : state[p] = "none"
      /\ Applied = {} /\ op = Idle /\ latest = NoPlan /\ base = live
      /\ live \in Snapshot /\ phase = "serving"
  BY DEF HInit, Init, Applied, Snapshot
<1>2. op.kind = "idle" /\ op.half = {} /\ op.undo = {} /\ ~op.err
  BY <1>1 DEF Idle
<1>3. \A p \in PlanId : ~InHand(p)
  BY <1>1 DEF InHand
<1>4. \A r : ~Committed(r)
  BY <1>1 DEF Committed
<1>5. HistoryOK /\ PlansInOrder
  BY <1>1, <1>2 DEF HInit, HistoryOK, PlansInOrder
<1>6. HandlerCells /\ UndoOK
  BY <1>2 DEF HandlerCells, UndoOK
<1>7. CellsOK
  BY <1>1, <1>3, <1>4 DEF CellsOK, CellsAreSingle, SnapshotsKeep, CommittedIsLive, PendingFits, Snapshot
<1>8. BaseOK
  BY <1>1, <1>2, <1>3, <1>4 DEF BaseOK
<1>. QED  BY <1>5, <1>6, <1>7, <1>8 DEF HInv

LEMMA StepHInv == IInv /\ WorkOK /\ HInv /\ HStep => HInv'
<1>. SUFFICES ASSUME IInv, WorkOK, HInv, HStep
              PROVE  HInv'
  OBVIOUS
<1>1. Known /\ TypeOK /\ HistoryOK
  BY DEF Known, HInv, IInv
<1>2. HistoryOK' /\ PlansInOrder' /\ UndoOK'
  BY <1>1, HistoryStep, OrderStep, UndoStep DEF HInv
<1>3. Sane' => SaneStep
  BY <1>1, HistoryStays DEF SaneStep, HInv, HistoryOK
<1>4. Intact' => IntactStep
  <2>1. Intact' => Intact /\ Sane'
    BY <1>1, HistoryStays DEF HistoryOK, Intact
  <2>. QED  BY <1>3, <2>1 DEF IntactStep, HInv
<1>5. (Sane => HandlerCells /\ CellsOK)'
  BY <1>3, HandlerCellsStep, CellsStep
<1>6. (Intact => BaseOK)'
  BY <1>4, BaseStep
<1>. QED  BY <1>2, <1>5, <1>6 DEF HInv

LEMMA CarefulInvariance == CarefulSpec => [](IInv /\ WorkOK /\ HInv)
<1>1. HInit => Init
  BY DEF HInit
<1>2. HStep => [Next]_vars
  BY StepIsEngineStep
<1>3. CarefulSpec => Spec
  BY <1>1, <1>2, PTL DEF CarefulSpec, Spec, HStep
<1>. QED  BY <1>3, InitHInv, StepHInv, PInvariance, PTL DEF CarefulSpec, HStep, PInv

-----------------------------------------------------------------------------
(* With a careful client, once no plan is on probation the kernel is       *)
(* exactly what the last confirm left, duplicated, lost or leftover rules  *)
(* included: after applies, reverts, expiries and their timers, restarts   *)
(* of the daemon in the middle of a revert or of the boot reconcile        *)
(* (Engine.Create to ReconcileBoot, all of engine.go).                     *)
THEOREM CommittedKernel == CarefulSpec => []KernelIsCommitted
<1>1. IInv /\ WorkOK /\ HInv => KernelIsCommitted
  <2>. SUFFICES ASSUME IInv, HInv, Quiet, Clean, ~torn, ~lost, ~hollow
                PROVE  live = base
    BY DEF KernelIsCommitted
  <2>1. BaseOK /\ TypeOK
    BY DEF HInv, Intact, Sane, IInv
  <2>2. \A r \in Resource : ~Touched(r)
    BY DEF Quiet, Serving, Mutex, Touched, Applied
  <2>3. \A r \in Resource : live[r] = base[r]
    BY <2>1, <2>2 DEF BaseOK
  <2>. QED  BY <2>1, <2>3 DEF BaseOK, Snapshot, TypeOK
<1>. QED  BY <1>1, CarefulInvariance, PTL

(* After a restart, of the daemon or of the host, the boot sequence leaves *)
(* every resource of the last confirmed plan in place, whatever was cut    *)
(* short or expired in between (Recover, ReconcileBoot).                   *)
THEOREM BootRestores == CarefulSpec => BootHeals
<1>. DEFINE Heals == phase = "boot" /\ phase' = "serving" /\ latest # NoPlan /\ Clean' /\ ~hollow
                       => InPlace(latest)
<1>1. IInv /\ WorkOK /\ HInv /\ HStep => [Heals]_hvars
  <2>. SUFFICES ASSUME IInv, WorkOK, HInv, HStep,
                       phase = "boot", phase' = "serving", latest # NoPlan, Clean', ~hollow
                PROVE  InPlace(latest)
    OBVIOUS
  <2>1. /\ Known /\ TypeOK /\ DaemonLists /\ HandlerOwnsPlan /\ PlansInOrder /\ [Next]_vars
        /\ faults' = faults /\ faults \in Nat /\ Sane /\ HandlerCells
    BY StepIsEngineStep, ErrorsStay DEF Known, HInv, IInv, Sane, TypeOK
  <2>2. ~Waits
    <3>1. latest \in PlanId /\ state[latest] = "confirmed"
      BY <2>1 DEF PlansInOrder, HInv, HistoryOK
    <3>. QED  BY <2>1, <3>1 DEF Waits
  <2>3. ASSUME NEW p \in PlanId
        PROVE  /\ ~Reverts(p) /\ ~Confirm(p) /\ ~BootApply(p)
               /\ ~\E d \in Request : Create(p, d)
               /\ ~\E s \in AskedTimeout : StartApply(p, s)
    BY DEF Reverts, Confirm, BootApply, Create, StartApply, Serving, daemon
  <2>4. \A r \in Resource : ~Working(r)
    BY <2>1, WorkKeepsHandler
  <2>5. ~FinishApply /\ ~AbortApply /\ ~FinishRevert /\ ~Crash /\ ~Reboot
    BY DEF FinishApply, AbortApply, FinishRevert, Crash, Reboot, Die, daemon
  <2>6. FinishBoot
    BY <2>1, <2>2, <2>3, <2>4, <2>5, StepShapes
  <2>7. op.kind = "boot" /\ op.todo = {} /\ op.plan = latest
    BY <2>1, <2>6 DEF FinishBoot, PlansInOrder
  <2>. QED  BY <2>1, <2>7 DEF HandlerCells, Kept, InPlace
<1>. QED  BY <1>1, CarefulInvariance, PTL DEF CarefulSpec, HStep, BootHeals

(* Without a restart, what a client confirms is what the kernel runs       *)
(* (Engine.Apply, Engine.Confirm).                                         *)
THEOREM ConfirmedMeansLive == CarefulSpec => ConfirmedIsLive
<1>. DEFINE IsLive == \A p \in PlanId : Confirmed(p) /\ Clean /\ crashes = 0 => InPlace(p)
<1>1. IInv /\ WorkOK /\ HInv /\ HStep => [IsLive]_hvars
  <2>. SUFFICES ASSUME IInv, WorkOK, HInv, HStep,
                       NEW p \in PlanId, Confirmed(p), Clean, crashes = 0
                PROVE  InPlace(p)
    OBVIOUS
  <2>1. Known /\ Intact /\ BaseOK
    BY DEF Known, HInv, HistoryOK, Intact, Sane
  <2>2. op.kind = "idle" /\ p \in Applied
    BY <2>1, ConfirmsAtRest DEF Confirmed, Applied
  <2>. QED  BY <2>1, <2>2 DEF BaseOK
<1>. QED  BY <1>1, CarefulInvariance, PTL DEF CarefulSpec, HStep, ConfirmedIsLive

(* An Apply that returns an error after a single failed command, or after  *)
(* a failed MarkApplied, has put back everything it had installed, rules   *)
(* included (rollbackRunned, the rollback functions of the stages).        *)
THEOREM FailedApplyIsUndone == CarefulSpec => FailedApplyRollsBack
<1>. DEFINE Back == op.kind = "apply" /\ op.err /\ op'.kind = "idle" /\ phase' = "serving"
                      /\ faults = 1 /\ ~refused /\ ~hollow =>
                      /\ \A r \in op.done : live[r] = op.snap[r]
                      /\ ~torn /\ ~lost => OneBehind
<1>1. IInv /\ WorkOK /\ HInv /\ HStep => [Back]_hvars
  <2>. SUFFICES ASSUME IInv, WorkOK, HInv, HStep,
                       op.kind = "apply", op.err, op'.kind = "idle", phase' = "serving",
                       faults = 1, ~refused, ~hollow
                PROVE  /\ \A r \in op.done : live[r] = op.snap[r]
                       /\ ~torn /\ ~lost => OneBehind
    OBVIOUS
  <2>1. TypeOK /\ DaemonLists /\ [Next]_vars /\ UndoOK
    BY StepIsEngineStep DEF IInv, HInv
  <2>2. ~Waits /\ ~Crash /\ ~Reboot /\ ~FinishApply /\ ~FinishRevert /\ ~FinishBoot
    BY DEF Waits, Crash, Reboot, Die, FinishApply, FinishRevert, FinishBoot
  <2>3. ASSUME NEW p \in PlanId
        PROVE  /\ ~Reverts(p) /\ ~Confirm(p) /\ ~BootApply(p)
               /\ ~\E d \in Request : Create(p, d)
               /\ ~\E s \in AskedTimeout : StartApply(p, s)
    BY DEF Reverts, Confirm, BootApply, Create, StartApply, Serving, Mutex
  <2>4. \A x \in Resource : ~Working(x)
    BY <2>1, WorkKeepsHandler
  <2>5. AbortApply
    BY <2>1, <2>2, <2>3, <2>4, StepShapes
  <2>6. /\ \A r \in op.done : live[r] = op.snap[r]
        /\ ~torn /\ ~lost => LeftOK
    BY <2>1, <2>5 DEF AbortApply, UndoOK
  <2>7. Behind \ op.done = Behind
    BY <2>6 DEF Behind
  <2>. QED  BY <2>6, <2>7 DEF LeftOK, OneBehind
<1>. QED  BY <1>1, CarefulInvariance, PTL DEF CarefulSpec, HStep, FailedApplyRollsBack
=============================================================================
