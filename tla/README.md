# Specifications of wg-admin

wg-admin administers a WireGuard host: a Go *agent* (root, unix socket) owns the
kernel and a SQLite file, and a small Node *app* serves a UI and proxies to it.
This directory holds TLA+ models of the agent and of the two stateful parts of
the UI, TLC configurations that check them on small instances, and TLAPS proofs.
`PROJECT.json` maps every definition to the lines it models and lists runs,
mutants, findings, hazards and theorems.

    tlc -config engine_faults.cfg PlanEngineMC      # any run: <name>.cfg
    tlapm PlanEngine_proofs.tla                     # any of the *_proofs modules

## 1. Inventory

| Component (source) | State | Operations | Hard part | Correct when |
|---|---|---|---|---|
| **Plan engine** `agent/internal/plan` | one mutex, watchdog timers per plan | Create, Apply, Confirm, Revert, watchdogFired, Recover, ReconcileBoot | handlers of many kernel commands; timers racing clients; death between two commands; rollback lists per error path; old snapshots | one plan on probation at a time; nothing unconfirmed stays; a revert restores; restart recovers |
| **Plan table** `store/plans.go` | rows: state, desired, snapshot, applied_at + timeout, confirmed_at | Insert, MarkApplied / Confirmed / Reverted, LastConfirmedPlan, ListPlansByState | writes fail after the kernel changed; second-granular ordering | a row only moves pending -> applied -> confirmed, reverted or expired |
| **Kernel commands** `kernel/real.go` | the host: ipsets, nft table, ip rules, routes, wg peers | one exec per command, 5 s timeout | a failed command may have taken effect; `ip rule` stacks; IPSetReplace is five commands | an error leaves old, new or an empty new set |
| **Daemon lifecycle** `cmd/wg-agent/main.go`, systemd units | phase of runDaemon | Open, Recover, peer reconcile, plan reconcile, serve | restart at any moment; a boot context of 30 s shared by both reconciles | ends up serving, healed |
| **Ownership gates** `plan/ownership.go`, `plan/nft.go` | - | validateRule/RouteOwnership, validateNFTBody | brace scan of nft text | agent touches only its own tables, priorities and nft table |
| **Peers API** `api/peers.go`, `store/peers.go` | peers table, kernel peers, peerMu | create, update, delete | database step and kernel step interleave across requests; ids are reused | database and kernel agree, or boot makes them agree; no address twice |
| **Boot peer reconcile** `reconcile/peers.go` | - | wait for interface, syncPeers | per-interface failures, timeouts, interfaces that come late | kernel peers = enabled rows; never hangs boot |
| **Importer** `importer`, `wgconf` | interfaces, peers | import | another process; aborts in the middle, is run again | complete, no duplicates |
| **Migrations** `store/store.go` | schema, schema_migrations | Open | two processes at once, death in the middle | a migration is made if and only if it is recorded |
| **RTT prober** `rttprobe` | cache, semaphore | probe, prune, Get | concurrent probes | bounded, fresh samples |
| **API server, store rest, mock, helpers** | - | reads, formatting | none | - |
| **App server** `app/server` | none (signed cookies) | login, proxy | upstream failures | - |
| **Plan page** `PlanDetail.vue` | the plan shown, poll timer | poll, act | answers overtake each other | the page comes to show how the plan ended |
| **Traffic store** `traffic.ts` | previous counters, rates | tick | ticks overlap, counters restart | rates add up to the traffic |

Interactions. API handlers call the engine, which takes its mutex, reads the row,
runs kernel commands and writes the row; `time.AfterFunc` timers call
`watchdogFired`, which takes the same mutex; `runDaemon` opens the database, calls
Recover, the peer reconcile and ReconcileBoot before it serves; systemd restarts
the daemon (`Restart=always`). Peer handlers share `peerMu` for the allocation of
an address only. `wg-agent import` is a process of its own on the same database.
wg-quick brings interfaces up with the peers of their files, whenever it likes.
Peers share nothing with plans but the host and the SQLite file; the page sees a
plan through its row only. So the models come in three groups, the plans, the
peers and the leaves, each checked as a whole.

## 2. Modules

    PlanEngine -> Resources, PlanLifecycle (refined)     PlanHistory -> PlanEngine
    PeerSystem -> PeerApi, PeerBoot, PeerImport -> PeerTable
    Leaves -> PlanPage (INSTANCE PlanLifecycle), TrafficStore, RttProber,
              IPSetSwap (INSTANCE Resources), Migrations
    pure: PlanDiff, Ownership, AddressWalk

### Plans

**Resources** - kernel objects as cells. A cell is a sequence of values because
`ip rule add` puts a second, different rule on the same priority
(`RuleAddRefused`, `AfterInstall`); every other kind holds at most one value.
`Observe` and `Capture` are snapshotRules' "last listed wins" and
`Engine.snapshot`; `AfterFailedInstall` is what a command that returned an error
may have left (nothing, everything, for a missing ipset an empty set).

**PlanLifecycle** - the abstract specification: what a client is promised,
without kernel, timers or crashes. Plans are submitted, at most one is on
probation, and it leaves probation once, by confirm, revert or, if overdue,
expiry.

**PlanEngine** - the engine, one action per kernel command or database write.

| State | Code |
|---|---|
| `state`, `desired`, `snapshotPre`, `confirmedAt`, `deadline` | columns of `plans`; `deadline` is applied_at + timeout_sec |
| `live` | the kernel |
| `phase`, `recovering` | how far runDaemon is; the rows Recover's loop has yet to visit |
| `armed`, `fired` | running timers; watchdog goroutines waiting for the mutex |
| `op` | the handler that holds the mutex: its plan, the snapshot it read, what is still to install, installed, to undo, the rule between its delete and its add, its error |
| `now`, `faults`, `refused`, `crashes` | clock in seconds; errors met; deaths |

A handler starts with the step that reads the rows (`StartApply`, `StartRevert`,
`WatchdogRuns`, `RecoverPlan`, `BootApply`), goes through `SkipRule`,
`DeleteOldRule`, `Install` and `Restore`, `RestoreRuleDel`, `RestoreRuleAdd`, and
ends with `FinishApply`, `AbortApply`, `FinishRevert` or `FinishBoot`. Because it
holds the mutex, other handlers wait; the clock, timers and death do not.
`StageFailed` is the one place where Apply (undo everything installed) and
ReconcileBoot (undo this stage, go on) differ. Any command and any statement may
fail, up to `MaxFaults`.

**PlanHistory** - PlanEngine with history variables (what the last confirm left,
which plan that was, whether an Apply was torn by a crash, whether the host was
rebooted, whether a plan was confirmed that the kernel did not hold in full) and the
careful client, who creates a plan only when none is on probation and applies only
the newest one.

**PlanDiff** - the summary Create stores (`diffIPSets`, `diffRoutes`,
`diffRules`, `diffNFT`, `Diff.Empty`), beside what a successful Apply makes of the
kernel, so that the one can be held against the other.

### Peers

**PeerTable** - the two stores that must agree: `rows` (the peers table with its
two unique indexes and SQLite's way of numbering rows) and `wg` (the kernel's
peers, with `wg set`'s way of taking an allowed-ip from its previous holder).
`Agrees(i, k)` is agreement about one key. Three variables are there for the
properties: `suspect`, the peers an erroneous or overlapping step touched,
`unsynced`, the interfaces wg-quick brought up after the reconcile had looked, and
`spent`, how much of each bound is used.

**PeerApi** - the handlers, one action per statement or command: a request in
slot `s` is at `req[s].pc` and holds the row it has read. `peerMu` is
`PeerMuFree`: held from `CreateResolves` to `CreateInserts`, and by nothing else.
A failing command may have taken effect. **PeerBoot** is `reconcile.Peers` within
runDaemon, **PeerImport** the importer's loop with the reading of sections
(`DetectRole`, `FirstAllowedIP`, `IsClientPeer`). **PeerSystem** composes them
with wg-quick, crashes and reboots. **AddressWalk** is NextFreeAddress and
isBroadcast, statement by statement.

### Leaves

**PlanPage** (with PlanLifecycle as the agent, so it is the page over what
PlanEngine is shown to implement), **TrafficStore**, **RttProber**, **IPSetSwap**
(IPSetReplace command by command, over the cells of Resources), **Migrations**
and **Ownership**. None of them reads what another writes: **Leaves** runs one
`part` per behaviour, since interleaving two of them would say nothing more.
Ownership states each gate twice: as the code does it (`RulesOwned`, rule by rule;
`BracesContained`, turn by turn) and as what it is for (`RulesAreOurs`,
`StaysInside`).

**...MC** - the instances for TLC; **..._proofs** - section 5.

### Abstractions

* Contents of resources are values compared for equality. One row per resource in
  a request: a request that names an ipset or a route twice is not modelled.
* Resources of one stage are visited in any order, where the code uses the order
  of the request.
* In the engine, IPSetReplace is one step with every outcome of its five commands
  as a failure outcome. IPSetSwap shows that this is what the five commands do. A
  *crash* between two of them is a state of IPSetSwap, not of PlanEngine.
* A handler that only reports an error (wrong state, another plan applied, a
  failed read, a request the gates reject) changes nothing and is left out. The
  same holds for a daemon that cannot start and is restarted.
* `ListPlansByState` and later `MarkReverted` see the same rows, since only the
  engine writes them and it holds the mutex.
* Audit entries, descriptions and timestamps other than those above are left out.
  Marks, hence owned tables, do not change, and requests pass the gates.
* The clock is in whole seconds like the rows; a timer fires at or after its
  deadline, with any delay.

* Peers keep the columns the kernel cares about. An address is the host number in
  its interface's subnet; a key pair is a value nobody has yet. Name, notes, tags
  and exit never reach the kernel.
* Requests refused before they change anything are left out; so are interfaces
  that are disabled (nothing disables one).
* The configuration files do not change, so roles are constants; a clients file
  names host addresses, and no file has a key before it is generated.
* The wait for an interface is a step that ends it, in or out of the budget of the
  boot context, `WaitsInContext` waits long. Waits that end because the interface
  came up cost no budget, and the reconcile's two reads are one step, since nothing
  else writes while it runs but the importer, whose rows are suspects anyway.
* The prober counts time in intervals; output of `ping` is a reply or none.
  The traffic store keeps one peer and one direction.

## 3. Runs

| Run | Instance | Shows |
|---|---|---|
| `engine_faults` | 2 plans, an ipset and a rule they share, timeouts -1 and 9, 1 fault, 1 crash | the lifecycle (`AtMostOneApplied`, `NeverExpiredEarly`, refinement of PlanLifecycle), that a handler's reads stay true (`HandlerOwnsPlan`), that every probation is guarded (`WatchdogCovers`), that applied means installed and reverted means restored for ipsets, nft and routes |
| `stage_rollback` | 1 plan of a careful client with all four kinds, 1 fault, 1 crash | the undo list of every error path, and that the resource whose command failed is the only one left behind |
| `probation_ends` | 2 plans over one rule, two timeouts, 1 crash, fairness | every applied plan is settled unless a command failed |
| `careful_client` | 2 plans, ipset and rule, 2 crashes | between plans the kernel is what the last confirm left, rules included; boot heals a rebooted host |
| `peers` | 3 interfaces (clients, full, mesh), a file with 2 peers, 2 requests at a time, 4 happenings of at most 3 requests, 1 error, 1 death, 1 import | drift between database and kernel is explained; addresses are allocated exclusively; boot is never stuck; mesh is left alone; an import that succeeds is complete |
| `leaves` | 3 calls in flight; 2 ticks; 3 targets, 2 places; 2 ipset calls, 2 errors; 2 processes, 3 migrations, 2 troubles | each leaf (below) |
| `stale_snapshot`, `crashed_apply`, `boot_over_probation`, `silent_rule_leftover`, `no_confirm_no_watchdog`, `revoked_tunnel` | 1 or 2 plans; as `peers` | the six statements of comments and README that the code does not keep (section 4) |

`peers`: `DriftIsExplained` is what "DB and kernel in sync" can mean here. With
concurrent handlers, ids that are reused and errors, they do differ; the property
says that no difference comes from anywhere else, and that a reconcile that has
read an interface mends all of them. `AllocationIsExclusive` is about peerMu: the
unique index would catch the rest. `BootNeverStuck` is "must not hang boot".
PeerSystemMC also holds AddressWalk against `IsNextFree` for every network and
every set of used addresses of a 2-bit-byte address space.

`leaves`: a page that shows a probation polls, is never set back to pending, and
comes to show how the plan ended (`PollsWhileApplied`, `NeverBackToPending`,
`ShowsTheOutcome`); rates add up as long as answers come in order (`RatesAddUp`);
samples age out and are not replaced by older ones, and rounds end
(`SamplesAgeOut`, `SamplesDoNotGoBack`, `EveryRoundEnds`); an ipset is never
partial, and success means installed (`NeverPartial`, `SuccessIsInstalled`); a
migration is recorded if and only if made, open means migrated, and the daemon
comes to open its database beside an importer (`SchemaIsRecorded`,
`OpenIsMigrated`, `DaemonOpens`). LeavesMC also compares the gates with what they
are for over all requests of up to three rules or routes and all texts of up to
five tokens, and the summary with the effect of a plan; section 5 proves both of
every request.

**Bounds.** Two plans are the least with which a plan can be created, confirmed
or applied while another one is in the way, and every property relates at most
two. Two values per resource tell old from new, and a resource starts absent or
with either. One fault and one crash each may strike at every step, so each
property meets every single failure, and the two together, in every order; two
faults in one handler are left to the proofs. `careful_client` has two crashes, as it
takes two restarts to see what a hollow confirm (section 4, 4) leads to. `MaxTime = 1`
still lets the clock reach every deadline: `Tick` continues while an armed timer waits.
`probation_ends` uses one resource, as liveness does not depend on how many there
are, and two timeouts, so that a plan can be within or past its deadline at
restart.

`peers`: two requests at a time, as every race of the handlers is between two, and
a third after them, so that a reused row id meets a late step; one error and one
death may strike at every step. The first interface is mesh, so that a skipped
interface precedes one to sync; the second has an unimported peer in its file and
one whose PSK only the kernel knows; the third has a subnet without a free host
and is down at first, so that waits run out. `WaitsInContext = 1` makes one wait
exhaust the context, the code's three would need four interfaces for the same.
Fresh keys and slots are symmetric (safety only in this run). `leaves`: three calls
let an answer overtake two others; two ticks overlap; three targets, two with one
key, are more than the two places; the second IPSetReplace meets what the first
left; the third migration lets a process fall behind by one and by two.

Deadlock is not checked: bounded counters and settled plans leave the systems
with nothing left to do.

**Fairness** (`FairSpec`). Time passes; a handler that holds the mutex goes on,
since each command is killed after 5 s; expired timers fire; systemd restarts the
daemon and runDaemon goes on. `WatchdogRuns` gets strong fairness: other handlers
can take the mutex between two chances of a waiting watchdog, but Go's mutex hands
itself to a goroutine that has waited for 1 ms. Clients, faults and crashes get
none. In Leaves the agent answers, the browser delivers, the poll timer fires
(strong: it needs a free slot for its call), pings end (`ping -W`), goroutines run,
and the daemon, but not the importer, is restarted. Users, other clients, lost
answers and deaths get none; those are bounded. The peers run has no liveness.

**What is not promised.** `WatchdogCovers` and `ProbationEnds` stop at the first
failed command, `KernelIsCommitted` also at a torn Apply and a reboot, and it,
`BootHeals` and `FailedApplyRollsBack` at a hollow confirm. The violation runs show
that these exceptions are needed. `AppliedIsInstalled`
and `RevertIsRestored` leave out rules: with a stale snapshot, or a failed
RuleDel, the code gives no such guarantee for them; `ConfirmedIsLive` and
`KernelIsCommitted` include rules, for the careful client. `DriftIsExplained` says
nothing of suspects; the reconcile forgets them. `RatesAddUp` ends at the first
answer out of order, `SamplesAgeOut` counts to the last round with targets,
`NeverPartial` leaves out a stale `<name>_new` that could not be destroyed,
`DaemonOpens` a database with duplicate addresses, `ShowsTheOutcome` a page that
missed the beginning of the probation.

## 4. Where the code differs from what it says

1. *"Snapshot is the pre-apply live state"* (`types.go:38`): it is the state at
   Create (`stale_snapshot`). Reverting an old plan undoes what was confirmed
   since, and rules can be stacked on one priority.
2. *"if you don't confirm within the timeout, the change is auto-reverted"*
   (`README.md:136`): not after a confirm whose write failed, nor after a failed
   revert; the timer is gone by then (`no_confirm_no_watchdog`).
3. *"Crashed mid-apply plans stay 'pending' - safe"* (`engine.go:269`): the kernel
   keeps the half that was installed (`crashed_apply`).
4. *"reboot reconcile is recovery, not a policy change"* (`engine.go:307`): a
   restart during a probation installs the previous plan over the one under test
   (`boot_over_probation`). Confirm accepts such a plan all the same: it is then
   confirmed without being in the kernel, and the restart after that changes the
   kernel under a client who saw nothing on probation. So does a restart that cuts
   a revert short, after which Recover re-arms the watchdog. `hollow` remembers it.
5. *"we keep going and surface the first error"* (`engine.go:243`): not RuleDel's
   (`silent_rule_leftover`).
6. *"otherwise a "disabled" (revoked) client keeps its tunnel until the next agent
   restart"* (`api/peers.go:257`): it does, after two opposite updates at once
   (`revoked_tunnel`).

Met while modelling, with no run of their own (`PROJECT.json`, findings):
`IPSetReplace` is not atomic on failure (`ipset.go:73`) and mixes in a stale set it
could not destroy; the rollback of a create may delete another peer's row
(`api/peers.go:144`); an update whose GetInterface fails answers 200 without
toggling (`api/peers.go:264`); imported peers do not wait for "the plan/apply
flow" (`importer.go:3`) but for a restart; disabling and enabling strips a PSK the
database does not know; the prober keeps the samples of the last peers to leave
(`rttprobe.go:93`).

## 5. Proofs

The theorems hold for all values of the constants: any number of plans, resources,
requests, interfaces, keys, slots, targets, processes, errors and crashes. What
they assume are the named ASSUMEs of the modules, which TLC evaluates on every run.

| Module | Theorems |
|---|---|
| `PlanEngine_proofs` | `TypeCorrect` (TypeOK), `OneProbation` (AtMostOneApplied), `HandlersAreExclusive` (HandlerOwnsPlan), `ProbationIsGuarded` (WatchdogCovers) |
| `PlanPromises_proofs` | `EngineImplementsLifecycle` (ImplementsLifecycle), `NoEarlyExpiry` (NeverExpiredEarly), `AppliedMeansInstalled` (AppliedIsInstalled), `RevertedMeansRestored` (RevertIsRestored), `RowsAreFinal` |
| `Algorithms_proofs` | `FreshPlanInstalls`, `SummaryExact`, `EmptySummaryIsNoChange`, `ApplyingAgainIsNoChange`; `RuleGateIsExact`, `ScanIsExact`; `WalkFindsTheLeast` |
| `PlanHistory_proofs` | `CommittedKernel` (KernelIsCommitted), `BootRestores` (BootHeals), `ConfirmedMeansLive` (ConfirmedIsLive), `FailedApplyIsUndone` (FailedApplyRollsBack) |
| `PeerSystem_proofs` | `PeersTypeCorrect` (TypeOK), `AllocatesExclusively` (AllocationIsExclusive), `MeshIsUntouched` (MeshUntouched), `BootMovesOn`, `ImportCompletes` (ImportIsComplete) |
| `PeerDrift_proofs` | `DriftExplained` (DriftIsExplained) |
| `AgentLeaves_proofs` | `SwapIsAtomic` (NeverPartial), `SwapInstalls` (SuccessIsInstalled); `SamplesArePruned` (SamplesAgeOut), `SemaphoreBounds`, `NoSampleGoesBack` (SamplesDoNotGoBack); `MigrationsAreRecorded` (SchemaIsRecorded), `OpenedIsMigrated` (OpenIsMigrated) |
| `Leaves_proofs` | `LeavesAreIndependent`, `LeavesTypeCorrect` (TypeOK), `ProbationIsPolled` (PollsWhileApplied), `AppliedStaysApplied` (NeverBackToPending), `PageMeetsTheLifecycle`, `RecordedIsTransferred` (RatesAddUp), `AgentLeavesHold` |

**The engine.** None of the four is inductive alone. `AtMostOneApplied` fails if
Apply could write its row when another plan has become applied, so the invariant
carries what Apply saw when it took the mutex (`HandlerOwnsPlan`). That in turn
needs `DaemonLists`: Recover's loop holds applied plans only, never the one being
reverted, and a dead daemon has no timers. `TypeOK` needs `HandlerWork`: what is
still to install was listed by the plan, and a rule between delete and add has an
old rule to return to. `WatchdogCovers` needs `ErrorIsReal`: a revert that ends in
an error, and so leaves an unguarded plan, has met a failed command. Their
conjunction is `IInv`; each conjunct has its step lemma with one case per action.

**Its promises** (`PInv`) strengthen `IInv` by what the handler has done so far:
every resource it no longer has to install holds what was asked for, every resource
it no longer has to undo what the snapshot recorded, and the deadline of a plan that
is to expire has passed. Refinement is step by step: only four actions change a row
(`StateChanges`), each maps to an action of PlanLifecycle, all others stutter. From the
same lemma a settled plan stays settled, and only Create writes what a plan asks for
(`RowsAreFinal`).

**Peers** (`IInv`): the table respects its indexes (`IsTable`), a request holds a
row of the kind its position needs (`SlotsOK`), one request at most is between
choice and insert (`OneInserts`), the reconcile works on an up clients interface
(`ReconcileOK`), and what an import has still to insert is importable (`TodoOK`).
`ImportCompletes` adds that the files passed so far are complete. `BootMovesOn` is the
half of "must not hang boot" that needs no ENABLED: every step of the reconcile leaves
one interface, one read, one key or one row less, and only a death undoes one.

**Drift** (`DInv`) is `DriftIsExplained` with what every actor knows of its row: two
requests on one id know of each other (`OverlapsAreRaced`); one that is alone
holds the row as it is in the table (`HeldIsCurrent`) and knows, by its position,
the row's flag or that the key is gone from the kernel (`RequestsKnow`); a key to
be inserted is nobody's (`NewKeyIsNew`); and what the reconcile wants to set is in
the table, what it wants to remove unwanted (`ReconcileKnows`). `wg set` is the hard
step, since it takes the address from whoever has it: for a current row nobody
enabled has it, by the unique index (`SetKeepsOthers`), for an outdated row that
peer is a suspect. All steps of requests past their insert go through one
description, `WellDone`, and those that name a row through `Naming`.

**The careful client** (`HInv`, which rests on `IInv` and the work invariant of the
engine's promises) has to say what every cell holds, rules included, although a rule
is replaced in two commands and a second rule on a priority is stacked. It argues
through the order of plans (`PlansInOrder`): the plan in hand is the newest, and the
plan ReconcileBoot chooses is the one confirmed last. So the snapshot of the plan in
hand has the last confirmed plan's resources as that plan wants them
(`SnapshotsKeep`), whichever restarts came between: Create took it while the kernel
had them (`CommittedIsLive`), or the boot reconcile puts them back. From a snapshot
that is right the engine's delete-before-add is right, and no priority holds two
rules (`CellsAreSingle`, `HandlerCells`). These hold through every restart. Without a
torn Apply or a reboot the kernel is, moreover, the committed one but for the plan in
hand, whose snapshot has the difference (`BaseOK`), and that gives
`KernelIsCommitted`. `FailedApplyRollsBack` is the one property of a failed command:
`UndoOK` follows the undo list of the Apply that met it. Its part `LeftOK` says which
resource that list can do nothing about: until the first command fails whatever is
neither done nor half done is as the snapshot has it, so after it all but the
resource in hand are, and that one, if it is a rule, is gone or the new one
(`rules.go:76` deletes before it adds). Two things came out of the
proof. The invariant was not inductive until hollow confirms were excluded, and TLC
then found the two-restart behaviour of section 4, 4 that breaks the property
without it. And a boot reconcile that the database keeps from
starting heals nothing, so `BootHeals` is about a boot without errors up to its end.

**The leaves.** IPSetSwap's invariant says, per command, which cells the two sets
may hold; the prober's, that places taken are pings running and that a ping is of
the current round; the migrations', that a process is never ahead of the schema it
has read. The page's (`PageInv`) is about the first load: it is heard before anything
else is sent, so it alone can be answered "pending", and it finds the page showing
nothing; `PageMeetsTheLifecycle` says that its plan moves as PlanLifecycle allows,
which the engine implements. The traffic store's (`TrafficInv`) compares the samples
in flight, the last one recorded and the counter pairwise: of two, the younger has at
most what the older has and what was transferred between them. In Leaves no step of one leaf touches
another (`LeavesAreIndependent`), so all of these hold of the specification that the
run checks; fairness is not needed for any.

**The algorithms.** The rule gate's comparison of each rule with those before it is
an injection of positions into priorities, so Cardinality tells it
(`RuleGateIsExact`). The scan and the walk are loops of any length. The library's
induction takes an operator, which these provers cannot be given; `InductionUpTo`
takes the set of the numbers for which something holds instead, and follows from
the least element of a set of naturals. That the recursive functions exist at all
is proved the same way (`FoundFromDefined`, `FoldExists`). The scan's invariant
(`ScanIsRight`): the depth is the number of braces opened and not yet closed outside
comments, until a brace closes what nothing opened. The walk's goes downwards from
the end of the network: what is found from an address on is the least free one not
below it. Its hypothesis that `SizeOf(bits)` is positive is true of every prefix, but
has to be said, as the provers know no law of powers. The proofs found CASEs with
guards that overlap in the definitions of the scan and of AfterApply: TLC takes the
first that holds, TLA+ does not say which. The guards exclude each other now.

**Only model-checked.** Liveness under fairness (`ProbationEnds`,
`ShowsTheOutcome`, `EveryRoundEnds`, `DaemonOpens`) and ENABLED (`BootNeverStuck`)
are outside what TLAPS proves here. So is the arithmetic of powers of two: that
`isBroadcast`, byte by byte, finds the last address, and with it that the walk
finds what `IsNextFree` says, is checked over every network of a small address
space. The violation runs are counterexamples and need no proof.

## 6. Not modelled, and why

* Routing, JSON, read-only handlers, listing and scanning rows: no state changes.
* Marks, exits and the audit trail: single statements nothing else decides on.
* Key generation, renderer, GeoIP, parsing of command output and of .conf text,
  argument validation: data conversions without state.
* The keyword list of the nft gate: a list of words.
* The mock kernel and the dev seed: stand-ins for the real thing.
* The app server: sessions are signed cookies, the proxy forwards; its failures are
  the lost calls and answers of PlanPage and TrafficStore.
* The pages that only show what they load, and the history length and sums of the
  traffic store.
* The orderly shutdown of the daemon: it cancels contexts, which is an error of the
  command in progress, followed by a death; both are there.
* Configuration files that change between two imports, and interfaces that are
  created or removed: roles and subnets would have to become variables.
