------------------------------ MODULE PlanPage ------------------------------
(***************************************************************************)
(* The page of one plan in the browser (app/src/pages/PlanDetail.vue):     *)
(* it loads the plan when it is mounted, polls it every second while it    *)
(* shows it as applied, and shows whatever answer came last.  The agent is *)
(* the abstract life of a plan that PlanEngine implements; the watchdog    *)
(* and other clients move the plan too.                                    *)
(*                                                                         *)
(* Answers may be lost and may overtake one another.  A Vue watcher runs   *)
(* in the same task as the assignment it watches, so the two are one step. *)
(***************************************************************************)
EXTENDS Naturals

CONSTANTS Call,     \* bound: calls in flight at one time
          MaxLost   \* bound: answers lost

ASSUME LostAssumption == MaxLost \in Nat

VARIABLES
    status, overdue,   \* the agent's plan
    page,              \* the component
    flight,            \* Call -> the call, its answer once there is one
    lost

MaxPlans == 1
Agent == INSTANCE PlanLifecycle

plan == status[1]
agentVars == <<status, overdue>>
pageVars == <<status, overdue, page, flight, lost>>

PlanStates == {"pending", "applied", "confirmed", "reverted", "expired"}
Free == [kind |-> "free", answer |-> "waiting"]

PageTypeOK ==
    /\ status \in [1..1 -> PlanStates]
    /\ overdue \subseteq {1}
    /\ page \in [mounted : BOOLEAN,        \* until onUnmounted
                 loading : BOOLEAN,        \* onMounted awaits its load
                 shown : PlanStates \cup {"nothing"},
                 polling : BOOLEAN,        \* pollTimer runs
                 error : BOOLEAN,          \* the last load failed: shown instead of the plan
                 busy : BOOLEAN,           \* an action awaits its answer
                 leftLoading : BOOLEAN]    \* remembered: unmounted while loading
    /\ flight \in [Call -> [kind : {"free", "mount", "poll", "apply", "confirm", "revert"},
                            answer : PlanStates \cup {"waiting", "failed"}]]
    /\ lost \in 0..MaxLost

PageInit ==
    /\ status \in [1..1 -> PlanStates]
    /\ overdue = {}
    /\ page = [mounted |-> TRUE, loading |-> TRUE, shown |-> "nothing", polling |-> FALSE,
               error |-> FALSE, busy |-> FALSE, leftLoading |-> FALSE]
    /\ LET first == CHOOSE c \in Call : TRUE
       IN  flight = [[c \in Call |-> Free] EXCEPT ![first].kind = "mount"]
    /\ lost = 0

Sends(kind) == \E c \in Call :
    /\ flight[c] = Free
    /\ flight' = [flight EXCEPT ![c].kind = kind]

-----------------------------------------------------------------------------
(* The agent and the network.                                              *)

(* Buttons are there for the state shown, unless an error is shown in its  *)
(* place, and disabled while busy.                                         *)
Clicks(kind) ==
    /\ page.mounted /\ ~page.loading /\ ~page.error /\ ~page.busy
    /\ page.shown = IF kind = "apply" THEN "pending" ELSE "applied"
    /\ page' = [page EXCEPT !.busy = TRUE]
    /\ Sends(kind)
    /\ UNCHANGED <<agentVars, lost>>

Performs(kind) ==
    CASE kind = "apply"   -> Agent!Begin(1)
      [] kind = "confirm" -> Agent!Settle(1, "confirmed")
      [] kind = "revert"  -> Agent!Settle(1, "reverted")
      [] OTHER            -> UNCHANGED agentVars

(* The agent does what it is asked and answers with the plan, or refuses.  *)
AgentAnswers(c) ==
    /\ flight[c].kind # "free" /\ flight[c].answer = "waiting"
    /\ \/ /\ Performs(flight[c].kind)
          /\ flight' = [flight EXCEPT ![c].answer = status'[1]]
       \/ /\ flight[c].kind \in {"apply", "confirm", "revert"}
          /\ flight' = [flight EXCEPT ![c].answer = "failed"]
          /\ UNCHANGED agentVars
    /\ UNCHANGED <<page, lost>>

(* The call, or the answer to a call that was performed, does not arrive.  *)
AnswerIsLost(c) ==
    /\ lost < MaxLost
    /\ flight[c].kind # "free" /\ flight[c].answer # "failed"
    /\ lost' = lost + 1
    /\ flight' = [flight EXCEPT ![c].answer = "failed"]
    /\ UNCHANGED <<agentVars, page>>

(* The deadline, the watchdog, and other clients.                          *)
AgentMoves == Agent!Next /\ UNCHANGED <<page, flight, lost>>

-----------------------------------------------------------------------------
(* The component.                                                          *)

(* Mutant: the watcher only stops the timer.                               *)
Watched_StopsOnly(p, s) ==
    IF p.mounted /\ s # p.shown /\ s # "applied" THEN [p EXCEPT !.shown = s, !.polling = FALSE]
    ELSE [p EXCEPT !.shown = s]

(* plan.value = an answer, and the watcher on its state: it starts or      *)
(* stops the timer when the state changes, until the page is unmounted.    *)
Watched(p, s) ==
    IF p.mounted /\ s # p.shown THEN [p EXCEPT !.shown = s, !.polling = (s = "applied")]
    ELSE [p EXCEPT !.shown = s]

(* Mutant: the page polls as soon as it is mounted, whatever the state.    *)
Continues_Polls(p) == [p EXCEPT !.loading = FALSE, !.polling = TRUE]

(* What onMounted does after its load, mounted or not by then.             *)
Continues(p) == [p EXCEPT !.loading = FALSE, !.polling = @ \/ p.shown = "applied"]

Heard(kind, answer) ==
    LET p == IF answer = "failed" THEN page ELSE Watched(page, answer)
        loaded == [p EXCEPT !.error = (answer = "failed")]
    IN  CASE kind = "mount" -> Continues(loaded)
          [] kind = "poll"  -> loaded
          [] OTHER          -> [p EXCEPT !.busy = FALSE]

PageHears(c) ==
    /\ flight[c].kind # "free" /\ flight[c].answer # "waiting"
    /\ page' = Heard(flight[c].kind, flight[c].answer)
    /\ flight' = [flight EXCEPT ![c] = Free]
    /\ UNCHANGED <<agentVars, lost>>

Polls ==
    /\ page.polling
    /\ Sends("poll")
    /\ UNCHANGED <<agentVars, page, lost>>

(* Mutant: the timer outlives the page.                                    *)
Unmounts_KeepsTimer ==
    /\ page.mounted
    /\ page' = [page EXCEPT !.mounted = FALSE, !.leftLoading = page.loading]
    /\ UNCHANGED <<agentVars, flight, lost>>

Unmounts ==
    /\ page.mounted
    /\ page' = [page EXCEPT !.mounted = FALSE, !.polling = FALSE, !.leftLoading = page.loading]
    /\ UNCHANGED <<agentVars, flight, lost>>

PageNext ==
    \/ \E kind \in {"apply", "confirm", "revert"} : Clicks(kind)
    \/ \E c \in Call : AgentAnswers(c) \/ AnswerIsLost(c) \/ PageHears(c)
    \/ AgentMoves
    \/ Polls
    \/ Unmounts

-----------------------------------------------------------------------------
Mounted == page.mounted
IsSettled == plan \in {"confirmed", "reverted", "expired"}

(* A page that shows a plan on probation is polling, so that it cannot     *)
(* miss the end of the probation; and a page that was left polls only if   *)
(* it was left during its first load.                                      *)
PollsWhileApplied ==
    /\ Mounted /\ page.shown = "applied" => page.polling
    /\ ~Mounted /\ page.polling => page.leftLoading

(* However answers overtake one another, a plan once shown as applied is   *)
(* never shown as pending again, with an Apply button.                     *)
NeverBackToPending ==
    [][page.shown \notin {"nothing", "pending"} => page'.shown # "pending"]_pageVars

(* A page that shows the plan on probation when it is settled comes to     *)
(* show how it was settled, unless it is left: stale answers may bring the *)
(* applied state back, but the polling they restart ends it.               *)
ShowsTheOutcome ==
    [](IsSettled /\ Mounted /\ page.shown = "applied" => <>(page.shown = plan \/ ~Mounted))
=============================================================================
