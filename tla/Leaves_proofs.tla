--------------------------- MODULE Leaves_proofs ----------------------------
(***************************************************************************)
(* The leaves of the browser - the page of a plan and the traffic store -  *)
(* for any number of calls and ticks in flight, lost answers, bytes and    *)
(* restarts of the counter; and all leaves together, for what Leaves       *)
(* specifies of them.                                                      *)
(***************************************************************************)
EXTENDS Leaves, AgentLeaves_proofs

-----------------------------------------------------------------------------
(* The page.  The inductive invariant: the first load is heard before the  *)
(* page sends or shows anything, and neither the page nor an answer is     *)
(* ahead of the plan.  So an answer that overtakes another may be stale,   *)
(* but is never "pending" again.                                           *)

Loads(c) == flight[c].kind = "mount"

(* The first load is the only one of its kind, and until it is heard the   *)
(* page shows nothing and has no button, so that nothing else is sent.     *)
FirstLoad ==
    /\ \A c, d \in Call : Loads(c) /\ Loads(d) => c = d
    /\ \A c \in Call : Loads(c) => page.loading
    /\ page.loading =>
          /\ page.shown = "nothing" /\ ~page.polling
          /\ \A c \in Call : flight[c].kind \in {"free", "mount"}
          /\ page.mounted \/ page.leftLoading

(* What the page shows and what it has been answered is no further than    *)
(* the plan; only the first load can find the plan pending.                *)
BehindThePlan ==
    /\ plan = "pending" =>
          /\ page.shown \in {"nothing", "pending"} /\ ~page.polling
          /\ \A c \in Call : flight[c].kind \in {"free", "mount", "apply"}
          /\ \A c \in Call : flight[c].answer \in {"waiting", "failed", "pending"}
    /\ \A c \in Call : flight[c].answer = "pending" => Loads(c)

PageInv == PageTypeOK /\ FirstLoad /\ BehindThePlan /\ PollsWhileApplied

-----------------------------------------------------------------------------
(* The traffic store.  The inductive invariant compares the samples that   *)
(* wait in ticks, the last one recorded and the counter with one another:  *)
(* between two of them the counter grew by at most what was transferred,   *)
(* and by exactly that if it was never restarted.                          *)

Answered == {ticks[t] : t \in {u \in Tick : ticks[u].stage = "answered"}}

LastRecorded == [stage |-> "answered", bytes |-> store.prev, moved |-> store.upTo, nth |-> store.nth]

Samples == Answered \cup IF store.known THEN {LastRecorded} ELSE {}

TrafficStateOK ==
    /\ ticks \in [Tick -> [stage : {"free", "asked", "answered"}, bytes : 0..MaxBytes,
                           moved : 0..MaxBytes, nth : Nat]]
    /\ taken \in Nat
    /\ counter # Absent => counter <= moved
    /\ ~store.known => store = NewStore

(* After a sample the counter, and what a later sample saw of it, is at    *)
(* most what the sample saw and what has moved since.                      *)
GrowsByMoved ==
    \A s \in Samples :
        /\ s.moved <= moved /\ s.nth <= taken
        /\ counter # Absent => counter <= s.bytes + (moved - s.moved)
        /\ \A t \in Samples : s.nth < t.nth =>
              s.moved <= t.moved /\ t.bytes <= s.bytes + (t.moved - s.moved)

NeverRestarted ==
    resets = 0 => counter = moved /\ \A s \in Samples : s.bytes = s.moved

TrafficInv == TrafficTypeOK /\ TrafficStateOK /\ GrowsByMoved /\ NeverRestarted /\ RatesAddUp

Sample == [stage : {"answered"}, bytes : 0..MaxBytes, moved : 0..MaxBytes, nth : Nat]

-----------------------------------------------------------------------------
LEMMA SamplesAreSamples ==
    ASSUME TrafficTypeOK, TrafficStateOK
    PROVE  Samples \subseteq Sample
<1>1. Answered \subseteq Sample
  BY DEF Answered, Sample, TrafficStateOK
<1>2. LastRecorded \in Sample
  BY DEF LastRecorded, Sample, TrafficTypeOK
<1>. QED  BY <1>1, <1>2 DEF Samples

LEMMA TrafficInitOK == TrafficInit => TrafficInv
<1>. SUFFICES ASSUME TrafficInit
              PROVE  TrafficInv
  OBVIOUS
<1>. USE TrafficAssumption DEF TrafficInit, NewStore, NoTick
<1>1. TrafficTypeOK
  BY DEF TrafficTypeOK
<1>2. TrafficStateOK
  BY DEF TrafficStateOK
<1>3. Samples = {}
  BY DEF Samples, Answered
<1>4. GrowsByMoved /\ NeverRestarted /\ RatesAddUp
  BY <1>3 DEF GrowsByMoved, NeverRestarted, RatesAddUp
<1>. QED  BY <1>1, <1>2, <1>4 DEF TrafficInv

LEMMA TransfersKeeps == TrafficInv /\ Transfers => TrafficInv'
<1>. SUFFICES ASSUME TrafficInv, Transfers
              PROVE  TrafficInv'
  OBVIOUS
<1>. USE TrafficAssumption DEF TrafficInv, Transfers
<1>1. /\ counter \in Nat /\ counter <= moved /\ moved \in Nat
      /\ counter + 1 \in 0..MaxBytes /\ moved + 1 \in 0..MaxBytes
  BY DEF TrafficTypeOK, TrafficStateOK
<1>2. TrafficTypeOK'
  BY <1>1 DEF TrafficTypeOK
<1>3. TrafficStateOK'
  BY <1>1 DEF TrafficStateOK, NewStore
<1>4. Samples' = Samples
  BY DEF Samples, Answered, LastRecorded
<1>5. GrowsByMoved'
  BY <1>1, <1>4, SamplesAreSamples DEF GrowsByMoved, Sample, TrafficTypeOK, TrafficStateOK
<1>6. NeverRestarted'
  BY <1>1, <1>4 DEF NeverRestarted
<1>7. RatesAddUp'
  BY DEF RatesAddUp
<1>. QED  BY <1>2, <1>3, <1>5, <1>6, <1>7

LEMMA RestartsKeeps == TrafficInv /\ Restarts => TrafficInv'
<1>. SUFFICES ASSUME TrafficInv, Restarts
              PROVE  TrafficInv'
  OBVIOUS
<1>. USE TrafficAssumption DEF TrafficInv, Restarts
<1>1. TrafficTypeOK'
  BY DEF TrafficTypeOK
<1>2. TrafficStateOK'
  BY DEF TrafficStateOK, TrafficTypeOK, NewStore
<1>3. Samples' = Samples
  BY DEF Samples, Answered, LastRecorded
<1>4. GrowsByMoved'
  BY <1>3, SamplesAreSamples DEF GrowsByMoved, Sample, TrafficTypeOK
<1>5. resets' # 0
  BY DEF TrafficTypeOK
<1>. QED  BY <1>1, <1>2, <1>4, <1>5 DEF NeverRestarted, RatesAddUp

(* A step of the ticks that takes no sample and records none keeps what    *)
(* the samples are at most what they were.                                 *)
LEMMA FewerSamples ==
    ASSUME TrafficInv, TrafficStateOK',
           UNCHANGED <<counter, store, moved, resets, taken>>, Samples' \subseteq Samples
    PROVE  TrafficInv'
<1>. USE DEF TrafficInv
<1>1. TrafficTypeOK' /\ RatesAddUp'
  BY DEF TrafficTypeOK, RatesAddUp
<1>2. GrowsByMoved'
  BY DEF GrowsByMoved
<1>3. NeverRestarted'
  BY DEF NeverRestarted
<1>. QED  BY <1>1, <1>2, <1>3

LEMMA TickStartsKeeps ==
    ASSUME TrafficInv, NEW t \in Tick, TickStarts(t)
    PROVE  TrafficInv'
<1>. USE TrafficAssumption DEF TrafficInv, TickStarts
<1>1. TrafficStateOK'
  BY DEF TrafficStateOK, NewStore
<1>2. Samples' \subseteq Samples
  BY DEF Samples, Answered, LastRecorded, TrafficStateOK, NoTick
<1>. QED  BY <1>1, <1>2, FewerSamples

LEMMA TickFailsKeeps ==
    ASSUME TrafficInv, NEW t \in Tick, TickFails(t)
    PROVE  TrafficInv'
<1>. USE TrafficAssumption DEF TrafficInv, TickFails, NoTick
<1>1. TrafficStateOK'
  BY DEF TrafficStateOK, NewStore
<1>2. Samples' \subseteq Samples
  BY DEF Samples, Answered, LastRecorded, TrafficStateOK
<1>. QED  BY <1>1, <1>2, FewerSamples

(* A new sample is the youngest: no other has to be told from it but by    *)
(* what the counter is known to have grown.                                *)
LEMMA SampledKeeps ==
    ASSUME TrafficInv, NEW t \in Tick, Sampled(t)
    PROVE  TrafficInv'
<1>. USE TrafficAssumption DEF TrafficInv, Sampled
<1>. DEFINE new == [stage |-> "answered", bytes |-> counter, moved |-> moved, nth |-> taken + 1]
<1>1. UNCHANGED <<counter, store, moved, resets>> /\ taken' = taken + 1 /\ taken \in Nat
  BY DEF TrafficStateOK
<1>2. TrafficTypeOK' /\ RatesAddUp'
  BY <1>1 DEF TrafficTypeOK, RatesAddUp
<1>3. TrafficStateOK'
  <2>1. ticks' = [ticks EXCEPT ![t] = IF counter = Absent THEN NoTick ELSE new]
    OBVIOUS
  <2>2. counter # Absent => counter \in 0..MaxBytes
    BY DEF TrafficTypeOK
  <2>. QED  BY <1>1, <2>1, <2>2 DEF TrafficStateOK, NewStore, NoTick, TrafficTypeOK
<1>4. Samples' \subseteq Samples \cup {s \in {new} : counter # Absent}
  BY <1>1 DEF Samples, Answered, LastRecorded, TrafficStateOK, NoTick
<1>5. \A s \in Samples' : s \in Samples \/ (counter # Absent /\ s = new)
  <2>. HIDE DEF new
  <2>. QED  BY <1>4
<1>6. GrowsByMoved'
  <2>1. ASSUME NEW s \in Samples'
        PROVE  s.moved <= moved /\ s.nth <= taken + 1
               /\ (counter # Absent => counter <= s.bytes + (moved - s.moved))
    BY <1>1, <1>5, SamplesAreSamples DEF GrowsByMoved, Sample, TrafficTypeOK
  <2>2. ASSUME NEW s \in Samples', NEW u \in Samples', s.nth < u.nth
        PROVE  s.moved <= u.moved /\ u.bytes <= s.bytes + (u.moved - s.moved)
    <3>1. s \in Samples
      BY <1>1, <1>5, <2>1, <2>2, SamplesAreSamples DEF GrowsByMoved, Sample
    <3>2. CASE u \in Samples
      BY <2>2, <3>1, <3>2 DEF GrowsByMoved
    <3>3. CASE counter # Absent /\ u = new
      BY <2>1, <3>1, <3>3 DEF GrowsByMoved
    <3>. QED  BY <1>5, <3>2, <3>3
  <2>. QED  BY <1>1, <2>1, <2>2 DEF GrowsByMoved
<1>7. NeverRestarted'
  BY <1>1, <1>5 DEF NeverRestarted
<1>. QED  BY <1>2, <1>3, <1>6, <1>7

LEMMA TickAnsweredKeeps ==
    ASSUME TrafficInv, NEW t \in Tick, TickAnswered(t)
    PROVE  TrafficInv'
<1>. USE TrafficAssumption DEF TrafficInv, TickAnswered
<1>. DEFINE a == ticks[t]
<1>1. a \in Samples /\ a \in Sample
  BY SamplesAreSamples DEF Samples, Answered
<1>2. UNCHANGED <<counter, moved, resets, taken>>
  OBVIOUS
<1>3. LastRecorded' = a
  BY <1>1 DEF Recorded, LastRecorded, Sample
<1>4. store'.known /\ Samples' \subseteq Samples
  BY <1>1, <1>3, TickFailsKeeps DEF Samples, Answered, Recorded, NoTick, TrafficStateOK
<1>5. GrowsByMoved' /\ NeverRestarted'
  BY <1>2, <1>4 DEF GrowsByMoved, NeverRestarted
<1>6. CASE ~store.known
  <2>1. store.recorded = 0 /\ store.nth = 0 /\ store.inOrder
    BY <1>6 DEF TrafficStateOK, NewStore
  <2>2. (store.inOrder /\ a.nth > store.nth) \in BOOLEAN
    OBVIOUS
  <2>3. store' = [known |-> TRUE, prev |-> a.bytes, recorded |-> 0, base |-> a.moved,
                  upTo |-> a.moved, nth |-> a.nth,
                  inOrder |-> store.inOrder /\ a.nth > store.nth]
    BY <1>6, <2>1 DEF Recorded
  <2>4. TrafficTypeOK' /\ TrafficStateOK'
    BY <1>1, <1>2, <2>2, <2>3 DEF TrafficTypeOK, TrafficStateOK, NoTick, Sample
  <2>5. RatesAddUp'
    BY <1>1, <2>3 DEF RatesAddUp, Sample
  <2>. QED  BY <1>5, <2>4, <2>5
<1>7. CASE store.known
  <2>. DEFINE grown == Growth(a.bytes, store.prev)
              follows == store.inOrder /\ a.nth > store.nth
  <2>1. store' = [known |-> TRUE, prev |-> a.bytes, recorded |-> store.recorded + grown,
                  base |-> store.base, upTo |-> a.moved, nth |-> a.nth,
                  inOrder |-> follows]
    BY <1>7 DEF Recorded
  <2>2. /\ grown \in Nat
        /\ a.bytes >= store.prev => grown = a.bytes - store.prev
        /\ a.bytes < store.prev => grown = 0
    BY <1>1 DEF Growth, Sample, TrafficTypeOK
  <2>3. TrafficTypeOK' /\ TrafficStateOK'
    BY <1>1, <1>2, <2>1, <2>2 DEF TrafficTypeOK, TrafficStateOK, Sample, NoTick
  <2>4. store.nth < a.nth => /\ store.upTo <= a.moved
                             /\ a.bytes <= store.prev + (a.moved - store.upTo)
    <3>1. LastRecorded \in Samples
      BY <1>7 DEF Samples
    <3>. QED  BY <1>1, <3>1 DEF GrowsByMoved, LastRecorded
  <2>5. resets = 0 => a.bytes = a.moved /\ store.prev = store.upTo
    <3>1. LastRecorded \in Samples
      BY <1>7 DEF Samples
    <3>. QED  BY <1>1, <3>1 DEF NeverRestarted, LastRecorded
  <2>6. RatesAddUp'
    <3>. SUFFICES ASSUME store'.inOrder
                  PROVE  /\ store'.recorded <= store'.upTo - store'.base
                         /\ resets = 0 => store'.recorded = store'.upTo - store'.base
      BY <1>2 DEF RatesAddUp
    <3>1. store.inOrder /\ a.nth > store.nth
      <4>1. follows
        <5>. HIDE DEF follows, grown
        <5>. QED  BY <2>1
      <4>. QED  BY <4>1
    <3>2. /\ store.recorded <= store.upTo - store.base
          /\ resets = 0 => store.recorded = store.upTo - store.base
      BY <1>7, <3>1 DEF RatesAddUp
    <3>3. /\ store'.recorded = store.recorded + grown /\ store'.upTo = a.moved
          /\ store'.base = store.base
      BY <2>1
    <3>4. /\ store.recorded \in Int /\ store.upTo \in Int /\ store.base \in Int /\ store.nth \in Int
          /\ store.prev \in Int /\ a.bytes \in Int /\ a.moved \in Int /\ a.nth \in Int
      BY <1>1 DEF Sample, TrafficTypeOK
    <3>. HIDE DEF grown
    <3>. QED  BY <2>2, <2>4, <2>5, <3>1, <3>2, <3>3, <3>4
  <2>. QED  BY <1>5, <2>3, <2>6
<1>. QED  BY <1>6, <1>7

LEMMA TrafficInvStep == TrafficInv /\ [TrafficNext]_trafficVars => TrafficInv'
<1>. SUFFICES ASSUME TrafficInv, [TrafficNext]_trafficVars
              PROVE  TrafficInv'
  OBVIOUS
<1>1. CASE UNCHANGED trafficVars
  <2>1. UNCHANGED <<counter, store, ticks, moved, resets, taken>>
    BY <1>1 DEF trafficVars
  <2>2. TrafficStateOK' /\ Samples' = Samples
    BY <2>1 DEF TrafficInv, TrafficStateOK, NewStore, Samples, Answered, LastRecorded
  <2>. QED  BY <2>1, <2>2, FewerSamples
<1>. QED  BY <1>1, TransfersKeeps, RestartsKeeps, TickStartsKeeps, SampledKeeps,
             TickAnsweredKeeps, TickFailsKeeps DEF TrafficNext

-----------------------------------------------------------------------------
Pages == [mounted : BOOLEAN, loading : BOOLEAN, shown : PlanStates \cup {"nothing"},
          polling : BOOLEAN, error : BOOLEAN, busy : BOOLEAN, leftLoading : BOOLEAN]

Flights == [kind : {"free", "mount", "poll", "apply", "confirm", "revert"},
            answer : PlanStates \cup {"waiting", "failed"}]

LEMMA PageInitOK == PageInit => PageInv
<1>. SUFFICES ASSUME PageInit
              PROVE  PageInv
  OBVIOUS
<1>. DEFINE first == CHOOSE c \in Call : TRUE
<1>1. page \in Pages /\ status \in [1..1 -> PlanStates] /\ overdue = {} /\ lost \in 0..MaxLost
  BY LostAssumption DEF PageInit, Pages
<1>2. /\ flight \in [Call -> Flights]
      /\ \A c \in Call : flight[c].answer = "waiting"
      /\ \A c \in Call : flight[c].kind = IF c = first THEN "mount" ELSE "free"
  <2>1. flight = [[c \in Call |-> Free] EXCEPT ![first].kind = "mount"]
    BY DEF PageInit
  <2>. HIDE DEF first
  <2>. QED  BY <2>1 DEF Free, Flights
<1>3. PageTypeOK
  BY <1>1, <1>2 DEF PageTypeOK, Pages, Flights
<1>4. page.loading /\ page.shown = "nothing" /\ ~page.polling /\ page.mounted
  BY DEF PageInit
<1>5. FirstLoad /\ BehindThePlan
  <2>. HIDE DEF first
  <2>. QED  BY <1>2, <1>4 DEF FirstLoad, BehindThePlan, Loads
<1>6. PollsWhileApplied
  BY <1>4 DEF PollsWhileApplied, Mounted
<1>. QED  BY <1>3, <1>5, <1>6 DEF PageInv

(* The plan never becomes pending again, and a call that changes the plan  *)
(* leaves it in another state than pending.                                *)
LEMMA AgentGoesOn ==
    ASSUME PageTypeOK, Agent!Next
    PROVE  status' \in [1..1 -> PlanStates] /\ overdue' \subseteq {1}
           /\ (plan' = "pending" => plan = "pending")
<1>. USE DEF PageTypeOK, PlanStates, plan
<1>1. PICK q \in 1..1 : \/ Agent!Submit(q) \/ Agent!Begin(q) \/ Agent!DeadlinePasses(q)
                        \/ \E outcome \in Agent!Settled : Agent!Settle(q, outcome)
  BY DEF Agent!Next, Agent!PlanIds, MaxPlans
<1>2. q = 1 /\ status[1] # "none"
  BY <1>1
<1>3. CASE Agent!Begin(1)
  BY <1>3 DEF Agent!Begin
<1>4. CASE Agent!DeadlinePasses(1)
  BY <1>4 DEF Agent!DeadlinePasses
<1>5. ASSUME NEW outcome \in Agent!Settled, Agent!Settle(1, outcome)
      PROVE  status' \in [1..1 -> PlanStates] /\ overdue' \subseteq {1} /\ plan' # "pending"
  BY <1>5 DEF Agent!Settle, Agent!Settled
<1>. QED  BY <1>1, <1>2, <1>3, <1>4, <1>5 DEF Agent!Submit

LEMMA CallMovesThePlan ==
    ASSUME PageTypeOK, NEW kind, Performs(kind)
    PROVE  /\ status' \in [1..1 -> PlanStates] /\ overdue' \subseteq {1}
           /\ plan' = "pending" => plan = "pending"
           /\ kind \in {"apply", "confirm", "revert"} => plan' # "pending"
<1>. USE DEF PageTypeOK, PlanStates, plan
<1>1. CASE kind = "apply"
  BY <1>1 DEF Performs, Agent!Begin
<1>2. CASE kind = "confirm"
  BY <1>2 DEF Performs, Agent!Settle
<1>3. CASE kind = "revert"
  BY <1>3 DEF Performs, Agent!Settle
<1>4. CASE kind \notin {"apply", "confirm", "revert"}
  BY <1>4 DEF Performs, agentVars
<1>. QED  BY <1>1, <1>2, <1>3, <1>4

-----------------------------------------------------------------------------
(* A button sends no first load, and is there only when the page shows a   *)
(* state, and the one of the plan or an earlier one.                       *)
LEMMA SendsOK ==
    ASSUME PageInv, NEW kind \in {"poll", "apply", "confirm", "revert"}, Sends(kind)
    PROVE  /\ flight' \in [Call -> Flights]
           /\ \A c \in Call : \/ flight'[c] = flight[c]
                              \/ flight'[c].kind = kind /\ flight'[c].answer = "waiting"
<1>1. PICK c \in Call : flight[c] = Free /\ flight' = [flight EXCEPT ![c].kind = kind]
  BY DEF Sends
<1>2. flight \in [Call -> Flights]
  BY DEF PageInv, PageTypeOK, Flights
<1>3. flight' \in [Call -> Flights]
  BY <1>1, <1>2 DEF Flights
<1>4. flight'[c].kind = kind /\ flight'[c].answer = "waiting"
  BY <1>1, <1>2 DEF Free
<1>5. \A d \in Call : d # c => flight'[d] = flight[d]
  BY <1>1, <1>2
<1>. QED  BY <1>3, <1>4, <1>5

LEMMA ClicksKeeps ==
    ASSUME PageInv, NEW kind \in {"apply", "confirm", "revert"}, Clicks(kind)
    PROVE  PageInv'
<1>. USE DEF PageInv
<1>1. /\ page' = [page EXCEPT !.busy = TRUE] /\ ~page.loading
      /\ page.shown = IF kind = "apply" THEN "pending" ELSE "applied"
      /\ UNCHANGED <<status, overdue, lost>> /\ Sends(kind)
  BY DEF Clicks, agentVars
<1>2. page \in Pages /\ page' \in Pages
  BY <1>1 DEF PageTypeOK, Pages
<1>3. PageTypeOK'
  BY <1>1, <1>2, SendsOK DEF PageTypeOK, Pages, Flights
<1>4. /\ page'.loading = page.loading /\ page'.shown = page.shown /\ page'.polling = page.polling
      /\ page'.mounted = page.mounted /\ page'.leftLoading = page.leftLoading
  BY <1>1, <1>2 DEF Pages
<1>5. \A c \in Call : \/ flight'[c] = flight[c]
                      \/ flight'[c].kind = kind /\ flight'[c].answer = "waiting"
  BY <1>1, SendsOK
<1>6. FirstLoad'
  BY <1>1, <1>4, <1>5 DEF FirstLoad, Loads
<1>7. BehindThePlan'
  BY <1>1, <1>4, <1>5 DEF BehindThePlan, Loads, plan
<1>8. PollsWhileApplied'
  BY <1>4 DEF PollsWhileApplied, Mounted
<1>. QED  BY <1>3, <1>6, <1>7, <1>8

LEMMA PollsKeeps == PageInv /\ Polls => PageInv'
<1>. SUFFICES ASSUME PageInv, Polls
              PROVE  PageInv'
  OBVIOUS
<1>. USE DEF PageInv
<1>1. UNCHANGED <<status, overdue, page, lost>> /\ page.polling /\ Sends("poll")
  BY DEF Polls, agentVars
<1>2. PageTypeOK'
  BY <1>1, SendsOK DEF PageTypeOK, Flights
<1>3. \A c \in Call : \/ flight'[c] = flight[c]
                      \/ flight'[c].kind = "poll" /\ flight'[c].answer = "waiting"
  BY <1>1, SendsOK
<1>4. FirstLoad'
  BY <1>1, <1>3 DEF FirstLoad, Loads
<1>5. BehindThePlan'
  BY <1>1, <1>3 DEF BehindThePlan, Loads, plan
<1>6. PollsWhileApplied'
  BY <1>1 DEF PollsWhileApplied, Mounted
<1>. QED  BY <1>2, <1>4, <1>5, <1>6

LEMMA UnmountsKeeps == PageInv /\ Unmounts => PageInv'
<1>. SUFFICES ASSUME PageInv, Unmounts
              PROVE  PageInv'
  OBVIOUS
<1>. USE DEF PageInv
<1>1. /\ page' = [page EXCEPT !.mounted = FALSE, !.polling = FALSE, !.leftLoading = page.loading]
      /\ UNCHANGED <<status, overdue, flight, lost>>
  BY DEF Unmounts, agentVars
<1>2. page \in Pages
  BY DEF PageTypeOK, Pages
<1>3. /\ page' \in Pages /\ page'.loading = page.loading /\ page'.shown = page.shown
      /\ ~page'.polling /\ ~page'.mounted /\ page'.leftLoading = page.loading
  BY <1>1, <1>2 DEF Pages
<1>4. PageTypeOK'
  BY <1>1, <1>3 DEF PageTypeOK, Pages
<1>5. FirstLoad'
  BY <1>1, <1>3 DEF FirstLoad, Loads
<1>6. BehindThePlan'
  BY <1>1, <1>3 DEF BehindThePlan, Loads, plan
<1>7. PollsWhileApplied'
  BY <1>3 DEF PollsWhileApplied, Mounted
<1>. QED  BY <1>4, <1>5, <1>6, <1>7

LEMMA AgentMovesKeeps == PageInv /\ AgentMoves => PageInv'
<1>. SUFFICES ASSUME PageInv, AgentMoves
              PROVE  PageInv'
  OBVIOUS
<1>. USE DEF PageInv
<1>1. UNCHANGED <<page, flight, lost>> /\ Agent!Next
  BY DEF AgentMoves
<1>2. PageTypeOK'
  BY <1>1, AgentGoesOn DEF PageTypeOK
<1>3. FirstLoad' /\ PollsWhileApplied'
  BY <1>1 DEF FirstLoad, Loads, PollsWhileApplied, Mounted
<1>4. BehindThePlan'
  BY <1>1, AgentGoesOn DEF BehindThePlan, Loads
<1>. QED  BY <1>2, <1>3, <1>4

(* A call in flight gets its answer, and the plan may move.                *)
LEMMA AnsweringKeeps ==
    ASSUME PageInv, NEW c \in Call, flight[c].kind # "free",
           NEW answer \in PlanStates \cup {"failed"},
           flight' = [flight EXCEPT ![c].answer = answer],
           status' \in [1..1 -> PlanStates], overdue' \subseteq {1}, lost' \in 0..MaxLost,
           page' = page,
           plan' = "pending" => plan = "pending" /\ answer \in {"failed", "pending"},
           answer = "pending" => Loads(c)
    PROVE  PageInv'
<1>. USE DEF PageInv
<1>1. flight \in [Call -> Flights] /\ flight' \in [Call -> Flights]
  BY DEF PageTypeOK, Flights
<1>2. /\ \A d \in Call : flight'[d].kind = flight[d].kind
      /\ \A d \in Call : flight'[d].answer = IF d = c THEN answer ELSE flight[d].answer
  BY <1>1 DEF Flights
<1>3. PageTypeOK'
  BY <1>1 DEF PageTypeOK, Flights
<1>4. FirstLoad' /\ PollsWhileApplied'
  BY <1>2 DEF FirstLoad, Loads, PollsWhileApplied, Mounted
<1>5. BehindThePlan'
  BY <1>2 DEF BehindThePlan, Loads
<1>. QED  BY <1>3, <1>4, <1>5

LEMMA FailingKeeps ==
    ASSUME PageInv, NEW c \in Call, flight[c].kind # "free",
           flight' = [flight EXCEPT ![c].answer = "failed"],
           UNCHANGED agentVars, lost' \in 0..MaxLost, page' = page
    PROVE  PageInv'
<1>1. UNCHANGED <<status, overdue, plan>>
  BY DEF agentVars, plan
<1>2. status' \in [1..1 -> PlanStates] /\ overdue' \subseteq {1}
  BY <1>1 DEF PageInv, PageTypeOK
<1>3. PICK answer \in PlanStates \cup {"failed"} : answer = "failed"
  OBVIOUS
<1>4. flight' = [flight EXCEPT ![c].answer = answer]
  BY <1>3
<1>. QED  BY <1>1, <1>2, <1>3, <1>4, AnsweringKeeps

LEMMA AgentAnswersKeeps ==
    ASSUME PageInv, NEW c \in Call, AgentAnswers(c)
    PROVE  PageInv'
<1>. USE DEF PageInv
<1>. DEFINE kind == flight[c].kind
<1>1. kind # "free" /\ UNCHANGED <<page, lost>> /\ lost \in 0..MaxLost
  BY DEF AgentAnswers, PageTypeOK
<1>2. ASSUME Performs(kind), flight' = [flight EXCEPT ![c].answer = status'[1]]
      PROVE  PageInv'
  <2>1. /\ status' \in [1..1 -> PlanStates] /\ overdue' \subseteq {1}
        /\ plan' = "pending" => plan = "pending"
        /\ kind \in {"apply", "confirm", "revert"} => plan' # "pending"
    BY <1>2, CallMovesThePlan
  <2>2. plan' \in PlanStates /\ flight' = [flight EXCEPT ![c].answer = plan']
    BY <1>2, <2>1 DEF plan
  <2>3. plan' = "pending" => Loads(c)
    BY <1>1, <2>1 DEF BehindThePlan, Loads
  <2>. QED  BY <1>1, <2>1, <2>2, <2>3, AnsweringKeeps
<1>3. ASSUME UNCHANGED agentVars, flight' = [flight EXCEPT ![c].answer = "failed"]
      PROVE  PageInv'
  BY <1>1, <1>3, FailingKeeps
<1>. QED  BY <1>2, <1>3 DEF AgentAnswers

LEMMA AnswerIsLostKeeps ==
    ASSUME PageInv, NEW c \in Call, AnswerIsLost(c)
    PROVE  PageInv'
<1>1. lost' \in 0..MaxLost
  BY LostAssumption DEF AnswerIsLost, PageInv, PageTypeOK
<1>. QED  BY <1>1, FailingKeeps DEF AnswerIsLost

-----------------------------------------------------------------------------
(* What an answer makes of the page: the watcher turns polling on and off  *)
(* with the state, and the first load turns it on once more.               *)
LEMMA HeardOK ==
    ASSUME page \in Pages, NEW kind \in {"mount", "poll", "apply", "confirm", "revert"},
           NEW answer \in PlanStates \cup {"failed"}, NEW h, h = Heard(kind, answer)
    PROVE  /\ h \in Pages
           /\ h.mounted = page.mounted /\ h.leftLoading = page.leftLoading
           /\ h.shown = IF answer = "failed" THEN page.shown ELSE answer
           /\ kind = "mount" => ~h.loading
           /\ kind # "mount" => h.loading = page.loading
           /\ h.polling => page.polling \/ kind = "mount" \/ page.mounted
           /\ h.polling => page.polling \/ h.shown = "applied"
           /\ page.mounted /\ h.shown = "applied" =>
                 h.polling \/ (page.shown = "applied" /\ ~page.polling)
<1>. DEFINE p == IF answer = "failed" THEN page ELSE Watched(page, answer)
            loaded == [p EXCEPT !.error = (answer = "failed")]
<1>1. "failed" \notin PlanStates /\ (answer = "failed") \in BOOLEAN /\ (answer = "applied") \in BOOLEAN
  BY DEF PlanStates
<1>2. /\ p \in Pages
      /\ p.mounted = page.mounted /\ p.leftLoading = page.leftLoading /\ p.loading = page.loading
      /\ p.shown = IF answer = "failed" THEN page.shown ELSE answer
      /\ p.polling => page.polling \/ (page.mounted /\ p.shown = "applied")
      /\ page.mounted /\ p.shown = "applied" =>
            p.polling \/ (page.shown = "applied" /\ ~page.polling)
  BY <1>1 DEF Watched, Pages
<1>. HIDE DEF p
<1>3. /\ loaded \in Pages
      /\ loaded.mounted = p.mounted /\ loaded.leftLoading = p.leftLoading
      /\ loaded.loading = p.loading /\ loaded.shown = p.shown /\ loaded.polling = p.polling
  BY <1>1, <1>2 DEF Pages
<1>. HIDE DEF loaded
<1>4. h = CASE kind = "mount" -> Continues(loaded)
            [] kind = "poll"  -> loaded
            [] OTHER          -> [p EXCEPT !.busy = FALSE]
  BY DEF Heard, p, loaded
<1>5. CASE kind = "mount"
  <2>1. h = [loaded EXCEPT !.loading = FALSE, !.polling = loaded.polling \/ loaded.shown = "applied"]
    BY <1>4, <1>5 DEF Continues
  <2>2. (loaded.polling \/ loaded.shown = "applied") \in BOOLEAN
    OBVIOUS
  <2>. QED  BY <1>2, <1>3, <1>5, <2>1, <2>2 DEF Pages
<1>6. CASE kind = "poll"
  BY <1>2, <1>3, <1>4, <1>6
<1>7. CASE kind \notin {"mount", "poll"}
  <2>1. h = [p EXCEPT !.busy = FALSE]
    BY <1>4, <1>7
  <2>. QED  BY <1>2, <1>7, <2>1 DEF Pages
<1>. QED  BY <1>5, <1>6, <1>7

(* The first load is the first answer that is heard.                       *)
LEMMA HeardFirst ==
    ASSUME PageInv, NEW c \in Call, PageHears(c)
    PROVE  /\ flight[c].kind \in {"mount", "poll", "apply", "confirm", "revert"}
           /\ flight[c].answer \in PlanStates \cup {"failed"}
           /\ page.loading <=> Loads(c)
           /\ flight'[c] = Free
           /\ \A d \in Call : d # c => flight'[d] = flight[d] /\ ~Loads(d)
<1>. USE DEF PageInv
<1>1. flight[c] \in Flights /\ flight[c].kind # "free" /\ flight[c].answer # "waiting"
  BY DEF PageTypeOK, PageHears, Flights
<1>2. page.loading <=> Loads(c)
  BY <1>1 DEF FirstLoad, Loads
<1>3. \A d \in Call : d # c => ~Loads(d)
  BY <1>1, <1>2 DEF FirstLoad
<1>4. flight'[c] = Free /\ \A d \in Call : d # c => flight'[d] = flight[d]
  BY DEF PageHears, PageTypeOK
<1>. QED  BY <1>1, <1>2, <1>3, <1>4 DEF Flights

LEMMA PageHearsKeeps ==
    ASSUME PageInv, NEW c \in Call, PageHears(c)
    PROVE  PageInv'
<1>. USE DEF PageInv
<1>. DEFINE kind == flight[c].kind
            answer == flight[c].answer
<1>1. page \in Pages /\ page' = Heard(kind, answer) /\ UNCHANGED <<status, overdue, lost, plan>>
  BY DEF PageTypeOK, Pages, PageHears, agentVars, plan
<1>2. /\ page' \in Pages
      /\ page'.mounted = page.mounted /\ page'.leftLoading = page.leftLoading
      /\ page'.shown = IF answer = "failed" THEN page.shown ELSE answer
      /\ kind = "mount" => ~page'.loading
      /\ kind # "mount" => page'.loading = page.loading
      /\ page'.polling => page.polling \/ kind = "mount" \/ page.mounted
      /\ page'.polling => page.polling \/ page'.shown = "applied"
      /\ page.mounted /\ page'.shown = "applied" =>
            page'.polling \/ (page.shown = "applied" /\ ~page.polling)
  BY <1>1, HeardFirst, HeardOK
<1>3. ~page'.loading /\ \A d \in Call : ~Loads(d)'
  BY <1>2, HeardFirst DEF Loads, Free
<1>4. PageTypeOK'
  <2>1. flight' \in [Call -> Flights]
    BY DEF PageHears, PageTypeOK, Flights, Free
  <2>. QED  BY <1>1, <1>2, <2>1 DEF PageTypeOK, Pages, Flights
<1>5. FirstLoad'
  BY <1>3 DEF FirstLoad
<1>6. BehindThePlan'
  BY <1>1, <1>2, <1>3, HeardFirst DEF BehindThePlan, Loads, Free, PlanStates
<1>7. PollsWhileApplied'
  BY <1>2, HeardFirst DEF PollsWhileApplied, Mounted, FirstLoad, Loads
<1>. QED  BY <1>4, <1>5, <1>6, <1>7

LEMMA PageInvStep == PageInv /\ [PageNext]_pageVars => PageInv'
<1>. SUFFICES ASSUME PageInv, [PageNext]_pageVars
              PROVE  PageInv'
  OBVIOUS
<1>1. CASE UNCHANGED pageVars
  BY <1>1 DEF pageVars, PageInv, PageTypeOK, FirstLoad, BehindThePlan, Loads, plan,
              PollsWhileApplied, Mounted
<1>. QED  BY <1>1, ClicksKeeps, AgentAnswersKeeps, AnswerIsLostKeeps, PageHearsKeeps,
             AgentMovesKeeps, PollsKeeps, UnmountsKeeps DEF PageNext

(* Only the first load can be answered "pending", and it finds the page    *)
(* showing nothing.                                                        *)
StaysPastPending ==
    page.shown \notin {"nothing", "pending"} => page'.shown # "pending"

LEMMA PageStepForward == PageInv /\ [PageNext]_pageVars => [StaysPastPending]_pageVars
<1>. SUFFICES ASSUME PageInv, PageNext
              PROVE  StaysPastPending
  OBVIOUS
<1>. USE DEF PageInv, StaysPastPending
<1>1. page \in Pages
  BY DEF PageTypeOK, Pages
<1>2. CASE UNCHANGED page
  BY <1>2
<1>3. ASSUME NEW kind \in {"apply", "confirm", "revert"}, Clicks(kind)
      PROVE  page'.shown = page.shown
  BY <1>1, <1>3 DEF Clicks, Pages
<1>4. CASE Unmounts
  BY <1>1, <1>4 DEF Unmounts, Pages
<1>5. ASSUME NEW c \in Call, PageHears(c)
      PROVE  StaysPastPending
  <2>1. page' = Heard(flight[c].kind, flight[c].answer)
    BY <1>5 DEF PageHears
  <2>2. page'.shown \in {page.shown, flight[c].answer}
    BY <1>1, <1>5, <2>1, HeardFirst, HeardOK
  <2>3. flight[c].answer = "pending" => page.shown = "nothing"
    BY DEF BehindThePlan, FirstLoad
  <2>. QED  BY <2>2, <2>3
<1>. QED  BY <1>2, <1>3, <1>4, <1>5 DEF PageNext, AgentAnswers, AnswerIsLost, AgentMoves, Polls

-----------------------------------------------------------------------------
(* The leaves together.  No step of one touches another, so a behaviour of *)
(* Leaves is a behaviour of each (fairness is not used).                   *)

PageSpec == PageInit /\ [][PageNext]_pageVars

TrafficSpec == TrafficInit /\ [][TrafficNext]_trafficVars

LEMMA EachLeafSteps ==
    [Next]_leafVars => /\ [PageNext]_pageVars /\ [TrafficNext]_trafficVars
                       /\ [ProberNext]_proberVars /\ [SwapNext]_swapVars /\ [SchemaNext]_schemaVars
<1>. SUFFICES ASSUME [Next]_leafVars
              PROVE  /\ [PageNext]_pageVars /\ [TrafficNext]_trafficVars
                     /\ [ProberNext]_proberVars /\ [SwapNext]_swapVars /\ [SchemaNext]_schemaVars
  OBVIOUS
<1>1. CASE UNCHANGED leafVars
  BY <1>1 DEF leafVars
<1>2. CASE OfPage(PageNext)
  BY <1>2 DEF OfPage
<1>3. CASE OfTraffic(TrafficNext)
  BY <1>3 DEF OfTraffic
<1>4. CASE OfProber(ProberNext)
  BY <1>4 DEF OfProber
<1>5. CASE OfIPSet(SwapNext)
  BY <1>5 DEF OfIPSet
<1>6. CASE OfSchema(SchemaNext)
  BY <1>6 DEF OfSchema
<1>. QED  BY <1>1, <1>2, <1>3, <1>4, <1>5, <1>6 DEF Next

(* A behaviour of Leaves obeys the specification of each leaf.             *)
THEOREM LeavesAreIndependent ==
    Spec => PageSpec /\ TrafficSpec /\ ProberSpec /\ SwapSpec /\ SchemaSpec
<1>1. Init => PageInit /\ TrafficInit /\ ProberInit /\ SwapInit /\ SchemaInit
  BY DEF Init
<1>. QED  BY <1>1, EachLeafSteps, PTL
            DEF Spec, PageSpec, TrafficSpec, ProberSpec, SwapSpec, SchemaSpec

-----------------------------------------------------------------------------
LEMMA PageInvariant == PageSpec => []PageInv
BY PageInitOK, PageInvStep, PTL DEF PageSpec

LEMMA TrafficInvariant == TrafficSpec => []TrafficInv
BY TrafficInitOK, TrafficInvStep, PTL DEF TrafficSpec

(* Every leaf keeps its state well-typed.                                  *)
THEOREM LeavesTypeCorrect == Spec => []TypeOK
<1>1. /\ PageInv => PageTypeOK
      /\ TrafficInv => TrafficTypeOK
      /\ ProberInv => ProberTypeOK
      /\ SwapInv => SwapTypeOK
      /\ SchemaInv => MigrationsTypeOK
  BY DEF PageInv, TrafficInv, ProberInv, SwapInv, SchemaInv
<1>2. TypeOK <=> /\ PageTypeOK /\ TrafficTypeOK /\ ProberTypeOK /\ SwapTypeOK
                 /\ MigrationsTypeOK
  BY DEF TypeOK
<1>. QED  BY <1>1, <1>2, LeavesAreIndependent, PageInvariant, TrafficInvariant,
             ProberInvariant, SwapInvInductive, SchemaInvariant, PTL

(* A page that shows a plan on probation polls, however its answers are    *)
(* lost and overtake one another (the watcher and onMounted of             *)
(* PlanDetail.vue), and a page that was left polls only if it was left     *)
(* during its first load.                                                  *)
THEOREM ProbationIsPolled == Spec => []PollsWhileApplied
BY LeavesAreIndependent, PageInvariant, PTL DEF PageInv

(* No late answer brings an Apply button back to a plan that was applied.  *)
THEOREM AppliedStaysApplied == Spec => NeverBackToPending
<1>1. PageSpec => [][StaysPastPending]_pageVars
  BY PageInvariant, PageStepForward, PTL DEF PageSpec
<1>. QED  BY <1>1, LeavesAreIndependent, PTL DEF NeverBackToPending, StaysPastPending

(* Whatever the page, its lost calls and other clients do, its plan moves  *)
(* only as the lifecycle allows that EngineImplementsLifecycle proves of   *)
(* the engine: the page is composed with what the engine promises.         *)
THEOREM PageMeetsTheLifecycle == Spec => [][Agent!Next]_agentVars
<1>1. PageInv /\ [PageNext]_pageVars => [Agent!Next]_agentVars
  <2>. SUFFICES ASSUME PageInv, PageNext
                PROVE  Agent!Next \/ UNCHANGED agentVars
    BY DEF pageVars, agentVars
  <2>1. ASSUME NEW c \in Call, AgentAnswers(c)
        PROVE  Agent!Next \/ UNCHANGED agentVars
    <3>1. Performs(flight[c].kind) \/ UNCHANGED agentVars
      BY <2>1 DEF AgentAnswers
    <3>2. "confirmed" \in Agent!Settled /\ "reverted" \in Agent!Settled /\ 1 \in Agent!PlanIds
      BY DEF Agent!Settled, Agent!PlanIds, MaxPlans
    <3>3. Agent!Begin(1) \/ Agent!Settle(1, "confirmed") \/ Agent!Settle(1, "reverted")
             => Agent!Next
      BY <3>2 DEF Agent!Next
    <3>4. Performs(flight[c].kind) =>
             \/ Agent!Begin(1) \/ Agent!Settle(1, "confirmed") \/ Agent!Settle(1, "reverted")
             \/ UNCHANGED agentVars
      BY DEF Performs
    <3>. QED  BY <3>1, <3>3, <3>4
  <2>. QED  BY <2>1 DEF PageNext, AgentMoves, Clicks, AnswerIsLost, PageHears, Polls, Unmounts
<1>. QED  BY <1>1, LeavesAreIndependent, PageInvariant, PTL DEF PageSpec

(* While answers come in order the traffic store records no more than was  *)
(* transferred, whatever ticks are lost and counters restarted (the delta  *)
(* of poll in traffic.ts), and all of it without a restart.                *)
THEOREM RecordedIsTransferred == Spec => []RatesAddUp
BY LeavesAreIndependent, TrafficInvariant, PTL DEF TrafficInv

(* What AgentLeaves_proofs proves of the leaves of the agent holds of them *)
(* here.                                                                   *)
THEOREM AgentLeavesHold ==
    Spec => /\ []SamplesAgeOut /\ SamplesDoNotGoBack
            /\ []NeverPartial /\ []SuccessIsInstalled
            /\ []SchemaIsRecorded /\ []OpenIsMigrated
BY LeavesAreIndependent, SamplesArePruned, NoSampleGoesBack, SwapIsAtomic, SwapInstalls,
   MigrationsAreRecorded, OpenedIsMigrated, PTL
=============================================================================
