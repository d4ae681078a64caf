----------------------------- MODULE RttProber -----------------------------
(***************************************************************************)
(* The agent's RTT prober (rttprobe/rttprobe.go): a ticker starts rounds;  *)
(* a round pings every target in a goroutine of its own, MaxConcurrent at  *)
(* a time, each writes the cache when it is through, and when all are, old *)
(* samples are pruned.  Unlike the timers of the app, the ticker's loop    *)
(* waits for a round to end; meanwhile its channel holds one tick.         *)
(*                                                                         *)
(* Time is counted in intervals of the ticker.                             *)
(***************************************************************************)
EXTENDS Integers

CONSTANTS Target,        \* peers of interfaces, as `wg show` lists them
          Peer, KeyOf,   \* their public keys: one may be on two interfaces
          MaxConcurrent, \* pings at one time
          Keep,          \* intervals a sample is kept
          NoSample,
          MaxClock       \* bound: the clock

ASSUME TargetAssumption == KeyOf \in [Target -> Peer]
ASSUME ProberAssumption == MaxConcurrent \in Nat \ {0} /\ Keep \in Nat /\ MaxClock \in Nat

VARIABLES
    clock,     \* intervals since the agent started
    due,       \* the ticker's channel holds a tick
    round,     \* what probeOnce is at
    cache,     \* Peer -> its last sample
    lastRound  \* remembered: when the last round that had targets began

proberVars == <<clock, due, round, cache, lastRound>>

NoRound == [probing |-> FALSE, now |-> 0, todo |-> {}, pinging |-> {}, places |-> 0]

ProberTypeOK ==
    /\ clock \in 0..MaxClock
    /\ due \in BOOLEAN
    /\ round \in [probing : BOOLEAN, now : 0..MaxClock, todo : SUBSET Target,
                  pinging : SUBSET (Target \X (0..MaxClock)),  \* the WaitGroup
                  places : 0..MaxConcurrent]                  \* taken of the semaphore
    /\ cache \in [Peer -> [at : 0..MaxClock, ok : BOOLEAN] \cup {NoSample}]
    /\ lastRound \in 0..MaxClock

(* Run probes once before the first tick.                                  *)
ProberInit ==
    /\ clock = 0 /\ due = TRUE /\ lastRound = 0
    /\ round = NoRound
    /\ cache = [p \in Peer |-> NoSample]

IntervalPasses ==
    /\ clock < MaxClock
    /\ clock' = clock + 1
    /\ due' = TRUE
    /\ UNCHANGED <<round, cache, lastRound>>

(* collectTargets: peers with a recent handshake and a host address, on    *)
(* interfaces that could be read.  Without any, probeOnce returns, and     *)
(* does not prune.                                                         *)
RoundBegins ==
    /\ due /\ ~round.probing
    /\ due' = FALSE
    /\ \E targets \in SUBSET Target :
          round' = IF targets = {} THEN round
                   ELSE [round EXCEPT !.probing = TRUE, !.now = clock, !.todo = targets, !.places = 0]
    /\ UNCHANGED <<clock, cache, lastRound>>

PingStarts(t) ==
    /\ t \in round.todo
    /\ round.places < MaxConcurrent
    /\ round' = [round EXCEPT !.todo = @ \ {t}, !.places = @ + 1,
                              !.pinging = @ \cup {<<t, round.now>>}]
    /\ UNCHANGED <<clock, due, cache, lastRound>>

(* Mutant: a ping without a reply does not free its place.                 *)
PingDone_RepliesOnly(t, began, ok) ==
    round' = [round EXCEPT !.pinging = @ \ {<<t, began>>}, !.places = IF ok THEN @ - 1 ELSE @]

PingDone(t, began, ok) ==
    round' = [round EXCEPT !.pinging = @ \ {<<t, began>>}, !.places = @ - 1]

(* A reply, or the timeout of ping: either makes a sample, dated by the    *)
(* beginning of its round.                                                 *)
PingEnds(t, began, ok) ==
    /\ <<t, began>> \in round.pinging
    /\ cache' = [cache EXCEPT ![KeyOf[t]] = [at |-> began, ok |-> ok]]
    /\ PingDone(t, began, ok)
    /\ UNCHANGED <<clock, due, lastRound>>

(* Mutant: only failed samples are pruned.                                 *)
Pruned_FailedOnly(now) ==
    [p \in Peer |-> IF cache[p] # NoSample /\ ~cache[p].ok /\ cache[p].at < now - Keep
                    THEN NoSample ELSE cache[p]]

Pruned(now) ==
    [p \in Peer |-> IF cache[p] # NoSample /\ cache[p].at < now - Keep THEN NoSample ELSE cache[p]]

(* Mutant: the round does not wait for its pings.                          *)
AllPinged_Started == round.todo = {}

(* wg.Wait.                                                                *)
AllPinged == round.todo = {} /\ round.pinging = {}

RoundEnds ==
    /\ round.probing
    /\ AllPinged
    /\ cache' = Pruned(round.now)
    /\ lastRound' = round.now
    /\ round' = [round EXCEPT !.probing = FALSE]
    /\ UNCHANGED <<clock, due>>

ProberNext ==
    \/ IntervalPasses \/ RoundBegins \/ RoundEnds
    \/ \E t \in Target : PingStarts(t)
    \/ \E t \in Target, began \in 0..MaxClock, ok \in BOOLEAN : PingEnds(t, began, ok)

-----------------------------------------------------------------------------
(* A peer's sample is never replaced by an older one: no ping outlives its *)
(* round.                                                                  *)
SamplesDoNotGoBack ==
    [][\A p \in Peer : cache[p] # NoSample /\ cache'[p] # NoSample
                         => cache'[p].at >= cache[p].at]_proberVars

(* Samples of peers that have left are gone after Keep intervals - counted *)
(* to the last round that had anybody to probe, for the others keep what   *)
(* there is.                                                               *)
SamplesAgeOut ==
    \A p \in Peer : cache[p] # NoSample => cache[p].at >= lastRound - Keep

(* Every round ends: pings end by themselves, and give their place back.   *)
EveryRoundEnds == round.probing ~> ~round.probing
=============================================================================
