---------------------------- MODULE TrafficStore ----------------------------
(***************************************************************************)
(* The traffic store of the browser tab (app/src/stores/traffic.ts): every *)
(* two seconds it asks for the byte counters of all peers and records the  *)
(* growth since the last answer.  setInterval does not wait for an answer, *)
(* so ticks overlap and answers may overtake one another.                  *)
(*                                                                         *)
(* One peer and one direction.  Its kernel counter starts again from zero  *)
(* when the interface is restarted, and is absent while the peer is        *)
(* disabled.  Rates are kept as bytes a tick.                              *)
(***************************************************************************)
EXTENDS Integers

CONSTANTS Tick,      \* bound: ticks in flight at one time
          MaxBytes,  \* bound: bytes the peer transfers
          MaxResets, \* bound: restarts of the counter
          Absent

ASSUME TrafficAssumption == MaxBytes \in Nat /\ MaxResets \in Nat /\ Absent \notin 0..MaxBytes

VARIABLES
    counter,    \* the kernel's counter, or Absent
    store,      \* what the tab keeps of the peer
    ticks,      \* Tick -> the tick in flight, its sample once it is taken
    (* remembered for the properties                                       *)
    moved,      \* bytes transferred in all
    resets,
    taken       \* samples taken so far

trafficVars == <<counter, store, ticks, moved, resets, taken>>

NoTick == [stage |-> "free", bytes |-> 0, moved |-> 0, nth |-> 0]

(* known: the peer has a record; prev: prevRxBytes; recorded: the sum of   *)
(* the rates pushed.  base, upTo and nth belong to the first and the last  *)
(* sample recorded; inOrder: none was older than the one before it.        *)
NewStore == [known |-> FALSE, prev |-> 0, recorded |-> 0,
             base |-> 0, upTo |-> 0, nth |-> 0, inOrder |-> TRUE]

TrafficTypeOK ==
    /\ counter \in (0..MaxBytes) \cup {Absent}
    /\ store \in [known : BOOLEAN, prev : 0..MaxBytes, recorded : Nat, base : 0..MaxBytes,
                  upTo : 0..MaxBytes, nth : Nat, inOrder : BOOLEAN]
    /\ moved \in 0..MaxBytes
    /\ resets \in 0..MaxResets

TrafficInit ==
    /\ counter = 0 /\ moved = 0 /\ resets = 0 /\ taken = 0
    /\ store = NewStore
    /\ ticks = [t \in Tick |-> NoTick]

Transfers ==
    /\ counter # Absent
    /\ moved < MaxBytes
    /\ counter' = counter + 1
    /\ moved' = moved + 1
    /\ UNCHANGED <<store, ticks, resets, taken>>

Restarts ==
    /\ resets < MaxResets
    /\ counter' \in {0, Absent} \ {counter}
    /\ resets' = resets + 1
    /\ UNCHANGED <<store, ticks, moved, taken>>

TickStarts(t) ==
    /\ ticks[t] = NoTick
    /\ ticks' = [ticks EXCEPT ![t].stage = "asked"]
    /\ UNCHANGED <<counter, store, moved, resets, taken>>

(* GET /traffic reads the kernel; a peer that is absent is not listed.     *)
Sampled(t) ==
    /\ ticks[t].stage = "asked"
    /\ taken < MaxBytes + 2
    /\ taken' = taken + 1
    /\ ticks' = [ticks EXCEPT ![t] = IF counter = Absent THEN NoTick
                     ELSE [stage |-> "answered", bytes |-> counter, moved |-> moved, nth |-> taken + 1]]
    /\ UNCHANGED <<counter, store, moved, resets>>

(* Mutant: a counter that went back is recorded as growth.                 *)
Growth_Absolute(now, prev) == IF now > prev THEN now - prev ELSE prev - now

(* Mutant: the growth of a restarted counter is negative.                  *)
Growth_Negative(now, prev) == now - prev

Growth(now, prev) == IF now > prev THEN now - prev ELSE 0

(* The first answer about a peer is only remembered.                       *)
Recorded(a) ==
    LET grown == IF store.known THEN Growth(a.bytes, store.prev) ELSE 0
    IN  [known |-> TRUE, prev |-> a.bytes, recorded |-> store.recorded + grown,
         base |-> IF store.known THEN store.base ELSE a.moved,
         upTo |-> a.moved, nth |-> a.nth,
         inOrder |-> store.inOrder /\ a.nth > store.nth]

TickAnswered(t) ==
    /\ ticks[t].stage = "answered"
    /\ store' = Recorded(ticks[t])
    /\ ticks' = [ticks EXCEPT ![t] = NoTick]
    /\ UNCHANGED <<counter, moved, resets, taken>>

(* A single failed tick is ignored.                                        *)
TickFails(t) ==
    /\ ticks[t].stage # "free"
    /\ ticks' = [ticks EXCEPT ![t] = NoTick]
    /\ UNCHANGED <<counter, store, moved, resets, taken>>

TrafficNext ==
    \/ Transfers \/ Restarts
    \/ \E t \in Tick : TickStarts(t) \/ Sampled(t) \/ TickAnswered(t) \/ TickFails(t)

-----------------------------------------------------------------------------
(* As long as answers come in order, the store never records more than the *)
(* peer has transferred, lost ticks and restarted counters included, and   *)
(* without a restart it records all of it.  (An answer that overtakes      *)
(* another makes the store record bytes twice.)                            *)
RatesAddUp ==
    store.known /\ store.inOrder =>
        /\ store.recorded <= store.upTo - store.base
        /\ resets = 0 => store.recorded = store.upTo - store.base
=============================================================================
