-------------------------- MODULE PeerDrift_proofs --------------------------
EXTENDS PeerSystem_proofs

-----------------------------------------------------------------------------
(* Agreement, of rows S and kernel peers ps of one interface, about key k. *)

AgreesOn(S, ps, k) ==
    IF \E r \in S : r.key = k /\ r.enabled
    THEN \A r \in S : r.key = k => InPlace(r, ps)
    ELSE k \notin KeysOf(ps)

LEMMA AgreementOn ==
    ASSUME NEW i, NEW k
    PROVE  Agrees(i, k) <=> AgreesOn(RowsOf(i), wg[i], k)
  BY DEF Agrees, AgreesOn

(* Rows and peers of other keys do not matter.                             *)
LEMMA AgreementIsLocal ==
    ASSUME NEW S, NEW T, NEW ps, NEW qs, NEW k,
           \A r : r.key = k => (r \in S <=> r \in T),
           \A p : p.key = k => (p \in ps <=> p \in qs)
    PROVE  AgreesOn(S, ps, k) <=> AgreesOn(T, qs, k)
<1>1. (\E r \in S : r.key = k /\ r.enabled) <=> (\E r \in T : r.key = k /\ r.enabled)
  OBVIOUS
<1>2. k \in KeysOf(ps) <=> k \in KeysOf(qs)
  BY DEF KeysOf
<1>3. ASSUME NEW r, r.key = k PROVE InPlace(r, ps) <=> InPlace(r, qs)
  BY <1>3 DEF InPlace
<1>. QED
  BY <1>1, <1>2, <1>3 DEF AgreesOn

(* `wg set` for k takes address a from no peer that an enabled row wants   *)
(* to have it.                                                             *)
LEMMA SetKeepsOthers ==
    ASSUME NEW ps \in SUBSET KernelPeer, NEW k \in Key, NEW a \in Address, NEW psk \in Psk \cup {NoPsk},
           NEW S \in SUBSET Row, NEW j \in Key, j # k, AgreesOn(S, ps, j),
           (\E r \in S : r.key = j /\ r.enabled) => \A r \in S : r.key = j => r.addr # a
    PROVE  AgreesOn(S, AfterSetPeer(ps, k, a, psk), j)
<1> DEFINE after == AfterSetPeer(ps, k, a, psk)
<1>1. KeysOf(after) = KeysOf(ps) \cup {k}
  BY AfterSetTyped
<1>2. ASSUME NEW p \in ps, p.key = j, p.addr # a PROVE p \in after
  <2>1. [p EXCEPT !.addr = IF p.addr = a THEN NoAddr ELSE p.addr] = p
    BY <1>2 DEF KernelPeer
  <2>2. p \in {q \in ps : q.key # k}
    BY <1>2
  <2>3. p \in {[q EXCEPT !.addr = IF q.addr = a THEN NoAddr ELSE q.addr] : q \in {q \in ps : q.key # k}}
    BY <2>1, <2>2
  <2>. QED
    BY <2>3 DEF AfterSetPeer
<1> HIDE DEF after
<1>3. ASSUME NEW r \in S, r.key = j, r.addr # a, InPlace(r, ps) PROVE InPlace(r, after)
  BY <1>2, <1>3 DEF InPlace
<1>4. AgreesOn(S, after, j)
  BY <1>1, <1>3 DEF AgreesOn
<1>. QED
  BY <1>4 DEF after

(* `wg set` with the columns of an enabled row makes the kernel agree.     *)
LEMMA SetAgrees ==
    ASSUME NEW ps \in SUBSET KernelPeer, NEW S \in SUBSET Row, NEW r \in S, r.enabled,
           \A q \in S : q.key = r.key => q = r
    PROVE  AgreesOn(S, AfterSetPeer(ps, r.key, r.addr, r.psk), r.key)
<1> DEFINE p == [key |-> r.key, addr |-> r.addr, psk |-> IF r.psk = NoPsk THEN PskIn(ps, r.key) ELSE r.psk]
<1>1. p \in AfterSetPeer(ps, r.key, r.addr, r.psk)
  BY DEF AfterSetPeer
<1>2. p.key = r.key /\ p.addr = r.addr /\ r.psk \in {NoPsk, p.psk}
  OBVIOUS
<1>3. InPlace(r, AfterSetPeer(ps, r.key, r.addr, r.psk))
  BY <1>1, <1>2 DEF InPlace
<1>. QED
  BY <1>3 DEF AgreesOn

(* A key that no enabled row and no kernel peer has.                       *)
LEMMA GoneAgrees ==
    ASSUME NEW ps, NEW S, NEW k, \A r \in S : r.key = k => ~r.enabled, k \notin KeysOf(ps)
    PROVE  AgreesOn(S, ps, k)
  BY DEF AgreesOn

LEMMA RemoveKeepsOthers ==
    ASSUME NEW ps, NEW S, NEW k, NEW j, j # k
    PROVE  /\ AgreesOn(S, ps, j) <=> AgreesOn(S, AfterRemovePeer(ps, k), j)
           /\ k \notin KeysOf(AfterRemovePeer(ps, k))
           /\ KeysOf(AfterRemovePeer(ps, k)) \subseteq KeysOf(ps)
<1>1. \A p : p.key = j => (p \in ps <=> p \in AfterRemovePeer(ps, k))
  BY DEF AfterRemovePeer
<1>2. AgreesOn(S, ps, j) <=> AgreesOn(S, AfterRemovePeer(ps, k), j)
  BY <1>1, AgreementIsLocal
<1>3. k \notin KeysOf(AfterRemovePeer(ps, k)) /\ KeysOf(AfterRemovePeer(ps, k)) \subseteq KeysOf(ps)
  BY DEF AfterRemovePeer, KeysOf
<1>. QED
  BY <1>2, <1>3

-----------------------------------------------------------------------------
(* The inductive invariant.                                                *)

Live(i) == i \in Clients \cap (up \ unsynced)

PairOf(q) == <<q.iface, q.key>>

(* Two requests on one row id know that they overlap.                      *)
OverlapsAreRaced ==
    \A s, t \in Busy : s # t /\ req[s].row.id = req[t].row.id => req[s].raced /\ req[t].raced

(* A request that does not overlap has the row as it is in the table.      *)
HeldIsCurrent ==
    \A s \in Busy : ~req[s].raced /\ req[s].pc # "insert" => req[s].row \in rows

(* Nobody knows the key of a row that is to be inserted.                   *)
NewKeyIsNew ==
    \A s \in Slot : req[s].pc = "insert" =>
        /\ req[s].row.key \notin KeysOf(rows)
        /\ \A i \in Iface : req[s].row.key \notin KeysOf(wg[i])
        /\ \A t \in Busy \ {s} : req[t].row.key # req[s].row.key

(* What a request that does not overlap knows of the row and the kernel.   *)
Known(q) ==
    /\ q.pc = "set" => q.row.enabled
    /\ q.pc \in {"read", "toggle"} => q.row.enabled = q.on
    /\ (Live(q.row.iface) /\ PairOf(q.row) \notin suspect) =>
          /\ q.pc # "rollback"
          /\ q.pc = "row" => q.row.key \notin KeysOf(wg[q.row.iface])

RequestsKnow == \A s \in Busy : ~req[s].raced => Known(req[s])

(* The reconcile wants to set current rows, and to remove keys that are    *)
(* still unwanted.                                                         *)
ReconcileKnows ==
    boot.syncing =>
        /\ \A r \in boot.fix : r \in rows /\ r.enabled /\ r.iface = Current
        /\ \A k \in boot.drop : \/ <<Current, k>> \in suspect
                                \/ \A r \in RowsOf(Current) : r.key = k => ~r.enabled

DInv == /\ DriftIsExplained /\ OverlapsAreRaced /\ HeldIsCurrent /\ NewKeyIsNew
        /\ RequestsKnow /\ ReconcileKnows
-----------------------------------------------------------------------------
(* A step of a request that is past its insert.                            *)

(* Peers other than the request's own stay as they should be, unless the   *)
(* step suspects them.                                                     *)
OthersKept(s) ==
    \A i \in Iface, k \in Key :
        Live(i) /\ Agrees(i, k) /\ <<i, k>> \notin suspect' /\ <<i, k>> # PairOf(req[s].row)
            => Agrees(i, k)'

AddsAtMostOwn(s) ==
    \A i \in Iface, k \in Key :
        k \in KeysOf(wg'[i]) => k \in KeysOf(wg[i]) \/ <<i, k>> = PairOf(req[s].row)

(* The request ends and its own peer is as it should be, or it goes on     *)
(* with the same row id and knows what it has to.                          *)
EndsWell(s) ==
    /\ req'[s] = Idle
    /\ \A i \in Iface, k \in Key :
          Live(i) /\ <<i, k>> = PairOf(req[s].row) /\ <<i, k>> \notin suspect' => Agrees(i, k)'

GoesOnWell(s) ==
    /\ UNCHANGED rows
    /\ req'[s].kind # "idle" /\ req'[s].pc # "insert" /\ req'[s].raced = req[s].raced
    /\ req'[s].row.id = req[s].row.id
    /\ req'[s].row = req[s].row \/ req'[s].row \in rows
    /\ ~req[s].raced => req'[s].row = req[s].row /\ Known(req[s])'

WellDone(s) ==
    /\ ApiStep(s) /\ Serving /\ UNCHANGED boot
    /\ req[s].pc \notin {"idle", "insert"}
    /\ \A t \in Slot \ {s} : req'[t] = req[t]
    /\ EndsWell(s) \/ GoesOnWell(s)
    /\ rows' = rows \/ rows' = {r \in rows : r.id # req[s].row.id}
    /\ suspect \subseteq suspect'
    /\ req[s].raced => Touched(s) \subseteq suspect'
    /\ OthersKept(s)
    /\ AddsAtMostOwn(s)

LEMMA ServingIsNotSyncing ==
    ASSUME IInv, Serving
    PROVE  BootPending = {} /\ ~boot.syncing
  BY DEF IInv, ReconcileOK, Serving, BootPending

(* What is in progress and no longer after the step is the request's own   *)
(* peer, or suspected.                                                     *)
LEMMA InProgressLost ==
    ASSUME IInv, DInv, NEW s \in Slot, WellDone(s),
           NEW x \in InProgress, x \notin InProgress', x \notin suspect'
    PROVE  x = PairOf(req[s].row)
<1>1. req[s].pc # "idle" /\ req[s].row \in Row /\ s \in Busy
  BY HoldsRow DEF WellDone
<1>2. \A t \in Busy : t # s => t \in Busy' /\ req'[t].row = req[t].row
  BY DEF WellDone, Busy
<1>3. CASE \E t \in Busy : x = <<req[t].row.iface, req[t].row.key>>
  BY <1>2, <1>3 DEF InProgress, PairOf
<1>4. ASSUME NEW q \in rows, NEW t \in Busy, q.id = req[t].row.id, x = <<q.iface, q.key>>
      PROVE  x = PairOf(req[s].row)
  <2>1. CASE q.id = req[s].row.id
    <3>1. x \in Touched(s)
      BY <1>4, <2>1 DEF Touched
    <3>2. ~req[s].raced
      BY <3>1 DEF WellDone
    <3>3. req[s].row \in rows
      BY <1>1, <3>2 DEF DInv, HeldIsCurrent, WellDone
    <3>4. q = req[s].row
      BY <2>1, <3>3 DEF IInv, IsTable
    <3>. QED
      BY <1>4, <3>4 DEF PairOf
  <2>2. CASE q.id # req[s].row.id
    <3>1. q \in rows' /\ t # s
      BY <1>4, <2>2 DEF WellDone
    <3>2. t \in Busy' /\ q.id = req'[t].row.id
      BY <1>2, <1>4, <3>1
    <3>3. x \in InProgress'
      BY <1>4, <3>1, <3>2 DEF InProgress
    <3>. QED
      BY <3>3
  <2>. QED
    BY <2>1, <2>2
<1>. QED
  BY <1>3, <1>4 DEF InProgress

LEMMA OwnIsInProgress ==
    ASSUME IInv, NEW s \in Slot, WellDone(s), GoesOnWell(s)
    PROVE  PairOf(req[s].row) \in InProgress' \cup suspect'
<1>1. CASE req'[s].row = req[s].row
  BY <1>1 DEF InProgress, GoesOnWell, Busy, PairOf
<1>2. CASE req[s].raced
  BY <1>2 DEF WellDone, Touched, PairOf
<1>3. CASE ~req[s].raced
  BY <1>1, <1>3 DEF GoesOnWell
<1>. QED
  BY <1>2, <1>3

LEMMA WellDoneExplains ==
    ASSUME IInv, DInv, NEW s \in Slot, WellDone(s)
    PROVE  DriftIsExplained'
<1> SUFFICES ASSUME NEW i \in Clients \cap (up' \ unsynced'), NEW k \in Key,
                    <<i, k>> \notin suspect', <<i, k>> \notin InProgress'
             PROVE  Agrees(i, k)'
  BY DEF DriftIsExplained
<1>1. Live(i) /\ i \in Iface
  BY DEF Live, WellDone, ApiStep, Clients
<1>2. CASE <<i, k>> = PairOf(req[s].row)
  BY <1>1, <1>2, OwnIsInProgress DEF WellDone, EndsWell, PairOf
<1>3. CASE <<i, k>> # PairOf(req[s].row)
  <2>1. <<i, k>> \notin InProgress
    BY <1>3, InProgressLost
  <2>2. Agrees(i, k)
    BY <1>1, <2>1, ServingIsNotSyncing DEF WellDone, DInv, DriftIsExplained, Live
  <2>. QED
    BY <1>1, <1>3, <2>2 DEF WellDone, OthersKept
<1>. QED
  BY <1>2, <1>3

LEMMA WellDoneKnows ==
    ASSUME IInv, DInv, NEW s \in Slot, WellDone(s)
    PROVE  RequestsKnow'
<1> SUFFICES ASSUME NEW t \in Busy', ~req'[t].raced
             PROVE  Known(req[t])'
  BY DEF RequestsKnow
<1>1. CASE t = s
  BY <1>1, IdleTyped DEF WellDone, EndsWell, GoesOnWell, Busy
<1>2. CASE t # s
  <2>1. req'[t] = req[t] /\ t \in Busy /\ t \in Slot
    BY <1>2 DEF WellDone, Busy
  <2>2. Known(req[t])
    BY <2>1 DEF DInv, RequestsKnow
  <2>3. UNCHANGED <<up, unsynced>> /\ suspect \subseteq suspect'
    BY DEF WellDone, ApiStep
  <2>4. ASSUME req[t].pc = "row", PairOf(req[t].row) \notin suspect',
               req[t].row.key \notin KeysOf(wg[req[t].row.iface])
        PROVE  req[t].row.key \notin KeysOf(wg'[req[t].row.iface])
    <3>1. req[t].row \in Row /\ req[s].row \in Row /\ s \in Busy
      BY <2>1, <2>4, HoldsRow DEF WellDone
    <3>2. SUFFICES ASSUME PairOf(req[t].row) = PairOf(req[s].row) PROVE FALSE
      BY <2>4, <3>1 DEF WellDone, AddsAtMostOwn, PairOf, Row
    <3>3. ~req[s].raced
      BY <2>4, <3>2 DEF WellDone, Touched, PairOf
    <3>4. req[s].row \in rows /\ req[t].row \in rows
      BY <2>1, <2>4, <3>1, <3>3 DEF DInv, HeldIsCurrent, WellDone
    <3>5. req[s].row = req[t].row
      BY <3>2, <3>4 DEF IInv, IsTable, PairOf
    <3>. QED
      BY <1>2, <2>1, <3>1, <3>3, <3>5 DEF DInv, OverlapsAreRaced
  <2>. QED
    BY <2>1, <2>2, <2>3, <2>4 DEF Known, Live, PairOf
<1>. QED
  BY <1>1, <1>2

LEMMA WellDoneKeeps ==
    ASSUME IInv, DInv, NEW s \in Slot, WellDone(s)
    PROVE  DInv'
<1>1. req[s].row \in Row /\ s \in Busy /\ req[s].pc # "insert"
  BY HoldsRow DEF WellDone
<1>2. \A t \in Busy' : t \in Busy
  BY <1>1 DEF WellDone, Busy
<1>3. \A t \in Busy' : t # s => req'[t] = req[t]
  BY DEF WellDone, Busy
<1>4. s \in Busy' => GoesOnWell(s)
  BY IdleTyped DEF WellDone, EndsWell, Busy
<1>5. OverlapsAreRaced'
  BY <1>2, <1>3, <1>4 DEF DInv, OverlapsAreRaced, GoesOnWell
<1>6. HeldIsCurrent'
  <2> SUFFICES ASSUME NEW t \in Busy', ~req'[t].raced, req'[t].pc # "insert" PROVE req'[t].row \in rows'
    BY DEF HeldIsCurrent
  <2>1. CASE t = s
    BY <1>1, <1>4, <2>1 DEF DInv, HeldIsCurrent, GoesOnWell
  <2>2. CASE t # s
    <3>1. req'[t] = req[t] /\ t \in Busy /\ req[t].row \in rows
      BY <1>2, <1>3, <2>2 DEF DInv, HeldIsCurrent
    <3>2. req[t].row.id # req[s].row.id
      BY <1>1, <2>2, <3>1 DEF DInv, OverlapsAreRaced
    <3>. QED
      BY <3>1, <3>2 DEF WellDone
  <2>. QED
    BY <2>1, <2>2
<1>7. NewKeyIsNew'
  <2> SUFFICES ASSUME NEW t \in Slot, req'[t].pc = "insert"
               PROVE  /\ req'[t].row.key \notin KeysOf(rows')
                      /\ \A i \in Iface : req'[t].row.key \notin KeysOf(wg'[i])
                      /\ \A u \in Busy' \ {t} : req'[u].row.key # req'[t].row.key
    BY DEF NewKeyIsNew, KeysOf
  <2>1. t # s
    BY IdleTyped DEF WellDone, EndsWell, GoesOnWell
  <2>2. req'[t] = req[t] /\ req[t].pc = "insert" /\ req[t].row.key \in Key
    BY <2>1, HoldsRow DEF WellDone, Row
  <2>3. /\ req[t].row.key \notin KeysOf(rows)
        /\ \A i \in Iface : req[t].row.key \notin KeysOf(wg[i])
        /\ \A u \in Busy \ {t} : req[u].row.key # req[t].row.key
    BY <2>2 DEF DInv, NewKeyIsNew
  <2>4. KeysOf(rows') \subseteq KeysOf(rows)
    BY DEF WellDone, KeysOf
  <2>5. \A i \in Iface : req[t].row.key \notin KeysOf(wg'[i])
    BY <1>1, <2>1, <2>2, <2>3 DEF WellDone, AddsAtMostOwn, PairOf
  <2>6. s \in Busy' => req'[s].row.key # req[t].row.key
    BY <1>1, <1>4, <2>1, <2>3 DEF GoesOnWell, KeysOf
  <2>. QED
    BY <1>2, <1>3, <2>2, <2>3, <2>4, <2>5, <2>6
<1>8. ReconcileKnows'
  BY ServingIsNotSyncing DEF ReconcileKnows, WellDone
<1>. QED
  BY <1>5, <1>6, <1>7, <1>8, WellDoneExplains, WellDoneKnows DEF DInv
-----------------------------------------------------------------------------
(* The steps, one by one.                                                  *)

(* A request that does not overlap has the only row with its id.           *)
LEMMA OwnRow ==
    ASSUME IInv, DInv, NEW s \in Slot, req[s].pc \notin {"idle", "insert"}, ~req[s].raced
    PROVE  /\ req[s].row \in rows
           /\ \A q \in rows : q.id = req[s].row.id => q = req[s].row
           /\ \A q \in rows : q.key = req[s].row.key => q = req[s].row
           /\ Known(req[s])
<1>1. s \in Busy
  BY HoldsRow
<1>2. req[s].row \in rows /\ Known(req[s])
  BY <1>1 DEF DInv, HeldIsCurrent, RequestsKnow
<1>. QED
  BY <1>2 DEF IInv, IsTable

LEMMA NothingDone ==
    ASSUME NEW s \in Slot, UNCHANGED <<rows, wg>>
    PROVE  OthersKept(s) /\ AddsAtMostOwn(s)
<1>1. \A i, k : Agrees(i, k) => Agrees(i, k)'
  BY DEF Agrees, RowsOf, InPlace, KeysOf
<1>. QED
  BY <1>1 DEF OthersKept, AddsAtMostOwn

LEMMA DeleteKept ==
    ASSUME IInv, DInv, NEW s \in Slot, req[s].pc \notin {"idle", "insert"},
           UNCHANGED wg, DeleteRowById(req[s].row.id), req[s].raced => Touched(s) \subseteq suspect'
    PROVE  OthersKept(s) /\ AddsAtMostOwn(s)
<1>1. ASSUME NEW i \in Iface, NEW k \in Key, Agrees(i, k), <<i, k>> \notin suspect',
             <<i, k>> # PairOf(req[s].row)
      PROVE  Agrees(i, k)'
  <2>1. ASSUME NEW q \in rows, q.iface = i, q.key = k PROVE q.id # req[s].row.id
    <3>1. CASE req[s].raced
      BY <1>1, <2>1, <3>1 DEF Touched
    <3>2. CASE ~req[s].raced
      BY <1>1, <2>1, <3>2, OwnRow DEF PairOf
    <3>. QED
      BY <3>1, <3>2
  <2>2. \A q : q.key = k => (q \in RowsOf(i) <=> q \in RowsOf(i)')
    BY <2>1 DEF RowsOf, DeleteRowById
  <2>3. AgreesOn(RowsOf(i), wg[i], k) <=> AgreesOn(RowsOf(i)', wg[i], k)
    BY <2>2, AgreementIsLocal
  <2>. QED
    BY <1>1, <2>3, AgreementOn DEF AgreesOn, Agrees
<1>. QED
  BY <1>1 DEF OthersKept, AddsAtMostOwn

LEMMA AgreementNext ==
    ASSUME NEW i, NEW k, NEW S, NEW ps, S = RowsOf(i)', ps = wg'[i]
    PROVE  Agrees(i, k)' <=> AgreesOn(S, ps, k)
  BY DEF Agrees, AgreesOn

LEMMA SetKeys ==
    ASSUME NEW r \in Row, NEW ps \in SUBSET KernelPeer
    PROVE  KeysOf(AfterSetPeer(ps, r.key, r.addr, r.psk)) = KeysOf(ps) \cup {r.key}
<1>1. r.key \in Key /\ r.addr \in Address /\ r.psk \in Psk \cup {NoPsk}
  BY DEF Row
<1>. QED
  BY <1>1, AfterSetTyped

LEMMA SetKept ==
    ASSUME IInv, DInv, NEW s \in Slot, req[s].pc \in {"set", "toggle"}, UNCHANGED rows,
           SetPeerSucceeds(req[s].row) \/ SetPeerErrs(req[s].row),
           req[s].raced => Touched(s) \subseteq suspect'
    PROVE  OthersKept(s) /\ AddsAtMostOwn(s)
<1> DEFINE r == req[s].row
           after == AfterSetPeer(wg[r.iface], r.key, r.addr, r.psk)
<1>1. r \in Row /\ r.iface \in Clients /\ wg[r.iface] \in SUBSET KernelPeer /\ r.iface \in Iface
  BY HoldsRow, TypedNow DEF SlotOK, Row
<1>2. /\ \A i \in Iface : i # r.iface => wg'[i] = wg[i]
      /\ wg'[r.iface] \in {wg[r.iface], after}
  BY <1>1, SetPeerStep
<1>3. KeysOf(after) = KeysOf(wg[r.iface]) \cup {r.key}
  BY <1>1, SetKeys
<1>4. ASSUME NEW k \in Key, k # r.key, Agrees(r.iface, k), <<r.iface, k>> \notin suspect'
      PROVE  AgreesOn(RowsOf(r.iface), after, k)
  <2> DEFINE S == RowsOf(r.iface)
  <2>1. AgreesOn(S, wg[r.iface], k)
    BY <1>4, AgreementOn
  <2>2. ASSUME NEW e \in S, e.key = k, e.enabled, NEW q \in S, q.key = k PROVE q.addr # r.addr
    <3>1. CASE req[s].raced
      <4>1. InPlace(q, wg[r.iface])
        BY <2>1, <2>2 DEF AgreesOn
      <4>2. PICK p \in wg[r.iface] : p.key = k /\ p.addr = q.addr
        BY <2>2, <4>1 DEF InPlace
      <4>3. p.addr = r.addr => <<r.iface, k>> \in Touched(s)
        BY <4>2 DEF Touched
      <4>. QED
        BY <1>4, <3>1, <4>2, <4>3
    <3>2. CASE ~req[s].raced
      BY <1>1, <1>4, <2>2, <3>2, OwnRow DEF IInv, IsTable, RowsOf
    <3>. QED
      BY <3>1, <3>2
  <2>3. S \subseteq Row
    BY TypedNow DEF RowsOf
  <2>. QED
    BY <1>1, <1>4, <2>1, <2>2, <2>3, SetKeepsOthers DEF Row
<1> HIDE DEF after
<1>5. ASSUME NEW i \in Iface, NEW k \in Key, Agrees(i, k), <<i, k>> \notin suspect',
             <<i, k>> # PairOf(r)
      PROVE  Agrees(i, k)'
  <2>1. RowsOf(i)' = RowsOf(i)
    BY DEF RowsOf
  <2>2. AgreesOn(RowsOf(i), wg[i], k)
    BY <1>5, AgreementOn
  <2>3. AgreesOn(RowsOf(i), wg'[i], k)
    BY <1>2, <1>4, <1>5, <2>2 DEF PairOf
  <2>. QED
    BY <2>1, <2>3, AgreementNext
<1>. QED
  BY <1>2, <1>3, <1>5 DEF OthersKept, AddsAtMostOwn, PairOf

LEMMA RemoveKept ==
    ASSUME IInv, NEW s \in Slot, req[s].pc \in {"remove", "toggle"}, UNCHANGED rows,
           RemovePeerSucceeds(req[s].row) \/ RemovePeerErrs(req[s].row)
    PROVE  OthersKept(s) /\ AddsAtMostOwn(s)
<1> DEFINE r == req[s].row
           after == AfterRemovePeer(wg[r.iface], r.key)
<1>1. r \in Row
  BY HoldsRow
<1>2. /\ \A i \in Iface : i # r.iface => wg'[i] = wg[i]
      /\ wg'[r.iface] \in {wg[r.iface], after}
  BY <1>1, RemovePeerStep
<1>3. /\ KeysOf(after) \subseteq KeysOf(wg[r.iface])
      /\ \A S, k : k # r.key => (AgreesOn(S, wg[r.iface], k) <=> AgreesOn(S, after, k))
  BY RemoveKeepsOthers
<1> HIDE DEF after
<1>4. ASSUME NEW i \in Iface, NEW k \in Key, Agrees(i, k), <<i, k>> # PairOf(r)
      PROVE  Agrees(i, k)'
  <2>1. RowsOf(i)' = RowsOf(i)
    BY DEF RowsOf
  <2>2. AgreesOn(RowsOf(i), wg[i], k)
    BY <1>4, AgreementOn
  <2>3. AgreesOn(RowsOf(i), wg'[i], k)
    BY <1>2, <1>3, <1>4, <2>2 DEF PairOf
  <2>. QED
    BY <2>1, <2>3, AgreementNext
<1>. QED
  BY <1>2, <1>3, <1>4 DEF OthersKept, AddsAtMostOwn
LEMMA Suspecting ==
    ASSUME NEW s \in Slot, Suspects(s) \/ SuspectsIfRaced(s)
    PROVE  /\ suspect \subseteq suspect'
           /\ req[s].raced => Touched(s) \subseteq suspect' /\ PairOf(req[s].row) \in suspect'
           /\ Suspects(s) => PairOf(req[s].row) \in suspect'
<1>1. PairOf(req[s].row) \in Touched(s)
  BY DEF PairOf, Touched
<1>. QED
  BY <1>1 DEF Suspects, SuspectsIfRaced

LEMMA EndsWellIf ==
    ASSUME NEW s \in Slot, NEW r, r = req[s].row, req'[s] = Idle, NEW S, S = RowsOf(r.iface)',
           Live(r.iface) /\ PairOf(r) \notin suspect' => AgreesOn(S, wg'[r.iface], r.key)
    PROVE  EndsWell(s)
<1> SUFFICES ASSUME NEW i \in Iface, NEW k \in Key,
                    Live(i), <<i, k>> = PairOf(req[s].row), <<i, k>> \notin suspect'
             PROVE  Agrees(i, k)'
  BY DEF EndsWell
<1>1. i = r.iface /\ k = r.key
  BY DEF PairOf
<1>2. S = RowsOf(i)'
  BY <1>1
<1>. QED
  BY <1>1, <1>2, AgreementNext DEF PairOf

(* `wg set` or the removal of what a request that does not overlap holds,  *)
(* according to the row.                                                   *)
LEMMA SetOwnAgrees ==
    ASSUME IInv, DInv, NEW s \in Slot, req[s].pc \notin {"idle", "insert"}, ~req[s].raced,
           NEW r, r = req[s].row, r.enabled, SetPeerSucceeds(r)
    PROVE  AgreesOn(RowsOf(r.iface), wg'[r.iface], r.key)
<1>1. r \in Row /\ r.iface \in Iface /\ wg \in [Iface -> SUBSET KernelPeer]
  BY HoldsRow, TypedNow DEF Row
<1> DEFINE after == AfterSetPeer(wg[r.iface], r.key, r.addr, r.psk)
<1>2. AgreesOn(RowsOf(r.iface), after, r.key)
  <2>1. RowsOf(r.iface) \subseteq Row /\ r \in RowsOf(r.iface)
    BY TypedNow, OwnRow DEF RowsOf
  <2>2. \A q \in RowsOf(r.iface) : q.key = r.key => q = r
    BY OwnRow DEF RowsOf
  <2>. QED
    BY <1>1, <2>1, <2>2, SetAgrees
<1> HIDE DEF after
<1>3. wg' = [wg EXCEPT ![r.iface] = after]
  BY <1>1 DEF SetPeerSucceeds, after
<1>. QED
  BY <1>1, <1>2, <1>3

LEMMA RemoveOwn ==
    ASSUME IInv, NEW r \in Row, RemovePeerSucceeds(r)
    PROVE  r.key \notin KeysOf(wg'[r.iface])
<1>1. r.iface \in Iface /\ wg \in [Iface -> SUBSET KernelPeer]
  BY TypedNow DEF Row
<1> DEFINE after == AfterRemovePeer(wg[r.iface], r.key)
<1>2. r.key \notin KeysOf(after)
  BY DEF AfterRemovePeer, KeysOf
<1>3. wg' = [wg EXCEPT ![r.iface] = after]
  BY <1>1 DEF RemovePeerSucceeds
<1> HIDE DEF after
<1>. QED
  BY <1>1, <1>2, <1>3

LEMMA CreateSetsWell ==
    ASSUME IInv, DInv, Serving, UNCHANGED boot, NEW s \in Slot, CreateSets(s)
    PROVE  WellDone(s)
<1> DEFINE r == req[s].row
<1>1. /\ req[s].pc = "set" /\ UNCHANGED <<rows, up, unsynced>> /\ r \in Row
      /\ SetPeerSucceeds(r) \/ SetPeerErrs(r)
      /\ Suspects(s) \/ SuspectsIfRaced(s)
  BY HoldsRow DEF CreateSets
<1>2. ApiStep(s) /\ OthersKept(s) /\ AddsAtMostOwn(s)
  BY <1>1, CreateSetsStep, SetKept, Suspecting
<1>3. CASE SetPeerSucceeds(r) /\ Ends(s)
  <2>1. \A i : RowsOf(i)' = RowsOf(i)
    BY <1>1 DEF RowsOf
  <2>2. ~req[s].raced => AgreesOn(RowsOf(r.iface), wg'[r.iface], r.key)
    BY <1>1, <1>3, OwnRow, SetOwnAgrees DEF Known
  <2>3. EndsWell(s)
    BY <1>1, <1>3, <2>1, <2>2, EndsWellIf, EndsStep, Suspecting
  <2>. QED
    BY <1>1, <1>2, <1>3, <2>3, EndsStep, Suspecting DEF WellDone
<1>4. CASE /\ SetPeerErrs(r) /\ Goes(s, "rollback")
           /\ IF r.iface \in up THEN Suspects(s) ELSE SuspectsIfRaced(s)
  <2>1. /\ \A t \in Slot \ {s} : req'[t] = req[t]
        /\ req'[s].kind = req[s].kind /\ req'[s].pc = "rollback" /\ req'[s].row = req[s].row
        /\ req'[s].on = req[s].on /\ req'[s].raced = req[s].raced
    BY <1>4, GoesStep
  <2>2. ~(Live(r.iface) /\ PairOf(r) \notin suspect')
    BY <1>4, Suspecting DEF Live
  <2>3. Known(req[s])'
    BY <1>1, <2>1, <2>2 DEF Known, Live, PairOf
  <2>4. GoesOnWell(s)
    BY <1>1, <2>1, <2>3, HoldsRow DEF GoesOnWell
  <2>. QED
    BY <1>1, <1>2, <2>1, <2>4, Suspecting DEF WellDone
<1>. QED
  BY <1>3, <1>4 DEF CreateSets

LEMMA CreateRollsBackWell ==
    ASSUME IInv, DInv, Serving, UNCHANGED boot, NEW s \in Slot, CreateRollsBack(s)
    PROVE  WellDone(s)
<1>1. /\ req[s].pc = "rollback" /\ UNCHANGED <<wg, up, unsynced>> /\ Ends(s)
      /\ Suspects(s) \/ SuspectsIfRaced(s)
      /\ UNCHANGED rows \/ DeleteRowById(req[s].row.id)
  BY DEF CreateRollsBack
<1>2. ApiStep(s) /\ OthersKept(s) /\ AddsAtMostOwn(s)
  BY <1>1, CreateRollsBackStep, DeleteKept, NothingDone, Suspecting
<1>3. EndsWell(s)
  <2>1. Live(req[s].row.iface) => PairOf(req[s].row) \in suspect'
    BY <1>1, OwnRow, Suspecting DEF Known
  <2>. QED
    BY <1>1, <2>1, EndsWellIf, EndsStep
<1>. QED
  BY <1>1, <1>2, <1>3, EndsStep, Suspecting DEF WellDone, DeleteRowById
LEMMA UpdateReadsWell ==
    ASSUME IInv, DInv, Serving, UNCHANGED boot, NEW s \in Slot, UpdateReads(s)
    PROVE  WellDone(s)
<1>1. /\ req[s].pc = "read" /\ UNCHANGED <<rows, wg, up, unsynced>> /\ req[s] \in Request
      /\ Suspects(s) \/ SuspectsIfRaced(s)
  BY HoldsRow DEF UpdateReads
<1>2. ApiStep(s) /\ OthersKept(s) /\ AddsAtMostOwn(s)
  BY <1>1, UpdateReadsStep, NothingDone
<1>3. ASSUME NEW r \in rows, r.id = req[s].row.id, r.iface \in Clients,
             req' = [req EXCEPT ![s].pc = "toggle", ![s].row = r]
      PROVE  WellDone(s)
  <2>1. /\ \A t \in Slot \ {s} : req'[t] = req[t]
        /\ req'[s].kind = req[s].kind /\ req'[s].pc = "toggle" /\ req'[s].row = r
        /\ req'[s].on = req[s].on /\ req'[s].raced = req[s].raced
    BY <1>1, <1>3, TypedNow DEF Request
  <2>2. ~req[s].raced => r = req[s].row /\ r.enabled = req[s].on
    BY <1>1, <1>3, OwnRow DEF Known
  <2>3. ~req[s].raced => Known(req[s])'
    BY <2>1, <2>2 DEF Known
  <2>4. GoesOnWell(s)
    BY <1>1, <1>3, <2>1, <2>2, <2>3, HoldsRow DEF GoesOnWell
  <2>. QED
    BY <1>1, <1>2, <2>1, <2>4, Suspecting DEF WellDone
<1>4. ASSUME Ends(s), \/ \E r \in rows : r.id = req[s].row.id /\ r.iface \notin Clients
                      \/ \A r \in rows : r.id # req[s].row.id
                      \/ Suspects(s)
      PROVE  WellDone(s)
  <2>1. Live(req[s].row.iface) => PairOf(req[s].row) \in suspect'
    BY <1>1, <1>4, OwnRow, Suspecting DEF Live
  <2>2. EndsWell(s)
    BY <1>4, <2>1, EndsWellIf, EndsStep
  <2>. QED
    BY <1>1, <1>2, <1>4, <2>2, EndsStep, Suspecting DEF WellDone
<1>. QED
  BY <1>3, <1>4 DEF UpdateReads

LEMMA UpdateTogglesWell ==
    ASSUME IInv, DInv, Serving, UNCHANGED boot, NEW s \in Slot, UpdateToggles(s)
    PROVE  WellDone(s)
<1> DEFINE r == req[s].row
<1>1. /\ req[s].pc = "toggle" /\ UNCHANGED <<rows, up, unsynced>> /\ Ends(s) /\ r \in Row
      /\ Suspects(s) \/ SuspectsIfRaced(s)
      /\ \/ SetPeerSucceeds(r) \/ SetPeerErrs(r)
         \/ RemovePeerSucceeds(r) \/ RemovePeerErrs(r)
  BY HoldsRow DEF UpdateToggles
<1>2. OthersKept(s) /\ AddsAtMostOwn(s)
  BY <1>1, SetKept, RemoveKept, Suspecting
<1>3. ASSUME ~req[s].raced, PairOf(r) \notin suspect'
      PROVE  AgreesOn(RowsOf(r.iface), wg'[r.iface], r.key)
  <2>1. r.enabled = req[s].on
    BY <1>1, <1>3, OwnRow DEF Known
  <2>2. CASE req[s].on
    <3>1. SetPeerSucceeds(r)
      BY <1>3, <2>2, Suspecting DEF UpdateToggles
    <3>. QED
      BY <1>1, <1>3, <2>1, <2>2, <3>1, SetOwnAgrees
  <2>3. CASE ~req[s].on
    <3>1. RemovePeerSucceeds(r)
      BY <1>3, <2>3, Suspecting DEF UpdateToggles
    <3>2. r.key \notin KeysOf(wg'[r.iface])
      BY <1>1, <3>1, RemoveOwn
    <3>3. \A q \in RowsOf(r.iface) : q.key = r.key => ~q.enabled
      BY <1>1, <1>3, <2>1, <2>3, OwnRow DEF RowsOf
    <3>. QED
      BY <3>2, <3>3, GoneAgrees
  <2>. QED
    BY <2>2, <2>3
<1>4. \A i : RowsOf(i)' = RowsOf(i)
  BY <1>1 DEF RowsOf
<1>5. EndsWell(s)
  BY <1>1, <1>3, <1>4, EndsWellIf, EndsStep, Suspecting
<1>. QED
  BY <1>1, <1>2, <1>5, UpdateTogglesStep, EndsStep, Suspecting DEF WellDone

LEMMA DeleteRemovesWell ==
    ASSUME IInv, DInv, Serving, UNCHANGED boot, NEW s \in Slot, DeleteRemoves(s)
    PROVE  WellDone(s)
<1> DEFINE r == req[s].row
<1>1. /\ req[s].pc = "remove" /\ UNCHANGED <<rows, up, unsynced>> /\ Goes(s, "row") /\ r \in Row
      /\ Suspects(s) \/ SuspectsIfRaced(s)
      /\ RemovePeerSucceeds(r) \/ RemovePeerErrs(r)
  BY HoldsRow DEF DeleteRemoves
<1>2. ApiStep(s) /\ OthersKept(s) /\ AddsAtMostOwn(s)
  BY <1>1, DeleteRemovesStep, RemoveKept
<1>3. /\ \A t \in Slot \ {s} : req'[t] = req[t]
      /\ req'[s].kind = req[s].kind /\ req'[s].pc = "row" /\ req'[s].row = req[s].row
      /\ req'[s].on = req[s].on /\ req'[s].raced = req[s].raced
  BY <1>1, GoesStep
<1>4. PairOf(r) \notin suspect' => r.key \notin KeysOf(wg'[r.iface])
  BY <1>1, Suspecting, RemoveOwn DEF DeleteRemoves
<1>5. Known(req[s])'
  <2>1. req'[s].row.key = r.key /\ req'[s].row.iface = r.iface
    BY <1>3
  <2>. QED
    BY <1>3, <1>4, <2>1 DEF Known, Live, PairOf, KeysOf
<1>6. GoesOnWell(s)
  BY <1>1, <1>3, <1>5, HoldsRow DEF GoesOnWell
<1>. QED
  BY <1>1, <1>2, <1>3, <1>6, Suspecting DEF WellDone

LEMMA DeleteDeletesWell ==
    ASSUME IInv, DInv, Serving, UNCHANGED boot, NEW s \in Slot, DeleteDeletes(s)
    PROVE  WellDone(s)
<1> DEFINE r == req[s].row
<1>1. /\ req[s].pc = "row" /\ UNCHANGED <<wg, up, unsynced>> /\ Ends(s)
      /\ Suspects(s) \/ SuspectsIfRaced(s)
      /\ UNCHANGED rows \/ DeleteRowById(r.id)
  BY DEF DeleteDeletes
<1>2. ApiStep(s) /\ OthersKept(s) /\ AddsAtMostOwn(s)
  BY <1>1, DeleteDeletesStep, DeleteKept, NothingDone, Suspecting
<1>3. ASSUME ~req[s].raced, Live(r.iface), PairOf(r) \notin suspect'
      PROVE  AgreesOn({q \in rows' : q.iface = r.iface}, wg'[r.iface], r.key)
  <2>1. r.key \notin KeysOf(wg'[r.iface])
    BY <1>1, <1>3, OwnRow, Suspecting DEF Known
  <2>2. rows' = {q \in rows : q.id # r.id}
    BY <1>3, Suspecting DEF DeleteDeletes, DeleteRowById
  <2>3. \A q \in {q \in rows' : q.iface = r.iface} : q.key = r.key => ~q.enabled
    BY <1>1, <1>3, <2>2, OwnRow
  <2>. QED
    BY <2>1, <2>3, GoneAgrees
<1>4. \A i : RowsOf(i)' = {q \in rows' : q.iface = i}
  BY DEF RowsOf
<1>5. EndsWell(s)
  BY <1>1, <1>3, <1>4, EndsWellIf, EndsStep, Suspecting
<1>. QED
  BY <1>1, <1>2, <1>5, EndsStep, Suspecting DEF WellDone, DeleteRowById
-----------------------------------------------------------------------------
(* The steps that begin a request, and the insert of a row.                *)

(* What a step that makes slot s name the row of request q has to see to.  *)
Naming(s, q) ==
    /\ Serving /\ UNCHANGED <<wg, up, suspect, unsynced, boot>>
    /\ q \in Request /\ Names(s, q)
    /\ q.kind # "idle" /\ q.pc \in {"set", "read", "remove"}
    /\ q.pc = "set" => q.row.enabled
    /\ q.pc = "read" => q.row.enabled = q.on
    /\ q.row \in rows'
    /\ \A x \in rows : \E y \in rows' : y.id = x.id /\ y.iface = x.iface /\ y.key = x.key
    /\ \A x \in rows : x.id # q.row.id => x \in rows'
    /\ KeysOf(rows') \subseteq KeysOf(rows) \cup {q.row.key}
    /\ \/ req[s] = Idle /\ q.row.key \in KeysOf(rows)
       \/ req[s].pc = "insert" /\ PairOf(req[s].row) = PairOf(q.row)
    /\ \A x : x.key # q.row.key \/ x.iface # q.row.iface => (x \in rows <=> x \in rows')

LEMMA NamingExplains ==
    ASSUME IInv, DInv, NEW s \in Slot, NEW q, Naming(s, q)
    PROVE  DriftIsExplained'
<1>1. /\ \A t \in Slot \ {s} : /\ req'[t].kind = req[t].kind /\ req'[t].row = req[t].row
      /\ req'[s].kind = q.kind /\ req'[s].row = q.row
  BY NamesStep DEF Naming
<1>2. s \in Busy' /\ \A t \in Busy : t \in Busy'
  BY <1>1 DEF Naming, Busy
<1>3. InProgress \subseteq InProgress'
  <2> SUFFICES ASSUME NEW x \in InProgress PROVE x \in InProgress'
    OBVIOUS
  <2>1. CASE \E t \in Busy : x = <<req[t].row.iface, req[t].row.key>>
    <3>1. PICK t \in Busy : x = <<req[t].row.iface, req[t].row.key>>
      BY <2>1
    <3>2. t = s => req[s].pc = "insert"
      BY DEF Naming, Busy, Idle, Begun
    <3>3. x = <<req'[t].row.iface, req'[t].row.key>>
      BY <1>1, <3>1, <3>2 DEF Naming, PairOf, Busy, Idle, Begun
    <3>. QED
      BY <1>2, <3>3 DEF InProgress
  <2>2. ASSUME NEW y \in rows, NEW t \in Busy, y.id = req[t].row.id, x = <<y.iface, y.key>>
        PROVE  x \in InProgress'
    <3>1. t # s
      <4>1. t = s => req[s].pc = "insert" /\ req[s].row.id = 0
        BY HoldsRow DEF Naming, Busy, Idle, Begun, SlotOK
      <4>. QED
        BY <2>2, <4>1, TypedNow DEF IsTable
    <3>2. PICK z \in rows' : z.id = y.id /\ z.iface = y.iface /\ z.key = y.key
      BY DEF Naming
    <3>3. t \in Busy' /\ z.id = req'[t].row.id
      BY <1>1, <1>2, <2>2, <3>1, <3>2 DEF Busy
    <3>. QED
      BY <2>2, <3>2, <3>3 DEF InProgress
  <2>. QED
    BY <2>1, <2>2 DEF InProgress
<1>4. PairOf(q.row) \in InProgress'
  BY <1>1, <1>2 DEF InProgress, PairOf
<1>5. ASSUME NEW i, NEW k, Agrees(i, k), <<i, k>> # PairOf(q.row) PROVE Agrees(i, k)'
  <2>1. \A x : x.key = k => (x \in RowsOf(i) <=> x \in RowsOf(i)')
    BY <1>5 DEF RowsOf, Naming, PairOf
  <2>2. AgreesOn(RowsOf(i), wg[i], k) <=> AgreesOn(RowsOf(i)', wg[i], k)
    BY <2>1, AgreementIsLocal
  <2>3. wg'[i] = wg[i]
    BY DEF Naming
  <2>. QED
    BY <1>5, <2>2, <2>3, AgreementOn, AgreementNext
<1>6. UNCHANGED <<up, unsynced, suspect>>
  BY DEF Naming
<1>. QED
  BY <1>3, <1>4, <1>5, <1>6, ServingIsNotSyncing DEF Naming, DInv, DriftIsExplained

LEMMA NamingKeeps ==
    ASSUME IInv, DInv, NEW s \in Slot, NEW q, Naming(s, q)
    PROVE  DInv'
<1>1. /\ \A t \in Slot \ {s} :
            /\ req'[t].kind = req[t].kind /\ req'[t].pc = req[t].pc
            /\ req'[t].row = req[t].row /\ req'[t].on = req[t].on
            /\ req'[t].raced <=> req[t].raced \/ t \in SameId(s, q.row.id)
      /\ req'[s].kind = q.kind /\ req'[s].pc = q.pc /\ req'[s].row = q.row
      /\ req'[s].on = q.on /\ (req'[s].raced <=> q.raced \/ SameId(s, q.row.id) # {})
  <2>1. q \in Request /\ Names(s, q)
    BY DEF Naming
  <2>. QED
    BY <2>1, NamesStep
<1>2. \A t \in Busy' : t # s => t \in Busy
  BY <1>1 DEF Busy
<1>3. OverlapsAreRaced'
  BY <1>1, <1>2 DEF DInv, OverlapsAreRaced, SameId, Busy
<1>4. HeldIsCurrent'
  BY <1>1, <1>2 DEF DInv, HeldIsCurrent, SameId, Naming, Busy
<1>5. NewKeyIsNew'
  <2> SUFFICES ASSUME NEW t \in Slot, req'[t].pc = "insert"
               PROVE  /\ req'[t].row.key \notin KeysOf(rows')
                      /\ \A i \in Iface : req'[t].row.key \notin KeysOf(wg'[i])
                      /\ \A u \in Busy' \ {t} : req'[u].row.key # req'[t].row.key
    BY DEF NewKeyIsNew, KeysOf
  <2>1. t # s /\ req[t].pc = "insert" /\ req'[t].row = req[t].row
    BY <1>1 DEF Naming
  <2>2. req[s] = Idle /\ q.row.key \in KeysOf(rows)
    BY <2>1 DEF Naming, IInv, OneInserts
  <2>3. /\ req[t].row.key \notin KeysOf(rows)
        /\ \A i \in Iface : req[t].row.key \notin KeysOf(wg[i])
        /\ \A u \in Busy \ {t} : req[u].row.key # req[t].row.key
    BY <2>1 DEF DInv, NewKeyIsNew
  <2>. QED
    BY <1>1, <1>2, <2>1, <2>2, <2>3 DEF Naming, Busy
<1>6. RequestsKnow'
  <2> SUFFICES ASSUME NEW t \in Busy', ~req'[t].raced PROVE Known(req[t])'
    BY DEF RequestsKnow
  <2>1. CASE t = s
    BY <1>1, <2>1 DEF Known, Naming
  <2>2. CASE t # s
    <3>1. Known(req[t]) /\ UNCHANGED <<wg, up, unsynced, suspect>>
      BY <1>1, <1>2, <2>2 DEF DInv, RequestsKnow, Naming, Busy
    <3>2. req'[t].pc = req[t].pc /\ req'[t].row = req[t].row /\ req'[t].on = req[t].on
      BY <1>1, <2>2 DEF Busy
    <3>. QED
      BY <3>1, <3>2 DEF Known, Live, PairOf, KeysOf
  <2>. QED
    BY <2>1, <2>2
<1>7. ReconcileKnows'
  BY ServingIsNotSyncing DEF ReconcileKnows, Naming
<1>. QED
  BY <1>3, <1>4, <1>5, <1>6, <1>7, NamingExplains DEF DInv
LEMMA DeleteReadsKeeps ==
    ASSUME IInv, DInv, Serving, UNCHANGED boot, NEW s \in Slot, NEW r \in rows, DeleteReads(s, r)
    PROVE  DInv'
<1> DEFINE q == Begun("delete", "remove", r, FALSE)
<1>1. r \in Row
  BY TypedNow
<1>2. q \in Request /\ q.kind = "delete" /\ q.pc = "remove" /\ q.row = r
  BY <1>1 DEF Begun, Request
<1>3. req[s] = Idle /\ Names(s, q) /\ UNCHANGED <<rows, wg, up, suspect, unsynced>>
  BY DEF DeleteReads
<1> HIDE DEF q
<1>4. r.key \in KeysOf(rows)
  BY DEF KeysOf
<1>5. Naming(s, q)
  BY <1>2, <1>3, <1>4 DEF Naming
<1>. QED
  BY <1>5, NamingKeeps

LEMMA UpdateWritesKeeps ==
    ASSUME IInv, DInv, Serving, UNCHANGED boot, NEW s \in Slot, NEW r \in rows, NEW on \in BOOLEAN,
           UpdateWrites(s, r, on)
    PROVE  DInv'
<1> DEFINE x == [r EXCEPT !.enabled = on]
           q == Begun("update", "read", x, on)
<1>1. r \in Row /\ x \in Row /\ x.id = r.id /\ x.iface = r.iface /\ x.key = r.key /\ x.enabled = on
  BY ToggledRow, TypedNow
<1>2. rows' = (rows \ {r}) \cup {x} /\ req[s] = Idle /\ UNCHANGED <<wg, up, suspect, unsynced>>
  BY DEF UpdateWrites
<1> HIDE DEF x
<1>3. q \in Request /\ q.kind = "update" /\ q.pc = "read" /\ q.row = x /\ q.on = on
  BY <1>1 DEF Begun, Request
<1>4. Names(s, q)
  BY DEF UpdateWrites, x
<1> HIDE DEF q
<1>5. r.key \in KeysOf(rows) /\ KeysOf(rows') \subseteq KeysOf(rows)
  BY <1>1, <1>2 DEF KeysOf
<1>6. Naming(s, q)
  BY <1>1, <1>2, <1>3, <1>4, <1>5 DEF Naming
<1>. QED
  BY <1>6, NamingKeeps

LEMMA CreateInsertsKeeps ==
    ASSUME IInv, DInv, Serving, UNCHANGED boot, NEW s \in Slot, CreateInserts(s)
    PROVE  DInv'
<1>1. /\ req[s].pc = "insert" /\ req[s] \in Request /\ req[s].row \in Row /\ SlotOK(req[s])
      /\ UNCHANGED <<wg, up, suspect, unsynced>> /\ req[s].kind # "idle"
  BY HoldsRow DEF CreateInserts
<1>2. ASSUME NEW n \in PeerId, NextRowId(n), rows' = rows \cup {[req[s].row EXCEPT !.id = n]},
             Names(s, [req[s] EXCEPT !.pc = "set", !.row = [req[s].row EXCEPT !.id = n]])
      PROVE  DInv'
  <2> DEFINE r == [req[s].row EXCEPT !.id = n]
             q == [req[s] EXCEPT !.pc = "set", !.row = r]
  <2>1. r \in Row /\ r.id = n /\ r.iface = req[s].row.iface /\ r.key = req[s].row.key
        /\ r.enabled = req[s].row.enabled
    BY <1>1, RenumberedRow
  <2> HIDE DEF r
  <2>2. q \in Request /\ q.kind = req[s].kind /\ q.pc = "set" /\ q.row = r
    BY <1>1, <2>1 DEF Request
  <2>3. Names(s, q) /\ rows' = rows \cup {r}
    BY <1>2 DEF q, r
  <2> HIDE DEF q
  <2>4. r.enabled
    BY <1>1, <2>1 DEF SlotOK
  <2>5. KeysOf(rows') \subseteq KeysOf(rows) \cup {r.key}
    BY <2>3 DEF KeysOf
  <2>6. Naming(s, q)
    BY <1>1, <2>1, <2>2, <2>3, <2>4, <2>5 DEF Naming, PairOf
  <2>. QED
    BY <2>6, NamingKeeps
<1>3. ASSUME Ends(s), UNCHANGED rows PROVE DInv'
  <2> DEFINE r == req[s].row
  <2>1. /\ \A t \in Slot \ {s} : req'[t] = req[t]
        /\ req'[s] = Idle
    BY <1>3, EndsStep
  <2>2. /\ \A t \in Busy' : t \in Busy \ {s} /\ req'[t] = req[t]
        /\ \A t \in Busy \ {s} : t \in Busy' /\ req'[t] = req[t]
    BY <2>1, IdleTyped DEF Busy
  <2>3. r.key \notin KeysOf(rows) /\ \A i \in Iface : r.key \notin KeysOf(wg[i])
    BY <1>1 DEF DInv, NewKeyIsNew
  <2>4. \A i \in Iface : Agrees(i, r.key)
    BY <2>3 DEF Agrees, RowsOf, KeysOf
  <2>5. InProgress \subseteq InProgress' \cup {PairOf(r)}
    <3>1. \A y \in rows : y.id # r.id
      BY <1>1, TypedNow DEF SlotOK, IsTable
    <3>. QED
      BY <1>3, <2>2, <3>1 DEF InProgress, PairOf
  <2>6. \A i, k : Agrees(i, k)' <=> Agrees(i, k)
    BY <1>1, <1>3 DEF Agrees, RowsOf, InPlace, KeysOf
  <2>7. DriftIsExplained'
    <3> SUFFICES ASSUME NEW i \in Clients \cap (up' \ unsynced'), NEW k \in Key,
                        <<i, k>> \notin suspect', <<i, k>> \notin InProgress'
                 PROVE  Agrees(i, k)'
      BY DEF DriftIsExplained
    <3>1. CASE k = r.key
      BY <2>4, <2>6, <3>1 DEF Clients
    <3>2. CASE k # r.key
      BY <1>1, <2>5, <2>6, <3>2, ServingIsNotSyncing DEF DInv, DriftIsExplained, PairOf
    <3>. QED
      BY <3>1, <3>2
  <2>8. OverlapsAreRaced' /\ HeldIsCurrent' /\ NewKeyIsNew' /\ RequestsKnow'
    <3>1. OverlapsAreRaced' /\ HeldIsCurrent'
      BY <1>3, <2>2 DEF DInv, OverlapsAreRaced, HeldIsCurrent
    <3>2. NewKeyIsNew'
      BY <1>1, <1>3, <2>1, <2>2, IdleTyped DEF DInv, NewKeyIsNew, KeysOf
    <3>3. RequestsKnow'
      BY <1>1, <2>2 DEF DInv, RequestsKnow, Known, Live, PairOf, KeysOf
    <3>. QED
      BY <3>1, <3>2, <3>3
  <2>9. ReconcileKnows'
    BY ServingIsNotSyncing DEF ReconcileKnows
  <2>. QED
    BY <2>7, <2>8, <2>9 DEF DInv
<1>. QED
  BY <1>2, <1>3 DEF CreateInserts

LEMMA CreateResolvesKeeps ==
    ASSUME IInv, DInv, Serving, UNCHANGED boot, NEW s \in Slot, NEW i \in Clients, NEW k \in FreshKey,
           NEW a \in Address, NEW p \in Psk, CreateResolves(s, i, k, a, p)
    PROVE  DInv'
<1> DEFINE r == NewRow(i, k, a, p)
           q == Begun("create", "insert", r, FALSE)
<1>1. r \in Row /\ r.id = 0 /\ r.iface = i /\ r.key = k
  BY FreshKeyAssumption DEF NewRow, Row, Clients
<1>2. /\ req[s] = Idle /\ PeerMuFree /\ Unused(k) /\ UNCHANGED <<rows, wg, up, suspect, unsynced>>
      /\ req' = [req EXCEPT ![s] = q]
  BY DEF CreateResolves
<1>3. q.kind = "create" /\ q.pc = "insert" /\ q.row = r
  BY DEF Begun
<1> HIDE DEF r, q
<1>4. req'[s] = q /\ \A t \in Slot \ {s} : req'[t] = req[t]
  BY <1>2, TypedNow
<1>5. /\ \A t \in Busy' : t # s => t \in Busy /\ req'[t] = req[t]
      /\ \A t \in Busy : t # s /\ t \in Busy' /\ req'[t] = req[t]
  BY <1>2, <1>3, <1>4, IdleTyped DEF Busy
<1>6. \A t \in Busy : req[t].row.id # 0 /\ req[t].pc # "insert"
  BY <1>2 DEF PeerMuFree, Busy, IInv, SlotsOK, SlotOK, Idle, Begun
<1>7. DriftIsExplained'
  <2>1. InProgress \subseteq InProgress'
    BY <1>2, <1>5 DEF InProgress
  <2>2. \A j, l : Agrees(j, l) => Agrees(j, l)'
    BY <1>2 DEF Agrees, RowsOf, InPlace, KeysOf
  <2>. QED
    BY <1>2, <2>1, <2>2, ServingIsNotSyncing DEF DInv, DriftIsExplained
<1>8. OverlapsAreRaced'
  BY <1>1, <1>3, <1>4, <1>5, <1>6 DEF DInv, OverlapsAreRaced
<1>9. HeldIsCurrent'
  BY <1>2, <1>3, <1>4, <1>5 DEF DInv, HeldIsCurrent
<1>10. NewKeyIsNew'
  <2>1. \A t \in Slot : req'[t].pc = "insert" => t = s
    BY <1>2, <1>4 DEF PeerMuFree
  <2>2. \A u \in Busy' \ {s} : req'[u].row.key # k
    BY <1>2, <1>5 DEF Unused
  <2>3. k \notin KeysOf(rows') /\ \A j \in Iface : k \notin KeysOf(wg'[j])
    BY <1>2 DEF Unused
  <2>4. req'[s].row.key = k
    BY <1>1, <1>3, <1>4
  <2>. QED
    BY <2>1, <2>2, <2>3, <2>4 DEF NewKeyIsNew, KeysOf
<1>11. RequestsKnow'
  BY <1>2, <1>3, <1>4, <1>5 DEF DInv, RequestsKnow, Known, Live, PairOf, KeysOf
<1>12. ReconcileKnows'
  BY ServingIsNotSyncing DEF ReconcileKnows
<1>. QED
  BY <1>7, <1>8, <1>9, <1>10, <1>11, <1>12 DEF DInv

LEMMA ApiKeepsDrift ==
    ASSUME IInv, DInv, Api
    PROVE  DInv'
<1>1. Serving /\ UNCHANGED boot
  BY DEF Api
<1>2. CASE RequestArrives
  BY <1>1, <1>2, CreateResolvesKeeps, UpdateWritesKeeps, DeleteReadsKeeps DEF RequestArrives
<1>3. ASSUME NEW s \in Slot, RequestProceeds(s) PROVE DInv'
  BY <1>1, <1>3, CreateInsertsKeeps, CreateSetsWell, CreateRollsBackWell, UpdateReadsWell,
     UpdateTogglesWell, DeleteRemovesWell, DeleteDeletesWell, WellDoneKeeps DEF RequestProceeds
<1>. QED
  BY <1>2, <1>3 DEF Api
-----------------------------------------------------------------------------
(* The reconcile: no request is in progress.                               *)

LEMMA BootQuiet ==
    ASSUME IInv, boot.phase # "serving", UNCHANGED req
    PROVE  /\ InProgress = {} /\ InProgress' = {}
           /\ DriftIsExplained' /\ ReconcileKnows' => DInv'
<1>1. \A s \in Slot : req[s] = Idle /\ req'[s] = Idle
  BY DEF IInv, SlotsOK, Serving
<1>2. Busy = {} /\ Busy' = {} /\ \A s \in Slot : req'[s].pc # "insert"
  BY <1>1, IdleTyped DEF Busy
<1>3. InProgress = {} /\ InProgress' = {}
  BY <1>2 DEF InProgress
<1>4. OverlapsAreRaced' /\ HeldIsCurrent' /\ NewKeyIsNew' /\ RequestsKnow'
  BY <1>2 DEF OverlapsAreRaced, HeldIsCurrent, NewKeyIsNew, RequestsKnow
<1>. QED
  BY <1>3, <1>4 DEF DInv

LEMMA AgreementStays ==
    ASSUME UNCHANGED <<rows, wg>>, NEW i, NEW k
    PROVE  Agrees(i, k)' <=> Agrees(i, k)
  BY DEF Agrees, RowsOf, InPlace, KeysOf

LEMMA BootPassesKeeps ==
    ASSUME IInv, DInv, UNCHANGED req,
           \/ BootStarts \/ BootSkipsMesh \/ BootGivesUp \/ BootReadFails
           \/ BootFinishesInterface \/ BootServes
    PROVE  DInv'
<1>1. UNCHANGED <<rows, wg, up, suspect, unsynced>> /\ boot.phase # "serving"
  BY DEF BootStarts, BootSkipsMesh, BootGivesUp, BootReadFails, BootFinishesInterface, BootServes,
         ToSync, AtInterface, IInv, ReconcileOK
<1>2. BootPending = {}
  <2>1. CASE BootFinishesInterface
    BY <2>1 DEF BootFinishesInterface, BootPending, KeysOf
  <2>2. CASE BootStarts \/ BootServes
    BY <2>2, BootNow DEF BootStarts, BootServes, BootPending, IInv, ReconcileOK
  <2>3. CASE BootSkipsMesh \/ BootGivesUp \/ BootReadFails
    BY <2>3 DEF BootSkipsMesh, BootGivesUp, BootReadFails, ToSync, AtInterface, BootPending
  <2>. QED
    BY <2>1, <2>2, <2>3
<1>3. boot'.syncing = FALSE
  <2>1. CASE BootStarts \/ BootServes
    BY <2>1 DEF BootStarts, BootServes, Off
  <2>2. \A w : [NextIface EXCEPT !.waits = w].syncing = FALSE
    BY DEF NextIface
  <2>3. CASE BootGivesUp
    BY <2>2, <2>3 DEF BootGivesUp
  <2>4. CASE BootSkipsMesh \/ BootReadFails \/ BootFinishesInterface
    BY <2>4 DEF BootSkipsMesh, BootReadFails, BootFinishesInterface, NextIface
  <2>. QED
    BY <2>1, <2>3, <2>4
<1>4. DriftIsExplained'
  BY <1>1, <1>2, AgreementStays, BootQuiet DEF DInv, DriftIsExplained
<1>5. ReconcileKnows'
  BY <1>3 DEF ReconcileKnows
<1>. QED
  BY <1>1, <1>4, <1>5, BootQuiet

LEMMA BootReadsKeeps ==
    ASSUME IInv, DInv, UNCHANGED req, BootReads
    PROVE  DInv'
<1>1. /\ boot.phase = "peers" /\ Current \in Clients \cap up /\ ~boot.syncing
      /\ UNCHANGED <<rows, wg, up>>
      /\ suspect' = {x \in suspect : x[1] # Current} /\ unsynced' = unsynced \ {Current}
  BY DEF BootReads, ToSync, AtInterface
<1>2. boot' = [phase |-> boot.phase, left |-> boot.left, syncing |-> TRUE,
               drop |-> Unwanted(Current), fix |-> Drifted(Current), waits |-> boot.waits]
  BY BootNow DEF BootReads
<1>3. Current' = Current
  BY <1>2 DEF Current
<1>4. ASSUME NEW k \in Key, k \notin Unwanted(Current), k \notin KeysOf(Drifted(Current))
      PROVE  Agrees(Current, k)
  <2>1. CASE \E r \in RowsOf(Current) : r.key = k /\ r.enabled
    <3>1. PICK r \in RowsOf(Current) : r.key = k /\ r.enabled
      BY <2>1
    <3>2. InPlace(r, wg[Current])
      BY <1>4, <3>1 DEF Drifted, KeysOf
    <3>3. \A q \in RowsOf(Current) : q.key = k => q = r
      BY <3>1, TypedNow DEF RowsOf, IsTable
    <3>. QED
      BY <3>1, <3>2, <3>3 DEF Agrees
  <2>2. CASE ~\E r \in RowsOf(Current) : r.key = k /\ r.enabled
    BY <1>4, <2>2 DEF Agrees, Unwanted
  <2>. QED
    BY <2>1, <2>2
<1>5. BootPending' = {<<Current, k>> : k \in Unwanted(Current) \cup KeysOf(Drifted(Current))}
  <2>1. boot'.syncing /\ boot'.drop = Unwanted(Current) /\ boot'.fix = Drifted(Current)
    BY <1>2
  <2>. QED
    BY <1>3, <2>1 DEF BootPending, KeysOf
<1>6. DriftIsExplained'
  <2> SUFFICES ASSUME NEW i \in Clients \cap (up' \ unsynced'), NEW k \in Key,
                      <<i, k>> \notin suspect', <<i, k>> \notin BootPending'
               PROVE  Agrees(i, k)
    BY <1>1, AgreementStays DEF DriftIsExplained
  <2>1. CASE i = Current
    BY <1>4, <1>5, <2>1
  <2>2. CASE i # Current
    <3>1. <<i, k>> \notin suspect
      BY <1>1, <2>2
    <3>2. <<i, k>> \notin InProgress \cup BootPending
      BY <1>1, BootQuiet DEF BootPending
    <3>. QED
      BY <1>1, <2>2, <3>1, <3>2 DEF DInv, DriftIsExplained
  <2>. QED
    BY <2>1, <2>2
<1>7. ReconcileKnows'
  <2>1. boot'.drop = Unwanted(Current) /\ boot'.fix = Drifted(Current)
    BY <1>2
  <2>2. \A r \in Drifted(Current) : r \in rows' /\ r.enabled /\ r.iface = Current
    BY <1>1 DEF Drifted, RowsOf
  <2>3. \A k \in Unwanted(Current) : \A r \in RowsOf(Current) : r.key = k => ~r.enabled
    BY DEF Unwanted
  <2>4. RowsOf(Current)' = RowsOf(Current)
    BY <1>1, <1>3 DEF RowsOf
  <2>. QED
    BY <1>3, <2>1, <2>2, <2>3, <2>4 DEF ReconcileKnows
<1>. QED
  BY <1>1, <1>6, <1>7, BootQuiet
(* A step of the reconcile at interface Current is about key k, and the    *)
(* kernel is as the table has it afterwards, unless the step failed.       *)
LEMMA BootSeesTo ==
    ASSUME IInv, DInv, UNCHANGED <<req, rows, up, unsynced>>, boot.syncing, boot.phase = "peers",
           NEW k \in Key, NEW i, i = Current, i = Current',
           \A j \in Iface : j # i => wg'[j] = wg[j],
           suspect \subseteq suspect',
           \A j \in Key : j # k /\ <<i, j>> \in BootPending => <<i, j>> \in BootPending',
           \A j \in Key : j # k /\ Agrees(i, j) => Agrees(i, j)',
           <<i, k>> \in suspect' \/ Agrees(i, k)',
           boot'.drop \subseteq boot.drop, boot'.fix \subseteq boot.fix
    PROVE  DInv'
<1>1. DriftIsExplained'
  <2> SUFFICES ASSUME NEW j \in Clients \cap (up \ unsynced), NEW l \in Key,
                      <<j, l>> \notin suspect', <<j, l>> \notin BootPending'
               PROVE  Agrees(j, l)'
    BY DEF DriftIsExplained
  <2>1. Agrees(j, l) \/ <<j, l>> \in BootPending
    BY BootQuiet DEF DInv, DriftIsExplained
  <2>2. CASE j = i
    BY <2>1, <2>2
  <2>3. CASE j # i
    <3>1. Agrees(j, l)
      BY <2>1, <2>3 DEF BootPending
    <3>2. RowsOf(j)' = RowsOf(j) /\ wg'[j] = wg[j]
      BY <2>3 DEF RowsOf, Clients
    <3>. QED
      BY <3>1, <3>2, AgreementOn, AgreementNext
  <2>. QED
    BY <2>2, <2>3
<1>2. ReconcileKnows'
  <2>1. \A r \in boot'.fix : r \in rows' /\ r.enabled /\ r.iface = i
    BY DEF DInv, ReconcileKnows
  <2>2. RowsOf(i)' = RowsOf(i)
    BY DEF RowsOf
  <2>3. \A l \in boot'.drop : \/ <<i, l>> \in suspect'
                              \/ \A r \in RowsOf(i) : r.key = l => ~r.enabled
    BY DEF DInv, ReconcileKnows
  <2>. QED
    BY <2>1, <2>2, <2>3 DEF ReconcileKnows
<1>. QED
  BY <1>1, <1>2, BootQuiet

LEMMA BootRemovesKeeps ==
    ASSUME IInv, DInv, UNCHANGED req, NEW k \in boot.drop, BootRemoves(k)
    PROVE  DInv'
<1>1. /\ boot.syncing /\ boot.phase = "peers" /\ Current \in Iface /\ k \in Key
      /\ UNCHANGED <<rows, up, unsynced>> /\ suspect \subseteq suspect'
  BY BootNow DEF BootRemoves, IInv, ReconcileOK, Clients
<1>2. boot' = [phase |-> boot.phase, left |-> boot.left, syncing |-> boot.syncing,
               drop |-> boot.drop \ {k}, fix |-> boot.fix, waits |-> boot.waits]
  BY BootNow DEF BootRemoves
<1>3. PICK i : i = Current
  OBVIOUS
<1>4. Current' = i /\ boot'.syncing /\ boot'.drop = boot.drop \ {k} /\ boot'.fix = boot.fix
  BY <1>1, <1>2, <1>3 DEF Current
<1> DEFINE after == AfterRemovePeer(wg[i], k)
<1>5. /\ k \notin KeysOf(after)
      /\ \A S, j : j # k => (AgreesOn(S, wg[i], j) <=> AgreesOn(S, after, j))
  <2>1. k \notin KeysOf(after)
    BY DEF AfterRemovePeer, KeysOf
  <2>. QED
    BY <2>1, RemoveKeepsOthers
<1>6. /\ \/ wg' = [wg EXCEPT ![i] = after]
         \/ wg' = [wg EXCEPT ![i] = wg[i]] /\ <<i, k>> \in suspect'
      /\ <<i, k>> \in suspect' \/ (wg' = [wg EXCEPT ![i] = after] /\ UNCHANGED suspect)
  BY <1>3 DEF BootRemoves
<1> HIDE DEF after
<1>7. /\ \A j \in Iface : j # i => wg'[j] = wg[j]
      /\ wg'[i] \in {wg[i], after}
      /\ <<i, k>> \in suspect' \/ (wg'[i] = after /\ UNCHANGED suspect)
  BY <1>1, <1>3, <1>6, TypedNow
<1>8. RowsOf(i)' = RowsOf(i)
  BY <1>1 DEF RowsOf
<1>9. ASSUME NEW j \in Key, j # k, Agrees(i, j) PROVE Agrees(i, j)'
  <2>1. AgreesOn(RowsOf(i), wg[i], j)
    BY <1>9, AgreementOn
  <2>2. AgreesOn(RowsOf(i), wg'[i], j)
    BY <1>5, <1>7, <1>9, <2>1
  <2>. QED
    BY <1>8, <2>2, AgreementNext
<1>10. <<i, k>> \in suspect' \/ Agrees(i, k)'
  <2> SUFFICES ASSUME <<i, k>> \notin suspect' PROVE Agrees(i, k)'
    OBVIOUS
  <2>1. wg'[i] = after /\ <<i, k>> \notin suspect
    BY <1>7
  <2>2. \A r \in RowsOf(i) : r.key = k => ~r.enabled
    BY <1>1, <1>3, <2>1 DEF DInv, ReconcileKnows
  <2>3. AgreesOn(RowsOf(i), wg'[i], k)
    BY <1>5, <2>1, <2>2, GoneAgrees
  <2>. QED
    BY <1>8, <2>3, AgreementNext
<1>11. \A j \in Key : j # k /\ <<i, j>> \in BootPending => <<i, j>> \in BootPending'
  <2>1. BootPending = {<<i, j>> : j \in boot.drop \cup KeysOf(boot.fix)}
    BY <1>1, <1>3 DEF BootPending
  <2>2. BootPending' = {<<i, j>> : j \in (boot.drop \ {k}) \cup KeysOf(boot.fix)}
    BY <1>4 DEF BootPending, KeysOf
  <2>. QED
    BY <2>1, <2>2
<1>. QED
  BY <1>1, <1>3, <1>4, <1>7, <1>9, <1>10, <1>11, BootSeesTo

LEMMA BootSetsKeeps ==
    ASSUME IInv, DInv, UNCHANGED req, NEW r \in boot.fix, BootSets(r)
    PROVE  DInv'
<1>1. /\ boot.syncing /\ boot.phase = "peers" /\ Current \in Clients /\ Current \in Iface
      /\ r \in Row /\ boot.drop = {}
      /\ UNCHANGED <<rows, up, unsynced>> /\ suspect \subseteq suspect'
  BY BootNow DEF BootSets, IInv, ReconcileOK, Clients
<1>2. boot' = [phase |-> boot.phase, left |-> boot.left, syncing |-> boot.syncing,
               drop |-> boot.drop, fix |-> boot.fix \ {r}, waits |-> boot.waits]
  BY BootNow DEF BootSets
<1>3. PICK i : i = Current
  OBVIOUS
<1>4. Current' = i /\ boot'.syncing /\ boot'.drop = boot.drop /\ boot'.fix = boot.fix \ {r}
  BY <1>1, <1>2, <1>3 DEF Current
<1>5. r \in rows /\ r.enabled /\ r.iface = i /\ r \in RowsOf(i)
  BY <1>1, <1>3 DEF DInv, ReconcileKnows, RowsOf
<1>6. RowsOf(i) \subseteq Row /\ wg[i] \in SUBSET KernelPeer /\ wg \in [Iface -> SUBSET KernelPeer]
  BY <1>1, <1>3, TypedNow DEF RowsOf
<1> DEFINE after == AfterSetPeer(wg[i], r.key, r.addr, r.psk)
<1>7. ASSUME NEW j \in Key, j # r.key, AgreesOn(RowsOf(i), wg[i], j)
      PROVE  AgreesOn(RowsOf(i), after, j)
  <2>1. \A q \in RowsOf(i) : q.key = j => q.addr # r.addr
    BY <1>1, <1>3, <1>5, <1>7, TypedNow DEF RowsOf, IsTable
  <2>2. r.key \in Key /\ r.addr \in Address /\ r.psk \in Psk \cup {NoPsk}
    BY <1>1 DEF Row
  <2>. QED
    BY <1>6, <1>7, <2>1, <2>2, SetKeepsOthers
<1>8. AgreesOn(RowsOf(i), after, r.key)
  <2>1. \A q \in RowsOf(i) : q.key = r.key => q = r
    BY <1>5, TypedNow DEF RowsOf, IsTable
  <2>. QED
    BY <1>5, <1>6, <2>1, SetAgrees
<1>9. /\ \/ wg' = [wg EXCEPT ![i] = after]
         \/ wg' = [wg EXCEPT ![i] = wg[i]] /\ <<i, r.key>> \in suspect'
      /\ <<i, r.key>> \in suspect' \/ wg' = [wg EXCEPT ![i] = after]
  BY <1>3 DEF BootSets
<1> HIDE DEF after
<1>10. /\ \A j \in Iface : j # i => wg'[j] = wg[j]
       /\ wg'[i] \in {wg[i], after}
       /\ <<i, r.key>> \in suspect' \/ wg'[i] = after
  BY <1>1, <1>3, <1>6, <1>9
<1>11. RowsOf(i)' = RowsOf(i)
  BY <1>1 DEF RowsOf
<1>12. ASSUME NEW j \in Key, j # r.key, Agrees(i, j) PROVE Agrees(i, j)'
  <2>1. AgreesOn(RowsOf(i), wg'[i], j)
    BY <1>7, <1>10, <1>12, AgreementOn
  <2>. QED
    BY <1>11, <2>1, AgreementNext
<1>13. <<i, r.key>> \in suspect' \/ Agrees(i, r.key)'
  BY <1>8, <1>10, <1>11, AgreementNext
<1>14. \A j \in Key : j # r.key /\ <<i, j>> \in BootPending => <<i, j>> \in BootPending'
  <2>1. BootPending = {<<i, j>> : j \in KeysOf(boot.fix)}
    BY <1>1, <1>3 DEF BootPending
  <2>2. BootPending' = {<<i, j>> : j \in KeysOf(boot.fix \ {r})}
    BY <1>1, <1>4 DEF BootPending, KeysOf
  <2>3. \A j : j # r.key /\ j \in KeysOf(boot.fix) => j \in KeysOf(boot.fix \ {r})
    BY DEF KeysOf
  <2>. QED
    BY <2>1, <2>2, <2>3
<1>15. r.key \in Key
  BY <1>1 DEF Row
<1>. QED
  BY <1>1, <1>3, <1>4, <1>10, <1>12, <1>13, <1>14, <1>15, BootSeesTo

LEMMA BootKeepsDrift ==
    ASSUME IInv, DInv, Boot
    PROVE  DInv'
  BY BootPassesKeeps, BootReadsKeeps, BootRemovesKeeps, BootSetsKeeps DEF Boot, BootProceeds
-----------------------------------------------------------------------------
(* The importer, wg-quick, and deaths.                                     *)

LEMMA ImportAddsKeeps ==
    ASSUME IInv, DInv, UNCHANGED <<wg, up, unsynced, req, boot>>, NEW x \in Row, x.key \notin FreshKey,
           rows' = rows \cup {x}, suspect' = suspect \cup {PairOf(x)}
    PROVE  DInv'
<1>1. ASSUME NEW i, NEW k, Agrees(i, k), <<i, k>> # PairOf(x) PROVE Agrees(i, k)'
  <2>1. \A r : r.key = k => (r \in RowsOf(i) <=> r \in RowsOf(i)')
    BY <1>1 DEF RowsOf, PairOf
  <2>2. AgreesOn(RowsOf(i), wg[i], k) <=> AgreesOn(RowsOf(i)', wg[i], k)
    BY <2>1, AgreementIsLocal
  <2>. QED
    BY <1>1, <2>2, AgreementOn, AgreementNext
<1>2. InProgress \subseteq InProgress' /\ BootPending' = BootPending /\ Busy' = Busy
  BY DEF InProgress, Busy, BootPending, Current, KeysOf
<1>3. DriftIsExplained'
  BY <1>1, <1>2 DEF DInv, DriftIsExplained
<1>4. OverlapsAreRaced' /\ HeldIsCurrent'
  BY <1>2 DEF DInv, OverlapsAreRaced, HeldIsCurrent
<1>5. NewKeyIsNew'
  <2>1. KeysOf(rows') = KeysOf(rows) \cup {x.key}
    BY DEF KeysOf
  <2>2. \A s \in Slot : req[s].pc = "insert" => req[s].row.key # x.key
    BY HoldsRow DEF SlotOK
  <2>. QED
    BY <1>2, <2>1, <2>2 DEF DInv, NewKeyIsNew, KeysOf
<1>6. RequestsKnow'
  BY <1>2 DEF DInv, RequestsKnow, Known, Live, PairOf, KeysOf
<1>7. ReconcileKnows'
  <2>1. Current' = Current
    BY DEF Current
  <2>2. \A k : <<Current, k>> \notin suspect' => \A r \in RowsOf(Current)' : r.key = k => r \in RowsOf(Current)
    BY <2>1 DEF RowsOf, PairOf
  <2>. QED
    BY <2>1, <2>2 DEF DInv, ReconcileKnows
<1>. QED
  BY <1>3, <1>4, <1>5, <1>6, <1>7 DEF DInv

LEMMA UnchangedKeeps ==
    ASSUME DInv, UNCHANGED <<rows, wg, up, suspect, unsynced, req, boot>>
    PROVE  DInv'
<1>1. DriftIsExplained'
  <2>1. InProgress' = InProgress /\ BootPending' = BootPending
    BY DEF InProgress, Busy, BootPending, Current, KeysOf
  <2>. QED
    BY <2>1, AgreementStays DEF DInv, DriftIsExplained
<1>2. OverlapsAreRaced' /\ HeldIsCurrent' /\ NewKeyIsNew'
  BY DEF DInv, OverlapsAreRaced, HeldIsCurrent, NewKeyIsNew, Busy, KeysOf
<1>3. RequestsKnow' /\ ReconcileKnows'
  BY DEF DInv, RequestsKnow, Known, Live, PairOf, Busy, KeysOf, ReconcileKnows, Current, RowsOf
<1>. QED
  BY <1>1, <1>2, <1>3 DEF DInv

LEMMA ImportKeepsDrift ==
    ASSUME IInv, DInv, Import
    PROVE  DInv'
<1>1. UNCHANGED <<wg, up, unsynced, req, boot>>
  BY DEF Import, ImportStarts, ImportProceeds, ImportLists, ImportInserts, ImportFinishes
<1>2. CASE UNCHANGED <<rows, suspect>>
  BY <1>1, <1>2, UnchangedKeeps
<1>3. ASSUME NEW n \in imp.todo, ImportInserts(n), rows' # rows \/ suspect' # suspect PROVE DInv'
  <2> DEFINE i == Head(imp.left)
             c == Conf[i][n]
  <2>1. i \in Iface /\ c \in Sections(i) /\ Importable(c, {})
    BY ImportNow DEF IInv, TodoOK, Sections
  <2> HIDE DEF i, c
  <2>2. PICK id \in PeerId : rows' = rows \cup {RowOf(id, i, c)} /\ suspect' = suspect \cup {<<i, c.key>>}
    BY <1>3 DEF ImportInserts, i, c
  <2>3. RowOf(id, i, c) \in Row /\ RowOf(id, i, c).key = c.key /\ RowOf(id, i, c).iface = i
    BY <2>1, ImportedTyped DEF RowOf
  <2>4. c.key \notin FreshKey
    BY <2>1, NewKeyAssumption
  <2>5. PICK x : x = RowOf(id, i, c)
    OBVIOUS
  <2>. QED
    BY <1>1, <2>2, <2>3, <2>4, <2>5, ImportAddsKeeps DEF PairOf
<1>4. UNCHANGED <<rows, suspect>> \/ \E n \in imp.todo : ImportInserts(n)
  BY DEF Import, ImportStarts, ImportProceeds, ImportLists, ImportInserts, ImportFinishes
<1>. QED
  BY <1>2, <1>3, <1>4

LEMMA LoadedIsOld ==
    ASSUME NEW i \in Iface, NEW k \in FreshKey
    PROVE  k \notin KeysOf(LoadedBy(i))
  BY NewKeyAssumption DEF KeysOf, LoadedBy

LEMMA InterfaceUpKeepsDrift ==
    ASSUME IInv, DInv, NEW i \in Iface, InterfaceUp(i)
    PROVE  DInv'
<1>1. /\ i \notin up /\ up' = up \cup {i} /\ unsynced' = unsynced \cup {i}
      /\ UNCHANGED <<rows, suspect, req, boot>>
      /\ \A j \in Iface : j # i => wg'[j] = wg[j]
      /\ wg'[i] = LoadedBy(i)
  BY TypedNow DEF InterfaceUp
<1>2. \A j : Live(j)' => Live(j) /\ j # i
  BY <1>1 DEF Live
<1>3. InProgress' = InProgress /\ BootPending' = BootPending /\ Busy' = Busy
  BY <1>1 DEF InProgress, Busy, BootPending, Current, KeysOf
<1>4. ASSUME NEW j \in Iface, j # i, NEW k, Agrees(j, k) PROVE Agrees(j, k)'
  BY <1>1, <1>4 DEF Agrees, RowsOf, InPlace, KeysOf
<1>5. DriftIsExplained'
  BY <1>1, <1>3, <1>4 DEF DInv, DriftIsExplained, Clients
<1>6. OverlapsAreRaced' /\ HeldIsCurrent'
  BY <1>1, <1>3 DEF DInv, OverlapsAreRaced, HeldIsCurrent
<1>7. NewKeyIsNew'
  <2>1. \A s \in Slot : req[s].pc = "insert" => req[s].row.key \in FreshKey
    BY HoldsRow DEF SlotOK
  <2>. QED
    BY <1>1, <1>3, <2>1, LoadedIsOld DEF DInv, NewKeyIsNew, KeysOf
<1>8. RequestsKnow'
  <2> SUFFICES ASSUME NEW s \in Busy', ~req'[s].raced PROVE Known(req[s])'
    BY DEF RequestsKnow
  <2>1. Known(req[s]) /\ req[s].pc # "idle" /\ s \in Slot
    BY <1>1, <1>3 DEF DInv, RequestsKnow, Busy, IInv, SlotsOK, SlotOK
  <2>2. req[s].row.iface \in Iface
    BY <2>1, HoldsRow DEF Row
  <2>3. req[s].row.iface # i => wg'[req[s].row.iface] = wg[req[s].row.iface]
    BY <1>1, <2>2
  <2>4. Live(req[s].row.iface)' => Live(req[s].row.iface) /\ req[s].row.iface # i
    BY <1>1 DEF Live
  <2>. QED
    BY <1>1, <2>1, <2>3, <2>4 DEF Known, PairOf, KeysOf
<1>9. ReconcileKnows'
  BY <1>1 DEF DInv, ReconcileKnows, Current, RowsOf
<1>. QED
  BY <1>5, <1>6, <1>7, <1>8, <1>9 DEF DInv

LEMMA DeathsKeepDrift ==
    ASSUME IInv, DInv, Crash \/ Reboot
    PROVE  DInv'
<1>1. /\ req' = [s \in Slot |-> Idle] /\ boot' = Off /\ UNCHANGED <<rows, unsynced>>
      /\ suspect' = suspect \cup BootPending \cup UNION {Touched(s) : s \in Busy}
      /\ up' = {} \/ UNCHANGED <<wg, up>>
  BY DEF Crash, Reboot, DaemonDies
<1>2. \A s \in Slot : req'[s] = Idle
  BY <1>1
<1>3. Busy' = {} /\ ~boot'.syncing /\ \A s \in Slot : req'[s].pc # "insert"
  BY <1>1, <1>2, IdleTyped DEF Busy, Off
<1>4. InProgress \subseteq suspect'
  <2>1. ASSUME NEW s \in Busy PROVE Touched(s) \subseteq suspect'
    BY <1>1, <2>1
  <2>2. \A s \in Busy : <<req[s].row.iface, req[s].row.key>> \in Touched(s)
    BY DEF Touched
  <2>3. \A q \in rows, s \in Busy : q.id = req[s].row.id => <<q.iface, q.key>> \in Touched(s)
    BY DEF Touched
  <2>. QED
    BY <2>1, <2>2, <2>3 DEF InProgress
<1>5. DriftIsExplained'
  BY <1>1, <1>4, AgreementStays DEF DInv, DriftIsExplained
<1>6. OverlapsAreRaced' /\ HeldIsCurrent' /\ NewKeyIsNew' /\ RequestsKnow' /\ ReconcileKnows'
  BY <1>3 DEF OverlapsAreRaced, HeldIsCurrent, NewKeyIsNew, RequestsKnow, ReconcileKnows
<1>. QED
  BY <1>5, <1>6 DEF DInv

-----------------------------------------------------------------------------
LEMMA InitIsExplained == Init => DInv
<1> SUFFICES ASSUME Init PROVE DInv
  OBVIOUS
<1>1. DriftIsExplained
  BY DEF Init, DriftIsExplained
<1>2. Busy = {} /\ ~boot.syncing /\ \A s \in Slot : req[s].pc # "insert"
  BY IdleTyped DEF Init, Busy, Off
<1>3. OverlapsAreRaced /\ HeldIsCurrent /\ NewKeyIsNew /\ RequestsKnow /\ ReconcileKnows
  BY <1>2 DEF OverlapsAreRaced, HeldIsCurrent, NewKeyIsNew, RequestsKnow, ReconcileKnows
<1>. QED
  BY <1>1, <1>3 DEF DInv

(* Kernel and database agree about every peer of a clients interface that  *)
(* is up and synced, but for those a request or the reconcile is at, and   *)
(* those an erroneous step, overlapping requests on one row id or the      *)
(* importer touched: whatever requests run at once, wherever the daemon or *)
(* the host dies, for any set of interfaces, keys and subnets.             *)
THEOREM DriftExplained == Spec => []DriftIsExplained
<1>1. Init => IInv /\ DInv
  BY InitIsOK, InitIsExplained
<1>2. IInv /\ DInv /\ [Next]_vars => IInv' /\ DInv'
  <2> SUFFICES ASSUME IInv, DInv, [Next]_vars PROVE DInv'
    BY NextKeeps
  <2>1. CASE UNCHANGED vars
    BY <2>1, UnchangedKeeps DEF vars
  <2>2. CASE Next
    BY <2>2, ApiKeepsDrift, BootKeepsDrift, ImportKeepsDrift, InterfaceUpKeepsDrift, DeathsKeepDrift
       DEF Next
  <2>. QED
    BY <2>1, <2>2
<1>3. DInv => DriftIsExplained
  BY DEF DInv
<1>. QED
  BY <1>1, <1>2, <1>3, PTL DEF Spec
=============================================================================
