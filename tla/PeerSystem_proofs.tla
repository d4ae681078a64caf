-------------------------- MODULE PeerSystem_proofs --------------------------
EXTENDS PeerSystem, TLAPS

-----------------------------------------------------------------------------
(* Operators.                                                              *)

(* A row with another id is a row.                                         *)
LEMMA RenumberedRow ==
    ASSUME NEW r \in Row, NEW n \in PeerId
    PROVE  LET x == [r EXCEPT !.id = n]
           IN  /\ x \in Row /\ x.id = n /\ x.iface = r.iface /\ x.key = r.key
               /\ x.addr = r.addr /\ x.psk = r.psk /\ x.enabled = r.enabled
  BY DEF Row

(* A row that is enabled or disabled is a row.                             *)
LEMMA ToggledRow ==
    ASSUME NEW r \in Row, NEW on \in BOOLEAN
    PROVE  LET x == [r EXCEPT !.enabled = on]
           IN  /\ x \in Row /\ x.id = r.id /\ x.iface = r.iface /\ x.key = r.key
               /\ x.addr = r.addr /\ x.psk = r.psk /\ x.enabled = on
  BY DEF Row

LEMMA SpendingTyped ==
    ASSUME spent \in [Happening -> Nat],
           \/ Succeeds \/ \E what \in Happening : Spend(what)
           \/ \E one, two \in Happening : SpendBoth(one, two)
    PROVE  spent' \in [Happening -> Nat] /\ \A what \in Happening : spent'[what] >= spent[what]
  BY DEF Succeeds, Spend, SpendBoth, Happening

(* What `wg set` leaves are kernel peers: those that were there, and k.    *)
LEMMA AfterSetTyped ==
    ASSUME NEW ps \in SUBSET KernelPeer, NEW k \in Key, NEW a \in Address, NEW s \in Psk \cup {NoPsk}
    PROVE  /\ AfterSetPeer(ps, k, a, s) \in SUBSET KernelPeer
           /\ KeysOf(AfterSetPeer(ps, k, a, s)) = KeysOf(ps) \cup {k}
<1> DEFINE Others == {[p EXCEPT !.addr = IF p.addr = a THEN NoAddr ELSE p.addr] :
                         p \in {q \in ps : q.key # k}}
           Mine == [key |-> k, addr |-> a, psk |-> IF s = NoPsk THEN PskIn(ps, k) ELSE s]
<1>1. \A p \in KernelPeer : LET x == [p EXCEPT !.addr = IF p.addr = a THEN NoAddr ELSE p.addr]
                            IN  x \in KernelPeer /\ x.key = p.key
  BY DEF KernelPeer
<1>2. PskIn(ps, k) \in Psk \cup {NoPsk}
  BY DEF PskIn, KeysOf, KernelPeer
<1>3. Mine \in KernelPeer /\ Mine.key = k
  BY <1>2 DEF KernelPeer
<1>4. Others \subseteq KernelPeer
  BY <1>1
<1>5. ASSUME NEW x PROVE x \in KeysOf(Others) <=> x \in KeysOf(ps) /\ x # k
  <2>1. x \in KeysOf(Others) <=> \E p \in {q \in ps : q.key # k} :
             [p EXCEPT !.addr = IF p.addr = a THEN NoAddr ELSE p.addr].key = x
    BY DEF KeysOf
  <2>. QED
    BY <1>1, <2>1 DEF KeysOf
<1>6. AfterSetPeer(ps, k, a, s) = Others \cup {Mine}
  BY DEF AfterSetPeer
<1>7. KeysOf(Others \cup {Mine}) = KeysOf(Others) \cup {k}
  BY <1>3 DEF KeysOf
<1>. QED
  BY <1>3, <1>4, <1>5, <1>6, <1>7

LEMMA FirstAllowedTyped ==
    ASSUME NEW c \in Section
    PROVE  FirstAllowedIP(c.allowed) \in Address \cup {NoAddr} /\ ImportAddr(c) \in Address \cup {NoAddr}
<1>1. c.allowed \in Seq(Prefix) /\ c.side \in Address \cup {NoAddr}
  BY DEF Section
<1>2. \A n \in DOMAIN c.allowed : c.allowed[n] \in Prefix
  BY <1>1
<1>3. FirstAllowedIP(c.allowed) \in Address \cup {NoAddr}
  BY <1>2 DEF FirstAllowedIP, Prefix
<1>. QED
  BY <1>1, <1>3 DEF ImportAddr

LEMMA SectionsTyped ==
    ASSUME NEW i \in Iface
    PROVE  Sections(i) \subseteq Section
  BY ConfAssumption DEF Sections

(* What wg-quick loads are kernel peers, none with a generated key.        *)
LEMMA LoadedTyped ==
    ASSUME NEW i \in Iface
    PROVE  LoadedBy(i) \in SUBSET KernelPeer /\ KeysOf(LoadedBy(i)) \cap FreshKey = {}
<1>1. ASSUME NEW c \in Sections(i), c.key # NoKey
      PROVE  LET x == [key |-> c.key, addr |-> FirstAllowedIP(c.allowed), psk |-> c.psk]
             IN  x \in KernelPeer /\ x.key \notin FreshKey
  <2>1. c \in Section
    BY SectionsTyped
  <2>. QED
    BY <1>1, <2>1, FirstAllowedTyped, NewKeyAssumption DEF Section, KernelPeer
<1>. QED
  BY <1>1 DEF LoadedBy, KeysOf

(* What the importer inserts is a row, of a key that is not generated and, *)
(* on a clients interface, with a host's address.                          *)
LEMMA ImportedTyped ==
    ASSUME NEW i \in Iface, NEW c \in Sections(i), NEW have, Importable(c, have), NEW n \in PeerId
    PROVE  /\ RowOf(n, i, c) \in Row
           /\ c.key \in Key \ FreshKey
           /\ i \in Clients => ImportAddr(c) # CatchAll
<1>1. c \in Section
  BY SectionsTyped
<1>2. ImportAddr(c) \in Address
  BY <1>1, FirstAllowedTyped DEF Importable
<1>. QED
  BY <1>1, <1>2, NewKeyAssumption, HostAddressAssumption DEF Importable, Section, RowOf, Row

-----------------------------------------------------------------------------
(* The table.                                                              *)

LEMMA InsertKeepsTable ==
    ASSUME IsTable(rows), NEW r \in Row, NEW r0, ~Conflicts(r0), NEW n \in PeerId, NextRowId(n),
           r.id = n, r0.key = r.key, r0.iface = r.iface, r0.addr = r.addr,
           r.iface \in Clients => r.addr # CatchAll
    PROVE  IsTable(rows \cup {r})
<1>1. n # 0
  BY MaxIdAssumption DEF PeerId
<1>2. \A q \in rows : q.id # n
  BY DEF NextRowId, IsTable, Row, PeerId
<1>. QED
  BY <1>1, <1>2 DEF IsTable, Conflicts

LEMMA ToggleKeepsTable ==
    ASSUME IsTable(rows), NEW r \in rows, NEW on \in BOOLEAN
    PROVE  IsTable((rows \ {r}) \cup {[r EXCEPT !.enabled = on]})
<1> DEFINE x == [r EXCEPT !.enabled = on]
<1>1. /\ x \in Row /\ x.id = r.id /\ x.iface = r.iface /\ x.key = r.key /\ x.addr = r.addr
  BY ToggledRow DEF IsTable
<1> HIDE DEF x
<1>2. IsTable((rows \ {r}) \cup {x})
  BY <1>1 DEF IsTable
<1>. QED
  BY <1>2 DEF x

LEMMA DeleteKeepsTable ==
    ASSUME IsTable(rows), NEW S \in SUBSET rows
    PROVE  IsTable(S)
  BY DEF IsTable

-----------------------------------------------------------------------------
(* The inductive invariant.                                                *)

(* A request holds a row of the table, or one to insert; only an update    *)
(* may be about a mesh interface, until it has looked.                     *)
SlotOK(q) ==
    /\ q.kind = "idle" => q = Idle
    /\ q.kind # "idle" => q.pc # "idle" /\ q.row # NoRow
    /\ q.pc = "insert" => /\ q.row.id = 0 /\ q.row.addr # CatchAll
                          /\ q.row.key \in FreshKey /\ q.row.enabled
    /\ q.pc \notin {"idle", "insert"} => q.row.id # 0
    /\ q.pc \notin {"idle", "read"} => q.row.iface \in Clients

SlotsOK == \A s \in Slot : SlotOK(req[s]) /\ (~Serving => req[s] = Idle)

(* peerMu.                                                                 *)
OneInserts == \A s, t \in Slot : req[s].pc = "insert" /\ req[t].pc = "insert" => s = t

(* The reconcile works on a clients interface that is up.                  *)
ReconcileOK ==
    IF boot.syncing THEN boot.phase = "peers" /\ Current \in Clients \cap (up \ unsynced)
    ELSE boot.drop = {} /\ boot.fix = {}

(* An interface that is down has no peers.                                 *)
DownIsEmpty == \A i \in Iface \ up : wg[i] = {}

TodoOK == \A n \in imp.todo : Importable(Conf[Head(imp.left)][n], {})

IInv == TypeOK /\ IsTable(rows) /\ SlotsOK /\ OneInserts /\ ReconcileOK /\ DownIsEmpty /\ TodoOK

-----------------------------------------------------------------------------
(* Requests.                                                               *)

(* The request in slot s takes peerMu and chooses an address: a free one,  *)
(* unless its read of the rows failed.                                     *)
Chooses(s) ==
    /\ PeerMuFree
    /\ UNCHANGED rows
    /\ \/ \A x \in RowsOf(req'[s].row.iface) : x.addr # req'[s].row.addr
       \/ spent'["faults"] # 0

(* What a step of the request in slot s may do.                            *)
ApiStep(s) ==
    /\ req' \in [Slot -> Request]
    /\ \A t \in Slot \ {s} : /\ req'[t].kind = req[t].kind /\ req'[t].pc = req[t].pc
                             /\ req'[t].row = req[t].row /\ req'[t].on = req[t].on
                             /\ req[t] = Idle => req'[t] = Idle
    /\ SlotOK(req'[s])
    /\ req'[s].pc = "insert" => Chooses(s)
    /\ IsTable(rows')
    /\ wg' \in [Iface -> SUBSET KernelPeer]
    /\ \A i \in Iface : wg'[i] # wg[i] => i \in Clients \cap up
    /\ suspect' \subseteq Iface \X Key
    /\ spent' \in [Happening -> Nat]
    /\ UNCHANGED <<up, unsynced>>

(* The records a slot holds.                                               *)
LEMMA IdleTyped == Idle \in Request /\ SlotOK(Idle) /\ Idle.pc = "idle" /\ Idle.kind = "idle"
  BY DEF Idle, Begun, Request, SlotOK

LEMMA HoldsRow ==
    ASSUME IInv, NEW s \in Slot, req[s].pc # "idle"
    PROVE  /\ req[s] \in Request /\ req[s].row \in Row /\ req[s].kind # "idle" /\ SlotOK(req[s])
           /\ s \in Busy /\ req[s] # Idle
  BY DEF IInv, TypeOK, ApiTypeOK, Request, SlotsOK, SlotOK, Idle, Begun, Busy

LEMMA EndsStep ==
    ASSUME IInv, NEW s \in Slot, Ends(s)
    PROVE  /\ req' \in [Slot -> Request]
           /\ \A t \in Slot \ {s} : req'[t] = req[t]
           /\ req'[s] = Idle
  BY IdleTyped DEF IInv, TypeOK, ApiTypeOK, Ends

LEMMA GoesStep ==
    ASSUME IInv, NEW s \in Slot, NEW pc \in {"set", "rollback", "toggle", "row"}, Goes(s, pc)
    PROVE  /\ req' \in [Slot -> Request]
           /\ \A t \in Slot \ {s} : req'[t] = req[t]
           /\ req'[s].kind = req[s].kind /\ req'[s].pc = pc /\ req'[s].row = req[s].row
           /\ req'[s].on = req[s].on /\ req'[s].raced = req[s].raced
  BY DEF IInv, TypeOK, ApiTypeOK, Request, Goes

LEMMA NamesStep ==
    ASSUME IInv, NEW s \in Slot, NEW q \in Request, Names(s, q)
    PROVE  /\ req' \in [Slot -> Request]
           /\ \A t \in Slot \ {s} :
                 /\ req'[t].kind = req[t].kind /\ req'[t].pc = req[t].pc
                 /\ req'[t].row = req[t].row /\ req'[t].on = req[t].on
                 /\ req'[t].raced <=> req[t].raced \/ t \in SameId(s, q.row.id)
                 /\ t \notin Busy => req'[t] = req[t]
           /\ req'[s].kind = q.kind /\ req'[s].pc = q.pc /\ req'[s].row = q.row
           /\ req'[s].on = q.on /\ (req'[s].raced <=> q.raced \/ SameId(s, q.row.id) # {})
  BY DEF IInv, TypeOK, ApiTypeOK, Request, Names, SameId, Busy

LEMMA TouchedTyped ==
    ASSUME IInv, NEW s \in Slot, req[s].pc # "idle"
    PROVE  Touched(s) \subseteq Iface \X Key
<1>1. req[s].row \in Row
  BY HoldsRow
<1>2. \A p \in wg[req[s].row.iface] : p.key \in Key
  BY <1>1 DEF IInv, TypeOK, TableTypeOK, Row, KernelPeer
<1>3. \A q \in rows : q.iface \in Iface /\ q.key \in Key
  BY DEF IInv, TypeOK, TableTypeOK, Row
<1>. QED
  BY <1>1, <1>2, <1>3 DEF Touched, Row

LEMMA SuspectsTyped ==
    ASSUME IInv, NEW s \in Slot, req[s].pc # "idle", Suspects(s) \/ SuspectsIfRaced(s)
    PROVE  suspect' \subseteq Iface \X Key
  BY TouchedTyped DEF Suspects, SuspectsIfRaced, IInv, TypeOK, TableTypeOK

(* The kernel commands.                                                    *)
LEMMA SetPeerStep ==
    ASSUME IInv, NEW r \in Row, SetPeerSucceeds(r) \/ SetPeerErrs(r)
    PROVE  /\ wg' \in [Iface -> SUBSET KernelPeer]
           /\ \A i \in Iface : wg'[i] # wg[i] => i = r.iface /\ i \in up
           /\ wg'[r.iface] \in {wg[r.iface], AfterSetPeer(wg[r.iface], r.key, r.addr, r.psk)}
           /\ spent' \in [Happening -> Nat]
<1> DEFINE ps == wg[r.iface]
           after == AfterSetPeer(ps, r.key, r.addr, r.psk)
<1>1. r.iface \in Iface /\ wg \in [Iface -> SUBSET KernelPeer] /\ ps \in SUBSET KernelPeer
  BY DEF Row, IInv, TypeOK, TableTypeOK
<1>2. after \in SUBSET KernelPeer
  BY <1>1, AfterSetTyped DEF Row
<1>3. \/ wg' = wg
      \/ r.iface \in up /\ wg' = [wg EXCEPT ![r.iface] = after]
      \/ r.iface \in up /\ wg' = [wg EXCEPT ![r.iface] = ps]
  BY DEF SetPeerSucceeds, SetPeerErrs
<1>4. spent' \in [Happening -> Nat]
  <2>1. Succeeds \/ Spend("faults")
    BY DEF SetPeerSucceeds, SetPeerErrs, Fails
  <2>. QED
    BY <2>1, SpendingTyped DEF Happening, IInv, TypeOK, TableTypeOK
<1> HIDE DEF after
<1>5. /\ wg' \in [Iface -> SUBSET KernelPeer]
      /\ \A i \in Iface : wg'[i] # wg[i] => i = r.iface /\ i \in up
      /\ wg'[r.iface] \in {wg[r.iface], after}
  BY <1>1, <1>2, <1>3
<1>. QED
  BY <1>4, <1>5 DEF after

LEMMA RemovePeerStep ==
    ASSUME IInv, NEW r \in Row, RemovePeerSucceeds(r) \/ RemovePeerErrs(r)
    PROVE  /\ wg' \in [Iface -> SUBSET KernelPeer]
           /\ \A i \in Iface : wg'[i] # wg[i] => i = r.iface /\ i \in up
           /\ wg'[r.iface] \in {wg[r.iface], AfterRemovePeer(wg[r.iface], r.key)}
           /\ spent' \in [Happening -> Nat]
<1>1. r.iface \in Iface /\ wg \in [Iface -> SUBSET KernelPeer]
  BY DEF Row, IInv, TypeOK, TableTypeOK
<1>2. AfterRemovePeer(wg[r.iface], r.key) \subseteq wg[r.iface]
  BY DEF AfterRemovePeer
<1>3. spent' \in [Happening -> Nat]
  <2>1. Succeeds \/ Spend("faults")
    BY DEF RemovePeerSucceeds, RemovePeerErrs, Fails
  <2>. QED
    BY <2>1, SpendingTyped DEF Happening, IInv, TypeOK, TableTypeOK
<1>. QED
  BY <1>1, <1>2, <1>3 DEF RemovePeerSucceeds, RemovePeerErrs
(* What stays the same when the table, the kernel or both are left alone.  *)
LEMMA TypedNow ==
    ASSUME IInv
    PROVE  /\ req \in [Slot -> Request] /\ wg \in [Iface -> SUBSET KernelPeer]
           /\ spent \in [Happening -> Nat] /\ suspect \subseteq Iface \X Key /\ IsTable(rows)
           /\ rows \subseteq Row
           /\ Succeeds => spent' \in [Happening -> Nat]
           /\ \A one \in Happening : Spend(one) => spent' \in [Happening -> Nat]
           /\ \A one, two \in Happening : SpendBoth(one, two) => spent' \in [Happening -> Nat]
<1>1. spent \in [Happening -> Nat]
  BY DEF IInv, TypeOK, TableTypeOK
<1>2. /\ Succeeds => spent' \in [Happening -> Nat]
      /\ \A one \in Happening : Spend(one) => spent' \in [Happening -> Nat]
      /\ \A one, two \in Happening : SpendBoth(one, two) => spent' \in [Happening -> Nat]
  BY <1>1, SpendingTyped
<1>. QED
  BY <1>1, <1>2 DEF IInv, TypeOK, TableTypeOK, ApiTypeOK

(* The step ends the request, or sends it on without another row.          *)
LEMMA EndsOrGoes ==
    ASSUME IInv, NEW s \in Slot, req[s].pc # "idle",
           \/ Ends(s)
           \/ req[s].pc \notin {"insert", "read"} /\ \E pc \in {"set", "rollback", "toggle", "row"} : Goes(s, pc),
           IsTable(rows'), wg' \in [Iface -> SUBSET KernelPeer],
           \A i \in Iface : wg'[i] # wg[i] => i \in Clients \cap up,
           suspect' \subseteq Iface \X Key, spent' \in [Happening -> Nat], UNCHANGED <<up, unsynced>>
    PROVE  ApiStep(s)
<1>1. CASE Ends(s)
  BY <1>1, EndsStep, IdleTyped DEF ApiStep
<1>2. ASSUME req[s].pc \notin {"insert", "read"},
             NEW pc \in {"set", "rollback", "toggle", "row"}, Goes(s, pc)
      PROVE  ApiStep(s)
  <2>1. req[s].row \in Row /\ req[s].kind # "idle" /\ SlotOK(req[s])
    BY HoldsRow
  <2>2. SlotOK(req'[s])
    BY <1>2, <2>1, GoesStep DEF SlotOK
  <2>. QED
    BY <1>2, <2>2, GoesStep DEF ApiStep
<1>. QED
  BY <1>1, <1>2

LEMMA CreateResolvesStep ==
    ASSUME IInv, NEW s \in Slot, NEW i \in Clients, NEW k \in FreshKey, NEW a \in Address,
           NEW p \in Psk, CreateResolves(s, i, k, a, p)
    PROVE  ApiStep(s)
<1> DEFINE r == NewRow(i, k, a, p)
           q == Begun("create", "insert", r, FALSE)
<1>1. r \in Row /\ r.id = 0 /\ r.iface = i /\ r.key = k /\ r.addr = a /\ r.enabled
  BY FreshKeyAssumption DEF NewRow, Row, Clients
<1>2. a # CatchAll
  BY SubnetAssumption
     DEF CreateResolves, IsNextFree, Candidates, ValidClientAddress, Clients
<1> HIDE DEF r
<1>3. /\ q \in Request /\ q.kind = "create" /\ q.pc = "insert" /\ q.row = r /\ q.row # NoRow
  BY <1>1, NoRowAssumption DEF Begun, Request
<1>4. q \in Request /\ SlotOK(q) /\ q.pc = "insert"
  BY <1>1, <1>2, <1>3, NoRowAssumption DEF Request, SlotOK
<1> HIDE DEF q
<1>5. req' = [req EXCEPT ![s] = q] /\ PeerMuFree /\ UNCHANGED <<rows, wg, up, suspect, unsynced>>
  BY DEF CreateResolves, q, r
<1>6. spent' \in [Happening -> Nat]
  BY TypedNow DEF CreateResolves, Happening
<1>7. req'[s] = q /\ q.row.iface = i /\ q.row.addr = a
  BY <1>1, <1>3, <1>5, TypedNow
<1>8. (\A x \in RowsOf(i) : x.addr # a) \/ SpendBoth("requests", "faults")
  BY DEF CreateResolves, IsNextFree
<1>9. SpendBoth("requests", "faults") => spent'["faults"] # 0
  BY TypedNow DEF SpendBoth, Happening
<1>10. Chooses(s)
  BY <1>5, <1>7, <1>8, <1>9 DEF Chooses
<1>. QED
  BY <1>4, <1>5, <1>6, <1>10, TypedNow DEF ApiStep

LEMMA CreateInsertsStep ==
    ASSUME IInv, NEW s \in Slot, CreateInserts(s)
    PROVE  ApiStep(s)
<1>1. /\ req[s].pc = "insert" /\ req[s] \in Request /\ req[s].row \in Row /\ SlotOK(req[s])
      /\ UNCHANGED <<wg, up, suspect, unsynced>> /\ req[s].kind # "idle"
  BY HoldsRow DEF CreateInserts
<1>2. spent' \in [Happening -> Nat]
  BY TypedNow DEF CreateInserts, Fails, Happening
<1>3. ASSUME ~Conflicts(req[s].row), NEW n \in PeerId, NextRowId(n),
             rows' = rows \cup {[req[s].row EXCEPT !.id = n]},
             Names(s, [req[s] EXCEPT !.pc = "set", !.row = [req[s].row EXCEPT !.id = n]])
      PROVE  ApiStep(s)
  <2> DEFINE r == [req[s].row EXCEPT !.id = n]
             q == [req[s] EXCEPT !.pc = "set", !.row = r]
  <2>1. r \in Row /\ r.id = n /\ r.iface = req[s].row.iface /\ r.key = req[s].row.key
        /\ r.addr = req[s].row.addr
    BY <1>1, RenumberedRow
  <2> HIDE DEF r
  <2>2. q \in Request /\ q.kind = req[s].kind /\ q.pc = "set" /\ q.row = r
    BY <1>1, <2>1 DEF Request
  <2>3. Names(s, q)
    BY <1>3 DEF q, r
  <2> HIDE DEF q
  <2>4. r.iface \in Clients /\ r.addr # CatchAll
    BY <1>1, <2>1 DEF SlotOK
  <2>5. IsTable(rows \cup {r})
    BY <1>1, <1>3, <2>1, <2>4, InsertKeepsTable, TypedNow
  <2>6. SlotOK(q) /\ n # 0
    BY <1>1, <2>1, <2>2, <2>4, NoRowAssumption DEF SlotOK, PeerId
  <2>7. SlotOK(req'[s]) /\ req'[s].pc = "set"
    BY <2>2, <2>3, <2>6, NamesStep, <1>1 DEF SlotOK
  <2>8. rows' = rows \cup {r}
    BY <1>3 DEF r
  <2>9. \A t \in Slot : req[t] = Idle => t \notin Busy
    BY DEF Busy, Idle, Begun
  <2>. QED
    BY <1>1, <1>2, <2>2, <2>3, <2>5, <2>7, <2>8, <2>9, NamesStep, TypedNow DEF ApiStep
<1>4. ASSUME Ends(s), UNCHANGED rows PROVE ApiStep(s)
  BY <1>1, <1>2, <1>4, EndsOrGoes, TypedNow
<1>. QED
  BY <1>3, <1>4 DEF CreateInserts

LEMMA CreateSetsStep ==
    ASSUME IInv, NEW s \in Slot, CreateSets(s)
    PROVE  ApiStep(s)
<1>1. req[s].pc = "set" /\ req[s].row \in Row /\ SlotOK(req[s]) /\ UNCHANGED <<rows, up, unsynced>>
  BY HoldsRow DEF CreateSets
<1>2. SetPeerSucceeds(req[s].row) \/ SetPeerErrs(req[s].row)
  BY DEF CreateSets
<1>3. /\ wg' \in [Iface -> SUBSET KernelPeer]
      /\ \A i \in Iface : wg'[i] # wg[i] => i \in Clients \cap up
      /\ spent' \in [Happening -> Nat]
  BY <1>1, <1>2, SetPeerStep DEF SlotOK
<1>4. suspect' \subseteq Iface \X Key
  BY <1>1, SuspectsTyped DEF CreateSets
<1>5. Ends(s) \/ Goes(s, "rollback")
  BY DEF CreateSets
<1>. QED
  BY <1>1, <1>3, <1>4, <1>5, EndsOrGoes, TypedNow

LEMMA CreateRollsBackStep ==
    ASSUME IInv, NEW s \in Slot, CreateRollsBack(s)
    PROVE  ApiStep(s)
<1>1. req[s].pc = "rollback" /\ UNCHANGED <<wg, up, unsynced>> /\ Ends(s)
  BY DEF CreateRollsBack
<1>2. IsTable(rows')
  BY TypedNow, DeleteKeepsTable DEF CreateRollsBack, DeleteRowById
<1>3. suspect' \subseteq Iface \X Key
  BY <1>1, SuspectsTyped DEF CreateRollsBack
<1>4. spent' \in [Happening -> Nat]
  BY TypedNow DEF CreateRollsBack, Fails, Happening
<1>. QED
  BY <1>1, <1>2, <1>3, <1>4, EndsOrGoes, TypedNow

LEMMA UpdateWritesStep ==
    ASSUME IInv, NEW s \in Slot, NEW r \in rows, NEW on \in BOOLEAN, UpdateWrites(s, r, on)
    PROVE  ApiStep(s)
<1> DEFINE x == [r EXCEPT !.enabled = on]
           q == Begun("update", "read", x, on)
<1>1. x \in Row /\ x.id = r.id /\ r.id # 0
  BY ToggledRow, TypedNow DEF IsTable
<1>2. IsTable(rows')
  BY ToggleKeepsTable, TypedNow DEF UpdateWrites
<1> HIDE DEF x
<1>3. /\ q \in Request /\ q.kind = "update" /\ q.pc = "read" /\ q.row = x /\ q.row # NoRow
  BY <1>1, NoRowAssumption DEF Begun, Request
<1>4. q \in Request /\ SlotOK(q) /\ q.pc = "read" /\ q.kind = "update" /\ q.row.id # 0 /\ q.row # NoRow
  BY <1>1, <1>3, NoRowAssumption DEF Request, SlotOK
<1>5. Names(s, q) /\ UNCHANGED <<wg, up, suspect, unsynced>>
  BY DEF UpdateWrites, x
<1> HIDE DEF q
<1>6. spent' \in [Happening -> Nat]
  BY TypedNow DEF UpdateWrites, Happening
<1>7. SlotOK(req'[s]) /\ req'[s].pc = "read"
  BY <1>4, <1>5, NamesStep DEF SlotOK
<1>8. \A t \in Slot : req[t] = Idle => t \notin Busy
  BY DEF Busy, Idle, Begun
<1>. QED
  BY <1>2, <1>4, <1>5, <1>6, <1>7, <1>8, NamesStep, TypedNow DEF ApiStep

LEMMA UpdateReadsStep ==
    ASSUME IInv, NEW s \in Slot, UpdateReads(s)
    PROVE  ApiStep(s)
<1>1. req[s].pc = "read" /\ UNCHANGED <<rows, wg, up, unsynced>> /\ req[s] \in Request
      /\ req[s].kind # "idle" /\ SlotOK(req[s])
  BY HoldsRow DEF UpdateReads
<1>2. suspect' \subseteq Iface \X Key
  BY <1>1, SuspectsTyped DEF UpdateReads
<1>3. spent' \in [Happening -> Nat]
  BY TypedNow DEF UpdateReads, Fails, Happening
<1>4. ASSUME NEW r \in rows, r.id = req[s].row.id, r.iface \in Clients,
             req' = [req EXCEPT ![s].pc = "toggle", ![s].row = r]
      PROVE  ApiStep(s)
  <2>1. r \in Row /\ r.id # 0 /\ r # NoRow
    BY TypedNow, NoRowAssumption DEF IsTable
  <2>2. /\ req' \in [Slot -> Request]
        /\ \A t \in Slot \ {s} : req'[t] = req[t]
        /\ req'[s].kind = req[s].kind /\ req'[s].pc = "toggle" /\ req'[s].row = r
    BY <1>1, <1>4, <2>1, TypedNow DEF Request
  <2>3. SlotOK(req'[s])
    BY <1>1, <1>4, <2>1, <2>2 DEF SlotOK
  <2>. QED
    BY <1>1, <1>2, <1>3, <2>2, <2>3, TypedNow DEF ApiStep
<1>5. ASSUME Ends(s) PROVE ApiStep(s)
  BY <1>1, <1>2, <1>3, <1>5, EndsOrGoes, TypedNow
<1>. QED
  BY <1>4, <1>5 DEF UpdateReads

LEMMA UpdateTogglesStep ==
    ASSUME IInv, NEW s \in Slot, UpdateToggles(s)
    PROVE  ApiStep(s)
<1>1. req[s].pc = "toggle" /\ req[s].row \in Row /\ SlotOK(req[s]) /\ UNCHANGED <<rows, up, unsynced>>
      /\ Ends(s)
  BY HoldsRow DEF UpdateToggles
<1>2. \/ SetPeerSucceeds(req[s].row) \/ SetPeerErrs(req[s].row)
      \/ RemovePeerSucceeds(req[s].row) \/ RemovePeerErrs(req[s].row)
  BY DEF UpdateToggles
<1>3. /\ wg' \in [Iface -> SUBSET KernelPeer]
      /\ \A i \in Iface : wg'[i] # wg[i] => i \in Clients \cap up
      /\ spent' \in [Happening -> Nat]
  BY <1>1, <1>2, SetPeerStep, RemovePeerStep DEF SlotOK
<1>4. suspect' \subseteq Iface \X Key
  BY <1>1, SuspectsTyped DEF UpdateToggles
<1>. QED
  BY <1>1, <1>3, <1>4, EndsOrGoes, TypedNow

LEMMA DeleteReadsStep ==
    ASSUME IInv, NEW s \in Slot, NEW r \in rows, DeleteReads(s, r)
    PROVE  ApiStep(s)
<1> DEFINE q == Begun("delete", "remove", r, FALSE)
<1>1. r \in Row /\ r.id # 0 /\ r.iface \in Clients
  BY TypedNow DEF IsTable, DeleteReads
<1>2. /\ q \in Request /\ q.kind = "delete" /\ q.pc = "remove" /\ q.row = r /\ q.row # NoRow
  BY <1>1, NoRowAssumption DEF Begun, Request
<1>3. q \in Request /\ q.pc = "remove" /\ q.kind = "delete" /\ q.row = r /\ q.row # NoRow
  BY <1>1, <1>2, NoRowAssumption DEF Request
<1>4. Names(s, q) /\ UNCHANGED <<rows, wg, up, suspect, unsynced>>
  BY DEF DeleteReads
<1> HIDE DEF q
<1>5. spent' \in [Happening -> Nat]
  BY TypedNow DEF DeleteReads, Happening
<1>6. SlotOK(req'[s]) /\ req'[s].pc = "remove"
  BY <1>1, <1>3, <1>4, NamesStep DEF SlotOK
<1>7. \A t \in Slot : req[t] = Idle => t \notin Busy
  BY DEF Busy, Idle, Begun
<1>. QED
  BY <1>3, <1>4, <1>5, <1>6, <1>7, NamesStep, TypedNow DEF ApiStep

LEMMA DeleteRemovesStep ==
    ASSUME IInv, NEW s \in Slot, DeleteRemoves(s)
    PROVE  ApiStep(s)
<1>1. req[s].pc = "remove" /\ req[s].row \in Row /\ SlotOK(req[s]) /\ UNCHANGED <<rows, up, unsynced>>
      /\ Goes(s, "row")
  BY HoldsRow DEF DeleteRemoves
<1>2. RemovePeerSucceeds(req[s].row) \/ RemovePeerErrs(req[s].row)
  BY DEF DeleteRemoves
<1>3. /\ wg' \in [Iface -> SUBSET KernelPeer]
      /\ \A i \in Iface : wg'[i] # wg[i] => i \in Clients \cap up
      /\ spent' \in [Happening -> Nat]
  BY <1>1, <1>2, RemovePeerStep DEF SlotOK
<1>4. suspect' \subseteq Iface \X Key
  BY <1>1, SuspectsTyped DEF DeleteRemoves
<1>. QED
  BY <1>1, <1>3, <1>4, EndsOrGoes, TypedNow

LEMMA DeleteDeletesStep ==
    ASSUME IInv, NEW s \in Slot, DeleteDeletes(s)
    PROVE  ApiStep(s)
<1>1. req[s].pc = "row" /\ UNCHANGED <<wg, up, unsynced>> /\ Ends(s)
  BY DEF DeleteDeletes
<1>2. IsTable(rows')
  BY TypedNow, DeleteKeepsTable DEF DeleteDeletes, DeleteRowById
<1>3. suspect' \subseteq Iface \X Key
  BY <1>1, SuspectsTyped DEF DeleteDeletes
<1>4. spent' \in [Happening -> Nat]
  BY TypedNow DEF DeleteDeletes, Fails, Happening
<1>. QED
  BY <1>1, <1>2, <1>3, <1>4, EndsOrGoes, TypedNow
LEMMA ApiSteps ==
    ASSUME IInv, Api
    PROVE  \E s \in Slot : ApiStep(s)
<1>1. CASE RequestArrives
  BY <1>1, CreateResolvesStep, UpdateWritesStep, DeleteReadsStep DEF RequestArrives
<1>2. ASSUME NEW s \in Slot, RequestProceeds(s) PROVE ApiStep(s)
  BY <1>2, CreateInsertsStep, CreateSetsStep, CreateRollsBackStep, UpdateReadsStep,
     UpdateTogglesStep, DeleteRemovesStep, DeleteDeletesStep DEF RequestProceeds
<1>. QED
  BY <1>1, <1>2 DEF Api

(* Whatever a request does keeps the invariant.                            *)
LEMMA ApiKeeps ==
    ASSUME IInv, Api
    PROVE  IInv'
<1>1. PICK s \in Slot : ApiStep(s)
  BY ApiSteps
<1>2. Serving /\ UNCHANGED <<boot, imp>> /\ UNCHANGED <<up, unsynced>>
  BY <1>1 DEF Api, ApiStep
<1>3. \A t \in Slot \ {s} : /\ req'[t].kind = req[t].kind /\ req'[t].pc = req[t].pc
                            /\ req'[t].row = req[t].row /\ req'[t].on = req[t].on
                            /\ req[t] = Idle => req'[t] = Idle
  BY <1>1 DEF ApiStep
<1>4. \A t \in Slot : SlotOK(req'[t])
  BY <1>1, <1>3 DEF ApiStep, SlotOK, IInv, SlotsOK
<1>5. SlotsOK'
  BY <1>2, <1>4 DEF SlotsOK, Serving, SlotOK, Idle, Begun
<1>6. OneInserts'
  BY <1>1, <1>3 DEF ApiStep, Chooses, OneInserts, PeerMuFree, IInv
<1>7. TableTypeOK' /\ IsTable(rows')
  BY <1>1, <1>2 DEF ApiStep, TableTypeOK, IInv, TypeOK, IsTable
<1>8. ApiTypeOK'
  BY <1>1, <1>4 DEF ApiStep, ApiTypeOK, SlotOK
<1>9. BootTypeOK' /\ ImportTypeOK' /\ ReconcileOK' /\ TodoOK'
  BY <1>2 DEF IInv, TypeOK, BootTypeOK, ImportTypeOK, ReconcileOK, TodoOK, Current
<1>10. DownIsEmpty'
  BY <1>1, <1>2 DEF ApiStep, DownIsEmpty, IInv
<1>. QED
  BY <1>5, <1>6, <1>7, <1>8, <1>9, <1>10 DEF IInv, TypeOK, IsTable

-----------------------------------------------------------------------------
(* The reconcile.                                                          *)

(* What a step of the reconcile may do.                                    *)
BootStep ==
    /\ BootTypeOK' /\ ReconcileOK'
    /\ boot.phase # "serving"
    /\ wg' \in [Iface -> SUBSET KernelPeer]
    /\ \A i \in Iface : wg'[i] # wg[i] => i \in Clients \cap up
    /\ suspect' \subseteq Iface \X Key
    /\ spent' \in [Happening -> Nat]
    /\ unsynced' \subseteq unsynced
    /\ UNCHANGED <<rows, up>>

LEMMA BootNow ==
    ASSUME IInv
    PROVE  /\ boot.phase \in {"down", "peers", "serving"} /\ boot.left \in Seq(Iface)
           /\ boot.syncing \in BOOLEAN /\ boot.drop \subseteq Key /\ boot.fix \subseteq Row
           /\ boot.waits \in 0..WaitsInContext
           /\ boot = [phase |-> boot.phase, left |-> boot.left, syncing |-> boot.syncing,
                      drop |-> boot.drop, fix |-> boot.fix, waits |-> boot.waits]
           /\ boot.syncing => boot.left # <<>>
           /\ boot.left # <<>> => Current \in Iface /\ Tail(boot.left) \in Seq(Iface)
  BY DEF IInv, TypeOK, BootTypeOK, Current

LEMMA NextIfaceIs ==
    ASSUME NEW w \in 0..WaitsInContext, NEW x,
           (x = NextIface /\ w = boot.waits) \/ x = [NextIface EXCEPT !.waits = w]
    PROVE  x = [phase |-> "peers", left |-> Tail(boot.left), syncing |-> FALSE,
                drop |-> {}, fix |-> {}, waits |-> w]
  BY DEF NextIface

LEMMA BootSkipsStep ==
    ASSUME IInv, BootSkipsMesh \/ BootGivesUp \/ BootReadFails
    PROVE  BootStep
<1>1. /\ boot.phase = "peers" /\ boot.left # <<>> /\ UNCHANGED <<rows, wg, up, suspect, unsynced>>
  BY DEF BootSkipsMesh, BootGivesUp, BootReadFails, ToSync, AtInterface
<1>2. PICK w \in 0..WaitsInContext :
         (boot' = NextIface /\ w = boot.waits) \/ boot' = [NextIface EXCEPT !.waits = w]
  <2>1. NextIface.waits = boot.waits /\ boot.waits \in 0..WaitsInContext
    BY <1>1, BootNow, NextIfaceIs
  <2>2. CASE BootGivesUp
    <3> DEFINE w == IF boot.waits < WaitsInContext THEN boot.waits + 1 ELSE boot.waits
    <3>1. w \in 0..WaitsInContext
      BY <2>1, WaitsAssumption
    <3>2. boot' = [NextIface EXCEPT !.waits = w]
      BY <2>1, <2>2 DEF BootGivesUp
    <3>. QED
      BY <3>1, <3>2
  <2>3. CASE BootSkipsMesh \/ BootReadFails
    BY <2>1, <2>3 DEF BootSkipsMesh, BootReadFails
  <2>. QED
    BY <2>2, <2>3
<1>3. boot' = [phase |-> "peers", left |-> Tail(boot.left), syncing |-> FALSE,
               drop |-> {}, fix |-> {}, waits |-> w]
  BY <1>1, <1>2, NextIfaceIs
<1>4. spent' \in [Happening -> Nat]
  BY TypedNow DEF BootSkipsMesh, BootGivesUp, BootReadFails, Succeeds, Fails, Happening
<1>5. BootTypeOK' /\ ReconcileOK'
  BY <1>1, <1>3, BootNow DEF BootTypeOK, ReconcileOK
<1>. QED
  BY <1>1, <1>4, <1>5, TypedNow DEF BootStep

LEMMA BootStartsStep ==
    ASSUME IInv, BootStarts
    PROVE  BootStep
<1>1. /\ boot.phase = "down" /\ UNCHANGED <<rows, wg, up, suspect, unsynced>>
  BY DEF BootStarts
<1>2. PICK left \in Seq(Iface) :
         boot' = [phase |-> "peers", left |-> left, syncing |-> FALSE,
                  drop |-> {}, fix |-> {}, waits |-> 0]
  <2>1. <<>> \in Seq(Iface) /\ IfaceOrder \in Seq(Iface)
    BY OrderAssumption
  <2>2. \/ boot' = [phase |-> "peers", left |-> IfaceOrder, syncing |-> FALSE,
                    drop |-> {}, fix |-> {}, waits |-> 0]
        \/ boot' = [phase |-> "peers", left |-> <<>>, syncing |-> FALSE,
                    drop |-> {}, fix |-> {}, waits |-> 0]
    BY DEF BootStarts, Off
  <2>. QED
    BY <2>1, <2>2
<1>3. spent' \in [Happening -> Nat]
  BY TypedNow DEF BootStarts, Fails, Happening
<1>4. BootTypeOK' /\ ReconcileOK'
  BY <1>1, <1>2, WaitsAssumption DEF BootTypeOK, ReconcileOK
<1>. QED
  BY <1>1, <1>3, <1>4, TypedNow DEF BootStep

LEMMA BootReadsStep ==
    ASSUME IInv, BootReads
    PROVE  BootStep
<1>1. /\ boot.phase = "peers" /\ boot.left # <<>> /\ Current \in Clients \cap up
      /\ UNCHANGED <<rows, wg, up, spent>>
  BY DEF BootReads, ToSync, AtInterface
<1>2. Unwanted(Current) \subseteq Key /\ Drifted(Current) \subseteq Row
  BY <1>1, TypedNow DEF Unwanted, Drifted, KeysOf, KernelPeer, RowsOf, Clients
<1>3. boot' = [phase |-> boot.phase, left |-> boot.left, syncing |-> TRUE,
               drop |-> Unwanted(Current), fix |-> Drifted(Current), waits |-> boot.waits]
  BY BootNow DEF BootReads
<1>4. BootTypeOK'
  BY <1>1, <1>2, <1>3, BootNow DEF BootTypeOK
<1>5. unsynced' = unsynced \ {Current} /\ Current' = Current
  BY <1>3 DEF BootReads, Current
<1>6. ReconcileOK'
  BY <1>1, <1>3, <1>5 DEF ReconcileOK
<1>7. suspect' \subseteq Iface \X Key
  BY TypedNow DEF BootReads
<1>. QED
  BY <1>1, <1>4, <1>5, <1>6, <1>7, TypedNow DEF BootStep

LEMMA BootRemovesStep ==
    ASSUME IInv, NEW k \in boot.drop, BootRemoves(k)
    PROVE  BootStep
<1>1. /\ boot.syncing /\ boot.phase = "peers" /\ Current \in Clients \cap (up \ unsynced)
      /\ Current \in Iface /\ k \in Key
      /\ UNCHANGED <<rows, up, unsynced>>
  BY BootNow DEF BootRemoves, IInv, ReconcileOK, Clients
<1>2. boot' = [phase |-> boot.phase, left |-> boot.left, syncing |-> boot.syncing,
               drop |-> boot.drop \ {k}, fix |-> boot.fix, waits |-> boot.waits]
  BY BootNow DEF BootRemoves
<1>3. BootTypeOK' /\ ReconcileOK'
  BY <1>1, <1>2, BootNow DEF BootTypeOK, ReconcileOK, Current
<1>4. AfterRemovePeer(wg[Current], k) \subseteq wg[Current]
  BY DEF AfterRemovePeer
<1>5. /\ wg' \in [Iface -> SUBSET KernelPeer]
      /\ \A i \in Iface : wg'[i] # wg[i] => i \in Clients \cap up
  BY <1>1, <1>4, TypedNow DEF BootRemoves
<1>6. suspect' \subseteq Iface \X Key /\ spent' \in [Happening -> Nat]
  BY <1>1, TypedNow DEF BootRemoves, Fails, Happening
<1>. QED
  BY <1>1, <1>3, <1>5, <1>6 DEF BootStep

LEMMA BootSetsStep ==
    ASSUME IInv, NEW r \in boot.fix, BootSets(r)
    PROVE  BootStep
<1>1. /\ boot.syncing /\ boot.phase = "peers" /\ Current \in Clients \cap (up \ unsynced)
      /\ Current \in Iface /\ r \in Row
      /\ UNCHANGED <<rows, up, unsynced>>
  BY BootNow DEF BootSets, IInv, ReconcileOK, Clients
<1>2. boot' = [phase |-> boot.phase, left |-> boot.left, syncing |-> boot.syncing,
               drop |-> boot.drop, fix |-> boot.fix \ {r}, waits |-> boot.waits]
  BY BootNow DEF BootSets
<1>3. BootTypeOK' /\ ReconcileOK'
  BY <1>1, <1>2, BootNow DEF BootTypeOK, ReconcileOK, Current
<1>4. AfterSetPeer(wg[Current], r.key, r.addr, r.psk) \in SUBSET KernelPeer
  BY <1>1, TypedNow, AfterSetTyped DEF Row
<1>5. /\ wg' \in [Iface -> SUBSET KernelPeer]
      /\ \A i \in Iface : wg'[i] # wg[i] => i \in Clients \cap up
  BY <1>1, <1>4, TypedNow DEF BootSets
<1>6. suspect' \subseteq Iface \X Key /\ spent' \in [Happening -> Nat]
  BY <1>1, TypedNow DEF BootSets, Fails, Happening, Row
<1>. QED
  BY <1>1, <1>3, <1>5, <1>6 DEF BootStep

LEMMA BootEndsStep ==
    ASSUME IInv, BootFinishesInterface \/ BootServes
    PROVE  BootStep
<1>1. UNCHANGED <<rows, wg, up, suspect, unsynced, spent>>
  BY DEF BootFinishesInterface, BootServes
<1>2. CASE BootFinishesInterface
  <2>1. boot.syncing /\ boot.phase = "peers" /\ boot.left # <<>>
    BY <1>2, BootNow DEF BootFinishesInterface, IInv, ReconcileOK
  <2>2. boot' = [phase |-> "peers", left |-> Tail(boot.left), syncing |-> FALSE,
                 drop |-> {}, fix |-> {}, waits |-> boot.waits]
    BY <1>2, <2>1, BootNow, NextIfaceIs DEF BootFinishesInterface
  <2>3. BootTypeOK' /\ ReconcileOK'
    BY <2>1, <2>2, BootNow DEF BootTypeOK, ReconcileOK
  <2>. QED
    BY <1>1, <2>1, <2>3, TypedNow DEF BootStep
<1>3. CASE BootServes
  <2>1. boot' = [phase |-> "serving", left |-> <<>>, syncing |-> FALSE,
                 drop |-> {}, fix |-> {}, waits |-> 0]
    BY <1>3 DEF BootServes, Off
  <2>2. BootTypeOK' /\ ReconcileOK'
    BY <2>1, WaitsAssumption DEF BootTypeOK, ReconcileOK
  <2>. QED
    BY <1>1, <1>3, <2>2, TypedNow DEF BootStep, BootServes
<1>. QED
  BY <1>2, <1>3

LEMMA BootSteps ==
    ASSUME IInv, BootProceeds
    PROVE  BootStep
  BY BootStartsStep, BootSkipsStep, BootReadsStep, BootRemovesStep, BootSetsStep, BootEndsStep
     DEF BootProceeds

LEMMA BootKeeps ==
    ASSUME IInv, Boot
    PROVE  IInv'
<1>1. BootStep /\ UNCHANGED <<req, imp>>
  BY BootSteps DEF Boot
<1>2. SlotsOK' /\ OneInserts'
  BY <1>1 DEF BootStep, SlotsOK, Serving, OneInserts, IInv
<1>3. TableTypeOK' /\ IsTable(rows')
  BY <1>1 DEF BootStep, TableTypeOK, IInv, TypeOK
<1>4. ApiTypeOK' /\ ImportTypeOK' /\ TodoOK'
  BY <1>1 DEF IInv, TypeOK, ApiTypeOK, ImportTypeOK, TodoOK
<1>5. DownIsEmpty'
  BY <1>1 DEF BootStep, DownIsEmpty, IInv
<1>. QED
  BY <1>1, <1>2, <1>3, <1>4, <1>5 DEF BootStep, IInv, TypeOK

-----------------------------------------------------------------------------
(* The importer.                                                           *)

LEMMA ImportNow ==
    ASSUME IInv
    PROVE  /\ imp.left \in Seq(Iface) /\ imp.todo \subseteq Nat
           /\ imp.left # <<>> => Head(imp.left) \in Iface /\ Tail(imp.left) \in Seq(Iface)
           /\ imp.todo # {} => imp.left # <<>> /\ imp.todo \subseteq DOMAIN Conf[Head(imp.left)]
  BY DEF IInv, TypeOK, ImportTypeOK

LEMMA NotImportingTyped ==
    ASSUME imp' = NotImporting
    PROVE  ImportTypeOK' /\ TodoOK'
  BY DEF NotImporting, ImportTypeOK, TodoOK

LEMMA GoesOnTyped ==
    ASSUME IInv, imp.left # <<>>, NEW todo \in SUBSET DOMAIN Conf[Head(imp.left)],
           \A n \in todo : Importable(Conf[Head(imp.left)][n], {}), GoesOn(todo)
    PROVE  ImportTypeOK' /\ TodoOK'
<1>1. Conf[Head(imp.left)] \in Seq(Section)
  BY ImportNow, ConfAssumption
<1>2. todo \subseteq Nat
  BY <1>1
<1>3. /\ imp'.running = TRUE /\ imp'.todo = todo
      /\ imp'.left = IF todo = {} THEN Tail(imp.left) ELSE imp.left
      /\ imp' = [running |-> TRUE, todo |-> todo, left |-> IF todo = {} THEN Tail(imp.left) ELSE imp.left]
  BY DEF GoesOn
<1>. QED
  BY <1>2, <1>3, ImportNow DEF ImportTypeOK, TodoOK

LEMMA ImportStep ==
    ASSUME IInv, Import
    PROVE  /\ ImportTypeOK' /\ TodoOK' /\ IsTable(rows')
           /\ suspect' \subseteq Iface \X Key /\ spent' \in [Happening -> Nat]
<1> DEFINE i == Head(imp.left)
<1>1. ASSUME ImportStarts \/ ImportLists \/ ImportFinishes
      PROVE  UNCHANGED <<rows, suspect>> /\ spent' \in [Happening -> Nat]
  BY <1>1, TypedNow DEF ImportStarts, ImportLists, ImportFinishes, Succeeds, Fails, Happening
<1>2. CASE ImportStarts
  BY <1>1, <1>2, TypedNow, OrderAssumption DEF ImportStarts, ImportTypeOK, TodoOK
<1>3. CASE ImportFinishes
  BY <1>1, <1>3, TypedNow, NotImportingTyped DEF ImportFinishes
<1>4. CASE ImportLists
  <2>1. CASE Aborts
    BY <1>1, <1>4, <2>1, TypedNow, NotImportingTyped DEF Aborts
  <2> DEFINE todo == {n \in DOMAIN Conf[i] : Importable(Conf[i][n], KeysOf(RowsOf(i)))}
  <2>2. CASE GoesOn(todo)
    <3>1. imp.left # <<>> /\ todo \subseteq DOMAIN Conf[i]
      BY <1>4 DEF ImportLists
    <3>2. \A n \in todo : Importable(Conf[i][n], {})
      BY DEF Importable
    <3> HIDE DEF todo
    <3>3. ImportTypeOK' /\ TodoOK'
      BY <2>2, <3>1, <3>2, GoesOnTyped
    <3>. QED
      BY <1>1, <1>4, <3>3, TypedNow
  <2>. QED
    BY <1>4, <2>1, <2>2 DEF ImportLists
<1>5. ASSUME NEW n \in imp.todo, ImportInserts(n)
      PROVE  /\ ImportTypeOK' /\ TodoOK' /\ IsTable(rows')
             /\ suspect' \subseteq Iface \X Key /\ spent' \in [Happening -> Nat]
  <2> DEFINE c == Conf[i][n]
  <2>1. spent' \in [Happening -> Nat]
    BY <1>5, TypedNow DEF ImportInserts, Succeeds, Fails, Happening
  <2>2. CASE Aborts /\ UNCHANGED <<rows, suspect>>
    BY <2>1, <2>2, TypedNow, NotImportingTyped DEF Aborts
  <2>3. ASSUME ~Conflicts(RowOf(0, i, c)), NEW id \in PeerId, NextRowId(id),
               rows' = rows \cup {RowOf(id, i, c)}, GoesOn(imp.todo \ {n}),
               suspect' = suspect \cup {<<i, c.key>>}
        PROVE  /\ ImportTypeOK' /\ TodoOK' /\ IsTable(rows')
               /\ suspect' \subseteq Iface \X Key /\ spent' \in [Happening -> Nat]
    <3>1. i \in Iface /\ imp.left # <<>> /\ c \in Sections(i) /\ Importable(c, {})
      BY ImportNow DEF IInv, TodoOK, Sections
    <3>2. /\ RowOf(id, i, c) \in Row /\ c.key \in Key
          /\ i \in Clients => ImportAddr(c) # CatchAll
      BY <3>1, ImportedTyped
    <3>3. /\ RowOf(id, i, c).id = id /\ RowOf(id, i, c).iface = i
          /\ RowOf(id, i, c).key = RowOf(0, i, c).key
          /\ RowOf(id, i, c).iface = RowOf(0, i, c).iface
          /\ RowOf(id, i, c).addr = RowOf(0, i, c).addr
          /\ RowOf(id, i, c).addr = ImportAddr(c)
      BY DEF RowOf
    <3> HIDE DEF c, i
    <3>4. IsTable(rows \cup {RowOf(id, i, c)})
      BY <2>3, <3>2, <3>3, InsertKeepsTable, TypedNow
    <3>5. ImportTypeOK' /\ TodoOK'
      <4>1. imp.todo \ {n} \in SUBSET DOMAIN Conf[i]
        BY ImportNow DEF i
      <4>2. \A m \in imp.todo \ {n} : Importable(Conf[i][m], {})
        BY DEF IInv, TodoOK, i
      <4>. QED
        BY <2>3, <3>1, <4>1, <4>2, GoesOnTyped DEF i
    <3>. QED
      BY <2>1, <2>3, <3>1, <3>2, <3>4, <3>5, TypedNow
  <2>. QED
    BY <1>5, <2>2, <2>3 DEF ImportInserts
<1>. QED
  BY <1>2, <1>3, <1>4, <1>5 DEF Import, ImportProceeds

LEMMA ImportKeeps ==
    ASSUME IInv, Import
    PROVE  IInv'
<1>1. UNCHANGED <<wg, up, unsynced, req, boot>>
  BY DEF Import, ImportStarts, ImportProceeds, ImportLists, ImportInserts, ImportFinishes
<1>2. TableTypeOK' /\ IsTable(rows')
  BY <1>1, ImportStep DEF IInv, TypeOK, TableTypeOK, IsTable
<1>3. ApiTypeOK' /\ BootTypeOK' /\ SlotsOK' /\ OneInserts' /\ ReconcileOK' /\ DownIsEmpty'
  BY <1>1 DEF IInv, TypeOK, ApiTypeOK, BootTypeOK, SlotsOK, Serving, OneInserts, ReconcileOK,
              DownIsEmpty, Current
<1>. QED
  BY <1>2, <1>3, ImportStep DEF IInv, TypeOK

-----------------------------------------------------------------------------
(* wg-quick, and deaths.                                                   *)

LEMMA InterfaceUpKeeps ==
    ASSUME IInv, NEW i \in Iface, InterfaceUp(i)
    PROVE  IInv'
<1>1. /\ i \notin up /\ up' = up \cup {i} /\ unsynced' = unsynced \cup {i}
      /\ wg' = [wg EXCEPT ![i] = LoadedBy(i)] /\ UNCHANGED <<rows, suspect, spent, req, boot, imp>>
  BY DEF InterfaceUp
<1>2. TableTypeOK'
  BY <1>1, LoadedTyped DEF IInv, TypeOK, TableTypeOK
<1>3. ApiTypeOK' /\ BootTypeOK' /\ ImportTypeOK' /\ IsTable(rows') /\ TodoOK' /\ SlotsOK' /\ OneInserts'
  BY <1>1 DEF IInv, TypeOK, ApiTypeOK, BootTypeOK, ImportTypeOK, TodoOK, SlotsOK, Serving, OneInserts
<1>4. ReconcileOK'
  BY <1>1 DEF IInv, ReconcileOK, Current
<1>5. DownIsEmpty'
  BY <1>1, TypedNow DEF IInv, DownIsEmpty
<1>. QED
  BY <1>1, <1>2, <1>3, <1>4, <1>5 DEF IInv, TypeOK

LEMMA DeathsKeep ==
    ASSUME IInv, Crash \/ Reboot
    PROVE  IInv'
<1>1. /\ req' = [s \in Slot |-> Idle] /\ boot' = Off /\ UNCHANGED <<rows, unsynced>>
      /\ suspect' = suspect \cup BootPending \cup UNION {Touched(s) : s \in Busy}
  BY DEF Crash, Reboot, DaemonDies
<1>2. spent' \in [Happening -> Nat]
  BY TypedNow DEF Crash, Reboot, DaemonDies, Happening
<1>3. suspect' \subseteq Iface \X Key
  <2>1. BootPending \subseteq Iface \X Key
    BY BootNow DEF BootPending, KeysOf, Row
  <2>2. \A s \in Busy : Touched(s) \subseteq Iface \X Key
    <3>1. \A s \in Busy : req[s].pc # "idle"
      BY DEF Busy, IInv, SlotsOK, SlotOK
    <3>. QED
      BY <3>1, TouchedTyped DEF Busy
  <2>. QED
    BY <1>1, <2>1, <2>2, TypedNow
<1>4. /\ wg' \in [Iface -> SUBSET KernelPeer] /\ up' \subseteq Iface
      /\ \A i \in Iface \ up' : wg'[i] = {}
  BY TypedNow DEF Crash, Reboot, IInv, TypeOK, TableTypeOK, DownIsEmpty
<1>5. ImportTypeOK' /\ TodoOK'
  <2>1. CASE UNCHANGED imp
    BY <2>1 DEF IInv, TypeOK, ImportTypeOK, TodoOK
  <2>2. CASE imp' = NotImporting
    BY <2>2, NotImportingTyped
  <2>. QED
    BY <2>1, <2>2 DEF Crash, Reboot
<1>6. ApiTypeOK' /\ SlotsOK' /\ OneInserts'
  BY <1>1, IdleTyped DEF ApiTypeOK, SlotsOK, OneInserts
<1>7. BootTypeOK' /\ ReconcileOK'
  <2>1. boot' = [phase |-> "down", left |-> <<>>, syncing |-> FALSE, drop |-> {}, fix |-> {}, waits |-> 0]
    BY <1>1 DEF Off
  <2>. QED
    BY <2>1, WaitsAssumption DEF BootTypeOK, ReconcileOK
<1>. QED
  BY <1>1, <1>2, <1>3, <1>4, <1>5, <1>6, <1>7 DEF IInv, TypeOK, TableTypeOK, DownIsEmpty, IsTable

-----------------------------------------------------------------------------
LEMMA InitIsOK == Init => IInv
<1> SUFFICES ASSUME Init PROVE IInv
  OBVIOUS
<1>1. TableTypeOK /\ IsTable(rows)
  BY InitialAssumption, LoadedTyped DEF Init, TableTypeOK, IsTable, Happening
<1>2. ApiTypeOK /\ SlotsOK /\ OneInserts
  BY IdleTyped DEF Init, ApiTypeOK, SlotsOK, OneInserts
<1>3. BootTypeOK /\ ReconcileOK
  <2>1. boot = [phase |-> "down", left |-> <<>>, syncing |-> FALSE, drop |-> {}, fix |-> {}, waits |-> 0]
    BY DEF Init, Off
  <2>. QED
    BY <2>1, WaitsAssumption DEF BootTypeOK, ReconcileOK
<1>4. ImportTypeOK /\ TodoOK
  BY DEF Init, NotImporting, ImportTypeOK, TodoOK
<1>5. DownIsEmpty
  BY DEF Init, DownIsEmpty
<1>. QED
  BY <1>1, <1>2, <1>3, <1>4, <1>5 DEF IInv, TypeOK

LEMMA NextKeeps == IInv /\ [Next]_vars => IInv'
<1> SUFFICES ASSUME IInv, [Next]_vars PROVE IInv'
  OBVIOUS
<1>1. CASE UNCHANGED vars
  BY <1>1 DEF vars, IInv, TypeOK, TableTypeOK, ApiTypeOK, BootTypeOK, ImportTypeOK, IsTable, SlotsOK,
              Serving, OneInserts, ReconcileOK, DownIsEmpty, TodoOK, Current
<1>2. CASE Next
  BY <1>2, ApiKeeps, BootKeeps, ImportKeeps, InterfaceUpKeeps, DeathsKeep DEF Next
<1>. QED
  BY <1>1, <1>2

LEMMA Invariance == Spec => []IInv
  BY InitIsOK, NextKeeps, PTL DEF Spec

(* The table, the kernel, the requests, the reconcile and the import are   *)
(* well formed in every reachable state.                                   *)
THEOREM PeersTypeCorrect == Spec => []TypeOK
<1>1. IInv => TypeOK
  BY DEF IInv
<1>. QED
  BY <1>1, Invariance, PTL

(* Nothing the agent does changes the kernel peers of a mesh interface:    *)
(* handlers and reconcile look at the role first.                          *)
THEOREM MeshIsUntouched == Spec => MeshUntouched
<1> DEFINE A == \A i \in Iface \ Clients : wg'[i] # wg[i] => (i \in up) # (i \in up')
<1>1. IInv /\ [Next]_vars => A
  <2> SUFFICES ASSUME IInv, [Next]_vars PROVE A
    OBVIOUS
  <2>1. CASE UNCHANGED vars \/ Crash \/ Import
    BY <2>1 DEF vars, Crash, Import, ImportStarts, ImportProceeds, ImportLists, ImportInserts, ImportFinishes
  <2>2. CASE Api
    <3>1. PICK s \in Slot : ApiStep(s)
      BY <2>2, ApiSteps
    <3>. QED
      BY <3>1 DEF ApiStep
  <2>3. CASE Boot
    BY <2>3, BootSteps DEF Boot, BootStep
  <2>4. CASE \E i \in Iface : InterfaceUp(i)
    BY <2>4, TypedNow DEF InterfaceUp
  <2>5. CASE Reboot
    BY <2>5, TypedNow DEF Reboot, IInv, DownIsEmpty
  <2>. QED
    BY <2>1, <2>2, <2>3, <2>4, <2>5 DEF Next
<1>. QED
  BY <1>1, Invariance, PTL DEF Spec, MeshUntouched

-----------------------------------------------------------------------------
(* The reconcile comes to an end.                                          *)

(* One interface less; or the two reads of the current one; or one key     *)
(* less to remove or one row less to set on it.                            *)
CloserToServing ==
    \/ boot.phase = "down" /\ boot'.phase = "peers"
    \/ boot'.phase = "serving"
    \/ boot.left # <<>> /\ boot'.left = Tail(boot.left)
    \/ boot'.left = boot.left /\ boot'.syncing /\ ~boot.syncing
    \/ /\ boot'.left = boot.left /\ boot'.syncing
       /\ boot'.drop \subseteq boot.drop /\ boot'.fix \subseteq boot.fix
       /\ boot'.drop # boot.drop \/ boot'.fix # boot.fix

(* Every step of the boot reconcile brings the daemon closer to serving,   *)
(* whether its command succeeds, fails or runs out of time, and nothing    *)
(* but a death of the daemon undoes a step: a reconcile that always has a  *)
(* step, as BootNeverStuck says, cannot go on for ever (reconcile.Peers).  *)
THEOREM BootMovesOn == Spec => [][boot' # boot => CloserToServing \/ boot' = Off]_vars
<1>. DEFINE Moves == boot' # boot => CloserToServing \/ boot' = Off
<1>1. IInv /\ [Next]_vars => Moves
  <2>. SUFFICES ASSUME IInv, [Next]_vars, boot' # boot, boot' # Off
                PROVE  CloserToServing
    OBVIOUS
  <2>1. BootProceeds
    BY DEF Next, Api, Boot, Import, InterfaceUp, Crash, Reboot, DaemonDies, vars
  <2>2. CASE BootStarts
    BY <2>2 DEF BootStarts, CloserToServing, Off
  <2>3. CASE BootSkipsMesh \/ BootGivesUp \/ BootReadFails \/ BootFinishesInterface
    <3>1. boot'.left = Tail(boot.left)
      BY <2>3, BootNow DEF BootSkipsMesh, BootGivesUp, BootReadFails, BootFinishesInterface, NextIface
    <3>2. boot.left # <<>>
      BY <2>3, BootNow DEF BootSkipsMesh, BootGivesUp, BootReadFails, BootFinishesInterface,
                          ToSync, AtInterface
    <3>. QED  BY <3>1, <3>2 DEF CloserToServing
  <2>4. CASE BootReads
    BY <2>4, BootNow DEF BootReads, ToSync, AtInterface, CloserToServing
  <2>5. ASSUME NEW k \in boot.drop, BootRemoves(k)
        PROVE  CloserToServing
    BY <2>5, BootNow DEF BootRemoves, CloserToServing
  <2>6. ASSUME NEW r \in boot.fix, BootSets(r)
        PROVE  CloserToServing
    BY <2>6, BootNow DEF BootSets, CloserToServing
  <2>7. CASE BootServes
    BY <2>7 DEF BootServes, CloserToServing, Off
  <2>. QED  BY <2>1, <2>2, <2>3, <2>4, <2>5, <2>6, <2>7 DEF BootProceeds
<1>. QED  BY <1>1, Invariance, PTL DEF Spec

-----------------------------------------------------------------------------
(* Allocation.                                                             *)

LEMMA SpentGrows ==
    ASSUME IInv, [Next]_vars
    PROVE  \A what \in Happening : spent[what] \in Nat /\ spent'[what] \in Nat /\ spent'[what] >= spent[what]
<1> DEFINE Paid == \/ Succeeds \/ \E what \in Happening : Spend(what)
                   \/ \E one, two \in Happening : SpendBoth(one, two)
<1>1. {"requests", "faults", "crashes", "imports"} = Happening
  BY DEF Happening
<1>2. CASE Api
  <2>1. Paid \/ RequestArrives \/ \E s \in Slot : RequestProceeds(s)
    BY <1>2 DEF Api
  <2>2. ASSUME RequestArrives PROVE Paid
    BY <1>1, <2>2 DEF RequestArrives, CreateResolves, UpdateWrites, DeleteReads
  <2>3. ASSUME NEW r, SetPeerSucceeds(r) \/ SetPeerErrs(r) \/ RemovePeerSucceeds(r) \/ RemovePeerErrs(r)
        PROVE  Paid
    BY <1>1, <2>3 DEF SetPeerSucceeds, SetPeerErrs, RemovePeerSucceeds, RemovePeerErrs, Fails
  <2>4. ASSUME NEW s \in Slot, CreateInserts(s) \/ CreateRollsBack(s) \/ UpdateReads(s) \/ DeleteDeletes(s)
        PROVE  Paid
    BY <1>1, <2>4 DEF CreateInserts, CreateRollsBack, UpdateReads, DeleteDeletes, Fails
  <2>5. ASSUME NEW s \in Slot, CreateSets(s) \/ UpdateToggles(s) \/ DeleteRemoves(s)
        PROVE  Paid
    BY <2>3, <2>5 DEF CreateSets, UpdateToggles, DeleteRemoves
  <2>6. Paid
    BY <2>1, <2>2, <2>4, <2>5 DEF RequestProceeds
  <2>. QED
    BY <2>6, TypedNow, SpendingTyped
<1>3. CASE Boot
  <2>1. Paid
    BY <1>1, <1>3 DEF Boot, BootProceeds, BootStarts, BootSkipsMesh, BootGivesUp, BootReadFails,
              BootReads, BootRemoves, BootSets, BootFinishesInterface, BootServes, Succeeds, Fails
  <2>. QED
    BY <2>1, TypedNow, SpendingTyped
<1>4. CASE Import
  <2>1. Paid
    BY <1>1, <1>4 DEF Import, ImportStarts, ImportProceeds, ImportLists, ImportInserts, ImportFinishes,
              Succeeds, Fails
  <2>. QED
    BY <2>1, TypedNow, SpendingTyped
<1>5. CASE Crash \/ Reboot \/ (\E i \in Iface : InterfaceUp(i)) \/ UNCHANGED vars
  <2>1. Paid
    BY <1>1, <1>5 DEF Crash, Reboot, DaemonDies, InterfaceUp, vars, Succeeds
  <2>. QED
    BY <2>1, TypedNow, SpendingTyped
<1>. QED
  BY <1>2, <1>3, <1>4, <1>5 DEF Next

(* The addresses of generated keys only become fewer, but for an insert.   *)
NoNewRow == \A x \in rows' : \E y \in rows : x.iface = y.iface /\ x.key = y.key /\ x.addr = y.addr

LEMMA ApiRows ==
    ASSUME IInv, Api
    PROVE  \/ NoNewRow
           \/ \E s \in Slot : req[s].pc = "insert" /\ req'[s].pc # "insert"
<1>1. ASSUME NEW s \in Slot, CreateInserts(s)
      PROVE  NoNewRow \/ (req[s].pc = "insert" /\ req'[s].pc # "insert")
  <2>1. req[s].pc = "insert" /\ req[s] \in Request
    BY <1>1, HoldsRow DEF CreateInserts
  <2>2. CASE UNCHANGED rows
    BY <2>2 DEF NoNewRow
  <2>3. ASSUME NEW n \in PeerId, NEW r \in Row, Names(s, [req[s] EXCEPT !.pc = "set", !.row = r])
        PROVE  req'[s].pc # "insert"
    <3> DEFINE q == [req[s] EXCEPT !.pc = "set", !.row = r]
    <3>1. q \in Request /\ q.pc = "set"
      BY <2>1 DEF Request
    <3> HIDE DEF q
    <3>2. Names(s, q)
      BY <2>3 DEF q
    <3>. QED
      BY <3>1, <3>2, NamesStep
  <2>4. \A n \in PeerId : [req[s].row EXCEPT !.id = n] \in Row
    BY <2>1, HoldsRow, RenumberedRow
  <2>. QED
    BY <1>1, <2>1, <2>2, <2>3, <2>4 DEF CreateInserts
<1>2. ASSUME NEW s \in Slot, NEW r \in rows, NEW on \in BOOLEAN, UpdateWrites(s, r, on)
      PROVE  NoNewRow
  <2> DEFINE x == [r EXCEPT !.enabled = on]
  <2>1. x.iface = r.iface /\ x.key = r.key /\ x.addr = r.addr
    BY ToggledRow, TypedNow
  <2>2. rows' = (rows \ {r}) \cup {x}
    BY <1>2 DEF UpdateWrites
  <2> HIDE DEF x
  <2>. QED
    BY <2>1, <2>2 DEF NoNewRow
<1>3. ASSUME NEW s \in Slot, RequestProceeds(s), ~CreateInserts(s)
      PROVE  NoNewRow
  <2>1. rows' \subseteq rows
    BY <1>3 DEF RequestProceeds, CreateSets, CreateRollsBack, UpdateReads, UpdateToggles,
              DeleteRemoves, DeleteDeletes, DeleteRowById
  <2>. QED
    BY <2>1 DEF NoNewRow
<1>4. ASSUME RequestArrives, ~\E s \in Slot, r \in rows, on \in BOOLEAN : UpdateWrites(s, r, on)
      PROVE  NoNewRow
  <2>1. rows' = rows
    BY <1>4 DEF RequestArrives, CreateResolves, DeleteReads
  <2>. QED
    BY <2>1 DEF NoNewRow
<1>. QED
  BY <1>1, <1>2, <1>3, <1>4 DEF Api

LEMMA ImportedRows ==
    ASSUME IInv, Import
    PROVE  /\ rows \subseteq rows'
           /\ \A x \in rows' \ rows : x.key \notin FreshKey
<1>1. CASE UNCHANGED rows
  BY <1>1
<1>2. ASSUME NEW n \in imp.todo, NEW id \in PeerId,
             rows' = rows \cup {RowOf(id, Head(imp.left), Conf[Head(imp.left)][n])}
      PROVE  /\ rows \subseteq rows'
             /\ \A x \in rows' \ rows : x.key \notin FreshKey
  <2> DEFINE i == Head(imp.left)
             c == Conf[i][n]
  <2>1. i \in Iface /\ c \in Sections(i) /\ Importable(c, {})
    BY ImportNow DEF IInv, TodoOK, Sections
  <2>2. RowOf(id, i, c).key \notin FreshKey
    BY <2>1, ImportedTyped DEF RowOf
  <2>. QED
    BY <1>2, <2>2
<1>3. CASE \E n \in imp.todo : ImportInserts(n)
  BY <1>1, <1>2, <1>3 DEF ImportInserts
<1>. QED
  BY <1>1, <1>3 DEF Import, ImportStarts, ImportProceeds, ImportLists, ImportFinishes

(* peerMu makes an address that was free when it was chosen still free     *)
(* when its row is inserted, whatever other requests and the importer do   *)
(* meanwhile; only an importer's row, or a read cut short, can be in the   *)
(* way of the insert.                                                      *)
THEOREM AllocatesExclusively == Spec => []AllocationIsExclusive
<1>1. Init => AllocationIsExclusive
  BY IdleTyped DEF Init, AllocationIsExclusive
<1>2. IInv /\ AllocationIsExclusive /\ [Next]_vars => AllocationIsExclusive'
  <2> SUFFICES ASSUME IInv, AllocationIsExclusive, [Next]_vars, spent'["faults"] = 0,
                      NEW t \in Slot, req'[t].pc = "insert", NEW x \in rows',
                      x.iface = req'[t].row.iface, x.addr = req'[t].row.addr
               PROVE  x.key \notin FreshKey
    BY DEF AllocationIsExclusive, RowsOf
  <2>1. spent["faults"] = 0
    BY SpentGrows DEF Happening
  <2>2. ASSUME req[t].pc = "insert", req'[t].row = req[t].row, NEW y \in rows,
               x.iface = y.iface, x.key = y.key, x.addr = y.addr
        PROVE  x.key \notin FreshKey
    BY <2>1, <2>2 DEF AllocationIsExclusive, RowsOf
  <2>3. CASE UNCHANGED <<req, rows>>
    BY <2>2, <2>3
  <2>4. CASE Import
    BY <2>2, <2>4, ImportedRows DEF Import
  <2>5. CASE Api
    <3>1. PICK s \in Slot : ApiStep(s)
      BY <2>5, ApiSteps
    <3>2. CASE t = s
      BY <3>1, <3>2 DEF ApiStep, Chooses, RowsOf
    <3>3. CASE t # s
      <4>1. req[t].pc = "insert" /\ req'[t].row = req[t].row
        BY <3>1, <3>3 DEF ApiStep
      <4>2. NoNewRow
        BY <2>5, <4>1, ApiRows DEF IInv, OneInserts
      <4>. QED
        BY <2>2, <4>1, <4>2 DEF NoNewRow
    <3>. QED
      BY <3>2, <3>3
  <2>6. CASE Crash \/ Reboot
    BY <2>6, IdleTyped DEF Crash, Reboot, DaemonDies
  <2>. QED
    BY <2>3, <2>4, <2>5, <2>6, BootSteps DEF Next, Boot, BootStep, InterfaceUp, vars
<1>. QED
  BY <1>1, <1>2, Invariance, PTL DEF Spec

-----------------------------------------------------------------------------
(* Completeness of an import.                                              *)

Done(i) == \A c \in Sections(i) : Importable(c, {}) => c.key \in KeysOf(RowsOf(i))

(* Interfaces that are not to come are done, and so is the current one but *)
(* for its sections still to insert.                                       *)
ImportSoFar ==
    spent["requests"] = 0 =>
        /\ \A s \in Slot : req[s] = Idle
        /\ imp.running =>
              /\ \A i \in Iface : Done(i) \/ \E n \in DOMAIN imp.left : imp.left[n] = i
              /\ imp.todo # {} =>
                    \A n \in DOMAIN Conf[Head(imp.left)] \ imp.todo :
                       Importable(Conf[Head(imp.left)][n], {}) =>
                          Conf[Head(imp.left)][n].key \in KeysOf(RowsOf(Head(imp.left)))

LEMMA DoneStays ==
    ASSUME rows \subseteq rows', NEW i
    PROVE  KeysOf(RowsOf(i)) \subseteq KeysOf(RowsOf(i))'
  BY DEF KeysOf, RowsOf

LEMMA PassingOn ==
    ASSUME IInv, imp.left # <<>>, GoesOn({}), NEW i \in Iface, i # Head(imp.left),
           \E n \in DOMAIN imp.left : imp.left[n] = i
    PROVE  \E n \in DOMAIN imp'.left : imp'.left[n] = i
<1>1. PICK n \in DOMAIN imp.left : imp.left[n] = i
  OBVIOUS
<1>2. imp'.left = Tail(imp.left) /\ imp.left \in Seq(Iface)
  BY ImportNow DEF GoesOn
<1>3. n \in 2..Len(imp.left)
  BY <1>1, <1>2
<1>4. n - 1 \in DOMAIN Tail(imp.left) /\ Tail(imp.left)[n - 1] = imp.left[n]
  BY <1>2, <1>3
<1>. QED
  BY <1>1, <1>2, <1>4
LEMMA SoFarKept ==
    ASSUME IInv, ImportSoFar, [Next]_vars
    PROVE  ImportSoFar'
<1> SUFFICES ASSUME spent'["requests"] = 0 PROVE ImportSoFar'
  BY DEF ImportSoFar
<1>0. PICK h : h = Head(imp.left)
  OBVIOUS
<1>1. /\ spent["requests"] = 0 /\ \A s \in Slot : req[s] = Idle
      /\ imp.running =>
            /\ \A i \in Iface : Done(i) \/ \E n \in DOMAIN imp.left : imp.left[n] = i
            /\ imp.todo # {} =>
                  \A n \in DOMAIN Conf[h] \ imp.todo :
                     Importable(Conf[h][n], {}) => Conf[h][n].key \in KeysOf(RowsOf(h))
  <2>1. spent["requests"] = 0
    BY SpentGrows DEF Happening
  <2>. QED
    BY <1>0, <2>1 DEF ImportSoFar
<1>2. CASE UNCHANGED <<imp, rows, req>>
  BY <1>0, <1>1, <1>2 DEF ImportSoFar, Done, RowsOf
<1>3. ~Api
  <2>1. \A s \in Slot : ~RequestProceeds(s)
    BY <1>1, IdleTyped DEF RequestProceeds, CreateInserts, CreateSets, CreateRollsBack, UpdateReads,
                          UpdateToggles, DeleteRemoves, DeleteDeletes
  <2>2. ~RequestArrives
    <3>1. \A one \in {"requests"}, two \in {"faults"} : ~Spend(one) /\ ~SpendBoth(one, two)
      BY <1>1, TypedNow DEF Spend, SpendBoth, Happening
    <3>. QED
      BY <3>1 DEF RequestArrives, CreateResolves, UpdateWrites, DeleteReads
  <2>. QED
    BY <2>1, <2>2 DEF Api
<1>4. CASE imp' = NotImporting /\ (UNCHANGED req \/ req' = [s \in Slot |-> Idle])
  BY <1>1, <1>4 DEF ImportSoFar, NotImporting
<1>5. CASE ImportStarts /\ UNCHANGED req
  BY <1>1, <1>5, OrderAssumption DEF ImportSoFar, ImportStarts, Done, RowsOf
<1>6. ASSUME imp.running, imp.left # <<>>, GoesOn({}), rows \subseteq rows', Done(h)', UNCHANGED req
      PROVE  ImportSoFar'
  <2>1. imp'.todo = {}
    BY <1>6 DEF GoesOn
  <2>2. ASSUME NEW i \in Iface PROVE Done(i)' \/ \E n \in DOMAIN imp'.left : imp'.left[n] = i
    <3>1. Done(i) => Done(i)'
      BY <1>6, DoneStays DEF Done
    <3>. QED
      BY <1>0, <1>1, <1>6, <3>1, PassingOn
  <2>. QED
    BY <1>1, <1>6, <2>1, <2>2 DEF ImportSoFar
<1>7. ASSUME imp.running, NEW todo, todo # {}, GoesOn(todo), rows \subseteq rows', UNCHANGED req,
             \A n \in DOMAIN Conf[h] \ todo :
                Importable(Conf[h][n], {}) => Conf[h][n].key \in KeysOf(RowsOf(h))'
      PROVE  ImportSoFar'
  <2>1. imp'.todo = todo /\ imp'.left = imp.left
    BY <1>7 DEF GoesOn
  <2>2. \A i \in Iface : Done(i) => Done(i)'
    BY <1>7, DoneStays DEF Done
  <2>. QED
    BY <1>0, <1>1, <1>7, <2>1, <2>2 DEF ImportSoFar
<1>8. CASE ImportLists /\ UNCHANGED req
  <2> DEFINE have == KeysOf(RowsOf(h))
             todo == {n \in DOMAIN Conf[h] : Importable(Conf[h][n], have)}
  <2>1. imp.running /\ imp.left # <<>> /\ UNCHANGED rows
    BY <1>8 DEF ImportLists
  <2>2. \A n \in DOMAIN Conf[h] \ todo : Importable(Conf[h][n], {}) => Conf[h][n].key \in have
    BY DEF Importable
  <2>3. KeysOf(RowsOf(h))' = have
    BY <2>1 DEF KeysOf, RowsOf
  <2>4. GoesOn(todo) \/ imp' = NotImporting
    BY <1>0, <1>8 DEF ImportLists, Aborts
  <2> HIDE DEF todo
  <2>5. CASE GoesOn(todo) /\ todo # {}
    BY <1>7, <1>8, <2>1, <2>2, <2>3, <2>5
  <2>6. CASE GoesOn(todo) /\ todo = {}
    <3>1. Done(h)'
      BY <2>2, <2>3, <2>6 DEF Done, Sections
    <3>. QED
      BY <1>6, <1>8, <2>1, <2>6, <3>1
  <2>. QED
    BY <1>4, <1>8, <2>4, <2>5, <2>6
<1>9. ASSUME NEW n \in imp.todo, ImportInserts(n), UNCHANGED req
      PROVE  ImportSoFar'
  <2> DEFINE c == Conf[h][n]
             todo == imp.todo \ {n}
  <2>1. imp.running /\ imp.left # <<>>
    BY DEF IInv, TypeOK, ImportTypeOK
  <2>2. CASE Aborts
    BY <1>4, <1>9, <2>2 DEF Aborts
  <2>3. ASSUME NEW id \in PeerId, rows' = rows \cup {RowOf(id, h, c)}, GoesOn(todo)
        PROVE  ImportSoFar'
    <3>1. c.key \in KeysOf(RowsOf(h))'
      <4> DEFINE r == RowOf(id, h, c)
      <4>1. r.iface = h /\ r.key = c.key
        BY DEF RowOf
      <4>2. r \in RowsOf(h)'
        BY <2>3, <4>1 DEF RowsOf
      <4>. QED
        BY <4>1, <4>2 DEF KeysOf
    <3>2. rows \subseteq rows'
      BY <2>3
    <3>3. \A m \in DOMAIN Conf[h] \ todo : Importable(Conf[h][m], {}) => Conf[h][m].key \in KeysOf(RowsOf(h))'
      BY <1>1, <2>1, <3>1, <3>2, DoneStays
    <3> HIDE DEF todo
    <3>4. CASE todo # {}
      BY <1>7, <1>9, <2>1, <2>3, <3>2, <3>3, <3>4
    <3>5. CASE todo = {}
      <4>1. Done(h)'
        BY <3>3, <3>5 DEF Done, Sections
      <4>. QED
        BY <1>6, <1>9, <2>1, <2>3, <3>2, <3>5, <4>1
    <3>. QED
      BY <3>4, <3>5
  <2>. QED
    BY <1>0, <1>9, <2>2, <2>3 DEF ImportInserts
<1>. QED
  <2>1. CASE Import
    BY <1>4, <1>5, <1>8, <1>9, <2>1 DEF Import, ImportProceeds, ImportFinishes
  <2>2. CASE Crash \/ Reboot
    <3>1. req' = req
      BY <1>1, <2>2 DEF Crash, Reboot, DaemonDies, IInv, TypeOK, ApiTypeOK
    <3>. QED
      BY <1>2, <1>4, <2>2, <3>1 DEF Crash, Reboot, DaemonDies
  <2>. QED
    BY <1>2, <1>3, <2>1, <2>2, BootSteps DEF Next, Boot, BootStep, InterfaceUp, vars

(* An import that ends without an error leaves every importable section    *)
(* with a row, wherever an earlier one was aborted, as long as no request  *)
(* has changed the table.                                                  *)
THEOREM ImportCompletes == Spec => ImportIsComplete
<1> DEFINE A == (ImportFinishes /\ spent["requests"] = 0)
                   => \A i \in Iface : \A c \in Sections(i) : Importable(c, {}) => c.key \in KeysOf(RowsOf(i))
<1>1. Init => ImportSoFar
  BY DEF Init, ImportSoFar, NotImporting
<1>2. ImportSoFar => A
  BY DEF ImportSoFar, ImportFinishes, Done
<1>3. IInv /\ ImportSoFar /\ [Next]_vars => ImportSoFar'
  BY SoFarKept
<1>. QED
  BY <1>1, <1>2, <1>3, Invariance, PTL DEF Spec, ImportIsComplete
=============================================================================
