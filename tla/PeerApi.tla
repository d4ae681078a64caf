------------------------------ MODULE PeerApi ------------------------------
(***************************************************************************)
(* The peer handlers of the API (api/peers.go), one action per database    *)
(* statement or kernel command.  Requests run concurrently, each in a slot *)
(* of `req`; peerMu is held from the choice of an address to the insert of *)
(* its row, and by nothing else.                                           *)
(*                                                                         *)
(* A request refused before it changes anything (an unknown peer, a mesh   *)
(* interface, an address that is taken, a subnet that is full) is a step   *)
(* that changes nothing and is not written down.                           *)
(***************************************************************************)
EXTENDS PeerTable

CONSTANTS Slot,     \* requests in progress at one time
          FreshKey, \* keys wgkey.GenPair may return
          AskedAddr \* addresses clients ask for

ASSUME FreshKeyAssumption == FreshKey \subseteq Key

VARIABLE req        \* Slot -> the request it runs

(* row: what the handler holds of the peer; on: the patch's `enabled`.     *)
(* raced is remembered for the properties: another request on the same id  *)
(* was in progress at some time.                                           *)
Request == [kind : {"idle", "create", "update", "delete"},
            pc : {"idle", "insert", "set", "rollback", "read", "toggle", "remove", "row"},
            row : Row \cup {NoRow},
            on : BOOLEAN,
            raced : BOOLEAN]

Begun(kind, pc, r, on) == [kind |-> kind, pc |-> pc, row |-> r, on |-> on, raced |-> FALSE]
Idle == Begun("idle", "idle", NoRow, FALSE)

ApiTypeOK ==
    /\ req \in [Slot -> Request]
    /\ \A s \in Slot : req[s].kind # "idle" => req[s].row # NoRow

Busy == {s \in Slot : req[s].kind # "idle"}

(* Mutant: the critical section ends before the insert.                    *)
PeerMuFree_ChoiceOnly == TRUE

PeerMuFree == \A s \in Slot : req[s].pc # "insert"

-----------------------------------------------------------------------------
(* What the properties remember.                                           *)

(* The peers the next step of s can disturb: its own, whoever has its row  *)
(* id by now, and whoever holds its address in the kernel.                 *)
Touched(s) ==
    LET r == req[s].row
    IN  {<<r.iface, r.key>>}
        \cup {<<q.iface, q.key>> : q \in {q \in rows : q.id = r.id}}
        \cup {<<r.iface, p.key>> : p \in {p \in wg[r.iface] : p.addr = r.addr}}

Suspects(s) == suspect' = suspect \cup Touched(s)
SuspectsIfRaced(s) == suspect' = suspect \cup (IF req[s].raced THEN Touched(s) ELSE {})

SameId(s, id) == {t \in Busy \ {s} : req[t].row.id = id}

(* Slot s goes on as request q, which from here on names row id q.row.id.  *)
Names(s, q) ==
    req' = [t \in Slot |->
              IF t = s THEN [q EXCEPT !.raced = @ \/ SameId(s, q.row.id) # {}]
              ELSE IF t \in SameId(s, q.row.id) THEN [req[t] EXCEPT !.raced = TRUE]
              ELSE req[t]]

Goes(s, pc) == req' = [req EXCEPT ![s].pc = pc]
Ends(s) == req' = [req EXCEPT ![s] = Idle]

-----------------------------------------------------------------------------
(* POST /interfaces/{name}/peers                                           *)

(* The key pair is new: no row, no kernel and no other request has it.     *)
Unused(k) == /\ k \notin KeysOf(rows)
             /\ \A i \in Iface : k \notin KeysOf(wg[i])
             /\ \A s \in Busy : req[s].row.key # k

NewRow(i, k, a, p) ==
    [id |-> 0, iface |-> i, key |-> k, addr |-> a, psk |-> p, enabled |-> TRUE]

(* resolvePeerAddress, under peerMu: the next free address or the one      *)
(* asked for.  NextFreeAddress does not look at the error that ended its   *)
(* row loop, so a failing read makes it choose by a part of the rows.      *)
CreateResolves(s, i, k, a, p) ==
    /\ req[s] = Idle /\ Affordable("requests")
    /\ PeerMuFree
    /\ Unused(k)
    /\ \/ /\ IsNextFree(a, i, RowsOf(i))
          /\ Spend("requests")
       \/ /\ a \in AskedAddr
          /\ ValidClientAddress(a, i)
          /\ a \notin {r.addr : r \in RowsOf(i)}
          /\ Spend("requests")
       \/ /\ SpendBoth("requests", "faults")
          /\ \E read \in SUBSET RowsOf(i) : IsNextFree(a, i, read)
    /\ req' = [req EXCEPT ![s] = Begun("create", "insert", NewRow(i, k, a, p), FALSE)]
    /\ UNCHANGED <<rows, wg, up, suspect, unsynced>>

(* InsertPeer, and the end of the critical section.  A violated index is   *)
(* answered with 409.                                                      *)
CreateInserts(s) ==
    /\ req[s].pc = "insert"
    /\ \/ /\ ~Conflicts(req[s].row)
          /\ Succeeds
          /\ \E n \in PeerId :
                /\ NextRowId(n)
                /\ LET r == [req[s].row EXCEPT !.id = n]
                   IN  /\ rows' = rows \cup {r}
                       /\ Names(s, [req[s] EXCEPT !.pc = "set", !.row = r])
       \/ /\ Conflicts(req[s].row)
          /\ Succeeds
          /\ Ends(s)
          /\ UNCHANGED rows
       \/ /\ Fails
          /\ Ends(s)
          /\ UNCHANGED rows
    /\ UNCHANGED <<wg, up, suspect, unsynced>>

(* Kernel.SetPeer for row r: it succeeds; or the interface is not up; or   *)
(* it reports an error, having taken effect or not.                        *)
SetPeerSucceeds(r) ==
    /\ r.iface \in up
    /\ Succeeds
    /\ wg' = [wg EXCEPT ![r.iface] = AfterSetPeer(@, r.key, r.addr, r.psk)]

SetPeerErrs(r) ==
    \/ /\ r.iface \notin up
       /\ Succeeds
       /\ UNCHANGED wg
    \/ /\ r.iface \in up
       /\ Fails
       /\ \E ps \in {wg[r.iface], AfterSetPeer(wg[r.iface], r.key, r.addr, r.psk)} :
             wg' = [wg EXCEPT ![r.iface] = ps]

RemovePeerSucceeds(r) ==
    /\ r.iface \in up
    /\ Succeeds
    /\ wg' = [wg EXCEPT ![r.iface] = AfterRemovePeer(@, r.key)]

RemovePeerErrs(r) ==
    \/ /\ r.iface \notin up
       /\ Succeeds
       /\ UNCHANGED wg
    \/ /\ r.iface \in up
       /\ Fails
       /\ \E ps \in {wg[r.iface], AfterRemovePeer(wg[r.iface], r.key)} :
             wg' = [wg EXCEPT ![r.iface] = ps]

CreateSets(s) ==
    /\ req[s].pc = "set"
    /\ \/ /\ SetPeerSucceeds(req[s].row)
          /\ SuspectsIfRaced(s)
          /\ Ends(s)
       \/ /\ SetPeerErrs(req[s].row)
          /\ IF req[s].row.iface \in up THEN Suspects(s) ELSE SuspectsIfRaced(s)
          /\ Goes(s, "rollback")
    /\ UNCHANGED <<rows, up, unsynced>>

(* DeletePeer by id, whoever has the id now; a missing row is an error     *)
(* that is logged, like any other.                                         *)
DeleteRowById(id) == rows' = {r \in rows : r.id # id}

CreateRollsBack(s) ==
    /\ req[s].pc = "rollback"
    /\ \/ /\ Succeeds
          /\ DeleteRowById(req[s].row.id)
          /\ SuspectsIfRaced(s)
       \/ /\ Fails
          /\ UNCHANGED rows
          /\ Suspects(s)
    /\ Ends(s)
    /\ UNCHANGED <<wg, up, unsynced>>

-----------------------------------------------------------------------------
(* PATCH /peers/{id} with `enabled`                                        *)

UpdateWrites(s, r, on) ==
    /\ req[s] = Idle
    /\ Spend("requests")
    /\ r \in rows
    /\ LET written == [r EXCEPT !.enabled = on]
       IN  /\ rows' = (rows \ {r}) \cup {written}
           /\ Names(s, Begun("update", "read", written, on))
    /\ UNCHANGED <<wg, up, suspect, unsynced>>

(* Mutant: the toggle is for the database only.                            *)
UpdateReads_NoToggle(s) ==
    /\ req[s].pc = "read"
    /\ Succeeds
    /\ Ends(s)
    /\ SuspectsIfRaced(s)
    /\ UNCHANGED <<rows, wg, up, unsynced>>

(* GetPeer by id and GetInterface.  When GetPeer fails the answer is an    *)
(* error; when GetInterface fails the kernel is skipped and the answer is  *)
(* 200.                                                                    *)
UpdateReads(s) ==
    /\ req[s].pc = "read"
    /\ \/ /\ Succeeds
          /\ \E r \in rows :
                /\ r.id = req[s].row.id
                /\ IF r.iface \in Clients
                   THEN req' = [req EXCEPT ![s].pc = "toggle", ![s].row = r]
                   ELSE Ends(s)
          /\ SuspectsIfRaced(s)
       \/ /\ Succeeds
          /\ \A r \in rows : r.id # req[s].row.id
          /\ SuspectsIfRaced(s)
          /\ Ends(s)
       \/ /\ Fails
          /\ Suspects(s)
          /\ Ends(s)
    /\ UNCHANGED <<rows, wg, up, unsynced>>

UpdateToggles(s) ==
    /\ req[s].pc = "toggle"
    /\ \/ /\ IF req[s].on THEN SetPeerSucceeds(req[s].row) ELSE RemovePeerSucceeds(req[s].row)
          /\ SuspectsIfRaced(s)
       \/ /\ IF req[s].on THEN SetPeerErrs(req[s].row) ELSE RemovePeerErrs(req[s].row)
          /\ Suspects(s)
    /\ Ends(s)
    /\ UNCHANGED <<rows, up, unsynced>>

-----------------------------------------------------------------------------
(* DELETE /peers/{id}                                                      *)

DeleteReads(s, r) ==
    /\ req[s] = Idle
    /\ Spend("requests")
    /\ r \in rows
    /\ r.iface \in Clients
    /\ Names(s, Begun("delete", "remove", r, FALSE))
    /\ UNCHANGED <<rows, wg, up, suspect, unsynced>>

(* An error of RemovePeer is logged, and the row goes all the same.        *)
DeleteRemoves(s) ==
    /\ req[s].pc = "remove"
    /\ \/ /\ RemovePeerSucceeds(req[s].row)
          /\ SuspectsIfRaced(s)
       \/ /\ RemovePeerErrs(req[s].row)
          /\ Suspects(s)
    /\ Goes(s, "row")
    /\ UNCHANGED <<rows, up, unsynced>>

DeleteDeletes(s) ==
    /\ req[s].pc = "row"
    /\ \/ /\ Succeeds
          /\ DeleteRowById(req[s].row.id)
          /\ SuspectsIfRaced(s)
       \/ /\ Fails
          /\ UNCHANGED rows
          /\ Suspects(s)
    /\ Ends(s)
    /\ UNCHANGED <<wg, up, unsynced>>

-----------------------------------------------------------------------------
RequestArrives ==
    \E s \in Slot :
        \/ \E i \in Clients, k \in FreshKey, a \in Address, p \in Psk : CreateResolves(s, i, k, a, p)
        \/ \E r \in rows, on \in BOOLEAN : UpdateWrites(s, r, on)
        \/ \E r \in rows : DeleteReads(s, r)

RequestProceeds(s) ==
    \/ CreateInserts(s) \/ CreateSets(s) \/ CreateRollsBack(s)
    \/ UpdateReads(s) \/ UpdateToggles(s)
    \/ DeleteRemoves(s) \/ DeleteDeletes(s)

(* Peers a request in progress is about.                                   *)
InProgress == {<<req[s].row.iface, req[s].row.key>> : s \in Busy}
                  \cup {<<q.iface, q.key>> : q \in {q \in rows : \E s \in Busy : q.id = req[s].row.id}}
=============================================================================
