------------------------------ MODULE PeerBoot ------------------------------
(***************************************************************************)
(* The peer reconcile that runDaemon performs before it serves the API     *)
(* (reconcile/peers.go, main.go): for every clients interface, wait until  *)
(* wg-quick has brought it up, read its rows, remove the kernel peers that *)
(* no enabled row wants, and set those that are missing or have drifted.   *)
(*                                                                         *)
(* Waiting is for at most 10 s an interface, out of a context of 30 s for  *)
(* the whole boot: after WaitsInContext waits that ran out, the context    *)
(* is done and no later interface can be read.                             *)
(***************************************************************************)
EXTENDS PeerTable

CONSTANT WaitsInContext    \* boot context / InterfaceWaitTimeout

ASSUME WaitsAssumption == WaitsInContext \in Nat \ {0}

VARIABLE boot
    (* phase: of the daemon; left: interfaces to come; syncing: the rows   *)
    (* and the kernel of the first of them have been read; drop, fix: keys *)
    (* to remove, rows to set; waits: waits that ran out                   *)

Off == [phase |-> "down", left |-> <<>>, syncing |-> FALSE, drop |-> {}, fix |-> {}, waits |-> 0]

BootTypeOK ==
    /\ boot \in [phase : {"down", "peers", "serving"}, left : Seq(Iface), syncing : BOOLEAN,
                 drop : SUBSET Key, fix : SUBSET Row, waits : 0..WaitsInContext]
    /\ boot.syncing => boot.left # <<>>

Current == Head(boot.left)
NextIface == [phase |-> "peers", left |-> Tail(boot.left), syncing |-> FALSE,
              drop |-> {}, fix |-> {}, waits |-> boot.waits]

(* The kernel's keys that have no enabled row.                             *)
Unwanted(i) == {k \in KeysOf(wg[i]) : ~\E r \in RowsOf(i) : r.key = k /\ r.enabled}

Drifted(i) == {r \in RowsOf(i) : r.enabled /\ ~InPlace(r, wg[i])}

(* ListInterfaces: when it fails, nothing is reconciled at all.            *)
BootStarts ==
    /\ boot.phase = "down"
    /\ \/ /\ Succeeds
          /\ boot' = [Off EXCEPT !.phase = "peers", !.left = IfaceOrder]
       \/ /\ Fails
          /\ boot' = [Off EXCEPT !.phase = "peers"]
    /\ UNCHANGED <<rows, wg, up, suspect, unsynced>>

AtInterface == boot.phase = "peers" /\ boot.left # <<>> /\ ~boot.syncing

(* Mutant: mesh interfaces are reconciled like the others.                 *)
ToSync_AllRoles == AtInterface

ToSync == AtInterface /\ Current \in Clients

BootSkipsMesh ==
    /\ AtInterface
    /\ ~ToSync
    /\ boot' = NextIface
    /\ UNCHANGED <<rows, wg, up, suspect, unsynced, spent>>

(* Mutant: an interface has no limit of its own.                           *)
BootGivesUp_ContextOnly ==
    /\ ToSync
    /\ Current \notin up
    /\ boot.waits = WaitsInContext
    /\ boot' = NextIface
    /\ UNCHANGED <<rows, wg, up, suspect, unsynced, spent>>

(* Mutant: every interface has its 10 s, whatever is left of the context.  *)
BootGivesUp_NoContext ==
    /\ ToSync
    /\ Current \notin up
    /\ boot' = [NextIface EXCEPT !.waits = @ + 1]
    /\ UNCHANGED <<rows, wg, up, suspect, unsynced, spent>>

(* waitForInterface runs out of its own 10 s or of the context.            *)
BootGivesUp ==
    /\ ToSync
    /\ Current \notin up
    /\ boot' = [NextIface EXCEPT !.waits = IF @ < WaitsInContext THEN @ + 1 ELSE @]
    /\ UNCHANGED <<rows, wg, up, suspect, unsynced, spent>>

(* The interface is up but its rows or its peers cannot be read: always so *)
(* once the context is done.                                               *)
BootReadFails ==
    /\ ToSync
    /\ Current \in up
    /\ \/ boot.waits = WaitsInContext /\ Succeeds
       \/ boot.waits < WaitsInContext /\ Fails
    /\ boot' = NextIface
    /\ UNCHANGED <<rows, wg, up, suspect, unsynced>>

(* Nothing but this loop changes the kernel now, so the two reads are one  *)
(* step.  The properties forget what they suspected of the interface.      *)
BootReads ==
    /\ ToSync
    /\ Current \in up
    /\ boot.waits < WaitsInContext
    /\ boot' = [boot EXCEPT !.syncing = TRUE, !.drop = Unwanted(Current),
                            !.fix = Drifted(Current)]
    /\ suspect' = {x \in suspect : x[1] # Current}
    /\ unsynced' = unsynced \ {Current}
    /\ UNCHANGED <<rows, wg, up, spent>>

(* Failed commands are logged and the loop goes on.                        *)
BootRemoves(k) ==
    /\ boot.syncing
    /\ k \in boot.drop
    /\ boot' = [boot EXCEPT !.drop = @ \ {k}]
    /\ \/ /\ Succeeds
          /\ wg' = [wg EXCEPT ![Current] = AfterRemovePeer(@, k)]
          /\ UNCHANGED suspect
       \/ /\ Fails
          /\ \E ps \in {wg[Current], AfterRemovePeer(wg[Current], k)} :
                wg' = [wg EXCEPT ![Current] = ps]
          /\ suspect' = suspect \cup {<<Current, k>>}
    /\ UNCHANGED <<rows, up, unsynced>>

BootSets(r) ==
    /\ boot.syncing
    /\ boot.drop = {}
    /\ r \in boot.fix
    /\ boot' = [boot EXCEPT !.fix = @ \ {r}]
    /\ \/ /\ Succeeds
          /\ wg' = [wg EXCEPT ![Current] = AfterSetPeer(@, r.key, r.addr, r.psk)]
          /\ UNCHANGED suspect
       \/ /\ Fails
          /\ \E ps \in {wg[Current], AfterSetPeer(wg[Current], r.key, r.addr, r.psk)} :
                wg' = [wg EXCEPT ![Current] = ps]
          /\ suspect' = suspect \cup {<<Current, r.key>>}
    /\ UNCHANGED <<rows, up, unsynced>>

BootFinishesInterface ==
    /\ boot.syncing
    /\ boot.drop = {} /\ boot.fix = {}
    /\ boot' = NextIface
    /\ UNCHANGED <<rows, wg, up, suspect, unsynced, spent>>

BootServes ==
    /\ boot.phase = "peers"
    /\ boot.left = <<>>
    /\ boot' = [Off EXCEPT !.phase = "serving"]
    /\ UNCHANGED <<rows, wg, up, suspect, unsynced, spent>>

BootProceeds ==
    \/ BootStarts \/ BootSkipsMesh \/ BootGivesUp \/ BootReadFails \/ BootReads
    \/ \E k \in boot.drop : BootRemoves(k)
    \/ \E r \in boot.fix : BootSets(r)
    \/ BootFinishesInterface \/ BootServes

(* Peers the reconcile has still to see to.                                *)
BootPending ==
    IF boot.syncing
    THEN {<<Current, k>> : k \in boot.drop \cup KeysOf(boot.fix)}
    ELSE {}
=============================================================================
