----------------------------- MODULE PeerSystem -----------------------------
(***************************************************************************)
(* Everything that writes peers, together: the API's requests, the boot    *)
(* reconcile of the daemon that serves them, the importer, wg-quick, and   *)
(* deaths of the daemon and of the host.                                   *)
(***************************************************************************)
EXTENDS PeerApi, PeerBoot, PeerImport

vars == <<rows, wg, up, suspect, unsynced, spent, req, boot, imp>>

TypeOK == TableTypeOK /\ ApiTypeOK /\ BootTypeOK /\ ImportTypeOK

(* The daemon starts for the first time, over a database an earlier import *)
(* filled and with some interfaces up.                                     *)
CONSTANTS InitialRows, InitiallyUp
ASSUME InitialAssumption == IsTable(InitialRows) /\ InitiallyUp \subseteq Iface

(* No configuration file holds a key pair before it is generated.          *)
ASSUME NewKeyAssumption == \A i \in Iface : \A c \in Sections(i) : c.key \notin FreshKey

Init ==
    /\ rows = InitialRows
    /\ wg = [i \in Iface |-> IF i \in InitiallyUp THEN LoadedBy(i) ELSE {}]
    /\ up = InitiallyUp /\ unsynced = InitiallyUp
    /\ suspect = {}
    /\ spent = [what \in Happening |-> 0]
    /\ req = [s \in Slot |-> Idle]
    /\ boot = Off
    /\ imp = NotImporting

Serving == boot.phase = "serving"

Api == /\ Serving
       /\ \/ RequestArrives
          \/ \E s \in Slot : RequestProceeds(s)
       /\ UNCHANGED <<boot, imp>>

Boot == BootProceeds /\ UNCHANGED <<req, imp>>

Import == (ImportStarts \/ ImportProceeds) /\ UNCHANGED <<req, boot>>

(* wg-quick@i brings interface i up with the peers of its file.            *)
InterfaceUp(i) ==
    /\ i \notin up
    /\ up' = up \cup {i}
    /\ wg' = [wg EXCEPT ![i] = LoadedBy(i)]
    /\ unsynced' = unsynced \cup {i}
    /\ UNCHANGED <<rows, suspect, spent, req, boot, imp>>

(* The daemon dies: requests, a reconcile and peerMu die with it.          *)
DaemonDies ==
    /\ boot.phase # "down"
    /\ Spend("crashes")
    /\ req' = [s \in Slot |-> Idle]
    /\ boot' = Off
    /\ suspect' = suspect \cup BootPending \cup UNION {Touched(s) : s \in Busy}
    /\ UNCHANGED <<rows, unsynced>>

Crash == DaemonDies /\ UNCHANGED <<wg, up, imp>>

(* The host takes an import with it.                                       *)
Reboot ==
    /\ DaemonDies
    /\ wg' = [i \in Iface |-> {}]
    /\ up' = {}
    /\ imp' = NotImporting

Next == Api \/ Boot \/ Import \/ (\E i \in Iface : InterfaceUp(i)) \/ Crash \/ Reboot

Spec == Init /\ [][Next]_vars

-----------------------------------------------------------------------------
(* Under peerMu the address a create has chosen stays free until it is     *)
(* inserted: the unique index is needed against the importer and a read    *)
(* that was cut short only.                                                *)
AllocationIsExclusive ==
    spent["faults"] = 0 =>
        \A s \in Slot : req[s].pc = "insert" =>
            \A r \in RowsOf(req[s].row.iface) :
                r.addr = req[s].row.addr => r.key \notin FreshKey

(* Kernel and database agree about every peer of a clients interface that  *)
(* is up and synced, except peers a request or the reconcile is at, and    *)
(* peers some step touched that failed, overlapped another request on the  *)
(* same row id, or was the importer's.                                     *)
DriftIsExplained ==
    LET explained == suspect \cup InProgress \cup BootPending
    IN  \A i \in Clients \cap (up \ unsynced), k \in Key :
            Agrees(i, k) \/ <<i, k>> \in explained

(* The agent changes peers of clients interfaces only: those of a mesh     *)
(* interface change when it goes down or comes up.                         *)
MeshUntouched ==
    [][\A i \in Iface \ Clients : wg'[i] # wg[i] => (i \in up) # (i \in up')]_vars

(* An import that ends in success, be it the first or one that continues   *)
(* where an aborted one stopped, leaves no importable section without a    *)
(* row - as long as nobody deletes peers through the API.                  *)
ImportIsComplete ==
    [][(ImportFinishes /\ spent["requests"] = 0)
          => \A i \in Iface : \A c \in Sections(i) : Importable(c, {}) => c.key \in KeysOf(RowsOf(i))]_vars

(* Agent must not hang boot: until it serves, the daemon always has a next *)
(* step of its own, whatever wg-quick does.                                *)
BootNeverStuck == Serving \/ ENABLED Boot

(* A revoked client has no tunnel, once its request has been answered.     *)
RevokedHasNoTunnel ==
    \A r \in rows :
        (/\ ~r.enabled
         /\ r.iface \in Clients \cap (up \ unsynced)
         /\ spent["faults"] = 0 /\ spent["crashes"] = 0
         /\ <<r.iface, r.key>> \notin InProgress \cup BootPending)
            => r.key \notin KeysOf(wg[r.iface])
=============================================================================
