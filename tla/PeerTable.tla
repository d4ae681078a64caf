----------------------------- MODULE PeerTable -----------------------------
(***************************************************************************)
(* The two stores that must agree about WireGuard peers: the peers table   *)
(* of the database (store/peers.go) and the peers the kernel holds for     *)
(* each interface (`wg set`, kernel/real.go).  The API handlers, the boot  *)
(* reconcile and the importer, in modules of their own, change them.       *)
(*                                                                         *)
(* A row keeps the columns the kernel cares about.  An address is a host   *)
(* number within the subnet of its interface, or CatchAll for 0.0.0.0/0.   *)
(***************************************************************************)
EXTENDS Integers, Sequences

CONSTANTS
    Iface,          \* the rows of the interfaces table
    IfaceOrder,     \* those, by name: ListInterfaces, os.ReadDir
    Role,           \* Iface -> {"clients", "mesh"}
    SubnetSize,     \* Iface -> number of addresses in the subnet, a power of 2
    Own,            \* Iface -> the interface's own host number
    Key,            \* public keys
    Address,        \* host numbers in use, and CatchAll
    CatchAll,       \* 0.0.0.0/0 and ::/0
    Psk, NoPsk,     \* preshared keys, and none
    NoAddr,         \* a kernel peer without allowed-ips
    NoRow,          \* the row of a handler that has read none
    MaxId           \* bound: row ids

PeerId == 1..MaxId

ASSUME RoleAssumption == Role \in [Iface -> {"clients", "mesh"}]
ASSUME OrderAssumption == /\ IfaceOrder \in Seq(Iface)
                          /\ \A i \in Iface : \E n \in DOMAIN IfaceOrder : IfaceOrder[n] = i
ASSUME SubnetAssumption == /\ SubnetSize \in [Iface -> Nat \ {0}]
                           /\ Own \in [Iface -> Nat]
                           /\ Address \ {CatchAll} \subseteq Nat /\ CatchAll \notin Nat
ASSUME SentinelAssumption == NoAddr \notin Address /\ NoPsk \notin Psk
ASSUME MaxIdAssumption == MaxId \in Nat

Row == [id : PeerId \cup {0}, iface : Iface, key : Key, addr : Address,
        psk : Psk \cup {NoPsk}, enabled : BOOLEAN]
KernelPeer == [key : Key, addr : Address \cup {NoAddr}, psk : Psk \cup {NoPsk}]

ASSUME NoRowAssumption == NoRow \notin Row

VARIABLES
    rows,      \* the peers table
    wg,        \* Iface -> the kernel's peers
    up,        \* interfaces wg-quick has brought up
    (* what the properties remember                                        *)
    suspect,   \* <<interface, key>> an erroneous or overlapping step touched
    unsynced,  \* interfaces that came up and were not synced since
    (* the environment                                                     *)
    spent      \* how much of each bound is used up

Clients == {i \in Iface : Role[i] = "clients"}
RowsOf(i) == {r \in rows : r.iface = i}
KeysOf(S) == {x.key : x \in S}

-----------------------------------------------------------------------------
(* The table.                                                              *)

(* The two unique indexes: public_key, and (interface_id, address) except  *)
(* for the catch-all routes.                                               *)
Conflicts(r) == \E q \in rows :
    \/ q.key = r.key
    \/ q.iface = r.iface /\ q.addr = r.addr /\ r.addr # CatchAll

(* What the indexes leave possible, with host addresses for clients.       *)
IsTable(S) ==
    /\ S \subseteq Row
    /\ \A r \in S : r.id # 0 /\ (r.iface \in Clients => r.addr # CatchAll)
    /\ \A q, r \in S :
          \/ q.id = r.id
          \/ q.key = r.key
          \/ q.iface = r.iface /\ q.addr = r.addr /\ r.addr # CatchAll
          => q = r

(* INTEGER PRIMARY KEY without AUTOINCREMENT: one above the largest id in  *)
(* the table, so the id of a deleted last row is used again.               *)
NextRowId(n) == /\ \A r \in rows : r.id < n
                /\ n = 1 \/ \E r \in rows : r.id = n - 1

(* Host numbers NextFreeAddress may hand out: not the network address, not *)
(* the all-ones broadcast of a subnet wider than /31, not the own address. *)
Candidates(i) ==
    {a \in 1..(SubnetSize[i] - 1) : /\ SubnetSize[i] > 2 => a # SubnetSize[i] - 1
                                    /\ a # Own[i]}

(* The lowest candidate that none of the rows read holds.                  *)
IsNextFree(a, i, read) ==
    LET free == Candidates(i) \ {r.addr : r \in read}
    IN  a \in free /\ \A b \in free : a <= b

(* Explicit addresses: a host of the subnet other than the interface's     *)
(* own.  The network and broadcast addresses pass.                         *)
ValidClientAddress(a, i) == a \in 0..(SubnetSize[i] - 1) /\ a # Own[i]

-----------------------------------------------------------------------------
(* The kernel.                                                             *)

PskIn(ps, k) == IF k \in KeysOf(ps) THEN (CHOOSE p \in ps : p.key = k).psk ELSE NoPsk

(* `wg set I peer K allowed-ips A`: an allowed-ip has one holder, so A is  *)
(* taken from the peer that had it.  Without a preshared key to set, the   *)
(* one the kernel has stays.                                               *)
AfterSetPeer(ps, k, a, s) ==
    {[p EXCEPT !.addr = IF p.addr = a THEN NoAddr ELSE p.addr] : p \in {q \in ps : q.key # k}}
        \cup {[key |-> k, addr |-> a, psk |-> IF s = NoPsk THEN PskIn(ps, k) ELSE s]}

AfterRemovePeer(ps, k) == {p \in ps : p.key # k}

(* The kernel enforces what row r asks for.  A row without a preshared key *)
(* does not say whether the kernel should have one.                        *)
InPlace(r, ps) == \E p \in ps : p.key = r.key /\ p.addr = r.addr /\ r.psk \in {NoPsk, p.psk}

(* Interface i agrees with the table about key k: an enabled row is in     *)
(* place, and a key without an enabled row is not in the kernel.           *)
Agrees(i, k) ==
    IF \E r \in RowsOf(i) : r.key = k /\ r.enabled
    THEN \A r \in RowsOf(i) : r.key = k => InPlace(r, wg[i])
    ELSE k \notin KeysOf(wg[i])

-----------------------------------------------------------------------------
(* Outcomes of a statement or command.                                     *)

Happening == {"requests", "faults", "crashes", "imports"}

CONSTANTS Limit,     \* bound: how many requests, injected errors of the
                     \* database or the kernel, deaths of the daemon or the
                     \* host, and runs of the importer there may be
          MaxTotal   \* bound: on all of them together

ASSUME BoundsAssumption == Limit \in [Happening -> Nat] /\ MaxTotal \in Nat

Room == spent["requests"] + spent["faults"] + spent["crashes"] + spent["imports"] < MaxTotal

Affordable(what) == spent[what] < Limit[what] /\ Room

Spend(what) == /\ Affordable(what)
               /\ spent' = [spent EXCEPT ![what] = @ + 1]

SpendBoth(one, two) == /\ Affordable(one) /\ Affordable(two)
                       /\ spent' = [spent EXCEPT ![one] = @ + 1, ![two] = @ + 1]

Succeeds == UNCHANGED spent
Fails == Spend("faults")

TableTypeOK ==
    /\ rows \subseteq Row
    /\ wg \in [Iface -> SUBSET KernelPeer]
    /\ up \subseteq Iface
    /\ suspect \subseteq Iface \X Key
    /\ unsynced \subseteq Iface
    /\ spent \in [Happening -> Nat]
=============================================================================
