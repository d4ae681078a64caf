----------------------------- MODULE PeerImport -----------------------------
(***************************************************************************)
(* `wg-agent import` (importer/importer.go): a process of its own that     *)
(* brings the peers of the wg-quick configuration files into the database, *)
(* whatever the daemon is doing, and never touches the kernel.             *)
(*                                                                         *)
(* allowed: the AllowedIPs of a [Peer] section, a sequence of prefixes;    *)
(* side: the address in the client's own file under clients*/, if there    *)
(* is one.                                                                 *)
(***************************************************************************)
EXTENDS PeerTable

CONSTANTS Conf,     \* Iface -> the [Peer] sections of its file, in order
          NoKey,    \* a section without a PublicKey
          V6        \* host of an IPv6 prefix

Prefix == [bits : 0..32, host : Address \cup {V6}]
Section == [key : Key \cup {NoKey}, allowed : Seq(Prefix), psk : Psk \cup {NoPsk},
            side : Address \cup {NoAddr}]

ASSUME ConfAssumption == Conf \in [Iface -> Seq(Section)]

VARIABLE imp
    (* left: interfaces to come; todo: the sections of the first of them   *)
    (* that are still to be inserted, by number                            *)

NotImporting == [running |-> FALSE, left |-> <<>>, todo |-> {}]

ImportTypeOK ==
    /\ imp \in [running : BOOLEAN, left : Seq(Iface), todo : SUBSET Nat]
    /\ imp.todo # {} => /\ imp.running /\ imp.left # <<>>
                        /\ imp.todo \subseteq DOMAIN Conf[Head(imp.left)]

-----------------------------------------------------------------------------
(* Reading a configuration file.                                           *)

(* Exactly one prefix, and that an IPv4 host route.                        *)
IsClientPeer(allowed) ==
    Len(allowed) = 1 /\ allowed[1].host # V6 /\ allowed[1].bits = 32

(* Mesh as soon as one peer is not a client; a file without peers is taken *)
(* for clients.                                                            *)
DetectRole(sections) ==
    IF \A n \in DOMAIN sections : IsClientPeer(sections[n].allowed) THEN "clients" ELSE "mesh"

ASSUME DetectedRoleAssumption == \A i \in Iface : Role[i] = DetectRole(Conf[i])

(* The first IPv4 prefix, as it is written.                                *)
FirstAllowedIP(allowed) ==
    LET first == {n \in DOMAIN allowed : /\ allowed[n].host # V6
                                         /\ \A m \in 1..(n - 1) : allowed[m].host = V6}
    IN  IF first = {} THEN NoAddr ELSE allowed[CHOOSE n \in first : TRUE].host

(* The client's own file goes before the server's.                         *)
ImportAddr(c) == IF c.side # NoAddr THEN c.side ELSE FirstAllowedIP(c.allowed)

Sections(i) == {Conf[i][n] : n \in DOMAIN Conf[i]}

(* The address of a client, in either file, is a host's.                   *)
ASSUME HostAddressAssumption == \A i \in Clients : \A c \in Sections(i) : ImportAddr(c) # CatchAll

Importable(c, have) == c.key # NoKey /\ c.key \notin have /\ ImportAddr(c) # NoAddr

RowOf(id, i, c) == [id |-> id, iface |-> i, key |-> c.key, addr |-> ImportAddr(c),
                    psk |-> c.psk, enabled |-> TRUE]

(* What wg-quick loads.                                                    *)
LoadedBy(i) == {[key |-> c.key, addr |-> FirstAllowedIP(c.allowed), psk |-> c.psk] :
                   c \in {c \in Sections(i) : c.key # NoKey}}

-----------------------------------------------------------------------------
ImportStarts ==
    /\ ~imp.running
    /\ imp' = [running |-> TRUE, left |-> IfaceOrder, todo |-> {}]
    /\ Spend("imports")
    /\ UNCHANGED <<rows, wg, up, suspect, unsynced>>

(* The sections in `todo` are left to insert, then the next file.          *)
GoesOn(todo) ==
    imp' = [running |-> TRUE, todo |-> todo,
            left |-> IF todo = {} THEN Tail(imp.left) ELSE imp.left]

Sooner(n, todo) == \A m \in todo : n <= m

(* Mutant: a section that cannot be inserted is passed over.               *)
Aborts_Continues ==
    \/ imp.todo = {} /\ imp' = NotImporting
    \/ \E n \in imp.todo : Sooner(n, imp.todo) /\ GoesOn(imp.todo \ {n})

(* Any error ends the import.                                              *)
Aborts == imp' = NotImporting

(* UpsertInterface writes what it wrote the first time; then the rows that *)
(* are there are listed, once for the whole file, and the sections to pass *)
(* over are known.                                                         *)
ImportLists ==
    /\ imp.running
    /\ imp.todo = {}
    /\ imp.left # <<>>
    /\ LET i == Head(imp.left)
       IN  \/ /\ Succeeds
              /\ GoesOn({n \in DOMAIN Conf[i] : Importable(Conf[i][n], KeysOf(RowsOf(i)))})
           \/ Fails /\ Aborts
    /\ UNCHANGED <<rows, wg, up, suspect, unsynced>>

(* A failed insert leaves what is in, in.                                  *)
ImportInserts(n) ==
    /\ Sooner(n, imp.todo)
    /\ LET i == Head(imp.left)
           c == Conf[i][n]
           conflict == Conflicts(RowOf(0, i, c))
       IN  \/ /\ ~conflict
              /\ Succeeds
              /\ \E id \in PeerId : NextRowId(id) /\ rows' = rows \cup {RowOf(id, i, c)}
              /\ GoesOn(imp.todo \ {n})
              /\ suspect' = suspect \cup {<<i, c.key>>}
           \/ /\ IF conflict THEN Succeeds ELSE Fails
              /\ Aborts
              /\ UNCHANGED <<rows, suspect>>
    /\ UNCHANGED <<wg, up, unsynced>>

ImportFinishes ==
    /\ imp.running
    /\ imp.left = <<>>
    /\ imp' = NotImporting
    /\ UNCHANGED <<rows, wg, up, suspect, unsynced, spent>>

ImportProceeds == ImportLists \/ (\E n \in imp.todo : ImportInserts(n)) \/ ImportFinishes
=============================================================================
