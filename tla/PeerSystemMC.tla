---------------------------- MODULE PeerSystemMC ----------------------------
(***************************************************************************)
(* Small instances of PeerSystem: a clients interface with two peers in    *)
(* its file, one of them imported so far and without its preshared key (a  *)
(* row from before migration 0006), a clients interface with no room for   *)
(* peers, and a mesh interface.                                            *)
(***************************************************************************)
EXTENDS PeerSystem, AddressWalk, TLC

CONSTANTS wg0, wg1, mesh0,     \* interfaces
          c0, c1, m0, g0, g1,  \* keys: of files, of the mesh, generated
          s0, s1,              \* requests at one time
          psk, none

MCIfaceOrder == <<mesh0, wg0, wg1>>

Host(a) == <<[bits |-> 32, host |-> a]>>
MCConf == wg0 :> <<[key |-> c0, allowed |-> Host(2), psk |-> psk, side |-> none],
                   [key |-> c1, allowed |-> Host(3), psk |-> psk, side |-> none]>>
       @@ wg1 :> <<>>
       @@ mesh0 :> <<[key |-> m0, allowed |-> <<[bits |-> 0, host |-> CatchAll]>>,
                      psk |-> none, side |-> none]>>
MCRole == wg0 :> "clients" @@ wg1 :> "clients" @@ mesh0 :> "mesh"
MCSize == wg0 :> 8 @@ wg1 :> 2 @@ mesh0 :> 2
MCOwn == wg0 :> 1 @@ wg1 :> 1 @@ mesh0 :> 0

(* The walk over every network of interface i's size, whatever is used,    *)
(* finds what IsNextFree says, or nothing when there is nothing.           *)
WalkFinds(i, bits, net, used) ==
    LET found == NextFreeAddress(net, bits, {net + h : h \in used \cup {Own[i]}})
        read == {[addr |-> h] : h \in used}
    IN  IF found = NoneFree THEN \A h \in 0..SubnetSize[i] : ~IsNextFree(h, i, read)
        ELSE IsNextFree(found - net, i, read)

ASSUME WalkAssumption ==
    \A i \in Iface, bits \in 0..AddressBits :
        SizeOf(bits) = SubnetSize[i] =>
            \A n \in 0..(2 ^ bits - 1), used \in SUBSET (0..(SubnetSize[i] - 1)) :
                WalkFinds(i, bits, n * SubnetSize[i], used)

MCLimit == "requests" :> 3 @@ "faults" :> 1 @@ "crashes" :> 1 @@ "imports" :> 1
MCSymmetry == Permutations(FreshKey) \cup Permutations(Slot)

MCRows == {[id |-> 1, iface |-> mesh0, key |-> m0, addr |-> CatchAll, psk |-> none, enabled |-> TRUE],
           [id |-> 2, iface |-> wg0, key |-> c0, addr |-> 2, psk |-> none, enabled |-> TRUE]}
=============================================================================
