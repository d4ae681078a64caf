---------------------------- MODULE AddressWalk ----------------------------
(***************************************************************************)
(* The walk of NextFreeAddress and the byte arithmetic of isBroadcast      *)
(* (store/peers.go), statement by statement.  PeerTable says what the walk *)
(* finds (IsNextFree) without walking; PeerSystemMC compares the two.      *)
(*                                                                         *)
(* An address is a number of four bytes of ByteBits bits; a prefix of      *)
(* `bits` bits starts at net, a multiple of its size.                      *)
(***************************************************************************)
EXTENDS Integers, Sequences

CONSTANTS ByteBits,   \* 8 in the code
          NoneFree

ASSUME ByteBitsAssumption == ByteBits \in Nat \ {0}

AddressBits == 4 * ByteBits
SizeOf(bits) == 2 ^ (AddressBits - bits)

As4(a) == [n \in 1..4 |-> (a \div 2 ^ (ByteBits * (4 - n))) % 2 ^ ByteBits]

(* The loop over the bytes from the last to the first: byteBits of each    *)
(* are set, until hostBits are used up.                                    *)
AllOnes(bytes, hostBits) ==
    LET loop[i \in 0..4] ==
          IF i = 0 THEN [b |-> bytes, hostBits |-> hostBits]
          ELSE LET s == loop[i - 1]
                   byteBits == IF s.hostBits > ByteBits THEN ByteBits ELSE s.hostBits
               IN  IF i > 1 /\ s.hostBits <= 0 THEN s
                   ELSE [b |-> [s.b EXCEPT ![5 - i] = (@ - (@ % 2 ^ byteBits)) + 2 ^ byteBits - 1],
                         hostBits |-> s.hostBits - byteBits]
    IN  loop[4].b

IsBroadcast(a, net, bits) ==
    bits < AddressBits - 1 /\ As4(a) = AllOnes(As4(net), AddressBits - bits)

(* From .1 upwards, as long as the prefix contains the address.            *)
NextFreeAddress(net, bits, used) ==
    LET walk[ip \in net..(net + SizeOf(bits))] ==
          CASE ip = net + SizeOf(bits) -> NoneFree
            [] ip < net + SizeOf(bits) /\ ip \notin used /\ ~IsBroadcast(ip, net, bits) -> ip
            [] OTHER -> walk[ip + 1]
    IN  walk[net + 1]
=============================================================================
