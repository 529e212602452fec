----------------------------- MODULE WakeNetwork -----------------------------
(***************************************************************************)
(* Where a magic packet goes: ValidateBroadcast and CIDRToBroadcast        *)
(* (internal/wol/wol.go).  An address is a sequence of bits, the most      *)
(* significant first; an IPv6 address is four times as long as an IPv4     *)
(* one, of Width bits (32 in the code).                                    *)
(***************************************************************************)
EXTENDS Naturals

CONSTANT Width

ASSUME WidthIsPositive == Width \in Nat \ {0}

Bit == {0, 1}
Address == [1 .. Width -> Bit]
Address6 == [1 .. 4 * Width -> Bit]

(* What server.network may hold. *)
Plain == [kind : {"plain"}, addr : Address]
Cidr  == [kind : {"cidr"}, addr : Address, prefix : 0 .. Width]
Cidr6 == [kind : {"cidr"}, addr : Address6, prefix : 0 .. 4 * Width]

(* ValidateBroadcast lets every CIDR pass, but IPv4 addresses only. *)
ValidateBroadcast(n) == n \in Plain \cup Cidr \cup Cidr6

(* Mutant: the mask is one bit too long. *)
LongMask(n) == [i \in DOMAIN n.addr |-> IF i <= n.prefix + 1 THEN 1 ELSE 0]

Mask(n) == [i \in DOMAIN n.addr |-> IF i <= n.prefix THEN 1 ELSE 0]

(* net.ParseCIDR clears the bits of the host. *)
NetworkIP(n) == [i \in DOMAIN n.addr |-> IF Mask(n)[i] = 1 THEN n.addr[i] ELSE 0]

(* The first four bytes of the network's address, or-ed with those of the  *)
(* complement of its mask, however many bytes there are.                   *)
CIDRToBroadcast(n) ==
    IF n.kind = "plain" THEN n.addr
    ELSE [i \in 1 .. Width |->
            IF NetworkIP(n)[i] = 1 \/ Mask(n)[i] = 0 THEN 1 ELSE 0]

-----------------------------------------------------------------------------
(* The reference: the addresses of an IPv4 network, and the greatest one.  *)
Members(n) ==
    IF n.kind = "plain" THEN {n.addr}
    ELSE {a \in Address : \A i \in 1 .. n.prefix : a[i] = n.addr[i]}

IsBroadcastOf(b, n) ==
    /\ b \in Members(n)
    /\ \A a \in Members(n) : \A i \in 1 .. Width : a[i] <= b[i]
=============================================================================
