------------------------------ MODULE MCCache ------------------------------
(* Cache with two lines of two bytes and two addresses to a line: one line  *)
(* is booted dirty, the other clean over a memory that differs.             *)
EXTENDS Cache, TLC

CONSTANTS l0, l1, t0, t1, b0, b1

Bits(x, y) == (b0 :> x) @@ (b1 :> y)

MCBootState ==
    (l0 :> [initialized |-> TRUE, dirty |-> TRUE, tag |-> t0]) @@
    (l1 :> [initialized |-> TRUE, dirty |-> FALSE, tag |-> t0])

MCBootImage == (l0 :> Bits(0, 1)) @@ (l1 :> Bits(0, 1))

MCPowerUp == [a \in Addresses |-> Bits(0, 0)]

Reads == [addr : Addresses, mask : {{}}, data : {Bits(0, 0)}]

PartialWrites == [addr : Addresses, mask : {{b0}}, data : {Bits(1, 0)}]

FullWrites == [addr : Addresses, mask : {{b0, b1}}, data : {Bits(0, 1)}]

(* Everything on the dirty line but a whole-line write to its second       *)
(* address; on the clean one partial writes to the address it is booted     *)
(* with.                                                                    *)
MCRequests ==
    {r \in Reads : r.addr.line = l0}
    \cup {r \in PartialWrites : r.addr.line = l0 \/ r.addr.tag = t0}
    \cup {r \in FullWrites : r.addr.line = l0 /\ r.addr.tag = t0}

=============================================================================
