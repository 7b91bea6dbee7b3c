------------------------------- MODULE Memory -------------------------------
(***************************************************************************)
(* What a cache promises the ports that share it: behind it there is one    *)
(* memory.  Requests are taken one at a time, a lower numbered port first;  *)
(* a write changes its own bytes and nothing else, and a read answers, to   *)
(* the port that asked, what the memory holds.  Only what nobody has        *)
(* written since power-up may change by itself, and once at most.           *)
(***************************************************************************)
EXTENDS Integers

CONSTANTS Ports, Addresses, Bytes, Values, Requests, None

VARIABLES
    mem,        \* what each address holds
    unsettled,  \* the addresses that have not settled since power-up
    request,    \* the request each port is raising
    op,         \* the request being served, with its port
    answer      \* what the ports were told in the last cycle that did anything

vars == <<mem, unsettled, request, op, answer>>

Data == [Bytes -> Values]

Init ==
    /\ mem \in [Addresses -> Data]
    /\ unsettled \subseteq Addresses
    /\ request = [p \in Ports |-> None]
    /\ op = None
    /\ answer = None

Raise(p, r) ==
    /\ request[p] = None
    /\ request' = [request EXCEPT ![p] = r]
    /\ UNCHANGED <<mem, unsettled, op, answer>>

Take(p) ==
    /\ request[p] # None
    /\ \A q \in Ports : q < p => request[q] = None
    /\ request' = [request EXCEPT ![p] = None]
    /\ op' = [port |-> p, addr |-> request[p].addr,
              mask |-> request[p].mask, data |-> request[p].data]

(* The next request is taken as soon as the one before is done. *)
TakeNext == (\E p \in Ports : Take(p)) \/ (op' = None /\ UNCHANGED request)

(* Nothing changes but addresses that settle, and the bytes written. *)
Settle(written) ==
    /\ unsettled' \subseteq unsettled \ written
    /\ \A a \in Addresses \ ((unsettled \ unsettled') \cup written) : mem'[a] = mem[a]

Start == op = None /\ answer' = None /\ TakeNext /\ UNCHANGED <<mem, unsettled>>

Wait == op # None /\ Settle({}) /\ answer' = None /\ UNCHANGED <<op, request>>

Read ==
    /\ op # None
    /\ op.mask = {}
    /\ answer' = [port |-> op.port, data |-> mem[op.addr]]
    /\ UNCHANGED <<mem, unsettled>>
    /\ TakeNext

Write ==
    /\ op # None
    /\ op.mask # {}
    /\ answer' = None
    /\ Settle({op.addr})
    /\ \A b \in Bytes :
         \/ b \in op.mask /\ mem'[op.addr][b] = op.data[b]
         \/ b \notin op.mask /\ (op.addr \in unsettled \/ mem'[op.addr][b] = mem[op.addr][b])
    /\ TakeNext

Next == \/ \E p \in Ports, r \in Requests : Raise(p, r)
        \/ Start \/ Wait \/ Read \/ Write

Spec == Init /\ [][Next]_vars

=============================================================================
