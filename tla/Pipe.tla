-------------------------------- MODULE Pipe --------------------------------
(***************************************************************************)
(* What a serial driver promises in each direction: bytes come out in the   *)
(* order they were put in, each once, and at most Capacity are on the way.  *)
(***************************************************************************)
EXTENDS Naturals, Sequences

CONSTANTS Bytes, Nothing, Capacity

VARIABLES
    offered,    \* the byte waiting to be put in
    pipe,       \* the bytes on the way
    taken       \* the last byte taken out

vars == <<offered, pipe, taken>>

Init ==
    /\ offered = Nothing
    /\ pipe = <<>>
    /\ taken = Nothing

(* A byte offered before the last one was put in replaces it. *)
Offer ==
    /\ offered' \in Bytes
    /\ UNCHANGED <<pipe, taken>>

Put ==
    /\ offered # Nothing
    /\ Len(pipe) < Capacity
    /\ pipe' = Append(pipe, offered)
    /\ offered' = Nothing
    /\ UNCHANGED taken

Take ==
    /\ pipe # <<>>
    /\ taken' = Head(pipe)
    /\ pipe' = Tail(pipe)
    /\ UNCHANGED offered

Next == Offer \/ Put \/ Take

Spec == Init /\ [][Next]_vars

=============================================================================
