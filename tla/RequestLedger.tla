--------------------------- MODULE RequestLedger ----------------------------
(***************************************************************************)
(* What the clients of a simulation promise to whoever reads their         *)
(* results: each request has one slot in the order of the requests; a slot *)
(* is open until one answer closes it, for good; and the three times of a  *)
(* closed slot are those of one exchange: requested, then answered by the  *)
(* device, then received, and received when it was closed.                 *)
(***************************************************************************)
EXTENDS Integers, Sequences

CONSTANT Clients

VARIABLES
    clock,
    ledger   \* of each client, the sequence of its slots

Open == [answered |-> -1, received |-> -1]

IsOpen(c, i) == ledger[c][i].answer = Open

Init ==
    /\ clock = 0
    /\ ledger = [c \in Clients |-> <<>>]

Request(c) ==
    /\ ledger' = [ledger EXCEPT ![c] = Append(@, [requested |-> clock, answer |-> Open])]
    /\ UNCHANGED clock

Answer(c, i, t) ==
    /\ IsOpen(c, i)
    /\ ledger[c][i].requested <= t
    /\ t <= clock
    /\ ledger' = [ledger EXCEPT ![c][i].answer = [answered |-> t, received |-> clock]]
    /\ UNCHANGED clock

Elapse ==
    /\ clock' = clock + 1
    /\ UNCHANGED ledger

Next ==
    \/ \E c \in Clients :
        \/ Request(c)
        \/ \E i \in DOMAIN ledger[c] : \E t \in 0 .. clock : Answer(c, i, t)
    \/ Elapse

Spec == Init /\ [][Next]_<<clock, ledger>>

=============================================================================
