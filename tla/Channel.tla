------------------------------- MODULE Channel -------------------------------
(***************************************************************************)
(* What the reliability layer promises to the TLS objects at its two ends: *)
(* the ciphertext records one of them hands out reach the other exactly    *)
(* once and in the order in which they were handed out.  Nothing is said   *)
(* about packets, ids, acknowledgements or retransmissions.                *)
(***************************************************************************)
EXTENDS Naturals, Sequences

CONSTANTS
    Client, Server, \* the two ends
    Records         \* Records[p]: how many records the TLS object of p hands out

Peers == {Client, Server}
Other(p) == IF p = Client THEN Server ELSE Client

VARIABLES
    out,            \* out[p]: number of records the TLS object of p handed out
    in              \* in[p]: the records written to the TLS object of p

vars == <<out, in>>

Init ==
    /\ out = [p \in Peers |-> 0]
    /\ in = [p \in Peers |-> << >>]

HandOut(p) == out[p] < Records[p] /\ out' = [out EXCEPT ![p] = @ + 1]

Take(p) ==
    /\ Len(in[p]) < out[Other(p)]
    /\ in' = [in EXCEPT ![p] = Append(@, Len(@) + 1)]

\* One turn of an end may take a record, hand one out, or both.
Turn(p) ==
    \/ HandOut(p) /\ UNCHANGED in
    \/ Take(p) /\ UNCHANGED out
    \/ HandOut(p) /\ Take(p)

Next == \E p \in Peers : Turn(p)

Spec == Init /\ [][Next]_vars
=============================================================================
