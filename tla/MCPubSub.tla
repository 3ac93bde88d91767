------------------------------ MODULE MCPubSub ------------------------------
(* The instance of PubSub for TLC.                                         *)
EXTENDS PubSubInv

CONSTANTS t1, t2

TwoTopics == {t1, t2}
Raw(t)  == [t |-> t, r |-> TRUE]
Pack(t) == [t |-> t, r |-> FALSE]
P(n, subscribes, sent) == [muxes |-> n, wishes |-> subscribes, traffic |-> sent]

\* What happens within one connection, and what happens between two
SomePlans ==
    {P(1, <<Raw(t1), Pack(t2)>>, 1), P(2, <<Raw(t1)>>, 1)}

=============================================================================
