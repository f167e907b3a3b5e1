------------------------------- MODULE Routes -------------------------------
(***************************************************************************)
(* What DSDV promises about the routes towards one origin: every gossiper  *)
(* keeps the sequence number of the latest rumour it heard of the origin   *)
(* and the peer it came from, and that peer had heard of it before.        *)
(***************************************************************************)
EXTENDS Integers

CONSTANTS
    Node,    \* the gossipers
    Dest,    \* the origin the routes lead to
    NoPeer,  \* the empty address
    MaxSeq   \* bound: rumours of the origin

VARIABLES
    counter, \* the rumours Dest has made
    table    \* table[n]: n's entry for Dest, seqNum 0 if none

Init ==
    /\ counter = 0
    /\ table = [n \in Node |-> [seqNum |-> 0, address |-> NoPeer]]

\* makeRouteRumorPacket, or a message of Dest's client.
NewRumor ==
    /\ counter < MaxSeq
    /\ counter' = counter + 1
    /\ UNCHANGED table

Heard(n) == IF n = Dest THEN counter ELSE table[n].seqNum

\* Mutant of LearnRoute: an equal sequence number changes the route.
LearnRouteEqual(n, sender, i) ==
    /\ n \notin {Dest, sender} /\ i \in 1..Heard(sender)
    /\ i >= table[n].seqNum
    /\ table' = [table EXCEPT ![n] = [seqNum |-> i, address |-> sender]]
    /\ UNCHANGED counter

\* updateDSDV: rumour i arrives from a peer, however late, and is newer than the
\* entry.
LearnRoute(n, sender, i) ==
    /\ n \notin {Dest, sender} /\ i \in 1..Heard(sender)
    /\ i > table[n].seqNum
    /\ table' = [table EXCEPT ![n] = [seqNum |-> i, address |-> sender]]
    /\ UNCHANGED counter

Next ==
    \/ NewRumor
    \/ \E n, sender \in Node, i \in 1..counter : LearnRoute(n, sender, i)

NextOrStutter == UNCHANGED <<counter, table>> \/ Next

Spec == Init /\ [][Next]_<<counter, table>>
=============================================================================
