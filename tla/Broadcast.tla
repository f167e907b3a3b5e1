------------------------------ MODULE Broadcast ------------------------------
(***************************************************************************)
(* What rumour mongering promises: every gossiper learns the messages of   *)
(* every origin one by one, in the order the origin's client submitted     *)
(* them, none before it was submitted and none twice.                      *)
(***************************************************************************)
EXTENDS Integers

CONSTANTS Node, Clients, MaxID

VARIABLE len   \* len[n][o]: how many of o's messages n has

Init == len = [n \in Node |-> [o \in Node |-> 0]]

\* The client of o submits a message to it.
Submit(o) ==
    /\ len[o][o] < MaxID
    /\ len' = [len EXCEPT ![o][o] = @ + 1]

\* n learns the next message of o.
Learn(n, o) ==
    /\ n # o /\ len[n][o] < len[o][o]
    /\ len' = [len EXCEPT ![n][o] = @ + 1]

Next == (\E o \in Clients : Submit(o)) \/ (\E n, o \in Node : Learn(n, o))

Spec == Init /\ [][Next]_len
=============================================================================
