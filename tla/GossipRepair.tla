---------------------------- MODULE GossipRepair ----------------------------
(***************************************************************************)
(* What rumour mongering achieves when packets are lost and, as in Start   *)
(* (gossiper.go:184), no antiEntropy routine runs: module Gossip with a    *)
(* history of the losses and the fairness of the goroutines and of UDP.    *)
(***************************************************************************)
EXTENDS Gossip

VARIABLE lost  \* history: lost[o], how many messages o had at the latest loss of a packet

RepairInit == Init /\ lost = [o \in Node |-> 0]

LosePacket(pkt) == Lose(pkt) /\ lost' = [o \in Node |-> seqIDCounter[o] - 1]

RepairNext ==
    \/ Step /\ UNCHANGED lost
    \/ \E pkt \in net : LosePacket(pkt)

-----------------------------------------------------------------------------
(* Fairness.  Goroutines that can run do run, trySend's timeout included,   *)
(* and packets do not stay on the wire for ever: they are received or lost. *)
(* Clients, the coin of rumorMonger and its choice of peers stay arbitrary. *)

Leaves(pkt) == \E n \in Node : RumorReceive(n, pkt) \/ StatusReceive(n, pkt) \/ Lose(pkt)

Fairness ==
    /\ \A n \in Node : WF_vars(RumorStore(n) \/ RumorReply(n))
    /\ WF_vars(\E w \in mongers : MongerPick(w) \/ MongerTimeout(w) \/ MongerAcked(w))
    /\ WF_vars(\E pkt \in net : Leaves(pkt))

RepairSpec == RepairInit /\ [][RepairNext]_<<vars, lost>> /\ Fairness

-----------------------------------------------------------------------------
(* Properties                                                               *)

\* A message brings its peer up to date although antiEntropy does not run: once a
\* client has submitted message i, every other gossiper gets it and all the earlier
\* messages of that client, those whose packets were lost included, unless a packet is
\* lost after i was submitted.  The first rumour of i is always sent; from then on every
\* rumour is answered with a status packet and every status packet that shows a gap with
\* a rumour, however they are reordered (rumorListenRoutine, peerStatusListenRoutine).
CatchesUp ==
    \A o \in Clients : \A n \in Node \ {o} : \A i \in 1..MaxID :
        (i \in msgMap[o][o]) ~> (1..i \subseteq msgMap[n][o] \/ lost[o] >= i)
=============================================================================
