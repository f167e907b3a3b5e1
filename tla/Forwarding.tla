----------------------------- MODULE Forwarding -----------------------------
(***************************************************************************)
(* Packets that travel along DSDV routes (gossiper/DSDV.go): private       *)
(* messages, and the data requests, data replies and search replies that   *)
(* are sent with forward, from any gossiper to one destination, while the  *)
(* routes of module Routes change under them.                              *)
(*                                                                         *)
(* A packet remembers its trail, the gossipers that sent it on and how     *)
(* recent their routes were.  Packets do not meet: a duplicate is one more *)
(* packet, and one that is lost is one that is never received.  The peers  *)
(* a gossiper learns from its packets are left out: routes do not depend   *)
(* on them.                                                                *)
(***************************************************************************)
EXTENDS Integers, Sequences, FiniteSets

CONSTANTS
    Node,      \* the gossipers
    Dest,      \* the destination of the packets
    NoPeer,    \* the empty address
    MaxSeq,    \* bound: rumours of the destination
    MaxSent,   \* bound: packets sent
    HopLimit,  \* defaultHopLimit
    HopBits    \* width of the HopLimit field

ASSUME NodeAssumption == IsFiniteSet(Node) /\ Dest \in Node /\ NoPeer \notin Node
ASSUME LimitAssumption == /\ {MaxSeq, MaxSent, HopBits} \subseteq Nat
                          /\ HopLimit \in 1..(2 ^ HopBits - 1)

VARIABLES
    counter, \* the rumours Dest has made
    table,   \* table[n]: n's entry for Dest
    packets, \* packets on the wire: the trail, the limit and who receives it next
    sent,    \* number of packets clients and downloads have sent
    arrived, \* latestMessages of Dest: number of packets
    dropped  \* history: packets dropped on their way

routeVars == <<counter, table>>
vars == <<routeVars, packets, sent, arrived, dropped>>

DSDV == INSTANCE Routes

Init ==
    /\ DSDV!Init
    /\ packets = {} /\ sent = 0 /\ arrived = 0 /\ dropped = {}

\* A route changes.
RouteChange ==
    /\ DSDV!Next
    /\ UNCHANGED <<packets, sent, arrived, dropped>>

-----------------------------------------------------------------------------
GetNextHop(n) == table[n].address
HasRoute(n) == table[n].seqNum # 0

\* n sends packet p on along its route.
Hop(p, n, hops) ==
    [trail |-> Append(p.trail, [node |-> n, seqNum |-> table[n].seqNum]),
     hops |-> hops, to |-> GetNextHop(n)]

New == [trail |-> <<>>, hops |-> HopLimit, to |-> NoPeer]

DecrementHopCount(hops) == (hops - 1) % 2 ^ HopBits

\* Mutant of Forwards: the last hop is not used.
ForwardsEarly(n, p) == DecrementHopCount(p.hops) > 1 /\ HasRoute(n)

\* forward: the limit is decremented first, and compared with zero.
Forwards(n, p) == DecrementHopCount(p.hops) > 0 /\ HasRoute(n)

\* clientPMListenRoutine: the first hop does not count.
ClientPM(n) ==
    /\ sent < MaxSent
    /\ packets' = IF HasRoute(n) THEN packets \cup {Hop(New, n, HopLimit)} ELSE packets
    /\ sent' = sent + 1
    /\ UNCHANGED <<routeVars, arrived, dropped>>

\* downloadChunk and the replies to data and search requests use forward, which
\* counts the first hop too.
SendData(n) ==
    /\ sent < MaxSent
    /\ packets' = IF Forwards(n, New)
                  THEN packets \cup {Hop(New, n, DecrementHopCount(HopLimit))} ELSE packets
    /\ sent' = sent + 1
    /\ UNCHANGED <<routeVars, arrived, dropped>>

\* privateMessageListenRoutine of the destination; the data routines likewise.
Arrive(p) ==
    /\ p \in packets /\ p.to = Dest
    /\ packets' = packets \ {p}
    /\ arrived' = arrived + 1
    /\ UNCHANGED <<routeVars, sent, dropped>>

\* ... and of any other gossiper.
ReceivePrivate(p) ==
    /\ p \in packets /\ p.to # Dest
    /\ IF Forwards(p.to, p)
       THEN /\ packets' = (packets \ {p}) \cup {Hop(p, p.to, DecrementHopCount(p.hops))}
            /\ UNCHANGED dropped
       ELSE packets' = packets \ {p} /\ dropped' = dropped \cup {p}
    /\ UNCHANGED <<routeVars, sent, arrived>>

Next ==
    \/ RouteChange
    \/ \E n \in Node : ClientPM(n) \/ SendData(n)
    \/ \E p \in packets : Arrive(p) \/ ReceivePrivate(p)

Spec == Init /\ [][Next]_vars

-----------------------------------------------------------------------------
(* Properties                                                               *)

\* Type correctness; a packet on the wire has a hop left.
TypeOK ==
    /\ counter \in 0..MaxSeq
    /\ table \in [Node -> [seqNum : 0..MaxSeq, address : Node \cup {NoPeer}]]
    /\ packets \subseteq [trail : Seq([node : Node, seqNum : 1..MaxSeq]),
                          hops : 1..HopLimit, to : Node]
    /\ sent \in 0..MaxSent /\ arrived \in 0..MaxSent

Revisits(trail) ==
    {ij \in (DOMAIN trail) \X (DOMAIN trail) :
        ij[1] < ij[2] /\ trail[ij[1]].node = trail[ij[2]].node}

\* A packet comes back to a gossiper that has sent it on only if the destination was
\* heard of again in between: the gossiper sends it along a newer route, never along
\* the same one, however rumours and packets interleave.
RevisitsAreFresher ==
    \A p \in packets \cup dropped : \A ij \in Revisits(p.trail) :
        p.trail[ij[1]].seqNum < p.trail[ij[2]].seqNum

\* A packet that has left its sender is dropped only because routes changed under it,
\* if there are no more gossipers than the hop limit: no gossiper on its way is
\* without a route, and one that never came back to a gossiper has hops to spare.
DropsAreStale ==
    Cardinality(Node) <= HopLimit =>
        \A p \in dropped : \E i \in DOMAIN p.trail :
            p.trail[i].node = p.to \/ \E j \in DOMAIN p.trail : <<i, j>> \in Revisits(p.trail)
=============================================================================
