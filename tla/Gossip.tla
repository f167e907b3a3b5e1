------------------------------- MODULE Gossip -------------------------------
(***************************************************************************)
(* Rumour mongering and DSDV routing of a Peerster network: gossiper.go,   *)
(* rumorMongering.go, DSDV.go and the tables they share                    *)
(* (dto/SafeMessagesMap.go, dto/QuitChanMap.go, routing/).  The start of   *)
(* the antiEntropy routine is commented out in Start, so it has no action. *)
(*                                                                         *)
(* A node is identified with its name and its UDP address.  Every node     *)
(* runs one rumorListenRoutine, one peerStatusListenRoutine per peer, one  *)
(* clientListenRoutine and any number of rumorMonger goroutines.  Packets  *)
(* travel over UDP: they may be reordered, lost and duplicated.            *)
(***************************************************************************)
EXTENDS Integers, FiniteSets

CONSTANTS
    Node,           \* the gossipers
    InitialPeers,   \* the -peers flag of every gossiper
    NoPeer,         \* the empty address ""
    Clients,        \* the gossipers whose client submits messages
    MaxID,          \* bound: messages a client submits to one gossiper
    MaxInFlight,    \* bound: packets on the wire at the same time
    MaxMongers,     \* bound: rumorMonger goroutines alive at the same time
    Loses,          \* TRUE when UDP may lose packets
    Duplicates      \* TRUE when UDP may duplicate packets

ASSUME PeersAssumption == /\ InitialPeers \in [Node -> SUBSET Node]
                          /\ \A n \in Node : n \notin InitialPeers[n]
                          /\ NoPeer \notin Node
ASSUME BoundAssumption == Clients \subseteq Node /\ {MaxID, MaxInFlight, MaxMongers} \subseteq Nat
ASSUME FlagAssumption == {Loses, Duplicates} \subseteq BOOLEAN

VARIABLES
    peers,         \* peers[n]: addresses gossiper n knows
    seqIDCounter,  \* seqIDCounter[n]: ID of the next message of n's client
    msgMap,        \* msgMap[n][o]: IDs of the messages of o that n stores
    entries,       \* entries[n]: origins with a (maybe empty) map in msgMap
    routingTable,  \* routingTable[n][o]: n's DSDV entry for o, seqNum 0 if none
    rumorJob,      \* rumorJob[n]: the packet rumorListenRoutine is handling
    mongers,       \* the rumorMonger goroutines
    net            \* the packets on the wire

nodeVars == <<peers, seqIDCounter, msgMap, entries, routingTable, rumorJob>>
vars == <<nodeVars, mongers, net>>

RumorPacket == [type : {"rumor"}, src : Node, dst : Node, origin : Node, id : Nat]

\* want[o] is the NextID listed for o, and 0 when the packet does not list o.
StatusPacket == [type : {"status"}, src : Node, dst : Node, want : [Node -> Nat]]

Packet == RumorPacket \cup StatusPacket

\* A goroutine is about to pick a peer other than "peer", waits in trySend for
\* "peer" to acknowledge, or had its quit channel closed by InformListeners.
Monger == [node : Node, origin : Node, id : Nat,
           phase : {"pick", "wait", "acked"}, peer : Node \cup {NoPeer}]

Idle == [stage |-> "idle"]
Job == [stage : {"store", "reply"}, origin : Node, id : Nat, sender : Node,
        isNew : BOOLEAN]

\* Mutant of Init: message IDs start at zero.
InitCounterZero ==
    /\ peers = InitialPeers
    /\ seqIDCounter = [n \in Node |-> 0]
    /\ msgMap = [n \in Node |-> [o \in Node |-> {}]]
    /\ entries = [n \in Node |-> {}]
    /\ routingTable = [n \in Node |-> [o \in Node |-> [seqNum |-> 0, address |-> NoPeer]]]
    /\ rumorJob = [n \in Node |-> Idle]
    /\ mongers = {}
    /\ net = {}

Init ==
    /\ peers = InitialPeers
    /\ seqIDCounter = [n \in Node |-> 1]
    /\ msgMap = [n \in Node |-> [o \in Node |-> {}]]
    /\ entries = [n \in Node |-> {}]
    /\ routingTable = [n \in Node |-> [o \in Node |-> [seqNum |-> 0, address |-> NoPeer]]]
    /\ rumorJob = [n \in Node |-> Idle]
    /\ mongers = {}
    /\ net = {}

-----------------------------------------------------------------------------
(* The wire.  A packet that is delivered may stay on the wire only when     *)
(* UDP duplicates; losing a packet is a step of its own.                    *)

Fits(packets) == Cardinality(packets) <= MaxInFlight

Send(out) == Fits(net \cup out) /\ net' = net \cup out

Deliver(pkt, out) ==
    \/ Fits((net \ {pkt}) \cup out) /\ net' = (net \ {pkt}) \cup out
    \/ Duplicates /\ Send(out)

Lose(pkt) == Loses /\ net' = net \ {pkt} /\ UNCHANGED <<nodeVars, mongers>>

Rumor(src, dst, o, i) ==
    [type |-> "rumor", src |-> src, dst |-> dst, origin |-> o, id |-> i]

-----------------------------------------------------------------------------
(* SafeMessagesMap                                                          *)

\* Mutant of AddMessageIsNew: a missing predecessor goes unnoticed.
AddMessageWithGap(ids, i) == i \notin ids

\* Whether AddMessage stores message i in the map "ids" of its origin.
AddMessageIsNew(ids, i) == i \notin ids /\ (i = 1 \/ i - 1 \in ids)

\* AddMessage: the origin gets an entry even when the message is refused.
AddMessage(n, o, i) ==
    /\ entries' = [entries EXCEPT ![n] = @ \cup {o}]
    /\ msgMap' = IF AddMessageIsNew(msgMap[n][o], i)
                 THEN [msgMap EXCEPT ![n][o] = @ \cup {i}] ELSE msgMap

HighestID(ids) == CHOOSE m \in ids \cup {0} : \A i \in ids : i <= m

GetOwnStatusPacket(n) ==
    [o \in Node |-> IF o \in entries[n] THEN HighestID(msgMap[n][o]) + 1 ELSE 0]

Status(n, dst) ==
    [type |-> "status", src |-> n, dst |-> dst, want |-> GetOwnStatusPacket(n)]

\* Mutant of DifferenceOrigins: the newest message never counts as a difference.
DifferenceButNewest(have, want) == {o \in Node : want[o] + 1 < have[o]}

\* The origins of which the owner of "have" holds something that the owner of
\* "want" lacks, and the first such message of each.
DifferenceOrigins(have, want) ==
    {o \in Node : have[o] # 0 /\ (want[o] = 0 \/ want[o] < have[o])}
DifferenceID(want, o) == IF want[o] = 0 THEN 1 ELSE want[o]

-----------------------------------------------------------------------------
(* Rumours from the client and from peers                                   *)

NewMonger(n, o, i, except) ==
    [node |-> n, origin |-> o, id |-> i, phase |-> "pick", peer |-> except]

StartMonger(w) == Cardinality(mongers) < MaxMongers /\ mongers' = mongers \cup {w}

\* clientListenRoutine: makeGossip takes the next ID, addMessage stores it.
ClientMessage(n) ==
    /\ n \in Clients /\ seqIDCounter[n] <= MaxID
    /\ seqIDCounter' = [seqIDCounter EXCEPT ![n] = @ + 1]
    /\ AddMessage(n, n, seqIDCounter[n])
    /\ StartMonger(NewMonger(n, n, seqIDCounter[n], NoPeer))
    /\ UNCHANGED <<peers, routingTable, rumorJob, net>>

\* Mutants of UpdateEntry: an equal sequence number changes the route, and the
\* first route is kept for ever.
UpdateEntryEqual(entry, i, sender) ==
    IF i >= entry.seqNum THEN [seqNum |-> i, address |-> sender] ELSE entry
UpdateEntryOnce(entry, i, sender) ==
    IF entry.seqNum = 0 THEN [seqNum |-> i, address |-> sender] ELSE entry

\* SafeRoutingTable.UpdateEntry: only a higher sequence number changes a route.
UpdateEntry(entry, i, sender) ==
    IF i > entry.seqNum THEN [seqNum |-> i, address |-> sender] ELSE entry

\* updateDSDV: a node keeps no route to itself.
UpdateDSDV(n, o, i, sender) ==
    routingTable' = IF o = n THEN routingTable
                    ELSE [routingTable EXCEPT ![n][o] = UpdateEntry(@, i, sender)]

\* rumorListenRoutine takes a packet: addToPeers and updateDSDV.
RumorReceive(n, pkt) ==
    /\ pkt.type = "rumor" /\ pkt.dst = n
    /\ rumorJob[n] = Idle
    /\ peers' = [peers EXCEPT ![n] = @ \cup {pkt.src}]
    /\ UpdateDSDV(n, pkt.origin, pkt.id, pkt.src)
    /\ rumorJob' = [rumorJob EXCEPT ![n] =
            [stage |-> "store", origin |-> pkt.origin, id |-> pkt.id,
             sender |-> pkt.src, isNew |-> FALSE]]
    /\ Deliver(pkt, {})
    /\ UNCHANGED <<seqIDCounter, msgMap, entries, mongers>>

\* ... addMessage ...
RumorStore(n) ==
    LET job == rumorJob[n] IN
    /\ job.stage = "store"
    /\ AddMessage(n, job.origin, job.id)
    /\ rumorJob' = [rumorJob EXCEPT ![n] =
            [job EXCEPT !.stage = "reply",
                        !.isNew = AddMessageIsNew(msgMap[n][job.origin], job.id)]]
    /\ UNCHANGED <<peers, seqIDCounter, routingTable, mongers, net>>

\* ... and then the status packet for the sender, and rumorMonger if it was new.
RumorReply(n) ==
    LET job == rumorJob[n] IN
    /\ job.stage = "reply"
    /\ Send({Status(n, job.sender)})
    /\ IF job.isNew THEN StartMonger(NewMonger(n, job.origin, job.id, job.sender))
                    ELSE UNCHANGED mongers
    /\ rumorJob' = [rumorJob EXCEPT ![n] = Idle]
    /\ UNCHANGED <<peers, seqIDCounter, msgMap, entries, routingTable>>

-----------------------------------------------------------------------------
(* rumorMonger and trySend                                                  *)

\* pickRandomPeer, then trySend registers the listener and sends; with nobody
\* to pick the goroutine ends.
MongerPick(w) ==
    LET possiblePicks == peers[w.node] \ {w.peer} IN
    /\ w.phase = "pick"
    /\ \/ /\ possiblePicks = {}
          /\ mongers' = mongers \ {w}
          /\ UNCHANGED net
       \/ \E p \in possiblePicks :
            /\ mongers' = (mongers \ {w}) \cup {[w EXCEPT !.phase = "wait", !.peer = p]}
            /\ Send({Rumor(w.node, p, w.origin, w.id)})
    /\ UNCHANGED nodeVars

\* trySend returned; the coin flip decides between stopping and another pick.
FlipCoin(w) ==
    /\ \/ mongers' = mongers \ {w}
       \/ mongers' = (mongers \ {w}) \cup {[w EXCEPT !.phase = "pick"]}
    /\ UNCHANGED <<nodeVars, net>>

MongerTimeout(w) == w.phase = "wait" /\ FlipCoin(w)

MongerAcked(w) == w.phase = "acked" /\ FlipCoin(w)

-----------------------------------------------------------------------------
(* Status packets                                                           *)

Listening(w, n, p) == w.phase = "wait" /\ w.node = n /\ w.peer = p

\* Mutant of Informed: the message the peer wants next counts as received.
InformedEarly(w, pkt) ==
    Listening(w, pkt.dst, pkt.src) /\ pkt.want[w.origin] >= w.id

\* InformListeners: the listeners a status packet releases, and whether none of
\* the origins it lists has another one waiting for the same peer.
Informed(w, pkt) ==
    Listening(w, pkt.dst, pkt.src) /\ pkt.want[w.origin] > w.id

AllStopped(pkt) ==
    \A w \in mongers :
        ~ (Listening(w, pkt.dst, pkt.src) /\ pkt.want[w.origin] \in 1..w.id)

InformListeners(pkt) ==
    mongers' = {IF Informed(w, pkt) THEN [w EXCEPT !.phase = "acked"] ELSE w : w \in mongers}

\* The rumours sent back.  GetMessage finds nothing for an origin whose map is
\* empty; the packet without contents that is then sent is ignored on arrival.
Updates(pkt) ==
    LET n == pkt.dst
        theirs == DifferenceOrigins(GetOwnStatusPacket(n), pkt.want)
    IN  {Rumor(n, pkt.src, o, DifferenceID(pkt.want, o)) :
            o \in {x \in theirs : DifferenceID(pkt.want, x) \in msgMap[n][x]}}

OwnStatusDue(pkt) ==
    LET mine == GetOwnStatusPacket(pkt.dst) IN
    /\ AllStopped(pkt)
    /\ DifferenceOrigins(mine, pkt.want) = {}
    /\ DifferenceOrigins(pkt.want, mine) # {}

\* What peerStatusListenRoutine sends in answer to a status packet.
StatusReplies(pkt) ==
    Updates(pkt) \cup IF OwnStatusDue(pkt) THEN {Status(pkt.dst, pkt.src)} ELSE {}

\* statusListenRoutine and the peerStatusListenRoutine of the sender.
StatusReceive(n, pkt) ==
    /\ pkt.type = "status" /\ pkt.dst = n
    /\ peers' = [peers EXCEPT ![n] = @ \cup {pkt.src}]
    /\ InformListeners(pkt)
    /\ Deliver(pkt, StatusReplies(pkt))
    /\ UNCHANGED <<seqIDCounter, msgMap, entries, routingTable, rumorJob>>

-----------------------------------------------------------------------------
\* What the gossipers do; the network may lose packets besides.
Step ==
    \/ \E n \in Node : ClientMessage(n) \/ RumorStore(n) \/ RumorReply(n)
    \/ \E n \in Node, pkt \in net : RumorReceive(n, pkt) \/ StatusReceive(n, pkt)
    \/ \E w \in mongers : MongerPick(w) \/ MongerTimeout(w) \/ MongerAcked(w)

Next == Step \/ \E pkt \in net : Lose(pkt)

Spec == Init /\ [][Next]_vars

-----------------------------------------------------------------------------
(* Properties                                                               *)

\* Type correctness: IDs and sequence numbers start at 1, tables are total.
TypeOK ==
    /\ peers \in [Node -> SUBSET Node]
    /\ seqIDCounter \in [Node -> Nat \ {0}]
    /\ msgMap \in [Node -> [Node -> SUBSET (Nat \ {0})]]
    /\ entries \in [Node -> SUBSET Node]
    /\ routingTable \in [Node -> [Node -> [seqNum : Nat, address : Node \cup {NoPeer}]]]
    /\ rumorJob \in [Node -> Job \cup {Idle}]
    /\ mongers \subseteq Monger
    /\ net \subseteq Packet

\* Whatever UDP loses, repeats or reorders, a gossiper stores of every origin a
\* prefix, without a gap, of the messages that origin's client submitted
\* (SafeMessagesMap.AddMessage): the NextID of a status packet depends on it.
PrefixOfOrigin ==
    \A n, o \in Node : \E k \in 0..(seqIDCounter[o] - 1) : msgMap[n][o] = 1..k

\* A rumorMonger goroutine that trySend tells "received" is right: the peer
\* whose status packet made InformListeners close its channel stores the rumour.
AckSound ==
    \A w \in mongers : w.phase = "acked" => w.id \in msgMap[w.peer][w.origin]

\* A gossiper relays only rumours its routing table has accounted for: its DSDV
\* entry for an origin is as recent as any message it stores (updateDSDV comes
\* before addMessage in rumorListenRoutine).
RouteCoversStore ==
    \A n, o \in Node : n # o => \A i \in msgMap[n][o] : routingTable[n][o].seqNum >= i

\* The next hop towards an origin has an entry at least as recent as one's own.
NextHopFresher ==
    \A n, o \in Node : LET entry == routingTable[n][o] IN
        entry.seqNum > 0 =>
            /\ entry.address \in Node \ {n}
            /\ entry.address # o => routingTable[entry.address][o].seqNum >= entry.seqNum

\* Private packets cannot circle: following routing tables towards an origin,
\* every set of other nodes is left (there is no cycle of next hops), at any
\* instant and during any route change.
LoopFree ==
    \A o \in Node : \A S \in (SUBSET (Node \ {o})) \ {{}} :
        \E n \in S : routingTable[n][o].address \notin S

\* Rumour mongering implements the ordered broadcast of module Broadcast: what
\* a gossiper has of an origin is given by the highest ID it stores.
Abstract == INSTANCE Broadcast
    WITH len <- [n \in Node |-> [o \in Node |-> HighestID(msgMap[n][o])]]

ImplementsBroadcast == Abstract!Spec

\* The entries for every origin o, with updateDSDV on rumours however late, behave as
\* module Routes says: an entry changes only to a newer number, and to a peer that
\* has itself heard of o so recently.  Module Forwarding sends packets along them.
RoutesTo(o) == INSTANCE Routes
    WITH Dest <- o, MaxSeq <- MaxID, counter <- seqIDCounter[o] - 1,
         table <- [n \in Node |-> routingTable[n][o]]

ImplementsRoutes ==
    /\ \A o \in Node : RoutesTo(o)!Init
    /\ [][\A o \in Node : RoutesTo(o)!NextOrStutter]_vars
=============================================================================
