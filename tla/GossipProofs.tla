---------------------------- MODULE GossipProofs ----------------------------
(***************************************************************************)
(* Theorems about Gossip for every network, every set of clients and any   *)
(* loss, duplication and reordering of packets.                            *)
(***************************************************************************)
EXTENDS Gossip, TLAPS

\* GetOwnStatusPacket: maxID of a gap-free map is its last ID.
LEMMA HighestIDOfPrefix ==
    ASSUME NEW k \in Nat
    PROVE  HighestID(1..k) = k
<1>1. k \in (1..k) \cup {0} /\ \A i \in 1..k : i <= k
    OBVIOUS
<1>2. \A m \in (1..k) \cup {0} : (\A i \in 1..k : i <= m) => m = k
    OBVIOUS
<1> QED
    BY <1>1, <1>2 DEF HighestID

\* AddMessage keeps a gap-free map gap-free.
LEMMA AddKeepsPrefix ==
    ASSUME NEW k \in Nat, NEW i \in Nat \ {0}, AddMessageIsNew(1..k, i)
    PROVE  i = k + 1 /\ (1..k) \cup {i} = 1..(k + 1)
<1>1. i = k + 1
    BY DEF AddMessageIsNew
<1> QED
    BY <1>1

-----------------------------------------------------------------------------
(* The inductive invariant.  Acknowledgements and routes are only as good   *)
(* as what is on the wire, so it says what every packet, every packet being *)
(* handled and every goroutine promises about the sender's store.           *)

PeersOK == \A n \in Node : n \notin peers[n]

StoreOK ==
    /\ \A n, o \in Node : \E k \in Nat : k < seqIDCounter[o] /\ msgMap[n][o] = 1..k
    /\ \A o \in Node : msgMap[o][o] = 1..(seqIDCounter[o] - 1)

\* A rumour is stored by its sender; a status packet lists nothing its sender
\* does not store.
PacketOK(pkt) ==
    /\ pkt.src # pkt.dst
    /\ pkt.type = "rumor" => pkt.id \in msgMap[pkt.src][pkt.origin]
    /\ pkt.type = "status" =>
          \A o \in Node, i \in Nat \ {0} : i < pkt.want[o] => i \in msgMap[pkt.src][o]

WireOK == \A pkt \in net : PacketOK(pkt)

JobOK ==
    \A n \in Node : rumorJob[n] \in Job =>
        LET job == rumorJob[n] IN
        /\ job.sender # n
        /\ job.id \in msgMap[job.sender][job.origin]
        /\ job.origin # n => routingTable[n][job.origin].seqNum >= job.id
        /\ job.isNew => job.id \in msgMap[n][job.origin]

\* A goroutine spreads a rumour its gossiper stores; one that was told so is
\* right that its peer stores it too.
GoroutineOK(w) ==
    /\ w.id \in msgMap[w.node][w.origin]
    /\ w.phase # "pick" => w.peer \in Node /\ w.peer # w.node
    /\ w.phase = "acked" => w.id \in msgMap[w.peer][w.origin]

MongerOK == \A w \in mongers : GoroutineOK(w)

RouteOK == RouteCoversStore /\ NextHopFresher /\ LoopFree

IInv == TypeOK /\ PeersOK /\ StoreOK /\ WireOK /\ JobOK /\ MongerOK /\ RouteOK

StoreGrows == \A n, o \in Node : msgMap[n][o] \subseteq msgMap'[n][o]

-----------------------------------------------------------------------------
(* Facts used by several actions                                            *)

\* What holds of a packet keeps holding while stores grow.
LEMMA PacketStaysOK ==
    ASSUME StoreGrows, NEW pkt \in Packet, PacketOK(pkt)
    PROVE  PacketOK(pkt)'
<1>1. CASE pkt \in RumorPacket
    BY <1>1 DEF RumorPacket, PacketOK, StoreGrows
<1>2. CASE pkt \in StatusPacket
    BY <1>2 DEF StatusPacket, PacketOK, StoreGrows
<1> QED
    BY <1>1, <1>2 DEF Packet

\* A gossiper's own status packet lists exactly what it stores.
LEMMA OwnStatusOK ==
    ASSUME TypeOK, StoreOK, NEW n \in Node, NEW dst \in Node, dst # n
    PROVE  Status(n, dst) \in StatusPacket /\ PacketOK(Status(n, dst))
<1> DEFINE want == GetOwnStatusPacket(n)
<1>1. ASSUME NEW o \in Node
      PROVE  /\ want[o] \in Nat
             /\ \A i \in Nat \ {0} : i < want[o] => i \in msgMap[n][o]
    <2>1. PICK k \in Nat : msgMap[n][o] = 1..k
        BY DEF StoreOK
    <2>2. HighestID(msgMap[n][o]) = k
        BY <2>1, HighestIDOfPrefix
    <2>3. want[o] = IF o \in entries[n] THEN k + 1 ELSE 0
        BY <2>2 DEF GetOwnStatusPacket
    <2> QED
        BY <2>1, <2>3
<1>2. want \in [Node -> Nat]
    BY <1>1 DEF GetOwnStatusPacket
<1> QED
    BY <1>1, <1>2 DEF Status, StatusPacket, PacketOK

\* AddMessage: the store grows by at most the message, and stays gap-free.
LEMMA AddMessageFacts ==
    ASSUME TypeOK, StoreOK, NEW n \in Node, NEW o \in Node, NEW i \in Nat \ {0},
           AddMessage(n, o, i)
    PROVE  /\ msgMap' \in [Node -> [Node -> SUBSET (Nat \ {0})]]
           /\ entries' \in [Node -> SUBSET Node]
           /\ StoreGrows
           /\ \A m, x \in Node : ~ (m = n /\ x = o) => msgMap'[m][x] = msgMap[m][x]
           /\ \/ msgMap'[n][o] = msgMap[n][o]
              \/ \E k \in Nat : /\ i = k + 1
                                /\ msgMap[n][o] = 1..k
                                /\ msgMap'[n][o] = 1..i
<1> USE DEF TypeOK
<1>1. PICK k \in Nat : msgMap[n][o] = 1..k
    BY DEF StoreOK
<1>2. CASE AddMessageIsNew(msgMap[n][o], i)
    <2>1. msgMap' = [msgMap EXCEPT ![n][o] = @ \cup {i}]
        BY <1>2 DEF AddMessage
    <2>2. i = k + 1 /\ msgMap'[n][o] = 1..i
        BY <1>1, <1>2, <2>1, AddKeepsPrefix
    <2>3. msgMap' \in [Node -> [Node -> SUBSET (Nat \ {0})]]
        BY <2>1
    <2>4. \A m, x \in Node : ~ (m = n /\ x = o) => msgMap'[m][x] = msgMap[m][x]
        BY <2>1
    <2>5. msgMap[n][o] \subseteq msgMap'[n][o]
        BY <2>1
    <2>6. StoreGrows
        BY <2>4, <2>5 DEF StoreGrows
    <2>7. entries' \in [Node -> SUBSET Node]
        BY DEF AddMessage
    <2> QED
        BY <1>1, <2>2, <2>3, <2>4, <2>6, <2>7
<1>3. CASE ~ AddMessageIsNew(msgMap[n][o], i)
    BY <1>3 DEF AddMessage, StoreGrows
<1> QED
    BY <1>2, <1>3

\* What holds of a goroutine keeps holding while stores grow.
LEMMA GoroutineStaysOK ==
    ASSUME StoreGrows, NEW w \in Monger, GoroutineOK(w)
    PROVE  GoroutineOK(w)'
BY DEF Monger, GoroutineOK, StoreGrows

\* A goroutine that is started is well-typed and spreads a stored rumour.
LEMMA NewGoroutineOK ==
    ASSUME NEW n \in Node, NEW o \in Node, NEW i \in Nat,
           NEW p \in Node \cup {NoPeer}, i \in msgMap[n][o]
    PROVE  NewMonger(n, o, i, p) \in Monger /\ GoroutineOK(NewMonger(n, o, i, p))
BY DEF NewMonger, Monger, GoroutineOK

\* Steps that touch only the wire and the goroutines.
LEMMA OutsideNodes ==
    ASSUME IInv, UNCHANGED nodeVars,
           net' \subseteq Packet, \A pkt \in net' : PacketOK(pkt),
           mongers' \subseteq Monger, \A w \in mongers' : GoroutineOK(w)
    PROVE  IInv'
<1>1. /\ peers' = peers /\ seqIDCounter' = seqIDCounter /\ msgMap' = msgMap
      /\ entries' = entries /\ routingTable' = routingTable /\ rumorJob' = rumorJob
    BY DEF nodeVars
<1>2. TypeOK'
    BY <1>1 DEF IInv, TypeOK
<1>3. PeersOK' /\ StoreOK' /\ JobOK' /\ RouteOK'
    BY <1>1 DEF IInv, PeersOK, StoreOK, JobOK, RouteOK, RouteCoversStore,
                NextHopFresher, LoopFree
<1>4. WireOK'
    BY <1>1 DEF WireOK, PacketOK
<1>5. MongerOK'
    BY <1>1 DEF MongerOK, GoroutineOK
<1> QED
    BY <1>2, <1>3, <1>4, <1>5 DEF IInv

-----------------------------------------------------------------------------
(* One lemma per action                                                     *)

\* The first peer a goroutine picks, and every later one, gets a rumour its
\* sender stores.
LEMMA MongerPickStep ==
    ASSUME IInv, NEW w \in mongers, MongerPick(w)
    PROVE  IInv'
<1>1. w \in Monger /\ GoroutineOK(w)
    BY DEF IInv, TypeOK, MongerOK
<1>2. net \subseteq Packet /\ \A pkt \in net : PacketOK(pkt)
    BY DEF IInv, TypeOK, WireOK
<1>3. mongers \subseteq Monger /\ \A v \in mongers : GoroutineOK(v)
    BY DEF IInv, TypeOK, MongerOK
<1>4. UNCHANGED nodeVars
    BY DEF MongerPick
<1>5. CASE mongers' = mongers \ {w} /\ UNCHANGED net
    BY <1>2, <1>3, <1>4, <1>5, OutsideNodes
<1>6. ASSUME NEW p \in peers[w.node] \ {w.peer},
             mongers' = (mongers \ {w}) \cup {[w EXCEPT !.phase = "wait", !.peer = p]},
             Send({Rumor(w.node, p, w.origin, w.id)})
      PROVE  IInv'
    <2> DEFINE v == [w EXCEPT !.phase = "wait", !.peer = p]
               r == Rumor(w.node, p, w.origin, w.id)
    <2>1. p \in Node /\ p # w.node
        BY <1>1, <1>6 DEF IInv, TypeOK, PeersOK, Monger
    <2>2. v \in Monger /\ GoroutineOK(v)
        BY <1>1, <2>1 DEF Monger, GoroutineOK
    <2>3. r \in Packet /\ PacketOK(r)
        BY <1>1, <2>1 DEF Monger, GoroutineOK, Rumor, Packet, RumorPacket, PacketOK
    <2>4. net' = net \cup {r}
        BY <1>6 DEF Send
    <2>5. mongers' = (mongers \ {w}) \cup {v}
        BY <1>6
    <2> HIDE DEF v, r
    <2>6. net' \subseteq Packet /\ \A pkt \in net' : PacketOK(pkt)
        BY <1>2, <2>3, <2>4
    <2>7. mongers' \subseteq Monger /\ \A u \in mongers' : GoroutineOK(u)
        BY <1>3, <2>2, <2>5
    <2> QED
        BY <1>4, <2>6, <2>7, OutsideNodes
<1> QED
    BY <1>5, <1>6 DEF MongerPick

\* A goroutine that flips its coin.
LEMMA FlipCoinStep ==
    ASSUME IInv, NEW w \in mongers, FlipCoin(w)
    PROVE  IInv'
<1>1. w \in Monger /\ GoroutineOK(w)
    BY DEF IInv, TypeOK, MongerOK
<1>2. net' \subseteq Packet /\ \A pkt \in net' : PacketOK(pkt)
    BY DEF IInv, TypeOK, WireOK, FlipCoin
<1>3. mongers \subseteq Monger /\ \A v \in mongers : GoroutineOK(v)
    BY DEF IInv, TypeOK, MongerOK
<1> DEFINE v == [w EXCEPT !.phase = "pick"]
<1>4. v \in Monger /\ GoroutineOK(v)
    BY <1>1 DEF Monger, GoroutineOK
<1>5. mongers' \subseteq mongers \cup {v}
    BY DEF FlipCoin
<1> HIDE DEF v
<1>6. mongers' \subseteq Monger /\ \A u \in mongers' : GoroutineOK(u)
    BY <1>3, <1>4, <1>5
<1>7. UNCHANGED nodeVars
    BY DEF FlipCoin
<1> QED
    BY <1>2, <1>6, <1>7, OutsideNodes

\* UDP loses a packet.
LEMMA LoseStep ==
    ASSUME IInv, NEW pkt \in net, Lose(pkt)
    PROVE  IInv'
<1>1. net' \subseteq Packet /\ \A q \in net' : PacketOK(q)
    BY DEF IInv, TypeOK, WireOK, Lose
<1>2. mongers' \subseteq Monger /\ \A u \in mongers' : GoroutineOK(u)
    BY DEF IInv, TypeOK, MongerOK, Lose
<1>3. UNCHANGED nodeVars
    BY DEF Lose
<1> QED
    BY <1>1, <1>2, <1>3, OutsideNodes

\* The client's message takes the next ID and extends the origin's own store.
LEMMA ClientMessageStep ==
    ASSUME IInv, NEW n \in Node, ClientMessage(n)
    PROVE  IInv'
<1>1. PICK i \in Nat \ {0} : i = seqIDCounter[n] /\ msgMap[n][n] = 1..(i - 1)
    BY DEF IInv, TypeOK, StoreOK
<1> DEFINE w == NewMonger(n, n, i, NoPeer)
<1>2. /\ seqIDCounter' = [seqIDCounter EXCEPT ![n] = i + 1]
      /\ AddMessage(n, n, i)
      /\ mongers' = mongers \cup {w}
      /\ peers' = peers /\ routingTable' = routingTable
      /\ rumorJob' = rumorJob /\ net' = net
    BY <1>1 DEF ClientMessage, StartMonger
<1>3. TypeOK /\ StoreOK
    BY DEF IInv
<1>4. /\ msgMap' \in [Node -> [Node -> SUBSET (Nat \ {0})]]
      /\ entries' \in [Node -> SUBSET Node]
      /\ StoreGrows
      /\ \A m, x \in Node : ~ (m = n /\ x = n) => msgMap'[m][x] = msgMap[m][x]
    BY <1>1, <1>2, <1>3, AddMessageFacts
<1>5. msgMap'[n][n] = 1..i
    <2>1. AddMessageIsNew(msgMap[n][n], i)
        BY <1>1 DEF AddMessageIsNew
    <2>2. msgMap' = [msgMap EXCEPT ![n][n] = @ \cup {i}]
        BY <1>2, <2>1 DEF AddMessage
    <2>3. msgMap'[n][n] = (1..(i - 1)) \cup {i}
        BY <1>1, <1>3, <2>2 DEF TypeOK
    <2> QED
        BY <2>3
<1>6. w \in Monger /\ GoroutineOK(w)'
    <2>1. i \in msgMap'[n][n]
        BY <1>1, <1>5
    <2> QED
        BY <1>1, <2>1 DEF NewMonger, Monger, GoroutineOK
<1> HIDE DEF w
<1>7. TypeOK'
    BY <1>1, <1>2, <1>3, <1>4, <1>6 DEF TypeOK
<1>8. StoreOK'
    <2>1. seqIDCounter'[n] = i + 1 /\ \A o \in Node \ {n} : seqIDCounter'[o] = seqIDCounter[o]
        BY <1>2, <1>3 DEF TypeOK
    <2>2. ASSUME NEW m \in Node, NEW o \in Node
          PROVE  \E k \in Nat : k < seqIDCounter'[o] /\ msgMap'[m][o] = 1..k
        <3>1. CASE m = n /\ o = n
            BY <1>1, <1>5, <2>1, <3>1
        <3>2. CASE ~ (m = n /\ o = n)
            <4>1. PICK k \in Nat : k < seqIDCounter[o] /\ msgMap[m][o] = 1..k
                BY <1>3 DEF StoreOK
            <4>2. seqIDCounter[o] \in Nat /\ seqIDCounter'[o] \in {seqIDCounter[o], seqIDCounter[o] + 1}
                BY <1>1, <1>3, <2>1 DEF TypeOK
            <4>3. k < seqIDCounter'[o]
                BY <4>1, <4>2
            <4> QED
                BY <1>4, <3>2, <4>1, <4>3
        <3> QED
            BY <3>1, <3>2
    <2>3. ASSUME NEW o \in Node
          PROVE  msgMap'[o][o] = 1..(seqIDCounter'[o] - 1)
        <3>1. CASE o = n
            BY <1>1, <1>5, <2>1, <3>1
        <3>2. CASE o # n
            BY <1>3, <1>4, <2>1, <3>2 DEF StoreOK
        <3> QED
            BY <3>1, <3>2
    <2> QED
        BY <2>2, <2>3 DEF StoreOK
<1>9. WireOK'
    BY <1>2, <1>3, <1>4, PacketStaysOK DEF IInv, WireOK, TypeOK
<1>10. MongerOK'
    BY <1>2, <1>3, <1>4, <1>6, GoroutineStaysOK DEF IInv, MongerOK, TypeOK
<1>11. PeersOK' /\ NextHopFresher' /\ LoopFree'
    BY <1>2 DEF IInv, PeersOK, RouteOK, NextHopFresher, LoopFree
<1>12. RouteCoversStore'
    BY <1>2, <1>4 DEF IInv, RouteOK, RouteCoversStore
<1>13. JobOK'
    BY <1>2, <1>4 DEF IInv, JobOK, Job, StoreGrows
<1> QED
    BY <1>7, <1>8, <1>9, <1>10, <1>11, <1>12, <1>13 DEF IInv, RouteOK

\* addMessage for a rumour from a peer: the sender stores it, so the origin
\* submitted it, and the routing table has already accounted for it.
LEMMA RumorStoreStep ==
    ASSUME IInv, NEW n \in Node, RumorStore(n)
    PROVE  IInv'
<1> DEFINE job == rumorJob[n]
           o == job.origin
           i == job.id
           new == [job EXCEPT !.stage = "reply", !.isNew = AddMessageIsNew(msgMap[n][o], i)]
<1>1. TypeOK /\ StoreOK
    BY DEF IInv
<1>2. job \in Job
    BY <1>1 DEF RumorStore, TypeOK, Idle
<1>3. /\ job.sender \in Node /\ job.sender # n /\ o \in Node /\ i \in Nat
      /\ i \in msgMap[job.sender][o]
      /\ o # n => routingTable[n][o].seqNum >= i
    BY <1>2 DEF IInv, JobOK, Job
<1>4. i \in Nat \ {0}
    BY <1>1, <1>3 DEF TypeOK
<1>5. /\ AddMessage(n, o, i)
      /\ rumorJob' = [rumorJob EXCEPT ![n] = new]
      /\ peers' = peers /\ seqIDCounter' = seqIDCounter
      /\ routingTable' = routingTable /\ mongers' = mongers /\ net' = net
    BY DEF RumorStore
<1>6. /\ new \in Job /\ new.sender = job.sender /\ new.origin = o /\ new.id = i
      /\ new.isNew = AddMessageIsNew(msgMap[n][o], i)
    BY <1>2 DEF Job, AddMessageIsNew
<1> HIDE DEF o, i, new
<1>7. /\ msgMap' \in [Node -> [Node -> SUBSET (Nat \ {0})]]
      /\ entries' \in [Node -> SUBSET Node]
      /\ StoreGrows
      /\ \A m, x \in Node : ~ (m = n /\ x = o) => msgMap'[m][x] = msgMap[m][x]
      /\ \/ msgMap'[n][o] = msgMap[n][o]
         \/ \E k \in Nat : i = k + 1 /\ msgMap[n][o] = 1..k /\ msgMap'[n][o] = 1..i
    BY <1>1, <1>3, <1>4, <1>5, AddMessageFacts
<1>8. TypeOK'
    BY <1>1, <1>5, <1>6, <1>7 DEF TypeOK
<1>9. i < seqIDCounter[o]
    <2>1. PICK k \in Nat : k < seqIDCounter[o] /\ msgMap[job.sender][o] = 1..k
        BY <1>1, <1>3 DEF StoreOK
    <2>2. seqIDCounter[o] \in Nat
        BY <1>1, <1>3 DEF TypeOK
    <2> QED
        BY <1>3, <2>1, <2>2
<1>10. StoreOK'
    <2>1. ASSUME NEW m \in Node, NEW x \in Node
          PROVE  \E k \in Nat : k < seqIDCounter'[x] /\ msgMap'[m][x] = 1..k
        <3>1. CASE msgMap'[m][x] = msgMap[m][x]
            BY <1>1, <1>5, <3>1 DEF StoreOK
        <3>2. CASE msgMap'[m][x] # msgMap[m][x]
            BY <1>3, <1>5, <1>7, <1>9, <3>2
        <3> QED
            BY <3>1, <3>2
    <2>2. ASSUME NEW x \in Node
          PROVE  msgMap'[x][x] = 1..(seqIDCounter'[x] - 1)
        <3>1. CASE ~ (x = n /\ x = o)
            BY <1>1, <1>5, <1>7, <3>1 DEF StoreOK
        <3>2. CASE x = n /\ x = o
            <4>1. msgMap[n][o] = 1..(seqIDCounter[o] - 1) /\ seqIDCounter[o] \in Nat
                BY <1>1, <3>2 DEF StoreOK, TypeOK
            <4>2. i \in msgMap[n][o]
                BY <1>4, <1>9, <4>1
            <4>3. msgMap'[n][o] = msgMap[n][o]
                BY <1>5, <4>2 DEF AddMessage, AddMessageIsNew
            <4> QED
                BY <1>5, <3>2, <4>1, <4>3
        <3> QED
            BY <3>1, <3>2
    <2> QED
        BY <2>1, <2>2 DEF StoreOK
<1>11. WireOK'
    BY <1>1, <1>5, <1>7, PacketStaysOK DEF IInv, WireOK, TypeOK
<1>12. MongerOK'
    BY <1>1, <1>5, <1>7, GoroutineStaysOK DEF IInv, MongerOK, TypeOK
<1>13. PeersOK' /\ NextHopFresher' /\ LoopFree'
    BY <1>5 DEF IInv, PeersOK, RouteOK, NextHopFresher, LoopFree
<1>14. RouteCoversStore'
    <2> SUFFICES ASSUME NEW m \in Node, NEW x \in Node, m # x, NEW j \in msgMap'[m][x]
                 PROVE  routingTable[m][x].seqNum >= j
        BY <1>5 DEF RouteCoversStore
    <2>1. CASE j \in msgMap[m][x]
        BY <2>1 DEF IInv, RouteOK, RouteCoversStore
    <2>2. CASE j \notin msgMap[m][x]
        <3>1. m = n /\ x = o /\ j \in 1..i
            BY <1>7, <2>2
        <3>2. routingTable[n][o].seqNum \in Nat
            BY <1>1, <1>3 DEF TypeOK
        <3> QED
            BY <1>3, <3>1, <3>2
    <2> QED
        BY <2>1, <2>2
<1>15. JobOK'
    <2> SUFFICES ASSUME NEW m \in Node, rumorJob'[m] \in Job
                 PROVE  /\ rumorJob'[m].sender # m
                        /\ rumorJob'[m].id \in msgMap'[rumorJob'[m].sender][rumorJob'[m].origin]
                        /\ rumorJob'[m].origin # m =>
                            routingTable[m][rumorJob'[m].origin].seqNum >= rumorJob'[m].id
                        /\ rumorJob'[m].isNew => rumorJob'[m].id \in msgMap'[m][rumorJob'[m].origin]
        BY <1>5 DEF JobOK
    <2>1. CASE m = n
        <3>1. rumorJob'[m] = new
            BY <1>1, <1>5, <2>1 DEF TypeOK
        <3>2. new.isNew => i \in msgMap'[n][o]
            BY <1>1, <1>3, <1>5, <1>6 DEF AddMessage, TypeOK
        <3> QED
            BY <1>3, <1>6, <1>7, <2>1, <3>1, <3>2 DEF StoreGrows
    <2>2. CASE m # n
        <3>1. rumorJob'[m] = rumorJob[m]
            BY <1>1, <1>5, <2>2 DEF TypeOK
        <3> QED
            BY <1>7, <3>1 DEF IInv, JobOK, Job, StoreGrows
    <2> QED
        BY <2>1, <2>2
<1> QED
    BY <1>8, <1>10, <1>11, <1>12, <1>13, <1>14, <1>15 DEF IInv, RouteOK

\* sendStatusPacket and the start of rumorMonger.
LEMMA RumorReplyStep ==
    ASSUME IInv, NEW n \in Node, RumorReply(n)
    PROVE  IInv'
<1>1. TypeOK /\ StoreOK
    BY DEF IInv
<1>2. PICK job \in Job : job = rumorJob[n]
    BY <1>1 DEF RumorReply, TypeOK, Idle
<1>3. /\ job.sender \in Node /\ job.sender # n
      /\ job.origin \in Node /\ job.id \in Nat
    BY <1>2 DEF IInv, JobOK, Job
<1> DEFINE s == Status(n, job.sender)
           w == NewMonger(n, job.origin, job.id, job.sender)
<1>4. /\ net' = net \cup {s}
      /\ rumorJob' = [rumorJob EXCEPT ![n] = Idle]
      /\ peers' = peers /\ seqIDCounter' = seqIDCounter /\ msgMap' = msgMap
      /\ entries' = entries /\ routingTable' = routingTable
    BY <1>2 DEF RumorReply, Send
<1>5. mongers' = mongers \/ (job.isNew /\ mongers' = mongers \cup {w})
    BY <1>2 DEF RumorReply, StartMonger
<1>6. s \in Packet /\ PacketOK(s)
    BY <1>1, <1>3, OwnStatusOK DEF Packet
<1>7. job.isNew => w \in Monger /\ GoroutineOK(w)
    BY <1>2, <1>3, NewGoroutineOK DEF IInv, JobOK
<1> HIDE DEF s, w
<1>8. TypeOK'
    BY <1>1, <1>4, <1>5, <1>6, <1>7 DEF TypeOK
<1>9. PeersOK' /\ StoreOK' /\ RouteOK'
    BY <1>4 DEF IInv, PeersOK, StoreOK, RouteOK, RouteCoversStore, NextHopFresher, LoopFree
<1>10. WireOK'
    BY <1>4, <1>6 DEF IInv, WireOK, PacketOK
<1>11. MongerOK'
    BY <1>4, <1>5, <1>7 DEF IInv, MongerOK, GoroutineOK
<1>12. JobOK'
    <2> SUFFICES ASSUME NEW m \in Node, rumorJob'[m] \in Job
                 PROVE  rumorJob'[m] = rumorJob[m]
        BY <1>4 DEF IInv, JobOK
    <2> QED
        BY <1>1, <1>4 DEF TypeOK, Idle, Job
<1> QED
    BY <1>8, <1>9, <1>10, <1>11, <1>12 DEF IInv

\* SafeRoutingTableEntry.Update keeps the next hops free of cycles.  A cycle
\* through the changed entry would consist, but for n itself, of nodes whose
\* entries are as recent as the new one; none of them points to n, whose old
\* entry was older, so they would have been a cycle before.
LEMMA RouteUpdate ==
    ASSUME TypeOK, NextHopFresher, LoopFree,
           NEW n \in Node, NEW o \in Node, NEW s \in Node, NEW i \in Nat,
           o # n, s # n, i > routingTable[n][o].seqNum,
           s # o => routingTable[s][o].seqNum >= i,
           routingTable' = [routingTable EXCEPT ![n][o] = [seqNum |-> i, address |-> s]]
    PROVE  NextHopFresher' /\ LoopFree'
<1>1. /\ routingTable'[n][o] = [seqNum |-> i, address |-> s]
      /\ \A m, x \in Node : ~ (m = n /\ x = o) => routingTable'[m][x] = routingTable[m][x]
    BY DEF TypeOK
<1>2. \A m, x \in Node : /\ routingTable[m][x].seqNum \in Nat
                         /\ routingTable'[m][x].seqNum \in Nat
                         /\ routingTable'[m][x].seqNum >= routingTable[m][x].seqNum
    BY <1>1 DEF TypeOK
<1>3. NextHopFresher'
    <2> SUFFICES ASSUME NEW m \in Node, NEW x \in Node, routingTable'[m][x].seqNum > 0
                 PROVE  LET entry == routingTable'[m][x] IN
                        /\ entry.address \in Node \ {m}
                        /\ entry.address # x =>
                              routingTable'[entry.address][x].seqNum >= entry.seqNum
        BY DEF NextHopFresher
    <2>1. CASE m = n /\ x = o
        BY <1>1, <2>1
    <2>2. CASE ~ (m = n /\ x = o)
        <3>1. routingTable'[m][x] = routingTable[m][x]
            BY <1>1, <2>2
        <3> DEFINE p == routingTable[m][x].address
        <3>2. p \in Node \ {m} /\ (p # x => routingTable[p][x].seqNum >= routingTable[m][x].seqNum)
            BY <3>1 DEF NextHopFresher
        <3> HIDE DEF p
        <3>3. p # x => routingTable'[p][x].seqNum >= routingTable[m][x].seqNum
            BY <1>2, <3>2
        <3> QED
            BY <3>1, <3>2, <3>3 DEF p
    <2> QED
        BY <2>1, <2>2
<1>4. LoopFree'
    <2> SUFFICES ASSUME NEW x \in Node, NEW S \in (SUBSET (Node \ {x})) \ {{}},
                        \A m \in S : routingTable'[m][x].address \in S
                 PROVE  FALSE
        BY DEF LoopFree
    <2>1. CASE ~ (n \in S /\ x = o)
        BY <1>1, <2>1 DEF LoopFree
    <2>2. CASE n \in S /\ x = o
        <3> DEFINE T == {m \in S \ {n} : routingTable[m][o].seqNum >= i}
        <3>1. s \in T
            BY <1>1, <2>2
        <3>2. ASSUME NEW m \in T
              PROVE  routingTable[m][o].address \in T
            <4> DEFINE p == routingTable[m][o].address
            <4>1. m \in Node /\ m # n /\ routingTable[m][o].seqNum >= i
                OBVIOUS
            <4>2. routingTable[m][o].seqNum > 0
                BY <1>2, <4>1
            <4>3. p \in S
                BY <1>1, <2>2, <4>1
            <4>4. p \in Node /\ p # o
                BY <2>2, <4>3
            <4>5. routingTable[p][o].seqNum >= routingTable[m][o].seqNum
                BY <4>1, <4>2, <4>4 DEF NextHopFresher
            <4> HIDE DEF p
            <4>6. routingTable[p][o].seqNum >= i
                BY <1>2, <4>1, <4>4, <4>5
            <4>7. p # n
                BY <1>2, <4>6
            <4> QED
                BY <4>3, <4>6, <4>7 DEF p
        <3>3. T \in (SUBSET (Node \ {o})) \ {{}}
            BY <2>2, <3>1
        <3> HIDE DEF T
        <3> QED
            BY <3>2, <3>3 DEF LoopFree
    <2> QED
        BY <2>1, <2>2
<1> QED
    BY <1>3, <1>4

\* addToPeers and updateDSDV for a rumour from a peer.
LEMMA RumorReceiveStep ==
    ASSUME IInv, NEW n \in Node, NEW pkt \in net, RumorReceive(n, pkt)
    PROVE  IInv'
<1>1. TypeOK /\ StoreOK /\ NextHopFresher /\ LoopFree /\ RouteCoversStore
    BY DEF IInv, RouteOK
<1>2. PICK s \in Node, o \in Node, i \in Nat : s = pkt.src /\ o = pkt.origin /\ i = pkt.id
    BY <1>1 DEF RumorReceive, TypeOK, Packet, RumorPacket, StatusPacket
<1>3. s # n /\ i \in msgMap[s][o]
    BY <1>2 DEF IInv, WireOK, PacketOK, RumorReceive
<1> DEFINE job == [stage |-> "store", origin |-> o, id |-> i, sender |-> s, isNew |-> FALSE]
<1>4. /\ peers' = [peers EXCEPT ![n] = @ \cup {s}]
      /\ UpdateDSDV(n, o, i, s)
      /\ rumorJob' = [rumorJob EXCEPT ![n] = job]
      /\ seqIDCounter' = seqIDCounter /\ msgMap' = msgMap
      /\ entries' = entries /\ mongers' = mongers
    BY <1>2 DEF RumorReceive
<1>5. net' \subseteq net
    BY DEF RumorReceive, Deliver, Send
<1>6. job \in Job
    BY DEF Job
<1> HIDE DEF job
<1>7. /\ routingTable' \in [Node -> [Node -> [seqNum : Nat, address : Node \cup {NoPeer}]]]
      /\ \A m, x \in Node : routingTable'[m][x].seqNum >= routingTable[m][x].seqNum
      /\ o # n => routingTable'[n][o].seqNum >= i
      /\ NextHopFresher' /\ LoopFree'
    <2>1. CASE o = n \/ ~ (i > routingTable[n][o].seqNum)
        <3>1. routingTable' = routingTable
            BY <1>1, <1>4, <2>1 DEF UpdateDSDV, UpdateEntry, TypeOK
        <3>2. NextHopFresher' /\ LoopFree'
            BY <1>1, <3>1 DEF NextHopFresher, LoopFree
        <3> QED
            BY <1>1, <2>1, <3>1, <3>2 DEF TypeOK
    <2>2. CASE o # n /\ i > routingTable[n][o].seqNum
        <3>1. routingTable' = [routingTable EXCEPT ![n][o] = [seqNum |-> i, address |-> s]]
            BY <1>1, <1>4, <2>2 DEF UpdateDSDV, UpdateEntry, TypeOK
        <3>2. s # o => routingTable[s][o].seqNum >= i
            BY <1>1, <1>3 DEF RouteCoversStore
        <3>3. NextHopFresher' /\ LoopFree'
            BY <1>1, <1>3, <2>2, <3>1, <3>2, RouteUpdate
        <3>4. /\ routingTable' \in [Node -> [Node -> [seqNum : Nat, address : Node \cup {NoPeer}]]]
              /\ \A m, x \in Node : routingTable'[m][x].seqNum >= routingTable[m][x].seqNum
              /\ routingTable'[n][o].seqNum >= i
            BY <1>1, <2>2, <3>1 DEF TypeOK
        <3> QED
            BY <3>3, <3>4
    <2> QED
        BY <2>1, <2>2
<1>8. TypeOK'
    BY <1>1, <1>4, <1>5, <1>6, <1>7 DEF TypeOK
<1>9. PeersOK' /\ StoreOK'
    BY <1>1, <1>3, <1>4 DEF IInv, PeersOK, StoreOK, TypeOK
<1>10. WireOK' /\ MongerOK'
    BY <1>4, <1>5 DEF IInv, WireOK, PacketOK, MongerOK, GoroutineOK
<1>11. RouteCoversStore'
    <2> SUFFICES ASSUME NEW m \in Node, NEW x \in Node, m # x, NEW j \in msgMap[m][x]
                 PROVE  routingTable'[m][x].seqNum >= j
        BY <1>4 DEF RouteCoversStore
    <2>1. routingTable[m][x].seqNum >= j /\ j \in Nat
        BY <1>1 DEF RouteCoversStore, TypeOK
    <2>2. routingTable[m][x].seqNum \in Nat /\ routingTable'[m][x].seqNum \in Nat
        BY <1>1, <1>7 DEF TypeOK
    <2> QED
        BY <1>7, <2>1, <2>2
<1>12. JobOK'
    <2> SUFFICES ASSUME NEW m \in Node, rumorJob'[m] \in Job
                 PROVE  /\ rumorJob'[m].sender # m
                        /\ rumorJob'[m].id \in msgMap[rumorJob'[m].sender][rumorJob'[m].origin]
                        /\ rumorJob'[m].origin # m =>
                            routingTable'[m][rumorJob'[m].origin].seqNum >= rumorJob'[m].id
                        /\ rumorJob'[m].isNew => rumorJob'[m].id \in msgMap[m][rumorJob'[m].origin]
        BY <1>4 DEF JobOK
    <2>1. CASE m = n
        <3>1. rumorJob'[m] = job
            BY <1>1, <1>4, <2>1 DEF TypeOK
        <3> QED
            BY <1>3, <1>7, <2>1, <3>1 DEF job
    <2>2. CASE m # n
        <3>1. rumorJob'[m] = rumorJob[m]
            BY <1>1, <1>4, <2>2 DEF TypeOK
        <3>2. PICK old \in Job : old = rumorJob[m]
            BY <3>1
        <3>3. old.origin \in Node /\ old.id \in Nat
            BY DEF Job
        <3>4. /\ old.sender # m /\ old.id \in msgMap[old.sender][old.origin]
              /\ old.origin # m => routingTable[m][old.origin].seqNum >= old.id
              /\ old.isNew => old.id \in msgMap[m][old.origin]
            BY <3>2 DEF IInv, JobOK
        <3>5. /\ routingTable[m][old.origin].seqNum \in Nat
              /\ routingTable'[m][old.origin].seqNum \in Nat
              /\ routingTable'[m][old.origin].seqNum >= routingTable[m][old.origin].seqNum
            BY <1>1, <1>7, <3>3 DEF TypeOK
        <3> QED
            BY <3>1, <3>2, <3>3, <3>4, <3>5
    <2> QED
        BY <2>1, <2>2
<1> QED
    BY <1>7, <1>8, <1>9, <1>10, <1>11, <1>12 DEF IInv, RouteOK

\* A status packet: goroutines it releases are told the truth, and what is sent
\* in answer is stored.
LEMMA StatusReceiveStep ==
    ASSUME IInv, NEW n \in Node, NEW pkt \in net, StatusReceive(n, pkt)
    PROVE  IInv'
<1>1. TypeOK /\ StoreOK
    BY DEF IInv
<1>2. pkt \in StatusPacket /\ pkt.dst = n /\ PacketOK(pkt)
    BY <1>1 DEF IInv, StatusReceive, TypeOK, Packet, RumorPacket, StatusPacket, WireOK
<1>3. pkt.src \in Node /\ pkt.src # n
    BY <1>2 DEF StatusPacket, PacketOK
<1>4. /\ peers' = [peers EXCEPT ![n] = @ \cup {pkt.src}]
      /\ InformListeners(pkt)
      /\ seqIDCounter' = seqIDCounter /\ msgMap' = msgMap /\ entries' = entries
      /\ routingTable' = routingTable /\ rumorJob' = rumorJob
    BY DEF StatusReceive
<1>5. net' \subseteq net \cup StatusReplies(pkt)
    BY DEF StatusReceive, Deliver, Send
<1>6. ASSUME NEW r \in StatusReplies(pkt)
      PROVE  r \in Packet /\ PacketOK(r)
    <2>1. CASE r \in Updates(pkt)
        <3>1. PICK o \in Node : /\ DifferenceID(pkt.want, o) \in msgMap[n][o]
                                /\ r = Rumor(n, pkt.src, o, DifferenceID(pkt.want, o))
            BY <1>2, <2>1 DEF Updates, DifferenceOrigins
        <3>2. DifferenceID(pkt.want, o) \in Nat
            BY <1>1, <3>1 DEF TypeOK
        <3> QED
            BY <1>3, <3>1, <3>2 DEF Rumor, Packet, RumorPacket, PacketOK
    <2>2. CASE r = Status(n, pkt.src)
        BY <1>1, <1>3, <2>2, OwnStatusOK DEF Packet
    <2> QED
        BY <1>2, <2>1, <2>2 DEF StatusReplies
<1>7. ASSUME NEW w \in mongers
      PROVE  LET v == IF Informed(w, pkt) THEN [w EXCEPT !.phase = "acked"] ELSE w
             IN  v \in Monger /\ GoroutineOK(v)
    <2>1. w \in Monger /\ GoroutineOK(w)
        BY DEF IInv, TypeOK, MongerOK
    <2>2. CASE Informed(w, pkt)
        <3>1. /\ w.peer = pkt.src /\ w.phase = "wait"
              /\ pkt.want[w.origin] > w.id
            BY <2>2 DEF Informed, Listening
        <3>2. /\ w.origin \in Node /\ w.node \in Node /\ w.id \in Nat
              /\ w.id \in msgMap[w.node][w.origin] /\ pkt.want[w.origin] \in Nat
            BY <1>2, <2>1 DEF Monger, GoroutineOK, StatusPacket
        <3>3. w.id \in Nat \ {0}
            BY <1>1, <3>2 DEF TypeOK
        <3>4. w.id \in msgMap[w.peer][w.origin]
            BY <1>2, <3>1, <3>2, <3>3 DEF PacketOK, StatusPacket
        <3> DEFINE v == [w EXCEPT !.phase = "acked"]
        <3>5. v \in Monger /\ GoroutineOK(v)
            BY <2>1, <3>1, <3>4 DEF Monger, GoroutineOK
        <3> QED
            BY <2>2, <3>5
    <2>3. CASE ~ Informed(w, pkt)
        BY <2>1, <2>3
    <2> QED
        BY <2>2, <2>3
<1>8. mongers' \subseteq Monger /\ \A v \in mongers' : GoroutineOK(v)
    BY <1>4, <1>7 DEF InformListeners
<1>9. TypeOK'
    BY <1>1, <1>3, <1>4, <1>5, <1>6, <1>8 DEF TypeOK
<1>10. /\ StoreOK' /\ JobOK'
       /\ RouteCoversStore' /\ NextHopFresher' /\ LoopFree'
    <2>1. StoreOK' /\ JobOK'
        BY <1>4 DEF IInv, StoreOK, JobOK
    <2>2. RouteCoversStore' /\ NextHopFresher'
        BY <1>4 DEF IInv, RouteOK, RouteCoversStore, NextHopFresher
    <2>3. LoopFree'
        BY <1>4 DEF IInv, RouteOK, LoopFree
    <2> QED
        BY <2>1, <2>2, <2>3
<1>11. WireOK'
    BY <1>4, <1>5, <1>6 DEF IInv, WireOK, PacketOK
<1>12. MongerOK'
    BY <1>4, <1>8 DEF MongerOK, GoroutineOK
<1>13. PeersOK'
    BY <1>1, <1>3, <1>4 DEF IInv, PeersOK, TypeOK
<1> QED
    BY <1>9, <1>10, <1>11, <1>12, <1>13 DEF IInv, RouteOK

-----------------------------------------------------------------------------
(* The theorems                                                             *)

\* NewGossiper: empty tables satisfy the inductive invariant.
LEMMA InitEstablishes == Init => IInv
<1> SUFFICES ASSUME Init PROVE IInv
    OBVIOUS
<1>1. TypeOK /\ PeersOK
    BY PeersAssumption DEF Init, TypeOK, PeersOK, Job, Idle
<1>2. StoreOK
    <2>1. \A n, o \in Node : msgMap[n][o] = 1..0 /\ seqIDCounter[o] = 1
        BY DEF Init
    <2>2. \A n, o \in Node : 0 < seqIDCounter[o] /\ seqIDCounter[o] - 1 = 0
        BY <2>1
    <2> QED
        BY <2>1, <2>2 DEF StoreOK
<1>3. WireOK /\ MongerOK
    BY DEF Init, WireOK, MongerOK
<1>4. JobOK
    BY DEF Init, JobOK, Job, Idle
<1>5. RouteOK
    BY PeersAssumption DEF Init, RouteOK, RouteCoversStore, NextHopFresher, LoopFree
<1> QED
    BY <1>1, <1>2, <1>3, <1>4, <1>5 DEF IInv

\* Every step of every routine preserves the inductive invariant.
LEMMA StepPreserves == IInv /\ [Next]_vars => IInv'
<1> SUFFICES ASSUME IInv, [Next]_vars PROVE IInv'
    OBVIOUS
<1>1. ASSUME NEW n \in Node, ClientMessage(n) PROVE IInv'
    BY <1>1, ClientMessageStep
<1>2. ASSUME NEW n \in Node, RumorStore(n) PROVE IInv'
    BY <1>2, RumorStoreStep
<1>3. ASSUME NEW n \in Node, RumorReply(n) PROVE IInv'
    BY <1>3, RumorReplyStep
<1>4. ASSUME NEW n \in Node, NEW pkt \in net, RumorReceive(n, pkt) PROVE IInv'
    BY <1>4, RumorReceiveStep
<1>5. ASSUME NEW n \in Node, NEW pkt \in net, StatusReceive(n, pkt) PROVE IInv'
    BY <1>5, StatusReceiveStep
<1>6. ASSUME NEW w \in mongers, MongerPick(w) PROVE IInv'
    BY <1>6, MongerPickStep
<1>7. ASSUME NEW w \in mongers, MongerTimeout(w) \/ MongerAcked(w) PROVE IInv'
    BY <1>7, FlipCoinStep DEF MongerTimeout, MongerAcked
<1>8. ASSUME NEW pkt \in net, Lose(pkt) PROVE IInv'
    BY <1>8, LoseStep
<1>9. CASE UNCHANGED vars
    <2>1. UNCHANGED nodeVars /\ mongers' = mongers /\ net' = net
        BY <1>9 DEF vars
    <2> QED
        BY <2>1, OutsideNodes DEF IInv, TypeOK, WireOK, MongerOK
<1> QED
    BY <1>1, <1>2, <1>3, <1>4, <1>5, <1>6, <1>7, <1>8, <1>9 DEF Next, Step

\* The inductive invariant holds in every reachable state of every network.
THEOREM Inductive == Spec => []IInv
BY InitEstablishes, StepPreserves, PTL DEF Spec

\* The tables of every gossiper and every packet are well-typed.
THEOREM TypeCorrect == Spec => []TypeOK
<1>1. IInv => TypeOK
    BY DEF IInv
<1> QED
    BY <1>1, Inductive, PTL

\* Every gossiper stores, of every origin, a gap-free prefix of what the
\* origin's client submitted.
THEOREM StoresArePrefixes == Spec => []PrefixOfOrigin
<1>1. IInv => PrefixOfOrigin
    <2> SUFFICES ASSUME IInv, NEW n \in Node, NEW o \in Node
                 PROVE  \E k \in 0..(seqIDCounter[o] - 1) : msgMap[n][o] = 1..k
        BY DEF PrefixOfOrigin
    <2>1. PICK k \in Nat : k < seqIDCounter[o] /\ msgMap[n][o] = 1..k
        BY DEF IInv, StoreOK
    <2>2. seqIDCounter[o] \in Nat
        BY DEF IInv, TypeOK
    <2> QED
        BY <2>1, <2>2
<1> QED
    BY <1>1, Inductive, PTL

\* A goroutine released by InformListeners was told the truth: the peer stores
\* the rumour.
THEOREM AcksAreSound == Spec => []AckSound
<1>1. IInv => AckSound
    BY DEF IInv, MongerOK, GoroutineOK, AckSound
<1> QED
    BY <1>1, Inductive, PTL

\* The next hops towards an origin never form a cycle.
THEOREM RoutesAreLoopFree == Spec => []LoopFree
<1>1. IInv => LoopFree
    BY DEF IInv, RouteOK
<1> QED
    BY <1>1, Inductive, PTL

\* A routing table is as recent as the store it goes with, and the next hop it
\* names is at least as recent.
THEOREM RoutesAreFresh == Spec => []RouteCoversStore /\ []NextHopFresher
<1>1. IInv => RouteCoversStore /\ NextHopFresher
    BY DEF IInv, RouteOK
<1> QED
    BY <1>1, Inductive, PTL

-----------------------------------------------------------------------------
(* Refinement                                                               *)

Learnt == [n \in Node |-> [o \in Node |-> HighestID(msgMap[n][o])]]

\* The number of messages the mapping reads off a gap-free store.
LEMMA LearntOfPrefix ==
    ASSUME NEW n \in Node, NEW o \in Node, NEW k \in Nat, msgMap[n][o] = 1..k
    PROVE  Learnt[n][o] = k
BY HighestIDOfPrefix DEF Learnt

\* Empty stores are the initial state of the broadcast.
LEMMA InitAbstract == Init => Abstract!Init
<1> SUFFICES ASSUME Init
             PROVE  Learnt = [n \in Node |-> [o \in Node |-> 0]]
    BY DEF Abstract!Init, Learnt
<1>1. ASSUME NEW n \in Node, NEW o \in Node
      PROVE  Learnt[n][o] = 0
    <2>1. msgMap[n][o] = 1..0
        BY DEF Init
    <2> QED
        BY <2>1, LearntOfPrefix
<1> QED
    BY <1>1 DEF Learnt

\* One message more in one store is one message more in the abstract state.
LEMMA LearntGrows ==
    ASSUME NEW n \in Node, NEW o \in Node, NEW k \in Nat,
           msgMap[n][o] = 1..k, msgMap'[n][o] = 1..(k + 1),
           \A m, x \in Node : ~ (m = n /\ x = o) => msgMap'[m][x] = msgMap[m][x]
    PROVE  Learnt' = [Learnt EXCEPT ![n][o] = @ + 1] /\ Learnt[n][o] = k
<1>1. Learnt[n][o] = k
    BY LearntOfPrefix
<1>2. Learnt'[n][o] = k + 1
    BY HighestIDOfPrefix DEF Learnt
<1>3. \A m, x \in Node : ~ (m = n /\ x = o) => Learnt'[m][x] = Learnt[m][x]
    BY DEF Learnt
<1>4. \A m \in Node : /\ Learnt[m] = [x \in Node |-> Learnt[m][x]]
                      /\ Learnt'[m] = [x \in Node |-> Learnt'[m][x]]
    BY DEF Learnt
<1>5. Learnt = [m \in Node |-> Learnt[m]] /\ Learnt' = [m \in Node |-> Learnt'[m]]
    BY DEF Learnt
<1> DEFINE New == [m \in Node |-> [x \in Node |-> IF m = n /\ x = o THEN k + 1 ELSE Learnt[m][x]]]
<1> HIDE DEF Learnt
<1>6. Learnt' = New
    <2>1. \A m \in Node : Learnt'[m] = [x \in Node |-> IF m = n /\ x = o THEN k + 1 ELSE Learnt[m][x]]
        BY <1>2, <1>3, <1>4
    <2> QED
        BY <1>5, <2>1
<1>7. [Learnt EXCEPT ![n][o] = @ + 1] = New
    <2>1. [Learnt EXCEPT ![n][o] = @ + 1] = [m \in Node |-> IF m = n THEN [Learnt[n] EXCEPT ![o] = @ + 1] ELSE Learnt[m]]
        BY <1>5
    <2>2. [Learnt[n] EXCEPT ![o] = @ + 1] = [x \in Node |-> IF x = o THEN k + 1 ELSE Learnt[n][x]]
        BY <1>1, <1>4
    <2>3. \A m \in Node : m # n => Learnt[m] = [x \in Node |-> IF m = n /\ x = o THEN k + 1 ELSE Learnt[m][x]]
        BY <1>4
    <2>4. \A m \in Node : (IF m = n THEN [Learnt[n] EXCEPT ![o] = @ + 1] ELSE Learnt[m]) = New[m]
        BY <2>2, <2>3
    <2> QED
        BY <2>1, <2>4
<1> QED
    BY <1>1, <1>6, <1>7

\* A step submits one message, teaches one gossiper one message, or changes no
\* store.
LEMMA StepAbstract == IInv /\ [Next]_vars => [Abstract!Next]_Learnt
<1> SUFFICES ASSUME IInv, [Next]_vars PROVE Abstract!Next \/ Learnt' = Learnt
    BY DEF Learnt
<1>1. TypeOK /\ StoreOK
    BY DEF IInv
<1>2. CASE msgMap' = msgMap
    BY <1>2 DEF Learnt
<1>3. ASSUME NEW n \in Node, ClientMessage(n) PROVE Abstract!Next
    <2>1. PICK k \in Nat : seqIDCounter[n] = k + 1 /\ msgMap[n][n] = 1..k
        BY <1>1 DEF TypeOK, StoreOK
    <2>2. AddMessage(n, n, k + 1) /\ n \in Clients /\ k + 1 <= MaxID
        BY <1>3, <2>1 DEF ClientMessage
    <2>3. AddMessageIsNew(msgMap[n][n], k + 1)
        BY <2>1 DEF AddMessageIsNew
    <2>4. msgMap' = [msgMap EXCEPT ![n][n] = @ \cup {k + 1}]
        BY <2>2, <2>3 DEF AddMessage
    <2>5. msgMap'[n][n] = (1..k) \cup {k + 1}
        BY <1>1, <2>1, <2>4 DEF TypeOK
    <2>6. msgMap'[n][n] = 1..(k + 1)
        BY <2>5
    <2>7. \A m, x \in Node : ~ (m = n /\ x = n) => msgMap'[m][x] = msgMap[m][x]
        BY <1>1, <2>4 DEF TypeOK
    <2>8. Learnt' = [Learnt EXCEPT ![n][n] = @ + 1] /\ Learnt[n][n] = k
        BY <2>1, <2>6, <2>7, LearntGrows
    <2>9. k < MaxID
        BY <2>2, BoundAssumption
    <2>10. Abstract!Submit(n)
        BY <2>8, <2>9 DEF Abstract!Submit, Learnt
    <2> QED
        BY <2>2, <2>10 DEF Abstract!Next
<1>4. ASSUME NEW n \in Node, RumorStore(n), msgMap' # msgMap PROVE Abstract!Next
    <2> DEFINE job == rumorJob[n]
    <2>1. job \in Job
        BY <1>1, <1>4 DEF RumorStore, TypeOK, Idle
    <2>2. PICK o \in Node, i \in Nat, s \in Node :
                o = job.origin /\ i = job.id /\ s = job.sender /\ i \in msgMap[s][o]
        BY <2>1 DEF IInv, JobOK, Job
    <2>3. i \in Nat \ {0}
        BY <1>1, <2>2 DEF TypeOK
    <2>4. AddMessage(n, o, i)
        BY <1>4, <2>2 DEF RumorStore
    <2>5. AddMessageIsNew(msgMap[n][o], i) /\ msgMap' = [msgMap EXCEPT ![n][o] = @ \cup {i}]
        BY <1>4, <2>4 DEF AddMessage
    <2>6. PICK k \in Nat : msgMap[n][o] = 1..k
        BY <1>1 DEF StoreOK
    <2>7. i = k + 1 /\ (1..k) \cup {i} = 1..(k + 1)
        BY <2>3, <2>5, <2>6, AddKeepsPrefix
    <2>8. msgMap'[n][o] = 1..(k + 1)
        BY <1>1, <2>5, <2>6, <2>7 DEF TypeOK
    <2>9. \A m, x \in Node : ~ (m = n /\ x = o) => msgMap'[m][x] = msgMap[m][x]
        BY <1>1, <2>5 DEF TypeOK
    <2>10. Learnt' = [Learnt EXCEPT ![n][o] = @ + 1] /\ Learnt[n][o] = k
        BY <2>6, <2>8, <2>9, LearntGrows
    <2>11. PICK c \in Nat : seqIDCounter[o] = c + 1 /\ msgMap[o][o] = 1..c
        BY <1>1 DEF TypeOK, StoreOK
    <2>12. Learnt[o][o] = c
        BY <2>11, LearntOfPrefix
    <2>13. i <= c
        <3>1. PICK j \in Nat : j < seqIDCounter[o] /\ msgMap[s][o] = 1..j
            BY <1>1 DEF StoreOK
        <3> QED
            BY <2>2, <2>11, <3>1
    <2>14. n # o
        BY <2>3, <2>5, <2>11, <2>13 DEF AddMessageIsNew
    <2>15. Abstract!Learn(n, o)
        BY <2>7, <2>10, <2>12, <2>13, <2>14 DEF Abstract!Learn, Learnt
    <2> QED
        BY <2>15 DEF Abstract!Next
<1>5. \/ msgMap' = msgMap
      \/ \E n \in Node : ClientMessage(n) \/ RumorStore(n)
    BY DEF Next, Step, vars, nodeVars, RumorReply, RumorReceive, StatusReceive, MongerPick,
           MongerTimeout, MongerAcked, FlipCoin, Lose
<1> QED
    BY <1>2, <1>3, <1>4, <1>5

\* Rumour mongering and the status exchange implement the ordered broadcast:
\* every step is one message submitted, one learnt in order, or invisible.
THEOREM GossipImplementsBroadcast == Spec => ImplementsBroadcast
<1>1. Init => Abstract!Init
    BY InitAbstract
<1>2. IInv /\ [Next]_vars => [Abstract!Next]_Learnt
    BY StepAbstract
<1> QED
    BY <1>1, <1>2, Inductive, PTL DEF Spec, ImplementsBroadcast, Abstract!Spec, Learnt

-----------------------------------------------------------------------------
(* The routes.  A rumour on the wire was heard of by its sender, which      *)
(* WireOK and RouteCoversStore say together, and so the entry it makes      *)
(* points to a gossiper that is at least as well informed.                  *)

\* A step makes a rumour of o, changes one entry for o to a newer one, or changes
\* nothing about o.
LEMMA StepRoutes ==
    ASSUME IInv, [Next]_vars, NEW o \in Node
    PROVE  RoutesTo(o)!NextOrStutter
<1>1. TypeOK /\ StoreOK /\ RouteCoversStore
    BY DEF IInv, RouteOK
<1>2. CASE seqIDCounter' = seqIDCounter /\ routingTable' = routingTable
    BY <1>2 DEF RoutesTo!NextOrStutter
<1>3. ASSUME NEW n \in Node, ClientMessage(n)
      PROVE  RoutesTo(o)!NextOrStutter
    <2>1. routingTable' = routingTable /\ seqIDCounter' = [seqIDCounter EXCEPT ![n] = @ + 1]
        BY <1>3 DEF ClientMessage
    <2>2. seqIDCounter[n] <= MaxID /\ seqIDCounter[n] \in Nat \ {0}
        BY <1>1, <1>3 DEF ClientMessage, TypeOK
    <2>3. CASE n = o
        <3>1. seqIDCounter'[o] = seqIDCounter[o] + 1
            BY <1>1, <2>1, <2>3 DEF TypeOK
        <3>2. seqIDCounter[o] - 1 < MaxID /\ seqIDCounter'[o] - 1 = seqIDCounter[o] - 1 + 1
            BY <2>2, <2>3, <3>1, BoundAssumption
        <3>3. RoutesTo(o)!NewRumor
            BY <2>1, <3>2 DEF RoutesTo!NewRumor
        <3> QED
            BY <3>3 DEF RoutesTo!NextOrStutter, RoutesTo!Next
    <2>4. CASE n # o
        <3>1. seqIDCounter'[o] = seqIDCounter[o]
            BY <1>1, <2>1, <2>4 DEF TypeOK
        <3> QED
            BY <2>1, <3>1 DEF RoutesTo!NextOrStutter
    <2> QED
        BY <2>3, <2>4
<1>4. ASSUME NEW n \in Node, NEW pkt \in net, RumorReceive(n, pkt)
      PROVE  RoutesTo(o)!NextOrStutter
    <2>1. PICK s \in Node, x \in Node, i \in Nat : s = pkt.src /\ x = pkt.origin /\ i = pkt.id
        BY <1>1, <1>4 DEF RumorReceive, TypeOK, Packet, RumorPacket, StatusPacket
    <2>2. s # n /\ i \in msgMap[s][x] /\ UpdateDSDV(n, x, i, s) /\ seqIDCounter' = seqIDCounter
        BY <1>4, <2>1 DEF IInv, WireOK, PacketOK, RumorReceive
    <2>3. CASE x = n \/ ~ (i > routingTable[n][x].seqNum)
        <3>1. routingTable' = routingTable
            BY <1>1, <2>2, <2>3 DEF UpdateDSDV, UpdateEntry, TypeOK
        <3> QED
            BY <1>2, <2>2, <3>1
    <2>4. CASE x # n /\ i > routingTable[n][x].seqNum
        <3>1. routingTable' = [routingTable EXCEPT ![n][x] = [seqNum |-> i, address |-> s]]
            BY <1>1, <2>2, <2>4 DEF UpdateDSDV, UpdateEntry, TypeOK
        <3>2. CASE x = o
            <4> DEFINE entries_o == [m \in Node |-> routingTable[m][o]]
            <4>1. [m \in Node |-> routingTable'[m][o]] =
                        [entries_o EXCEPT ![n] = [seqNum |-> i, address |-> s]]
                BY <1>1, <3>1, <3>2 DEF TypeOK
            <4>2. i \in 1..(seqIDCounter[o] - 1)
                <5>1. PICK k \in Nat : k < seqIDCounter[o] /\ msgMap[s][o] = 1..k
                    BY <1>1 DEF StoreOK
                <5>2. i \in 1..k /\ seqIDCounter[o] \in Nat
                    BY <1>1, <2>2, <3>2, <5>1 DEF TypeOK
                <5> QED
                    BY <5>1, <5>2
            <4>3. s # o => routingTable[s][o].seqNum >= i /\ routingTable[s][o].seqNum \in Nat
                BY <1>1, <2>2, <3>2 DEF RouteCoversStore, TypeOK
            <4>4. RoutesTo(o)!LearnRoute(n, s, i)
                BY <1>1, <2>2, <2>4, <3>2, <4>1, <4>2, <4>3
                   DEF RoutesTo!LearnRoute, RoutesTo!Heard, TypeOK
            <4> QED
                BY <4>2, <4>4 DEF RoutesTo!NextOrStutter, RoutesTo!Next
        <3>3. CASE x # o
            <4>1. \A m \in Node : routingTable'[m][o] = routingTable[m][o]
                BY <1>1, <3>1, <3>3 DEF TypeOK
            <4> QED
                BY <2>2, <4>1 DEF RoutesTo!NextOrStutter
        <3> QED
            BY <3>2, <3>3
    <2> QED
        BY <2>3, <2>4
<1>5. \/ seqIDCounter' = seqIDCounter /\ routingTable' = routingTable
      \/ \E n \in Node : ClientMessage(n)
      \/ \E n \in Node, pkt \in net : RumorReceive(n, pkt)
    BY DEF Next, Step, vars, nodeVars, RumorStore, RumorReply, StatusReceive, MongerPick,
           MongerTimeout, MongerAcked, FlipCoin, Lose
<1> QED
    BY <1>2, <1>3, <1>4, <1>5

\* The routing tables implement module Routes for every origin: updateDSDV on rumours
\* that are lost, repeated and late only ever points an entry to a gossiper that has
\* heard of the origin as recently.
THEOREM GossipImplementsRoutes == Spec => ImplementsRoutes
<1>1. Init => \A o \in Node : RoutesTo(o)!Init
    BY DEF Init, RoutesTo!Init
<1>2. IInv /\ [Next]_vars => [\A o \in Node : RoutesTo(o)!NextOrStutter]_vars
    BY StepRoutes
<1> QED
    BY <1>1, <1>2, Inductive, PTL DEF Spec, ImplementsRoutes
=============================================================================
