------------------------------ MODULE Kademlia ------------------------------
(***************************************************************************)
(* The DHT of one gossiper: its bucket table, the routine that handles DHT *)
(* messages, and the iterative lookups behind StoreInDHT and LookupValue   *)
(* (gossiper/dhtAPI.go, dht.go, kBuckets.go, dht/SafeNodeStateArray.go,    *)
(* dht/helpers.go).  One key is stored and looked up.  The other nodes are *)
(* external: they answer from tables that do not change.                   *)
(***************************************************************************)
EXTENDS Integers, FiniteSets, SequencesExt

CONSTANTS
    Node,         \* the nodes of the DHT
    Me,           \* the node modelled in detail
    ID,           \* ID[n]: the bits of the NodeID of n
    Key,          \* the bits of the key
    Knows,        \* Knows[n]: the table of another node n, in bucket order
    Heard,        \* nodes this one may have heard from before its first lookup
    BucketSize,   \* bucketSize: nodes in a bucket and in a result
    Alpha,        \* nodes queried at once in a round
    MaxOps,       \* bound: lookups of the client and requests of other nodes
    Loses         \* TRUE when UDP may lose packets

Other == Node \ {Me}
Bits == DOMAIN Key

ASSUME IDAssumption ==
    /\ IsFiniteSet(Node) /\ Me \in Node /\ Heard \subseteq Other
    /\ Key \in Seq({0, 1}) /\ ID \in [Node -> [Bits -> {0, 1}]]
    /\ \A n, m \in Node : ID[n] = ID[m] => n = m
    /\ \A n \in Other : Knows[n] \in Seq(Node \ {n})
\* A bucket of one node would be empty while that node is being replaced.
ASSUME BoundAssumption == /\ {BucketSize, Alpha} \subseteq Nat \ {0} /\ BucketSize > 1
                          /\ MaxOps \in Nat /\ Loses \in BOOLEAN

VARIABLES
    table,      \* table[i]: the bucket of nodes that share i - 1 leading bits
    routine,    \* dhtMessageListenRoutine: idle, or in sendPing for a full bucket
    net,        \* DHT messages on the wire
    lookup,     \* the lookup of the client
    ops,        \* how many lookups were started
    requests,   \* how many requests of other nodes were sent
    holders,    \* nodes that store the value
    disturbed   \* history: a message was lost or a lookup timed out

vars == <<table, routine, net, lookup, ops, requests, holders, disturbed>>

-----------------------------------------------------------------------------
(* dht/helpers.go.  Of two IDs the one that agrees with the target in the   *)
(* first bit where they differ has the smaller xor distance.                *)

FirstDifference(a, b) ==
    CHOOSE i \in Bits : a[i] # b[i] /\ \A j \in Bits : j < i => a[j] = b[j]

\* Node m is closer to the key than node n.
isCloser == [n \in Node |-> [m \in Node |->
    ID[n] # ID[m] /\ LET i == FirstDifference(ID[n], ID[m]) IN ID[m][i] = Key[i]]]

\* The bucket of the common leading bits.
BucketOf == [n \in Other |-> FirstDifference(ID[Me], ID[n])]

InsertOrdered(closest, n) ==
    LET at == {i \in DOMAIN closest : isCloser[closest[i]][n]} IN
    IF at = {} THEN Append(closest, n) ELSE InsertAt(closest, Min(at), n)

\* alphaClosest: the first nodes of the table are taken as they come.
AlphaClosest(nodes, alpha) ==
    LET results[k \in 0..Len(nodes)] ==
            IF k <= alpha THEN SubSeq(nodes, 1, k)
            ELSE SubSeq(InsertOrdered(results[k - 1], nodes[k]), 1, alpha)
    IN  results[Len(nodes)]

\* updateNode for a node the bucket has or has room for: it comes first.
PutFirstKeeps(nodes, n) == <<n>> \o nodes     \* mutant: the node is not removed from its old place
PutFirst(nodes, n) ==
    LET last == Min({i \in DOMAIN nodes : nodes[i] = n} \cup {Len(nodes) + 1}) IN
    [j \in (DOMAIN nodes) \cup {last} |->
        IF j = 1 THEN n ELSE nodes[IF j <= last THEN j - 1 ELSE j]]

\* What another node answers to a lookup of the key.
Answer == [n \in Other |-> AlphaClosest(Knows[n], BucketSize)]

\* The buckets one after the other.
Flat(buckets) ==
    LET upTo[i \in 0..Len(Key)] == IF i = 0 THEN <<>> ELSE upTo[i - 1] \o buckets[i]
    IN  upTo[Len(Key)]

\* The "k" closest nodes of a set.
KClosest(S, k) == {n \in S : Cardinality({m \in S : isCloser[n][m]}) < k}

-----------------------------------------------------------------------------
Idle == [at |-> "idle"]

\* Messages of other nodes for this one.
ToMe == {"reply", "pingreply", "request"}

NoLookup == [kind |-> "none", phase |-> "done", exists |-> {}, queried |-> {},
             responded |-> {}, arrived |-> {}, waiting |-> {}, closer |-> FALSE,
             found |-> FALSE, certain |-> FALSE]

InitialBucket(i) ==
    {s \in UNION {[1..k -> {n \in Heard : BucketOf[n] = i}] : k \in 0..BucketSize} :
        \A j, k \in DOMAIN s : s[j] = s[k] => j = k}

Init ==
    /\ table \in [Bits -> UNION {InitialBucket(i) : i \in Bits}]
    /\ \A i \in Bits : table[i] \in InitialBucket(i)
    /\ \E i \in Bits : table[i] # <<>>
    /\ routine = Idle /\ net = {} /\ lookup = NoLookup
    /\ ops = 0 /\ requests = 0 /\ holders = {} /\ disturbed = FALSE

-----------------------------------------------------------------------------
(* SafeNodeStateArray.  The array is ordered by distance, so its set of     *)
(* nodes says everything.  InsertArray stops at the first node that becomes *)
(* the closest one: "closer || Insert" does not call Insert any more.       *)

NewClosest(exists, nodes, i) ==
    LET before == exists \cup {nodes[j] : j \in 1..(i - 1)} IN
    /\ nodes[i] \notin before \cup {Me}
    /\ \A n \in before \ {Me} : isCloser[n][nodes[i]]

InsertArray(l, nodes) ==
    LET hits == {i \in DOMAIN nodes : NewClosest(l.exists, nodes, i)}
        last == IF hits = {} THEN Len(nodes) ELSE Min(hits)
    IN  [l EXCEPT !.exists = @ \cup ({nodes[j] : j \in 1..last} \ {Me}),
                  !.closer = (hits # {})]

GetAlphaUnqueried(l) == KClosest(l.exists \ l.queried, Alpha)

\* GetKClosestUnqueried skips nodes that were queried and did not respond.
Candidates(l) == KClosest(l.responded \cup (l.exists \ l.queried), BucketSize)
GetKClosestUnqueried(l) == Candidates(l) \ l.queried

-----------------------------------------------------------------------------
(* The phases of a lookup                                                   *)

Query(l, phase, nodes) ==
    [l EXCEPT !.phase = IF nodes = {} THEN "done" ELSE phase, !.closer = FALSE,
              !.queried = @ \cup nodes, !.waiting = nodes]

LookupRound(l) == Query(l, "round", GetAlphaUnqueried(l))
LookupFinalPhase(l) == Query(l, "final", GetKClosestUnqueried(l))
NextPhaseStops(l) ==    \* mutant: no closer node ends the lookup
    IF l.closer THEN LookupRound(l) ELSE [l EXCEPT !.phase = "done", !.waiting = {}]
NextPhase(l) == IF l.closer THEN LookupRound(l) ELSE LookupFinalPhase(l)

\* LookupNodes returns the closest nodes that responded, and this node.
Closest(l) == KClosest((Candidates(l) \cap l.responded) \cup {Me}, BucketSize)

\* What a lookup sends as it goes on from having queried "before": queries for the
\* nodes now queried, and at the end of StoreInDHT the store for the closest node.
SendDue(before, op) ==
    net' = net \cup {[type |-> "query", peer |-> n, op |-> op] : n \in lookup'.queried \ before}
               \cup {[type |-> "store", peer |-> n] :
                       n \in {m \in KClosest(Closest(lookup'), 1) :
                                 lookup'.kind = "store" /\ lookup'.phase = "done"}}

\* What alphaClosest may read of a bucket that updateNode is rotating: there is no
\* lock, and any of its places may hold the node of before or after the copy.
Rotating(n) ==
    LET old == table[BucketOf[n]] IN
    {[table EXCEPT ![BucketOf[n]] = [j \in DOMAIN old |-> IF j \in done THEN PutFirst(old, n)[j]
                                                                     ELSE old[j]]] :
        done \in SUBSET DOMAIN old}

\* ... or between the drop of a node that was pinged in vain and its replacement.
Dropping ==
    {[table EXCEPT ![BucketOf[msg.peer]] = SubSeq(@, 1, BucketSize - 1)] :
        msg \in IF routine = Idle THEN {} ELSE {routine.msg}}

Views ==
    {table} \cup Dropping \cup UNION {Rotating(n) : n \in {m \in Other :
        /\ routine = Idle /\ m \in ToSet(table[BucketOf[m]])
        /\ \E msg \in net : msg.peer = m /\ msg.type \in ToMe}}

\* StoreInDHT and LookupValue, which first looks into its own database.
StartLookup(kind, view) ==
    /\ lookup.phase = "done" /\ ops + requests < MaxOps
    /\ ops' = ops + 1
    /\ LET new == [NoLookup EXCEPT !.kind = kind, !.certain = (holders # {})]
           nodes == AlphaClosest(Flat(view), Alpha)
       IN  lookup' = IF kind = "value" /\ Me \in holders THEN [new EXCEPT !.found = TRUE]
                     ELSE LookupRound(InsertArray(new, nodes))
    /\ SendDue({}, ops + 1)
    /\ UNCHANGED <<table, routine, requests, holders, disturbed>>

\* The select of a phase takes the answer of one node.
SelectReply(n, msg) ==
    LET taken == [InsertArray(lookup, msg.nodes) EXCEPT !.waiting = @ \ {n},
                                                        !.arrived = @ \ {msg}]
    IN
    /\ lookup.phase # "done" /\ n \in lookup.waiting /\ msg \in lookup.arrived /\ msg.peer = n
    /\ lookup' = CASE msg.data -> [lookup EXCEPT !.phase = "done", !.found = TRUE]
                   [] ~ msg.data /\ lookup.waiting # {n} -> taken
                   [] ~ msg.data /\ lookup.waiting = {n} -> NextPhase(taken)
    /\ SendDue(lookup.queried, ops)
    /\ UNCHANGED <<table, routine, ops, requests, holders, disturbed>>

SelectTimeoutFinal ==   \* mutant: the ticker of every round is stopped at once
    /\ lookup.phase = "final"
    /\ lookup' = NextPhase(lookup)
    /\ SendDue(lookup.queried, ops)
    /\ disturbed' = TRUE
    /\ UNCHANGED <<table, routine, ops, requests, holders>>

\* The ticker of a phase; lookupRound of LookupNodes stops its ticker at once.
SelectTimeout ==
    /\ lookup.phase = "final" \/ (lookup.phase = "round" /\ lookup.kind = "value")
    /\ lookup' = NextPhase(lookup)
    /\ SendDue(lookup.queried, ops)
    /\ disturbed' = TRUE
    /\ UNCHANGED <<table, routine, ops, requests, holders>>

-----------------------------------------------------------------------------
(* The other nodes                                                          *)

\* replyLookupNode and replyLookupKey of another node.
Reply(msg) ==
    /\ msg.type = "query"
    /\ LET data == lookup.kind = "value" /\ msg.peer \in holders IN
       net' = (net \ {msg}) \cup
           {[type |-> "reply", peer |-> msg.peer, op |-> msg.op, data |-> data,
             nodes |-> IF data THEN <<>> ELSE Answer[msg.peer]]}
    /\ UNCHANGED <<table, routine, lookup, ops, requests, holders, disturbed>>

\* replyStore of another node.
ReplyStore(msg) ==
    /\ msg.type = "store" /\ msg.peer # Me
    /\ net' = net \ {msg}
    /\ holders' = holders \cup {msg.peer}
    /\ UNCHANGED <<table, routine, lookup, ops, requests, disturbed>>

\* Another node pings this one or looks something up.
Request(n) ==
    /\ ops + requests < MaxOps
    /\ requests' = requests + 1
    /\ net' = net \cup {[type |-> "request", peer |-> n]}
    /\ UNCHANGED <<table, routine, lookup, ops, holders, disturbed>>

Lose(msg) ==
    /\ Loses /\ net' = net \ {msg} /\ disturbed' = TRUE
    /\ UNCHANGED <<table, routine, lookup, ops, requests, holders>>

-----------------------------------------------------------------------------
(* dhtMessageListenRoutine                                                  *)

\* InformListener and lookupSingle, for a reply of the running lookup; the
\* value is stored.  Requests are answered without a change of state here.
Handle(msg) ==
    /\ lookup' = IF msg.type = "reply" /\ msg.op = ops
                 THEN [lookup EXCEPT !.responded = @ \cup {msg.peer}, !.arrived = @ \cup {msg}]
                 ELSE lookup
    /\ holders' = IF msg.type = "store" THEN holders \cup {Me} ELSE holders

\* A message whose sender is known, has room in its bucket, or is this node.
Receive(msg) ==
    LET n == msg.peer IN
    /\ routine = Idle
    /\ \/ msg.type \in ToMe
       \/ msg.type = "store" /\ n = Me
    /\ \/ n = Me /\ UNCHANGED table
       \/ /\ n # Me
          /\ n \in ToSet(table[BucketOf[n]]) \/ Len(table[BucketOf[n]]) < BucketSize
          /\ table' = [table EXCEPT ![BucketOf[n]] = PutFirst(@, n)]
    /\ net' = net \ {msg}
    /\ Handle(msg)
    /\ UNCHANGED <<routine, ops, requests, disturbed>>

\* The bucket of the sender is full: its last node is pinged, and answers.
ReceivePing(msg) ==
    LET n == msg.peer
        nodes == table[BucketOf[n]]
    IN
    /\ routine = Idle
    /\ msg.type \in ToMe
    /\ n \notin ToSet(nodes) /\ Len(nodes) >= BucketSize
    /\ net' = (net \ {msg}) \cup {[type |-> "pingreply", peer |-> nodes[BucketSize]]}
    /\ routine' = [at |-> "ping", peer |-> nodes[BucketSize], msg |-> msg]
    /\ UNCHANGED <<table, lookup, ops, requests, holders, disturbed>>

\* sendPing gives up, the last node is dropped and the sender put first; what a lookup
\* may read in between is in Dropping.  An answer could only be handled by this
\* routine, so its other outcome does not happen.
PingTimeout ==
    LET msg == routine.msg
        i == BucketOf[msg.peer]
    IN
    /\ routine # Idle
    /\ table' = [table EXCEPT ![i] = <<msg.peer>> \o SubSeq(@, 1, BucketSize - 1)]
    /\ Handle(msg)
    /\ routine' = Idle
    /\ UNCHANGED <<net, ops, requests, disturbed>>

-----------------------------------------------------------------------------
Routine == PingTimeout \/ \E msg \in net : Receive(msg) \/ ReceivePing(msg)
Remote == \E msg \in net : Reply(msg) \/ ReplyStore(msg)
Select == SelectTimeout \/ \E n \in lookup.waiting, msg \in lookup.arrived : SelectReply(n, msg)

Next ==
    \/ Routine \/ Remote \/ Select
    \/ \E kind \in {"store", "value"}, view \in Views : StartLookup(kind, view)
    \/ \E n \in Other : Request(n)
    \/ \E msg \in net : Lose(msg)

Spec == Init /\ [][Next]_vars

\* Goroutines that can run do run and other nodes answer.  The routine takes its
\* messages from a channel, first come first served, so a reply that arrived is
\* not overtaken for ever by the answers to pings.
FairSpec ==
    /\ Spec /\ WF_vars(Routine) /\ WF_vars(Remote) /\ WF_vars(Select)
    /\ SF_vars(\E msg \in net : msg.type = "reply" /\ (Receive(msg) \/ ReceivePing(msg)))

-----------------------------------------------------------------------------
(* Properties                                                               *)

Message ==
    [type : {"query"}, peer : Other, op : 1..MaxOps]
        \cup [type : {"reply"}, peer : Other, op : 1..MaxOps, data : BOOLEAN, nodes : Seq(Node)]
        \cup [type : {"store"}, peer : Node]
        \cup [type : {"pingreply", "request"}, peer : Other]

\* No bucket is longer than bucketSize or lists a node twice, and every node is
\* in the bucket of its common leading bits.
TypeOK ==
    /\ DOMAIN table = Bits
    /\ \A i \in Bits : /\ table[i] \in Seq({n \in Other : BucketOf[n] = i})
                       /\ Len(table[i]) <= BucketSize
                       /\ Cardinality(ToSet(table[i])) = Len(table[i])
    /\ routine = Idle \/ (routine.peer \in Other /\ routine.msg \in Message)
    /\ net \subseteq Message
    /\ lookup.kind \in {"none", "store", "value"} /\ lookup.phase \in {"round", "final", "done"}
    /\ lookup.exists \cup lookup.queried \cup lookup.responded \subseteq Other
    /\ lookup.arrived \subseteq Message
    /\ lookup.waiting \subseteq lookup.queried
    /\ {lookup.closer, lookup.found, lookup.certain, disturbed} \subseteq BOOLEAN
    /\ ops \in 0..MaxOps /\ requests \in 0..MaxOps /\ holders \subseteq Node

\* The network can be searched: whoever is not the closest node names a closer one.
Navigable ==
    \A n \in Other : (\E m \in Node : isCloser[n][m])
                      => \E m \in ToSet(Answer[n]) \ {Me} : isCloser[n][m]

\* In a network that can be searched, where nothing is lost or late, the value is
\* stored at the node whose ID is closest to the key, whatever part of the network
\* this node knows, although InsertArray forgets nodes it is told and the last
\* answer of a round alone decides whether there is another one.
StoredAtClosest ==
    (Navigable /\ ~ disturbed) => \A n \in holders, m \in Node : ~ isCloser[n][m]

\* In such a network LookupValue finds a value that was stored before, although
\* the table may have changed in between.
StoredIsFound ==
    (/\ Navigable /\ ~ disturbed
     /\ lookup.kind = "value" /\ lookup.phase = "done" /\ lookup.certain)
    => lookup.found

\* LookupValue ends whatever is lost, and LookupNodes (behind StoreInDHT) unless a
\* message was lost or some lookup before it, or its own final phase, timed out: all
\* of these set "disturbed".
LookupEnds ==
    lookup.phase # "done" ~> \/ lookup.phase = "done"
                             \/ lookup.kind = "store" /\ disturbed

\* Every lookup ends, as the timeout case of each select in dhtAPI.go promises.
LookupTimesOut == lookup.phase # "done" ~> lookup.phase = "done"
=============================================================================
