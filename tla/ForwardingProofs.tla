-------------------------- MODULE ForwardingProofs --------------------------
(***************************************************************************)
(* Packets on DSDV routes that change under them: a packet comes back to a *)
(* gossiper only along a newer route, and is dropped only if it came back; *)
(* for any network and any hop limit.                                      *)
(*                                                                         *)
(* The argument: give every entry that is or was in a routing table a      *)
(* rank, the time at which it was learnt.  A next hop that forwards with   *)
(* the sequence number it was chosen for learnt it earlier, so as long as  *)
(* the sequence number of a packet's routes stays the same, the rank       *)
(* decreases from hop to hop.                                              *)
(***************************************************************************)
EXTENDS Forwarding, FiniteSetTheorems, SequenceTheorems, TLAPS

-----------------------------------------------------------------------------
(* The inductive invariant                                                  *)

Entry == [node : Node \ {Dest}, seqNum : 1..MaxSeq]

\* How recently every gossiper has heard of the destination.
heard == [n \in Node |-> DSDV!Heard(n)]

\* The next hop of a route has heard of the destination as recently as the route says.
RouteOK ==
    /\ counter \in 0..MaxSeq
    /\ table \in [Node -> [seqNum : 0..MaxSeq, address : Node \cup {NoPeer}]]
    /\ table[Dest].seqNum = 0
    /\ \A n \in Node : table[n].seqNum # 0 =>
            table[n].address \in Node /\ heard[table[n].address] >= table[n].seqNum

\* Every packet is on the wire, arrived or dropped; the last two only once.
CountOK ==
    /\ sent \in 0..MaxSent /\ arrived \in Nat
    /\ IsFiniteSet(packets) /\ arrived + Cardinality(packets) <= sent

\* A packet on the wire has used at most one hop less than its trail is long.
HopsOK ==
    /\ packets \subseteq [trail : Seq(Entry), hops : 1..HopLimit, to : Node]
    /\ \A p \in packets : Len(p.trail) # 0 /\ Len(p.trail) + p.hops >= HopLimit

DropsOK ==
    /\ dropped \subseteq [trail : Seq(Entry), hops : 1..HopLimit, to : Node \ {Dest}]
    /\ \A p \in dropped : Len(p.trail) >= HopLimit - 1

\* The times R at which sequence numbers were learnt, all before now, and decreasing
\* along routes.
Ranks(R, now) ==
    /\ R \in [Node -> [1..MaxSeq -> Nat]] /\ now \in Nat
    /\ \A n \in Node, i \in 1..MaxSeq : R[n][i] < now
    /\ \A n, q \in Node :
        /\ table[n].seqNum # 0 /\ table[n].address = q
        /\ q # Dest /\ table[q].seqNum = table[n].seqNum
        => R[q][table[n].seqNum] < R[n][table[n].seqNum]

\* The entries that a trail passed are no newer than those of their gossipers, and in
\* the order of their sequence numbers and, if these are equal, of their times.
TrailOK(trail, R) ==
    /\ \A i \in DOMAIN trail : trail[i].seqNum <= table[trail[i].node].seqNum
    /\ \A i, j \in DOMAIN trail : i < j =>
        /\ trail[i].seqNum <= trail[j].seqNum
        /\ trail[i].seqNum = trail[j].seqNum =>
            R[trail[j].node][trail[j].seqNum] < R[trail[i].node][trail[i].seqNum]

\* So is the entry of the gossiper n that receives the packet.
NextOK(trail, n, R) ==
    \A i \in DOMAIN trail :
        /\ trail[i].seqNum <= heard[n]
        /\ n # Dest /\ trail[i].seqNum = table[n].seqNum =>
            R[n][trail[i].seqNum] < R[trail[i].node][trail[i].seqNum]

Ordered(R, now) ==
    /\ Ranks(R, now)
    /\ \A p \in packets \cup dropped : TrailOK(p.trail, R)
    /\ \A p \in packets : NextOK(p.trail, p.to, R)

IInv ==
    /\ RouteOK /\ CountOK /\ HopsOK /\ DropsOK
    /\ \E R \in [Node -> [1..MaxSeq -> Nat]] : \E now \in Nat : Ordered(R, now)

-----------------------------------------------------------------------------
(* What the definitions say                                                 *)

\* The entries of a trail.
LEMMA TrailType ==
    ASSUME NEW t \in Seq(Entry)
    PROVE  /\ Len(t) \in Nat /\ DOMAIN t = 1..Len(t)
           /\ \A i \in DOMAIN t : /\ t[i] \in Entry /\ t[i].node \in Node /\ t[i].node # Dest
                                  /\ t[i].seqNum \in 1..MaxSeq /\ t[i].seqNum \in Nat
<1>1. \A i \in DOMAIN t : t[i] \in Entry
  OBVIOUS
<1>2. \A e \in Entry : /\ e.node \in Node /\ e.node # Dest
                       /\ e.seqNum \in 1..MaxSeq /\ e.seqNum \in Nat
  BY LimitAssumption DEF Entry
<1> QED  BY <1>1, <1>2

\* What a gossiper heard, and what its entry says.
LEMMA HeardType ==
    ASSUME RouteOK, NEW n \in Node
    PROVE  /\ heard[n] = IF n = Dest THEN counter ELSE table[n].seqNum
           /\ heard[n] \in Nat /\ table[n].seqNum \in Nat /\ table[n].seqNum \in 0..MaxSeq
<1>1. heard[n] = IF n = Dest THEN counter ELSE table[n].seqNum
  BY DEF heard, DSDV!Heard
<1>2. table[n].seqNum \in Nat /\ table[n].seqNum \in 0..MaxSeq /\ counter \in Nat
  BY LimitAssumption DEF RouteOK
<1> QED  BY <1>1, <1>2

-----------------------------------------------------------------------------
(* The routes change                                                        *)

\* The destination makes a rumour: it is newer than all routes.
LEMMA NewRumorKeeps ==
    ASSUME IInv, DSDV!NewRumor, UNCHANGED <<packets, sent, arrived, dropped>>
    PROVE  IInv'
<1>1. counter \in 0..MaxSeq /\ counter < MaxSeq /\ counter' = counter + 1 /\ table' = table
  BY DEF IInv, RouteOK, DSDV!NewRumor
<1>2. MaxSeq \in Nat
  BY LimitAssumption
<1>3. \A n \in Node : /\ table[n].seqNum \in Nat /\ heard[n] \in Nat
                      /\ heard'[n] \in Nat /\ heard'[n] >= heard[n]
                      /\ n # Dest => heard'[n] = table[n].seqNum
  <2>1. \A n \in Node : heard'[n] = IF n = Dest THEN counter' ELSE table'[n].seqNum
    BY DEF heard, DSDV!Heard
  <2> QED  BY <1>1, <2>1, HeardType DEF IInv
<1>4. RouteOK'
  <2>1. ASSUME NEW n \in Node, table[n].seqNum # 0
        PROVE  table[n].address \in Node /\ heard'[table[n].address] >= table[n].seqNum
    <3>1. table[n].address \in Node /\ heard[table[n].address] >= table[n].seqNum
      BY <2>1 DEF IInv, RouteOK
    <3> QED  BY <1>3, <3>1
  <2> QED  BY <1>1, <1>2, <2>1 DEF IInv, RouteOK
<1>5. CountOK' /\ HopsOK' /\ DropsOK'
  BY DEF IInv, CountOK, HopsOK, DropsOK
<1>6. PICK R \in [Node -> [1..MaxSeq -> Nat]] : \E now \in Nat : Ordered(R, now)
  BY DEF IInv
<1>7. PICK now \in Nat : Ordered(R, now)
  BY <1>6
<1>8. Ranks(R, now)' /\ \A p \in packets \cup dropped : TrailOK(p.trail, R)'
  BY <1>1, <1>7 DEF Ordered, Ranks, TrailOK
<1>9. ASSUME NEW p \in packets  PROVE NextOK(p.trail, p.to, R)'
  <2>1. NextOK(p.trail, p.to, R) /\ p.to \in Node /\ p.trail \in Seq(Entry)
    BY <1>7 DEF Ordered, IInv, HopsOK
  <2>2. \A i \in DOMAIN p.trail : p.trail[i].seqNum \in Nat
    BY <2>1, TrailType
  <2> QED  BY <1>1, <1>3, <2>1, <2>2 DEF NextOK
<1>10. Ordered(R, now)'
  BY <1>8, <1>9 DEF Ordered
<1> QED  BY <1>4, <1>5, <1>10 DEF IInv

\* A gossiper learns a newer route: no packet has passed it yet, and its rank is above
\* all others.
LEMMA LearnRouteKeeps ==
    ASSUME IInv, NEW n \in Node, NEW q \in Node, NEW i \in 1..counter,
           DSDV!LearnRoute(n, q, i), UNCHANGED <<packets, sent, arrived, dropped>>
    PROVE  IInv'
<1>1. /\ n # Dest /\ n # q /\ i \in 1..MaxSeq /\ i <= heard[q] /\ i > table[n].seqNum
      /\ table' = [table EXCEPT ![n] = [seqNum |-> i, address |-> q]] /\ counter' = counter
  <2>1. i \in 1..MaxSeq
    BY LimitAssumption DEF IInv, RouteOK
  <2>2. i <= heard[q]
    BY DEF DSDV!LearnRoute, heard
  <2> QED  BY <2>1, <2>2 DEF DSDV!LearnRoute
<1>2. table \in [Node -> [seqNum : 0..MaxSeq, address : Node \cup {NoPeer}]]
  BY DEF IInv, RouteOK
<1>3. /\ table'[n].seqNum = i /\ table'[n].address = q
      /\ \A k \in Node : k # n => table'[k] = table[k]
      /\ \A k \in Node : table[k].seqNum \in Int /\ table'[k].seqNum \in Int
      /\ \A k \in Node : table'[k].seqNum >= table[k].seqNum
  BY <1>1, <1>2
<1>4. /\ \A k \in Node : heard[k] \in Nat /\ heard'[k] \in Nat /\ heard'[k] >= heard[k]
      /\ \A k \in Node : k # n => heard'[k] = heard[k]
      /\ heard[n] = table[n].seqNum /\ heard'[n] = i
  <2>1. \A k \in Node : heard'[k] = IF k = Dest THEN counter' ELSE table'[k].seqNum
    BY DEF heard, DSDV!Heard
  <2>2. \A k \in Node : heard[k] = IF k = Dest THEN counter ELSE table[k].seqNum
    BY DEF heard, DSDV!Heard
  <2>3. \A k \in Node : heard[k] \in Nat
    BY HeardType DEF IInv
  <2>4. heard[n] = table[n].seqNum /\ heard'[n] = i /\ i \in Nat
    BY <1>1, <1>3, <2>1, <2>2
  <2>5. \A k \in Node : k # n => heard'[k] = heard[k]
    BY <1>1, <1>3, <2>1, <2>2
  <2> QED  BY <1>1, <2>3, <2>4, <2>5
<1>5. RouteOK'
  <2>1. table' \in [Node -> [seqNum : 0..MaxSeq, address : Node \cup {NoPeer}]]
    BY <1>1, <1>2
  <2>2. ASSUME NEW k \in Node, table'[k].seqNum # 0
        PROVE  table'[k].address \in Node /\ heard'[table'[k].address] >= table'[k].seqNum
    <3>1. CASE k = n
      BY <1>1, <1>3, <1>4, <3>1
    <3>2. CASE k # n
      <4>1. table'[k] = table[k]
        BY <1>3, <3>2
      <4>2. table[k].address \in Node /\ heard[table[k].address] >= table[k].seqNum
        BY <2>2, <4>1 DEF IInv, RouteOK
      <4> QED  BY <1>3, <1>4, <4>1, <4>2
    <3> QED  BY <3>1, <3>2
  <2> QED  BY <1>1, <1>3, <2>1, <2>2, NodeAssumption DEF IInv, RouteOK
<1>6. CountOK' /\ HopsOK' /\ DropsOK'
  BY DEF IInv, CountOK, HopsOK, DropsOK
<1>7. PICK R \in [Node -> [1..MaxSeq -> Nat]] : \E now \in Nat : Ordered(R, now)
  BY DEF IInv
<1>8. PICK now \in Nat : Ordered(R, now)
  BY <1>7
<1> DEFINE S == [R EXCEPT ![n][i] = now]
<1>9. /\ S \in [Node -> [1..MaxSeq -> Nat]] /\ S[n][i] = now
      /\ \A k \in Node, j \in 1..MaxSeq : k # n \/ j # i => S[k][j] = R[k][j]
  BY <1>1
<1> HIDE DEF S
<1>10. Ranks(S, now + 1)'
  <2>1. \A k \in Node, j \in 1..MaxSeq : R[k][j] \in Nat /\ R[k][j] < now
    BY <1>8 DEF Ordered, Ranks
  <2>2. \A k \in Node, j \in 1..MaxSeq : S[k][j] < now + 1
    BY <1>1, <1>9, <2>1
  <2>3. ASSUME NEW k \in Node, NEW m \in Node, table'[k].seqNum # 0, table'[k].address = m,
               m # Dest, table'[m].seqNum = table'[k].seqNum
        PROVE  S[m][table'[k].seqNum] < S[k][table'[k].seqNum]
    <3>1. table'[k].seqNum \in 1..MaxSeq
      BY <1>5, <2>3 DEF RouteOK
    <3>2. CASE k = n
      BY <1>1, <1>3, <1>9, <2>1, <2>3, <3>2
    <3>3. CASE k # n
      <4>1. m # n
        <5>1. m \in Node /\ heard[m] >= table[k].seqNum /\ table[k] = table'[k]
          BY <1>3, <2>3, <3>3 DEF IInv, RouteOK
        <5> QED  BY <1>1, <1>3, <1>4, <2>3, <5>1
      <4>2. table'[k] = table[k] /\ table'[m] = table[m]
        BY <1>3, <3>3, <4>1
      <4>3. R[m][table[k].seqNum] < R[k][table[k].seqNum]
        BY <1>8, <2>3, <4>2 DEF Ordered, Ranks
      <4> QED  BY <1>9, <3>1, <3>3, <4>1, <4>2, <4>3
    <3> QED  BY <3>2, <3>3
  <2> QED  BY <1>9, <2>2, <2>3 DEF Ranks
\* No trail has passed the new entry.
<1>11. ASSUME NEW p \in packets \cup dropped, NEW j \in DOMAIN p.trail
       PROVE  /\ p.trail[j] \in Entry
              /\ p.trail[j].seqNum <= table[p.trail[j].node].seqNum
              /\ S[p.trail[j].node][p.trail[j].seqNum] = R[p.trail[j].node][p.trail[j].seqNum]
  <2>1. p.trail \in Seq(Entry)
    BY DEF IInv, HopsOK, DropsOK
  <2>2. p.trail[j] \in Entry
    BY <2>1
  <2>3. p.trail[j].seqNum <= table[p.trail[j].node].seqNum
    BY <1>8 DEF Ordered, TrailOK
  <2>4. /\ p.trail[j].node \in Node /\ p.trail[j].seqNum \in 1..MaxSeq
        /\ p.trail[j].seqNum \in Nat
    BY <2>1, TrailType
  <2>5. p.trail[j].node # n \/ p.trail[j].seqNum # i
    BY <1>1, <1>3, <2>3, <2>4
  <2> QED  BY <1>9, <2>2, <2>3, <2>4, <2>5
<1>12. ASSUME NEW p \in packets \cup dropped  PROVE TrailOK(p.trail, S)'
  <2>1. \A j \in DOMAIN p.trail : p.trail[j].seqNum <= table'[p.trail[j].node].seqNum
    <3>1. \A j \in DOMAIN p.trail : p.trail[j].node \in Node /\ p.trail[j].seqNum \in Nat
      BY <1>11, LimitAssumption DEF Entry
    <3> QED  BY <1>3, <1>11, <3>1
  <2>2. TrailOK(p.trail, R)
    BY <1>8 DEF Ordered
  <2>3. \A j, k \in DOMAIN p.trail : j < k =>
            /\ p.trail[j].seqNum <= p.trail[k].seqNum
            /\ p.trail[j].seqNum = p.trail[k].seqNum =>
                S[p.trail[k].node][p.trail[k].seqNum] < S[p.trail[j].node][p.trail[j].seqNum]
    BY <1>11, <2>2 DEF TrailOK
  <2> QED  BY <2>1, <2>3 DEF TrailOK
<1>13. ASSUME NEW p \in packets  PROVE NextOK(p.trail, p.to, S)'
  <2>1. NextOK(p.trail, p.to, R) /\ p.to \in Node
    BY <1>8 DEF Ordered, IInv, HopsOK
  <2>2. ASSUME NEW j \in DOMAIN p.trail
        PROVE  /\ p.trail[j].seqNum <= heard'[p.to]
               /\ p.to # Dest /\ p.trail[j].seqNum = table'[p.to].seqNum =>
                    S[p.to][p.trail[j].seqNum] < S[p.trail[j].node][p.trail[j].seqNum]
    <3>1. p.trail[j].seqNum \in 1..MaxSeq /\ p.trail[j].seqNum <= heard[p.to]
      BY <1>11, <2>1 DEF NextOK, Entry
    <3>5. p.trail[j].seqNum \in Nat
      BY <3>1, LimitAssumption
    <3>2. p.trail[j].seqNum <= heard'[p.to]
      BY <1>4, <2>1, <3>1, <3>5
    <3>3. CASE p.to = n
      BY <1>1, <1>3, <1>4, <3>1, <3>2, <3>3, <3>5
    <3>4. CASE p.to # n
      BY <1>3, <1>9, <1>11, <2>1, <3>1, <3>2, <3>4 DEF NextOK
    <3> QED  BY <3>3, <3>4
  <2> QED  BY <2>2 DEF NextOK
<1>14. Ordered(S, now + 1)'
  BY <1>10, <1>12, <1>13 DEF Ordered
<1> QED  BY <1>5, <1>6, <1>9, <1>14 DEF IInv

-----------------------------------------------------------------------------
(* A packet goes on                                                         *)

\* The hop limit does not wrap: a packet on the wire has a hop left.
LEMMA Decrement ==
    ASSUME NEW hops \in 1..HopLimit
    PROVE  DecrementHopCount(hops) = hops - 1
<1>1. 2 ^ HopBits \in Int /\ HopLimit \in Nat /\ HopLimit < 2 ^ HopBits
  BY LimitAssumption
<1> QED  BY <1>1 DEF DecrementHopCount

\* Only gossipers other than the destination have a route.
LEMMA RouteIsOthers ==
    ASSUME RouteOK, NEW n \in Node, HasRoute(n)
    PROVE  /\ n # Dest /\ table[n].seqNum \in 1..MaxSeq /\ GetNextHop(n) \in Node
           /\ heard[n] = table[n].seqNum
           /\ heard[GetNextHop(n)] >= table[n].seqNum
<1>1. n # Dest /\ table[n].seqNum # 0
  BY DEF RouteOK, HasRoute
<1> QED  BY <1>1, HeardType DEF RouteOK, GetNextHop

\* A trail in order is in order with the entry of the gossiper that sends the packet
\* on, and with that of its next hop.
LEMMA HopOrdered ==
    ASSUME RouteOK, NEW R \in [Node -> [1..MaxSeq -> Nat]], NEW now \in Nat, Ranks(R, now),
           NEW p, p.trail \in Seq(Entry), NEW n \in Node, HasRoute(n), NEW hops,
           TrailOK(p.trail, R), NextOK(p.trail, n, R)
    PROVE  LET q == Hop(p, n, hops) IN
           /\ q.trail \in Seq(Entry) /\ Len(q.trail) = Len(p.trail) + 1
           /\ q.to \in Node /\ q.hops = hops
           /\ TrailOK(q.trail, R) /\ NextOK(q.trail, q.to, R)
<1> DEFINE e == [node |-> n, seqNum |-> table[n].seqNum]
           q == Hop(p, n, hops)
           t == p.trail
           l == Len(t)
<1>1. /\ n # Dest /\ table[n].seqNum \in 1..MaxSeq /\ GetNextHop(n) \in Node
      /\ heard[n] = table[n].seqNum
      /\ heard[GetNextHop(n)] >= table[n].seqNum
  BY RouteIsOthers
<1>2. e \in Entry
  BY <1>1 DEF Entry
<1>3. /\ q.trail = Append(t, e) /\ q.to = GetNextHop(n) /\ q.hops = hops
  BY DEF Hop
<1>4. /\ q.trail \in Seq(Entry) /\ Len(q.trail) = l + 1 /\ DOMAIN q.trail = 1..(l + 1)
      /\ q.trail[l + 1] = e /\ \A i \in 1..l : q.trail[i] = t[i]
      /\ DOMAIN t = 1..l /\ l \in Nat
  BY <1>2, <1>3
<1>5. \A i \in 1..l : /\ t[i] \in Entry /\ t[i].seqNum <= table[n].seqNum
                      /\ t[i].seqNum = table[n].seqNum =>
                            R[n][table[n].seqNum] < R[t[i].node][t[i].seqNum]
  BY <1>1, <1>4, TrailType DEF NextOK
<1>6. TrailOK(q.trail, R)
  <2>1. \A i \in 1..(l + 1) : q.trail[i].seqNum <= table[q.trail[i].node].seqNum
    <3>1. ASSUME NEW i \in 1..(l + 1)
          PROVE  q.trail[i].seqNum <= table[q.trail[i].node].seqNum
      <4>1. CASE i = l + 1
        BY <1>1, <1>4, <4>1
      <4>2. CASE i \in 1..l
        BY <1>4, <4>2 DEF TrailOK
      <4> QED  BY <1>4, <4>1, <4>2
    <3> QED  BY <3>1
  <2>2. ASSUME NEW i \in 1..(l + 1), NEW j \in 1..(l + 1), i < j
        PROVE  /\ q.trail[i].seqNum <= q.trail[j].seqNum
               /\ q.trail[i].seqNum = q.trail[j].seqNum =>
                    R[q.trail[j].node][q.trail[j].seqNum] < R[q.trail[i].node][q.trail[i].seqNum]
    <3>1. CASE j = l + 1
      <4>1. i \in 1..l /\ q.trail[i] = t[i] /\ q.trail[j] = e
        BY <1>4, <2>2, <3>1
      <4> QED  BY <1>5, <4>1
    <3>2. CASE j # l + 1
      <4>1. i \in 1..l /\ j \in 1..l /\ q.trail[i] = t[i] /\ q.trail[j] = t[j]
        BY <1>4, <2>2, <3>2
      <4> QED  BY <1>4, <2>2, <4>1 DEF TrailOK
    <3> QED  BY <3>1, <3>2
  <2> QED  BY <1>4, <2>1, <2>2 DEF TrailOK
<1>7. NextOK(q.trail, q.to, R)
  <2> DEFINE m == GetNextHop(n)
             s == table[n].seqNum
  <2>1. heard[m] \in Nat /\ s \in Nat /\ (m # Dest => heard[m] = table[m].seqNum)
    BY <1>1, HeardType
  <2>2. m # Dest /\ table[m].seqNum = s => R[m][s] < R[n][s]
    BY <1>1, <2>1 DEF Ranks, GetNextHop
  <2>3. \A k \in Node : R[k][s] \in Nat
    BY <1>1
  <2>4. ASSUME NEW i \in 1..(l + 1)
        PROVE  /\ q.trail[i].seqNum <= heard[m]
               /\ m # Dest /\ q.trail[i].seqNum = table[m].seqNum =>
                    R[m][q.trail[i].seqNum] < R[q.trail[i].node][q.trail[i].seqNum]
    <3>1. CASE i = l + 1
      BY <1>1, <1>4, <2>2, <3>1
    <3>2. CASE i # l + 1
      <4>1. q.trail[i] = t[i] /\ t[i] \in Entry /\ t[i].node \in Node /\ t[i].seqNum \in Nat
        BY <1>4, <3>2, TrailType
      <4>2. t[i].seqNum <= s /\ (t[i].seqNum = s => R[n][s] < R[t[i].node][s])
        BY <1>4, <1>5, <3>2
      <4>3. s <= heard[m]
        BY <1>1, <2>1
      <4>4. t[i].seqNum <= heard[m]
        BY <2>1, <4>1, <4>2, <4>3
      <4>5. ASSUME m # Dest, t[i].seqNum = table[m].seqNum
            PROVE  R[m][t[i].seqNum] < R[t[i].node][t[i].seqNum]
        <5>1. t[i].seqNum = s /\ table[m].seqNum = s
          BY <2>1, <4>1, <4>2, <4>3, <4>5
        <5>2. R[m][s] < R[n][s] /\ R[n][s] < R[t[i].node][s]
          BY <2>2, <4>2, <4>5, <5>1
        <5> QED  BY <1>1, <2>3, <4>1, <5>1, <5>2
      <4> QED  BY <4>1, <4>4, <4>5
    <3> QED  BY <3>1, <3>2
  <2> QED  BY <1>3, <1>4, <2>4 DEF NextOK
<1> QED  BY <1>1, <1>3, <1>4, <1>6, <1>7

-----------------------------------------------------------------------------
(* The packets                                                              *)

\* A packet that leaves its sender, with or without a hop counted, is in order.
LEMMA LaunchKeeps ==
    ASSUME IInv, NEW n \in Node, HasRoute(n), NEW hops \in 1..HopLimit, hops >= HopLimit - 1,
           sent < MaxSent, packets' = packets \cup {Hop(New, n, hops)}, sent' = sent + 1,
           UNCHANGED <<routeVars, arrived, dropped>>
    PROVE  IInv'
<1> DEFINE q == Hop(New, n, hops)
<1>1. counter' = counter /\ table' = table /\ arrived' = arrived /\ dropped' = dropped
  BY DEF routeVars
<1>2. PICK R \in [Node -> [1..MaxSeq -> Nat]] : \E now \in Nat : Ordered(R, now)
  BY DEF IInv
<1>3. PICK now \in Nat : Ordered(R, now)
  BY <1>2
<1>4. New.trail = <<>> /\ New.trail \in Seq(Entry) /\ Len(New.trail) = 0
  BY DEF New
<1>5. TrailOK(New.trail, R) /\ NextOK(New.trail, n, R)
  BY <1>4 DEF TrailOK, NextOK
<1>6. /\ q.trail \in Seq(Entry) /\ Len(q.trail) = Len(New.trail) + 1
      /\ q.to \in Node /\ q.hops = hops
      /\ TrailOK(q.trail, R) /\ NextOK(q.trail, q.to, R)
  <2>1. RouteOK /\ Ranks(R, now)
    BY <1>3 DEF IInv, Ordered
  <2> QED  BY <1>4, <1>5, <2>1, HopOrdered
<1>7. /\ q \in [trail : Seq(Entry), hops : 1..HopLimit, to : Node]
      /\ packets' = packets \cup {q}
  BY <1>6 DEF Hop
<1> HIDE DEF q
<1>8. RouteOK' /\ DropsOK'
  BY <1>1 DEF IInv, RouteOK, DropsOK, heard, DSDV!Heard
<1>9. CountOK'
  <2>1. /\ IsFiniteSet(packets')
        /\ Cardinality(packets') \in {Cardinality(packets), Cardinality(packets) + 1}
    <3>1. IsFiniteSet(packets)
      BY DEF IInv, CountOK
    <3>2. /\ IsFiniteSet(packets \cup {q})
          /\ Cardinality(packets \cup {q}) =
                IF q \in packets THEN Cardinality(packets) ELSE Cardinality(packets) + 1
      BY <3>1, FS_AddElement
    <3>3. packets' = packets \cup {q}
      BY <1>7
    <3> QED  BY <3>2, <3>3
  <2>2. Cardinality(packets) \in Nat
    BY FS_CardinalityType DEF IInv, CountOK
  <2> QED  BY <1>1, <2>1, <2>2, LimitAssumption DEF IInv, CountOK
<1>10. HopsOK'
  <2>1. HopLimit \in Nat /\ hops \in Nat
    BY LimitAssumption
  <2>2. Len(q.trail) # 0 /\ Len(q.trail) + q.hops >= HopLimit
    BY <1>4, <1>6, <2>1
  <2> QED  BY <1>7, <2>2 DEF IInv, HopsOK
<1>11. Ordered(R, now)'
  <2>1. Ranks(R, now)'
    BY <1>1, <1>3 DEF Ordered, Ranks
  <2>2. \A p \in packets' \cup dropped' : TrailOK(p.trail, R)'
    BY <1>1, <1>3, <1>6, <1>7 DEF Ordered, TrailOK
  <2>3. \A p \in packets' : NextOK(p.trail, p.to, R)'
    BY <1>1, <1>3, <1>6, <1>7 DEF Ordered, NextOK, heard, DSDV!Heard
  <2> QED  BY <2>1, <2>2, <2>3 DEF Ordered
<1> QED  BY <1>8, <1>9, <1>10, <1>11 DEF IInv

\* A packet that could not leave its sender only counts as sent.
LEMMA NoRouteKeeps ==
    ASSUME IInv, sent < MaxSent, sent' = sent + 1, UNCHANGED <<routeVars, packets, arrived, dropped>>
    PROVE  IInv'
<1>1. /\ counter' = counter /\ table' = table /\ packets' = packets
      /\ arrived' = arrived /\ dropped' = dropped
  BY DEF routeVars
<1>2. RouteOK' /\ HopsOK' /\ DropsOK'
  BY <1>1 DEF IInv, RouteOK, HopsOK, DropsOK, heard, DSDV!Heard
<1>3. CountOK'
  <2>1. Cardinality(packets) \in Nat
    BY FS_CardinalityType DEF IInv, CountOK
  <2> QED  BY <1>1, <2>1, LimitAssumption DEF IInv, CountOK
<1>4. \A R, now : Ordered(R, now) => Ordered(R, now)'
  BY <1>1 DEF Ordered, Ranks, TrailOK, NextOK, heard, DSDV!Heard
<1> QED  BY <1>2, <1>3, <1>4 DEF IInv

\* A client sends a private message.
LEMMA ClientPMKeeps ==
    ASSUME IInv, NEW n \in Node, ClientPM(n)
    PROVE  IInv'
<1>1. HopLimit \in 1..HopLimit /\ HopLimit >= HopLimit - 1
  BY LimitAssumption
<1>2. CASE HasRoute(n)
  BY <1>1, <1>2, LaunchKeeps DEF ClientPM
<1>3. CASE ~ HasRoute(n)
  BY <1>3, NoRouteKeeps DEF ClientPM
<1> QED  BY <1>2, <1>3

\* A data request or a reply is sent.
LEMMA SendDataKeeps ==
    ASSUME IInv, NEW n \in Node, SendData(n)
    PROVE  IInv'
<1>1. HopLimit \in Nat /\ HopLimit \in 1..HopLimit /\ DecrementHopCount(HopLimit) = HopLimit - 1
  BY LimitAssumption, Decrement
<1>2. CASE Forwards(n, New)
  <2>1. HasRoute(n) /\ HopLimit - 1 > 0
    BY <1>1, <1>2 DEF Forwards, New
  <2>2. HopLimit - 1 \in 1..HopLimit /\ HopLimit - 1 >= HopLimit - 1
    BY <1>1, <2>1
  <2> QED  BY <1>1, <1>2, <2>1, <2>2, LaunchKeeps DEF SendData
<1>3. CASE ~ Forwards(n, New)
  BY <1>3, NoRouteKeeps DEF SendData
<1> QED  BY <1>2, <1>3

\* A packet leaves the wire at its destination.
LEMMA ArriveKeeps ==
    ASSUME IInv, NEW p \in packets, Arrive(p)
    PROVE  IInv'
<1>1. /\ counter' = counter /\ table' = table /\ packets' = packets \ {p}
      /\ sent' = sent /\ arrived' = arrived + 1 /\ dropped' = dropped
  BY DEF Arrive, routeVars
<1>2. RouteOK' /\ HopsOK' /\ DropsOK'
  BY <1>1 DEF IInv, RouteOK, HopsOK, DropsOK, heard, DSDV!Heard
<1>3. CountOK'
  <2>1. IsFiniteSet(packets') /\ Cardinality(packets') = Cardinality(packets) - 1
    BY <1>1, FS_RemoveElement DEF IInv, CountOK
  <2>2. Cardinality(packets) \in Nat
    BY FS_CardinalityType DEF IInv, CountOK
  <2> QED  BY <1>1, <2>1, <2>2 DEF IInv, CountOK
<1>4. \A R, now : Ordered(R, now) => Ordered(R, now)'
  BY <1>1 DEF Ordered, Ranks, TrailOK, NextOK, heard, DSDV!Heard
<1> QED  BY <1>2, <1>3, <1>4 DEF IInv

\* Any other gossiper sends it on, or drops it for want of hops: it has a route.
LEMMA ReceivePrivateKeeps ==
    ASSUME IInv, NEW p \in packets, ReceivePrivate(p)
    PROVE  IInv'
<1> DEFINE n == p.to
           hops == DecrementHopCount(p.hops)
           q == Hop(p, n, hops)
<1>1. /\ counter' = counter /\ table' = table /\ sent' = sent /\ arrived' = arrived
      /\ n # Dest
  BY DEF ReceivePrivate, routeVars
<1>2. /\ n \in Node /\ p.trail \in Seq(Entry) /\ p.hops \in 1..HopLimit
      /\ p.hops \in Nat /\ HopLimit \in Nat /\ Len(p.trail) \in Nat
      /\ Len(p.trail) + p.hops >= HopLimit
  BY LimitAssumption DEF IInv, HopsOK
<1>3. hops = p.hops - 1
  BY <1>2, Decrement
<1>4. PICK R \in [Node -> [1..MaxSeq -> Nat]] : \E now \in Nat : Ordered(R, now)
  BY DEF IInv
<1>5. PICK now \in Nat : Ordered(R, now)
  BY <1>4
<1>6. RouteOK'
  BY <1>1 DEF IInv, RouteOK, heard, DSDV!Heard
<1>7. Ranks(R, now)'
  BY <1>1, <1>5 DEF Ordered, Ranks
<1>8. CASE Forwards(n, p)
  <2>1. packets' = (packets \ {p}) \cup {q} /\ dropped' = dropped
    BY <1>8 DEF ReceivePrivate
  <2>2. HasRoute(n) /\ hops > 0
    BY <1>8 DEF Forwards
  <2>3. /\ q.trail \in Seq(Entry) /\ Len(q.trail) = Len(p.trail) + 1 /\ q.to \in Node
        /\ q.hops = hops /\ TrailOK(q.trail, R) /\ NextOK(q.trail, q.to, R)
    BY <1>2, <1>5, <2>2, HopOrdered DEF IInv, Ordered
  <2>4. hops \in 1..HopLimit
    BY <1>2, <1>3, <2>2
  <2>5. q \in [trail : Seq(Entry), hops : 1..HopLimit, to : Node]
    BY <2>3, <2>4 DEF Hop
  <2> HIDE DEF q, hops
  <2>6. CountOK'
    <3>1. IsFiniteSet(packets \ {p}) /\ Cardinality(packets \ {p}) = Cardinality(packets) - 1
      BY FS_RemoveElement DEF IInv, CountOK
    <3>2. /\ IsFiniteSet(packets')
          /\ Cardinality(packets') \in
                {Cardinality(packets \ {p}), Cardinality(packets \ {p}) + 1}
      BY <2>1, <3>1, FS_AddElement
    <3>3. Cardinality(packets) \in Nat
      BY FS_CardinalityType DEF IInv, CountOK
    <3> QED  BY <1>1, <3>1, <3>2, <3>3 DEF IInv, CountOK
  <2>7. HopsOK'
    <3>1. hops = p.hops - 1
      BY <1>3 DEF hops
    <3>2. Len(q.trail) # 0 /\ Len(q.trail) + q.hops >= HopLimit
      BY <1>2, <2>3, <3>1
    <3> QED  BY <2>1, <2>5, <3>2 DEF IInv, HopsOK
  <2>8. DropsOK'
    BY <2>1 DEF IInv, DropsOK
  <2>9. Ordered(R, now)'
    <3>1. \A r \in packets' \cup dropped' : TrailOK(r.trail, R)'
      BY <1>1, <1>5, <2>1, <2>3 DEF Ordered, TrailOK
    <3>2. \A r \in packets' : NextOK(r.trail, r.to, R)'
      BY <1>1, <1>5, <2>1, <2>3 DEF Ordered, NextOK, heard, DSDV!Heard
    <3> QED  BY <1>7, <3>1, <3>2 DEF Ordered
  <2> QED  BY <1>6, <2>6, <2>7, <2>8, <2>9 DEF IInv
<1>9. CASE ~ Forwards(n, p)
  <2>1. packets' = packets \ {p} /\ dropped' = dropped \cup {p}
    BY <1>9 DEF ReceivePrivate
  \* The gossiper has a route: the trail's last gossiper was told of it.
  <2>2. HasRoute(n)
    <3>1. 1 \in DOMAIN p.trail /\ p.trail[1].seqNum \in 1..MaxSeq
      BY <1>2, TrailType DEF IInv, HopsOK
    <3>2. p.trail[1].seqNum <= heard[n]
      BY <1>5, <3>1 DEF Ordered, NextOK
    <3>3. heard[n] = table[n].seqNum /\ heard[n] \in Nat
      BY <1>1, <1>2, HeardType DEF IInv
    <3> QED  BY <3>1, <3>2, <3>3, LimitAssumption DEF HasRoute
  <2>3. p.hops = 1
    BY <1>2, <1>3, <1>9, <2>2 DEF Forwards
  <2>4. CountOK'
    <3>1. IsFiniteSet(packets') /\ Cardinality(packets') = Cardinality(packets) - 1
      BY <2>1, FS_RemoveElement DEF IInv, CountOK
    <3>2. Cardinality(packets) \in Nat
      BY FS_CardinalityType DEF IInv, CountOK
    <3> QED  BY <1>1, <3>1, <3>2 DEF IInv, CountOK
  <2>5. HopsOK'
    BY <2>1 DEF IInv, HopsOK
  <2>6. DropsOK'
    <3>1. p \in [trail : Seq(Entry), hops : 1..HopLimit, to : Node \ {Dest}]
      BY <1>1 DEF IInv, HopsOK
    <3>2. Len(p.trail) >= HopLimit - 1
      BY <1>2, <2>3
    <3> QED  BY <2>1, <3>1, <3>2 DEF IInv, DropsOK
  <2>7. Ordered(R, now)'
    <3>1. \A r \in packets' \cup dropped' : TrailOK(r.trail, R)'
      BY <1>1, <1>5, <2>1 DEF Ordered, TrailOK
    <3>2. \A r \in packets' : NextOK(r.trail, r.to, R)'
      BY <1>1, <1>5, <2>1 DEF Ordered, NextOK, heard, DSDV!Heard
    <3> QED  BY <1>7, <3>1, <3>2 DEF Ordered
  <2> QED  BY <1>6, <2>4, <2>5, <2>6, <2>7 DEF IInv
<1> QED  BY <1>8, <1>9

-----------------------------------------------------------------------------
(* The theorems                                                             *)

\* The invariant holds in every state.
THEOREM Invariance == Spec => []IInv
<1>1. Init => IInv
  <2>1. SUFFICES ASSUME Init  PROVE IInv
    OBVIOUS
  <2>2. /\ counter = 0 /\ table = [n \in Node |-> [seqNum |-> 0, address |-> NoPeer]]
        /\ packets = {} /\ sent = 0 /\ arrived = 0 /\ dropped = {}
    BY <2>1 DEF Init, DSDV!Init
  <2>3. RouteOK
    BY <2>2, NodeAssumption, LimitAssumption DEF RouteOK
  <2>4. CountOK
    BY <2>2, FS_EmptySet, LimitAssumption DEF CountOK
  <2>5. HopsOK /\ DropsOK
    BY <2>2 DEF HopsOK, DropsOK
  <2>6. [n \in Node |-> [i \in 1..MaxSeq |-> 0]] \in [Node -> [1..MaxSeq -> Nat]]
    OBVIOUS
  <2>7. Ordered([n \in Node |-> [i \in 1..MaxSeq |-> 0]], 1)
    BY <2>2 DEF Ordered, Ranks
  <2> QED  BY <2>3, <2>4, <2>5, <2>6, <2>7 DEF IInv
<1>2. IInv /\ RouteChange => IInv'
  BY NewRumorKeeps, LearnRouteKeeps DEF RouteChange, DSDV!Next
<1>3. IInv /\ UNCHANGED vars => IInv'
  <2>1. SUFFICES ASSUME IInv, UNCHANGED vars  PROVE IInv'
    OBVIOUS
  <2>2. /\ counter' = counter /\ table' = table /\ packets' = packets
        /\ sent' = sent /\ arrived' = arrived /\ dropped' = dropped
    BY <2>1 DEF vars, routeVars
  <2>3. RouteOK' /\ CountOK' /\ HopsOK' /\ DropsOK'
    BY <2>1, <2>2 DEF IInv, RouteOK, CountOK, HopsOK, DropsOK, heard, DSDV!Heard
  <2>4. \A R, now : Ordered(R, now) => Ordered(R, now)'
    BY <2>2 DEF Ordered, Ranks, TrailOK, NextOK, heard, DSDV!Heard
  <2> QED  BY <2>1, <2>3, <2>4 DEF IInv
<1>4. IInv /\ [Next]_vars => IInv'
  BY <1>2, <1>3, ClientPMKeeps, SendDataKeeps, ArriveKeeps, ReceivePrivateKeeps DEF Next
<1> QED  BY <1>1, <1>4, PTL DEF Spec

\* Routes and packets are well-typed; a packet on the wire has a hop left, so the
\* limit of forward never wraps around.
THEOREM TypeCorrect == Spec => []TypeOK
<1>1. ASSUME IInv  PROVE TypeOK
  <2>1. Seq(Entry) \subseteq Seq([node : Node, seqNum : 1..MaxSeq])
    <3>1. Entry \subseteq [node : Node, seqNum : 1..MaxSeq]
      BY DEF Entry
    <3> QED  BY <3>1, SeqMonotonic
  <2>2. packets \subseteq [trail : Seq([node : Node, seqNum : 1..MaxSeq]),
                           hops : 1..HopLimit, to : Node]
    BY <1>1, <2>1 DEF IInv, HopsOK
  <2>3. arrived \in 0..MaxSent
    <3>1. Cardinality(packets) \in Nat
      BY <1>1, FS_CardinalityType DEF IInv, CountOK
    <3> QED  BY <1>1, <3>1, LimitAssumption DEF IInv, CountOK
  <2> QED  BY <1>1, <2>2, <2>3 DEF IInv, RouteOK, CountOK, TypeOK
<1> QED  BY <1>1, Invariance, PTL

\* A packet that comes back to a gossiper is sent on along a newer route.
THEOREM RevisitsAreFresherHolds == Spec => []RevisitsAreFresher
<1>1. ASSUME IInv, NEW p \in packets \cup dropped, NEW ij \in Revisits(p.trail)
      PROVE  p.trail[ij[1]].seqNum < p.trail[ij[2]].seqNum
  <2> DEFINE i == ij[1]
             j == ij[2]
             t == p.trail
  <2>1. i \in DOMAIN t /\ j \in DOMAIN t /\ i < j /\ t[i].node = t[j].node
    BY DEF Revisits
  <2>2. t \in Seq(Entry)
    BY <1>1 DEF IInv, HopsOK, DropsOK
  <2>3. /\ t[i].node \in Node /\ t[i].seqNum \in 1..MaxSeq
        /\ t[i].seqNum \in Nat /\ t[j].seqNum \in Nat
    BY <2>1, <2>2, TrailType
  <2>4. PICK R \in [Node -> [1..MaxSeq -> Nat]] : \E now \in Nat : Ordered(R, now)
    BY <1>1 DEF IInv
  <2>5. /\ t[i].seqNum <= t[j].seqNum
        /\ t[i].seqNum = t[j].seqNum => R[t[j].node][t[j].seqNum] < R[t[i].node][t[i].seqNum]
    BY <2>1, <2>4 DEF Ordered, TrailOK
  <2>6. R[t[i].node][t[i].seqNum] \in Nat
    BY <2>3
  <2> QED  BY <2>1, <2>3, <2>5, <2>6
<1>2. IInv => RevisitsAreFresher
  BY <1>1 DEF RevisitsAreFresher
<1> QED  BY <1>2, Invariance, PTL

\* With no more gossipers than hops, a packet is dropped only after it came back to a
\* gossiper: its trail is longer than there are gossipers to pass.
THEOREM DropsAreStaleHolds == Spec => []DropsAreStale
<1>1. ASSUME IInv, Cardinality(Node) <= HopLimit, NEW p \in dropped,
             \A i \in DOMAIN p.trail : p.trail[i].node # p.to
      PROVE  \E i, j \in DOMAIN p.trail : <<i, j>> \in Revisits(p.trail)
  <2> DEFINE t == p.trail
             S == (Node \ {Dest}) \ {p.to}
             f == [i \in 1..Len(t) |-> t[i].node]
  <2>1. t \in Seq(Entry) /\ p.to \in Node \ {Dest} /\ Len(t) >= HopLimit - 1
    BY <1>1 DEF IInv, DropsOK
  <2>2. Len(t) \in Nat /\ DOMAIN t = 1..Len(t) /\ HopLimit \in Nat
    BY <2>1, TrailType, LimitAssumption
  <2>3. IsFiniteSet(S) /\ Cardinality(S) = Cardinality(Node) - 2 /\ Cardinality(Node) \in Nat
    <3>1. IsFiniteSet(Node \ {Dest}) /\ Cardinality(Node \ {Dest}) = Cardinality(Node) - 1
      BY NodeAssumption, FS_RemoveElement
    <3>2. IsFiniteSet(S) /\ Cardinality(S) = Cardinality(Node \ {Dest}) - 1
      BY <2>1, <3>1, FS_RemoveElement
    <3>3. Cardinality(Node) \in Nat
      BY NodeAssumption, FS_CardinalityType
    <3> QED  BY <3>1, <3>2, <3>3
  <2>4. IsFiniteSet(1..Len(t)) /\ Cardinality(1..Len(t)) = Len(t)
    BY <2>2, FS_Interval
  <2>5. f \in [1..Len(t) -> S]
    <3>1. \A i \in 1..Len(t) : t[i].node \in S
      BY <1>1, <2>1, <2>2, TrailType
    <3> QED  BY <3>1
  <2>6. Cardinality(S) < Cardinality(1..Len(t))
    BY <1>1, <2>1, <2>2, <2>3, <2>4
  <2>7. PICK x, y \in 1..Len(t) : x # y /\ f[x] = f[y]
    <3> HIDE DEF f, S
    <3> QED  BY <2>3, <2>4, <2>5, <2>6, FS_PigeonHole
  <2>8. <<x, y>> \in Revisits(t) \/ <<y, x>> \in Revisits(t)
    BY <2>2, <2>7 DEF Revisits
  <2> QED  BY <2>2, <2>8
<1>2. IInv => DropsAreStale
  <2>1. SUFFICES ASSUME IInv, Cardinality(Node) <= HopLimit, NEW p \in dropped,
                        \A i \in DOMAIN p.trail : p.trail[i].node # p.to
                 PROVE  \E i \in DOMAIN p.trail : \E j \in DOMAIN p.trail :
                            <<i, j>> \in Revisits(p.trail)
    BY DEF DropsAreStale
  <2> QED  BY <1>1, <2>1
<1> QED  BY <1>2, Invariance, PTL

=============================================================================
