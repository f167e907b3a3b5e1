---------------------------- MODULE TrySendProofs ----------------------------
(***************************************************************************)
(* The listener registry of trySend never closes a channel twice, reports  *)
(* an acknowledgement only of the peer it waits for and leaks no listener, *)
(* for any number of peers, rumours and calls.                             *)
(***************************************************************************)
EXTENDS TrySend, TLAPS

-----------------------------------------------------------------------------
(* The inductive invariant                                                  *)

Informing(p) == informer[p].at \in {"close", "delete"}

\* A goroutine that is in a call of trySend has picked a peer and counted the call.
CallOK ==
    \A m \in Msg : pc[m] \in {"add", "wait"} => peer[m] \in Peer /\ attempts[m] \in 1..MaxSends

\* Channel c was made by the goroutine of m, for peer p if the call is its latest.
Made(p, m, c) ==
    /\ c \in Chan /\ c[1] = m /\ c[2] <= attempts[m]
    /\ c[2] = attempts[m] => pc[m] \notin {"add", "alreadySending"} /\ peer[m] = p

MapOK ==
    \A p \in Peer, m \in Msg : listeners[p][m] # None => Made(p, m, listeners[p][m])

\* InformListeners works through rumours that its peer stores.
InformerOK ==
    \A p \in Peer :
        /\ informer[p].want \subseteq stored[p]
        /\ Informing(p) => informer[p].msg \in stored[p] /\ Made(p, informer[p].msg, informer[p].quit)

\* A closed channel of the latest call means that its peer stores the rumour.
ClosedOK ==
    \A c \in closed :
        /\ c[2] <= attempts[c[1]]
        /\ c[2] = attempts[c[1]] =>
            pc[c[1]] \notin {"add", "alreadySending"} /\ c[1] \in stored[peer[c[1]]]

\* A channel is in the map, or in the hands of InformListeners, for one peer only.
OnePeer ==
    \A p, q \in Peer : p # q =>
        /\ \A m \in Msg : listeners[p][m] # None => listeners[p][m] # listeners[q][m]
        /\ Informing(p) => \A m \in Msg : listeners[q][m] # informer[p].quit
        /\ Informing(p) /\ Informing(q) => informer[p].quit # informer[q].quit

\* A closed channel is still in the map only until InformListeners deletes it.
ClosedEntry ==
    \A p \in Peer, m \in Msg : listeners[p][m] \in closed =>
        informer[p].at = "delete" /\ informer[p].msg = m

IInv ==
    /\ TypeOK /\ CallOK /\ MapOK /\ InformerOK /\ ClosedOK
    /\ OnePeer /\ ClosedEntry /\ NoDoubleClose /\ NoListenerLeak

\* A new call has made no channel yet, and numbers its channel past all others.
LEMMA PickPeerKeeps ==
    ASSUME IInv, NEW m \in Msg, PickPeer(m)
    PROVE  IInv'
<1>1. TypeOK'
  BY BoundAssumption DEF IInv, TypeOK, PickPeer, Goto
<1>2. CallOK'
  BY BoundAssumption DEF IInv, TypeOK, CallOK, PickPeer, Goto
<1>3. MapOK'
  BY DEF IInv, TypeOK, Made, MapOK, PickPeer, Goto, Chan
<1>4. InformerOK'
  BY DEF IInv, TypeOK, Made, Informing, InformerOK, PickPeer, Goto, Chan
<1>5. ClosedOK'
  BY DEF IInv, TypeOK, ClosedOK, PickPeer, Goto, Chan
<1>6. OnePeer'
  BY DEF IInv, Informing, OnePeer, PickPeer
<1>7. ClosedEntry'
  BY DEF IInv, ClosedEntry, PickPeer
<1>8. NoDoubleClose'
  BY DEF IInv, NoDoubleClose, PickPeer
<1>9. NoListenerLeak'
  BY DEF IInv, NoListenerLeak, PickPeer, Goto, Quit
<1> QED  BY <1>1, <1>2, <1>3, <1>4, <1>5, <1>6, <1>7, <1>8, <1>9 DEF IInv

\* AddListener makes a channel that nobody holds; if it finds one, only pc changes.
LEMMA AddListenerKeeps ==
    ASSUME IInv, NEW m \in Msg, AddListener(m)
    PROVE  IInv'
<1> DEFINE p == peer[m]
           new == Quit(m)
<1>1. /\ p \in Peer /\ new \in Chan /\ new # None
      /\ new[1] = m /\ new[2] = attempts[m]
  BY NoneAssumption DEF IInv, CallOK, AddListener, Quit, Chan
<1>2. CASE listeners[p][m] # None
  <2>1. /\ UNCHANGED <<listeners, closed, peer, attempts, sent, stored, informer>>
        /\ pc' = [pc EXCEPT ![m] = "alreadySending"] /\ pc[m] = "add"
    BY <1>2 DEF AddListener, Goto
  <2>2. TypeOK'
    BY <2>1 DEF IInv, TypeOK
  <2>3. CallOK'
    BY <2>1 DEF IInv, CallOK
  <2>4. MapOK'
    BY <2>1 DEF IInv, MapOK, Made
  <2>5. InformerOK'
    BY <2>1 DEF IInv, InformerOK, Informing, Made
  <2>6. ClosedOK'
    BY <2>1 DEF IInv, ClosedOK
  <2>7. OnePeer' /\ ClosedEntry' /\ NoDoubleClose'
    BY <2>1 DEF IInv, OnePeer, Informing, ClosedEntry, NoDoubleClose
  <2>8. NoListenerLeak'
    BY <2>1 DEF IInv, NoListenerLeak, Quit
  <2> QED  BY <2>2, <2>3, <2>4, <2>5, <2>6, <2>7, <2>8 DEF IInv
<1>3. CASE listeners[p][m] = None
  <2>1. /\ UNCHANGED <<closed, peer, attempts, stored, informer>>
        /\ listeners' = [listeners EXCEPT ![p][m] = new]
        /\ sent' = [sent EXCEPT ![p] = @ \cup {m}]
        /\ pc' = [pc EXCEPT ![m] = "wait"] /\ pc[m] = "add"
    BY <1>3 DEF AddListener, Goto
  <2>2. \A q \in Peer, k \in Msg :
            listeners'[q][k] = IF q = p /\ k = m THEN new ELSE listeners[q][k]
    BY <1>1, <2>1 DEF IInv, TypeOK
  <2>3. /\ new \notin closed
        /\ \A q \in Peer, k \in Msg : listeners[q][k] # new
        /\ \A q \in Peer : Informing(q) => informer[q].quit # new
    <3>1. new \notin closed
      BY <1>1, <2>1 DEF IInv, ClosedOK
    <3>2. ASSUME NEW q \in Peer, NEW k \in Msg  PROVE listeners[q][k] # new
      BY <1>1, <2>1 DEF IInv, MapOK, Made
    <3>3. ASSUME NEW q \in Peer, Informing(q)  PROVE informer[q].quit # new
      BY <1>1, <2>1, <3>3 DEF IInv, InformerOK, Made
    <3> QED  BY <3>1, <3>2, <3>3
  <2>4. TypeOK'
    <3>1. listeners' \in [Peer -> [Msg -> Chan \cup {None}]]
      BY <1>1, <2>1 DEF IInv, TypeOK
    <3>2. sent' \in [Peer -> SUBSET Msg]
      BY <1>1, <2>1 DEF IInv, TypeOK
    <3> QED  BY <2>1, <3>1, <3>2 DEF IInv, TypeOK
  <2>5. CallOK'
    BY <2>1 DEF IInv, CallOK
  <2>6. MapOK'
    BY <1>1, <2>1, <2>2 DEF IInv, TypeOK, MapOK, Made
  <2>7. InformerOK'
    BY <2>1 DEF IInv, InformerOK, Informing, Made
  <2>8. ClosedOK'
    BY <2>1 DEF IInv, ClosedOK
  <2>9. OnePeer'
    BY <1>1, <2>1, <2>2, <2>3 DEF IInv, OnePeer, Informing
  <2>10. ClosedEntry'
    BY <2>1, <2>2, <2>3 DEF IInv, ClosedEntry
  <2>11. NoDoubleClose'
    BY <2>1 DEF IInv, NoDoubleClose
  <2>12. NoListenerLeak'
    BY <1>1, <2>1, <2>2 DEF IInv, TypeOK, NoListenerLeak, Quit
  <2> QED  BY <2>4, <2>5, <2>6, <2>7, <2>8, <2>9, <2>10, <2>11, <2>12 DEF IInv
<1> QED  BY <1>2, <1>3

\* The ticker deletes at most an entry of the map.
LEMMA TimeoutKeeps ==
    ASSUME IInv, NEW m \in Msg, Timeout(m)
    PROVE  IInv'
<1>1. TypeOK'
  BY DEF IInv, TypeOK, Timeout, Goto
<1>2. CallOK'
  BY DEF IInv, CallOK, Timeout, Goto
<1>3. MapOK'
  BY DEF IInv, Made, MapOK, Timeout, Goto
<1>4. InformerOK'
  BY DEF IInv, Made, Informing, InformerOK, Timeout, Goto
<1>5. ClosedOK'
  BY DEF IInv, ClosedOK, Timeout, Goto
<1>6. OnePeer'
  BY NoneAssumption DEF IInv, InformerOK, Made, Informing, OnePeer, Timeout, Chan
<1>7. ClosedEntry'
  BY NoneAssumption DEF IInv, TypeOK, ClosedEntry, Timeout, Chan
<1>8. NoDoubleClose'
  BY DEF IInv, NoDoubleClose, Timeout
<1>9. NoListenerLeak'
  BY DEF IInv, TypeOK, NoListenerLeak, Timeout, Goto, Quit
<1> QED  BY <1>1, <1>2, <1>3, <1>4, <1>5, <1>6, <1>7, <1>8, <1>9 DEF IInv

\* trySend leaves a closed channel in the map: InformListeners is about to delete it.
LEMMA QuittedKeeps ==
    ASSUME IInv, NEW m \in Msg, Quitted(m)
    PROVE  IInv'
<1>1. TypeOK'
  BY DEF IInv, TypeOK, Quitted, Goto
<1>2. CallOK'
  BY DEF IInv, CallOK, Quitted, Goto
<1>3. MapOK'
  BY DEF IInv, Made, MapOK, Quitted, Goto
<1>4. InformerOK'
  BY DEF IInv, Made, Informing, InformerOK, Quitted, Goto
<1>5. ClosedOK'
  BY DEF IInv, ClosedOK, Quitted, Goto
<1>6. OnePeer'
  BY DEF IInv, Informing, OnePeer, Quitted
<1>7. ClosedEntry'
  BY DEF IInv, ClosedEntry, Quitted
<1>8. NoDoubleClose'
  BY DEF IInv, NoDoubleClose, Quitted
<1>9. NoListenerLeak'
  <2>1. /\ UNCHANGED <<listeners, closed, peer, attempts, sent, stored, informer>>
        /\ pc' = [pc EXCEPT ![m] = "flip"] /\ Quit(m) \in closed
    BY DEF Quitted, Goto
  <2>2. ASSUME NEW q \in Peer, NEW k \in Msg, listeners[q][k] # None
        PROVE  \/ pc'[k] = "wait" /\ peer[k] = q /\ Quit(k) = listeners[q][k]
               \/ informer[q].at \in {"close", "delete"} /\ informer[q].msg = k
    <3>1. CASE k = m
      BY <2>1, <2>2, <3>1 DEF IInv, NoListenerLeak, ClosedEntry
    <3>2. CASE k # m
      BY <2>1, <2>2, <3>2 DEF IInv, NoListenerLeak
    <3> QED  BY <3>1, <3>2
  <2> QED  BY <2>1, <2>2 DEF NoListenerLeak, Quit
<1> QED  BY <1>1, <1>2, <1>3, <1>4, <1>5, <1>6, <1>7, <1>8, <1>9 DEF IInv

\* The coin leaves the registry alone.
LEMMA FlipCoinKeeps ==
    ASSUME IInv, NEW m \in Msg, FlipCoin(m)
    PROVE  IInv'
<1>1. TypeOK'
  BY DEF IInv, TypeOK, FlipCoin, Goto
<1>2. CallOK'
  BY DEF IInv, TypeOK, CallOK, FlipCoin, Goto
<1>3. MapOK'
  BY DEF IInv, TypeOK, Made, MapOK, FlipCoin, Goto
<1>4. InformerOK'
  BY DEF IInv, TypeOK, Made, Informing, InformerOK, FlipCoin, Goto
<1>5. ClosedOK'
  BY DEF IInv, TypeOK, ClosedOK, FlipCoin, Goto, Chan
<1>6. OnePeer'
  BY DEF IInv, Informing, OnePeer, FlipCoin
<1>7. ClosedEntry'
  BY DEF IInv, ClosedEntry, FlipCoin
<1>8. NoDoubleClose'
  BY DEF IInv, NoDoubleClose, FlipCoin
<1>9. NoListenerLeak'
  BY DEF IInv, TypeOK, NoListenerLeak, FlipCoin, Goto, Quit
<1> QED  BY <1>1, <1>2, <1>3, <1>4, <1>5, <1>6, <1>7, <1>8, <1>9 DEF IInv

\* Peers only ever store more.
LEMMA PeerStoresKeeps ==
    ASSUME IInv, NEW p \in Peer, NEW m \in Msg, PeerStores(p, m)
    PROVE  IInv'
<1>1. TypeOK'
  BY DEF IInv, TypeOK, PeerStores
<1>2. CallOK'
  BY DEF IInv, CallOK, PeerStores
<1>3. MapOK'
  BY DEF IInv, Made, MapOK, PeerStores
<1>4. InformerOK'
  BY DEF IInv, Made, Informing, InformerOK, PeerStores
<1>5. ClosedOK'
  BY DEF IInv, ClosedOK, PeerStores
<1>6. OnePeer'
  BY DEF IInv, Informing, OnePeer, PeerStores
<1>7. ClosedEntry'
  BY DEF IInv, ClosedEntry, PeerStores
<1>8. NoDoubleClose'
  BY DEF IInv, NoDoubleClose, PeerStores
<1>9. NoListenerLeak'
  BY DEF IInv, NoListenerLeak, PeerStores, Quit
<1> QED  BY <1>1, <1>2, <1>3, <1>4, <1>5, <1>6, <1>7, <1>8, <1>9 DEF IInv

\* A status packet names rumours that the peer stores.
LEMMA StatusArrivesKeeps ==
    ASSUME IInv, NEW p \in Peer, StatusArrives(p)
    PROVE  IInv'
<1>1. TypeOK'
  <2>1. PICK want \in SUBSET stored[p] :
            informer' = [informer EXCEPT ![p] = [Idle EXCEPT !.at = "range", !.want = want]]
    BY DEF StatusArrives
  <2>2. want \in SUBSET Msg
    BY DEF IInv, TypeOK
  <2>3. [Idle EXCEPT !.at = "range", !.want = want]
            \in [at : {"range"}, want : SUBSET Msg, msg : {None}, quit : {None}]
    BY <2>2 DEF Idle
  <2>4. informer' \in [Peer -> [at : {"idle", "range", "close", "delete"}, want : SUBSET Msg,
                                msg : Msg \cup {None}, quit : Chan \cup {None}]]
    BY <2>1, <2>2, <2>3 DEF IInv, TypeOK
  <2> QED  BY <2>4 DEF IInv, TypeOK, StatusArrives
<1>2. CallOK'
  BY DEF IInv, CallOK, StatusArrives
<1>3. MapOK'
  BY DEF IInv, Made, MapOK, StatusArrives
<1>4. InformerOK'
  BY DEF IInv, Made, Informing, InformerOK, StatusArrives
<1>5. ClosedOK'
  BY DEF IInv, ClosedOK, StatusArrives
<1>6. OnePeer'
  BY DEF IInv, Informing, OnePeer, StatusArrives
<1>7. ClosedEntry'
  BY DEF IInv, ClosedEntry, StatusArrives
<1>8. NoDoubleClose'
  BY DEF IInv, NoDoubleClose, StatusArrives
<1>9. NoListenerLeak'
  BY DEF IInv, NoListenerLeak, StatusArrives, Quit
<1> QED  BY <1>1, <1>2, <1>3, <1>4, <1>5, <1>6, <1>7, <1>8, <1>9 DEF IInv

\* InformListeners takes an open channel from the map, the one of its own peer.
LEMMA InformRangeKeeps ==
    ASSUME IInv, NEW p \in Peer, InformRange(p)
    PROVE  IInv'
<1> DEFINE inf == informer[p]
<1>1. /\ inf.at = "range" /\ ~Informing(p)
      /\ UNCHANGED <<listeners, closed, pc, peer, attempts, sent, stored>>
  BY DEF InformRange, Informing
<1>2. PICK i : /\ informer' = [informer EXCEPT ![p] = i]
               /\ \/ i = Idle
                  \/ \E m \in inf.want : i = [inf EXCEPT !.want = @ \ {m}]
                  \/ \E m \in inf.want :
                        /\ listeners[p][m] # None
                        /\ i = [at |-> "close", want |-> inf.want \ {m},
                                msg |-> m, quit |-> listeners[p][m]]
  BY DEF InformRange
<1>3. /\ informer \in [Peer -> [at : {"idle", "range", "close", "delete"}, want : SUBSET Msg,
                                msg : Msg \cup {None}, quit : Chan \cup {None}]]
      /\ listeners \in [Peer -> [Msg -> Chan \cup {None}]]
  BY DEF IInv, TypeOK
\* What the new state i of the informer is.
<1>4. /\ i \in [at : {"idle", "range", "close", "delete"}, want : SUBSET Msg,
                msg : Msg \cup {None}, quit : Chan \cup {None}]
      /\ i.want \subseteq stored[p] /\ i.at # "delete"
      /\ i.at = "close" => /\ i.msg \in stored[p] /\ i.msg \in Msg
                           /\ i.quit = listeners[p][i.msg] /\ i.quit # None
  <2>1. CASE i = Idle
    BY <2>1 DEF Idle
  <2>2. CASE \E m \in inf.want : i = [inf EXCEPT !.want = @ \ {m}]
    BY <1>1, <1>3, <2>2 DEF IInv, InformerOK
  <2>3. CASE \E m \in inf.want :
                /\ listeners[p][m] # None
                /\ i = [at |-> "close", want |-> inf.want \ {m},
                        msg |-> m, quit |-> listeners[p][m]]
    BY <1>3, <2>3 DEF IInv, InformerOK
  <2> QED  BY <1>2, <2>1, <2>2, <2>3
<1>5. /\ informer'[p] = i
      /\ \A q \in Peer : q # p => informer'[q] = informer[q]
  BY <1>2, <1>3
<1>6. TypeOK'
  BY <1>1, <1>2, <1>3, <1>4 DEF IInv, TypeOK
<1>7. CallOK' /\ MapOK'
  BY <1>1 DEF IInv, CallOK, MapOK, Made
<1>8. InformerOK'
  BY <1>1, <1>4, <1>5 DEF IInv, InformerOK, MapOK, Informing, Made
<1>9. ClosedOK'
  BY <1>1 DEF IInv, ClosedOK
<1>10. OnePeer'
  <2>1. ASSUME NEW q \in Peer, NEW r \in Peer, q # r
        PROVE  /\ \A m \in Msg : listeners[q][m] # None => listeners[q][m] # listeners[r][m]
               /\ Informing(q)' => \A m \in Msg : listeners[r][m] # informer'[q].quit
               /\ Informing(q)' /\ Informing(r)' => informer'[q].quit # informer'[r].quit
    <3>1. \A m \in Msg : listeners[q][m] # None => listeners[q][m] # listeners[r][m]
      BY <2>1 DEF IInv, OnePeer
    <3>2. ASSUME Informing(q)', NEW m \in Msg  PROVE listeners[r][m] # informer'[q].quit
      <4>1. CASE q # p
        BY <1>5, <2>1, <3>2, <4>1 DEF IInv, OnePeer, Informing
      <4>2. CASE q = p
        <5>1. i.quit = listeners[p][i.msg] /\ i.quit # None /\ i.msg \in Msg
          BY <1>4, <1>5, <3>2, <4>2 DEF Informing
        <5>2. i.quit[1] = i.msg
          BY <5>1 DEF IInv, MapOK, Made
        <5>3. listeners[r][m] # None => listeners[r][m][1] = m
          BY DEF IInv, MapOK, Made
        <5> QED  BY <1>5, <2>1, <4>2, <5>1, <5>2, <5>3 DEF IInv, OnePeer
      <4> QED  BY <4>1, <4>2
    <3>3. ASSUME Informing(q)', Informing(r)'  PROVE informer'[q].quit # informer'[r].quit
      BY <1>4, <1>5, <2>1, <3>3 DEF IInv, OnePeer, Informing
    <3> QED  BY <3>1, <3>2, <3>3
  <2> QED  BY <1>1, <2>1 DEF OnePeer
<1>11. ClosedEntry'
  BY <1>1, <1>5 DEF IInv, ClosedEntry
<1>12. NoDoubleClose'
  BY <1>1, <1>4, <1>5 DEF IInv, NoDoubleClose, ClosedEntry
<1>13. NoListenerLeak'
  BY <1>1, <1>5 DEF IInv, NoListenerLeak, Quit
<1> QED  BY <1>6, <1>7, <1>8, <1>9, <1>10, <1>11, <1>12, <1>13 DEF IInv

\* InformListeners closes a channel that nobody else holds.
LEMMA InformCloseKeeps ==
    ASSUME IInv, NEW p \in Peer, InformClose(p)
    PROVE  IInv'
<1>1. TypeOK'
  <2>1. informer[p].quit \in Chan
    BY DEF IInv, InformerOK, Informing, Made, InformClose
  <2>2. closed' \subseteq Chan
    BY <2>1 DEF IInv, TypeOK, InformClose
  <2>3. informer' \in [Peer -> [at : {"idle", "range", "close", "delete"}, want : SUBSET Msg,
                                msg : Msg \cup {None}, quit : Chan \cup {None}]]
    BY DEF IInv, TypeOK, InformClose
  <2> QED  BY <2>2, <2>3 DEF IInv, TypeOK, InformClose
<1>2. CallOK'
  BY DEF IInv, CallOK, InformClose
<1>3. MapOK'
  BY DEF IInv, Made, MapOK, InformClose
<1>4. InformerOK'
  BY DEF IInv, Made, Informing, InformerOK, InformClose
<1>5. ClosedOK'
  BY DEF IInv, InformerOK, Made, Informing, ClosedOK, InformClose
<1>6. OnePeer'
  BY DEF IInv, Informing, OnePeer, InformClose
<1>7. ClosedEntry'
  BY NoneAssumption DEF IInv, TypeOK, MapOK, InformerOK, OnePeer, Made, Informing, ClosedEntry, InformClose, Chan
<1>8. NoDoubleClose'
  BY DEF IInv, TypeOK, OnePeer, Informing, NoDoubleClose, InformClose
<1>9. NoListenerLeak'
  BY DEF IInv, NoListenerLeak, InformClose, Quit
<1> QED  BY <1>1, <1>2, <1>3, <1>4, <1>5, <1>6, <1>7, <1>8, <1>9 DEF IInv

\* InformListeners deletes the entry it closed, or a newer one of the same rumour.
LEMMA InformDeleteKeeps ==
    ASSUME IInv, NEW p \in Peer, InformDelete(p)
    PROVE  IInv'
<1>1. TypeOK'
  <2>1. informer[p].msg \in Msg
    BY DEF IInv, TypeOK, InformerOK, Informing, InformDelete
  <2>2. listeners' \in [Peer -> [Msg -> Chan \cup {None}]]
    BY <2>1 DEF IInv, TypeOK, InformDelete
  <2>3. informer' \in [Peer -> [at : {"idle", "range", "close", "delete"}, want : SUBSET Msg,
                                msg : Msg \cup {None}, quit : Chan \cup {None}]]
    BY DEF IInv, TypeOK, InformDelete
  <2> QED  BY <2>2, <2>3 DEF IInv, TypeOK, InformDelete
<1>2. CallOK'
  BY DEF IInv, CallOK, InformDelete
<1>3. MapOK'
  BY DEF IInv, Made, MapOK, InformDelete
<1>4. InformerOK'
  BY DEF IInv, Made, Informing, InformerOK, InformDelete
<1>5. ClosedOK'
  BY DEF IInv, ClosedOK, InformDelete
<1>6. OnePeer'
  BY NoneAssumption DEF IInv, InformerOK, Made, Informing, OnePeer, InformDelete, Chan
<1>7. ClosedEntry'
  BY NoneAssumption DEF IInv, TypeOK, ClosedEntry, InformDelete, Chan
<1>8. NoDoubleClose'
  BY DEF IInv, NoDoubleClose, InformDelete
<1>9. NoListenerLeak'
  BY DEF IInv, TypeOK, NoListenerLeak, InformDelete, Quit
<1> QED  BY <1>1, <1>2, <1>3, <1>4, <1>5, <1>6, <1>7, <1>8, <1>9 DEF IInv

\* Stuttering keeps the invariant.
LEMMA StutterKeeps ==
    ASSUME IInv, UNCHANGED vars
    PROVE  IInv'
  BY DEF IInv, TypeOK, CallOK, MapOK, InformerOK, ClosedOK, OnePeer, ClosedEntry,
         NoDoubleClose, NoListenerLeak, Made, Informing, Quit, vars

-----------------------------------------------------------------------------
(* The theorems                                                             *)

\* The invariant holds in every state of trySend and InformListeners.
THEOREM Invariance == Spec => []IInv
<1>1. Init => IInv
  BY BoundAssumption
  DEF Init, IInv, TypeOK, CallOK, MapOK, InformerOK, ClosedOK, OnePeer, ClosedEntry,
      NoDoubleClose, NoListenerLeak, Informing, Idle
<1>2. IInv /\ [Next]_vars => IInv'
  BY PickPeerKeeps, AddListenerKeeps, TimeoutKeeps, QuittedKeeps, FlipCoinKeeps,
     PeerStoresKeeps, StatusArrivesKeeps, InformRangeKeeps, InformCloseKeeps,
     InformDeleteKeeps, StutterKeeps
  DEF Next
<1> QED  BY <1>1, <1>2, PTL DEF Spec

\* InformListeners only ever holds channels that the map had for it, whatever the
\* goroutines of rumorMonger register and delete meanwhile.
THEOREM TypeCorrect == Spec => []TypeOK
<1>1. IInv => TypeOK
  BY DEF IInv
<1> QED  BY <1>1, Invariance, PTL

\* close(quit) never panics: no channel is closed twice.
THEOREM NoDoubleCloseHolds == Spec => []NoDoubleClose
<1>1. IInv => NoDoubleClose
  BY DEF IInv
<1> QED  BY <1>1, Invariance, PTL

\* A waiting trySend that finds its channel closed was acknowledged by the peer it is
\* sending to.
THEOREM QuitMeansStoredHolds == Spec => []QuitMeansStored
<1>1. IInv => QuitMeansStored
  BY DEF IInv, ClosedOK, QuitMeansStored, Quit
<1> QED  BY <1>1, Invariance, PTL

\* Every entry of the QuitChanMap has a goroutine waiting on it, or is about to be
\* deleted.
THEOREM NoListenerLeakHolds == Spec => []NoListenerLeak
<1>1. IInv => NoListenerLeak
  BY DEF IInv
<1> QED  BY <1>1, Invariance, PTL
=============================================================================
