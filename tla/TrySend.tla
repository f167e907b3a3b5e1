------------------------------- MODULE TrySend -------------------------------
(***************************************************************************)
(* The listeners of one gossiper, step by step: trySend registers a quit   *)
(* channel in the QuitChanMap and waits for it or for a timeout, while the *)
(* peerStatusListenRoutine of the peer closes and deletes the channels a   *)
(* status packet acknowledges.  The map is a sync.Map: single operations   *)
(* are atomic, sequences of them are not.  Module Gossip takes             *)
(* InformListeners as one step; this module looks inside it.               *)
(***************************************************************************)
EXTENDS Integers

CONSTANTS
    Peer,      \* the peers rumours are sent to
    Msg,       \* the rumours being mongered, one rumorMonger goroutine each
    None,      \* no channel, no peer, no rumour
    MaxSends   \* bound: trySend calls of one goroutine

ASSUME BoundAssumption == MaxSends \in Nat
ASSUME NoneAssumption == None \notin Peer \cup Msg \cup (Msg \X (1..MaxSends))

VARIABLES
    listeners,  \* the QuitChanMap: listeners[p][m] is a channel or None
    closed,     \* the channels that were closed
    pc,         \* pc[m]: where the rumorMonger goroutine of m stands
    peer,       \* peer[m]: the peer it picked last
    attempts,   \* attempts[m]: its calls of trySend; numbers its channels
    sent,       \* sent[p]: the rumours sent to peer p
    stored,     \* stored[p]: the rumours peer p received
    informer    \* informer[p]: where InformListeners stands for peer p

vars == <<listeners, closed, pc, peer, attempts, sent, stored, informer>>

Chan == Msg \X (1..MaxSends)
Quit(m) == <<m, attempts[m]>>    \* the channel made by the latest AddListener

Idle == [at |-> "idle", want |-> {}, msg |-> None, quit |-> None]

Init ==
    /\ listeners = [p \in Peer |-> [m \in Msg |-> None]]
    /\ closed = {}
    /\ pc = [m \in Msg |-> "pick"]
    /\ peer = [m \in Msg |-> None]
    /\ attempts = [m \in Msg |-> 0]
    /\ sent = [p \in Peer |-> {}]
    /\ stored = [p \in Peer |-> {}]
    /\ informer = [p \in Peer |-> Idle]

-----------------------------------------------------------------------------
(* rumorMonger and trySend                                                  *)

Goto(m, label) == pc' = [pc EXCEPT ![m] = label]

\* pickRandomPeer, never the previous choice.
PickPeer(m) ==
    /\ pc[m] = "pick" /\ attempts[m] < MaxSends
    /\ \E p \in Peer \ {peer[m]} : peer' = [peer EXCEPT ![m] = p]
    /\ attempts' = [attempts EXCEPT ![m] = @ + 1]
    /\ Goto(m, "add")
    /\ UNCHANGED <<listeners, closed, sent, stored, informer>>

\* AddListener: LoadOrStore; trySend gives up when a channel was there already.
AddListener(m) ==
    LET p == peer[m] IN
    /\ pc[m] = "add"
    /\ \/ /\ listeners[p][m] = None
          /\ listeners' = [listeners EXCEPT ![p][m] = Quit(m)]
          /\ sent' = [sent EXCEPT ![p] = @ \cup {m}]
          /\ Goto(m, "wait")
       \/ /\ listeners[p][m] # None
          /\ Goto(m, "alreadySending")
          /\ UNCHANGED <<listeners, sent>>
    /\ UNCHANGED <<closed, peer, attempts, stored, informer>>

\* Mutant of Timeout: the listener stays in the map.
TimeoutOnly(m) ==
    /\ pc[m] = "wait"
    /\ Goto(m, "flip")
    /\ UNCHANGED <<listeners, closed, peer, attempts, sent, stored, informer>>

\* The ticker fires: DeleteListener.
Timeout(m) ==
    /\ pc[m] = "wait"
    /\ listeners' = [listeners EXCEPT ![peer[m]][m] = None]
    /\ Goto(m, "flip")
    /\ UNCHANGED <<closed, peer, attempts, sent, stored, informer>>

\* The quit channel was closed; trySend returns true.
Quitted(m) ==
    /\ pc[m] = "wait" /\ Quit(m) \in closed
    /\ Goto(m, "flip")
    /\ UNCHANGED <<listeners, closed, peer, attempts, sent, stored, informer>>

\* The coin: stop, or pick another peer.
FlipCoin(m) ==
    /\ pc[m] \in {"flip", "alreadySending"}
    /\ Goto(m, "pick") \/ Goto(m, "done")
    /\ UNCHANGED <<listeners, closed, peer, attempts, sent, stored, informer>>

-----------------------------------------------------------------------------
(* The peers and InformListeners                                            *)

\* The peer receives a rumour, any time after it was sent.
PeerStores(p, m) ==
    /\ m \in sent[p]
    /\ stored' = [stored EXCEPT ![p] = @ \cup {m}]
    /\ UNCHANGED <<listeners, closed, pc, peer, attempts, sent, informer>>

\* A status packet of p arrives, maybe an old one: it acknowledges some of what
\* p stores.
StatusArrives(p) ==
    /\ informer[p].at = "idle"
    /\ \E want \in (SUBSET stored[p]) \ {{}} :
        informer' = [informer EXCEPT ![p] = [Idle EXCEPT !.at = "range", !.want = want]]
    /\ UNCHANGED <<listeners, closed, pc, peer, attempts, sent, stored>>

\* Mutants of InformRange: the entry is not looked for before it is closed, and
\* every listener of the peer is taken, acknowledged or not.
InformRangeUnchecked(p) ==
    /\ informer[p].at = "range"
    /\ \/ /\ informer[p].want = {}
          /\ informer' = [informer EXCEPT ![p] = Idle]
       \/ \E m \in informer[p].want :
            informer' = [informer EXCEPT ![p] =
                [at |-> "close", want |-> @.want \ {m}, msg |-> m, quit |-> listeners[p][m]]]
    /\ UNCHANGED <<listeners, closed, pc, peer, attempts, sent, stored>>
InformRangeAll(p) ==
    /\ informer[p].at = "range"
    /\ \/ informer' = [informer EXCEPT ![p] = Idle]
       \/ \E m \in Msg :
            /\ listeners[p][m] # None
            /\ informer' = [informer EXCEPT ![p] =
                [at |-> "close", want |-> @.want \ {m}, msg |-> m, quit |-> listeners[p][m]]]
    /\ UNCHANGED <<listeners, closed, pc, peer, attempts, sent, stored>>

\* Range visits the entry of one acknowledged rumour, if it is there.
InformRange(p) ==
    LET inf == informer[p] IN
    /\ inf.at = "range"
    /\ \/ /\ inf.want = {}
          /\ informer' = [informer EXCEPT ![p] = Idle]
       \/ \E m \in inf.want :
            informer' = [informer EXCEPT ![p] =
                IF listeners[p][m] = None
                THEN [inf EXCEPT !.want = @ \ {m}]
                ELSE [at |-> "close", want |-> inf.want \ {m},
                      msg |-> m, quit |-> listeners[p][m]]]
    /\ UNCHANGED <<listeners, closed, pc, peer, attempts, sent, stored>>

\* close(quit) ...
InformClose(p) ==
    /\ informer[p].at = "close"
    /\ closed' = closed \cup {informer[p].quit}
    /\ informer' = [informer EXCEPT ![p].at = "delete"]
    /\ UNCHANGED <<listeners, pc, peer, attempts, sent, stored>>

\* Mutant of InformDelete: the closed channel stays in the map.
InformKeep(p) ==
    /\ informer[p].at = "delete"
    /\ informer' = [informer EXCEPT ![p] = [@ EXCEPT !.at = "range", !.msg = None, !.quit = None]]
    /\ UNCHANGED <<listeners, closed, pc, peer, attempts, sent, stored>>

\* ... and om.Delete(id), whatever channel is there by now.
InformDelete(p) ==
    /\ informer[p].at = "delete"
    /\ listeners' = [listeners EXCEPT ![p][informer[p].msg] = None]
    /\ informer' = [informer EXCEPT ![p] = [@ EXCEPT !.at = "range", !.msg = None, !.quit = None]]
    /\ UNCHANGED <<closed, pc, peer, attempts, sent, stored>>

-----------------------------------------------------------------------------
Next ==
    \/ \E m \in Msg : \/ PickPeer(m) \/ AddListener(m)
                      \/ Timeout(m) \/ Quitted(m) \/ FlipCoin(m)
    \/ \E p \in Peer : \/ StatusArrives(p) \/ InformRange(p)
                       \/ InformClose(p) \/ InformDelete(p)
    \/ \E p \in Peer, m \in Msg : PeerStores(p, m)

Spec == Init /\ [][Next]_vars

-----------------------------------------------------------------------------
(* Properties                                                               *)

\* Type correctness; in particular InformListeners only ever holds channels that
\* the map had for it.
TypeOK ==
    /\ listeners \in [Peer -> [Msg -> Chan \cup {None}]]
    /\ closed \subseteq Chan
    /\ pc \in [Msg -> {"pick", "add", "wait", "alreadySending", "flip", "done"}]
    /\ peer \in [Msg -> Peer \cup {None}]
    /\ attempts \in [Msg -> 0..MaxSends]
    /\ sent \in [Peer -> SUBSET Msg] /\ stored \in [Peer -> SUBSET Msg]
    /\ informer \in [Peer -> [at : {"idle", "range", "close", "delete"}, want : SUBSET Msg,
                              msg : Msg \cup {None}, quit : Chan \cup {None}]]

\* InformListeners never closes a channel twice, which would be a panic: an
\* entry it read is not closed by anybody else, and is gone before it is read
\* again.
NoDoubleClose ==
    \A p \in Peer : informer[p].at = "close" => informer[p].quit \notin closed

\* trySend reports an acknowledgement only from the peer it is sending to: a
\* channel that a waiting goroutine finds closed was closed for that peer, even
\* when deletions and registrations of earlier calls interleave.
QuitMeansStored ==
    \A m \in Msg : (pc[m] = "wait" /\ Quit(m) \in closed) => m \in stored[peer[m]]

\* No listener is left behind: an entry of the QuitChanMap belongs to a
\* goroutine that waits on it, or InformListeners is about to delete it.
NoListenerLeak ==
    \A p \in Peer, m \in Msg : listeners[p][m] # None =>
        \/ pc[m] = "wait" /\ peer[m] = p /\ Quit(m) = listeners[p][m]
        \/ informer[p].at \in {"close", "delete"} /\ informer[p].msg = m
=============================================================================
