------------------------------ MODULE Sessions ------------------------------
(***************************************************************************)
(* The Diffie-Hellman sessions between a gossiper and one owner of keys:   *)
(* getKey and its users at the initiator (gossiper/webcrawler.go and       *)
(* gossiper/dht.go), the two sides of the negotiation, the session maps    *)
(* and their cleaner (gossiper/diffiehellman.go).                          *)
(*                                                                         *)
(* Packets travel over UDP: they may be delivered in any order, more than  *)
(* once or never, as delivery is not fair; that is how one is lost.  A     *)
(* negotiation is named after the getKey call that started it, which is    *)
(* its random ID in the code.  A key is the pair of secrets it is made of: *)
(* the negotiation and the responder goroutine.  A packet for a goroutine  *)
(* that does not receive waits in the goroutine that delivers it, which is *)
(* the same as in the network.                                             *)
(***************************************************************************)
EXTENDS Integers, Sequences, FiniteSets, Functions

CONSTANTS
    Call,          \* calls of getKey, each from one store, lookup or batch of links
    Bounded,       \* calls of sendEncryptedStore and sendLookupKey: they wait 5 seconds
    None,          \* no key, no call
    Copied,        \* bound: negotiations that may have one packet duplicated
    MaxResponders  \* bound: goroutines of negotiateDiffieHellman

ASSUME CallAssumption == Bounded \subseteq Call /\ None \notin Call
ASSUME BoundAssumption == Copied \subseteq Call /\ MaxResponders \in Nat

VARIABLES
    caller,     \* who waits on a call: "idle", "waiting", "answered" or "gone"
    getKey,     \* the goroutine of getKey: where it stands, the sessions it read, its key
    negotiation,\* negotiationMap for the owner: None or the call that put the entry
    initiator,  \* the goroutine of negotiateDiffieHellmanInitiator
    responder,  \* the goroutines of negotiateDiffieHellman, in order of registration
    outgoing,   \* activeOutgoingDiffieHellmans of the initiator
    ingoing,    \* activeIngoingDiffieHellmans of the owner
    used,       \* ingoing sessions with a LastTimeUsed
    expired,    \* negotiations whose expiration date has passed
    process,    \* the initiator: "up" or "panicked"
    net,        \* packets in flight
    duplicated, \* history: negotiations that had a packet delivered twice
    timedOut    \* history: calls whose getKey gave up on a negotiation

callVars == <<caller, getKey, negotiation, process>>
sessionVars == <<outgoing, ingoing, used, expired>>
vars == <<callVars, initiator, responder, sessionVars, net, duplicated, timedOut>>

Responder == 1..MaxResponders
Key == Call \X Responder

Init ==
    /\ caller = [c \in Call |-> "idle"]
    /\ getKey = [c \in Call |-> [at |-> "none", key |-> None, sessions |-> <<>>]]
    /\ negotiation = None
    /\ initiator = [c \in Call |-> [at |-> "none", key |-> None]]
    /\ responder = <<>>
    /\ outgoing = <<>> /\ ingoing = <<>> /\ used = {} /\ expired = {}
    /\ process = "up" /\ net = {} /\ duplicated = {} /\ timedOut = {}

-----------------------------------------------------------------------------
(* Packets                                                                  *)

InitPacket(c) == [to |-> "owner", type |-> "init", id |-> c, key |-> None]
Reply(key) == [to |-> "initiator", type |-> "reply", id |-> key[1], key |-> key]
Ack(to, c) == [to |-> to, type |-> "ack", id |-> c, key |-> None]

\* Packet p is delivered, or a copy of it, and the packets out are sent.
Deliver(p, out) ==
    /\ p \in net
    /\ \/ net' = (net \ {p}) \cup out /\ UNCHANGED duplicated
       \/ /\ p.id \in Copied \ duplicated
          /\ net' = net \cup out /\ duplicated' = duplicated \cup {p.id}
Send(out) == net' = net \cup out /\ UNCHANGED duplicated

-----------------------------------------------------------------------------
(* getKey and its callers                                                   *)

GetKeyAt(c, at, key) ==
    getKey' = [getKey EXCEPT ![c] = [at |-> at, key |-> key, sessions |-> <<>>]]

\* A store, a lookup or a batch of links asks for the key.
Ask(c) ==
    /\ process = "up" /\ caller[c] = "idle"
    /\ caller' = [caller EXCEPT ![c] = "waiting"]
    /\ GetKeyAt(c, "read", None)
    /\ UNCHANGED <<negotiation, process, initiator, responder, sessionVars, net, duplicated, timedOut>>

\* sendEncryptedStore and sendLookupKey stop waiting after five seconds.
GiveUp(c) ==
    /\ process = "up" /\ c \in Bounded /\ caller[c] = "waiting"
    /\ caller' = [caller EXCEPT ![c] = "gone"]
    /\ UNCHANGED <<getKey, negotiation, process, initiator, responder, sessionVars, net, duplicated, timedOut>>

Valid(sessions) == {i \in DOMAIN sessions : sessions[i][1] \notin expired}

\* The sessions are read under their lock; they may be stale when they are looked at.
ReadSessions(c) ==
    /\ process = "up" /\ getKey[c].at = "read"
    /\ getKey' = [getKey EXCEPT ![c] = [at |-> "check", key |-> None, sessions |-> outgoing]]
    /\ UNCHANGED <<caller, negotiation, process, initiator, responder, sessionVars, net, duplicated, timedOut>>

\* The loop keeps what it found for the last session only.
CheckSessions(c) ==
    LET read == getKey[c].sessions IN
    /\ process = "up" /\ getKey[c].at = "check"
    /\ IF Len(read) \in Valid(read) THEN GetKeyAt(c, "send", read[Len(read)])
                                    ELSE GetKeyAt(c, "map", None)
    /\ UNCHANGED <<caller, negotiation, process, initiator, responder, sessionVars, net, duplicated, timedOut>>

\* The last session expires between the two calls of expired(): the index is that
\* of an older session, or -1, which ends the program.
CheckRace(c) ==
    LET read == getKey[c].sessions
        others == Valid(read) \ {Len(read)}
    IN
    /\ process = "up" /\ getKey[c].at = "check" /\ Len(read) \in Valid(read)
    /\ expired' = expired \cup {read[Len(read)][1]}
    /\ \/ others = {} /\ process' = "panicked" /\ UNCHANGED getKey
       \/ /\ others # {} /\ UNCHANGED process
          /\ GetKeyAt(c, "send", read[CHOOSE i \in others : \A j \in others : j <= i])
    /\ UNCHANGED <<caller, negotiation, initiator, responder, outgoing, ingoing, used, net, duplicated, timedOut>>

\* Mutant of JoinNegotiation: the entry of another call is not looked at.
JoinAlways(c) ==
    /\ process = "up" /\ getKey[c].at = "map"
    /\ negotiation' = c
    /\ GetKeyAt(c, "negotiate", None)
    /\ initiator' = [initiator EXCEPT ![c].at = "reply"]
    /\ Send({InitPacket(c)})
    /\ UNCHANGED <<caller, process, responder, sessionVars, timedOut>>

\* Under the lock of negotiationMap: the first call starts a negotiation and
\* the others subscribe to it.
JoinNegotiation(c) ==
    /\ process = "up" /\ getKey[c].at = "map"
    /\ \/ /\ negotiation = None
          /\ negotiation' = c
          /\ GetKeyAt(c, "negotiate", None)
          /\ initiator' = [initiator EXCEPT ![c].at = "reply"]
          /\ Send({InitPacket(c)})
       \/ /\ negotiation # None
          /\ GetKeyAt(c, "subscribe", None)
          /\ UNCHANGED <<negotiation, initiator, net, duplicated>>
    /\ UNCHANGED <<caller, process, responder, sessionVars, timedOut>>

\* Mutant of NegotiationTimeout: the entry stays in the map.
NegotiationTimeoutKeeps(c) ==
    /\ process = "up" /\ getKey[c].at = "negotiate" /\ initiator[c].at # "reply"
    /\ GetKeyAt(c, "send", None)
    /\ timedOut' = timedOut \cup {c}
    /\ UNCHANGED <<caller, negotiation, process, initiator, responder, sessionVars, net, duplicated>>

\* Thirty seconds pass.  The negotiation goes on: fifteen seconds for the reply
\* are over by then, the lookups that verify a key have no limit.
NegotiationTimeout(c) ==
    /\ process = "up" /\ getKey[c].at = "negotiate" /\ initiator[c].at # "reply"
    /\ negotiation' = None
    /\ GetKeyAt(c, "send", None)
    /\ timedOut' = timedOut \cup {c}
    /\ UNCHANGED <<caller, process, initiator, responder, sessionVars, net, duplicated>>

\* Mutant of SubscribeTimeout: a subscriber waits for the channel alone.
SubscribeForEver(c) == getKey[c].at = "subscribe" /\ UNCHANGED vars

\* Nobody sends on the channel a subscriber waits on: its thirty seconds pass.
SubscribeTimeout(c) ==
    /\ process = "up" /\ getKey[c].at = "subscribe"
    /\ GetKeyAt(c, "send", None)
    /\ UNCHANGED <<caller, negotiation, process, initiator, responder, sessionVars, net, duplicated, timedOut>>

\* The result channel has no buffer.  The caller takes one value: with a key
\* it sends its data encrypted.  A negotiation that failed sends nil a second
\* time before it would delete the entry.
Answer(c) ==
    /\ process = "up" /\ getKey[c].at \in {"send", "result"} /\ caller[c] = "waiting"
    /\ caller' = [caller EXCEPT ![c] = "answered"]
    /\ LET next == IF getKey[c].at = "send" THEN "end"
                   ELSE IF getKey[c].key = None THEN "again" ELSE "delete" IN
       GetKeyAt(c, next, getKey[c].key)
    /\ UNCHANGED <<negotiation, process, initiator, responder, sessionVars, net, duplicated, timedOut>>

DeleteEntry(c) ==
    /\ process = "up" /\ getKey[c].at = "delete"
    /\ negotiation' = None
    /\ GetKeyAt(c, "end", getKey[c].key)
    /\ UNCHANGED <<caller, process, initiator, responder, sessionVars, net, duplicated, timedOut>>

-----------------------------------------------------------------------------
(* negotiateDiffieHellmanInitiator                                          *)

InitiatorFails(c) == initiator' = [initiator EXCEPT ![c].at = "callback", ![c].key = None]

\* The reply: its key is looked up next.
ReceiveReply(c, p) ==
    /\ process = "up" /\ initiator[c].at = "reply" /\ p.to = "initiator" /\ p.id = c
    /\ initiator' = [initiator EXCEPT ![c] = [at |-> "verify", key |-> p.key]]
    /\ Deliver(p, {})
    /\ UNCHANGED <<callVars, responder, sessionVars, timedOut>>

\* Mutant of VerifyReply: the session is kept before the owner acknowledges it.
VerifyReplyTrusting(c) ==
    /\ process = "up" /\ initiator[c].at = "verify"
    /\ outgoing' = Append(outgoing, initiator[c].key)
    /\ initiator' = [initiator EXCEPT ![c].at = "callback"]
    /\ Send({Ack("owner", c)})
    /\ UNCHANGED <<callVars, responder, ingoing, used, expired, timedOut>>

\* verifyPublicKey and verifySignature: the acknowledgement with the expiration date
\* is sent.  The lookup may find another node, or never return.
VerifyReply(c) ==
    /\ process = "up" /\ initiator[c].at = "verify"
    /\ \/ /\ initiator' = [initiator EXCEPT ![c].at = "ack"]
          /\ Send({Ack("owner", c)})
       \/ InitiatorFails(c) /\ Send({})
    /\ UNCHANGED <<callVars, responder, sessionVars, timedOut>>

\* waitForAcknowledge: any packet of the negotiation counts ...
ReceiveAck(c, p) ==
    /\ process = "up" /\ initiator[c].at = "ack" /\ p.to = "initiator" /\ p.id = c
    /\ initiator' = [initiator EXCEPT ![c].at = "confirm"]
    /\ Deliver(p, {})
    /\ UNCHANGED <<callVars, responder, sessionVars, timedOut>>

\* ... if the lookup of its sender, which may not return either, finds its key.
VerifyAck(c) ==
    /\ process = "up" /\ initiator[c].at = "confirm"
    /\ \/ /\ outgoing' = Append(outgoing, initiator[c].key)
          /\ initiator' = [initiator EXCEPT ![c].at = "callback"]
       \/ InitiatorFails(c) /\ UNCHANGED outgoing
    /\ UNCHANGED <<callVars, responder, ingoing, used, expired, net, duplicated, timedOut>>

\* Fifteen seconds pass without the packet that is waited for.
InitiatorTimeout(c) ==
    /\ process = "up" /\ initiator[c].at \in {"reply", "ack"}
    /\ InitiatorFails(c)
    /\ UNCHANGED <<callVars, responder, sessionVars, net, duplicated, timedOut>>

\* The result goes to getKey, unless that has given up: the goroutine stays.
Callback(c) ==
    /\ process = "up" /\ initiator[c].at = "callback" /\ getKey[c].at = "negotiate"
    /\ GetKeyAt(c, "result", initiator[c].key)
    /\ initiator' = [initiator EXCEPT ![c].at = "end"]
    /\ UNCHANGED <<caller, negotiation, process, responder, sessionVars, net, duplicated, timedOut>>

-----------------------------------------------------------------------------
(* negotiateDiffieHellman, at the owner                                     *)

\* diffieListenRoutine starts a goroutine for every Init packet, also for a copy.
ReceiveInit(p) ==
    /\ p.to = "owner" /\ p.type = "init" /\ Len(responder) < MaxResponders
    /\ responder' = Append(responder, [id |-> p.id, at |-> "ack"])
    /\ Deliver(p, {Reply(<<p.id, Len(responder) + 1>>)})
    /\ UNCHANGED <<callVars, initiator, sessionVars, timedOut>>

ResponderAt(r, at) == responder' = [responder EXCEPT ![r].at = at]

\* getSession: the first goroutine registered under the ID gets the packet.
GetSession(id) ==
    CHOOSE r \in DOMAIN responder :
        responder[r].id = id /\ \A q \in 1..(r - 1) : responder[q].id # id

\* The acknowledgement: it is answered before the session is saved.
ReceiveInitiatorAck(r, p) ==
    /\ p.to = "owner" /\ p.type = "ack" /\ p.id = responder[r].id
    /\ r = GetSession(p.id) /\ responder[r].at = "ack"
    /\ \/ ResponderAt(r, "save") /\ Deliver(p, {Ack("initiator", p.id)})
       \/ ResponderAt(r, "end") /\ Deliver(p, {})
    /\ UNCHANGED <<callVars, initiator, sessionVars, timedOut>>

ResponderTimeout(r) ==
    /\ responder[r].at = "ack"
    /\ ResponderAt(r, "end")
    /\ UNCHANGED <<callVars, initiator, sessionVars, net, duplicated, timedOut>>

SaveSession(r) ==
    /\ responder[r].at = "save"
    /\ ResponderAt(r, "saved")
    /\ ingoing' = Append(ingoing, <<responder[r].id, r>>)
    /\ UNCHANGED <<callVars, initiator, outgoing, used, expired, net, duplicated, timedOut>>

\* The data of an answered call reaches the owner, if it does.  The loop over the
\* sessions only ever tries the last one; data it cannot decrypt is discarded.
ReceiveStore(c) ==
    /\ caller[c] = "answered" /\ getKey[c].key # None
    /\ ingoing # <<>> /\ ingoing[Len(ingoing)] = getKey[c].key
    /\ used' = used \cup {getKey[c].key}
    /\ UNCHANGED <<callVars, initiator, responder, outgoing, ingoing, expired, net, duplicated, timedOut>>

-----------------------------------------------------------------------------
(* Time and the cleaner                                                     *)

\* The date in the initiator's acknowledgement passes: both sides keep that one.
Expire(c) ==
    /\ c \notin expired
    /\ initiator[c].at \in {"ack", "confirm"} \/ \E key \in Range(outgoing) \cup Range(ingoing) : key[1] = c
    /\ expired' = expired \cup {c}
    /\ UNCHANGED <<callVars, initiator, responder, outgoing, ingoing, used, net, duplicated, timedOut>>

\* The sessions at the kept indices, in their order: a set of one sequence.
Select(sessions, kept) ==
    {[k \in DOMAIN f |-> sessions[f[k]]] :
        f \in {g \in [1..Cardinality(kept) -> kept] : \A j, k \in DOMAIN g : j < k => g[j] < g[k]}}

\* CleanOldDiffieHellmanSessionsRoutine.  An outgoing session is never marked as
\* used; an ingoing one that was used in the last thirty seconds stays.
CleanOutgoing ==
    /\ process = "up" /\ Valid(outgoing) # DOMAIN outgoing
    /\ outgoing' \in Select(outgoing, Valid(outgoing))
    /\ UNCHANGED <<callVars, initiator, responder, ingoing, used, expired, net, duplicated, timedOut>>

CleanIngoing ==
    /\ \E recent \in SUBSET used :
         LET kept == Valid(ingoing) \cup {i \in DOMAIN ingoing : ingoing[i] \in recent} IN
         kept # DOMAIN ingoing /\ ingoing' \in Select(ingoing, kept)
    /\ UNCHANGED <<callVars, initiator, responder, outgoing, used, expired, net, duplicated, timedOut>>

Next ==
    \/ \E c \in Call : \/ Ask(c) \/ GiveUp(c) \/ ReadSessions(c) \/ CheckSessions(c) \/ CheckRace(c)
                       \/ JoinNegotiation(c) \/ NegotiationTimeout(c) \/ SubscribeTimeout(c)
                       \/ Answer(c) \/ DeleteEntry(c)
                       \/ VerifyReply(c) \/ VerifyAck(c)
                       \/ InitiatorTimeout(c) \/ Callback(c) \/ ReceiveStore(c) \/ Expire(c)
    \/ \E c \in Call, p \in net : ReceiveReply(c, p) \/ ReceiveAck(c, p)
    \/ \E p \in net : ReceiveInit(p)
    \/ \E r \in DOMAIN responder : \/ \E p \in net : ReceiveInitiatorAck(r, p)
                                   \/ ResponderTimeout(r) \/ SaveSession(r)
    \/ CleanOutgoing \/ CleanIngoing

\* Every goroutine of the initiator goes on and every timer fires; nothing is
\* assumed of the network, of the owner or of the lookups that verify a key.
Fairness ==
    \A c \in Call : /\ WF_vars(ReadSessions(c)) /\ WF_vars(CheckSessions(c))
                    /\ WF_vars(JoinNegotiation(c)) /\ WF_vars(NegotiationTimeout(c))
                    /\ WF_vars(SubscribeTimeout(c)) /\ WF_vars(InitiatorTimeout(c))
                    /\ WF_vars(Callback(c)) /\ WF_vars(Answer(c)) /\ WF_vars(DeleteEntry(c))

Spec == Init /\ [][Next]_vars /\ Fairness

-----------------------------------------------------------------------------
\* Type correctness of the goroutines, the session maps and the negotiation map.
TypeOK ==
    /\ caller \in [Call -> {"idle", "waiting", "answered", "gone"}]
    /\ getKey \in [Call -> [at : {"none", "read", "check", "map", "negotiate", "subscribe", "send",
                                  "result", "again", "delete", "end"},
                            key : Key \cup {None}, sessions : Seq(Key)]]
    /\ negotiation \in Call \cup {None}
    /\ initiator \in [Call -> [at : {"none", "reply", "verify", "ack", "confirm", "callback", "end"},
                               key : Key \cup {None}]]
    /\ responder \in Seq([id : Call, at : {"ack", "save", "saved", "end"}])
    /\ Len(responder) <= MaxResponders
    /\ outgoing \in Seq(Key) /\ ingoing \in Seq(Key) /\ used \subseteq Key
    /\ expired \subseteq Call /\ process \in {"up", "panicked"}
    /\ duplicated \subseteq Call /\ timedOut \subseteq Call

\* A session the initiator encrypts with is one the owner has saved or is about to:
\* both acknowledgements of the handshake are waited for.  A duplicated packet is the
\* exception, as any packet of the negotiation counts as the acknowledgement
\* (waitForAcknowledge) and a second Init packet starts a second responder.
KeysAgree ==
    \A i \in DOMAIN outgoing :
       LET key == outgoing[i] IN
       key[1] \notin duplicated => responder[key[2]] \in [id : {key[1]}, at : {"save", "saved"}]

\* At most one negotiation with the owner is under way ("We only want 1 negotiation at
\* a time", getKey), unless getKey gave up on one after thirty seconds: that one's
\* goroutine goes on without an entry in negotiationMap.
Negotiating(c) == initiator[c].at \in {"reply", "verify", "ack", "confirm", "callback"}
OneNegotiation ==
    \A c, d \in Call : c # d /\ Negotiating(c) /\ Negotiating(d) => {c, d} \cap timedOut # {}

\* A batch of links that waits for a key without a limit is answered in the end, with
\* a key or with nil, although the owner may never answer and a subscriber's channel
\* is never written; the index of -1 in getKey ends the program instead.
AllAnswered ==
    \A c \in Call \ Bounded : caller[c] = "waiting" ~> caller[c] = "answered" \/ process = "panicked"

\* The entry of a negotiation leaves negotiationMap, so that a later call can start a
\* new one.  Two leaks of the code are the exceptions: a failed negotiation sends nil
\* twice and its caller takes one, and a caller that gave up after five seconds takes
\* none; getKey stops before the delete in both.
Leaked(c) == getKey[c].at = "again" \/ (getKey[c].at = "result" /\ caller[c] = "gone")
EntryReleased ==
    \A c \in Call : negotiation = c ~> negotiation # c \/ Leaked(c) \/ process = "panicked"

=============================================================================
