--------------------------- MODULE SessionsProofs ---------------------------
(***************************************************************************)
(* The Diffie-Hellman sessions: without duplicated packets the two sides   *)
(* agree on the keys, and one negotiation at a time is under way unless    *)
(* getKey gave up on one; for any number of calls and responders.          *)
(***************************************************************************)
EXTENDS Sessions, FiniteSetTheorems, NaturalsInduction, SequenceTheorems, TLAPS

-----------------------------------------------------------------------------
(* The inductive invariant                                                  *)

Packet ==
    [to : {"owner"}, type : {"init", "ack"}, id : Call, key : {None}]
    \cup [to : {"initiator"}, type : {"reply"}, id : Call, key : Key]
    \cup [to : {"initiator"}, type : {"ack"}, id : Call, key : {None}]

NetOK == net \subseteq Packet

\* What a goroutine of getKey, of the initiator and of the responder may be.
GetKeySet == [at : {"none", "read", "check", "map", "negotiate", "subscribe", "send", "result",
                    "again", "delete", "end"}, key : Key \cup {None}, sessions : Seq(Key)]
InitiatorSet == [at : {"none", "reply", "verify", "ack", "confirm", "callback", "end"},
                 key : Key \cup {None}]
ResponderSet == [id : Call, at : {"ack", "save", "saved", "end"}]

\* The initiator of c has a key, from the reply on.
Keyed(c) == initiator[c].at \in {"verify", "ack", "confirm"}

\* A key names a responder goroutine that exists.
KeysExist ==
    /\ \A i \in DOMAIN outgoing : outgoing[i][2] \in DOMAIN responder
    /\ \A p \in net : p.type = "reply" => p.key[1] = p.id /\ p.key[2] \in DOMAIN responder
    /\ \A c \in Call : Keyed(c) =>
        initiator[c].key \in Key /\ initiator[c].key[1] = c /\ initiator[c].key[2] \in DOMAIN responder

\* getKey starts a negotiation once.
CallOK ==
    \A c \in Call :
        /\ caller[c] = "idle" => getKey[c].at = "none"
        /\ getKey[c].at \in {"none", "read", "check", "map"} => initiator[c].at = "none"

\* Before that nothing of it exists, and before its reply is received nothing of it is
\* acknowledged.
Fresh(c) ==
    /\ initiator[c].at = "none" =>
        (\A p \in net : p.id # c) /\ (\A r \in DOMAIN responder : responder[r].id # c)
    /\ initiator[c].at \in {"none", "reply"} => \A p \in net : p.id = c => p.type # "ack"

StartsOnce == \A c \in Call : Fresh(c)

\* The responder of c saves the session, or has saved it.
Saves(c) ==
    \A r \in DOMAIN responder : responder[r].id = c => responder[r].at \in {"save", "saved"}

\* The handshake of c step by step, if no packet of it is duplicated: Init, one
\* responder and its reply, and the two acknowledgements.
Handshake(c) ==
    /\ \A r, q \in DOMAIN responder : responder[r].id = c /\ responder[q].id = c => r = q
    /\ \A p \in net : p.id = c /\ p.type = "init" =>
        /\ \A r \in DOMAIN responder : responder[r].id # c
        /\ \A q \in net : q.id = c => q.type = "init"
        /\ ~ Keyed(c)
    /\ \A p \in net : p.id = c /\ p.type = "reply" =>
        /\ responder[p.key[2]].id = c
        /\ \A q \in net : q.id = c => q = p
        /\ ~ Keyed(c)
    /\ Keyed(c) => responder[initiator[c].key[2]].id = c
    /\ \A p \in net : p.id = c /\ p.type = "ack" /\ p.to = "initiator" => Saves(c)
    /\ initiator[c].at = "confirm" => Saves(c)

HandshakeOK == \A c \in Call : c \notin duplicated => Handshake(c)

\* The entry of negotiationMap belongs to the getKey that has not deleted it yet, and
\* to the negotiation that is under way.
EntryOK ==
    \A c \in Call :
        /\ getKey[c].at \in {"negotiate", "result", "again", "delete"} => negotiation = c
        /\ getKey[c].at \in {"result", "again", "delete"} => initiator[c].at = "end"
        /\ Negotiating(c) /\ c \notin timedOut => negotiation = c

IInv ==
    /\ TypeOK /\ NetOK /\ KeysExist /\ CallOK /\ StartsOnce /\ HandshakeOK /\ KeysAgree /\ EntryOK

-----------------------------------------------------------------------------
(* Packets and sequences                                                    *)

\* What the parts of a packet can be.
LEMMA PacketType ==
    ASSUME NetOK, NEW p \in net
    PROVE  /\ p \in Packet /\ p.id \in Call
           /\ p.type \in {"init", "reply", "ack"} /\ p.to \in {"owner", "initiator"}
           /\ p.to = "initiator" => p.type \in {"reply", "ack"}
           /\ p.type = "reply" => p.to = "initiator" /\ p.key \in Key
           /\ p.type = "init" => p.to = "owner"
  BY DEF NetOK, Packet

\* A packet is delivered once, or its negotiation has a duplicate from now on.
LEMMA DeliverFacts ==
    ASSUME NEW p \in net, NEW out, Deliver(p, out), \A q \in out : q.id = p.id
    PROVE  /\ net' \subseteq net \cup out
           /\ \A q \in net \cup net' : q.id # p.id => (q \in net' <=> q \in net)
           /\ duplicated \subseteq duplicated' /\ duplicated' \subseteq duplicated \cup {p.id}
           /\ p.id \notin duplicated' => net' = (net \ {p}) \cup out
  BY DEF Deliver

\* A selection of sessions is made of sessions.
LEMMA SelectFacts ==
    ASSUME NEW K, NEW sessions \in Seq(K), NEW kept \in SUBSET DOMAIN sessions,
           NEW t \in Select(sessions, kept)
    PROVE  t \in Seq(K) /\ \A i \in DOMAIN t : \E j \in DOMAIN sessions : t[i] = sessions[j]
<1>1. PICK f \in [1..Cardinality(kept) -> kept] : t = [k \in DOMAIN f |-> sessions[f[k]]]
  BY DEF Select
<1>2. IsFiniteSet(kept)
  <2>1. IsFiniteSet(1..Len(sessions)) /\ kept \in SUBSET (1..Len(sessions))
    BY FS_Interval
  <2> QED  BY <2>1, FS_Subset
<1>3. Cardinality(kept) \in Nat
  BY <1>2, FS_CardinalityType
<1>4. t \in [1..Cardinality(kept) -> K]
  BY <1>1
<1>5. t \in Seq(K)
  BY <1>3, <1>4, SeqDef
<1>6. \A i \in DOMAIN t : f[i] \in DOMAIN sessions /\ t[i] = sessions[f[i]]
  BY <1>1
<1> QED  BY <1>5, <1>6

-----------------------------------------------------------------------------
(* What a step leaves alone                                                 *)

\* A step that touches neither packets nor goroutines of a negotiation.
LEMMA NegotiationsUntouched ==
    ASSUME IInv, UNCHANGED <<net, responder, initiator, outgoing, duplicated>>,
           TypeOK', CallOK', EntryOK'
    PROVE  IInv'
<1>1. NetOK' /\ KeysExist'
  BY DEF IInv, NetOK, KeysExist, Keyed
<1>2. StartsOnce'
  BY DEF IInv, StartsOnce, Fresh
<1>3. HandshakeOK'
  BY DEF IInv, HandshakeOK, Handshake, Keyed, Saves
<1>4. KeysAgree'
  BY DEF IInv, KeysAgree
<1> QED  BY <1>1, <1>2, <1>3, <1>4 DEF IInv

\* The step does nothing to the negotiation of d.
SameFor(d) ==
    /\ initiator'[d] = initiator[d]
    /\ \A q \in net \cup net' : q.id = d => (q \in net' <=> q \in net)
    /\ DOMAIN responder \subseteq DOMAIN responder'
    /\ \A r \in DOMAIN responder : responder[r].id = d => responder'[r] = responder[r]
    /\ \A r \in DOMAIN responder' : responder'[r].id = d =>
            r \in DOMAIN responder /\ responder'[r] = responder[r]
    /\ duplicated \subseteq duplicated'

\* Then it keeps the part of the invariant that is about d.
LEMMA OthersKeep ==
    ASSUME IInv, NEW d \in Call, SameFor(d)
    PROVE  Fresh(d)' /\ (d \notin duplicated' => Handshake(d)')
<1>1. Fresh(d)'
  BY DEF IInv, StartsOnce, Fresh, SameFor
<1>2. ASSUME d \notin duplicated'  PROVE Handshake(d)'
  <2>1. Handshake(d)
    BY <1>2 DEF IInv, HandshakeOK, SameFor
  <2>2. \A r, q \in DOMAIN responder' : responder'[r].id = d /\ responder'[q].id = d => r = q
    BY <2>1 DEF Handshake, SameFor
  <2>3. \A p \in net' : p.id = d /\ p.type = "init" =>
            /\ \A r \in DOMAIN responder' : responder'[r].id # d
            /\ \A q \in net' : q.id = d => q.type = "init"
            /\ ~ Keyed(d)'
    BY <2>1 DEF Handshake, SameFor, Keyed
  <2>4. \A p \in net' : p.id = d /\ p.type = "reply" =>
            /\ responder'[p.key[2]].id = d
            /\ \A q \in net' : q.id = d => q = p
            /\ ~ Keyed(d)'
    BY <2>1 DEF IInv, KeysExist, Handshake, SameFor, Keyed
  <2>5. Keyed(d)' => responder'[initiator'[d].key[2]].id = d
    BY <2>1 DEF IInv, KeysExist, Handshake, SameFor, Keyed
  <2>6. /\ \A p \in net' : p.id = d /\ p.type = "ack" /\ p.to = "initiator" => Saves(d)'
        /\ initiator'[d].at = "confirm" => Saves(d)'
    BY <2>1 DEF Handshake, SameFor, Saves
  <2> QED  BY <2>2, <2>3, <2>4, <2>5, <2>6 DEF Handshake
<1> QED  BY <1>1, <1>2

\* A step of negotiation c keeps the invariant if it keeps what is about c.
LEMMA NegotiationPreserves ==
    ASSUME IInv, NEW c \in Call, \A d \in Call : d # c => SameFor(d), TypeOK', NetOK',
           KeysExist', CallOK', EntryOK', Fresh(c)', c \notin duplicated' => Handshake(c)',
           KeysAgree'
    PROVE  IInv'
<1>1. StartsOnce'
  BY OthersKeep DEF StartsOnce
<1>2. HandshakeOK'
  BY OthersKeep DEF HandshakeOK
<1> QED  BY <1>1, <1>2 DEF IInv

-----------------------------------------------------------------------------
(* getKey and its callers                                                   *)

\* A caller asks for the key.
LEMMA AskPreserves ==
    ASSUME IInv, NEW c \in Call, Ask(c)
    PROVE  IInv'
<1>1. TypeOK'
  BY DEF IInv, TypeOK, Ask, GetKeyAt, sessionVars
<1>2. CallOK' /\ EntryOK'
  BY DEF IInv, TypeOK, CallOK, EntryOK, Negotiating, Ask, GetKeyAt
<1> QED  BY <1>1, <1>2, NegotiationsUntouched DEF Ask, sessionVars

\* A caller stops waiting.
LEMMA GiveUpPreserves ==
    ASSUME IInv, NEW c \in Call, GiveUp(c)
    PROVE  IInv'
<1>1. TypeOK'
  BY DEF IInv, TypeOK, GiveUp, sessionVars
<1>2. CallOK' /\ EntryOK'
  BY DEF IInv, TypeOK, CallOK, EntryOK, Negotiating, GiveUp
<1> QED  BY <1>1, <1>2, NegotiationsUntouched DEF GiveUp, sessionVars

\* getKey reads the sessions.
LEMMA ReadSessionsPreserves ==
    ASSUME IInv, NEW c \in Call, ReadSessions(c)
    PROVE  IInv'
<1>1. TypeOK'
  BY DEF IInv, TypeOK, ReadSessions, sessionVars
<1>2. CallOK' /\ EntryOK'
  BY DEF IInv, TypeOK, CallOK, EntryOK, Negotiating, ReadSessions
<1> QED  BY <1>1, <1>2, NegotiationsUntouched DEF ReadSessions, sessionVars

\* getKey takes the last session, or goes on to the negotiations.
LEMMA CheckSessionsPreserves ==
    ASSUME IInv, NEW c \in Call, CheckSessions(c)
    PROVE  IInv'
<1>1. PICK at \in {"send", "map"}, key \in Key \cup {None} : GetKeyAt(c, at, key)
  <2>1. getKey[c].sessions \in Seq(Key)
    BY DEF IInv, TypeOK
  <2> QED  BY <2>1 DEF CheckSessions, Valid
<1>2. TypeOK'
  BY <1>1 DEF IInv, TypeOK, CheckSessions, GetKeyAt, sessionVars
<1>3. CallOK' /\ EntryOK'
  BY <1>1 DEF IInv, TypeOK, CallOK, EntryOK, Negotiating, CheckSessions, GetKeyAt
<1> QED  BY <1>2, <1>3, NegotiationsUntouched DEF CheckSessions, sessionVars

\* Every set of indices that is not empty has a largest one.
LEMMA LargestIndex ==
    ASSUME NEW n \in Nat, NEW S \in SUBSET (1..n), S # {}
    PROVE  \E i \in S : \A j \in S : j <= i
<1> DEFINE T == {n - i : i \in S}
<1>1. \A i \in S : i \in Int /\ n - i \in Nat
  OBVIOUS
<1>2. T \subseteq Nat /\ T # {}
  BY <1>1
<1>3. PICK x \in T : \A y \in T : ~ (<<y, x>> \in OpToRel(<, Nat))
  <2> HIDE DEF T
  <2> QED  BY <1>2, NatLessThanWellFounded, WFMin
<1>4. \A y \in T : ~ (y < x)
  <2> HIDE DEF T
  <2> QED  BY <1>2, <1>3 DEF OpToRel
<1>5. PICK i \in S : x = n - i
  OBVIOUS
<1>6. ASSUME NEW j \in S  PROVE j <= i
  <2>1. ~ (n - j < n - i)
    BY <1>4, <1>5
  <2> QED  BY <1>1, <2>1
<1> QED  BY <1>6

\* The last session expires while getKey looks at it.
LEMMA CheckRacePreserves ==
    ASSUME IInv, NEW c \in Call, CheckRace(c)
    PROVE  IInv'
<1> DEFINE read == getKey[c].sessions
           others == Valid(read) \ {Len(read)}
           key == read[CHOOSE i \in others : \A j \in others : j <= i]
<1>1. /\ read \in Seq(Key) /\ Len(read) \in Nat
      /\ DOMAIN read = 1..Len(read) /\ others \subseteq 1..Len(read)
  BY DEF IInv, TypeOK, Valid
<1>2. others # {} => key \in Key
  <2>1. SUFFICES ASSUME others # {}  PROVE key \in Key
    OBVIOUS
  <2>2. (CHOOSE i \in others : \A j \in others : j <= i) \in others
    BY <1>1, <2>1, LargestIndex
  <2> QED  BY <1>1, <2>2
<1>3. expired' \subseteq Call
  <2>1. read[Len(read)] \in Key
    BY <1>1 DEF CheckRace, Valid
  <2> QED  BY <2>1 DEF IInv, TypeOK, CheckRace, Key
<1>4. /\ process' \in {"up", "panicked"} /\ getKey[c].at = "check"
      /\ getKey' = getKey \/ (key \in Key /\ GetKeyAt(c, "send", key))
  BY <1>2 DEF IInv, TypeOK, CheckRace
<1> HIDE DEF others, key
<1>5. TypeOK'
  <2>1. getKey \in [Call -> GetKeySet]
    BY DEF IInv, TypeOK, GetKeySet
  <2>2. getKey' \in [Call -> GetKeySet]
    <3>1. key \in Key => [at |-> "send", key |-> key, sessions |-> <<>>] \in GetKeySet
      BY DEF GetKeySet
    <3> QED  BY <1>4, <2>1, <3>1 DEF GetKeyAt
  <2> QED  BY <1>3, <1>4, <2>2 DEF IInv, TypeOK, CheckRace, GetKeySet
<1>6. CallOK' /\ EntryOK'
  <2>1. UNCHANGED <<caller, negotiation, initiator, timedOut>>
    BY DEF CheckRace
  <2>2. \A d \in Call : getKey'[d] = getKey[d] \/ (d = c /\ getKey'[d].at = "send")
    BY <1>4 DEF IInv, TypeOK, GetKeyAt
  <2> QED  BY <1>4, <2>1, <2>2 DEF IInv, CallOK, EntryOK, Negotiating
<1> QED  BY <1>5, <1>6, NegotiationsUntouched DEF CheckRace

\* getKey gives up on its negotiation: the entry was its own.
LEMMA NegotiationTimeoutPreserves ==
    ASSUME IInv, NEW c \in Call, NegotiationTimeout(c)
    PROVE  IInv'
<1>1. TypeOK'
  BY DEF IInv, TypeOK, NegotiationTimeout, GetKeyAt, sessionVars
<1>2. CallOK' /\ EntryOK'
  BY CallAssumption DEF IInv, TypeOK, CallOK, EntryOK, Negotiating, NegotiationTimeout, GetKeyAt
<1> QED  BY <1>1, <1>2, NegotiationsUntouched DEF NegotiationTimeout, sessionVars

\* A subscriber gives up.
LEMMA SubscribeTimeoutPreserves ==
    ASSUME IInv, NEW c \in Call, SubscribeTimeout(c)
    PROVE  IInv'
<1>1. TypeOK'
  BY DEF IInv, TypeOK, SubscribeTimeout, GetKeyAt, sessionVars
<1>2. CallOK' /\ EntryOK'
  BY DEF IInv, TypeOK, CallOK, EntryOK, Negotiating, SubscribeTimeout, GetKeyAt
<1> QED  BY <1>1, <1>2, NegotiationsUntouched DEF SubscribeTimeout, sessionVars

\* A caller takes its answer.
LEMMA AnswerPreserves ==
    ASSUME IInv, NEW c \in Call, Answer(c)
    PROVE  IInv'
<1>1. PICK at \in {"end", "again", "delete"} :
        /\ getKey' = [getKey EXCEPT ![c] = [at |-> at, key |-> getKey[c].key,
                                             sessions |-> <<>>]]
        /\ at # "end" => getKey[c].at = "result"
  BY DEF Answer, GetKeyAt
<1>2. TypeOK'
  BY <1>1 DEF IInv, TypeOK, Answer, sessionVars
<1>3. CallOK' /\ EntryOK'
  BY <1>1 DEF IInv, TypeOK, CallOK, EntryOK, Negotiating, Answer
<1> QED  BY <1>2, <1>3, NegotiationsUntouched DEF Answer, sessionVars

\* getKey deletes its entry: the negotiation is over.
LEMMA DeleteEntryPreserves ==
    ASSUME IInv, NEW c \in Call, DeleteEntry(c)
    PROVE  IInv'
<1>1. TypeOK'
  BY DEF IInv, TypeOK, DeleteEntry, GetKeyAt, sessionVars
<1>2. CallOK' /\ EntryOK'
  BY CallAssumption DEF IInv, TypeOK, CallOK, EntryOK, Negotiating, DeleteEntry, GetKeyAt
<1> QED  BY <1>1, <1>2, NegotiationsUntouched DEF DeleteEntry, sessionVars

\* Data reaches the owner.
LEMMA ReceiveStorePreserves ==
    ASSUME IInv, NEW c \in Call, ReceiveStore(c)
    PROVE  IInv'
<1>1. TypeOK'
  BY DEF IInv, TypeOK, ReceiveStore, callVars
<1>2. CallOK' /\ EntryOK'
  BY DEF IInv, CallOK, EntryOK, Negotiating, ReceiveStore, callVars
<1> QED  BY <1>1, <1>2, NegotiationsUntouched DEF ReceiveStore

\* A session expires.
LEMMA ExpirePreserves ==
    ASSUME IInv, NEW c \in Call, Expire(c)
    PROVE  IInv'
<1>1. TypeOK'
  BY DEF IInv, TypeOK, Expire, callVars
<1>2. CallOK' /\ EntryOK'
  BY DEF IInv, CallOK, EntryOK, Negotiating, Expire, callVars
<1> QED  BY <1>1, <1>2, NegotiationsUntouched DEF Expire

\* The cleaner removes ingoing sessions.
LEMMA CleanIngoingPreserves ==
    ASSUME IInv, CleanIngoing
    PROVE  IInv'
<1>1. PICK kept \in SUBSET DOMAIN ingoing : ingoing' \in Select(ingoing, kept)
  BY DEF CleanIngoing, Valid
<1>2. ingoing' \in Seq(Key)
  BY <1>1, SelectFacts DEF IInv, TypeOK
<1>3. TypeOK'
  BY <1>2 DEF IInv, TypeOK, CleanIngoing, callVars
<1>4. CallOK' /\ EntryOK'
  BY DEF IInv, CallOK, EntryOK, Negotiating, CleanIngoing, callVars
<1> QED  BY <1>3, <1>4, NegotiationsUntouched DEF CleanIngoing

-----------------------------------------------------------------------------
(* The negotiation                                                          *)

\* getKey starts a negotiation, of which nothing exists, or subscribes to one.
LEMMA JoinNegotiationPreserves ==
    ASSUME IInv, NEW c \in Call, JoinNegotiation(c)
    PROVE  IInv'
<1>1. CASE negotiation # None
  <2>1. /\ getKey[c].at = "map"
        /\ getKey' = [getKey EXCEPT ![c] = [at |-> "subscribe", key |-> None, sessions |-> <<>>]]
        /\ UNCHANGED <<caller, negotiation, process, initiator, responder, outgoing, ingoing, used,
                       expired, net, duplicated, timedOut>>
    BY <1>1 DEF JoinNegotiation, GetKeyAt, sessionVars
  <2>2. TypeOK'
    BY <2>1 DEF IInv, TypeOK
  <2>3. CallOK' /\ EntryOK'
    BY <2>1 DEF IInv, TypeOK, CallOK, EntryOK, Negotiating
  <2> QED  BY <2>1, <2>2, <2>3, NegotiationsUntouched
<1>2. CASE negotiation = None
  <2>1. /\ getKey[c].at = "map" /\ negotiation' = c
        /\ getKey' = [getKey EXCEPT ![c] = [at |-> "negotiate", key |-> None, sessions |-> <<>>]]
        /\ initiator' = [initiator EXCEPT ![c].at = "reply"]
        /\ net' = net \cup {InitPacket(c)}
        /\ UNCHANGED <<caller, process, responder, outgoing, ingoing, used, expired, duplicated,
                       timedOut>>
    BY <1>2 DEF JoinNegotiation, GetKeyAt, Send, sessionVars
  <2>2. /\ initiator[c].at = "none" /\ \A p \in net : p.id # c
        /\ \A r \in DOMAIN responder : responder[r].id # c
    BY <2>1 DEF IInv, CallOK, StartsOnce, Fresh
  <2>3. /\ initiator'[c].at = "reply" /\ \A d \in Call : d # c => initiator'[d] = initiator[d]
        /\ getKey'[c].at = "negotiate" /\ \A d \in Call : d # c => getKey'[d] = getKey[d]
    BY <2>1 DEF IInv, TypeOK
  <2>4. /\ InitPacket(c) \in Packet /\ InitPacket(c).id = c /\ InitPacket(c).type = "init"
        /\ \A p \in net' : p.id = c => p = InitPacket(c)
    BY <2>1, <2>2 DEF InitPacket, Packet
  <2>5. \A d \in Call : d # c => SameFor(d)
    BY <2>1, <2>3, <2>4 DEF SameFor
  <2>6. TypeOK'
    <3>1. getKey \in [Call -> GetKeySet] /\ initiator \in [Call -> InitiatorSet]
      BY DEF IInv, TypeOK, GetKeySet, InitiatorSet
    <3>2. getKey' \in [Call -> GetKeySet]
      BY <2>1, <3>1 DEF GetKeySet
    <3>3. initiator' \in [Call -> InitiatorSet]
      BY <2>1, <3>1 DEF InitiatorSet
    <3> QED  BY <2>1, <3>2, <3>3 DEF IInv, TypeOK, GetKeySet, InitiatorSet
  <2>7. NetOK'
    BY <2>1, <2>4 DEF IInv, NetOK
  <2>8. KeysExist'
    BY <2>1, <2>3, <2>4 DEF IInv, KeysExist, Keyed
  <2>9. CallOK' /\ EntryOK'
    BY <1>2, <2>1, <2>3, CallAssumption DEF IInv, TypeOK, CallOK, EntryOK, Negotiating
  <2>10. Fresh(c)' /\ Handshake(c)'
    BY <2>1, <2>2, <2>3, <2>4 DEF Fresh, Handshake, Keyed
  <2>11. KeysAgree'
    BY <2>1 DEF IInv, KeysAgree
  <2> QED  BY <2>5, <2>6, <2>7, <2>8, <2>9, <2>10, <2>11, NegotiationPreserves
<1> QED  BY <1>1, <1>2

\* The initiator fails or ends: it does not wait for an acknowledgement any more.
LEMMA InitiatorStops ==
    ASSUME IInv, NEW c \in Call, TypeOK', CallOK', EntryOK',
           UNCHANGED <<responder, outgoing>>, initiator[c].at # "none",
           initiator'[c].at \in {"callback", "end"},
           \A d \in Call : d # c => initiator'[d] = initiator[d],
           net' \subseteq net, duplicated \subseteq duplicated',
           \A q \in net : q.id # c => q \in net'
    PROVE  IInv'
<1>1. \A d \in Call : d # c => SameFor(d)
  BY DEF SameFor
<1>2. NetOK' /\ KeysExist'
  BY DEF IInv, NetOK, KeysExist, Keyed
<1>3. Fresh(c)'
  BY DEF Fresh
<1>4. c \notin duplicated' => Handshake(c)'
  BY DEF IInv, HandshakeOK, Handshake, Keyed, Saves
<1>5. KeysAgree'
  BY DEF IInv, KeysAgree
<1> QED  BY <1>1, <1>2, <1>3, <1>4, <1>5, NegotiationPreserves

\* The initiator waits in vain.
LEMMA InitiatorTimeoutPreserves ==
    ASSUME IInv, NEW c \in Call, InitiatorTimeout(c)
    PROVE  IInv'
<1>1. /\ initiator[c].at \in {"reply", "ack"}
      /\ initiator' = [initiator EXCEPT ![c].at = "callback", ![c].key = None]
      /\ UNCHANGED <<caller, getKey, negotiation, process, responder, outgoing, ingoing, used,
                     expired, net, duplicated, timedOut>>
  BY DEF InitiatorTimeout, InitiatorFails, callVars, sessionVars
<1>2. /\ initiator'[c].at = "callback" /\ \A d \in Call : d # c => initiator'[d] = initiator[d]
  BY <1>1 DEF IInv, TypeOK
<1>3. TypeOK'
  BY <1>1 DEF IInv, TypeOK
<1>4. CallOK' /\ EntryOK'
  BY <1>1, <1>2 DEF IInv, CallOK, EntryOK, Negotiating
<1> QED  BY <1>1, <1>2, <1>3, <1>4, InitiatorStops

\* getKey takes the result.
LEMMA CallbackPreserves ==
    ASSUME IInv, NEW c \in Call, Callback(c)
    PROVE  IInv'
<1>1. /\ initiator[c].at = "callback" /\ getKey[c].at = "negotiate"
      /\ getKey' = [getKey EXCEPT ![c] = [at |-> "result", key |-> initiator[c].key, sessions |-> <<>>]]
      /\ initiator' = [initiator EXCEPT ![c].at = "end"]
      /\ UNCHANGED <<caller, negotiation, process, responder, outgoing, ingoing, used, expired,
                     net, duplicated, timedOut>>
  BY DEF Callback, GetKeyAt, sessionVars
<1>2. /\ initiator'[c].at = "end" /\ \A d \in Call : d # c => initiator'[d] = initiator[d]
      /\ getKey'[c].at = "result" /\ \A d \in Call : d # c => getKey'[d] = getKey[d]
  BY <1>1 DEF IInv, TypeOK
<1>3. TypeOK'
  BY <1>1 DEF IInv, TypeOK
<1>4. CallOK' /\ EntryOK'
  BY <1>1, <1>2 DEF IInv, CallOK, EntryOK, Negotiating
<1> QED  BY <1>1, <1>2, <1>3, <1>4, InitiatorStops

\* The reply arrives: if it is the only one, its responder is the only one too.
LEMMA ReceiveReplyPreserves ==
    ASSUME IInv, NEW c \in Call, NEW p \in net, ReceiveReply(c, p)
    PROVE  IInv'
<1>1. /\ initiator[c].at = "reply" /\ p.to = "initiator" /\ p.id = c /\ Deliver(p, {})
      /\ initiator' = [initiator EXCEPT ![c] = [at |-> "verify", key |-> p.key]]
      /\ UNCHANGED <<caller, getKey, negotiation, process, responder, outgoing, ingoing, used,
                     expired, timedOut>>
  BY DEF ReceiveReply, callVars, sessionVars
<1>2. /\ p.type = "reply" /\ p.key \in Key /\ p.key[1] = c /\ p.key[2] \in DOMAIN responder
  <2>1. p.type = "reply"
    BY <1>1, PacketType DEF IInv, StartsOnce, Fresh
  <2> QED  BY <1>1, <2>1, PacketType DEF IInv, KeysExist
<1>3. /\ net' \subseteq net
      /\ \A q \in net \cup net' : q.id # c => (q \in net' <=> q \in net)
      /\ duplicated \subseteq duplicated' /\ duplicated' \subseteq Call
      /\ c \notin duplicated' => net' = net \ {p}
  BY <1>1 DEF IInv, TypeOK, Deliver
<1>4. /\ initiator'[c].at = "verify" /\ initiator'[c].key = p.key
      /\ \A d \in Call : d # c => initiator'[d] = initiator[d]
  BY <1>1 DEF IInv, TypeOK
<1>5. \A d \in Call : d # c => SameFor(d)
  BY <1>1, <1>3, <1>4 DEF SameFor
<1>6. TypeOK' /\ NetOK'
  BY <1>1, <1>2, <1>3 DEF IInv, TypeOK, NetOK
<1>7. KeysExist'
  BY <1>1, <1>2, <1>3, <1>4 DEF IInv, KeysExist, Keyed
<1>8. CallOK' /\ EntryOK'
  BY <1>1, <1>4 DEF IInv, CallOK, EntryOK, Negotiating
<1>9. Fresh(c)'
  BY <1>4 DEF Fresh
<1>10. ASSUME c \notin duplicated'  PROVE Handshake(c)'
  <2>1. Handshake(c)
    BY <1>3, <1>10 DEF IInv, HandshakeOK
  <2>2. \A q \in net' : q.id # c
    BY <1>1, <1>2, <1>3, <1>10, <2>1 DEF Handshake
  <2>3. responder[p.key[2]].id = c
    BY <1>1, <1>2, <2>1 DEF Handshake
  <2> QED  BY <1>1, <1>4, <2>1, <2>2, <2>3 DEF Handshake
<1>11. KeysAgree'
  BY <1>1, <1>3 DEF IInv, KeysAgree
<1> QED  BY <1>5, <1>6, <1>7, <1>8, <1>9, <1>10, <1>11, NegotiationPreserves

\* Its key is verified: the acknowledgement is the first one of the negotiation.
LEMMA VerifyReplyPreserves ==
    ASSUME IInv, NEW c \in Call, VerifyReply(c)
    PROVE  IInv'
<1>1. /\ initiator[c].at = "verify" /\ duplicated' = duplicated
      /\ UNCHANGED <<caller, getKey, negotiation, process, responder, outgoing, ingoing, used,
                     expired, timedOut>>
  BY DEF VerifyReply, Send, callVars, sessionVars
<1>2. CASE InitiatorFails(c) /\ Send({})
  <2>1. net' = net
    BY <1>2 DEF Send
  <2>2. initiator'[c].at = "callback" /\ \A d \in Call : d # c => initiator'[d] = initiator[d]
    BY <1>2 DEF IInv, TypeOK, InitiatorFails
  <2>3. TypeOK'
    BY <1>1, <1>2 DEF IInv, TypeOK, InitiatorFails
  <2>4. CallOK' /\ EntryOK'
    BY <1>1, <2>2 DEF IInv, CallOK, EntryOK, Negotiating
  <2> QED  BY <1>1, <2>1, <2>2, <2>3, <2>4, InitiatorStops
<1>3. CASE /\ initiator' = [initiator EXCEPT ![c].at = "ack"]
           /\ Send({Ack("owner", c)})
  <2> DEFINE a == Ack("owner", c)
  <2>1. a \in Packet /\ a.id = c /\ a.type = "ack" /\ a.to = "owner" /\ net' = net \cup {a}
    BY <1>3 DEF Ack, Packet, Send
  <2> HIDE DEF a
  <2>2. /\ initiator'[c].at = "ack" /\ initiator'[c].key = initiator[c].key
        /\ \A d \in Call : d # c => initiator'[d] = initiator[d]
    BY <1>3 DEF IInv, TypeOK
  <2>3. \A d \in Call : d # c => SameFor(d)
    BY <1>1, <2>1, <2>2 DEF SameFor
  <2>4. TypeOK' /\ NetOK'
    <3>1. initiator' \in [Call -> InitiatorSet]
      BY <1>3 DEF IInv, TypeOK, InitiatorSet
    <3> QED  BY <1>1, <2>1, <3>1 DEF IInv, TypeOK, NetOK, InitiatorSet
  <2>5. KeysExist'
    BY <1>1, <2>1, <2>2 DEF IInv, KeysExist, Keyed
  <2>6. CallOK' /\ EntryOK'
    BY <1>1, <2>2 DEF IInv, CallOK, EntryOK, Negotiating
  <2>7. Fresh(c)'
    BY <2>2 DEF Fresh
  <2>8. ASSUME c \notin duplicated'  PROVE Handshake(c)'
    <3>1. Handshake(c) /\ Keyed(c)
      BY <1>1, <2>8 DEF IInv, HandshakeOK, Keyed
    <3>2. \A q \in net' : q.id = c => q.type \notin {"init", "reply"}
      BY <2>1, <3>1 DEF Handshake
    <3>3. Saves(c)' <=> Saves(c)
      BY <1>1 DEF Saves
    <3> QED  BY <1>1, <2>1, <2>2, <3>1, <3>2, <3>3 DEF Handshake
  <2>9. KeysAgree'
    BY <1>1 DEF IInv, KeysAgree
  <2> QED  BY <2>3, <2>4, <2>5, <2>6, <2>7, <2>8, <2>9, NegotiationPreserves
<1> QED  BY <1>2, <1>3 DEF VerifyReply

\* The acknowledgement arrives: the responder that sent it saves the session.
LEMMA ReceiveAckPreserves ==
    ASSUME IInv, NEW c \in Call, NEW p \in net, ReceiveAck(c, p)
    PROVE  IInv'
<1>1. /\ initiator[c].at = "ack" /\ p.to = "initiator" /\ p.id = c /\ Deliver(p, {})
      /\ initiator' = [initiator EXCEPT ![c].at = "confirm"]
      /\ UNCHANGED <<caller, getKey, negotiation, process, responder, outgoing, ingoing, used,
                     expired, timedOut>>
  BY DEF ReceiveAck, callVars, sessionVars
<1>2. /\ net' \subseteq net
      /\ \A q \in net \cup net' : q.id # c => (q \in net' <=> q \in net)
      /\ duplicated \subseteq duplicated' /\ duplicated' \subseteq Call
  BY <1>1 DEF IInv, TypeOK, Deliver
<1>3. /\ initiator'[c].at = "confirm" /\ initiator'[c].key = initiator[c].key
      /\ \A d \in Call : d # c => initiator'[d] = initiator[d]
  BY <1>1 DEF IInv, TypeOK
<1>4. \A d \in Call : d # c => SameFor(d)
  BY <1>1, <1>2, <1>3 DEF SameFor
<1>5. TypeOK' /\ NetOK'
  <2>1. initiator' \in [Call -> InitiatorSet]
    BY <1>1 DEF IInv, TypeOK, InitiatorSet
  <2> QED  BY <1>1, <1>2, <2>1 DEF IInv, TypeOK, NetOK, InitiatorSet
<1>6. KeysExist'
  BY <1>1, <1>2, <1>3 DEF IInv, KeysExist, Keyed
<1>7. CallOK' /\ EntryOK'
  BY <1>1, <1>3 DEF IInv, CallOK, EntryOK, Negotiating
<1>8. Fresh(c)'
  BY <1>3 DEF Fresh
<1>9. ASSUME c \notin duplicated'  PROVE Handshake(c)'
  <2>1. Handshake(c) /\ Keyed(c)
    BY <1>1, <1>2, <1>9 DEF IInv, HandshakeOK, Keyed
  <2>2. p.type = "ack"
    BY <1>1, <2>1, PacketType DEF IInv, Handshake
  <2>3. Saves(c) /\ (Saves(c)' <=> Saves(c))
    BY <1>1, <2>1, <2>2 DEF Handshake, Saves
  <2>4. \A q \in net' : q.id = c => q.type \notin {"init", "reply"}
    BY <1>2, <2>1 DEF Handshake
  <2> QED  BY <1>1, <1>3, <2>1, <2>3, <2>4 DEF Handshake
<1>10. KeysAgree'
  BY <1>1, <1>2 DEF IInv, KeysAgree
<1> QED  BY <1>4, <1>5, <1>6, <1>7, <1>8, <1>9, <1>10, NegotiationPreserves

\* It is verified: the session is kept.
LEMMA VerifyAckPreserves ==
    ASSUME IInv, NEW c \in Call, VerifyAck(c)
    PROVE  IInv'
<1>1. /\ initiator[c].at = "confirm"
      /\ UNCHANGED <<caller, getKey, negotiation, process, responder, ingoing, used, expired,
                     net, duplicated, timedOut>>
  BY DEF VerifyAck, callVars
<1>2. CASE InitiatorFails(c) /\ UNCHANGED outgoing
  <2>1. initiator'[c].at = "callback" /\ \A d \in Call : d # c => initiator'[d] = initiator[d]
    BY <1>2 DEF IInv, TypeOK, InitiatorFails
  <2>2. TypeOK'
    BY <1>1, <1>2 DEF IInv, TypeOK, InitiatorFails
  <2>3. CallOK' /\ EntryOK'
    BY <1>1, <2>1 DEF IInv, CallOK, EntryOK, Negotiating
  <2> QED  BY <1>1, <1>2, <2>1, <2>2, <2>3, InitiatorStops
<1>3. CASE /\ outgoing' = Append(outgoing, initiator[c].key)
           /\ initiator' = [initiator EXCEPT ![c].at = "callback"]
  <2> DEFINE key == initiator[c].key
  <2>1. key \in Key /\ key[1] = c /\ key[2] \in DOMAIN responder
    BY <1>1 DEF IInv, KeysExist, Keyed
  <2>2. initiator'[c].at = "callback" /\ \A d \in Call : d # c => initiator'[d] = initiator[d]
    BY <1>3 DEF IInv, TypeOK
  <2> HIDE DEF key
  <2>3. /\ outgoing' \in Seq(Key) /\ DOMAIN outgoing' = 1..(Len(outgoing) + 1)
        /\ \A i \in DOMAIN outgoing' : outgoing'[i] = key \/ (i \in DOMAIN outgoing /\ outgoing'[i] = outgoing[i])
    <3>1. outgoing \in Seq(Key) /\ outgoing' = Append(outgoing, key)
      BY <1>3 DEF IInv, TypeOK, key
    <3> QED  BY <2>1, <3>1
  <2>4. \A d \in Call : d # c => SameFor(d)
    BY <1>1, <2>2 DEF SameFor
  <2>5. TypeOK' /\ NetOK'
    <3>1. initiator' \in [Call -> [at : {"none", "reply", "verify", "ack", "confirm", "callback",
                                         "end"}, key : Key \cup {None}]]
      BY <1>3 DEF IInv, TypeOK
    <3> QED  BY <1>1, <2>3, <3>1 DEF IInv, TypeOK, NetOK
  <2>6. KeysExist'
    BY <1>1, <2>1, <2>2, <2>3 DEF IInv, KeysExist, Keyed
  <2>7. CallOK' /\ EntryOK'
    BY <1>1, <2>2 DEF IInv, CallOK, EntryOK, Negotiating
  <2>8. Fresh(c)'
    BY <2>2 DEF Fresh
  <2>9. c \notin duplicated' => Handshake(c)'
    BY <1>1, <2>2 DEF IInv, HandshakeOK, Handshake, Keyed, Saves
  <2>10. KeysAgree'
    <3>1. ASSUME c \notin duplicated
          PROVE  responder[key[2]] \in [id : {c}, at : {"save", "saved"}]
      <4>1. Handshake(c)
        BY <3>1 DEF IInv, HandshakeOK
      <4>2. responder[key[2]].id = c
        BY <1>1, <4>1 DEF Handshake, Keyed, key
      <4>3. responder[key[2]].at \in {"save", "saved"}
        BY <1>1, <2>1, <4>1, <4>2 DEF Handshake, Saves
      <4>4. responder[key[2]] \in [id : Call, at : {"ack", "save", "saved", "end"}]
        <5>1. responder \in Seq(ResponderSet)
          BY DEF IInv, TypeOK, ResponderSet
        <5>2. \A r \in DOMAIN responder : responder[r] \in ResponderSet
          BY <5>1
        <5> QED  BY <2>1, <5>2 DEF ResponderSet
      <4> QED  BY <4>2, <4>3, <4>4
    <3>2. ASSUME NEW i \in DOMAIN outgoing', outgoing'[i][1] \notin duplicated
          PROVE  responder[outgoing'[i][2]] \in [id : {outgoing'[i][1]}, at : {"save", "saved"}]
      <4>1. CASE outgoing'[i] = key
        BY <2>1, <3>1, <3>2, <4>1
      <4>2. CASE i \in DOMAIN outgoing /\ outgoing'[i] = outgoing[i]
        BY <3>2, <4>2 DEF IInv, KeysAgree
      <4> QED  BY <2>3, <4>1, <4>2
    <3> QED  BY <1>1, <3>2 DEF KeysAgree
  <2> QED  BY <2>4, <2>5, <2>6, <2>7, <2>8, <2>9, <2>10, NegotiationPreserves
<1> QED  BY <1>2, <1>3 DEF VerifyAck

-----------------------------------------------------------------------------
(* The responders                                                           *)

\* An Init packet starts a responder: the first one of its negotiation, unless the
\* packet was duplicated.
LEMMA ReceiveInitPreserves ==
    ASSUME IInv, NEW p \in net, ReceiveInit(p)
    PROVE  IInv'
<1> DEFINE c == p.id
           n == Len(responder) + 1
           b == Reply(<<c, n>>)
<1>1. /\ p.type = "init" /\ n \in Responder
      /\ responder' = Append(responder, [id |-> c, at |-> "ack"])
      /\ Deliver(p, {b})
      /\ UNCHANGED <<caller, getKey, negotiation, process, initiator, outgoing, ingoing, used,
                     expired, timedOut>>
  BY BoundAssumption DEF ReceiveInit, callVars, sessionVars, IInv, TypeOK, Responder
<1>2. c \in Call
  BY PacketType DEF IInv
<1>3. /\ b \in Packet /\ b.id = c /\ b.type = "reply" /\ b.to = "initiator"
      /\ b.key[1] = c /\ b.key[2] = n
  BY <1>1, <1>2 DEF Reply, Packet, Key
<1>4. /\ n \in Nat /\ DOMAIN responder = 1..(n - 1)
      /\ responder' \in Seq(ResponderSet) /\ Len(responder') = n /\ DOMAIN responder' = 1..n
      /\ responder'[n].id = c /\ responder'[n].at = "ack"
      /\ \A r \in DOMAIN responder : responder'[r] = responder[r]
  <2>1. responder \in Seq(ResponderSet) /\ [id |-> c, at |-> "ack"] \in ResponderSet
    BY <1>2 DEF IInv, TypeOK, ResponderSet
  <2> QED  BY <1>1, <2>1
<1> HIDE DEF b, n
<1>5. /\ net' \subseteq net \cup {b}
      /\ \A q \in net \cup net' : q.id # c => (q \in net' <=> q \in net)
      /\ duplicated \subseteq duplicated' /\ duplicated' \subseteq Call
      /\ c \notin duplicated' => net' = (net \ {p}) \cup {b}
  <2>1. duplicated \subseteq Call
    BY DEF IInv, TypeOK
  <2> QED  BY <1>1, <1>2, <1>3, <2>1, DeliverFacts
<1> HIDE DEF c
<1>6. n \notin DOMAIN responder /\ \A r \in DOMAIN responder' : r \in DOMAIN responder \/ r = n
  BY <1>4
<1>7. \A d \in Call : d # c => SameFor(d)
  BY <1>1, <1>4, <1>5, <1>6 DEF SameFor
<1>8. TypeOK'
  <2>1. n <= MaxResponders
    BY <1>1, BoundAssumption DEF Responder
  <2> QED  BY <1>1, <1>4, <1>5, <2>1 DEF IInv, TypeOK, ResponderSet
<1>9. NetOK'
  BY <1>3, <1>5 DEF IInv, NetOK
<1>10. KeysExist'
  BY <1>1, <1>3, <1>4, <1>5, <1>6 DEF IInv, KeysExist, Keyed
<1>11. CallOK' /\ EntryOK'
  BY <1>1 DEF IInv, CallOK, EntryOK, Negotiating
<1>12. initiator[c].at # "none"
  BY <1>2 DEF IInv, StartsOnce, Fresh, c
<1>13. Fresh(c)'
  BY <1>1, <1>2, <1>3, <1>5, <1>12 DEF IInv, StartsOnce, Fresh
<1>14. ASSUME c \notin duplicated'  PROVE Handshake(c)'
  <2>1. Handshake(c) /\ net' = (net \ {p}) \cup {b}
    BY <1>2, <1>5, <1>14 DEF IInv, HandshakeOK
  <2>2. /\ \A r \in DOMAIN responder : responder[r].id # c
        /\ \A q \in net : q.id = c => q.type = "init"
        /\ ~ Keyed(c)
    BY <1>1, <2>1 DEF Handshake, c
  <2>3. \A q \in net' : q.id = c => q = b
    <3>1. \A q \in net : q.id = c => q = p
      BY <1>1, <2>2, PacketType, CallAssumption DEF IInv, NetOK, Packet, c
    <3> QED  BY <2>1, <3>1
  <2>4. \A r \in DOMAIN responder' : responder'[r].id = c => r = n
    BY <1>4, <1>6, <2>2
  <2> QED  BY <1>1, <1>3, <1>4, <2>2, <2>3, <2>4 DEF Handshake, Keyed
<1>15. KeysAgree'
  BY <1>1, <1>4, <1>5 DEF IInv, KeysExist, KeysAgree
<1> QED  BY <1>2, <1>7, <1>8, <1>9, <1>10, <1>11, <1>13, <1>14, <1>15, NegotiationPreserves

\* What changes when a responder goes on.
LEMMA ResponderAtFacts ==
    ASSUME TypeOK, NEW r \in DOMAIN responder, NEW at \in {"ack", "save", "saved", "end"},
           ResponderAt(r, at)
    PROVE  /\ responder[r] \in ResponderSet /\ r \in Responder
           /\ responder' \in Seq(ResponderSet) /\ Len(responder') = Len(responder)
           /\ DOMAIN responder' = DOMAIN responder
           /\ responder'[r].id = responder[r].id /\ responder'[r].at = at
           /\ responder'[r] \in ResponderSet
           /\ \A q \in DOMAIN responder : q # r => responder'[q] = responder[q]
           /\ \A q \in DOMAIN responder : responder'[q].id = responder[q].id
<1>1. responder \in Seq(ResponderSet) /\ Len(responder) <= MaxResponders
  BY DEF TypeOK, ResponderSet
<1>2. responder[r] \in ResponderSet /\ r \in Responder
  BY <1>1, BoundAssumption DEF Responder
<1>3. responder' = [responder EXCEPT ![r] = [responder[r] EXCEPT !.at = at]]
  BY DEF ResponderAt
<1>4. [responder[r] EXCEPT !.at = at] \in ResponderSet
  BY <1>2 DEF ResponderSet
<1>5. responder' \in Seq(ResponderSet) /\ Len(responder') = Len(responder)
  BY <1>1, <1>3, <1>4
<1>6. /\ DOMAIN responder' = DOMAIN responder
      /\ responder'[r].id = responder[r].id /\ responder'[r].at = at
      /\ \A q \in DOMAIN responder : q # r => responder'[q] = responder[q]
  BY <1>2, <1>3 DEF ResponderSet
<1> QED  BY <1>2, <1>3, <1>4, <1>5, <1>6

\* A responder that goes on, and does not leave the saving of a session, keeps all
\* but what the packets of its negotiation say of it.
LEMMA ResponderGoesOn ==
    ASSUME IInv, NEW r \in DOMAIN responder, NEW at \in {"save", "saved", "end"},
           ResponderAt(r, at), at = "end" => responder[r].at = "ack",
           UNCHANGED <<caller, getKey, negotiation, timedOut, initiator, outgoing>>,
           duplicated \subseteq duplicated',
           \A q \in net \cup net' : q.id # responder[r].id => (q \in net' <=> q \in net),
           \A q \in net' : q \in net \/ q.type = "ack"
    PROVE  /\ \A d \in Call : d # responder[r].id => SameFor(d)
           /\ KeysExist' /\ CallOK' /\ EntryOK' /\ KeysAgree'
<1>1. /\ DOMAIN responder' = DOMAIN responder /\ responder'[r].at = at
      /\ responder'[r] \in ResponderSet
      /\ \A q \in DOMAIN responder : q # r => responder'[q] = responder[q]
      /\ \A q \in DOMAIN responder : responder'[q].id = responder[q].id
  BY ResponderAtFacts DEF IInv
<1>2. \A d \in Call : d # responder[r].id => SameFor(d)
  BY <1>1 DEF SameFor
<1>3. KeysExist'
  BY <1>1 DEF IInv, KeysExist, Keyed
<1>4. CallOK' /\ EntryOK'
  BY DEF IInv, CallOK, EntryOK, Negotiating
<1>5. KeysAgree'
  <2>1. SUFFICES ASSUME NEW i \in DOMAIN outgoing, outgoing[i][1] \notin duplicated
                 PROVE  responder'[outgoing[i][2]] \in [id : {outgoing[i][1]}, at : {"save", "saved"}]
    BY DEF KeysAgree
  <2>2. responder[outgoing[i][2]] \in [id : {outgoing[i][1]}, at : {"save", "saved"}]
    BY <2>1 DEF IInv, KeysAgree
  <2>3. outgoing[i][2] \in DOMAIN responder
    BY DEF IInv, KeysExist
  <2>4. CASE outgoing[i][2] = r
    BY <1>1, <2>2, <2>4 DEF ResponderSet
  <2>5. CASE outgoing[i][2] # r
    BY <1>1, <2>2, <2>3, <2>5
  <2> QED  BY <2>4, <2>5
<1> QED  BY <1>2, <1>3, <1>4, <1>5

\* The initiator's acknowledgement arrives: no reply of the negotiation is left.
LEMMA ReceiveInitiatorAckPreserves ==
    ASSUME IInv, NEW r \in DOMAIN responder, NEW p \in net, ReceiveInitiatorAck(r, p)
    PROVE  IInv'
<1> DEFINE c == p.id
           a == Ack("initiator", c)
<1>1. /\ p.type = "ack" /\ p.to = "owner" /\ responder[r].id = c /\ responder[r].at = "ack"
      /\ UNCHANGED <<caller, getKey, negotiation, process, initiator, outgoing, ingoing, used,
                     expired, timedOut>>
  BY DEF ReceiveInitiatorAck, callVars, sessionVars
<1>2. PICK at \in {"save", "end"}, out \in SUBSET {a} :
          ResponderAt(r, at) /\ Deliver(p, out) /\ (at = "end" => out = {})
  BY <1>1 DEF ReceiveInitiatorAck
<1>3. c \in Call /\ a \in Packet /\ a.id = c /\ a.type = "ack"
  <2>1. c \in Call
    BY <1>1, PacketType DEF IInv
  <2> QED  BY <2>1 DEF Ack, Packet
<1> HIDE DEF a
<1>4. /\ net' \subseteq net \cup {a}
      /\ \A q \in net \cup net' : q.id # c => (q \in net' <=> q \in net)
      /\ duplicated \subseteq duplicated' /\ duplicated' \subseteq Call
      /\ c \notin duplicated' => net' = (net \ {p}) \cup out
  <2>1. duplicated \subseteq Call
    BY DEF IInv, TypeOK
  <2> QED  BY <1>1, <1>2, <1>3, <2>1, DeliverFacts
<1>5. /\ DOMAIN responder' = DOMAIN responder /\ responder'[r].at = at
      /\ responder' \in Seq(ResponderSet) /\ Len(responder') = Len(responder)
      /\ \A q \in DOMAIN responder : q # r => responder'[q] = responder[q]
      /\ \A q \in DOMAIN responder : responder'[q].id = responder[q].id
  BY <1>2, ResponderAtFacts DEF IInv
<1>6. /\ \A d \in Call : d # c => SameFor(d)
      /\ KeysExist' /\ CallOK' /\ EntryOK' /\ KeysAgree'
  BY <1>1, <1>2, <1>3, <1>4, ResponderGoesOn
<1>7. TypeOK'
  BY <1>1, <1>4, <1>5 DEF IInv, TypeOK, ResponderSet
<1>8. NetOK'
  BY <1>3, <1>4 DEF IInv, NetOK
<1>9. Fresh(c)'
  BY <1>1, <1>3 DEF IInv, StartsOnce, Fresh
<1>10. ASSUME c \notin duplicated'  PROVE Handshake(c)'
  <2>1. Handshake(c) /\ net' = (net \ {p}) \cup out
    BY <1>3, <1>4, <1>10 DEF IInv, HandshakeOK
  <2>2. \A q \in net' : q.id = c => q.type = "ack"
    BY <1>1, <1>3, <1>4, <2>1, PacketType DEF IInv, Handshake
  <2>3. \A q \in DOMAIN responder' : responder'[q].id = c => q = r
    BY <1>1, <1>5, <2>1 DEF Handshake
  <2>4. at = "end" => \A q \in net' : ~(q.id = c /\ q.type = "ack" /\ q.to = "initiator")
    BY <1>1, <1>2, <2>1 DEF Handshake, Saves
  <2>5. Keyed(c)' => Keyed(c) /\ responder'[initiator[c].key[2]].id = c
    BY <1>1, <1>3, <1>5, <2>1 DEF IInv, KeysExist, Handshake, Keyed
  <2>6. initiator[c].at # "confirm"
    BY <1>1, <2>1 DEF Handshake, Saves
  <2>7. at = "save" => Saves(c)'
    BY <1>5, <2>3 DEF Saves
  <2> QED  BY <1>1, <1>2, <1>5, <2>2, <2>3, <2>4, <2>5, <2>6, <2>7 DEF Handshake
<1> QED  BY <1>3, <1>6, <1>7, <1>8, <1>9, <1>10, NegotiationPreserves

\* A responder that goes on without a packet.
LEMMA ResponderAlone ==
    ASSUME IInv, NEW r \in DOMAIN responder, NEW at \in {"saved", "end"}, ResponderAt(r, at),
           responder[r].at = IF at = "end" THEN "ack" ELSE "save",
           UNCHANGED <<caller, getKey, negotiation, process, initiator, outgoing, used, expired,
                       net, duplicated, timedOut>>,
           ingoing' \in Seq(Key)
    PROVE  IInv'
<1>1. /\ DOMAIN responder' = DOMAIN responder /\ responder'[r].at = at
      /\ responder[r] \in ResponderSet
      /\ responder' \in Seq(ResponderSet) /\ Len(responder') = Len(responder)
      /\ \A q \in DOMAIN responder : q # r => responder'[q] = responder[q]
      /\ \A q \in DOMAIN responder : responder'[q].id = responder[q].id
  BY ResponderAtFacts DEF IInv
<1>2. PICK c \in Call : c = responder[r].id
  BY <1>1 DEF ResponderSet
<1>3. /\ \A d \in Call : d # c => SameFor(d)
      /\ KeysExist' /\ CallOK' /\ EntryOK' /\ KeysAgree'
  BY <1>2, ResponderGoesOn
<1>4. TypeOK'
  BY <1>1 DEF IInv, TypeOK, ResponderSet
<1>5. NetOK'
  BY DEF IInv, NetOK
<1>6. Fresh(c)'
  BY <1>1, <1>2 DEF IInv, StartsOnce, Fresh
<1>7. ASSUME c \notin duplicated'  PROVE Handshake(c)'
  <2>1. Handshake(c)
    BY <1>2, <1>7 DEF IInv, HandshakeOK
  <2>2. \A p \in net : ~(p.id = c /\ p.type = "init")
    BY <1>2, <2>1 DEF Handshake
  <2>3. \A p \in net : p.id = c /\ p.type = "reply" => responder'[p.key[2]].id = c
    BY <1>1, <2>1 DEF IInv, KeysExist, Handshake
  <2>4. Keyed(c)' => Keyed(c) /\ responder'[initiator[c].key[2]].id = c
    BY <1>1, <1>2, <2>1 DEF IInv, KeysExist, Handshake, Keyed
  <2>5. Saves(c) => Saves(c)'
    BY <1>1, <1>2 DEF Saves
  <2> QED  BY <1>1, <2>1, <2>2, <2>3, <2>4, <2>5 DEF Handshake
<1> QED  BY <1>2, <1>3, <1>4, <1>5, <1>6, <1>7, NegotiationPreserves

\* The acknowledgement does not come.
LEMMA ResponderTimeoutPreserves ==
    ASSUME IInv, NEW r \in DOMAIN responder, ResponderTimeout(r)
    PROVE  IInv'
<1>1. ingoing' \in Seq(Key)
  BY DEF ResponderTimeout, sessionVars, IInv, TypeOK
<1>2. /\ ResponderAt(r, "end") /\ responder[r].at = "ack"
      /\ UNCHANGED <<caller, getKey, negotiation, process, initiator, outgoing, used, expired,
                     net, duplicated, timedOut>>
  BY DEF ResponderTimeout, callVars, sessionVars
<1> QED  BY <1>1, <1>2, ResponderAlone

\* The session is saved.
LEMMA SaveSessionPreserves ==
    ASSUME IInv, NEW r \in DOMAIN responder, SaveSession(r)
    PROVE  IInv'
<1>1. /\ ResponderAt(r, "saved") /\ responder[r].at = "save"
      /\ ingoing' = Append(ingoing, <<responder[r].id, r>>)
      /\ UNCHANGED <<caller, getKey, negotiation, process, initiator, outgoing, used, expired,
                     net, duplicated, timedOut>>
  BY DEF SaveSession, callVars
<1>2. responder[r] \in ResponderSet /\ r \in Responder
  BY <1>1, ResponderAtFacts DEF IInv
<1>3. <<responder[r].id, r>> \in Key
  BY <1>2 DEF Key, ResponderSet
<1>4. ingoing' \in Seq(Key)
  BY <1>1, <1>3 DEF IInv, TypeOK
<1> QED  BY <1>1, <1>4, ResponderAlone

-----------------------------------------------------------------------------
(* The cleaner of the outgoing sessions                                     *)

LEMMA CleanOutgoingPreserves ==
    ASSUME IInv, CleanOutgoing
    PROVE  IInv'
<1>1. /\ outgoing' \in Select(outgoing, Valid(outgoing))
      /\ UNCHANGED <<caller, getKey, negotiation, process, initiator, responder, ingoing, used,
                     expired, net, duplicated, timedOut>>
  BY DEF CleanOutgoing, callVars
<1>2. /\ outgoing' \in Seq(Key)
      /\ \A i \in DOMAIN outgoing' : \E j \in DOMAIN outgoing : outgoing'[i] = outgoing[j]
  <2>1. outgoing \in Seq(Key) /\ Valid(outgoing) \in SUBSET DOMAIN outgoing
    BY DEF IInv, TypeOK, Valid
  <2> QED  BY <1>1, <2>1, SelectFacts
<1>3. TypeOK' /\ NetOK'
  BY <1>1, <1>2 DEF IInv, TypeOK, NetOK
<1>4. KeysExist' /\ CallOK' /\ EntryOK'
  BY <1>1, <1>2 DEF IInv, KeysExist, Keyed, CallOK, EntryOK, Negotiating
<1>5. StartsOnce' /\ HandshakeOK'
  BY <1>1 DEF IInv, StartsOnce, Fresh, HandshakeOK, Handshake, Keyed, Saves
<1>6. KeysAgree'
  BY <1>1, <1>2 DEF IInv, KeysAgree
<1> QED  BY <1>3, <1>4, <1>5, <1>6 DEF IInv

-----------------------------------------------------------------------------
(* The theorems                                                             *)

LEMMA InitIInv == Init => IInv
<1> SUFFICES ASSUME Init PROVE IInv
  OBVIOUS
<1>1. TypeOK
  BY BoundAssumption DEF Init, TypeOK
<1>2. NetOK /\ KeysExist /\ CallOK
  BY DEF Init, NetOK, KeysExist, Keyed, CallOK
<1>3. StartsOnce
  BY DEF Init, StartsOnce, Fresh
<1>4. HandshakeOK
  BY DEF Init, HandshakeOK, Handshake, Keyed
<1>5. KeysAgree /\ EntryOK
  BY DEF Init, KeysAgree, EntryOK, Negotiating
<1> QED  BY <1>1, <1>2, <1>3, <1>4, <1>5 DEF IInv

LEMMA NextIInv == IInv /\ [Next]_vars => IInv'
<1> SUFFICES ASSUME IInv, [Next]_vars PROVE IInv'
  OBVIOUS
<1>1. ASSUME NEW c \in Call,
             \/ Ask(c) \/ GiveUp(c) \/ ReadSessions(c) \/ CheckSessions(c) \/ CheckRace(c) \/ JoinNegotiation(c)
             \/ NegotiationTimeout(c) \/ SubscribeTimeout(c) \/ Answer(c) \/ DeleteEntry(c)
             \/ VerifyReply(c) \/ VerifyAck(c)
             \/ InitiatorTimeout(c) \/ Callback(c) \/ ReceiveStore(c) \/ Expire(c)
      PROVE  IInv'
  BY <1>1, AskPreserves, GiveUpPreserves, ReadSessionsPreserves, CheckSessionsPreserves,
     CheckRacePreserves, VerifyReplyPreserves, VerifyAckPreserves,
     JoinNegotiationPreserves, NegotiationTimeoutPreserves, SubscribeTimeoutPreserves,
     AnswerPreserves, DeleteEntryPreserves, InitiatorTimeoutPreserves, CallbackPreserves,
     ReceiveStorePreserves, ExpirePreserves
<1>2. ASSUME NEW c \in Call, NEW p \in net, ReceiveReply(c, p) \/ ReceiveAck(c, p)
      PROVE  IInv'
  BY <1>2, ReceiveReplyPreserves, ReceiveAckPreserves
<1>3. ASSUME NEW p \in net, ReceiveInit(p)  PROVE IInv'
  BY <1>3, ReceiveInitPreserves
<1>4. ASSUME NEW r \in DOMAIN responder,
             \/ \E p \in net : ReceiveInitiatorAck(r, p)
             \/ ResponderTimeout(r) \/ SaveSession(r)
      PROVE  IInv'
  BY <1>4, ReceiveInitiatorAckPreserves, ResponderTimeoutPreserves, SaveSessionPreserves
<1>5. ASSUME CleanOutgoing \/ CleanIngoing  PROVE IInv'
  BY <1>5, CleanOutgoingPreserves, CleanIngoingPreserves
<1>6. ASSUME UNCHANGED vars  PROVE IInv'
  <2>1. UNCHANGED <<caller, getKey, negotiation, process, initiator, responder, outgoing, ingoing,
                    used, expired, net, duplicated, timedOut>>
    BY <1>6 DEF vars, callVars, sessionVars
  <2>2. TypeOK' /\ CallOK' /\ EntryOK'
    BY <2>1 DEF IInv, TypeOK, CallOK, EntryOK, Negotiating
  <2> QED  BY <2>1, <2>2, NegotiationsUntouched
<1> QED  BY <1>1, <1>2, <1>3, <1>4, <1>5, <1>6 DEF Next

\* The handshake and the entry of negotiationMap go together as IInv says in every
\* reachable state, whatever packets are lost, late or, within Copied, duplicated.
THEOREM Invariance == Spec => []IInv
  BY InitIInv, NextIInv, PTL DEF Spec

\* The goroutines, the session maps and the negotiation map keep their types: no key
\* names a responder beyond the bound, and no entry of negotiationMap is not a call.
THEOREM TypeCorrect == Spec => []TypeOK
<1>1. IInv => TypeOK
  BY DEF IInv
<1> QED  BY <1>1, Invariance, PTL

\* Every session the initiator keeps is saved, or about to be saved, by the responder
\* that made it with the initiator (waitForAcknowledge on both sides), if no packet of
\* its negotiation was duplicated.
THEOREM KeysAgreeHolds == Spec => []KeysAgree
<1>1. IInv => KeysAgree
  BY DEF IInv
<1> QED  BY <1>1, Invariance, PTL

\* negotiationMap keeps getKey to one negotiation with the owner at a time, unless the
\* thirty seconds of one of the two are over.
THEOREM OneNegotiationHolds == Spec => []OneNegotiation
<1>1. IInv => OneNegotiation
  BY DEF IInv, EntryOK, OneNegotiation
<1> QED  BY <1>1, Invariance, PTL

=============================================================================
