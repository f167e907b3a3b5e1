---------------------------- MODULE FilesProofs ----------------------------
(***************************************************************************)
(* The files of one gossiper, for any files, peers and downloads: the      *)
(* channels of downloadFile, of which dataReplyListenRoutine never blocks  *)
(* on one nobody waits on, and the ledger of their names, for any names,   *)
(* any number of blocks and any order of their arrival.  The two are       *)
(* separate specifications that share no variable.                         *)
(***************************************************************************)
EXTENDS Download, Ledger, WellFoundedInduction, FiniteSetTheorems, TLAPS

-----------------------------------------------------------------------------
(* Downloads: the inductive invariant                                       *)

Chan == Download \X Nat
PosOf(d) == 0..Len(Chunks[FileOf[d]])      \* the pieces d asks for
HashOf(d) == HashAt(FileOf[d], dl[d].pos)  \* the hash it is at
ChanHash(c) == HashAt(FileOf[c[1]], c[2])  \* the hash channel c was made for

Waits(d) == dl[d].at = "wait"
Deletes(h) == routine.at = "delete" /\ routine.hash = h

\* Where a download may be.
At == {"new", "call", "wait", "got", "done", "invalid", "failed", "refused"}
USE DEF At

DlOK ==
    /\ dl \in [Download -> [at : At,
                            pos : Nat, chan : Chan \cup {None}, peer : Peer \cup {Anyone},
                            hops : 0..(2 ^ HopBits - 1)]]
    /\ \A d \in Download : dl[d].pos \in PosOf(d)

RoutineOK ==
    routine \in {Idle} \cup [at : {"send"}, hash : Hash, chan : Chan]
                       \cup [at : {"delete"}, hash : Hash]

SharerOK ==
    sharer \in [at : {"idle", "ledger"}, file : {None}] \cup [at : {"chunks"}, file : Shared]

\* A channel carries data of one hash: in the map, in the hands of the routine, and
\* at the downloads that wait on it.
ChanOK ==
    /\ \A h \in Hash : listeners[h] # None => ChanHash(listeners[h]) = h
    /\ routine.at = "send" => ChanHash(routine.chan) = routine.hash
    /\ \A d \in Download : Waits(d) => dl[d].chan \in Chan /\ ChanHash(dl[d].chan) = HashOf(d)

\* A channel of the map has a download that waits on it, unless it is being deleted.
MapWaited ==
    \A h \in Hash : listeners[h] # None /\ ~ Deletes(h) =>
        \E d \in Download : Waits(d) /\ dl[d].chan = listeners[h]

\* A download has got a piece with hash h.
Served(h) == \E e \in Download : \E i \in PosOf(e) : HashAt(FileOf[e], i) = h /\ Got(e, i)

\* A channel is deleted after a download got a piece with that hash.
DeletesGot == routine.at = "delete" => Served(routine.hash)

\* The channel of a download is in the map until a piece with its hash was got.
WaitServed ==
    \A d \in Download : Waits(d) => listeners[HashOf(d)] = dl[d].chan \/ Served(HashOf(d))

IInv ==
    /\ TypeOK /\ DlOK /\ RoutineOK /\ SharerOK
    /\ ChanOK /\ MapWaited /\ DeletesGot /\ WaitServed /\ SendIsReceived

-----------------------------------------------------------------------------
(* Pieces and their hashes                                                  *)

\* Every piece of a file has a hash.
LEMMA HashAtType ==
    ASSUME NEW d \in Download, NEW i \in PosOf(d)
    PROVE  HashAt(FileOf[d], i) \in Hash /\ <<d, i>> \in Chan
<1>1. FileOf[d] \in File /\ Chunks[FileOf[d]] \in Seq(Hash) /\ File \subseteq Hash
  BY PeerAssumption, FileAssumption DEF Hash
<1>2. i \in Nat /\ (i # 0 => i \in 1..Len(Chunks[FileOf[d]]))
  BY <1>1 DEF PosOf
<1> QED  BY <1>1, <1>2 DEF HashAt, Chan

\* The peers to ask are peers.
LEMMA OriginsType ==
    ASSUME NEW d \in Download, NEW i \in PosOf(d)
    PROVE  Origins(d, i) \subseteq Peer
<1> DEFINE f == FileOf[d]
<1>1. f \in File /\ Chunks[f] \in Seq(Hash) /\ i \in 0..Len(Chunks[f])
  BY PeerAssumption, FileAssumption DEF PosOf
<1>2. Lists[f] \in [1..Len(Chunks[f]) -> SUBSET Peer]
  BY <1>1, FileAssumption
<1>3. CASE OriginOf[d] # Anyone
  BY <1>3, PeerAssumption DEF Origins
<1>4. CASE OriginOf[d] = Anyone
  <2>1. Len(Chunks[f]) \in Nat /\ Len(Chunks[f]) # 0
    BY <1>1, <1>4, PeerAssumption
  <2>2. (IF i = 0 THEN 1 ELSE i) \in 1..Len(Chunks[f])
    BY <1>1, <2>1
  <2> QED  BY <1>2, <1>4, <2>2 DEF Origins
<1> QED  BY <1>3, <1>4

\* A hash once served stays served: pieces that were got remain so.
LEMMA ServedStays ==
    ASSUME \A e \in Download : \A i \in PosOf(e) : Got(e, i) => Got(e, i)', NEW h, Served(h)
    PROVE  Served(h)'
BY DEF Served

-----------------------------------------------------------------------------
(* The actions                                                              *)

\* Packets that are lost and files that are shared leave the channels alone.
LEMMA ChannelsUntouched ==
    ASSUME IInv, TypeOK', SharerOK', UNCHANGED <<dl, listeners, routine>>
    PROVE  IInv'
<1>1. DlOK' /\ RoutineOK'
  BY DEF IInv, DlOK, RoutineOK
<1>2. ChanOK' /\ MapWaited'
  BY DEF IInv, ChanOK, MapWaited, Waits, Deletes, HashOf
<1>3. DeletesGot' /\ SendIsReceived'
  BY DEF IInv, DeletesGot, Served, Got, SendIsReceived
<1>4. WaitServed'
  BY DEF IInv, WaitServed, Served, Got, Waits, HashOf
<1> QED  BY <1>1, <1>2, <1>3, <1>4 DEF IInv

\* A data reply is lost.
LEMMA LoseKeeps ==
    ASSUME IInv, NEW h \in Hash, Lose(h)
    PROVE  IInv'
<1>1. TypeOK' /\ SharerOK'
  BY DEF IInv, TypeOK, SharerOK, Lose, store
<1> QED  BY <1>1, ChannelsUntouched DEF Lose

\* The client shares a file: its entry ...
LEMMA ShareEntryKeeps ==
    ASSUME IInv, NEW f \in Shared, ShareEntry(f)
    PROVE  IInv'
<1>1. SharerOK'
  BY DEF IInv, SharerOK, ShareEntry
<1>2. TypeOK'
  BY FileAssumption DEF IInv, TypeOK, ShareEntry
<1> QED  BY <1>1, <1>2, ChannelsUntouched DEF ShareEntry

\* ... and its chunks.
LEMMA ShareChunksKeeps ==
    ASSUME IInv, ShareChunks
    PROVE  IInv'
<1>1. SharerOK'
  BY DEF IInv, SharerOK, ShareChunks
<1>2. sharer.file \in File
  BY FileAssumption DEF IInv, SharerOK, ShareChunks
<1>3. chunkMap' \subseteq Hash
  BY <1>2 DEF IInv, TypeOK, ShareChunks, Hash
<1>4. TypeOK'
  BY <1>3 DEF IInv, TypeOK, ShareChunks
<1> QED  BY <1>1, <1>4, ChannelsUntouched DEF ShareChunks

\* A step of downloads that neither start nor end to wait leaves the channels alone.
LEMMA SameWaiters ==
    ASSUME IInv, DlOK', dlFilesSet' \subseteq File, fileMap' \subseteq File,
           chunkMap' \subseteq Hash, replies' \subseteq Hash,
           UNCHANGED <<listeners, routine, sharer>>,
           \A e \in Download : Waits(e)' <=> Waits(e),
           \A e \in Download : Waits(e) => dl'[e].pos = dl[e].pos /\ dl'[e].chan = dl[e].chan,
           \A e \in Download : \A i \in PosOf(e) : Got(e, i) => Got(e, i)'
    PROVE  IInv'
<1>1. TypeOK'
  <2>1. \A e \in Download :
            /\ dl'[e].at \in At
            /\ dl'[e].pos \in 0..Len(Chunks[FileOf[e]]) /\ dl'[e].hops \in 0..(2 ^ HopBits - 1)
    BY DEF DlOK, PosOf
  <2> QED  BY <2>1 DEF IInv, TypeOK
<1>2. RoutineOK' /\ SharerOK'
  BY DEF IInv, RoutineOK, SharerOK
<1>3. \A e \in Download : Waits(e) => HashOf(e)' = HashOf(e)
  BY DEF HashOf
<1>4. ChanOK'
  BY <1>3 DEF IInv, ChanOK
<1>5. MapWaited'
  BY DEF IInv, MapWaited, Deletes
<1>6. DeletesGot'
  BY ServedStays DEF IInv, DeletesGot
<1>7. WaitServed'
  BY <1>3, ServedStays DEF IInv, WaitServed
<1>8. SendIsReceived'
  BY DEF IInv, SendIsReceived, Waits
<1> QED  BY <1>1, <1>2, <1>4, <1>5, <1>6, <1>7, <1>8 DEF IInv

\* A download starts; it has no channel yet.
LEMMA StartKeeps ==
    ASSUME IInv, NEW d \in Download, Start(d)
    PROVE  IInv'
<1>1. PICK at \in {"refused", "failed", "call"} : dl' = [dl EXCEPT ![d].at = at]
  BY DEF Start
<1>2. /\ dl[d].at = "new" /\ dlFilesSet' = dlFilesSet \cup {FileOf[d]}
      /\ UNCHANGED <<listeners, routine, replies, chunkMap, fileMap, sharer>>
  BY DEF Start, store
<1>3. dl \in [Download -> [at : At,
                           pos : Nat, chan : Chan \cup {None}, peer : Peer \cup {Anyone},
                           hops : 0..(2 ^ HopBits - 1)]]
  BY DEF IInv, DlOK
<1>4. /\ dl'[d] = [dl[d] EXCEPT !.at = at]
      /\ \A e \in Download : e # d => dl'[e] = dl[e]
      /\ \A e \in Download : dl'[e].pos = dl[e].pos /\ dl'[e].chan = dl[e].chan
  BY <1>1, <1>3
<1>5. DlOK'
  BY <1>1, <1>3, <1>4 DEF IInv, DlOK
<1>6. \A e \in Download : Waits(e)' <=> Waits(e)
  BY <1>1, <1>2, <1>4 DEF Waits
<1>7. \A e \in Download : \A i \in PosOf(e) : Got(e, i) => Got(e, i)'
  BY <1>2, <1>4 DEF Got
<1>8. FileOf[d] \in File
  BY PeerAssumption
<1> QED  BY <1>2, <1>4, <1>5, <1>6, <1>7, <1>8, SameWaiters DEF IInv, TypeOK

\* A retry changes the hop limit, which wraps around in its width.
LEMMA RetryKeeps ==
    ASSUME IInv, NEW d \in Download, Retry(d)
    PROVE  IInv'
<1> DEFINE hops == (dl[d].hops - 1) % 2 ^ HopBits
<1>1. /\ dl' = [dl EXCEPT ![d].hops = hops] /\ dl[d].at = "wait"
      /\ UNCHANGED <<dlFilesSet, listeners, routine, chunkMap, fileMap, sharer>>
  BY DEF Retry, store
<1>2. dl \in [Download -> [at : At,
                           pos : Nat, chan : Chan \cup {None}, peer : Peer \cup {Anyone},
                           hops : 0..(2 ^ HopBits - 1)]]
  BY DEF IInv, DlOK
<1>3. hops \in 0..(2 ^ HopBits - 1)
  <2>1. 2 ^ HopBits \in Int
    BY HopAssumption
  <2>2. dl[d].hops \in 0..(2 ^ HopBits - 1)
    BY <1>2
  <2> QED  BY <2>1, <2>2, HopAssumption
<1>4. /\ dl'[d] = [dl[d] EXCEPT !.hops = hops]
      /\ \A e \in Download : e # d => dl'[e] = dl[e]
      /\ \A e \in Download : /\ dl'[e].at = dl[e].at /\ dl'[e].pos = dl[e].pos
                             /\ dl'[e].chan = dl[e].chan
  BY <1>1, <1>2
<1>5. DlOK'
  BY <1>1, <1>2, <1>3, <1>4 DEF IInv, DlOK
<1>6. replies' \subseteq Hash
  <2>1. HashAt(FileOf[d], dl[d].pos) \in Hash
    BY HashAtType DEF IInv, DlOK
  <2> QED  BY <2>1 DEF IInv, TypeOK, Retry, Forward
<1>7. /\ \A e \in Download : Waits(e)' <=> Waits(e)
      /\ \A e \in Download : \A i \in PosOf(e) : Got(e, i) => Got(e, i)'
  BY <1>4 DEF Waits, Got
<1> QED  BY <1>1, <1>4, <1>5, <1>6, <1>7, SameWaiters DEF IInv, TypeOK

\* A piece that was got is stored, and the download goes on to the next or ends.
LEMMA StoredKeeps ==
    ASSUME IInv, NEW d \in Download, Stored(d)
    PROVE  IInv'
<1> DEFINE f == FileOf[d]
           rejected == dl[d].pos = 0 /\ f \in Invalid
           last == dl[d].pos = Len(Chunks[f])
           at == IF rejected THEN "invalid" ELSE IF last THEN "done" ELSE "call"
           pos == IF rejected \/ last THEN dl[d].pos ELSE dl[d].pos + 1
<1>1. /\ dl[d].at = "got"
      /\ dl' = [dl EXCEPT ![d].at = at, ![d].pos = pos]
      /\ chunkMap' \subseteq chunkMap \cup {HashAt(f, dl[d].pos)}
      /\ fileMap' \subseteq fileMap \cup {f} /\ dlFilesSet' \subseteq dlFilesSet
      /\ UNCHANGED <<listeners, routine, replies, sharer>>
  BY DEF Stored
<1>2. dl \in [Download -> [at : At,
                           pos : Nat, chan : Chan \cup {None}, peer : Peer \cup {Anyone},
                           hops : 0..(2 ^ HopBits - 1)]]
  BY DEF IInv, DlOK
<1>3. f \in File /\ HashAt(f, dl[d].pos) \in Hash
  BY HashAtType, PeerAssumption DEF IInv, DlOK
<1>4. /\ pos \in PosOf(d) /\ pos \in Nat /\ pos >= dl[d].pos
      /\ pos = dl[d].pos => at # "call"
      /\ at \in {"invalid", "done", "call"}
  <2>1. Len(Chunks[f]) \in Nat /\ dl[d].pos \in 0..Len(Chunks[f])
    BY <1>3, FileAssumption DEF IInv, DlOK, PosOf
  <2> QED  BY <2>1 DEF PosOf
<1> HIDE DEF at, pos
<1>5. /\ \A e \in Download : e # d => dl'[e] = dl[e]
      /\ dl'[d].at = at /\ dl'[d].pos = pos
  BY <1>1, <1>2
<1>6. DlOK'
  <2>1. dl' \in [Download -> [at : At,
                              pos : Nat, chan : Chan \cup {None}, peer : Peer \cup {Anyone},
                              hops : 0..(2 ^ HopBits - 1)]]
    <3>1. dl[d] \in [at : At,
                     pos : Nat, chan : Chan \cup {None}, peer : Peer \cup {Anyone},
                     hops : 0..(2 ^ HopBits - 1)]
      BY <1>2
    <3>2. [dl[d] EXCEPT !.at = at, !.pos = pos] \in
            [at : At,
             pos : Nat, chan : Chan \cup {None}, peer : Peer \cup {Anyone},
             hops : 0..(2 ^ HopBits - 1)]
      BY <1>4, <3>1
    <3>3. dl' = [dl EXCEPT ![d] = [dl[d] EXCEPT !.at = at, !.pos = pos]]
      BY <1>1, <1>2
    <3> QED  BY <1>2, <3>2, <3>3
  <2> QED  BY <1>4, <1>5, <2>1 DEF IInv, DlOK
<1>7. \A e \in Download : Waits(e)' <=> Waits(e)
  BY <1>1, <1>4, <1>5 DEF Waits
<1>8. \A e \in Download : Waits(e) => dl'[e].pos = dl[e].pos /\ dl'[e].chan = dl[e].chan
  BY <1>1, <1>5 DEF Waits
<1>9. \A e \in Download : \A i \in PosOf(e) : Got(e, i) => Got(e, i)'
  <2>1. ASSUME NEW e \in Download, NEW i \in PosOf(e), Got(e, i)  PROVE Got(e, i)'
    <3>1. i \in Int /\ dl[e].pos \in Int /\ pos \in Int
      BY <1>2, <1>4 DEF PosOf
    <3>2. CASE e = d
      BY <1>4, <1>5, <2>1, <3>1, <3>2 DEF Got
    <3>3. CASE e # d
      BY <1>5, <2>1, <3>3 DEF Got
    <3> QED  BY <3>2, <3>3
  <2> QED  BY <2>1
<1> QED  BY <1>1, <1>3, <1>6, <1>7, <1>8, <1>9, SameWaiters DEF IInv, TypeOK

\* A download takes the channel of the map, or puts its own there.
LEMMA CallKeeps ==
    ASSUME IInv, NEW d \in Download, Call(d)
    PROVE  IInv'
<1> DEFINE i == dl[d].pos
           h == HashAt(FileOf[d], i)
           c == IF listeners[h] = None THEN <<d, i>> ELSE listeners[h]
<1>1. /\ dl[d].at = "call" /\ listeners' = [listeners EXCEPT ![h] = c]
      /\ replies' \subseteq replies \cup {h}
      /\ UNCHANGED <<dlFilesSet, routine, chunkMap, fileMap, sharer>>
  BY DEF Call, Forward, store
<1>2. PICK p \in Origins(d, i) :
        dl' = [dl EXCEPT ![d] = [at |-> "wait", pos |-> i, chan |-> c, peer |-> p,
                                 hops |-> HopLimit - 1]]
  BY DEF Call
<1>3. dl \in [Download -> [at : At,
                           pos : Nat, chan : Chan \cup {None}, peer : Peer \cup {Anyone},
                           hops : 0..(2 ^ HopBits - 1)]]
  BY DEF IInv, DlOK
<1>4. /\ i \in PosOf(d) /\ i \in Nat /\ h \in Hash /\ <<d, i>> \in Chan /\ p \in Peer
      /\ listeners \in [Hash -> {None} \cup Chan]
  <2>1. i \in PosOf(d)
    BY DEF IInv, DlOK
  <2> QED  BY <1>3, <2>1, HashAtType, OriginsType DEF IInv, TypeOK, Chan
<1>5. c \in Chan /\ c # None /\ ChanHash(c) = h
  <2>1. CASE listeners[h] = None
    BY <1>4, <2>1, FileAssumption DEF Chan, ChanHash
  <2>2. CASE listeners[h] # None
    BY <1>4, <2>2 DEF IInv, ChanOK
  <2> QED  BY <2>1, <2>2
<1> HIDE DEF c
<1>6. /\ dl'[d] = [at |-> "wait", pos |-> i, chan |-> c, peer |-> p, hops |-> HopLimit - 1]
      /\ \A e \in Download : e # d => dl'[e] = dl[e]
      /\ \A e \in Download : dl'[e].pos = dl[e].pos
      /\ listeners'[h] = c /\ \A g \in Hash : g # h => listeners'[g] = listeners[g]
  BY <1>1, <1>2, <1>3, <1>4
<1>7. DlOK'
  <2>1. HopLimit - 1 \in 0..(2 ^ HopBits - 1)
    <3>1. 2 ^ HopBits \in Int
      BY HopAssumption
    <3> QED  BY <3>1, HopAssumption
  <2>2. dl' \in [Download -> [at : At,
                              pos : Nat, chan : Chan \cup {None}, peer : Peer \cup {Anyone},
                              hops : 0..(2 ^ HopBits - 1)]]
    BY <1>2, <1>3, <1>4, <1>5, <2>1
  <2> QED  BY <1>6, <2>2 DEF IInv, DlOK
<1>8. TypeOK'
  <2>1. \A e \in Download :
            /\ dl'[e].at \in At
            /\ dl'[e].pos \in 0..Len(Chunks[FileOf[e]]) /\ dl'[e].hops \in 0..(2 ^ HopBits - 1)
    BY <1>7 DEF DlOK, PosOf
  <2>2. listeners' \in [Hash -> {None} \cup Chan]
    BY <1>1, <1>4, <1>5
  <2> QED  BY <1>1, <1>4, <2>1, <2>2 DEF IInv, TypeOK, Chan
<1>9. RoutineOK' /\ SharerOK'
  BY <1>1 DEF IInv, RoutineOK, SharerOK
<1>10. /\ \A e \in Download : HashOf(e)' = HashOf(e)
       /\ \A e \in Download : e # d => (Waits(e)' <=> Waits(e))
       /\ HashOf(d) = h /\ Waits(d)' /\ ~ Waits(d)
  BY <1>1, <1>6 DEF HashOf, Waits
<1>11. ChanOK'
  <2>1. \A g \in Hash : listeners'[g] # None => ChanHash(listeners'[g]) = g
    BY <1>5, <1>6 DEF IInv, ChanOK
  <2>2. \A e \in Download : Waits(e)' => dl'[e].chan \in Chan /\ ChanHash(dl'[e].chan) = HashOf(e)
    BY <1>5, <1>6, <1>10 DEF IInv, ChanOK
  <2> QED  BY <1>1, <1>10, <2>1, <2>2 DEF IInv, ChanOK
<1>12. MapWaited'
  <2>1. ASSUME NEW g \in Hash, listeners'[g] # None, ~ Deletes(g)
        PROVE  \E e \in Download : Waits(e)' /\ dl'[e].chan = listeners'[g]
    <3>1. CASE g = h
      BY <1>6, <1>10, <3>1
    <3>2. CASE g # h
      <4>1. PICK e \in Download : Waits(e) /\ dl[e].chan = listeners[g]
        BY <1>6, <2>1, <3>2 DEF IInv, MapWaited
      <4> QED  BY <1>6, <1>10, <3>2, <4>1
    <3> QED  BY <3>1, <3>2
  <2> QED  BY <1>1, <2>1 DEF MapWaited, Deletes
<1>13. \A e \in Download : \A j \in PosOf(e) : Got(e, j) => Got(e, j)'
  BY <1>1, <1>6 DEF Got
<1>14. DeletesGot' /\ WaitServed'
  <2>1. DeletesGot'
    BY <1>1, <1>13, ServedStays DEF IInv, DeletesGot
  <2>2. ASSUME NEW e \in Download, Waits(e)'
        PROVE  listeners'[HashOf(e)] = dl'[e].chan \/ Served(HashOf(e))'
    <3>1. CASE e = d
      BY <1>6, <1>10, <3>1
    <3>2. CASE e # d
      <4>1. listeners[HashOf(e)] = dl[e].chan \/ Served(HashOf(e))
        BY <1>10, <2>2, <3>2 DEF IInv, WaitServed
      <4>2. CASE Served(HashOf(e))
        <5>1. Served(HashOf(e)) /\ HashOf(e)' = HashOf(e)
          BY <1>10, <4>2
        <5>2. PICK g : g = HashOf(e)
          OBVIOUS
        <5> QED  BY <1>13, <5>1, <5>2, ServedStays
      <4>3. CASE listeners[HashOf(e)] = dl[e].chan
        <5>1. dl[e].chan \in Chan /\ dl[e].chan # None /\ HashOf(e) \in Hash
          BY <1>10, <2>2, <3>2, HashAtType, FileAssumption DEF IInv, ChanOK, DlOK, HashOf, Chan
        <5>2. listeners[h] # None => c = listeners[h]
          BY DEF c
        <5> QED  BY <1>6, <3>2, <4>3, <5>1, <5>2
      <4> QED  BY <4>1, <4>2, <4>3
    <3> QED  BY <3>1, <3>2
  <2>3. WaitServed'
    BY <1>10, <2>2 DEF WaitServed
  <2> QED  BY <2>1, <2>3
<1>15. SendIsReceived'
  BY <1>1, <1>6, <1>10 DEF IInv, SendIsReceived, Waits
<1> QED  BY <1>7, <1>8, <1>9, <1>11, <1>12, <1>14, <1>15 DEF IInv

\* The routine takes a channel of the map, which a download waits on.
LEMMA ReceiveReplyKeeps ==
    ASSUME IInv, NEW h \in Hash, ReceiveReply(h)
    PROVE  IInv'
<1>1. /\ routine = Idle /\ replies' \subseteq replies
      /\ routine' = IF listeners[h] = None THEN Idle
                    ELSE [at |-> "send", hash |-> h, chan |-> listeners[h]]
      /\ UNCHANGED <<dlFilesSet, listeners, dl, chunkMap, fileMap, sharer>>
  BY DEF ReceiveReply, store
<1>2. routine.at = "idle" /\ routine'.at \in {"idle", "send"}
  BY <1>1 DEF Idle
<1>3. listeners \in [Hash -> {None} \cup Chan]
  BY DEF IInv, TypeOK, Chan
<1>4. routine'.at = "send" =>
        routine'.hash = h /\ routine'.chan = listeners[h] /\ listeners[h] # None
  BY <1>1 DEF Idle
<1>5. RoutineOK'
  BY <1>1, <1>3 DEF RoutineOK
<1>6. TypeOK' /\ DlOK' /\ SharerOK'
  BY <1>1, <1>2 DEF IInv, TypeOK, DlOK, SharerOK
<1>7. ChanOK'
  BY <1>1, <1>4 DEF IInv, ChanOK, Waits, HashOf
<1>8. \A g \in Hash : ~ Deletes(g) /\ ~ Deletes(g)'
  BY <1>2 DEF Deletes
<1>9. MapWaited'
  BY <1>1, <1>8 DEF IInv, MapWaited, Waits
<1>10. DeletesGot'
  BY <1>2 DEF DeletesGot
<1>11. WaitServed'
  BY <1>1 DEF IInv, WaitServed, Served, Got, Waits, HashOf
<1>12. SendIsReceived'
  BY <1>1, <1>4, <1>8 DEF IInv, MapWaited, SendIsReceived, Waits
<1> QED  BY <1>5, <1>6, <1>7, <1>9, <1>10, <1>11, <1>12 DEF IInv

\* The data is handed over: the channel has one waiter less, and is about to go.
LEMMA HandOverKeeps ==
    ASSUME IInv, NEW d \in Download, HandOver(d)
    PROVE  IInv'
<1>1. /\ routine.at = "send" /\ Waits(d) /\ dl[d].chan = routine.chan
      /\ dl' = [dl EXCEPT ![d] = [at |-> "got", pos |-> dl[d].pos, chan |-> None,
                                  peer |-> Anyone, hops |-> 0]]
      /\ routine' = [at |-> "delete", hash |-> routine.hash]
      /\ UNCHANGED <<dlFilesSet, listeners, replies, chunkMap, fileMap, sharer>>
  BY DEF HandOver, Waits, store
<1>2. dl \in [Download -> [at : At,
                           pos : Nat, chan : Chan \cup {None}, peer : Peer \cup {Anyone},
                           hops : 0..(2 ^ HopBits - 1)]]
  BY DEF IInv, DlOK
<1>3. /\ dl'[d].at = "got"
      /\ \A e \in Download : e # d => dl'[e] = dl[e]
      /\ \A e \in Download : dl'[e].pos = dl[e].pos
  BY <1>1, <1>2
<1>4. routine.hash \in Hash /\ routine'.at = "delete" /\ routine'.hash = routine.hash
  BY <1>1 DEF IInv, RoutineOK, Idle
<1>5. DlOK'
  <2>1. 0 \in 0..(2 ^ HopBits - 1)
    <3>1. 2 ^ HopBits \in Int
      BY HopAssumption
    <3> QED  BY <3>1, HopAssumption
  <2>2. dl' \in [Download -> [at : At,
                              pos : Nat, chan : Chan \cup {None}, peer : Peer \cup {Anyone},
                              hops : 0..(2 ^ HopBits - 1)]]
    BY <1>1, <1>2, <2>1
  <2> QED  BY <1>3, <2>2 DEF IInv, DlOK
<1>6. TypeOK' /\ RoutineOK' /\ SharerOK'
  <2>1. \A e \in Download :
            /\ dl'[e].at \in At
            /\ dl'[e].pos \in 0..Len(Chunks[FileOf[e]]) /\ dl'[e].hops \in 0..(2 ^ HopBits - 1)
    BY <1>5 DEF DlOK, PosOf
  <2>2. TypeOK'
    BY <1>1, <1>4, <2>1 DEF IInv, TypeOK
  <2>3. RoutineOK' /\ SharerOK'
    BY <1>1, <1>4 DEF IInv, RoutineOK, SharerOK
  <2> QED  BY <2>2, <2>3
<1>7. /\ \A e \in Download : HashOf(e)' = HashOf(e)
      /\ \A e \in Download : Waits(e)' <=> (Waits(e) /\ e # d)
  BY <1>3 DEF HashOf, Waits
\* The hash that the routine deletes is the one d was waiting for.
<1>8. routine.hash = HashOf(d) /\ ChanHash(routine.chan) = routine.hash
  BY <1>1 DEF IInv, ChanOK
<1>9. ChanOK'
  BY <1>1, <1>3, <1>4, <1>7 DEF IInv, ChanOK
<1>10. MapWaited'
  <2>1. ASSUME NEW g \in Hash, listeners[g] # None, g # routine.hash
        PROVE  \E e \in Download : Waits(e)' /\ dl'[e].chan = listeners[g]
    <3>1. PICK e \in Download : Waits(e) /\ dl[e].chan = listeners[g]
      BY <1>1, <2>1 DEF IInv, MapWaited, Deletes
    <3>2. e # d
      BY <1>1, <1>8, <2>1, <3>1 DEF IInv, ChanOK
    <3> QED  BY <1>3, <1>7, <3>1, <3>2
  <2> QED  BY <1>1, <1>4, <2>1 DEF MapWaited, Deletes
<1>11. \A e \in Download : \A i \in PosOf(e) : Got(e, i) => Got(e, i)'
  BY <1>1, <1>3 DEF Got, Waits
<1>12. DeletesGot' /\ WaitServed'
  <2>1. PICK i \in PosOf(d) : i = dl[d].pos
    BY DEF IInv, DlOK
  <2>2. Got(d, i)' /\ HashAt(FileOf[d], i) = routine'.hash
    BY <1>2, <1>3, <1>4, <1>8, <2>1 DEF Got, HashOf
  <2>3. DeletesGot'
    BY <2>2 DEF DeletesGot, Served
  <2>4. ASSUME NEW e \in Download, Waits(e)'
        PROVE  listeners[HashOf(e)] = dl'[e].chan \/ Served(HashOf(e))'
    <3>1. e # d /\ (listeners[HashOf(e)] = dl[e].chan \/ Served(HashOf(e)))
      BY <1>7, <2>4 DEF IInv, WaitServed
    <3>2. PICK g : g = HashOf(e)
      OBVIOUS
    <3> QED  BY <1>3, <1>7, <1>11, <3>1, <3>2, ServedStays
  <2>5. WaitServed'
    BY <1>1, <1>7, <2>4 DEF WaitServed
  <2> QED  BY <2>3, <2>5
<1>13. SendIsReceived'
  BY <1>4 DEF SendIsReceived
<1> QED  BY <1>5, <1>6, <1>9, <1>10, <1>12, <1>13 DEF IInv

\* The channel is deleted: only its hash loses it.
LEMMA DeleteListenerKeeps ==
    ASSUME IInv, DeleteListener
    PROVE  IInv'
<1>1. /\ routine.at = "delete" /\ routine' = Idle
      /\ listeners' = [listeners EXCEPT ![routine.hash] = None]
      /\ UNCHANGED <<dlFilesSet, dl, replies, chunkMap, fileMap, sharer>>
  BY DEF DeleteListener, store
<1>2. routine.hash \in Hash /\ routine'.at = "idle"
  BY <1>1 DEF IInv, RoutineOK, Idle
<1>3. /\ listeners \in [Hash -> {None} \cup Chan] /\ listeners' \in [Hash -> {None} \cup Chan]
      /\ listeners'[routine.hash] = None
      /\ \A g \in Hash : g # routine.hash => listeners'[g] = listeners[g]
  BY <1>1, <1>2 DEF IInv, TypeOK, Chan
<1>4. TypeOK'
  BY <1>1, <1>2, <1>3 DEF IInv, TypeOK, Chan
<1>5. DlOK' /\ RoutineOK' /\ SharerOK'
  BY <1>1 DEF IInv, DlOK, RoutineOK, SharerOK
<1>6. ChanOK'
  BY <1>1, <1>2, <1>3 DEF IInv, ChanOK, Waits, HashOf
<1>7. MapWaited'
  BY <1>1, <1>3 DEF IInv, MapWaited, Waits, Deletes
<1>8. DeletesGot' /\ SendIsReceived'
  BY <1>2 DEF DeletesGot, SendIsReceived
\* The downloads that lose their channel have a hash that was served.
<1>9. WaitServed'
  <2>1. \A e \in Download : HashOf(e) \in Hash
    BY HashAtType DEF IInv, DlOK, HashOf
  <2>2. Served(routine.hash) /\ WaitServed
    BY <1>1 DEF IInv, DeletesGot
  <2>3. ASSUME NEW e \in Download, Waits(e)
        PROVE  listeners'[HashOf(e)] = dl[e].chan \/ Served(HashOf(e))
    <3>1. CASE HashOf(e) = routine.hash
      BY <2>2, <3>1
    <3>2. CASE HashOf(e) # routine.hash
      BY <1>3, <2>1, <2>2, <2>3, <3>2 DEF WaitServed
    <3> QED  BY <3>1, <3>2
  <2> QED  BY <1>1, <2>3 DEF WaitServed, Waits, HashOf, Served, Got
<1> QED  BY <1>4, <1>5, <1>6, <1>7, <1>8, <1>9 DEF IInv

-----------------------------------------------------------------------------
(* The theorems                                                             *)

\* The invariant holds in every state, of the fair specification too.
THEOREM Invariance == Spec => []IInv
<1>1. Init => IInv
  <2>1. SUFFICES ASSUME Init  PROVE IInv
    OBVIOUS
  <2>2. 0 \in 0..(2 ^ HopBits - 1)
    <3>1. 2 ^ HopBits \in Int
      BY HopAssumption
    <3> QED  BY <3>1, HopAssumption
  <2>3. \A d \in Download : 0 \in PosOf(d)
    BY FileAssumption, PeerAssumption DEF PosOf
  <2>4. DlOK
    BY <2>1, <2>2, <2>3 DEF Init, DlOK
  <2>5. TypeOK
    <3>1. \A d \in Download :
            /\ dl[d].at \in At
            /\ dl[d].pos \in 0..Len(Chunks[FileOf[d]]) /\ dl[d].hops \in 0..(2 ^ HopBits - 1)
      BY <2>4 DEF DlOK, PosOf
    <3> QED  BY <2>1, <3>1 DEF Init, TypeOK, Idle
  <2>6. RoutineOK /\ SharerOK
    BY <2>1 DEF Init, RoutineOK, SharerOK
  <2>7. \A d \in Download : ~ Waits(d)
    BY <2>1 DEF Init, Waits
  <2>8. ChanOK /\ MapWaited /\ DeletesGot /\ WaitServed /\ SendIsReceived
    BY <2>1, <2>7 DEF Init, Idle, ChanOK, MapWaited, DeletesGot, WaitServed, SendIsReceived
  <2> QED  BY <2>4, <2>5, <2>6, <2>8 DEF IInv
<1>2. IInv /\ UNCHANGED vars => IInv'
  <2>1. IInv /\ UNCHANGED vars => TypeOK' /\ SharerOK'
    BY DEF IInv, TypeOK, SharerOK, vars, store
  <2> QED  BY <2>1, ChannelsUntouched DEF vars
<1>3. IInv /\ [Next]_vars => IInv'
  BY <1>2, StartKeeps, CallKeeps, RetryKeeps, StoredKeeps, LoseKeeps, ReceiveReplyKeeps,
     HandOverKeeps, DeleteListenerKeeps, ShareEntryKeeps, ShareChunksKeeps
  DEF Next, Downloads, Routine
<1> QED  BY <1>1, <1>3, PTL DEF Spec

\* dataReplyListenRoutine never sends on a channel that no download waits on: it is
\* not blocked for ever by duplicated replies, shared channels or late deletions.
THEOREM SendIsReceivedHolds == Spec => []SendIsReceived
<1>1. IInv => SendIsReceived
  BY DEF IInv
<1> QED  BY <1>1, Invariance, PTL

\* A download waits on a channel that left the map only if the data of its hash was
\* already handed over: to another download, or to itself for an earlier chunk.
THEOREM OrphansShareHashHolds == Spec => []OrphansShareHash
<1>1. ASSUME IInv, NEW d \in Download, Orphaned(d)
      PROVE  \E e \in Download : \E i \in 0..Len(Chunks[FileOf[e]]) :
                HashAt(FileOf[e], i) = HashAt(FileOf[d], dl[d].pos) /\ Got(e, i)
  BY <1>1 DEF IInv, WaitServed, Orphaned, Waits, HashOf, Served, PosOf
<1>2. IInv => OrphansShareHash
  BY <1>1 DEF OrphansShareHash
<1> QED  BY <1>2, Invariance, PTL

-----------------------------------------------------------------------------
(* The ledger of file names: the inductive invariant                        *)

\* A block is mined after the one it builds on.
Ranked(m) ==
    /\ IsFiniteSet(m)
    /\ \A b \in m : /\ b.nonce \in Nat /\ b.nonce > 0
                    /\ b.prev \in m \cup {Genesis}
                    /\ b.prev \in m => b.prev.nonce < b.nonce

Over(c, m) ==
    /\ Genesis \in Known(c) /\ Known(c) \subseteq m \cup {Genesis}
    /\ c \in [Known(c) -> [len : Int, forks : SUBSET m]]

ForksFollow(c) == \A b \in Blocks(c) : \A f \in c[b].forks : f.prev = b

\* Every block but those of R is among the forks of the one it builds on or, when
\* that one is missing, among those of the genesis block, which has no others.
Attached(c, R) ==
    /\ \A b \in Blocks(c) \ R : b \in c[IF b.prev \in Known(c) THEN b.prev ELSE Genesis].forks
    /\ \A b \in R : b \in c[Genesis].forks
    /\ \A f \in c[Genesis].forks :
         f \in Known(c) /\ (f \notin R => f.prev = Genesis \/ f.prev \notin Known(c))

\* The chains without a block of R have the length the ledger keeps and no name twice.
Sound(c, R) ==
    \A x \in Known(c) : Chain(c, x) \cap R = {} =>
        c[x].len = Cardinality(Chain(c, x)) /\ NamesDistinct(Chain(c, x))

\* A tree in which the orphans R still wait for their block h to take them.
Tree(c, m, R) == Over(c, m) /\ ForksFollow(c) /\ Attached(c, R) /\ Sound(c, R)

HeadOK ==
    /\ head \in Known(chains)
    /\ \A x \in Known(chains) : Cardinality(Chain(chains, x)) <= Cardinality(HeadChain)

Good ==
    /\ Ranked(mined) /\ \A b \in mined : b.nonce <= Cardinality(mined)
    /\ Tree(chains, mined, {}) /\ HeadOK
    /\ ~spoiled => everyTx \subseteq pending \cup NamesOf(HeadChain)

Disjoint(m) == \A a, b \in m : a # b => a.names \cap b.names = {}
NoneDangling(c) == \A x \in Known(c) : c[x].forks \subseteq Known(c)

LedgerIInv ==
    /\ process = "up" /\ ~stranded => Good
    /\ Disjoint(mined) => process = "up" /\ ~stranded /\ NoneDangling(chains)

-----------------------------------------------------------------------------
(* Numbers                                                                  *)

\* Every set of naturals that is not empty has a smallest one.
LEMMA Smallest ==
    ASSUME NEW T \in SUBSET Nat, T # {}
    PROVE  \E x \in T : \A y \in T : x <= y
<1>1. PICK x \in T : \A y \in T : ~ (<<y, x>> \in OpToRel(<, Nat))
  BY NatLessThanWellFounded, WFMin
<1>2. \A y \in T : ~ (y < x)
  BY <1>1 DEF OpToRel
<1>3. \A y \in T : x \in Nat /\ y \in Nat
  OBVIOUS
<1> QED  BY <1>2, <1>3

-----------------------------------------------------------------------------
(* Walks back along PrevHash                                                *)

\* A chain starts at its block, goes on as long as there is a block before, and is
\* the least such set.
LEMMA ChainFacts ==
    ASSUME NEW c, NEW h
    PROVE  /\ Chain(c, h) \subseteq Blocks(c)
           /\ h \in Blocks(c) => h \in Chain(c, h)
           /\ h \notin Blocks(c) => Chain(c, h) = {}
           /\ \A y \in Chain(c, h) : y.prev \in Blocks(c) => y.prev \in Chain(c, h)
  BY DEF Chain

\* A set that holds h and is closed under PrevHash holds its chain.
LEMMA ChainLeast ==
    ASSUME NEW c, NEW h, NEW S \in SUBSET Blocks(c), h \in S,
           \A y \in S : y.prev \in Blocks(c) => y.prev \in S
    PROVE  Chain(c, h) \subseteq S
  BY DEF Chain

\* The chain of a block of a chain is part of it.
LEMMA ChainOnward ==
    ASSUME NEW c, NEW h, NEW x \in Chain(c, h)
    PROVE  Chain(c, x) \subseteq Chain(c, h)
  BY ChainFacts, ChainLeast

\* A chain is its block and the chain it builds on.
LEMMA ChainStep ==
    ASSUME NEW c, NEW h \in Blocks(c)
    PROVE  Chain(c, h) = {h} \cup Chain(c, h.prev)
<1> DEFINE S == {h} \cup Chain(c, h.prev)
<1>1. Chain(c, h) \subseteq S
  <2>1. S \in SUBSET Blocks(c) /\ h \in S
    BY ChainFacts
  <2>2. \A y \in S : y.prev \in Blocks(c) => y.prev \in S
    BY ChainFacts
  <2> HIDE DEF S
  <2> QED  BY <2>1, <2>2, ChainLeast
<1>2. Chain(c, h.prev) \subseteq Chain(c, h)
  <2>1. CASE h.prev \in Blocks(c)
    BY <2>1, ChainFacts, ChainOnward
  <2>2. CASE h.prev \notin Blocks(c)
    BY <2>2, ChainFacts
  <2> QED  BY <2>1, <2>2
<1> QED  BY <1>1, <1>2, ChainFacts

\* Of two blocks of a chain, one is on the chain of the other.
LEMMA ChainLinear ==
    ASSUME NEW c, NEW h, NEW a \in Chain(c, h), NEW b \in Chain(c, h)
    PROVE  a \in Chain(c, b) \/ b \in Chain(c, a)
<1> DEFINE S == {y \in Chain(c, h) : a \in Chain(c, y) \/ y \in Chain(c, a)}
<1>1. S \in SUBSET Blocks(c) /\ h \in S
  BY ChainFacts
<1>2. ASSUME NEW y \in S, y.prev \in Blocks(c)  PROVE y.prev \in S
  <2>1. y.prev \in Chain(c, h) /\ y \in Blocks(c)
    BY <1>2, ChainFacts
  <2>2. Chain(c, y) = {y} \cup Chain(c, y.prev)
    BY <2>1, ChainStep
  <2>3. y \in Chain(c, a) => y.prev \in Chain(c, a)
    BY <1>2, ChainFacts
  <2>4. a = y => y.prev \in Chain(c, a)
    BY <1>2, <2>1, ChainFacts
  <2> QED  BY <1>2, <2>1, <2>2, <2>3, <2>4
<1>3. Chain(c, h) \subseteq S
  <2> HIDE DEF S
  <2> QED  BY <1>1, <1>2, ChainLeast
<1> QED  BY <1>3

\* The chain depends on the blocks alone.
LEMMA ChainSame ==
    ASSUME NEW c, NEW d, Blocks(d) \subseteq Blocks(c),
           NEW h, Chain(c, h) \subseteq Blocks(d)
    PROVE  h \in Blocks(c) => Chain(d, h) = Chain(c, h)
<1> SUFFICES ASSUME h \in Blocks(c)  PROVE Chain(d, h) = Chain(c, h)
  OBVIOUS
<1>1. h \in Chain(c, h)
  BY ChainFacts
<1>2. Chain(d, h) \subseteq Chain(c, h)
  BY <1>1, ChainFacts, ChainLeast
<1>3. \A y \in Chain(d, h) : y.prev \in Blocks(c) => y.prev \in Chain(d, h)
  BY <1>2, ChainFacts
<1>4. Chain(c, h) \subseteq Chain(d, h)
  BY <1>1, <1>3, ChainFacts, ChainLeast
<1> QED  BY <1>2, <1>4

\* The blocks of a chain are mined in its order.
LEMMA ChainRank ==
    ASSUME NEW m, Ranked(m), NEW c, Over(c, m), NEW h, NEW x \in Chain(c, h)
    PROVE  x = h \/ x.nonce < h.nonce
<1> DEFINE S == {y \in Blocks(c) : y = h \/ y.nonce < h.nonce}
<1>1. h \in Blocks(c) /\ Blocks(c) \subseteq m
  BY ChainFacts DEF Over, Blocks
<1>2. S \in SUBSET Blocks(c) /\ h \in S
  BY <1>1
<1>3. ASSUME NEW y \in S, y.prev \in Blocks(c)  PROVE y.prev \in S
  <2>1. y \in m /\ h \in m /\ y.prev \in m
    BY <1>1, <1>3
  <2>2. y.prev.nonce < y.nonce /\ y.nonce \in Nat /\ h.nonce \in Nat /\ y.prev.nonce \in Nat
    BY <2>1 DEF Ranked
  <2> QED  BY <1>3, <2>2
<1>4. Chain(c, h) \subseteq S
  <2> HIDE DEF S
  <2> QED  BY <1>2, <1>3, ChainLeast
<1> QED  BY <1>4

\* A block is one longer than the chain it builds on.
LEMMA ChainLength ==
    ASSUME NEW m, Ranked(m), NEW c, Over(c, m)
    PROVE  /\ \A h : IsFiniteSet(Chain(c, h)) /\ Cardinality(Chain(c, h)) \in Nat
           /\ \A h \in Blocks(c) :
                /\ h \notin Chain(c, h.prev)
                /\ Cardinality(Chain(c, h)) = Cardinality(Chain(c, h.prev)) + 1
<1>1. ASSUME NEW h  PROVE IsFiniteSet(Chain(c, h)) /\ Cardinality(Chain(c, h)) \in Nat
  <2>1. Chain(c, h) \in SUBSET m
    BY ChainFacts DEF Over, Blocks
  <2> QED  BY <2>1, FS_Subset, FS_CardinalityType DEF Ranked
<1>2. ASSUME NEW h \in Blocks(c)  PROVE h \notin Chain(c, h.prev)
  <2>1. SUFFICES ASSUME h \in Chain(c, h.prev)  PROVE FALSE
    OBVIOUS
  <2>2. h.prev \in Blocks(c) /\ Blocks(c) \subseteq m
    BY <2>1, ChainFacts DEF Over, Blocks
  <2>3. h.prev.nonce < h.nonce /\ h.nonce \in Nat /\ h.prev.nonce \in Nat
    BY <2>2 DEF Ranked
  <2>4. h = h.prev \/ h.nonce < h.prev.nonce
    BY <2>1, ChainRank
  <2> QED  BY <2>3, <2>4
<1>3. ASSUME NEW h \in Blocks(c)
      PROVE  Cardinality(Chain(c, h)) = Cardinality(Chain(c, h.prev)) + 1
  <2>1. Chain(c, h) = Chain(c, h.prev) \cup {h}
    BY ChainStep
  <2> QED  BY <1>1, <1>2, <2>1, FS_AddElement
<1> QED  BY <1>1, <1>2, <1>3

-----------------------------------------------------------------------------
(* Walks down the forks                                                     *)

\* A subtree holds its block and, with a block of the map, its forks.
LEMMA SubtreeFacts ==
    ASSUME NEW c, NEW h
    PROVE  /\ h \in Subtree(c, h)
           /\ \A y \in Subtree(c, h) \cap Known(c) : c[y].forks \subseteq Subtree(c, h)
<1>1. \A y \in Known(c) : c[y].forks \subseteq Reach(c, h)
  BY DEF Reach
<1> QED  BY <1>1 DEF Subtree, Reach

\* It is the least such set.
LEMMA SubtreeLeast ==
    ASSUME NEW c, NEW h, NEW S, h \in S,
           \A y \in S \cap Known(c) : c[y].forks \subseteq S
    PROVE  Subtree(c, h) \subseteq S
<1> DEFINE T == S \cap Reach(c, h)
<1>1. h \in T /\ T \in SUBSET Reach(c, h)
  BY DEF Reach
<1>2. \A y \in T \cap Known(c) : c[y].forks \subseteq T
  BY DEF Reach
<1>3. Subtree(c, h) \subseteq T
  <2> HIDE DEF T
  <2> QED  BY <1>1, <1>2 DEF Subtree
<1> QED  BY <1>3

\* The subtree depends on the forks in it alone.
LEMMA SubtreeSame ==
    ASSUME NEW c, NEW d, NEW h,
           \A x \in Subtree(c, h) : x \in Known(d) <=> x \in Known(c),
           \A x \in Subtree(c, h) \cap Known(c) : d[x].forks = c[x].forks
    PROVE  Subtree(d, h) = Subtree(c, h)
<1>1. Subtree(d, h) \subseteq Subtree(c, h)
  BY SubtreeFacts, SubtreeLeast
<1>2. \A y \in Subtree(d, h) \cap Known(c) : c[y].forks \subseteq Subtree(d, h)
  BY <1>1, SubtreeFacts
<1>3. Subtree(c, h) \subseteq Subtree(d, h)
  BY <1>2, SubtreeFacts, SubtreeLeast
<1> QED  BY <1>1, <1>3

\* A block in the subtree of o has o on its chain.
LEMMA SubtreeChain ==
    ASSUME NEW m, Ranked(m), NEW c, Over(c, m), ForksFollow(c), NEW o \in Blocks(c)
    PROVE  /\ Subtree(c, o) \subseteq m
           /\ \A x \in Subtree(c, o) \cap Known(c) : x \in Blocks(c) /\ o \in Chain(c, x)
<1> DEFINE S == {x \in m : x \in Known(c) => o \in Chain(c, x)}
<1>1. Genesis \notin m
  BY DEF Ranked, Genesis
<1>2. o \in S
  BY ChainFacts DEF Over, Blocks
<1>3. ASSUME NEW y \in S \cap Known(c), NEW f \in c[y].forks  PROVE f \in S
  <2>1. y \in Blocks(c) /\ f \in m /\ f.prev = y /\ o \in Chain(c, y)
    BY <1>1, <1>3 DEF Blocks, Over, ForksFollow
  <2>2. f \in Known(c) => f \in Blocks(c)
    BY <1>1, <2>1 DEF Blocks
  <2>3. f \in Blocks(c) => Chain(c, y) \subseteq Chain(c, f)
    BY <2>1, ChainStep
  <2> QED  BY <2>1, <2>2, <2>3
<1>4. Subtree(c, o) \subseteq S
  <2> HIDE DEF S
  <2> QED  BY <1>2, <1>3, SubtreeLeast
<1> QED  BY <1>1, <1>4 DEF Blocks

\* The other way round, where every block above o is attached.
LEMMA ChainSubtree ==
    ASSUME NEW c, NEW o, NEW x, o \in Chain(c, x),
           \A y \in Blocks(c) : y.prev \in Blocks(c) /\ o \in Chain(c, y.prev) =>
                                    y \in c[y.prev].forks
    PROVE  x \in Subtree(c, o)
<1> SUFFICES ASSUME x \notin Subtree(c, o)  PROVE FALSE
  OBVIOUS
<1> DEFINE S == {y \in Blocks(c) : ~ (o \in Chain(c, y) /\ y \in Subtree(c, o))}
<1>1. S \in SUBSET Blocks(c) /\ x \in S
  BY ChainFacts
<1>2. ASSUME NEW y \in S, y.prev \in Blocks(c)  PROVE y.prev \in S
  <2>1. SUFFICES ASSUME o \in Chain(c, y.prev), y.prev \in Subtree(c, o)  PROVE FALSE
    BY <1>2
  <2>2. y \in Subtree(c, o)
    BY <1>2, <2>1, SubtreeFacts DEF Blocks
  <2>3. o \in Chain(c, y)
    BY <1>2, <2>1, ChainStep
  <2> QED  BY <1>2, <2>2, <2>3
<1>3. Chain(c, x) \subseteq S
  <2> HIDE DEF S
  <2> QED  BY <1>1, <1>2, ChainLeast
<1>4. o \in Blocks(c) /\ o \in Chain(c, o) /\ o \in Subtree(c, o)
  BY ChainFacts, SubtreeFacts
<1> QED  BY <1>3, <1>4

-----------------------------------------------------------------------------
(* checkOrphansAndReinsert                                                  *)

\* The block h is in the tree c, and the orphans R wait for it.
Waiting(c, m, h, R) ==
    /\ Ranked(m) /\ Tree(c, m, R)
    /\ h \in Blocks(c) /\ \A r \in R : r.prev = h

\* The subtree of an orphan holds the blocks whose chain it is on; h and the other
\* orphans are not in it.
LEMMA OrphanFacts ==
    ASSUME NEW c, NEW m, NEW h, NEW R, Waiting(c, m, h, R), NEW o \in R
    PROVE  /\ o \in Blocks(c) /\ o \in m /\ o # h /\ Genesis \notin m
           /\ \A x \in Known(c) : o \in Chain(c, x) <=> x \in Subtree(c, o)
           /\ \A r \in R : r \notin Chain(c, h) /\ (r # o => r \notin Subtree(c, o))
           /\ h \notin Subtree(c, o) /\ Genesis \notin Subtree(c, o)
<1>1. Genesis \notin m
  BY DEF Ranked, Genesis, Waiting
<1>2. R \subseteq Blocks(c) /\ R \subseteq m /\ Blocks(c) \subseteq m
  <2>1. \A r \in R : r \in c[Genesis].forks /\ r \in Known(c)
    BY DEF Waiting, Tree, Attached
  <2>2. c[Genesis].forks \subseteq m
    BY DEF Waiting, Tree, Over
  <2>3. Blocks(c) \subseteq m
    BY DEF Waiting, Tree, Over, Blocks
  <2> QED  BY <1>1, <2>1, <2>2, <2>3 DEF Blocks
<1>3. \A r \in R : h.nonce < r.nonce /\ r.nonce \in Nat /\ h.nonce \in Nat
  <2>1. h \in m /\ \A r \in R : r.prev = h
    BY <1>2 DEF Waiting
  <2> QED  BY <1>2, <2>1 DEF Waiting, Ranked
<1>4. \A r \in R : r # h /\ r \notin Chain(c, h)
  <2>1. \A r \in R : r \in Chain(c, h) => r = h \/ r.nonce < h.nonce
    BY ChainRank DEF Waiting, Tree
  <2> QED  BY <1>3, <2>1
<1>5. \A r \in R : Chain(c, r) = {r} \cup Chain(c, h)
  BY <1>2, ChainStep DEF Waiting
<1>6. ASSUME NEW x, o \in Chain(c, x)  PROVE x \in Subtree(c, o)
  <2>1. ASSUME NEW y \in Blocks(c), y.prev \in Blocks(c), o \in Chain(c, y.prev)
        PROVE  y \in c[y.prev].forks
    <3>1. y \notin R
      BY <1>4, <2>1 DEF Waiting
    <3>2. y.prev \in Known(c)
      BY <2>1 DEF Blocks
    <3> QED  BY <2>1, <3>1, <3>2 DEF Waiting, Tree, Attached
  <2> QED  BY <1>6, <2>1, ChainSubtree
<1>7. Subtree(c, o) \subseteq m /\ \A x \in Subtree(c, o) \cap Known(c) : o \in Chain(c, x)
  BY <1>2, SubtreeChain DEF Waiting, Tree
<1>8. h \notin Subtree(c, o)
  BY <1>4, <1>7 DEF Waiting, Blocks
<1>9. ASSUME NEW r \in R, r # o, r \in Subtree(c, o)  PROVE FALSE
  <2>1. o \in Chain(c, r)
    BY <1>2, <1>7, <1>9 DEF Blocks
  <2> QED  BY <1>4, <1>5, <1>9, <2>1
<1> QED  BY <1>1, <1>2, <1>4, <1>6, <1>7, <1>8, <1>9

\* What one round does to the orphan's place and to the chains.
Step(c, d) == /\ Known(d) \subseteq Known(c)
              /\ \A x \in Known(d) : Chain(d, x) = Chain(c, x)

\* The orphan leaves the forks of the genesis block, and the blocks T the map.
Deleted(c, d, m, o, T) ==
    /\ d \in [Known(d) -> [len : Int, forks : SUBSET m]]
    /\ Known(d) = Known(c) \ T
    /\ \A x \in Known(d) :
         /\ d[x].len = c[x].len
         /\ d[x].forks = IF x = Genesis THEN c[x].forks \ {o} ELSE c[x].forks

\* The orphan moves to the forks of h, and the lengths of its subtree are updated.
Moved(c, d, m, o, h) ==
    /\ d \in [Known(d) -> [len : Int, forks : SUBSET m]]
    /\ Known(d) = Known(c)
    /\ \A x \in Known(d) :
         /\ d[x].len = IF x \in Subtree(c, o) THEN Cardinality(Chain(c, x)) ELSE c[x].len
         /\ d[x].forks = IF x = Genesis THEN c[x].forks \ {o}
                         ELSE IF x = h THEN c[x].forks \cup {o} ELSE c[x].forks

\* The orphan and its subtree are deleted.
LEMMA DeleteKeeps ==
    ASSUME NEW c, NEW m, NEW h, NEW R, Waiting(c, m, h, R), NEW o \in R,
           NEW d, Deleted(c, d, m, o, Subtree(c, o))
    PROVE  Waiting(d, m, h, R \ {o}) /\ Step(c, d)
<1> USE DEF Deleted
<1>1. Over(d, m) /\ Over(c, m)
  BY OrphanFacts DEF Waiting, Tree, Over
<1>2. Blocks(d) \subseteq Blocks(c) /\ h \in Blocks(d)
  <2>1. h \in Blocks(c) /\ h \notin Subtree(c, o)
    BY OrphanFacts DEF Waiting
  <2> QED  BY <2>1 DEF Blocks
<1>3. ASSUME NEW x \in Known(d)  PROVE Chain(d, x) = Chain(c, x) /\ o \notin Chain(c, x)
  <2>1. o \notin Chain(c, x)
    BY <1>3, OrphanFacts
  <2>2. ASSUME NEW y \in Chain(c, x)  PROVE y \in Blocks(d)
    <3>1. y \in Blocks(c) /\ Chain(c, y) \subseteq Chain(c, x)
      BY <2>2, ChainFacts, ChainOnward
    <3>2. o \notin Chain(c, y)
      BY <2>1, <3>1
    <3> QED  BY <3>1, <3>2, OrphanFacts DEF Blocks
  <2>3. CASE x \in Blocks(c)
    BY <1>2, <2>1, <2>2, <2>3, ChainSame
  <2>4. CASE x \notin Blocks(c)
    BY <1>2, <2>1, <2>4, ChainFacts
  <2> QED  BY <2>1, <2>3, <2>4
<1>4. ForksFollow(d)
  BY <1>2 DEF ForksFollow, Waiting, Tree, Blocks
<1>5. Attached(d, R \ {o})
  <2>1. \A b \in Blocks(c) : b.prev # h => b \notin R
    BY DEF Waiting
  <2>2. ASSUME NEW b \in Blocks(d) \ (R \ {o})
        PROVE  b \in d[IF b.prev \in Known(d) THEN b.prev ELSE Genesis].forks
    <3>1. b \in Blocks(c) \ R /\ b \notin Subtree(c, o) /\ b # o
      BY <1>2, <2>2, OrphanFacts, SubtreeFacts DEF Blocks
    <3>2. b \in c[IF b.prev \in Known(c) THEN b.prev ELSE Genesis].forks
      BY <3>1 DEF Waiting, Tree, Attached
    <3>3. b.prev \in Known(c) => b.prev \in Known(d)
      <4>1. SUFFICES ASSUME b.prev \in Known(c), b.prev \in Subtree(c, o)  PROVE FALSE
        OBVIOUS
      <4>2. c[b.prev].forks \subseteq Subtree(c, o)
        BY <4>1, SubtreeFacts
      <4> QED  BY <3>1, <3>2, <4>1, <4>2
    <3>4. b.prev \in Known(d) => b.prev \in Known(c)
      OBVIOUS
    <3>5. Genesis \in Known(d)
      BY <1>1 DEF Over
    <3> QED  BY <3>1, <3>2, <3>3, <3>4, <3>5
  <2>3. ASSUME NEW b \in R \ {o}  PROVE b \in d[Genesis].forks
    <3>1. b \in c[Genesis].forks /\ Genesis \in Known(d)
      BY <1>1, <2>3 DEF Waiting, Tree, Attached, Over
    <3> QED  BY <2>3, <3>1
  <2>4. ASSUME NEW f \in d[Genesis].forks
        PROVE  /\ f \in Known(d)
               /\ f \notin R \ {o} => f.prev = Genesis \/ f.prev \notin Known(d)
    <3>1. f \in c[Genesis].forks /\ f # o
      BY <1>1, <2>4 DEF Over
    <3>2. f \in Known(c) /\ (f \notin R => f.prev = Genesis \/ f.prev \notin Known(c))
      BY <3>1 DEF Waiting, Tree, Attached
    <3>3. f \notin Subtree(c, o)
      <4>1. SUFFICES ASSUME f \in Subtree(c, o)  PROVE FALSE
        OBVIOUS
      <4>2. f \notin R /\ o \in Chain(c, f) /\ f \in Blocks(c)
        BY <3>1, <3>2, <4>1, OrphanFacts DEF Blocks
      <4>3. o \in Chain(c, f.prev)
        BY <3>1, <4>2, ChainStep
      <4>4. f.prev \in Blocks(c)
        BY <4>3, ChainFacts
      <4> QED  BY <3>2, <4>2, <4>4 DEF Blocks
    <3> QED  BY <3>1, <3>2, <3>3
  <2> QED  BY <2>2, <2>3, <2>4 DEF Attached
<1>6. Sound(d, R \ {o})
  <2>1. SUFFICES ASSUME NEW x \in Known(d), Chain(d, x) \cap (R \ {o}) = {}
                 PROVE  d[x].len = Cardinality(Chain(d, x)) /\ NamesDistinct(Chain(d, x))
    BY DEF Sound
  <2>2. Chain(c, x) \cap R = {} /\ Chain(d, x) = Chain(c, x) /\ x \in Known(c) /\ d[x].len = c[x].len
    BY <1>3, <2>1
  <2> QED  BY <2>2 DEF Waiting, Tree, Sound
<1> QED  BY <1>1, <1>2, <1>3, <1>4, <1>5, <1>6 DEF Waiting, Tree, Step

\* The orphan is appended to the block it waited for.
LEMMA AppendKeeps ==
    ASSUME NEW c, NEW m, NEW h, NEW R, Waiting(c, m, h, R), NEW o \in R,
           NamesDistinct(Subtree(c, o)),
           NamesOf(Subtree(c, o)) \cap NamesOf(Chain(c, h)) = {},
           NEW d, Moved(c, d, m, o, h)
    PROVE  Waiting(d, m, h, R \ {o}) /\ Step(c, d)
<1> USE DEF Moved
<1>1. Over(d, m) /\ Over(c, m)
  BY OrphanFacts DEF Waiting, Tree, Over
<1>2. Blocks(d) = Blocks(c) /\ h \in Blocks(d) /\ h # Genesis /\ h \in Known(d) /\ Genesis \in Known(d)
  BY <1>1 DEF Blocks, Waiting, Over
<1>3. \A x \in Known(d) : Chain(d, x) = Chain(c, x)
  BY <1>2 DEF Chain
<1>4. ForksFollow(d)
  <2>1. o.prev = h /\ \A b \in Blocks(c) : \A f \in c[b].forks : f.prev = b
    BY DEF ForksFollow, Waiting, Tree
  <2>2. ASSUME NEW b \in Blocks(d), NEW f \in d[b].forks  PROVE f.prev = b
    <3>1. b \in Blocks(c) /\ b # Genesis /\ b \in Known(d)
      BY <1>2 DEF Blocks
    <3>2. CASE b = h
      <4>1. d[h].forks = c[h].forks \cup {o}
        BY <1>2
      <4> QED  BY <2>1, <2>2, <3>1, <3>2, <4>1
    <3>3. CASE b # h
      <4>1. d[b].forks = c[b].forks
        BY <3>1, <3>3
      <4> QED  BY <2>1, <2>2, <3>1, <4>1
    <3> QED  BY <3>2, <3>3
  <2> QED  BY <2>2 DEF ForksFollow
<1>5. Attached(d, R \ {o})
  <2>1. o.prev = h /\ o \in Known(c)
    BY OrphanFacts DEF Waiting, Blocks
  <2>2. ASSUME NEW b \in Blocks(d) \ (R \ {o})
        PROVE  b \in d[IF b.prev \in Known(d) THEN b.prev ELSE Genesis].forks
    <3>1. CASE b = o
      BY <1>2, <2>1, <3>1
    <3>2. CASE b # o
      <4>1. b \in c[IF b.prev \in Known(c) THEN b.prev ELSE Genesis].forks
        BY <1>2, <2>2, <3>2 DEF Waiting, Tree, Attached
      <4> QED  BY <1>2, <3>2, <4>1
    <3> QED  BY <3>1, <3>2
  <2>3. ASSUME NEW b \in R \ {o}  PROVE b \in d[Genesis].forks
    BY <1>2, <2>3 DEF Waiting, Tree, Attached
  <2>4. ASSUME NEW f \in d[Genesis].forks
        PROVE  /\ f \in Known(d)
               /\ f \notin R \ {o} => f.prev = Genesis \/ f.prev \notin Known(d)
    BY <1>2, <2>4 DEF Waiting, Tree, Attached
  <2> QED  BY <2>2, <2>3, <2>4 DEF Attached
<1>6. Sound(d, R \ {o})
  <2>1. SUFFICES ASSUME NEW x \in Known(d), Chain(d, x) \cap (R \ {o}) = {}
                 PROVE  d[x].len = Cardinality(Chain(d, x)) /\ NamesDistinct(Chain(d, x))
    BY DEF Sound
  <2>2. Chain(d, x) = Chain(c, x) /\ x \in Known(c)
    BY <1>3, <2>1
  <2>3. CASE o \in Chain(c, x)
    <3>1. x \in Subtree(c, o)
      BY <2>2, <2>3, OrphanFacts
    <3>2. NamesDistinct(Chain(c, h))
      <4>1. Chain(c, h) \cap R = {} /\ h \in Known(c)
        BY <1>2, OrphanFacts
      <4> QED  BY <4>1 DEF Waiting, Tree, Sound
    <3>3. ASSUME NEW y \in Chain(c, x)  PROVE y \in Subtree(c, o) \/ y \in Chain(c, h)
      <4>1. y \in Known(c) /\ o \in Blocks(c) /\ o.prev = h
        BY <3>3, ChainFacts, OrphanFacts DEF Blocks, Waiting
      <4>2. o \in Chain(c, y) \/ y \in Chain(c, o)
        BY <2>3, <3>3, ChainLinear
      <4>3. Chain(c, o) = {o} \cup Chain(c, h)
        BY <4>1, ChainStep
      <4> QED  BY <4>1, <4>2, <4>3, OrphanFacts, SubtreeFacts
    <3>4. ASSUME NEW y \in Chain(c, x), NEW z \in Chain(c, x), y # z
          PROVE  y.names \cap z.names = {}
      <4>1. CASE y \in Subtree(c, o) /\ z \in Subtree(c, o)
        BY <3>4, <4>1 DEF NamesDistinct
      <4>2. CASE y \in Chain(c, h) /\ z \in Chain(c, h)
        BY <3>2, <3>4, <4>2 DEF NamesDistinct
      <4>3. CASE y \in Subtree(c, o) /\ z \in Chain(c, h)
        BY <4>3 DEF NamesOf
      <4>4. CASE z \in Subtree(c, o) /\ y \in Chain(c, h)
        BY <4>4 DEF NamesOf
      <4> QED  BY <3>3, <4>1, <4>2, <4>3, <4>4
    <3> QED  BY <2>1, <2>2, <3>1, <3>4 DEF NamesDistinct
  <2>4. CASE o \notin Chain(c, x)
    <3>1. Chain(c, x) \cap R = {} /\ x \notin Subtree(c, o)
      BY <2>1, <2>2, <2>4, OrphanFacts
    <3> QED  BY <2>1, <2>2, <3>1 DEF Waiting, Tree, Sound
  <2> QED  BY <2>3, <2>4
<1> QED  BY <1>1, <1>2, <1>3, <1>4, <1>5, <1>6 DEF Waiting, Tree, Step


\* removeFork takes the orphan from the forks of the genesis block alone.
LEMMA RemoveForkFacts ==
    ASSUME NEW c, NEW m, NEW h, NEW R, Waiting(c, m, h, R), NEW o \in R,
           NEW d, d = RemoveFork(c, o)
    PROVE  Deleted(c, d, m, o, {}) /\ Subtree(d, o) = Subtree(c, o)
<1>1. c \in [Known(c) -> [len : Int, forks : SUBSET m]] /\ Genesis \in Known(c)
  BY DEF Waiting, Tree, Over
<1>2. Known(d) = Known(c) /\ d \in [Known(c) -> [len : Int, forks : SUBSET m]]
  BY <1>1 DEF RemoveFork, Known
<1>3. \A x \in Known(c) :
         /\ d[x].len = c[x].len
         /\ d[x].forks = IF x = Genesis THEN c[x].forks \ {o} ELSE c[x].forks
  BY <1>1 DEF RemoveFork, Known
<1>4. Genesis \notin Subtree(c, o)
  BY OrphanFacts
<1>5. Subtree(d, o) = Subtree(c, o)
  <2>1. \A x \in Subtree(c, o) \cap Known(c) : d[x].forks = c[x].forks
    BY <1>3, <1>4
  <2>2. \A x \in Subtree(c, o) : x \in Known(d) <=> x \in Known(c)
    BY <1>2
  <2> QED  BY <2>1, <2>2, SubtreeSame
<1> QED  BY <1>2, <1>3, <1>5 DEF Deleted

\* The map after appendToBlock and recursiveUpdateLength.
LEMMA ReattachFacts ==
    ASSUME NEW c, NEW m, NEW h, NEW R, Waiting(c, m, h, R), NEW o \in R,
           NEW d, d = RecursiveUpdateLength(AppendToBlock(RemoveFork(c, o), o, h), o)
    PROVE  Moved(c, d, m, o, h)
<1>1. PICK c1 : c1 = RemoveFork(c, o)
  OBVIOUS
<1>2. /\ Known(c1) = Known(c)
      /\ c1 \in [Known(c) -> [len : Int, forks : SUBSET m]]
      /\ \A x \in Known(c) :
           /\ c1[x].len = c[x].len
           /\ c1[x].forks = IF x = Genesis THEN c[x].forks \ {o} ELSE c[x].forks
  <2>1. Deleted(c, c1, m, o, {})
    BY <1>1, RemoveForkFacts
  <2>2. Known(c) \ {} = Known(c)
    OBVIOUS
  <2> QED  BY <2>1, <2>2 DEF Deleted
<1>3. PICK e : e = AppendToBlock(c1, o, h)
  OBVIOUS
<1>4. /\ o \in Known(c) /\ h \in Known(c) /\ o # h /\ o # Genesis /\ h # Genesis /\ o.prev = h /\ o \in m
      /\ h \notin Subtree(c, o) /\ Genesis \notin Subtree(c, o) /\ o \in Subtree(c, o)
  BY OrphanFacts, SubtreeFacts DEF Waiting, Blocks
<1>5. Known(e) = Known(c) /\ e = [x \in Known(c) |-> e[x]]
  BY <1>2, <1>3, <1>4 DEF AppendToBlock, Known
<1>6. ASSUME NEW x \in Known(c)
      PROVE  /\ e[x].len = IF x = o THEN c[h].len + 1 ELSE c[x].len
             /\ e[x].forks = IF x = Genesis THEN c[x].forks \ {o}
                             ELSE IF x = h THEN c[x].forks \cup {o} ELSE c[x].forks
             /\ e[x] \in [len : Int, forks : SUBSET m]
  <2>1. c1[x] \in [len : Int, forks : SUBSET m] /\ c1[h] \in [len : Int, forks : SUBSET m]
    BY <1>2, <1>4
  <2>2. e[x] = IF x = o THEN [len |-> c1[h].len + 1, forks |-> c1[o].forks]
               ELSE IF x = h THEN [c1[x] EXCEPT !.forks = @ \cup {o}] ELSE c1[x]
    BY <1>2, <1>3, <1>4 DEF AppendToBlock
  <2>3. CASE x = o
    <3>1. PICK l, k : l = c1[h].len + 1 /\ k = c1[o].forks
      OBVIOUS
    <3>2. l = c[h].len + 1 /\ l \in Int /\ k = c[o].forks /\ k \in SUBSET m
      <4>1. c1[h].len = c[h].len /\ c1[o].forks = c[o].forks /\ c1[o] \in [len : Int, forks : SUBSET m]
        BY <1>2, <1>4
      <4> QED  BY <2>1, <3>1, <4>1
    <3>3. e[x] = [len |-> l, forks |-> k]
      BY <2>2, <2>3, <3>1
    <3> QED  BY <1>4, <2>3, <3>2, <3>3
  <2>4. CASE x = h
    <3>1. PICK k : k = c1[h].forks \cup {o}
      OBVIOUS
    <3>2. k = c[h].forks \cup {o} /\ k \in SUBSET m
      BY <1>2, <1>4, <2>1, <3>1
    <3>3. e[x] = [c1[h] EXCEPT !.forks = k]
      BY <1>4, <2>2, <2>4, <3>1
    <3> QED  BY <1>2, <1>4, <2>1, <2>4, <3>2, <3>3
  <2>5. CASE x # o /\ x # h
    BY <1>2, <1>4, <2>1, <2>2, <2>5
  <2> QED  BY <2>3, <2>4, <2>5
<1>7. Subtree(e, o) = Subtree(c, o)
  <2>1. \A x \in Subtree(c, o) \cap Known(c) : e[x].forks = c[x].forks
    BY <1>4, <1>6
  <2>2. \A x \in Subtree(c, o) : x \in Known(e) <=> x \in Known(c)
    BY <1>5
  <2> QED  BY <2>1, <2>2, SubtreeSame
<1>8. \A x : Chain(e, x) = Chain(c, x)
  BY <1>5 DEF Chain, Blocks
<1>9. Cardinality(Chain(c, h)) = c[h].len /\ \A x : Cardinality(Chain(c, x)) \in Nat
  <2>1. Chain(c, h) \cap R = {}
    BY OrphanFacts
  <2> QED  BY <1>4, <2>1, ChainLength DEF Waiting, Tree, Sound
<1>10. d = RecursiveUpdateLength(e, o)
  BY <1>1, <1>3
<1>11. Known(d) = Known(c) /\ d = [x \in Known(c) |-> d[x]]
  BY <1>5, <1>10 DEF RecursiveUpdateLength, Known
<1>12. ASSUME NEW x \in Known(c)
       PROVE  /\ d[x].len = IF x \in Subtree(c, o) THEN Cardinality(Chain(c, x)) ELSE c[x].len
              /\ d[x].forks = e[x].forks
              /\ d[x] \in [len : Int, forks : SUBSET m]
  <2>1. PICK l : l = e[h].len + Cardinality(Chain(e, x)) - Cardinality(Chain(e, h))
    OBVIOUS
  <2>2. l = Cardinality(Chain(c, x)) /\ l \in Int
    <3>1. e[h].len = Cardinality(Chain(c, h))
      BY <1>4, <1>6, <1>9
    <3> QED  BY <1>8, <1>9, <2>1, <3>1
  <2>3. d[x] = IF x \in Subtree(c, o) THEN [e[x] EXCEPT !.len = l] ELSE e[x]
    BY <1>4, <1>5, <1>7, <1>10, <2>1 DEF RecursiveUpdateLength
  <2>4. e[x] \in [len : Int, forks : SUBSET m] /\ (x # o => e[x].len = c[x].len)
    BY <1>6
  <2>5. CASE x \in Subtree(c, o)
    BY <2>2, <2>3, <2>4, <2>5
  <2>6. CASE x \notin Subtree(c, o)
    BY <1>4, <2>3, <2>4, <2>6
  <2> QED  BY <2>5, <2>6
<1> QED  BY <1>6, <1>11, <1>12 DEF Moved

\* The blocks that follow h have no missing forks, nor has h the orphans as forks.
Whole(c, h, R) ==
    /\ c[h].forks \cap R = {}
    /\ \A x \in Blocks(c) : h \in Chain(c, x) /\ Chain(c, x) \cap R = {} => c[x].forks \subseteq Known(c)

\* A deleted orphan leaves no fork missing that the blocks which follow h have.
LEMMA WholeDelete ==
    ASSUME NEW c, NEW m, NEW h, NEW R, Waiting(c, m, h, R), NEW o \in R, Whole(c, h, R),
           NEW d, Deleted(c, d, m, o, Subtree(c, o)), Waiting(d, m, h, R \ {o}), Step(c, d)
    PROVE  Whole(d, h, R \ {o})
<1>1. h \in Known(d) /\ h # Genesis /\ h \in Known(c)
  BY DEF Waiting, Blocks, Step
<1>2. \A x \in Blocks(d) : x \in Known(d) /\ x \in Blocks(c) /\ x # Genesis /\ x \in Known(c)
  BY DEF Blocks, Step
<1>3. \A x \in Blocks(d) : d[x].forks = c[x].forks
  BY <1>2 DEF Deleted
<1>4. d[h].forks \cap (R \ {o}) = {}
  BY <1>3 DEF Whole, Waiting
<1>5. ASSUME NEW x \in Blocks(d), h \in Chain(d, x), Chain(d, x) \cap (R \ {o}) = {}, NEW f \in d[x].forks
      PROVE  f \in Known(d)
  <2>1. Chain(d, x) = Chain(c, x)
    BY <1>2, <1>5 DEF Step
  <2>2. o \notin Chain(c, x)
    <3>1. x \notin Subtree(c, o)
      BY <1>2, <1>5 DEF Deleted
    <3> QED  BY <1>2, <1>5, <3>1, OrphanFacts
  <2>3. f \in c[x].forks /\ f \in Known(c)
    BY <1>2, <1>3, <1>5, <2>1, <2>2 DEF Whole
  <2>4. f \notin Subtree(c, o)
    <3>1. SUFFICES ASSUME f \in Subtree(c, o)  PROVE FALSE
      OBVIOUS
    <3>2. o \in Chain(c, f) /\ f.prev = x
      <4>1. o \in Chain(c, f)
        BY <2>3, <3>1, OrphanFacts
      <4>2. f.prev = x
        BY <1>2, <1>5, <2>3 DEF Waiting, Tree, ForksFollow
      <4> QED  BY <4>1, <4>2
    <3>3. Chain(c, f) = {f} \cup Chain(c, x)
      BY <3>2, ChainFacts, ChainStep
    <3>4. f = o /\ x = h
      BY <2>2, <3>2, <3>3 DEF Waiting
    <3> QED  BY <2>3, <3>4 DEF Whole
  <2> QED  BY <2>3, <2>4 DEF Deleted
<1> QED  BY <1>4, <1>5 DEF Whole

\* Nor does an orphan that is appended with a whole subtree.
LEMMA WholeAttach ==
    ASSUME NEW c, NEW m, NEW h, NEW R, Waiting(c, m, h, R), NEW o \in R, Whole(c, h, R),
           ~ Dangling(c, o), NEW d, Moved(c, d, m, o, h), Step(c, d)
    PROVE  Whole(d, h, R \ {o})
<1>1. /\ Known(d) = Known(c) /\ Blocks(d) = Blocks(c) /\ h \in Known(c) /\ h # Genesis
      /\ \A x \in Blocks(d) : x \in Known(c) /\ x # Genesis
  BY DEF Moved, Blocks, Waiting
<1>2. \A x \in Known(c) : Chain(d, x) = Chain(c, x)
  BY <1>1 DEF Step
<1>3. o \in Known(c) /\ o \notin Chain(c, h)
  BY OrphanFacts DEF Blocks
<1>4. d[h].forks = c[h].forks \cup {o}
  BY <1>1 DEF Moved
<1>5. \A x \in Blocks(d) : x # h => d[x].forks = c[x].forks
  BY <1>1 DEF Moved
<1>6. ASSUME NEW x \in Blocks(d), h \in Chain(d, x), Chain(d, x) \cap (R \ {o}) = {}
      PROVE  d[x].forks \subseteq Known(d)
  <2>1. CASE o \in Chain(c, x)
    <3>1. x \in Subtree(c, o) /\ x # h
      BY <1>1, <1>3, <1>6, <2>1, OrphanFacts
    <3>2. c[x].forks \subseteq Subtree(c, o)
      BY <1>1, <1>6, <3>1, SubtreeFacts
    <3> QED  BY <1>1, <1>5, <1>6, <3>1, <3>2 DEF Dangling
  <2>2. CASE o \notin Chain(c, x)
    <3>1. c[x].forks \subseteq Known(c)
      BY <1>1, <1>2, <1>6, <2>2 DEF Whole
    <3> QED  BY <1>1, <1>3, <1>4, <1>5, <1>6, <3>1
  <2> QED  BY <2>1, <2>2
<1> QED  BY <1>4, <1>6 DEF Whole

\* The round for an orphan that is deleted.
LEMMA DeleteRound ==
    ASSUME NEW c, NEW m, NEW h, NEW R, Waiting(c, m, h, R), NEW o \in R, Whole(c, h, R),
           NEW c1, c1 = RemoveFork(c, o), NEW d, d = Without(c1, Subtree(c1, o))
    PROVE  Waiting(d, m, h, R \ {o}) /\ Step(c, d) /\ Whole(d, h, R \ {o})
<1>1. Deleted(c, c1, m, o, {}) /\ Subtree(c1, o) = Subtree(c, o)
  BY RemoveForkFacts
<1>2. Known(d) = Known(c) \ Subtree(c, o) /\ Known(c1) = Known(c)
  BY <1>1 DEF Without, Known, Deleted
<1>3. d = [x \in Known(d) |-> c1[x]]
  BY <1>1, <1>2 DEF Without
<1>4. d \in [Known(d) -> [len : Int, forks : SUBSET m]] /\ \A x \in Known(d) : d[x] = c1[x]
  BY <1>1, <1>2, <1>3 DEF Deleted
<1>5. Deleted(c, d, m, o, Subtree(c, o))
  <2>1. ASSUME NEW x \in Known(d)
        PROVE  /\ d[x].len = c[x].len
               /\ d[x].forks = IF x = Genesis THEN c[x].forks \ {o} ELSE c[x].forks
    <3>1. x \in Known(c1) /\ d[x] = c1[x]
      BY <1>2, <1>4
    <3> QED  BY <1>1, <3>1 DEF Deleted
  <2> QED  BY <1>2, <1>4, <2>1 DEF Deleted
<1> QED  BY <1>5, DeleteKeeps, WholeDelete

\* The round for an orphan that is kept.
LEMMA AttachRound ==
    ASSUME NEW c, NEW m, NEW h, NEW R, Waiting(c, m, h, R), NEW o \in R, Whole(c, h, R),
           ~ Dangling(c, o), NamesDistinct(Subtree(c, o)),
           NamesOf(Subtree(c, o)) \cap NamesOf(Chain(c, h)) = {},
           NEW d, d = RecursiveUpdateLength(AppendToBlock(RemoveFork(c, o), o, h), o)
    PROVE  Waiting(d, m, h, R \ {o}) /\ Step(c, d) /\ Whole(d, h, R \ {o})
<1>1. Moved(c, d, m, o, h)
  BY ReattachFacts
<1> QED  BY <1>1, AppendKeeps, WholeAttach

\* What pruneInvalidForks does with the block.
LEMMA PruneCases ==
    ASSUME NEW c, NEW claimed, NEW o, NEW u \in PruneInvalidForks(c, claimed, o)
    PROVE  /\ claimed \subseteq u.claimed /\ u.panic \in BOOLEAN
           /\ u.claimed \subseteq claimed \cup NamesOf(Subtree(c, o))
           /\ \/ /\ u.result = "deleted" /\ o.names \cap claimed # {}
                 /\ u.chains = Without(c, Subtree(c, o))
              \/ u.result = "impossible" /\ ~(c[o].forks \subseteq Known(c))
              \/ /\ u.result = "valid" /\ u.chains = c
                 /\ u.panic <=> \/ Dangling(c, o) \/ ~ NamesDistinct(Subtree(c, o))
                                \/ NamesOf(Subtree(c, o)) \cap claimed # {}
<1>0. o.names \subseteq NamesOf(Subtree(c, o))
  BY SubtreeFacts DEF NamesOf
<1>1. CASE o.names \cap claimed # {}
  <2>1. PICK part \in SUBSET o.names :
           u = Outcome(DeleteForkFromChain(c, o), claimed \cup part, "deleted", Dangling(c, o))
    BY <1>1 DEF PruneInvalidForks, PruneDeletes
  <2>2. /\ u.chains = DeleteForkFromChain(c, o) /\ u.claimed = claimed \cup part
        /\ u.result = "deleted" /\ u.panic = Dangling(c, o)
    BY <2>1 DEF Outcome
  <2> QED  BY <1>0, <1>1, <2>2 DEF DeleteForkFromChain, Dangling
<1>2. CASE o.names \cap claimed = {} /\ ~(c[o].forks \subseteq Known(c))
  <2>1. u \in PruneStops(c, claimed, o)
    BY <1>2 DEF PruneInvalidForks
  <2>2. u.claimed \in {claimed \cup part : part \in SUBSET NamesOf(Subtree(c, o))}
    BY <2>1 DEF PruneStops
  <2>3. u.result = "impossible" /\ u.panic \in BOOLEAN
    BY <2>1 DEF PruneStops
  <2> QED  BY <1>2, <2>2, <2>3
<1>3. CASE o.names \cap claimed = {} /\ c[o].forks \subseteq Known(c)
  <2>1. PICK b, k : /\ b = (Dangling(c, o) \/ ~ NamesDistinct(Subtree(c, o))
                                           \/ NamesOf(Subtree(c, o)) \cap claimed # {})
                    /\ k = claimed \cup NamesOf(Subtree(c, o))
    OBVIOUS
  <2>2. u = Outcome(c, k, "valid", b)
    BY <1>3, <2>1 DEF PruneInvalidForks, PruneKeeps
  <2>3. u.chains = c /\ u.claimed = k /\ u.result = "valid" /\ u.panic = b
    BY <2>2 DEF Outcome
  <2> QED  BY <2>1, <2>3 DEF Dangling
<1> QED  BY <1>1, <1>2, <1>3

\* The names of the chain of h are claimed; and nothing but the names of blocks whose
\* place is settled.
Claims(p, h) == NamesOf(Chain(p.chains, h)) \subseteq p.claimed
Settled(c, R) == {x \in Blocks(c) : Chain(c, x) \cap R = {}}

ProgressOK(p, m, h) ==
    /\ Waiting(p.chains, m, h, p.left) /\ Whole(p.chains, h, p.left) /\ Claims(p, h)
    /\ p.panic = FALSE /\ p.stranding = FALSE

\* A round that neither panics nor strands an orphan keeps the tree, for one orphan less.
LEMMA ReinsertKeeps ==
    ASSUME NEW p, NEW m, NEW h, ProgressOK(p, m, h), NEW o \in p.left,
           NEW q \in Reinsert(p, o, h), ~ q.panic, ~ q.stranding
    PROVE  ProgressOK(q, m, h) /\ Step(p.chains, q.chains) /\ q.left = p.left \ {o}
<1>1. PICK c, c1, R : c = p.chains /\ c1 = RemoveFork(c, o) /\ R = p.left
  OBVIOUS
<1>2. PICK u \in PruneInvalidForks(c1, p.claimed, o) :
         q = Progress(IF u.result # "valid" \/ u.panic THEN u.chains
                      ELSE RecursiveUpdateLength(AppendToBlock(u.chains, o, h), o),
                      u.claimed, p.left \ {o}, u.panic, p.stranding \/ u.result = "impossible")
  BY <1>1 DEF Reinsert
<1>3. /\ u.panic = FALSE /\ u.result # "impossible" /\ q.left = p.left \ {o} /\ q.claimed = u.claimed
      /\ q.chains = IF u.result # "valid" THEN u.chains
                    ELSE RecursiveUpdateLength(AppendToBlock(u.chains, o, h), o)
      /\ q.panic = FALSE /\ q.stranding = FALSE
  <2>1. u.panic \in BOOLEAN
    BY <1>2, PruneCases
  <2> QED  BY <1>2, <2>1 DEF Progress, ProgressOK
<1>4. Waiting(c, m, h, R) /\ Whole(c, h, R) /\ o \in R /\ q.left = R \ {o}
  BY <1>1, <1>3 DEF ProgressOK
<1>5. Subtree(c1, o) = Subtree(c, o) /\ Known(c1) = Known(c)
  <2>1. Known(c) \ {} = Known(c)
    OBVIOUS
  <2> QED  BY <1>1, <1>4, <2>1, RemoveForkFacts DEF Deleted
<1>6. p.claimed \subseteq u.claimed
  BY PruneCases
<1>7. Waiting(q.chains, m, h, q.left) /\ Step(c, q.chains) /\ Whole(q.chains, h, q.left)
  <2>1. CASE u.result = "deleted" /\ u.chains = Without(c1, Subtree(c1, o))
    <3>1. PICK d : d = q.chains
      OBVIOUS
    <3>2. d = Without(c1, Subtree(c1, o))
      BY <1>3, <2>1, <3>1
    <3>3. Waiting(d, m, h, R \ {o}) /\ Step(c, d) /\ Whole(d, h, R \ {o})
      BY <1>1, <1>4, <3>2, DeleteRound
    <3> QED  BY <1>4, <3>1, <3>3
  <2>2. CASE /\ u.result = "valid" /\ u.chains = c1
             /\ u.panic <=> \/ Dangling(c1, o) \/ ~ NamesDistinct(Subtree(c1, o))
                            \/ NamesOf(Subtree(c1, o)) \cap p.claimed # {}
    <3>1. /\ NamesDistinct(Subtree(c, o)) /\ NamesOf(Subtree(c, o)) \cap p.claimed = {}
          /\ ~ Dangling(c, o)
      BY <1>3, <1>5, <2>2 DEF Dangling
    <3>2. PICK d : d = RecursiveUpdateLength(AppendToBlock(RemoveFork(c, o), o, h), o)
      OBVIOUS
    <3>3. q.chains = d
      BY <1>1, <1>3, <2>2, <3>2
    <3>4. NamesOf(Subtree(c, o)) \cap NamesOf(Chain(c, h)) = {}
      BY <1>1, <3>1 DEF ProgressOK, Claims
    <3>5. Waiting(d, m, h, R \ {o}) /\ Step(c, d) /\ Whole(d, h, R \ {o})
      BY <1>4, <3>1, <3>2, <3>4, AttachRound
    <3> QED  BY <1>4, <3>3, <3>5
  <2> QED  BY <1>2, <1>3, <2>1, <2>2, PruneCases
<1>8. Claims(q, h)
  <2>1. h \in Known(q.chains)
    BY <1>7 DEF Waiting, Blocks
  <2>2. Chain(q.chains, h) = Chain(c, h)
    BY <1>7, <2>1 DEF Step
  <2> QED  BY <1>1, <1>3, <1>6, <2>2 DEF Claims, ProgressOK
<1> QED  BY <1>1, <1>3, <1>7, <1>8 DEF ProgressOK

\* No fork is missing, and only the names of blocks with a settled place are claimed.
Clean(p) == NoneDangling(p.chains) /\ p.claimed \subseteq NamesOf(Settled(p.chains, p.left))

\* When no two blocks claim the same name, the orphan is always appended.
LEMMA ReinsertClean ==
    ASSUME NEW p, NEW m, NEW h, ProgressOK(p, m, h), NEW o \in p.left,
           Disjoint(m), Clean(p), NEW q \in Reinsert(p, o, h)
    PROVE  ~ q.panic /\ ~ q.stranding /\ Clean(q) /\ Known(q.chains) = Known(p.chains)
<1>1. PICK c, c1, R : c = p.chains /\ c1 = RemoveFork(c, o) /\ R = p.left
  OBVIOUS
<1>2. PICK u \in PruneInvalidForks(c1, p.claimed, o) :
         q = Progress(IF u.result # "valid" \/ u.panic THEN u.chains
                      ELSE RecursiveUpdateLength(AppendToBlock(u.chains, o, h), o),
                      u.claimed, p.left \ {o}, u.panic, p.stranding \/ u.result = "impossible")
  BY <1>1 DEF Reinsert
<1>3. Waiting(c, m, h, R) /\ o \in R
  BY <1>1 DEF ProgressOK
<1>4. Subtree(c1, o) = Subtree(c, o) /\ Deleted(c, c1, m, o, {})
  BY <1>1, <1>3, RemoveForkFacts
<1>5. o \in Blocks(c) /\ o # Genesis /\ o \in Known(c) /\ o \in Subtree(c, o)
  BY <1>3, OrphanFacts, SubtreeFacts DEF Blocks
<1>6. Subtree(c, o) \subseteq Known(c)
  BY <1>1, <1>5, SubtreeLeast DEF Clean, NoneDangling
<1>7. \A x \in Subtree(c, o) : x \in m /\ x \in Blocks(c) /\ o \in Chain(c, x)
  BY <1>3, <1>5, <1>6, SubtreeChain DEF Waiting, Tree
<1>8. NamesDistinct(Subtree(c, o))
  BY <1>7 DEF Disjoint, NamesDistinct
<1>9. NamesOf(Subtree(c, o)) \cap p.claimed = {}
  <2>1. SUFFICES ASSUME NEW x \in Subtree(c, o), NEW y \in Settled(c, R), NEW n \in x.names, n \in y.names
                 PROVE  FALSE
    BY <1>1 DEF Clean, NamesOf
  <2>2. x # y /\ x \in m /\ y \in m
    <3>1. y \in Blocks(c) /\ o \notin Chain(c, y)
      BY <1>3 DEF Settled
    <3>2. Blocks(c) \subseteq m
      BY <1>3 DEF Waiting, Tree, Over, Blocks
    <3> QED  BY <1>7, <3>1, <3>2
  <2> QED  BY <2>1, <2>2 DEF Disjoint
<1>10. o.names \subseteq NamesOf(Subtree(c, o))
  BY <1>5 DEF NamesOf
<1>11. Known(c1) = Known(c) /\ c1[o].forks \subseteq Known(c1) /\ ~ Dangling(c1, o)
  <2>1. Known(c1) = Known(c)
    BY <1>4 DEF Deleted
  <2>2. c1[o].forks = c[o].forks
    BY <1>4, <1>5, <2>1 DEF Deleted
  <2> QED  BY <1>1, <1>4, <1>5, <1>6, <2>1, <2>2 DEF Clean, NoneDangling, Dangling
<1>12. /\ u.result = "valid" /\ u.chains = c1 /\ ~ u.panic
       /\ u.claimed \subseteq p.claimed \cup NamesOf(Subtree(c, o)) /\ u.panic \in BOOLEAN
  BY <1>2, <1>4, <1>8, <1>9, <1>10, <1>11, PruneCases
<1>13. PICK d : d = RecursiveUpdateLength(AppendToBlock(RemoveFork(c, o), o, h), o)
  OBVIOUS
<1>14. /\ q.chains = d /\ q.claimed = u.claimed /\ q.left = R \ {o} /\ ~ q.panic /\ ~ q.stranding
  BY <1>1, <1>2, <1>12, <1>13 DEF Progress, ProgressOK
<1>15. Moved(c, d, m, o, h)
  BY <1>3, <1>13, ReattachFacts
<1>16. Known(d) = Known(c) /\ Blocks(d) = Blocks(c)
  BY <1>15 DEF Moved, Blocks
<1>17. NoneDangling(d)
  <2>1. SUFFICES ASSUME NEW x \in Known(c), NEW f \in d[x].forks  PROVE f \in Known(c)
    BY <1>16 DEF NoneDangling
  <2>2. f \in c[x].forks \/ f = o
    BY <1>15, <1>16, <2>1 DEF Moved
  <2> QED  BY <1>1, <1>5, <2>1, <2>2 DEF Clean, NoneDangling
<1>18. Settled(c, R) \cup Subtree(c, o) \subseteq Settled(d, R \ {o})
  <2>1. \A x : Chain(d, x) = Chain(c, x)
    BY <1>16 DEF Chain
  <2>2. ASSUME NEW x \in Subtree(c, o), NEW r \in R \ {o}, r \in Chain(c, x)  PROVE FALSE
    <3>1. o \in Chain(c, r) \/ r \in Chain(c, o)
      BY <1>7, <2>2, ChainLinear
    <3>2. r \in Known(c)
      BY <1>3, <2>2, OrphanFacts DEF Blocks
    <3>3. o \notin Chain(c, r)
      BY <1>3, <2>2, <3>2, OrphanFacts
    <3>4. r \notin Chain(c, o)
      BY <1>3, <1>5, <2>2, OrphanFacts
    <3> QED  BY <3>1, <3>3, <3>4
  <2> QED  BY <1>7, <1>16, <2>1, <2>2 DEF Settled
<1>19. Clean(q)
  <2>1. p.claimed \subseteq NamesOf(Settled(c, R))
    BY <1>1 DEF Clean
  <2>2. u.claimed \subseteq NamesOf(Settled(d, R \ {o}))
    BY <1>12, <1>18, <2>1 DEF NamesOf
  <2> QED  BY <1>14, <1>17, <2>2 DEF Clean
<1> QED  BY <1>1, <1>14, <1>16, <1>19

Rounds(f, N, base, h) == f = [n \in 0..N |-> IF n = 0 THEN base ELSE Round(f[n - 1], h)]

\* The recursive function of checkOrphansAndReinsert exists.
LEMMA RoundsExist ==
    ASSUME NEW N \in Nat, NEW base, NEW h
    PROVE  \E f : Rounds(f, N, base, h)
<1> DEFINE IsRun(f, k) == f = [n \in 0..k |-> IF n = 0 THEN base ELSE Round(f[n - 1], h)]
           Bad == {k \in 0..N : ~ \E f : IsRun(f, k)}
<1>1. ASSUME Bad # {}  PROVE FALSE
  <2>1. PICK k \in Bad : \A j \in Bad : k <= j
    <3>1. Bad \in SUBSET Nat
      OBVIOUS
    <3> HIDE DEF Bad
    <3> QED  BY <1>1, <3>1, Smallest
  <2>2. k \in 0..N /\ ~ \E f : IsRun(f, k)
    BY <2>1
  <2>3. CASE k = 0
    <3> DEFINE f == [n \in 0..0 |-> base]
    <3>1. f = [n \in 0..0 |-> IF n = 0 THEN base ELSE Round(f[n - 1], h)]
      OBVIOUS
    <3> QED  BY <2>2, <2>3, <3>1
  <2>4. CASE k # 0
    <3>1. k - 1 \in 0..N /\ ~ (k <= k - 1)
      BY <2>2, <2>4
    <3>2. PICK g : IsRun(g, k - 1)
      <4>1. k - 1 \notin Bad
        BY <2>1, <3>1
      <4> QED  BY <3>1, <4>1
    <3> DEFINE f == [n \in 0..k |-> IF n = k THEN Round(g[k - 1], h) ELSE g[n]]
    <3>3. ASSUME NEW n \in 0..k
          PROVE  f[n] = IF n = 0 THEN base ELSE Round(f[n - 1], h)
      <4>1. CASE n = k
        <5>1. k - 1 \in 0..k /\ k - 1 # k
          BY <3>1, <2>2, <2>4
        <5>2. f[k - 1] = g[k - 1]
          BY <5>1
        <5> QED  BY <2>4, <4>1, <5>2
      <4>2. CASE n # k
        <5>1. n \in 0..(k - 1) /\ (n # 0 => n - 1 \in 0..k /\ n - 1 # k)
          BY <2>2, <3>1, <3>3, <4>2
        <5>2. f[n] = g[n] /\ (n # 0 => f[n - 1] = g[n - 1])
          BY <3>3, <4>2, <5>1
        <5>3. g[n] = IF n = 0 THEN base ELSE Round(g[n - 1], h)
          <6>1. \A i \in 0..(k - 1) : g[i] = IF i = 0 THEN base ELSE Round(g[i - 1], h)
            BY <3>2
          <6> QED  BY <5>1, <6>1
        <5> HIDE DEF f
        <5> QED  BY <5>2, <5>3
      <4> QED  BY <4>1, <4>2
    <3>4. IsRun(f, k)
      <4>1. f = [n \in 0..k |-> f[n]]
        OBVIOUS
      <4> HIDE DEF f
      <4> QED  BY <3>3, <4>1
    <3> QED  BY <2>2, <3>4
  <2> QED  BY <2>3, <2>4
<1>2. \E f : IsRun(f, N)
  BY <1>1
<1> QED  BY <1>2 DEF Rounds

\* What checkOrphansAndReinsert keeps round by round: n orphans are done.
Upto(p, c, m, h, k, clean) ==
    /\ ~ p.panic /\ ~ p.stranding =>
         /\ ProgressOK(p, m, h) /\ Step(c, p.chains)
         /\ IsFiniteSet(p.left) /\ Cardinality(p.left) = k
    /\ clean => ~ p.panic /\ ~ p.stranding /\ Clean(p) /\ Known(p.chains) = Known(c)

\* One round is one orphan less.
LEMMA RoundKeeps ==
    ASSUME NEW c, NEW m, NEW h, NEW k \in Nat, k # 0, NEW clean \in BOOLEAN,
           clean => Disjoint(m),
           NEW S, \A p \in S : Upto(p, c, m, h, k, clean), NEW q \in Round(S, h)
    PROVE  Upto(q, c, m, h, k - 1, clean)
<1>1. PICK p \in S : q \in IF p.panic THEN {p} ELSE UNION {Reinsert(p, o, h) : o \in p.left}
  BY DEF Round
<1>2. Upto(p, c, m, h, k, clean)
  BY <1>1
<1>3. CASE p.panic
  BY <1>1, <1>2, <1>3 DEF Upto
<1>4. CASE ~ p.panic
  <2>1. PICK o \in p.left : q \in Reinsert(p, o, h)
    BY <1>1, <1>4
  <2>2. p.stranding => q.stranding
    <3>1. PICK a, k1, u : q = Progress(a, k1, p.left \ {o}, u.panic, p.stranding \/ u.result = "impossible")
      BY <2>1 DEF Reinsert
    <3> QED  BY <3>1 DEF Progress
  <2>3. ASSUME ~ q.panic, ~ q.stranding
        PROVE  /\ ProgressOK(q, m, h) /\ Step(c, q.chains)
               /\ IsFiniteSet(q.left) /\ Cardinality(q.left) = k - 1
    <3>1. ProgressOK(p, m, h) /\ Step(c, p.chains) /\ IsFiniteSet(p.left) /\ Cardinality(p.left) = k
      BY <1>2, <1>4, <2>2, <2>3 DEF Upto
    <3>2. ProgressOK(q, m, h) /\ Step(p.chains, q.chains) /\ q.left = p.left \ {o}
      BY <2>1, <2>3, <3>1, ReinsertKeeps
    <3>3. Step(c, q.chains)
      BY <3>1, <3>2 DEF Step
    <3>4. IsFiniteSet(p.left \ {o}) /\ Cardinality(p.left \ {o}) = Cardinality(p.left) - 1
      BY <2>1, <3>1, FS_RemoveElement
    <3> QED  BY <3>1, <3>2, <3>3, <3>4
  <2>4. ASSUME clean
        PROVE  ~ q.panic /\ ~ q.stranding /\ Clean(q) /\ Known(q.chains) = Known(c)
    BY <1>2, <2>1, <2>4, ReinsertClean DEF Upto
  <2> QED  BY <2>3, <2>4 DEF Upto
<1> QED  BY <1>3, <1>4

\* The tree that checkOrphansAndReinsert leaves when no orphan is stranded.
LEMMA CheckOrphansFacts ==
    ASSUME NEW c, NEW m, NEW h, NEW claimed, NEW R,
           R = {o \in c[Genesis].forks : o.prev = h}, Waiting(c, m, h, R), Whole(c, h, R),
           NamesOf(Chain(c, h)) \subseteq claimed,
           NEW p \in CheckOrphansAndReinsert(c, claimed, h)
    PROVE  /\ ~ p.panic /\ ~ p.stranding =>
                Waiting(p.chains, m, h, {}) /\ Step(c, p.chains) /\ Whole(p.chains, h, {})
           /\ Disjoint(m) /\ NoneDangling(c) /\ claimed \subseteq NamesOf(Settled(c, R)) =>
                ~ p.panic /\ ~ p.stranding /\ NoneDangling(p.chains) /\ Known(p.chains) = Known(c)
<1>1. PICK clean \in BOOLEAN :
         clean <=> Disjoint(m) /\ NoneDangling(c) /\ claimed \subseteq NamesOf(Settled(c, R))
  OBVIOUS
<1>2. IsFiniteSet(R) /\ Cardinality(R) \in Nat
  <2>1. R \in SUBSET m
    BY DEF Waiting, Tree, Over
  <2> QED  BY <2>1, FS_Subset, FS_CardinalityType DEF Waiting, Ranked
<1>3. PICK N \in Nat : N = Cardinality(R)
  BY <1>2
<1>4. PICK first : first = Progress(c, claimed, R, FALSE, FALSE)
  OBVIOUS
<1> DEFINE IsRun(f) == f = [n \in 0..N |-> IF n = 0 THEN {first} ELSE Round(f[n - 1], h)]
           after == CHOOSE f : IsRun(f)
<1>5. IsRun(after)
  <2>1. \E f : Rounds(f, N, {first}, h)
    BY RoundsExist
  <2>2. \E f : IsRun(f)
    BY <2>1 DEF Rounds
  <2> HIDE DEF IsRun
  <2> QED  BY <2>2
<1>6. p \in after[N]
  <2>1. CheckOrphansAndReinsert(c, claimed, h) = after[N]
    BY <1>3, <1>4 DEF CheckOrphansAndReinsert
  <2> QED  BY <2>1
<1>7. PICK f : f = after
  OBVIOUS
<1>8. \A n \in 0..N : f[n] = IF n = 0 THEN {first} ELSE Round(f[n - 1], h)
  BY <1>5, <1>7
<1> HIDE DEF after
<1>9. Upto(first, c, m, h, N, clean)
  <2>1. /\ first.chains = c /\ first.claimed = claimed /\ first.left = R
        /\ first.panic = FALSE /\ first.stranding = FALSE
    BY <1>4 DEF Progress
  <2> QED  BY <1>1, <1>2, <1>3, <2>1 DEF Upto, ProgressOK, Claims, Clean, Step
<1> DEFINE Bad == {n \in 0..N : ~ \A q \in f[n] : Upto(q, c, m, h, N - n, clean)}
<1>10. ASSUME Bad # {}  PROVE FALSE
  <2>1. PICK n \in Bad : \A j \in Bad : n <= j
    <3>1. Bad \in SUBSET Nat
      OBVIOUS
    <3> HIDE DEF Bad
    <3> QED  BY <1>10, <3>1, Smallest
  <2>2. n \in 0..N /\ ~ \A q \in f[n] : Upto(q, c, m, h, N - n, clean)
    BY <2>1
  <2>3. CASE n = 0
    <3>1. f[0] = {first} /\ N - 0 = N
      BY <1>8, <2>2, <2>3
    <3> QED  BY <1>9, <2>2, <2>3, <3>1
  <2>4. CASE n # 0
    <3>1. PICK k \in Nat : k = N - (n - 1)
      BY <2>2, <2>4
    <3>2. n - 1 \in 0..N /\ ~ (n <= n - 1) /\ k # 0 /\ k - 1 = N - n
      BY <2>2, <2>4, <3>1
    <3>3. \A q \in f[n - 1] : Upto(q, c, m, h, k, clean)
      <4>1. n - 1 \notin Bad
        BY <2>1, <3>2
      <4> QED  BY <3>1, <3>2, <4>1
    <3>4. f[n] = Round(f[n - 1], h)
      BY <1>8, <2>2, <2>4
    <3>5. clean => Disjoint(m)
      BY <1>1
    <3> HIDE DEF Bad
    <3>6. ASSUME NEW q \in f[n]  PROVE Upto(q, c, m, h, k - 1, clean)
      BY <3>2, <3>3, <3>4, <3>5, <3>6, RoundKeeps
    <3> QED  BY <2>2, <3>2, <3>6
  <2> QED  BY <2>3, <2>4
<1>11. Upto(p, c, m, h, 0, clean)
  <2>1. N \in 0..N /\ N - N = 0
    OBVIOUS
  <2> QED  BY <1>6, <1>7, <1>10, <2>1
<1>12. ASSUME ~ p.panic, ~ p.stranding
       PROVE  Waiting(p.chains, m, h, {}) /\ Step(c, p.chains) /\ Whole(p.chains, h, {})
  <2>1. ProgressOK(p, m, h) /\ Step(c, p.chains) /\ IsFiniteSet(p.left) /\ Cardinality(p.left) = 0
    BY <1>11, <1>12 DEF Upto
  <2>2. p.left = {}
    BY <2>1, FS_EmptySet
  <2> QED  BY <2>1, <2>2 DEF ProgressOK
<1> QED  BY <1>1, <1>11, <1>12 DEF Upto, Clean

-----------------------------------------------------------------------------
(* insertBlock                                                              *)

\* The map with the new block h after parent.
Appended(c, d, m, h, parent) ==
    /\ Known(d) = Known(c) \cup {h}
    /\ d \in [Known(d) -> [len : Int, forks : SUBSET m]]
    /\ d[h].len = c[parent].len + 1 /\ d[h].forks = {}
    /\ \A x \in Known(c) :
         /\ d[x].len = c[x].len
         /\ d[x].forks = IF x = parent THEN c[x].forks \cup {h} ELSE c[x].forks

\* appendToBlock for a new block.
LEMMA AppendFacts ==
    ASSUME NEW c, NEW m, Over(c, m), NEW h \in m, h \notin Known(c), NEW parent \in Known(c),
           NEW d, d = AppendToBlock(c, h, parent)
    PROVE  Appended(c, d, m, h, parent)
<1>1. Known(d) = Known(c) \cup {h} /\ d = [x \in Known(d) |-> d[x]]
  BY DEF AppendToBlock, Known
<1>2. \A x \in Known(c) : c[x] \in [len : Int, forks : SUBSET m]
  BY DEF Over
<1>3. d[h] = [len |-> c[parent].len + 1, forks |-> {}]
  BY DEF AppendToBlock
<1>4. PICK l \in Int : l = c[parent].len + 1
  BY <1>2
<1>5. d[h].len = l /\ d[h].forks = {} /\ d[h] \in [len : Int, forks : SUBSET m]
  BY <1>3, <1>4
<1>6. ASSUME NEW x \in Known(c)
      PROVE  /\ d[x].len = c[x].len
             /\ d[x].forks = IF x = parent THEN c[x].forks \cup {h} ELSE c[x].forks
             /\ d[x] \in [len : Int, forks : SUBSET m]
  <2>1. CASE x = parent
    <3>1. PICK k : k = c[x].forks \cup {h}
      OBVIOUS
    <3>2. k \in SUBSET m
      BY <1>2, <1>6, <3>1
    <3>3. d[x] = [c[x] EXCEPT !.forks = k]
      BY <1>6, <2>1, <3>1 DEF AppendToBlock
    <3> QED  BY <1>2, <1>6, <2>1, <3>1, <3>2, <3>3
  <2>2. CASE x # parent
    <3>1. d[x] = c[x]
      BY <1>6, <2>2 DEF AppendToBlock
    <3> QED  BY <1>2, <1>6, <2>2, <3>1
  <2> QED  BY <2>1, <2>2
<1> QED  BY <1>1, <1>4, <1>5, <1>6 DEF Appended

\* The only new fork is the new block, of its parent.
LEMMA AppendedForks ==
    ASSUME NEW c, NEW d, NEW m, NEW h, NEW parent, Appended(c, d, m, h, parent),
           NEW x \in Known(c), NEW f \in d[x].forks
    PROVE  f \in c[x].forks \/ (x = parent /\ f = h)
  BY DEF Appended

\* A block of the map has h on its chain only through an orphan that waits for h.
LEMMA ThroughOrphan ==
    ASSUME NEW d, NEW h, NEW x, h \in Chain(d, x), x # h
    PROVE  \E y \in Chain(d, x) : y # h /\ y.prev = h
<1> SUFFICES ASSUME \A y \in Chain(d, x) : y # h => y.prev # h  PROVE FALSE
  OBVIOUS
<1>1. x \in Blocks(d) /\ x \in Chain(d, x)
  BY ChainFacts
<1>2. PICK S : S = Chain(d, x) \ {h}
  OBVIOUS
<1>3. S \in SUBSET Blocks(d) /\ x \in S /\ \A y \in S : y.prev \in Blocks(d) => y.prev \in S
  BY <1>1, <1>2, ChainFacts
<1>4. Chain(d, x) \subseteq S
  BY <1>3, ChainLeast
<1> QED  BY <1>2, <1>4

\* The new block leaves a tree in which its orphans wait for it.
Inserted(c, d, m, h, R) ==
    /\ Waiting(d, m, h, R) /\ Whole(d, h, R)
    /\ Chain(d, h) = {h} \cup Chain(c, h.prev)
    /\ \A x \in Known(c) : h \notin Chain(d, x) => Chain(d, x) = Chain(c, x)
    /\ \A x \in Known(c) : Chain(c, x) \subseteq Chain(d, x)

\* insertBlock leaves such a tree to checkOrphansAndReinsert.
LEMMA InsertWaits ==
    ASSUME NEW c, NEW m, Ranked(m), Tree(c, m, {}), NEW h \in m, h \notin Known(c),
           NEW parent, parent = IF h.prev \in Known(c) THEN h.prev ELSE Genesis,
           h.prev \in Known(c) => NamesDistinct(Chain(c, h.prev) \cup {h}),
           NEW d, d = AppendToBlock(c, h, parent),
           NEW R, R = {o \in d[Genesis].forks : o.prev = h}
    PROVE  Inserted(c, d, m, h, R)
<1>1. Over(c, m) /\ ForksFollow(c) /\ Attached(c, {}) /\ Sound(c, {})
  BY DEF Tree
<1>2. parent \in Known(c) /\ Genesis \in Known(c) /\ Known(c) \subseteq m \cup {Genesis}
  BY <1>1 DEF Over
<1>3. Appended(c, d, m, h, parent)
  BY <1>1, <1>2, AppendFacts
<1>4. Genesis \notin m /\ h # Genesis
  BY DEF Ranked, Genesis
<1>5. /\ Blocks(d) = Blocks(c) \cup {h} /\ Known(d) = Known(c) \cup {h}
      /\ h \notin Blocks(c) /\ Blocks(c) \subseteq m
  BY <1>2, <1>3, <1>4 DEF Appended, Blocks
<1>6. Over(d, m)
  BY <1>2, <1>3, <1>5 DEF Over, Appended
<1>7. h.prev # h
  <2>1. h.prev \in m => h.prev.nonce < h.nonce /\ h.nonce \in Nat
    BY DEF Ranked
  <2> QED  BY <2>1
<1>8. ASSUME NEW x, h \notin Chain(d, x)  PROVE x # h /\ Chain(d, x) = Chain(c, x)
  <2>1. x # h
    BY <1>5, <1>8, ChainFacts
  <2>2. CASE x \in Blocks(c)
    <3>1. Chain(d, x) \subseteq Blocks(c)
      BY <1>5, <1>8, ChainFacts
    <3> QED  BY <1>5, <2>1, <2>2, <3>1, ChainSame
  <2>3. CASE x \notin Blocks(c)
    BY <1>5, <2>1, <2>3, ChainFacts
  <2> QED  BY <2>1, <2>2, <2>3
<1>9. h \notin Chain(d, h.prev)
  BY <1>5, <1>6, ChainLength
<1>10. Chain(d, h) = {h} \cup Chain(c, h.prev)
  BY <1>5, <1>8, <1>9, ChainStep
<1>11. ForksFollow(d)
  <2>1. SUFFICES ASSUME NEW b \in Blocks(d), NEW f \in d[b].forks  PROVE f.prev = b
    BY DEF ForksFollow
  <2>2. CASE b = h
    BY <1>3, <2>1, <2>2 DEF Appended
  <2>3. CASE b # h
    <3>1. b \in Blocks(c) /\ b \in Known(c) /\ b # Genesis
      BY <1>5, <2>3 DEF Blocks
    <3>2. f \in c[b].forks \/ (b = parent /\ f = h)
      BY <1>3, <2>1, <3>1, AppendedForks
    <3>3. b = parent => h.prev = b
      BY <3>1
    <3> QED  BY <1>1, <3>1, <3>2, <3>3 DEF ForksFollow
  <2> QED  BY <2>2, <2>3
<1>12. \A x \in Known(c) : c[x].forks \subseteq d[x].forks
  BY <1>3 DEF Appended
<1>13. h \in d[parent].forks
  BY <1>2, <1>3 DEF Appended
<1>14. ASSUME NEW b \in Blocks(c), b.prev = h  PROVE b \in R
  <2>1. b \in c[Genesis].forks
    BY <1>1, <1>14 DEF Attached
  <2> QED  BY <1>2, <1>12, <1>14, <2>1
<1>15. Attached(d, R)
  <2>1. ASSUME NEW b \in Blocks(d) \ R
        PROVE  b \in d[IF b.prev \in Known(d) THEN b.prev ELSE Genesis].forks
    <3>1. CASE b = h
      BY <1>5, <1>7, <1>13, <3>1
    <3>2. CASE b # h
      <4>1. b \in Blocks(c) /\ b.prev # h
        BY <1>5, <1>14, <2>1, <3>2
      <4>2. b \in c[IF b.prev \in Known(c) THEN b.prev ELSE Genesis].forks
        BY <1>1, <4>1 DEF Attached
      <4>3. b.prev \in Known(d) <=> b.prev \in Known(c)
        BY <1>5, <4>1
      <4> QED  BY <1>2, <1>12, <4>2, <4>3
    <3> QED  BY <3>1, <3>2
  <2>2. ASSUME NEW f \in d[Genesis].forks
        PROVE  f \in Known(d) /\ (f \notin R => f.prev = Genesis \/ f.prev \notin Known(d))
    <3>1. f \in c[Genesis].forks \/ (f = h /\ parent = Genesis)
      BY <1>2, <1>3, <2>2, AppendedForks
    <3>2. CASE f \in c[Genesis].forks
      <4>1. f \in Known(c) /\ (f.prev = Genesis \/ f.prev \notin Known(c))
        BY <1>1, <3>2 DEF Attached
      <4> QED  BY <1>5, <2>2, <4>1
    <3>3. CASE f = h /\ parent = Genesis
      BY <1>5, <1>7, <3>3
    <3> QED  BY <3>1, <3>2, <3>3
  <2> QED  BY <2>1, <2>2 DEF Attached
<1>16. Sound(d, R)
  <2>1. SUFFICES ASSUME NEW x \in Known(d), Chain(d, x) \cap R = {}
                 PROVE  d[x].len = Cardinality(Chain(d, x)) /\ NamesDistinct(Chain(d, x))
    BY DEF Sound
  <2>2. CASE x = h
    <3>1. Cardinality(Chain(d, h)) = Cardinality(Chain(c, h.prev)) + 1
      <4>1. Cardinality(Chain(d, h)) = Cardinality(Chain(d, h.prev)) + 1
        BY <1>5, <1>6, ChainLength
      <4> QED  BY <1>8, <1>9, <4>1
    <3>2. c[parent].len = Cardinality(Chain(c, parent)) /\ Chain(c, parent) = Chain(c, h.prev)
      <4>1. c[parent].len = Cardinality(Chain(c, parent))
        BY <1>1, <1>2 DEF Sound
      <4>2. h.prev \notin Known(c) => Chain(c, h.prev) = {} /\ Chain(c, Genesis) = {}
        BY ChainFacts DEF Blocks
      <4> QED  BY <4>1, <4>2
    <3>3. NamesDistinct(Chain(d, h))
      <4>1. CASE h.prev \in Known(c)
        <5>1. Chain(d, h) = Chain(c, h.prev) \cup {h}
          BY <1>10
        <5> QED  BY <4>1, <5>1
      <4>2. CASE h.prev \notin Known(c)
        <5>1. Chain(d, h) = {h}
          BY <1>10, <4>2, ChainFacts DEF Blocks
        <5> QED  BY <5>1 DEF NamesDistinct
      <4> QED  BY <4>1, <4>2
    <3> QED  BY <1>3, <2>2, <3>1, <3>2, <3>3 DEF Appended
  <2>3. CASE x # h
    <3>1. x \in Known(c)
      BY <1>5, <2>3
    <3>2. h \notin Chain(d, x)
      <4>1. SUFFICES ASSUME h \in Chain(d, x)  PROVE FALSE
        OBVIOUS
      <4>2. PICK y \in Chain(d, x) : y # h /\ y.prev = h
        BY <2>3, <4>1, ThroughOrphan
      <4>3. y \in Blocks(c)
        BY <1>5, <4>2, ChainFacts
      <4> QED  BY <1>14, <2>1, <4>2, <4>3
    <3>3. Chain(d, x) = Chain(c, x) /\ d[x].len = c[x].len
      BY <1>3, <1>8, <3>1, <3>2 DEF Appended
    <3> QED  BY <1>1, <3>1, <3>3 DEF Sound
  <2> QED  BY <2>2, <2>3
<1>17. ASSUME NEW x \in Known(c)  PROVE Chain(c, x) \subseteq Chain(d, x)
  <2>1. CASE x \in Blocks(c)
    <3>1. PICK S : S = Chain(d, x) \cap Blocks(c)
      OBVIOUS
    <3>2. S \in SUBSET Blocks(c) /\ x \in S /\ \A y \in S : y.prev \in Blocks(c) => y.prev \in S
      BY <1>5, <2>1, <3>1, ChainFacts
    <3>3. Chain(c, x) \subseteq S
      BY <3>2, ChainLeast
    <3> QED  BY <3>1, <3>3
  <2>2. CASE x \notin Blocks(c)
    BY <2>2, ChainFacts
  <2> QED  BY <2>1, <2>2
<1>18. Waiting(d, m, h, R)
  BY <1>5, <1>6, <1>11, <1>15, <1>16 DEF Waiting, Tree
<1>19. Whole(d, h, R)
  <2>1. d[h].forks = {}
    BY <1>3 DEF Appended
  <2>2. ASSUME NEW x \in Blocks(d), h \in Chain(d, x), Chain(d, x) \cap R = {}  PROVE x = h
    <3>1. SUFFICES ASSUME x # h  PROVE FALSE
      OBVIOUS
    <3>2. PICK y \in Chain(d, x) : y # h /\ y.prev = h
      BY <2>2, <3>1, ThroughOrphan
    <3>3. y \in Blocks(c)
      BY <1>5, <3>2, ChainFacts
    <3> QED  BY <1>14, <2>2, <3>2, <3>3
  <2> QED  BY <2>1, <2>2 DEF Whole
<1> QED  BY <1>8, <1>10, <1>17, <1>18, <1>19 DEF Inserted

\* The result of headChanges, when it is reached and no orphan was stranded: c is the
\* old map, d the one with h, e the one after checkOrphansAndReinsert.
LEMMA HeadFacts ==
    ASSUME NEW c, NEW d, NEW e, NEW m, NEW h, NEW old \in Known(c),
           Over(d, m), Waiting(e, m, h, {}), Whole(e, h, {}), Step(d, e),
           Known(d) = Known(c) \cup {h},
           \A x \in Known(c) : h \notin Chain(d, x) => Chain(d, x) = Chain(c, x),
           \A x \in Known(c) : Chain(c, x) \subseteq Chain(d, x),
           \A x \in Known(c) : Cardinality(Chain(c, x)) <= Cardinality(Chain(c, old)),
           NEW x \in Longest(e, h)
    PROVE  /\ x \in Blocks(e) /\ h \in Chain(e, x) /\ e[x].len = Cardinality(Chain(e, x))
           /\ old \in Known(e) =>
                /\ e[old].len = Cardinality(Chain(e, old))
                /\ Chain(c, old) \subseteq Chain(e, old)
                /\ ~ CommonPanics(e, old, x)
                /\ \A y \in Known(e) : \/ Cardinality(Chain(e, y)) <= Cardinality(Chain(e, x))
                                       \/ Cardinality(Chain(e, y)) <= Cardinality(Chain(e, old))
<1>1. Ranked(m) /\ Over(e, m) /\ ForksFollow(e) /\ Attached(e, {}) /\ h \in Blocks(e)
  BY DEF Waiting, Tree
<1>2. \A y \in Known(e) : e[y].len = Cardinality(Chain(e, y))
  BY DEF Waiting, Tree, Sound
<1>3. \A y : IsFiniteSet(Chain(e, y)) /\ Cardinality(Chain(e, y)) \in Nat
  BY <1>1, ChainLength
<1>4. \A y \in Known(c) : Chain(c, y) \subseteq Chain(d, y) /\ IsFiniteSet(Chain(d, y))
                          /\ Cardinality(Chain(d, y)) \in Nat
  BY <1>1, ChainLength
<1>5. ASSUME NEW y, h \in Chain(e, y)  PROVE y \in Subtree(e, h)
  <2>1. \A z \in Blocks(e) : z.prev \in Blocks(e) => z \in e[z.prev].forks
    <3>1. \A z \in Blocks(e) : z.prev \in Known(e) => z \in e[z.prev].forks
      BY <1>1 DEF Attached
    <3> QED  BY <3>1 DEF Blocks
  <2> QED  BY <1>5, <2>1, ChainSubtree
<1>6. \A y \in Subtree(e, h) : y \in Blocks(e) /\ h \in Chain(e, y)
  <2> DEFINE S == {y \in Blocks(e) : h \in Chain(e, y)}
  <2>1. h \in S
    BY <1>1, ChainFacts
  <2>2. ASSUME NEW y \in S, NEW f \in e[y].forks  PROVE f \in S
    <3>1. f \in Known(e)
      BY <2>2 DEF Whole
    <3>2. f.prev = y /\ f \in m
      BY <1>1, <2>2 DEF ForksFollow, Over, Blocks
    <3>3. f \in Blocks(e)
      BY <1>1, <3>1, <3>2 DEF Blocks, Ranked, Genesis
    <3>4. Chain(e, f) = {f} \cup Chain(e, y)
      BY <3>2, <3>3, ChainStep
    <3> QED  BY <2>2, <3>3, <3>4
  <2>3. Subtree(e, h) \subseteq S
    <3> HIDE DEF S
    <3> QED  BY <2>1, <2>2, SubtreeLeast
  <2> QED  BY <2>3
<1>7. x \in Blocks(e) /\ h \in Chain(e, x) /\ x \in Known(e)
  BY <1>6 DEF Longest, Blocks
<1>8. \A y \in Known(e) : h \in Chain(e, y) => Cardinality(Chain(e, y)) <= Cardinality(Chain(e, x))
  BY <1>2, <1>5, <1>7 DEF Longest
<1>9. ASSUME old \in Known(e)
      PROVE  /\ Chain(c, old) \subseteq Chain(e, old)
             /\ ~ CommonPanics(e, old, x)
             /\ \A y \in Known(e) : \/ Cardinality(Chain(e, y)) <= Cardinality(Chain(e, x))
                                    \/ Cardinality(Chain(e, y)) <= Cardinality(Chain(e, old))
  <2>1. Chain(e, old) = Chain(d, old) /\ Chain(c, old) \subseteq Chain(e, old)
    BY <1>4, <1>9 DEF Step
  <2>2. ASSUME NEW y \in Known(e), h \notin Chain(e, y)
        PROVE  Cardinality(Chain(e, y)) <= Cardinality(Chain(e, old))
    <3>1. y \in Known(d) /\ Chain(e, y) = Chain(d, y)
      BY <2>2 DEF Step
    <3>2. y # h
      BY <1>1, <2>2, ChainFacts
    <3>3. y \in Known(c) /\ Chain(e, y) = Chain(c, y)
      BY <2>2, <3>1, <3>2
    <3>4. Cardinality(Chain(c, y)) <= Cardinality(Chain(c, old))
      BY <3>3
    <3>5. IsFiniteSet(Chain(c, old)) /\ Cardinality(Chain(c, old)) <= Cardinality(Chain(e, old))
      BY <1>3, <2>1, FS_Subset
    <3>6. Cardinality(Chain(c, old)) \in Nat /\ Cardinality(Chain(e, old)) \in Nat
          /\ Cardinality(Chain(c, y)) \in Nat
      BY <1>3, <3>3, <3>5, FS_CardinalityType
    <3> QED  BY <3>3, <3>4, <3>5, <3>6
  <2>3. ~ CommonPanics(e, old, x)
    <3>1. SUFFICES ASSUME x \in Chain(e, old), x # old  PROVE FALSE
      BY DEF CommonPanics
    <3>2. Chain(e, x) \subseteq Chain(e, old)
      BY <3>1, ChainOnward
    <3>3. Cardinality(Chain(e, old)) <= Cardinality(Chain(e, x))
      BY <1>7, <1>8, <1>9, <3>2
    <3>4. Cardinality(Chain(e, x)) <= Cardinality(Chain(e, old)) /\
          (Cardinality(Chain(e, x)) = Cardinality(Chain(e, old)) => Chain(e, x) = Chain(e, old))
      BY <1>3, <3>2, FS_Subset
    <3>5. Chain(e, x) = Chain(e, old)
      BY <1>3, <3>3, <3>4
    <3>6. old \in Blocks(e) /\ old \in Chain(e, x)
      BY <3>1, <3>5, ChainFacts
    <3>7. x.nonce < old.nonce /\ (old = x \/ old.nonce < x.nonce)
      BY <1>1, <3>1, <3>6, ChainRank
    <3>8. x.nonce \in Nat /\ old.nonce \in Nat
      <4>1. x \in m /\ old \in m
        BY <1>1, <1>7, <3>6 DEF Over, Blocks
      <4> QED  BY <1>1, <4>1 DEF Ranked
    <3> QED  BY <3>1, <3>7, <3>8
  <2> QED  BY <1>8, <2>1, <2>2, <2>3
<1> QED  BY <1>2, <1>7, <1>9

\* A rejected block stays among the forks of its parent, which is not the genesis block.
LEMMA RejectFacts ==
    ASSUME NEW c, NEW m, Ranked(m), Tree(c, m, {}), NEW h \in m, h \notin Known(c),
           h.prev \in Known(c), ~ NamesDistinct(Chain(c, h.prev) \cup {h}),
           NEW d, d = Without(AppendToBlock(c, h, h.prev), {h})
    PROVE  Tree(d, m, {}) /\ Known(d) = Known(c) /\ (\A x : Chain(d, x) = Chain(c, x)) /\ ~ Disjoint(m)
<1>1. PICK a : a = AppendToBlock(c, h, h.prev)
  OBVIOUS
<1>2. Over(c, m) /\ ForksFollow(c) /\ Attached(c, {}) /\ Sound(c, {})
  BY DEF Tree
<1>3. Appended(c, a, m, h, h.prev)
  BY <1>1, <1>2, AppendFacts
<1>4. Known(d) = Known(c) /\ Blocks(d) = Blocks(c)
  BY <1>1, <1>3 DEF Appended, Without, Known, Blocks
<1>5. \A x : Chain(d, x) = Chain(c, x)
  BY <1>4 DEF Chain
<1>6. \A x \in Known(c) : d[x] = a[x]
  BY <1>1, <1>3, <1>4 DEF Without, Appended
<1>7. d \in [Known(d) -> [len : Int, forks : SUBSET m]]
  <2>1. d = [x \in Known(c) |-> a[x]]
    BY <1>1, <1>4 DEF Without, Known
  <2>2. \A x \in Known(c) : a[x] \in [len : Int, forks : SUBSET m]
    BY <1>3 DEF Appended
  <2> QED  BY <1>4, <2>1, <2>2
<1>8. h.prev # Genesis
  <2>1. SUFFICES ASSUME h.prev = Genesis  PROVE FALSE
    OBVIOUS
  <2>2. Chain(c, h.prev) = {}
    BY <2>1, ChainFacts DEF Blocks
  <2> QED  BY <2>2 DEF NamesDistinct
<1>9. \A x \in Known(c) : /\ d[x].len = c[x].len /\ c[x].forks \subseteq d[x].forks
                          /\ \A f \in d[x].forks : f \in c[x].forks \/ (x = h.prev /\ f = h)
  <2>1. \A x \in Known(c) : \A f \in a[x].forks : f \in c[x].forks \/ (x = h.prev /\ f = h)
    BY <1>3, AppendedForks
  <2>2. \A x \in Known(c) : a[x].len = c[x].len /\ c[x].forks \subseteq a[x].forks
    BY <1>3 DEF Appended
  <2> QED  BY <1>6, <2>1, <2>2
<1>10. Over(d, m)
  BY <1>2, <1>4, <1>7 DEF Over
<1>11. ForksFollow(d)
  <2>1. SUFFICES ASSUME NEW b \in Blocks(c), NEW f \in d[b].forks  PROVE f.prev = b
    BY <1>4 DEF ForksFollow
  <2>2. b \in Known(c)
    BY DEF Blocks
  <2>3. f \in c[b].forks \/ (b = h.prev /\ f = h)
    BY <1>9, <2>1, <2>2
  <2>4. CASE f \in c[b].forks
    BY <1>2, <2>4 DEF ForksFollow
  <2>5. CASE b = h.prev /\ f = h
    BY <2>5
  <2> QED  BY <2>3, <2>4, <2>5
<1>12. Attached(d, {})
  <2>1. Genesis \in Known(c)
    BY <1>2 DEF Over
  <2>2. \A f \in d[Genesis].forks : f \in c[Genesis].forks
    BY <1>8, <1>9, <2>1
  <2>3. \A b \in Blocks(c) : b \in d[IF b.prev \in Known(c) THEN b.prev ELSE Genesis].forks
    BY <1>2, <1>9, <2>1 DEF Attached
  <2> QED  BY <1>2, <1>4, <2>2, <2>3 DEF Attached
<1>13. Sound(d, {})
  BY <1>2, <1>4, <1>5, <1>9 DEF Sound
<1>14. ~ Disjoint(m)
  <2>1. Chain(c, h.prev) \cup {h} \subseteq m
    BY <1>2, ChainFacts DEF Over, Blocks
  <2> QED  BY <2>1 DEF Disjoint, NamesDistinct
<1> QED  BY <1>4, <1>5, <1>10, <1>11, <1>12, <1>13, <1>14 DEF Tree

\* The cases of headChanges.
LEMMA HeadChangesFacts ==
    ASSUME NEW e, NEW x, NEW s, NEW r, r = HeadChanges(e, x, s)
    PROVE  /\ r.chains = e /\ r.stranding = s /\ r.valid
           /\ head \notin Known(e) => r.panic
           /\ head \in Known(e) /\ e[x].len > e[head].len =>
                r.head = x /\ r.grew /\ ~ r.panic /\ (r.changed <=> x.prev # head)
           /\ head \in Known(e) /\ ~ (e[x].len > e[head].len) =>
                r.head = head /\ ~ r.grew /\ ~ r.changed /\ (r.panic <=> CommonPanics(e, head, x))
<1>1. PICK b, k : b = CommonPanics(e, head, x) /\ k = (x.prev # head)
  OBVIOUS
<1>2. r = IF head \notin Known(e) THEN Result(e, head, TRUE, FALSE, FALSE, TRUE, s)
          ELSE IF e[x].len > e[head].len THEN Result(e, x, TRUE, k, TRUE, FALSE, s)
          ELSE Result(e, head, TRUE, FALSE, FALSE, b, s)
  BY <1>1 DEF HeadChanges
<1>3. CASE head \notin Known(e)
  <2>1. r = Result(e, head, TRUE, FALSE, FALSE, TRUE, s)
    BY <1>2, <1>3
  <2> QED  BY <1>3, <2>1 DEF Result
<1>4. CASE head \in Known(e) /\ e[x].len > e[head].len
  <2>1. r = Result(e, x, TRUE, k, TRUE, FALSE, s)
    BY <1>2, <1>4
  <2>2. /\ r.chains = e /\ r.head = x /\ r.valid = TRUE /\ r.changed = k /\ r.grew = TRUE
        /\ r.panic = FALSE /\ r.stranding = s
    BY <2>1 DEF Result
  <2> QED  BY <1>1, <1>4, <2>2
<1>5. CASE head \in Known(e) /\ ~ (e[x].len > e[head].len)
  <2>1. r = Result(e, head, TRUE, FALSE, FALSE, b, s)
    BY <1>2, <1>5
  <2>2. /\ r.chains = e /\ r.head = head /\ r.valid = TRUE /\ r.changed = FALSE /\ r.grew = FALSE
        /\ r.panic = b /\ r.stranding = s
    BY <2>1 DEF Result
  <2> QED  BY <1>1, <1>5, <2>2 DEF CommonPanics
<1> QED  BY <1>3, <1>4, <1>5

\* A result of insertBlock leaves a tree whose head ends a longest chain, and the
\* blocks of the old chain are on the new one unless a fork replaced it.
Kept(r, m, h) ==
    /\ Tree(r.chains, m, {}) /\ r.head \in Known(r.chains)
    /\ \A y \in Known(r.chains) :
         Cardinality(Chain(r.chains, y)) <= Cardinality(Chain(r.chains, r.head))
    /\ r.grew /\ ~ r.changed => HeadChain \cup {h} \subseteq Chain(r.chains, r.head)
    /\ ~ r.grew => ~ r.changed /\ HeadChain \subseteq Chain(r.chains, r.head)

\* A new block on the head that nothing builds on becomes the head.
Grows(r, m, h) ==
    r.valid /\ h.prev = head /\ (\A b \in m : b.prev # h) => r.grew /\ ~ r.changed

\* The block is accepted: c is the map it is appended to, e the one that
\* checkOrphansAndReinsert leaves.
LEMMA AcceptFacts ==
    ASSUME NEW d, NEW e, NEW m, NEW h, HeadOK,
           Over(d, m), Waiting(e, m, h, {}), Whole(e, h, {}), Step(d, e),
           Known(d) = Known(chains) \cup {h},
           \A y \in Known(chains) : h \notin Chain(d, y) => Chain(d, y) = Chain(chains, y),
           \A y \in Known(chains) : Chain(chains, y) \subseteq Chain(d, y),
           NEW x \in Longest(e, h), NEW s, NEW r, r = HeadChanges(e, x, s)
    PROVE  /\ ~ r.panic => Kept(r, m, h) /\ Grows(r, m, h)
           /\ head \in Known(e) => ~ r.panic
<1>1. PICK c, old : c = chains /\ old = head
  OBVIOUS
<1>2. /\ old \in Known(c) /\ Known(d) = Known(c) \cup {h}
      /\ \A y \in Known(c) : h \notin Chain(d, y) => Chain(d, y) = Chain(c, y)
      /\ \A y \in Known(c) : Chain(c, y) \subseteq Chain(d, y)
      /\ \A y \in Known(c) : Cardinality(Chain(c, y)) <= Cardinality(Chain(c, old))
  BY <1>1 DEF HeadOK, HeadChain
<1>3. /\ x \in Blocks(e) /\ h \in Chain(e, x) /\ e[x].len = Cardinality(Chain(e, x))
      /\ old \in Known(e) =>
           /\ e[old].len = Cardinality(Chain(e, old))
           /\ Chain(c, old) \subseteq Chain(e, old)
           /\ ~ CommonPanics(e, old, x)
           /\ \A y \in Known(e) : \/ Cardinality(Chain(e, y)) <= Cardinality(Chain(e, x))
                                  \/ Cardinality(Chain(e, y)) <= Cardinality(Chain(e, old))
  BY <1>2, HeadFacts
<1>4. /\ r.chains = e /\ r.valid
      /\ old \notin Known(e) => r.panic
      /\ old \in Known(e) /\ e[x].len > e[old].len =>
           r.head = x /\ r.grew /\ ~ r.panic /\ (r.changed <=> x.prev # old)
      /\ old \in Known(e) /\ ~ (e[x].len > e[old].len) =>
           r.head = old /\ ~ r.grew /\ ~ r.changed /\ (r.panic <=> CommonPanics(e, old, x))
  BY <1>1, HeadChangesFacts
<1>5. Ranked(m) /\ Tree(e, m, {}) /\ Over(e, m) /\ h \in Blocks(e)
  BY DEF Waiting, Tree
<1>6. \A y : Cardinality(Chain(e, y)) \in Nat
  BY <1>5, ChainLength
<1>7. old \in Known(e) => ~ r.panic
  BY <1>3, <1>4
<1>8. ASSUME ~ r.panic  PROVE Kept(r, m, h)
  <2>1. old \in Known(e) /\ x \in Known(e)
    BY <1>3, <1>4, <1>8 DEF Blocks
  <2>2. CASE e[x].len > e[old].len
    <3>1. r.head = x /\ r.grew /\ (r.changed <=> x.prev # old)
      BY <1>4, <2>1, <2>2
    <3>2. Cardinality(Chain(e, old)) < Cardinality(Chain(e, x))
      BY <1>3, <1>6, <2>1, <2>2
    <3>3. \A y \in Known(e) : Cardinality(Chain(e, y)) <= Cardinality(Chain(e, x))
      BY <1>3, <1>6, <2>1, <3>2
    <3>4. ASSUME x.prev = old  PROVE Chain(c, old) \cup {h} \subseteq Chain(e, x)
      <4>1. Chain(e, x) = {x} \cup Chain(e, old)
        BY <1>3, <3>4, ChainStep
      <4> QED  BY <1>3, <2>1, <4>1
    <3> QED  BY <1>1, <1>4, <1>5, <2>1, <3>1, <3>3, <3>4 DEF Kept, HeadChain
  <2>3. CASE ~ (e[x].len > e[old].len)
    <3>1. r.head = old /\ ~ r.grew /\ ~ r.changed
      BY <1>4, <2>1, <2>3
    <3>2. Cardinality(Chain(e, x)) <= Cardinality(Chain(e, old))
      BY <1>3, <1>6, <2>1, <2>3
    <3>3. \A y \in Known(e) : Cardinality(Chain(e, y)) <= Cardinality(Chain(e, old))
      BY <1>3, <1>6, <2>1, <3>2
    <3>4. Chain(c, old) \subseteq Chain(e, old)
      BY <1>3, <2>1
    <3> QED  BY <1>1, <1>4, <1>5, <2>1, <3>1, <3>3, <3>4 DEF Kept, HeadChain
  <2> QED  BY <2>2, <2>3
<1>9. ASSUME ~ r.panic, h.prev = old, \A b \in m : b.prev # h  PROVE r.grew /\ ~ r.changed
  <2>1. old \in Known(e)
    BY <1>4, <1>9
  <2>2. x = h
    <3>1. SUFFICES ASSUME x # h  PROVE FALSE
      OBVIOUS
    <3>2. PICK y \in Chain(e, x) : y # h /\ y.prev = h
      BY <1>3, <3>1, ThroughOrphan
    <3>3. y \in m
      BY <1>5, <3>2, ChainFacts DEF Over, Blocks
    <3> QED  BY <1>9, <3>2, <3>3
  <2>3. Cardinality(Chain(e, h)) = Cardinality(Chain(e, old)) + 1
    BY <1>5, <1>9, ChainLength
  <2>4. e[x].len > e[old].len
    BY <1>3, <1>6, <2>1, <2>2, <2>3
  <2> QED  BY <1>4, <1>9, <2>1, <2>2, <2>4
<1> QED  BY <1>1, <1>7, <1>8, <1>9 DEF Grows

\* insertBlock keeps the tree and the head unless it panics or strands an orphan, which
\* it does not if no two blocks claim the same name.
LEMMA InsertFacts ==
    ASSUME NEW m, Ranked(m), Tree(chains, m, {}), HeadOK, NEW h \in m, h \notin Known(chains),
           NEW r \in InsertBlock(h)
    PROVE  /\ ~ r.panic /\ ~ r.stranding => Kept(r, m, h) /\ Grows(r, m, h)
           /\ Disjoint(m) /\ NoneDangling(chains) =>
                ~ r.panic /\ ~ r.stranding /\ NoneDangling(r.chains)
<1>1. PICK c : c = chains
  OBVIOUS
<1>2. PICK parent : parent = IF h.prev \in Known(c) THEN h.prev ELSE Genesis
  OBVIOUS
<1>3. PICK d : d = AppendToBlock(c, h, parent)
  OBVIOUS
<1>4. PICK before : before = Chain(c, h.prev)
  OBVIOUS
<1>5. Over(c, m) /\ parent \in Known(c)
  BY <1>1, <1>2 DEF Tree, Over
<1>6. CASE h.prev \in Known(c) /\ ~ NamesDistinct(before \cup {h})
  <2>1. r = Result(Without(d, {h}), head, FALSE, FALSE, FALSE, FALSE, FALSE)
    BY <1>1, <1>2, <1>3, <1>4, <1>6 DEF InsertBlock
  <2>2. PICK e : e = Without(d, {h})
    OBVIOUS
  <2>3. r.chains = e /\ r.head = head /\ r.valid = FALSE /\ r.changed = FALSE /\ r.grew = FALSE
    BY <2>1, <2>2 DEF Result
  <2>4. Tree(e, m, {}) /\ Known(e) = Known(c) /\ (\A x : Chain(e, x) = Chain(c, x)) /\ ~ Disjoint(m)
    BY <1>1, <1>2, <1>3, <1>4, <1>6, <2>2, RejectFacts
  <2>5. Kept(r, m, h)
    <3>1. head \in Known(c) /\ \A y \in Known(c) : Cardinality(Chain(c, y)) <= Cardinality(Chain(c, head))
      BY <1>1 DEF HeadOK, HeadChain
    <3>2. \A y \in Known(e) : Cardinality(Chain(e, y)) <= Cardinality(Chain(e, head))
      BY <2>4, <3>1
    <3> QED  BY <1>1, <2>3, <2>4, <3>1, <3>2 DEF Kept, HeadChain
  <2> QED  BY <2>3, <2>4, <2>5 DEF Grows
<1>7. CASE h.prev \in Known(c) => NamesDistinct(before \cup {h})
  <2>1. PICK claimed : claimed = NamesOf(before \cup {h})
    OBVIOUS
  <2>2. PICK p \in CheckOrphansAndReinsert(d, claimed, h) :
           r \in IF p.panic THEN {Result(c, head, TRUE, FALSE, FALSE, TRUE, p.stranding)}
                 ELSE {HeadChanges(p.chains, x, p.stranding) : x \in Longest(p.chains, h)}
    BY <1>1, <1>2, <1>3, <1>4, <1>7, <2>1 DEF InsertBlock
  <2>3. PICK R : R = {o \in d[Genesis].forks : o.prev = h}
    OBVIOUS
  <2>4. /\ Waiting(d, m, h, R) /\ Whole(d, h, R)
        /\ Chain(d, h) = {h} \cup before
        /\ \A x \in Known(c) : h \notin Chain(d, x) => Chain(d, x) = Chain(c, x)
        /\ \A x \in Known(c) : Chain(c, x) \subseteq Chain(d, x)
    <3>1. Tree(c, m, {}) /\ h \notin Known(c)
      BY <1>1
    <3>2. h.prev \in Known(c) => NamesDistinct(Chain(c, h.prev) \cup {h})
      BY <1>4, <1>7
    <3>3. Inserted(c, d, m, h, R)
      BY <1>2, <1>3, <2>3, <3>1, <3>2, InsertWaits
    <3> QED  BY <1>4, <3>3 DEF Inserted
  <2>5. Appended(c, d, m, h, parent)
    BY <1>1, <1>3, <1>5, AppendFacts
  <2>6. Over(d, m) /\ Known(d) = Known(c) \cup {h} /\ h \in Blocks(d)
    BY <2>4, <2>5 DEF Waiting, Tree, Appended
  <2>7. claimed = NamesOf(Chain(d, h))
    <3>1. {h} \cup before = before \cup {h}
      OBVIOUS
    <3> QED  BY <2>1, <2>4, <3>1
  <2>8. /\ ~ p.panic /\ ~ p.stranding =>
             Waiting(p.chains, m, h, {}) /\ Step(d, p.chains) /\ Whole(p.chains, h, {})
        /\ Disjoint(m) /\ NoneDangling(d) /\ claimed \subseteq NamesOf(Settled(d, R)) =>
             ~ p.panic /\ ~ p.stranding /\ NoneDangling(p.chains) /\ Known(p.chains) = Known(d)
    BY <2>2, <2>3, <2>4, <2>7, CheckOrphansFacts
  <2>9. claimed \subseteq NamesOf(Settled(d, R))
    <3>1. ASSUME NEW y \in Chain(d, h)  PROVE y \in Settled(d, R)
      <4>1. y \in Blocks(d) /\ Chain(d, y) \subseteq Chain(d, h)
        BY <3>1, ChainFacts, ChainOnward
      <4>2. \A o \in R : o \notin Chain(d, h)
        BY <2>4, OrphanFacts
      <4> QED  BY <4>1, <4>2 DEF Settled
    <3> QED  BY <2>7, <3>1 DEF NamesOf
  <2>10. NoneDangling(c) => NoneDangling(d)
    <3>1. SUFFICES ASSUME NoneDangling(c), NEW x \in Known(d), NEW f \in d[x].forks  PROVE f \in Known(d)
      BY DEF NoneDangling
    <3>2. CASE x = h
      BY <2>5, <3>1, <3>2 DEF Appended
    <3>3. CASE x \in Known(c)
      BY <2>5, <2>6, <3>1, <3>3, AppendedForks DEF NoneDangling
    <3> QED  BY <2>6, <3>1, <3>2, <3>3
  <2>11. CASE p.panic
    <3>1. r = Result(c, head, TRUE, FALSE, FALSE, TRUE, p.stranding)
      BY <2>2, <2>11
    <3>2. r.panic
      BY <3>1 DEF Result
    <3> QED  BY <1>1, <2>8, <2>9, <2>10, <2>11, <3>2
  <2>12. CASE ~ p.panic
    <3>1. PICK x \in Longest(p.chains, h) : r = HeadChanges(p.chains, x, p.stranding)
      BY <2>2, <2>12
    <3>2. PICK e : e = p.chains
      OBVIOUS
    <3>3. r.chains = e /\ r.stranding = p.stranding
      BY <3>1, <3>2, HeadChangesFacts
    <3>4. ASSUME ~ p.stranding
          PROVE  (~ r.panic => Kept(r, m, h) /\ Grows(r, m, h)) /\ (head \in Known(e) => ~ r.panic)
      <4>1. Waiting(e, m, h, {}) /\ Step(d, e) /\ Whole(e, h, {})
        BY <2>8, <2>12, <3>2, <3>4
      <4>2. x \in Longest(e, h) /\ r = HeadChanges(e, x, p.stranding)
        BY <3>1, <3>2
      <4>3. /\ Known(d) = Known(chains) \cup {h}
            /\ \A y \in Known(chains) : h \notin Chain(d, y) => Chain(d, y) = Chain(chains, y)
            /\ \A y \in Known(chains) : Chain(chains, y) \subseteq Chain(d, y)
        BY <1>1, <2>4, <2>6
      <4> QED  BY <2>6, <4>1, <4>2, <4>3, AcceptFacts
    <3>5. head \in Known(c)
      BY <1>1 DEF HeadOK
    <3> QED  BY <1>1, <2>6, <2>8, <2>9, <2>10, <2>12, <3>2, <3>3, <3>4, <3>5
  <2> QED  BY <2>11, <2>12
<1> QED  BY <1>6, <1>7

-----------------------------------------------------------------------------
(* The steps                                                                *)

\* Another block, mined by this gossiper or by another.
LEMMA MinedGrows ==
    ASSUME Ranked(mined), \A b \in mined : b.nonce <= Cardinality(mined),
           NEW prev \in mined \cup {Genesis}, NEW names, NEW m, NEW own,
           own = Block(prev, names), m = mined \cup {own}
    PROVE  /\ Ranked(m) /\ \A b \in m : b.nonce <= Cardinality(m)
           /\ own \notin mined \cup {Genesis} /\ own \in m /\ own.prev = prev /\ own.names = names
           /\ \A b \in m : b.prev # own
<1>1. PICK n \in Nat : n = Cardinality(mined)
  BY FS_CardinalityType DEF Ranked
<1>2. own = [nonce |-> n + 1, prev |-> prev, names |-> names]
  BY <1>1 DEF Block
<1>3. own.nonce = n + 1 /\ own.prev = prev /\ own.names = names
  BY <1>2
<1>4. \A b \in mined : b.nonce \in Nat /\ b.nonce > 0 /\ b.nonce <= n
  BY <1>1 DEF Ranked
<1>5. own \notin mined /\ own # Genesis
  BY <1>3, <1>4 DEF Genesis
<1>6. IsFiniteSet(m) /\ Cardinality(m) = n + 1
  BY <1>1, <1>5, FS_AddElement DEF Ranked
<1>7. \A b \in m : b.nonce \in Nat /\ b.nonce > 0 /\ b.nonce <= n + 1
  BY <1>3, <1>4
<1>8. \A b \in mined : b.prev \in mined \cup {Genesis} /\ (b.prev \in mined => b.prev.nonce < b.nonce)
  BY DEF Ranked
<1>9. \A b \in m : b.prev \in mined \cup {Genesis}
  BY <1>3, <1>8
<1>10. \A b \in m : b.prev # own
  BY <1>5, <1>9
<1>11. \A b \in m : b.prev \in m => b.prev.nonce < b.nonce
  <2>1. ASSUME NEW b \in m, b.prev \in m  PROVE b.prev.nonce < b.nonce
    <3>1. b.prev \in mined
      BY <1>10, <2>1
    <3>2. CASE b \in mined
      BY <1>8, <3>1, <3>2
    <3>3. CASE b = own
      BY <1>3, <1>4, <3>1, <3>3
    <3> QED  BY <2>1, <3>2, <3>3
  <2> QED  BY <2>1
<1>12. Ranked(m)
  BY <1>6, <1>7, <1>9, <1>11 DEF Ranked
<1> QED  BY <1>3, <1>5, <1>6, <1>7, <1>10, <1>12

\* A tree over some blocks is one over more.
LEMMA TreeOver ==
    ASSUME NEW c, NEW m, NEW k, m \subseteq k, Tree(c, m, {})
    PROVE  Tree(c, k, {})
<1>1. Over(c, k)
  <2>1. \A x \in Known(c) : c[x] \in [len : Int, forks : SUBSET m]
    BY DEF Tree, Over
  <2>2. \A x \in Known(c) : c[x] \in [len : Int, forks : SUBSET k]
    BY <2>1
  <2> QED  BY <2>2 DEF Tree, Over
<1> QED  BY <1>1 DEF Tree

\* A block of another gossiper.
LEMMA OthersMineKeeps ==
    ASSUME LedgerIInv, NEW prev \in mined \cup {Genesis}, NEW names, OthersMine(prev, names)
    PROVE  LedgerIInv'
<1>1. PICK own : own = Block(prev, names)
  OBVIOUS
<1>2. mined' = mined \cup {own} /\ UNCHANGED <<chains, head, everyTx, pending, process, stranded, spoiled>>
  BY <1>1 DEF OthersMine, miner, history
<1>3. ASSUME Good  PROVE Good'
  <2>1. Ranked(mined') /\ \A b \in mined' : b.nonce <= Cardinality(mined')
    BY <1>1, <1>2, <1>3, MinedGrows DEF Good
  <2>2. Tree(chains, mined', {})
    BY <1>2, <1>3, TreeOver DEF Good
  <2>3. HeadOK' /\ HeadChain' = HeadChain
    BY <1>2, <1>3 DEF Good, HeadOK, HeadChain
  <2> QED  BY <1>2, <1>3, <2>1, <2>2, <2>3 DEF Good
<1>4. Disjoint(mined') => Disjoint(mined)
  BY <1>2 DEF Disjoint
<1> QED  BY <1>2, <1>3, <1>4 DEF LedgerIInv

\* A transaction.
LEMMA ReceiveTxKeeps ==
    ASSUME LedgerIInv, NEW name, ReceiveTx(name)
    PROVE  LedgerIInv'
<1>1. /\ pending' = pending \cup {name} /\ everyTx' = everyTx \cup {name}
      /\ UNCHANGED <<mined, chains, head, process, stranded, spoiled>>
  BY DEF ReceiveTx, history
<1>2. ASSUME Good  PROVE Good'
  <2>1. HeadOK' /\ HeadChain' = HeadChain
    BY <1>1, <1>2 DEF Good, HeadOK, HeadChain
  <2> QED  BY <1>1, <1>2, <2>1 DEF Good
<1> QED  BY <1>1, <1>2 DEF LedgerIInv

\* A step that leaves the ledger and the names alone, as forwardOwnBlock does.
LEMMA PublishOwnKeeps ==
    ASSUME LedgerIInv, UNCHANGED <<mined, chains, head, everyTx, pending, process, stranded, spoiled>>
    PROVE  LedgerIInv'
<1>1. HeadOK' <=> HeadOK
  BY DEF HeadOK, HeadChain
<1>2. HeadChain' = HeadChain
  BY DEF HeadChain
<1>3. Good' <=> Good
  BY <1>1, <1>2 DEF Good
<1> QED  BY <1>3 DEF LedgerIInv

\* Once an orphan is stranded nothing is left to keep: two blocks share a name.
LEMMA StrandedStays ==
    ASSUME LedgerIInv, stranded, stranded', mined \subseteq mined'
    PROVE  LedgerIInv'
<1>1. ~ Disjoint(mined')
  BY DEF LedgerIInv, Disjoint
<1> QED  BY <1>1 DEF LedgerIInv

\* What a result of insertBlock leaves of the invariant.
LEMMA ApplyKeeps ==
    ASSUME ~ stranded, NEW h, NEW r, Apply(r),
           Ranked(mined'), \A b \in mined' : b.nonce <= Cardinality(mined'),
           ~ r.panic /\ ~ r.stranding => Kept(r, mined', h),
           ~ r.panic /\ ~ r.stranding /\ ~ spoiled' =>
               everyTx' \subseteq pending' \cup NamesOf(Chain(r.chains, r.head)),
           Disjoint(mined') => ~ r.panic /\ ~ r.stranding /\ NoneDangling(r.chains)
    PROVE  LedgerIInv'
<1>1. /\ r.panic => process' = "panicked"
      /\ ~ r.panic => process' = "up" /\ chains' = r.chains
      /\ head' = r.head /\ (stranded' <=> r.stranding)
  BY DEF Apply
<1>2. ASSUME process' = "up", ~ stranded'  PROVE Good'
  <2>1. ~ r.panic /\ ~ r.stranding /\ chains' = r.chains
    BY <1>1, <1>2
  <2>2. HeadChain' = Chain(r.chains, r.head)
    BY <1>1, <2>1 DEF HeadChain
  <2>3. Kept(r, mined', h)
    BY <2>1
  <2>4. Tree(chains', mined', {})
    BY <2>1, <2>3 DEF Kept
  <2>5. HeadOK'
    BY <1>1, <2>1, <2>2, <2>3 DEF Kept, HeadOK
  <2>6. ~ spoiled' => everyTx' \subseteq pending' \cup NamesOf(HeadChain')
    BY <2>1, <2>2
  <2> QED  BY <2>4, <2>5, <2>6 DEF Good
<1>3. ASSUME Disjoint(mined')  PROVE process' = "up" /\ ~ stranded' /\ NoneDangling(chains')
  BY <1>1, <1>3
<1> QED  BY <1>2, <1>3 DEF LedgerIInv

\* The case of cBlocks.
LEMMA ReceiveBlockKeeps ==
    ASSUME LedgerIInv, NEW h \in mined, ReceiveBlock(h)
    PROVE  LedgerIInv'
<1>1. /\ process = "up" /\ h \notin Known(chains)
      /\ mined' = mined /\ everyTx' = everyTx /\ spoiled' = spoiled
  BY DEF ReceiveBlock
<1>2. PICK r \in InsertBlock(h) :
         /\ Apply(r)
         /\ pending' = IF r.changed THEN everyTx \ TakenNames(r.chains, r.head)
                       ELSE IF r.grew THEN pending \ h.names ELSE pending
  BY DEF ReceiveBlock
<1>3. CASE stranded
  <2>1. stranded'
    BY <1>2, <1>3 DEF Apply
  <2> QED  BY <1>1, <1>3, <2>1, StrandedStays
<1>4. CASE ~ stranded
  <2>1. /\ Ranked(mined) /\ \A b \in mined : b.nonce <= Cardinality(mined)
        /\ Tree(chains, mined, {}) /\ HeadOK
        /\ ~ spoiled => everyTx \subseteq pending \cup NamesOf(HeadChain)
    BY <1>1, <1>4 DEF LedgerIInv, Good
  <2>2. /\ ~ r.panic /\ ~ r.stranding => Kept(r, mined, h)
        /\ Disjoint(mined) /\ NoneDangling(chains) =>
             ~ r.panic /\ ~ r.stranding /\ NoneDangling(r.chains)
    BY <1>1, <1>2, <2>1, InsertFacts
  <2>3. ASSUME ~ r.panic, ~ r.stranding, ~ spoiled
        PROVE  everyTx \subseteq pending' \cup NamesOf(Chain(r.chains, r.head))
    <3>1. PICK c, hd : c = r.chains /\ hd = r.head
      OBVIOUS
    <3>2. CASE r.changed
      BY <1>2, <3>2 DEF TakenNames
    <3>3. CASE r.grew /\ ~ r.changed
      <4>1. HeadChain \cup {h} \subseteq Chain(c, hd)
        BY <2>2, <2>3, <3>1, <3>3 DEF Kept
      <4>2. NamesOf(HeadChain) \cup h.names \subseteq NamesOf(Chain(c, hd))
        BY <4>1 DEF NamesOf
      <4>3. pending' = pending \ h.names
        BY <1>2, <3>3
      <4> QED  BY <2>1, <2>3, <3>1, <4>2, <4>3
    <3>4. CASE ~ r.grew
      <4>1. HeadChain \subseteq Chain(c, hd) /\ ~ r.changed
        BY <2>2, <2>3, <3>1, <3>4 DEF Kept
      <4>2. NamesOf(HeadChain) \subseteq NamesOf(Chain(c, hd))
        BY <4>1 DEF NamesOf
      <4>3. pending' = pending
        BY <1>2, <3>4, <4>1
      <4> QED  BY <2>1, <2>3, <3>1, <4>2, <4>3
    <3> QED  BY <3>2, <3>3, <3>4
  <2>4. Disjoint(mined) => NoneDangling(chains)
    BY DEF LedgerIInv
  <2> QED  BY <1>1, <1>2, <1>4, <2>1, <2>2, <2>3, <2>4, ApplyKeeps
<1> QED  BY <1>3, <1>4

\* The own block, on the head and with the pending names.
LEMMA MineBlockKeeps ==
    ASSUME LedgerIInv, MineBlock
    PROVE  LedgerIInv'
<1>1. PICK own : own = Block(head, pending)
  OBVIOUS
<1>2. process = "up" /\ mined' = mined \cup {own} /\ pending' = {} /\ everyTx' = everyTx
  BY <1>1 DEF MineBlock
<1>3. PICK r \in InsertBlock(own) : Apply(r) /\ spoiled' = (spoiled \/ ~ r.valid)
  BY <1>1 DEF MineBlock
<1>4. CASE stranded
  <2>1. stranded'
    BY <1>3, <1>4 DEF Apply
  <2> QED  BY <1>2, <1>4, <2>1, StrandedStays
<1>5. CASE ~ stranded
  <2>1. /\ Ranked(mined) /\ \A b \in mined : b.nonce <= Cardinality(mined)
        /\ Tree(chains, mined, {}) /\ HeadOK
        /\ ~ spoiled => everyTx \subseteq pending \cup NamesOf(HeadChain)
    BY <1>2, <1>5 DEF LedgerIInv, Good
  <2>2. head \in mined \cup {Genesis} /\ Known(chains) \subseteq mined \cup {Genesis}
    BY <2>1 DEF HeadOK, Tree, Over
  <2>3. /\ Ranked(mined') /\ \A b \in mined' : b.nonce <= Cardinality(mined')
        /\ own \notin mined \cup {Genesis} /\ own \in mined' /\ own.prev = head /\ own.names = pending
        /\ \A b \in mined' : b.prev # own
    BY <1>1, <1>2, <2>1, <2>2, MinedGrows
  <2>4. Tree(chains, mined', {})
    BY <1>2, <2>1, TreeOver
  <2>5. own \notin Known(chains)
    BY <2>2, <2>3
  <2>6. /\ ~ r.panic /\ ~ r.stranding => Kept(r, mined', own) /\ Grows(r, mined', own)
        /\ Disjoint(mined') /\ NoneDangling(chains) =>
             ~ r.panic /\ ~ r.stranding /\ NoneDangling(r.chains)
    BY <1>3, <2>1, <2>3, <2>4, <2>5, InsertFacts
  <2>7. ASSUME ~ r.panic, ~ r.stranding, ~ spoiled'
        PROVE  everyTx' \subseteq pending' \cup NamesOf(Chain(r.chains, r.head))
    <3>1. ~ spoiled /\ r.valid
      BY <1>3, <2>7
    <3>2. PICK c, hd : c = r.chains /\ hd = r.head
      OBVIOUS
    <3>3. r.grew /\ ~ r.changed
      BY <2>3, <2>6, <2>7, <3>1 DEF Grows
    <3>4. HeadChain \cup {own} \subseteq Chain(c, hd)
      BY <2>6, <2>7, <3>2, <3>3 DEF Kept
    <3>5. NamesOf(HeadChain) \cup own.names \subseteq NamesOf(Chain(c, hd))
      BY <3>4 DEF NamesOf
    <3> QED  BY <1>2, <2>1, <2>3, <3>1, <3>2, <3>5
  <2>8. Disjoint(mined') => Disjoint(mined) /\ NoneDangling(chains)
    BY <1>2 DEF LedgerIInv, Disjoint
  <2> QED  BY <1>3, <1>5, <2>3, <2>6, <2>7, <2>8, ApplyKeeps
<1> QED  BY <1>4, <1>5

\* The genesis block alone.
LEMMA LedgerInitial ==
    ASSUME LedgerInit
    PROVE  LedgerIInv
<1>1. PICK c : c = chains
  OBVIOUS
<1>2. PICK e : e = [len |-> 0, forks |-> {}]
  OBVIOUS
<1>3. c = [h \in {Genesis} |-> e]
  BY <1>1, <1>2 DEF LedgerInit
<1>4. /\ Known(c) = {Genesis} /\ c[Genesis] = e /\ e.len = 0 /\ e.forks = {}
      /\ e \in [len : Int, forks : SUBSET mined]
  BY <1>2, <1>3 DEF Known
<1>5. Blocks(c) = {} /\ \A x : Chain(c, x) = {}
  BY <1>4 DEF Blocks, Chain
<1>6. Cardinality({}) = 0 /\ IsFiniteSet({})
  BY FS_EmptySet
<1>7. mined = {} /\ head = Genesis /\ everyTx = {} /\ process = "up" /\ ~ stranded
  BY DEF LedgerInit
<1>8. Ranked(mined)
  BY <1>6, <1>7 DEF Ranked
<1>9. Over(c, mined)
  BY <1>3, <1>4 DEF Over
<1>10. ForksFollow(c) /\ Attached(c, {}) /\ NoneDangling(c)
  BY <1>4, <1>5 DEF ForksFollow, Attached, NoneDangling
<1>11. Sound(c, {})
  BY <1>4, <1>5, <1>6 DEF Sound, NamesDistinct
<1>12. HeadOK
  BY <1>1, <1>4, <1>5, <1>6, <1>7 DEF HeadOK, HeadChain
<1> QED  BY <1>1, <1>7, <1>8, <1>9, <1>10, <1>11, <1>12 DEF LedgerIInv, Good, Tree

\* The tree is sound in every reachable state without a stranded orphan, and no orphan
\* is stranded and nothing dereferenced while no two blocks claim the same name.
THEOREM LedgerInvariance == LedgerSpec => []LedgerIInv
<1>1. LedgerInit => LedgerIInv
  BY LedgerInitial
<1>2. LedgerIInv /\ [LedgerNext]_ledgerVars => LedgerIInv'
  <2> SUFFICES ASSUME LedgerIInv, [LedgerNext]_ledgerVars
               PROVE  LedgerIInv'
    OBVIOUS
  <2>1. ASSUME NEW prev \in mined \cup {Genesis}, NEW names \in SUBSET Name, OthersMine(prev, names)
        PROVE  LedgerIInv'
    BY <2>1, OthersMineKeeps
  <2>2. ASSUME NEW name \in Name, ReceiveTx(name)  PROVE LedgerIInv'
    BY <2>2, ReceiveTxKeeps
  <2>3. ASSUME NEW h \in mined, ReceiveBlock(h)  PROVE LedgerIInv'
    BY <2>3, ReceiveBlockKeeps
  <2>4. CASE MineBlock
    BY <2>4, MineBlockKeeps
  <2>5. CASE PublishOwn
    BY <2>5, PublishOwnKeeps DEF PublishOwn, history
  <2>6. CASE UNCHANGED ledgerVars
    BY <2>6, PublishOwnKeeps DEF ledgerVars, miner, history
  <2> QED  BY <2>1, <2>2, <2>3, <2>4, <2>5, <2>6 DEF LedgerNext
<1> QED  BY <1>1, <1>2, PTL DEF LedgerSpec

\* For every set of names and every number of blocks, in whatever order they arrive:
\* no name is claimed twice on the longest chain (checkValidTransactionsBackwards and
\* pruneInvalidForks).
THEOREM NamesUniqueHolds == LedgerSpec => []NamesUnique
<1>1. LedgerIInv => NamesUnique
  <2>1. ASSUME Good  PROVE NamesDistinct(HeadChain)
    BY <2>1 DEF Good, Tree, Sound, HeadOK, HeadChain
  <2> QED  BY <2>1 DEF LedgerIInv, NamesUnique
<1> QED  BY <1>1, LedgerInvariance, PTL

\* The head ends a longest chain (headChanges, recursiveUpdateLength).
THEOREM HeadLongestHolds == LedgerSpec => []HeadLongest
<1>1. LedgerIInv => HeadLongest
  BY DEF LedgerIInv, HeadLongest, Good, HeadOK
<1> QED  BY <1>1, LedgerInvariance, PTL

\* No transaction the miner received is lost (the cases of blockchainMiningRoutine).
THEOREM TxKeptHolds == LedgerSpec => []TxKept
<1>1. LedgerIInv => TxKept
  BY DEF LedgerIInv, TxKept, Good
<1> QED  BY <1>1, LedgerInvariance, PTL

\* Without two blocks that share a name nothing dereferences nil (insertBlock).
THEOREM NoPanicHolds == LedgerSpec => []NoPanic
<1>1. LedgerIInv => NoPanic
  BY DEF LedgerIInv, NoPanic, Disjoint
<1> QED  BY <1>1, LedgerInvariance, PTL


=============================================================================
