------------------------------ MODULE Download ------------------------------
(***************************************************************************)
(* File sharing and download (gossiper/fileSharing.go, fileparsing/): the  *)
(* download goroutines of one gossiper, the channels through which its     *)
(* dataReplyListenRoutine hands them chunks, and the peers that have them. *)
(*                                                                         *)
(* A file is named by its metahash; a hash stands for the data it is the   *)
(* hash of, as VerifyDataHash drops all other data.  Routes are those of   *)
(* the DSDV table: a packet reaches a peer if its hop limit lasts.         *)
(***************************************************************************)
EXTENDS Integers, FiniteSets, Sequences, SequencesExt

CONSTANTS
    File,        \* metahashes
    Chunks,      \* Chunks[f]: the chunk hashes in the metafile of f
    Invalid,     \* metahashes of data that ParseMetafile rejects
    Peer,        \* the other gossipers
    Dist,        \* Dist[p]: hops to p
    Holds,       \* Holds[p]: hashes in the chunkMap of p
    Lists,       \* Lists[f][i]: peers that listed chunk i of f in a search result
    Download,    \* the client's download requests ...
    FileOf,      \* ... the file asked for ...
    OriginOf,    \* ... and the peer to ask, or Anyone
    Anyone,      \* the empty origin
    Shared,      \* the files the client may share
    None,        \* no channel, no file
    HopLimit,    \* defaultHopLimit
    HopBits      \* width of the hop limit, 32 in the code

\* A file without chunks has no owner to pick (fileSharing.go:96 would panic).
ASSUME PeerAssumption == /\ Anyone \notin Peer /\ FileOf \in [Download -> File]
                         /\ OriginOf \in [Download -> Peer \cup {Anyone}]
                         /\ \A d \in Download : OriginOf[d] = Anyone => Chunks[FileOf[d]] # <<>>
ASSUME HopAssumption == /\ HopBits \in Nat /\ HopLimit \in 2..(2 ^ HopBits - 1)
                        /\ \A p \in Peer : Dist[p] \in 1..(HopLimit - 1)

Hash == File \cup UNION {ToSet(Chunks[f]) : f \in File}

ASSUME FileAssumption == /\ Invalid \subseteq File /\ Shared \subseteq File \ Invalid
                         /\ Chunks \in [File -> Seq(Hash)]
                         /\ \A f \in File : Lists[f] \in [1..Len(Chunks[f]) -> SUBSET Peer]
                         /\ None \notin Download \X Nat

\* The metafile is fetched first, then every chunk in turn.
HashAt(f, i) == IF i = 0 THEN f ELSE Chunks[f][i]

VARIABLES
    dlFilesSet,  \* files being downloaded
    listeners,   \* DLChanMap: listeners[h], the channel for data with hash h
    dl,          \* dl[d]: the goroutine downloadFile
    routine,     \* dataReplyListenRoutine
    chunkMap,    \* hashes whose data this gossiper has
    fileMap,     \* files this gossiper lists in search results
    sharer,      \* clientFileShareListenRoutine
    replies      \* data replies on the way, by hash

store == <<chunkMap, fileMap, sharer>>
vars == <<dlFilesSet, listeners, dl, routine, replies, store>>

Idle == [at |-> "idle"]

Init ==
    /\ dlFilesSet = {} /\ listeners = [h \in Hash |-> None]
    /\ dl = [d \in Download |-> [at |-> "new", pos |-> 0, chan |-> None, peer |-> Anyone, hops |-> 0]]
    /\ routine = Idle /\ chunkMap = {} /\ fileMap = {} /\ sharer = [at |-> "idle", file |-> None]
    /\ replies = {}

-----------------------------------------------------------------------------
(* downloadFile and downloadChunk                                           *)

\* AddUnique.  The file of a download without a total match stays in the set.
Start(d) ==
    LET f == FileOf[d]
        totalMatch == \A i \in DOMAIN Lists[f] : Lists[f][i] # {}
    IN
    /\ dl[d].at = "new"
    /\ dlFilesSet' = dlFilesSet \cup {f}
    /\ dl' = [dl EXCEPT ![d].at = IF f \in dlFilesSet THEN "refused"
                                  ELSE IF OriginOf[d] = Anyone /\ ~ totalMatch THEN "failed"
                                  ELSE "call"]
    /\ UNCHANGED <<listeners, routine, replies, store>>

\* dataRequestListenRoutine of peer p answers a request that reaches it.
Answers(p, h) == h \in Holds[p]

\* forward: a request that leaves with this hop limit.  Peers answer at once, as
\* their answer depends on nothing; the time it takes is that of the reply.
Forward(h, p, hops) ==
    replies' = IF hops >= Dist[p] /\ Answers(p, h) THEN replies \cup {h} ELSE replies

\* The peer to ask for piece i: the metafile's is an owner of the first chunk.
Origins(d, i) ==
    IF OriginOf[d] # Anyone THEN {OriginOf[d]}
    ELSE Lists[FileOf[d]][IF i = 0 THEN 1 ELSE i]

\* AddListener, and the first request.
Call(d) ==
    LET i == dl[d].pos
        h == HashAt(FileOf[d], i)
        c == IF listeners[h] = None THEN <<d, i>> ELSE listeners[h]
    IN
    /\ dl[d].at = "call"
    /\ listeners' = [listeners EXCEPT ![h] = c]
    /\ \E p \in Origins(d, i) :
        /\ dl' = [dl EXCEPT ![d] = [at |-> "wait", pos |-> i, chan |-> c, peer |-> p,
                                    hops |-> HopLimit - 1]]
        /\ Forward(h, p, HopLimit - 1)
    /\ UNCHANGED <<dlFilesSet, routine, store>>

\* Mutant: the hop limit stops at zero.
RetrySaturates(d) ==
    LET hops == IF dl[d].hops = 0 THEN 0 ELSE dl[d].hops - 1 IN
    /\ dl[d].at = "wait"
    /\ dl' = [dl EXCEPT ![d].hops = hops]
    /\ Forward(HashAt(FileOf[d], dl[d].pos), dl[d].peer, hops)
    /\ UNCHANGED <<dlFilesSet, listeners, routine, store>>

\* The ticker: the same packet once more, whose hop limit goes on down.
Retry(d) ==
    LET hops == (dl[d].hops - 1) % 2 ^ HopBits IN
    /\ dl[d].at = "wait"
    /\ dl' = [dl EXCEPT ![d].hops = hops]
    /\ Forward(HashAt(FileOf[d], dl[d].pos), dl[d].peer, hops)
    /\ UNCHANGED <<dlFilesSet, listeners, routine, store>>

\* What follows downloadChunk: a bad metafile ends the download, a good one lists
\* the file with all its chunks; every piece is stored; the last one ends it.
Stored(d) ==
    LET f == FileOf[d]
        rejected == dl[d].pos = 0 /\ f \in Invalid
        last == dl[d].pos = Len(Chunks[f])
    IN
    /\ dl[d].at = "got"
    /\ dl' = [dl EXCEPT ![d].at = IF rejected THEN "invalid" ELSE IF last THEN "done" ELSE "call",
                        ![d].pos = IF rejected \/ last THEN @ ELSE @ + 1]
    /\ chunkMap' = IF rejected THEN chunkMap ELSE chunkMap \cup {HashAt(f, dl[d].pos)}
    /\ fileMap' = IF rejected THEN fileMap ELSE fileMap \cup {f}
    /\ dlFilesSet' = IF rejected \/ last THEN dlFilesSet \ {f} ELSE dlFilesSet
    /\ UNCHANGED <<listeners, routine, replies, sharer>>

-----------------------------------------------------------------------------
(* The network and dataReplyListenRoutine                                   *)

Lose(h) ==
    /\ h \in replies /\ replies' = replies \ {h}
    /\ UNCHANGED <<dlFilesSet, listeners, dl, routine, store>>

\* InformListener, Load; UDP may deliver the reply again.
ReceiveReply(h) ==
    /\ routine = Idle /\ h \in replies
    /\ replies' \in {replies, replies \ {h}}
    /\ routine' = IF listeners[h] = None THEN Idle
                  ELSE [at |-> "send", hash |-> h, chan |-> listeners[h]]
    /\ UNCHANGED <<dlFilesSet, listeners, dl, store>>

\* The unbuffered channel meets one of the goroutines that wait on it.
HandOver(d) ==
    /\ routine.at = "send" /\ dl[d].at = "wait" /\ dl[d].chan = routine.chan
    /\ dl' = [dl EXCEPT ![d] = [at |-> "got", pos |-> @.pos, chan |-> None, peer |-> Anyone,
                                hops |-> 0]]
    /\ routine' = [at |-> "delete", hash |-> routine.hash]
    /\ UNCHANGED <<dlFilesSet, listeners, replies, store>>

\* Mutant: the channel stays in the map.
KeepListener ==
    /\ routine.at = "delete" /\ routine' = Idle
    /\ UNCHANGED <<dlFilesSet, listeners, dl, replies, store>>

\* Mutant: the whole map is emptied.
DeleteListeners ==
    /\ routine.at = "delete"
    /\ listeners' = [h \in Hash |-> None]
    /\ routine' = Idle
    /\ UNCHANGED <<dlFilesSet, dl, replies, store>>

DeleteListener ==
    /\ routine.at = "delete"
    /\ listeners' = [listeners EXCEPT ![routine.hash] = None]
    /\ routine' = Idle
    /\ UNCHANGED <<dlFilesSet, dl, replies, store>>

-----------------------------------------------------------------------------
(* clientFileShareListenRoutine: AddEntry, the chunks, and a send to the    *)
(* ledger's channel, which no routine reads.                                *)

ShareEntry(f) ==
    /\ sharer.at = "idle"
    /\ fileMap' = fileMap \cup {f}
    /\ sharer' = [at |-> "chunks", file |-> f]
    /\ UNCHANGED <<dlFilesSet, listeners, dl, routine, replies, chunkMap>>

ShareChunks ==
    /\ sharer.at = "chunks"
    /\ chunkMap' = chunkMap \cup {sharer.file} \cup ToSet(Chunks[sharer.file])
    /\ sharer' = [at |-> "ledger", file |-> None]
    /\ UNCHANGED <<dlFilesSet, listeners, dl, routine, replies, fileMap>>

-----------------------------------------------------------------------------
Downloads(d) == Start(d) \/ Call(d) \/ Stored(d)
Routine == DeleteListener \/ \E d \in Download : HandOver(d)

Next ==
    \/ \E d \in Download : Downloads(d) \/ Retry(d)
    \/ Routine
    \/ \E h \in Hash : ReceiveReply(h) \/ Lose(h)
    \/ (\E f \in Shared : ShareEntry(f)) \/ ShareChunks

Spec == Init /\ [][Next]_vars

\* Goroutines that can run do run, tickers tick, and a packet that is sent again
\* and again arrives in the end.
FairSpec ==
    /\ Spec /\ WF_vars(Routine)
    /\ \A d \in Download : WF_vars(Downloads(d)) /\ WF_vars(Retry(d))
    /\ \A h \in Hash : SF_vars(ReceiveReply(h))

-----------------------------------------------------------------------------
(* Properties                                                               *)

\* Type correctness.
TypeOK ==
    /\ dlFilesSet \subseteq File /\ fileMap \subseteq File /\ chunkMap \subseteq Hash
    /\ replies \subseteq Hash
    /\ listeners \in [Hash -> {None} \cup (Download \X Nat)]
    /\ \A d \in Download :
        /\ dl[d].at \in {"new", "call", "wait", "got", "done", "invalid", "failed", "refused"}
        /\ dl[d].pos \in 0..Len(Chunks[FileOf[d]]) /\ dl[d].hops \in 0..(2 ^ HopBits - 1)
    /\ routine.at \in {"idle", "send", "delete"}
    /\ sharer.at \in {"idle", "chunks", "ledger"}

\* dataReplyListenRoutine, which serves all downloads, never sends on a channel
\* that no download waits on: it would be blocked for ever, with duplicated
\* replies, shared channels and channels whose entry is about to be deleted.
SendIsReceived ==
    routine.at = "send" => \E d \in Download : dl[d].at = "wait" /\ dl[d].chan = routine.chan

\* The download waits on a channel that is no longer in the map: no reply of its
\* retries will find it.
Orphaned(d) ==
    dl[d].at = "wait" /\ listeners[HashAt(FileOf[d], dl[d].pos)] # dl[d].chan

\* Download e has got the data of its piece i, from the routine's hand.
Got(e, i) == i < dl[e].pos \/ (i = dl[e].pos /\ dl[e].at \in {"got", "done", "invalid"})

\* That happens only when the data was already handed over for an equal piece: to
\* another download, or to the same one for an earlier chunk.  A download whose
\* pieces nobody else has got keeps its channel, whatever is lost or repeated.
OrphansShareHash ==
    \A d \in Download : Orphaned(d) =>
        \E e \in Download : \E i \in 0..Len(Chunks[FileOf[e]]) :
            HashAt(FileOf[e], i) = HashAt(FileOf[d], dl[d].pos) /\ Got(e, i)

\* A download from peers that have the file ends, although packets are lost and
\* every retry has a smaller hop limit, down to zero and around: all pieces are
\* stored, or the metafile is rejected - unless it is orphaned, and so waits for ever.
DownloadEnds ==
    \A d \in Download :
        (\A i \in 0..Len(Chunks[FileOf[d]]) : \A p \in Origins(d, i) :
            HashAt(FileOf[d], i) \in Holds[p])
        => (dl[d].at = "call") ~> (dl[d].at \in {"done", "invalid"} \/ Orphaned(d))
=============================================================================
