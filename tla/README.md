# Peerster in TLA+

Peerster is a peer-to-peer program in Go.  One process, a *gossiper*, spreads
messages by rumour mongering, routes private packets with DSDV, shares and
searches files, keeps a Kademlia table, and uses the resulting DHT for a
distributed web crawler and search engine.  This directory holds TLA+ models of
nine of its components, the TLC configurations that check them, and TLAPS proofs
about all nine.  `src/` below is the repository.

## 1. Inventory

Every gossiper is one process with a goroutine per packet type.
`receiveExternalUDP` (gossiper/gossiper.go) decodes packets and passes them to
the goroutines over channels; `receiveClientUDP` does the same for client
requests.  Goroutines share tables that are guarded by mutexes or are
`sync.Map`s, so single accesses are atomic and sequences of them are not.

| Part | State | Operations | What is hard | Correct when |
|---|---|---|---|---|
| Rumour mongering (gossiper.go, rumorMongering.go, helpers.go, dto/SafeMessagesMap.go) | messages per origin, next own ID, peers | client message, rumour, status, mongering with timeout and coin | UDP loses, repeats, reorders; a goroutine per rumour | stores are gap-free prefixes, acknowledgements are true, a new message brings the lost ones with it |
| Listener registry (dto/QuitChanMap.go) | quit channel per peer, origin, ID | AddListener, DeleteListener, InformListeners | Load, close and Delete interleave with trySend | no double close, no foreign acknowledgement, no leak |
| DSDV (DSDV.go, routing/) | next hop and sequence number per origin | update from rumours, forward, private message | routes change under packets in flight | no cycle of next hops, packets come back only along newer routes, no hop is wasted |
| Kademlia (kBuckets.go, dht.go, dhtAPI.go, dht/) | buckets, listener per RPC, state of a lookup | message routine, ping, node and value lookup, store | timeouts race answers, tables read without lock, blocking ping | values are stored at and found on the closest node, lookups end |
| Crawler (gossiper/webcrawler.go, webcrawler/, dht/storage.go) | queue with head pointer, past links, both in a database | start, restore, Done goroutine, crawl loop, link distribution | crash between transactions, several Done goroutines, captured loop variable | no page skipped or crawled twice, every link crawled in the end |
| Sessions (gossiper/diffiehellman.go, getKey in webcrawler.go) | negotiations, keys with expiry | negotiate, acknowledge, expire | timeouts, simultaneous negotiation, waiters of a failed one | a key in use is known at both ends, one negotiation at a time, waiters are released |
| File sharing (fileSharing.go, fileparsing/) | chunks, files, channel per awaited chunk | share, download, request, reply | downloads that share a channel, retries of one packet, duplicated replies | the reply routine never blocks, downloads end |
| File search (fileSearching.go, filesearching/) | recent requests, owners per chunk, registered searches | request with budget, reply, expanding ring | duplicate suppression, budget arithmetic, a timeout against the routine that informs | budget is never exceeded, answers are complete, searches end |
| File name ledger (blockchain.go) | block tree, head, pending transactions | insert, prune, switch fork, mine | order of arrival, names claimed by two orphans, Go's map order | head is a valid longest chain, no transaction is lost |
| Page rank and keyword search (pageRank.go, dht.go) | ranks, citations, keyword maps | update, merge, search | floating point, message storms | - |
| Bloom filter, command line, client, web pages, printing | - | - | - | - |

The gossip layer and the DHT share only the UDP socket and the dispatch loop.
The crawler calls the DHT (`LookupNodes`, `LookupValue`, `StoreInDHT`) and the
database; sessions encrypt the crawler's and the DHT's messages on request.

## 2. Plan

In order of importance; the first nine steps are done.

1. `Gossip` with the abstract `Broadcast`, `GossipRepair`, and `GossipProofs`.
2. `TrySend`: inside the atomic step `InformListeners` of `Gossip`.
3. `CrawlQueue`: queue, crash and restart.
4. `Kademlia`: table, message routine, lookups, store.
5. Theorems on stores, acknowledgements, routes and the refinement.
6. `FileSearch` and `Download`: search with its budget and its registry, download
   with `DLChanMap`, retries and hop limits.
7. `Sessions`: Diffie-Hellman negotiation, acknowledgement, expiry and the
   waiters of `getKey`.  `Ledger`: the block tree and the miner.
8. `Routes`, the abstract DSDV that `Gossip` implements, and `Forwarding`, which
   composes it with the packets that are sent along its routes.
9. Theorems about `TrySend`, `Download`, `Forwarding`, `Sessions`, `CrawlQueue`,
   `FileSearch`, `Kademlia` and `Ledger`: every safety invariant that a run checks.
10. `dhtJoin` and the merging stores of `replyStore`, if they are ever to be
    trusted with more than what `Kademlia` shows.

No model has a RECURSIVE operator, as the prover cannot work with them; `MCLedger`,
which only TLC reads, has the one recursion that `Ledger` does without.

## 3. Modules

* **Gossip** - every node's tables and goroutines, and the packets on the wire.
  `ClientMessage` is `clientListenRoutine`.  The `rumorListenRoutine` takes
  three steps, `RumorReceive` (add the peer, update the route), `RumorStore`
  (`addMessage`) and `RumorReply` (status packet, then `rumorMonger` if new),
  because other goroutines see the tables in between.  A `rumorMonger` goroutine
  is a record in `mongers`: `MongerPick` is `pickRandomPeer` with the sending of
  `trySend`, `MongerTimeout` and `MongerAcked` its two outcomes, `FlipCoin` the
  rest of the loop.  `StatusReceive` is `peerStatusListenRoutine`.  UDP is a set
  of packets: any may be taken next, `Lose` drops one, and with `Duplicates` a
  delivered packet may stay.  Contents of messages are left out: a message is
  its origin and ID.  Empty messages that `GetMessage` yields for an ID that is
  not stored are dropped by the receiver's dispatch and are not put on the wire.
  `antiEntropy` has no action: its start is commented out (gossiper.go:184).
* **GossipRepair** - `Gossip` with a history variable `lost` (how many messages each
  client had submitted when a packet was last lost) and the fairness of goroutines and
  UDP; it states what mongering alone repairs.  `LosePacket` is `Lose` with the history.
* **Broadcast** - the promise: every node learns the messages of every origin in
  order, one after the other, never more than the origin has sent.
* **TrySend** - one gossiper's `QuitChanMap`; every operation on the nested
  `sync.Map` and every `close` is a step.
* **Kademlia** - one node in detail; the others answer from tables that do not
  change (external).  `Receive`, `ReceivePing` and `PingTimeout` are
  `dhtMessageListenRoutine` with `updateNode`; `StartLookup`, `SelectReply` and
  `SelectTimeout` are the mutually recursive rounds and final phases of
  `LookupNodes` and `LookupValue`.  `sendPing` waits in the only routine that
  could handle the answer, so its success branch is dead code and the model has
  no action for it.  A lookup that overlaps the rotation of a bucket may read
  any mixture of the old and the new order (`Views`), and one that overlaps the drop of
  a node that was pinged in vain the bucket before its successor is put in (`Dropping`);
  a torn slice header, which the Go memory model does not exclude either, is not
  modelled.  IDs are bit strings; the key and the value are one page hash.
* **CrawlQueue** - the crawler of one gossiper and the durable queue.  A Done
  goroutine is a token that goes through the two transactions of
  `DeleteCrawlQueueHead` (`DeletePointer`, `DeleteHead`), the three of
  `CrawlQueueHead` (`ReadPointer`, `ReadHead`, `PutHead`) and the unbuffered
  `NextCrawl`; the crawl loop is one action per channel operation.
  `distributeHyperlinks` is `LookupOwners`, which with `LookupHangs` may never return
  (dhtAPI.go:81), and `DistributeLink`.  The retry for an empty list of nodes has no
  action, as `LookupNodes` always lists this gossiper (dhtAPI.go:22-23), and neither
  has a failed encoding of the past map, a map of strings into a buffer.  `packet` is
  the loop variable that the lookup's goroutine captures (there is no go.mod, so the
  semantics of Go before 1.22 apply).  `Crash` keeps the database only.
* **FileSearch** - one searcher, its network and one set of keywords that every
  file matches.  `SearchRequest` is `searchRequestListenRoutine` of any gossiper,
  with `forwardSearchRequest` splitting what is left of the budget (which peers
  get the remainder depends on the order in which they were learnt, so any may).
  The goroutine `searchFilesMatching` goes through `StartSearch`, `AddListener`,
  `Expand` (ticker t1) and, after ticker t2, `SearchTimeout`, `Drain` and
  `Close`; `searchReplyListenRoutine` through `ReceiveReply`, `UpdateOwners`,
  `RangeSearches`, `AppendFiles` and `Inform`, as searches come and go between
  these steps.  Every search has the same keywords, so `SafeSearchMap` holds at
  most one (`entry`).  A send on a closed channel takes the process down
  (`panicked`).  Lost packets are packets that are never received.
* **Download** - the downloads of one gossiper.  `downloadChunk` is `Call`
  (`AddListener`, first request) and `Retry`; what `downloadFile` does around it
  is `Start` and `Stored`; a metafile that does not parse ends in "invalid".
  `InformListener` is `ReceiveReply` (Load), `HandOver`
  (send on the unbuffered channel) and `DeleteListener`.  A channel is named by
  the call that made it.  Peers answer from chunk maps that do not change, so a
  request and its answer are one packet on its way.  Data with a wrong hash is
  dropped on arrival, so a hash stands for its data.
* **Routes** - what DSDV promises about the routes to one origin: `NewRumor` makes a
  newer sequence number, `LearnRoute` is `updateDSDV` on a rumour, however late, of
  a peer that has heard of it.  `Gossip` implements it (`ImplementsRoutes`).
* **Forwarding** - the packets that travel along these routes.  `ClientPM` is
  `clientPMListenRoutine`, `SendData` any sender that uses `forward` itself and so
  counts the first hop too, `ReceivePrivate` the handler of a gossiper on the way
  (`Forwards` is the test of `forward`: decrement, compare, look up), `Arrive` that
  of the destination.  `RouteChange` is any step of `Routes` in between.  A packet
  carries its trail, which the program does not have, for the properties to look at.
* **Sessions** - one initiator and one owner of keys.  A call goes through `Ask`,
  `ReadSessions` (a copy, under the lock), `CheckSessions` (or `CheckRace`: the second
  call of `expired()` finds the last session expired), `JoinNegotiation`, then `Answer`
  and `DeleteEntry`, or a timeout;
  `GiveUp` is the five second limit of `sendEncryptedStore` and `sendLookupKey`.
  `ReceiveReply`, `VerifyReply`, `ReceiveAck`, `VerifyAck`, `Callback` and
  `InitiatorTimeout` are `negotiateDiffieHellmanInitiator`; the two `Verify` steps
  look a node up and may never be taken, while `NegotiationTimeout` of `getKey` passes.
  At the owner such a lookup is part of `ReceiveInitiatorAck`: as nothing is assumed of
  the owner, one that hangs is an acknowledgement that is never received.
  `ReceiveInit`, `ReceiveInitiatorAck`, `SaveSession` and `ResponderTimeout` are
  `negotiateDiffieHellman`.  `Expire` lets
  the date of a session pass, at both ends at once; `CleanOutgoing` and
  `CleanIngoing` are the cleaner (`Select`: what is left, in its order).  A key is the
  pair of secrets behind it.
* **Ledger** - one gossiper's block tree and miner.  Each case of the select in
  `blockchainMiningRoutine` is an action (`ReceiveTx`, `ReceiveBlock`, `MineBlock`,
  `PublishOwn`).  `InsertBlock` is `insertBlock` with `checkOrphansAndReinsert`,
  `recursiveUpdateLength`, `pruneInvalidForks` and `headChanges`, in the order of the
  code; where the code ranges over a map it yields every outcome.  A nil dereference
  ends the program (`process`).  `OthersMine` are the blocks of other miners.
  The walks along `PrevHash` and down the forks are least sets (`Chain`, `Subtree`).
  `pruneInvalidForks` recurses, ignores what it returns for a fork and never takes a
  deleted fork from its parent, so what it and the `recursiveUpdateLength` after it do
  to an orphan has three cases.  The orphan's own names are taken: it is deleted with
  its subtree (`PruneDeletes`).  One of its forks is missing: the loop returns false and
  the orphan is left, `stranded`, in the map but among nobody's forks (`PruneStops`;
  what the loop has pruned before that is any part of the subtree, more than the code can
  do).  Otherwise the orphan is appended, and a conflict or a missing block anywhere
  below it leaves a fork on which `recursiveUpdateLength` dereferences nil
  (`PruneKeeps`).  `MCLedger` has the recursion as it is in the code (`PruneBlock`,
  `PruneForks`), and an ASSUME that TLC evaluates says for every tree of four blocks with
  two names, some of them missing, that these cases are what it leaves (`PruneOutcomes`).
* **MCGossip, MCGossipRepair, MCTrySend, MCKademlia, MCCrawlQueue, MCFileSearch, MCDownload,
  MCForwarding, MCSessions, MCLedger** - constants for TLC; `MCLedger` also the recursive
  `pruneInvalidForks`.
* **GossipProofs, TrySendProofs, FilesProofs, ForwardingProofs, SessionsProofs,
  CrawlQueueProofs, FileSearchProofs, KademliaProofs** - the inductive invariant of each
  model, a lemma per action that it is kept, and the theorems (section 5).  `FilesProofs`
  is about two models, `Download` and `Ledger`, which share no variable; therefore the
  specification of `Ledger` is called `LedgerSpec`.

Operators whose comment calls them mutants are not part of a model.  Each
changes one definition the way a plausible bug would, and shows that a property
would notice.

## 4. Runs

| Run | Checks | States | Result |
|---|---|---|---|
| gossip_pair | TypeOK, PrefixOfOrigin, AckSound, CatchesUp, ImplementsBroadcast | 74 thousand | pass |
| gossip_triangle | NextHopFresher, LoopFree, ImplementsRoutes | 1.3 million | pass |
| forwarding | RevisitsAreFresher, DropsAreStale | 104 thousand | pass |
| try_send | TypeOK, NoDoubleClose, QuitMeansStored, NoListenerLeak | 814 thousand | pass |
| kademlia | TypeOK, StoredAtClosest, StoredIsFound, LookupEnds | 167 thousand | pass |
| kademlia_timeout | LookupTimesOut | - | violated |
| crawl | TypeOK, AtMostOnce, NoPageLost, PanicLosesNoLinks, PastAccounted, LinksCrawled | 784 thousand | pass |
| search_budget | TypeOK, BudgetRespected | 260 thousand | pass |
| file_search | SearchSound, ReplyRoutineFree, SearchEnds | 141 thousand | pass |
| download | SendIsReceived, OrphansShareHash, DownloadEnds | 144 thousand | pass |
| sessions | KeysAgree, OneNegotiation, AllAnswered, EntryReleased | 380 thousand | pass |
| ledger | NamesUnique, HeadLongest, TxKept, NoPanic | 867 thousand | pass |

Deadlock is not checked: client requests are bounded, so every model may stop
when its bound is used up.

What the passing runs show:

* A rumour that overtakes another is refused, so that stores stay prefixes;
  a status packet that acknowledges a rumour is never wrong, however late or old
  it is.  Of two gossipers, each message brings the other one everything that was
  lost before, unless a packet is lost after it was submitted (`CatchesUp`); the coin
  does not matter.  What is lost after the last message stays lost, as `antiEntropy` is
  not started, and among more gossipers the coin may leave one out.
* `updateDSDV` comes before `addMessage`, and only strictly newer sequence
  numbers replace a route.  Together they keep next hops free of cycles.
* The window between `close` and `Delete` in `InformListeners` is harmless to
  the listeners: no double close, no leak.
* Although `InsertArray` forgets every node after one that became the closest
  and each answer overwrites `closer`, the final phase makes up for it: in a
  network where everybody but the closest node names a closer one, values are
  stored on the closest node and found there again.
* A packet sees the routing tables at different instants and can come back to a
  gossiper that has sent it on; but it then leaves along a newer route, so that it
  circles at most once per rumour of its destination.  As long as there are no more
  gossipers than hops, one that never came back is not dropped.
* Without a crash, with one Done goroutine and while no owner lookup hangs, every link
  that was found is crawled; every link of the saved past map is queued, on its way to
  the queue (for ever, behind a lookup that hangs), being crawled or was crawled
  (`PastAccounted`), although entries are deleted by position and not by name.  When
  the database cannot be restored after a crash, it holds no links yet
  (`PanicLosesNoLinks`).
* A search never reaches more gossipers than its budget, although requests run in
  cycles and come back to the searcher, whose name is compared with addresses
  and so is never left out.  Searches that follow each other with the same
  keywords end, and their answers hold enough complete files.
* The routine for data replies never sends on a channel nobody reads, although
  replies are duplicated and channels shared.  Retries go on for ever thanks to
  the `uint32` that wraps around: a hop limit that stopped at zero would let a
  download starve.  A download can wait for ever only if data with the hash it waits
  for was already handed over, to another download or to itself for an equal chunk.
* A session the initiator uses is one the owner has saved or is about to save, unless
  a packet of its negotiation was repeated; there is one negotiation at a time, unless
  `getKey` gave up on one after thirty seconds; a batch of links is always answered.
* However blocks are ordered, repeated and forked, the ledger follows a longest chain
  on which no name is claimed twice and keeps every transaction pending or on it,
  until a rejected block strands an orphan; and it cannot dereference nil while no two
  blocks claim the same name.

Several properties carry a condition (`stranded`, `spoiled`, `duplicated`, `timedOut`,
`Leaked`, `lost`, `crashes = 0`, `Disturbed`, "no more gossipers than hops").  Each was also
checked without it and is violated then: the condition is a limit or a defect of the
code, which the list of what was met while modelling names.  One part of `Disturbed`,
links of another gossiper, matters only from three pages on, and `stranded` matters to
`TxKept` only from six blocks on.

What the violations show:

* `kademlia_timeout`: `lookupRound` stops its ticker before the select, so a
  lost answer blocks `StoreInDHT`, `dhtJoin` (and with it `Start`) and the
  client's DHT routine for ever; dhtAPI.go:84 handles a timeout that cannot come.

Met while modelling and not a run of their own:

`AddMessage` makes an empty map for the origin of a refused rumour; the status packet
then lists the origin with NextID 1, and the node that should ask for missing messages
tries to send a message it does not have instead, against the comment at
rumorMongering.go:30 (`CatchesUp` holds because the answer to the next rumour makes up
for it).
`InformListeners` looks only at
origins the packet lists, so it can return true while a goroutine still sends to
the peer (QuitChanMap.go:40-42 says otherwise); a goroutine that comes back to a
peer between `close` and `Delete` finds its old entry, which rumorMongering.go:68
calls impossible; a crash after `CrawlQueueHead` loses the page it returned
(hence `crashes = 0` in `NoPageLost`); a crash between the first move of the head
pointer and the first backup of the past map makes `GetPast` panic on every start,
against storage.go:189; with two Done goroutines the head pointer
can move back onto a deleted entry, and the lookup's goroutine may answer on the
channel of a later packet (webcrawler.go:82; the crawler is then stuck).  A
search that times out just as the reply routine has enough files makes that
routine send on a closed channel, which ends the process; a file that becomes
complete between the local matches and the registration of a search is never
reported to it; an older search that is informed late removes the entry of a
newer one.  A second download of a chunk that is being fetched, and a file with
two equal chunks, can wait for ever; a download without a total match leaves its
file marked as being downloaded (fileSharing.go:92-95); the routine that shares
files stops at the first one, as nobody reads the ledger's channel.

A negotiation that fails sends nil twice (webcrawler.go:453) and its caller takes one,
so `getKey` stops before it clears `negotiationMap`; a caller that gave up has the same
effect.  From then on every caller without a session waits thirty seconds for nil, as
the channel of a subscriber is never written.  After the thirty seconds of
webcrawler.go:461 a second negotiation runs next to the first.  `expired()` is called
twice per session at webcrawler.go:428: if the last session expires in between, the
index is -1 and the program panics.  `waitForAcknowledge` accepts any packet of the
negotiation (diffiehellman.go:184), so a repeated reply counts as the acknowledgement,
and the loops that decrypt try only the last session that fits.  The goroutine at
diffiehellman.go:98 captures the loop variable: a packet can be handed over twice and
another not at all, which the model covers as repetition and loss.

A rejected block stays among its parent's forks (blockchain.go:198): later walks meet a
block that is not in the map, return early or dereference nil.  When
`pruneInvalidForks` returns early, the orphan it was called for is no longer among the
forks of the genesis block and not among those of its parent either: its chain is not
checked for names, its length is not updated, and if it becomes the longest chain, its
parent, an orphan too, can still be deleted from under it.  The transactions of that
parent are then neither pending nor on the longest chain.  (This is why `TxKept` excludes
`stranded`.  Without it the property holds for the four blocks of the run but is not
inductive: the attempt to prove it led to a violation with six blocks.)  The block case
declares `takenNames` anew (blockchain.go:382), so the miner may claim a name that is
taken; its own block is then rejected, and its names leave `pendingNames` all the same.

### Bounds

* Two gossipers and three messages are enough for overtaking, gaps of two, stale
  status packets and losses that a later message repairs.  Three gossipers are the least with a cycle of next
  hops that does not go through the origin, two messages the least for a route
  to change.  `MaxInFlight` caps packets on the wire (99 does not bind for two),
  `MaxMongers` goroutines alive at once, `MaxID` messages of a client.
* TrySend: two peers and two rumours with three sends each; a third send is
  needed to come back to a peer, as a peer is never picked twice in a row.
* Kademlia: five nodes, three of which share a bucket of size two; the closest
  node is three hops away and one answer names a far node before a near one, so
  that rounds with two queries and the final phase are needed.  `MaxOps` is two:
  a store and a lookup, or one of them and a request of another node.
* CrawlQueue: two pages that link each other with an external link and a crash
  (`MaxCrashes` 1, `MaxTokens` 2); `MaxQueue` 3 is the root and each link once, so the
  queue is full only after a crash or a page from another gossiper.  Three pages with
  crashes are beyond five minutes.
* Forwarding: four gossipers, a hop limit of four and five rumours (`MaxSeq`): packets
  come back to a gossiper and run out of hops.  One packet at a time (`MaxSent` 1), as
  packets do not meet.  `HopBits` is the width of the hop limit.
* Sessions: two calls (`Call`), one that gives up after five seconds (`Bounded`) and
  one that does not, so that a call can find a session, join a negotiation or start
  the next one; one negotiation may have a packet repeated (`Copied`), and two
  responders (`MaxResponders`) are then needed.
* Ledger: four blocks (`MaxBlocks`) are the least with two forks of length two, or with
  an orphan whose child conflicts with its grandparent; two names.
* FileSearch: for budgets, four gossipers with a cycle and a search that
  expands once, so that shares with and without remainder, repeats and dead ends
  occur (`MaximumBudget` 4).  For the registry, three gossipers and two searches
  (`Search`): the second may start before, during and after the end of the first;
  one file is complete with one reply and the other only with two.
* Download: a file with two equal chunks, asked for twice, from peers at distance one
  and two; its chunk, asked for by itself and rejected as a metafile (`Invalid`); and a
  file without a total match.  `HopBits` is two, so that the hop limit wraps around.

### Fairness

* Goroutines that can run do run (weak fairness per goroutine or routine).
* Gossip (`GossipRepair`): packets do not stay on the wire for ever, they are received
  or lost.  Neither the coin nor the choice of peers is fair, and as `Start` does not
  start `antiEntropy`, nothing sends status packets on its own.
* Kademlia: other nodes answer; replies are eventually taken from the channel
  `cDHT`, which is first come first served, even if answers to pings keep
  arriving (strong fairness).  `LookupEnds` excludes `LookupNodes` after a loss,
  because of `kademlia_timeout`.
* FileSearch: goroutines run, and the ticker of a search fires in the end;
  nothing is assumed of the network.  A crash of the process counts as an end.
* Download: tickers fire, and a reply that is sent again and again is received in
  the end (strong fairness for each hash).
* Sessions: the goroutines and timers of the initiator only, the thirty seconds of
  `getKey` included; nothing is assumed of the network, the owner or the lookups that
  verify a key.  A panic counts as an end.
* Crawler: pages may fail to load for ever; the Done packet keeps coming back.  A lookup
  of `distributeHyperlinks` returns or hangs, and `LinksCrawled` excludes the latter.

## 5. Proofs

Each theorem holds for every value of the constants that the assumptions of its
module admit, so for any number of nodes, messages, files, calls or crashes and any
bounds.

| Module | Theorem | States `Spec =>` |
|---|---|---|
| GossipProofs | TypeCorrect | `[]TypeOK` |
| | StoresArePrefixes | `[]PrefixOfOrigin` |
| | AcksAreSound | `[]AckSound` |
| | RoutesAreFresh | `[]RouteCoversStore /\ []NextHopFresher` |
| | RoutesAreLoopFree | `[]LoopFree` |
| | GossipImplementsBroadcast | `ImplementsBroadcast` |
| | GossipImplementsRoutes | `ImplementsRoutes` |
| TrySendProofs | TypeCorrect | `[]TypeOK` |
| | NoDoubleCloseHolds | `[]NoDoubleClose` |
| | QuitMeansStoredHolds | `[]QuitMeansStored` |
| | NoListenerLeakHolds | `[]NoListenerLeak` |
| FilesProofs | SendIsReceivedHolds | `[]SendIsReceived` |
| | OrphansShareHashHolds | `[]OrphansShareHash` |
| | NamesUniqueHolds | `[]NamesUnique` (of `LedgerSpec`) |
| | HeadLongestHolds | `[]HeadLongest` (of `LedgerSpec`) |
| | TxKeptHolds | `[]TxKept` (of `LedgerSpec`) |
| | NoPanicHolds | `[]NoPanic` (of `LedgerSpec`) |
| ForwardingProofs | TypeCorrect | `[]TypeOK` |
| | RevisitsAreFresherHolds | `[]RevisitsAreFresher` |
| | DropsAreStaleHolds | `[]DropsAreStale` |
| SessionsProofs | TypeCorrect | `[]TypeOK` |
| | KeysAgreeHolds | `[]KeysAgree` |
| | OneNegotiationHolds | `[]OneNegotiation` |
| CrawlQueueProofs | TypeCorrect | `[]TypeOK` |
| | AtMostOnceHolds | `[]AtMostOnce` |
| | NoPageLostHolds | `[]NoPageLost` |
| | PanicLosesNoLinksHolds | `[]PanicLosesNoLinks` |
| | PastAccountedHolds | `[]PastAccounted` |
| FileSearchProofs | TypeCorrect | `[]TypeOK` |
| | SearchSoundHolds | `[]SearchSound` |
| | BudgetRespectedHolds | `[]BudgetRespected` |
| KademliaProofs | TypeCorrect | `[]TypeOK` |
| | StoredAtClosestHolds | `[]StoredAtClosest` |
| | StoredIsFoundHolds | `[]StoredIsFound` |

Every module is built the same way.  `IInv` is the inductive invariant, a conjunction
of named parts; a lemma per action (`...Step`, `...Keeps` or `...Preserves`) shows that
the action preserves it; the theorem `Invariance` (`Inductive` in `GossipProofs`) combines them;
and the other theorems follow from it.  For `Ledger` the two are `LedgerIInv` and
`LedgerInvariance`.  Each of these invariants but the one of `Forwarding`,
which says that some numbering exists, was first checked with TLC as an invariant of the
component's run.

**Assumptions.**  They are the named ASSUMEs of the models, which TLC evaluates in
every run: members of the sets are told apart from the values that stand for "none",
bounds are natural numbers, flags are Boolean, tables are functions of the right kind.
Those that say something about the system: a gossiper is not its own initial peer
(`Gossip`); there are finitely many gossipers (`Forwarding`, `FileSearch`) and files
(`FileSearch`), needed to count them; the hop limit fits its width and peers are
nearer than it (`Forwarding`, `Download`); the DHT has finitely many nodes with
different IDs, bit strings as long as the key, no node lists itself in its table, and
a bucket holds more than one node (`Kademlia`; with one, a lookup could meet an empty
bucket in the middle of `updateNode`); peers know each other mutually and doubling
the budget 2 meets the maximum exactly, as it does with the 32 of the code
(`FileSearch`).  The assumption about the hop limit in `Forwarding`, 10 in the code, is
only that it is positive; `DropsAreStale` itself is about networks of at most that many
gossipers.  Of `Ledger` only the bound is assumed to be a
natural number: `Name` is any set, infinite ones included.

**Gossip.**  The invariant says what is true of every store, every packet, every packet
being handled and every goroutine.  It is needed because an
acknowledgement is only as good as the status packet it came from: `WireOK`
states that a rumour on the wire is stored by its sender and that a status
packet lists nothing its sender lacks, which stays true however old the packet
is, since stores only grow (`PacketStaysOK`).  `JobOK` carries this through the
three steps of `rumorListenRoutine`.  For routes, `NextHopFresher` alone is not
inductive: the sender's entry must be as recent as the rumour it sent, which
follows from `RouteCoversStore` at the sender, and that again from the order of
`updateDSDV` and `addMessage`.  `LoopFree` is part of the invariant: a cycle
through the changed route would consist, but for the node that changes it, of
nodes whose entries are at least as recent as the new one; none of them points
to that node, whose old entry was older, so the rest would have been a cycle
before (`RouteUpdate`).  The refinement uses that the highest ID of a store grows by
one, and only up to what the origin has (`LearntGrows`).  `ImplementsRoutes` needs the
same two facts as the routes: a rumour on the wire is in its sender's store, and the
sender's entry covers its store (`StepRoutes`).

**TrySend.**  A channel is numbered by the call of `trySend` that made it.  `MapOK` and
`InformerOK` say that a channel of the latest call, in the map or in the hands of
`InformListeners`, is for the peer that the goroutine sends to; `ClosedOK` that it was
closed only if that peer has the rumour.  `NoDoubleClose` is not inductive: two status
routines could hold the same channel.  They cannot, because a channel is listed under
one peer only (`OnePeer`), and because a closed channel is in the map only until
the same `InformListeners` deletes it (`ClosedEntry`).

**Download.**  A channel belongs to the hash it was made for, and so do the downloads
waiting on it (`ChanOK`).  Every channel of the map has a download that waits on it,
unless the routine has just served it and is about to delete it (`MapWaited`); this is
what the routine finds when it looks the channel up, and since only the routine itself
ends the wait, it still holds when it sends.  For `OrphansShareHash`, call a hash served
when some download has got the data of a piece with it (`Served`), which stays so
(`ServedStays`).  A deletion follows the receipt of such a piece (`DeletesGot`), so a
download that waits for a hash not served yet still has its channel in the map
(`WaitServed`); a download outside the map therefore waits for a hash that was served.

**Ledger.**  `NamesUnique` and `HeadLongest` speak of `PrevHash`, the code works with
forks and stored lengths, so the invariant is that the two agree.  `Attached`: every
block is among the forks of the one it builds on or, if that is missing, of the genesis
block, which has no others; `ForksFollow`: forks build on their block; `Sound`: the
length kept with a block is that of its chain, on which no name is claimed twice.  Blocks
are mined after the ones they build on (`Ranked`), so chains have no cycles.  In the
middle of `checkOrphansAndReinsert` this is not true of the orphans R that still wait
for the new block: `Tree(c, m, R)` leaves out the chains that a block of R is on, and
`Waiting` says that R waits for it.  A round takes one orphan from R.  If it is deleted,
so are exactly the blocks whose chain it is on, since all of them are in its subtree
(`OrphanFacts`), and the other chains stay as they were (`DeleteKeeps`).  If it is
appended, no name in its subtree is claimed, and the names of the chain of the new block
are (`Claims`); so its chains become sound, and `recursiveUpdateLength` reaches all of
them (`AppendKeeps`).  `Whole` says meanwhile that no fork below the new block is
missing, so that the longest of its blocks can be found.  The recursive function behind
the rounds exists by the least argument for which it did not (`RoundsExist`), and
`CheckOrphansFacts` follows by the least number of rounds after which the above were
false.  Then a block is longer than the old head only if the new block is on its chain
(`HeadFacts`); this also shows that `getFirstCommon` stays within its list.  A rejected
block changes only the forks of its parent (`RejectFacts`).  `TxKept` uses that the chain
of the head only grows unless a fork replaces it (`Kept`), and that the gossiper's own
block, on which nothing builds yet, extends the head (`Grows`).  For `NoPanic` the invariant
adds that no fork is missing while no two blocks claim the same name (`NoneDangling`); the
names claimed then belong to blocks with a settled place, so no orphan can conflict with
them (`ReinsertClean`).  Once an orphan is stranded or the program has panicked, nothing
of this is claimed, except that two blocks did claim the same name.

**Forwarding.**  Routes of one instant have no cycle, but a packet sees each table at
another one, so that `LoopFree` does not help.  The proof ranks entries by the time at
which they were learnt: `IInv` says that there is a numbering R of all (gossiper,
sequence number) such that from a gossiper to its next hop, if both have the same
sequence number, R decreases (`Ranks`), and that the entries a packet has passed have
growing sequence numbers or equal ones with decreasing R (`TrailOK`, `NextOK`).  Learning
a route gives the new entry the next number.  A gossiper passed twice with the same
sequence number would have an R below itself.  `DropsAreStale` adds the count of hops
(`HopsOK`) and the pigeonhole principle: a packet out of hops that visited no
gossiper twice visited as many gossipers as there are hops, none of them the
destination.

**Sessions.**  `KeysAgree` depends on the whole handshake: `HandshakeOK` says, for a
negotiation none of whose packets was duplicated, which packets can be in flight
together and where the one responder then stands; `StartsOnce` that a negotiation that has not
begun has left no trace; `KeysExist` that keys are of responders that exist.
`OneNegotiation` rests on `EntryOK`: a negotiation that `getKey` has not given up owns the
entry of `negotiationMap`, and there is one entry.

**CrawlQueue.**  `OneToken` is the reason for `AtMostOnce`: as long as no links of other
gossipers arrive, there is one Done goroutine or the crawler is at work, never both, so
what a goroutine reads is at the pointer and what was handed out is behind it; a crash
only resets the goroutines.  `Unsaved` (nothing is queued before the past map is saved)
gives `PanicLosesNoLinks`.  Without a crash, `HeldBehind` accounts for every entry behind
the pointer or behind the place a goroutine is about to move it to, with any number of
goroutines; `PastPassed` follows the links of the past map from the crawler to
`distributeHyperlinks`, the queue, a goroutine and the crawler again.  That a deletion
removes no page that nobody holds follows from `HeldBehind`, as it is behind the pointer.

**FileSearch.**  Owners of chunks only grow, so a file that was complete when it was
appended stays complete (`SearchesOK`); `RoutineOK` carries the count of files from
`AppendFiles` to `Inform`, although the search may have ended in between.  The bound on
the ring in `TypeOK` needs to know the budgets that doubling can reach (`Budgets`).  A
request on the wire has a positive budget because `forwardSearchRequest` sends only to
as many peers as there is budget for.  `BudgetRespected` is a sum over the bag of
requests: `AddsUnits` shows that the fold behind it counts units, as many per request as
its budget times its copies; adding a request adds its budget, in whatever order
(`AddRequest`); and the shares of `forwardSearchRequest` add up to the budget it divides,
one more for as many peers as the division leaves over (`SharesAddUp`).  A set of peers
for which they did not would have a smallest one (`MinimalSubset`), which stands in for
the induction over finite sets.

**Kademlia.**  `CloserOrders` first shows that "closer to the key" is a strict total
order, from the first bit in which two IDs differ; so every set of nodes has a closest
one, and a network has exactly one.  `StoredAtClosest` is not inductive: it says nothing
of a lookup under way.  `Covered` does: of a node whose answer was taken, the lookup knows
a closer one if there is any.  `InsertArray` forgets nodes that it is told, but it stops
only at a node closer than all it had, so whenever an answer names a closer node,
some closer node is kept (`InsertArrayFacts`).  A lookup ends only when nobody among the
`bucketSize` closest candidates is left to ask; then the closest node it knows was
queried and answered, and by `Covered` nobody is closer to the key (`EndsAtClosest`).
It cannot end by mistake after a round that found a closer node, since that node is still
to be queried.  For `StoredIsFound`, `ReplyOK` says that the closest node returns the value
if there was one before the lookup; its answer ends the lookup, so a lookup that still
goes on has only taken answers of nodes that are not the closest.  Late answers of an
earlier lookup are told apart by its number (`QueryOK`).  The buckets need `RoutineOK`:
while the routine waits for a ping the bucket stays full and without the sender, as no
other goroutine writes it.  A lookup that reads a bucket while it is rotated finds somebody
to ask (`ViewType`).  What the recursive functions behind `alphaClosest` return is shown by
taking the least argument for which no such function exists (`Recursion`).

**Only model-checked.**  Liveness (`CatchesUp`, `LinksCrawled`, `LookupEnds`,
`ReplyRoutineFree`, `SearchEnds`, `DownloadEnds`, `AllAnswered`, `EntryReleased`), which
is out of the prover's reach; and `PruneOutcomes`, that the cases of `PruneInvalidForks`
are what the recursion of the code leaves, as it is about a recursive definition.

## 6. Not modelled

Page rank is floating point and out of TLC's reach; the keyword search that uses it
only reads.  `dhtJoin` and the stores that merge keywords, links and citations are
left out: they are calls of the lookups and stores that `Kademlia` models.  The loop
`receiveExternalUDP`, which hands packets to the goroutines, is in no module; its
handlers are.  The bloom filter is not used by anything that runs.  `-simple` flooding
keeps no state.  Command line, client, web pages and printing are input and output.
`antiEntropy`, `periodicRouteRumor` and `blockchainMiningRoutine` are written but their
start is commented out (gossiper.go:184, 186 and 174): `Gossip` leaves the first out,
`Routes` and `Ledger` show the others as if they ran.  Of the ledger, proof of work, the relay of packets and the time to mine are left
out; of sessions, the cryptography, which is taken as perfect, and clocks that differ.
Protobuf, bbolt, Go channels and UDP are taken by their contracts.
