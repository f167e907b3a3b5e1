----------------------------- MODULE CrawlQueue -----------------------------
(***************************************************************************)
(* The web crawler of one gossiper, its crawl queue in the bolt database   *)
(* and what a crash in between leaves: gossiper/webcrawler.go,             *)
(* webcrawler/webcrawler.go and the queue methods of dht/storage.go.       *)
(*                                                                         *)
(* A Done packet is a token: its goroutine in webCrawlerListenerRoutine    *)
(* deletes the page that was crawled, reads the next one from the queue    *)
(* and hands it to the crawler, which ends every page with a new Done.     *)
(***************************************************************************)
EXTENDS Integers, FiniteSets

CONSTANTS
    Url,         \* the pages
    Root,        \* the page a fresh crawl of the leader starts from
    Links,       \* Links[u]: the hyperlinks on page u this node is responsible for
    External,    \* pages other gossipers may send in a HyperlinkMessage
    None,        \* no page
    LookupHangs, \* TRUE when LookupNodes may lose an answer, and then never returns
    Leader,      \* TRUE for the gossiper started as crawl leader
    MaxTokens,   \* bound: Done goroutines alive at the same time
    MaxQueue,    \* bound: entries ever added to the crawl queue
    MaxCrashes   \* bound: crashes

ASSUME PagesAssumption == /\ Root \in Url /\ External \subseteq Url
                          /\ Links \in [Url -> SUBSET Url] /\ None \notin Url
ASSUME BoundAssumption == {MaxTokens, MaxQueue, MaxCrashes} \subseteq Nat
ASSUME FlagAssumption == {Leader, LookupHangs} \subseteq BOOLEAN

VARIABLES
    queue,      \* bucket crawlQueue: an entry per sequence number, None if deleted
    head,       \* bucket queueIndex: the head pointer
    savedPast,  \* bucket pastMap: {} if never saved, otherwise {the saved map}
    process,    \* "down", "up" or "panicked"
    tokens,     \* the Done goroutines
    packet,     \* loop variable of webCrawlerListenerRoutine: is the latest packet a lookup?
    crawler,    \* where the crawl loop stands, with its page and links
    past,       \* the crawler's map of links it has passed on
    isCrawling, \* the flag receiveExternalUDP reads
    linkJobs,   \* goroutines of distributeHyperlinks, with the links still to be queued
    crashes,    \* number of crashes so far
    handed,     \* history: queue entries handed to the crawler, as a sequence number
    again,      \* history: entries handed to the crawler more than once
    attempted,  \* history: pages the crawler has taken up
    external    \* history: pages received from other gossipers

durable == <<queue, head, savedPast>>
crawlVars == <<crawler, past, isCrawling, linkJobs>>
history == <<crashes, handed, again, attempted, external>>
vars == <<durable, process, tokens, packet, crawlVars, history>>

Index == 0..(MaxQueue - 1)
Entries == DOMAIN queue
NoCrawl == [at |-> "idle", page |-> None, links |-> {}]

\* The goroutine for a Done packet first deletes, if told so, then reads.
DoneToken(id, delete) ==
    [id |-> id, at |-> IF delete THEN "delete" ELSE "read", delete |-> delete,
     index |-> 0, page |-> None]

\* webCrawlerListenerRoutine receives a Done packet and starts its goroutine.
Done(delete) ==
    LET free == (1..MaxTokens) \ {t.id : t \in tokens} IN
    /\ free # {}
    /\ tokens' = tokens \cup {DoneToken(CHOOSE id \in free : TRUE, delete)}
    /\ packet' = "other"

Init ==
    /\ queue = [i \in {} |-> None] /\ head = 0 /\ savedPast = {}
    /\ process = "down"
    /\ tokens = {} /\ packet = "other"
    /\ crawler = NoCrawl /\ past = {} /\ isCrawling = FALSE /\ linkJobs = {}
    /\ crashes = 0 /\ handed = {} /\ again = {} /\ attempted = {} /\ external = {}

-----------------------------------------------------------------------------
(* UpdateCrawlQueue appends under the next sequence number of the bucket.   *)

UpdateCrawlQueue(u) ==
    LET next == Cardinality(Entries) IN
    /\ next < MaxQueue
    /\ queue' = [i \in Entries \cup {next} |-> IF i = next THEN u ELSE queue[i]]

-----------------------------------------------------------------------------
(* Start and crash                                                          *)

\* startCrawler with the head pointer at zero: initiateFreshCrawl.
StartFresh ==
    /\ process = "down" /\ head = 0
    /\ process' = "up"
    /\ past' = {}
    /\ IF Leader THEN UpdateCrawlQueue(Root) /\ Done(FALSE)
                 ELSE UNCHANGED <<queue, tokens, packet>>
    /\ UNCHANGED <<head, savedPast, crawler, isCrawling, linkJobs, history>>

\* initiateAndRestoreCrawl: GetPast panics when no map was ever saved, because
\* nothing can be decoded then.
StartRestore ==
    /\ process = "down" /\ head # 0
    /\ \/ /\ savedPast = {}
          /\ process' = "panicked"
          /\ UNCHANGED <<past, tokens, packet>>
       \/ /\ savedPast # {}
          /\ process' = "up"
          /\ past' \in savedPast
          /\ Done(FALSE)
    /\ UNCHANGED <<durable, crawler, isCrawling, linkJobs, history>>

\* The process dies: the database and what other gossipers store survive.
Crash ==
    /\ process = "up" /\ crashes < MaxCrashes
    /\ process' = "down" /\ crashes' = crashes + 1
    /\ tokens' = {} /\ packet' = "other"
    /\ crawler' = NoCrawl /\ past' = {} /\ isCrawling' = FALSE /\ linkJobs' = {}
    /\ UNCHANGED <<durable, handed, again, attempted, external>>

-----------------------------------------------------------------------------
(* A Done goroutine of webCrawlerListenerRoutine                            *)

Advance(t, next) == tokens' = (tokens \ {t}) \cup next

\* DeleteCrawlQueueHead reads the pointer ...
DeletePointer(t) ==
    /\ t.at = "delete"
    /\ Advance(t, {[t EXCEPT !.at = "erase", !.index = head]})
    /\ UNCHANGED <<durable, process, packet, crawlVars, history>>

\* Mutant of DeleteHead: the entry at the pointer.
DeleteAtHead(t) ==
    /\ t.at = "erase"
    /\ queue' = [i \in Entries |-> IF i = t.index THEN None ELSE queue[i]]
    /\ Advance(t, {[t EXCEPT !.at = "read", !.index = 0]})
    /\ UNCHANGED <<head, savedPast, process, packet, crawlVars, history>>

\* ... and then deletes the entry before it, wherever the pointer is by then.
DeleteHead(t) ==
    /\ t.at = "erase"
    /\ queue' = [i \in Entries |-> IF i = t.index - 1 THEN None ELSE queue[i]]
    /\ Advance(t, {[t EXCEPT !.at = "read", !.index = 0]})
    /\ UNCHANGED <<head, savedPast, process, packet, crawlVars, history>>

\* CrawlQueueHead reads the pointer ...
ReadPointer(t) ==
    /\ t.at = "read"
    /\ Advance(t, {[t EXCEPT !.at = "get", !.index = head]})
    /\ UNCHANGED <<durable, process, packet, crawlVars, history>>

\* Mutants of ReadHead: an empty queue yields an empty page, and a Done packet
\* that meets an empty queue is not sent again.
ReadHeadUnchecked(t) ==
    /\ t.at = "get"
    /\ Advance(t, {[t EXCEPT !.at = "put",
                             !.page = IF t.index \in Entries THEN queue[t.index] ELSE None]})
    /\ UNCHANGED <<durable, process, packet, crawlVars, history>>
ReadHeadGivesUp(t) ==
    /\ t.at = "get"
    /\ Advance(t, IF t.index \in Entries /\ queue[t.index] # None
                  THEN {[t EXCEPT !.at = "put", !.page = queue[t.index]]} ELSE {})
    /\ UNCHANGED <<durable, process, packet, crawlVars, history>>

\* ... then the entry, if there is one ...
ReadHead(t) ==
    /\ t.at = "get"
    /\ Advance(t, {IF t.index \in Entries /\ queue[t.index] # None
                   THEN [t EXCEPT !.at = "put", !.page = queue[t.index]]
                   ELSE [t EXCEPT !.at = "sleep", !.index = 0]})
    /\ UNCHANGED <<durable, process, packet, crawlVars, history>>

\* Without an entry the whole Done packet is sent again two seconds later.
Resend(t) ==
    /\ t.at = "sleep"
    /\ Advance(t, {DoneToken(t.id, t.delete)})
    /\ packet' = "other"
    /\ UNCHANGED <<durable, process, crawlVars, history>>

\* Mutants of PutHead: the pointer is not stored, and the pointer is incremented
\* instead of stored from the value that was read.
PutHeadForgets(t) ==
    /\ t.at = "put"
    /\ handed' = handed \cup {t.index}
    /\ again' = again \cup ({t.index} \cap handed)
    /\ Advance(t, {[t EXCEPT !.at = "offer", !.index = 0]})
    /\ UNCHANGED <<durable, process, packet, crawlVars, crashes, attempted, external>>
PutHeadIncrements(t) ==
    /\ t.at = "put"
    /\ head' = head + 1
    /\ handed' = handed \cup {t.index}
    /\ again' = again \cup ({t.index} \cap handed)
    /\ Advance(t, {[t EXCEPT !.at = "offer", !.index = 0]})
    /\ UNCHANGED <<queue, savedPast, process, packet, crawlVars, crashes, attempted,
                   external>>

\* ... and then moves the pointer: three transactions in all.
PutHead(t) ==
    /\ t.at = "put"
    /\ head' = t.index + 1
    /\ handed' = handed \cup {t.index}
    /\ again' = again \cup ({t.index} \cap handed)
    /\ Advance(t, {[t EXCEPT !.at = "offer", !.index = 0]})
    /\ UNCHANGED <<queue, savedPast, process, packet, crawlVars, crashes, attempted,
                   external>>

\* NextCrawl <- head: the unbuffered channel meets the crawl loop.
NextCrawl(t) ==
    /\ t.at = "offer" /\ crawler.at = "idle"
    /\ crawler' = [at |-> "fetch", page |-> t.page, links |-> {}]
    /\ attempted' = attempted \cup {t.page}
    /\ Advance(t, {})
    /\ UNCHANGED <<durable, process, packet, past, isCrawling, linkJobs,
                   crashes, handed, again, external>>

-----------------------------------------------------------------------------
(* The crawl loop                                                           *)

SendDone == Done(TRUE) /\ crawler' = NoCrawl

\* crawlUrl fails and the page is skipped, or its hash is looked up in the DHT.
Fetch ==
    /\ crawler.at = "fetch"
    /\ isCrawling' = TRUE
    /\ \/ SendDone
       \/ /\ packet' = "lookup"
          /\ crawler' = [crawler EXCEPT !.at = "lookup"]
          /\ UNCHANGED tokens
    /\ UNCHANGED <<durable, process, past, linkJobs, history>>

\* The lookup's goroutine answers on the channel of the latest packet, which is
\* the crawler's own only if nothing else was received since: it captures the
\* loop variable.  Another packet has no channel, and the crawler waits for ever.
LookupMisdirected ==
    /\ crawler.at = "lookup" /\ packet # "lookup"
    /\ crawler' = [crawler EXCEPT !.at = "stuck"]
    /\ UNCHANGED <<durable, process, tokens, packet, past, isCrawling, linkJobs, history>>

\* The hash is found: the page is skipped.
LookupFound ==
    /\ crawler.at = "lookup" /\ packet = "lookup"
    /\ SendDone
    /\ UNCHANGED <<durable, process, past, isCrawling, linkJobs, history>>

\* The hash is not found: outbound links and citations go to the DHT, links not
\* passed on before are kept and entered in the map of past links.
FilterLinks ==
    /\ crawler.at = "lookup" /\ packet = "lookup"
    /\ packet' = "other"
    /\ crawler' = [crawler EXCEPT !.at = "save", !.links = Links[crawler.page] \ past]
    /\ past' = past \cup Links[crawler.page]
    /\ UNCHANGED <<durable, process, tokens, isCrawling, linkJobs, history>>

\* Mutant of SavePast: nothing is written.
SavePastForgets ==
    /\ crawler.at = "save"
    /\ packet' = "other"
    /\ crawler' = [crawler EXCEPT !.at = "links"]
    /\ UNCHANGED <<durable, process, tokens, past, isCrawling, linkJobs, history>>

\* The PastMapPackage: SavePast.  (Encoding a map of strings into a buffer cannot fail.)
SavePast ==
    /\ crawler.at = "save"
    /\ savedPast' = {past}
    /\ packet' = "other"
    /\ crawler' = [crawler EXCEPT !.at = "links"]
    /\ UNCHANGED <<queue, head, process, tokens, past, isCrawling, linkJobs, history>>

\* The HyperlinkPackage: distributeHyperlinks gets a goroutine.
SendLinks ==
    /\ crawler.at = "links"
    /\ linkJobs' = linkJobs \cup {[at |-> "lookup", links |-> crawler.links]}
    /\ packet' = "other"
    /\ crawler' = [crawler EXCEPT !.at = "index", !.links = {}]
    /\ UNCHANGED <<durable, process, tokens, past, isCrawling, history>>

\* The page hash, the words to be indexed, and Done.
SendIndex ==
    /\ crawler.at = "index"
    /\ SendDone
    /\ UNCHANGED <<durable, process, past, isCrawling, linkJobs, history>>

-----------------------------------------------------------------------------
(* distributeHyperlinks, and other gossipers                                *)

\* distributeHyperlinks first looks up the owner of every link.  LookupNodes returns at
\* least this gossiper, so there is never a retry; but it hangs on one lost answer.
LookupOwners(job) ==
    /\ job.at = "lookup"
    /\ \E at \in {"queue"} \cup (IF LookupHangs THEN {"hung"} ELSE {}) :
            linkJobs' = (linkJobs \ {job}) \cup {[job EXCEPT !.at = at]}
    /\ UNCHANGED <<durable, process, tokens, packet, crawler, past, isCrawling, history>>

\* The links this gossiper is responsible for are then queued one by one.
DistributeLink(job) ==
    /\ job.at = "queue"
    /\ \/ \E u \in job.links :
            /\ UpdateCrawlQueue(u)
            /\ linkJobs' = (linkJobs \ {job}) \cup {[job EXCEPT !.links = @ \ {u}]}
       \/ /\ job.links = {}
          /\ linkJobs' = linkJobs \ {job}
          /\ UNCHANGED queue
    /\ UNCHANGED <<head, savedPast, process, tokens, packet, crawler, past, isCrawling, history>>

\* receiveExternalUDP: a HyperlinkMessage; a Done packet starts the crawl when
\* the crawler has not crawled anything yet.
ReceiveHyperlink(u) ==
    /\ process = "up" /\ u \notin external
    /\ UpdateCrawlQueue(u)
    /\ external' = external \cup {u}
    /\ \/ isCrawling /\ UNCHANGED <<tokens, packet>>
       \/ ~ isCrawling /\ Done(FALSE)
    /\ UNCHANGED <<head, savedPast, process, crawlVars, crashes, handed, again, attempted>>

-----------------------------------------------------------------------------
Crawling == \/ Fetch \/ LookupMisdirected \/ LookupFound \/ FilterLinks
            \/ SavePast \/ SendLinks \/ SendIndex
Token(t) == \/ DeletePointer(t) \/ DeleteHead(t)
            \/ ReadPointer(t) \/ ReadHead(t) \/ Resend(t) \/ PutHead(t) \/ NextCrawl(t)
Distribute(job) == LookupOwners(job) \/ DistributeLink(job)

Next ==
    \/ StartFresh \/ StartRestore \/ Crash
    \/ Crawling
    \/ \E t \in tokens : Token(t)
    \/ \E job \in linkJobs : Distribute(job)
    \/ \E u \in External : ReceiveHyperlink(u)

Spec == Init /\ [][Next]_vars

\* Goroutines that can run do run; pages may always fail to load, and a lookup that
\* lost an answer never goes on.
Fairness ==
    /\ WF_vars(StartFresh) /\ WF_vars(Crawling)
    /\ WF_vars(\E t \in tokens : Token(t))
    /\ WF_vars(\E job \in linkJobs : Distribute(job))

FairSpec == Spec /\ Fairness

-----------------------------------------------------------------------------
(* Properties                                                               *)

\* Type correctness; in particular a Done goroutine that moves the pointer or
\* offers a page has a page (CrawlQueueHead never returns an empty entry).
TypeOK ==
    /\ Entries \subseteq Index /\ \A i \in Entries : queue[i] \in Url \cup {None}
    /\ head \in 0..MaxQueue
    /\ savedPast \subseteq SUBSET Url
    /\ process \in {"down", "up", "panicked"}
    /\ tokens \subseteq [id : 1..MaxTokens, at : {"delete", "erase", "read", "get", "sleep", "put", "offer"},
                         delete : BOOLEAN, index : 0..MaxQueue, page : Url \cup {None}]
    /\ \A t \in tokens : t.at \in {"put", "offer"} => t.page \in Url
    /\ packet \in {"lookup", "other"}
    /\ crawler \in [at : {"idle", "fetch", "lookup", "stuck", "save", "links", "index"},
                    page : Url \cup {None}, links : SUBSET Url]
    /\ past \subseteq Url /\ isCrawling \in BOOLEAN
    /\ linkJobs \subseteq [at : {"lookup", "queue", "hung"}, links : SUBSET Url]
    /\ crashes \in 0..MaxCrashes /\ handed \subseteq Index /\ again \subseteq handed
    /\ attempted \subseteq Url /\ external \subseteq External

\* CrawlQueueHead moves the pointer before the page is crawled: no entry of the
\* queue is handed out twice, whenever the process crashes, unless another
\* gossiper's hyperlinks started a second Done goroutine.
AtMostOnce == external = {} => again = {}

\* While the process does not crash, a page that was queued stays accounted for:
\* it is ahead of the pointer, in the hands of a Done goroutine, or was taken up
\* by the crawler, even when two Done goroutines move the pointer.
NoPageLost ==
    crashes = 0 =>
        \A i \in Entries : queue[i] # None =>
            \/ i >= head
            \/ queue[i] \in attempted
            \/ \E t \in tokens : t.at \in {"put", "offer"} /\ t.page = queue[i]

\* A database that cannot be restored holds no link that was found by crawling: the
\* past map is saved before the first of a page's links is queued.  What a start that
\* panics in GetPast loses is the first page and what other gossipers sent.
PanicLosesNoLinks ==
    process = "panicked" => \A i \in Entries : queue[i] \in {Root, None} \cup external

\* Link u was taken up by the crawler, or somebody holds it: the queue, a Done goroutine,
\* the crawler or distributeHyperlinks (for ever, if its lookup hangs).
Pending(u) ==
    \/ u \in attempted \cup crawler.links
    \/ \E i \in Entries : i >= head /\ queue[i] = u
    \/ \E t \in tokens : t.at \in {"put", "offer"} /\ t.page = u
    \/ \E job \in linkJobs : u \in job.links

\* A link the saved map calls passed on is not forgotten while the process does not
\* crash: it is on its way to the queue, in it or taken up.  The map is saved before the
\* links are queued, and DeleteCrawlQueueHead deletes "the entry before the head pointer"
\* it read, which with two Done goroutines need not be the page that was crawled.
PastAccounted == crashes = 0 => \A map \in savedPast : \A u \in map : Pending(u)

\* A crash, a Done goroutine started by another gossiper's links, or a lookup that lost
\* an answer and keeps its links for ever.
Disturbed == crashes > 0 \/ external # {} \/ \E job \in linkJobs : job.at = "hung"

\* Undisturbed, every link kept from a page is taken up by the crawler in the end: the
\* Done packet comes back until distributeHyperlinks has queued something.
LinksCrawled ==
    \A u \in Url :
        (crawler.at = "save" /\ u \in crawler.links) ~> (u \in attempted \/ Disturbed)
=============================================================================
