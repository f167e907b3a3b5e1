-------------------------- MODULE CrawlQueueProofs --------------------------
(***************************************************************************)
(* The crawl queue hands out no entry twice while one Done goroutine is    *)
(* alive, and without a crash it forgets no page and no link, for any      *)
(* pages, links and numbers of goroutines, entries and crashes.            *)
(***************************************************************************)
EXTENDS CrawlQueue, FiniteSetTheorems, TLAPS

-----------------------------------------------------------------------------
(* The inductive invariant                                                  *)

DoneGoroutine ==
    [id : 1..MaxTokens, at : {"delete", "erase", "read", "get", "sleep", "put", "offer"},
     delete : BOOLEAN, index : 0..MaxQueue, page : Url \cup {None}]

\* Goroutine t has read the pointer and not used it yet.
HasPointer(t) == t.at \in {"erase", "get", "put"}

\* The entries have the sequence numbers up to the last one, and neither the head pointer
\* nor what a goroutine has read of it is beyond the next one.
Segment ==
    \E n \in 0..MaxQueue : /\ Entries = 0..(n - 1) /\ head <= n
                           /\ \A t \in tokens : HasPointer(t) => t.index <= n

\* A Done goroutine that is to move the pointer read its page from the entry at its
\* index, which can only have been deleted since.
TokensRead ==
    \A t \in tokens : t.at = "put" =>
        t.index \in Entries /\ queue[t.index] \in {t.page, None}

\* A process that is not up has no goroutines; a start panics only without a past map,
\* and before the first crash there is nothing to restore.
ProcessOK ==
    /\ process # "up" => tokens = {} /\ crawler = NoCrawl /\ linkJobs = {}
    /\ process = "panicked" => savedPast = {}
    /\ process = "down" /\ crashes = 0 => head = 0 /\ savedPast = {}

\* The crawler has links only between the filter and the end of a page.
CrawlerOK ==
    /\ crawler.at # "idle" => crawler.page \in Url
    /\ crawler.at \in {"idle", "fetch", "lookup", "stuck", "index"} => crawler.links = {}

\* Without links of other gossipers there is one Done goroutine, or the crawler is at
\* work: what was handed out is behind the pointer, and what is read is at the pointer.
OneToken ==
    external = {} =>
        /\ again = {}
        /\ \A s, t \in tokens : s = t
        /\ crawler.at # "idle" => tokens = {}
        /\ \A i \in handed : i < head
        /\ \A t \in tokens : t.at \in {"get", "put"} => t.index = head

\* No link is queued before the past map is saved.
Unsaved ==
    savedPast = {} =>
        /\ linkJobs = {} /\ crawler.at \notin {"links", "index"}
        /\ \A i \in Entries : queue[i] \in {Root, None} \cup external

\* Page u was taken up by the crawler or is in the hands of a Done goroutine.
Held(u) ==
    \/ u \in attempted
    \/ \E t \in tokens : t.at \in {"put", "offer"} /\ t.page = u

\* The entries behind the pointer, and behind the pointer as a goroutine has read it,
\* which may be another one by now.
HeldBehind ==
    crashes = 0 =>
        \A i \in Entries, u \in Url :
            queue[i] = u /\ (i < head \/ \E t \in tokens : HasPointer(t) /\ i < t.index) => Held(u)

\* Link u is held, in the queue ahead of the pointer, or on its way to the queue.
Passed(u) ==
    \/ Held(u)
    \/ \E i \in Entries : i >= head /\ queue[i] = u
    \/ \E job \in linkJobs : u \in job.links

\* The links of the past map, saved or not.
PastPassed ==
    crashes = 0 =>
        /\ \A map \in savedPast : map \subseteq past
        /\ \A u \in past : u \in crawler.links \/ Passed(u)

IInv ==
    /\ TypeOK /\ Segment /\ TokensRead /\ ProcessOK /\ CrawlerOK
    /\ OneToken /\ Unsaved /\ HeldBehind /\ PastPassed

-----------------------------------------------------------------------------
(* What the shared steps do                                                 *)

\* A Done packet gets one goroutine, which has no page yet.
LEMMA DoneFacts ==
    ASSUME TypeOK, NEW delete \in BOOLEAN, Done(delete)
    PROVE  \E d \in DoneGoroutine :
               d.at \in {"delete", "read"} /\ tokens' = tokens \cup {d} /\ packet' = "other"
<1> DEFINE free == (1..MaxTokens) \ {t.id : t \in tokens}
           id == CHOOSE i \in free : TRUE
<1>1. id \in 1..MaxTokens
  BY DEF Done
<1>2. /\ DoneToken(id, delete) \in DoneGoroutine /\ DoneToken(id, delete).at \in {"delete", "read"}
  BY <1>1, BoundAssumption DEF DoneToken, DoneGoroutine
<1>3. tokens' = tokens \cup {DoneToken(id, delete)} /\ packet' = "other"
  BY DEF Done
<1> QED  BY <1>2, <1>3

\* The sequence number of a new entry is the number of entries so far.
LEMMA EnqueueFacts ==
    ASSUME TypeOK, Segment, NEW u \in Url, UpdateCrawlQueue(u)
    PROVE  \E n \in Index : /\ Entries = 0..(n - 1) /\ head <= n
                            /\ \A t \in tokens : HasPointer(t) => t.index <= n
                            /\ DOMAIN queue' = 0..n /\ queue'[n] = u
                            /\ \A i \in Entries : queue'[i] = queue[i]
<1>1. PICK n \in 0..MaxQueue : /\ Entries = 0..(n - 1) /\ head <= n
                              /\ \A t \in tokens : HasPointer(t) => t.index <= n
  BY DEF Segment
<1>2. Cardinality(Entries) = n
  <2>1. n \in Nat /\ 0 \in Int /\ n - 1 \in Int
    BY <1>1, BoundAssumption
  <2>2. Cardinality(0..(n - 1)) = IF 0 > n - 1 THEN 0 ELSE (n - 1) - 0 + 1
    BY <2>1, FS_Interval
  <2> QED  BY <1>1, <2>1, <2>2
<1>3. n \in Index
  BY <1>1, <1>2, BoundAssumption DEF UpdateCrawlQueue, Index
<1>4. queue' = [i \in 0..n |-> IF i = n THEN u ELSE queue[i]]
  <2>1. queue' = [i \in Entries \cup {n} |-> IF i = n THEN u ELSE queue[i]]
    BY <1>2 DEF UpdateCrawlQueue
  <2>2. Entries \cup {n} = 0..n
    BY <1>1, BoundAssumption
  <2> QED  BY <2>1, <2>2
<1>5. /\ DOMAIN queue' = 0..n /\ queue'[n] = u
      /\ \A i \in Entries : queue'[i] = queue[i]
  BY <1>1, <1>4, BoundAssumption
<1> QED  BY <1>1, <1>3, <1>5

-----------------------------------------------------------------------------
(* Start and crash                                                          *)

\* A fresh start: there are no goroutines, and before the first crash no past map.
LEMMA StartFreshPreserves ==
    ASSUME IInv, StartFresh
    PROVE  IInv'
<1>1. /\ process = "down" /\ head = 0 /\ process' = "up" /\ past' = {}
      /\ tokens = {} /\ crawler = NoCrawl /\ linkJobs = {}
      /\ UNCHANGED <<head, savedPast, crawler, isCrawling, linkJobs, crashes, handed, again,
                     attempted, external>>
  BY DEF IInv, ProcessOK, StartFresh, history
<1>2. /\ tokens' \subseteq {t \in DoneGoroutine : t.at \in {"delete", "read"}}
      /\ \A s, t \in tokens' : s = t
      /\ packet' \in {packet, "other"}
  <2>1. CASE Leader
    <3>1. PICK d \in DoneGoroutine :
              d.at \in {"delete", "read"} /\ tokens' = tokens \cup {d} /\ packet' = "other"
      BY <2>1, DoneFacts DEF StartFresh, IInv
    <3> QED  BY <1>1, <3>1
  <2>2. CASE ~ Leader
    BY <1>1, <2>2 DEF StartFresh
  <2> QED  BY <2>1, <2>2
<1>3. \E n \in 0..MaxQueue : /\ DOMAIN queue' = 0..(n - 1) /\ head <= n
                             /\ \A i \in DOMAIN queue' : queue'[i] = Root \/ (i \in Entries /\ queue'[i] = queue[i])
  <2>1. CASE Leader
    <3>1. PICK n \in Index : /\ Entries = 0..(n - 1) /\ head <= n
                             /\ DOMAIN queue' = 0..n /\ queue'[n] = Root
                             /\ \A i \in Entries : queue'[i] = queue[i]
      BY <2>1, EnqueueFacts, PagesAssumption DEF StartFresh, IInv
    <3>2. n + 1 \in 0..MaxQueue /\ n = (n + 1) - 1
      BY BoundAssumption DEF Index
    <3>3. \A i \in 0..n : i = n \/ i \in Entries
      BY <3>1, BoundAssumption DEF Index
    <3>4. head <= n + 1
      BY <1>1, <3>2, BoundAssumption
    <3> QED  BY <3>1, <3>2, <3>3, <3>4
  <2>2. CASE ~ Leader
    BY <1>1, <2>2 DEF StartFresh, IInv, Segment, Entries
  <2> QED  BY <2>1, <2>2
<1>4. TypeOK'
  <2>1. /\ DOMAIN queue' \subseteq Index /\ \A i \in DOMAIN queue' : queue'[i] \in Url \cup {None}
    BY <1>3, PagesAssumption, BoundAssumption DEF IInv, TypeOK, Index, Entries
  <2> QED  BY <1>1, <1>2, <2>1 DEF IInv, TypeOK, Entries, DoneGoroutine
<1>5. Segment' /\ TokensRead' /\ ProcessOK' /\ CrawlerOK'
  BY <1>1, <1>2, <1>3 DEF IInv, Segment, HasPointer, TokensRead, ProcessOK, CrawlerOK, Entries
<1>6. OneToken'
  BY <1>1, <1>2 DEF IInv, OneToken, NoCrawl
<1>7. Unsaved'
  BY <1>1, <1>3 DEF IInv, Unsaved, Entries
<1>8. HeldBehind'
  <2>1. \A i \in DOMAIN queue' : ~ (i < 0)
    BY <1>3
  <2> QED  BY <1>1, <1>2, <2>1 DEF HeldBehind, HasPointer, Entries
<1>9. PastPassed'
  BY <1>1 DEF IInv, ProcessOK, PastPassed, NoCrawl
<1> QED  BY <1>4, <1>5, <1>6, <1>7, <1>8, <1>9 DEF IInv

\* A restart after a crash, with the saved past map or a panic.
LEMMA StartRestorePreserves ==
    ASSUME IInv, StartRestore
    PROVE  IInv'
<1>1. /\ process = "down" /\ head # 0 /\ crashes # 0
      /\ tokens = {} /\ crawler = NoCrawl /\ linkJobs = {}
      /\ UNCHANGED <<queue, head, savedPast, crawler, isCrawling, linkJobs, crashes, handed, again,
                     attempted, external>>
  BY DEF IInv, ProcessOK, StartRestore, durable, history
<1>2. /\ process' = "up" \/ (process' = "panicked" /\ savedPast = {} /\ tokens' = {})
      /\ past' \subseteq Url
      /\ tokens' \subseteq {t \in DoneGoroutine : t.at \in {"delete", "read"}}
      /\ \A s, t \in tokens' : s = t
      /\ packet' \in {packet, "other"}
  <2>1. CASE savedPast = {}
    BY <1>1, <2>1 DEF StartRestore, IInv, TypeOK
  <2>2. CASE savedPast # {}
    <3>1. PICK d \in DoneGoroutine :
              d.at \in {"delete", "read"} /\ tokens' = tokens \cup {d} /\ packet' = "other"
      BY <2>2, DoneFacts DEF StartRestore, IInv
    <3> QED  BY <1>1, <2>2, <3>1 DEF StartRestore, IInv, TypeOK
  <2> QED  BY <2>1, <2>2
<1>3. TypeOK'
  BY <1>1, <1>2 DEF IInv, TypeOK, Entries, DoneGoroutine
<1>4. Segment' /\ TokensRead' /\ ProcessOK' /\ CrawlerOK'
  BY <1>1, <1>2 DEF IInv, Segment, HasPointer, TokensRead, ProcessOK, CrawlerOK, Entries
<1>5. OneToken'
  BY <1>1, <1>2 DEF IInv, OneToken, NoCrawl
<1>6. Unsaved'
  BY <1>1 DEF IInv, Unsaved, Entries
<1>7. HeldBehind' /\ PastPassed'
  BY <1>1 DEF HeldBehind, PastPassed
<1> QED  BY <1>3, <1>4, <1>5, <1>6, <1>7 DEF IInv

\* A crash leaves the database, and ends what is said of a crawl without one.
LEMMA CrashPreserves ==
    ASSUME IInv, Crash
    PROVE  IInv'
<1>1. /\ process' = "down" /\ crashes' = crashes + 1 /\ crashes' \in 1..MaxCrashes
      /\ tokens' = {} /\ packet' = "other" /\ crawler' = NoCrawl /\ past' = {}
      /\ isCrawling' = FALSE /\ linkJobs' = {}
      /\ UNCHANGED <<queue, head, savedPast, handed, again, attempted, external>>
  BY BoundAssumption DEF Crash, durable, IInv, TypeOK
<1>2. TypeOK'
  <2>1. crawler' \in [at : {"idle", "fetch", "lookup", "stuck", "save", "links", "index"},
                       page : Url \cup {None}, links : SUBSET Url]
    BY <1>1 DEF NoCrawl
  <2>2. crashes' \in 0..MaxCrashes
    BY <1>1, BoundAssumption
  <2> QED  BY <1>1, <2>1, <2>2 DEF IInv, TypeOK, Entries
<1>3. Segment' /\ TokensRead' /\ ProcessOK' /\ CrawlerOK'
  BY <1>1 DEF IInv, Segment, HasPointer, TokensRead, ProcessOK, CrawlerOK, Entries, NoCrawl
<1>4. OneToken' /\ Unsaved'
  BY <1>1 DEF IInv, OneToken, Unsaved, NoCrawl, Entries
<1>5. HeldBehind' /\ PastPassed'
  BY <1>1 DEF HeldBehind, PastPassed
<1> QED  BY <1>2, <1>3, <1>4, <1>5 DEF IInv

-----------------------------------------------------------------------------
(* The Done goroutines                                                      *)

LEMMA TokenType ==
    ASSUME IInv, NEW t \in tokens
    PROVE  t \in DoneGoroutine /\ head \in 0..MaxQueue /\ 0 \in 0..MaxQueue
  BY BoundAssumption DEF IInv, TypeOK, DoneGoroutine

\* A goroutine without a page goes on: it may have read the head pointer, or the page at
\* the pointer it read before, or deleted an entry behind that pointer.
LEMMA TokenGoesOn ==
    ASSUME IInv, NEW t \in tokens, t.at \in {"delete", "erase", "read", "get", "sleep"},
           NEW s \in DoneGoroutine, tokens' = (tokens \ {t}) \cup {s},
           \/ s.at \in {"delete", "read", "sleep"}
           \/ s.at \in {"erase", "get"} /\ s.index = head
           \/ /\ t.at = "get" /\ s.at = "put" /\ s.index = t.index /\ s.page \in Url
              /\ t.index \in Entries /\ queue'[t.index] = s.page,
           DOMAIN queue' = DOMAIN queue,
           \A i \in Entries : \/ queue'[i] = queue[i]
                              \/ queue'[i] = None /\ t.at = "erase" /\ i < t.index,
           packet' \in {packet, "other"},
           UNCHANGED <<head, savedPast, process, crawler, past, isCrawling, linkJobs, crashes,
                       handed, again, attempted, external>>
    PROVE  IInv'
<1>1. TypeOK'
  BY DEF IInv, TypeOK, Entries, DoneGoroutine
<1>2. Segment' /\ ProcessOK' /\ CrawlerOK'
  <2>1. PICK n \in 0..MaxQueue : /\ Entries = 0..(n - 1) /\ head <= n
                                /\ \A g \in tokens : HasPointer(g) => g.index <= n
    BY DEF IInv, Segment
  <2>2. \A g \in tokens' : HasPointer(g) => g.index <= n
    BY <2>1 DEF HasPointer
  <2> QED  BY <2>1, <2>2 DEF IInv, Segment, HasPointer, ProcessOK, CrawlerOK, Entries
<1>3. TokensRead'
  BY DEF IInv, TokensRead, Entries
<1>4. OneToken'
  BY DEF IInv, OneToken
<1>5. Unsaved'
  BY DEF IInv, Unsaved, Entries
<1>6. \A u \in Url : Held(u) => Held(u)'
  BY DEF Held
<1>7. HeldBehind'
  <2>1. \A g \in tokens' : HasPointer(g) =>
            g.index = head \/ \E h \in tokens : HasPointer(h) /\ h.index = g.index
    BY DEF HasPointer
  <2>2. \A i \in Entries, u \in Url : queue'[i] = u => queue[i] = u
    BY PagesAssumption
  <2>3. SUFFICES ASSUME crashes = 0, NEW i \in Entries, NEW u \in Url, queue'[i] = u,
                        i < head \/ \E g \in tokens' : HasPointer(g) /\ i < g.index
                 PROVE  Held(u)'
    BY DEF HeldBehind, Entries, HasPointer
  <2>4. i < head \/ \E h \in tokens : HasPointer(h) /\ i < h.index
    BY <2>1, <2>3
  <2>5. Held(u)
    BY <2>2, <2>3, <2>4 DEF IInv, HeldBehind
  <2> QED  BY <1>6, <2>5
<1>8. ASSUME crashes = 0  PROVE \A u \in Url : Passed(u) => Passed(u)'
  <2>1. ASSUME NEW u \in Url, NEW i \in Entries, i >= head, queue[i] = u
        PROVE  Passed(u)'
    <3>1. CASE queue'[i] = queue[i]
      BY <2>1, <3>1 DEF Passed, Entries
    <3>2. CASE t.at = "erase" /\ i < t.index
      <4>1. Held(u)
        BY <1>8, <2>1, <3>2 DEF IInv, HeldBehind, HasPointer
      <4> QED  BY <1>6, <4>1 DEF Passed
    <3> QED  BY <3>1, <3>2
  <2> QED  BY <1>6, <2>1 DEF Passed
<1>9. PastPassed'
  BY <1>8 DEF IInv, TypeOK, PastPassed
<1> QED  BY <1>1, <1>2, <1>3, <1>4, <1>5, <1>7, <1>9 DEF IInv

\* The pointer is read, to delete the entry before it.
LEMMA DeletePointerPreserves ==
    ASSUME IInv, NEW t \in tokens, DeletePointer(t)
    PROVE  IInv'
<1> DEFINE s == [t EXCEPT !.at = "erase", !.index = head]
<1>1. /\ t.at = "delete" /\ tokens' = (tokens \ {t}) \cup {s}
      /\ UNCHANGED <<queue, head, savedPast, process, packet, crawler, past, isCrawling, linkJobs,
                     crashes, handed, again, attempted, external>>
  BY DEF DeletePointer, Advance, durable, crawlVars, history
<1>2. s \in DoneGoroutine /\ s.at = "erase" /\ s.index = head
  BY TokenType DEF DoneGoroutine
<1> QED  BY <1>1, <1>2, TokenGoesOn

\* The entry before the pointer that was read is deleted.
LEMMA DeleteHeadPreserves ==
    ASSUME IInv, NEW t \in tokens, DeleteHead(t)
    PROVE  IInv'
<1> DEFINE s == [t EXCEPT !.at = "read", !.index = 0]
<1>1. /\ t.at = "erase" /\ tokens' = (tokens \ {t}) \cup {s} /\ packet' = packet
      /\ queue' = [i \in Entries |-> IF i = t.index - 1 THEN None ELSE queue[i]]
      /\ UNCHANGED <<head, savedPast, process, crawler, past, isCrawling, linkJobs, crashes,
                     handed, again, attempted, external>>
  BY DEF DeleteHead, Advance, crawlVars, history
<1>2. s \in DoneGoroutine /\ s.at = "read" /\ t.index \in 0..MaxQueue
  BY TokenType DEF DoneGoroutine
<1>3. /\ DOMAIN queue' = DOMAIN queue
      /\ \A i \in Entries : queue'[i] = queue[i] \/ (queue'[i] = None /\ i < t.index)
  BY <1>1, <1>2, BoundAssumption DEF IInv, TypeOK, Index, Entries
<1> QED  BY <1>1, <1>2, <1>3, TokenGoesOn

\* The pointer is read, to crawl the entry at it.
LEMMA ReadPointerPreserves ==
    ASSUME IInv, NEW t \in tokens, ReadPointer(t)
    PROVE  IInv'
<1> DEFINE s == [t EXCEPT !.at = "get", !.index = head]
<1>1. /\ t.at = "read" /\ tokens' = (tokens \ {t}) \cup {s}
      /\ UNCHANGED <<queue, head, savedPast, process, packet, crawler, past, isCrawling, linkJobs,
                     crashes, handed, again, attempted, external>>
  BY DEF ReadPointer, Advance, durable, crawlVars, history
<1>2. s \in DoneGoroutine /\ s.at = "get" /\ s.index = head
  BY TokenType DEF DoneGoroutine
<1> QED  BY <1>1, <1>2, TokenGoesOn

\* The entry at the pointer that was read is taken, or there is none.
LEMMA ReadHeadPreserves ==
    ASSUME IInv, NEW t \in tokens, ReadHead(t)
    PROVE  IInv'
<1>1. /\ t.at = "get"
      /\ UNCHANGED <<queue, head, savedPast, process, packet, crawler, past, isCrawling, linkJobs,
                     crashes, handed, again, attempted, external>>
  BY DEF ReadHead, durable, crawlVars, history
<1>2. CASE t.index \in Entries /\ queue[t.index] # None
  <2> DEFINE s == [t EXCEPT !.at = "put", !.page = queue[t.index]]
  <2>1. tokens' = (tokens \ {t}) \cup {s}
    BY <1>2 DEF ReadHead, Advance
  <2>2. queue[t.index] \in Url
    BY <1>2 DEF IInv, TypeOK
  <2>3. s \in DoneGoroutine /\ s.at = "put" /\ s.index = t.index /\ s.page = queue[t.index]
    BY <2>2 DEF IInv, TypeOK, DoneGoroutine
  <2> QED  BY <1>1, <1>2, <2>1, <2>2, <2>3, TokenGoesOn
<1>3. CASE ~ (t.index \in Entries /\ queue[t.index] # None)
  <2> DEFINE s == [t EXCEPT !.at = "sleep", !.index = 0]
  <2>1. tokens' = (tokens \ {t}) \cup {s}
    BY <1>3 DEF ReadHead, Advance
  <2>2. s \in DoneGoroutine /\ s.at = "sleep"
    BY TokenType DEF DoneGoroutine
  <2> QED  BY <1>1, <2>1, <2>2, TokenGoesOn
<1> QED  BY <1>2, <1>3

\* The Done packet is sent again.
LEMMA ResendPreserves ==
    ASSUME IInv, NEW t \in tokens, Resend(t)
    PROVE  IInv'
<1> DEFINE s == DoneToken(t.id, t.delete)
<1>1. /\ t.at = "sleep" /\ tokens' = (tokens \ {t}) \cup {s} /\ packet' = "other"
      /\ UNCHANGED <<queue, head, savedPast, process, crawler, past, isCrawling, linkJobs, crashes,
                     handed, again, attempted, external>>
  BY DEF Resend, Advance, durable, crawlVars, history
<1>2. s \in DoneGoroutine /\ s.at \in {"delete", "read"}
  BY BoundAssumption DEF IInv, TypeOK, DoneToken, DoneGoroutine
<1> QED  BY <1>1, <1>2, TokenGoesOn

\* The pointer moves behind the entry that was read, perhaps back: the entries it passes
\* over are all held.
LEMMA PutHeadPreserves ==
    ASSUME IInv, NEW t \in tokens, PutHead(t)
    PROVE  IInv'
<1> DEFINE s == [t EXCEPT !.at = "offer", !.index = 0]
<1>1. /\ t.at = "put" /\ tokens' = (tokens \ {t}) \cup {s}
      /\ head' = t.index + 1 /\ handed' = handed \cup {t.index}
      /\ again' = again \cup ({t.index} \cap handed)
      /\ UNCHANGED <<queue, savedPast, process, packet, crawler, past, isCrawling, linkJobs,
                     crashes, attempted, external>>
  BY DEF PutHead, Advance, crawlVars
<1>2. /\ t \in DoneGoroutine /\ s \in DoneGoroutine /\ s.at = "offer"
      /\ s.page = t.page /\ t.page \in Url
      /\ t.index \in Entries /\ t.index \in Index /\ queue[t.index] \in {t.page, None}
  <2>1. t \in DoneGoroutine
    BY DEF IInv, TypeOK, DoneGoroutine
  <2>2. t.page \in Url /\ t.index \in Entries /\ t.index \in Index /\ queue[t.index] \in {t.page, None}
    BY <1>1 DEF IInv, TypeOK, TokensRead
  <2> QED  BY <2>1, <2>2, TokenType DEF DoneGoroutine
<1> HIDE DEF s
<1>3. /\ head' \in 0..MaxQueue /\ \A i \in Index : i < head' <=> i < t.index \/ i = t.index
  BY <1>1, <1>2, BoundAssumption DEF Index
<1>4. TypeOK'
  BY <1>1, <1>2, <1>3 DEF IInv, TypeOK, Entries, DoneGoroutine
<1>5. Segment'
  <2>1. PICK n \in 0..MaxQueue : /\ Entries = 0..(n - 1)
                                /\ \A g \in tokens : HasPointer(g) => g.index <= n
    BY DEF IInv, Segment
  <2>2. head' <= n
    BY <1>1, <1>2, <2>1, BoundAssumption
  <2>3. \A g \in tokens' : HasPointer(g) => g.index <= n
    BY <1>1, <1>2, <2>1 DEF HasPointer
  <2> QED  BY <1>1, <2>1, <2>2, <2>3 DEF Segment, HasPointer, Entries
<1>6. TokensRead' /\ ProcessOK' /\ CrawlerOK'
  BY <1>1, <1>2 DEF IInv, TokensRead, ProcessOK, CrawlerOK, Entries
<1>7. OneToken'
  <2>1. ASSUME external = {}
        PROVE  /\ again' = {} /\ tokens' = {s}
               /\ \A i \in handed' : i < head'
    <3>1. /\ again = {} /\ tokens = {t} /\ t.index = head /\ \A i \in handed : i < head
      BY <1>1, <2>1 DEF IInv, OneToken
    <3>2. handed \subseteq Index /\ head \in Index
      BY <1>2, <3>1 DEF IInv, TypeOK
    <3> QED  BY <1>1, <1>3, <3>1, <3>2, BoundAssumption DEF Index
  <2> QED  BY <1>1, <1>2, <2>1 DEF IInv, OneToken
<1>8. Unsaved'
  BY <1>1 DEF IInv, Unsaved, Entries
<1>9. \A u \in Url : Held(u) => Held(u)'
  BY <1>1, <1>2 DEF Held
<1>10. \A i \in Entries, u \in Url : crashes = 0 /\ queue[i] = u /\ i < head' => Held(u)'
  <2>1. SUFFICES ASSUME NEW i \in Entries, NEW u \in Url, crashes = 0, queue[i] = u, i < head'
                 PROVE  Held(u)'
    OBVIOUS
  <2>2. i < t.index \/ i = t.index
    BY <1>3, <2>1 DEF IInv, TypeOK
  <2>3. CASE i < t.index
    BY <1>1, <1>9, <2>1, <2>3 DEF IInv, HeldBehind, HasPointer
  <2>4. CASE i = t.index
    <3>1. u = s.page
      BY <1>2, <2>1, <2>4, PagesAssumption
    <3> QED  BY <1>1, <1>2, <3>1 DEF Held
  <2> QED  BY <2>2, <2>3, <2>4
<1>11. HeldBehind'
  BY <1>1, <1>2, <1>9, <1>10 DEF IInv, HeldBehind, HasPointer, Entries
<1>12. ASSUME crashes = 0  PROVE \A u \in Url : Passed(u) => Passed(u)'
  <2>1. ASSUME NEW u \in Url, NEW i \in Entries, i >= head, queue[i] = u
        PROVE  Passed(u)'
    <3>1. CASE i < head'
      BY <1>10, <1>12, <2>1, <3>1 DEF Passed
    <3>2. CASE ~ (i < head')
      <4>1. i \in Int /\ head' \in Int
        BY <1>3, BoundAssumption DEF IInv, TypeOK, Index
      <4>2. i >= head'
        BY <3>2, <4>1
      <4> QED  BY <1>1, <2>1, <4>2 DEF Passed, Entries
    <3> QED  BY <3>1, <3>2
  <2> QED  BY <1>1, <1>9, <2>1 DEF Passed
<1>13. PastPassed'
  BY <1>1, <1>12 DEF IInv, TypeOK, PastPassed
<1> QED  BY <1>4, <1>5, <1>6, <1>7, <1>8, <1>11, <1>13 DEF IInv

\* The crawler takes the page.
LEMMA NextCrawlPreserves ==
    ASSUME IInv, NEW t \in tokens, NextCrawl(t)
    PROVE  IInv'
<1>1. /\ t.at = "offer" /\ crawler.at = "idle" /\ tokens' = tokens \ {t}
      /\ crawler' = [at |-> "fetch", page |-> t.page, links |-> {}]
      /\ attempted' = attempted \cup {t.page}
      /\ UNCHANGED <<queue, head, savedPast, process, packet, past, isCrawling, linkJobs,
                     crashes, handed, again, external>>
  BY DEF NextCrawl, Advance, durable
<1>2. t.page \in Url /\ crawler.links = {} /\ crawler'.at = "fetch" /\ crawler'.links = {}
  BY <1>1 DEF IInv, TypeOK, CrawlerOK
<1>3. TypeOK'
  BY <1>1, <1>2 DEF IInv, TypeOK, Entries
<1>4. Segment' /\ TokensRead' /\ ProcessOK' /\ CrawlerOK'
  BY <1>1, <1>2 DEF IInv, Segment, HasPointer, TokensRead, ProcessOK, CrawlerOK, Entries
<1>5. OneToken' /\ Unsaved'
  BY <1>1, <1>2 DEF IInv, OneToken, Unsaved, Entries
<1>6. \A u \in Url : Held(u) => Held(u)'
  BY <1>1 DEF Held
<1>7. HeldBehind'
  BY <1>1, <1>6 DEF IInv, HeldBehind, HasPointer, Entries
<1>8. \A u \in Url : Passed(u) => Passed(u)'
  BY <1>1, <1>6 DEF Passed, Entries
<1>9. PastPassed'
  BY <1>1, <1>2, <1>8 DEF IInv, TypeOK, PastPassed
<1> QED  BY <1>3, <1>4, <1>5, <1>7, <1>9 DEF IInv

-----------------------------------------------------------------------------
(* The crawl loop                                                           *)

\* The crawler skips or ends a page: the Done packet takes the place of the crawler as
\* the one that is at work.
LEMMA CrawlerEnds ==
    ASSUME IInv, crawler.at \in {"fetch", "lookup", "index"}, SendDone, isCrawling' \in BOOLEAN,
           UNCHANGED <<queue, head, savedPast, process, past, linkJobs, crashes, handed, again,
                       attempted, external>>
    PROVE  IInv'
<1>1. PICK g \in DoneGoroutine :
          g.at \in {"delete", "read"} /\ tokens' = tokens \cup {g} /\ packet' = "other"
  BY DoneFacts DEF SendDone, IInv
<1>2. crawler' = NoCrawl /\ crawler'.at = "idle" /\ crawler'.links = {} /\ process = "up"
  BY DEF SendDone, NoCrawl, IInv, ProcessOK
<1>3. TypeOK'
  <2>1. crawler' \in [at : {"idle", "fetch", "lookup", "stuck", "save", "links", "index"},
                       page : Url \cup {None}, links : SUBSET Url]
    BY <1>2 DEF NoCrawl
  <2>2. /\ tokens' \subseteq DoneGoroutine
        /\ \A t \in tokens' : t.at \in {"put", "offer"} => t.page \in Url
    BY <1>1 DEF IInv, TypeOK, DoneGoroutine
  <2> QED  BY <1>1, <2>1, <2>2 DEF IInv, TypeOK, Entries, DoneGoroutine
<1>4. Segment' /\ TokensRead' /\ ProcessOK' /\ CrawlerOK'
  BY <1>1, <1>2 DEF IInv, Segment, HasPointer, TokensRead, ProcessOK, CrawlerOK, Entries
<1>5. OneToken' /\ Unsaved'
  BY <1>1, <1>2 DEF IInv, OneToken, Unsaved, Entries
<1>6. \A u \in Url : Held(u) => Held(u)'
  BY <1>1 DEF Held
<1>7. HeldBehind'
  BY <1>1, <1>6 DEF IInv, HeldBehind, HasPointer, Entries
<1>8. \A u \in Url : Passed(u) => Passed(u)'
  BY <1>6 DEF Passed, Entries
<1>9. PastPassed'
  <2>1. crawler.links = {}
    BY DEF IInv, CrawlerOK
  <2> QED  BY <1>2, <1>8, <2>1 DEF IInv, TypeOK, PastPassed
<1> QED  BY <1>3, <1>4, <1>5, <1>7, <1>9 DEF IInv

\* The crawler goes on with its page, before its links are known.
LEMMA CrawlerGoesOn ==
    ASSUME IInv, crawler.at \in {"fetch", "lookup"}, NEW at \in {"lookup", "stuck"},
           crawler' = [crawler EXCEPT !.at = at], isCrawling' \in BOOLEAN,
           packet' \in {packet, "lookup"},
           UNCHANGED <<queue, head, savedPast, process, tokens, past, linkJobs, crashes, handed,
                       again, attempted, external>>
    PROVE  IInv'
<1>1. /\ crawler'.at = at /\ crawler'.page = crawler.page /\ crawler'.links = crawler.links
      /\ crawler' \in [at : {"idle", "fetch", "lookup", "stuck", "save", "links", "index"},
                       page : Url \cup {None}, links : SUBSET Url]
      /\ process = "up"
  BY DEF IInv, TypeOK, ProcessOK, NoCrawl
<1>2. TypeOK'
  BY <1>1 DEF IInv, TypeOK, Entries
<1>3. Segment' /\ TokensRead' /\ ProcessOK' /\ CrawlerOK'
  BY <1>1 DEF IInv, Segment, HasPointer, TokensRead, ProcessOK, CrawlerOK, Entries
<1>4. OneToken' /\ Unsaved'
  BY <1>1 DEF IInv, OneToken, Unsaved, Entries
<1>5. HeldBehind'
  BY DEF IInv, HeldBehind, HasPointer, Held, Entries
<1>6. PastPassed'
  BY <1>1 DEF IInv, PastPassed, Passed, Held, Entries
<1> QED  BY <1>2, <1>3, <1>4, <1>5, <1>6 DEF IInv

LEMMA FetchPreserves ==
    ASSUME IInv, Fetch
    PROVE  IInv'
<1>1. /\ crawler.at = "fetch" /\ isCrawling' \in BOOLEAN
      /\ UNCHANGED <<queue, head, savedPast, process, past, linkJobs, crashes, handed, again,
                     attempted, external>>
  BY DEF Fetch, durable, history
<1>2. CASE SendDone
  BY <1>1, <1>2, CrawlerEnds
<1>3. CASE packet' = "lookup" /\ crawler' = [crawler EXCEPT !.at = "lookup"] /\ UNCHANGED tokens
  BY <1>1, <1>3, CrawlerGoesOn
<1> QED  BY <1>2, <1>3 DEF Fetch

LEMMA LookupMisdirectedPreserves ==
    ASSUME IInv, LookupMisdirected
    PROVE  IInv'
<1>1. isCrawling' \in BOOLEAN
  BY DEF LookupMisdirected, IInv, TypeOK
<1> QED  BY <1>1, CrawlerGoesOn DEF LookupMisdirected, durable, history

LEMMA LookupFoundPreserves ==
    ASSUME IInv, LookupFound
    PROVE  IInv'
<1>1. isCrawling' \in BOOLEAN
  BY DEF LookupFound, IInv, TypeOK
<1> QED  BY <1>1, CrawlerEnds DEF LookupFound, durable, history

\* The links are passed on by the queue at the end of the page at the latest.
LEMMA SendIndexPreserves ==
    ASSUME IInv, SendIndex
    PROVE  IInv'
<1>1. isCrawling' \in BOOLEAN
  BY DEF SendIndex, IInv, TypeOK
<1> QED  BY <1>1, CrawlerEnds DEF SendIndex, durable, history

\* The links that enter the past map are the crawler's, or were in the map.
LEMMA FilterLinksPreserves ==
    ASSUME IInv, FilterLinks
    PROVE  IInv'
<1>1. /\ crawler.at = "lookup" /\ packet' = "other"
      /\ crawler' = [crawler EXCEPT !.at = "save", !.links = Links[crawler.page] \ past]
      /\ past' = past \cup Links[crawler.page]
      /\ UNCHANGED <<queue, head, savedPast, process, tokens, isCrawling, linkJobs, crashes, handed,
                     again, attempted, external>>
  BY DEF FilterLinks, durable, history
<1>2. crawler.page \in Url /\ crawler.links = {} /\ process = "up"
  BY <1>1 DEF IInv, CrawlerOK, ProcessOK, NoCrawl
<1>3. /\ Links[crawler.page] \subseteq Url
      /\ crawler'.at = "save" /\ crawler'.page = crawler.page
      /\ crawler'.links = Links[crawler.page] \ past
      /\ crawler' \in [at : {"idle", "fetch", "lookup", "stuck", "save", "links", "index"},
                       page : Url \cup {None}, links : SUBSET Url]
  <2>1. Links[crawler.page] \subseteq Url
    BY <1>2, PagesAssumption
  <2> QED  BY <1>1, <2>1 DEF IInv, TypeOK
<1>4. TypeOK'
  BY <1>1, <1>3 DEF IInv, TypeOK, Entries
<1>5. Segment' /\ TokensRead' /\ ProcessOK' /\ CrawlerOK'
  BY <1>1, <1>2, <1>3 DEF IInv, Segment, HasPointer, TokensRead, ProcessOK, CrawlerOK, Entries
<1>6. OneToken' /\ Unsaved'
  BY <1>1, <1>3 DEF IInv, OneToken, Unsaved, Entries
<1>7. HeldBehind'
  BY <1>1 DEF IInv, HeldBehind, HasPointer, Held, Entries
<1>8. \A u \in Url : Passed(u) => Passed(u)'
  BY <1>1 DEF Passed, Held, Entries
<1>9. PastPassed'
  BY <1>1, <1>2, <1>3, <1>8 DEF IInv, TypeOK, PastPassed
<1> QED  BY <1>4, <1>5, <1>6, <1>7, <1>9 DEF IInv

\* The map that is saved holds what the crawler holds.
LEMMA SavePastPreserves ==
    ASSUME IInv, SavePast
    PROVE  IInv'
<1>1. /\ crawler.at = "save" /\ savedPast' = {past} /\ packet' = "other"
      /\ crawler' = [crawler EXCEPT !.at = "links"]
      /\ UNCHANGED <<queue, head, process, tokens, past, isCrawling, linkJobs, crashes, handed,
                     again, attempted, external>>
  BY DEF SavePast, history
<1>2. /\ crawler'.at = "links" /\ crawler'.page = crawler.page /\ crawler'.links = crawler.links
      /\ crawler' \in [at : {"idle", "fetch", "lookup", "stuck", "save", "links", "index"},
                       page : Url \cup {None}, links : SUBSET Url]
      /\ process = "up"
  BY <1>1 DEF IInv, TypeOK, ProcessOK, NoCrawl
<1>3. TypeOK'
  BY <1>1, <1>2 DEF IInv, TypeOK, Entries
<1>4. Segment' /\ TokensRead' /\ ProcessOK' /\ CrawlerOK'
  BY <1>1, <1>2 DEF IInv, Segment, HasPointer, TokensRead, ProcessOK, CrawlerOK, Entries
<1>5. OneToken' /\ Unsaved'
  BY <1>1, <1>2 DEF IInv, OneToken, Unsaved, Entries
<1>6. HeldBehind'
  BY <1>1 DEF IInv, HeldBehind, HasPointer, Held, Entries
<1>7. PastPassed'
  BY <1>1, <1>2 DEF IInv, PastPassed, Passed, Held, Entries
<1> QED  BY <1>3, <1>4, <1>5, <1>6, <1>7 DEF IInv

LinkJob == [at : {"lookup", "queue", "hung"}, links : SUBSET Url]

\* The crawler's links go to distributeHyperlinks.
LEMMA SendLinksPreserves ==
    ASSUME IInv, SendLinks
    PROVE  IInv'
<1>1. /\ crawler.at = "links" /\ packet' = "other"
      /\ crawler' = [crawler EXCEPT !.at = "index", !.links = {}]
      /\ linkJobs' = linkJobs \cup {[at |-> "lookup", links |-> crawler.links]}
      /\ UNCHANGED <<queue, head, savedPast, process, tokens, past, isCrawling, crashes, handed,
                     again, attempted, external>>
  BY DEF SendLinks, durable, history
<1>2. /\ crawler'.at = "index" /\ crawler'.page = crawler.page /\ crawler'.links = {}
      /\ crawler' \in [at : {"idle", "fetch", "lookup", "stuck", "save", "links", "index"},
                       page : Url \cup {None}, links : SUBSET Url]
      /\ process = "up" /\ crawler.links \in SUBSET Url
  <2>1. /\ crawler \in [at : {"idle", "fetch", "lookup", "stuck", "save", "links", "index"},
                        page : Url \cup {None}, links : SUBSET Url]
        /\ {} \in SUBSET Url
    BY DEF IInv, TypeOK
  <2>2. process = "up"
    BY <1>1 DEF IInv, ProcessOK, NoCrawl
  <2> QED  BY <1>1, <2>1, <2>2
<1>3. PICK job \in LinkJob : job.links = crawler.links /\ linkJobs' = linkJobs \cup {job}
  BY <1>1, <1>2 DEF LinkJob
<1>4. \A j \in linkJobs' : j \in LinkJob
  BY <1>3 DEF IInv, TypeOK, LinkJob
<1>5. TypeOK'
  BY <1>1, <1>2, <1>4 DEF IInv, TypeOK, Entries, LinkJob
<1>6. Segment' /\ TokensRead' /\ ProcessOK' /\ CrawlerOK'
  BY <1>1, <1>2 DEF IInv, Segment, HasPointer, TokensRead, ProcessOK, CrawlerOK, Entries
<1>7. OneToken' /\ Unsaved'
  BY <1>1, <1>2 DEF IInv, OneToken, Unsaved, Entries
<1>8. HeldBehind'
  BY <1>1 DEF IInv, HeldBehind, HasPointer, Held, Entries
<1>9. \A u \in Url : Passed(u) \/ u \in crawler.links => Passed(u)'
  BY <1>1, <1>3 DEF Passed, Held, Entries
<1>10. PastPassed'
  BY <1>1, <1>2, <1>9 DEF IInv, TypeOK, PastPassed
<1> QED  BY <1>5, <1>6, <1>7, <1>8, <1>10 DEF IInv

-----------------------------------------------------------------------------
(* New entries                                                              *)

\* A new entry is ahead of the pointer and of every goroutine's index, so what is said
\* of the entries behind them stays true.
LEMMA EnqueueKeeps ==
    ASSUME IInv, NEW u \in Url, UpdateCrawlQueue(u), UNCHANGED <<head, crashes, attempted>>,
           tokens \subseteq tokens',
           \A t \in tokens' : t \in tokens \/ t.at \in {"delete", "read"}
    PROVE  /\ DOMAIN queue' \subseteq Index /\ \A i \in DOMAIN queue' : queue'[i] \in Url \cup {None}
           /\ \A i \in Entries : i \in DOMAIN queue' /\ queue'[i] = queue[i]
           /\ \A i \in DOMAIN queue' : i \in Entries \/ queue'[i] = u
           /\ \E i \in DOMAIN queue' : i >= head /\ queue'[i] = u
           /\ Segment' /\ TokensRead' /\ HeldBehind'
<1>1. PICK n \in Index : /\ Entries = 0..(n - 1) /\ head <= n
                         /\ \A t \in tokens : HasPointer(t) => t.index <= n
                         /\ DOMAIN queue' = 0..n /\ queue'[n] = u
                         /\ \A i \in Entries : queue'[i] = queue[i]
  BY EnqueueFacts DEF IInv
<1>2. /\ n \in Nat /\ n < MaxQueue /\ MaxQueue \in Nat /\ head \in Nat
      /\ \A t \in tokens : t.index \in Nat
  BY BoundAssumption DEF Index, IInv, TypeOK
<1>3. \A i \in DOMAIN queue' : i \in Entries \/ (i = n /\ queue'[i] = u)
  BY <1>1, <1>2
<1>4. /\ DOMAIN queue' \subseteq Index /\ \A i \in DOMAIN queue' : queue'[i] \in Url \cup {None}
      /\ \A i \in Entries : i \in DOMAIN queue' /\ queue'[i] = queue[i]
  BY <1>1, <1>2, <1>3 DEF IInv, TypeOK, Index
<1>5. \E i \in DOMAIN queue' : i >= head /\ queue'[i] = u
  BY <1>1, <1>2
<1>6. Segment'
  <2>1. n + 1 \in 0..MaxQueue /\ n = (n + 1) - 1 /\ head <= n + 1
    BY <1>1, <1>2
  <2>2. \A t \in tokens' : HasPointer(t) => t \in tokens /\ t.index <= n + 1
    BY <1>1, <1>2 DEF HasPointer
  <2> QED  BY <1>1, <2>1, <2>2 DEF Segment, HasPointer, Entries
<1>7. TokensRead'
  BY <1>4 DEF IInv, TokensRead, Entries
<1>8. HeldBehind'
  <2>1. \A v \in Url : Held(v) => Held(v)'
    BY DEF Held
  <2>2. ~ (n < head) /\ \A t \in tokens' : HasPointer(t) => t \in tokens /\ ~ (n < t.index)
    BY <1>1, <1>2 DEF HasPointer
  <2> QED  BY <1>3, <1>4, <2>1, <2>2 DEF IInv, HeldBehind, HasPointer, Entries
<1> QED  BY <1>3, <1>4, <1>5, <1>6, <1>7, <1>8

\* A goroutine of distributeHyperlinks goes on and none of its links is lost.
LEMMA JobGoesOn ==
    ASSUME IInv, NEW job \in linkJobs, NEW next \in SUBSET LinkJob,
           linkJobs' = (linkJobs \ {job}) \cup next,
           \A u \in job.links :
               \/ \E j \in next : u \in j.links
               \/ \E i \in DOMAIN queue' : i >= head /\ queue'[i] = u,
           \A i \in Entries : i \in DOMAIN queue' /\ queue'[i] = queue[i],
           DOMAIN queue' \subseteq Index, \A i \in DOMAIN queue' : queue'[i] \in Url \cup {None},
           Segment', TokensRead', HeldBehind',
           UNCHANGED <<head, savedPast, process, tokens, packet, crawler, past, isCrawling, crashes,
                       handed, again, attempted, external>>
    PROVE  IInv'
<1>1. process = "up" /\ savedPast # {}
  BY DEF IInv, ProcessOK, Unsaved
<1>2. TypeOK'
  BY DEF IInv, TypeOK, Entries, LinkJob
<1>3. ProcessOK' /\ CrawlerOK'
  BY <1>1 DEF IInv, ProcessOK, CrawlerOK
<1>4. OneToken' /\ Unsaved'
  BY <1>1 DEF IInv, OneToken, Unsaved
<1>5. \A u \in Url : Passed(u) => Passed(u)'
  <2>1. \A u \in Url : Held(u) => Held(u)'
    BY DEF Held
  <2> QED  BY <2>1 DEF Passed, Entries
<1>6. PastPassed'
  BY <1>5 DEF IInv, TypeOK, PastPassed
<1> QED  BY <1>2, <1>3, <1>4, <1>6 DEF IInv

\* The queue, and with it what is said of the entries, stays as it is.
LEMMA QueueKept ==
    ASSUME IInv, UNCHANGED <<queue, head, tokens, crashes, attempted>>
    PROVE  /\ \A i \in Entries : i \in DOMAIN queue' /\ queue'[i] = queue[i]
           /\ DOMAIN queue' \subseteq Index /\ \A i \in DOMAIN queue' : queue'[i] \in Url \cup {None}
           /\ Segment' /\ TokensRead' /\ HeldBehind'
<1>1. Segment' /\ TokensRead'
  BY DEF IInv, Segment, HasPointer, TokensRead, Entries
<1>2. HeldBehind'
  BY DEF IInv, HeldBehind, HasPointer, Held, Entries
<1> QED  BY <1>1, <1>2 DEF IInv, TypeOK, Entries

\* The owners were looked up, or the lookup hangs with all the links.
LEMMA LookupOwnersPreserves ==
    ASSUME IInv, NEW job \in linkJobs, LookupOwners(job)
    PROVE  IInv'
<1>1. /\ UNCHANGED <<queue, head, savedPast, process, tokens, packet, crawler, past, isCrawling,
                     crashes, handed, again, attempted, external>>
      /\ job \in LinkJob
  BY DEF LookupOwners, durable, history, IInv, TypeOK, LinkJob
<1>2. PICK at \in {"queue", "hung"} : linkJobs' = (linkJobs \ {job}) \cup {[job EXCEPT !.at = at]}
  BY DEF LookupOwners
<1>3. PICK j \in LinkJob : j.links = job.links /\ linkJobs' = (linkJobs \ {job}) \cup {j}
  BY <1>1, <1>2 DEF LinkJob
<1>4. {j} \in SUBSET LinkJob
  OBVIOUS
<1> QED  BY <1>1, <1>3, <1>4, QueueKept, JobGoesOn

\* A link is queued, or the goroutine ends.
LEMMA DistributeLinkPreserves ==
    ASSUME IInv, NEW job \in linkJobs, DistributeLink(job)
    PROVE  IInv'
<1>1. /\ UNCHANGED <<head, savedPast, process, tokens, packet, crawler, past, isCrawling, crashes,
                     handed, again, attempted, external>>
      /\ job \in LinkJob
  BY DEF DistributeLink, history, IInv, TypeOK, LinkJob
<1>2. ASSUME NEW u \in job.links, UpdateCrawlQueue(u),
             linkJobs' = (linkJobs \ {job}) \cup {[job EXCEPT !.links = @ \ {u}]}
      PROVE  IInv'
  <2> DEFINE j == [job EXCEPT !.links = @ \ {u}]
  <2>1. j \in LinkJob /\ u \in Url /\ j.links = job.links \ {u}
    BY <1>1 DEF LinkJob
  <2>2. linkJobs' = (linkJobs \ {job}) \cup {j}
    BY <1>2
  <2> HIDE DEF j
  <2>3. /\ DOMAIN queue' \subseteq Index /\ \A i \in DOMAIN queue' : queue'[i] \in Url \cup {None}
        /\ \A i \in Entries : i \in DOMAIN queue' /\ queue'[i] = queue[i]
        /\ \E i \in DOMAIN queue' : i >= head /\ queue'[i] = u
        /\ Segment' /\ TokensRead' /\ HeldBehind'
    BY <1>1, <1>2, <2>1, EnqueueKeeps
  <2>4. \A v \in job.links : \/ \E k \in {j} : v \in k.links
                            \/ \E i \in DOMAIN queue' : i >= head /\ queue'[i] = v
    BY <2>1, <2>3
  <2>5. {j} \in SUBSET LinkJob
    BY <2>1
  <2> QED  BY <1>1, <2>2, <2>3, <2>4, <2>5, JobGoesOn
<1>3. ASSUME job.links = {}, linkJobs' = linkJobs \ {job}, UNCHANGED queue
      PROVE  IInv'
  <2>1. linkJobs' = (linkJobs \ {job}) \cup {} /\ {} \in SUBSET LinkJob
    BY <1>3
  <2> QED  BY <1>1, <1>3, <2>1, QueueKept, JobGoesOn
<1> QED  BY <1>2, <1>3 DEF DistributeLink

\* Another gossiper's link is queued, and a Done packet may start the crawl: from now on
\* there may be two Done goroutines.
LEMMA ReceiveHyperlinkPreserves ==
    ASSUME IInv, NEW u \in External, ReceiveHyperlink(u)
    PROVE  IInv'
<1>1. /\ process = "up" /\ UpdateCrawlQueue(u) /\ external' = external \cup {u} /\ u \in Url
      /\ UNCHANGED <<head, savedPast, process, crawler, past, isCrawling, linkJobs, crashes,
                     handed, again, attempted>>
  BY PagesAssumption DEF ReceiveHyperlink, crawlVars
<1>2. PICK new \in SUBSET {g \in DoneGoroutine : g.at \in {"delete", "read"}} :
          tokens' = tokens \cup new /\ packet' \in {packet, "other"}
  <2>1. CASE Done(FALSE)
    <3>1. PICK g \in DoneGoroutine :
              g.at \in {"delete", "read"} /\ tokens' = tokens \cup {g} /\ packet' = "other"
      BY <2>1, DoneFacts DEF IInv
    <3>2. {g} \in SUBSET {h \in DoneGoroutine : h.at \in {"delete", "read"}}
      BY <3>1
    <3> QED  BY <3>1, <3>2
  <2>2. CASE UNCHANGED <<tokens, packet>>
    <3>1. tokens' = tokens \cup {}
      BY <2>2
    <3> QED  BY <2>2, <3>1
  <2> QED  BY <2>1, <2>2 DEF ReceiveHyperlink
<1>3. /\ tokens \subseteq tokens'
      /\ \A t \in tokens' : t \in tokens \/ (t \in DoneGoroutine /\ t.at \in {"delete", "read"})
  BY <1>2
<1>4. /\ DOMAIN queue' \subseteq Index /\ \A i \in DOMAIN queue' : queue'[i] \in Url \cup {None}
      /\ \A i \in Entries : i \in DOMAIN queue' /\ queue'[i] = queue[i]
      /\ \A i \in DOMAIN queue' : i \in Entries \/ queue'[i] = u
      /\ Segment' /\ TokensRead' /\ HeldBehind'
  BY <1>1, <1>3, EnqueueKeeps
<1>5. TypeOK'
  <2>1. /\ tokens' \subseteq DoneGoroutine
        /\ \A t \in tokens' : t.at \in {"put", "offer"} => t.page \in Url
    BY <1>3 DEF IInv, TypeOK, DoneGoroutine
  <2> QED  BY <1>1, <1>2, <1>4, <2>1 DEF IInv, TypeOK, Entries, DoneGoroutine
<1>6. ProcessOK' /\ CrawlerOK'
  BY <1>1 DEF IInv, ProcessOK, CrawlerOK
<1>7. OneToken'
  BY <1>1 DEF OneToken
<1>8. Unsaved'
  BY <1>1, <1>4 DEF IInv, Unsaved, Entries
<1>9. \A v \in Url : Passed(v) => Passed(v)'
  <2>1. \A v \in Url : Held(v) => Held(v)'
    BY <1>1, <1>3 DEF Held
  <2> QED  BY <1>1, <1>4, <2>1 DEF Passed, Entries
<1>10. PastPassed'
  BY <1>1, <1>9 DEF IInv, TypeOK, PastPassed
<1> QED  BY <1>4, <1>5, <1>6, <1>7, <1>8, <1>10 DEF IInv

-----------------------------------------------------------------------------
(* The theorems                                                             *)

LEMMA InitIInv == Init => IInv
<1> SUFFICES ASSUME Init PROVE IInv
  OBVIOUS
<1>1. Entries = {} /\ {} = 0..(0 - 1)
  BY DEF Init, Entries
<1>2. TypeOK
  <2>1. crawler \in [at : {"idle", "fetch", "lookup", "stuck", "save", "links", "index"},
                      page : Url \cup {None}, links : SUBSET Url]
    BY DEF Init, NoCrawl
  <2>2. head \in 0..MaxQueue /\ crashes \in 0..MaxCrashes
    BY BoundAssumption DEF Init
  <2> QED  BY <1>1, <2>1, <2>2 DEF Init, TypeOK
<1>3. Segment
  BY <1>1, BoundAssumption DEF Init, Segment, HasPointer
<1>4. TokensRead /\ ProcessOK /\ CrawlerOK /\ OneToken /\ Unsaved
  BY <1>1 DEF Init, TokensRead, ProcessOK, CrawlerOK, OneToken, Unsaved, NoCrawl
<1>5. HeldBehind /\ PastPassed
  BY <1>1 DEF Init, HeldBehind, PastPassed, NoCrawl
<1> QED  BY <1>2, <1>3, <1>4, <1>5 DEF IInv

LEMMA StutterPreserves ==
    ASSUME IInv, UNCHANGED vars
    PROVE  IInv'
<1>1. UNCHANGED <<queue, head, savedPast, process, tokens, packet, crawler, past, isCrawling,
                  linkJobs, crashes, handed, again, attempted, external>>
  BY DEF vars, durable, crawlVars, history
<1>2. TypeOK' /\ Segment' /\ TokensRead' /\ ProcessOK' /\ CrawlerOK'
  BY <1>1 DEF IInv, TypeOK, Segment, TokensRead, ProcessOK, CrawlerOK, Entries
<1>3. OneToken' /\ Unsaved'
  BY <1>1 DEF IInv, OneToken, Unsaved, Entries
<1>4. HeldBehind' /\ PastPassed'
  BY <1>1 DEF IInv, HeldBehind, HasPointer, PastPassed, Passed, Held, Entries
<1> QED  BY <1>2, <1>3, <1>4 DEF IInv

LEMMA NextIInv == IInv /\ [Next]_vars => IInv'
<1> SUFFICES ASSUME IInv, [Next]_vars PROVE IInv'
  OBVIOUS
<1>1. ASSUME StartFresh \/ StartRestore \/ Crash  PROVE IInv'
  BY <1>1, StartFreshPreserves, StartRestorePreserves, CrashPreserves
<1>2. ASSUME Crawling  PROVE IInv'
  BY <1>2, FetchPreserves, LookupMisdirectedPreserves, LookupFoundPreserves, FilterLinksPreserves,
     SavePastPreserves, SendLinksPreserves, SendIndexPreserves DEF Crawling
<1>3. ASSUME NEW t \in tokens, Token(t)  PROVE IInv'
  BY <1>3, DeletePointerPreserves, DeleteHeadPreserves, ReadPointerPreserves,
     ReadHeadPreserves, ResendPreserves, PutHeadPreserves,
     NextCrawlPreserves DEF Token
<1>4. ASSUME NEW job \in linkJobs, Distribute(job)  PROVE IInv'
  BY <1>4, LookupOwnersPreserves, DistributeLinkPreserves DEF Distribute
<1>5. ASSUME NEW u \in External, ReceiveHyperlink(u)  PROVE IInv'
  BY <1>5, ReceiveHyperlinkPreserves
<1>6. ASSUME UNCHANGED vars  PROVE IInv'
  BY <1>6, StutterPreserves
<1> QED  BY <1>1, <1>2, <1>3, <1>4, <1>5, <1>6 DEF Next

\* The queue, the Done goroutines, the crawler and the past map stay in the relations
\* of IInv, whatever the interleaving and wherever the process crashes.
THEOREM Invariance == Spec => []IInv
  BY InitIInv, NextIInv, PTL DEF Spec

\* The database and the goroutines keep their types; no Done goroutine hands the
\* crawler an empty page (CrawlQueueHead).
THEOREM TypeCorrect == Spec => []TypeOK
<1>1. IInv => TypeOK
  BY DEF IInv
<1> QED  BY <1>1, Invariance, PTL

\* As long as no other gossiper's hyperlinks start a second Done goroutine, no entry is
\* handed to the crawler twice, also across crashes: CrawlQueueHead stores the pointer
\* before the page is crawled.
THEOREM AtMostOnceHolds == Spec => []AtMostOnce
<1>1. IInv => AtMostOnce
  BY DEF IInv, OneToken, AtMostOnce
<1> QED  BY <1>1, Invariance, PTL

\* Without a crash a queued page is ahead of the pointer, held by a Done goroutine or
\* was taken up, also when several Done goroutines move the pointer past each other.
THEOREM NoPageLostHolds == Spec => []NoPageLost
<1>1. IInv => NoPageLost
  <2>1. SUFFICES ASSUME IInv, crashes = 0, NEW i \in Entries, queue[i] # None, ~ (i >= head)
                 PROVE  \/ queue[i] \in attempted
                        \/ \E t \in tokens : t.at \in {"put", "offer"} /\ t.page = queue[i]
    BY DEF NoPageLost
  <2>2. queue[i] \in Url /\ i < head
    BY <2>1, BoundAssumption DEF IInv, TypeOK, Index
  <2> QED  BY <2>1, <2>2 DEF IInv, HeldBehind, Held
<1> QED  BY <1>1, Invariance, PTL

\* A start that panics in GetPast loses no link that was found by crawling.
THEOREM PanicLosesNoLinksHolds == Spec => []PanicLosesNoLinks
<1>1. IInv => PanicLosesNoLinks
  BY DEF IInv, ProcessOK, Unsaved, PanicLosesNoLinks
<1> QED  BY <1>1, Invariance, PTL

\* Without a crash a link of the saved past map, which is never passed on again, is with
\* the crawler, on its way to the queue, in it or taken up.
THEOREM PastAccountedHolds == Spec => []PastAccounted
<1>1. IInv => PastAccounted
  BY DEF IInv, PastPassed, PastAccounted, Pending, Passed, Held
<1> QED  BY <1>1, Invariance, PTL

=============================================================================
