------------------------------- MODULE Ledger -------------------------------
(***************************************************************************)
(* The file name ledger of one gossiper, gossiper/blockchain.go: the block *)
(* tree of BlockchainLedger and the miner of blockchainMiningRoutine.      *)
(* Every access to the ledger is made by that one goroutine, so a packet   *)
(* it takes is one step; what races is the network, which delivers blocks  *)
(* in any order, more than once, and with names other blocks also claim.   *)
(*                                                                         *)
(* A block stands for its own hash, and its nonce for what makes the hash  *)
(* unique and below the difficulty; prev is the block whose hash it holds. *)
(* Go's map order is a choice: an operation on the tree yields the set of  *)
(* its outcomes.                                                           *)
(***************************************************************************)
EXTENDS Integers, FiniteSets

CONSTANTS
    Name,       \* file names
    MaxBlocks   \* bound: blocks mined by this gossiper and by the others

ASSUME BoundAssumption == MaxBlocks \in Nat

VARIABLES
    mined,       \* the blocks mined by anyone
    chains,      \* bcl.chains: block -> length of its chain and its forks
    head,        \* bcl.longestChain
    everyTx,     \* everyTxEver
    pending,     \* pendingNames
    unpublished, \* {} or the own block that forwardOwnBlock holds; canMine is false then
    process,     \* "up" or "panicked"
    stranded,    \* history: an orphan was left out of the tree (PruneStops)
    spoiled      \* history: a block of this gossiper failed the check of its names

miner == <<everyTx, pending, unpublished>>
history == <<stranded, spoiled>>
ledgerVars == <<mined, chains, head, miner, process, history>>

Genesis == [nonce |-> 0, names |-> {}]
Known(c) == DOMAIN c

LedgerInit ==
    /\ mined = {}
    /\ chains = [h \in {Genesis} |-> [len |-> 0, forks |-> {}]]
    /\ head = Genesis
    /\ everyTx = {} /\ pending = {} /\ unpublished = {}
    /\ process = "up" /\ stranded = FALSE /\ spoiled = FALSE

-----------------------------------------------------------------------------
(* The tree                                                                 *)

Blocks(c) == Known(c) \ {Genesis}

\* The blocks from h back to the genesis block or to the first that is missing: the
\* walk of checkValidTransactionsBackwards and getTakenNames, as the least set that
\* holds h and, with a block, the one before it.
Chain(c, h) ==
    LET closed == {S \in SUBSET Blocks(c) :
                     h \in S /\ \A y \in S : y.prev \in Blocks(c) => y.prev \in S}
    IN {x \in Blocks(c) : h \in Blocks(c) /\ \A S \in closed : x \in S}

NamesOf(blocks) == UNION {x.names : x \in blocks}
NamesDistinct(blocks) == \A x, y \in blocks : x # y => x.names \cap y.names = {}

\* h and the blocks reached from it along the forks, dangling ones included.
Reach(c, h) == {h} \cup UNION {c[x].forks : x \in Known(c)}
Subtree(c, h) ==
    LET closed == {S \in SUBSET Reach(c, h) :
                     h \in S /\ \A y \in S \cap Known(c) : c[y].forks \subseteq S}
    IN {x \in Reach(c, h) : \A S \in closed : x \in S}

\* A walk down the forks meets a block that is not in the map: a nil dereference.
Dangling(c, h) == ~(Subtree(c, h) \subseteq Known(c))

AppendToBlock(c, h, parent) ==
    [x \in Known(c) \cup {h} |->
       IF x = h THEN [len |-> c[parent].len + 1,
                      forks |-> IF h \in Known(c) THEN c[h].forks ELSE {}]
       ELSE IF x = parent THEN [c[x] EXCEPT !.forks = @ \cup {h}] ELSE c[x]]

RemoveFork(c, h) == [c EXCEPT ![Genesis].forks = @ \ {h}]

Without(c, blocks) == [x \in Known(c) \ blocks |-> c[x]]
DeleteForkFromChain(c, h) == Without(c, Subtree(c, h))

\* Mutant of RecursiveUpdateLength: the forks of the orphan keep their length.
UpdateLength(c, h) == [c EXCEPT ![h].len = c[h.prev].len + 1]

\* recursiveUpdateLength: h and the blocks on it get the length of their chain.
RecursiveUpdateLength(c, h) ==
    LET tree == Subtree(c, h) IN
    [x \in Known(c) |->
       IF x \in tree
       THEN [c[x] EXCEPT !.len = c[h.prev].len + Cardinality(Chain(c, x))
                                               - Cardinality(Chain(c, h.prev))]
       ELSE c[x]]

\* What pruneInvalidForks leaves: the map, the names claimed so far, what became of
\* the block, and whether it or recursiveUpdateLength after it dereferenced nil.
Outcome(c, claimed, result, panic) ==
    [chains |-> c, claimed |-> claimed, result |-> result, panic |-> panic]

\* Mutants of PruneInvalidForks: nothing is pruned; the test is inverted.
PruneNothing(c, claimed, h) == {Outcome(c, claimed \cup h.names, "valid", FALSE)}
PruneValidForks(c, claimed, h) ==
    IF h.names \cap claimed # {} THEN {Outcome(c, claimed, "valid", FALSE)}
    ELSE {Outcome(DeleteForkFromChain(c, h), claimed, "deleted", Dangling(c, h))}

\* The block's own names are claimed one by one until the first one taken, so any
\* part of the others stays claimed when it is deleted.
PruneDeletes(c, claimed, h) ==
    {Outcome(DeleteForkFromChain(c, h), claimed \cup part, "deleted", Dangling(c, h)) :
       part \in SUBSET h.names}

\* A fork of the block is not in the map ("Impossible"): the loop returns false when
\* it meets it.  Before that it may have pruned anything below the other forks: more
\* outcomes than the order of the map allows.
PruneStops(c, claimed, h) ==
    [chains : {Without(c, UNION {Subtree(c, x) : x \in cut}) : cut \in SUBSET (Subtree(c, h) \ {h})},
     claimed : {claimed \cup part : part \in SUBSET NamesOf(Subtree(c, h))},
     result : {"impossible"}, panic : BOOLEAN]

\* All forks claim in the same set, and what pruneInvalidForks returns for a fork is
\* ignored.  A block deleted, or missing, further down stays among the forks of its
\* parent, where recursiveUpdateLength dereferences nil.
PruneKeeps(c, claimed, h) ==
    LET tree == Subtree(c, h) IN
    {Outcome(c, claimed \cup NamesOf(tree), "valid",
             Dangling(c, h) \/ ~NamesDistinct(tree) \/ NamesOf(tree) \cap claimed # {})}

PruneInvalidForks(c, claimed, h) ==
    IF h.names \cap claimed # {} THEN PruneDeletes(c, claimed, h)
    ELSE IF ~(c[h].forks \subseteq Known(c)) THEN PruneStops(c, claimed, h)
    ELSE PruneKeeps(c, claimed, h)

\* How far checkOrphansAndReinsert is: the map, the names claimed, the orphans left,
\* whether it dereferenced nil and whether an orphan is stranded: neither deleted nor
\* among the forks of a block.
Progress(c, claimed, left, panic, stranding) ==
    [chains |-> c, claimed |-> claimed, left |-> left, panic |-> panic, stranding |-> stranding]

\* One round of its loop, for an orphan that waited for block h.
Reinsert(p, orphan, h) ==
    {Progress(IF o.result # "valid" \/ o.panic THEN o.chains
              ELSE RecursiveUpdateLength(AppendToBlock(o.chains, orphan, h), orphan),
              o.claimed, p.left \ {orphan}, o.panic, p.stranding \/ o.result = "impossible") :
       o \in PruneInvalidForks(RemoveFork(p.chains, orphan), p.claimed, orphan)}

\* The orphans are taken in any order.
Round(progress, h) ==
    UNION {IF p.panic THEN {p} ELSE UNION {Reinsert(p, orphan, h) : orphan \in p.left} :
             p \in progress}

CheckOrphansAndReinsert(c, claimed, h) ==
    LET orphans == {o \in c[Genesis].forks : o.prev = h}
        after[n \in 0..Cardinality(orphans)] ==
            IF n = 0 THEN {Progress(c, claimed, orphans, FALSE, FALSE)} ELSE Round(after[n - 1], h)
    IN after[Cardinality(orphans)]

\* getFirstCommon indexes the second list with the positions of the first, which is
\* out of range if the second chain is the beginning of the first.  The genesis block
\* stands for a block that follows it.
CommonPanics(c, first, second) ==
    second \in Chain(c, first) \ {first} /\ second.prev # Genesis

\* What insertBlock leaves: the tree, the head and what it returns.
Result(c, newHead, valid, changed, grew, panic, stranding) ==
    [chains |-> c, head |-> newHead, valid |-> valid, changed |-> changed, grew |-> grew,
     panic |-> panic, stranding |-> stranding]

Longest(c, h) ==
    LET tree == Subtree(c, h) IN {x \in tree : \A y \in tree : c[y].len <= c[x].len}

\* headChanges: only a strictly longer chain replaces the head.
HeadChanges(c, h, stranding) ==
    IF head \notin Known(c) THEN Result(c, head, TRUE, FALSE, FALSE, TRUE, stranding)
    ELSE IF c[h].len > c[head].len THEN Result(c, h, TRUE, h.prev # head, TRUE, FALSE, stranding)
    ELSE Result(c, head, TRUE, FALSE, FALSE, CommonPanics(c, head, h), stranding)

\* insertBlock for a block that is not present.  The fork is added to the parent
\* before the transactions are checked and stays when they are not valid.
InsertBlock(h) ==
    LET notOrphan == h.prev \in Known(chains)
        appended == AppendToBlock(chains, h, IF notOrphan THEN h.prev ELSE Genesis)
        before == Chain(chains, h.prev)
    IN IF notOrphan /\ ~NamesDistinct(before \cup {h})
       THEN {Result(Without(appended, {h}), head, FALSE, FALSE, FALSE, FALSE, FALSE)}
       ELSE UNION {IF p.panic THEN {Result(chains, head, TRUE, FALSE, FALSE, TRUE, p.stranding)}
                   ELSE {HeadChanges(p.chains, x, p.stranding) : x \in Longest(p.chains, h)} :
                     p \in CheckOrphansAndReinsert(appended, NamesOf(before \cup {h}), h)}

TakenNames(c, h) == NamesOf(Chain(c, h))

-----------------------------------------------------------------------------
(* The miner                                                                *)

\* A block of its own nonce.
Block(prev, names) == [nonce |-> Cardinality(mined) + 1, prev |-> prev, names |-> names]
CanAdd == Cardinality(mined) < MaxBlocks

\* Another gossiper mines a block on any block it can know of.
OthersMine(prev, names) ==
    /\ CanAdd /\ prev \notin unpublished
    /\ mined' = mined \cup {Block(prev, names)}
    /\ UNCHANGED <<chains, head, miner, process, history>>

\* The case of cFileNaming.  The takenNames it looks up are those of the start:
\* the block case declares a variable of its own under that name.
ReceiveTx(name) ==
    /\ process = "up"
    /\ pending' = pending \cup {name} /\ everyTx' = everyTx \cup {name}
    /\ UNCHANGED <<mined, chains, head, unpublished, process, history>>

\* What the tree, the head and the process become by the result r of insertBlock.
Apply(r) ==
    /\ chains' = IF r.panic THEN chains ELSE r.chains
    /\ head' = r.head
    /\ process' = IF r.panic THEN "panicked" ELSE "up"
    /\ stranded' = (stranded \/ r.stranding)

\* Mutant of ReceiveBlock: a fork that replaces the head only takes its own names.
ReceiveBlockNoRewind(h) ==
    /\ process = "up" /\ h \notin Known(chains) \cup unpublished
    /\ \E r \in InsertBlock(h) :
         Apply(r) /\ pending' = IF r.grew THEN pending \ h.names ELSE pending
    /\ UNCHANGED <<mined, everyTx, unpublished, spoiled>>

\* The case of cBlocks for a block that is not present yet; one that is present
\* is ignored.
ReceiveBlock(h) ==
    /\ process = "up" /\ h \notin Known(chains) \cup unpublished
    /\ \E r \in InsertBlock(h) :
         /\ Apply(r)
         /\ pending' = IF r.changed THEN everyTx \ TakenNames(r.chains, r.head)
                       ELSE IF r.grew THEN pending \ h.names ELSE pending
    /\ UNCHANGED <<mined, everyTx, unpublished, spoiled>>

\* The default case finds a nonce.  The result of insertBlock is ignored: the
\* pending names are dropped and the block is published whatever it was.
MineBlock ==
    /\ process = "up" /\ unpublished = {} /\ CanAdd
    /\ LET own == Block(head, pending) IN
       /\ mined' = mined \cup {own}
       /\ unpublished' = {own}
       /\ \E r \in InsertBlock(own) : Apply(r) /\ spoiled' = (spoiled \/ ~r.valid)
    /\ pending' = {}
    /\ UNCHANGED everyTx

\* forwardOwnBlock after its delay: the block is sent and canMine set again.
PublishOwn ==
    /\ process = "up" /\ unpublished # {}
    /\ unpublished' = {}
    /\ UNCHANGED <<mined, chains, head, everyTx, pending, process, history>>

LedgerNext ==
    \/ \E prev \in mined \cup {Genesis}, names \in SUBSET Name : OthersMine(prev, names)
    \/ \E name \in Name : ReceiveTx(name)
    \/ \E h \in mined : ReceiveBlock(h)
    \/ MineBlock
    \/ PublishOwn

LedgerSpec == LedgerInit /\ [][LedgerNext]_ledgerVars

-----------------------------------------------------------------------------
(* Properties.  Two defects of the code are the conditions: a nil           *)
(* dereference ends the program, and a rejected block stays among the forks *)
(* of its parent, where it makes pruneInvalidForks give up an orphan.  That *)
(* orphan, stranded, is in the map and among no forks: its chain is neither *)
(* checked nor counted, and its parent may be pruned from under it.         *)

HeadChain == Chain(chains, head)

\* No file name is claimed twice on the longest chain, in whatever order its blocks
\* arrived: checkValidTransactionsBackwards and pruneInvalidForks leave no conflict
\* between an orphan's blocks and the ancestors that came after them.
NamesUnique == process = "up" /\ ~stranded => NamesDistinct(HeadChain)

\* The head ends a longest chain, counted along PrevHash and not by the lengths
\* the ledger keeps: recursiveUpdateLength and headChanges miss no block of an
\* orphan chain whose ancestor has arrived.
HeadLongest ==
    process = "up" /\ ~stranded =>
        LET longest == Cardinality(HeadChain)
        IN \A h \in Known(chains) : Cardinality(Chain(chains, h)) <= longest

\* A transaction the miner has received is pending or on the longest chain, across
\* every fork that replaces it, unless a block of its own was rejected: that block's
\* names are dropped from pendingNames with it.
TxKept == process = "up" /\ ~spoiled /\ ~stranded => everyTx \subseteq pending \cup NamesOf(HeadChain)

\* Blocks in any order never make the ledger dereference nil as long as no two
\* blocks claim the same name.
NoPanic ==
    process = "panicked" => \E a, b \in mined : a # b /\ a.names \cap b.names # {}

=============================================================================
