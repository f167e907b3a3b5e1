----------------------------- MODULE FileSearch -----------------------------
(***************************************************************************)
(* File search with an expanding ring (gossiper/fileSearching.go, and      *)
(* filesearching/): requests carry a budget that gossipers split among     *)
(* their peers; replies tell the searcher who has which chunks; a search   *)
(* ends when enough files are known completely, or times out.              *)
(*                                                                         *)
(* One gossiper searches, with one set of keywords that every file         *)
(* matches.  Replies are carried back by DSDV routing, which is not        *)
(* modelled here.  A lost packet is one that is never received: nothing    *)
(* says that packets arrive.  Two replies of a gossiper are equal, and the *)
(* second one changes nothing, so one on the wire stands for both.         *)
(***************************************************************************)
EXTENDS Integers, FiniteSets, FiniteSetsExt, Bags

CONSTANTS
    Node,           \* the gossipers
    Me,             \* the one that searches
    Peers,          \* Peers[n]: addresses n knows
    File,           \* the files, by metahash
    Chunk,          \* the chunk indices of every file
    Has,            \* Has[n][f]: the chunks of f that n lists in its results
    Threshold,      \* ThresholdTotalMatches
    InitialBudget,  \* the budget of the client's request, 0 for an expanding ring
    MaximumBudget,  \* the budget at which the ring stops to expand
    Search,         \* bound: the searches, all with the same keywords
    None            \* no search

\* Listeners add every sender to their peers, so peers know each other.
ASSUME NetAssumption == /\ IsFiniteSet(Node) /\ IsFiniteSet(File)
                        /\ Me \in Node /\ Peers \in [Node -> SUBSET Node]
                        /\ \A m, n \in Node : m \in Peers[n] => n \in Peers[m] /\ m # n
                        /\ Has \in [Node -> [File -> SUBSET Chunk]]
                        /\ None \notin Search
\* Doubling a budget of 2 meets the maximum, which is 32 in the code, and not more.
ASSUME BudgetAssumption ==
    /\ {Threshold, InitialBudget, MaximumBudget} \subseteq Nat
    /\ \E ring \in SUBSET (1..MaximumBudget) :
         2 \in ring /\ \A budget \in ring : budget < MaximumBudget => 2 * budget \in ring

VARIABLES
    requests,   \* bag of the search requests on the wire
    replies,    \* gossipers whose reply is on the wire
    recent,     \* recent[n]: timedIDs of n holds the search
    owners,     \* owners[f]: chunks of f with a known owner
    entry,      \* SafeSearchMap: the search registered for the keywords
    search,     \* search[s]: the goroutine searchFilesMatching
    closed,     \* searches whose channel is closed
    routine,    \* searchReplyListenRoutine
    panicked,   \* a send on a closed channel took the process down
    credit      \* history: budget handed out by searches and not yet spent

netVars == <<requests, replies, recent, credit>>
vars == <<netVars, owners, entry, search, closed, routine, panicked>>

Idle == [at |-> "idle"]
Total(f) == owners[f] = Chunk

Init ==
    /\ requests = EmptyBag /\ replies = {} /\ credit = 0
    /\ recent = [n \in Node |-> FALSE]
    /\ owners = [f \in File |-> {}]
    /\ entry = None /\ closed = {} /\ panicked = FALSE
    /\ search = [s \in Search |-> [at |-> "new", budget |-> 0, files |-> {}]]
    /\ routine = Idle

-----------------------------------------------------------------------------
(* Requests.  A gossiper's name is not among the addresses, so the searcher *)
(* itself is not left out when a request is passed on.                      *)

Shares(budget, peers) ==
    LET equal == budget \div Cardinality(peers) IN
    {share \in [peers -> {equal, equal + 1}] :
        Cardinality({p \in peers : share[p] = equal + 1}) = budget % Cardinality(peers)}

\* Mutant: every peer gets the rounded-up share.
ForwardRoundsUp(n, budget, sender, rest) ==
    LET peers == Peers[n] \ {sender} IN
    requests' = rest (+) SetToBag({[to |-> p, from |-> n,
                    budget |-> (budget + Cardinality(peers) - 1) \div Cardinality(peers)] :
                    p \in {q \in peers : budget > 0}})

\* forwardSearchRequest: "rest" is what else is on the wire.
ForwardSearchRequest(n, budget, sender, rest) ==
    LET peers == Peers[n] \ {sender} IN
    \/ peers = {} /\ requests' = rest
    \/ /\ peers # {}
       /\ \E share \in Shares(budget, peers) :
            requests' = rest (+) SetToBag({[to |-> p, from |-> n, budget |-> share[p]] :
                                            p \in {q \in peers : share[q] > 0}})

\* searchRequestListenRoutine: a repeat within half a second is ignored.
SearchRequest(req) ==
    LET n == req.to
        rest == requests (-) SetToBag({req})
    IN
    /\ ~ panicked \/ n # Me
    /\ \/ recent[n] /\ requests' = rest /\ UNCHANGED <<recent, replies, credit>>
       \/ /\ ~ recent[n]
          /\ recent' = [recent EXCEPT ![n] = TRUE]
          /\ credit' = credit - 1
          /\ replies' = IF n # Me /\ \E f \in File : Has[n][f] # {} THEN replies \cup {n} ELSE replies
          /\ ForwardSearchRequest(n, req.budget - 1, req.from, rest)
    /\ UNCHANGED <<owners, entry, search, closed, routine, panicked>>

\* The half second is over.
Forget(n) ==
    /\ recent[n] /\ recent' = [recent EXCEPT ![n] = FALSE]
    /\ UNCHANGED <<requests, replies, credit, owners, entry, search, closed, routine,
                   panicked>>

-----------------------------------------------------------------------------
(* searchFilesMatching                                                      *)

\* Mutant: files with missing chunks count.
LocalMatchesAll == {f \in File : owners[f] # {}}
\* Files of previous searches with a total match.
LocalMatches == {f \in File : Total(f)}

StartSearch(s) ==
    /\ search[s].at = "new"
    /\ search' = [search EXCEPT ![s].files = LocalMatches,
                     ![s].at = IF Cardinality(LocalMatches) < Threshold THEN "add" ELSE "done"]
    /\ UNCHANGED <<netVars, owners, entry, closed, routine, panicked>>

\* AddListenerWithFiles, and the first request.
AddListener(s) ==
    /\ search[s].at = "add"
    /\ \/ /\ entry # None
          /\ search' = [search EXCEPT ![s].at = "refused"]
          /\ UNCHANGED <<entry, requests, credit>>
       \/ LET budget == IF InitialBudget = 0 THEN 2 ELSE InitialBudget IN
          /\ entry = None /\ entry' = s
          /\ search' = [search EXCEPT ![s].at = "wait", ![s].budget = budget]
          /\ credit' = credit + budget
          /\ ForwardSearchRequest(Me, budget, None, requests)
    /\ UNCHANGED <<replies, recent, owners, closed, routine, panicked>>

\* Mutant: the ring expands for ever.
ExpandOnAndOn(s) ==
    LET budget == 2 * search[s].budget IN
    /\ search[s].at = "wait" /\ InitialBudget = 0 /\ budget <= 4 * MaximumBudget
    /\ search' = [search EXCEPT ![s].budget = budget]
    /\ credit' = credit + budget
    /\ ForwardSearchRequest(Me, budget, None, requests)
    /\ UNCHANGED <<replies, recent, owners, entry, closed, routine, panicked>>

\* The ticker t1.
Expand(s) ==
    LET budget == 2 * search[s].budget IN
    /\ search[s].at = "wait" /\ InitialBudget = 0 /\ search[s].budget < MaximumBudget
    /\ search' = [search EXCEPT ![s].budget = budget]
    /\ credit' = credit + budget
    /\ ForwardSearchRequest(Me, budget, None, requests)
    /\ UNCHANGED <<replies, recent, owners, entry, closed, routine, panicked>>

\* Mutant: the search goes on after its timeout.
SearchTimeoutOnly(s) ==
    /\ search[s].at = "wait" /\ entry # None /\ entry' = None
    /\ UNCHANGED <<netVars, owners, search, closed, routine, panicked>>

\* The ticker t2: RemoveListener, whoever is registered, ...
SearchTimeout(s) ==
    /\ search[s].at = "wait"
    /\ entry' = None
    /\ search' = [search EXCEPT ![s].at = "drain"]
    /\ UNCHANGED <<netVars, owners, closed, routine, panicked>>

\* The reply routine goes on with the other results of the reply.
Results(todo) == [at |-> "results", node |-> routine.node, todo |-> todo]
Informing(s) == routine.at = "inform" /\ routine.search = s

\* ... a select that frees a sender which has come to its send, if there is one, ...
Drain(s) ==
    /\ search[s].at = "drain"
    /\ search' = [search EXCEPT ![s].at = "close"]
    /\ \/ UNCHANGED routine
       \/ Informing(s) /\ routine' = Results(routine.todo)
    /\ UNCHANGED <<netVars, owners, entry, closed, panicked>>

\* Mutant: the channel stays open.
CloseNot(s) ==
    /\ search[s].at = "close"
    /\ search' = [search EXCEPT ![s].at = "failed"]
    /\ UNCHANGED <<netVars, owners, entry, closed, routine, panicked>>

\* ... and close.
Close(s) ==
    /\ search[s].at = "close"
    /\ closed' = closed \cup {s}
    /\ search' = [search EXCEPT ![s].at = "failed"]
    /\ UNCHANGED <<netVars, owners, entry, routine, panicked>>

-----------------------------------------------------------------------------
(* searchReplyListenRoutine                                                 *)

ReceiveReply(n) ==
    /\ routine = Idle /\ n \in replies
    /\ replies' = replies \ {n}
    /\ routine' = [at |-> "results", node |-> n, todo |-> {f \in File : Has[n][f] # {}}]
    /\ UNCHANGED <<requests, recent, credit, owners, entry, search, closed, panicked>>

\* UpdateWithSearchResult: only the result that completes a file informs searches.
UpdateOwners ==
    LET n == routine.node IN
    /\ routine.at = "results"
    /\ \/ routine.todo = {} /\ routine' = Idle /\ UNCHANGED owners
       \/ \E f \in routine.todo :
            /\ owners' = [owners EXCEPT ![f] = @ \cup Has[n][f]]
            /\ routine' = IF ~ Total(f) /\ owners[f] \cup Has[n][f] = Chunk
                          THEN [at |-> "range", node |-> n, todo |-> routine.todo \ {f}, file |-> f]
                          ELSE [routine EXCEPT !.todo = @ \ {f}]
    /\ UNCHANGED <<netVars, entry, search, closed, panicked>>

\* InformListeners: Range finds the search that is registered.
RangeSearches ==
    /\ routine.at = "range"
    /\ routine' = IF entry = None THEN Results(routine.todo)
                  ELSE [at |-> "append", node |-> routine.node, todo |-> routine.todo,
                        file |-> routine.file, search |-> entry]
    /\ UNCHANGED <<netVars, owners, entry, search, closed, panicked>>

\* AppendFiles, and with enough files Delete of whatever is registered by now.
AppendFiles ==
    LET s == routine.search
        files == search[s].files \cup {routine.file}
        enough == Cardinality(files) >= Threshold
    IN
    /\ routine.at = "append"
    /\ search' = [search EXCEPT ![s].files = files]
    /\ entry' = IF enough THEN None ELSE entry
    /\ routine' = IF enough THEN [at |-> "inform", node |-> routine.node, todo |-> routine.todo,
                                  search |-> s]
                  ELSE Results(routine.todo)
    /\ UNCHANGED <<netVars, owners, closed, panicked>>

\* Inform: the unbuffered channel meets the search, or is closed.
Inform ==
    LET s == routine.search IN
    /\ routine.at = "inform"
    /\ \/ /\ s \in closed /\ panicked' = TRUE
          /\ UNCHANGED <<search, routine>>
       \/ /\ s \notin closed /\ search[s].at = "wait"
          /\ search' = [search EXCEPT ![s].at = "done"]
          /\ routine' = Results(routine.todo)
          /\ UNCHANGED panicked
    /\ UNCHANGED <<netVars, owners, entry, closed>>

-----------------------------------------------------------------------------
Searching(s) == /\ ~ panicked
                /\ \/ StartSearch(s) \/ AddListener(s) \/ Expand(s)
                   \/ SearchTimeout(s) \/ Drain(s) \/ Close(s)
Routine == /\ ~ panicked
           /\ \/ UpdateOwners \/ RangeSearches \/ AppendFiles \/ Inform
              \/ \E n \in replies : ReceiveReply(n)

Next ==
    \/ \E req \in DOMAIN requests : SearchRequest(req)
    \/ \E n \in Node : Forget(n)
    \/ \E s \in Search : Searching(s)
    \/ Routine

Spec == Init /\ [][Next]_vars

\* Goroutines that can run do run; the timeout of a search comes in the end.
FairSpec ==
    /\ Spec /\ WF_vars(Routine)
    /\ \A s \in Search :
        /\ WF_vars(~ panicked /\ SearchTimeout(s))
        /\ WF_vars(~ panicked /\ (StartSearch(s) \/ AddListener(s) \/ Drain(s) \/ Close(s)))

-----------------------------------------------------------------------------
(* Properties                                                               *)

\* Type correctness; in particular the ring stops expanding at MaximumBudget and
\* a request never carries an empty budget, which would wrap around below zero.
TypeOK ==
    /\ IsABag(requests)
    /\ \A req \in DOMAIN requests : /\ req.to \in Node /\ req.from \in Node
                                    /\ req.budget \in Nat \ {0}
    /\ replies \subseteq Node \ {Me} /\ recent \in [Node -> BOOLEAN]
    /\ owners \in [File -> SUBSET Chunk] /\ entry \in Search \cup {None}
    /\ closed \subseteq Search /\ panicked \in BOOLEAN
    /\ \A s \in Search :
        /\ search[s].at \in {"new", "add", "wait", "drain", "close", "done", "failed", "refused"}
        /\ search[s].budget <= Max({MaximumBudget, 2, InitialBudget}) /\ search[s].files \subseteq File
    /\ routine.at \in {"idle", "results", "range", "append", "inform"}
    /\ credit \in Int

\* A search reaches no more gossipers than its requests had budget for: what was
\* spent and what is still on the wire never exceeds what searches handed out.
BudgetRespected ==
    MapThenSumSet(LAMBDA req : req.budget * requests[req], DOMAIN requests)
        <= credit

\* The answer of a search is worth its name: at least the threshold of files, and
\* of each every chunk has a known owner, although files are appended by the
\* reply routine while searches come and go.
SearchSound ==
    \A s \in Search : search[s].at = "done" =>
        /\ Cardinality(search[s].files) >= Threshold
        /\ \A f \in search[s].files : Total(f)

\* searchReplyListenRoutine, which serves all searches, is never blocked for ever
\* in Inform by a search that stopped listening.
ReplyRoutineFree == (routine.at = "inform") ~> (routine.at # "inform" \/ panicked)

\* A search ends with an answer, a refusal or its timeout.
SearchEnds ==
    \A s \in Search :
        (search[s].at = "add") ~> (search[s].at \in {"done", "failed", "refused"} \/ panicked)
=============================================================================
