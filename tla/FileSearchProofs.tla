-------------------------- MODULE FileSearchProofs --------------------------
(***************************************************************************)
(* The answer of a search is sound, no request carries an empty budget and *)
(* requests never carry more budget together than the searches handed out, *)
(* for any network, files, threshold and number of searches.               *)
(***************************************************************************)
EXTENDS FileSearch, FiniteSetTheorems, WellFoundedInduction, TLAPS

-----------------------------------------------------------------------------
(* The inductive invariant                                                  *)

SearchState ==
    [at : {"new", "add", "wait", "drain", "close", "done", "failed", "refused"},
     budget : Nat, files : SUBSET File]

RoutineState ==
    {Idle} \cup [at : {"results"}, node : Node, todo : SUBSET File]
           \cup [at : {"range"}, node : Node, todo : SUBSET File, file : File]
           \cup [at : {"append"}, node : Node, todo : SUBSET File, file : File, search : Search]
           \cup [at : {"inform"}, node : Node, todo : SUBSET File, search : Search]

\* Requests have a budget to spend, and all together not more than was handed out.
RequestOK(req) == req.to \in Node /\ req.from \in Node /\ req.budget \in Nat \ {0}
RequestBag(bag) ==
    /\ IsABag(bag) /\ IsFiniteSet(DOMAIN bag)
    /\ \A req \in DOMAIN bag : RequestOK(req)
WireBudget(bag) == MapThenSumSet(LAMBDA req : req.budget * bag[req], DOMAIN bag)
Requests == RequestBag(requests) /\ WireBudget(requests) <= credit

States ==
    /\ search \in [Search -> SearchState] /\ routine \in RoutineState
    /\ replies \subseteq Node \ {Me} /\ recent \in [Node -> BOOLEAN]
    /\ owners \in [File -> SUBSET Chunk] /\ entry \in Search \cup {None}
    /\ closed \subseteq Search /\ panicked \in BOOLEAN /\ credit \in Int

\* A budget is the client's or one of the expanding ring, which stops at the maximum.
Ring ==
    CHOOSE ring \in SUBSET (1..MaximumBudget) :
        2 \in ring /\ \A budget \in ring : budget < MaximumBudget => 2 * budget \in ring

Budgets == \A s \in Search : search[s].budget \in {0, InitialBudget} \cup Ring

\* The files of a search are complete, and a search that is done has enough of them.
SearchesOK ==
    \A s \in Search : /\ \A f \in search[s].files : owners[f] = Chunk
                      /\ search[s].at = "done" => Cardinality(search[s].files) >= Threshold

\* The reply routine works for a search that has begun, which it informs of enough files.
RoutineOK ==
    /\ \A s \in Search : entry = s => search[s].at \notin {"new", "add"}
    /\ routine.at \in {"range", "append"} => owners[routine.file] = Chunk
    /\ routine.at \in {"append", "inform"} => search[routine.search].at \notin {"new", "add"}
    /\ routine.at = "inform" => Cardinality(search[routine.search].files) >= Threshold

IInv == Requests /\ States /\ Budgets /\ SearchesOK /\ RoutineOK

-----------------------------------------------------------------------------
(* Sums over finite sets                                                    *)

\* Of a family of subsets of a finite set, one has no smaller one in the family.
LEMMA MinimalSubset ==
    ASSUME NEW S, IsFiniteSet(S), NEW family \in SUBSET SUBSET S, family # {}
    PROVE  \E s \in family : \A x \in s : s \ {x} \notin family
<1> DEFINE sizes == {Cardinality(s) : s \in family}
<1>1. \A s \in family : IsFiniteSet(s) /\ Cardinality(s) \in Nat
  BY FS_Subset, FS_CardinalityType
<1>2. sizes \in SUBSET Nat /\ sizes # {}
  BY <1>1
<1>3. PICK k \in sizes : \A j \in sizes : ~ (<<j, k>> \in OpToRel(<, Nat))
  <2> HIDE DEF sizes
  <2> QED  BY <1>2, NatLessThanWellFounded, WFMin
<1>4. PICK s \in family : Cardinality(s) = k
  BY <1>3
<1>5. ASSUME NEW x \in s, s \ {x} \in family  PROVE FALSE
  <2>1. Cardinality(s \ {x}) = Cardinality(s) - 1
    BY <1>1, FS_RemoveElement
  <2>2. Cardinality(s \ {x}) \in sizes /\ Cardinality(s) \in Nat /\ Cardinality(s \ {x}) \in Nat
    BY <1>1, <1>5
  <2>3. Cardinality(s \ {x}) < k
    BY <1>4, <2>1, <2>2
  <2> QED  BY <1>2, <1>3, <1>4, <2>2, <2>3 DEF OpToRel
<1> QED  BY <1>5

\* A sum counts units: as many for each member as its weight.
Units(w, s) == {u \in s \X Nat : u[2] \in 1..w[u[1]]}

LEMMA UnitsOfMember ==
    ASSUME NEW s, NEW w, NEW x \in s, w[x] \in Nat, IsFiniteSet(Units(w, s \ {x}))
    PROVE  /\ IsFiniteSet(Units(w, s))
           /\ Cardinality(Units(w, s)) = w[x] + Cardinality(Units(w, s \ {x}))
<1> DEFINE column == {x} \X (1..w[x])
<1>1. Units(w, s) = Units(w, s \ {x}) \cup column /\ Units(w, s \ {x}) \cap column = {}
  BY DEF Units
<1>2. IsFiniteSet(column) /\ Cardinality(column) = w[x]
  <2>1. IsFiniteSet(1..w[x]) /\ Cardinality(1..w[x]) = w[x]
    <3>1. w[x] \in Int /\ 1 \in Int /\ (IF 1 > w[x] THEN 0 ELSE w[x] - 1 + 1) = w[x]
      OBVIOUS
    <3> QED  BY <3>1, FS_Interval
  <2> DEFINE f == [i \in 1..w[x] |-> <<x, i>>]
  <2>2. f \in Surjection(1..w[x], column) /\ f \in Injection(1..w[x], column)
    <3>1. \A u \in column : u[2] \in 1..w[x] /\ u = <<x, u[2]>>
      OBVIOUS
    <3>2. f \in [1..w[x] -> column]
      OBVIOUS
    <3>3. \A i, j \in 1..w[x] : f[i] = f[j] => i = j
      OBVIOUS
    <3>4. \A u \in column : \E i \in 1..w[x] : f[i] = u
      <4> TAKE u \in column
      <4> WITNESS u[2] \in 1..w[x]
      <4> QED  BY <3>1
    <3> HIDE DEF f, column
    <3> QED  BY <3>2, <3>3, <3>4 DEF Surjection, Injection, IsInjective
  <2> HIDE DEF f, column
  <2> QED  BY <2>1, <2>2, FS_Surjection
<1>3. Cardinality(Units(w, s \ {x})) \in Nat /\ Cardinality({}) = 0
  BY FS_CardinalityType, FS_EmptySet
<1> HIDE DEF column
<1>4. /\ IsFiniteSet(Units(w, s \ {x}) \cup column)
      /\ Cardinality(Units(w, s \ {x}) \cup column) =
            Cardinality(Units(w, s \ {x})) + Cardinality(column)
              - Cardinality(Units(w, s \ {x}) \cap column)
  BY <1>2, FS_Union
<1>5. Cardinality(Units(w, s \ {x}) \cap column) = 0
  BY <1>1, <1>3
<1>6. IsFiniteSet(Units(w, s)) /\ Cardinality(Units(w, s)) = Cardinality(Units(w, s \ {x}) \cup column)
  BY <1>1, <1>4
<1> QED  BY <1>2, <1>3, <1>4, <1>5, <1>6

LEMMA UnitsFacts ==
    ASSUME NEW S, IsFiniteSet(S), NEW w \in [S -> Nat]
    PROVE  \A s \in SUBSET S :
             /\ Cardinality(Units(w, s)) \in Nat
             /\ s = {} => Cardinality(Units(w, s)) = 0
             /\ \A x \in s : Cardinality(Units(w, s)) = w[x] + Cardinality(Units(w, s \ {x}))
<1> DEFINE infinite == {s \in SUBSET S : ~ IsFiniteSet(Units(w, s))}
<1>1. Units(w, {}) = {}
  BY DEF Units
<1>2. ASSUME infinite # {}  PROVE FALSE
  <2>1. PICK s \in infinite : \A x \in s : s \ {x} \notin infinite
    <3>1. infinite \in SUBSET SUBSET S
      OBVIOUS
    <3> HIDE DEF infinite
    <3> QED  BY <1>2, <3>1, MinimalSubset
  <2>2. PICK x \in s : TRUE
    BY <1>1, <2>1, FS_EmptySet
  <2>3. IsFiniteSet(Units(w, s \ {x})) /\ w[x] \in Nat
    BY <2>1, <2>2
  <2> QED  BY <2>1, <2>2, <2>3, UnitsOfMember
<1>3. \A s \in SUBSET S : IsFiniteSet(Units(w, s)) /\ Cardinality(Units(w, s)) \in Nat
  BY <1>2, FS_CardinalityType
<1>4. \A s \in SUBSET S : \A x \in s :
        Cardinality(Units(w, s)) = w[x] + Cardinality(Units(w, s \ {x}))
  BY <1>3, UnitsOfMember
<1> QED  BY <1>1, <1>3, <1>4, FS_EmptySet

\* What the recursive function behind a sum computes is the number of units.
Adds(f, w, S) ==
    f = [s \in SUBSET S |-> IF s = {} THEN 0
                            ELSE w[CHOOSE x \in s : TRUE] + f[s \ {CHOOSE x \in s : TRUE}]]

LEMMA AddsUnits ==
    ASSUME NEW S, IsFiniteSet(S), NEW w \in [S -> Nat]
    PROVE  \A f : Adds(f, w, S) <=> f = [s \in SUBSET S |-> Cardinality(Units(w, s))]
<1> DEFINE count == [s \in SUBSET S |-> Cardinality(Units(w, s))]
<1>1. \A s \in SUBSET S : /\ count[s] \in Nat /\ (s = {} => count[s] = 0)
                          /\ \A x \in s : count[s] = w[x] + count[s \ {x}]
  BY UnitsFacts
<1>2. \A s \in SUBSET S : s # {} => (CHOOSE x \in s : TRUE) \in s
  OBVIOUS
<1>3. DOMAIN count = SUBSET S /\ count = [s \in SUBSET S |-> count[s]]
  OBVIOUS
<1> HIDE DEF count
<1>4. Adds(count, w, S)
  <2>1. \A s \in SUBSET S : count[s] = IF s = {} THEN 0
                    ELSE w[CHOOSE x \in s : TRUE] + count[s \ {CHOOSE x \in s : TRUE}]
    BY <1>1, <1>2
  <2> QED  BY <1>3, <2>1 DEF Adds
<1>5. ASSUME NEW f, Adds(f, w, S)  PROVE f = count
  <2> DEFINE other == {s \in SUBSET S : f[s] # count[s]}
  <2>1. ASSUME other # {}  PROVE FALSE
    <3>1. PICK s \in other : \A x \in s : s \ {x} \notin other
      <4>1. other \in SUBSET SUBSET S
        OBVIOUS
      <4> HIDE DEF other
      <4> QED  BY <2>1, <4>1, MinimalSubset
    <3>2. PICK x : x = (CHOOSE y \in s : TRUE)
      OBVIOUS
    <3>3. f[s] = IF s = {} THEN 0 ELSE w[x] + f[s \ {x}]
      BY <1>5, <3>1, <3>2 DEF Adds
    <3>4. s # {} => x \in s /\ f[s \ {x}] = count[s \ {x}]
      BY <1>2, <3>1, <3>2
    <3> QED  BY <1>1, <3>1, <3>3, <3>4
  <2>2. DOMAIN f = SUBSET S /\ f = [s \in SUBSET S |-> f[s]]
    BY <1>5 DEF Adds
  <2> QED  BY <1>3, <2>1, <2>2
<1> QED  BY <1>4, <1>5 DEF count

-----------------------------------------------------------------------------
(* The budget on the wire                                                   *)

Weight(bag) == [req \in DOMAIN bag |-> req.budget * bag[req]]

LEMMA WireBudgetCounts ==
    ASSUME NEW bag, RequestBag(bag)
    PROVE  /\ Weight(bag) \in [DOMAIN bag -> Nat]
           /\ WireBudget(bag) = Cardinality(Units(Weight(bag), DOMAIN bag))
           /\ WireBudget(bag) \in Nat
<1> DEFINE S == DOMAIN bag
           w == Weight(bag)
           count == [s \in SUBSET S |-> Cardinality(Units(w, s))]
<1>1. w \in [S -> Nat]
  <2>1. \A req \in S : req.budget \in Nat /\ bag[req] \in Nat
    BY DEF RequestBag, RequestOK, IsABag
  <2>2. \A req \in S : req.budget * bag[req] \in Nat
    BY <2>1
  <2> QED  BY <2>2 DEF Weight
<1>2. IsFiniteSet(S)
  BY DEF RequestBag
<1>3. \A f : Adds(f, w, S) <=> f = count
  <2> HIDE DEF w, S
  <2> QED  BY <1>1, <1>2, AddsUnits DEF w, S
<1> HIDE DEF count
<1>4. \A f : f = [s \in SUBSET S |-> IF s = {} THEN 0
                    ELSE LET x == CHOOSE x \in s : TRUE IN x.budget * bag[x] + f[s \ {x}]]
             <=> f = count
  <2>1. \A s \in SUBSET S : s # {} => (CHOOSE x \in s : TRUE) \in S
    OBVIOUS
  <2>2. \A s \in SUBSET S : s # {} => w[CHOOSE x \in s : TRUE]
                                 = (CHOOSE x \in s : TRUE).budget * bag[CHOOSE x \in s : TRUE]
    BY <2>1 DEF Weight
  <2> HIDE DEF w
  <2> TAKE f
  <2> DEFINE one == [s \in SUBSET S |-> IF s = {} THEN 0
                       ELSE w[CHOOSE x \in s : TRUE] + f[s \ {CHOOSE x \in s : TRUE}]]
             two == [s \in SUBSET S |-> IF s = {} THEN 0
                       ELSE LET x == CHOOSE x \in s : TRUE IN x.budget * bag[x] + f[s \ {x}]]
  <2>3. one = two
    BY <2>2
  <2>4. f = one <=> f = count
    BY <1>3 DEF Adds
  <2> HIDE DEF one
  <2> QED  BY <2>3, <2>4
<1>5. WireBudget(bag) = count[S]
  BY <1>4 DEF WireBudget, MapThenSumSet, MapThenFoldSet
<1>6. count[S] = Cardinality(Units(w, S))
  BY DEF count
<1>7. Cardinality(Units(w, S)) \in Nat
  <2> HIDE DEF w, S
  <2> QED  BY <1>1, <1>2, UnitsFacts
<1> QED  BY <1>1, <1>5, <1>6, <1>7

\* A request adds its budget.
LEMMA AddRequest ==
    ASSUME NEW bag, RequestBag(bag), NEW req, RequestOK(req)
    PROVE  LET more == bag (+) SetToBag({req}) IN
           /\ RequestBag(more) /\ DOMAIN more = DOMAIN bag \cup {req}
           /\ WireBudget(bag) \in Nat /\ WireBudget(more) = WireBudget(bag) + req.budget
<1> DEFINE more == bag (+) SetToBag({req})
           S == DOMAIN bag
           T == S \cup {req}
<1>1. bag \in [S -> {n \in Nat : n > 0}] /\ IsFiniteSet(S)
  BY DEF RequestBag, IsABag
<1>2. more = [e \in T |-> (IF e \in S THEN bag[e] ELSE 0) + (IF e \in {req} THEN 1 ELSE 0)]
  BY DEF (+), SetToBag
<1>3. /\ \A e \in S : e # req => more[e] = bag[e]
      /\ more[req] = (IF req \in S THEN bag[req] ELSE 0) + 1
      /\ DOMAIN more = T /\ \A e \in T : more[e] \in Nat /\ more[e] > 0
  BY <1>1, <1>2
<1>4. more \in [T -> {n \in Nat : n > 0}]
  BY <1>2, <1>3
<1>5. IsFiniteSet(T)
  BY <1>1, FS_AddElement
<1> HIDE DEF more
<1>6. RequestBag(more)
  BY <1>3, <1>4, <1>5 DEF RequestBag, IsABag
<1> DEFINE v == Weight(bag)
           w == Weight(more)
           rest == S \ {req}
<1>7. /\ v \in [S -> Nat] /\ WireBudget(bag) = Cardinality(Units(v, S)) /\ WireBudget(bag) \in Nat
      /\ w \in [T -> Nat] /\ WireBudget(more) = Cardinality(Units(w, T))
  BY <1>3, <1>6, WireBudgetCounts
<1>8. /\ \A e \in rest : w[e] = v[e]
      /\ w[req] = req.budget * more[req] /\ (req \in S => v[req] = req.budget * bag[req])
  BY <1>3 DEF Weight
<1>9. w[req] = (IF req \in S THEN v[req] ELSE 0) + req.budget
  <2>1. req.budget \in Nat /\ (req \in S => bag[req] \in Nat)
    BY <1>1 DEF RequestOK
  <2>2. req \in S => req.budget * (bag[req] + 1) = req.budget * bag[req] + req.budget
    BY <2>1
  <2>3. req.budget * (0 + 1) = 0 + req.budget
    BY <2>1
  <2> QED  BY <1>3, <1>8, <2>2, <2>3
<1> HIDE DEF v, w
<1>10. Cardinality(Units(w, T)) = w[req] + Cardinality(Units(w, rest))
  <2>1. T \ {req} = rest /\ req \in T
    OBVIOUS
  <2> HIDE DEF T, rest
  <2> QED  BY <1>5, <1>7, <2>1, UnitsFacts
<1>11. Units(w, rest) = Units(v, rest)
  BY <1>8 DEF Units
<1>12. Cardinality(Units(v, S)) = (IF req \in S THEN v[req] ELSE 0) + Cardinality(Units(v, rest))
  <2>1. CASE req \in S
    <3> HIDE DEF S
    <3> QED  BY <1>1, <1>7, <2>1, UnitsFacts
  <2>2. CASE req \notin S
    <3>1. rest = S
      BY <2>2
    <3> HIDE DEF S, rest
    <3> QED  BY <1>7, <2>2, <3>1
  <2> QED  BY <2>1, <2>2
<1>13. Cardinality(Units(v, rest)) \in Nat
  <2>1. rest \in SUBSET S
    OBVIOUS
  <2> HIDE DEF S, rest
  <2> QED  BY <1>1, <1>7, <2>1, UnitsFacts
<1>14. req.budget \in Nat /\ (req \in S => v[req] \in Nat)
  BY <1>7 DEF RequestOK
<1>15. WireBudget(more) = WireBudget(bag) + req.budget
  <2>1. PICK a \in Nat : a = IF req \in S THEN v[req] ELSE 0
    BY <1>14
  <2>2. PICK b \in Nat : b = Cardinality(Units(v, rest))
    BY <1>13
  <2>3. WireBudget(more) = a + req.budget + b /\ WireBudget(bag) = a + b
    BY <1>7, <1>9, <1>10, <1>11, <1>12, <2>1, <2>2
  <2> QED  BY <1>14, <2>3
<1> QED  BY <1>3, <1>6, <1>7, <1>15 DEF more

\* What is taken from the wire takes its budget along.
LEMMA TakeRequest ==
    ASSUME NEW bag, RequestBag(bag), NEW req \in DOMAIN bag
    PROVE  LET rest == bag (-) SetToBag({req}) IN
           /\ RequestBag(rest) /\ WireBudget(rest) \in Nat
           /\ WireBudget(bag) = WireBudget(rest) + req.budget
<1> DEFINE rest == bag (-) SetToBag({req})
           S == DOMAIN bag
           left == [e \in S |-> IF e = req THEN bag[e] - 1 ELSE bag[e]]
<1>1. bag \in [S -> {n \in Nat : n > 0}] /\ IsFiniteSet(S) /\ RequestOK(req)
  BY DEF RequestBag, IsABag
<1>2. SetToBag({req}) = [e \in {req} |-> 1]
  BY DEF SetToBag
<1>3. rest = [e \in {x \in DOMAIN left : left[x] > 0} |-> left[e]]
  BY <1>2 DEF (-)
<1>4. /\ DOMAIN left = S /\ left[req] = bag[req] - 1 /\ left[req] \in Nat
      /\ \A e \in S : e # req => left[e] = bag[e]
  BY <1>1
<1> HIDE DEF left
<1>5. /\ DOMAIN rest \subseteq S /\ S = DOMAIN rest \cup {req}
      /\ \A e \in DOMAIN rest : rest[e] \in Nat /\ rest[e] > 0
      /\ \A e \in S : e # req => e \in DOMAIN rest /\ rest[e] = bag[e]
      /\ req \in DOMAIN rest => rest[req] = bag[req] - 1
      /\ req \notin DOMAIN rest => bag[req] = 1
  BY <1>1, <1>3, <1>4
<1>6. rest = [e \in DOMAIN rest |-> rest[e]]
  BY <1>3
<1>7. rest \in [DOMAIN rest -> {n \in Nat : n > 0}] /\ IsFiniteSet(DOMAIN rest)
  BY <1>1, <1>5, <1>6, FS_Subset
<1> HIDE DEF rest
<1>8. RequestBag(rest)
  BY <1>5, <1>7 DEF RequestBag, IsABag
<1>9. bag = rest (+) SetToBag({req})
  <2> DEFINE sum == [e \in DOMAIN rest \cup {req} |->
                        (IF e \in DOMAIN rest THEN rest[e] ELSE 0) + (IF e \in {req} THEN 1 ELSE 0)]
  <2>1. rest (+) SetToBag({req}) = sum
    BY DEF (+), SetToBag
  <2>2. \A e \in S : sum[e] = bag[e]
    BY <1>1, <1>5
  <2>3. DOMAIN sum = S /\ sum = [e \in S |-> sum[e]]
    BY <1>5
  <2> HIDE DEF sum
  <2> QED  BY <1>1, <2>1, <2>2, <2>3
<1>10. WireBudget(rest) \in Nat /\ WireBudget(rest (+) SetToBag({req})) = WireBudget(rest) + req.budget
  BY <1>1, <1>8, AddRequest
<1> QED  BY <1>8, <1>9, <1>10 DEF rest

\* The shares of the peers add up to the budget: the rest of the division is given to
\* as many peers, one each.
LEMMA SharesAddUp ==
    ASSUME NEW n \in Node, NEW budget \in Nat, NEW peers \in SUBSET Node, peers # {},
           NEW share \in Shares(budget, peers), NEW rest, RequestBag(rest)
    PROVE  LET all == rest (+) SetToBag({[to |-> p, from |-> n, budget |-> share[p]] :
                                            p \in {q \in peers : share[q] > 0}})
           IN  RequestBag(all) /\ WireBudget(all) = WireBudget(rest) + budget
<1> DEFINE equal == budget \div Cardinality(peers)
           Sent(s) == {[to |-> p, from |-> n, budget |-> share[p]] : p \in {q \in s : share[q] > 0}}
           Wire(s) == rest (+) SetToBag(Sent(s))
           More(s) == {p \in s : share[p] = equal + 1}
           wrong == {s \in SUBSET peers :
                       ~ (/\ RequestBag(Wire(s))
                          /\ WireBudget(Wire(s))
                               = WireBudget(rest) + equal * Cardinality(s) + Cardinality(More(s)))}
<1>1. /\ IsFiniteSet(peers) /\ Cardinality(peers) \in Nat \ {0}
      /\ \A s \in SUBSET peers : IsFiniteSet(s) /\ Cardinality(s) \in Nat
  <2>1. IsFiniteSet(peers)
    BY FS_Subset, NetAssumption
  <2> QED  BY <2>1, FS_Subset, FS_CardinalityType, FS_EmptySet
<1>2. equal \in Nat
  BY <1>1
<1>3. /\ share \in [peers -> {equal, equal + 1}]
      /\ Cardinality(More(peers)) = budget % Cardinality(peers)
  BY DEF Shares
<1>4. WireBudget(rest) \in Nat
  BY WireBudgetCounts
<1> HIDE DEF equal
<1>5. \A s \in SUBSET peers : IsFiniteSet(More(s)) /\ Cardinality(More(s)) \in Nat
  <2> TAKE s \in SUBSET peers
  <2>1. More(s) \in SUBSET peers
    OBVIOUS
  <2> HIDE DEF More
  <2> QED  BY <1>1, <2>1
<1>6. {} \notin wrong
  <2>1. Sent({}) = {} /\ More({}) = {}
    OBVIOUS
  <2>2. Wire({}) = rest
    <3>1. rest \in [DOMAIN rest -> {k \in Nat : k > 0}]
      BY DEF RequestBag, IsABag
    <3>2. SetToBag({}) = [e \in {} |-> 1]
      BY DEF SetToBag
    <3>3. rest (+) SetToBag({}) = [e \in DOMAIN rest |-> rest[e] + 0]
      BY <3>2 DEF (+)
    <3>4. rest (+) SetToBag({}) = rest
      BY <3>1, <3>3
    <3> HIDE DEF Sent
    <3> QED  BY <2>1, <3>4
  <2>3. equal * 0 = 0
    BY <1>2
  <2> HIDE DEF Wire, More
  <2>4. RequestBag(Wire({})) /\ WireBudget(Wire({})) = WireBudget(rest) + 0 + 0
    BY <1>4, <2>2
  <2>5. equal * Cardinality({}) = 0 /\ Cardinality(More({})) = 0
    BY <2>1, <2>3, FS_EmptySet
  <2> QED  BY <2>4, <2>5
<1>7. ASSUME NEW s \in SUBSET peers, NEW x \in s, s \in wrong, s \ {x} \notin wrong  PROVE FALSE
  <2>1. PICK t \in SUBSET peers : t = s \ {x} /\ x \notin t /\ s = t \cup {x}
    <3>1. s \ {x} \in SUBSET peers /\ x \notin s \ {x} /\ s = (s \ {x}) \cup {x}
      <4> HIDE DEF wrong
      <4> QED  OBVIOUS
    <3> HIDE DEF wrong
    <3> QED  BY <3>1
  <2>2. /\ RequestBag(Wire(t))
        /\ WireBudget(Wire(t)) = WireBudget(rest) + equal * Cardinality(t) + Cardinality(More(t))
    BY <1>7, <2>1
  <2>3. Cardinality(s) = Cardinality(t) + 1 /\ Cardinality(t) \in Nat
    BY <1>1, <2>1, FS_AddElement
  <2>4. x \in peers /\ share[x] \in Nat /\ share[x] \in {equal, equal + 1}
    BY <1>2, <1>3
  <2>5. Cardinality(More(s)) = Cardinality(More(t)) + (share[x] - equal)
    <3>1. CASE share[x] = equal + 1
      <4>1. More(s) = More(t) \cup {x} /\ x \notin More(t)
        BY <2>1, <3>1
      <4> HIDE DEF More
      <4>2. Cardinality(More(s)) = Cardinality(More(t)) + 1
        BY <1>5, <4>1, FS_AddElement
      <4> QED  BY <1>2, <1>5, <3>1, <4>2
    <3>2. CASE share[x] = equal
      <4>1. More(s) = More(t)
        BY <1>2, <2>1, <3>2
      <4> HIDE DEF More
      <4> QED  BY <1>2, <1>5, <3>2, <4>1
    <3> QED  BY <2>4, <3>1, <3>2
  <2>6. RequestBag(Wire(s)) /\ WireBudget(Wire(s)) = WireBudget(Wire(t)) + share[x]
    <3>1. CASE share[x] = 0
      <4>1. Sent(s) = Sent(t)
        BY <2>1, <3>1
      <4>2. Wire(s) = Wire(t)
        <5> HIDE DEF Sent
        <5> QED  BY <4>1
      <4>3. WireBudget(Wire(t)) \in Nat
        <5> HIDE DEF Wire
        <5> QED  BY <2>2, WireBudgetCounts
      <4> HIDE DEF Wire
      <4> QED  BY <2>2, <3>1, <4>2, <4>3
    <3>2. CASE share[x] # 0
      <4>1. PICK req : req = [to |-> x, from |-> n, budget |-> share[x]]
        OBVIOUS
      <4>2. RequestOK(req) /\ req.budget = share[x] /\ req.to = x
        BY <2>4, <3>2, <4>1 DEF RequestOK
      <4>3. Sent(s) = Sent(t) \cup {req}
        BY <2>1, <2>4, <3>2, <4>1
      <4>4. req \notin Sent(t)
        BY <2>1, <4>2
      <4>5. Wire(s) = Wire(t) (+) SetToBag({req})
        <5> DEFINE U == Sent(t)
        <5>1. rest \in [DOMAIN rest -> {k \in Nat : k > 0}] /\ req \notin U
          BY <4>4 DEF RequestBag, IsABag
        <5> HIDE DEF U
        <5>2. rest (+) SetToBag(U \cup {req}) = (rest (+) SetToBag(U)) (+) SetToBag({req})
          <6> DEFINE D == DOMAIN rest
                     b == rest (+) SetToBag(U)
                     c == rest (+) SetToBag(U \cup {req})
                     d == b (+) SetToBag({req})
          <6>1. b = [e \in D \cup U |-> (IF e \in D THEN rest[e] ELSE 0) + (IF e \in U THEN 1 ELSE 0)]
            BY DEF (+), SetToBag
          <6>2. c = [e \in D \cup (U \cup {req}) |->
                        (IF e \in D THEN rest[e] ELSE 0) + (IF e \in U \cup {req} THEN 1 ELSE 0)]
            BY DEF (+), SetToBag
          <6>3. d = [e \in (DOMAIN b) \cup {req} |->
                        (IF e \in DOMAIN b THEN b[e] ELSE 0) + (IF e \in {req} THEN 1 ELSE 0)]
            BY DEF (+), SetToBag
          <6> HIDE DEF b, c, d
          <6>4. DOMAIN c = D \cup U \cup {req} /\ DOMAIN d = DOMAIN c
            BY <6>1, <6>2, <6>3
          <6>5. \A e \in D \cup U \cup {req} : c[e] = d[e]
            BY <5>1, <6>1, <6>2, <6>3
          <6>6. c = d
            BY <6>2, <6>3, <6>4, <6>5
          <6> QED  BY <6>6 DEF b, c, d
        <5>3. Sent(s) = U \cup {req}
          BY <4>3 DEF U
        <5>4. Wire(s) = rest (+) SetToBag(U \cup {req})
          <6> HIDE DEF Sent
          <6> QED  BY <5>3
        <5> QED  BY <5>2, <5>4 DEF U
      <4> HIDE DEF Wire
      <4> QED  BY <2>2, <4>2, <4>5, AddRequest
    <3> QED  BY <3>1, <3>2
  <2>7. equal * Cardinality(s) = equal * Cardinality(t) + equal
    BY <1>2, <2>3
  <2> DEFINE a == equal * Cardinality(t)
             m == Cardinality(More(t))
  <2>8. a \in Nat /\ m \in Nat
    <3>1. a \in Nat
      BY <1>2, <2>3
    <3> HIDE DEF More
    <3> QED  BY <1>5, <3>1
  <2>9. /\ WireBudget(Wire(s)) = WireBudget(rest) + a + m + share[x]
        /\ equal * Cardinality(s) = a + equal /\ Cardinality(More(s)) = m + (share[x] - equal)
    <3> HIDE DEF Wire, More
    <3> QED  BY <2>2, <2>5, <2>6, <2>7
  <2> HIDE DEF Wire, More, a, m
  <2>10. WireBudget(Wire(s)) = WireBudget(rest) + equal * Cardinality(s) + Cardinality(More(s))
    BY <1>2, <1>4, <2>4, <2>8, <2>9
  <2> QED  BY <1>7, <2>6, <2>10
<1>8. wrong = {}
  <2>1. wrong \in SUBSET SUBSET peers
    OBVIOUS
  <2> HIDE DEF wrong
  <2>2. ASSUME wrong # {}  PROVE FALSE
    <3>1. PICK s \in wrong : \A x \in s : s \ {x} \notin wrong
      BY <1>1, <2>1, <2>2, MinimalSubset
    <3>2. PICK x \in s : TRUE
      BY <1>6, <3>1
    <3> QED  BY <1>7, <2>1, <3>1, <3>2
  <2> QED  BY <2>2
<1>9. /\ RequestBag(Wire(peers))
      /\ WireBudget(Wire(peers))
           = WireBudget(rest) + equal * Cardinality(peers) + Cardinality(More(peers))
  <2> HIDE DEF Wire, More
  <2> QED  BY <1>8
<1>10. equal * Cardinality(peers) + (budget % Cardinality(peers)) = budget
  <2>1. PICK d \in Nat \ {0} : d = Cardinality(peers)
    BY <1>1
  <2>2. (budget \div d) * d + (budget % d) = budget
    OBVIOUS
  <2> QED  BY <2>1, <2>2 DEF equal
<1>11. equal * Cardinality(peers) \in Nat /\ budget % Cardinality(peers) \in Nat
  BY <1>1, <1>2
<1>12. WireBudget(Wire(peers)) = WireBudget(rest) + budget
  <2> HIDE DEF Wire, More
  <2> QED  BY <1>3, <1>4, <1>9, <1>10, <1>11
<1> QED  BY <1>9, <1>12

\* forwardSearchRequest sends requests with a budget only, and hands out no more than
\* the budget it was given.
LEMMA ForwardKeeps ==
    ASSUME NEW n \in Node, NEW budget \in Nat, NEW sender, NEW rest, RequestBag(rest),
           ForwardSearchRequest(n, budget, sender, rest)
    PROVE  /\ RequestBag(requests') /\ WireBudget(rest) \in Nat
           /\ WireBudget(requests') <= WireBudget(rest) + budget
<1> DEFINE peers == Peers[n] \ {sender}
<1>1. WireBudget(rest) \in Nat
  BY WireBudgetCounts
<1>2. CASE requests' = rest
  BY <1>1, <1>2
<1>3. ASSUME peers # {}, NEW share \in Shares(budget, peers),
             requests' = rest (+) SetToBag({[to |-> p, from |-> n, budget |-> share[p]] :
                                              p \in {q \in peers : share[q] > 0}})
      PROVE  RequestBag(requests') /\ WireBudget(requests') <= WireBudget(rest) + budget
  <2>1. peers \in SUBSET Node
    BY NetAssumption
  <2> HIDE DEF peers
  <2>2. RequestBag(requests') /\ WireBudget(requests') = WireBudget(rest) + budget
    BY <1>3, <2>1, SharesAddUp
  <2> QED  BY <1>1, <2>2
<1> QED  BY <1>1, <1>2, <1>3 DEF ForwardSearchRequest

-----------------------------------------------------------------------------
(* Requests                                                                 *)

\* A step that leaves the searches, the owners and the routine alone.
LEMMA SearchesUntouched ==
    ASSUME IInv, UNCHANGED <<owners, entry, search, closed, routine, panicked>>,
           Requests', replies' \subseteq Node \ {Me}, recent' \in [Node -> BOOLEAN], credit' \in Int
    PROVE  IInv'
<1>1. States'
  BY DEF IInv, States
<1>2. Budgets' /\ SearchesOK' /\ RoutineOK'
  BY DEF IInv, Budgets, SearchesOK, RoutineOK
<1> QED  BY <1>1, <1>2 DEF IInv

\* A gossiper receives a request.
LEMMA SearchRequestPreserves ==
    ASSUME IInv, NEW req \in DOMAIN requests, SearchRequest(req)
    PROVE  IInv'
<1> DEFINE n == req.to
           rest == requests (-) SetToBag({req})
<1>1. RequestBag(requests) /\ WireBudget(requests) <= credit /\ credit \in Int /\ RequestOK(req)
  BY DEF IInv, Requests, RequestBag, States
<1>2. n \in Node /\ req.budget \in Nat /\ req.budget - 1 \in Nat
  BY <1>1 DEF RequestOK
<1>3. /\ RequestBag(rest) /\ WireBudget(rest) \in Nat
      /\ WireBudget(requests) = WireBudget(rest) + req.budget
  BY <1>1, TakeRequest
<1> HIDE DEF rest
<1>4. UNCHANGED <<owners, entry, search, closed, routine, panicked>>
  BY DEF SearchRequest
<1>5. CASE requests' = rest /\ UNCHANGED <<recent, replies, credit>>
  <2>1. Requests'
    BY <1>1, <1>2, <1>3, <1>5 DEF Requests
  <2> QED  BY <1>4, <1>5, <2>1, SearchesUntouched DEF IInv, States
<1>6. CASE /\ recent' = [recent EXCEPT ![n] = TRUE] /\ credit' = credit - 1
           /\ replies' = IF n # Me /\ \E f \in File : Has[n][f] # {} THEN replies \cup {n} ELSE replies
           /\ ForwardSearchRequest(n, req.budget - 1, req.from, rest)
  <2>1. RequestBag(requests') /\ WireBudget(requests') <= WireBudget(rest) + (req.budget - 1)
    BY <1>2, <1>3, <1>6, ForwardKeeps
  <2>2. WireBudget(requests') \in Nat
    BY <2>1, WireBudgetCounts
  <2>3. Requests'
    BY <1>1, <1>2, <1>3, <1>6, <2>1, <2>2 DEF Requests
  <2>4. replies' \subseteq Node \ {Me} /\ recent' \in [Node -> BOOLEAN] /\ credit' \in Int
    BY <1>2, <1>6 DEF IInv, States
  <2> QED  BY <1>4, <2>3, <2>4, SearchesUntouched
<1> QED  BY <1>5, <1>6 DEF SearchRequest, rest

\* A gossiper forgets a search.
LEMMA ForgetPreserves ==
    ASSUME IInv, NEW n \in Node, Forget(n)
    PROVE  IInv'
<1>1. recent' \in [Node -> BOOLEAN]
  BY DEF Forget, IInv, States
<1>2. Requests'
  BY DEF Forget, IInv, Requests
<1> QED  BY <1>1, <1>2, SearchesUntouched DEF Forget, IInv, States

-----------------------------------------------------------------------------
(* Searches                                                                 *)

LEMMA RingFacts ==
    /\ Ring \in SUBSET (1..MaximumBudget)
    /\ 2 \in Ring /\ \A budget \in Ring : budget < MaximumBudget => 2 * budget \in Ring
  BY BudgetAssumption DEF Ring

\* A file set of a search is finite, and a larger one has no fewer files.
LEMMA FilesFinite ==
    ASSUME NEW small \in SUBSET File, NEW large \in SUBSET File, small \subseteq large
    PROVE  /\ IsFiniteSet(small) /\ Cardinality(small) \in Nat
           /\ Cardinality(small) <= Cardinality(large)
<1>1. IsFiniteSet(large)
  BY FS_Subset, NetAssumption
<1>2. IsFiniteSet(small) /\ Cardinality(small) <= Cardinality(large)
  BY <1>1, FS_Subset
<1> QED  BY <1>2, FS_CardinalityType

\* A search goes on and keeps its files; done it is with enough of them only, and once
\* it has begun it stays so.
LEMMA SearchGoesOn ==
    ASSUME IInv, NEW s \in Search, NEW at \in {"wait", "drain", "close", "done", "failed", "refused"},
           at = "done" => Cardinality(search[s].files) >= Threshold,
           NEW budget \in {0, InitialBudget} \cup Ring,
           search' \in [Search -> SearchState], search'[s].at = at, search'[s].budget = budget,
           search'[s].files = search[s].files, \A r \in Search : r # s => search'[r] = search[r],
           entry' \in {entry, None} \/ entry' = s,
           routine' \in {routine} \cup [at : {"results"}, node : Node, todo : SUBSET File],
           Requests', credit' \in Int, closed' \subseteq Search, UNCHANGED <<owners, replies, recent, panicked>>
    PROVE  IInv'
<1>1. States'
  <2>1. routine' \in RoutineState
    BY DEF IInv, States, RoutineState
  <2> QED  BY <2>1 DEF IInv, States
<1>2. Budgets'
  BY DEF IInv, Budgets
<1>3. SearchesOK'
  BY DEF IInv, SearchesOK
<1>4. RoutineOK'
  <2>1. \A r \in Search : entry' = r => search'[r].at \notin {"new", "add"}
    BY NetAssumption DEF IInv, RoutineOK
  <2>2. CASE routine' = routine
    <3>1. routine.at \in {"append", "inform"} => routine.search \in Search
      BY DEF IInv, States, RoutineState, Idle
    <3> QED  BY <2>1, <2>2, <3>1 DEF IInv, RoutineOK
  <2>3. CASE routine' \in [at : {"results"}, node : Node, todo : SUBSET File]
    BY <2>1, <2>3 DEF RoutineOK
  <2> QED  BY <2>2, <2>3
<1> QED  BY <1>1, <1>2, <1>3, <1>4 DEF IInv

\* A search starts with the files of previous searches.
LEMMA StartSearchPreserves ==
    ASSUME IInv, NEW s \in Search, StartSearch(s)
    PROVE  IInv'
<1> DEFINE files == LocalMatches
           at == IF Cardinality(files) < Threshold THEN "add" ELSE "done"
<1>1. /\ search[s].at = "new"
      /\ search' = [search EXCEPT ![s].files = files, ![s].at = at]
      /\ UNCHANGED <<requests, replies, recent, credit, owners, entry, closed, routine, panicked>>
  BY DEF StartSearch, netVars
<1>2. /\ files \in SUBSET File /\ \A f \in files : owners[f] = Chunk
      /\ at \in {"add", "done"}
      /\ at = "done" => Cardinality(files) >= Threshold
  <2>1. files \in SUBSET File /\ \A f \in files : owners[f] = Chunk
    BY DEF LocalMatches, Total
  <2>2. Cardinality(files) \in Nat
    BY <2>1, FilesFinite
  <2> HIDE DEF files
  <2> QED  BY <2>1, <2>2, BudgetAssumption
<1> HIDE DEF files, at
<1>3. search \in [Search -> SearchState]
  BY DEF IInv, States
<1>4. /\ search'[s].at = at /\ search'[s].budget = search[s].budget /\ search'[s].files = files
      /\ \A r \in Search : r # s => search'[r] = search[r]
      /\ search' \in [Search -> SearchState]
  <2>1. PICK m : m = [search EXCEPT ![s].files = files]
    OBVIOUS
  <2>2. /\ m \in [Search -> SearchState] /\ m[s].files = files /\ m[s].budget = search[s].budget
        /\ \A r \in Search : r # s => m[r] = search[r]
    BY <1>2, <1>3, <2>1 DEF SearchState
  <2>3. search' = [m EXCEPT ![s].at = at]
    BY <1>1, <2>1
  <2>4. at \in {"add", "done"}
    BY <1>2
  <2>5. search' \in [Search -> SearchState] /\ search'[s].at = at
    BY <2>2, <2>3, <2>4 DEF SearchState
  <2>6. /\ search'[s].budget = search[s].budget /\ search'[s].files = files
        /\ \A r \in Search : r # s => search'[r] = search[r]
    BY <2>2, <2>3 DEF SearchState
  <2> QED  BY <2>5, <2>6
<1>5. Requests' /\ States' /\ Budgets'
  BY <1>1, <1>4 DEF IInv, Requests, States, Budgets
<1>6. SearchesOK'
  BY <1>1, <1>2, <1>4 DEF IInv, SearchesOK
<1>7. RoutineOK'
  <2>1. routine.at \in {"append", "inform"} => routine.search \in Search /\ routine.search # s
    BY <1>1 DEF IInv, States, RoutineState, Idle, RoutineOK
  <2> QED  BY <1>1, <1>4, <2>1 DEF IInv, RoutineOK
<1> QED  BY <1>5, <1>6, <1>7 DEF IInv

\* A search hands out a budget with its requests.
LEMMA BudgetHandedOut ==
    ASSUME IInv, NEW budget \in Nat, credit' = credit + budget,
           ForwardSearchRequest(Me, budget, None, requests)
    PROVE  Requests' /\ credit' \in Int
<1>1. RequestBag(requests) /\ WireBudget(requests) <= credit /\ credit \in Int
  BY DEF IInv, Requests, States
<1>2. /\ RequestBag(requests') /\ WireBudget(requests) \in Nat
      /\ WireBudget(requests') <= WireBudget(requests) + budget
  BY <1>1, ForwardKeeps, NetAssumption
<1>3. WireBudget(requests') \in Nat
  BY <1>2, WireBudgetCounts
<1> QED  BY <1>1, <1>2, <1>3 DEF Requests

\* The first request, or another search holds the keywords.
LEMMA AddListenerPreserves ==
    ASSUME IInv, NEW s \in Search, AddListener(s)
    PROVE  IInv'
<1>1. /\ search[s].at = "add" /\ search[s] \in SearchState
      /\ search[s].budget \in {0, InitialBudget} \cup Ring
      /\ UNCHANGED <<replies, recent, owners, closed, routine, panicked>>
  BY DEF AddListener, IInv, States, Budgets
<1>2. CASE search' = [search EXCEPT ![s].at = "refused"] /\ UNCHANGED <<entry, requests, credit>>
  <2>1. /\ search' \in [Search -> SearchState] /\ search'[s].at = "refused"
        /\ search'[s].budget = search[s].budget /\ search'[s].files = search[s].files
        /\ \A r \in Search : r # s => search'[r] = search[r]
    BY <1>2 DEF IInv, States, SearchState
  <2>2. Requests' /\ credit' \in Int /\ closed' \subseteq Search
    BY <1>1, <1>2 DEF IInv, Requests, States
  <2> QED  BY <1>1, <1>2, <2>1, <2>2, SearchGoesOn
<1> DEFINE budget == IF InitialBudget = 0 THEN 2 ELSE InitialBudget
<1>3. CASE /\ entry' = s /\ search' = [search EXCEPT ![s].at = "wait", ![s].budget = budget]
           /\ credit' = credit + budget /\ ForwardSearchRequest(Me, budget, None, requests)
  <2>1. budget \in {0, InitialBudget} \cup Ring /\ budget \in Nat
    BY RingFacts, BudgetAssumption
  <2> HIDE DEF budget
  <2>2. /\ search' \in [Search -> SearchState] /\ search'[s].at = "wait"
        /\ search'[s].budget = budget /\ search'[s].files = search[s].files
        /\ \A r \in Search : r # s => search'[r] = search[r]
    BY <1>3, <2>1 DEF IInv, States, SearchState
  <2>3. Requests' /\ credit' \in Int
    BY <1>3, <2>1, BudgetHandedOut
  <2>4. closed' \subseteq Search
    BY <1>1 DEF IInv, States
  <2> QED  BY <1>1, <1>3, <2>1, <2>2, <2>3, <2>4, SearchGoesOn
<1> QED  BY <1>2, <1>3 DEF AddListener

\* The ring expands, below the maximum.
LEMMA ExpandPreserves ==
    ASSUME IInv, NEW s \in Search, Expand(s)
    PROVE  IInv'
<1> DEFINE budget == 2 * search[s].budget
<1>1. /\ search[s].at = "wait" /\ search[s] \in SearchState
      /\ InitialBudget = 0 /\ search[s].budget < MaximumBudget
      /\ search' = [search EXCEPT ![s].budget = budget] /\ credit' = credit + budget
      /\ ForwardSearchRequest(Me, budget, None, requests)
      /\ UNCHANGED <<replies, recent, owners, entry, closed, routine, panicked>>
  BY DEF Expand, IInv, States
<1>2. budget \in {0, InitialBudget} \cup Ring /\ budget \in Nat
  <2>1. search[s].budget \in {0} \cup Ring /\ search[s].budget \in Nat
    BY <1>1 DEF IInv, Budgets, SearchState
  <2> QED  BY <1>1, <2>1, RingFacts
<1> HIDE DEF budget
<1>3. /\ search' \in [Search -> SearchState] /\ search'[s].at = "wait"
      /\ search'[s].budget = budget /\ search'[s].files = search[s].files
      /\ \A r \in Search : r # s => search'[r] = search[r]
  BY <1>1, <1>2 DEF IInv, States, SearchState
<1>4. Requests' /\ credit' \in Int
  BY <1>1, <1>2, BudgetHandedOut
<1>5. closed' \subseteq Search
  BY <1>1 DEF IInv, States
<1> QED  BY <1>1, <1>2, <1>3, <1>4, <1>5, SearchGoesOn

\* The three steps of a timeout.
LEMMA TimeoutPreserves ==
    ASSUME IInv, NEW s \in Search, SearchTimeout(s) \/ Drain(s) \/ Close(s)
    PROVE  IInv'
<1>1. PICK at \in {"drain", "close", "failed"} :
        /\ search' = [search EXCEPT ![s].at = at]
        /\ entry' \in {entry, None} /\ closed' \in {closed, closed \cup {s}}
        /\ routine' = routine \/ (routine.at = "inform" /\ routine' = Results(routine.todo))
        /\ UNCHANGED <<requests, replies, recent, credit, owners, panicked>>
  BY DEF SearchTimeout, Drain, Close, Informing, netVars
<1>2. search[s] \in SearchState /\ search[s].budget \in {0, InitialBudget} \cup Ring
  BY DEF IInv, States, Budgets
<1>3. /\ search' \in [Search -> SearchState] /\ search'[s].at = at
      /\ search'[s].budget = search[s].budget /\ search'[s].files = search[s].files
      /\ \A r \in Search : r # s => search'[r] = search[r]
  BY <1>1 DEF IInv, States, SearchState
<1>4. routine' \in {routine} \cup [at : {"results"}, node : Node, todo : SUBSET File]
  <2>1. routine.at = "inform" => routine.node \in Node /\ routine.todo \in SUBSET File
    BY DEF IInv, States, RoutineState, Idle
  <2> QED  BY <1>1, <2>1 DEF Results
<1>5. Requests' /\ credit' \in Int /\ closed' \subseteq Search
  BY <1>1 DEF IInv, Requests, States
<1> QED  BY <1>1, <1>2, <1>3, <1>4, <1>5, SearchGoesOn

-----------------------------------------------------------------------------
(* The reply routine                                                        *)

\* A reply is taken up, or a file of it is not of interest to a search.
LEMMA RoutineGoesOn ==
    ASSUME IInv, routine' \in RoutineState, routine'.at \in {"idle", "results"},
           replies' \subseteq replies,
           UNCHANGED <<requests, recent, credit, owners, entry, search, closed, panicked>>
    PROVE  IInv'
<1>1. Requests' /\ States' /\ Budgets'
  BY DEF IInv, Requests, States, Budgets
<1>2. SearchesOK' /\ RoutineOK'
  BY DEF IInv, SearchesOK, RoutineOK
<1> QED  BY <1>1, <1>2 DEF IInv

LEMMA ReceiveReplyPreserves ==
    ASSUME IInv, NEW n \in replies, ReceiveReply(n)
    PROVE  IInv'
<1>1. n \in Node
  BY DEF IInv, States
<1>2. routine' \in RoutineState /\ routine'.at = "results"
  BY <1>1 DEF ReceiveReply, RoutineState
<1> QED  BY <1>2, RoutineGoesOn DEF ReceiveReply

\* The owners of chunks only grow, and the file that becomes complete is passed on.
LEMMA UpdateOwnersPreserves ==
    ASSUME IInv, UpdateOwners
    PROVE  IInv'
<1>1. /\ routine.at = "results"
      /\ UNCHANGED <<requests, replies, recent, credit, entry, search, closed, panicked>>
  BY DEF UpdateOwners, netVars
<1>2. routine \in [at : {"results"}, node : Node, todo : SUBSET File]
  BY <1>1 DEF IInv, States, RoutineState, Idle
<1>3. CASE routine' = Idle /\ UNCHANGED owners
  <2>1. routine' \in RoutineState /\ routine'.at = "idle"
    BY <1>3 DEF RoutineState, Idle
  <2> QED  BY <1>1, <1>3, <2>1, RoutineGoesOn
<1>4. ASSUME NEW f \in routine.todo,
             owners' = [owners EXCEPT ![f] = @ \cup Has[routine.node][f]],
             routine' = IF ~ Total(f) /\ owners[f] \cup Has[routine.node][f] = Chunk
                        THEN [at |-> "range", node |-> routine.node, todo |-> routine.todo \ {f},
                              file |-> f]
                        ELSE [routine EXCEPT !.todo = @ \ {f}]
      PROVE  IInv'
  <2>1. f \in File /\ routine.node \in Node /\ routine.todo \in SUBSET File
    BY <1>2
  <2>2. Has[routine.node][f] \subseteq Chunk
    BY <2>1, NetAssumption
  <2>3. /\ owners' \in [File -> SUBSET Chunk] /\ owners'[f] = owners[f] \cup Has[routine.node][f]
        /\ \A g \in File : owners[g] = Chunk => owners'[g] = Chunk
    BY <1>4, <2>1, <2>2 DEF IInv, States
  <2>4. \/ /\ routine' \in [at : {"range"}, node : Node, todo : SUBSET File, file : File]
           /\ routine'.file = f /\ owners'[f] = Chunk
        \/ routine' \in [at : {"results"}, node : Node, todo : SUBSET File]
    BY <1>2, <1>4, <2>1, <2>3
  <2>5. Requests' /\ States' /\ Budgets'
    BY <1>1, <2>3, <2>4 DEF IInv, Requests, States, Budgets, RoutineState
  <2>6. SearchesOK'
    <3>1. \A s \in Search : search[s].files \subseteq File
      BY DEF IInv, States, SearchState
    <3> QED  BY <1>1, <2>3, <3>1 DEF IInv, SearchesOK
  <2>7. RoutineOK'
    BY <1>1, <2>4 DEF IInv, RoutineOK
  <2> QED  BY <2>5, <2>6, <2>7 DEF IInv
<1> QED  BY <1>3, <1>4 DEF UpdateOwners

\* The search that is registered is the one to be told.
LEMMA RangeSearchesPreserves ==
    ASSUME IInv, RangeSearches
    PROVE  IInv'
<1>1. /\ routine.at = "range"
      /\ UNCHANGED <<requests, replies, recent, credit, owners, entry, search, closed, panicked>>
  BY DEF RangeSearches, netVars
<1>2. routine \in [at : {"range"}, node : Node, todo : SUBSET File, file : File]
  BY <1>1 DEF IInv, States, RoutineState, Idle
<1>3. CASE entry = None
  <2>1. routine' \in RoutineState /\ routine'.at = "results"
    BY <1>2, <1>3 DEF RangeSearches, Results, RoutineState
  <2> QED  BY <1>1, <2>1, RoutineGoesOn
<1>4. CASE entry # None
  <2>1. entry \in Search
    BY <1>4 DEF IInv, States
  <2>2. /\ routine' \in [at : {"append"}, node : Node, todo : SUBSET File, file : File, search : Search]
        /\ routine'.file = routine.file /\ routine'.search = entry
    BY <1>2, <1>4, <2>1 DEF RangeSearches
  <2>3. Requests' /\ States' /\ Budgets'
    BY <1>1, <2>2 DEF IInv, Requests, States, Budgets, RoutineState
  <2>4. SearchesOK' /\ RoutineOK'
    BY <1>1, <2>1, <2>2 DEF IInv, SearchesOK, RoutineOK
  <2> QED  BY <2>3, <2>4 DEF IInv
<1> QED  BY <1>3, <1>4

\* A search gets the file, whatever has become of it meanwhile.
LEMMA AppendFilesPreserves ==
    ASSUME IInv, AppendFiles
    PROVE  IInv'
<1> DEFINE s == routine.search
           files == search[s].files \cup {routine.file}
           enough == Cardinality(files) >= Threshold
<1>1. /\ routine.at = "append"
      /\ search' = [search EXCEPT ![s].files = files] /\ entry' \in {entry, None}
      /\ UNCHANGED <<requests, replies, recent, credit, owners, closed, panicked>>
  BY DEF AppendFiles, netVars
<1>2. routine \in [at : {"append"}, node : Node, todo : SUBSET File, file : File, search : Search]
  BY <1>1 DEF IInv, States, RoutineState, Idle
<1>3. PICK r \in Search : r = s
  BY <1>2
<1>4. /\ search \in [Search -> SearchState] /\ search[r] \in SearchState /\ files \in SUBSET File
      /\ search[r].files \subseteq files
  BY <1>2, <1>3 DEF IInv, States, SearchState
<1>5. /\ search'[r].files = files /\ search'[r].at = search[r].at
      /\ search'[r].budget = search[r].budget
      /\ \A q \in Search : q # r => search'[q] = search[q]
      /\ search' \in [Search -> SearchState]
  <2> HIDE DEF files
  <2> QED  BY <1>1, <1>3, <1>4 DEF SearchState
<1>6. /\ Cardinality(search[r].files) \in Nat /\ Cardinality(files) \in Nat
      /\ Cardinality(search[r].files) <= Cardinality(files)
  <2>1. search[r].files \in SUBSET File
    BY <1>4 DEF SearchState
  <2> HIDE DEF files
  <2> QED  BY <1>4, <2>1, FilesFinite
<1>7. \A f \in files : owners[f] = Chunk
  BY <1>1, <1>3 DEF IInv, SearchesOK, RoutineOK
<1>8. \/ /\ routine' \in [at : {"inform"}, node : Node, todo : SUBSET File, search : Search]
         /\ routine'.search = r /\ Cardinality(files) >= Threshold
      \/ routine' \in [at : {"results"}, node : Node, todo : SUBSET File]
  <2>1. CASE enough
    BY <1>2, <1>3, <2>1 DEF AppendFiles
  <2>2. CASE ~ enough
    BY <1>2, <2>2 DEF AppendFiles, Results
  <2> QED  BY <2>1, <2>2
<1>9. search[r].at \notin {"new", "add"}
  BY <1>1, <1>3 DEF IInv, RoutineOK
<1> HIDE DEF s, files, enough
<1>10. Requests' /\ States' /\ Budgets'
  BY <1>1, <1>5, <1>8 DEF IInv, Requests, States, Budgets, RoutineState
<1>11. SearchesOK'
  <2>1. search[r].at = "done" => Cardinality(files) >= Threshold
    BY <1>6, BudgetAssumption DEF IInv, SearchesOK
  <2> QED  BY <1>1, <1>5, <1>7, <2>1 DEF IInv, SearchesOK
<1>12. RoutineOK'
  <2>1. \A q \in Search : entry' = q => search'[q].at \notin {"new", "add"}
    BY <1>1, <1>5, NetAssumption DEF IInv, RoutineOK
  <2> QED  BY <1>5, <1>8, <1>9, <2>1 DEF RoutineOK
<1> QED  BY <1>10, <1>11, <1>12 DEF IInv

\* The search is told, or its channel is closed.
LEMMA InformPreserves ==
    ASSUME IInv, Inform
    PROVE  IInv'
<1>1. /\ routine.at = "inform"
      /\ UNCHANGED <<requests, replies, recent, credit, owners, entry, closed>>
  BY DEF Inform, netVars
<1>2. routine \in [at : {"inform"}, node : Node, todo : SUBSET File, search : Search]
  BY <1>1 DEF IInv, States, RoutineState, Idle
<1>3. CASE panicked' = TRUE /\ UNCHANGED <<search, routine>>
  <2>1. Requests' /\ States' /\ Budgets'
    BY <1>1, <1>3 DEF IInv, Requests, States, Budgets
  <2>2. SearchesOK' /\ RoutineOK'
    BY <1>1, <1>3 DEF IInv, SearchesOK, RoutineOK
  <2> QED  BY <2>1, <2>2 DEF IInv
<1>4. CASE /\ search' = [search EXCEPT ![routine.search].at = "done"]
           /\ routine' = Results(routine.todo) /\ UNCHANGED panicked
  <2>1. PICK s \in Search : s = routine.search
    BY <1>2
  <2>2. search[s] \in SearchState /\ search[s].budget \in {0, InitialBudget} \cup Ring
    BY DEF IInv, States, Budgets
  <2>3. /\ search' \in [Search -> SearchState] /\ search'[s].at = "done"
        /\ search'[s].budget = search[s].budget /\ search'[s].files = search[s].files
        /\ \A r \in Search : r # s => search'[r] = search[r]
    BY <1>4, <2>1 DEF IInv, States, SearchState
  <2>4. Cardinality(search[s].files) >= Threshold
    BY <1>1, <2>1 DEF IInv, RoutineOK
  <2>5. routine' \in [at : {"results"}, node : Node, todo : SUBSET File]
    BY <1>2, <1>4 DEF Results
  <2>6. Requests' /\ credit' \in Int /\ closed' \subseteq Search
    BY <1>1 DEF IInv, Requests, States
  <2> QED  BY <1>1, <1>4, <2>2, <2>3, <2>4, <2>5, <2>6, SearchGoesOn
<1> QED  BY <1>3, <1>4 DEF Inform

-----------------------------------------------------------------------------
(* The theorems                                                             *)

LEMMA InitIInv == Init => IInv
<1> SUFFICES ASSUME Init PROVE IInv
  OBVIOUS
<1>1. Requests
  <2>1. RequestBag(EmptyBag) /\ DOMAIN EmptyBag = {}
    BY FS_EmptySet DEF RequestBag, EmptyBag, SetToBag, IsABag
  <2>2. Units(Weight(EmptyBag), DOMAIN EmptyBag) = {}
    BY <2>1 DEF Units
  <2>3. WireBudget(EmptyBag) = 0
    BY <2>1, <2>2, WireBudgetCounts, FS_EmptySet
  <2> QED  BY <2>1, <2>3 DEF Init, Requests
<1>2. States
  <2>1. search \in [Search -> SearchState]
    BY DEF Init, SearchState
  <2>2. routine \in RoutineState
    BY DEF Init, RoutineState
  <2>3. recent \in [Node -> BOOLEAN] /\ owners \in [File -> SUBSET Chunk]
    BY DEF Init
  <2>4. replies \subseteq Node \ {Me} /\ entry \in Search \cup {None} /\ closed \subseteq Search
    BY DEF Init
  <2>5. panicked \in BOOLEAN
    BY DEF Init
  <2>6. credit \in Int
    BY DEF Init
  <2> QED  BY <2>1, <2>2, <2>3, <2>4, <2>5, <2>6 DEF States
<1>3. Budgets /\ SearchesOK /\ RoutineOK
  BY NetAssumption DEF Init, Budgets, SearchesOK, RoutineOK, Idle
<1> QED  BY <1>1, <1>2, <1>3 DEF IInv

LEMMA NextIInv == IInv /\ [Next]_vars => IInv'
<1> SUFFICES ASSUME IInv, [Next]_vars PROVE IInv'
  OBVIOUS
<1>1. ASSUME NEW req \in DOMAIN requests, SearchRequest(req)  PROVE IInv'
  BY <1>1, SearchRequestPreserves
<1>2. ASSUME NEW n \in Node, Forget(n)  PROVE IInv'
  BY <1>2, ForgetPreserves
<1>3. ASSUME NEW s \in Search, Searching(s)  PROVE IInv'
  BY <1>3, StartSearchPreserves, AddListenerPreserves, ExpandPreserves, TimeoutPreserves
     DEF Searching
<1>4. ASSUME Routine  PROVE IInv'
  BY <1>4, UpdateOwnersPreserves, RangeSearchesPreserves, AppendFilesPreserves, InformPreserves,
     ReceiveReplyPreserves DEF Routine
<1>5. ASSUME UNCHANGED vars  PROVE IInv'
  <2>1. UNCHANGED <<requests, replies, recent, credit, owners, entry, search, closed, routine,
                    panicked>>
    BY <1>5 DEF vars, netVars
  <2>2. Requests'
    BY <2>1 DEF IInv, Requests
  <2> QED  BY <2>1, <2>2, SearchesUntouched DEF IInv, States
<1> QED  BY <1>1, <1>2, <1>3, <1>4, <1>5 DEF Next

\* Searches, their registration and the reply routine stay in the relations of IInv,
\* however searches, timeouts and replies interleave.
THEOREM Invariance == Spec => []IInv
  BY InitIInv, NextIInv, PTL DEF Spec

\* A search that is done has the threshold of files, and every chunk of each has a known
\* owner, although the reply routine appends files to searches that come and go.
THEOREM SearchSoundHolds == Spec => []SearchSound
<1>1. IInv => SearchSound
  BY DEF IInv, SearchesOK, SearchSound, Total
<1> QED  BY <1>1, Invariance, PTL

\* What the requests on the wire carry and what was spent never exceeds what searches handed
\* out, however forwardSearchRequest divides a budget that its peers do not divide evenly and
\* however requests of several rings overlap.
THEOREM BudgetRespectedHolds == Spec => []BudgetRespected
<1>1. IInv => BudgetRespected
  BY DEF IInv, Requests, WireBudget, BudgetRespected
<1> QED  BY <1>1, Invariance, PTL

\* No request carries an empty budget, which the receiver would count down from zero,
\* however forwardSearchRequest splits it, and the ring stops at the maximum budget.
THEOREM TypeCorrect == Spec => []TypeOK
<1>1. \A budget \in {0, InitialBudget} \cup Ring : budget <= Max({MaximumBudget, 2, InitialBudget})
  <2> DEFINE S == {MaximumBudget, 2, InitialBudget}
  <2>1. MaximumBudget \in Nat /\ InitialBudget \in Nat
    BY BudgetAssumption
  <2>2. \E x \in S : \A y \in S : x >= y
    BY <2>1
  <2>3. Max(S) \in S /\ \A y \in S : Max(S) >= y
    BY <2>2 DEF Max
  <2> QED  BY <2>1, <2>3, RingFacts
<1>2. IInv => TypeOK
  <2>1. SUFFICES ASSUME IInv PROVE TypeOK
    OBVIOUS
  <2>2. routine.at \in {"idle", "results", "range", "append", "inform"}
    BY <2>1 DEF IInv, States, RoutineState, Idle
  <2>3. \A s \in Search :
          /\ search[s].at \in {"new", "add", "wait", "drain", "close", "done", "failed", "refused"}
          /\ search[s].files \subseteq File
          /\ search[s].budget <= Max({MaximumBudget, 2, InitialBudget})
    BY <1>1, <2>1 DEF IInv, States, SearchState, Budgets
  <2> QED  BY <2>1, <2>2, <2>3 DEF IInv, Requests, RequestBag, RequestOK, States, TypeOK
<1> QED  BY <1>2, Invariance, PTL

=============================================================================
