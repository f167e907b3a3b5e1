------------------------------ MODULE MCLedger ------------------------------
(* Instance of Ledger for TLC, and pruneInvalidForks as the code walks the  *)
(* tree: Ledger has its outcome without the recursion.                      *)
EXTENDS Ledger, TLC

NameSymmetry == Permutations(Name)

RECURSIVE PruneBlock(_, _, _), PruneForks(_, _, _)

PruneBlock(c, claimed, h) ==
    IF h.names \cap claimed # {} THEN PruneDeletes(c, claimed, h)
    ELSE PruneForks(c, claimed \cup h.names, c[h].forks)

\* The loop over the forks of a block, in any order.
PruneForks(c, claimed, forks) ==
    IF forks = {} THEN {Outcome(c, claimed, "valid", FALSE)}
    ELSE UNION {IF f \notin Known(c) THEN {Outcome(c, claimed, "impossible", FALSE)}
                ELSE UNION {IF o.panic THEN {o} ELSE PruneForks(o.chains, o.claimed, forks \ {f}) :
                              o \in PruneBlock(c, claimed, f)} : f \in forks}

\* What is left of an outcome after recursiveUpdateLength has walked the forks of h.
Left(c, h, o) ==
    IF o.panic \/ (o.result = "valid" /\ Dangling(o.chains, h)) THEN Outcome(c, {}, "panic", TRUE)
    ELSE o

\* Four blocks, of which a is the orphan and some of the others are missing.
Follow(n, prevs) == [nonce : {n}, prev : prevs, names : SUBSET Name]
Tree(blocks) ==
    [x \in {Genesis} \cup blocks |-> [len |-> 0, forks |-> {y \in blocks : y.prev = x}]]

\* pruneInvalidForks and recursiveUpdateLength leave what Ledger says, exactly where no
\* fork of the orphan is missing, and else nothing Ledger leaves out.
ASSUME PruneOutcomes ==
    \A a \in Follow(1, {Genesis}) : \A b \in Follow(2, {a}) : \A d \in Follow(3, {a, b}) :
    \A e \in Follow(4, {a, b, d}) : \A missing \in SUBSET {b, d, e}, claimed \in SUBSET Name :
        LET c == Without(Tree({a, b, d, e}), missing)
            code == {Left(c, a, o) : o \in PruneBlock(c, claimed, a)}
        IN a.names \cap claimed = {} =>
             IF c[a].forks \subseteq Known(c)
             THEN code = {Left(c, a, o) : o \in PruneKeeps(c, claimed, a)}
             ELSE code \subseteq {Left(c, a, o) : o \in PruneStops(c, claimed, a)}
=============================================================================
