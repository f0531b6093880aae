------------------------------ MODULE Listings ------------------------------
(***************************************************************************)
(* What a query or a sort lists: the rows that pass, in an order, as many    *)
(* as the limit allows.                                                     *)
(***************************************************************************)
EXTENDS Integers, Sequences, SequencesExt, FiniteSets, FiniteSetsExt

Take(s, limit) == SubSeq(s, 1, Min({limit, Len(s)}))

\* The elements of a finite set in an order of them, a set of pairs.
InOrder(set, before) ==
    [k \in 1..Cardinality(set) |->
        CHOOSE x \in set : Cardinality({ y \in set : << y, x >> \in before }) = k - 1]

Places(rows, order) == [k \in DOMAIN order |-> rows[order[k]]]

Where(s, Test(_)) == { n \in DOMAIN s : Test(s[n]) }

\* The rows at some places, as they follow each other.
Those(rows, at) == Places(rows, InOrder(at, { p \in at \X at : p[1] < p[2] }))

\* The sum of a function's values.
SumOf(amount) == MapThenSumSet(LAMBDA x : amount[x], DOMAIN amount)
=============================================================================
