---------------------------- MODULE MCCommands ----------------------------
EXTENDS Commands
CONSTANTS a, b, f1, f2
MCStrings == {<<>>, <<a>>, <<1>>}
MCHashes == {[f \in Fields |-> IF f = f1 THEN v ELSE w] :
                v \in {<<1>>, Nil}, w \in {<<a>>, Nil}} \ {EmptyHash}
\* A list that expires soon and a free key; a set and an empty set that has a TTL.
Holding(k, e, f) == [q \in Keys |-> IF q = k THEN e ELSE f]
MCStart ==
    {Holding(k, Entry("list", 1, <<a, b>>), None) : k \in Keys} \cup
    {Holding(k, Entry("set", NoTTL, {a, b}), Entry("set", 2, {})) : k \in Keys}
MCRanges == {<<0, 0>>, <<1, -1>>, <<2, 2>>, <<1, -3>>}
MCDeltas == {-1, 2}
MCSymmetry == Permutations(Keys) \cup Permutations(Clients)
Promised == causes = {}
=============================================================================
