------------------------------ MODULE MCScan ------------------------------
EXTENDS Scan
CONSTANTS a, b, f1, f2
MCShards == <<{2, 4}, {1, 3}>>
\* Entries of every type, some about to expire, some holding an empty value.
MCEntries ==
    {None, Entry("string", NoTTL, <<>>), Entry("string", 2, <<a, b, 1>>),
     Entry("hash", NoTTL, [f \in Fields |-> IF f = f1 THEN <<>> ELSE <<a>>]),
     Entry("list", 1, <<a, b, a>>), Entry("list", NoTTL, <<b>>),
     Entry("set", NoTTL, {a, b}), Entry("set", 1, {})}
MCStart == {[k \in Keys |-> CASE k = 1 -> Entry("set", 1, {a}) [] k = 2 -> e
                              [] OTHER -> Entry("set", NoTTL, {})] : e \in MCEntries}
=============================================================================
