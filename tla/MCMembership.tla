--------------------------- MODULE MCMembership ---------------------------
EXTENDS Membership, TLC

CONSTANTS n1, n2, n3, p1, p2

MCStarts == {[file |-> <<n1>>, others |-> <<n2>>, source |-> "learned"],
             [file |-> <<>>, others |-> <<n1, n2>>, source |-> "discovery"]}
MCRepertoire ==
    (p1 :> {<<"learn", n2>>, <<"gossip", <<n1, n2>>>>, <<"reap">>, <<"discover", <<n3>>>>})
 @@ (p2 :> {<<"leave", n2>>, <<"remove", n2>>, <<"add", n2>>, <<"reload", <<n1, n2>>>>})
MCMaxOps == (p1 :> 1) @@ (p2 :> 2)

\* One learned peer too many, and the reaper.
MCReaped == {[file |-> <<n1>>, others |-> <<n2>>, source |-> "learned"]}
MCReaperOnly == (p1 :> {<<"reap">>}) @@ (p2 :> {})

=============================================================================
