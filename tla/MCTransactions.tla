-------------------------- MODULE MCTransactions --------------------------
EXTENDS Transactions, TLC

CONSTANTS c1, c2, k1, k2

MCShardIndex == (k1 :> 1) @@ (k2 :> 2)
MCEntries == {(k1 :> "mortal") @@ (k2 :> "none"), (k1 :> "string") @@ (k2 :> "list")}
\* c1 is the client whose transactions are watched over, c2 the one in its way.
MCRepertoire == (c1 :> {<<"multi">>, <<"discard">>, <<"watch", k1>>, <<"unwatch">>,
                        <<"exec">>, <<"set", k1>>, <<"mget", k2>>, <<"rpush", k2>>})
             @@ (c2 :> {<<"set", k1>>, <<"del", k1>>, <<"rename", k1, k2>>, <<"flushdb">>})

MCMaxCalls == (c1 :> 4) @@ (c2 :> 2)

=============================================================================
