----------------------------- MODULE MCPubSub -----------------------------
EXTENDS PubSub, TLC

CONSTANTS c1, c2, c3, a, b, p

MCMatches == {<<p, a>>}
\* c1 subscribes, c2 subscribes and publishes (also in one EXEC), c3 publishes.
MCRepertoire ==
    (c1 :> {<<"subscribe", <<p, a>>>>, <<"unsubscribe", <<>>>>, <<"punsubscribe">>})
 @@ (c2 :> {<<"subscribe", <<b>>>>, <<"unsubscribe", <<b>>>>,
            <<"exec", << <<"subscribe", <<b>>>>, <<"publish", b>> >> >>})
 @@ (c3 :> {<<"publish", a>>, <<"publish", b>>})

MCMaxCalls == (c1 :> 2) @@ (c2 :> 2) @@ (c3 :> 1)

\* The same without EXEC, one subscriber and one publisher suffice.
MCPlainRepertoire ==
    (c1 :> {<<"subscribe", <<p, a>>>>}) @@ (c2 :> {<<"subscribe", <<b>>>>}) @@ (c3 :> {<<"publish", a>>})

=============================================================================
