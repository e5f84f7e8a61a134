--------------------------- MODULE MCHttpDispatch ----------------------------
(* HttpDispatch on small instances: paths of up to two segments.           *)
EXTENDS HttpDispatch

MCSegments == {Literal("a"), Literal("b"), Variable("x")}
MCPatterns == {<<>>} \cup {<<s>> : s \in MCSegments}
                     \cup {<<s, u>> : s, u \in MCSegments}
MCPaths == {<<>>, <<"a">>, <<"b">>, <<"a", "a">>, <<"a", "b">>, <<"b", "a">>}

\* A query without tokens, with a value, a name alone, a repeated name, a
\* second =, a name a variable has too, and with an empty token.
MCQueries == {<<>>, <<<<"n", "1">>>>, <<<<"n">>>>, <<<<"n", "1">>, <<"n", "2">>>>,
              <<<<"n", "1", "2">>>>, <<<<"x", "1">>>>, <<<<"n", "1">>, <<>>>>}
=============================================================================
