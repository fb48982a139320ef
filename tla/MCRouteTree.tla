---------------------------- MODULE MCRouteTree ----------------------------
EXTENDS RouteTree

\* The routes of main.go with one letter for each word ("/", "/proxy", "/css/*filepath",
\* "/js/*filepath").
MCMain == {
  <<"/">>, <<"/", "p">>, <<"/", "c", "/", "*", "f">>, <<"/", "j", "/", "*", "f">>}

\* Routes like those of tree_test.go, which share prefixes or conflict.
MCPatterns == MCMain \cup {
  <<"/", "c">>, <<"/", "c", "/">>, <<"/", "c", "/", "d">>, <<"/", "d", "/", ":", "x", "c">>,
  <<"/", "d", "/", ":", "x">>, <<"/", "d", "/">>, <<"/", "d", "/", ":", "x", "/", "c">>,
  <<"/", "d", "/", ":", "y", "/">>, <<"/", "p", "/", ":", "x", "/", ":", "y">>,
  <<"/", "j", ":", "x">>, <<"/", ":", "x">>, <<"/", "*", "f">>}

Words == {"c", "d", "p", "j"}

MCRequests ==
  {<<"/">>} \cup {<<"/", a>> : a \in Words} \cup {<<"/", a, "/">> : a \in Words}
  \cup {<<"/", a, b>> : a \in {"c", "j"}, b \in {"p", "d"}}
  \cup {<<"/", a, "/", b>> : a \in Words, b \in {"d", "/"}}
  \cup {<<"/", a, "/", "d", "/">> : a \in Words}
  \cup {<<"/", a, "/", "d", "/", b>> : a \in Words, b \in {"c", "d"}}
  \cup {<<"/", "d", "/", "d", "/", "c", "/">>, <<"/", "p", "/", "d", "d", "/", "c", "/">>}
=============================================================================
