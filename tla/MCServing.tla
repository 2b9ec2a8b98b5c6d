----------------------------- MODULE MCServing ------------------------------
(* The states that the run of Serving switches between.                    *)
EXTENDS Serving

MCPaths == {"/a", "/b", "/c"}

MCRoute(match, plugins) == [match |-> match, plugins |-> plugins]

(* Plaintext: /a passes its plugins, /b is blocked; the route of /b would  *)
(* match /a too.                                                           *)
MCPlain == [tls |-> FALSE,
            routes |-> <<MCRoute({"/a"}, <<"pass">>),
                         MCRoute({"/a", "/b"}, <<"pass", "block", "loop">>)>>]

(* TLS: the plugin of /a fails, that of /b loops. *)
MCSecure == [tls |-> TRUE,
             routes |-> <<MCRoute({"/a"}, <<"fail">>), MCRoute({"/b"}, <<"loop">>)>>]

(* Neither has a route for /c. *)
MCAppStates == {MCPlain, MCSecure}

=============================================================================
