----------------------------- MODULE MCLibraries ------------------------------
(* The sequential libraries for TLC. *)
EXTENDS Libraries

(* Keys and values of different lengths; no cache of 7 bytes holds "big" *)
MCKeyLen == [a |-> 1, b |-> 1, c |-> 1, kk |-> 2]
MCValLen == [empty |-> 0, mid |-> 2, big |-> 7]

(* Patterns and paths of up to three parts; a literal, a longer literal    *)
(* below a parameter, and wildcards beside literals at both levels         *)
MCParts == {"a", "b", "c", ":x", "*f"}
MCPatterns == {<< >>, <<"a">>, <<":x">>, <<"*f">>, <<"a", "b">>, <<"a", ":x">>,
               <<":x", "b">>, <<":x", "c">>, <<"a", "*f">>, <<"a", "b", "c">>}
MCRequests == {<< >>} \cup UNION {[1..n -> {"a", "b", "c"}] : n \in 1..3}
=============================================================================
