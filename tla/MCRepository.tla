---------------------------- MODULE MCRepository ----------------------------
(* Two queues, the name of one the beginning of the name of the other.     *)
EXTENDS Repository

MCQueues == {"a", "ab"}
MCPrefixOf == {<<"a", "a">>, <<"ab", "ab">>, <<"a", "ab">>}
=============================================================================
