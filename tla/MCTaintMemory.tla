--------------------------- MODULE MCTaintMemory ---------------------------
(* A small session for TLC: a page of one value, short ones, listings, and *)
(* pages longer than a share that repeat the value or hide a destination.  *)
EXTENDS TaintMemory

MCTokens == {"v", "a", "b", "n", "p", "q", "d", "e"}
MCCost == [t \in MCTokens |-> IF t \in {"v", "d", "e"} THEN 1 ELSE 2]
MCDestinations == {"d", "e"}
Page(s) == [tokens |-> s, content |-> TRUE]
Listing(s) == [tokens |-> s, content |-> FALSE]
MCResults ==
    {Page(<<"v">>), Page(<<"a">>), Listing(<<"b">>),
     Page(<<"v", "n", "p">>), Page(<<"d", "p", "q">>), Page(<<"a", "e", "d", "v">>),
     Listing(<<"n", "q", "v">>)}
MCKeys == {<<"v", "a", "b", "n", "p", "q", "d", "e">>,
           <<"q", "p", "n", "e", "d", "b", "a", "v">>}
=============================================================================
