---------------------------- MODULE MCSearchTool ----------------------------
(* Small instances of the search tool on its cache: two searches of one    *)
(* query, with the note each may leave of a hit.                           *)
EXTENDS SearchTool, TLC

MCSearches == {"s1", "s2"}
MCQueries == {"q"}
MCQueryOf == ("s1" :> "q") @@ ("s2" :> "q")

=============================================================================
