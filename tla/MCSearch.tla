---- MODULE MCSearch ----
(* Small games in which the search is tempted to answer wrongly.           *)
EXTENDS Search

\* A mate in two plies of 2, which is reached at once or by a detour after
\* which it comes too late: only a capture at 6 gives the time for it.
Late ==
    [root |-> 1, rule50 |-> 1,
     moves |-> <<<<2, 5>>, <<3>>, <<4>>, <<>>, <<6>>, <<2, 7>>, <<3>>>>,
     captures |-> <<<<>>, <<>>, <<>>, <<>>, <<>>, <<7>>, <<>>>>,
     zeroing |-> {<<6, 7>>}, check |-> {2, 4}, pawns |-> {}, tables |-> {},
     eval |-> <<1, -2, 2, -3, 0, 1, 3>>, null |-> <<0, 0, 0, 0, 0, 0, 0>>]

\* Whoever is to move at 3 has only a move that gives the win away, but would
\* mate if it could pass; at 2 two moves are equally good.
Zugzwang ==
    [root |-> 1, rule50 |-> 0,
     moves |-> <<<<2, 3>>, <<10, 11>>, <<4>>, <<>>, <<12>>, <<>>, <<8>>, <<9>>, <<>>, <<5>>, <<6>>, <<>>>>,
     captures |-> <<<<>>, <<>>, <<>>, <<>>, <<>>, <<>>, <<>>, <<>>, <<>>, <<5>>, <<>>, <<>>>>,
     zeroing |-> {<<10, 5>>}, check |-> {9}, pawns |-> {7}, tables |-> {},
     eval |-> <<0, 0, 5, 0, 0, 0, -2, 3, -4, 0, 0, 0>>, null |-> <<0, 0, 7, 0, 0, 0, 0, 0, 0, 0, 0, 0>>]

\* In check at 2 every move but the last is mated; captures that win and lose.
OnlyMove ==
    [root |-> 1, rule50 |-> 0,
     moves |-> <<<<2, 3, 4>>, <<5, 6, 7>>, <<8, 9>>, <<6, 9>>, <<10>>, <<10>>, <<11, 12>>, <<12>>,
                 <<11>>, <<>>, <<>>, <<>>>>,
     captures |-> <<<<4>>, <<>>, <<8>>, <<6>>, <<>>, <<>>, <<12>>, <<12>>, <<>>, <<>>, <<>>, <<>>>>,
     zeroing |-> {<<1, 4>>, <<3, 8>>, <<4, 6>>, <<7, 12>>, <<8, 12>>},
     check |-> {2, 10, 12}, pawns |-> {9}, tables |-> {},
     eval |-> <<1, 0, 2, -1, -2, -2, 3, 1, -3, 0, 1, -2>>,
     null |-> <<0, 0, 5, 7, 0, 0, 0, 0, 0, 0, 0, 0>>]

\* Captures into positions that the tablebases know as won, drawn and lost.
Endgame ==
    [root |-> 1, rule50 |-> 0,
     moves |-> <<<<2, 3>>, <<4, 5>>, <<5, 6>>, <<7, 8>>, <<9>>, <<9, 7>>, <<10>>, <<11>>, <<12, 10>>,
                 <<13>>, <<13>>, <<>>, <<>>>>,
     captures |-> <<<<>>, <<5>>, <<5>>, <<7, 8>>, <<>>, <<9>>, <<>>, <<>>, <<>>, <<>>, <<>>, <<>>, <<>>>>,
     zeroing |-> {<<2, 5>>, <<4, 7>>, <<4, 8>>, <<6, 9>>, <<3, 5>>, <<1, 3>>},
     check |-> {12}, pawns |-> {8}, tables |-> {5, 7, 8},
     eval |-> <<0, 1, -1, 2, -2, 1, 0, 3, -1, 1, 0, 0, 0>>,
     null |-> <<0, 0, 4, 6, 0, 0, 0, 0, 0, 0, 0, 0, 0>>]

MCGames == <<Late, Zugzwang, OnlyMove, Endgame>>
MCWindows == {<<-VALUE_INFINITE, VALUE_INFINITE>>, <<-2, 2>>}
====
