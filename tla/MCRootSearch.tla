---- MODULE MCRootSearch ----
(* Positions to search, and endgames to play, for RootSearch.             *)
EXTENDS RootSearch

\* Three moves whose searches may find these scores.
Search3(worth) ==
  [tables |-> "none", uses |-> {[cares |-> "exact", plies |-> TRUE, missing |-> {}]},
   moves |-> <<[m \in 1..3 |-> [to |-> 1, kind |-> "quiet"]]>>, layer |-> <<1>>,
   check |-> {}, stored |-> {}, roots |-> {1}, counts |-> {0}, worth |-> worth,
   scores |-> {mated_in(2), mated_in(4), 0, mate_in(3)},
   bounds |-> {-VALUE_INFINITE, mated_in(3), -1, 1, VALUE_INFINITE}, depth |-> 2, threads |-> 1]

\* All moves lose, one faster; one move holds; one move wins.
Lost == [Search3(<<mated_in(4), mated_in(2), mated_in(4)>>) EXCEPT
           !.scores = {mated_in(2), mated_in(4), 0}, !.bounds = @ \ {-1}]
Holds == Search3(<<mated_in(2), 0, mated_in(4)>>)
Wins == Search3(<<0, mate_in(3), mated_in(2)>>)

\* Three threads, with two moves to search.
Votes(worth) ==
  [Search3(worth) EXCEPT !.moves = <<[m \in 1..2 |-> [to |-> 1, kind |-> "quiet"]]>>,
                         !.scores = {mated_in(2), mated_in(4), -1, 1, mate_in(3), mate_in(1)},
                         !.bounds = {-VALUE_INFINITE, VALUE_INFINITE}, !.depth = 1, !.threads = 3]
VotesLost == Votes(<<mated_in(4), mated_in(2)>>)
VotesWon == Votes(<<mate_in(3), mate_in(1)>>)

\* Endgames.  One side to move has the odd positions, the other the even ones.
q(p) == [to |-> p, kind |-> "quiet"]
x(p) == [to |-> p, kind |-> "capture"]
pawn(p) == [to |-> p, kind |-> "pawn"]

Tables == [cares : {"exact", "low", "high"}, plies : BOOLEAN, missing : {{}}]
            \cup [cares : {"low", "high"}, plies : {TRUE}, missing : {{"dtz"}}]
Endgame(moves, layer, check, stored, roots) ==
  [tables |-> "yes", uses |-> Tables, moves |-> moves, layer |-> layer, check |-> check,
   stored |-> stored, roots |-> roots, counts |-> {0, 2, 3, 4},
   worth |-> [m \in 1..3 |-> 0], scores |-> {0}, bounds |-> {-VALUE_INFINITE, VALUE_INFINITE},
   depth |-> 1, threads |-> 1]

\* From 3 it is mate in one, but 2 and 3 may also be repeated; from 5 a capture wins.
Chase(stored) ==
  Endgame(<< <<q(4), q(2)>>, <<q(3), q(5)>>, <<q(2), q(6)>>, <<q(1), q(5)>>, <<q(4), x(8)>>, <<>>,
             <<q(10)>>, <<q(7)>>, <<>>, <<>> >>,
          <<2, 2, 2, 2, 2, 2, 1, 1, 1, 1>>, {6, 10}, stored, {1, 2, 3, 5})

\* From 1 the mate comes a ply too late.  12 loses if it captures, and draws with the
\* pawn; from 14 and 13 there are captures only.
Late(stored) ==
  Endgame(<< <<q(2)>>, <<q(3)>>, <<q(4)>>, <<q(5)>>, <<q(6)>>, <<q(7)>>, <<q(8)>>, <<>>,
             <<q(10), x(2)>>, <<>>, <<q(14), x(2)>>, <<pawn(1), x(3), q(11)>>, <<x(2)>>, <<x(3)>> >>,
          <<1, 1, 1, 1, 1, 1, 1, 1, 2, 2, 2, 2, 2, 2>>, {8}, stored, {1, 2, 3, 4, 9, 11, 12})

Odd == {2 * k - 1 : k \in 1..7}
Even == {2 * k : k \in 1..7}
MCGames == <<Lost, Holds, Wins, VotesLost, VotesWon, Chase(Odd), Chase(Even), Late(Odd), Late(Even)>>
====
