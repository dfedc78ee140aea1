---------------------------- MODULE SearchProofs ----------------------------
(* The lines and the assertions of the search, for every game, window and   *)
(* depth; and what a score is worth after it went through the table.        *)
EXTENDS Search, WellFoundedInduction, SequenceTheorems, TLAPS

\* The scores a node at the given ply can return: its mates are not nearer to the
\* root than the node is.
ScoresAt(ply) == (-VALUE_MATE + ply)..(VALUE_MATE - ply)

----
(* The frames and entries as they are typed. *)

Nodes(G) == DOMAIN G.moves
Maybe(G) == Nodes(G) \cup {NoMove}
Entries(G) == [move : Maybe(G), value : Int, bound : SUBSET BOUND_EXACT, depth : Int,
               pv : BOOLEAN, gen : Nat]
Places == {"enter", "probe", "tables", "prune", "null", "verify", "probcut", "probcut quiet", "loop",
           "singular", "reduced", "full", "pv", "done", "qloop", "quiet", "qdone"}
Frames(G) ==
    [fn : {"search", "qsearch"}, node : Nodes(G), rule50 : Nat, ply : Nat, PvNode : BOOLEAN,
     alpha0 : Int, beta0 : Int, alpha : Int, beta : Int, depth : Int, cutNode : BOOLEAN,
     isNull : BOOLEAN, excluded : Maybe(G), at : Places, tt : Entries(G),
     ttPv : BOOLEAN, eval : Int, best : Int, max : Int, bestMove : Maybe(G),
     left : Seq(Nodes(G)), count : Nat, move : Maybe(G), newDepth : Int,
     reduced : Int, nullValue : Int, line : Seq(Nodes(G))]

----
(* What is true of a frame by itself. *)

\* Where a frame can be, by what it is.
PlyOK(x) ==
    /\ x.ply <= MAX_PLY /\ (x.at # "enter" => x.ply < MAX_PLY)
    /\ x.ply = 0 => x.PvNode /\ x.fn = "search" /\ (x.at = "enter" => x.depth > 0)
    /\ x.PvNode => x.excluded = NoMove
    /\ x.PvNode \/ x.isNull => ~x.cutNode
    /\ x.at \in {"null", "verify"} => x.cutNode
    /\ x.at = "pv" => x.PvNode
    /\ IF x.fn = "qsearch" THEN x.at \in {"enter", "qloop", "quiet", "qdone"}
       ELSE x.at \notin {"qloop", "quiet", "qdone"}

\* Mate distances bound the window of a search below the root once it is
\* entered, so that the bounds of what it calls are nearly within them, too.
WindowOK(x) ==
    /\ -VALUE_INFINITE <= x.alpha /\ x.alpha < x.beta /\ x.beta <= VALUE_INFINITE
    /\ x.at = "probcut quiet" => ~is_decisive(x.beta)
    /\ x.fn = "search" =>
         /\ ~x.PvNode => x.alpha = x.beta - 1
         /\ x.at # "enter" => x.depth >= 0
         /\ x.ply > 0 => x.beta <= mate_in(x.ply) + 2
         /\ x.ply > 0 /\ x.at # "enter" => mated_in(x.ply) <= x.alpha /\ x.beta <= mate_in(x.ply + 1)

\* The best value is a score that can be returned as soon as a move has been
\* counted, whether it was searched or pruned.
BestOK(G, x) ==
    /\ x.best = -VALUE_INFINITE \/ x.best \in ScoresAt(x.ply)
    /\ x.max = VALUE_INFINITE \/ x.max \in ScoresAt(x.ply)
    /\ x.at \in {"enter", "probe", "tables", "prune", "null", "verify", "probcut quiet", "probcut"} =>
         x.count = 0
    /\ x.at \in {"reduced", "full", "pv", "done", "quiet", "qdone"} => x.count > 0
    /\ x.at \in {"loop", "done", "qloop", "qdone"} /\ x.count > 0 => x.best \in ScoresAt(x.ply)
    /\ x.at \in {"qloop", "qdone", "quiet"} /\ x.node \notin G.check => x.best \in ScoresAt(x.ply)
    /\ x.at = "verify" => x.nullValue \in ScoresAt(x.ply)

\* Only moves of the position are looked at.
MovesOK(G, x) ==
    /\ Range(x.left) \subseteq Range(G.moves[x.node])
    /\ x.at = "singular" => x.left # <<>>
    /\ x.at \in {"probcut quiet", "reduced", "full", "pv", "quiet"} => x.move \in Range(G.moves[x.node])

FrameOK(G, x) == PlyOK(x) /\ WindowOK(x) /\ BestOK(G, x) /\ MovesOK(G, x)

----
(* What is true of the frames together. *)

\* The calls that are made a ply deeper.
Deeper == {"null", "probcut quiet", "probcut", "reduced", "full", "pv", "quiet"}
Calls == Deeper \cup {"verify", "singular"}

\* A frame and the one it called: PV nodes are called by PV nodes only.
CallOK(x, y) ==
    /\ x.at \in Calls
    /\ x.at \in Deeper => y.ply = x.ply + 1
    /\ y.PvNode <=> x.PvNode /\ x.at \in {"pv", "quiet"}
    /\ y.PvNode => y.node = x.move
    /\ x.at = "quiet" => y.fn = "qsearch"

LineOf(G, n, line) ==
    \A i \in DOMAIN line : line[i] \in Range(G.moves[IF i = 1 THEN n ELSE line[i - 1]])

\* The PV nodes are the first frames of the stack, one for every ply, so that
\* the pointers into their lists are only written by themselves: they point to
\* the frame when its list is the one to read, and are null when there is none.
\* A quiescence search empties the list of its caller when it is entered.
PvOK(G, st, p, i) ==
    LET x == st[i]
    IN  x.PvNode =>
          /\ x.ply = i - 1
          /\ x.at \in {"pv", "qloop", "quiet", "qdone"} => p[i] = i
          /\ x.at \in {"reduced", "full"} => p[i] = 0
          /\ x.at = "pv" => LineOf(G, x.move, x.line)
          /\ x.at = "quiet" /\ (i < Len(st) => st[i + 1].at # "enter") => LineOf(G, x.move, x.line)

Good(G, st, p) ==
    /\ st # <<>> => st[1].PvNode /\ st[1].node = G.root
    /\ \A i \in 1..Len(st) : FrameOK(G, st[i]) /\ PvOK(G, st, p, i)
    /\ \A i \in 1..(Len(st) - 1) : CallOK(st[i], st[i + 1])

ScoreOK(st, r) ==
    r # <<>> => /\ r[1].value \in ScoresAt(0)
                /\ st # <<>> /\ st[Len(st)].at \in Deeper => r[1].value \in ScoresAt(st[Len(st)].ply)

----
(* The inductive invariant. *)

RestInv ==
    /\ g \in DOMAIN Games
    /\ nmpMinPly \in Int /\ stopped \in BOOLEAN /\ choices \in Nat /\ searches \in Nat
FramesInv ==
    /\ stack \in Seq(Frames(game)) /\ pvs \in [0..(MAX_PLY + 2) -> Nat]
    /\ Good(game, stack, pvs)
    /\ ScoreOK(stack, result)
TableInv ==
    /\ DOMAIN tt \subseteq Nodes(game)
    /\ \A n \in DOMAIN tt : tt[n] \in Entries(game) /\ tt[n].value \in ScoresAt(0)
RootInv == rootPv \in Seq(Nodes(game)) /\ LineOf(game, game.root, rootPv)

IInv == RestInv /\ FramesInv /\ TableInv /\ RootInv

----
(* Numbers. *)

\* Max and Min of two numbers, as the windows and depths use them.
LEMMA Larger ==
    ASSUME NEW a \in Int, NEW b \in Int
    PROVE  Max({a, b}) = IF a >= b THEN a ELSE b
<1>. DEFINE P(x) == x \in {a, b} /\ \A y \in {a, b} : x >= y
<1>1. P(IF a >= b THEN a ELSE b)
  OBVIOUS
<1>2. \A x : P(x) => x = IF a >= b THEN a ELSE b
  OBVIOUS
<1>3. Max({a, b}) = CHOOSE x : P(x)
  BY DEF Max
<1>. HIDE DEF P
<1>4. P(CHOOSE x : P(x))
  BY <1>1
<1>. QED BY <1>2, <1>3, <1>4

\* The smaller of two numbers is one of them.
LEMMA Smaller ==
    ASSUME NEW a \in Int, NEW b \in Int
    PROVE  Min({a, b}) = IF a <= b THEN a ELSE b
<1>. DEFINE P(x) == x \in {a, b} /\ \A y \in {a, b} : x <= y
<1>1. P(IF a <= b THEN a ELSE b)
  OBVIOUS
<1>2. \A x : P(x) => x = IF a <= b THEN a ELSE b
  OBVIOUS
<1>3. Min({a, b}) = CHOOSE x : P(x)
  BY DEF Min
<1>. HIDE DEF P
<1>4. P(CHOOSE x : P(x))
  BY <1>1
<1>. QED BY <1>2, <1>3, <1>4

\* A weighted mean lies between.
LEMMA BetweenThem ==
    ASSUME NEW a \in Int, NEW b \in Int, NEW w \in Nat, b <= a
    PROVE  Between(a, b, w) \in Int /\ b <= Between(a, b, w) /\ Between(a, b, w) <= a
<1>. DEFINE m == a * w + b
            q == m \div (w + 1)
<1>1. m \in Int /\ q \in Int /\ q * (w + 1) <= m /\ m < (q + 1) * (w + 1)
  OBVIOUS
<1>2. \A x, y \in Int : x <= y => x * (w + 1) <= y * (w + 1)
  OBVIOUS
<1>3. b * (w + 1) <= m
  <2>1. b * w <= a * w
    OBVIOUS
  <2>2. b * (w + 1) = b * w + b
    OBVIOUS
  <2>. QED BY <2>1, <2>2
<1>4. m <= a * (w + 1)
  <2>1. a * (w + 1) = a * w + a
    OBVIOUS
  <2>. QED BY <2>1
<1>5. b <= q
  <2>1. SUFFICES ASSUME q + 1 <= b PROVE FALSE
    BY <1>1
  <2>2. (q + 1) * (w + 1) <= b * (w + 1)
    BY <1>1, <1>2, <2>1
  <2>. QED BY <1>1, <1>3, <2>2
<1>6. q <= a
  <2>1. SUFFICES ASSUME a + 1 <= q PROVE FALSE
    BY <1>1
  <2>2. (a + 1) * (w + 1) <= q * (w + 1)
    BY <1>1, <1>2, <2>1
  <2>3. (a + 1) * (w + 1) = a * (w + 1) + w + 1
    OBVIOUS
  <2>. QED BY <1>1, <1>4, <2>2, <2>3
<1>. QED BY <1>1, <1>5, <1>6 DEF Between

\* The bounds between mates, tablebase wins and ordinary scores are in order.
LEMMA Bounds ==
    /\ VALUE_MATE \in Nat /\ MAX_PLY \in Nat /\ RULE50 \in Nat
    /\ VALUE_TB_WIN_IN_MAX_PLY = VALUE_MATE - 2 * MAX_PLY - 1
    /\ VALUE_TB = VALUE_MATE - MAX_PLY - 1
    /\ VALUE_MATE_IN_MAX_PLY = VALUE_MATE - MAX_PLY
    /\ VALUE_TB_WIN_IN_MAX_PLY > MAX_PLY
  BY ScoreAssumption DEF VALUE_TB_WIN_IN_MAX_PLY, VALUE_TB, VALUE_MATE_IN_MAX_PLY

\* What is stored is a score, never VALUE_NONE, and on the same side of the
\* bounds between wins, ordinary scores and losses.
THEOREM StoredIsAScore ==
    ASSUME NEW ply \in 0..MAX_PLY, NEW v \in ScoresAt(ply)
    PROVE  /\ value_to_tt(v, ply) \in Value /\ is_valid(value_to_tt(v, ply))
           /\ is_win(value_to_tt(v, ply)) <=> is_win(v)
           /\ is_loss(value_to_tt(v, ply)) <=> is_loss(v)
  BY Bounds DEF ScoresAt, value_to_tt, is_win, is_loss, is_valid, Value, VALUE_NONE, VALUE_INFINITE

\* A score that was stored at one ply and is read at another is the same claim,
\* counted from the new node, or claims less.  A win is only believed if it was a
\* win, and if it comes before the fifty-move count of the reader ends the game;
\* the same holds for losses.
THEOREM ReadBackClaimsNoMore ==
    ASSUME NEW ply \in 0..MAX_PLY, NEW v \in ScoresAt(ply),
           NEW here \in 0..MAX_PLY, NEW r50c \in 0..RULE50,
           NEW t, t = value_to_tt(v, ply), NEW w, w = value_from_tt(t, here, r50c)
    PROVE  /\ ~is_decisive(v) => w = v
           /\ is_win(w) => /\ is_win(v) /\ w = v + ply - here
                           /\ VALUE_TB - t <= RULE50 - r50c
                           /\ is_mate(t) => VALUE_MATE - t <= RULE50 - r50c
           /\ is_loss(w) => /\ is_loss(v) /\ w = v - ply + here
                            /\ VALUE_TB + t <= RULE50 - r50c
                            /\ is_mated(t) => VALUE_MATE + t <= RULE50 - r50c
<1>. USE Bounds
<1>t. /\ t \in Int /\ is_valid(t) /\ (is_win(t) <=> is_win(v)) /\ (is_loss(t) <=> is_loss(v))
      /\ is_win(v) => t = v + ply
      /\ is_loss(v) => t = v - ply
      /\ ~is_decisive(v) => t = v
  <2>1. t \in Value /\ is_valid(t) /\ (is_win(t) <=> is_win(v)) /\ (is_loss(t) <=> is_loss(v))
    BY StoredIsAScore
  <2>2. t \in Int
    BY <2>1 DEF Value, VALUE_INFINITE
  <2>3. ~(is_win(v) /\ is_loss(v))
    BY DEF is_win, is_loss, ScoresAt
  <2>. QED BY <2>1, <2>2, <2>3 DEF value_to_tt, is_decisive
<1>1. CASE is_win(v)
  <2>1. ~is_loss(v) /\ ~is_loss(t) /\ is_decisive(v)
    BY <1>1, <1>t DEF is_win, is_loss, is_decisive, ScoresAt
  <2>2. CASE TooLate(t, r50c)
    <3>1. w = VALUE_TB_WIN_IN_MAX_PLY - 1
      BY <1>1, <1>t, <2>2 DEF value_from_tt
    <3>2. ~is_win(w) /\ ~is_loss(w)
      BY <3>1 DEF is_win, is_loss
    <3>. QED BY <2>1, <3>2
  <2>3. CASE ~TooLate(t, r50c)
    <3>1. w = t - here
      BY <1>1, <1>t, <2>1, <2>3 DEF value_from_tt, FromHere
    <3>2. ~is_loss(w)
      BY <1>1, <1>t, <3>1 DEF is_loss, is_win
    <3>. QED BY <1>1, <1>t, <2>1, <2>3, <3>1, <3>2 DEF TooLate, ScoresAt
  <2>. QED BY <2>2, <2>3
<1>2. CASE is_loss(v)
  <2>1. ~is_win(v) /\ ~is_win(t) /\ is_decisive(v)
    BY <1>2, <1>t DEF is_win, is_loss, is_decisive, ScoresAt
  <2>2. CASE TooLate(-t, r50c)
    <3>1. w = -VALUE_TB_WIN_IN_MAX_PLY + 1
      BY <1>2, <1>t, <2>1, <2>2 DEF value_from_tt
    <3>2. ~is_win(w) /\ ~is_loss(w)
      BY <3>1 DEF is_win, is_loss
    <3>. QED BY <2>1, <3>2
  <2>3. CASE ~TooLate(-t, r50c)
    <3>1. w = t + here
      BY <1>2, <1>t, <2>1, <2>3 DEF value_from_tt, FromHere
    <3>2. ~is_win(w)
      BY <1>2, <1>t, <3>1 DEF is_loss, is_win
    <3>. QED BY <1>2, <1>t, <2>1, <2>3, <3>1, <3>2 DEF TooLate, ScoresAt, is_mate, is_mated
  <2>. QED BY <2>2, <2>3
<1>3. CASE ~is_decisive(v)
  <2>1. w = v /\ ~is_win(v) /\ ~is_loss(v)
    BY <1>3, <1>t DEF value_from_tt, FromHere, is_decisive
  <2>. QED BY <2>1
<1>. QED BY <1>1, <1>2, <1>3 DEF is_decisive

\* A score is stored as a score of the position itself, and read back as one of
\* the ply where it is read, if there is one.
LEMMA ToTable ==
    ASSUME NEW ply \in 0..MAX_PLY, NEW v \in ScoresAt(ply)
    PROVE  value_to_tt(v, ply) \in ScoresAt(0)
  BY Bounds DEF ScoresAt, value_to_tt, is_win, is_loss

\* What an entry is read back as is a score of the reader, or VALUE_NONE.
LEMMA FromTable ==
    ASSUME NEW ply \in 0..MAX_PLY, NEW r50c \in Nat, NEW t \in ScoresAt(0) \cup {VALUE_NONE},
           NEW w, w = value_from_tt(t, ply, r50c)
    PROVE  w \in Int /\ (is_valid(w) => w \in ScoresAt(ply))
<1>. USE Bounds DEF ScoresAt, VALUE_NONE, is_valid
<1>1. t \in Int /\ RULE50 - r50c \in Int /\ VALUE_TB_WIN_IN_MAX_PLY \in Int
  OBVIOUS
<1>2. CASE ~is_valid(t)
  BY <1>2 DEF value_from_tt
<1>3. CASE is_valid(t)
  <2>1. w \in {VALUE_TB_WIN_IN_MAX_PLY - 1, -VALUE_TB_WIN_IN_MAX_PLY + 1, FromHere(t, ply)}
    BY <1>3 DEF value_from_tt
  <2>2. FromHere(t, ply) \in ScoresAt(ply)
    BY <1>3 DEF FromHere, is_win, is_loss
  <2>. QED BY <2>1, <2>2
<1>. QED BY <1>2, <1>3

\* Scores that are not decisive can be returned anywhere.
LEMMA Ordinary ==
    ASSUME NEW ply \in 0..MAX_PLY, NEW v \in Int,
           ~is_win(v - 2), ~is_loss(v + 2)
    PROVE  v \in ScoresAt(ply)
  BY Bounds DEF ScoresAt, is_win, is_loss

\* A score that is not decisive can be returned at any ply.
LEMMA Undecided ==
    ASSUME NEW ply \in 0..MAX_PLY, NEW v \in Int, ~is_decisive(v)
    PROVE  v \in ScoresAt(ply)
  BY Bounds DEF ScoresAt, is_decisive, is_win, is_loss

----
(* Frames and sequences of them. *)

IsRecord(x) == x = [i \in DOMAIN x |-> x[i]]

\* A record stays a record when a field is replaced.
LEMMA Replaced == \A x, k, v : IsRecord(x) => IsRecord([x EXCEPT ![k] = v])
  BY Zenon DEF IsRecord

\* A frame of which a field is replaced by a value of its type is a frame.
LEMMA Fields ==
    ASSUME NEW G, NEW x \in Frames(G)
    PROVE  /\ \A v \in {"search", "qsearch"} : [x EXCEPT !.fn = v] \in Frames(G)
           /\ \A v \in BOOLEAN : [x EXCEPT !.isNull = v] \in Frames(G)
           /\ \A v \in Maybe(G) : [x EXCEPT !.excluded = v] \in Frames(G)
           /\ \A v \in Int : [x EXCEPT !.alpha = v] \in Frames(G)
           /\ \A v \in Int : [x EXCEPT !.beta = v] \in Frames(G)
           /\ \A v \in Int : [x EXCEPT !.depth = v] \in Frames(G)
           /\ \A v \in Places : [x EXCEPT !.at = v] \in Frames(G)
           /\ \A v \in Entries(G) : [x EXCEPT !.tt = v] \in Frames(G)
           /\ \A v \in BOOLEAN : [x EXCEPT !.ttPv = v] \in Frames(G)
           /\ \A v \in Int : [x EXCEPT !.eval = v] \in Frames(G)
           /\ \A v \in Int : [x EXCEPT !.best = v] \in Frames(G)
           /\ \A v \in Int : [x EXCEPT !.max = v] \in Frames(G)
           /\ \A v \in Maybe(G) : [x EXCEPT !.bestMove = v] \in Frames(G)
           /\ \A v \in Seq(Nodes(G)) : [x EXCEPT !.left = v] \in Frames(G)
           /\ \A v \in Nat : [x EXCEPT !.count = v] \in Frames(G)
           /\ \A v \in Maybe(G) : [x EXCEPT !.move = v] \in Frames(G)
           /\ \A v \in Int : [x EXCEPT !.newDepth = v] \in Frames(G)
           /\ \A v \in Int : [x EXCEPT !.reduced = v] \in Frames(G)
           /\ \A v \in Int : [x EXCEPT !.nullValue = v] \in Frames(G)
           /\ \A v \in Seq(Nodes(G)) : [x EXCEPT !.line = v] \in Frames(G)
<1>r. IsRecord(x)
  BY DEF IsRecord, Frames
<1>1. ASSUME NEW v \in {"search", "qsearch"} PROVE [x EXCEPT !.fn = v] \in Frames(G)
  <2>1. IsRecord([x EXCEPT !.fn = v])
    BY <1>r, Replaced
  <2>. QED BY <2>1 DEF IsRecord, Frames
<1>2. ASSUME NEW v \in BOOLEAN PROVE [x EXCEPT !.isNull = v] \in Frames(G)
  <2>1. IsRecord([x EXCEPT !.isNull = v])
    BY <1>r, Replaced
  <2>. QED BY <2>1 DEF IsRecord, Frames
<1>3. ASSUME NEW v \in Maybe(G) PROVE [x EXCEPT !.excluded = v] \in Frames(G)
  <2>1. IsRecord([x EXCEPT !.excluded = v])
    BY <1>r, Replaced
  <2>. QED BY <2>1 DEF IsRecord, Frames
<1>4. ASSUME NEW v \in Int PROVE [x EXCEPT !.alpha = v] \in Frames(G)
  <2>1. IsRecord([x EXCEPT !.alpha = v])
    BY <1>r, Replaced
  <2>. QED BY <2>1 DEF IsRecord, Frames
<1>5. ASSUME NEW v \in Int PROVE [x EXCEPT !.beta = v] \in Frames(G)
  <2>1. IsRecord([x EXCEPT !.beta = v])
    BY <1>r, Replaced
  <2>. QED BY <2>1 DEF IsRecord, Frames
<1>6. ASSUME NEW v \in Int PROVE [x EXCEPT !.depth = v] \in Frames(G)
  <2>1. IsRecord([x EXCEPT !.depth = v])
    BY <1>r, Replaced
  <2>. QED BY <2>1 DEF IsRecord, Frames
<1>7. ASSUME NEW v \in Places PROVE [x EXCEPT !.at = v] \in Frames(G)
  <2>1. IsRecord([x EXCEPT !.at = v])
    BY <1>r, Replaced
  <2>. QED BY <2>1 DEF IsRecord, Frames
<1>8. ASSUME NEW v \in Entries(G) PROVE [x EXCEPT !.tt = v] \in Frames(G)
  <2>1. IsRecord([x EXCEPT !.tt = v])
    BY <1>r, Replaced
  <2>. QED BY <2>1 DEF IsRecord, Frames
<1>9. ASSUME NEW v \in BOOLEAN PROVE [x EXCEPT !.ttPv = v] \in Frames(G)
  <2>1. IsRecord([x EXCEPT !.ttPv = v])
    BY <1>r, Replaced
  <2>. QED BY <2>1 DEF IsRecord, Frames
<1>10. ASSUME NEW v \in Int PROVE [x EXCEPT !.eval = v] \in Frames(G)
  <2>1. IsRecord([x EXCEPT !.eval = v])
    BY <1>r, Replaced
  <2>. QED BY <2>1 DEF IsRecord, Frames
<1>11. ASSUME NEW v \in Int PROVE [x EXCEPT !.best = v] \in Frames(G)
  <2>1. IsRecord([x EXCEPT !.best = v])
    BY <1>r, Replaced
  <2>. QED BY <2>1 DEF IsRecord, Frames
<1>12. ASSUME NEW v \in Int PROVE [x EXCEPT !.max = v] \in Frames(G)
  <2>1. IsRecord([x EXCEPT !.max = v])
    BY <1>r, Replaced
  <2>. QED BY <2>1 DEF IsRecord, Frames
<1>13. ASSUME NEW v \in Maybe(G) PROVE [x EXCEPT !.bestMove = v] \in Frames(G)
  <2>1. IsRecord([x EXCEPT !.bestMove = v])
    BY <1>r, Replaced
  <2>. QED BY <2>1 DEF IsRecord, Frames
<1>14. ASSUME NEW v \in Seq(Nodes(G)) PROVE [x EXCEPT !.left = v] \in Frames(G)
  <2>1. IsRecord([x EXCEPT !.left = v])
    BY <1>r, Replaced
  <2>. QED BY <2>1 DEF IsRecord, Frames
<1>15. ASSUME NEW v \in Nat PROVE [x EXCEPT !.count = v] \in Frames(G)
  <2>1. IsRecord([x EXCEPT !.count = v])
    BY <1>r, Replaced
  <2>. QED BY <2>1 DEF IsRecord, Frames
<1>16. ASSUME NEW v \in Maybe(G) PROVE [x EXCEPT !.move = v] \in Frames(G)
  <2>1. IsRecord([x EXCEPT !.move = v])
    BY <1>r, Replaced
  <2>. QED BY <2>1 DEF IsRecord, Frames
<1>17. ASSUME NEW v \in Int PROVE [x EXCEPT !.newDepth = v] \in Frames(G)
  <2>1. IsRecord([x EXCEPT !.newDepth = v])
    BY <1>r, Replaced
  <2>. QED BY <2>1 DEF IsRecord, Frames
<1>18. ASSUME NEW v \in Int PROVE [x EXCEPT !.reduced = v] \in Frames(G)
  <2>1. IsRecord([x EXCEPT !.reduced = v])
    BY <1>r, Replaced
  <2>. QED BY <2>1 DEF IsRecord, Frames
<1>19. ASSUME NEW v \in Int PROVE [x EXCEPT !.nullValue = v] \in Frames(G)
  <2>1. IsRecord([x EXCEPT !.nullValue = v])
    BY <1>r, Replaced
  <2>. QED BY <2>1 DEF IsRecord, Frames
<1>20. ASSUME NEW v \in Seq(Nodes(G)) PROVE [x EXCEPT !.line = v] \in Frames(G)
  <2>1. IsRecord([x EXCEPT !.line = v])
    BY <1>r, Replaced
  <2>. QED BY <2>1 DEF IsRecord, Frames
<1>. QED BY <1>1, <1>2, <1>3, <1>4, <1>5, <1>6, <1>7, <1>8, <1>9, <1>10, <1>11, <1>12, <1>13, <1>14, <1>15, <1>16, <1>17, <1>18, <1>19, <1>20

\* An entry stays one when its value, depth or move is replaced.
LEMMA EntryFields ==
    ASSUME NEW G, NEW x \in Entries(G)
    PROVE  /\ \A v \in Int : [x EXCEPT !.value = v] \in Entries(G)
           /\ \A v \in Int : [x EXCEPT !.depth = v] \in Entries(G)
           /\ \A v \in Maybe(G) : [x EXCEPT !.move = v] \in Entries(G)
<1>r. IsRecord(x)
  BY DEF IsRecord, Entries
<1>1. ASSUME NEW v \in Int PROVE [x EXCEPT !.value = v] \in Entries(G)
  <2>1. IsRecord([x EXCEPT !.value = v])
    BY <1>r, Replaced
  <2>. QED BY <2>1 DEF IsRecord, Entries
<1>2. ASSUME NEW v \in Int PROVE [x EXCEPT !.depth = v] \in Entries(G)
  <2>1. IsRecord([x EXCEPT !.depth = v])
    BY <1>r, Replaced
  <2>. QED BY <2>1 DEF IsRecord, Entries
<1>3. ASSUME NEW v \in Maybe(G) PROVE [x EXCEPT !.move = v] \in Entries(G)
  <2>1. IsRecord([x EXCEPT !.move = v])
    BY <1>r, Replaced
  <2>. QED BY <2>1 DEF IsRecord, Entries
<1>. QED BY <1>1, <1>2, <1>3

\* The frame of a call.
LEMMA NewFrame ==
    ASSUME NEW G, NEW fn \in {"search", "qsearch"}, NEW n \in Nodes(G), NEW r50 \in Nat,
           NEW ply \in Nat, NEW pv \in BOOLEAN, NEW a \in Int, NEW b \in Int, NEW depth \in Int,
           NEW cut \in BOOLEAN
    PROVE  Frame(fn, n, r50, ply, pv, a, b, depth, cut) \in Frames(G)
<1>1. NoEntry \in Entries(G)
  BY ScoreAssumption DEF NoEntry, Entries, Maybe, VALUE_NONE
<1>2. "enter" \in Places
  BY DEF Places
<1>3. VALUE_INFINITE \in Int
  BY ScoreAssumption DEF VALUE_INFINITE
<1>4. <<>> \in Seq(Nodes(G)) /\ NoMove \in Maybe(G)
  BY DEF Maybe
<1>. QED BY <1>1, <1>2, <1>3, <1>4 DEF Frame, Frames

\* The frame on top of a stack, and the stack when it is replaced.
LEMMA TopOf ==
    ASSUME NEW F, NEW st \in Seq(F), st # <<>>, NEW x \in F
    PROVE  /\ Len(st) \in Nat \ {0} /\ Last(st) = st[Len(st)] /\ Last(st) \in F
           /\ Front(st) \in Seq(F) /\ Len(Front(st)) = Len(st) - 1
           /\ \A i \in 1..(Len(st) - 1) : Front(st)[i] = st[i]
           /\ Append(Front(st), x) \in Seq(F) /\ Len(Append(Front(st), x)) = Len(st)
           /\ \A i \in 1..(Len(st) - 1) : Append(Front(st), x)[i] = st[i]
           /\ Append(Front(st), x)[Len(st)] = x
<1>1. Len(st) \in Nat \ {0}
  OBVIOUS
<1>2. Front(st) \in Seq(F) /\ Len(Front(st)) = Len(st) - 1
      /\ \A i \in 1..(Len(st) - 1) : Front(st)[i] = st[i]
  <2>. DEFINE k == Len(st) - 1
  <2>1. k \in Nat /\ \A i \in 1..k : st[i] \in F
    BY <1>1
  <2>. HIDE DEF k
  <2>2. /\ SubSeq(st, 1, k) \in Seq(F) /\ Len(SubSeq(st, 1, k)) = IF 1 <= k THEN k - 1 + 1 ELSE 0
        /\ \A i \in 1..(k - 1 + 1) : SubSeq(st, 1, k)[i] = st[1 + i - 1]
    BY <2>1, SubSeqProperties
  <2>3. Len(SubSeq(st, 1, k)) = k /\ \A i \in 1..k : SubSeq(st, 1, k)[i] = st[i]
    BY <2>1, <2>2
  <2>4. Front(st) = SubSeq(st, 1, k) /\ k = Len(st) - 1
    BY DEF Front, k
  <2>. QED BY <2>2, <2>3, <2>4
<1>3. Last(st) = st[Len(st)] /\ Last(st) \in F
  BY <1>1 DEF Last
<1>4. /\ Append(Front(st), x) \in Seq(F) /\ Len(Append(Front(st), x)) = Len(st)
      /\ \A i \in 1..(Len(st) - 1) : Append(Front(st), x)[i] = st[i]
      /\ Append(Front(st), x)[Len(st)] = x
  BY <1>1, <1>2, AppendProperties
<1>. QED BY <1>1, <1>2, <1>3, <1>4

\* The stack when the frame on top is replaced and another pushed.
LEMMA TwoOnTop ==
    ASSUME NEW F, NEW st \in Seq(F), st # <<>>, NEW x \in F, NEW y \in F
    PROVE  /\ Front(st) \o <<x, y>> \in Seq(F) /\ Len(Front(st) \o <<x, y>>) = Len(st) + 1
           /\ \A i \in 1..(Len(st) - 1) : (Front(st) \o <<x, y>>)[i] = st[i]
           /\ (Front(st) \o <<x, y>>)[Len(st)] = x /\ (Front(st) \o <<x, y>>)[Len(st) + 1] = y
<1>t. PICK t : t = Front(st) \o <<x, y>>
  OBVIOUS
<1>1. Len(st) \in Nat \ {0} /\ Front(st) \in Seq(F) /\ Len(Front(st)) = Len(st) - 1
      /\ \A i \in 1..(Len(st) - 1) : Front(st)[i] = st[i]
  BY TopOf
<1>2. <<x, y>> \in Seq(F) /\ Len(<<x, y>>) = 2 /\ <<x, y>>[1] = x /\ <<x, y>>[2] = y
  OBVIOUS
<1>3. /\ t \in Seq(F) /\ Len(t) = Len(Front(st)) + Len(<<x, y>>)
      /\ \A i \in 1..(Len(Front(st)) + Len(<<x, y>>)) :
           t[i] = IF i <= Len(Front(st)) THEN Front(st)[i] ELSE <<x, y>>[i - Len(Front(st))]
  BY <1>t, <1>1, <1>2, ConcatProperties
<1>. DEFINE k == Len(st) - 1
<1>4. k \in Nat /\ k = Len(Front(st)) /\ Len(st) = k + 1
  BY <1>1
<1>. HIDE DEF k
<1>5. /\ Len(t) = k + 2
      /\ \A i \in 1..(k + 2) : t[i] = IF i <= k THEN Front(st)[i] ELSE <<x, y>>[i - k]
  BY <1>2, <1>3, <1>4
<1>6. t[k + 1] = x /\ t[k + 2] = y
  <2>1. t[k + 1] = <<x, y>>[k + 1 - k] /\ t[k + 2] = <<x, y>>[k + 2 - k]
    BY <1>4, <1>5
  <2>2. k + 1 - k = 1 /\ k + 2 - k = 2
    BY <1>4
  <2>. QED BY <1>2, <2>1, <2>2
<1>7. \A i \in 1..k : t[i] = st[i]
  BY <1>1, <1>4, <1>5
<1>. QED BY <1>t, <1>3, <1>4, <1>5, <1>6, <1>7

\* A set of numbers that is not empty has a smallest one.
LEMMA Smallest ==
    ASSUME NEW T, T \subseteq Nat, T # {}
    PROVE  \E x \in T : \A y \in T : x <= y
<1>1. PICK R : IsWellFoundedOn(R, Nat) /\ \A x, y \in Nat : <<x, y>> \in R <=> x < y
  <2>1. \A x, y \in Nat : <<x, y>> \in OpToRel(<, Nat) <=> x < y
    BY DEF OpToRel
  <2>. QED BY <2>1, NatLessThanWellFounded, Zenon
<1>2. PICK x \in T : \A y \in T : <<y, x>> \notin R
  <2>1. IsWellFoundedOn(R, Nat)
    BY <1>1
  <2>2. \E x \in T : \A y \in T : ~(<<y, x>> \in R)
    BY <2>1, WFMin, Zenon
  <2>. QED BY <2>2
<1>3. \A y \in T : ~(y < x)
  BY <1>1, <1>2
<1>. QED BY <1>3

\* Taking an element out of a sequence leaves only elements of it.
LEMMA Removed ==
    ASSUME NEW S, NEW s \in Seq(S), NEW e
    PROVE  RemoveFirst(s, e) \in Seq(S) /\ Range(RemoveFirst(s, e)) \subseteq Range(s)
<1>. DEFINE I == {k \in 1..Len(s) : s[k] = e}
<1>1. CASE I = {}
  BY <1>1 DEF RemoveFirst
<1>2. CASE I # {}
  <2>1. PICK least \in I : \A j \in I : least <= j
    <3>1. I \subseteq Nat
      OBVIOUS
    <3>. HIDE DEF I
    <3>. QED BY <1>2, <3>1, Smallest
  <2>2. Min(I) \in I
    BY <2>1 DEF Min
  <2>3. SelectInSeq(s, LAMBDA v : v = e) = Min(I)
    BY <1>2 DEF SelectInSeq
  <2>4. RemoveFirst(s, e) = RemoveAt(s, Min(I))
    BY <1>2, <2>3 DEF RemoveFirst
  <2>5. PICK k \in 1..Len(s) : k = Min(I)
    BY <2>2
  <2>6. s \in Seq(Range(s)) /\ \A i \in 1..Len(s) : s[i] \in Range(s)
    BY SeqOfRange, ElementOfSeq
  <2>7. SubSeq(s, 1, k - 1) \in Seq(Range(s))
    BY <2>6, SubSeqProperties
  <2>8. SubSeq(s, k + 1, Len(s)) \in Seq(Range(s))
    <3>1. \A i \in (k + 1)..Len(s) : s[i] \in Range(s)
      BY <2>6
    <3>. QED BY <3>1, SubSeqProperties
  <2>9. RemoveFirst(s, e) \in Seq(Range(s))
    BY <2>4, <2>5, <2>7, <2>8, ConcatProperties DEF RemoveAt
  <2>. QED BY <2>9, RangeOfSeq, SeqMonotonic
<1>. QED BY <1>1, <1>2

----
(* What the steps of the stack keep, one lemma for each kind of step: t is the *)
(* stack and q are the pointers afterwards.                                 *)

\* A frame that goes on: it may turn into a quiescence search.
SameCall(x, y) ==
    y.ply = x.ply /\ y.PvNode = x.PvNode /\ y.node = x.node /\ (y.fn = x.fn \/ y.fn = "qsearch")

\* The frame on top has emptied the list of the frame that called it, if it had
\* to.
Settled(G, st, n) ==
    st[n].PvNode /\ st[n].at = "enter" /\ n > 1 /\ st[n].fn = "qsearch" =>
      LineOf(G, st[n - 1].move, st[n - 1].line)

\* The frame on top goes on, without a call.
LEMMA Continued ==
    ASSUME NEW G, NEW st, NEW p, NEW t, NEW q, NEW n \in Nat \ {0}, Len(st) = n, Len(t) = n,
           \A i \in 1..(n - 1) : t[i] = st[i],
           st # <<>>, t # <<>>, Good(G, st, p), FrameOK(G, t[n]), SameCall(st[n], t[n]),
           t[n].at = "enter" \/ Settled(G, st, n),
           t[n].at \notin {"reduced", "full", "pv", "quiet"},
           t[n].PvNode /\ t[n].at \in {"qloop", "qdone"} => q[n] = n,
           \A i \in 1..(n - 1) : st[i].PvNode => q[i] = p[i]
    PROVE  Good(G, t, q)
<1>1. /\ st[1].PvNode /\ st[1].node = G.root
      /\ \A i \in 1..n : FrameOK(G, st[i]) /\ PvOK(G, st, p, i)
      /\ \A i \in 1..(n - 1) : CallOK(st[i], st[i + 1])
  BY DEF Good
<1>2. t[1].PvNode /\ t[1].node = G.root
  BY <1>1 DEF SameCall
<1>3. \A i \in 1..n : FrameOK(G, t[i])
  BY <1>1
<1>4. ASSUME NEW i \in 1..(n - 1) PROVE CallOK(t[i], t[i + 1])
  <2>1. CallOK(st[i], st[i + 1]) /\ t[i] = st[i]
    BY <1>1
  <2>2. CASE i + 1 = n
    BY <2>1, <2>2 DEF CallOK, SameCall
  <2>3. CASE i + 1 # n
    BY <2>1, <2>3
  <2>. QED BY <2>2, <2>3
<1>5. ASSUME NEW i \in 1..n PROVE PvOK(G, t, q, i)
  <2>1. CASE i = n
    <3>1. PvOK(G, st, p, n) /\ n \in 1..n
      BY <1>1
    <3>. QED BY <2>1, <3>1 DEF PvOK, SameCall
  <2>2. CASE i = n - 1
    <3>1. PvOK(G, st, p, n - 1) /\ t[n - 1] = st[n - 1] /\ (st[n - 1].PvNode => q[n - 1] = p[n - 1])
      BY <1>1, <2>2
    <3>2. CallOK(st[n - 1], st[n]) /\ n - 1 < n /\ n - 1 + 1 = n
      <4>1. n - 1 \in 1..(n - 1) /\ n - 1 + 1 = n
        BY <2>2
      <4>. QED BY <1>1, <4>1
    <3>3. ASSUME st[n - 1].PvNode, st[n - 1].at = "quiet", t[n].at # "enter"
          PROVE  LineOf(G, st[n - 1].move, st[n - 1].line)
      <4>1. st[n].PvNode /\ st[n].fn = "qsearch"
        BY <3>2, <3>3 DEF CallOK
      <4>2. CASE st[n].at = "enter"
        BY <3>3, <4>1, <4>2, <2>2 DEF Settled
      <4>3. CASE st[n].at # "enter"
        BY <3>1, <3>2, <3>3, <4>3 DEF PvOK
      <4>. QED BY <4>2, <4>3
    <3>. QED BY <2>2, <3>1, <3>2, <3>3 DEF PvOK
  <2>3. CASE i < n - 1
    <3>1. PvOK(G, st, p, i) /\ t[i] = st[i] /\ t[i + 1] = st[i + 1] /\ (st[i].PvNode => q[i] = p[i])
      BY <1>1, <2>3
    <3>. QED BY <2>3, <3>1 DEF PvOK
  <2>. QED BY <2>1, <2>2, <2>3
<1>. QED BY <1>2, <1>3, <1>4, <1>5 DEF Good

\* The frame on top calls another one.
LEMMA Called ==
    ASSUME NEW G, NEW st, NEW p, NEW t, NEW q, NEW n \in Nat \ {0}, Len(st) = n, Len(t) = n + 1,
           \A i \in 1..(n - 1) : t[i] = st[i],
           st # <<>>, t # <<>>, Good(G, st, p), FrameOK(G, t[n]), FrameOK(G, t[n + 1]),
           SameCall(st[n], t[n]), st[n].at # "enter", CallOK(t[n], t[n + 1]), t[n + 1].at = "enter",
           t[n].PvNode => /\ t[n].at \in {"pv", "quiet"} => q[n] = n
                          /\ t[n].at \in {"reduced", "full"} => q[n] = 0
                          /\ t[n].at = "pv" => LineOf(G, t[n].move, t[n].line),
           \A i \in 1..(n - 1) : st[i].PvNode => q[i] = p[i]
    PROVE  Good(G, t, q)
<1>1. /\ st[1].PvNode /\ st[1].node = G.root
      /\ \A i \in 1..n : FrameOK(G, st[i]) /\ PvOK(G, st, p, i)
      /\ \A i \in 1..(n - 1) : CallOK(st[i], st[i + 1])
  BY DEF Good
<1>2. t[1].PvNode /\ t[1].node = G.root
  BY <1>1 DEF SameCall
<1>3. \A i \in 1..(n + 1) : FrameOK(G, t[i])
  BY <1>1
<1>4. ASSUME NEW i \in 1..n PROVE CallOK(t[i], t[i + 1])
  <2>1. CASE i < n
    <3>1. CallOK(st[i], st[i + 1]) /\ t[i] = st[i]
      BY <1>1, <2>1
    <3>2. CASE i + 1 = n
      BY <3>1, <3>2 DEF CallOK, SameCall
    <3>3. CASE i + 1 # n
      BY <2>1, <3>1, <3>3
    <3>. QED BY <3>2, <3>3
  <2>. QED BY <2>1
<1>5. ASSUME NEW i \in 1..(n + 1) PROVE PvOK(G, t, q, i)
  <2>0. PvOK(G, st, p, n) /\ n \in 1..n
    BY <1>1
  <2>1. CASE i = n + 1
    <3>1. CallOK(t[n], t[n + 1])
      OBVIOUS
    <3>2. t[n + 1].PvNode => t[n].PvNode /\ t[n + 1].ply = t[n].ply + 1
      BY <3>1 DEF CallOK, Deeper
    <3>3. t[n + 1].PvNode => t[n].ply = n - 1
      BY <2>0, <3>2 DEF PvOK, SameCall
    <3>. QED BY <2>1, <3>2, <3>3 DEF PvOK
  <2>2. CASE i = n
    <3>1. t[n].at \notin {"qloop", "qdone"}
      BY DEF CallOK, Calls, Deeper
    <3>2. t[n].PvNode => t[n].ply = n - 1
      BY <2>0 DEF PvOK, SameCall
    <3>3. n < Len(t) /\ t[n + 1].at = "enter"
      OBVIOUS
    <3>. QED BY <2>2, <3>1, <3>2, <3>3 DEF PvOK
  <2>3. CASE i = n - 1
    <3>1. PvOK(G, st, p, i) /\ t[i] = st[i] /\ (st[i].PvNode => q[i] = p[i]) /\ i + 1 = n
      BY <1>1, <2>3
    <3>. QED BY <2>3, <3>1 DEF PvOK
  <2>4. CASE i < n - 1
    <3>1. PvOK(G, st, p, i) /\ t[i] = st[i] /\ t[i + 1] = st[i + 1] /\ (st[i].PvNode => q[i] = p[i])
      BY <1>1, <2>4
    <3>. QED BY <2>4, <3>1 DEF PvOK
  <2>. QED BY <2>1, <2>2, <2>3, <2>4
<1>. QED BY <1>2, <1>3, <1>4, <1>5 DEF Good

\* The frame on top returns.
LEMMA Returned ==
    ASSUME NEW G, NEW st, NEW p, NEW t, NEW q, NEW n \in Nat \ {0}, Len(st) = n, Len(t) = n - 1,
           \A i \in 1..(n - 1) : t[i] = st[i],
           st # <<>>, t # <<>> => n > 1, Good(G, st, p), Settled(G, st, n),
           \A i \in 1..(n - 1) : st[i].PvNode => q[i] = p[i]
    PROVE  Good(G, t, q)
<1>1. /\ st[1].PvNode /\ st[1].node = G.root
      /\ \A i \in 1..n : FrameOK(G, st[i]) /\ PvOK(G, st, p, i)
      /\ \A i \in 1..(n - 1) : CallOK(st[i], st[i + 1])
  BY DEF Good
<1>2. t # <<>> => t[1].PvNode /\ t[1].node = G.root
  BY <1>1
<1>3. \A i \in 1..(n - 1) : FrameOK(G, t[i])
  BY <1>1
<1>4. \A i \in 1..(n - 1 - 1) : CallOK(t[i], t[i + 1])
  BY <1>1
<1>5. ASSUME NEW i \in 1..(n - 1) PROVE PvOK(G, t, q, i)
  <2>1. PvOK(G, st, p, i) /\ t[i] = st[i] /\ (st[i].PvNode => q[i] = p[i]) /\ CallOK(st[i], st[i + 1])
    BY <1>1
  <2>2. CASE i = n - 1
    <3>1. ASSUME st[i].PvNode, st[i].at = "quiet"
          PROVE  LineOf(G, st[i].move, st[i].line)
      <4>1. st[n].PvNode /\ st[n].fn = "qsearch" /\ i < n /\ i + 1 = n /\ n > 1
        BY <2>1, <2>2, <3>1 DEF CallOK
      <4>2. CASE st[n].at = "enter"
        BY <4>1, <4>2, <2>2 DEF Settled
      <4>3. CASE st[n].at # "enter"
        BY <2>1, <3>1, <4>1, <4>3 DEF PvOK
      <4>. QED BY <4>2, <4>3
    <3>. QED BY <2>1, <2>2, <3>1 DEF PvOK
  <2>3. CASE i < n - 1
    <3>1. t[i + 1] = st[i + 1]
      BY <2>3
    <3>. QED BY <2>1, <2>3, <3>1 DEF PvOK
  <2>. QED BY <2>2, <2>3
<1>. QED BY <1>2, <1>3, <1>4, <1>5 DEF Good

WithLine(st, k, L) == [st EXCEPT ![k].line = L]

\* A line is written into the list of the frame that called the one on top.
LEMMA Written ==
    ASSUME NEW G, NEW st \in Seq(Frames(G)), NEW p, NEW n \in Nat \ {0}, Len(st) = n, n > 1,
           NEW L \in Seq(Nodes(G)), LineOf(G, st[n - 1].move, L), Good(G, st, p),
           NEW t, t = WithLine(st, n - 1, L)
    PROVE  /\ t \in Seq(Frames(G)) /\ Len(t) = n /\ t[n] = st[n] /\ Good(G, t, p) /\ Settled(G, t, n)
<1>. DEFINE y == [st[n - 1] EXCEPT !.line = L]
<1>0. n - 1 \in 1..Len(st) /\ st[n - 1] \in Frames(G)
  OBVIOUS
<1>1. y \in Frames(G)
  BY <1>0, Fields
<1>2. t = [st EXCEPT ![n - 1] = y]
  BY DEF WithLine
<1>. HIDE DEF y
<1>3. /\ t \in Seq(Frames(G)) /\ Len(t) = n
      /\ \A j \in 1..n : t[j] = IF j = n - 1 THEN y ELSE st[j]
  <2>. DEFINE e == [st EXCEPT ![n - 1] = y]
  <2>1. /\ e \in Seq(Frames(G)) /\ Len(e) = Len(st)
        /\ \A j \in 1..Len(st) : e[j] = IF j = n - 1 THEN y ELSE st[j]
    BY <1>0, <1>1, ExceptSeq
  <2>2. t = e
    BY <1>2
  <2>. HIDE DEF e
  <2>. QED BY <2>1, <2>2
<1>4. /\ y.fn = st[n - 1].fn /\ y.node = st[n - 1].node /\ y.ply = st[n - 1].ply
      /\ y.PvNode = st[n - 1].PvNode /\ y.alpha = st[n - 1].alpha /\ y.beta = st[n - 1].beta
      /\ y.depth = st[n - 1].depth /\ y.cutNode = st[n - 1].cutNode /\ y.isNull = st[n - 1].isNull
      /\ y.at = st[n - 1].at /\ y.best = st[n - 1].best /\ y.max = st[n - 1].max
      /\ y.left = st[n - 1].left /\ y.count = st[n - 1].count /\ y.move = st[n - 1].move
      /\ y.excluded = st[n - 1].excluded
      /\ y.nullValue = st[n - 1].nullValue /\ y.line = L
  BY <1>0 DEF Frames, y
<1>5. /\ st # <<>> /\ st[1].PvNode /\ st[1].node = G.root
      /\ \A i \in 1..n : FrameOK(G, st[i]) /\ PvOK(G, st, p, i)
      /\ \A i \in 1..(n - 1) : CallOK(st[i], st[i + 1])
  BY DEF Good
<1>6. FrameOK(G, y)
  <2>1. FrameOK(G, st[n - 1])
    BY <1>0, <1>5
  <2>2. PlyOK(y)
    BY <1>4, <2>1 DEF FrameOK, PlyOK
  <2>3. WindowOK(y)
    BY <1>4, <2>1 DEF FrameOK, WindowOK
  <2>4. BestOK(G, y)
    BY <1>4, <2>1 DEF FrameOK, BestOK
  <2>5. MovesOK(G, y)
    BY <1>4, <2>1 DEF FrameOK, MovesOK
  <2>. QED BY <2>2, <2>3, <2>4, <2>5 DEF FrameOK
<1>7. \A i \in 1..n : FrameOK(G, t[i])
  BY <1>3, <1>5, <1>6
<1>8. t[1].PvNode /\ t[1].node = G.root
  BY <1>3, <1>4, <1>5
<1>9. ASSUME NEW i \in 1..(n - 1) PROVE CallOK(t[i], t[i + 1])
  <2>1. CallOK(st[i], st[i + 1]) /\ i \in 1..n /\ i + 1 \in 1..n
    BY <1>5
  <2>2. CASE i = n - 1
    <3>1. t[i] = y /\ t[i + 1] = st[i + 1]
      BY <1>3, <2>1, <2>2
    <3>. QED BY <1>4, <2>1, <2>2, <3>1 DEF CallOK
  <2>3. CASE i + 1 = n - 1
    <3>1. t[i] = st[i] /\ t[i + 1] = y
      BY <1>3, <2>1, <2>3
    <3>. QED BY <1>4, <2>1, <2>3, <3>1 DEF CallOK
  <2>4. CASE i # n - 1 /\ i + 1 # n - 1
    <3>1. t[i] = st[i] /\ t[i + 1] = st[i + 1]
      BY <1>3, <2>1, <2>4
    <3>. QED BY <2>1, <3>1
  <2>. QED BY <2>2, <2>3, <2>4
<1>10. ASSUME NEW i \in 1..n PROVE PvOK(G, t, p, i)
  <2>1. PvOK(G, st, p, i) /\ (i < n => i + 1 \in 1..n)
    BY <1>5
  <2>2. CASE i = n - 1
    <3>1. t[i] = y
      BY <1>3, <2>2
    <3>. QED BY <1>4, <2>1, <2>2, <3>1 DEF PvOK
  <2>3. CASE i # n - 1
    <3>1. t[i] = st[i]
      BY <1>3, <2>3
    <3>2. i < n => t[i + 1].at = st[i + 1].at
      BY <1>3, <1>4, <2>1
    <3>. QED BY <1>3, <2>1, <3>1, <3>2 DEF PvOK
  <2>. QED BY <2>2, <2>3
<1>11. Good(G, t, p)
  BY <1>3, <1>7, <1>8, <1>9, <1>10 DEF Good
<1>12. Settled(G, t, n)
  <2>1. t[n - 1] = y
    BY <1>0, <1>3
  <2>. QED BY <1>4, <2>1 DEF Settled
<1>13. t[n] = st[n]
  BY <1>3
<1>. QED BY <1>3, <1>11, <1>12, <1>13

----
(* The steps of the stack, as the actions make them. *)

\* The game that is searched is one of those assumed.
LEMMA Playing ==
    ASSUME g \in DOMAIN Games
    PROVE  IsGame(game)
  BY GameAssumption DEF game

\* What is known of the frame on top, f.
LEMMA OnTop ==
    ASSUME FramesInv, stack # <<>>
    PROVE  /\ Len(stack) \in Nat \ {0} /\ f = stack[Len(stack)] /\ f \in Frames(game)
           /\ FrameOK(game, f) /\ PvOK(game, stack, pvs, Len(stack))
           /\ Len(stack) > 1 => CallOK(stack[Len(stack) - 1], f)
           /\ f.ply \in 0..MAX_PLY /\ stack[1].node = game.root
<1>1. Len(stack) \in Nat \ {0} /\ f = stack[Len(stack)] /\ f \in Frames(game)
  BY TopOf DEF FramesInv, f
<1>2. FrameOK(game, f) /\ PvOK(game, stack, pvs, Len(stack)) /\ stack[1].node = game.root
  BY <1>1 DEF FramesInv, Good
<1>3. Len(stack) > 1 => CallOK(stack[Len(stack) - 1], f)
  <2>1. SUFFICES ASSUME Len(stack) > 1 PROVE CallOK(stack[Len(stack) - 1], f)
    OBVIOUS
  <2>2. Len(stack) - 1 \in 1..(Len(stack) - 1) /\ Len(stack) - 1 + 1 = Len(stack)
    BY <1>1, <2>1
  <2>. QED BY <1>1, <2>2 DEF FramesInv, Good
<1>4. f.ply \in 0..MAX_PLY
  <2>1. f.ply \in Nat
    BY <1>1 DEF Frames
  <2>. QED BY <1>2, <2>1, ScoreAssumption DEF FrameOK, PlyOK
<1>. QED BY <1>1, <1>2, <1>3, <1>4

\* t is the stack after the frame on top has emptied or filled the list of the
\* frame that called it, or the stack itself.
Rewritten(t) ==
    /\ t \in Seq(Frames(game)) /\ Len(t) = Len(stack) /\ t[Len(stack)] = f
    /\ Good(game, t, pvs)

\* The stack itself, when no list has to be emptied.
LEMMA Unwritten ==
    ASSUME FramesInv, stack # <<>>
    PROVE  /\ Rewritten(stack)
           /\ f.at # "enter" \/ f.fn = "search" => Settled(game, stack, Len(stack))
<1>1. Rewritten(stack)
  BY OnTop DEF Rewritten, FramesInv
<1>2. f = stack[Len(stack)]
  BY OnTop
<1>3. f.fn = "search" => f.fn # "qsearch"
  OBVIOUS
<1>. QED BY <1>1, <1>2, <1>3 DEF Settled

\* A step in which the frame on top goes on keeps the frames.
LEMMA GoOn ==
    ASSUME FramesInv, stack # <<>>, g' = g, NEW t, Rewritten(t),
           NEW x, x \in Frames(game), FrameOK(game, x), SameCall(f, x),
           x.at = "enter" \/ Settled(game, t, Len(stack)),
           x.at \notin {"reduced", "full", "pv", "quiet"},
           x.PvNode /\ x.at \in {"qloop", "qdone"} => pvs'[Len(stack)] = Len(stack),
           pvs' \in [0..(MAX_PLY + 2) -> Nat], \A i \in 1..(Len(stack) - 1) : pvs'[i] = pvs[i],
           stack' \in Seq(Frames(game)), Len(stack') = Len(stack), stack'[Len(stack)] = x,
           \A i \in 1..(Len(stack) - 1) : stack'[i] = t[i], result' = <<>>
    PROVE  FramesInv'
<1>. DEFINE n == Len(stack)
<1>1. n \in Nat \ {0}
  BY OnTop
<1>2. Len(t) = n /\ t[n] = f /\ Good(game, t, pvs) /\ t \in Seq(Frames(game))
  BY DEF Rewritten
<1>. HIDE DEF n
<1>3. t # <<>> /\ stack' # <<>>
  BY <1>1, <1>2 DEF n
<1>4. Good(game, stack', pvs')
  BY <1>1, <1>2, <1>3, Continued DEF n
<1>5. game' = game
  BY DEF game
<1>. QED BY <1>4, <1>5 DEF FramesInv, ScoreOK

\* A step that only replaces the frame on top keeps the frames.
LEMMA WithStep ==
    ASSUME FramesInv, stack # <<>>, UNCHANGED <<g, pvs>>, NEW x, x \in Frames(game),
           With(x), FrameOK(game, x), SameCall(f, x),
           x.at = "enter" \/ f.at # "enter" \/ f.fn = "search",
           x.at \notin {"reduced", "full", "pv", "quiet"},
           x.at \in {"qloop", "qdone"} => f.at \in {"qloop", "quiet", "qdone"}
    PROVE  FramesInv'
<1>. DEFINE n == Len(stack)
            t == Append(Front(stack), x)
<1>1. /\ n \in Nat \ {0} /\ f = stack[n] /\ f \in Frames(game) /\ PvOK(game, stack, pvs, n)
      /\ FrameOK(game, f)
  BY OnTop
<1>2. /\ t \in Seq(Frames(game)) /\ Len(t) = n /\ \A i \in 1..(n - 1) : t[i] = stack[i]
      /\ t[n] = x
  BY TopOf DEF FramesInv
<1>3. stack' = t /\ result' = <<>>
  BY DEF With
<1>. HIDE DEF t
<1>4. x.PvNode /\ x.at \in {"qloop", "qdone"} => pvs[n] = n
  BY <1>1 DEF PvOK, SameCall
<1>5. Rewritten(stack) /\ (x.at = "enter" \/ Settled(game, stack, n))
  BY Unwritten
<1>6. pvs \in [0..(MAX_PLY + 2) -> Nat]
  BY DEF FramesInv
<1>. HIDE DEF n
<1>. QED BY <1>2, <1>3, <1>4, <1>5, <1>6, GoOn DEF n

\* A step that calls keeps the frames.
LEMMA CallStep ==
    ASSUME FramesInv, stack # <<>>, UNCHANGED g, NEW x, x \in Frames(game), NEW y, y \in Frames(game),
           Call(x, y), FrameOK(game, x), FrameOK(game, y), SameCall(f, x), CallOK(x, y),
           f.at # "enter", y.at = "enter", pvs' \in [0..(MAX_PLY + 2) -> Nat],
           x.PvNode => /\ x.at \in {"pv", "quiet"} => pvs'[Len(stack)] = Len(stack)
                       /\ x.at \in {"reduced", "full"} => pvs'[Len(stack)] = 0
                       /\ x.at = "pv" => LineOf(game, x.move, x.line),
           \A i \in 1..(Len(stack) - 1) : pvs'[i] = pvs[i]
    PROVE  FramesInv'
<1>. DEFINE n == Len(stack)
            t == Front(stack) \o <<x, y>>
<1>1. n \in Nat \ {0} /\ f = stack[n] /\ f \in Frames(game)
  BY OnTop
<1>2. /\ t \in Seq(Frames(game)) /\ Len(t) = n + 1 /\ \A i \in 1..(n - 1) : t[i] = stack[i]
      /\ t[n] = x /\ t[n + 1] = y
  <2>1. stack \in Seq(Frames(game))
    BY DEF FramesInv
  <2>. QED BY <2>1, TwoOnTop
<1>. HIDE DEF t
<1>3. t # <<>>
  BY <1>1, <1>2
<1>4. Good(game, stack, pvs)
  BY DEF FramesInv
<1>. HIDE DEF n
<1>5. Good(game, t, pvs')
  BY <1>1, <1>2, <1>3, <1>4, Called DEF n
<1>6. stack' = t /\ result' = <<>> /\ game' = game
  BY DEF Call, t, game
<1>. QED BY <1>2, <1>5, <1>6 DEF FramesInv, ScoreOK

\* What a frame returns is a score of the frame that gets it.
LEMMA Answering ==
    ASSUME NEW G, NEW st, NEW n \in Nat \ {0}, Len(st) = n, st \in Seq(Frames(G)),
           n > 1 => CallOK(st[n - 1], st[n]), NEW v \in Int,
           v \in ScoresAt(st[n].ply) \/ (st[n].ply > 0 /\ v \in ScoresAt(st[n].ply - 1)),
           NEW t, Len(t) = n - 1, \A i \in 1..(n - 1) : t[i] = st[i], t # <<>> => n > 1,
           NEW r, r[1].value = v
    PROVE  ScoreOK(t, r)
<1>1. st[n] \in Frames(G) /\ (n > 1 => st[n - 1] \in Frames(G))
  BY ElementOfSeq
<1>2. st[n].ply \in Nat /\ (n > 1 => st[n - 1].ply \in Nat)
  BY <1>1 DEF Frames
<1>3. v \in ScoresAt(0)
  BY <1>2, ScoreAssumption DEF ScoresAt
<1>4. ASSUME t # <<>>, t[Len(t)].at \in Deeper PROVE v \in ScoresAt(t[Len(t)].ply)
  <2>1. n > 1 /\ t[Len(t)] = st[n - 1]
    BY <1>4
  <2>2. st[n].ply = st[n - 1].ply + 1
    BY <1>4, <2>1 DEF CallOK
  <2>3. st[n].ply - 1 = st[n - 1].ply
    BY <1>2, <2>1, <2>2
  <2>. QED BY <1>2, <2>1, <2>2, <2>3, ScoreAssumption DEF ScoresAt
<1>. QED BY <1>3, <1>4 DEF ScoreOK

\* A step that returns a score, after what it wrote, keeps the frames.
LEMMA GoBack ==
    ASSUME FramesInv, stack # <<>>, g' = g, NEW t, Rewritten(t), Settled(game, t, Len(stack)),
           NEW v, v \in Int, v \in ScoresAt(f.ply) \/ (f.ply > 0 /\ v \in ScoresAt(f.ply - 1)),
           pvs' \in [0..(MAX_PLY + 2) -> Nat], \A i \in 1..(Len(stack) - 1) : pvs'[i] = pvs[i],
           stack' = Front(t), result'[1].value = v
    PROVE  FramesInv'
<1>. DEFINE n == Len(stack)
<1>1. n \in Nat \ {0}
  BY OnTop
<1>2. Len(t) = n /\ t[n] = f /\ Good(game, t, pvs) /\ t \in Seq(Frames(game))
  BY DEF Rewritten
<1>3. t # <<>>
  BY <1>1, <1>2
<1>4. /\ stack' \in Seq(Frames(game)) /\ Len(stack') = n - 1
      /\ \A i \in 1..(n - 1) : stack'[i] = t[i]
  BY <1>2, <1>3, TopOf, OnTop
<1>. HIDE DEF n
<1>5. stack' # <<>> => n > 1
  BY <1>1, <1>4
<1>6. Good(game, stack', pvs')
  BY <1>1, <1>2, <1>3, <1>4, <1>5, Returned DEF n
<1>7. n > 1 => CallOK(t[n - 1], t[n])
  <2>1. SUFFICES ASSUME n > 1 PROVE CallOK(t[n - 1], t[n])
    OBVIOUS
  <2>2. n - 1 \in 1..(n - 1) /\ n - 1 + 1 = n
    BY <1>1, <2>1
  <2>. QED BY <1>2, <2>2 DEF Good
<1>8. ScoreOK(stack', result')
  BY <1>1, <1>2, <1>4, <1>5, <1>7, Answering
<1>9. game' = game
  BY DEF game
<1>. QED BY <1>4, <1>6, <1>8, <1>9 DEF FramesInv

\* A step that only returns a score keeps the frames.
LEMMA ReturnStep ==
    ASSUME FramesInv, stack # <<>>, UNCHANGED <<g, pvs>>, NEW v, v \in Int, Return(v),
           f.at # "enter" \/ f.fn = "search",
           v \in ScoresAt(f.ply) \/ (f.ply > 0 /\ v \in ScoresAt(f.ply - 1))
    PROVE  FramesInv'
<1>1. Rewritten(stack) /\ Settled(game, stack, Len(stack))
  BY Unwritten
<1>2. stack' = Front(stack) /\ result'[1].value = v
  BY DEF Return
<1>3. pvs' \in [0..(MAX_PLY + 2) -> Nat] /\ \A i \in 1..(Len(stack) - 1) : pvs'[i] = pvs[i]
  BY DEF FramesInv
<1>. QED BY <1>1, <1>2, <1>3, GoBack

\* The frame on top writes a line into the list its caller's pointer leads to.
LEMMA Writes ==
    ASSUME FramesInv, stack # <<>>, f.PvNode, f.ply > 0,
           NEW L \in Seq(Nodes(game)), LineOf(game, f.node, L),
           NEW t, t = WithLine(stack, pvs[f.ply], L)
    PROVE  /\ Rewritten(t) /\ Settled(game, t, Len(stack))
           /\ f.ply = Len(stack) - 1 /\ pvs[f.ply] = f.ply
<1>. DEFINE n == Len(stack)
<1>1. /\ n \in Nat \ {0} /\ f = stack[n] /\ f \in Frames(game) /\ PvOK(game, stack, pvs, n)
      /\ n > 1 => CallOK(stack[n - 1], f)
      /\ stack \in Seq(Frames(game)) /\ Good(game, stack, pvs) /\ Len(stack) = n
  BY OnTop DEF FramesInv
<1>. HIDE DEF n
<1>2. f.ply = n - 1
  BY <1>1 DEF PvOK
<1>3. n > 1
  BY <1>1, <1>2
<1>4. /\ stack[n - 1].PvNode /\ stack[n - 1].at \in {"pv", "quiet"}
      /\ f.node = stack[n - 1].move
  BY <1>1, <1>3 DEF CallOK
<1>5. PvOK(game, stack, pvs, n - 1)
  <2>1. n - 1 \in 1..n
    BY <1>1, <1>3
  <2>. QED BY <1>1, <2>1 DEF Good, n
<1>6. pvs[n - 1] = n - 1
  BY <1>4, <1>5 DEF PvOK
<1>7. t = WithLine(stack, n - 1, L)
  BY <1>2, <1>6
<1>8. LineOf(game, stack[n - 1].move, L)
  BY <1>4
<1>9. t \in Seq(Frames(game)) /\ Len(t) = n /\ t[n] = stack[n] /\ Good(game, t, pvs) /\ Settled(game, t, n)
  BY <1>1, <1>3, <1>7, <1>8, Written
<1>. QED BY <1>1, <1>2, <1>6, <1>9 DEF Rewritten, n

----
(* The frames that the actions make. *)

\* A step that leaves the table alone keeps what is true of it.
LEMMA TableKept == ASSUME TableInv, UNCHANGED <<g, tt>> PROVE TableInv'
  BY DEF TableInv, game

\* A step that leaves the root's line alone keeps what is true of it.
LEMMA RootKept == ASSUME RootInv, UNCHANGED <<g, rootPv>> PROVE RootInv'
  BY DEF RootInv, game

\* What a game says of one of its positions.
LEMMA Moves ==
    ASSUME NEW G, IsGame(G), NEW n \in Nodes(G)
    PROVE  /\ G.moves[n] \in Seq(Nodes(G)) /\ Range(G.moves[n]) \subseteq Nodes(G)
           /\ G.captures[n] \in Seq(Nodes(G)) /\ Range(G.captures[n]) \subseteq Range(G.moves[n])
           /\ G.eval[n] \in Int /\ ~is_decisive(G.eval[n])
           /\ G.null[n] \in Maybe(G)
<1>1. G.moves[n] \in Seq(Nodes(G)) /\ G.captures[n] \in Seq(Nodes(G))
  BY DEF IsGame, Nodes
<1>2. Range(G.captures[n]) \subseteq Range(G.moves[n])
  BY DEF IsGame, Nodes
<1>3. G.eval[n] \in Int /\ ~is_decisive(G.eval[n]) /\ G.null[n] \in Maybe(G)
  BY DEF IsGame, Nodes, Maybe
<1>. QED BY <1>1, <1>2, <1>3, RangeOfSeq

\* The move picker only gives moves of the position.
LEMMA PickedMoves ==
    ASSUME IsGame(game), f.node \in Nodes(game), NEW all \in Seq(Nodes(game)),
           Range(all) \subseteq Range(game.moves[f.node]), NEW ttm
    PROVE  /\ Picked(all, ttm) \in Seq(Nodes(game))
           /\ Range(Picked(all, ttm)) \subseteq Range(game.moves[f.node])
<1>. DEFINE R == Range(game.moves[f.node])
<1>1. all \in Seq(R)
  BY SeqOfRange, SeqMonotonic
<1>2. ASSUME ttm \in R PROVE <<ttm>> \o RemoveFirst(all, ttm) \in Seq(R)
  <2>1. RemoveFirst(all, ttm) \in Seq(R)
    BY <1>1, Removed
  <2>2. <<ttm>> \in Seq(R)
    BY <1>2
  <2>. QED BY <2>1, <2>2, ConcatProperties
<1>3. Picked(all, ttm) \in Seq(R)
  BY <1>1, <1>2 DEF Picked
<1>4. R \subseteq Nodes(game)
  BY Moves
<1>. HIDE DEF R
<1>5. Picked(all, ttm) \in Seq(Nodes(game)) /\ Range(Picked(all, ttm)) \subseteq R
  BY <1>3, <1>4, SeqMonotonic, RangeOfSeq
<1>. QED BY <1>5 DEF R

\* A call is made with the arguments that a node can have.
CanCall(fn, n, r50, ply, pv, a, b, depth, cut) ==
    /\ fn \in {"search", "qsearch"} /\ n \in Nodes(game) /\ r50 \in Nat /\ ply \in Nat
    /\ pv \in BOOLEAN /\ a \in Int /\ b \in Int /\ depth \in Int /\ cut \in BOOLEAN
    /\ ply <= MAX_PLY /\ (ply = 0 => pv /\ fn = "search" /\ depth > 0) /\ (pv => ~cut)
    /\ -VALUE_INFINITE <= a /\ a < b /\ b <= VALUE_INFINITE
    /\ fn = "search" => (~pv => a = b - 1) /\ (ply > 0 => b <= mate_in(ply) + 2)

\* A frame that is called with such arguments is in order.
LEMMA Fresh ==
    ASSUME IsGame(game), NEW fn, NEW n, NEW r50, NEW ply, NEW pv, NEW a, NEW b, NEW depth, NEW cut,
           CanCall(fn, n, r50, ply, pv, a, b, depth, cut),
           NEW y, y = Frame(fn, n, r50, ply, pv, a, b, depth, cut)
    PROVE  /\ y \in Frames(game) /\ FrameOK(game, y)
           /\ y.fn = fn /\ y.node = n /\ y.ply = ply /\ y.PvNode = pv /\ y.at = "enter"
           /\ y.cutNode = cut
<1>0. /\ fn \in {"search", "qsearch"} /\ n \in Nodes(game) /\ r50 \in Nat /\ ply \in Nat
      /\ pv \in BOOLEAN /\ a \in Int /\ b \in Int /\ depth \in Int /\ cut \in BOOLEAN
      /\ ply <= MAX_PLY /\ (ply = 0 => pv /\ fn = "search" /\ depth > 0) /\ (pv => ~cut)
      /\ -VALUE_INFINITE <= a /\ a < b /\ b <= VALUE_INFINITE
      /\ fn = "search" => (~pv => a = b - 1) /\ (ply > 0 => b <= mate_in(ply) + 2)
  BY DEF CanCall
<1>1. y \in Frames(game)
  BY <1>0, NewFrame
<1>2. /\ y.fn = fn /\ y.node = n /\ y.ply = ply /\ y.PvNode = pv /\ y.at = "enter" /\ y.alpha = a
      /\ y.beta = b /\ y.depth = depth /\ y.cutNode = cut /\ y.isNull = FALSE
      /\ y.best = -VALUE_INFINITE /\ y.max = VALUE_INFINITE /\ y.left = <<>> /\ y.count = 0
      /\ y.excluded = NoMove
  BY DEF Frame
<1>3. PlyOK(y)
  BY <1>0, <1>2 DEF PlyOK
<1>4. WindowOK(y)
  BY <1>0, <1>2 DEF WindowOK
<1>5. BestOK(game, y)
  BY <1>0, <1>2 DEF BestOK
<1>6. MovesOK(game, y)
  BY <1>0, <1>2 DEF MovesOK, Range
<1>. QED BY <1>0, <1>1, <1>2, <1>3, <1>4, <1>5, <1>6 DEF FrameOK

\* Of which a field is set that no invariant is about, or that says of a NonPV
\* node that its caller passed.
LEMMA Marked ==
    ASSUME NEW y \in Frames(game), FrameOK(game, y), y.at = "enter",
           NEW z \in Frames(game),
           \/ z = [y EXCEPT !.isNull = TRUE] /\ ~y.cutNode
           \/ (\E e, p : z = [y EXCEPT !.excluded = e, !.ttPv = p]) /\ ~y.PvNode
    PROVE  /\ FrameOK(game, z)
           /\ z.fn = y.fn /\ z.node = y.node /\ z.ply = y.ply /\ z.PvNode = y.PvNode /\ z.at = "enter"
<1>. DEFINE Alike(z1) ==
       /\ z1.fn = y.fn /\ z1.node = y.node /\ z1.ply = y.ply /\ z1.PvNode = y.PvNode
       /\ z1.at = y.at /\ z1.alpha = y.alpha /\ z1.beta = y.beta /\ z1.depth = y.depth
       /\ z1.cutNode = y.cutNode /\ z1.best = y.best /\ z1.max = y.max /\ z1.left = y.left
       /\ z1.count = y.count /\ z1.move = y.move /\ z1.nullValue = y.nullValue
       /\ z1.isNull = y.isNull \/ ~y.cutNode
       /\ z1.excluded = y.excluded \/ ~y.PvNode
<1>1. Alike(z)
  <2>1. CASE z = [y EXCEPT !.isNull = TRUE] /\ ~y.cutNode
    BY <2>1 DEF Frames
  <2>2. ASSUME NEW e, NEW p, z = [y EXCEPT !.excluded = e, !.ttPv = p], ~y.PvNode
        PROVE  Alike(z)
    BY <2>2 DEF Frames
  <2>. HIDE DEF Alike
  <2>. QED BY <2>1, <2>2
<1>2. PlyOK(z)
  BY <1>1 DEF PlyOK, FrameOK
<1>3. WindowOK(z)
  BY <1>1 DEF WindowOK, FrameOK
<1>4. BestOK(game, z)
  BY <1>1 DEF BestOK, FrameOK
<1>5. MovesOK(game, z)
  BY <1>1 DEF MovesOK, FrameOK
<1>. QED BY <1>1, <1>2, <1>3, <1>4, <1>5 DEF FrameOK

Types(x) ==
    /\ x.fn \in {"search", "qsearch"} /\ x.node \in Nodes(game) /\ x.rule50 \in Nat /\ x.ply \in Nat
    /\ x.PvNode \in BOOLEAN /\ x.alpha0 \in Int /\ x.beta0 \in Int /\ x.alpha \in Int
    /\ x.beta \in Int /\ x.depth \in Int /\ x.cutNode \in BOOLEAN /\ x.isNull \in BOOLEAN
    /\ x.excluded \in Maybe(game) /\ x.at \in Places /\ x.tt \in Entries(game) /\ x.ttPv \in BOOLEAN
    /\ x.eval \in Int /\ x.best \in Int /\ x.max \in Int /\ x.bestMove \in Maybe(game)
    /\ x.left \in Seq(Nodes(game)) /\ x.count \in Nat /\ x.move \in Maybe(game)
    /\ x.newDepth \in Int /\ x.reduced \in Int /\ x.nullValue \in Int /\ x.line \in Seq(Nodes(game))

Constants ==
    /\ VALUE_MATE \in Nat /\ MAX_PLY \in Nat \ {0} /\ RULE50 \in Nat /\ VALUE_MATE > 3 * MAX_PLY + 1
    /\ MaxSearches \in Nat /\ MaxChoices \in Nat /\ VERIFY_DEPTH \in Nat

\* The fields of a frame are of their types.
LEMMA Typed ==
    ASSUME NEW x, x \in Frames(game)
    PROVE  Types(x)
  BY DEF Frames, Types

\* What is known wherever there is a frame.
LEMMA Known ==
    ASSUME IInv, stack # <<>>
    PROVE  /\ RestInv /\ FramesInv /\ TableInv /\ RootInv /\ IsGame(game) /\ Constants
           /\ f \in Frames(game) /\ f.ply \in 0..MAX_PLY /\ Types(f)
           /\ PlyOK(f) /\ WindowOK(f) /\ BestOK(game, f) /\ MovesOK(game, f)
           /\ game.eval[f.node] \in Int /\ ~is_decisive(game.eval[f.node])
           /\ game.eval[f.node] \in ScoresAt(f.ply)
<1>1. RestInv /\ FramesInv /\ TableInv /\ RootInv /\ IsGame(game)
  BY Playing DEF IInv, RestInv
<1>2. Constants
  BY ScoreAssumption, GameAssumption DEF Constants
<1>3. f \in Frames(game) /\ f.ply \in 0..MAX_PLY /\ FrameOK(game, f)
  BY <1>1, OnTop
<1>4. Types(f)
  BY <1>3, Typed
<1>5. game.eval[f.node] \in Int /\ ~is_decisive(game.eval[f.node])
  BY <1>1, <1>4, Moves DEF Types
<1>6. game.eval[f.node] \in ScoresAt(f.ply)
  <2>1. f.ply \in 0..MAX_PLY
    BY <1>3
  <2>. QED BY <1>5, <2>1, Undecided
<1>. QED BY <1>1, <1>2, <1>3, <1>4, <1>5, <1>6 DEF FrameOK

\* An entry that was found, and what it says here.
LEMMA ProbedHere ==
    ASSUME IInv, stack # <<>>, NEW n, NEW d, d \in {Found(n), NoEntry}
    PROVE  /\ Probed(d) \in Entries(game) /\ Probed(d).value \in Int
           /\ is_valid(Probed(d).value) => Probed(d).value \in ScoresAt(f.ply)
<1>1. d \in Entries(game) /\ d.value \in ScoresAt(0) \cup {VALUE_NONE}
  <2>1. NoEntry \in Entries(game) /\ NoEntry.value = VALUE_NONE
    BY ScoreAssumption DEF NoEntry, Entries, Maybe, VALUE_NONE
  <2>2. n \in DOMAIN tt => tt[n] \in Entries(game) /\ tt[n].value \in ScoresAt(0)
    BY DEF IInv, TableInv
  <2>. QED BY <2>1, <2>2 DEF Found
<1>2. f.ply \in 0..MAX_PLY /\ f.rule50 \in Nat
  BY Known DEF Types
<1>. DEFINE w == value_from_tt(d.value, f.ply, f.rule50)
            m == IF f.fn = "search" /\ f.ply = 0
                 THEN IF rootPv = <<>> THEN NoMove ELSE Head(rootPv) ELSE d.move
<1>3. w \in Int /\ (is_valid(w) => w \in ScoresAt(f.ply))
  BY <1>1, <1>2, FromTable
<1>4. m \in Maybe(game)
  <2>1. rootPv # <<>> => Head(rootPv) \in Nodes(game)
    BY DEF IInv, RootInv
  <2>2. d.move \in Maybe(game)
    BY <1>1 DEF Entries
  <2>. QED BY <2>1, <2>2 DEF Maybe
<1>5. Probed(d) = [d EXCEPT !.value = w, !.move = m]
  BY DEF Probed
<1>. HIDE DEF w, m
<1>6. Probed(d) \in Entries(game)
  <2>1. d \in Entries(game) /\ w \in Int
    BY <1>1, <1>3
  <2>2. [d EXCEPT !.value = w] \in Entries(game)
    BY <2>1, EntryFields
  <2>. QED BY <1>4, <1>5, <2>2, EntryFields
<1>7. Probed(d).value = w
  BY <1>1, <1>5 DEF Entries
<1>. QED BY <1>3, <1>6, <1>7

\* Whatever the replacement keeps, the table only holds scores of positions.
LEMMA WriteKeeps ==
    ASSUME IInv, stack # <<>>, g' = g, NEW n, n \in Nodes(game), NEW v, v \in ScoresAt(f.ply),
           NEW pv, pv \in BOOLEAN, NEW bound, bound \in SUBSET BOUND_EXACT, NEW depth, depth \in Int,
           NEW m, m \in Maybe(game), Write(n, v, pv, bound, depth, m)
    PROVE  TableInv'
<1>. DEFINE new == [move |-> m, value |-> value_to_tt(v, f.ply), bound |-> bound, depth |-> depth,
                    pv |-> pv, gen |-> searches]
            old == Found(n)
<1>0. f.ply \in 0..MAX_PLY /\ Constants /\ RestInv
  BY Known
<1>1. value_to_tt(v, f.ply) \in ScoresAt(0)
  BY <1>0, ToTable
<1>2. value_to_tt(v, f.ply) \in Int
  BY <1>0, <1>1 DEF ScoresAt, Constants
<1>3. new \in Entries(game) /\ new.value \in ScoresAt(0)
  BY <1>0, <1>1, <1>2 DEF Entries, RestInv
<1>4. old = NoEntry \/ (old \in Entries(game) /\ old.value \in ScoresAt(0))
  BY DEF Found, IInv, TableInv
<1>5. tt' = [x \in DOMAIN tt \cup {n} |-> IF x = n THEN Saved(old, new) ELSE tt[x]]
  BY DEF Write
<1>. HIDE DEF new, old
<1>6. Saved(old, new) \in Entries(game) /\ Saved(old, new).value \in ScoresAt(0)
  <2>. DEFINE a == IF new.move # NoMove THEN new.move ELSE old.move
              d == IF old.depth >= 5 /\ old.bound # BOUND_EXACT /\ is_decisive(old.value)
                   THEN old.depth - 1 ELSE old.depth
  <2>1. NoEntry.move = NoMove
    BY DEF NoEntry
  <2>2. a \in Maybe(game)
    BY <1>3, <1>4, <2>1 DEF Entries, Maybe
  <2>3. CASE Saved(old, new) = [new EXCEPT !.move = a]
    <3>1. Saved(old, new) \in Entries(game)
      BY <1>3, <2>2, <2>3, EntryFields
    <3>2. Saved(old, new).value = new.value
      BY <1>3, <2>3 DEF Entries
    <3>. QED BY <1>3, <3>1, <3>2
  <2>4. CASE old # NoEntry /\ Saved(old, new) = [old EXCEPT !.move = a, !.depth = d]
    <3>1. d \in Int /\ old \in Entries(game)
      BY <1>4, <2>4 DEF Entries
    <3>. HIDE DEF a, d
    <3>2. Saved(old, new) \in Entries(game)
      <4>1. [old EXCEPT !.move = a] \in Entries(game)
        BY <2>2, <3>1, EntryFields
      <4>. QED BY <2>4, <3>1, <4>1, EntryFields
    <3>3. Saved(old, new).value = old.value
      BY <2>4, <3>1 DEF Entries
    <3>. QED BY <1>4, <2>4, <3>2, <3>3
  <2>. QED BY <2>3, <2>4 DEF Saved
<1>7. DOMAIN tt \subseteq Nodes(game)
      /\ \A x \in DOMAIN tt : tt[x] \in Entries(game) /\ tt[x].value \in ScoresAt(0)
  BY DEF IInv, TableInv
<1>8. game' = game
  BY DEF game
<1>9. DOMAIN tt' = DOMAIN tt \cup {n}
      /\ \A x \in DOMAIN tt' : tt'[x] = IF x = n THEN Saved(old, new) ELSE tt[x]
  BY <1>5
<1>10. ASSUME NEW x \in DOMAIN tt' PROVE tt'[x] \in Entries(game) /\ tt'[x].value \in ScoresAt(0)
  <2>1. CASE x = n
    BY <1>6, <1>9, <2>1
  <2>2. CASE x # n
    BY <1>7, <1>9, <2>2
  <2>. QED BY <2>1, <2>2
<1>. QED BY <1>7, <1>8, <1>9, <1>10 DEF TableInv

----
(* What the actions read. *)

\* The mean of two scores, one not decisive and the other below it.
LEMMA Middle ==
    ASSUME NEW ply \in 0..MAX_PLY, NEW a \in Int, ~is_decisive(a), NEW b \in Int,
           -VALUE_INFINITE < b, b <= a
    PROVE  Between(a, b, 1) \in Int /\ Between(a, b, 1) \in ScoresAt(ply)
<1>. DEFINE m == (a + b) \div 2
<1>1. m \in Int /\ 2 * m <= a + b /\ a + b <= 2 * m + 1
  OBVIOUS
<1>2. Between(a, b, 1) = m
  BY DEF Between
<1>. HIDE DEF m
<1>3. a < VALUE_TB_WIN_IN_MAX_PLY /\ -VALUE_TB_WIN_IN_MAX_PLY < a
  BY Bounds DEF is_decisive, is_win, is_loss
<1>. QED BY <1>1, <1>2, <1>3, Bounds DEF ScoresAt, VALUE_INFINITE

\* What was returned is a score of the frame it is returned to.
LEMMA Answer ==
    ASSUME IInv, stack # <<>>, result # <<>>
    PROVE  /\ result[1].value \in Int /\ result[1].value \in ScoresAt(0)
           /\ f.at \in Deeper => /\ result[1].value \in ScoresAt(f.ply)
                                 /\ answer \in Int /\ answer \in ScoresAt(f.ply)
<1>1. ScoreOK(stack, result) /\ f = stack[Len(stack)] /\ f.ply \in Nat
  BY Known, OnTop DEF IInv, FramesInv
<1>2. result[1].value \in ScoresAt(0) /\ (f.at \in Deeper => result[1].value \in ScoresAt(f.ply))
  BY <1>1 DEF ScoreOK
<1>3. result[1].value \in Int
  BY <1>2, ScoreAssumption DEF ScoresAt
<1>. QED BY <1>1, <1>2, <1>3, ScoreAssumption DEF ScoresAt, answer

\* The next move is one of the position's, and so are those after it.
LEMMA Upcoming ==
    ASSUME IInv, stack # <<>>, f.left # <<>>
    PROVE  /\ next \in Range(game.moves[f.node]) /\ next \in Nodes(game) /\ next \in Maybe(game)
           /\ Tail(f.left) \in Seq(Nodes(game))
           /\ Range(Tail(f.left)) \subseteq Range(game.moves[f.node])
<1>1. f.left \in Seq(Nodes(game)) /\ Range(f.left) \subseteq Range(game.moves[f.node])
  BY Known DEF Types, MovesOK
<1>2. next \in Range(f.left) /\ next \in Nodes(game)
  BY <1>1 DEF next, Range
<1>3. Tail(f.left) \in Seq(Nodes(game)) /\ Range(Tail(f.left)) \subseteq Range(f.left)
  BY <1>1 DEF Range
<1>. QED BY <1>1, <1>2, <1>3 DEF Maybe

\* The windows that a frame below its mate distances can call with.
LEMMA CalledWindow ==
    ASSUME IInv, stack # <<>>, f.at # "enter"
    PROVE  /\ f.ply < MAX_PLY /\ f.ply + 1 \in Nat /\ f.ply + 1 <= MAX_PLY
           /\ -f.beta \in Int /\ -f.alpha \in Int /\ -f.beta < -f.alpha
           /\ -VALUE_INFINITE <= -f.beta /\ -f.alpha <= VALUE_INFINITE
           /\ f.fn = "search" => -f.alpha <= mate_in(f.ply + 1) + 2
           /\ f.fn = "search" /\ f.ply > 0 => -f.beta + 1 <= mate_in(f.ply + 1) + 2
<1>1. /\ Constants /\ PlyOK(f) /\ WindowOK(f) /\ f.ply \in Nat /\ f.alpha \in Int /\ f.beta \in Int
  BY Known DEF Types
<1>2. /\ -VALUE_INFINITE <= f.alpha /\ f.alpha < f.beta /\ f.beta <= VALUE_INFINITE
      /\ f.fn = "search" /\ f.ply > 0 => mated_in(f.ply) <= f.alpha
  BY <1>1 DEF WindowOK
<1>3. f.ply < MAX_PLY
  BY <1>1 DEF PlyOK
<1>4. VALUE_MATE \in Nat /\ MAX_PLY \in Nat /\ VALUE_INFINITE = VALUE_MATE + 1
      /\ mate_in(f.ply + 1) + 2 = VALUE_MATE - f.ply + 1
  BY <1>1 DEF Constants, VALUE_INFINITE, mate_in
<1>5. f.ply + 1 \in Nat /\ f.ply + 1 <= MAX_PLY
  BY <1>1, <1>3, <1>4
<1>6. /\ -f.beta \in Int /\ -f.alpha \in Int /\ -f.beta < -f.alpha
      /\ -VALUE_INFINITE <= -f.beta /\ -f.alpha <= VALUE_INFINITE
  BY <1>1, <1>2, <1>4
<1>7. ASSUME f.fn = "search" PROVE -f.alpha <= VALUE_MATE - f.ply + 1
  <2>1. f.ply = 0 \/ -VALUE_MATE + f.ply <= f.alpha
    BY <1>1, <1>2, <1>7 DEF mated_in
  <2>. QED BY <1>1, <1>2, <1>4, <2>1
<1>8. ASSUME f.fn = "search", f.ply > 0 PROVE -f.beta + 1 <= VALUE_MATE - f.ply + 1
  <2>1. -VALUE_MATE + f.ply <= f.alpha
    BY <1>2, <1>8 DEF mated_in
  <2>. QED BY <1>1, <1>2, <1>4, <2>1
<1>. QED BY <1>3, <1>4, <1>5, <1>6, <1>7, <1>8

\* The count of the fifty moves after a move is a number.
LEMMA AfterIsACount == ASSUME IInv, stack # <<>>, NEW m PROVE After(m) \in Nat
  BY Known DEF Types, After

----
(* The moves that are searched. *)

\* The frame from which a move is searched: the one on top, with the next move
\* taken from its list.
Taking(fr) ==
    /\ fr \in Frames(game) /\ SameCall(f, fr) /\ fr.fn = "search"
    /\ fr.alpha = f.alpha /\ fr.beta = f.beta /\ fr.cutNode = f.cutNode /\ fr.isNull = f.isNull
    /\ fr.excluded = f.excluded /\ fr.best = f.best /\ fr.max = f.max
    /\ fr.depth >= 0 /\ fr.count > 0
    /\ fr.move \in Range(game.moves[f.node]) /\ Range(fr.left) \subseteq Range(game.moves[f.node])

\* A search with a null window: at a PV node there is no list to read from it.
LEMMA ZeroCall ==
    ASSUME IInv, stack # <<>>, f.at # "enter", f.fn = "search", g' = g, NEW fr, Taking(fr),
           NEW at, at \in {"reduced", "full"}, NEW d, d \in Int, NEW c, c \in BOOLEAN,
           ZeroWindow(fr, at, d, c),
           pvs' \in [0..(MAX_PLY + 2) -> Nat], \A i \in 1..(Len(stack) - 1) : pvs'[i] = pvs[i],
           f.PvNode => pvs'[Len(stack)] = 0
    PROVE  FramesInv'
<1>1. RestInv /\ FramesInv /\ TableInv /\ RootInv /\ IsGame(game) /\ Constants
  BY Known
<1>2. /\ f \in Frames(game) /\ f.ply \in 0..MAX_PLY
      /\ PlyOK(f) /\ WindowOK(f) /\ BestOK(game, f) /\ MovesOK(game, f)
  BY Known
<1>3. Types(f)
  BY Known
<1>4. fr \in Frames(game)
  BY DEF Taking
<1>5. /\ fr.ply = f.ply /\ fr.PvNode = f.PvNode /\ fr.node = f.node
      /\ fr.fn = "search" /\ fr.alpha = f.alpha /\ fr.beta = f.beta /\ fr.cutNode = f.cutNode
      /\ fr.isNull = f.isNull /\ fr.excluded = f.excluded /\ fr.best = f.best /\ fr.max = f.max
      /\ fr.depth >= 0 /\ fr.count > 0
      /\ fr.move \in Range(game.moves[f.node]) /\ Range(fr.left) \subseteq Range(game.moves[f.node])
  BY DEF Taking, SameCall
<1>6. f.ply \in Nat /\ f.ply < MAX_PLY /\ f.node \in Nodes(game)
  BY <1>2, <1>3 DEF PlyOK, Types
<1>7. fr.move \in Nodes(game) /\ After(fr.move) \in Nat
  <2>1. Range(game.moves[f.node]) \subseteq Nodes(game)
    BY <1>1, <1>6, Moves
  <2>. QED BY <1>5, <2>1, AfterIsACount
<1>. DEFINE p == f.ply + 1
            a == -(f.alpha + 1)
            b == -f.alpha
            y == Frame("search", fr.move, After(fr.move), p, FALSE, a, b, d, c)
<1>8. Call([fr EXCEPT !.at = at, !.reduced = d], y)
  BY DEF ZeroWindow, Child
<1>9. /\ a \in Int /\ b \in Int /\ p \in Nat /\ p <= MAX_PLY /\ p # 0
      /\ -VALUE_INFINITE <= a /\ a < b /\ b <= VALUE_INFINITE /\ a = b - 1
      /\ b <= mate_in(p) + 2
  <2>1. /\ p \in Nat /\ p <= MAX_PLY /\ b \in Int /\ -f.beta < b /\ -f.beta \in Int
        /\ -VALUE_INFINITE <= -f.beta /\ b <= VALUE_INFINITE /\ b <= mate_in(p) + 2
    BY CalledWindow
  <2>2. f.alpha \in Int /\ VALUE_INFINITE \in Int
    BY <1>1, <1>3 DEF Types, Constants, VALUE_INFINITE
  <2>3. a \in Int /\ a = b - 1 /\ a < b /\ p # 0
    BY <1>6, <2>2
  <2>4. -VALUE_INFINITE <= a
    <3>. HIDE DEF a, b
    <3>. QED BY <2>1, <2>2, <2>3
  <2>. QED BY <2>1, <2>3, <2>4
<1>10. p = f.ply + 1 /\ at \in Places
  BY DEF Places
<1>. HIDE DEF p, a, b
<1>fy. CanCall("search", fr.move, After(fr.move), p, FALSE, a, b, d, c)
  BY <1>7, <1>9 DEF CanCall
<1>y. /\ y \in Frames(game) /\ FrameOK(game, y)
      /\ y.fn = "search" /\ y.node = fr.move /\ y.ply = p /\ y.PvNode = FALSE /\ y.at = "enter"
  <2>1. PICK s1, v1, c1 : s1 = "search" /\ v1 = FALSE /\ c1 = c
    OBVIOUS
  <2>2. CanCall(s1, fr.move, After(fr.move), p, v1, a, b, d, c1) /\ y = Frame(s1, fr.move, After(fr.move), p, v1, a, b, d, c1)
    BY <1>fy, <2>1
  <2>. HIDE DEF y
  <2>3. /\ y \in Frames(game) /\ FrameOK(game, y)
        /\ y.fn = s1 /\ y.node = fr.move /\ y.ply = p /\ y.PvNode = v1 /\ y.at = "enter"
    BY <1>1, <2>2, Fresh
  <2>. QED BY <2>1, <2>3
<1>. DEFINE x == [fr EXCEPT !.at = at, !.reduced = d]
<1>m. x \in Frames(game)
  BY <1>4, <1>10, Fields, Zenon
<1>a. /\ x.fn = fr.fn /\ x.node = fr.node /\ x.ply = fr.ply /\ x.PvNode = fr.PvNode
     /\ x.alpha = fr.alpha /\ x.beta = fr.beta /\ x.depth = fr.depth /\ x.cutNode = fr.cutNode
     /\ x.isNull = fr.isNull /\ x.at = at /\ x.best = fr.best /\ x.max = fr.max /\ x.left = fr.left
     /\ x.count = fr.count /\ x.move = fr.move /\ x.nullValue = fr.nullValue /\ x.line = fr.line
     /\ x.excluded = fr.excluded
  BY <1>4 DEF Frames
<1>z. Call(x, y)
  BY <1>8
<1>. HIDE DEF x, y
<1>p. PlyOK(x)
  BY <1>2, <1>5, <1>6, <1>a DEF PlyOK
<1>w. WindowOK(x)
  BY <1>2, <1>5, <1>a DEF WindowOK
<1>b. BestOK(game, x)
  BY <1>2, <1>5, <1>a DEF BestOK
<1>v. MovesOK(game, x)
  BY <1>2, <1>5, <1>a DEF MovesOK
<1>k. FrameOK(game, x) /\ SameCall(f, x)
  BY <1>a, <1>p, <1>w, <1>b, <1>v, <1>5 DEF FrameOK, SameCall
<1>c. CallOK(x, y)
  <2>1. x.at \in {"reduced", "full"} /\ ~y.PvNode /\ y.ply = x.ply + 1
    BY <1>a, <1>y, <1>5, <1>10
  <2>. QED BY <2>1 DEF CallOK, Calls, Deeper
<1>q. x.PvNode => pvs'[Len(stack)] = 0
  BY <1>5, <1>a
<1>. QED BY <1>1, <1>2, <1>m, <1>a, <1>y, <1>z, <1>k, <1>c, <1>q, CallStep, <1>5

\* A search with the whole window: the list is the caller's own, and empty.
LEMMA PvCall ==
    ASSUME IInv, stack # <<>>, f.at # "enter", f.fn = "search", f.PvNode, g' = g, NEW fr, Taking(fr),
           NEW d, d \in Int, Pv(fr, d)
    PROVE  FramesInv'
<1>1. RestInv /\ FramesInv /\ TableInv /\ RootInv /\ IsGame(game) /\ Constants
  BY Known
<1>2. /\ f \in Frames(game) /\ f.ply \in 0..MAX_PLY
      /\ PlyOK(f) /\ WindowOK(f) /\ BestOK(game, f) /\ MovesOK(game, f)
  BY Known
<1>3. Types(f)
  BY Known
<1>4. fr \in Frames(game)
  BY DEF Taking
<1>5. /\ fr.ply = f.ply /\ fr.PvNode = f.PvNode /\ fr.node = f.node
      /\ fr.fn = "search" /\ fr.alpha = f.alpha /\ fr.beta = f.beta /\ fr.cutNode = f.cutNode
      /\ fr.isNull = f.isNull /\ fr.excluded = f.excluded /\ fr.best = f.best /\ fr.max = f.max
      /\ fr.depth >= 0 /\ fr.count > 0
      /\ fr.move \in Range(game.moves[f.node]) /\ Range(fr.left) \subseteq Range(game.moves[f.node])
  BY DEF Taking, SameCall
<1>6. f.ply \in Nat /\ f.ply < MAX_PLY /\ f.node \in Nodes(game)
  BY <1>2, <1>3 DEF PlyOK, Types
<1>7. fr.move \in Nodes(game) /\ After(fr.move) \in Nat
  <2>1. Range(game.moves[f.node]) \subseteq Nodes(game)
    BY <1>1, <1>6, Moves
  <2>. QED BY <1>5, <2>1, AfterIsACount
<1>. DEFINE p == f.ply + 1
            a == -f.beta
            b == -f.alpha
            e == IF fr.move = f.tt.move /\ is_valid(f.tt.value)
                    /\ ((is_decisive(f.tt.value) /\ f.tt.depth > 0) \/ f.tt.depth > 1)
                 THEN Max({d, 1}) ELSE d
            y == Frame("search", fr.move, After(fr.move), p, TRUE, a, b, e, FALSE)
<1>8. Call([fr EXCEPT !.at = "pv", !.line = <<>>], y) /\ pvs' = [pvs EXCEPT ![f.ply + 1] = Len(stack)]
  BY DEF Pv, Child
<1>9. /\ a \in Int /\ b \in Int /\ p \in Nat /\ p <= MAX_PLY /\ p # 0
      /\ -VALUE_INFINITE <= a /\ a < b /\ b <= VALUE_INFINITE /\ b <= mate_in(p) + 2
  BY <1>6, CalledWindow
<1>d. e \in Int
  <2>1. Max({d, 1}) = IF d >= 1 THEN d ELSE 1
    BY Larger
  <2>2. Max({d, 1}) \in Int
    BY <2>1
  <2>. QED BY <2>2
<1>10. p = f.ply + 1 /\ <<>> \in Seq(Nodes(game))
  OBVIOUS
<1>11. f.ply + 1 = Len(stack)
  BY OnTop, <1>1 DEF PvOK
<1>. HIDE DEF p, a, b, e
<1>fy. CanCall("search", fr.move, After(fr.move), p, TRUE, a, b, e, FALSE)
  BY <1>7, <1>9, <1>d DEF CanCall
<1>y. /\ y \in Frames(game) /\ FrameOK(game, y)
      /\ y.fn = "search" /\ y.node = fr.move /\ y.ply = p /\ y.PvNode = TRUE /\ y.at = "enter"
  <2>1. PICK s1, v1, c1 : s1 = "search" /\ v1 = TRUE /\ c1 = FALSE
    OBVIOUS
  <2>2. CanCall(s1, fr.move, After(fr.move), p, v1, a, b, e, c1) /\ y = Frame(s1, fr.move, After(fr.move), p, v1, a, b, e, c1)
    BY <1>fy, <2>1
  <2>. HIDE DEF y
  <2>3. /\ y \in Frames(game) /\ FrameOK(game, y)
        /\ y.fn = s1 /\ y.node = fr.move /\ y.ply = p /\ y.PvNode = v1 /\ y.at = "enter"
    BY <1>1, <2>2, Fresh
  <2>. QED BY <2>1, <2>3
<1>t. "pv" \in Places
  BY DEF Places
<1>. DEFINE x == [fr EXCEPT !.at = "pv", !.line = <<>>]
<1>m. x \in Frames(game)
  BY <1>4, <1>10, <1>t, Fields, Zenon
<1>a. /\ x.fn = fr.fn /\ x.node = fr.node /\ x.ply = fr.ply /\ x.PvNode = fr.PvNode
     /\ x.alpha = fr.alpha /\ x.beta = fr.beta /\ x.depth = fr.depth /\ x.cutNode = fr.cutNode
     /\ x.isNull = fr.isNull /\ x.at = "pv" /\ x.best = fr.best /\ x.max = fr.max
     /\ x.left = fr.left /\ x.count = fr.count /\ x.move = fr.move /\ x.nullValue = fr.nullValue
     /\ x.line = <<>> /\ x.excluded = fr.excluded
  BY <1>4 DEF Frames
<1>z. Call(x, y)
  BY <1>8
<1>. HIDE DEF x, y
<1>p. PlyOK(x)
  BY <1>2, <1>5, <1>6, <1>a DEF PlyOK
<1>w. WindowOK(x)
  BY <1>2, <1>5, <1>a DEF WindowOK
<1>b. BestOK(game, x)
  BY <1>2, <1>5, <1>a DEF BestOK
<1>v. MovesOK(game, x)
  BY <1>2, <1>5, <1>a DEF MovesOK
<1>k. FrameOK(game, x) /\ SameCall(f, x)
  BY <1>a, <1>p, <1>w, <1>b, <1>v, <1>5 DEF FrameOK, SameCall
<1>c. CallOK(x, y)
  BY <1>2, <1>a, <1>y, <1>5, <1>10 DEF CallOK, Calls, Deeper, PlyOK
<1>q. /\ pvs' \in [0..(MAX_PLY + 2) -> Nat] /\ pvs'[Len(stack)] = Len(stack)
      /\ \A i \in 1..(Len(stack) - 1) : pvs'[i] = pvs[i]
  <2>1. Len(stack) \in 0..(MAX_PLY + 2) /\ Len(stack) \in Nat
    BY <1>1, <1>6, <1>11 DEF Constants
  <2>. QED BY <1>1, <1>8, <1>11, <2>1 DEF FramesInv
<1>l. LineOf(game, x.move, x.line)
  BY <1>a DEF LineOf
<1>. QED BY <1>1, <1>2, <1>m, <1>a, <1>y, <1>z, <1>k, <1>c, <1>q, CallStep, <1>l

\* The first search of a move keeps the frames.
LEMMA Searches ==
    ASSUME IInv, stack # <<>>, f.at \in {"loop", "singular"}, g' = g, NEW fr, Taking(fr),
           SearchMove(fr)
    PROVE  FramesInv' /\ choices' \in Nat
<1>1. RestInv /\ FramesInv /\ PlyOK(f) /\ Types(f) /\ Constants
  BY Known
<1>2. f.fn = "search" /\ f.at # "enter" /\ f.ply < MAX_PLY /\ f.ply \in Nat /\ fr.newDepth \in Int
  BY <1>1 DEF PlyOK, Types, Taking, Frames
<1>3. choices \in Nat /\ (Choose => choices' \in Nat)
  BY <1>1 DEF RestInv, Choose
<1>4. Max({1, fr.newDepth}) \in Int
  <2>1. Max({1, fr.newDepth}) = IF 1 >= fr.newDepth THEN 1 ELSE fr.newDepth
    BY <1>2, Larger
  <2>. QED BY <1>2, <2>1
<1>5. ASSUME pvs' = Cleared
      PROVE  /\ pvs' \in [0..(MAX_PLY + 2) -> Nat] /\ \A i \in 1..(Len(stack) - 1) : pvs'[i] = pvs[i]
             /\ f.PvNode => pvs'[Len(stack)] = 0
  <2>1. pvs \in [0..(MAX_PLY + 2) -> Nat]
    BY <1>1 DEF FramesInv
  <2>2. CASE f.PvNode
    <3>1. f.ply + 1 = Len(stack)
      BY <1>1, <2>2, OnTop DEF PvOK
    <3>2. Len(stack) \in 0..(MAX_PLY + 2)
      BY <1>1, <1>2, <3>1 DEF Constants
    <3>3. pvs' = [pvs EXCEPT ![Len(stack)] = 0]
      BY <1>5, <2>2, <3>1 DEF Cleared
    <3>. QED BY <2>1, <3>2, <3>3
  <2>3. CASE ~f.PvNode
    BY <1>5, <2>1, <2>3 DEF Cleared
  <2>. QED BY <2>2, <2>3
<1>. DEFINE cut == IF f.PvNode THEN TRUE ELSE ~f.cutNode
<1>6. \/ pvs' = Cleared /\ ZeroWindow(fr, "reduced", Max({1, fr.newDepth}), TRUE) /\ UNCHANGED choices
      \/ pvs' = Cleared /\ ZeroWindow(fr, "reduced", 1, TRUE) /\ Choose
      \/ pvs' = Cleared /\ ZeroWindow(fr, "full", fr.newDepth, cut) /\ UNCHANGED choices
      \/ f.PvNode /\ Pv(fr, fr.newDepth) /\ UNCHANGED choices
  BY DEF SearchMove
<1>7. cut \in BOOLEAN
  OBVIOUS
<1>. HIDE DEF cut
<1>8. ASSUME NEW at, at \in {"reduced", "full"}, NEW d, d \in Int, NEW c, c \in BOOLEAN,
             pvs' = Cleared, ZeroWindow(fr, at, d, c)
      PROVE  FramesInv'
  <2>1. /\ pvs' \in [0..(MAX_PLY + 2) -> Nat] /\ \A i \in 1..(Len(stack) - 1) : pvs'[i] = pvs[i]
        /\ f.PvNode => pvs'[Len(stack)] = 0
    BY <1>5, <1>8
  <2>. QED BY <1>2, <1>8, <2>1, ZeroCall
<1>9. CASE pvs' = Cleared /\ ZeroWindow(fr, "reduced", Max({1, fr.newDepth}), TRUE) /\ UNCHANGED choices
  <2>1. PICK at, d, c : at = "reduced" /\ d = Max({1, fr.newDepth}) /\ c = TRUE
    OBVIOUS
  <2>2. ZeroWindow(fr, at, d, c) /\ pvs' = Cleared /\ d \in Int
    BY <1>4, <1>9, <2>1
  <2>3. at \in {"reduced", "full"} /\ c \in BOOLEAN
    BY <2>1
  <2>4. FramesInv'
    BY <1>8, <2>2, <2>3
  <2>. QED BY <1>3, <1>9, <2>4
<1>10. CASE pvs' = Cleared /\ ZeroWindow(fr, "reduced", 1, TRUE) /\ Choose
  <2>1. PICK at, d, c : at = "reduced" /\ d = 1 /\ c = TRUE
    OBVIOUS
  <2>5. d \in Int
    BY <2>1
  <2>2. ZeroWindow(fr, at, d, c) /\ pvs' = Cleared
    BY <1>10, <2>1
  <2>3. at \in {"reduced", "full"} /\ c \in BOOLEAN
    BY <2>1
  <2>4. FramesInv'
    BY <1>8, <2>2, <2>3, <2>5
  <2>. QED BY <1>3, <1>10, <2>4
<1>11. CASE pvs' = Cleared /\ ZeroWindow(fr, "full", fr.newDepth, cut) /\ UNCHANGED choices
  BY <1>2, <1>3, <1>7, <1>8, <1>11
<1>12. CASE f.PvNode /\ Pv(fr, fr.newDepth) /\ UNCHANGED choices
  BY <1>2, <1>3, <1>12, PvCall
<1>. QED BY <1>6, <1>9, <1>10, <1>11, <1>12

----
(* One lemma for each action. *)

\* The frame at the root is in order.
LEMMA StartSearchKeeps == ASSUME IInv, StartSearch PROVE IInv'
<1>0. stack = <<>> /\ result = <<>> /\ UNCHANGED <<g, result, tt, pvs, rootPv, choices>>
      /\ searches' = searches + 1 /\ stopped' = FALSE /\ nmpMinPly' = 0
  BY DEF StartSearch
<1>1. RestInv /\ FramesInv /\ TableInv /\ RootInv /\ IsGame(game)
  BY Playing DEF IInv, RestInv
<1>r. RestInv' /\ TableInv' /\ RootInv'
  <2>1. RestInv'
    <3>1. searches' \in Nat /\ nmpMinPly' \in Int
      BY <1>0, <1>1 DEF RestInv
    <3>2. stopped' \in BOOLEAN
      BY <1>0
    <3>3. g' \in DOMAIN Games /\ choices' \in Nat
      BY <1>0, <1>1 DEF RestInv
    <3>. QED BY <3>1, <3>2, <3>3 DEF RestInv
  <2>2. UNCHANGED <<g, tt>> /\ UNCHANGED <<g, rootPv>>
    BY <1>0
  <2>. QED BY <1>1, <2>1, <2>2, TableKept, RootKept
<1>2. PICK w \in Windows, d \in Depths :
        stack' = <<Frame("search", game.root, game.rule50, 0, TRUE, w[1], w[2], d, FALSE)>>
  BY DEF StartSearch
<1>. DEFINE a == w[1]
            b == w[2]
            r == game.rule50
            y == Frame("search", game.root, r, 0, TRUE, a, b, d, FALSE)
<1>3. /\ a \in Int /\ b \in Int /\ -VALUE_INFINITE <= a /\ a < b /\ b <= VALUE_INFINITE
      /\ d \in Int /\ d > 0 /\ MAX_PLY \in Nat
  BY GameAssumption, ScoreAssumption
<1>4. game.root \in Nodes(game) /\ r \in Nat
  BY <1>1 DEF IsGame, Nodes
<1>5. stack' = <<y>>
  BY <1>2
<1>. HIDE DEF a, b, r
<1>fy. CanCall("search", game.root, r, 0, TRUE, a, b, d, FALSE)
  BY <1>3, <1>4 DEF CanCall
<1>y. /\ y \in Frames(game) /\ FrameOK(game, y)
      /\ y.fn = "search" /\ y.node = game.root /\ y.ply = 0 /\ y.PvNode = TRUE /\ y.at = "enter"
  <2>1. PICK s1, v1, c1 : s1 = "search" /\ v1 = TRUE /\ c1 = FALSE
    OBVIOUS
  <2>2. CanCall(s1, game.root, r, 0, v1, a, b, d, c1) /\ y = Frame(s1, game.root, r, 0, v1, a, b, d, c1)
    BY <1>fy, <2>1
  <2>. HIDE DEF y
  <2>3. /\ y \in Frames(game) /\ FrameOK(game, y)
        /\ y.fn = s1 /\ y.node = game.root /\ y.ply = 0 /\ y.PvNode = v1 /\ y.at = "enter"
    BY <1>1, <2>2, Fresh
  <2>. QED BY <2>1, <2>3
<1>. HIDE DEF y
<1>6. stack' \in Seq(Frames(game)) /\ Len(stack') = 1 /\ stack'[1] = y
  BY <1>5, <1>y
<1>7. Good(game, stack', pvs)
  <2>1. PvOK(game, stack', pvs, 1)
    BY <1>6, <1>y DEF PvOK
  <2>. QED BY <1>6, <1>y, <2>1 DEF Good
<1>8. game' = game
  BY <1>0 DEF game
<1>9. FramesInv'
  BY <1>0, <1>1, <1>6, <1>7, <1>8 DEF FramesInv, ScoreOK
<1>. QED BY <1>r, <1>9 DEF IInv

\* The result is taken from an empty stack.
LEMMA EndSearchKeeps == ASSUME IInv, EndSearch PROVE IInv'
<1>1. result' = <<>> /\ UNCHANGED <<g, stack, tt, pvs, rootPv, nmpMinPly, stopped, choices, searches>>
  BY DEF EndSearch
<1>2. RestInv' /\ TableInv' /\ RootInv'
  BY <1>1, TableKept, RootKept DEF IInv, RestInv
<1>3. FramesInv'
  BY <1>1 DEF IInv, FramesInv, ScoreOK, game
<1>. QED BY <1>2, <1>3 DEF IInv

\* A stop changes no frame.
LEMMA StopKeeps == ASSUME IInv, Stop PROVE IInv'
<1>1. stopped' = TRUE /\ UNCHANGED <<g, stack, result, tt, pvs, rootPv, nmpMinPly, choices, searches>>
  BY DEF Stop
<1>2. RestInv' /\ TableInv' /\ RootInv'
  BY <1>1, TableKept, RootKept DEF IInv, RestInv
<1>3. FramesInv'
  BY <1>1 DEF IInv, FramesInv, game
<1>. QED BY <1>2, <1>3 DEF IInv

\* Mate distances bound the window and what is returned at once.
LEMMA EnterKeeps == ASSUME IInv, Enter PROVE IInv'
<1>0. /\ RestInv /\ FramesInv /\ TableInv /\ RootInv /\ IsGame(game)
      /\ stack # <<>> /\ f.at = "enter" /\ f.fn = "search" /\ UNCHANGED <<g, pvs>>
  BY Playing DEF IInv, RestInv, Enter, Running
<1>1. RestInv' /\ TableInv' /\ RootInv'
  BY <1>0, TableKept, RootKept DEF RestInv, Enter
<1>2. /\ f \in Frames(game) /\ f.ply \in 0..MAX_PLY
      /\ PlyOK(f) /\ WindowOK(f) /\ BestOK(game, f) /\ MovesOK(game, f)
  BY <1>0, OnTop DEF FrameOK
<1>3. f.alpha \in Int /\ f.beta \in Int /\ f.ply \in Nat /\ f.depth \in Int /\ f.node \in Nodes(game)
  BY <1>2, Typed DEF Types
<1>4. game.eval[f.node] \in Int /\ ~is_decisive(game.eval[f.node])
  BY <1>0, <1>3, Moves
<1>5. MAX_PLY \in Nat \ {0} /\ VALUE_MATE \in Nat
  BY ScoreAssumption
<1>. DEFINE alpha == IF f.ply = 0 THEN f.alpha ELSE Max({mated_in(f.ply), f.alpha})
            beta  == IF f.ply = 0 THEN f.beta ELSE Min({mate_in(f.ply + 1), f.beta})
<1>6. /\ alpha = IF f.ply = 0 \/ f.alpha >= mated_in(f.ply) THEN f.alpha ELSE mated_in(f.ply)
      /\ beta = IF f.ply = 0 \/ f.beta <= mate_in(f.ply + 1) THEN f.beta ELSE mate_in(f.ply + 1)
  <2>1. mated_in(f.ply) \in Int /\ mate_in(f.ply + 1) \in Int
    BY <1>3, <1>5 DEF mated_in, mate_in
  <2>. QED BY <1>3, <2>1, Larger, Smaller
<1>7. alpha \in Int /\ beta \in Int
  BY <1>3, <1>5, <1>6 DEF mated_in, mate_in
<1>. HIDE DEF alpha, beta
<1>s. SUFFICES FramesInv'
  BY <1>1 DEF IInv
<1>8. CASE f.depth <= 0 /\ With([f EXCEPT !.fn = "qsearch"])
  <2>. DEFINE x == [f EXCEPT !.fn = "qsearch"]
  <2>1. x \in Frames(game)
    BY <1>2, Fields, Zenon
  <2>2. /\ x.fn = "qsearch" /\ x.node = f.node /\ x.ply = f.ply /\ x.PvNode = f.PvNode
        /\ x.alpha = f.alpha /\ x.beta = f.beta /\ x.cutNode = f.cutNode /\ x.isNull = f.isNull
        /\ x.at = "enter" /\ x.best = f.best /\ x.max = f.max /\ x.left = f.left
        /\ x.excluded = f.excluded
        /\ x.count = f.count
    BY <1>0, <1>2 DEF Frames
  <2>. HIDE DEF x
  <2>3. PlyOK(x)
    BY <1>0, <1>2, <1>3, <1>8, <2>2 DEF PlyOK
  <2>4. WindowOK(x)
    BY <1>2, <2>2 DEF WindowOK
  <2>5. BestOK(game, x) /\ MovesOK(game, x)
    <3>1. BestOK(game, x)
      BY <1>0, <1>2, <2>2 DEF BestOK
    <3>2. MovesOK(game, x)
      BY <1>2, <2>2 DEF MovesOK
    <3>. QED BY <3>1, <3>2
  <2>6. FrameOK(game, x) /\ SameCall(f, x)
    BY <2>2, <2>3, <2>4, <2>5 DEF FrameOK, SameCall
  <2>7. With(x)
    BY <1>8 DEF x
  <2>. QED BY <1>0, <2>1, <2>2, <2>6, <2>7, WithStep
<1>9. CASE Return(game.eval[f.node])
  <2>1. game.eval[f.node] \in ScoresAt(f.ply)
    BY <1>2, <1>4, <1>5, ScoreAssumption, Bounds DEF ScoresAt, is_decisive, is_win, is_loss
  <2>. QED BY <1>0, <1>4, <1>9, <2>1, ReturnStep
<1>10. CASE \E noise \in {-1, 1} : Return(noise)
  <2>1. PICK noise \in {-1, 1} : Return(noise)
    BY <1>10
  <2>2. noise \in Int /\ noise \in ScoresAt(f.ply)
    BY <1>2, <1>5, ScoreAssumption DEF ScoresAt
  <2>. QED BY <1>0, <2>1, <2>2, ReturnStep
<1>11. CASE alpha >= beta /\ Return(alpha)
  <2>1. f.ply > 0 /\ alpha \in ScoresAt(f.ply - 1)
    <3>1. f.alpha < f.beta /\ (f.ply > 0 => f.beta <= VALUE_MATE - f.ply + 2)
      BY <1>0, <1>2 DEF WindowOK, mate_in
    <3>2. f.ply > 0
      BY <1>3, <1>6, <1>11, <3>1
    <3>3. \/ alpha = f.alpha /\ f.alpha >= -VALUE_MATE + f.ply
          \/ alpha = -VALUE_MATE + f.ply
      BY <1>6, <3>2 DEF mated_in
    <3>. QED BY <1>2, <1>3, <1>5, <3>1, <3>2, <3>3, ScoreAssumption DEF ScoresAt
  <2>. QED BY <1>0, <1>7, <1>11, <2>1, ReturnStep
<1>12. CASE /\ alpha < beta /\ f.depth > 0 /\ (f.ply > 0 => f.ply < MAX_PLY)
            /\ With([f EXCEPT !.alpha = alpha, !.beta = beta, !.at = "probe",
                              !.depth = Min({f.depth, MAX_PLY - 1})])
  <2>. DEFINE d == Min({f.depth, MAX_PLY - 1})
              x == [f EXCEPT !.alpha = alpha, !.beta = beta, !.at = "probe", !.depth = d]
  <2>1. d \in Nat /\ d \in Int /\ "probe" \in Places
    <3>1. MAX_PLY - 1 \in Int /\ MAX_PLY - 1 >= 0
      BY <1>5
    <3>2. d = IF f.depth <= MAX_PLY - 1 THEN f.depth ELSE MAX_PLY - 1
      BY <1>3, <3>1, Smaller
    <3>. QED BY <1>3, <1>12, <3>1, <3>2 DEF Places
  <2>2. With(x)
    BY <1>12
  <2>. HIDE DEF d
  <2>3. x \in Frames(game)
    BY <1>2, <1>7, <2>1, Fields, Zenon
  <2>4. /\ x.fn = "search" /\ x.node = f.node /\ x.ply = f.ply /\ x.PvNode = f.PvNode
        /\ x.alpha = alpha /\ x.beta = beta /\ x.depth = d /\ x.cutNode = f.cutNode
        /\ x.isNull = f.isNull /\ x.at = "probe" /\ x.best = f.best /\ x.max = f.max
        /\ x.excluded = f.excluded
        /\ x.left = f.left /\ x.count = f.count
    BY <1>0, <1>2 DEF Frames
  <2>. HIDE DEF x
  <2>5. PlyOK(x)
    BY <1>2, <1>3, <1>5, <1>12, <2>4 DEF PlyOK
  <2>6. WindowOK(x)
    <3>1. /\ -VALUE_INFINITE <= f.alpha /\ f.alpha < f.beta /\ f.beta <= VALUE_INFINITE
          /\ ~f.PvNode => f.alpha = f.beta - 1
      BY <1>0, <1>2 DEF WindowOK
    <3>2. alpha >= f.alpha /\ beta <= f.beta
      BY <1>3, <1>5, <1>6 DEF mated_in, mate_in
    <3>3. f.ply > 0 => mated_in(f.ply) <= alpha /\ beta <= mate_in(f.ply + 1)
      BY <1>3, <1>5, <1>6 DEF mated_in, mate_in
    <3>4. f.ply > 0 => beta <= mate_in(f.ply) + 2
      BY <1>3, <1>5, <1>7, <3>3 DEF mate_in
    <3>5. -VALUE_INFINITE <= alpha /\ beta <= VALUE_INFINITE /\ (~f.PvNode => alpha = beta - 1)
      BY <1>3, <1>5, <1>7, <1>12, <3>1, <3>2 DEF VALUE_INFINITE
    <3>. QED BY <1>12, <2>1, <2>4, <3>3, <3>4, <3>5 DEF WindowOK
  <2>7. BestOK(game, x)
    BY <1>0, <1>2, <2>4 DEF BestOK
  <2>8. MovesOK(game, x)
    BY <1>2, <2>4 DEF MovesOK
  <2>9. FrameOK(game, x) /\ SameCall(f, x)
    BY <1>0, <2>4, <2>5, <2>6, <2>7, <2>8 DEF FrameOK, SameCall
  <2>. QED BY <1>0, <2>2, <2>3, <2>4, <2>9, WithStep
<1>. QED BY <1>0, <1>3, <1>5, <1>7, <1>8, <1>9, <1>10, <1>11, <1>12 DEF Enter, alpha, beta

\* What the table says here is a score of this ply.
LEMMA ProbeKeeps == ASSUME IInv, Probe PROVE IInv'
<1>0. /\ stack # <<>> /\ f.at = "probe" /\ result = <<>> /\ (UNCHANGED choices \/ Choose)
      /\ UNCHANGED <<g, tt, pvs, rootPv, nmpMinPly, stopped, searches>>
  BY DEF Probe, Running
<1>1. RestInv /\ FramesInv /\ TableInv /\ RootInv /\ IsGame(game) /\ Constants
  BY <1>0, Known
<1>2. /\ f \in Frames(game) /\ f.ply \in 0..MAX_PLY
      /\ PlyOK(f) /\ WindowOK(f) /\ BestOK(game, f) /\ MovesOK(game, f)
  BY <1>0, Known
<1>3. Types(f)
  BY <1>0, Known
<1>r. RestInv'
  BY <1>0, <1>1 DEF RestInv, Constants, Choose
<1>u. TableInv' /\ RootInv'
  BY <1>0, <1>1, TableKept, RootKept
<1>s. SUFFICES FramesInv'
  BY <1>r, <1>u DEF IInv
<1>4. PICK found \in {Found(f.node), NoEntry} :
        LET e == Probed(found)
            static == game.eval[f.node]
            eval == IF is_valid(e.value) /\ f.excluded = NoMove /\ Supports(e, e.value, static + 1)
                    THEN e.value ELSE static
        IN  IF Cutoff(e) THEN Return(e.value)
            ELSE With([f EXCEPT !.tt = e, !.eval = eval, !.at = "tables",
                                !.ttPv = IF f.excluded # NoMove THEN @ ELSE f.PvNode \/ e.pv])
  BY <1>0 DEF Probe
<1>. DEFINE e == Probed(found)
            static == game.eval[f.node]
            eval == IF is_valid(e.value) /\ f.excluded = NoMove /\ Supports(e, e.value, static + 1)
                    THEN e.value ELSE static
            pv == IF f.excluded # NoMove THEN f.ttPv ELSE f.PvNode \/ e.pv
<1>5. e \in Entries(game) /\ e.value \in Int /\ (is_valid(e.value) => e.value \in ScoresAt(f.ply))
  BY <1>0, ProbedHere
<1>6. static \in Int
  BY <1>0, Known
<1>7. CASE Cutoff(e) /\ Return(e.value)
  <2>1. e.value \in ScoresAt(f.ply)
    BY <1>5, <1>7 DEF Cutoff
  <2>. HIDE DEF e
  <2>. QED BY <1>0, <1>1, <1>5, <1>7, <2>1, ReturnStep
<1>8. CASE With([f EXCEPT !.tt = e, !.eval = eval, !.at = "tables", !.ttPv = pv])
  <2>1. eval \in Int
    BY <1>5, <1>6
  <2>2. pv \in BOOLEAN
    BY <1>3, <1>5 DEF Types, Entries
  <2>3. e \in Entries(game)
    BY <1>5
  <2>. HIDE DEF e, eval, pv, static
  <2>t. "tables" \in Places
    BY DEF Places
  <2>. DEFINE x == [f EXCEPT !.tt = e, !.eval = eval, !.at = "tables", !.ttPv = pv]
  <2>m. x \in Frames(game)
    BY <1>2, <2>1, <2>2, <2>3, <2>t, Fields, Zenon
  <2>a. /\ x.fn = f.fn /\ x.node = f.node /\ x.ply = f.ply /\ x.PvNode = f.PvNode
       /\ x.alpha = f.alpha /\ x.beta = f.beta /\ x.depth = f.depth /\ x.cutNode = f.cutNode
       /\ x.isNull = f.isNull /\ x.at = "tables" /\ x.best = f.best /\ x.max = f.max
       /\ x.left = f.left /\ x.count = f.count /\ x.move = f.move /\ x.nullValue = f.nullValue
       /\ x.line = f.line /\ x.excluded = f.excluded
    BY <1>2 DEF Frames
  <2>z. With(x)
    BY <1>8
  <2>. HIDE DEF x
  <2>p. PlyOK(x)
    BY <1>0, <1>2, <2>a DEF PlyOK
  <2>w. WindowOK(x)
    BY <1>0, <1>2, <2>a DEF WindowOK
  <2>b. BestOK(game, x)
    BY <1>0, <1>2, <2>a DEF BestOK
  <2>v. MovesOK(game, x)
    BY <1>0, <1>2, <2>a DEF MovesOK
  <2>k. FrameOK(game, x) /\ SameCall(f, x)
    BY <1>0, <2>a, <2>p, <2>w, <2>b, <2>v DEF FrameOK, SameCall
  <2>. QED BY <1>0, <1>1, <1>2, <2>m, <2>a, <2>z, <2>k, WithStep
<1>. QED BY <1>4, <1>7, <1>8

\* What the tablebases prove is a score, of the frame and of the table.
LEMMA TablebasesKeeps == ASSUME IInv, Tablebases PROVE IInv'
<1>0. /\ stack # <<>> /\ f.at = "tables" /\ result = <<>>
      /\ UNCHANGED <<g, pvs, rootPv, nmpMinPly, stopped, choices, searches>>
  BY DEF Tablebases, Running
<1>1. RestInv /\ FramesInv /\ TableInv /\ RootInv /\ IsGame(game) /\ Constants
  BY <1>0, Known
<1>2. /\ f \in Frames(game) /\ f.ply \in 0..MAX_PLY
      /\ PlyOK(f) /\ WindowOK(f) /\ BestOK(game, f) /\ MovesOK(game, f)
  BY <1>0, Known
<1>3. Types(f)
  BY <1>0, Known
<1>r. RestInv'
  BY <1>0, <1>1 DEF RestInv, Constants
<1>u. RootInv'
  BY <1>0, <1>1, RootKept
<1>s. SUFFICES FramesInv' /\ TableInv'
  BY <1>r, <1>u DEF IInv
<1>. DEFINE truth == Truth[g][f.node, 0]
<1>. HIDE DEF truth
<1>. DEFINE bound == IF truth > 0 THEN BOUND_LOWER ELSE IF truth < 0 THEN BOUND_UPPER ELSE BOUND_EXACT
            value == IF truth > 0 THEN VALUE_TB - f.ply ELSE IF truth < 0 THEN f.ply - VALUE_TB ELSE 0
            enough == \/ bound = BOUND_EXACT
                      \/ IF bound = BOUND_LOWER THEN value >= f.beta ELSE value <= f.alpha
            d == Min({MAX_PLY - 1, f.depth + 6})
<1>4. bound \in SUBSET BOUND_EXACT
  BY DEF BOUND_EXACT, BOUND_LOWER, BOUND_UPPER
<1>5. value \in Int /\ value \in ScoresAt(f.ply)
  BY <1>2, Bounds, ScoreAssumption DEF ScoresAt
<1>6. d \in Int
  <2>1. MAX_PLY - 1 \in Int /\ f.depth + 6 \in Int
    BY <1>1, <1>3 DEF Types, Constants
  <2>. QED BY <2>1, Smaller
<1>w. /\ f.alpha \in Int /\ f.beta \in Int /\ f.depth \in Int
      /\ -VALUE_INFINITE \in Int /\ f.ply \in Nat /\ mated_in(f.ply) \in Int
  BY <1>1, <1>3 DEF Types, Constants, VALUE_INFINITE, mated_in
<1>7. \/ With([f EXCEPT !.at = "prune"]) /\ UNCHANGED tt
      \/ Write(f.node, value, f.ttPv, bound, d, NoMove) /\ Return(value)
      \/ /\ ~enough /\ UNCHANGED tt
         /\ With([f EXCEPT !.at = "prune",
                    !.best = IF f.PvNode /\ bound = BOUND_LOWER THEN value ELSE f.best,
                    !.alpha = IF f.PvNode /\ bound = BOUND_LOWER THEN Max({f.alpha, value}) ELSE f.alpha,
                    !.max = IF f.PvNode /\ bound = BOUND_UPPER THEN value ELSE f.max])
  BY <1>0 DEF Tablebases, truth
<1>. HIDE DEF bound, value, d
<1>8. CASE With([f EXCEPT !.at = "prune"]) /\ UNCHANGED tt
  <2>. SUFFICES FramesInv'
    BY <1>0, <1>1, <1>8, TableKept
  <2>t. "prune" \in Places
    BY DEF Places
  <2>. DEFINE x == [f EXCEPT !.at = "prune"]
  <2>m. x \in Frames(game)
    BY <1>2, <2>t, Fields, Zenon
  <2>a. /\ x.fn = f.fn /\ x.node = f.node /\ x.ply = f.ply /\ x.PvNode = f.PvNode
       /\ x.alpha = f.alpha /\ x.beta = f.beta /\ x.depth = f.depth /\ x.cutNode = f.cutNode
       /\ x.isNull = f.isNull /\ x.at = "prune" /\ x.best = f.best /\ x.max = f.max
       /\ x.left = f.left /\ x.count = f.count /\ x.move = f.move /\ x.nullValue = f.nullValue
       /\ x.line = f.line /\ x.excluded = f.excluded
    BY <1>2 DEF Frames
  <2>z. With(x)
    BY <1>8
  <2>. HIDE DEF x
  <2>p. PlyOK(x)
    BY <1>0, <1>2, <2>a DEF PlyOK
  <2>w. WindowOK(x)
    BY <1>0, <1>2, <2>a DEF WindowOK
  <2>b. BestOK(game, x)
    BY <1>0, <1>2, <2>a DEF BestOK
  <2>v. MovesOK(game, x)
    BY <1>0, <1>2, <2>a DEF MovesOK
  <2>k. FrameOK(game, x) /\ SameCall(f, x)
    BY <1>0, <2>a, <2>p, <2>w, <2>b, <2>v DEF FrameOK, SameCall
  <2>. QED BY <1>0, <1>1, <1>2, <2>m, <2>a, <2>z, <2>k, WithStep
<1>9. CASE Write(f.node, value, f.ttPv, bound, d, NoMove) /\ Return(value)
  <2>1. f.node \in Nodes(game) /\ f.ttPv \in BOOLEAN /\ NoMove \in Maybe(game)
    BY <1>3 DEF Types, Maybe
  <2>2. TableInv'
    BY <1>0, <1>4, <1>5, <1>6, <1>9, <2>1, WriteKeeps
  <2>. QED BY <1>0, <1>1, <1>5, <1>9, <2>2, ReturnStep
<1>10. CASE /\ ~enough /\ UNCHANGED tt
            /\ With([f EXCEPT !.at = "prune",
                       !.best = IF f.PvNode /\ bound = BOUND_LOWER THEN value ELSE f.best,
                       !.alpha = IF f.PvNode /\ bound = BOUND_LOWER THEN Max({f.alpha, value}) ELSE f.alpha,
                       !.max = IF f.PvNode /\ bound = BOUND_UPPER THEN value ELSE f.max])
  <2>. SUFFICES FramesInv'
    BY <1>0, <1>1, <1>10, TableKept
  <2>. DEFINE b == IF f.PvNode /\ bound = BOUND_LOWER THEN value ELSE f.best
              a == IF f.PvNode /\ bound = BOUND_LOWER THEN Max({f.alpha, value}) ELSE f.alpha
              m == IF f.PvNode /\ bound = BOUND_UPPER THEN value ELSE f.max
  <2>1. b \in Int /\ (b = f.best \/ b \in ScoresAt(f.ply))
    BY <1>3, <1>5 DEF Types
  <2>2. m \in Int /\ (m = f.max \/ m \in ScoresAt(f.ply))
    BY <1>3, <1>5 DEF Types
  <2>3. a \in Int /\ f.alpha <= a /\ a < f.beta /\ (~f.PvNode => a = f.alpha)
    <3>1. f.alpha \in Int /\ f.beta \in Int /\ f.alpha < f.beta
      BY <1>2, <1>3 DEF Types, WindowOK
    <3>2. Max({f.alpha, value}) = IF f.alpha >= value THEN f.alpha ELSE value
      BY <1>5, <3>1, Larger
    <3>3. bound = BOUND_LOWER => value < f.beta
      BY <1>5, <1>10, <3>1
    <3>. QED BY <1>5, <3>1, <3>2, <3>3
  <2>. HIDE DEF a, b, m
  <2>i. a \in Int /\ b \in Int /\ m \in Int
    BY <2>1, <2>2, <2>3
  <2>t. "prune" \in Places
    BY DEF Places
  <2>. DEFINE x == [f EXCEPT !.at = "prune", !.best = b, !.alpha = a, !.max = m]
  <2>m. x \in Frames(game)
    BY <1>2, <2>i, <2>t, Fields, Zenon
  <2>a. /\ x.fn = f.fn /\ x.node = f.node /\ x.ply = f.ply /\ x.PvNode = f.PvNode /\ x.alpha = a
       /\ x.beta = f.beta /\ x.depth = f.depth /\ x.cutNode = f.cutNode /\ x.isNull = f.isNull
       /\ x.at = "prune" /\ x.best = b /\ x.max = m /\ x.left = f.left /\ x.count = f.count
       /\ x.move = f.move /\ x.nullValue = f.nullValue /\ x.line = f.line /\ x.excluded = f.excluded
    BY <1>2 DEF Frames
  <2>z. With(x)
    BY <1>10 DEF a, b, m
  <2>. HIDE DEF x
  <2>p. PlyOK(x)
    BY <1>0, <1>2, <2>a DEF PlyOK
  <2>w. WindowOK(x)
    BY <1>0, <1>2, <2>a, <2>3, <1>w DEF WindowOK
  <2>b. BestOK(game, x)
    BY <1>0, <1>2, <2>a, <2>1, <2>2 DEF BestOK
  <2>v. MovesOK(game, x)
    BY <1>0, <1>2, <2>a DEF MovesOK
  <2>k. FrameOK(game, x) /\ SameCall(f, x)
    BY <1>0, <2>a, <2>p, <2>w, <2>b, <2>v DEF FrameOK, SameCall
  <2>. QED BY <1>0, <1>1, <1>2, <2>m, <2>a, <2>z, <2>k, WithStep
<1>. QED BY <1>7, <1>8, <1>9, <1>10

\* The frame turns into a quiescence search of the same position.
LEMMA RazorKeeps == ASSUME IInv, Razor PROVE IInv'
<1>0. /\ stack # <<>> /\ f.at = "prune" /\ result = <<>> /\ ~f.PvNode /\ Choose
      /\ UNCHANGED <<g, tt, pvs, rootPv, nmpMinPly, stopped, searches>>
  BY DEF Razor, Running
<1>1. RestInv /\ FramesInv /\ TableInv /\ RootInv /\ IsGame(game) /\ Constants
  BY <1>0, Known
<1>2. /\ f \in Frames(game) /\ f.ply \in 0..MAX_PLY
      /\ PlyOK(f) /\ WindowOK(f) /\ BestOK(game, f) /\ MovesOK(game, f)
  BY <1>0, Known
<1>3. Types(f)
  BY <1>0, Known
<1>r. RestInv'
  BY <1>0, <1>1 DEF RestInv, Constants, Choose
<1>u. TableInv' /\ RootInv'
  BY <1>0, <1>1, TableKept, RootKept
<1>s. SUFFICES FramesInv'
  BY <1>r, <1>u DEF IInv
<1>4. With([f EXCEPT !.fn = "qsearch", !.at = "enter"])
  BY DEF Razor
<1>5. "enter" \in Places
  BY DEF Places
<1>t. "enter" \in Places
  BY DEF Places
<1>. DEFINE x == [f EXCEPT !.fn = "qsearch", !.at = "enter"]
<1>m. x \in Frames(game)
  BY <1>2, <1>5, <1>t, Fields, Zenon
<1>a. /\ x.fn = "qsearch" /\ x.node = f.node /\ x.ply = f.ply /\ x.PvNode = f.PvNode
     /\ x.alpha = f.alpha /\ x.beta = f.beta /\ x.depth = f.depth /\ x.cutNode = f.cutNode
     /\ x.isNull = f.isNull /\ x.at = "enter" /\ x.best = f.best /\ x.max = f.max /\ x.left = f.left
     /\ x.count = f.count /\ x.move = f.move /\ x.nullValue = f.nullValue /\ x.line = f.line
     /\ x.excluded = f.excluded
  BY <1>2 DEF Frames
<1>z. With(x)
  BY <1>4
<1>. HIDE DEF x
<1>p. PlyOK(x)
  BY <1>0, <1>2, <1>a DEF PlyOK
<1>w. WindowOK(x)
  BY <1>0, <1>2, <1>a DEF WindowOK
<1>b. BestOK(game, x)
  BY <1>0, <1>2, <1>a DEF BestOK
<1>v. MovesOK(game, x)
  BY <1>0, <1>2, <1>a DEF MovesOK
<1>k. FrameOK(game, x) /\ SameCall(f, x)
  BY <1>0, <1>a, <1>p, <1>w, <1>b, <1>v DEF FrameOK, SameCall
<1>. QED BY <1>0, <1>1, <1>2, <1>m, <1>a, <1>z, <1>k, WithStep

\* The mean of an evaluation and a bound is not decisive.
LEMMA FutilityKeeps == ASSUME IInv, Futility PROVE IInv'
<1>0. /\ stack # <<>> /\ f.at = "prune" /\ result = <<>> /\ f.eval >= f.beta /\ ~is_win(f.eval)
      /\ ~is_loss(f.beta) /\ Choose /\ Return(Between(f.eval, f.beta, 1))
      /\ UNCHANGED <<g, tt, pvs, rootPv, nmpMinPly, stopped, searches>>
  BY DEF Futility, Running
<1>1. RestInv /\ FramesInv /\ TableInv /\ RootInv /\ IsGame(game) /\ Constants
  BY <1>0, Known
<1>2. /\ f \in Frames(game) /\ f.ply \in 0..MAX_PLY
      /\ PlyOK(f) /\ WindowOK(f) /\ BestOK(game, f) /\ MovesOK(game, f)
  BY <1>0, Known
<1>3. Types(f)
  BY <1>0, Known
<1>r. RestInv'
  BY <1>0, <1>1 DEF RestInv, Constants, Choose
<1>u. TableInv' /\ RootInv'
  BY <1>0, <1>1, TableKept, RootKept
<1>s. SUFFICES FramesInv'
  BY <1>r, <1>u DEF IInv
<1>4. f.eval \in Int /\ f.beta \in Int /\ f.alpha \in Int /\ VALUE_TB_WIN_IN_MAX_PLY \in Int
  BY <1>3, Bounds DEF Types
<1>5. ~is_decisive(f.eval) /\ -VALUE_INFINITE < f.beta
  BY <1>0, <1>2, <1>4, Bounds DEF is_decisive, is_loss, VALUE_INFINITE
<1>6. Between(f.eval, f.beta, 1) \in Int /\ Between(f.eval, f.beta, 1) \in ScoresAt(f.ply)
  BY <1>0, <1>2, <1>4, <1>5, Middle
<1>. QED BY <1>0, <1>1, <1>6, ReturnStep

\* The side that passes is a cut node that did not follow a pass, at a NonPV node.
LEMMA NullMoveKeeps == ASSUME IInv, NullMove PROVE IInv'
<1>0. /\ stack # <<>> /\ f.at = "prune" /\ result = <<>> /\ f.cutNode /\ ~InCheck(f.node)
      /\ game.null[f.node] # NoMove /\ Choose
      /\ UNCHANGED <<g, tt, pvs, rootPv, nmpMinPly, stopped, searches>>
  BY DEF NullMove, Running
<1>1. RestInv /\ FramesInv /\ TableInv /\ RootInv /\ IsGame(game) /\ Constants
  BY <1>0, Known
<1>2. /\ f \in Frames(game) /\ f.ply \in 0..MAX_PLY
      /\ PlyOK(f) /\ WindowOK(f) /\ BestOK(game, f) /\ MovesOK(game, f)
  BY <1>0, Known
<1>3. Types(f)
  BY <1>0, Known
<1>r. RestInv'
  BY <1>0, <1>1 DEF RestInv, Constants, Choose
<1>u. TableInv' /\ RootInv'
  BY <1>0, <1>1, TableKept, RootKept
<1>s. SUFFICES FramesInv'
  BY <1>r, <1>u DEF IInv
<1>. DEFINE n == game.null[f.node]
            a == -f.beta
            b == -f.beta + 1
            d == f.depth - NullReduction
            p == f.ply + 1
            y0 == Frame("search", n, f.rule50, p, FALSE, a, b, d, FALSE)
            y == [y0 EXCEPT !.isNull = TRUE]
<1>4. Call([f EXCEPT !.at = "null"], y)
  BY DEF NullMove
<1>5. n \in Nodes(game)
  <2>1. game.null[f.node] \in Maybe(game)
    BY <1>1, <1>3, Moves DEF Types
  <2>. QED BY <1>0, <2>1 DEF Maybe
<1>6. f.fn = "search" /\ f.ply > 0
  BY <1>0, <1>2, <1>3 DEF PlyOK, Types
<1>7. /\ a \in Int /\ b \in Int /\ d \in Int /\ p \in Nat /\ p <= MAX_PLY /\ p # 0
      /\ -VALUE_INFINITE <= a /\ a < b /\ b <= VALUE_INFINITE /\ a = b - 1
      /\ b <= mate_in(p) + 2
  <2>1. /\ p \in Nat /\ p <= MAX_PLY /\ a \in Int /\ a < -f.alpha /\ -f.alpha \in Int
        /\ -VALUE_INFINITE <= a /\ -f.alpha <= VALUE_INFINITE /\ b <= mate_in(p) + 2
    BY <1>0, <1>6, CalledWindow
  <2>2. f.depth \in Int /\ f.beta \in Int /\ VALUE_INFINITE \in Int /\ f.ply \in Nat
    BY <1>1, <1>3 DEF Types, Constants, VALUE_INFINITE
  <2>. QED BY <2>1, <2>2 DEF NullReduction
<1>8. f.rule50 \in Nat
  BY <1>3 DEF Types
<1>. HIDE DEF n, a, b, d, p
<1>t. "null" \in Places
  BY DEF Places
<1>. DEFINE x == [f EXCEPT !.at = "null"]
<1>m. x \in Frames(game)
  BY <1>2, <1>t, Fields, Zenon
<1>a. /\ x.fn = f.fn /\ x.node = f.node /\ x.ply = f.ply /\ x.PvNode = f.PvNode /\ x.alpha = f.alpha
     /\ x.beta = f.beta /\ x.depth = f.depth /\ x.cutNode = f.cutNode /\ x.isNull = f.isNull
     /\ x.at = "null" /\ x.best = f.best /\ x.max = f.max /\ x.left = f.left /\ x.count = f.count
     /\ x.move = f.move /\ x.nullValue = f.nullValue /\ x.line = f.line /\ x.excluded = f.excluded
  BY <1>2 DEF Frames
<1>f9. CanCall("search", n, f.rule50, p, FALSE, a, b, d, FALSE)
  BY <1>5, <1>7, <1>8 DEF CanCall
<1>9. /\ y0 \in Frames(game) /\ FrameOK(game, y0) /\ y0.cutNode = FALSE
      /\ y0.fn = "search" /\ y0.node = n /\ y0.ply = p /\ y0.PvNode = FALSE /\ y0.at = "enter"
  <2>1. PICK s1, v1, c1 : s1 = "search" /\ v1 = FALSE /\ c1 = FALSE
    OBVIOUS
  <2>2. CanCall(s1, n, f.rule50, p, v1, a, b, d, c1) /\ y0 = Frame(s1, n, f.rule50, p, v1, a, b, d, c1)
    BY <1>f9, <2>1
  <2>. HIDE DEF y0
  <2>3. /\ y0 \in Frames(game) /\ FrameOK(game, y0) /\ y0.cutNode = c1
        /\ y0.fn = s1 /\ y0.node = n /\ y0.ply = p /\ y0.PvNode = v1 /\ y0.at = "enter"
    BY <1>1, <2>2, Fresh
  <2>. QED BY <2>1, <2>3
<1>. HIDE DEF y0
<1>10. y \in Frames(game)
  BY <1>9, Fields
<1>y. /\ y \in Frames(game) /\ FrameOK(game, y)
      /\ y.fn = "search" /\ y.node = n /\ y.ply = p /\ y.PvNode = FALSE /\ y.at = "enter"
  BY <1>9, <1>10, Marked
<1>z. Call(x, y)
  BY <1>4
<1>. HIDE DEF x, y
<1>p. PlyOK(x)
  BY <1>0, <1>2, <1>a DEF PlyOK
<1>w. WindowOK(x)
  BY <1>0, <1>2, <1>a DEF WindowOK
<1>b. BestOK(game, x)
  BY <1>0, <1>2, <1>a DEF BestOK
<1>v. MovesOK(game, x)
  BY <1>0, <1>2, <1>a DEF MovesOK
<1>k. FrameOK(game, x) /\ SameCall(f, x)
  BY <1>0, <1>a, <1>p, <1>w, <1>b, <1>v DEF FrameOK, SameCall
<1>c. CallOK(x, y)
  BY <1>0, <1>2, <1>a, <1>y DEF p, CallOK, Calls, Deeper, PlyOK
<1>q. pvs' \in [0..(MAX_PLY + 2) -> Nat] /\ \A i \in 1..(Len(stack) - 1) : pvs'[i] = pvs[i]
  BY <1>0, <1>1 DEF FramesInv
<1>. QED BY <1>0, <1>1, <1>2, <1>m, <1>a, <1>y, <1>z, <1>k, <1>c, <1>q, CallStep

\* The value kept through the verification is a score of this ply.
LEMMA AfterNullMoveKeeps == ASSUME IInv, AfterNullMove PROVE IInv'
<1>0. /\ stack # <<>> /\ f.at = "null" /\ result # <<>>
      /\ UNCHANGED <<g, tt, pvs, rootPv, stopped, choices, searches>>
  BY DEF AfterNullMove, Answered
<1>1. RestInv /\ FramesInv /\ TableInv /\ RootInv /\ IsGame(game) /\ Constants
  BY <1>0, Known
<1>2. /\ f \in Frames(game) /\ f.ply \in 0..MAX_PLY
      /\ PlyOK(f) /\ WindowOK(f) /\ BestOK(game, f) /\ MovesOK(game, f)
  BY <1>0, Known
<1>3. Types(f)
  BY <1>0, Known
<1>4. answer \in Int /\ answer \in ScoresAt(f.ply)
  BY <1>0, Answer DEF Deeper
<1>5. f.fn = "search" /\ f.ply > 0 /\ ~f.PvNode /\ f.count = 0
  BY <1>0, <1>2, <1>3 DEF PlyOK, Types, BestOK
<1>6. f.depth \in Int /\ f.alpha \in Int /\ f.beta \in Int /\ f.ply \in Nat /\ f.rule50 \in Nat /\ f.node \in Nodes(game)
  BY <1>3 DEF Types
<1>. DEFINE d == f.depth - NullReduction
            y == Frame("search", f.node, f.rule50, f.ply, FALSE, f.beta - 1, f.beta, d, FALSE)
<1>7. \/ With([f EXCEPT !.at = "probcut"]) /\ UNCHANGED nmpMinPly
      \/ Return(answer) /\ UNCHANGED nmpMinPly
      \/ /\ Call([f EXCEPT !.at = "verify", !.nullValue = answer], y)
         /\ nmpMinPly' = f.ply + (3 * (f.depth - NullReduction)) \div 4
  BY DEF AfterNullMove
<1>8. nmpMinPly' \in Int
  <2>1. nmpMinPly' = nmpMinPly \/ nmpMinPly' = f.ply + (3 * d) \div 4
    BY DEF AfterNullMove
  <2>2. nmpMinPly \in Int /\ d \in Int
    BY <1>1, <1>6 DEF RestInv, NullReduction
  <2>. HIDE DEF d
  <2>. QED BY <1>6, <2>1, <2>2
<1>r. RestInv'
  BY <1>0, <1>1, <1>8 DEF RestInv
<1>u. TableInv' /\ RootInv'
  BY <1>0, <1>1, TableKept, RootKept
<1>s. SUFFICES FramesInv'
  BY <1>r, <1>u DEF IInv
<1>9. CASE With([f EXCEPT !.at = "probcut"])
  <2>t. "probcut" \in Places
    BY DEF Places
  <2>. DEFINE x == [f EXCEPT !.at = "probcut"]
  <2>m. x \in Frames(game)
    BY <1>2, <2>t, Fields, Zenon
  <2>a. /\ x.fn = f.fn /\ x.node = f.node /\ x.ply = f.ply /\ x.PvNode = f.PvNode
       /\ x.alpha = f.alpha /\ x.beta = f.beta /\ x.depth = f.depth /\ x.cutNode = f.cutNode
       /\ x.isNull = f.isNull /\ x.at = "probcut" /\ x.best = f.best /\ x.max = f.max
       /\ x.left = f.left /\ x.count = f.count /\ x.move = f.move /\ x.nullValue = f.nullValue
       /\ x.line = f.line /\ x.excluded = f.excluded
    BY <1>2 DEF Frames
  <2>z. With(x)
    BY <1>9
  <2>. HIDE DEF x
  <2>p. PlyOK(x)
    BY <1>0, <1>2, <2>a DEF PlyOK
  <2>w. WindowOK(x)
    BY <1>0, <1>2, <2>a DEF WindowOK
  <2>b. BestOK(game, x)
    BY <1>0, <1>2, <2>a DEF BestOK
  <2>v. MovesOK(game, x)
    BY <1>0, <1>2, <2>a DEF MovesOK
  <2>k. FrameOK(game, x) /\ SameCall(f, x)
    BY <1>0, <2>a, <2>p, <2>w, <2>b, <2>v DEF FrameOK, SameCall
  <2>. QED BY <1>0, <1>1, <1>2, <2>m, <2>a, <2>z, <2>k, WithStep
<1>10. CASE Return(answer)
  BY <1>0, <1>1, <1>4, <1>10, ReturnStep
<1>11. CASE Call([f EXCEPT !.at = "verify", !.nullValue = answer], y)
  <2>1. /\ d \in Int /\ f.beta - 1 \in Int /\ f.ply <= MAX_PLY /\ f.ply # 0
        /\ -VALUE_INFINITE <= f.beta - 1 /\ f.beta - 1 < f.beta /\ f.beta <= VALUE_INFINITE
        /\ f.beta <= mate_in(f.ply) + 2
    <3>1. /\ -VALUE_INFINITE <= f.alpha /\ f.alpha < f.beta /\ f.beta <= VALUE_INFINITE
          /\ f.beta <= mate_in(f.ply) + 2
      BY <1>2, <1>5 DEF WindowOK
    <3>2. d \in Int /\ f.ply <= MAX_PLY /\ VALUE_INFINITE \in Int
      BY <1>1, <1>2, <1>6 DEF PlyOK, NullReduction, Constants, VALUE_INFINITE
    <3>. HIDE DEF d
    <3>. QED BY <1>5, <1>6, <3>1, <3>2
  <2>. HIDE DEF d
  <2>fy. CanCall("search", f.node, f.rule50, f.ply, FALSE, f.beta - 1, f.beta, d, FALSE)
    BY <1>6, <2>1 DEF CanCall
  <2>y. /\ y \in Frames(game) /\ FrameOK(game, y)
        /\ y.fn = "search" /\ y.node = f.node /\ y.ply = f.ply /\ y.PvNode = FALSE /\ y.at = "enter"
    <3>1. PICK s1, v1, c1 : s1 = "search" /\ v1 = FALSE /\ c1 = FALSE
      OBVIOUS
    <3>2. CanCall(s1, f.node, f.rule50, f.ply, v1, f.beta - 1, f.beta, d, c1) /\ y = Frame(s1, f.node, f.rule50, f.ply, v1, f.beta - 1, f.beta, d, c1)
      BY <2>fy, <3>1
    <3>. HIDE DEF y
    <3>3. /\ y \in Frames(game) /\ FrameOK(game, y)
          /\ y.fn = s1 /\ y.node = f.node /\ y.ply = f.ply /\ y.PvNode = v1 /\ y.at = "enter"
      BY <1>1, <3>2, Fresh
    <3>. QED BY <3>1, <3>3
  <2>t. "verify" \in Places
    BY DEF Places
  <2>. DEFINE x == [f EXCEPT !.at = "verify", !.nullValue = answer]
  <2>m. x \in Frames(game)
    BY <1>2, <1>4, <2>t, Fields, Zenon
  <2>a. /\ x.fn = f.fn /\ x.node = f.node /\ x.ply = f.ply /\ x.PvNode = f.PvNode
       /\ x.alpha = f.alpha /\ x.beta = f.beta /\ x.depth = f.depth /\ x.cutNode = f.cutNode
       /\ x.isNull = f.isNull /\ x.at = "verify" /\ x.best = f.best /\ x.max = f.max
       /\ x.left = f.left /\ x.count = f.count /\ x.move = f.move /\ x.nullValue = answer
       /\ x.line = f.line /\ x.excluded = f.excluded
    BY <1>2 DEF Frames
  <2>z. Call(x, y)
    BY <1>11
  <2>. HIDE DEF x, y
  <2>p. PlyOK(x)
    BY <1>0, <1>2, <2>a DEF PlyOK
  <2>w. WindowOK(x)
    BY <1>0, <1>2, <2>a DEF WindowOK
  <2>b. BestOK(game, x)
    BY <1>0, <1>2, <2>a, <1>4, <1>5 DEF BestOK
  <2>v. MovesOK(game, x)
    BY <1>0, <1>2, <2>a DEF MovesOK
  <2>k. FrameOK(game, x) /\ SameCall(f, x)
    BY <1>0, <2>a, <2>p, <2>w, <2>b, <2>v DEF FrameOK, SameCall
  <2>c. CallOK(x, y)
    BY <1>0, <1>2, <2>a, <2>y DEF CallOK, Calls, Deeper, PlyOK
  <2>q. pvs' \in [0..(MAX_PLY + 2) -> Nat] /\ \A i \in 1..(Len(stack) - 1) : pvs'[i] = pvs[i]
    BY <1>0, <1>1 DEF FramesInv
  <2>. QED BY <1>0, <1>1, <1>2, <2>m, <2>a, <2>y, <2>z, <2>k, <2>c, <2>q, CallStep
<1>. QED BY <1>7, <1>9, <1>10, <1>11

\* The value that was verified is a score of this ply.
LEMMA AfterVerificationKeeps == ASSUME IInv, AfterVerification PROVE IInv'
<1>0. /\ stack # <<>> /\ f.at = "verify" /\ result # <<>> /\ nmpMinPly' = 0
      /\ UNCHANGED <<g, tt, pvs, rootPv, stopped, choices, searches>>
  BY DEF AfterVerification, Answered
<1>1. RestInv /\ FramesInv /\ TableInv /\ RootInv /\ IsGame(game) /\ Constants
  BY <1>0, Known
<1>2. /\ f \in Frames(game) /\ f.ply \in 0..MAX_PLY
      /\ PlyOK(f) /\ WindowOK(f) /\ BestOK(game, f) /\ MovesOK(game, f)
  BY <1>0, Known
<1>3. Types(f)
  BY <1>0, Known
<1>r. RestInv'
  BY <1>0, <1>1 DEF RestInv, Constants
<1>u. TableInv' /\ RootInv'
  BY <1>0, <1>1, TableKept, RootKept
<1>s. SUFFICES FramesInv'
  BY <1>r, <1>u DEF IInv
<1>4. Return(f.nullValue) \/ With([f EXCEPT !.at = "probcut"])
  BY DEF AfterVerification
<1>5. CASE Return(f.nullValue)
  <2>1. f.nullValue \in Int /\ f.nullValue \in ScoresAt(f.ply)
    BY <1>0, <1>2, <1>3 DEF BestOK, Types
  <2>. QED BY <1>0, <1>1, <1>5, <2>1, ReturnStep
<1>6. CASE With([f EXCEPT !.at = "probcut"])
  <2>t. "probcut" \in Places
    BY DEF Places
  <2>. DEFINE x == [f EXCEPT !.at = "probcut"]
  <2>m. x \in Frames(game)
    BY <1>2, <2>t, Fields, Zenon
  <2>a. /\ x.fn = f.fn /\ x.node = f.node /\ x.ply = f.ply /\ x.PvNode = f.PvNode
       /\ x.alpha = f.alpha /\ x.beta = f.beta /\ x.depth = f.depth /\ x.cutNode = f.cutNode
       /\ x.isNull = f.isNull /\ x.at = "probcut" /\ x.best = f.best /\ x.max = f.max
       /\ x.left = f.left /\ x.count = f.count /\ x.move = f.move /\ x.nullValue = f.nullValue
       /\ x.line = f.line /\ x.excluded = f.excluded
    BY <1>2 DEF Frames
  <2>z. With(x)
    BY <1>6
  <2>. HIDE DEF x
  <2>p. PlyOK(x)
    BY <1>0, <1>2, <2>a DEF PlyOK
  <2>w. WindowOK(x)
    BY <1>0, <1>2, <2>a DEF WindowOK
  <2>b. BestOK(game, x)
    BY <1>0, <1>2, <2>a DEF BestOK
  <2>v. MovesOK(game, x)
    BY <1>0, <1>2, <2>a DEF MovesOK
  <2>k. FrameOK(game, x) /\ SameCall(f, x)
    BY <1>0, <2>a, <2>p, <2>w, <2>b, <2>v DEF FrameOK, SameCall
  <2>. QED BY <1>0, <1>1, <1>2, <2>m, <2>a, <2>z, <2>k, WithStep
<1>. QED BY <1>4, <1>5, <1>6

\* The raised bound is still one a score can have.
LEMMA ProbCutKeeps == ASSUME IInv, ProbCut PROVE IInv'
<1>0. /\ stack # <<>> /\ f.at \in {"prune", "probcut"} /\ result = <<>> /\ ~is_decisive(f.beta)
      /\ Choose /\ UNCHANGED <<g, tt, pvs, rootPv, nmpMinPly, stopped, searches>>
  BY DEF ProbCut, Running
<1>1. RestInv /\ FramesInv /\ TableInv /\ RootInv /\ IsGame(game) /\ Constants
  BY <1>0, Known
<1>2. /\ f \in Frames(game) /\ f.ply \in 0..MAX_PLY
      /\ PlyOK(f) /\ WindowOK(f) /\ BestOK(game, f) /\ MovesOK(game, f)
  BY <1>0, Known
<1>3. Types(f)
  BY <1>0, Known
<1>r. RestInv'
  BY <1>0, <1>1 DEF RestInv, Constants, Choose
<1>u. TableInv' /\ RootInv'
  BY <1>0, <1>1, TableKept, RootKept
<1>s. SUFFICES FramesInv'
  BY <1>r, <1>u DEF IInv
<1>. DEFINE p == f.ply + 1
            a == -probCutBeta
            b == -probCutBeta + 1
<1>4. PICK m \in Range(game.moves[f.node]) :
        Call([f EXCEPT !.at = "probcut quiet", !.move = m], QChild(m, FALSE, a, b))
  BY DEF ProbCut
<1>. DEFINE y == Frame("qsearch", m, After(m), p, FALSE, a, b, 0, FALSE)
<1>5. m \in Nodes(game) /\ m \in Maybe(game) /\ After(m) \in Nat
  <2>1. f.node \in Nodes(game)
    BY <1>3 DEF Types
  <2>2. m \in Nodes(game)
    BY <1>1, <2>1, Moves
  <2>. QED BY <1>0, <2>2, AfterIsACount DEF Maybe
<1>6. /\ a \in Int /\ b \in Int /\ p \in Nat /\ p <= MAX_PLY /\ p # 0
      /\ -VALUE_INFINITE <= a /\ a < b /\ b <= VALUE_INFINITE
  <2>1. p \in Nat /\ p <= MAX_PLY
    BY <1>0, CalledWindow
  <2>2. f.beta \in Int /\ probCutBeta = f.beta + 1 /\ f.ply \in Nat
    BY <1>3 DEF Types, probCutBeta, Margin
  <2>3. -VALUE_TB_WIN_IN_MAX_PLY < f.beta /\ f.beta < VALUE_TB_WIN_IN_MAX_PLY
    BY <1>0, <2>2, Bounds DEF is_decisive, is_win, is_loss
  <2>4. /\ VALUE_TB_WIN_IN_MAX_PLY \in Int /\ VALUE_INFINITE \in Int
        /\ VALUE_TB_WIN_IN_MAX_PLY < VALUE_INFINITE
    BY Bounds DEF VALUE_INFINITE
  <2>. QED BY <2>1, <2>2, <2>3, <2>4
<1>7. Call([f EXCEPT !.at = "probcut quiet", !.move = m], y) /\ f.count = 0
  BY <1>0, <1>2, <1>4 DEF QChild, BestOK
<1>8. f.fn = "search"
  BY <1>0, <1>2, <1>3 DEF PlyOK, Types
<1>. HIDE DEF a, b, p
<1>fy. CanCall("qsearch", m, After(m), p, FALSE, a, b, 0, FALSE)
  BY <1>5, <1>6 DEF CanCall
<1>y. /\ y \in Frames(game) /\ FrameOK(game, y)
      /\ y.fn = "qsearch" /\ y.node = m /\ y.ply = p /\ y.PvNode = FALSE /\ y.at = "enter"
  <2>1. PICK s1, v1, c1 : s1 = "qsearch" /\ v1 = FALSE /\ c1 = FALSE
    OBVIOUS
  <2>2. CanCall(s1, m, After(m), p, v1, a, b, 0, c1) /\ y = Frame(s1, m, After(m), p, v1, a, b, 0, c1)
    BY <1>fy, <2>1
  <2>. HIDE DEF y
  <2>3. /\ y \in Frames(game) /\ FrameOK(game, y)
        /\ y.fn = s1 /\ y.node = m /\ y.ply = p /\ y.PvNode = v1 /\ y.at = "enter"
    BY <1>1, <2>2, Fresh
  <2>. QED BY <2>1, <2>3
<1>t. "probcut quiet" \in Places
  BY DEF Places
<1>. DEFINE x == [f EXCEPT !.at = "probcut quiet", !.move = m]
<1>m. x \in Frames(game)
  BY <1>2, <1>5, <1>t, Fields, Zenon
<1>a. /\ x.fn = f.fn /\ x.node = f.node /\ x.ply = f.ply /\ x.PvNode = f.PvNode /\ x.alpha = f.alpha
     /\ x.beta = f.beta /\ x.depth = f.depth /\ x.cutNode = f.cutNode /\ x.isNull = f.isNull
     /\ x.at = "probcut quiet" /\ x.best = f.best /\ x.max = f.max /\ x.left = f.left
     /\ x.count = f.count /\ x.move = m /\ x.nullValue = f.nullValue /\ x.line = f.line
     /\ x.excluded = f.excluded
  BY <1>2 DEF Frames
<1>z. Call(x, y)
  BY <1>7
<1>. HIDE DEF x, y
<1>p. PlyOK(x)
  BY <1>0, <1>2, <1>a DEF PlyOK
<1>w. WindowOK(x)
  BY <1>0, <1>2, <1>a DEF WindowOK
<1>b. BestOK(game, x)
  BY <1>0, <1>2, <1>a, <1>7 DEF BestOK
<1>v. MovesOK(game, x)
  BY <1>0, <1>2, <1>a DEF MovesOK
<1>k. FrameOK(game, x) /\ SameCall(f, x)
  BY <1>0, <1>a, <1>p, <1>w, <1>b, <1>v DEF FrameOK, SameCall
<1>c. CallOK(x, y)
  BY <1>0, <1>2, <1>a, <1>y DEF p, CallOK, Calls, Deeper, PlyOK
<1>q. pvs' \in [0..(MAX_PLY + 2) -> Nat] /\ \A i \in 1..(Len(stack) - 1) : pvs'[i] = pvs[i]
  BY <1>0, <1>1 DEF FramesInv
<1>. QED BY <1>0, <1>1, <1>2, <1>m, <1>a, <1>y, <1>z, <1>k, <1>c, <1>q, CallStep

\* The value is written before it is looked at, and lowered only if not decisive.
LEMMA AfterProbCutKeeps == ASSUME IInv, AfterProbCut PROVE IInv'
<1>0. /\ stack # <<>> /\ f.at \in {"probcut quiet", "probcut"} /\ result # <<>>
      /\ UNCHANGED <<g, pvs, rootPv, nmpMinPly, stopped, choices, searches>>
  BY DEF AfterProbCut, Answered
<1>1. RestInv /\ FramesInv /\ TableInv /\ RootInv /\ IsGame(game) /\ Constants
  BY <1>0, Known
<1>2. /\ f \in Frames(game) /\ f.ply \in 0..MAX_PLY
      /\ PlyOK(f) /\ WindowOK(f) /\ BestOK(game, f) /\ MovesOK(game, f)
  BY <1>0, Known
<1>3. Types(f)
  BY <1>0, Known
<1>r. RestInv'
  BY <1>0, <1>1 DEF RestInv, Constants
<1>u. RootInv'
  BY <1>0, <1>1, RootKept
<1>s. SUFFICES FramesInv' /\ TableInv'
  BY <1>r, <1>u DEF IInv
<1>4. answer \in Int /\ answer \in ScoresAt(f.ply)
  BY <1>0, Answer DEF Deeper
<1>5. f.fn = "search" /\ f.count = 0
  BY <1>0, <1>2, <1>3 DEF PlyOK, Types, BestOK
<1>6. /\ f.depth \in Int /\ f.beta \in Int /\ f.ply \in Nat /\ f.node \in Nodes(game)
      /\ f.move \in Maybe(game) /\ f.ttPv \in BOOLEAN /\ f.cutNode \in BOOLEAN
  BY <1>3 DEF Types
<1>. DEFINE p == f.ply + 1
            a == -probCutBeta
            b == -probCutBeta + 1
            d == f.depth - 3
            c == ~f.cutNode
            y == Frame("search", f.move, After(f.move), p, FALSE, a, b, d, c)
<1>7. \/ With([f EXCEPT !.at = "probcut"]) /\ UNCHANGED tt
      \/ f.at = "probcut quiet" /\ Call([f EXCEPT !.at = "probcut"], y) /\ UNCHANGED tt
      \/ /\ Write(f.node, answer, f.ttPv, BOUND_LOWER, f.depth - 2, f.move)
         /\ \/ With([f EXCEPT !.at = "probcut"])
            \/ ~is_decisive(answer) /\ Return(answer - Margin)
  BY DEF AfterProbCut, Child
<1>8. With([f EXCEPT !.at = "probcut"]) => FramesInv'
  <2>0. SUFFICES ASSUME With([f EXCEPT !.at = "probcut"]) PROVE FramesInv'
    OBVIOUS
  <2>t. "probcut" \in Places
    BY DEF Places
  <2>. DEFINE x == [f EXCEPT !.at = "probcut"]
  <2>m. x \in Frames(game)
    BY <1>2, <2>t, Fields, Zenon
  <2>a. /\ x.fn = f.fn /\ x.node = f.node /\ x.ply = f.ply /\ x.PvNode = f.PvNode
       /\ x.alpha = f.alpha /\ x.beta = f.beta /\ x.depth = f.depth /\ x.cutNode = f.cutNode
       /\ x.isNull = f.isNull /\ x.at = "probcut" /\ x.best = f.best /\ x.max = f.max
       /\ x.left = f.left /\ x.count = f.count /\ x.move = f.move /\ x.nullValue = f.nullValue
       /\ x.line = f.line /\ x.excluded = f.excluded
    BY <1>2 DEF Frames
  <2>z. With(x)
    BY <2>0
  <2>. HIDE DEF x
  <2>p. PlyOK(x)
    BY <1>0, <1>2, <2>a DEF PlyOK
  <2>w. WindowOK(x)
    BY <1>0, <1>2, <2>a DEF WindowOK
  <2>b. BestOK(game, x)
    BY <1>0, <1>2, <2>a, <1>5 DEF BestOK
  <2>v. MovesOK(game, x)
    BY <1>0, <1>2, <2>a DEF MovesOK
  <2>k. FrameOK(game, x) /\ SameCall(f, x)
    BY <1>0, <2>a, <2>p, <2>w, <2>b, <2>v DEF FrameOK, SameCall
  <2>. QED BY <1>0, <1>1, <1>2, <2>m, <2>a, <2>z, <2>k, WithStep
<1>9. CASE UNCHANGED tt /\ With([f EXCEPT !.at = "probcut"])
  BY <1>0, <1>1, <1>8, <1>9, TableKept
<1>10. CASE f.at = "probcut quiet" /\ Call([f EXCEPT !.at = "probcut"], y) /\ UNCHANGED tt
  <2>. SUFFICES FramesInv'
    BY <1>0, <1>1, <1>10, TableKept
  <2>0. Call([f EXCEPT !.at = "probcut"], y)
    BY <1>10
  <2>1. /\ f.move \in Nodes(game) /\ After(f.move) \in Nat
    <3>1. f.move \in Range(game.moves[f.node])
      BY <1>2, <1>10 DEF MovesOK
    <3>2. Range(game.moves[f.node]) \subseteq Nodes(game)
      BY <1>1, <1>6, Moves
    <3>. QED BY <1>0, <3>1, <3>2, AfterIsACount
  <2>2. ~is_decisive(f.beta)
    BY <1>2, <1>10 DEF WindowOK
  <2>3. /\ a \in Int /\ b \in Int /\ d \in Int /\ p \in Nat /\ p <= MAX_PLY /\ p # 0
        /\ -VALUE_INFINITE <= a /\ a < b /\ b <= VALUE_INFINITE /\ a = b - 1
        /\ b <= mate_in(p) + 2 /\ c \in BOOLEAN
    <3>1. p \in Nat /\ p <= MAX_PLY
      BY <1>0, CalledWindow
    <3>2. probCutBeta = f.beta + 1 /\ d \in Int /\ p # 0 /\ c \in BOOLEAN
      BY <1>6 DEF probCutBeta, Margin
    <3>3. -VALUE_TB_WIN_IN_MAX_PLY < f.beta /\ f.beta < VALUE_TB_WIN_IN_MAX_PLY
      BY <1>6, <2>2, Bounds DEF is_decisive, is_win, is_loss
    <3>4. /\ VALUE_TB_WIN_IN_MAX_PLY \in Int /\ VALUE_INFINITE \in Int
          /\ VALUE_TB_WIN_IN_MAX_PLY < VALUE_INFINITE
      BY Bounds DEF VALUE_INFINITE
    <3>5. VALUE_TB_WIN_IN_MAX_PLY <= mate_in(p) /\ mate_in(p) \in Int
      BY <3>1, Bounds DEF mate_in
    <3>. HIDE DEF d, p, c
    <3>. QED BY <1>6, <3>1, <3>2, <3>3, <3>4, <3>5
  <2>. HIDE DEF a, b, d, c
  <2>e. p = f.ply + 1
    OBVIOUS
  <2>. HIDE DEF p
  <2>fy. CanCall("search", f.move, After(f.move), p, FALSE, a, b, d, c)
    BY <2>1, <2>3 DEF CanCall
  <2>y. /\ y \in Frames(game) /\ FrameOK(game, y)
        /\ y.fn = "search" /\ y.node = f.move /\ y.ply = p /\ y.PvNode = FALSE /\ y.at = "enter"
    <3>1. PICK s1, v1, c1 : s1 = "search" /\ v1 = FALSE /\ c1 = c
      OBVIOUS
    <3>2. CanCall(s1, f.move, After(f.move), p, v1, a, b, d, c1) /\ y = Frame(s1, f.move, After(f.move), p, v1, a, b, d, c1)
      BY <2>fy, <3>1
    <3>. HIDE DEF y
    <3>3. /\ y \in Frames(game) /\ FrameOK(game, y)
          /\ y.fn = s1 /\ y.node = f.move /\ y.ply = p /\ y.PvNode = v1 /\ y.at = "enter"
      BY <1>1, <3>2, Fresh
    <3>. QED BY <3>1, <3>3
  <2>t. "probcut" \in Places
    BY DEF Places
  <2>. DEFINE x == [f EXCEPT !.at = "probcut"]
  <2>m. x \in Frames(game)
    BY <1>2, <2>t, Fields, Zenon
  <2>a. /\ x.fn = f.fn /\ x.node = f.node /\ x.ply = f.ply /\ x.PvNode = f.PvNode
       /\ x.alpha = f.alpha /\ x.beta = f.beta /\ x.depth = f.depth /\ x.cutNode = f.cutNode
       /\ x.isNull = f.isNull /\ x.at = "probcut" /\ x.best = f.best /\ x.max = f.max
       /\ x.left = f.left /\ x.count = f.count /\ x.move = f.move /\ x.nullValue = f.nullValue
       /\ x.line = f.line /\ x.excluded = f.excluded
    BY <1>2 DEF Frames
  <2>z. Call(x, y)
    BY <2>0
  <2>. HIDE DEF x, y
  <2>p. PlyOK(x)
    BY <1>0, <1>2, <2>a DEF PlyOK
  <2>w. WindowOK(x)
    BY <1>0, <1>2, <2>a DEF WindowOK
  <2>b. BestOK(game, x)
    BY <1>0, <1>2, <2>a, <1>5 DEF BestOK
  <2>v. MovesOK(game, x)
    BY <1>0, <1>2, <2>a DEF MovesOK
  <2>k. FrameOK(game, x) /\ SameCall(f, x)
    BY <1>0, <2>a, <2>p, <2>w, <2>b, <2>v DEF FrameOK, SameCall
  <2>c. CallOK(x, y)
    BY <1>0, <1>2, <2>a, <2>y, <2>e DEF CallOK, Calls, Deeper, PlyOK
  <2>q. pvs' \in [0..(MAX_PLY + 2) -> Nat] /\ \A i \in 1..(Len(stack) - 1) : pvs'[i] = pvs[i]
    BY <1>0, <1>1 DEF FramesInv
  <2>. QED BY <1>0, <1>1, <1>2, <2>m, <2>a, <2>y, <2>z, <2>k, <2>c, <2>q, CallStep
<1>11. CASE /\ Write(f.node, answer, f.ttPv, BOUND_LOWER, f.depth - 2, f.move)
            /\ \/ With([f EXCEPT !.at = "probcut"])
               \/ ~is_decisive(answer) /\ Return(answer - Margin)
  <2>1. BOUND_LOWER \in SUBSET BOUND_EXACT /\ f.depth - 2 \in Int
    BY <1>6 DEF BOUND_EXACT
  <2>2. TableInv'
    BY <1>0, <1>4, <1>6, <1>11, <2>1, WriteKeeps
  <2>3. CASE ~is_decisive(answer) /\ Return(answer - Margin)
    <3>1. PICK v : v = answer - Margin
      OBVIOUS
    <3>2. v = answer - 1 /\ ~is_decisive(answer)
      BY <2>3, <3>1 DEF Margin
    <3>3. v \in Int /\ ~is_win(v - 2) /\ ~is_loss(v + 2)
      BY <1>4, <3>2, Bounds DEF is_decisive, is_win, is_loss
    <3>4. v \in ScoresAt(f.ply)
      BY <1>2, <3>3, Ordinary
    <3>5. Return(v)
      BY <2>3, <3>1
    <3>6. FramesInv'
      BY <1>0, <1>1, <3>3, <3>4, <3>5, ReturnStep
    <3>. QED BY <2>2, <3>6
  <2>. QED BY <1>8, <1>11, <2>2, <2>3
<1>. QED BY <1>7, <1>9, <1>10, <1>11

\* The list is of moves of the position.
LEMMA BeginMovesKeeps == ASSUME IInv, BeginMoves PROVE IInv'
<1>0. /\ stack # <<>> /\ f.at \in {"prune", "probcut"} /\ result = <<>>
      /\ UNCHANGED <<g, tt, pvs, rootPv, nmpMinPly, stopped, choices, searches>>
  BY DEF BeginMoves, Running
<1>1. RestInv /\ FramesInv /\ TableInv /\ RootInv /\ IsGame(game) /\ Constants
  BY <1>0, Known
<1>2. /\ f \in Frames(game) /\ f.ply \in 0..MAX_PLY
      /\ PlyOK(f) /\ WindowOK(f) /\ BestOK(game, f) /\ MovesOK(game, f)
  BY <1>0, Known
<1>3. Types(f)
  BY <1>0, Known
<1>r. RestInv'
  BY <1>0, <1>1 DEF RestInv, Constants
<1>u. TableInv' /\ RootInv'
  BY <1>0, <1>1, TableKept, RootKept
<1>s. SUFFICES FramesInv'
  BY <1>r, <1>u DEF IInv
<1>4. \/ ~is_decisive(f.beta) /\ Return(f.beta + 2 * Margin)
      \/ With([f EXCEPT !.at = "loop", !.left = Picked(game.moves[f.node], f.tt.move)])
  BY DEF BeginMoves
<1>5. CASE ~is_decisive(f.beta) /\ Return(f.beta + 2 * Margin)
  <2>. DEFINE v == f.beta + 2 * Margin
  <2>1. f.beta \in Int /\ v = f.beta + 2
    BY <1>3 DEF Types, Margin
  <2>2. ~is_decisive(f.beta) /\ Return(v)
    BY <1>5
  <2>. HIDE DEF v
  <2>3. v \in Int /\ ~is_win(v - 2) /\ ~is_loss(v + 2)
    BY <2>1, <2>2, Bounds DEF is_decisive, is_win, is_loss
  <2>4. v \in ScoresAt(f.ply)
    BY <1>2, <2>3, Ordinary
  <2>. QED BY <1>0, <1>1, <2>2, <2>3, <2>4, ReturnStep
<1>6. CASE With([f EXCEPT !.at = "loop", !.left = Picked(game.moves[f.node], f.tt.move)])
  <2>. DEFINE l == Picked(game.moves[f.node], f.tt.move)
  <2>1. l \in Seq(Nodes(game)) /\ Range(l) \subseteq Range(game.moves[f.node])
    <3>1. f.node \in Nodes(game)
      BY <1>3 DEF Types
    <3>2. game.moves[f.node] \in Seq(Nodes(game))
      BY <1>1, <3>1, Moves
    <3>. QED BY <1>1, <3>1, <3>2, PickedMoves
  <2>2. l \in Seq(Nodes(game))
    BY <2>1
  <2>3. f.count = 0
    BY <1>0, <1>2 DEF BestOK
  <2>. HIDE DEF l
  <2>t. "loop" \in Places
    BY DEF Places
  <2>. DEFINE x == [f EXCEPT !.at = "loop", !.left = l]
  <2>m. x \in Frames(game)
    BY <1>2, <2>2, <2>t, Fields, Zenon
  <2>a. /\ x.fn = f.fn /\ x.node = f.node /\ x.ply = f.ply /\ x.PvNode = f.PvNode
       /\ x.alpha = f.alpha /\ x.beta = f.beta /\ x.depth = f.depth /\ x.cutNode = f.cutNode
       /\ x.isNull = f.isNull /\ x.at = "loop" /\ x.best = f.best /\ x.max = f.max /\ x.left = l
       /\ x.count = f.count /\ x.move = f.move /\ x.nullValue = f.nullValue /\ x.line = f.line
       /\ x.excluded = f.excluded
    BY <1>2 DEF Frames
  <2>z. With(x)
    BY <1>6 DEF l
  <2>. HIDE DEF x
  <2>p. PlyOK(x)
    BY <1>0, <1>2, <2>a DEF PlyOK
  <2>w. WindowOK(x)
    BY <1>0, <1>2, <2>a DEF WindowOK
  <2>b. BestOK(game, x)
    BY <1>0, <1>2, <2>a, <2>3 DEF BestOK
  <2>v. MovesOK(game, x)
    BY <1>0, <1>2, <2>a, <2>1 DEF MovesOK
  <2>k. FrameOK(game, x) /\ SameCall(f, x)
    BY <1>0, <2>a, <2>p, <2>w, <2>b, <2>v DEF FrameOK, SameCall
  <2>. QED BY <1>0, <1>1, <1>2, <2>m, <2>a, <2>z, <2>k, WithStep
<1>. QED BY <1>4, <1>5, <1>6

\* The list that is left is of moves of the position.
LEMMA SkipExcludedKeeps == ASSUME IInv, SkipExcluded PROVE IInv'
<1>0. /\ stack # <<>> /\ f.at = "loop" /\ result = <<>> /\ f.left # <<>> /\ With(Skip)
      /\ UNCHANGED <<g, tt, pvs, rootPv, nmpMinPly, stopped, choices, searches>>
  BY DEF SkipExcluded, Running
<1>1. RestInv /\ FramesInv /\ TableInv /\ RootInv /\ IsGame(game) /\ Constants
  BY <1>0, Known
<1>2. /\ f \in Frames(game) /\ f.ply \in 0..MAX_PLY
      /\ PlyOK(f) /\ WindowOK(f) /\ BestOK(game, f) /\ MovesOK(game, f)
  BY <1>0, Known
<1>3. Types(f)
  BY <1>0, Known
<1>r. RestInv'
  BY <1>0, <1>1 DEF RestInv, Constants
<1>u. TableInv' /\ RootInv'
  BY <1>0, <1>1, TableKept, RootKept
<1>s. SUFFICES FramesInv'
  BY <1>r, <1>u DEF IInv
<1>4. Tail(f.left) \in Seq(Nodes(game)) /\ Range(Tail(f.left)) \subseteq Range(game.moves[f.node])
  BY <1>0, Upcoming
<1>. DEFINE l == Tail(f.left)
<1>5. l \in Seq(Nodes(game))
  BY <1>4
<1>. HIDE DEF l
<1>. DEFINE x == [f EXCEPT !.left = l]
<1>m. x \in Frames(game)
  BY <1>2, <1>5, Fields, Zenon
<1>a. /\ x.fn = f.fn /\ x.node = f.node /\ x.ply = f.ply /\ x.PvNode = f.PvNode /\ x.alpha = f.alpha
     /\ x.beta = f.beta /\ x.depth = f.depth /\ x.cutNode = f.cutNode /\ x.isNull = f.isNull
     /\ x.at = f.at /\ x.best = f.best /\ x.max = f.max /\ x.left = l /\ x.count = f.count
     /\ x.move = f.move /\ x.nullValue = f.nullValue /\ x.line = f.line /\ x.excluded = f.excluded
  BY <1>2 DEF Frames
<1>z. With(x)
  BY <1>0 DEF Skip, l
<1>. HIDE DEF x
<1>p. PlyOK(x)
  BY <1>0, <1>2, <1>a DEF PlyOK
<1>w. WindowOK(x)
  BY <1>0, <1>2, <1>a DEF WindowOK
<1>b. BestOK(game, x)
  BY <1>0, <1>2, <1>a DEF BestOK
<1>v. MovesOK(game, x)
  BY <1>0, <1>2, <1>a, <1>4 DEF MovesOK, l
<1>k. FrameOK(game, x) /\ SameCall(f, x)
  BY <1>0, <1>a, <1>p, <1>w, <1>b, <1>v DEF FrameOK, SameCall
<1>. QED BY <1>0, <1>1, <1>2, <1>m, <1>a, <1>z, <1>k, WithStep

\* A pruned move counts, and the best value is a score by then.
LEMMA PruneMoveKeeps == ASSUME IInv, PruneMove PROVE IInv'
<1>0. /\ stack # <<>> /\ f.at = "loop" /\ result = <<>> /\ f.left # <<>> /\ ~is_loss(f.best)
      /\ Choose /\ UNCHANGED <<g, tt, pvs, rootPv, nmpMinPly, stopped, searches>>
  BY DEF PruneMove, Running, MayPrune
<1>1. RestInv /\ FramesInv /\ TableInv /\ RootInv /\ IsGame(game) /\ Constants
  BY <1>0, Known
<1>2. /\ f \in Frames(game) /\ f.ply \in 0..MAX_PLY
      /\ PlyOK(f) /\ WindowOK(f) /\ BestOK(game, f) /\ MovesOK(game, f)
  BY <1>0, Known
<1>3. Types(f)
  BY <1>0, Known
<1>r. RestInv'
  BY <1>0, <1>1 DEF RestInv, Constants, Choose
<1>u. TableInv' /\ RootInv'
  BY <1>0, <1>1, TableKept, RootKept
<1>s. SUFFICES FramesInv'
  BY <1>r, <1>u DEF IInv
<1>4. Tail(f.left) \in Seq(Nodes(game)) /\ Range(Tail(f.left)) \subseteq Range(game.moves[f.node])
  BY <1>0, Upcoming
<1>. DEFINE l == Tail(f.left)
            c == f.count + 1
            value == Min({f.alpha, VALUE_TB_WIN_IN_MAX_PLY - 1})
            raised == ~InCheck(f.node) /\ f.best <= value /\ ~is_decisive(f.best)
<1>5. PICK b \in {f.best} \cup (IF raised THEN {value} ELSE {}) :
        With([Skip EXCEPT !.count = @ + 1, !.best = b])
  BY DEF PruneMove
<1>6. f.best \in Int /\ f.alpha \in Int /\ f.count \in Nat /\ VALUE_TB_WIN_IN_MAX_PLY \in Int
  BY <1>3, Bounds DEF Types
<1>7. b \in Int /\ b \in ScoresAt(f.ply)
  <2>1. CASE b = f.best
    <3>1. f.best # -VALUE_INFINITE
      BY <1>0, Bounds DEF is_loss, VALUE_INFINITE
    <3>. QED BY <1>2, <1>6, <2>1, <3>1 DEF BestOK
  <2>2. CASE raised /\ b = value
    <3>1. value = IF f.alpha <= VALUE_TB_WIN_IN_MAX_PLY - 1 THEN f.alpha ELSE VALUE_TB_WIN_IN_MAX_PLY - 1
      BY <1>6, Smaller
    <3>2. b \in Int /\ ~is_decisive(b)
      BY <1>6, <2>2, <3>1, Bounds DEF is_decisive, is_win, is_loss
    <3>. QED BY <1>2, <3>2, Undecided
  <2>. QED BY <1>5, <2>1, <2>2
<1>8. l \in Seq(Nodes(game)) /\ c \in Nat /\ c > 0 /\ b \in Int
  BY <1>4, <1>6, <1>7
<1>9. With([f EXCEPT !.left = l, !.count = c, !.best = b])
  BY <1>2, <1>5 DEF Skip, Frames
<1>. HIDE DEF l, c, value, raised
<1>. DEFINE x == [f EXCEPT !.left = l, !.count = c, !.best = b]
<1>m. x \in Frames(game)
  BY <1>2, <1>8, Fields, Zenon
<1>a. /\ x.fn = f.fn /\ x.node = f.node /\ x.ply = f.ply /\ x.PvNode = f.PvNode /\ x.alpha = f.alpha
     /\ x.beta = f.beta /\ x.depth = f.depth /\ x.cutNode = f.cutNode /\ x.isNull = f.isNull
     /\ x.at = f.at /\ x.best = b /\ x.max = f.max /\ x.left = l /\ x.count = c /\ x.move = f.move
     /\ x.nullValue = f.nullValue /\ x.line = f.line /\ x.excluded = f.excluded
  BY <1>2 DEF Frames
<1>z. With(x)
  BY <1>9
<1>. HIDE DEF x
<1>p. PlyOK(x)
  BY <1>0, <1>2, <1>a DEF PlyOK
<1>w. WindowOK(x)
  BY <1>0, <1>2, <1>a DEF WindowOK
<1>b. BestOK(game, x)
  BY <1>0, <1>2, <1>a, <1>7, <1>8 DEF BestOK
<1>v. MovesOK(game, x)
  BY <1>0, <1>2, <1>a, <1>4 DEF MovesOK, l
<1>k. FrameOK(game, x) /\ SameCall(f, x)
  BY <1>0, <1>a, <1>p, <1>w, <1>b, <1>v DEF FrameOK, SameCall
<1>. QED BY <1>0, <1>1, <1>2, <1>m, <1>a, <1>z, <1>k, WithStep

\* The search without the hash move is of the same position and ply.
LEMMA SingularKeeps == ASSUME IInv, Singular PROVE IInv'
<1>0. /\ stack # <<>> /\ f.at = "loop" /\ result = <<>> /\ f.left # <<>> /\ f.ply > 0
      /\ ~is_decisive(f.tt.value) /\ Choose
      /\ UNCHANGED <<g, tt, pvs, rootPv, nmpMinPly, stopped, searches>>
  BY DEF Singular, Running
<1>1. RestInv /\ FramesInv /\ TableInv /\ RootInv /\ IsGame(game) /\ Constants
  BY <1>0, Known
<1>2. /\ f \in Frames(game) /\ f.ply \in 0..MAX_PLY
      /\ PlyOK(f) /\ WindowOK(f) /\ BestOK(game, f) /\ MovesOK(game, f)
  BY <1>0, Known
<1>3. Types(f)
  BY <1>0, Known
<1>r. RestInv'
  BY <1>0, <1>1 DEF RestInv, Constants, Choose
<1>u. TableInv' /\ RootInv'
  BY <1>0, <1>1, TableKept, RootKept
<1>s. SUFFICES FramesInv'
  BY <1>r, <1>u DEF IInv
<1>. DEFINE a == singularBeta - 1
            b == singularBeta
            d == (f.depth - 1) \div 2
            y0 == Frame("search", f.node, f.rule50, f.ply, FALSE, a, b, d, f.cutNode)
            y == [y0 EXCEPT !.excluded = next, !.ttPv = f.ttPv]
<1>4. Call([f EXCEPT !.at = "singular"], y)
  BY DEF Singular
<1>5. next \in Maybe(game)
  BY <1>0, Upcoming
<1>6. f.node \in Nodes(game) /\ f.rule50 \in Nat /\ f.ply \in Nat /\ f.cutNode \in BOOLEAN /\ f.ttPv \in BOOLEAN
  BY <1>3 DEF Types
<1>7. /\ a \in Int /\ b \in Int /\ d \in Int /\ a = b - 1 /\ f.ply <= MAX_PLY /\ f.ply # 0
      /\ -VALUE_INFINITE <= a /\ a < b /\ b <= VALUE_INFINITE /\ b <= mate_in(f.ply) + 2
  <2>1. f.tt.value \in Int /\ f.depth \in Int
    BY <1>3 DEF Types, Entries
  <2>2. -VALUE_TB_WIN_IN_MAX_PLY < f.tt.value /\ f.tt.value < VALUE_TB_WIN_IN_MAX_PLY
    BY <1>0, <2>1, Bounds DEF is_decisive, is_win, is_loss
  <2>3. a = f.tt.value - 2 /\ b = f.tt.value - 1
    BY <2>1 DEF singularBeta, Margin
  <2>4. f.ply <= MAX_PLY
    BY <1>2 DEF PlyOK
  <2>5. /\ VALUE_TB_WIN_IN_MAX_PLY + 1 < VALUE_INFINITE /\ VALUE_TB_WIN_IN_MAX_PLY <= mate_in(f.ply)
        /\ VALUE_TB_WIN_IN_MAX_PLY \in Int /\ VALUE_INFINITE \in Int /\ mate_in(f.ply) \in Int
    BY <1>6, <2>4, Bounds, ScoreAssumption DEF VALUE_INFINITE, mate_in
  <2>6. d \in Int
    BY <2>1
  <2>. HIDE DEF a, b, d
  <2>7. /\ a \in Int /\ b \in Int /\ a = b - 1 /\ a < b /\ -VALUE_INFINITE <= a /\ b <= VALUE_INFINITE
        /\ b <= mate_in(f.ply) + 2
    BY <2>1, <2>2, <2>3, <2>5
  <2>. QED BY <1>0, <1>6, <2>4, <2>6, <2>7
<1>8. f.fn = "search" /\ f.tt \in Entries(game)
  BY <1>0, <1>2, <1>3 DEF PlyOK, Types
<1>. HIDE DEF a, b, d
<1>t. "singular" \in Places
  BY DEF Places
<1>. DEFINE x == [f EXCEPT !.at = "singular"]
<1>m. x \in Frames(game)
  BY <1>2, <1>t, Fields, Zenon
<1>a. /\ x.fn = f.fn /\ x.node = f.node /\ x.ply = f.ply /\ x.PvNode = f.PvNode /\ x.alpha = f.alpha
     /\ x.beta = f.beta /\ x.depth = f.depth /\ x.cutNode = f.cutNode /\ x.isNull = f.isNull
     /\ x.at = "singular" /\ x.best = f.best /\ x.max = f.max /\ x.left = f.left
     /\ x.count = f.count /\ x.move = f.move /\ x.nullValue = f.nullValue /\ x.line = f.line
     /\ x.excluded = f.excluded
  BY <1>2 DEF Frames
<1>f9. CanCall("search", f.node, f.rule50, f.ply, FALSE, a, b, d, f.cutNode)
  BY <1>6, <1>7 DEF CanCall
<1>9. /\ y0 \in Frames(game) /\ FrameOK(game, y0)
      /\ y0.fn = "search" /\ y0.node = f.node /\ y0.ply = f.ply /\ y0.PvNode = FALSE /\ y0.at = "enter"
  <2>1. PICK s1, v1, c1 : s1 = "search" /\ v1 = FALSE /\ c1 = f.cutNode
    OBVIOUS
  <2>2. CanCall(s1, f.node, f.rule50, f.ply, v1, a, b, d, c1) /\ y0 = Frame(s1, f.node, f.rule50, f.ply, v1, a, b, d, c1)
    BY <1>f9, <2>1
  <2>. HIDE DEF y0
  <2>3. /\ y0 \in Frames(game) /\ FrameOK(game, y0)
        /\ y0.fn = s1 /\ y0.node = f.node /\ y0.ply = f.ply /\ y0.PvNode = v1 /\ y0.at = "enter"
    BY <1>1, <2>2, Fresh
  <2>. QED BY <2>1, <2>3
<1>. HIDE DEF y0
<1>10. y \in Frames(game)
  BY <1>5, <1>6, <1>9, Fields
<1>y. /\ y \in Frames(game) /\ FrameOK(game, y)
      /\ y.fn = "search" /\ y.node = f.node /\ y.ply = f.ply /\ y.PvNode = FALSE /\ y.at = "enter"
  BY <1>9, <1>10, Marked
<1>z. Call(x, y)
  BY <1>4
<1>. HIDE DEF x, y
<1>p. PlyOK(x)
  BY <1>0, <1>2, <1>a DEF PlyOK
<1>w. WindowOK(x)
  BY <1>0, <1>2, <1>a DEF WindowOK
<1>b. BestOK(game, x)
  BY <1>0, <1>2, <1>a DEF BestOK
<1>v. MovesOK(game, x)
  BY <1>0, <1>2, <1>a DEF MovesOK
<1>k. FrameOK(game, x) /\ SameCall(f, x)
  BY <1>0, <1>a, <1>p, <1>w, <1>b, <1>v DEF FrameOK, SameCall
<1>c. CallOK(x, y)
  BY <1>0, <1>2, <1>a, <1>y DEF CallOK, Calls, Deeper, PlyOK
<1>q. pvs' \in [0..(MAX_PLY + 2) -> Nat] /\ \A i \in 1..(Len(stack) - 1) : pvs'[i] = pvs[i]
  BY <1>0, <1>1 DEF FramesInv
<1>. QED BY <1>0, <1>1, <1>2, <1>m, <1>a, <1>y, <1>z, <1>k, <1>c, <1>q, CallStep

\* The frame with the next move taken from its list.
LEMMA OneTaken ==
    ASSUME IInv, stack # <<>>, f.left # <<>>
    PROVE  /\ Taken \in Frames(game) /\ Taken.move = next /\ Taken.count > 0
           /\ Taken.left = Tail(f.left) /\ Taken.depth = f.depth
           /\ Taken.fn = f.fn /\ SameCall(f, Taken) /\ Taken.alpha = f.alpha /\ Taken.beta = f.beta
           /\ Taken.cutNode = f.cutNode /\ Taken.isNull = f.isNull /\ Taken.excluded = f.excluded
           /\ Taken.best = f.best /\ Taken.max = f.max
<1>1. f \in Frames(game) /\ Types(f)
  BY Known
<1>2. /\ next \in Maybe(game) /\ Tail(f.left) \in Seq(Nodes(game))
      /\ f.count + 1 \in Nat /\ f.count + 1 > 0
  <2>1. next \in Maybe(game) /\ Tail(f.left) \in Seq(Nodes(game))
    BY Upcoming
  <2>. QED BY <1>1, <2>1 DEF Types
<1>3. Skip \in Frames(game)
  BY <1>1, <1>2, Fields, Zenon DEF Skip
<1>4. Skip.count = f.count /\ Skip.left = Tail(f.left) /\ SameCall(f, Skip)
      /\ Skip.depth = f.depth /\ Skip.fn = f.fn /\ Skip.alpha = f.alpha /\ Skip.beta = f.beta
      /\ Skip.cutNode = f.cutNode /\ Skip.isNull = f.isNull /\ Skip.excluded = f.excluded
      /\ Skip.best = f.best /\ Skip.max = f.max
  BY <1>1 DEF Skip, Frames, SameCall
<1>5. Taken = [Skip EXCEPT !.move = next, !.count = Skip.count + 1]
  BY DEF Taken
<1>6. Skip.count + 1 \in Nat /\ Skip.count + 1 > 0
  BY <1>2, <1>4
<1>7. Taken \in Frames(game)
  BY <1>2, <1>3, <1>5, <1>6, Fields, Zenon
<1>8. /\ Taken.move = next /\ Taken.count = Skip.count + 1
      /\ Taken.left = Skip.left /\ Taken.depth = Skip.depth
      /\ Taken.fn = Skip.fn /\ SameCall(Skip, Taken) /\ Taken.alpha = Skip.alpha /\ Taken.beta = Skip.beta
      /\ Taken.cutNode = Skip.cutNode /\ Taken.isNull = Skip.isNull /\ Taken.excluded = Skip.excluded
      /\ Taken.best = Skip.best /\ Taken.max = Skip.max
  BY <1>3, <1>5 DEF Frames, SameCall
<1>. QED BY <1>4, <1>6, <1>7, <1>8 DEF SameCall

\* The move is taken with any depths that are not negative.
LEMMA TakesMove ==
    ASSUME IInv, stack # <<>>, f.left # <<>>, f.fn = "search", f.at # "enter",
           NEW d, d \in Int, d >= 0, NEW e, e \in Int, NEW fr,
           \/ fr = [Taken EXCEPT !.newDepth = e] /\ d = f.depth
           \/ fr = [Taken EXCEPT !.depth = d, !.newDepth = e]
    PROVE  Taking(fr)
<1>1. /\ Taken \in Frames(game) /\ Taken.move = next /\ Taken.count > 0
      /\ Taken.left = Tail(f.left) /\ Taken.depth = f.depth
      /\ Taken.fn = f.fn /\ SameCall(f, Taken) /\ Taken.alpha = f.alpha /\ Taken.beta = f.beta
      /\ Taken.cutNode = f.cutNode /\ Taken.isNull = f.isNull /\ Taken.excluded = f.excluded
      /\ Taken.best = f.best /\ Taken.max = f.max
  BY OneTaken
<1>5. next \in Range(game.moves[f.node]) /\ Range(Tail(f.left)) \subseteq Range(game.moves[f.node])
  BY Upcoming
<1>2. CASE fr = [Taken EXCEPT !.newDepth = e] /\ d = f.depth
  <2>1. fr \in Frames(game)
    BY <1>1, <1>2, Fields, Zenon
  <2>2. /\ fr.move = Taken.move /\ fr.count = Taken.count /\ fr.left = Taken.left /\ fr.depth = d
        /\ fr.fn = Taken.fn /\ SameCall(Taken, fr) /\ fr.alpha = Taken.alpha /\ fr.beta = Taken.beta
        /\ fr.cutNode = Taken.cutNode /\ fr.isNull = Taken.isNull /\ fr.excluded = Taken.excluded
        /\ fr.best = Taken.best /\ fr.max = Taken.max
    BY <1>1, <1>2 DEF Frames, SameCall
  <2>. QED BY <1>1, <1>5, <2>1, <2>2 DEF Taking, SameCall
<1>3. CASE fr = [Taken EXCEPT !.depth = d, !.newDepth = e]
  <2>1. fr \in Frames(game)
    BY <1>1, <1>3, Fields, Zenon
  <2>2. /\ fr.move = Taken.move /\ fr.count = Taken.count /\ fr.left = Taken.left /\ fr.depth = d
        /\ fr.fn = Taken.fn /\ SameCall(Taken, fr) /\ fr.alpha = Taken.alpha /\ fr.beta = Taken.beta
        /\ fr.cutNode = Taken.cutNode /\ fr.isNull = Taken.isNull /\ fr.excluded = Taken.excluded
        /\ fr.best = Taken.best /\ fr.max = Taken.max
    BY <1>1, <1>3 DEF Frames, SameCall
  <2>. QED BY <1>1, <1>5, <2>1, <2>2 DEF Taking, SameCall
<1>. QED BY <1>2, <1>3

\* The next move is searched for the first time.
LEMMA MakeMoveKeeps == ASSUME IInv, MakeMove PROVE IInv'
<1>. DEFINE fr == [Taken EXCEPT !.newDepth = f.depth - 1]
<1>0. /\ stack # <<>> /\ f.at = "loop" /\ f.left # <<>> /\ SearchMove(fr)
      /\ UNCHANGED <<g, tt, rootPv, nmpMinPly, stopped, searches>>
  BY DEF MakeMove, Running
<1>1. RestInv /\ FramesInv /\ TableInv /\ RootInv /\ Types(f) /\ PlyOK(f) /\ WindowOK(f)
  BY <1>0, Known
<1>2. f.fn = "search" /\ f.depth \in Int /\ f.depth >= 0 /\ f.depth - 1 \in Int
  BY <1>0, <1>1 DEF PlyOK, WindowOK, Types
<1>3. Taking(fr)
  BY <1>0, <1>2, TakesMove
<1>. HIDE DEF fr
<1>4. FramesInv' /\ choices' \in Nat
  BY <1>0, <1>3, Searches
<1>5. RestInv'
  BY <1>0, <1>1, <1>4 DEF RestInv
<1>6. TableInv' /\ RootInv'
  BY <1>0, <1>1, TableKept, RootKept
<1>. QED BY <1>4, <1>5, <1>6 DEF IInv

\* The hash move is searched, or the value that is not decisive returned.
LEMMA AfterSingularKeeps == ASSUME IInv, AfterSingular PROVE IInv'
<1>. DEFINE v  == result[1].value
            up == IF v < singularBeta THEN 1 ELSE 0
            e  == f.depth - 1 + (IF v < singularBeta THEN 1
                                 ELSE IF f.tt.value >= f.beta \/ f.cutNode THEN -3 ELSE 0)
            fr == [Taken EXCEPT !.depth = @ + up, !.newDepth = e]
<1>0. /\ stack # <<>> /\ result # <<>> /\ f.at = "singular"
      /\ UNCHANGED <<g, tt, rootPv, nmpMinPly, stopped, searches>>
      /\ \/ ~is_decisive(v) /\ Return(v) /\ UNCHANGED <<pvs, choices>>
         \/ SearchMove(fr)
  BY DEF AfterSingular, Answered
<1>1. RestInv /\ FramesInv /\ TableInv /\ RootInv /\ Types(f) /\ PlyOK(f) /\ WindowOK(f) /\ MovesOK(game, f)
  BY <1>0, Known
<1>2. f.fn = "search" /\ f.depth \in Int /\ f.depth >= 0 /\ f.left # <<>>
  BY <1>0, <1>1 DEF PlyOK, WindowOK, Types, MovesOK
<1>3. FramesInv' /\ choices' \in Nat
  <2>1. CASE ~is_decisive(v) /\ Return(v) /\ UNCHANGED <<pvs, choices>>
    <3>1. v \in Int /\ v \in ScoresAt(f.ply)
      BY <1>0, <2>1, Answer, Known, Undecided
    <3>2. Return(v) /\ UNCHANGED <<pvs, choices>>
      BY <2>1
    <3>. HIDE DEF v
    <3>3. FramesInv'
      BY <1>0, <1>1, <3>1, <3>2, ReturnStep
    <3>. QED BY <1>1, <3>2, <3>3 DEF RestInv
  <2>2. CASE SearchMove(fr)
    <3>1. PICK d : d = f.depth + up
      OBVIOUS
    <3>2. d \in Int /\ d >= 0 /\ e \in Int
      BY <1>2, <3>1
    <3>3. Taken.depth = f.depth
      BY <1>0, <1>2, OneTaken
    <3>4. fr = [Taken EXCEPT !.depth = d, !.newDepth = e]
      BY <3>1, <3>3
    <3>. HIDE DEF fr, e
    <3>5. Taking(fr)
      BY <1>0, <1>2, <3>2, <3>4, TakesMove
    <3>. QED BY <1>0, <2>2, <3>5, Searches
  <2>. QED BY <1>0, <2>1, <2>2
<1>5. RestInv'
  BY <1>0, <1>1, <1>3 DEF RestInv
<1>6. TableInv' /\ RootInv'
  BY <1>0, <1>1, TableKept, RootKept
<1>. QED BY <1>3, <1>5, <1>6 DEF IInv

\* The line a best move begins, put together from the list its pointer leads to.
LEMMA Prepended ==
    ASSUME NEW G, NEW n, NEW m, m \in Range(G.moves[n]), m \in Nodes(G), NEW L \in Seq(Nodes(G)),
           LineOf(G, m, L), NEW M, M = <<m>> \o L
    PROVE  M \in Seq(Nodes(G)) /\ LineOf(G, n, M)
<1>1. /\ M \in Seq(Nodes(G)) /\ Len(M) = Len(L) + 1 /\ Len(L) \in Nat
      /\ M[1] = m /\ \A i \in 1..Len(L) : M[i + 1] = L[i]
  OBVIOUS
<1>2. DOMAIN M = 1..(Len(L) + 1) /\ DOMAIN L = 1..Len(L)
  BY <1>1
<1>3. ASSUME NEW i \in DOMAIN M PROVE M[i] \in Range(G.moves[IF i = 1 THEN n ELSE M[i - 1]])
  <2>1. CASE i = 1
    BY <1>1, <2>1
  <2>2. CASE i # 1
    <3>1. i - 1 \in 1..Len(L) /\ i - 1 + 1 = i
      BY <1>1, <1>2, <2>2
    <3>2. M[i] = L[i - 1]
      BY <1>1, <3>1
    <3>3. L[i - 1] \in Range(G.moves[IF i - 1 = 1 THEN m ELSE L[i - 1 - 1]])
      BY <1>2, <3>1 DEF LineOf
    <3>4. CASE i = 2
      BY <1>1, <3>2, <3>3, <3>4
    <3>5. CASE i # 2
      <4>1. i - 1 - 1 \in 1..Len(L) /\ i - 1 - 1 + 1 = i - 1 /\ i - 1 # 1
        BY <1>1, <3>1, <3>5
      <4>2. M[i - 1] = L[i - 1 - 1]
        BY <1>1, <4>1
      <4>. QED BY <2>2, <3>2, <3>3, <4>1, <4>2
    <3>. QED BY <3>4, <3>5
  <2>. QED BY <2>1, <2>2
<1>. QED BY <1>1, <1>3 DEF LineOf

\* The line that begins with the move just searched is one of the game's, whether
\* it was searched with a list of its own or with a null window, and none.
LEMMA BestLine ==
    ASSUME IInv, stack # <<>>, f.PvNode, f.at \in {"reduced", "full", "pv", "quiet"},
           NEW L, L = <<f.move>> \o List(stack, f.ply + 1)
    PROVE  L \in Seq(Nodes(game)) /\ LineOf(game, f.node, L)
<1>1. RestInv /\ FramesInv /\ IsGame(game) /\ Types(f) /\ MovesOK(game, f)
  BY Known
<1>. DEFINE n == Len(stack)
            K == List(stack, f.ply + 1)
<1>2. n \in Nat \ {0} /\ f = stack[n] /\ PvOK(game, stack, pvs, n)
  BY <1>1, OnTop
<1>3. f.ply + 1 = n
  BY <1>2 DEF PvOK
<1>4. /\ f.at \in {"pv", "quiet"} => pvs[n] = n /\ LineOf(game, f.move, f.line)
      /\ f.at \in {"reduced", "full"} => pvs[n] = 0
  BY <1>2 DEF PvOK
<1>5. K = IF pvs[n] = 0 THEN <<>> ELSE stack[pvs[n]].line
  BY <1>3 DEF List
<1>. HIDE DEF n, K
<1>6. f.move \in Range(game.moves[f.node]) /\ f.move \in Nodes(game)
  <2>1. f.move \in Range(game.moves[f.node])
    BY <1>1 DEF MovesOK
  <2>2. f.node \in Nodes(game)
    BY <1>1 DEF Types
  <2>. QED BY <1>1, <2>1, <2>2, Moves
<1>7. K \in Seq(Nodes(game)) /\ LineOf(game, f.move, K)
  <2>1. CASE f.at \in {"pv", "quiet"}
    <3>1. K = f.line
      BY <1>2, <1>4, <1>5, <2>1
    <3>. QED BY <1>1, <1>4, <2>1, <3>1 DEF Types
  <2>2. CASE f.at \in {"reduced", "full"}
    <3>1. K = <<>>
      BY <1>4, <1>5, <2>2
    <3>. QED BY <3>1 DEF LineOf
  <2>. QED BY <2>1, <2>2
<1>8. L = <<f.move>> \o K
  BY DEF K
<1>. QED BY <1>6, <1>7, <1>8, Prepended

\* A frame goes on, and at a PV node may hand the line of its best move to the
\* frame that called it.
Hand(x, L) == /\ stack' = WithLine(Append(Front(stack), x), pvs[f.ply], L)
              /\ result' = <<>>

\* The frame on top goes on after it has written its line.
LEMMA HandsOver ==
    ASSUME FramesInv, stack # <<>>, f.PvNode, f.ply > 0, UNCHANGED <<g, pvs>>,
           NEW x, x \in Frames(game), FrameOK(game, x), SameCall(f, x),
           x.at \in {"loop", "done", "qloop", "qdone"},
           x.at \in {"qloop", "qdone"} => f.at = "quiet",
           NEW L \in Seq(Nodes(game)), LineOf(game, f.node, L),
           Hand(x, L)
    PROVE  FramesInv'
<1>. DEFINE n == Len(stack)
<1>1. /\ n \in Nat \ {0} /\ f = stack[n] /\ f \in Frames(game) /\ PvOK(game, stack, pvs, n)
      /\ stack \in Seq(Frames(game))
  BY OnTop DEF FramesInv
<1>2. x.PvNode /\ x.at \in {"qloop", "qdone"} => pvs[n] = n
  BY <1>1 DEF PvOK, SameCall
<1>4. pvs \in [0..(MAX_PLY + 2) -> Nat]
  BY DEF FramesInv
<1>5. PICK t : t = WithLine(stack, pvs[f.ply], L)
  OBVIOUS
<1>6. /\ Rewritten(t) /\ Settled(game, t, n) /\ f.ply = n - 1 /\ pvs[f.ply] = f.ply
  BY <1>5, Writes
<1>7. n > 1 /\ pvs[f.ply] = n - 1
  BY <1>1, <1>6
<1>. DEFINE s == Append(Front(stack), x)
<1>3. /\ s \in Seq(Frames(game)) /\ Len(s) = n /\ s[n] = x
      /\ \A i \in 1..(n - 1) : s[i] = stack[i]
  BY <1>1, TopOf
<1>8. /\ stack' = WithLine(s, n - 1, L) /\ t = WithLine(stack, n - 1, L) /\ result' = <<>>
  BY <1>5, <1>7 DEF Hand
<1>. HIDE DEF s
<1>9. /\ stack' \in Seq(Frames(game)) /\ Len(stack') = n /\ stack'[n] = x
      /\ \A i \in 1..(n - 1) : stack'[i] = t[i]
  <2>. DEFINE y == [stack[n - 1] EXCEPT !.line = L]
  <2>1. n \in Nat /\ n - 1 \in 1..n /\ n - 1 \in 1..(n - 1) /\ stack[n - 1] \in Frames(game)
    BY <1>1, <1>7
  <2>2. y \in Frames(game)
    BY <2>1, Fields, Zenon
  <2>3. stack' = [s EXCEPT ![n - 1] = [s[n - 1] EXCEPT !.line = L]]
    BY <1>8 DEF WithLine
  <2>4. t = [stack EXCEPT ![n - 1] = y]
    BY <1>8 DEF WithLine
  <2>5. [s[n - 1] EXCEPT !.line = L] = y
    BY <1>3, <2>1
  <2>. HIDE DEF y
  <2>6. stack' = [s EXCEPT ![n - 1] = y]
    BY <2>3, <2>5
  <2>7. Len(s) = Len(stack) /\ n = Len(stack) /\ n - 1 \in 1..Len(s) /\ n - 1 \in 1..Len(stack)
    BY <1>3, <2>1
  <2>. HIDE DEF n
  <2>8. /\ stack' \in Seq(Frames(game)) /\ Len(stack') = n
        /\ \A j \in 1..n : stack'[j] = IF j = n - 1 THEN y ELSE s[j]
    <3>. DEFINE e == [s EXCEPT ![n - 1] = y]
    <3>1. /\ e \in Seq(Frames(game)) /\ Len(e) = Len(s)
          /\ \A j \in 1..Len(s) : e[j] = IF j = n - 1 THEN y ELSE s[j]
      BY <1>3, <2>2, <2>7, ExceptSeq
    <3>2. e = stack'
      BY <2>6
    <3>. HIDE DEF e
    <3>. QED BY <1>3, <3>1, <3>2
  <2>9. \A j \in 1..n : t[j] = IF j = n - 1 THEN y ELSE stack[j]
    <3>. DEFINE e == [stack EXCEPT ![n - 1] = y]
    <3>1. /\ e \in Seq(Frames(game)) /\ Len(e) = Len(stack)
          /\ \A j \in 1..Len(stack) : e[j] = IF j = n - 1 THEN y ELSE stack[j]
      BY <1>1, <2>2, <2>7, ExceptSeq
    <3>2. e = t
      BY <2>4
    <3>. HIDE DEF e
    <3>. QED BY <2>7, <3>1, <3>2
  <2>. QED BY <1>1, <1>3, <2>1, <2>8, <2>9
<1>10. n = Len(stack)
  OBVIOUS
<1>. HIDE DEF n
<1>. QED BY <1>1, <1>2, <1>4, <1>6, <1>8, <1>9, <1>10, GoOn

\* A new best move keeps the frames and the root's line.
LEMMA BestIsUpdated ==
    ASSUME IInv, stack # <<>>, f.at \in {"reduced", "full", "pv"}, UNCHANGED <<g, pvs>>,
           NEW v, v \in Int, v \in ScoresAt(f.ply), UpdateBest(v)
    PROVE  FramesInv' /\ RootInv' /\ choices' \in Nat
<1>1. RestInv /\ FramesInv /\ TableInv /\ RootInv /\ IsGame(game) /\ Constants
  BY Known
<1>2. /\ f \in Frames(game) /\ f.ply \in 0..MAX_PLY
      /\ PlyOK(f) /\ WindowOK(f) /\ BestOK(game, f) /\ MovesOK(game, f)
  BY Known
<1>3. Types(f)
  BY Known
<1>4. /\ f.fn = "search" /\ f.count > 0 /\ f.ply \in Nat /\ f.alpha \in Int /\ f.beta \in Int /\ f.best \in Int
      /\ f.move \in Maybe(game) /\ f.bestMove \in Maybe(game) /\ choices \in Nat
  BY <1>1, <1>2, <1>3 DEF PlyOK, BestOK, Types, RestInv
<1>5. CASE stopped
  <2>1. PICK z : z = 0
    OBVIOUS
  <2>2. Return(z) /\ UNCHANGED <<rootPv, choices>>
    BY <1>5, <2>1 DEF UpdateBest
  <2>3. z \in Int /\ z \in ScoresAt(f.ply)
    BY <1>4, <1>1, <1>2, <2>1, ScoreAssumption DEF ScoresAt
  <2>4. FramesInv'
    BY <1>1, <2>2, <2>3, ReturnStep
  <2>. QED BY <1>1, <1>4, <2>2, <2>4, RootKept
<1>6. CASE ~stopped
  <2>. DEFINE L == <<f.move>> \o List(stack, f.ply + 1)
              newPv == f.ply = 0 /\ (f.count = 1 \/ v > f.alpha)
              better(i) == v + i > f.best
              raises(i) == better(i) /\ v + i > f.alpha
              B(i) == IF better(i) THEN v ELSE f.best
              M(i) == IF raises(i) THEN f.move ELSE f.bestMove
              A(i) == IF raises(i) /\ v < f.beta THEN v ELSE f.alpha
              P(i) == IF raises(i) /\ v >= f.beta THEN "done" ELSE "loop"
              X(i) == [f EXCEPT !.best = B(i), !.bestMove = M(i), !.alpha = A(i), !.at = P(i)]
  <2>1. PICK i \in {0, 1} :
          /\ UNCHANGED choices \/ Choose
          /\ rootPv' = IF newPv THEN <<f.move>> \o List(stack, 1) ELSE rootPv
          /\ \/ With(X(i))
             \/ f.PvNode /\ f.ply # 0 /\ Hand(X(i), L)
    <3>1. PICK i \in {0, 1} :
            /\ UNCHANGED choices \/ Choose
            /\ rootPv' = IF newPv THEN <<f.move>> \o List(stack, 1) ELSE rootPv
            /\ stack' = IF raises(i) /\ f.PvNode /\ f.ply # 0
                        THEN [Append(Front(stack), X(i)) EXCEPT ![pvs[f.ply]].line = L]
                        ELSE Append(Front(stack), X(i))
            /\ result' = <<>>
      BY <1>6, Zenon DEF UpdateBest
    <3>2. With(X(i)) \/ (f.PvNode /\ f.ply # 0 /\ Hand(X(i), L))
      BY <3>1, Zenon DEF With, Hand, WithLine
    <3>. QED BY <3>1, <3>2
  <2>2. B(i) \in Int /\ B(i) \in ScoresAt(f.ply)
    <3>1. CASE better(i)
      BY <3>1
    <3>2. CASE ~better(i)
      <4>1. f.best # -VALUE_INFINITE
        BY <1>1, <1>4, <3>2, ScoreAssumption DEF ScoresAt, VALUE_INFINITE
      <4>. QED BY <1>2, <1>4, <3>2, <4>1 DEF BestOK
    <3>. QED BY <3>1, <3>2
  <2>3. A(i) \in Int /\ f.alpha <= A(i) /\ A(i) < f.beta
    <3>1. f.alpha < f.beta
      BY <1>2 DEF WindowOK
    <3>2. CASE raises(i) /\ v < f.beta
      <4>1. A(i) = v /\ v + i > f.alpha /\ v < f.beta /\ (i = 0 \/ i = 1)
        BY <3>2
      <4>. HIDE DEF A, raises
      <4>. QED BY <1>4, <4>1
    <3>3. CASE ~(raises(i) /\ v < f.beta)
      <4>1. A(i) = f.alpha
        BY <3>3
      <4>. QED BY <1>4, <3>1, <4>1
    <3>. QED BY <3>2, <3>3
  <2>4. M(i) \in Maybe(game)
    BY <1>4
  <2>5. P(i) \in Places /\ P(i) \in {"done", "loop"}
    BY DEF Places
  <2>6. PICK b, m, a, p : b = B(i) /\ m = M(i) /\ a = A(i) /\ p = P(i)
    OBVIOUS
  <2>7. /\ b \in Int /\ b \in ScoresAt(f.ply) /\ a \in Int /\ f.alpha <= a /\ a < f.beta /\ m \in Maybe(game)
        /\ p \in Places /\ p \in {"done", "loop"}
    BY <2>2, <2>3, <2>4, <2>5, <2>6
  <2>8. X(i) = [f EXCEPT !.best = b, !.bestMove = m, !.alpha = a, !.at = p]
    BY <2>6
  <2>. DEFINE x == [f EXCEPT !.best = b, !.bestMove = m, !.alpha = a, !.at = p]
  <2>m. x \in Frames(game)
    BY <1>2, <2>7, Fields, Zenon
  <2>a. /\ x.fn = f.fn /\ x.node = f.node /\ x.ply = f.ply /\ x.PvNode = f.PvNode /\ x.alpha = a
       /\ x.beta = f.beta /\ x.depth = f.depth /\ x.cutNode = f.cutNode /\ x.isNull = f.isNull
       /\ x.at = p /\ x.best = b /\ x.max = f.max /\ x.left = f.left /\ x.count = f.count
       /\ x.move = f.move /\ x.nullValue = f.nullValue /\ x.line = f.line /\ x.excluded = f.excluded
    BY <1>2 DEF Frames
  <2>z. With(x) \/ (f.PvNode /\ f.ply > 0 /\ Hand(x, L))
    BY <1>4, <2>1, <2>8
  <2>. HIDE DEF x
  <2>p. PlyOK(x)
    BY <1>2, <1>4, <2>7, <2>a DEF PlyOK
  <2>w. WindowOK(x)
    <3>1. VALUE_INFINITE \in Int /\ mated_in(f.ply) \in Int
      BY <1>1, <1>4, ScoreAssumption DEF VALUE_INFINITE, mated_in
    <3>2. /\ x.fn = "search" /\ x.at # "probcut quiet" /\ x.at # "enter" /\ f.at # "enter"
          /\ x.alpha = a /\ x.beta = f.beta /\ x.depth = f.depth /\ x.ply = f.ply /\ x.PvNode = f.PvNode
      BY <1>4, <2>7, <2>a
    <3>3. /\ -VALUE_INFINITE <= f.alpha /\ f.beta <= VALUE_INFINITE /\ f.depth >= 0
          /\ ~f.PvNode => f.alpha = f.beta - 1
          /\ f.ply > 0 => f.beta <= mate_in(f.ply) + 2 /\ mated_in(f.ply) <= f.alpha /\ f.beta <= mate_in(f.ply + 1)
      BY <1>2, <1>4, <3>2 DEF WindowOK
    <3>4. /\ -VALUE_INFINITE <= a /\ a < f.beta /\ (~f.PvNode => a = f.beta - 1)
          /\ f.ply > 0 => mated_in(f.ply) <= a
      BY <1>4, <2>7, <3>1, <3>3
    <3>. QED BY <3>2, <3>3, <3>4 DEF WindowOK
  <2>b. BestOK(game, x)
    BY <1>2, <1>4, <2>7, <2>a DEF BestOK
  <2>v. MovesOK(game, x)
    BY <1>2, <2>7, <2>a DEF MovesOK
  <2>k. FrameOK(game, x) /\ SameCall(f, x)
    BY <2>a, <2>p, <2>w, <2>b, <2>v DEF FrameOK, SameCall
  <2>9. FramesInv'
    <3>1. CASE With(x)
      BY <1>1, <1>2, <2>7, <2>m, <2>a, <2>k, <3>1, WithStep
    <3>2. CASE f.PvNode /\ f.ply > 0 /\ Hand(x, L)
      <4>1. PICK l : l = L
        OBVIOUS
      <4>2. l \in Seq(Nodes(game)) /\ LineOf(game, f.node, l)
        BY <3>2, <4>1, BestLine
      <4>3. Hand(x, l)
        BY <3>2, <4>1
      <4>. HIDE DEF L
      <4>. QED BY <1>1, <2>7, <2>m, <2>a, <2>k, <3>2, <4>2, <4>3, HandsOver
    <3>. QED BY <2>z, <3>1, <3>2
  <2>10. RootInv'
    <3>1. CASE newPv
      <4>1. f.ply = 0 /\ f.PvNode
        BY <1>2, <3>1 DEF PlyOK
      <4>2. f = stack[Len(stack)] /\ stack[1].node = game.root /\ Len(stack) = 1
        <5>1. /\ f = stack[Len(stack)] /\ stack[1].node = game.root /\ Len(stack) \in Nat
              /\ PvOK(game, stack, pvs, Len(stack))
          BY <1>1, OnTop
        <5>2. f.ply = Len(stack) - 1
          BY <4>1, <5>1 DEF PvOK
        <5>3. \A n \in Nat : 0 = n - 1 => n = 1
          OBVIOUS
        <5>4. Len(stack) = 1
          BY <4>1, <5>1, <5>2, <5>3, Zenon
        <5>. QED BY <5>1, <5>4
      <4>3. rootPv' = L
        BY <2>1, <3>1, <4>1
      <4>4. L \in Seq(Nodes(game)) /\ LineOf(game, f.node, L)
        BY <4>1, BestLine
      <4>5. game' = game
        BY DEF game
      <4>. HIDE DEF L
      <4>. QED BY <4>2, <4>3, <4>4, <4>5 DEF RootInv
    <3>2. CASE ~newPv
      BY <1>1, <2>1, <3>2, RootKept
    <3>. QED BY <3>1, <3>2
  <2>11. choices' \in Nat
    BY <1>4, <2>1 DEF Choose
  <2>. QED BY <2>9, <2>10, <2>11
<1>. QED BY <1>5, <1>6

\* A later search of the same move starts from the frame as it is.
LEMMA StillTaking ==
    ASSUME IInv, stack # <<>>, f.at \in {"reduced", "full"}
    PROVE  f.fn = "search" /\ Taking(f)
  BY Known DEF Taking, SameCall, PlyOK, WindowOK, BestOK, MovesOK, Types

\* The move was searched with the whole window.
LEMMA AfterPvKeeps == ASSUME IInv, AfterPv PROVE IInv'
<1>0. /\ stack # <<>> /\ result # <<>> /\ f.at = "pv" /\ UpdateBest(answer)
      /\ UNCHANGED <<g, tt, pvs, nmpMinPly, stopped, searches>>
  BY DEF AfterPv, Answered
<1>1. RestInv /\ FramesInv /\ TableInv /\ RootInv
  BY <1>0, Known
<1>2. PICK v : v = answer
  OBVIOUS
<1>3. v \in Int /\ v \in ScoresAt(f.ply) /\ UpdateBest(v)
  <2>1. f.at \in Deeper
    BY <1>0 DEF Deeper
  <2>. QED BY <1>0, <1>2, <2>1, Answer
<1>4. FramesInv' /\ RootInv' /\ choices' \in Nat
  BY <1>0, <1>3, BestIsUpdated
<1>5. RestInv'
  BY <1>0, <1>1, <1>4 DEF RestInv
<1>. QED BY <1>0, <1>1, <1>4, <1>5, TableKept DEF IInv

\* The move is searched again, at its depth or with the whole window, or is done.
LEMMA AfterZeroWindowKeeps == ASSUME IInv, AfterZeroWindow PROVE IInv'
<1>0. /\ stack # <<>> /\ result # <<>> /\ f.at \in {"reduced", "full"}
      /\ UNCHANGED <<g, tt, nmpMinPly, stopped, searches>>
  BY DEF AfterZeroWindow, Answered
<1>1. RestInv /\ FramesInv /\ TableInv /\ RootInv /\ Types(f)
  BY <1>0, Known
<1>2. PICK v : v = answer
  OBVIOUS
<1>3. v \in Int /\ v \in ScoresAt(f.ply)
  <2>1. f.at \in Deeper
    BY <1>0 DEF Deeper
  <2>. QED BY <1>0, <1>2, <2>1, Answer
<1>4. \/ f.at = "reduced" /\ ZeroWindow(f, "full", f.newDepth, ~f.cutNode) /\ UNCHANGED <<pvs, rootPv, choices>>
      \/ f.PvNode /\ Pv(f, f.newDepth) /\ UNCHANGED <<rootPv, choices>>
      \/ UpdateBest(v) /\ UNCHANGED pvs
  BY <1>2 DEF AfterZeroWindow
<1>5. f.fn = "search" /\ Taking(f) /\ f.newDepth \in Int
  BY <1>0, <1>1, StillTaking DEF Types
<1>6. FramesInv' /\ RootInv' /\ choices' \in Nat
  <2>1. CASE f.at = "reduced" /\ ZeroWindow(f, "full", f.newDepth, ~f.cutNode) /\ UNCHANGED <<pvs, rootPv, choices>>
    <3>1. PICK at, d, c : at = "full" /\ d = f.newDepth /\ c = ~f.cutNode
      OBVIOUS
    <3>2. ZeroWindow(f, at, d, c) /\ at \in {"reduced", "full"} /\ d \in Int
      BY <1>5, <2>1, <3>1
    <3>3. c \in BOOLEAN
      BY <3>1
    <3>4. f.PvNode => pvs[Len(stack)] = 0
      BY <1>0, <1>1, <2>1, OnTop DEF PvOK
    <3>5. /\ pvs' \in [0..(MAX_PLY + 2) -> Nat] /\ \A i \in 1..(Len(stack) - 1) : pvs'[i] = pvs[i]
          /\ f.PvNode => pvs'[Len(stack)] = 0
      BY <1>1, <2>1, <3>4 DEF FramesInv
    <3>6. f.at # "enter"
      BY <2>1
    <3>7. FramesInv'
      BY <1>0, <1>5, <3>2, <3>3, <3>5, <3>6, ZeroCall
    <3>. QED BY <1>0, <1>1, <2>1, <3>7, RootKept DEF RestInv
  <2>2. CASE f.PvNode /\ Pv(f, f.newDepth) /\ UNCHANGED <<rootPv, choices>>
    <3>1. FramesInv'
      BY <1>0, <1>5, <2>2, PvCall
    <3>. QED BY <1>0, <1>1, <2>2, <3>1, RootKept DEF RestInv
  <2>3. CASE UpdateBest(v) /\ UNCHANGED pvs
    BY <1>0, <1>3, <2>3, BestIsUpdated
  <2>. QED BY <1>4, <2>1, <2>2, <2>3
<1>7. RestInv'
  BY <1>0, <1>1, <1>6 DEF RestInv
<1>. QED BY <1>0, <1>1, <1>6, <1>7, TableKept DEF IInv

\* Mate, stalemate or the best value is a score of this ply.
LEMMA FinishKeeps == ASSUME IInv, Finish PROVE IInv'
<1>0. /\ stack # <<>> /\ f.at \in {"loop", "done"} /\ result = <<>>
      /\ UNCHANGED <<g, pvs, rootPv, nmpMinPly, stopped, choices, searches>>
  BY DEF Finish, Running
<1>1. RestInv /\ FramesInv /\ TableInv /\ RootInv /\ IsGame(game) /\ Constants
  BY <1>0, Known
<1>2. /\ f \in Frames(game) /\ f.ply \in 0..MAX_PLY
      /\ PlyOK(f) /\ WindowOK(f) /\ BestOK(game, f) /\ MovesOK(game, f)
  BY <1>0, Known
<1>3. Types(f)
  BY <1>0, Known
<1>r. RestInv'
  BY <1>0, <1>1 DEF RestInv, Constants
<1>u. RootInv'
  BY <1>0, <1>1, RootKept
<1>s. SUFFICES FramesInv' /\ TableInv'
  BY <1>r, <1>u DEF IInv
<1>. DEFINE cut  == f.best >= f.beta /\ ~is_decisive(f.best) /\ ~is_decisive(f.alpha)
            best == IF f.count = 0
                    THEN IF f.excluded # NoMove THEN f.alpha
                         ELSE IF InCheck(f.node) THEN mated_in(f.ply) ELSE 0
                    ELSE IF cut THEN Between(f.best, f.beta, f.depth) ELSE f.best
            value == IF f.PvNode THEN Min({best, f.max}) ELSE best
            bound == IF value >= f.beta THEN BOUND_LOWER
                     ELSE IF f.PvNode /\ f.bestMove # NoMove THEN BOUND_EXACT ELSE BOUND_UPPER
            depth == IF f.count # 0 THEN f.depth ELSE Min({MAX_PLY - 1, f.depth + 6})
<1>4. /\ Return(value)
      /\ UNCHANGED tt \/ Write(f.node, value, f.ttPv, bound, depth, f.bestMove)
  BY DEF Finish
<1>5. /\ f.alpha \in Int /\ f.beta \in Int /\ f.best \in Int /\ f.max \in Int /\ f.depth \in Int
      /\ f.ply \in Nat /\ VALUE_MATE \in Nat /\ MAX_PLY \in Nat /\ VALUE_TB_WIN_IN_MAX_PLY \in Int
  BY <1>3, Bounds DEF Types
<1>6. f.fn = "search" /\ f.depth >= 0 /\ f.alpha < f.beta /\ f.ply < MAX_PLY
  BY <1>0, <1>2, <1>3 DEF PlyOK, WindowOK, Types
<1>7. best \in Int /\ best \in ScoresAt(f.ply)
  <2>1. CASE f.count = 0 /\ f.excluded # NoMove
    <3>1. f.ply > 0
      BY <1>2, <1>5, <2>1 DEF PlyOK
    <3>2. -VALUE_MATE + f.ply <= f.alpha /\ f.beta <= VALUE_MATE - (f.ply + 1)
      BY <1>0, <1>2, <1>6, <3>1 DEF WindowOK, mated_in, mate_in
    <3>3. best = f.alpha
      BY <2>1
    <3>. HIDE DEF best
    <3>. QED BY <1>5, <1>6, <3>2, <3>3 DEF ScoresAt
  <2>2. CASE f.count = 0 /\ f.excluded = NoMove
    <3>1. best = 0 \/ best = -VALUE_MATE + f.ply
      BY <2>2 DEF mated_in
    <3>. HIDE DEF best
    <3>. QED BY <1>5, <1>6, <3>1, ScoreAssumption DEF ScoresAt
  <2>3. CASE f.count # 0 /\ cut
    <3>1. best = Between(f.best, f.beta, f.depth)
      BY <2>3
    <3>2. ~is_decisive(f.best) /\ ~is_decisive(f.alpha) /\ f.beta <= f.best
      BY <1>5, <2>3
    <3>. HIDE DEF best
    <3>d. f.depth \in Nat
      BY <1>5, <1>6
    <3>3. best \in Int /\ f.beta <= best /\ best <= f.best
      BY <1>5, <3>d, <3>1, <3>2, BetweenThem
    <3>4. ~is_decisive(best)
      BY <1>5, <1>6, <3>2, <3>3 DEF is_decisive, is_win, is_loss
    <3>. QED BY <1>2, <3>3, <3>4, Undecided
  <2>4. CASE f.count # 0 /\ ~cut
    <3>1. best = f.best
      BY <2>4
    <3>2. f.count > 0
      BY <1>3, <2>4 DEF Types
    <3>. HIDE DEF best
    <3>. QED BY <1>0, <1>2, <1>5, <3>1, <3>2 DEF BestOK
  <2>. QED BY <2>1, <2>2, <2>3, <2>4
<1>. HIDE DEF best
<1>8. value \in Int /\ value \in ScoresAt(f.ply)
  <2>1. Min({best, f.max}) = IF best <= f.max THEN best ELSE f.max
    BY <1>5, <1>7, Smaller
  <2>2. f.max \in ScoresAt(f.ply) \/ f.max = VALUE_INFINITE
    BY <1>2 DEF BestOK
  <2>3. best <= VALUE_INFINITE
    BY <1>5, <1>7 DEF ScoresAt, VALUE_INFINITE
  <2>4. f.max = VALUE_INFINITE => Min({best, f.max}) = best
    BY <2>1, <2>3
  <2>. QED BY <1>5, <1>7, <2>1, <2>2, <2>4
<1>9. FramesInv'
  <2>1. Return(value)
    BY <1>4
  <2>. HIDE DEF value
  <2>. QED BY <1>0, <1>1, <1>8, <2>1, ReturnStep
<1>10. depth \in Int
  <2>1. MAX_PLY - 1 \in Int /\ f.depth + 6 \in Int
    BY <1>5
  <2>. QED BY <1>5, <2>1, Smaller
<1>11. bound \in SUBSET BOUND_EXACT
  BY DEF BOUND_EXACT, BOUND_LOWER, BOUND_UPPER
<1>12. UNCHANGED tt \/ Write(f.node, value, f.ttPv, bound, depth, f.bestMove)
  BY <1>4
<1>13. f.node \in Nodes(game) /\ f.ttPv \in BOOLEAN /\ f.bestMove \in Maybe(game)
  BY <1>3 DEF Types
<1>. HIDE DEF value, depth, bound
<1>14. TableInv'
  <2>1. CASE UNCHANGED tt
    BY <1>0, <1>1, <2>1, TableKept
  <2>2. CASE Write(f.node, value, f.ttPv, bound, depth, f.bestMove)
    BY <1>0, <1>8, <1>10, <1>11, <1>13, <2>2, WriteKeeps
  <2>. QED BY <1>12, <2>1, <2>2
<1>. QED BY <1>9, <1>14

\* A quiescence search empties its caller's list before it answers or goes on.
LEMMA EnterQuiescenceKeeps == ASSUME IInv, EnterQuiescence PROVE IInv'
<1>. DEFINE e == Probed(Found(f.node))
            static == game.eval[f.node]
            known == is_valid(e.value) /\ ~is_decisive(e.value) /\ Supports(e, e.value, static + 1)
            best == IF InCheck(f.node) THEN -VALUE_INFINITE ELSE IF known THEN e.value ELSE static
            A == Max({f.alpha, best})
            Q == Picked(IF InCheck(f.node) THEN game.moves[f.node] ELSE game.captures[f.node], e.move)
            X == [f EXCEPT !.best = best, !.alpha = A, !.tt = e, !.at = "qloop", !.left = Q]
            T == IF f.PvNode THEN WithLine(stack, pvs[f.ply], <<>>) ELSE stack
            Leaves(v) == stack' = Front(T) /\ result' = <<[frame |-> f, value |-> v]>>
<1>0. /\ stack # <<>> /\ result = <<>> /\ f.at = "enter" /\ f.fn = "qsearch"
      /\ UNCHANGED <<g, tt, rootPv, nmpMinPly, stopped, choices, searches>>
      /\ pvs' = IF f.PvNode THEN [pvs EXCEPT ![f.ply + 1] = Len(stack)] ELSE pvs
      /\ \/ \E v \in {static, 0} : Leaves(v)
         \/ is_valid(e.value) /\ Leaves(e.value)
         \/ best >= f.beta /\ is_decisive(best) /\ Leaves(best)
         \/ best >= f.beta /\ ~is_decisive(best) /\ Leaves(Between(best, f.beta, 1))
         \/ f.ply < MAX_PLY /\ ~(best >= f.beta) /\ stack' = Append(Front(T), X) /\ result' = <<>>
  <2>1. /\ stack # <<>> /\ result = <<>> /\ f.at = "enter" /\ f.fn = "qsearch"
        /\ UNCHANGED <<g, tt, rootPv, nmpMinPly, stopped, choices, searches>>
        /\ pvs' = IF f.PvNode THEN [pvs EXCEPT ![f.ply + 1] = Len(stack)] ELSE pvs
    BY DEF EnterQuiescence, Running
  <2>2. \/ \E v \in {static, 0} : Leaves(v)
        \/ is_valid(e.value) /\ Leaves(e.value)
        \/ best >= f.beta /\ is_decisive(best) /\ Leaves(best)
        \/ best >= f.beta /\ ~is_decisive(best) /\ Leaves(Between(best, f.beta, 1))
        \/ ~(f.ply >= MAX_PLY) /\ ~(best >= f.beta) /\ stack' = Append(Front(T), X) /\ result' = <<>>
    BY DEF EnterQuiescence, WithLine
  <2>3. ~(f.ply >= MAX_PLY) => f.ply < MAX_PLY
    BY <2>1, Known, ScoreAssumption
  <2>. QED BY <2>1, <2>2, <2>3
<1>1. RestInv /\ FramesInv /\ TableInv /\ RootInv /\ IsGame(game) /\ Constants
  BY <1>0, Known
<1>2. /\ f \in Frames(game) /\ f.ply \in 0..MAX_PLY
      /\ PlyOK(f) /\ WindowOK(f) /\ BestOK(game, f) /\ MovesOK(game, f)
  BY <1>0, Known
<1>3. Types(f)
  BY <1>0, Known
<1>r. RestInv'
  BY <1>0, <1>1 DEF RestInv
<1>u. TableInv' /\ RootInv'
  BY <1>0, <1>1, TableKept, RootKept
<1>s. SUFFICES FramesInv'
  BY <1>r, <1>u DEF IInv
<1>4. /\ f.ply \in Nat /\ f.ply > 0 /\ f.alpha \in Int /\ f.beta \in Int /\ f.node \in Nodes(game)
      /\ f.count \in Nat /\ f.alpha < f.beta
  BY <1>0, <1>2, <1>3 DEF PlyOK, WindowOK, Types
<1>5. /\ e \in Entries(game) /\ e.value \in Int /\ (is_valid(e.value) => e.value \in ScoresAt(f.ply))
      /\ static \in Int /\ static \in ScoresAt(f.ply)
  <2>1. Found(f.node) \in {Found(f.node), NoEntry}
    OBVIOUS
  <2>. QED BY <1>0, <2>1, Known, ProbedHere
<1>6. VALUE_INFINITE \in Int /\ -VALUE_INFINITE < f.beta
  <2>1. VALUE_INFINITE \in Int
    BY ScoreAssumption DEF VALUE_INFINITE
  <2>2. -VALUE_INFINITE <= f.alpha
    BY <1>2 DEF WindowOK
  <2>. QED BY <1>4, <2>1, <2>2
<1>7. best \in Int /\ (best = -VALUE_INFINITE \/ best \in ScoresAt(f.ply))
      /\ (f.node \notin game.check => best \in ScoresAt(f.ply))
  <2>1. best = -VALUE_INFINITE \/ (is_valid(e.value) /\ best = e.value) \/ best = static
    OBVIOUS
  <2>2. f.node \notin game.check => (is_valid(e.value) /\ best = e.value) \/ best = static
    BY DEF InCheck
  <2>. HIDE DEF best, e, static
  <2>. QED BY <1>5, <1>6, <2>1, <2>2
<1>8. A \in Int /\ f.alpha <= A /\ (A = f.alpha \/ A = best)
  <2>1. A = IF f.alpha >= best THEN f.alpha ELSE best
    BY <1>4, <1>7, Larger
  <2>. HIDE DEF A, best
  <2>. QED BY <1>4, <1>7, <2>1
<1>9. Q \in Seq(Nodes(game)) /\ Range(Q) \subseteq Range(game.moves[f.node])
  <2>1. /\ game.moves[f.node] \in Seq(Nodes(game)) /\ game.captures[f.node] \in Seq(Nodes(game))
        /\ Range(game.captures[f.node]) \subseteq Range(game.moves[f.node])
    BY <1>1, <1>4, Moves
  <2>2. PICK all, m : all = (IF InCheck(f.node) THEN game.moves[f.node] ELSE game.captures[f.node]) /\ m = e.move
    OBVIOUS
  <2>3. all \in Seq(Nodes(game)) /\ Range(all) \subseteq Range(game.moves[f.node])
    BY <2>1, <2>2
  <2>4. Q = Picked(all, m)
    BY <2>2
  <2>. HIDE DEF Q
  <2>. QED BY <1>1, <1>4, <2>3, <2>4, PickedMoves
<1>10. PICK t : t = T
  OBVIOUS
<1>11. Rewritten(t) /\ Settled(game, t, Len(stack))
  <2>1. CASE f.PvNode
    <3>1. PICK K : K = <<>>
      OBVIOUS
    <3>2. K \in Seq(Nodes(game)) /\ LineOf(game, f.node, K)
      BY <3>1 DEF LineOf
    <3>3. t = WithLine(stack, pvs[f.ply], K)
      BY <1>10, <2>1, <3>1
    <3>. QED BY <1>0, <1>1, <1>4, <2>1, <3>2, <3>3, Writes
  <2>2. CASE ~f.PvNode
    <3>1. t = stack
      BY <1>10, <2>2
    <3>2. f = stack[Len(stack)]
      BY <1>0, <1>1, OnTop
    <3>3. Settled(game, stack, Len(stack))
      BY <2>2, <3>2 DEF Settled
    <3>. QED BY <1>0, <1>1, <3>1, <3>3, Unwritten
  <2>. QED BY <2>1, <2>2
<1>12. /\ pvs' \in [0..(MAX_PLY + 2) -> Nat] /\ \A i \in 1..(Len(stack) - 1) : pvs'[i] = pvs[i]
       /\ f.PvNode => pvs'[Len(stack)] = Len(stack)
  <2>1. pvs \in [0..(MAX_PLY + 2) -> Nat]
    BY <1>1 DEF FramesInv
  <2>2. CASE f.PvNode
    <3>1. f.ply + 1 = Len(stack)
      BY <1>0, <1>1, <2>2, OnTop DEF PvOK
    <3>2. Len(stack) \in 0..(MAX_PLY + 2) /\ Len(stack) \in Nat
      BY <1>1, <1>2, <3>1 DEF Constants
    <3>3. pvs' = [pvs EXCEPT ![Len(stack)] = Len(stack)]
      BY <1>0, <2>2, <3>1
    <3>. QED BY <2>1, <3>2, <3>3
  <2>3. CASE ~f.PvNode
    BY <1>0, <2>1, <2>3
  <2>. QED BY <2>2, <2>3
<1>13. ASSUME NEW v, v \in Int, v \in ScoresAt(f.ply), Leaves(v) PROVE FramesInv'
  <2>1. stack' = Front(t) /\ result'[1].value = v
    BY <1>10, <1>13
  <2>. HIDE DEF T
  <2>. QED BY <1>0, <1>1, <1>11, <1>12, <1>13, <2>1, GoBack
<1>14. PICK b, a, q, d : b = best /\ a = A /\ q = Q /\ d = e
  OBVIOUS
<1>15. /\ b \in Int /\ (b = -VALUE_INFINITE \/ b \in ScoresAt(f.ply))
       /\ (f.node \notin game.check => b \in ScoresAt(f.ply))
       /\ a \in Int /\ f.alpha <= a /\ (a = f.alpha \/ a = b)
       /\ q \in Seq(Nodes(game)) /\ Range(q) \subseteq Range(game.moves[f.node]) /\ d \in Entries(game)
  BY <1>5, <1>7, <1>8, <1>9, <1>14
<1>16. X = [f EXCEPT !.best = b, !.alpha = a, !.tt = d, !.at = "qloop", !.left = q]
  BY <1>14
<1>17. /\ e.value = d.value /\ best = b
       /\ \/ \E v \in {static, 0} : Leaves(v)
          \/ is_valid(d.value) /\ Leaves(d.value)
          \/ b >= f.beta /\ is_decisive(b) /\ Leaves(b)
          \/ b >= f.beta /\ ~is_decisive(b) /\ Leaves(Between(b, f.beta, 1))
          \/ f.ply < MAX_PLY /\ ~(b >= f.beta) /\ stack' = Append(Front(t), X) /\ result' = <<>>
  BY <1>0, <1>10, <1>14
<1>. HIDE DEF e, best, A, Q
<1>18. CASE \E v \in {static, 0} : Leaves(v)
  <2>1. PICK v \in {static, 0} : Leaves(v)
    BY <1>18
  <2>2. 0 \in ScoresAt(f.ply)
    BY <1>2, ScoreAssumption DEF ScoresAt
  <2>3. v \in Int /\ v \in ScoresAt(f.ply)
    BY <1>5, <2>2
  <2>. HIDE DEF Leaves
  <2>. QED BY <1>13, <2>1, <2>3
<1>19. CASE is_valid(d.value) /\ Leaves(d.value)
  <2>1. d.value \in Int /\ d.value \in ScoresAt(f.ply)
    BY <1>5, <1>17, <1>19
  <2>. HIDE DEF Leaves
  <2>. QED BY <1>13, <1>19, <2>1
<1>20. CASE b >= f.beta /\ is_decisive(b) /\ Leaves(b)
  <2>1. b # -VALUE_INFINITE
    BY <1>4, <1>6, <1>15, <1>20
  <2>2. b \in Int /\ b \in ScoresAt(f.ply)
    BY <1>15, <2>1
  <2>. HIDE DEF Leaves
  <2>. QED BY <1>13, <1>20, <2>2
<1>21. CASE b >= f.beta /\ ~is_decisive(b) /\ Leaves(Between(b, f.beta, 1))
  <2>1. PICK v : v = Between(b, f.beta, 1)
    OBVIOUS
  <2>2. Leaves(v)
    BY <1>21, <2>1
  <2>3. ~is_decisive(b) /\ f.beta <= b
    BY <1>4, <1>15, <1>21
  <2>4. v \in Int /\ v \in ScoresAt(f.ply)
    BY <1>2, <1>4, <1>6, <1>15, <2>1, <2>3, Middle
  <2>. HIDE DEF Leaves
  <2>. QED BY <1>13, <2>2, <2>4
<1>22. CASE f.ply < MAX_PLY /\ ~(b >= f.beta) /\ stack' = Append(Front(t), X) /\ result' = <<>>
  <2>t. "qloop" \in Places
    BY DEF Places
  <2>. DEFINE x == [f EXCEPT !.best = b, !.alpha = a, !.tt = d, !.at = "qloop", !.left = q]
  <2>m. x \in Frames(game)
    BY <1>2, <1>15, <2>t, Fields, Zenon
  <2>a. /\ x.fn = f.fn /\ x.node = f.node /\ x.ply = f.ply /\ x.PvNode = f.PvNode /\ x.alpha = a
       /\ x.beta = f.beta /\ x.depth = f.depth /\ x.cutNode = f.cutNode /\ x.isNull = f.isNull
       /\ x.at = "qloop" /\ x.best = b /\ x.max = f.max /\ x.left = q /\ x.count = f.count
       /\ x.move = f.move /\ x.nullValue = f.nullValue /\ x.line = f.line /\ x.excluded = f.excluded
    BY <1>2 DEF Frames
  <2>z. stack' = Append(Front(t), x) /\ result' = <<>>
    BY <1>16, <1>22
  <2>. HIDE DEF x, X, Leaves
  <2>p. PlyOK(x)
    BY <1>0, <1>2, <1>4, <1>22, <2>a DEF PlyOK
  <2>w. WindowOK(x)
    <3>1. a < f.beta /\ -VALUE_INFINITE <= a /\ f.beta <= VALUE_INFINITE
      <4>1. -VALUE_INFINITE <= f.alpha /\ f.beta <= VALUE_INFINITE
        BY <1>2 DEF WindowOK
      <4>2. b < f.beta
        BY <1>4, <1>15, <1>22
      <4>. QED BY <1>4, <1>6, <1>15, <4>1, <4>2
    <3>. QED BY <1>0, <2>a, <3>1 DEF WindowOK
  <2>b. BestOK(game, x)
    BY <1>0, <1>2, <1>15, <2>a DEF BestOK
  <2>v. MovesOK(game, x)
    BY <1>2, <1>15, <2>a DEF MovesOK
  <2>k. FrameOK(game, x) /\ SameCall(f, x)
    BY <1>0, <2>a, <2>p, <2>w, <2>b, <2>v DEF FrameOK, SameCall
  <2>1. /\ t \in Seq(Frames(game)) /\ Len(t) = Len(stack) /\ t # <<>>
    BY <1>0, <1>1, <1>11, OnTop DEF Rewritten
  <2>2. /\ stack' \in Seq(Frames(game)) /\ Len(stack') = Len(stack) /\ stack'[Len(stack)] = x
        /\ \A i \in 1..(Len(stack) - 1) : stack'[i] = t[i]
    <3>. DEFINE s == Append(Front(t), x)
    <3>1. /\ s \in Seq(Frames(game)) /\ Len(s) = Len(t) /\ s[Len(t)] = x
          /\ \A i \in 1..(Len(t) - 1) : s[i] = t[i]
      BY <2>1, <2>m, TopOf
    <3>2. stack' = s
      BY <2>z
    <3>. HIDE DEF s
    <3>. QED BY <2>1, <3>1, <3>2
  <2>3. x.at \notin {"reduced", "full", "pv", "quiet"} /\ (x.PvNode => pvs'[Len(stack)] = Len(stack))
    BY <1>12, <2>a
  <2>. QED BY <1>0, <1>1, <1>11, <1>12, <2>2, <2>3, <2>m, <2>k, <2>z, GoOn
<1>. QED BY <1>17, <1>18, <1>19, <1>20, <1>21, <1>22

\* A pruned capture counts, and the best value is a score by then.
LEMMA PruneCaptureKeeps == ASSUME IInv, PruneCapture PROVE IInv'
<1>0. /\ stack # <<>> /\ f.at = "qloop" /\ result = <<>> /\ f.left # <<>> /\ ~is_loss(f.best)
      /\ UNCHANGED choices \/ Choose
      /\ UNCHANGED <<g, tt, pvs, rootPv, nmpMinPly, stopped, searches>>
  BY DEF PruneCapture, Running
<1>1. RestInv /\ FramesInv /\ TableInv /\ RootInv /\ IsGame(game) /\ Constants
  BY <1>0, Known
<1>2. /\ f \in Frames(game) /\ f.ply \in 0..MAX_PLY
      /\ PlyOK(f) /\ WindowOK(f) /\ BestOK(game, f) /\ MovesOK(game, f)
  BY <1>0, Known
<1>3. Types(f)
  BY <1>0, Known
<1>r. RestInv'
  BY <1>0, <1>1 DEF RestInv, Constants, Choose
<1>u. TableInv' /\ RootInv'
  BY <1>0, <1>1, TableKept, RootKept
<1>s. SUFFICES FramesInv'
  BY <1>r, <1>u DEF IInv
<1>4. Tail(f.left) \in Seq(Nodes(game)) /\ Range(Tail(f.left)) \subseteq Range(game.moves[f.node])
  BY <1>0, Upcoming
<1>. DEFINE l == Tail(f.left)
            c == f.count + 1
            base == game.eval[f.node] + Margin
            raised == Max({f.best, Min({f.alpha, base})})
<1>5. PICK b : /\ b = f.best \/ b = raised
               /\ \/ With([Skip EXCEPT !.count = @ + 1]) /\ b = f.best
                  \/ With([Skip EXCEPT !.count = @ + 1, !.best = b])
  BY DEF PruneCapture
<1>6. /\ f.best \in Int /\ f.alpha \in Int /\ f.count \in Nat /\ VALUE_TB_WIN_IN_MAX_PLY \in Int
      /\ game.eval[f.node] \in Int /\ ~is_decisive(game.eval[f.node])
  BY <1>0, <1>3, Known, Bounds DEF Types
<1>7. b \in Int /\ b \in ScoresAt(f.ply)
  <2>0. f.best \in ScoresAt(f.ply)
    <3>1. f.best # -VALUE_INFINITE
      BY <1>0, Bounds DEF is_loss, VALUE_INFINITE
    <3>. QED BY <1>2, <3>1 DEF BestOK
  <2>1. CASE b = f.best
    BY <1>6, <2>0, <2>1
  <2>2. CASE b = raised /\ b # f.best
    <3>1. base \in Int /\ base = game.eval[f.node] + 1
      BY <1>6 DEF Margin
    <3>. HIDE DEF base
    <3>2. Min({f.alpha, base}) = IF f.alpha <= base THEN f.alpha ELSE base
      BY <1>6, <3>1, Smaller
    <3>3. Min({f.alpha, base}) \in Int /\ Min({f.alpha, base}) <= base
      BY <1>6, <3>1, <3>2
    <3>4. raised = IF f.best >= Min({f.alpha, base}) THEN f.best ELSE Min({f.alpha, base})
      BY <1>6, <3>3, Larger
    <3>5. b \in Int /\ b > f.best /\ b <= game.eval[f.node] + 1
      BY <1>6, <2>2, <3>1, <3>3, <3>4
    <3>6. ~is_win(b - 2) /\ ~is_loss(b + 2)
      BY <1>0, <1>6, <3>5 DEF is_decisive, is_win, is_loss
    <3>. QED BY <1>2, <3>5, <3>6, Ordinary
  <2>. QED BY <1>5, <2>1, <2>2
<1>8. l \in Seq(Nodes(game)) /\ c \in Nat /\ c > 0 /\ b \in Int
  BY <1>4, <1>6, <1>7
<1>9. With([f EXCEPT !.left = l, !.count = c, !.best = b])
  <2>1. [Skip EXCEPT !.count = @ + 1, !.best = b] = [f EXCEPT !.left = l, !.count = c, !.best = b]
    BY <1>2 DEF Skip, Frames
  <2>2. b = f.best => [Skip EXCEPT !.count = @ + 1] = [f EXCEPT !.left = l, !.count = c, !.best = b]
    BY <1>2 DEF Skip, Frames
  <2>. HIDE DEF l, c, raised
  <2>. QED BY <1>5, <2>1, <2>2
<1>. HIDE DEF l, c, base, raised
<1>. DEFINE x == [f EXCEPT !.left = l, !.count = c, !.best = b]
<1>m. x \in Frames(game)
  BY <1>2, <1>8, Fields, Zenon
<1>a. /\ x.fn = f.fn /\ x.node = f.node /\ x.ply = f.ply /\ x.PvNode = f.PvNode /\ x.alpha = f.alpha
     /\ x.beta = f.beta /\ x.depth = f.depth /\ x.cutNode = f.cutNode /\ x.isNull = f.isNull
     /\ x.at = f.at /\ x.best = b /\ x.max = f.max /\ x.left = l /\ x.count = c /\ x.move = f.move
     /\ x.nullValue = f.nullValue /\ x.line = f.line /\ x.excluded = f.excluded
  BY <1>2 DEF Frames
<1>z. With(x)
  BY <1>9
<1>. HIDE DEF x
<1>p. PlyOK(x)
  BY <1>0, <1>2, <1>a DEF PlyOK
<1>w. WindowOK(x)
  BY <1>0, <1>2, <1>a DEF WindowOK
<1>b. BestOK(game, x)
  BY <1>0, <1>2, <1>a, <1>7, <1>8 DEF BestOK
<1>v. MovesOK(game, x)
  BY <1>0, <1>2, <1>a, <1>4 DEF MovesOK, l
<1>k. FrameOK(game, x) /\ SameCall(f, x)
  BY <1>0, <1>a, <1>p, <1>w, <1>b, <1>v DEF FrameOK, SameCall
<1>. QED BY <1>0, <1>1, <1>2, <1>m, <1>a, <1>z, <1>k, WithStep

\* A capture is searched with the whole window, of a PV node as one.
LEMMA MakeCaptureKeeps == ASSUME IInv, MakeCapture PROVE IInv'
<1>0. /\ stack # <<>> /\ f.at = "qloop" /\ result = <<>> /\ f.left # <<>>
      /\ UNCHANGED <<g, tt, pvs, rootPv, nmpMinPly, stopped, choices, searches>>
  BY DEF MakeCapture, Running
<1>1. RestInv /\ FramesInv /\ TableInv /\ RootInv /\ IsGame(game) /\ Constants
  BY <1>0, Known
<1>2. /\ f \in Frames(game) /\ f.ply \in 0..MAX_PLY
      /\ PlyOK(f) /\ WindowOK(f) /\ BestOK(game, f) /\ MovesOK(game, f)
  BY <1>0, Known
<1>3. Types(f)
  BY <1>0, Known
<1>r. RestInv'
  BY <1>0, <1>1 DEF RestInv, Constants
<1>u. TableInv' /\ RootInv'
  BY <1>0, <1>1, TableKept, RootKept
<1>s. SUFFICES FramesInv'
  BY <1>r, <1>u DEF IInv
<1>. DEFINE p == f.ply + 1
            a == -f.beta
            b == -f.alpha
            l == Tail(f.left)
            m == next
            k == f.count + 1
            y == Frame("qsearch", m, After(m), p, f.PvNode, a, b, 0, FALSE)
<1>4. /\ m \in Range(game.moves[f.node]) /\ m \in Nodes(game) /\ m \in Maybe(game)
      /\ l \in Seq(Nodes(game)) /\ Range(l) \subseteq Range(game.moves[f.node])
      /\ After(m) \in Nat
  <2>1. After(m) \in Nat
    BY <1>0, AfterIsACount
  <2>2. /\ next \in Range(game.moves[f.node]) /\ next \in Nodes(game) /\ next \in Maybe(game)
        /\ Tail(f.left) \in Seq(Nodes(game)) /\ Range(Tail(f.left)) \subseteq Range(game.moves[f.node])
    BY <1>0, Upcoming
  <2>. QED BY <2>1, <2>2
<1>5. k \in Nat /\ k > 0 /\ f.PvNode \in BOOLEAN
  <2>1. f.count \in Nat /\ f.PvNode \in BOOLEAN
    BY <1>3 DEF Types
  <2>2. k \in Nat /\ k > 0
    BY <2>1
  <2>. QED BY <2>1, <2>2
<1>6. /\ a \in Int /\ b \in Int /\ p \in Nat /\ p <= MAX_PLY /\ p # 0
      /\ -VALUE_INFINITE <= a /\ a < b /\ b <= VALUE_INFINITE
  <2>1. f.ply \in Nat
    BY <1>3 DEF Types
  <2>. QED BY <1>0, <2>1, CalledWindow
<1>7. Call([f EXCEPT !.left = l, !.move = m, !.count = k, !.at = "quiet"], y)
  <2>1. Call([Taken EXCEPT !.at = "quiet"], y)
    BY DEF MakeCapture, QChild
  <2>2. [Taken EXCEPT !.at = "quiet"] = [f EXCEPT !.left = l, !.move = m, !.count = k, !.at = "quiet"]
    BY <1>2 DEF Taken, Skip, Frames
  <2>. QED BY <2>1, <2>2
<1>8. f.fn = "qsearch"
  BY <1>0, <1>2 DEF PlyOK
<1>9. p = f.ply + 1
  OBVIOUS
<1>10. f.PvNode => pvs[Len(stack)] = Len(stack)
  BY <1>0, <1>1, OnTop DEF PvOK
<1>11. l \in Seq(Nodes(game)) /\ k \in Nat
  BY <1>4, <1>5
<1>. HIDE DEF a, b, p, l, m, k
<1>fy. CanCall("qsearch", m, After(m), p, f.PvNode, a, b, 0, FALSE)
  BY <1>4, <1>5, <1>6 DEF CanCall
<1>y. /\ y \in Frames(game) /\ FrameOK(game, y)
      /\ y.fn = "qsearch" /\ y.node = m /\ y.ply = p /\ y.PvNode = f.PvNode /\ y.at = "enter"
  <2>1. PICK s1, v1, c1 : s1 = "qsearch" /\ v1 = f.PvNode /\ c1 = FALSE
    OBVIOUS
  <2>2. CanCall(s1, m, After(m), p, v1, a, b, 0, c1) /\ y = Frame(s1, m, After(m), p, v1, a, b, 0, c1)
    BY <1>fy, <2>1
  <2>. HIDE DEF y
  <2>3. /\ y \in Frames(game) /\ FrameOK(game, y)
        /\ y.fn = s1 /\ y.node = m /\ y.ply = p /\ y.PvNode = v1 /\ y.at = "enter"
    BY <1>1, <2>2, Fresh
  <2>. QED BY <2>1, <2>3
<1>t. "quiet" \in Places
  BY DEF Places
<1>. DEFINE x == [f EXCEPT !.left = l, !.move = m, !.count = k, !.at = "quiet"]
<1>m. x \in Frames(game)
  BY <1>2, <1>4, <1>11, <1>t, Fields, Zenon
<1>a. /\ x.fn = f.fn /\ x.node = f.node /\ x.ply = f.ply /\ x.PvNode = f.PvNode /\ x.alpha = f.alpha
     /\ x.beta = f.beta /\ x.depth = f.depth /\ x.cutNode = f.cutNode /\ x.isNull = f.isNull
     /\ x.at = "quiet" /\ x.best = f.best /\ x.max = f.max /\ x.left = l /\ x.count = k
     /\ x.move = m /\ x.nullValue = f.nullValue /\ x.line = f.line /\ x.excluded = f.excluded
  BY <1>2 DEF Frames
<1>z. Call(x, y)
  BY <1>7
<1>. HIDE DEF x, y
<1>p. PlyOK(x)
  BY <1>0, <1>2, <1>a DEF PlyOK
<1>w. WindowOK(x)
  BY <1>0, <1>2, <1>a DEF WindowOK
<1>b. BestOK(game, x)
  BY <1>0, <1>2, <1>a, <1>5 DEF BestOK
<1>v. MovesOK(game, x)
  BY <1>0, <1>2, <1>a, <1>4 DEF MovesOK
<1>k. FrameOK(game, x) /\ SameCall(f, x)
  BY <1>0, <1>a, <1>p, <1>w, <1>b, <1>v DEF FrameOK, SameCall
<1>c. CallOK(x, y)
  BY <1>0, <1>2, <1>a, <1>y, <1>9 DEF CallOK, Calls, Deeper, PlyOK
<1>q. pvs' \in [0..(MAX_PLY + 2) -> Nat] /\ \A i \in 1..(Len(stack) - 1) : pvs'[i] = pvs[i]
  BY <1>0, <1>1 DEF FramesInv
<1>. QED BY <1>0, <1>1, <1>2, <1>m, <1>a, <1>y, <1>z, <1>k, <1>c, <1>q, CallStep, <1>10

\* The best value only rises, and a better line is handed over.
LEMMA AfterCaptureKeeps == ASSUME IInv, AfterCapture PROVE IInv'
<1>. DEFINE L == <<f.move>> \o List(stack, f.ply + 1)
            raises == answer > f.best /\ answer > f.alpha
            B == Max({f.best, answer})
            M == IF raises THEN f.move ELSE f.bestMove
            A == IF raises /\ answer < f.beta THEN answer ELSE f.alpha
            P == IF raises /\ answer >= f.beta THEN "qdone" ELSE "qloop"
            X == [f EXCEPT !.best = B, !.bestMove = M, !.alpha = A, !.at = P]
<1>0. /\ stack # <<>> /\ result # <<>> /\ f.at = "quiet"
      /\ UNCHANGED <<g, tt, pvs, rootPv, nmpMinPly, stopped, choices, searches>>
      /\ With(X) \/ (f.PvNode /\ Hand(X, L))
  BY DEF AfterCapture, Answered, With, Hand, WithLine
<1>1. RestInv /\ FramesInv /\ TableInv /\ RootInv /\ IsGame(game) /\ Constants
  BY <1>0, Known
<1>2. /\ f \in Frames(game) /\ f.ply \in 0..MAX_PLY
      /\ PlyOK(f) /\ WindowOK(f) /\ BestOK(game, f) /\ MovesOK(game, f)
  BY <1>0, Known
<1>3. Types(f)
  BY <1>0, Known
<1>r. RestInv'
  BY <1>0, <1>1 DEF RestInv
<1>u. TableInv' /\ RootInv'
  BY <1>0, <1>1, TableKept, RootKept
<1>s. SUFFICES FramesInv'
  BY <1>r, <1>u DEF IInv
<1>4. /\ f.fn = "qsearch" /\ f.count > 0 /\ f.ply \in Nat /\ f.alpha \in Int /\ f.beta \in Int /\ f.best \in Int
      /\ f.move \in Maybe(game) /\ f.bestMove \in Maybe(game) /\ f.ply > 0
  BY <1>0, <1>1, <1>2, <1>3 DEF PlyOK, BestOK, Types
<1>5. answer \in Int /\ answer \in ScoresAt(f.ply)
  <2>1. f.at \in Deeper
    BY <1>0 DEF Deeper
  <2>. QED BY <1>0, <2>1, Answer
<1>6. B \in Int /\ B \in ScoresAt(f.ply)
  <2>1. B = IF f.best >= answer THEN f.best ELSE answer
    BY <1>4, <1>5, Larger
  <2>2. f.best = -VALUE_INFINITE => B = answer
    <3>1. VALUE_INFINITE \in Int /\ -VALUE_INFINITE < answer
      BY <1>1, <1>4, <1>5, ScoreAssumption DEF ScoresAt, VALUE_INFINITE
    <3>. HIDE DEF B
    <3>. QED BY <1>4, <1>5, <2>1, <3>1
  <2>. QED BY <1>2, <1>4, <1>5, <2>1, <2>2 DEF BestOK
<1>7. A \in Int /\ f.alpha <= A /\ A < f.beta
  <2>1. f.alpha < f.beta
    BY <1>2 DEF WindowOK
  <2>2. CASE raises /\ answer < f.beta
    BY <1>4, <1>5, <2>2
  <2>3. CASE ~(raises /\ answer < f.beta)
    <3>1. A = f.alpha
      BY <2>3
    <3>. QED BY <1>4, <2>1, <3>1
  <2>. QED BY <2>2, <2>3
<1>8. M \in Maybe(game) /\ P \in Places /\ P \in {"qdone", "qloop"}
  BY <1>4 DEF Places
<1>9. PICK b, m, a, p : b = B /\ m = M /\ a = A /\ p = P
  OBVIOUS
<1>10. /\ b \in Int /\ b \in ScoresAt(f.ply) /\ a \in Int /\ f.alpha <= a /\ a < f.beta /\ m \in Maybe(game)
       /\ p \in Places /\ p \in {"qdone", "qloop"}
  BY <1>6, <1>7, <1>8, <1>9
<1>11. X = [f EXCEPT !.best = b, !.bestMove = m, !.alpha = a, !.at = p]
  BY <1>9
<1>. DEFINE x == [f EXCEPT !.best = b, !.bestMove = m, !.alpha = a, !.at = p]
<1>m. x \in Frames(game)
  BY <1>2, <1>10, Fields, Zenon
<1>a. /\ x.fn = f.fn /\ x.node = f.node /\ x.ply = f.ply /\ x.PvNode = f.PvNode /\ x.alpha = a
     /\ x.beta = f.beta /\ x.depth = f.depth /\ x.cutNode = f.cutNode /\ x.isNull = f.isNull
     /\ x.at = p /\ x.best = b /\ x.max = f.max /\ x.left = f.left /\ x.count = f.count
     /\ x.move = f.move /\ x.nullValue = f.nullValue /\ x.line = f.line /\ x.excluded = f.excluded
  BY <1>2 DEF Frames
<1>z. With(x) \/ (f.PvNode /\ Hand(x, L))
  BY <1>0, <1>11
<1>. HIDE DEF x
<1>p. PlyOK(x)
  BY <1>0, <1>2, <1>4, <1>10, <1>a DEF PlyOK
<1>w. WindowOK(x)
  <2>1. -VALUE_INFINITE <= a /\ VALUE_INFINITE \in Int
    <3>1. VALUE_INFINITE \in Int
      BY <1>1, ScoreAssumption DEF VALUE_INFINITE
    <3>2. -VALUE_INFINITE <= f.alpha
      BY <1>2 DEF WindowOK
    <3>. QED BY <1>4, <1>10, <3>1, <3>2
  <2>. QED BY <1>2, <1>4, <1>10, <1>a, <2>1 DEF WindowOK
<1>b. BestOK(game, x)
  BY <1>0, <1>2, <1>4, <1>10, <1>a DEF BestOK
<1>v. MovesOK(game, x)
  BY <1>2, <1>10, <1>a DEF MovesOK
<1>k. FrameOK(game, x) /\ SameCall(f, x)
  BY <1>0, <1>a, <1>p, <1>w, <1>b, <1>v DEF FrameOK, SameCall
<1>12. CASE With(x)
  BY <1>0, <1>1, <1>2, <1>10, <1>m, <1>a, <1>k, <1>12, WithStep
<1>13. CASE f.PvNode /\ Hand(x, L)
  <2>1. PICK l : l = L
    OBVIOUS
  <2>2. l \in Seq(Nodes(game)) /\ LineOf(game, f.node, l)
    BY <1>0, <1>13, <2>1, BestLine
  <2>3. Hand(x, l)
    BY <1>13, <2>1
  <2>. HIDE DEF L
  <2>. QED BY <1>0, <1>1, <1>4, <1>10, <1>m, <1>a, <1>k, <1>13, <2>2, <2>3, HandsOver
<1>. QED BY <1>z, <1>12, <1>13

\* Mate, stalemate or the best value is a score of this ply.
LEMMA FinishQuiescenceKeeps == ASSUME IInv, FinishQuiescence PROVE IInv'
<1>0. /\ stack # <<>> /\ f.at \in {"qloop", "qdone"} /\ result = <<>>
      /\ UNCHANGED <<g, pvs, rootPv, nmpMinPly, stopped, choices, searches>>
  BY DEF FinishQuiescence, Running
<1>1. RestInv /\ FramesInv /\ TableInv /\ RootInv /\ IsGame(game) /\ Constants
  BY <1>0, Known
<1>2. /\ f \in Frames(game) /\ f.ply \in 0..MAX_PLY
      /\ PlyOK(f) /\ WindowOK(f) /\ BestOK(game, f) /\ MovesOK(game, f)
  BY <1>0, Known
<1>3. Types(f)
  BY <1>0, Known
<1>r. RestInv'
  BY <1>0, <1>1 DEF RestInv, Constants
<1>u. RootInv'
  BY <1>0, <1>1, RootKept
<1>s. SUFFICES FramesInv' /\ TableInv'
  BY <1>r, <1>u DEF IInv
<1>5. /\ f.alpha \in Int /\ f.beta \in Int /\ f.best \in Int
      /\ f.ply \in Nat /\ VALUE_MATE \in Nat /\ MAX_PLY \in Nat /\ VALUE_TB_WIN_IN_MAX_PLY \in Int
  BY <1>3, Bounds DEF Types
<1>6. f.ply < MAX_PLY /\ -VALUE_INFINITE < f.beta
  <2>1. f.ply < MAX_PLY
    BY <1>0, <1>2 DEF PlyOK
  <2>2. -VALUE_INFINITE <= f.alpha /\ f.alpha < f.beta
    BY <1>2 DEF WindowOK
  <2>. QED BY <1>5, <2>1, <2>2 DEF VALUE_INFINITE
<1>7. CASE f.count = 0 /\ InCheck(f.node)
  <2>1. Return(mated_in(f.ply)) /\ UNCHANGED tt
    BY <1>7 DEF FinishQuiescence
  <2>2. mated_in(f.ply) \in Int /\ mated_in(f.ply) \in ScoresAt(f.ply)
    BY <1>5, <1>6, ScoreAssumption DEF mated_in, ScoresAt
  <2>3. TableInv'
    BY <1>0, <1>1, <2>1, TableKept
  <2>. QED BY <1>0, <1>1, <2>1, <2>2, <2>3, ReturnStep
<1>8. CASE ~(f.count = 0 /\ InCheck(f.node))
  <2>1. PICK best \in {f.best} \cup {0} :
          LET value == IF ~is_decisive(best) /\ best > f.beta THEN Between(best, f.beta, 1) ELSE best
          IN  /\ Return(value)
              /\ Write(f.node, value, f.tt.pv, IF value >= f.beta THEN BOUND_LOWER ELSE BOUND_UPPER,
                       DEPTH_QS, f.bestMove)
    BY <1>8 DEF FinishQuiescence
  <2>. DEFINE value == IF ~is_decisive(best) /\ best > f.beta THEN Between(best, f.beta, 1) ELSE best
              bound == IF value >= f.beta THEN BOUND_LOWER ELSE BOUND_UPPER
  <2>2. best \in Int /\ best \in ScoresAt(f.ply)
    <3>1. f.best \in ScoresAt(f.ply)
      <4>1. f.count > 0 \/ f.node \notin game.check
        BY <1>3, <1>8 DEF Types, InCheck
      <4>. QED BY <1>0, <1>2, <4>1 DEF BestOK
    <3>2. 0 \in ScoresAt(f.ply)
      BY <1>5, <1>6, ScoreAssumption DEF ScoresAt
    <3>. QED BY <1>5, <2>1, <3>1, <3>2
  <2>3. value \in Int /\ value \in ScoresAt(f.ply)
    <3>1. CASE ~is_decisive(best) /\ best > f.beta
      <4>1. f.beta <= best
        BY <1>5, <2>2, <3>1
      <4>. QED BY <1>2, <1>5, <1>6, <2>2, <3>1, <4>1, Middle
    <3>2. CASE ~(~is_decisive(best) /\ best > f.beta)
      BY <2>2, <3>2
    <3>. QED BY <3>1, <3>2
  <2>4. Return(value) /\ Write(f.node, value, f.tt.pv, bound, DEPTH_QS, f.bestMove)
    BY <2>1
  <2>5. bound \in SUBSET BOUND_EXACT /\ DEPTH_QS \in Int
    BY DEF BOUND_EXACT, BOUND_LOWER, BOUND_UPPER, DEPTH_QS
  <2>6. f.node \in Nodes(game) /\ f.tt.pv \in BOOLEAN /\ f.bestMove \in Maybe(game)
    BY <1>3 DEF Types, Entries
  <2>. HIDE DEF value, bound
  <2>7. FramesInv'
    BY <1>0, <1>1, <2>3, <2>4, ReturnStep
  <2>8. TableInv'
    BY <1>0, <2>3, <2>4, <2>5, <2>6, WriteKeeps
  <2>. QED BY <2>7, <2>8
<1>. QED BY <1>7, <1>8

----
(* The steps and the theorems. *)

\* Nothing has been searched yet.
LEMMA InitStarts == ASSUME Init PROVE IInv
<1>1. /\ stack = <<>> /\ result = <<>> /\ tt = [n \in {} |-> NoEntry] /\ rootPv = <<>> /\ g \in DOMAIN Games
      /\ pvs = [ply \in 0..(MAX_PLY + 2) |-> 0]
  BY DEF Init
<1>2. RestInv
  <2>1. nmpMinPly = 0 /\ choices = MaxChoices /\ searches = 0
    BY DEF Init
  <2>2. nmpMinPly \in Int /\ choices \in Nat /\ searches \in Nat
    BY <2>1, GameAssumption
  <2>3. stopped \in BOOLEAN
    BY DEF Init
  <2>. QED BY <1>1, <2>2, <2>3 DEF RestInv
<1>3. TableInv
  BY <1>1 DEF TableInv
<1>4. RootInv
  BY <1>1 DEF RootInv, LineOf
<1>5. Good(game, stack, pvs) /\ ScoreOK(stack, result)
  BY <1>1 DEF Good, ScoreOK
<1>6. stack \in Seq(Frames(game)) /\ pvs \in [0..(MAX_PLY + 2) -> Nat]
  BY <1>1
<1>. QED BY <1>2, <1>3, <1>4, <1>5, <1>6 DEF IInv, FramesInv

\* Every step keeps the invariant.
LEMMA NextKeeps == ASSUME IInv, [Next]_vars PROVE IInv'
<1>1. CASE UNCHANGED vars
  <2>1. UNCHANGED <<g, stack, result, tt, pvs, rootPv, nmpMinPly, stopped, choices, searches>>
    BY <1>1 DEF vars
  <2>2. game' = game
    BY <2>1 DEF game
  <2>3. RestInv'
    BY <2>1 DEF IInv, RestInv
  <2>4. FramesInv'
    BY <2>1, <2>2 DEF IInv, FramesInv
  <2>5. TableInv' /\ RootInv'
    BY <2>1, TableKept, RootKept DEF IInv
  <2>. QED BY <2>3, <2>4, <2>5 DEF IInv
<1>2. CASE StartSearch
  BY <1>2, StartSearchKeeps
<1>3. CASE EndSearch
  BY <1>3, EndSearchKeeps
<1>4. CASE Stop
  BY <1>4, StopKeeps
<1>5. CASE Enter
  BY <1>5, EnterKeeps
<1>6. CASE Probe
  BY <1>6, ProbeKeeps
<1>7. CASE Tablebases
  BY <1>7, TablebasesKeeps
<1>8. CASE Razor
  BY <1>8, RazorKeeps
<1>9. CASE Futility
  BY <1>9, FutilityKeeps
<1>10. CASE NullMove
  BY <1>10, NullMoveKeeps
<1>11. CASE AfterNullMove
  BY <1>11, AfterNullMoveKeeps
<1>12. CASE AfterVerification
  BY <1>12, AfterVerificationKeeps
<1>13. CASE ProbCut
  BY <1>13, ProbCutKeeps
<1>14. CASE AfterProbCut
  BY <1>14, AfterProbCutKeeps
<1>15. CASE BeginMoves
  BY <1>15, BeginMovesKeeps
<1>16. CASE SkipExcluded
  BY <1>16, SkipExcludedKeeps
<1>17. CASE PruneMove
  BY <1>17, PruneMoveKeeps
<1>18. CASE Singular
  BY <1>18, SingularKeeps
<1>19. CASE MakeMove
  BY <1>19, MakeMoveKeeps
<1>20. CASE AfterSingular
  BY <1>20, AfterSingularKeeps
<1>21. CASE AfterZeroWindow
  BY <1>21, AfterZeroWindowKeeps
<1>22. CASE AfterPv
  BY <1>22, AfterPvKeeps
<1>23. CASE Finish
  BY <1>23, FinishKeeps
<1>24. CASE EnterQuiescence
  BY <1>24, EnterQuiescenceKeeps
<1>25. CASE PruneCapture
  BY <1>25, PruneCaptureKeeps
<1>26. CASE MakeCapture
  BY <1>26, MakeCaptureKeeps
<1>27. CASE AfterCapture
  BY <1>27, AfterCaptureKeeps
<1>28. CASE FinishQuiescence
  BY <1>28, FinishQuiescenceKeeps
<1>. QED BY <1>1, <1>2, <1>3, <1>4, <1>5, <1>6, <1>7, <1>8, <1>9, <1>10, <1>11, <1>12, <1>13,
            <1>14, <1>15, <1>16, <1>17, <1>18, <1>19, <1>20, <1>21, <1>22, <1>23, <1>24, <1>25,
            <1>26, <1>27, <1>28 DEF Next

\* Whatever the search prunes, reduces or is stopped in, its frames, the entries
\* of the table and the line of the root stay what the invariant says of them.
THEOREM AlwaysIInv == Spec => []IInv
<1>1. Init => IInv
  BY InitStarts
<1>2. IInv /\ [Next]_vars => IInv'
  BY NextKeeps
<1>. QED BY <1>1, <1>2, PTL DEF Spec

\* The pointers into the callers' lists are written by other frames than those
\* that read them, and the lists outlive the moves they were filled for: still
\* every line that is put together is one of the game's.
THEOREM LinesAlwaysLines == Spec => []LinesAreLines
<1>1. IInv => LinesAreLines
  <2>. SUFFICES ASSUME IInv PROVE LinesAreLines
    OBVIOUS
  <2>1. IsLine(game.root, rootPv)
    BY DEF IInv, RootInv, LineOf, IsLine
  <2>2. ASSUME NEW i \in DOMAIN stack, stack[i].at = "pv" PROVE IsLine(stack[i].move, stack[i].line)
    <3>1. FrameOK(game, stack[i]) /\ PvOK(game, stack, pvs, i)
      BY <2>2 DEF IInv, FramesInv, Good
    <3>2. stack[i].PvNode
      BY <2>2, <3>1 DEF FrameOK, PlyOK
    <3>3. LineOf(game, stack[i].move, stack[i].line)
      BY <2>2, <3>1, <3>2 DEF PvOK
    <3>. QED BY <3>3 DEF LineOf, IsLine
  <2>. QED BY <2>1, <2>2 DEF LinesAreLines
<1>. QED BY <1>1, AlwaysIInv, PTL

\* The code's own assertions, which a release build leaves out, hold for every
\* game, window and depth: windows are never empty, null at NonPV nodes, no PV
\* node is a cut node, no side passes twice, and what is returned is a score.
THEOREM AssertionsAlwaysHold == Spec => []SearchAssertionsHold
<1>1. IInv => SearchAssertionsHold
  <2>. SUFFICES ASSUME IInv PROVE SearchAssertionsHold
    OBVIOUS
  <2>1. ASSUME NEW i \in DOMAIN stack, NEW x, x = stack[i]
        PROVE  /\ -VALUE_INFINITE <= x.alpha /\ x.alpha < x.beta /\ x.beta <= VALUE_INFINITE
               /\ ~x.PvNode /\ x.fn = "search" => x.alpha = x.beta - 1
               /\ ~(x.PvNode /\ x.cutNode)
               /\ x.at = "null" => ~x.isNull
    <3>1. FrameOK(game, x)
      BY <2>1 DEF IInv, FramesInv, Good
    <3>. QED BY <3>1 DEF FrameOK, PlyOK, WindowOK
  <2>2. ASSUME result # <<>> PROVE result[1].value \in (-VALUE_INFINITE + 1)..(VALUE_INFINITE - 1)
    <3>1. result[1].value \in ScoresAt(0)
      BY <2>2 DEF IInv, FramesInv, ScoreOK
    <3>. QED BY <3>1, ScoreAssumption DEF ScoresAt, VALUE_INFINITE
  <2>. QED BY <2>1, <2>2 DEF SearchAssertionsHold
<1>. QED BY <1>1, AlwaysIInv, PTL
=============================================================================
