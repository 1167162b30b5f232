----------------------------- MODULE Assignment -----------------------------
(***************************************************************************)
(* solve: the least-cost matching of jobs (rows) to workers (columns), by  *)
(* the Hungarian algorithm with potentials.  A cell is a cost or forbidden *)
(* and no matrix is too bad: as many pairs as can be are made, and of the  *)
(* ways to make so many the cheapest is taken.                             *)
(***************************************************************************)
EXTENDS Integers, FiniteSets, FiniteSetsExt, Functions

CONSTANT Forbidden   \* what a cell holds that may not be chosen

Rows(matrix) == DOMAIN matrix
Columns(matrix) == IF matrix = <<>> THEN {} ELSE DOMAIN matrix[1]
Cells(matrix) == {c \in Rows(matrix) \X Columns(matrix) : matrix[c[1]][c[2]] # Forbidden}
CostOf(matrix, c) == matrix[c[1]][c[2]]

\* Slip: dearer than any one cell, not than any matching.
FillDearest(n, range) == range + 1

\* What a forbidden or padding cell costs: more than any whole matching may save.
Fill(n, range) == (n + 1) * range + 1

\* The square of costs that are not negative, padded out.
Square(matrix) ==
    LET n == Max({Cardinality(Rows(matrix)), Cardinality(Columns(matrix))})
        costs == {CostOf(matrix, c) : c \in Cells(matrix)}
        range == Max({Max(costs) - Min(costs), 1})
    IN  [i \in 1 .. n |-> [j \in 1 .. n |->
            IF <<i, j>> \in Cells(matrix) THEN matrix[i][j] - Min(costs) ELSE Fill(n, range)]]

\* Potentials u of rows and v of columns, the row p of each column (0: none),
\* and the column each column was reached from.  Column 0 holds the row being
\* placed; slack is the least reduced cost of each column seen so far.
RECURSIVE Reach(_, _, _, _, _)
Reach(a, s, j0, used, slack) ==
    LET n == Cardinality(DOMAIN a)
        now == used \cup {j0}
        open == (1 .. n) \ now
        row == s.p[j0]
        cost == [j \in open |-> a[row][j] - s.u[row] - s.v[j]]
        nearer == {j \in open : j \notin DOMAIN slack \/ cost[j] < slack[j]}
        least == [j \in open |-> IF j \in nearer THEN cost[j] ELSE slack[j]]
        delta == Min(Range(least))
        next == Min({j \in open : least[j] = delta})
        moved == [s EXCEPT
            !.u = [i \in DOMAIN s.u |-> IF \E j \in now : s.p[j] = i THEN @[i] + delta ELSE @[i]],
            !.v = [j \in DOMAIN s.v |-> IF j \in now THEN @[j] - delta ELSE @[j]],
            !.from = [j \in DOMAIN s.from |-> IF j \in nearer THEN j0 ELSE @[j]]]
    IN  IF s.p[next] = 0 THEN [state |-> moved, at |-> next]
        ELSE Reach(a, moved, next, now, [j \in open |-> least[j] - delta])

\* The rows along the way shift by one column.
RECURSIVE Shift(_, _)
Shift(s, j) ==
    LET back == s.from[j]
        moved == [s EXCEPT !.p[j] = s.p[back]]
    IN  IF back = 0 THEN moved ELSE Shift(moved, back)

RECURSIVE PlaceRows(_, _, _)
PlaceRows(a, s, i) ==
    IF i \notin DOMAIN a THEN s
    ELSE LET found == Reach(a, [s EXCEPT !.p[0] = i], 0, {}, <<>>)
         IN  PlaceRows(a, Shift(found.state, found.at), i + 1)

\* The pairs of the square's matching that are real and allowed.
Solve(matrix) ==
    IF Cells(matrix) = {} THEN {}
    ELSE LET a == Square(matrix)
             n == Cardinality(DOMAIN a)
             zero == [j \in 0 .. n |-> 0]
             end == PlaceRows(a, [u |-> zero, v |-> zero, p |-> zero, from |-> zero], 1)
         IN  {c \in Cells(matrix) : end.p[c[2]] = c[1]}

----------------------------------------------------------------------------
(* What it is to compute *)

Matchings(matrix) ==
    {{<<i, f[i]>> : i \in DOMAIN f} : f \in
        UNION {{f \in [rows -> Columns(matrix)] : IsInjective(f)} : rows \in SUBSET Rows(matrix)}}
        \cap SUBSET Cells(matrix)
Total(matrix, m) == FoldSet(LAMBDA c, sum : sum + CostOf(matrix, c), 0, m)

Best(matrix) ==
    LET largest == Max({Cardinality(m) : m \in Matchings(matrix)})
        full == {m \in Matchings(matrix) : Cardinality(m) = largest}
    IN  {m \in full : \A other \in full : Total(matrix, m) <= Total(matrix, other)}
============================================================================
