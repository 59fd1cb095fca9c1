----------------------------- MODULE Fractions -----------------------------
(***************************************************************************)
(* The numbers of the columns and the weights: fractions in lowest terms,  *)
(* with two values that stand for no number.  Of pandas, which computes    *)
(* them in the code, only what the program uses: a missing operand gives a *)
(* missing result, and the statistics of a window.                         *)
(***************************************************************************)
EXTENDS Integers, Sequences, SequencesExt

NaN   == <<0, 0>>
Short == <<1, 0>>

RECURSIVE Gcd(_, _)
Gcd(a, b) == IF b = 0 THEN a ELSE Gcd(b, a % b)

Abs(n) == IF n < 0 THEN 0 - n ELSE n

\* n / d over their common divisor g, the sign on top.
Reduced(n, d, g) == IF d > 0 THEN <<n \div g, d \div g>> ELSE <<(0 - n) \div g, (0 - d) \div g>>
Frac(n, d) == IF d = 0 THEN NaN ELSE Reduced(n, d, Gcd(Abs(n), Abs(d)))

Known(q) == q[2] # 0

\* An operation on a missing operand is missing; too little history prevails.
Missing(a, b) == IF Short \in {a, b} THEN Short ELSE NaN
Lift(n, d, a, b) == IF Known(a) /\ Known(b) THEN Frac(n, d) ELSE Missing(a, b)

Plus(a, b)  == Lift(a[1] * b[2] + b[1] * a[2], a[2] * b[2], a, b)
Minus(a, b) == Lift(a[1] * b[2] - b[1] * a[2], a[2] * b[2], a, b)
Times(a, b) == Lift(a[1] * b[1], a[2] * b[2], a, b)
Over(a, b)  == Lift(a[1] * b[2], a[2] * b[1], a, b)

Leq(a, b) == a[1] * b[2] <= b[1] * a[2]
Num(n)    == <<n, 1>>
Positive(q) == IF Known(q) /\ q[1] <= 0 THEN NaN ELSE q
SignedSquare(q) == Times(q, IF q[1] < 0 THEN Times(Num(-1), q) ELSE q)

Total(s) == FoldSeq(Plus, Num(0), s)
Mean(s)  == Over(Total(s), Num(Len(s)))
Spread(s) ==    \* the sample variance
    LET off(m)     == [k \in DOMAIN s |-> Minus(s[k], m)]
        squares(d) == [k \in DOMAIN d |-> Times(d[k], d[k])]
    IN  Over(Total(squares(off(Mean(s)))), Num(Len(s) - 1))
Best(Above(_, _), s) ==
    LET best(a, b) == IF ~Known(a) \/ ~Known(b) THEN Missing(a, b) ELSE IF Above(a, b) THEN a ELSE b
    IN  FoldSeq(best, s[1], s)
Highest(s) == Best(LAMBDA a, b : Leq(b, a), s)
Lowest(s)  == Best(Leq, s)
Median(s) ==
    IF \E k \in DOMAIN s : ~Known(s[k])
    THEN IF \E k \in DOMAIN s : s[k] = Short THEN Short ELSE NaN
    ELSE LET o == SortSeq(s, LAMBDA a, b : Leq(a, b) /\ a # b)
             n == Len(s)
         IN  Over(Plus(o[(n + 1) \div 2], o[(n + 2) \div 2]), Num(2))
=============================================================================
