---------------------------- MODULE EngineProofs ----------------------------
(***************************************************************************)
(* What the simulator keeps for every set of instruments, prices, signals  *)
(* and rules: the types, one order for an instrument, the slots, the exits *)
(* that are owed, stops that never fall, and that every step is one of the *)
(* account's (module Account) or none.                                     *)
(***************************************************************************)
EXTENDS Engine, FiniteSetTheorems, SequenceTheorems, WellFoundedInduction, TLAPS

-----------------------------------------------------------------------------
(* Natural numbers *)

\* The order of the natural numbers is well-founded.
LessThan == {ss \in Nat \X Nat : ss[1] < ss[2]}

LEMMA LeastOfNaturals ==
    ASSUME NEW S, S \subseteq Nat, S # {}
    PROVE  \E n \in S : \A m \in S : n <= m
  <1>1. OpToRel(<, Nat) = LessThan
    BY Zenon DEF OpToRel, LessThan
  <1>2. IsWellFoundedOn(LessThan, Nat)
    BY <1>1, NatLessThanWellFounded
  <1>3. PICK n \in S : \A m \in S : <<m, n>> \notin LessThan
    BY <1>2, WFMin, Zenon
  <1>4. ASSUME NEW m \in S PROVE n <= m
    <2>1. m \in Nat /\ n \in Nat
      OBVIOUS
    <2>2. m < n => <<m, n>> \in LessThan
      BY <2>1 DEF LessThan
    <2> QED
      BY <1>3, <2>1, <2>2
  <1> QED
    BY <1>4

\* A set that has 0, and the successor of every number it has, has them all.
LEMMA SetInduction ==
    ASSUME NEW S, 0 \in S, \A n \in Nat : n \in S => n + 1 \in S
    PROVE  \A n \in Nat : n \in S
  <1>1. SUFFICES ASSUME Nat \ S # {} PROVE FALSE
    OBVIOUS
  <1>2. PICK n \in Nat \ S : \A m \in Nat \ S : n <= m
    BY <1>1, LeastOfNaturals
  <1>3. n # 0 /\ n - 1 \in Nat /\ ~(n <= n - 1)
    BY <1>2
  <1>4. n - 1 \in S
    BY <1>2, <1>3
  <1> QED
    BY <1>2, <1>3, <1>4

-----------------------------------------------------------------------------
(* Shares of lots *)

LEMMA FunctionsAreSequences ==
    ASSUME NEW T, NEW n \in Nat, NEW r \in [1..n -> T]
    PROVE  r \in Seq(T)
  BY SeqDef

SomeLots == Seq([qty : Nat, at : Nat])

LEMMA LotsAre ==
    ASSUME NEW lots \in SomeLots
    PROVE  /\ Len(lots) \in Nat /\ DOMAIN lots = 1..Len(lots)
           /\ \A n \in 1..Len(lots) : lots[n] \in [qty : Nat, at : Nat]
           /\ \A n \in 1..Len(lots) : lots[n].qty \in Nat
           /\ \A n \in 1..Len(lots) : lots[n].at \in Nat
  <1>0. Len(lots) \in Nat /\ DOMAIN lots = 1..Len(lots)
    BY DEF SomeLots
  <1>1. lots \in [1..Len(lots) -> [qty : Nat, at : Nat]]
    BY LenProperties DEF SomeLots
  <1>2. \A n \in 1..Len(lots) : lots[n] \in [qty : Nat, at : Nat]
    BY <1>1
  <1>3. \A l \in [qty : Nat, at : Nat] : l.qty \in Nat /\ l.at \in Nat
    OBVIOUS
  <1> QED
    BY <1>0, <1>1, <1>2, <1>3

\* The running sum that Counted defines: it exists, and it is natural.
Added(lots, K, n) == IF n \in K THEN lots[n].qty ELSE 0
SumsTo(lots, K, f) ==
    /\ f \in [0..Len(lots) -> Nat]
    /\ f[0] = 0
    /\ \A n \in 1..Len(lots) : f[n] = f[n - 1] + Added(lots, K, n)

LEMMA SumsExist ==
    ASSUME NEW lots \in SomeLots, NEW K
    PROVE  \E f : SumsTo(lots, K, f)
  <1> DEFINE L == Len(lots)
             Built(m, f) == /\ f \in [0..m -> Nat] /\ f[0] = 0
                            /\ \A n \in 1..m : f[n] = f[n - 1] + Added(lots, K, n)
             S == {m \in Nat : m <= L => \E f : Built(m, f)}
  <1>1. L \in Nat /\ \A n \in 1..L : Added(lots, K, n) \in Nat
    BY LotsAre DEF Added
  <1>2. 0 \in S
    <2>1. Built(0, [n \in 0..0 |-> 0])
      OBVIOUS
    <2> QED
      BY <2>1
  <1>3. ASSUME NEW m \in Nat, m \in S PROVE m + 1 \in S
    <2>1. SUFFICES ASSUME m + 1 <= L PROVE \E f : Built(m + 1, f)
      OBVIOUS
    <2>2. PICK f : Built(m, f)
      BY <1>1, <1>3, <2>1
    <2> DEFINE g == [n \in 0..(m + 1) |-> IF n = m + 1 THEN f[m] + Added(lots, K, m + 1) ELSE f[n]]
    <2>3. Added(lots, K, m + 1) \in Nat /\ f[m] \in Nat
      BY <1>1, <2>1, <2>2
    <2>4. g \in [0..(m + 1) -> Nat]
      BY <2>2, <2>3
    <2>5. g[0] = 0
      BY <2>2
    <2>6. ASSUME NEW n \in 1..(m + 1) PROVE g[n] = g[n - 1] + Added(lots, K, n)
      <3>1. CASE n = m + 1
        BY <3>1
      <3>2. CASE n # m + 1
        <4>1. n \in 1..m /\ n \in 0..(m + 1) /\ n - 1 \in 0..(m + 1) /\ n - 1 # m + 1
          BY <3>2
        <4> QED
          BY <2>2, <3>2, <4>1
      <3> QED
        BY <3>1, <3>2
    <2>7. Built(m + 1, g)
      BY <2>4, <2>5, <2>6
    <2> QED
      BY <2>7
  <1>4. L \in S
    <2> HIDE DEF S
    <2> QED
      BY <1>1, <1>2, <1>3, SetInduction
  <1>5. PICK f : Built(L, f)
    BY <1>1, <1>4
  <1> QED
    BY <1>5 DEF SumsTo

LEMMA CountedIsTheSum ==
    ASSUME NEW lots \in SomeLots, NEW K
    PROVE  \E f : SumsTo(lots, K, f) /\ Counted(lots, K) = f[Len(lots)]
  <1> DEFINE Fits(f) == f = [n \in 0..Len(lots) |->
                               IF n = 0 THEN 0
                               ELSE f[n - 1] + (IF n \in K THEN lots[n].qty ELSE 0)]
  <1>1. PICK g : SumsTo(lots, K, g)
    BY SumsExist
  <1>2. Fits(g)
    BY <1>1, LotsAre DEF SumsTo, Added
  <1>3. Fits(CHOOSE f : Fits(f))
    BY <1>2, Zenon
  <1>4. Counted(lots, K) = (CHOOSE f : Fits(f))[Len(lots)]
    BY DEF Counted
  <1>5. PICK f : Fits(f) /\ Counted(lots, K) = f[Len(lots)]
    BY <1>3, <1>4
  <1>6. Len(lots) \in Nat /\ \A n \in 1..Len(lots) : Added(lots, K, n) \in Nat
    BY LotsAre DEF Added
  <1>7. f[0] = 0 /\ \A n \in 1..Len(lots) : f[n] = f[n - 1] + Added(lots, K, n)
    BY <1>5, <1>6 DEF Added
  <1> DEFINE S == {n \in Nat : n <= Len(lots) => f[n] \in Nat}
  <1>8. 0 \in S
    BY <1>7
  <1>9. ASSUME NEW n \in Nat, n \in S PROVE n + 1 \in S
    <2>1. SUFFICES ASSUME n + 1 <= Len(lots) PROVE f[n + 1] \in Nat
      OBVIOUS
    <2>2. n + 1 \in 1..Len(lots) /\ (n + 1) - 1 = n /\ f[n] \in Nat
      BY <1>6, <1>9, <2>1
    <2>3. f[n + 1] = f[n] + Added(lots, K, n + 1)
      BY <1>7, <2>2
    <2> QED
      BY <1>6, <2>2, <2>3
  <1>10. \A n \in Nat : n \in S
    <2> HIDE DEF S
    <2> QED
      BY <1>8, <1>9, SetInduction
  <1>11. \A n \in 0..Len(lots) : f[n] \in Nat
    BY <1>6, <1>10
  <1>12. f \in [0..Len(lots) -> Nat]
    BY <1>5, <1>11
  <1> QED
    BY <1>5, <1>7, <1>12 DEF SumsTo
\* More of the lots counted is no fewer shares; a lot counted in addition adds its own.
LEMMA CountedGrows ==
    ASSUME NEW lots \in SomeLots, NEW K, NEW M, NEW k \in Nat \ {0},
           \A n \in 1..Len(lots) : n \in K => n \in M,
           k <= Len(lots) => k \in M /\ k \notin K
    PROVE  Counted(lots, K) + (IF k <= Len(lots) THEN lots[k].qty ELSE 0) <= Counted(lots, M)
  <1>1. PICK f : SumsTo(lots, K, f) /\ Counted(lots, K) = f[Len(lots)]
    BY CountedIsTheSum
  <1>2. PICK g : SumsTo(lots, M, g) /\ Counted(lots, M) = g[Len(lots)]
    BY CountedIsTheSum
  <1> DEFINE L == Len(lots)
             extra(n) == IF k <= n THEN lots[k].qty ELSE 0
             S == {n \in Nat : n <= L => f[n] + extra(n) <= g[n]}
  <1>3. L \in Nat /\ \A n \in 1..L : lots[n].qty \in Nat
    BY LotsAre
  <1>4. \A n \in 0..L : f[n] \in Nat /\ g[n] \in Nat
    BY <1>1, <1>2 DEF SumsTo
  <1>5. 0 \in S
    <2>1. f[0] = 0 /\ g[0] = 0 /\ extra(0) = 0
      BY <1>1, <1>2 DEF SumsTo
    <2> QED
      BY <2>1
  <1>6. ASSUME NEW n \in Nat, n \in S PROVE n + 1 \in S
    <2>1. SUFFICES ASSUME n + 1 <= L PROVE f[n + 1] + extra(n + 1) <= g[n + 1]
      OBVIOUS
    <2>2. n \in 0..L /\ n + 1 \in 1..L /\ (n + 1) - 1 = n /\ f[n] + extra(n) <= g[n]
      BY <1>3, <1>6, <2>1
    <2>3. f[n + 1] = f[n] + Added(lots, K, n + 1) /\ g[n + 1] = g[n] + Added(lots, M, n + 1)
      BY <1>1, <1>2, <2>2 DEF SumsTo
    <2>4. lots[n + 1].qty \in Nat /\ f[n] \in Nat /\ g[n] \in Nat
      BY <1>3, <1>4, <2>2
    <2>5. CASE k = n + 1
      <3>1. Added(lots, K, n + 1) = 0 /\ Added(lots, M, n + 1) = lots[n + 1].qty
        BY <2>2, <2>5 DEF Added
      <3>2. extra(n) = 0 /\ extra(n + 1) = lots[n + 1].qty
        BY <2>5
      <3> HIDE DEF extra
      <3> QED
        BY <2>2, <2>3, <2>4, <3>1, <3>2
    <2>6. CASE k # n + 1
      <3>1. extra(n + 1) = extra(n) /\ extra(n) \in Nat
        <4>1. k <= n + 1 <=> k <= n
          BY <2>6
        <4>2. k <= n => lots[k].qty \in Nat
          BY <1>3, <2>2
        <4> QED
          BY <4>1, <4>2
      <3>2. Added(lots, K, n + 1) <= Added(lots, M, n + 1)
            /\ Added(lots, K, n + 1) \in Nat /\ Added(lots, M, n + 1) \in Nat
        BY <2>2, <2>4 DEF Added
      <3> HIDE DEF extra
      <3> QED
        BY <2>2, <2>3, <2>4, <3>1, <3>2
    <2> QED
      BY <2>5, <2>6
  <1>7. L \in S
    <2> HIDE DEF S
    <2> QED
      BY <1>3, <1>5, <1>6, SetInduction
  <1> QED
    BY <1>1, <1>2, <1>3, <1>7

LEMMA CountedIsNatural ==
    ASSUME NEW lots \in SomeLots, NEW K
    PROVE  Counted(lots, K) \in Nat
  <1>1. PICK f : SumsTo(lots, K, f) /\ Counted(lots, K) = f[Len(lots)]
    BY CountedIsTheSum
  <1>2. Len(lots) \in 0..Len(lots)
    BY LotsAre
  <1> QED
    BY <1>1, <1>2 DEF SumsTo

LEMMA CountedNoLess ==
    ASSUME NEW lots \in SomeLots, NEW K, NEW M,
           \A n \in 1..Len(lots) : n \in K => n \in M
    PROVE  Counted(lots, K) <= Counted(lots, M)
  <1> DEFINE k == Len(lots) + 1
  <1>1. k \in Nat \ {0} /\ ~(k <= Len(lots))
    BY LotsAre
  <1> HIDE DEF k
  <1>2. Counted(lots, K) + (IF k <= Len(lots) THEN lots[k].qty ELSE 0) <= Counted(lots, M)
    BY <1>1, CountedGrows
  <1> QED
    BY <1>1, <1>2, CountedIsNatural

LEMMA CountedAlike ==
    ASSUME NEW lots \in SomeLots, NEW K, NEW M,
           \A n \in 1..Len(lots) : n \in K <=> n \in M
    PROVE  Counted(lots, K) = Counted(lots, M)
  <1>1. Counted(lots, K) <= Counted(lots, M) /\ Counted(lots, M) <= Counted(lots, K)
    BY CountedNoLess
  <1> QED
    BY <1>1, CountedIsNatural

LEMMA CountedMore ==
    ASSUME NEW lots \in SomeLots, NEW K, NEW M, NEW k \in 1..Len(lots),
           \A n \in 1..Len(lots) : n \in K => n \in M, k \in M, k \notin K
    PROVE  Counted(lots, K) + lots[k].qty <= Counted(lots, M)
  <1>1. k \in Nat \ {0} /\ k <= Len(lots)
    BY LotsAre
  <1>2. Counted(lots, K) + (IF k <= Len(lots) THEN lots[k].qty ELSE 0) <= Counted(lots, M)
    BY <1>1, CountedGrows
  <1> QED
    BY <1>1, <1>2

\* One lot counted, or none.
LEMMA CountedSingle ==
    ASSUME NEW lots \in SomeLots, NEW K, NEW k \in Nat \ {0},
           \A n \in 1..Len(lots) : n \in K <=> n = k
    PROVE  Counted(lots, K) = IF k <= Len(lots) THEN lots[k].qty ELSE 0
  <1>1. PICK f : SumsTo(lots, K, f) /\ Counted(lots, K) = f[Len(lots)]
    BY CountedIsTheSum
  <1> DEFINE L == Len(lots)
             extra(n) == IF k <= n THEN lots[k].qty ELSE 0
             S == {n \in Nat : n <= L => f[n] = extra(n)}
  <1>3. L \in Nat /\ \A n \in 1..L : lots[n].qty \in Nat
    BY LotsAre
  <1>5. 0 \in S
    <2>1. f[0] = 0 /\ extra(0) = 0
      BY <1>1 DEF SumsTo
    <2> QED
      BY <2>1
  <1>6. ASSUME NEW n \in Nat, n \in S PROVE n + 1 \in S
    <2>1. SUFFICES ASSUME n + 1 <= L PROVE f[n + 1] = extra(n + 1)
      OBVIOUS
    <2>2. n + 1 \in 1..L /\ (n + 1) - 1 = n /\ f[n] = extra(n)
      BY <1>3, <1>6, <2>1
    <2>3. f[n + 1] = f[n] + Added(lots, K, n + 1)
      BY <1>1, <2>2 DEF SumsTo
    <2>4. lots[n + 1].qty \in Nat
      BY <1>3, <2>2
    <2>5. CASE k = n + 1
      <3>1. Added(lots, K, n + 1) = lots[n + 1].qty
        BY <2>2, <2>5 DEF Added
      <3>2. extra(n) = 0 /\ extra(n + 1) = lots[n + 1].qty
        BY <2>5
      <3> HIDE DEF extra
      <3> QED
        BY <2>2, <2>3, <2>4, <3>1, <3>2
    <2>6. CASE k # n + 1
      <3>1. extra(n + 1) = extra(n) /\ extra(n) \in Nat
        <4>1. k <= n + 1 <=> k <= n
          BY <2>6
        <4>2. k <= n => lots[k].qty \in Nat
          BY <1>3, <2>2
        <4> QED
          BY <4>1, <4>2
      <3>2. Added(lots, K, n + 1) = 0
        BY <2>2, <2>6 DEF Added
      <3> HIDE DEF extra
      <3> QED
        BY <2>2, <2>3, <3>1, <3>2
    <2> QED
      BY <2>5, <2>6
  <1>7. L \in S
    <2> HIDE DEF S
    <2> QED
      BY <1>3, <1>5, <1>6, SetInduction
  <1> QED
    BY <1>1, <1>3, <1>7

LEMMA CountedNone ==
    ASSUME NEW lots \in SomeLots, NEW K, \A n \in 1..Len(lots) : n \notin K
    PROVE  Counted(lots, K) = 0
  <1> DEFINE k == Len(lots) + 1
  <1>1. k \in Nat \ {0} /\ ~(k <= Len(lots)) /\ \A n \in 1..Len(lots) : n # k
    BY LotsAre
  <1> HIDE DEF k
  <1>2. Counted(lots, K) = IF k <= Len(lots) THEN lots[k].qty ELSE 0
    BY <1>1, CountedSingle
  <1> QED
    BY <1>1, <1>2

LEMMA CountedOne ==
    ASSUME NEW lots \in SomeLots, NEW K, NEW k \in 1..Len(lots),
           \A n \in 1..Len(lots) : n \in K <=> n = k
    PROVE  Counted(lots, K) = lots[k].qty
  <1>1. k \in Nat \ {0} /\ k <= Len(lots)
    BY LotsAre
  <1>2. Counted(lots, K) = IF k <= Len(lots) THEN lots[k].qty ELSE 0
    BY <1>1, CountedSingle
  <1> QED
    BY <1>1, <1>2

\* A lot counted at the end of others.
LEMMA AppendLots ==
    ASSUME NEW lots \in SomeLots, NEW l \in [qty : Nat, at : Nat]
    PROVE  /\ Append(lots, l) \in SomeLots
           /\ Len(Append(lots, l)) = Len(lots) + 1
           /\ \A n \in 1..Len(lots) : Append(lots, l)[n] = lots[n]
           /\ Append(lots, l)[Len(lots) + 1] = l
  <1>1. lots \in Seq([qty : Nat, at : Nat])
    BY DEF SomeLots
  <1>2. /\ Append(lots, l) \in Seq([qty : Nat, at : Nat])
        /\ Len(Append(lots, l)) = Len(lots) + 1
        /\ \A i \in 1..Len(lots) : Append(lots, l)[i] = lots[i]
        /\ Append(lots, l)[Len(lots) + 1] = l
    BY <1>1, AppendProperties
  <1> QED
    BY <1>2 DEF SomeLots

LEMMA CountedAppend ==
    ASSUME NEW lots \in SomeLots, NEW l \in [qty : Nat, at : Nat], NEW K
    PROVE  Counted(Append(lots, l), K)
             = Counted(lots, K) + (IF Len(lots) + 1 \in K THEN l.qty ELSE 0)
  <1> DEFINE L == Len(lots)
             more == Append(lots, l)
  <1>1. /\ more \in SomeLots /\ Len(more) = L + 1 /\ L \in Nat
        /\ \A n \in 1..L : more[n] = lots[n]
        /\ more[L + 1] = l
    BY AppendLots, LotsAre
  <1> HIDE DEF more
  <1>2. PICK f : SumsTo(lots, K, f) /\ Counted(lots, K) = f[L]
    BY CountedIsTheSum
  <1>3. PICK g : SumsTo(more, K, g) /\ Counted(more, K) = g[Len(more)]
    BY <1>1, CountedIsTheSum
  <1> DEFINE S == {n \in Nat : n <= L => f[n] = g[n]}
  <1>4. 0 \in S
    BY <1>2, <1>3 DEF SumsTo
  <1>5. ASSUME NEW n \in Nat, n \in S PROVE n + 1 \in S
    <2>1. SUFFICES ASSUME n + 1 <= L PROVE f[n + 1] = g[n + 1]
      OBVIOUS
    <2>2. n + 1 \in 1..L /\ n + 1 \in 1..Len(more) /\ (n + 1) - 1 = n /\ f[n] = g[n]
      BY <1>1, <1>5, <2>1
    <2>3. f[n + 1] = f[n] + Added(lots, K, n + 1) /\ g[n + 1] = g[n] + Added(more, K, n + 1)
      BY <1>2, <1>3, <2>2 DEF SumsTo
    <2>4. Added(lots, K, n + 1) = Added(more, K, n + 1)
      BY <1>1, <2>2 DEF Added
    <2> QED
      BY <2>2, <2>3, <2>4
  <1>6. L \in S
    <2> HIDE DEF S
    <2> QED
      BY <1>1, <1>4, <1>5, SetInduction
  <1>7. L + 1 \in 1..Len(more) /\ (L + 1) - 1 = L
    BY <1>1
  <1>8. g[L + 1] = g[L] + Added(more, K, L + 1)
    BY <1>3, <1>7 DEF SumsTo
  <1>9. Counted(more, K) = Counted(lots, K) + (IF L + 1 \in K THEN l.qty ELSE 0)
    BY <1>1, <1>2, <1>3, <1>6, <1>8 DEF Added
  <1> QED
    BY <1>9 DEF more

-----------------------------------------------------------------------------
(* A sequence without some of its elements *)

\* What Only builds, element by element.
KeptNext(s, S, f, n) == IF s[n] \in S THEN Append(f[n - 1], s[n]) ELSE f[n - 1]
KeptTo(s, S, T, f) ==
    /\ f \in [0..Len(s) -> Seq(T)]
    /\ f[0] = <<>>
    /\ \A n \in 1..Len(s) : f[n] = KeptNext(s, S, f, n)

LEMMA KeptExist ==
    ASSUME NEW T, NEW s \in Seq(T), NEW S
    PROVE  \E f : KeptTo(s, S, T, f)
  <1> DEFINE L == Len(s)
             Built(m, f) == /\ f \in [0..m -> Seq(T)] /\ f[0] = <<>>
                            /\ \A n \in 1..m : f[n] = KeptNext(s, S, f, n)
             I == {m \in Nat : m <= L => \E f : Built(m, f)}
  <1>1. L \in Nat /\ \A n \in 1..L : s[n] \in T
    BY LenProperties, ElementOfSeq
  <1>2. 0 \in I
    <2>1. Built(0, [n \in 0..0 |-> <<>>])
      BY EmptySeq
    <2> QED
      BY <2>1
  <1>3. ASSUME NEW m \in Nat, m \in I PROVE m + 1 \in I
    <2>1. SUFFICES ASSUME m + 1 <= L PROVE \E f : Built(m + 1, f)
      <3> HIDE DEF Built
      <3> QED
        OBVIOUS
    <2>2. PICK f : Built(m, f)
      BY <1>1, <1>3, <2>1, SMTT(20)
    <2> DEFINE e == IF s[m + 1] \in S THEN Append(f[m], s[m + 1]) ELSE f[m]
               g == [n \in 0..(m + 1) |-> IF n = m + 1 THEN e ELSE f[n]]
    <2>3. e \in Seq(T)
      <3>1. s[m + 1] \in T /\ f[m] \in Seq(T)
        BY <1>1, <2>1, <2>2
      <3>2. Append(f[m], s[m + 1]) \in Seq(T)
        BY <3>1, AppendProperties
      <3> QED
        BY <3>1, <3>2
    <2> HIDE DEF e
    <2>4. g \in [0..(m + 1) -> Seq(T)]
      BY <2>2, <2>3
    <2>5. g[0] = <<>>
      BY <2>2
    <2>6. ASSUME NEW n \in 1..(m + 1) PROVE g[n] = KeptNext(s, S, g, n)
      <3>1. CASE n = m + 1
        <4>1. n \in 0..(m + 1) /\ n - 1 \in 0..(m + 1) /\ n - 1 # m + 1 /\ n - 1 = m
          BY <3>1
        <4>2. g[n] = e /\ g[n - 1] = f[m]
          BY <3>1, <4>1
        <4> QED
          BY <3>1, <4>1, <4>2 DEF e, KeptNext
      <3>2. CASE n # m + 1
        <4>1. n \in 1..m /\ n \in 0..(m + 1) /\ n - 1 \in 0..(m + 1) /\ n - 1 # m + 1
          BY <3>2
        <4>2. g[n] = f[n] /\ g[n - 1] = f[n - 1]
          BY <3>2, <4>1
        <4>3. f[n] = KeptNext(s, S, f, n)
          BY <2>2, <4>1
        <4> QED
          BY <4>2, <4>3 DEF KeptNext
      <3> QED
        BY <3>1, <3>2
    <2>7. Built(m + 1, g)
      <3> HIDE DEF g
      <3> QED
        BY <2>4, <2>5, <2>6
    <2> QED
      BY <2>7
  <1>4. L \in I
    <2> HIDE DEF I
    <2> QED
      BY <1>1, <1>2, <1>3, SetInduction
  <1>5. PICK f : Built(L, f)
    BY <1>1, <1>4
  <1> QED
    BY <1>5 DEF KeptTo

LEMMA OnlyIsWhatIsKept ==
    ASSUME NEW T, NEW s \in Seq(T), NEW S
    PROVE  \E f : KeptTo(s, S, T, f) /\ Only(s, S) = f[Len(s)]
  <1> DEFINE Fits(f) == f = [n \in 0..Len(s) |->
                               IF n = 0 THEN <<>> ELSE KeptNext(s, S, f, n)]
  <1>1. PICK g : KeptTo(s, S, T, g)
    BY KeptExist
  <1>2. Len(s) \in Nat /\ \A n \in 1..Len(s) : s[n] \in T
    BY LenProperties, ElementOfSeq
  <1>3. Fits(g)
    BY <1>1, <1>2 DEF KeptTo
  <1>4. Fits(CHOOSE f : Fits(f))
    BY <1>3, Zenon
  <1>5. Only(s, S) = (CHOOSE f : Fits(f))[Len(s)]
    BY DEF Only, KeptNext
  <1>6. PICK f : Fits(f) /\ Only(s, S) = f[Len(s)]
    BY <1>4, <1>5
  <1>7. f[0] = <<>>
    BY <1>2, <1>6
  <1>8. \A n \in 1..Len(s) : f[n] = KeptNext(s, S, f, n)
    BY <1>2, <1>6
  <1> DEFINE I == {n \in Nat : n <= Len(s) => f[n] \in Seq(T)}
  <1>9. 0 \in I
    BY <1>7, EmptySeq
  <1>10. ASSUME NEW n \in Nat, n \in I PROVE n + 1 \in I
    <2>1. SUFFICES ASSUME n + 1 <= Len(s) PROVE f[n + 1] \in Seq(T)
      OBVIOUS
    <2>2. n + 1 \in 1..Len(s) /\ (n + 1) - 1 = n /\ f[n] \in Seq(T) /\ s[n + 1] \in T
      BY <1>2, <1>10, <2>1
    <2>3. Append(f[n], s[n + 1]) \in Seq(T)
      BY <2>2, AppendProperties
    <2>4. f[n + 1] = IF s[n + 1] \in S THEN Append(f[n], s[n + 1]) ELSE f[n]
      BY <1>8, <2>2 DEF KeptNext
    <2> QED
      BY <2>2, <2>3, <2>4
  <1>11. \A n \in Nat : n \in I
    <2> HIDE DEF I
    <2> QED
      BY <1>9, <1>10, SetInduction
  <1>12. \A n \in 0..Len(s) : f[n] \in Seq(T)
    BY <1>2, <1>11
  <1>13. f \in [0..Len(s) -> Seq(T)]
    BY <1>6, <1>12
  <1> QED
    BY <1>6, <1>7, <1>8, <1>13 DEF KeptTo

\* t has the elements of the first m of s that are in S, in their order: e says where.
Picks(e, t, s, S, m) ==
    /\ e \in [1..Len(t) -> 1..m]
    /\ \A i, j \in 1..Len(t) : i < j => e[i] < e[j]
    /\ \A i \in 1..Len(t) : t[i] = s[e[i]] /\ s[e[i]] \in S
    /\ \A k \in 1..m : s[k] \in S => \E i \in 1..Len(t) : e[i] = k

LEMMA PicksAnother ==
    ASSUME NEW T, NEW s, NEW S, NEW t \in Seq(T), NEW m \in Nat, NEW e, Picks(e, t, s, S, m),
           s[m + 1] \in T, s[m + 1] \in S
    PROVE  \E d : Picks(d, Append(t, s[m + 1]), s, S, m + 1)
  <1> DEFINE n == Len(t)
             u == Append(t, s[m + 1])
             d == [i \in 1..(n + 1) |-> IF i = n + 1 THEN m + 1 ELSE e[i]]
  <1>1. /\ n \in Nat /\ Len(u) = n + 1 /\ u[n + 1] = s[m + 1]
        /\ \A i \in 1..n : u[i] = t[i]
    BY LenProperties, AppendProperties
  <1> HIDE DEF u
  <1>2. \A i \in 1..n : e[i] \in 1..m
    BY DEF Picks
  <1>3. \A i \in 1..(n + 1) : i = n + 1 \/ i \in 1..n
    BY <1>1
  <1>4. d[n + 1] = m + 1 /\ \A i \in 1..n : d[i] = e[i]
    BY <1>1
  <1>5. d \in [1..Len(u) -> 1..(m + 1)]
    BY <1>1, <1>2
  <1> HIDE DEF d
  <1>6. ASSUME NEW i \in 1..Len(u), NEW j \in 1..Len(u), i < j PROVE d[i] < d[j]
    <2>1. i \in 1..n
      BY <1>1, <1>6
    <2>2. CASE j = n + 1
      BY <1>2, <1>4, <2>1, <2>2
    <2>3. CASE j \in 1..n
      <3>1. e[i] < e[j]
        BY <1>6, <2>1, <2>3 DEF Picks
      <3> QED
        BY <1>4, <2>1, <2>3, <3>1
    <2> QED
      BY <1>1, <1>3, <2>2, <2>3
  <1>7. ASSUME NEW i \in 1..Len(u) PROVE u[i] = s[d[i]] /\ s[d[i]] \in S
    <2>1. CASE i = n + 1
      BY <1>1, <1>4, <2>1
    <2>2. CASE i \in 1..n
      <3>1. t[i] = s[e[i]] /\ s[e[i]] \in S
        BY <2>2 DEF Picks
      <3> QED
        BY <1>1, <1>4, <2>2, <3>1
    <2> QED
      BY <1>1, <1>3, <2>1, <2>2
  <1>8. ASSUME NEW k \in 1..(m + 1), s[k] \in S PROVE \E i \in 1..Len(u) : d[i] = k
    <2>1. CASE k = m + 1
      BY <1>1, <1>4, <2>1
    <2>2. CASE k # m + 1
      <3>1. k \in 1..m
        BY <2>2
      <3>2. PICK i \in 1..n : e[i] = k
        BY <1>8, <3>1 DEF Picks
      <3> QED
        BY <1>1, <1>4, <3>2
    <2> QED
      BY <2>1, <2>2
  <1>9. Picks(d, u, s, S, m + 1)
    BY <1>5, <1>6, <1>7, <1>8 DEF Picks
  <1> QED
    BY <1>9 DEF u

LEMMA PicksNoOther ==
    ASSUME NEW s, NEW S, NEW t, NEW m \in Nat, NEW e, Picks(e, t, s, S, m), s[m + 1] \notin S
    PROVE  Picks(e, t, s, S, m + 1)
  <1>1. e \in [1..Len(t) -> 1..(m + 1)]
    <2>1. 1..m \subseteq 1..(m + 1)
      OBVIOUS
    <2> QED
      BY <2>1 DEF Picks
  <1>2. ASSUME NEW k \in 1..(m + 1), s[k] \in S PROVE k \in 1..m
    BY <1>2
  <1> QED
    BY <1>1, <1>2 DEF Picks

\* What Only returns: the elements of s in S, each once, in their order.
LEMMA OnlyPicks ==
    ASSUME NEW T, NEW s \in Seq(T), NEW S
    PROVE  Only(s, S) \in Seq(T) /\ \E e : Picks(e, Only(s, S), s, S, Len(s))
  <1>1. PICK f : KeptTo(s, S, T, f) /\ Only(s, S) = f[Len(s)]
    BY OnlyIsWhatIsKept
  <1> DEFINE I == {n \in Nat : n <= Len(s) => \E e : Picks(e, f[n], s, S, n)}
  <1>2. Len(s) \in Nat /\ \A n \in 1..Len(s) : s[n] \in T
    BY LenProperties, ElementOfSeq
  <1>3. 0 \in I
    <2>1. f[0] = <<>> /\ Len(<<>>) = 0
      BY <1>1 DEF KeptTo
    <2>2. Picks(<<>>, <<>>, s, S, 0)
      BY DEF Picks
    <2> QED
      BY <2>1, <2>2
  <1>4. ASSUME NEW n \in Nat, n \in I PROVE n + 1 \in I
    <2>1. SUFFICES ASSUME n + 1 <= Len(s) PROVE \E e : Picks(e, f[n + 1], s, S, n + 1)
      OBVIOUS
    <2>2. PICK e : Picks(e, f[n], s, S, n)
      BY <1>2, <1>4, <2>1
    <2>3. n + 1 \in 1..Len(s) /\ n \in 0..Len(s) /\ (n + 1) - 1 = n /\ s[n + 1] \in T
      BY <1>2, <2>1
    <2>4. f[n + 1] = KeptNext(s, S, f, n + 1) /\ f[n] \in Seq(T)
      BY <1>1, <2>3 DEF KeptTo
    <2>5. CASE s[n + 1] \in S
      <3>1. f[n + 1] = Append(f[n], s[n + 1])
        BY <2>3, <2>4, <2>5 DEF KeptNext
      <3>2. \E d : Picks(d, Append(f[n], s[n + 1]), s, S, n + 1)
        BY <2>2, <2>3, <2>4, <2>5, PicksAnother
      <3> QED
        BY <3>1, <3>2
    <2>6. CASE s[n + 1] \notin S
      <3>1. f[n + 1] = f[n]
        BY <2>3, <2>4, <2>6 DEF KeptNext
      <3>2. Picks(e, f[n], s, S, n + 1)
        BY <2>2, <2>6, PicksNoOther
      <3> QED
        BY <3>1, <3>2
    <2> QED
      BY <2>5, <2>6
  <1>5. Len(s) \in I
    <2> HIDE DEF I
    <2> QED
      BY <1>2, <1>3, <1>4, SetInduction
  <1>6. Only(s, S) \in Seq(T)
    <2>1. Len(s) \in 0..Len(s)
      BY <1>2
    <2> QED
      BY <1>1, <2>1 DEF KeptTo
  <1> QED
    BY <1>1, <1>2, <1>5, <1>6

-----------------------------------------------------------------------------
(* The oldest shares leave first *)

\* A running sum over all the lots gives the shares of the first n of them.
LEMMA CountedFirst ==
    ASSUME NEW lots \in SomeLots, NEW f, SumsTo(lots, 1..Len(lots), f), NEW n \in 0..Len(lots)
    PROVE  Counted(lots, 1..n) = f[n]
  <1> DEFINE L == Len(lots)
  <1>1. PICK h : SumsTo(lots, 1..n, h) /\ Counted(lots, 1..n) = h[L]
    BY CountedIsTheSum
  <1> DEFINE I == {m \in Nat : m <= L => h[m] = IF m <= n THEN f[m] ELSE f[n]}
  <1>2. L \in Nat /\ n \in Nat /\ n <= L
    BY LotsAre
  <1>3. 0 \in I
    BY <1>1, <1>2 DEF SumsTo
  <1>4. ASSUME NEW m \in Nat, m \in I PROVE m + 1 \in I
    <2>1. SUFFICES ASSUME m + 1 <= L PROVE h[m + 1] = IF m + 1 <= n THEN f[m + 1] ELSE f[n]
      OBVIOUS
    <2>2. /\ m + 1 \in 1..L /\ (m + 1) - 1 = m
          /\ h[m] = IF m <= n THEN f[m] ELSE f[n]
      BY <1>2, <1>4, <2>1
    <2>3. /\ h[m + 1] = h[m] + Added(lots, 1..n, m + 1)
          /\ f[m + 1] = f[m] + Added(lots, 1..L, m + 1)
      BY <1>1, <2>2 DEF SumsTo
    <2>4. h[m] \in Nat /\ f[m] \in Nat
      <3>1. m \in 0..L
        BY <1>2, <2>2
      <3> QED
        BY <1>1, <3>1 DEF SumsTo
    <2>5. CASE m + 1 <= n
      <3>1. Added(lots, 1..n, m + 1) = Added(lots, 1..L, m + 1) /\ h[m] = f[m]
        BY <1>2, <2>2, <2>5 DEF Added
      <3> QED
        BY <2>3, <2>5, <3>1
    <2>6. CASE ~(m + 1 <= n)
      <3>1. Added(lots, 1..n, m + 1) = 0 /\ h[m] = f[n]
        <4>1. m <= n => m = n
          BY <1>2, <2>6
        <4> QED
          BY <1>2, <2>2, <2>6, <4>1 DEF Added
      <3> QED
        BY <2>3, <2>4, <2>6, <3>1
    <2> QED
      BY <2>5, <2>6
  <1>5. L \in I
    <2> HIDE DEF I
    <2> QED
      BY <1>2, <1>3, <1>4, SetInduction
  <1> QED
    BY <1>1, <1>2, <1>5

\* The lots after a sale of q shares, the emptied ones included.
Emptied(lots, q) ==
    [k \in DOMAIN lots |->
        [lots[k] EXCEPT !.qty = @ - Most(0, Least(@, q - Counted(lots, 1..k - 1)))]]

LEMMA EmptiedLots ==
    ASSUME NEW lots \in SomeLots, NEW q \in Nat
    PROVE  /\ Emptied(lots, q) \in SomeLots
           /\ Len(Emptied(lots, q)) = Len(lots)
           /\ \A k \in 1..Len(lots) :
                /\ Emptied(lots, q)[k].at = lots[k].at
                /\ Emptied(lots, q)[k].qty
                     = lots[k].qty - Most(0, Least(lots[k].qty, q - Counted(lots, 1..k - 1)))
                /\ Emptied(lots, q)[k].qty \in 0..lots[k].qty
  <1> DEFINE r == Emptied(lots, q)
             L == Len(lots)
  <1>1. L \in Nat /\ DOMAIN lots = 1..L
    BY LotsAre
  <1>2. ASSUME NEW k \in 1..L
        PROVE  /\ r[k].at = lots[k].at
               /\ r[k].qty = lots[k].qty - Most(0, Least(lots[k].qty, q - Counted(lots, 1..k - 1)))
               /\ r[k].qty \in 0..lots[k].qty
               /\ r[k] \in [qty : Nat, at : Nat]
    <2>1. lots[k] \in [qty : Nat, at : Nat] /\ lots[k].qty \in Nat /\ lots[k].at \in Nat
      BY LotsAre
    <2>2. PICK b : b = Counted(lots, 1..k - 1)
      OBVIOUS
    <2>3. b \in Nat
      BY <2>2, CountedIsNatural
    <2>4. r[k] = [lots[k] EXCEPT !.qty = lots[k].qty - Most(0, Least(lots[k].qty, q - b))]
      BY <1>1, <2>2 DEF Emptied
    <2>5. lots[k].qty - Most(0, Least(lots[k].qty, q - b)) \in 0..lots[k].qty
      BY <2>1, <2>3 DEF Most, Least
    <2>6. /\ r[k].at = lots[k].at
          /\ r[k].qty = lots[k].qty - Most(0, Least(lots[k].qty, q - b))
      BY <2>1, <2>4
    <2>7. r[k] \in [qty : Nat, at : Nat]
      BY <2>1, <2>4, <2>5
    <2> QED
      BY <2>2, <2>5, <2>6, <2>7
  <1>3. r \in [1..L -> [qty : Nat, at : Nat]]
    <2>1. \A k \in 1..L : r[k] \in [qty : Nat, at : Nat]
      BY <1>2
    <2>2. r = [k \in 1..L |-> r[k]]
      BY <1>1 DEF Emptied
    <2> HIDE DEF r
    <2> QED
      BY <2>1, <2>2
  <1>4. r \in SomeLots /\ Len(r) = L
    <2> HIDE DEF r
    <2>1. r \in Seq([qty : Nat, at : Nat])
      BY <1>1, <1>3, FunctionsAreSequences
    <2>2. Len(r) = L
      BY <1>1, <1>3, <2>1, LenProperties
    <2> QED
      BY <2>1, <2>2 DEF SomeLots
  <1> QED
    BY <1>2, <1>4

\* q shares less, or none at all.
LEMMA EmptiedShares ==
    ASSUME NEW lots \in SomeLots, NEW q \in Nat
    PROVE  Counted(Emptied(lots, q), 1..Len(lots)) = Most(0, Counted(lots, 1..Len(lots)) - q)
  <1> DEFINE r == Emptied(lots, q)
             L == Len(lots)
  <1>1. /\ r \in SomeLots /\ Len(r) = L
        /\ \A k \in 1..L :
             /\ r[k].qty = lots[k].qty - Most(0, Least(lots[k].qty, q - Counted(lots, 1..k - 1)))
    BY EmptiedLots
  <1> HIDE DEF r
  <1>2. PICK f : SumsTo(lots, 1..L, f) /\ Counted(lots, 1..L) = f[L]
    BY CountedIsTheSum
  <1>3. PICK g : SumsTo(r, 1..L, g) /\ Counted(r, 1..L) = g[L]
    BY <1>1, CountedIsTheSum
  <1>4. L \in Nat /\ \A n \in 1..L : lots[n].qty \in Nat
    BY LotsAre
  <1> DEFINE I == {n \in Nat : n <= L => g[n] = Most(0, f[n] - q)}
  <1>5. 0 \in I
    BY <1>2, <1>3 DEF SumsTo, Most
  <1>6. ASSUME NEW n \in Nat, n \in I PROVE n + 1 \in I
    <2>1. SUFFICES ASSUME n + 1 <= L PROVE g[n + 1] = Most(0, f[n + 1] - q)
      OBVIOUS
    <2>2. n \in 0..L /\ n + 1 \in 1..L /\ (n + 1) - 1 = n /\ g[n] = Most(0, f[n] - q)
      BY <1>4, <1>6, <2>1
    <2>3. /\ f[n + 1] = f[n] + lots[n + 1].qty
          /\ g[n + 1] = g[n] + r[n + 1].qty
      BY <1>1, <1>2, <1>3, <2>2 DEF SumsTo, Added
    <2>4. Counted(lots, 1..n) = f[n]
      BY <1>2, <2>2, CountedFirst
    <2>5. r[n + 1].qty = lots[n + 1].qty - Most(0, Least(lots[n + 1].qty, q - f[n]))
      BY <1>1, <2>2, <2>4
    <2>6. lots[n + 1].qty \in Nat /\ f[n] \in Nat
      BY <1>2, <1>4, <2>2 DEF SumsTo
    <2>7. PICK x \in Nat, y \in Nat : x = lots[n + 1].qty /\ y = f[n]
      BY <2>6
    <2>8. Most(0, y - q) + (x - Most(0, Least(x, q - y))) = Most(0, (y + x) - q)
      BY DEF Most, Least
    <2> QED
      BY <2>2, <2>3, <2>5, <2>7, <2>8
  <1>7. L \in I
    <2> HIDE DEF I
    <2> QED
      BY <1>4, <1>5, <1>6, SetInduction
  <1>8. Counted(r, 1..L) = Most(0, Counted(lots, 1..L) - q)
    BY <1>2, <1>3, <1>4, <1>7
  <1> QED
    BY <1>8 DEF r

\* The emptied lots count for nothing.
LEMMA OnlyShares ==
    ASSUME NEW lots \in SomeLots
    PROVE  LET left1 == Only(lots, {l \in Range(lots) : l.qty > 0})
           IN Counted(left1, 1..Len(left1)) = Counted(lots, 1..Len(lots))
  <1> DEFINE T == [qty : Nat, at : Nat]
             S == {l \in Range(lots) : l.qty > 0}
             L == Len(lots)
  <1>1. lots \in Seq(T)
    BY DEF SomeLots
  <1>2. PICK f : KeptTo(lots, S, T, f) /\ Only(lots, S) = f[L]
    BY <1>1, OnlyIsWhatIsKept
  <1>3. PICK g : SumsTo(lots, 1..L, g) /\ Counted(lots, 1..L) = g[L]
    BY CountedIsTheSum
  <1>4. /\ L \in Nat /\ DOMAIN lots = 1..L
        /\ \A n \in 1..L : lots[n].qty \in Nat /\ lots[n] \in T
    BY LotsAre
  <1>5. \A n \in 1..L : lots[n] \in S <=> lots[n].qty > 0
    BY <1>4 DEF Range
  <1> HIDE DEF S, T
  <1> DEFINE I == {n \in Nat : n <= L => Counted(f[n], 1..Len(f[n])) = g[n]}
  <1>6. ASSUME NEW n \in 0..L PROVE f[n] \in SomeLots /\ Len(f[n]) \in Nat
    <2>1. f[n] \in SomeLots
      BY <1>2 DEF KeptTo, SomeLots, T
    <2> QED
      BY <2>1, LotsAre
  <1>7. 0 \in I
    <2>1. f[0] = <<>> /\ g[0] = 0 /\ Len(<<>>) = 0 /\ <<>> \in SomeLots
      BY <1>2, <1>3, <1>4, <1>6 DEF KeptTo, SumsTo
    <2>2. Counted(<<>>, 1..Len(<<>>)) = 0
      BY <2>1, CountedNone
    <2> QED
      BY <2>1, <2>2
  <1>8. ASSUME NEW n \in Nat, n \in I PROVE n + 1 \in I
    <2>1. SUFFICES ASSUME n + 1 <= L PROVE Counted(f[n + 1], 1..Len(f[n + 1])) = g[n + 1]
      OBVIOUS
    <2>2. /\ n \in 0..L /\ n + 1 \in 1..L /\ (n + 1) - 1 = n
          /\ Counted(f[n], 1..Len(f[n])) = g[n]
      BY <1>4, <1>8, <2>1
    <2>3. f[n + 1] = KeptNext(lots, S, f, n + 1) /\ g[n + 1] = g[n] + lots[n + 1].qty
      BY <1>2, <1>3, <2>2 DEF KeptTo, SumsTo, Added
    <2>4. g[n] \in Nat /\ lots[n + 1].qty \in Nat /\ lots[n + 1] \in T
      BY <1>3, <1>4, <2>2 DEF SumsTo
    <2>5. CASE lots[n + 1].qty = 0
      <3>1. f[n + 1] = f[n]
        BY <1>5, <2>2, <2>3, <2>5 DEF KeptNext
      <3> QED
        BY <2>2, <2>3, <2>4, <2>5, <3>1
    <2>6. CASE lots[n + 1].qty > 0
      <3> DEFINE M == Len(f[n])
                 l == lots[n + 1]
      <3>1. f[n + 1] = Append(f[n], l)
        BY <1>5, <2>2, <2>3, <2>6 DEF KeptNext
      <3>2. f[n] \in SomeLots /\ M \in Nat /\ l \in [qty : Nat, at : Nat]
        BY <1>6, <2>2, <2>4 DEF T
      <3>3. Len(f[n + 1]) = M + 1
        BY <3>1, <3>2, AppendLots
      <3>4. Counted(Append(f[n], l), 1..(M + 1))
              = Counted(f[n], 1..(M + 1)) + (IF M + 1 \in 1..(M + 1) THEN l.qty ELSE 0)
        BY <3>2, CountedAppend
      <3>5. Counted(f[n], 1..(M + 1)) = Counted(f[n], 1..M)
        <4>1. \A i \in 1..Len(f[n]) : i \in 1..(M + 1) <=> i \in 1..M
          BY <3>2
        <4> QED
          BY <3>2, <4>1, CountedAlike
      <3>6. M + 1 \in 1..(M + 1)
        BY <3>2
      <3> QED
        BY <2>2, <2>3, <3>1, <3>3, <3>4, <3>5, <3>6
    <2> QED
      BY <2>4, <2>5, <2>6
  <1>9. L \in I
    <2> HIDE DEF I
    <2> QED
      BY <1>4, <1>7, <1>8, SetInduction
  <1>10. Counted(Only(lots, S), 1..Len(Only(lots, S))) = Counted(lots, 1..L)
    BY <1>2, <1>3, <1>4, <1>9
  <1> QED
    BY <1>10 DEF S

\* The lots of a position: some shares each, one lot a session, the oldest first.
GoodLots(lots) ==
    /\ lots \in Seq(Lot)
    /\ \A i, j \in 1..Len(lots) : i < j => lots[i].at < lots[j].at

LEMMA GoodLotsAre ==
    ASSUME NEW lots, GoodLots(lots)
    PROVE  /\ lots \in SomeLots
           /\ Len(lots) \in Nat /\ DOMAIN lots = 1..Len(lots)
           /\ \A n \in 1..Len(lots) :
                lots[n] \in Lot /\ lots[n].qty \in Nat \ {0} /\ lots[n].at \in Nat
           /\ \A i, j \in 1..Len(lots) : lots[i].at = lots[j].at => i = j
  <1>1. lots \in Seq(Lot) /\ Lot \subseteq [qty : Nat, at : Nat]
    BY DEF GoodLots, Lot
  <1>2. lots \in Seq([qty : Nat, at : Nat])
    BY <1>1, SeqMonotonic
  <1>3. Len(lots) \in Nat /\ DOMAIN lots = 1..Len(lots)
    BY <1>1, LenProperties
  <1>4. \A n \in 1..Len(lots) : lots[n] \in Lot
    BY <1>1, ElementOfSeq
  <1>5. \A l \in Lot : l.qty \in Nat \ {0} /\ l.at \in Nat
    BY DEF Lot
  <1>6. ASSUME NEW i \in 1..Len(lots), NEW j \in 1..Len(lots), lots[i].at = lots[j].at PROVE i = j
    <2>1. lots[i].at \in Nat
      BY <1>4, <1>5
    <2>2. ~(i < j) /\ ~(j < i)
      BY <1>6, <2>1 DEF GoodLots
    <2> QED
      BY <1>3, <2>2
  <1> QED
    BY <1>2, <1>3, <1>4, <1>5, <1>6 DEF SomeLots

LEMMA NoLotsAreGood == GoodLots(<<>>)
  BY EmptySeq DEF GoodLots

\* A lot more, of a later session.
LEMMA MoreLotsAreGood ==
    ASSUME NEW lots, GoodLots(lots), NEW l \in Lot, \A n \in 1..Len(lots) : lots[n].at < l.at
    PROVE  /\ GoodLots(Append(lots, l))
           /\ Len(Append(lots, l)) = Len(lots) + 1
           /\ \A n \in 1..Len(lots) : Append(lots, l)[n] = lots[n]
           /\ Append(lots, l)[Len(lots) + 1] = l
  <1> DEFINE m == Append(lots, l)
  <1>1. /\ m \in Seq(Lot) /\ Len(m) = Len(lots) + 1
        /\ \A n \in 1..Len(lots) : m[n] = lots[n]
        /\ m[Len(lots) + 1] = l
    BY AppendProperties DEF GoodLots
  <1> HIDE DEF m
  <1>2. ASSUME NEW i \in 1..Len(m), NEW j \in 1..Len(m), i < j PROVE m[i].at < m[j].at
    <2>0. Len(lots) \in Nat
      BY GoodLotsAre
    <2>1. i \in 1..Len(lots) /\ (j \in 1..Len(lots) \/ j = Len(lots) + 1)
      BY <1>1, <1>2, <2>0
    <2> QED
      BY <1>1, <1>2, <2>1 DEF GoodLots
  <1>3. GoodLots(m)
    BY <1>1, <1>2 DEF GoodLots
  <1> QED
    BY <1>1, <1>3 DEF m

\* out is what is left of the lots when their shares have become those of r: e says
\* which lot each of the remaining ones was.
Remains(e, out, lots, r) ==
    /\ e \in [1..Len(out) -> 1..Len(lots)]
    /\ \A i \in 1..Len(out) : out[i].at = lots[e[i]].at /\ out[i].qty = r[e[i]].qty
    /\ \A k \in 1..Len(lots) : r[k].qty > 0 => \E i \in 1..Len(out) : e[i] = k

\* remove.
LEMMA RemovedLots ==
    ASSUME NEW lots, GoodLots(lots), NEW q \in Nat
    PROVE  /\ GoodLots(Removed(lots, q))
           /\ Shares(Removed(lots, q)) = Most(0, Shares(lots) - q)
           /\ \E e : Remains(e, Removed(lots, q), lots, Emptied(lots, q))
  <1> DEFINE r == Emptied(lots, q)
             L == Len(lots)
             S == {l \in Range(r) : l.qty > 0}
             out == Removed(lots, q)
  <1>1. /\ lots \in SomeLots /\ L \in Nat /\ DOMAIN lots = 1..L
        /\ \A n \in 1..L : lots[n].qty \in Nat \ {0} /\ lots[n].at \in Nat
    BY GoodLotsAre
  <1>2. /\ r \in SomeLots /\ Len(r) = L
        /\ \A k \in 1..L : r[k].at = lots[k].at /\ r[k].qty \in 0..lots[k].qty
    BY <1>1, EmptiedLots
  <1>3. out = Only(r, S)
    BY DEF Removed, Emptied
  <1>4. DOMAIN r = 1..L /\ \A n \in 1..L : r[n] \in [qty : Nat, at : Nat]
    BY <1>2, LotsAre
  <1>5. \A n \in 1..L : r[n] \in S <=> r[n].qty > 0
    BY <1>4 DEF Range
  <1>6. r \in Seq([qty : Nat, at : Nat])
    BY <1>2 DEF SomeLots
  <1>7. Counted(r, 1..L) = Most(0, Counted(lots, 1..L) - q)
    BY <1>1, EmptiedShares
  <1>8. Counted(Only(r, S), 1..Len(Only(r, S))) = Counted(r, 1..L)
    BY <1>2, OnlyShares
  <1> HIDE DEF r, S, out
  <1>9. out \in Seq([qty : Nat, at : Nat]) /\ \E e : Picks(e, out, r, S, Len(r))
    BY <1>3, <1>6, OnlyPicks
  <1>10. PICK e : Picks(e, out, r, S, L)
    BY <1>2, <1>9
  <1>11. out \in SomeLots
    BY <1>9 DEF SomeLots
  <1>12. /\ Len(out) \in Nat /\ DOMAIN out = 1..Len(out)
         /\ \A n \in 1..Len(out) : out[n] \in [qty : Nat, at : Nat]
    BY <1>11, LotsAre
  <1>13. ASSUME NEW i \in 1..Len(out)
         PROVE  e[i] \in 1..L /\ out[i] = r[e[i]] /\ out[i].at = lots[e[i]].at /\ out[i].qty > 0
    <2>1. e[i] \in 1..L /\ out[i] = r[e[i]] /\ r[e[i]] \in S
      BY <1>10 DEF Picks
    <2> QED
      BY <1>2, <1>5, <2>1
  <1>14. \A i, j \in 1..Len(out) : i < j => out[i].at < out[j].at
    <2>1. SUFFICES ASSUME NEW i \in 1..Len(out), NEW j \in 1..Len(out), i < j
                   PROVE  out[i].at < out[j].at
      OBVIOUS
    <2>2. e[i] < e[j]
      BY <1>10, <2>1 DEF Picks
    <2> QED
      BY <1>13, <2>2 DEF GoodLots
  <1>15. \A i \in 1..Len(out) : out[i] \in Lot
    BY <1>12, <1>13 DEF Lot
  <1>16. out \in Seq(Lot)
    <2>1. out \in [1..Len(out) -> [qty : Nat, at : Nat]]
      BY <1>9, LenProperties
    <2>2. out \in [1..Len(out) -> Lot]
      BY <1>15, <2>1
    <2> QED
      BY <1>12, <2>2, FunctionsAreSequences
  <1>17. GoodLots(out)
    BY <1>14, <1>16 DEF GoodLots
  <1>18. Shares(out) = Most(0, Shares(lots) - q)
    BY <1>1, <1>3, <1>7, <1>8, <1>12 DEF Shares
  <1>19. e \in [1..Len(out) -> 1..L]
    BY <1>10 DEF Picks
  <1>20. \A k \in 1..L : r[k].qty > 0 => \E i \in 1..Len(out) : e[i] = k
    BY <1>5, <1>10 DEF Picks
  <1>21. \A i \in 1..Len(out) : out[i].at = lots[e[i]].at /\ out[i].qty = r[e[i]].qty
    BY <1>13
  <1>22. Remains(e, out, lots, r)
    BY <1>19, <1>20, <1>21 DEF Remains
  <1> QED
    BY <1>17, <1>18, <1>22 DEF out, r

\* What a position holds of one session.
On(lots, d) == Counted(lots, {k \in DOMAIN lots : lots[k].at = d})

LEMMA OnALot ==
    ASSUME NEW lots, GoodLots(lots), NEW k \in 1..Len(lots)
    PROVE  On(lots, lots[k].at) = lots[k].qty
  <1> DEFINE K == {n \in DOMAIN lots : lots[n].at = lots[k].at}
  <1>1. lots \in SomeLots /\ \A n \in 1..Len(lots) : n \in K <=> n = k
    BY GoodLotsAre
  <1> HIDE DEF K
  <1>2. Counted(lots, K) = lots[k].qty
    BY <1>1, CountedOne
  <1> QED
    BY <1>2 DEF On, K

LEMMA OnNoLot ==
    ASSUME NEW lots, GoodLots(lots), NEW d, \A k \in 1..Len(lots) : lots[k].at # d
    PROVE  On(lots, d) = 0
  <1> DEFINE K == {n \in DOMAIN lots : lots[n].at = d}
  <1>1. lots \in SomeLots /\ \A n \in 1..Len(lots) : n \notin K
    BY GoodLotsAre
  <1> HIDE DEF K
  <1>2. Counted(lots, K) = 0
    BY <1>1, CountedNone
  <1> QED
    BY <1>2 DEF On, K

LEMMA OnIsNatural ==
    ASSUME NEW lots, GoodLots(lots), NEW d
    PROVE  On(lots, d) \in Nat
  BY GoodLotsAre, CountedIsNatural DEF On

LEMMA OnRemoved ==
    ASSUME NEW lots, GoodLots(lots), NEW q \in Nat
    PROVE  /\ \A k \in 1..Len(lots) :
                On(Removed(lots, q), lots[k].at) = Emptied(lots, q)[k].qty
           /\ \A d : (\A k \in 1..Len(lots) : lots[k].at # d) => On(Removed(lots, q), d) = 0
  <1> DEFINE r == Emptied(lots, q)
             L == Len(lots)
             out == Removed(lots, q)
  <1>0. PICK e : Remains(e, out, lots, r)
    BY RemovedLots
  <1>1. /\ e \in [1..Len(out) -> 1..L]
        /\ \A i \in 1..Len(out) : out[i].at = lots[e[i]].at /\ out[i].qty = r[e[i]].qty
        /\ \A k \in 1..L : r[k].qty > 0 => \E i \in 1..Len(out) : e[i] = k
    <2> HIDE DEF out, r
    <2> QED
      BY <1>0 DEF Remains
  <1>2. GoodLots(out)
    BY RemovedLots
  <1>3. \A k \in 1..L : r[k].qty \in Nat
    BY GoodLotsAre, EmptiedLots
  <1> HIDE DEF r, out
  <1>4. ASSUME NEW k \in 1..L PROVE On(out, lots[k].at) = r[k].qty
    <2>1. CASE \E i \in 1..Len(out) : e[i] = k
      <3>1. PICK i \in 1..Len(out) : e[i] = k
        BY <2>1
      <3>2. out[i].at = lots[k].at /\ out[i].qty = r[k].qty
        BY <1>1, <3>1
      <3> QED
        BY <1>2, <3>2, OnALot
    <2>2. CASE ~\E i \in 1..Len(out) : e[i] = k
      <3>1. r[k].qty = 0
        BY <1>1, <1>3, <2>2
      <3>2. ASSUME NEW i \in 1..Len(out) PROVE out[i].at # lots[k].at
        <4>1. e[i] \in 1..L /\ e[i] # k /\ out[i].at = lots[e[i]].at
          BY <1>1, <2>2
        <4> QED
          BY <4>1, GoodLotsAre
      <3> QED
        BY <1>2, <3>1, <3>2, OnNoLot
    <2> QED
      BY <2>1, <2>2
  <1>5. ASSUME NEW d, \A k \in 1..L : lots[k].at # d PROVE On(out, d) = 0
    <2>1. \A i \in 1..Len(out) : out[i].at # d
      BY <1>1, <1>5
    <2> QED
      BY <1>2, <2>1, OnNoLot
  <1> QED
    BY <1>4, <1>5 DEF out, r

LEMMA Naturals1 ==
    /\ End \in Nat /\ Capital \in Nat /\ SETTLE \in Nat /\ BAND \in Nat /\ SLIP \in Nat
    /\ FEE \in Nat /\ TAX \in Nat /\ THRESHOLD \in Nat /\ MAX_SELL \in Nat /\ COOLDOWN \in Nat
    /\ LOT \in Nat \ {0} /\ MAX_POSITIONS \in Nat \ {0}
    /\ FEE + TAX < 1000 /\ T1_PERCENT \in 0..99 /\ KILL \in 1..100
  BY EngineAssumption

-----------------------------------------------------------------------------
(* Settled shares *)

LEMMA SharesAre ==
    ASSUME NEW lots, GoodLots(lots)
    PROVE  /\ Shares(lots) \in Nat
           /\ Shares(lots) = 0 <=> lots = <<>>
           /\ \A k \in 1..Len(lots) : lots[k].qty <= Shares(lots)
  <1> DEFINE L == Len(lots)
  <1>1. /\ lots \in SomeLots /\ L \in Nat /\ DOMAIN lots = 1..L
        /\ \A n \in 1..L : lots[n].qty \in Nat \ {0}
    BY GoodLotsAre
  <1>2. Shares(lots) = Counted(lots, 1..L)
    BY <1>1 DEF Shares
  <1>3. Shares(lots) \in Nat
    BY <1>1, <1>2, CountedIsNatural
  <1>4. ASSUME NEW k \in 1..L PROVE lots[k].qty <= Shares(lots)
    <2>1. Counted(lots, {}) + lots[k].qty <= Counted(lots, 1..L)
      BY <1>1, CountedMore
    <2>2. Counted(lots, {}) \in Nat
      BY <1>1, CountedIsNatural
    <2> QED
      BY <1>1, <1>2, <1>3, <2>1, <2>2
  <1>5. lots # <<>> => Shares(lots) # 0
    <2>1. lots # <<>> => 1 \in 1..L
      <3>1. lots # <<>> => L # 0
        BY EmptySeq, GoodLotsAre DEF GoodLots
      <3> QED
        BY <1>1, <3>1
    <2> QED
      BY <1>1, <1>3, <1>4, <2>1
  <1>6. lots = <<>> => Shares(lots) = 0
    <2>1. lots = <<>> => \A n \in 1..L : n \notin 1..L
      OBVIOUS
    <2>2. lots = <<>> => Counted(lots, 1..L) = 0
      BY <1>1, <2>1, CountedNone
    <2> QED
      BY <1>2, <2>2
  <1> QED
    BY <1>3, <1>4, <1>5, <1>6

Settled(lots, k, i) == i - lots[k].at >= SETTLE

LEMMA SellableAre ==
    ASSUME NEW lots, GoodLots(lots), NEW i \in Nat
    PROVE  /\ Sellable(lots, i) \in Nat
           /\ Sellable(lots, i) <= Shares(lots)
           /\ \A k \in 1..Len(lots) : Settled(lots, k, i) => Sellable(lots, i) > 0
           /\ \A k \in 1..Len(lots) : ~Settled(lots, k, i) =>
                 /\ Sellable(lots, i) < Shares(lots)
                 /\ Sellable(lots, i) <= Counted(lots, 1..k - 1)
           /\ \A k \in 1..Len(lots) : Settled(lots, k, i) =>
                 Counted(lots, 1..k - 1) + lots[k].qty <= Sellable(lots, i)
           /\ Sellable(lots, i) > 0 => lots # <<>>
  <1> DEFINE L == Len(lots)
             K == {k \in DOMAIN lots : i - lots[k].at >= SETTLE}
  <1>1. /\ lots \in SomeLots /\ L \in Nat /\ DOMAIN lots = 1..L
        /\ \A n \in 1..L : lots[n].qty \in Nat \ {0} /\ lots[n].at \in Nat
    BY GoodLotsAre
  <1>2. Shares(lots) = Counted(lots, 1..L) /\ Sellable(lots, i) = Counted(lots, K)
    BY <1>1 DEF Shares, Sellable
  <1>3. \A k \in 1..L : k \in K <=> Settled(lots, k, i)
    BY <1>1 DEF Settled
  <1>4. \A k, n \in 1..L : k < n => lots[k].at < lots[n].at
    BY DEF GoodLots
  <1>5. \A k, n \in 1..L : k < n /\ Settled(lots, n, i) => Settled(lots, k, i)
    BY <1>1, <1>4, Naturals1 DEF Settled
  <1> HIDE DEF K
  <1>6. Sellable(lots, i) \in Nat /\ Sellable(lots, i) <= Shares(lots)
    <2>1. Counted(lots, K) <= Counted(lots, 1..L)
      BY <1>1, CountedNoLess
    <2> QED
      BY <1>1, <1>2, <2>1, CountedIsNatural
  <1>7. ASSUME NEW k \in 1..L, ~Settled(lots, k, i)
        PROVE  /\ Sellable(lots, i) < Shares(lots)
               /\ Sellable(lots, i) <= Counted(lots, 1..k - 1)
    <2>1. Counted(lots, K) + lots[k].qty <= Counted(lots, 1..L)
      BY <1>1, <1>3, <1>7, CountedMore
    <2>2. \A n \in 1..L : n \in K => n \in 1..k - 1
      <3>1. ASSUME NEW n \in 1..L, n \in K PROVE n < k
        <4>1. Settled(lots, n, i)
          BY <1>3, <3>1
        <4>2. n # k /\ ~(k < n)
          BY <1>5, <1>7, <4>1
        <4> QED
          BY <1>1, <4>2
      <3> QED
        BY <1>1, <3>1
    <2>3. Counted(lots, K) <= Counted(lots, 1..k - 1)
      BY <1>1, <2>2, CountedNoLess
    <2>4. Counted(lots, K) \in Nat /\ Counted(lots, 1..L) \in Nat /\ lots[k].qty \in Nat \ {0}
      BY <1>1, CountedIsNatural
    <2> QED
      BY <1>2, <2>1, <2>3, <2>4
  <1>8. ASSUME NEW k \in 1..L, Settled(lots, k, i)
        PROVE  Counted(lots, 1..k - 1) + lots[k].qty <= Sellable(lots, i)
    <2>1. \A n \in 1..L : n \in 1..k - 1 => n \in K
      BY <1>1, <1>3, <1>5, <1>8
    <2>2. k \in K /\ k \notin 1..k - 1
      BY <1>3, <1>8
    <2> QED
      BY <1>1, <1>2, <2>1, <2>2, CountedMore
  <1>9. ASSUME NEW k \in 1..L, Settled(lots, k, i) PROVE Sellable(lots, i) > 0
    BY <1>1, <1>6, <1>8, <1>9, CountedIsNatural
  <1>10. Sellable(lots, i) > 0 => lots # <<>>
    BY <1>6, SharesAre
  <1> QED
    BY <1>6, <1>7, <1>8, <1>9, <1>10

LEMMA EmptiedOldestFirst ==
    ASSUME NEW lots, GoodLots(lots), NEW q \in Nat, NEW k \in 1..Len(lots)
    PROVE  /\ Emptied(lots, q)[k].qty \in Nat /\ Emptied(lots, q)[k].qty <= lots[k].qty
           /\ Emptied(lots, q)[k].qty < lots[k].qty =>
                \A n \in 1..Len(lots) : n < k => Emptied(lots, q)[n].qty = 0
           /\ q <= Counted(lots, 1..k - 1) => Emptied(lots, q)[k].qty = lots[k].qty
           /\ Counted(lots, 1..k - 1) + lots[k].qty <= q => Emptied(lots, q)[k].qty = 0
           /\ k = 1 /\ q > 0 => Emptied(lots, q)[k].qty < lots[k].qty
  <1> DEFINE r == Emptied(lots, q)
             L == Len(lots)
             b(n) == Counted(lots, 1..n - 1)
  <1>1. /\ lots \in SomeLots /\ L \in Nat
        /\ \A n \in 1..L : lots[n].qty \in Nat \ {0}
    BY GoodLotsAre
  <1>2. \A n \in 1..L :
           /\ r[n].qty = lots[n].qty - Most(0, Least(lots[n].qty, q - b(n)))
           /\ r[n].qty \in 0..lots[n].qty
    BY <1>1, EmptiedLots
  <1>3. \A n \in 1..L : b(n) \in Nat
    BY <1>1, CountedIsNatural
  <1>4. ASSUME NEW n \in 1..L, n < k PROVE b(n) + lots[n].qty <= b(k)
    <2>1. /\ \A m \in 1..L : m \in 1..n - 1 => m \in 1..k - 1
          /\ n \in 1..k - 1 /\ n \notin 1..n - 1
      BY <1>1, <1>4
    <2> QED
      BY <1>1, <2>1, CountedMore
  <1>5. k = 1 => b(k) = 0
    <2>1. k = 1 => \A n \in 1..L : n \notin 1..k - 1
      OBVIOUS
    <2> QED
      BY <1>1, <2>1, CountedNone
  <1> HIDE DEF r, b
  <1>6. ASSUME r[k].qty < lots[k].qty, NEW n \in 1..L, n < k PROVE r[n].qty = 0
    <2>1. b(k) < q
      BY <1>1, <1>2, <1>3, <1>6 DEF Most, Least
    <2>2. b(n) + lots[n].qty <= b(k) /\ b(n) \in Nat /\ b(k) \in Nat /\ lots[n].qty \in Nat
      BY <1>1, <1>3, <1>4, <1>6
    <2>3. r[n].qty = lots[n].qty - Most(0, Least(lots[n].qty, q - b(n)))
      BY <1>2
    <2> QED
      BY <2>1, <2>2, <2>3 DEF Most, Least
  <1>7. /\ r[k].qty \in Nat /\ r[k].qty <= lots[k].qty
        /\ q <= b(k) => r[k].qty = lots[k].qty
        /\ b(k) + lots[k].qty <= q => r[k].qty = 0
        /\ k = 1 /\ q > 0 => r[k].qty < lots[k].qty
    BY <1>1, <1>2, <1>3, <1>5 DEF Most, Least
  <1> QED
    BY <1>6, <1>7 DEF r, b

\* What the account asks of a sale, of one position: only settled shares leave, and no
\* share while an older one stays.
OldestFirst(lots, new, i) ==
    \A d \in Nat :
        /\ On(new, d) \in Nat /\ On(lots, d) \in Nat /\ On(new, d) <= On(lots, d)
        /\ On(new, d) < On(lots, d) =>
              d + SETTLE <= i /\ \A e \in Nat : e < d => On(new, e) = 0

LEMMA RemovedOldestFirst ==
    ASSUME NEW lots, GoodLots(lots), NEW i \in Nat, NEW q \in Nat, q <= Sellable(lots, i)
    PROVE  /\ OldestFirst(lots, Removed(lots, q), i)
           /\ q = 0 => \A d \in Nat : On(Removed(lots, q), d) = On(lots, d)
           /\ q > 0 => /\ lots # <<>> /\ 1 \in 1..Len(lots)
                       /\ On(Removed(lots, q), lots[1].at) < On(lots, lots[1].at)
  <1> DEFINE r == Emptied(lots, q)
             L == Len(lots)
             out == Removed(lots, q)
  <1>1. /\ lots \in SomeLots /\ L \in Nat
        /\ \A n \in 1..L : lots[n].qty \in Nat \ {0} /\ lots[n].at \in Nat
    BY GoodLotsAre
  <1>2. /\ \A k \in 1..L : On(out, lots[k].at) = r[k].qty
        /\ \A d : (\A k \in 1..L : lots[k].at # d) => On(out, d) = 0
    BY OnRemoved
  <1>3. \A k \in 1..L : On(lots, lots[k].at) = lots[k].qty
    BY OnALot
  <1>4. \A d \in Nat : On(out, d) \in Nat /\ On(lots, d) \in Nat
    BY RemovedLots, OnIsNatural
  <1>5. \A k \in 1..L :
          /\ r[k].qty \in Nat /\ r[k].qty <= lots[k].qty
          /\ r[k].qty < lots[k].qty => \A n \in 1..L : n < k => r[n].qty = 0
          /\ q <= Counted(lots, 1..k - 1) => r[k].qty = lots[k].qty
          /\ k = 1 /\ q > 0 => r[k].qty < lots[k].qty
    BY EmptiedOldestFirst
  <1>6. \A k \in 1..L : Counted(lots, 1..k - 1) \in Nat
    BY <1>1, CountedIsNatural
  <1> HIDE DEF r, out
  <1>7. ASSUME NEW k \in 1..L, r[k].qty < lots[k].qty
        PROVE  lots[k].at + SETTLE <= i /\ \A e \in Nat : e < lots[k].at => On(out, e) = 0
    <2>1. Settled(lots, k, i)
      <3>1. ~Settled(lots, k, i) => q <= Counted(lots, 1..k - 1)
        BY <1>6, SellableAre
      <3> QED
        BY <1>5, <1>7, <3>1
    <2>2. lots[k].at + SETTLE <= i
      BY <1>1, <2>1, Naturals1 DEF Settled
    <2>3. ASSUME NEW e \in Nat, e < lots[k].at PROVE On(out, e) = 0
      <3>1. CASE \A n \in 1..L : lots[n].at # e
        BY <1>2, <3>1
      <3>2. ASSUME NEW n \in 1..L, lots[n].at = e PROVE On(out, e) = 0
        <4>1. n < k
          <5>1. n # k /\ ~(k < n)
            BY <1>1, <2>3, <3>2 DEF GoodLots
          <5> QED
            BY <1>1, <5>1
        <4>2. r[n].qty = 0
          BY <1>5, <1>7, <4>1
        <4> QED
          BY <1>2, <3>2, <4>2
      <3> QED
        BY <3>1, <3>2
    <2> QED
      BY <2>2, <2>3
  <1>8. OldestFirst(lots, out, i)
    <2>1. SUFFICES ASSUME NEW d \in Nat
                   PROVE  /\ On(out, d) <= On(lots, d)
                          /\ On(out, d) < On(lots, d) =>
                                d + SETTLE <= i /\ \A e \in Nat : e < d => On(out, e) = 0
      BY <1>4 DEF OldestFirst
    <2>2. CASE \A n \in 1..L : lots[n].at # d
      <3>1. On(out, d) = 0 /\ On(lots, d) = 0
        BY <1>2, <2>2, OnNoLot
      <3> QED
        BY <3>1
    <2>3. ASSUME NEW n \in 1..L, lots[n].at = d
          PROVE  /\ On(out, d) <= On(lots, d)
                 /\ On(out, d) < On(lots, d) =>
                       d + SETTLE <= i /\ \A e \in Nat : e < d => On(out, e) = 0
      <3>1. On(out, d) = r[n].qty /\ On(lots, d) = lots[n].qty
        BY <1>2, <1>3, <2>3
      <3> QED
        BY <1>5, <1>7, <2>3, <3>1
    <2> QED
      BY <2>2, <2>3
  <1>9. ASSUME q = 0, NEW d \in Nat PROVE On(out, d) = On(lots, d)
    <2>1. CASE \A n \in 1..L : lots[n].at # d
      BY <1>2, <2>1, OnNoLot
    <2>2. ASSUME NEW n \in 1..L, lots[n].at = d PROVE On(out, d) = On(lots, d)
      <3>1. On(out, d) = r[n].qty /\ On(lots, d) = lots[n].qty
        BY <1>2, <1>3, <2>2
      <3>2. q <= Counted(lots, 1..n - 1)
        BY <1>6, <1>9
      <3> QED
        BY <1>5, <3>1, <3>2
    <2> QED
      BY <2>1, <2>2
  <1>10. ASSUME q > 0
         PROVE  lots # <<>> /\ 1 \in 1..L /\ On(out, lots[1].at) < On(lots, lots[1].at)
    <2>1. lots # <<>>
      <3>1. Sellable(lots, i) \in Nat /\ (Sellable(lots, i) > 0 => lots # <<>>)
        BY SellableAre
      <3> QED
        BY <1>10, <3>1
    <2>2. 1 \in 1..L
      <3>1. L # 0
        BY <2>1, EmptySeq DEF GoodLots
      <3> QED
        BY <1>1, <3>1
    <2> QED
      BY <1>2, <1>3, <1>5, <1>10, <2>1, <2>2
  <1> QED
    BY <1>8, <1>9, <1>10 DEF out

LEMMA SoldOldestFirst ==
    ASSUME NEW p, GoodLots(p.lots), p \in Position, NEW i \in Nat, NEW q \in Nat,
           q <= Sellable(p.lots, i)
    PROVE  /\ GoodLots(Sold(p, q).lots)
           /\ OldestFirst(p.lots, Sold(p, q).lots, i)
           /\ q = 0 => \A d \in Nat : On(Sold(p, q).lots, d) = On(p.lots, d)
           /\ q > 0 => /\ p.lots # <<>> /\ 1 \in 1..Len(p.lots)
                       /\ On(Sold(p, q).lots, p.lots[1].at) < On(p.lots, p.lots[1].at)
  <1> DEFINE lots == p.lots
  <1>1. CASE q >= Shares(lots)
    <2>1. Sold(p, q).lots = <<>>
      BY <1>1 DEF Sold, Flat
    <2>2. \A d \in Nat : On(<<>>, d) = 0
      <3>1. \A n \in 1..Len(<<>>) : FALSE
        OBVIOUS
      <3> QED
        BY <3>1, NoLotsAreGood, OnNoLot
    <2>3. \A d \in Nat : On(lots, d) \in Nat
      BY OnIsNatural
    <2>4. \A k \in 1..Len(lots) : Settled(lots, k, i)
      <3>1. \A k \in 1..Len(lots) : ~Settled(lots, k, i) => Sellable(lots, i) < Shares(lots)
        BY SellableAre
      <3>2. Sellable(lots, i) \in Nat /\ Shares(lots) \in Nat
        BY SellableAre, SharesAre
      <3> QED
        BY <1>1, <3>1, <3>2
    <2>5. ASSUME NEW d \in Nat, On(lots, d) > 0 PROVE d + SETTLE <= i
      <3>1. PICK k \in 1..Len(lots) : lots[k].at = d
        BY <2>5, OnNoLot
      <3>2. Settled(lots, k, i)
        BY <2>4
      <3> QED
        BY <3>1, <3>2, Naturals1 DEF Settled
    <2>6. OldestFirst(lots, <<>>, i)
      <3>1. ASSUME NEW d \in Nat
            PROVE  /\ On(<<>>, d) \in Nat /\ On(lots, d) \in Nat /\ On(<<>>, d) <= On(lots, d)
                   /\ On(<<>>, d) < On(lots, d) => d + SETTLE <= i
        <4>1. On(<<>>, d) = 0
          BY <2>2
        <4>2. On(lots, d) \in Nat
          BY <2>3
        <4>3. On(lots, d) > 0 => d + SETTLE <= i
          BY <2>5
        <4> QED
          BY <4>1, <4>2, <4>3
      <3> QED
        BY <2>2, <3>1 DEF OldestFirst
    <2>7. ASSUME q = 0 PROVE \A d \in Nat : On(lots, d) = 0
      <3>1. lots = <<>>
        BY <1>1, <2>7, SharesAre
      <3> QED
        BY <2>2, <3>1
    <2>8. ASSUME q > 0
          PROVE  lots # <<>> /\ 1 \in 1..Len(lots) /\ On(<<>>, lots[1].at) < On(lots, lots[1].at)
      <3>1. lots # <<>> /\ 1 \in 1..Len(lots) /\ On(Removed(lots, q), lots[1].at) < On(lots, lots[1].at)
        BY <2>8, RemovedOldestFirst
      <3>2. lots[1].at \in Nat
        BY <3>1, GoodLotsAre
      <3>3. On(Removed(lots, q), lots[1].at) \in Nat /\ On(lots, lots[1].at) \in Nat
        BY RemovedLots, OnIsNatural
      <3> QED
        BY <2>2, <3>1, <3>2, <3>3
    <2> QED
      BY <2>1, <2>2, <2>6, <2>7, <2>8, NoLotsAreGood
  <1>2. CASE ~(q >= Shares(lots))
    <2>1. Sold(p, q) = [p EXCEPT !.lots = Removed(lots, q)]
      BY <1>2 DEF Sold
    <2>2. Sold(p, q).lots = Removed(lots, q)
      BY <2>1 DEF Position
    <2> QED
      BY <2>2, RemovedLots, RemovedOldestFirst
  <1> QED
    BY <1>1, <1>2

\* After the sale of all that is settled nothing settled is left, and what is not settled
\* stays whatever is sold.
LEMMA SettledLeave ==
    ASSUME NEW lots, GoodLots(lots), NEW i \in Nat
    PROVE  LET new == Removed(lots, Sellable(lots, i))
           IN \A n \in 1..Len(new) : ~Settled(new, n, i)
  <1> DEFINE q == Sellable(lots, i)
             r == Emptied(lots, q)
             out == Removed(lots, q)
  <1>1. q \in Nat
    BY SellableAre
  <1> HIDE DEF q
  <1>2. PICK e : Remains(e, out, lots, r)
    BY <1>1, RemovedLots
  <1>3. GoodLots(out)
    BY <1>1, RemovedLots
  <1>4. \A k \in 1..Len(lots) : Counted(lots, 1..k - 1) + lots[k].qty <= q => r[k].qty = 0
    BY <1>1, EmptiedOldestFirst
  <1> HIDE DEF r, out
  <1>5. ASSUME NEW n \in 1..Len(out), Settled(out, n, i) PROVE FALSE
    <2>1. e[n] \in 1..Len(lots) /\ out[n].at = lots[e[n]].at /\ out[n].qty = r[e[n]].qty
      BY <1>2 DEF Remains
    <2>2. Settled(lots, e[n], i)
      BY <1>5, <2>1 DEF Settled
    <2>3. Counted(lots, 1..e[n] - 1) + lots[e[n]].qty <= q
      BY <2>1, <2>2, SellableAre DEF q
    <2>4. r[e[n]].qty = 0
      BY <1>4, <2>1, <2>3
    <2> QED
      BY <1>3, <2>1, <2>4, GoodLotsAre
  <1> QED
    BY <1>5 DEF out, q

LEMMA UnsettledStay ==
    ASSUME NEW lots, GoodLots(lots), NEW i \in Nat, NEW q \in Nat, q <= Sellable(lots, i),
           NEW k \in 1..Len(lots), ~Settled(lots, k, i)
    PROVE  /\ q < Shares(lots)
           /\ \E n \in 1..Len(Removed(lots, q)) : ~Settled(Removed(lots, q), n, i)
  <1> DEFINE r == Emptied(lots, q)
             out == Removed(lots, q)
  <1>1. PICK e : Remains(e, out, lots, r)
    BY RemovedLots
  <1>2. /\ Sellable(lots, i) \in Nat /\ Sellable(lots, i) < Shares(lots)
        /\ Sellable(lots, i) <= Counted(lots, 1..k - 1)
    BY SellableAre
  <1>3. Counted(lots, 1..k - 1) \in Nat /\ Shares(lots) \in Nat
    BY GoodLotsAre, CountedIsNatural, SharesAre
  <1>4. q <= Counted(lots, 1..k - 1) /\ q < Shares(lots)
    BY <1>2, <1>3
  <1>5. r[k].qty = lots[k].qty
    BY <1>4, EmptiedOldestFirst
  <1>6. lots[k].qty > 0
    BY GoodLotsAre
  <1> HIDE DEF r, out
  <1>7. PICK n \in 1..Len(out) : e[n] = k
    BY <1>1, <1>5, <1>6 DEF Remains
  <1>8. out[n].at = lots[k].at
    BY <1>1, <1>7 DEF Remains
  <1>9. ~Settled(out, n, i)
    BY <1>8 DEF Settled
  <1> QED
    BY <1>4, <1>9 DEF out

-----------------------------------------------------------------------------
(* The inductive invariant *)

\* A buy is made of an item a signal asked for, and what it needs a price for has one.
GoodBuy(o) ==
    /\ o \in BuyOrder /\ o.item \in Asked
    /\ o.item.kind \in {"stop", "limit"} => o.limit # None

\* The phases share left and queue: what each holds, phase by phase.
PhasesOK ==
    /\ phase = "sells" => left \subseteq sells
    /\ phase = "exits" => left \subseteq Instruments
    /\ phase \notin {"sells", "exits"} => left = {}
    /\ phase = "buys" => queue \in Seq(BuyOrder)
    /\ phase = "orders" => queue \in Seq(Item) /\ Range(queue) \subseteq Asked
    /\ phase \notin {"buys", "orders"} => queue = <<>>
    /\ phase = "orders" => unlisted \subseteq Held
    /\ phase # "orders" => unlisted = {}

\* An instrument awaits at most one buy and one sell.
SingleIn(s) == \A m, n \in DOMAIN s : s[m].item.inst = s[n].item.inst => m = n
OrdersOK ==
    /\ \A o \in Waiting : GoodBuy(o)
    /\ \A o, p \in sells : o.inst = p.inst => o = p
    /\ SingleIn(buys)
    /\ phase = "buys" =>
          /\ SingleIn(queue)
          /\ \A o \in Range(buys), p \in Range(queue) : o.item.inst # p.item.inst

\* A position's lots are of different sessions, none later than this one; what is still to
\* be bought in this session adds the first lot of it.  What is held has a price.
NoLater(lots, i) == \A k \in 1..Len(lots) : lots[k].at <= i
Earlier(lots, i) == \A k \in 1..Len(lots) : lots[k].at < i
ToBuy(j) == phase = "sells" \/ (phase = "buys" /\ \E o \in Range(queue) : o.item.inst = j)
Priced(j) == last[j] # None \/ (phase \in {"buys", "exits", "close"} /\ bar[j].close # None)
BooksOK ==
    \A j \in Instruments :
        /\ GoodLots(pos[j].lots) /\ NoLater(pos[j].lots, session)
        /\ ToBuy(j) => Earlier(pos[j].lots, session)
        /\ pos[j].lots # <<>> => pos[j].bought > 0 /\ Priced(j)

\* The exits phase has honoured the stops of the positions it has been through.
Unsettled(j) == \E k \in 1..Len(pos[j].lots) : ~Settled(pos[j].lots, k, session)
NoneSettled(lots) == \A k \in 1..Len(lots) : ~Settled(lots, k, session)
Touched(j, p) ==
    LET b == bar[j]
    IN p.stop # None /\ Trades(b) /\ b.high # None /\ b.low # None /\ b.high > Floor(j)
           /\ b.low <= p.stop
StopsOK ==
    phase \in {"exits", "close"} /\ STOP_FIRST =>
        \A j \in Held \ left : Touched(j, pos[j]) => NoneSettled(pos[j].lots)

EngineInv == TypeOK /\ PhasesOK /\ OrdersOK /\ BooksOK /\ StopsOK

\* An instrument with a date to sell on awaits no buy while it is held or on sale, and is
\* on sale for all there is; no other has a date.
Dated(j) == \E a \in Asked : a.inst = j /\ a.hold # None
DatesOK ==
    \A j \in Instruments :
        /\ pos[j].due # None => Dated(j)
        /\ Dated(j) /\ j \in Held => ~Awaits(j)
        /\ SellsOf(j) # {} => ~Awaits(j)
        /\ Dated(j) => \A o \in SellsOf(j) : o.qty >= Qty(j)

\* The sells phase has sold what was due of the positions it has been through.
CanTrade(j) == Trades(bar[j]) /\ bar[j].open > Floor(j)
TimesOK ==
    phase \in {"sells", "buys"} =>
        \A j \in Held : Due(j, session) /\ CanTrade(j) =>
            Unsettled(j) \/ (phase = "sells" /\ \E o \in left : o.inst = j)

\* A position is of its instrument's group.
GroupsOK ==
    \A a \in Asked :
        /\ pos[a.inst].group \in {None, a.group}
        /\ a.inst \in Held => pos[a.inst].group = a.group

\* Killed: nothing is bought, and what is held is on sale until the cooldown ends.
KillOK ==
    killed =>
        /\ phase # "orders" /\ buys = <<>> /\ (phase = "buys" => queue = <<>>)
        /\ session < until \/ phase \in {"decide", "rest"} =>
              \A j \in Held : \E o \in SellsOf(j) : o.qty >= Qty(j) /\ o.upto >= until

-----------------------------------------------------------------------------
(* Types of what the actions compute *)

LEMMA NoneIsNoNumber == None \notin Int /\ None \notin Nat
  BY EngineAssumption

LEMMA Prices == Price \subseteq Nat /\ \A p \in Price : p \in Nat /\ p > SLIP /\ p > 0
  BY Naturals1 DEF Price

LEMMA BarsAre ==
    ASSUME NEW b \in Bar
    PROVE  /\ b.open \in Option(Price) /\ b.high \in Option(Price)
           /\ b.low \in Option(Price) /\ b.close \in Option(Price)
  BY DEF Bar

LEMMA DaysAre == \A d \in Days : \A j \in Instruments : d[j] \in Bar
  BY EngineAssumption

LEMMA PositionsAre ==
    ASSUME NEW p \in Position
    PROVE  /\ p.lots \in Seq(Lot) /\ p.stop \in Option(Nat) /\ p.target1 \in Option(Price)
           /\ p.target \in Option(Price) /\ p.done \in BOOLEAN /\ p.even \in BOOLEAN
           /\ p.moved \in Option(Nat) /\ p.from \in Nat /\ p.due \in Option(Nat)
           /\ p.group \in Option(Groups) /\ p.gross \in Nat /\ p.bought \in Nat
  BY DEF Position

LEMMA FlatIsAPosition == Flat \in Position /\ Flat.lots = <<>> /\ Flat.due = None /\ Flat.group = None
  <1>1. <<>> \in Seq(Lot)
    BY EmptySeq
  <1> QED
    BY <1>1 DEF Flat, Position, Option

LEMMA ItemsAre ==
    ASSUME NEW it \in Item
    PROVE  /\ it.inst \in Instruments /\ it.weight \in Nat
           /\ it.kind \in {"open", "limit", "stop", "ato"}
           /\ it.limit \in Option(Price) /\ it.low \in Option(Price) /\ it.high \in Option(Price)
           /\ it.cap \in Option(Price) /\ it.valid \in Nat
           /\ it.flat \in BOOLEAN /\ it.relative \in BOOLEAN
           /\ it.stop \in Option(Price) /\ it.target1 \in Option(Price)
           /\ it.target \in Option(Price) /\ it.even \in BOOLEAN
           /\ it.hold \in Option(Nat) /\ it.group \in Option(Groups)
  BY DEF Item

LEMMA AskedAre ==
    /\ Asked \subseteq Item
    /\ \A it \in Asked : it.kind = "stop" => it.limit # None
    /\ \A s \in Signals : s.items \in Seq(Item) /\ Range(s.items) \subseteq Asked
  <1>1. ASSUME NEW s \in Signals PROVE s.items \in Seq(Item)
    BY EngineAssumption DEF Signal
  <1>2. ASSUME NEW s \in Signals, NEW k \in DOMAIN s.items
        PROVE  s.items[k] \in Item /\ Valid(s.items[k])
    <2>1. Valid(s.items[k])
      BY EngineAssumption
    <2>2. s.items[k] \in Item
      BY <1>1, LenProperties, ElementOfSeq
    <2> QED
      BY <2>1, <2>2
  <1>3. ASSUME NEW it \in Asked PROVE it \in Item /\ Valid(it)
    BY <1>2, <1>3 DEF Asked, Range
  <1>4. \A s \in Signals : Range(s.items) \subseteq Asked
    BY DEF Asked
  <1> QED
    BY <1>1, <1>3, <1>4 DEF Valid

LEMMA BuyOrdersAre ==
    ASSUME NEW o \in BuyOrder
    PROVE  /\ o.upto \in Nat /\ o.value \in Nat /\ o.limit \in Option(Price) /\ o.item \in Item
           /\ o.item.inst \in Instruments
  BY ItemsAre DEF BuyOrder

LEMMA SellOrdersAre ==
    ASSUME NEW o \in SellOrder
    PROVE  o.inst \in Instruments /\ o.upto \in Nat /\ o.qty \in Nat \ {0}
  BY DEF SellOrder

\* exec_sell
LEMMA SoldIs ==
    ASSUME NEW p \in Position, GoodLots(p.lots), NEW q \in Nat
    PROVE  /\ Sold(p, q) \in Position /\ GoodLots(Sold(p, q).lots)
           /\ Shares(Sold(p, q).lots) = Most(0, Shares(p.lots) - q)
           /\ q >= Shares(p.lots) => Sold(p, q) = Flat
           /\ q < Shares(p.lots) =>
                /\ Sold(p, q).lots = Removed(p.lots, q) /\ Sold(p, q).lots # <<>>
                /\ Sold(p, q).stop = p.stop /\ Sold(p, q).due = p.due
                /\ Sold(p, q).group = p.group /\ Sold(p, q).bought = p.bought
  <1>1. Shares(p.lots) \in Nat
    BY SharesAre
  <1>2. CASE q >= Shares(p.lots)
    <2>1. Sold(p, q) = Flat
      BY <1>2 DEF Sold
    <2>2. Shares(Flat.lots) = 0
      BY FlatIsAPosition, NoLotsAreGood, SharesAre
    <2> QED
      BY <1>1, <1>2, <2>1, <2>2, FlatIsAPosition, NoLotsAreGood DEF Most
  <1>3. CASE q < Shares(p.lots)
    <2>1. Sold(p, q) = [p EXCEPT !.lots = Removed(p.lots, q)]
      BY <1>1, <1>3 DEF Sold
    <2>2. GoodLots(Removed(p.lots, q)) /\ Shares(Removed(p.lots, q)) = Most(0, Shares(p.lots) - q)
      BY RemovedLots
    <2>3. Removed(p.lots, q) \in Seq(Lot)
      BY <2>2 DEF GoodLots
    <2>4. Sold(p, q) \in Position
      BY <2>1, <2>3 DEF Position
    <2>5. /\ Sold(p, q).lots = Removed(p.lots, q)
          /\ Sold(p, q).stop = p.stop /\ Sold(p, q).due = p.due
          /\ Sold(p, q).group = p.group /\ Sold(p, q).bought = p.bought
      BY <2>1 DEF Position
    <2>6. Removed(p.lots, q) # <<>>
      <3>1. Most(0, Shares(p.lots) - q) # 0
        BY <1>1, <1>3 DEF Most
      <3> QED
        BY <2>2, <3>1, SharesAre
    <2> QED
      BY <1>1, <1>3, <2>2, <2>4, <2>5, <2>6
  <1> QED
    BY <1>1, <1>2, <1>3

\* The break-even move.
LEMMA SteppedIs ==
    ASSUME NEW p \in Position
    PROVE  /\ Stepped(p) \in Position
           /\ Stepped(p).lots = p.lots /\ Stepped(p).due = p.due /\ Stepped(p).group = p.group
           /\ Stepped(p).bought = p.bought
           /\ p.stop # None => Stepped(p).stop # None /\ Stepped(p).stop >= p.stop
  <1>1. CASE p.moved # None /\ session >= p.from
    <2> DEFINE s == IF p.stop = None THEN p.moved ELSE Most(p.stop, p.moved)
    <2>1. Stepped(p) = [p EXCEPT !.stop = s, !.moved = None]
      BY <1>1 DEF Stepped
    <2>2. p.moved \in Nat /\ (p.stop # None => p.stop \in Nat)
      BY <1>1, PositionsAre DEF Option
    <2>3. s \in Nat /\ (p.stop # None => s >= p.stop)
      BY <2>2 DEF Most
    <2> HIDE DEF s
    <2>4. Stepped(p) \in Position
      BY <2>1, <2>3 DEF Position, Option
    <2>5. /\ Stepped(p).lots = p.lots /\ Stepped(p).due = p.due /\ Stepped(p).group = p.group
          /\ Stepped(p).bought = p.bought /\ Stepped(p).stop = s
      BY <2>1 DEF Position
    <2> QED
      BY <2>3, <2>4, <2>5, NoneIsNoNumber
  <1>2. CASE ~(p.moved # None /\ session >= p.from)
    <2>1. Stepped(p) = p
      BY <1>2 DEF Stepped
    <2>2. p.stop # None => p.stop \in Nat
      BY PositionsAre DEF Option
    <2> QED
      BY <2>1, <2>2
  <1> QED
    BY <1>1, <1>2

\* take_first_target
LEMMA FirstLotsAre ==
    ASSUME NEW p \in Position, GoodLots(p.lots), session \in Nat
    PROVE  /\ FirstLots(p) \in Nat /\ FirstLots(p) <= Sellable(p.lots, session)
           /\ FirstLots(p) > 0 => FirstLots(p) < Shares(p.lots)
  <1> DEFINE s == Sellable(p.lots, session)
  <1>1. s \in Nat /\ Shares(p.lots) \in Nat
    BY SellableAre, SharesAre
  <1>2. PICK t : t = (s * T1_PERCENT) \div 100
    OBVIOUS
  <1>3. t \in Nat /\ t <= s
    <2>1. T1_PERCENT \in Nat /\ T1_PERCENT <= 99
      BY Naturals1
    <2>2. PICK d \in Nat : d = 99 - T1_PERCENT
      BY <2>1
    <2>3. s * T1_PERCENT = 99 * s - s * d /\ s * d \in Nat
      BY <1>1, <2>1, <2>2
    <2>4. s * T1_PERCENT \in Nat
      BY <1>1, <2>1
    <2> QED
      BY <1>1, <1>2, <2>3, <2>4
  <1>4. PICK u : u = t \div LOT
    OBVIOUS
  <1>5. u \in Nat /\ LOT * u <= t /\ LOT * u \in Nat
    BY <1>3, <1>4, Naturals1
  <1>6. FirstLots(p) = IF LOT <= LOT * u /\ LOT * u < Shares(p.lots) THEN LOT * u ELSE 0
    BY <1>2, <1>4 DEF FirstLots, Lots
  <1> QED
    BY <1>1, <1>3, <1>5, <1>6

LEMMA DividedIsNatural ==
    ASSUME NEW a \in Nat, NEW b \in Nat, b > 0
    PROVE  a \div b \in Nat /\ b * (a \div b) <= a
  OBVIOUS

LEMMA FirstTakenIs ==
    ASSUME NEW p \in Position, GoodLots(p.lots), p.lots # <<>> => p.bought > 0, session \in Nat
    PROVE  /\ FirstTaken(p) \in Position
           /\ FirstTaken(p).lots = Removed(p.lots, FirstLots(p))
           /\ GoodLots(FirstTaken(p).lots)
           /\ p.lots # <<>> => FirstTaken(p).lots # <<>>
           /\ Shares(FirstTaken(p).lots) <= Shares(p.lots)
           /\ FirstTaken(p).stop = p.stop /\ FirstTaken(p).due = p.due
           /\ FirstTaken(p).group = p.group /\ FirstTaken(p).bought = p.bought
  <1> DEFINE q == FirstLots(p)
             kept == [p EXCEPT !.done = TRUE, !.lots = Removed(@, q)]
             m == (p.gross + p.bought - 1) \div p.bought
  <1>1. q \in Nat /\ q <= Sellable(p.lots, session) /\ (q > 0 => q < Shares(p.lots))
    BY FirstLotsAre
  <1>2. Shares(p.lots) \in Nat /\ (Shares(p.lots) = 0 <=> p.lots = <<>>)
    BY SharesAre
  <1> HIDE DEF q
  <1>3. GoodLots(Removed(p.lots, q)) /\ Shares(Removed(p.lots, q)) = Most(0, Shares(p.lots) - q)
    BY <1>1, RemovedLots
  <1>4. Shares(Removed(p.lots, q)) <= Shares(p.lots)
    BY <1>1, <1>2, <1>3 DEF Most
  <1>5. p.lots # <<>> => Removed(p.lots, q) # <<>>
    <2>1. p.lots # <<>> => Shares(Removed(p.lots, q)) > 0
      BY <1>1, <1>2, <1>3 DEF Most
    <2> QED
      BY <1>3, <2>1, SharesAre
  <1>6. Removed(p.lots, q) \in Seq(Lot)
    BY <1>3 DEF GoodLots
  <1>7. /\ kept \in Position /\ kept.lots = Removed(p.lots, q) /\ kept.stop = p.stop
        /\ kept.due = p.due /\ kept.group = p.group /\ kept.bought = p.bought
    BY <1>6 DEF Position
  <1> HIDE DEF kept
  <1>8. CASE q > 0 /\ p.even
    <2>1. p.bought \in Nat /\ p.bought > 0 /\ p.gross \in Nat
      BY <1>1, <1>2, <1>8, PositionsAre
    <2>2. m \in Option(Nat) /\ session + 1 \in Nat
      <3>1. PICK a \in Nat : a = p.gross + p.bought - 1
        BY <2>1
      <3>2. a \div p.bought \in Nat
        BY <2>1, <3>1, DividedIsNatural
      <3> QED
        BY <3>1, <3>2 DEF Option
    <2> HIDE DEF m
    <2>3. FirstTaken(p) = [kept EXCEPT !.moved = m, !.from = session + 1]
      BY <1>8 DEF FirstTaken, kept, q, m
    <2>4. FirstTaken(p) \in Position
      BY <1>7, <2>2, <2>3 DEF Position
    <2>5. /\ FirstTaken(p).lots = kept.lots /\ FirstTaken(p).stop = kept.stop
          /\ FirstTaken(p).due = kept.due /\ FirstTaken(p).group = kept.group
          /\ FirstTaken(p).bought = kept.bought
      BY <1>7, <2>3 DEF Position
    <2> QED
      BY <1>3, <1>4, <1>5, <1>7, <2>4, <2>5 DEF q
  <1>9. CASE ~(q > 0 /\ p.even)
    <2>1. FirstTaken(p) = kept
      BY <1>9 DEF FirstTaken, kept, q
    <2> QED
      BY <1>3, <1>4, <1>5, <1>7, <2>1 DEF q
  <1> QED
    BY <1>8, <1>9

\* exec_buy: a lot of this session is added; a level that is set stays.
LEMMA LevelsAre ==
    ASSUME NEW it \in Item, NEW price \in Price
    PROVE  /\ \A d \in Option(Price) : Level(it, d, price, -1) \in Option(Nat)
           /\ \A d \in Option(Price) : Level(it, d, price, 1) \in Option(Price)
  <1>1. price \in Nat /\ price > SLIP /\ SLIP \in Nat
    BY Prices, Naturals1
  <1>2. ASSUME NEW d \in Option(Price) PROVE Level(it, d, price, -1) \in Option(Nat)
    BY <1>1, <1>2, Prices DEF Level, Most, Option
  <1>3. ASSUME NEW d \in Option(Price) PROVE Level(it, d, price, 1) \in Option(Price)
    <2>1. CASE d # None /\ it.relative
      <3>1. d \in Nat /\ d > SLIP
        BY <1>3, <2>1, Prices DEF Option
      <3>2. Level(it, d, price, 1) = Most(0, price + 1 * d)
        BY <2>1 DEF Level
      <3>3. Most(0, price + 1 * d) \in Nat /\ Most(0, price + 1 * d) > SLIP
        BY <1>1, <3>1 DEF Most
      <3> QED
        BY <3>2, <3>3 DEF Price, Option
    <2>2. CASE ~(d # None /\ it.relative)
      BY <1>3, <2>2 DEF Level
    <2> QED
      BY <2>1, <2>2
  <1> QED
    BY <1>2, <1>3

LEMMA BoughtIs ==
    ASSUME NEW p \in Position, GoodLots(p.lots), NEW it \in Item, NEW q \in Nat \ {0},
           NEW price \in Price, session \in Nat,
           \A k \in 1..Len(p.lots) : p.lots[k].at < session
    PROVE  LET l == [qty |-> q, at |-> session]
               new == Bought(p, it, q, price)
           IN /\ new \in Position /\ l \in Lot
              /\ new.lots = Append(p.lots, l) /\ GoodLots(new.lots) /\ new.lots # <<>>
              /\ new.bought > 0
              /\ p.stop # None => new.stop = p.stop
              /\ new.due = p.due \/ (it.hold # None /\ new.due = session + it.hold)
              /\ new.group = IF p.group = None THEN it.group ELSE p.group
  <1> DEFINE l == [qty |-> q, at |-> session]
             lots == Append(p.lots, l)
             grp == IF p.group = None THEN it.group ELSE p.group
             more == [p EXCEPT !.lots = Append(@, l), !.gross = @ + q * price, !.bought = @ + q,
                               !.group = IF @ = None THEN it.group ELSE @]
             st == Level(it, it.stop, price, -1)
             t1 == Level(it, it.target1, price, 1)
             tg == Level(it, it.target, price, 1)
             ev == IF it.target1 = None THEN p.even ELSE it.even
             du == IF it.hold = None THEN p.due ELSE session + it.hold
             new == Bought(p, it, q, price)
  <1>1. l \in Lot
    BY DEF Lot
  <1>2. l.at = session /\ \A n \in 1..Len(p.lots) : p.lots[n].at < l.at
    OBVIOUS
  <1>3. GoodLots(lots) /\ lots # <<>> /\ lots \in Seq(Lot)
    <2>1. GoodLots(lots)
      BY <1>1, <1>2, MoreLotsAreGood
    <2>2. lots # <<>>
      BY <1>1, AppendProperties DEF GoodLots
    <2> QED
      BY <2>1, <2>2 DEF GoodLots
  <1>4. p.gross + q * price \in Nat /\ p.bought + q \in Nat /\ p.bought + q > 0
    BY PositionsAre, Prices
  <1>5. grp \in Option(Groups)
    BY PositionsAre, ItemsAre
  <1>6. /\ st \in Option(Nat) /\ t1 \in Option(Price) /\ tg \in Option(Price)
        /\ ev \in BOOLEAN /\ du \in Option(Nat)
    <2>1. st \in Option(Nat) /\ t1 \in Option(Price) /\ tg \in Option(Price)
      BY LevelsAre, ItemsAre
    <2>2. ev \in BOOLEAN
      BY PositionsAre, ItemsAre
    <2>3. du \in Option(Nat)
      BY PositionsAre, ItemsAre DEF Option
    <2> QED
      BY <2>1, <2>2, <2>3
  <1> HIDE DEF l, lots, grp, st, t1, tg, ev, du
  <1>7. more = [p EXCEPT !.lots = lots, !.gross = p.gross + q * price, !.bought = p.bought + q,
                         !.group = grp]
    BY DEF lots, grp
  <1> HIDE DEF more
  <1>8. more \in Position
    BY <1>3, <1>4, <1>5, <1>7 DEF Position
  <1>9. /\ more.lots = lots /\ more.bought = p.bought + q /\ more.group = grp
        /\ more.stop = p.stop /\ more.due = p.due /\ more.even = p.even
    BY <1>7 DEF Position
  <1>10. CASE Unset(p)
    <2>1. new = [more EXCEPT !.stop = st, !.target1 = t1, !.target = tg, !.even = ev, !.due = du]
      BY <1>9, <1>10 DEF Bought, more, st, t1, tg, ev, du, l
    <2> HIDE DEF new
    <2>2. new \in Position
      BY <1>6, <1>8, <2>1 DEF Position
    <2>3. /\ new.lots = more.lots /\ new.bought = more.bought /\ new.group = more.group
          /\ new.due = du
      BY <1>8, <2>1 DEF Position
    <2>4. du = p.due \/ (it.hold # None /\ du = session + it.hold)
      BY DEF du
    <2>5. p.stop = None
      BY <1>10 DEF Unset
    <2> QED
      BY <1>1, <1>3, <1>4, <1>9, <2>2, <2>3, <2>4, <2>5 DEF new, lots, l, grp
  <1>11. CASE ~Unset(p)
    <2>1. new = more
      BY <1>11 DEF Bought, more, l
    <2> QED
      BY <1>1, <1>3, <1>4, <1>8, <1>9, <2>1 DEF new, lots, l, grp
  <1> QED
    BY <1>10, <1>11

-----------------------------------------------------------------------------
(* The sum of a function over a finite set *)

Some(T) == CHOOSE j \in T : TRUE
Step(f, g, T) == IF T = {} THEN 0 ELSE f[Some(T)] + g[T \ {Some(T)}]

TotalsTo(f, S, g) == g = [T \in SUBSET S |-> Step(f, g, T)]

LEMMA SmallerSet ==
    ASSUME NEW S, IsFiniteSet(S), NEW T \in SUBSET S, T # {}
    PROVE  /\ Some(T) \in T /\ Some(T) \in S /\ T \ {Some(T)} \in SUBSET S
           /\ IsFiniteSet(T) /\ Cardinality(T) \in Nat
           /\ Cardinality(T \ {Some(T)}) = Cardinality(T) - 1
  <1>1. Some(T) \in T
    BY DEF Some
  <1>2. IsFiniteSet(T)
    BY FS_Subset
  <1> QED
    BY <1>1, <1>2, FS_RemoveElement, FS_CardinalityType

LEMMA TotalsExist ==
    ASSUME NEW S, IsFiniteSet(S), NEW f \in [S -> Int]
    PROVE  \E g : TotalsTo(f, S, g)
  <1> DEFINE Small(n) == {T \in SUBSET S : Cardinality(T) <= n}
             Built(n, g) == /\ g \in [Small(n) -> Int]
                            /\ \A T \in Small(n) : g[T] = Step(f, g, T)
             I == {n \in Nat : \E g : Built(n, g)}
  <1>0. \A T \in SUBSET S : IsFiniteSet(T) /\ Cardinality(T) \in Nat
    BY FS_Subset, FS_CardinalityType
  <1>1. 0 \in I
    <2> DEFINE g == [T \in Small(0) |-> 0]
    <2>1. \A T \in Small(0) : T = {}
      BY <1>0, FS_EmptySet
    <2>2. \A T \in Small(0) : g[T] = Step(f, g, T)
      BY <2>1 DEF Step
    <2>3. Built(0, g)
      BY <2>2
    <2> QED
      BY <2>3
  <1>2. ASSUME NEW n \in Nat, n \in I PROVE n + 1 \in I
    <2>1. PICK g : Built(n, g)
      BY <1>2
    <2> DEFINE h == [T \in Small(n + 1) |-> IF T \in Small(n) THEN g[T] ELSE Step(f, g, T)]
    <2>2. ASSUME NEW T \in Small(n + 1), T # {}
          PROVE  T \ {Some(T)} \in Small(n) /\ T \ {Some(T)} \in Small(n + 1) /\ Some(T) \in S
      <3>1. Cardinality(T \ {Some(T)}) = Cardinality(T) - 1 /\ Cardinality(T) \in Nat
        BY <2>2, SmallerSet
      <3>2. Some(T) \in S /\ T \ {Some(T)} \in SUBSET S
        BY <2>2, SmallerSet
      <3> QED
        BY <3>1, <3>2
    <2>3. Small(n) \subseteq Small(n + 1)
      BY <1>0
    <2>4. ASSUME NEW T \in Small(n + 1) PROVE h[T] \in Int /\ h[T] = Step(f, h, T)
      <3>1. CASE T = {}
        <4>1. T \in Small(n)
          BY <3>1, FS_EmptySet
        <4> QED
          BY <2>1, <3>1, <4>1 DEF Step
      <3>2. CASE T # {}
        <4> DEFINE R == T \ {Some(T)}
        <4>1. R \in Small(n) /\ R \in Small(n + 1) /\ Some(T) \in S
          BY <2>2, <3>2
        <4>2. h[R] = g[R] /\ g[R] \in Int
          <5> HIDE DEF R
          <5> QED
            BY <2>1, <4>1
        <4>3. Step(f, h, T) = Step(f, g, T) /\ Step(f, g, T) \in Int
          BY <3>2, <4>1, <4>2 DEF Step
        <4>4. T \in Small(n) => g[T] = Step(f, g, T)
          BY <2>1
        <4>5. h[T] = IF T \in Small(n) THEN g[T] ELSE Step(f, g, T)
          OBVIOUS
        <4> HIDE DEF h
        <4> QED
          BY <4>3, <4>4, <4>5
      <3> QED
        BY <3>1, <3>2
    <2>5. Built(n + 1, h)
      <3>1. h \in [Small(n + 1) -> Int]
        <4>1. h = [T \in Small(n + 1) |-> h[T]]
          OBVIOUS
        <4> HIDE DEF h
        <4> QED
          BY <2>4, <4>1
      <3> HIDE DEF h
      <3> QED
        BY <2>4, <3>1
    <2> HIDE DEF h, Built
    <2> QED
      BY <2>5
  <1>3. Cardinality(S) \in I
    <2> HIDE DEF I
    <2> QED
      BY <1>1, <1>2, SetInduction, FS_CardinalityType
  <1>4. PICK g : Built(Cardinality(S), g)
    BY <1>3
  <1>5. Small(Cardinality(S)) = SUBSET S
    <2>1. \A T \in SUBSET S : Cardinality(T) <= Cardinality(S)
      BY FS_Subset
    <2> QED
      BY <2>1
  <1>6. g \in [SUBSET S -> Int] /\ \A T \in SUBSET S : g[T] = Step(f, g, T)
    BY <1>4, <1>5
  <1>7. g = [T \in SUBSET S |-> Step(f, g, T)]
    BY <1>6
  <1> QED
    BY <1>7 DEF TotalsTo

LEMMA TotalIsAnInteger ==
    ASSUME NEW S, IsFiniteSet(S), NEW f \in [S -> Int]
    PROVE  Total(f, S) \in Int
  <1>1. TotalsTo(f, S, CHOOSE g : TotalsTo(f, S, g))
    BY TotalsExist, Zenon
  <1>2. Total(f, S) = (CHOOSE g : TotalsTo(f, S, g))[S]
    BY DEF Total, TotalsTo, Step, Some
  <1>3. PICK g : TotalsTo(f, S, g) /\ Total(f, S) = g[S]
    BY <1>1, <1>2
  <1>4. \A T \in SUBSET S : g[T] = Step(f, g, T)
    BY <1>3 DEF TotalsTo
  <1> DEFINE I == {n \in Nat : \A T \in SUBSET S : Cardinality(T) = n => g[T] \in Int}
  <1>0. \A T \in SUBSET S : IsFiniteSet(T) /\ Cardinality(T) \in Nat
    BY FS_Subset, FS_CardinalityType
  <1>5. 0 \in I
    <2>1. \A T \in SUBSET S : Cardinality(T) = 0 => T = {}
      BY <1>0, FS_EmptySet
    <2>2. g[{}] = 0
      BY <1>4 DEF Step
    <2> QED
      BY <2>1, <2>2
  <1>6. ASSUME NEW n \in Nat, n \in I PROVE n + 1 \in I
    <2>1. SUFFICES ASSUME NEW T \in SUBSET S, Cardinality(T) = n + 1 PROVE g[T] \in Int
      OBVIOUS
    <2>2. T # {}
      BY <2>1, FS_EmptySet
    <2>3. /\ Some(T) \in S /\ T \ {Some(T)} \in SUBSET S
          /\ Cardinality(T \ {Some(T)}) = n
      BY <2>1, <2>2, SmallerSet
    <2>4. g[T \ {Some(T)}] \in Int /\ f[Some(T)] \in Int
      BY <1>6, <2>3
    <2>5. g[T] = f[Some(T)] + g[T \ {Some(T)}]
      BY <1>4, <2>2 DEF Step
    <2> QED
      BY <2>4, <2>5
  <1>7. Cardinality(S) \in I
    <2> HIDE DEF I
    <2> QED
      BY <1>5, <1>6, SetInduction, FS_CardinalityType
  <1> QED
    BY <1>3, <1>7

-----------------------------------------------------------------------------
(* Prices and money *)

MarketOK == bar \in [Instruments -> Bar] /\ last \in [Instruments -> Option(Price)]

LEMMA FloorIs ==
    ASSUME MarketOK, NEW j \in Instruments
    PROVE  Floor(j) \in Nat
  <1>1. last[j] \in Option(Price)
    BY DEF MarketOK
  <1>2. last[j] = None \/ last[j] \in Nat
    BY <1>1, Prices DEF Option
  <1> QED
    BY <1>2, Naturals1 DEF Floor, Most

LEMMA SellAtIs ==
    ASSUME MarketOK, NEW j \in Instruments, NEW price \in Price
    PROVE  SellAt(j, price) \in Nat /\ SellAt(j, price) > 0
  BY FloorIs, Prices, Naturals1 DEF SellAt, Most

LEMMA ProductIsPositive ==
    ASSUME NEW a \in Nat, NEW b \in Nat, b > 0
    PROVE  a * b \in Nat /\ (a > 0 => a * b > 0 /\ a * b >= a /\ a * b >= b) /\ (a = 0 => a * b = 0)
  <1>1. PICK c \in Nat : b = 1 + c
    <2>1. b - 1 \in Nat /\ b = 1 + (b - 1)
      OBVIOUS
    <2> QED
      BY <2>1
  <1>2. a * b = a + a * c /\ a * c \in Nat
    BY <1>1
  <1>3. ASSUME a > 0 PROVE a * b >= b
    <2>1. PICK d \in Nat : a = 1 + d
      <3>1. a - 1 \in Nat /\ a = 1 + (a - 1)
        BY <1>3
      <3> QED
        BY <3>1
    <2>2. a * b = b + d * b /\ d * b \in Nat
      BY <2>1
    <2> QED
      BY <2>2
  <1> QED
    BY <1>2, <1>3

LEMMA NetIs ==
    ASSUME NEW q \in Nat, NEW price \in Nat, price > 0
    PROVE  Net(q, price) \in Nat /\ (q > 0 => Net(q, price) > 0) /\ (q = 0 => Net(q, price) = 0)
  <1>1. PICK r : r = 1000 - FEE - TAX
    OBVIOUS
  <1>2. r \in Nat /\ r > 0
    BY <1>1, Naturals1
  <1>3. q * price \in Nat /\ (q > 0 => q * price > 0) /\ (q = 0 => q * price = 0)
    BY ProductIsPositive
  <1>4. PICK v : v = q * price
    OBVIOUS
  <1>5. v \in Nat
    BY <1>3, <1>4
  <1>6. v * r \in Nat /\ (v > 0 => v * r > 0) /\ (v = 0 => v * r = 0)
    BY <1>2, <1>5, ProductIsPositive
  <1>7. Net(q, price) = v * r
    BY <1>1, <1>4 DEF Net
  <1> QED
    BY <1>3, <1>4, <1>6, <1>7

\* buy_quantity: what is bought is paid for by the budget.
LEMMA AffordableIs ==
    ASSUME NEW budget \in Int, NEW price \in Price, Affordable(budget, price) >= LOT
    PROVE  /\ Affordable(budget, price) \in Nat \ {0}
           /\ Cost(Affordable(budget, price), price) \in Nat
           /\ Cost(Affordable(budget, price), price) > 0
           /\ Cost(Affordable(budget, price), price) <= budget
  <1>1. PICK m : m = price * (1000 + FEE)
    OBVIOUS
  <1>2. m \in Nat /\ m > 0
    <2>1. PICK r \in Nat : r = 1000 + FEE /\ r > 0
      BY Naturals1
    <2> QED
      BY <1>1, <2>1, Prices, ProductIsPositive
  <1>3. PICK d : d = budget \div m
    OBVIOUS
  <1>4. d \in Int /\ m * d <= budget
    BY <1>2, <1>3
  <1>5. PICK u : u = d \div LOT
    OBVIOUS
  <1>6. u \in Int /\ LOT * u <= d /\ LOT * u \in Int
    BY <1>4, <1>5, Naturals1
  <1>7. PICK q : q = LOT * u
    OBVIOUS
  <1>8. Affordable(budget, price) = q
    BY <1>1, <1>3, <1>5, <1>7 DEF Affordable, Lots
  <1>9. q \in Nat \ {0} /\ q <= d
    BY <1>6, <1>7, <1>8, Naturals1
  <1>10. q * m <= budget /\ q * m \in Nat /\ q * m > 0
    <2>1. q * m \in Nat /\ q * m > 0
      BY <1>2, <1>9, ProductIsPositive
    <2>2. PICK k \in Nat : k = d - q
      BY <1>4, <1>9
    <2>3. m * d = q * m + k * m /\ k * m \in Nat
      BY <1>2, <1>4, <1>9, <2>2
    <2> QED
      BY <1>4, <2>1, <2>3
  <1>11. Cost(q, price) = q * m
    <2>1. PICK r \in Nat : r = 1000 + FEE
      BY Naturals1
    <2>2. price \in Nat
      BY Prices
    <2>3. q * price * r = q * (price * r)
      BY <1>9, <2>2
    <2> QED
      BY <1>1, <2>1, <2>3 DEF Cost
  <1> QED
    BY <1>8, <1>9, <1>10, <1>11

LEMMA BuyPriceIs ==
    ASSUME MarketOK, NEW o, GoodBuy(o), CanBuy(o)
    PROVE  /\ BuyPrice(o) \in Price
           /\ o.item.inst \in Instruments /\ bar[o.item.inst].close # None
           /\ Affordable(Least(o.value, cash), BuyPrice(o)) >= LOT
  <1> DEFINE it == o.item
             j == it.inst
             b == bar[j]
  <1>1. /\ o.limit \in Option(Price) /\ it \in Item /\ j \in Instruments
        /\ it.kind \in {"open", "limit", "stop", "ato"}
    BY BuyOrdersAre, ItemsAre DEF GoodBuy
  <1>2. b \in Bar /\ last[j] \in Option(Price)
    BY <1>1 DEF MarketOK
  <1>3. b.open \in Option(Price)
    BY <1>2, BarsAre
  <1>4. b.close # None /\ Affordable(Least(o.value, cash), BuyPrice(o)) >= LOT
    BY DEF CanBuy
  <1>5. ASSUME NEW x \in Price PROVE UpTo(j, x) \in Price
    <2>1. CASE last[j] = None
      BY <2>1 DEF UpTo
    <2>2. CASE last[j] # None
      <3>1. last[j] \in Nat /\ last[j] > SLIP /\ x \in Nat /\ x > SLIP
        BY <1>2, <2>2, Prices DEF Option
      <3> QED
        BY <2>2, <3>1, Naturals1 DEF UpTo, Ceiling, Least, Price
    <2> QED
      BY <2>1, <2>2
  <1>6. CASE it.kind = "stop"
    <2> DEFINE x == (IF b.open = None THEN o.limit ELSE Most(o.limit, b.open)) + SLIP
    <2>1. o.limit \in Price
      BY <1>1, <1>6 DEF GoodBuy, Option
    <2>2. b.open # None => b.open \in Nat /\ b.open > SLIP
      BY <1>3, Prices DEF Option
    <2>3. x \in Price
      BY <2>1, <2>2, Naturals1 DEF Most, Price
    <2>4. BuyPrice(o) = UpTo(j, x)
      BY <1>6 DEF BuyPrice
    <2> QED
      BY <1>1, <1>4, <1>5, <2>3, <2>4
  <1>7. CASE it.kind = "limit"
    <2> DEFINE x == IF b.open = None THEN o.limit ELSE Least(o.limit, b.open)
    <2>1. o.limit \in Price
      BY <1>1, <1>7 DEF GoodBuy, Option
    <2>2. b.open # None => b.open \in Price
      BY <1>3 DEF Option
    <2>3. x \in Price
      BY <2>1, <2>2 DEF Least
    <2>4. BuyPrice(o) = UpTo(j, x)
      BY <1>7 DEF BuyPrice
    <2> QED
      BY <1>1, <1>4, <1>5, <2>3, <2>4
  <1>8. CASE it.kind \notin {"stop", "limit"}
    <2>1. Trades(b)
      BY <1>1, <1>8 DEF CanBuy
    <2>2. b.open \in Nat /\ b.open > SLIP
      BY <1>3, <2>1, Prices DEF Trades, Option
    <2>3. b.open + SLIP \in Price
      BY <2>2, Naturals1 DEF Price
    <2>4. BuyPrice(o) = UpTo(j, b.open + SLIP)
      BY <1>8 DEF BuyPrice
    <2> QED
      BY <1>1, <1>4, <1>5, <2>3, <2>4
  <1> QED
    BY <1>6, <1>7, <1>8

\* Where an exit sells there is a price, and a stop that was touched sells the rest when
\* it goes first.
LEMMA ExitsAre ==
    ASSUME MarketOK, NEW j \in Instruments, NEW p \in Position, Watched(j, p)
    PROVE  /\ Exits(j, p) = [first |-> Exits(j, p).first, rest |-> Exits(j, p).rest]
           /\ Exits(j, p).first # None =>
                 Exits(j, p).first \in Nat /\ Exits(j, p).first > 0 /\ First(p)
           /\ Exits(j, p).rest # None => Exits(j, p).rest \in Nat /\ Exits(j, p).rest > 0
           /\ STOP_FIRST /\ p.stop # None /\ bar[j].low <= p.stop => Exits(j, p).rest # None
  <1> DEFINE b == bar[j]
             opensUnder == p.stop # None /\ b.open <= p.stop
             opensOver == p.target # None /\ b.open >= p.target
             opensFirst == First(p) /\ b.open >= p.target1
             reached == p.target # None /\ b.high >= p.target
             stopPrice == Most(Most(p.stop - SLIP, b.low), Floor(j))
             f == IF opensFirst THEN b.open
                  ELSE IF First(p) /\ ~StopHit(b, p) /\ (reached \/ b.high >= p.target1)
                       THEN p.target1 ELSE None
             r == IF StopHit(b, p) THEN stopPrice ELSE IF reached THEN p.target ELSE None
  <1>1. b \in Bar
    BY DEF MarketOK
  <1>2. b.open # None /\ b.high # None /\ b.low # None
    BY DEF Watched, Trades
  <1>3. b.open \in Price /\ b.low \in Price /\ b.open \in Nat /\ b.low \in Nat /\ b.open > 0 /\ b.low > 0
    BY <1>1, <1>2, BarsAre, Prices DEF Option
  <1>4. /\ p.stop # None => p.stop \in Nat
        /\ p.target # None => p.target \in Nat /\ p.target > 0
        /\ p.target1 # None => p.target1 \in Nat /\ p.target1 > 0
    BY PositionsAre, Prices DEF Option
  <1>5. SellAt(j, b.open) \in Nat /\ SellAt(j, b.open) > 0
    BY <1>3, SellAtIs
  <1>6. Floor(j) \in Nat /\ SLIP \in Nat /\ None \notin Nat
    BY FloorIs, Naturals1, NoneIsNoNumber
  <1>7. p.stop # None => stopPrice \in Nat /\ stopPrice > 0
    BY <1>3, <1>4, <1>6 DEF Most
  <1>8. StopHit(b, p) => p.stop # None
    BY DEF StopHit
  <1>9. First(p) => p.target1 # None
    BY DEF First
  <1>10. CASE opensUnder
    <2>1. Exits(j, p) = [first |-> None, rest |-> SellAt(j, b.open)]
      BY <1>10 DEF Exits
    <2> QED
      BY <1>5, <1>6, <2>1
  <1>11. CASE ~opensUnder /\ opensOver
    <2>1. Exits(j, p) = [first |-> None, rest |-> b.open]
      BY <1>11 DEF Exits
    <2> QED
      BY <1>3, <1>6, <2>1
  <1>12. CASE ~opensUnder /\ ~opensOver
    <2>1. Exits(j, p) = [first |-> f, rest |-> r]
      BY <1>12 DEF Exits
    <2>2. f # None => f \in Nat /\ f > 0 /\ First(p)
      <3> HIDE DEF reached
      <3> QED
        BY <1>3, <1>4, <1>9
    <2>3. r # None => r \in Nat /\ r > 0
      <3> HIDE DEF stopPrice
      <3> QED
        BY <1>4, <1>7, <1>8
    <2>4. STOP_FIRST /\ p.stop # None /\ b.low <= p.stop => r # None
      <3>1. STOP_FIRST /\ p.stop # None /\ b.low <= p.stop => StopHit(b, p)
        BY DEF StopHit
      <3> HIDE DEF stopPrice
      <3> QED
        BY <1>6, <1>7, <3>1
    <2> HIDE DEF f, r
    <2> QED
      BY <2>1, <2>2, <2>3, <2>4
  <1> QED
    BY <1>10, <1>11, <1>12

-----------------------------------------------------------------------------
(* Queues of buys *)

LEMMA OnlyIs ==
    ASSUME NEW T, NEW s \in Seq(T), NEW S
    PROVE  /\ Only(s, S) \in Seq(T) /\ Range(Only(s, S)) = Range(s) \intersect S
           /\ SingleIn(s) => SingleIn(Only(s, S))
  <1> DEFINE t == Only(s, S)
  <1>1. t \in Seq(T) /\ \E e : Picks(e, t, s, S, Len(s))
    BY OnlyPicks
  <1>2. PICK e : Picks(e, t, s, S, Len(s))
    BY <1>1
  <1>3. DOMAIN s = 1..Len(s) /\ DOMAIN t = 1..Len(t) /\ Len(s) \in Nat /\ Len(t) \in Nat
    BY <1>1, LenProperties
  <1> HIDE DEF t
  <1>4. \A i \in 1..Len(t) : e[i] \in 1..Len(s) /\ t[i] = s[e[i]] /\ s[e[i]] \in S
    BY <1>2 DEF Picks
  <1>5. \A i, j \in 1..Len(t) : i < j => e[i] < e[j]
    BY <1>2 DEF Picks
  <1>6. \A k \in 1..Len(s) : s[k] \in S => \E i \in 1..Len(t) : e[i] = k
    BY <1>2 DEF Picks
  <1>7. Range(t) \subseteq Range(s) \intersect S
    BY <1>3, <1>4 DEF Range
  <1>8. ASSUME NEW x \in Range(s), x \in S PROVE x \in Range(t)
    <2>1. PICK k \in 1..Len(s) : x = s[k]
      BY <1>3 DEF Range
    <2>2. PICK i \in 1..Len(t) : e[i] = k
      BY <1>6, <1>8, <2>1
    <2>3. t[i] = x
      BY <1>4, <2>1, <2>2
    <2> QED
      BY <1>3, <2>3 DEF Range
  <1>9. ASSUME SingleIn(s), NEW m \in 1..Len(t), NEW n \in 1..Len(t),
               t[m].item.inst = t[n].item.inst
        PROVE  m = n
    <2>1. e[m] = e[n]
      BY <1>3, <1>4, <1>9 DEF SingleIn
    <2>2. e[m] \in Nat /\ ~(e[m] < e[m])
      BY <1>4
    <2>3. ~(m < n) /\ ~(n < m)
      BY <1>5, <2>1, <2>2
    <2> QED
      BY <1>3, <2>3
  <1>10. SingleIn(s) => SingleIn(t)
    BY <1>3, <1>9 DEF SingleIn
  <1> QED
    BY <1>1, <1>7, <1>8, <1>10 DEF t

LEMMA TailIs ==
    ASSUME NEW T, NEW s \in Seq(T), s # <<>>
    PROVE  /\ Head(s) \in T /\ Head(s) \in Range(s) /\ Tail(s) \in Seq(T)
           /\ Range(s) = Range(Tail(s)) \union {Head(s)}
           /\ SingleIn(s) =>
                /\ SingleIn(Tail(s))
                /\ \A o \in Range(Tail(s)) : o.item.inst # Head(s).item.inst
  <1> DEFINE t == Tail(s)
             L == Len(s)
  <1>1. /\ L \in Nat /\ DOMAIN s = 1..L /\ L # 0
        /\ Head(s) = s[1] /\ Head(s) \in T
        /\ t \in Seq(T) /\ Len(t) = L - 1 /\ \A i \in 1..Len(t) : t[i] = s[i + 1]
    BY LenProperties, HeadTailProperties, EmptySeq
  <1>2. DOMAIN t = 1..Len(t)
    BY <1>1, LenProperties
  <1> HIDE DEF t
  <1>3. 1 \in 1..L /\ Head(s) \in Range(s)
    BY <1>1 DEF Range
  <1>4. \A i \in 1..Len(t) : i + 1 \in 1..L /\ i + 1 # 1
    BY <1>1
  <1>5. Range(t) \subseteq Range(s)
    BY <1>1, <1>2, <1>4 DEF Range
  <1>6. ASSUME NEW x \in Range(s), x # Head(s) PROVE x \in Range(t)
    <2>1. PICK k \in 1..L : x = s[k]
      BY <1>1 DEF Range
    <2>2. k - 1 \in 1..Len(t) /\ (k - 1) + 1 = k
      BY <1>1, <1>6, <2>1
    <2>3. t[k - 1] = x
      BY <1>1, <2>1, <2>2
    <2> QED
      BY <1>2, <2>2, <2>3 DEF Range
  <1>7. ASSUME SingleIn(s)
        PROVE  SingleIn(t) /\ \A o \in Range(t) : o.item.inst # Head(s).item.inst
    <2>1. ASSUME NEW m \in 1..Len(t), NEW n \in 1..Len(t), t[m].item.inst = t[n].item.inst
          PROVE  m = n
      <3>1. s[m + 1].item.inst = s[n + 1].item.inst /\ m + 1 \in 1..L /\ n + 1 \in 1..L
        BY <1>1, <1>4, <2>1
      <3>2. m + 1 = n + 1
        BY <1>1, <1>7, <3>1 DEF SingleIn
      <3> QED
        BY <1>1, <3>2
    <2>2. ASSUME NEW o \in Range(t), o.item.inst = Head(s).item.inst PROVE FALSE
      <3>1. PICK i \in 1..Len(t) : o = t[i]
        BY <1>2 DEF Range
      <3>2. s[i + 1].item.inst = s[1].item.inst /\ i + 1 \in 1..L /\ i + 1 # 1
        BY <1>1, <1>4, <2>2, <3>1
      <3> QED
        BY <1>1, <1>3, <1>7, <3>2 DEF SingleIn
    <2> QED
      BY <1>2, <2>1, <2>2 DEF SingleIn
  <1> QED
    BY <1>1, <1>3, <1>5, <1>6, <1>7 DEF t

LEMMA AppendIs ==
    ASSUME NEW T, NEW s \in Seq(T), NEW x \in T
    PROVE  /\ Append(s, x) \in Seq(T) /\ Range(Append(s, x)) = Range(s) \union {x}
           /\ SingleIn(s) /\ (\A o \in Range(s) : o.item.inst # x.item.inst) =>
                SingleIn(Append(s, x))
  <1> DEFINE t == Append(s, x)
             L == Len(s)
  <1>1. /\ t \in Seq(T) /\ Len(t) = L + 1 /\ \A i \in 1..L : t[i] = s[i]
        /\ t[L + 1] = x
    BY AppendProperties
  <1>2. L \in Nat /\ DOMAIN s = 1..L /\ DOMAIN t = 1..(L + 1)
    BY <1>1, LenProperties
  <1> HIDE DEF t
  <1>3. \A i \in 1..(L + 1) : i \in 1..L \/ i = L + 1
    BY <1>2
  <1>4. Range(t) \subseteq Range(s) \union {x}
    BY <1>1, <1>2, <1>3 DEF Range
  <1>5. Range(s) \union {x} \subseteq Range(t)
    <2>1. \A i \in 1..L : i \in 1..(L + 1)
      BY <1>2
    <2>2. L + 1 \in 1..(L + 1)
      BY <1>2
    <2> QED
      BY <1>1, <1>2, <2>1, <2>2 DEF Range
  <1>6. ASSUME SingleIn(s), \A o \in Range(s) : o.item.inst # x.item.inst,
               NEW m \in 1..(L + 1), NEW n \in 1..(L + 1), t[m].item.inst = t[n].item.inst
        PROVE  m = n
    <2>1. \A i \in 1..L : t[i].item.inst # x.item.inst
      BY <1>1, <1>2, <1>6 DEF Range
    <2>2. CASE m \in 1..L /\ n \in 1..L
      BY <1>1, <1>2, <1>6, <2>2 DEF SingleIn
    <2>3. CASE ~(m \in 1..L /\ n \in 1..L)
      BY <1>1, <1>3, <1>6, <2>1, <2>3
    <2> QED
      BY <2>2, <2>3
  <1>7. SingleIn(s) /\ (\A o \in Range(s) : o.item.inst # x.item.inst) => SingleIn(t)
    BY <1>2, <1>6 DEF SingleIn
  <1> QED
    BY <1>1, <1>4, <1>5, <1>7 DEF t

-----------------------------------------------------------------------------
(* A position that only shrinks *)

\* What sales and the break-even move may do to a position.
Shrunk(p, new) ==
    /\ new \in Position /\ GoodLots(new.lots)
    /\ \A k \in 1..Len(new.lots) : \E n \in 1..Len(p.lots) : new.lots[k].at = p.lots[n].at
    /\ Shares(new.lots) <= Shares(p.lots)
    /\ new.due \in {p.due, None} /\ new.group \in {p.group, None}
    /\ new.lots # <<>> =>
          /\ p.lots # <<>>
          /\ new.bought = p.bought /\ new.due = p.due /\ new.group = p.group
          /\ p.stop # None => new.stop # None /\ new.stop >= p.stop

LEMMA ShrunkTwice ==
    ASSUME NEW p \in Position, GoodLots(p.lots), NEW new, NEW newer, Shrunk(p, new), Shrunk(new, newer)
    PROVE  Shrunk(p, newer)
  <1>1. Shares(newer.lots) <= Shares(p.lots)
    <2>1. Shares(newer.lots) \in Nat /\ Shares(new.lots) \in Nat /\ Shares(p.lots) \in Nat
      BY SharesAre DEF Shrunk
    <2> QED
      BY <2>1 DEF Shrunk
  <1>2. \A k \in 1..Len(newer.lots) : \E n \in 1..Len(p.lots) : newer.lots[k].at = p.lots[n].at
    BY DEF Shrunk
  <1>3. newer.lots # <<>> /\ p.stop # None => newer.stop # None /\ newer.stop >= p.stop
    <2>1. SUFFICES ASSUME newer.lots # <<>>, p.stop # None
                   PROVE  newer.stop # None /\ newer.stop >= p.stop
      OBVIOUS
    <2>2. /\ new.stop # None /\ new.stop >= p.stop /\ newer.stop # None /\ newer.stop >= new.stop
          /\ new \in Position /\ newer \in Position
      BY <2>1 DEF Shrunk
    <2>3. p.stop \in Nat /\ new.stop \in Nat /\ newer.stop \in Nat
      BY <2>1, <2>2, PositionsAre DEF Option
    <2> QED
      BY <2>2, <2>3
  <1> QED
    BY <1>1, <1>2, <1>3 DEF Shrunk

LEMMA RemovedAt ==
    ASSUME NEW lots, GoodLots(lots), NEW q \in Nat
    PROVE  \A k \in 1..Len(Removed(lots, q)) :
              \E n \in 1..Len(lots) : Removed(lots, q)[k].at = lots[n].at
  <1> DEFINE out == Removed(lots, q)
  <1>1. PICK e : Remains(e, out, lots, Emptied(lots, q))
    BY RemovedLots
  <1> HIDE DEF out
  <1>2. \A k \in 1..Len(out) : e[k] \in 1..Len(lots) /\ out[k].at = lots[e[k]].at
    BY <1>1 DEF Remains
  <1>3. \A k \in 1..Len(out) : \E n \in 1..Len(lots) : out[k].at = lots[n].at
    BY <1>2
  <1> QED
    BY <1>3 DEF out

LEMMA SoldShrinks ==
    ASSUME NEW p \in Position, GoodLots(p.lots), NEW q \in Nat
    PROVE  Shrunk(p, Sold(p, q))
  <1> DEFINE new == Sold(p, q)
  <1>1. /\ new \in Position /\ GoodLots(new.lots)
        /\ Shares(new.lots) = Most(0, Shares(p.lots) - q)
        /\ q >= Shares(p.lots) => new = Flat
        /\ q < Shares(p.lots) =>
             /\ new.lots = Removed(p.lots, q) /\ new.lots # <<>>
             /\ new.stop = p.stop /\ new.due = p.due
             /\ new.group = p.group /\ new.bought = p.bought
    BY SoldIs
  <1>2. Shares(p.lots) \in Nat /\ (Shares(p.lots) = 0 <=> p.lots = <<>>)
    BY SharesAre
  <1> HIDE DEF new
  <1>3. Shares(new.lots) <= Shares(p.lots)
    BY <1>1, <1>2 DEF Most
  <1>4. CASE q >= Shares(p.lots)
    <2>1. new.lots = <<>> /\ new.due = None /\ new.group = None
      BY <1>1, <1>4, FlatIsAPosition
    <2>2. \A k \in 1..Len(new.lots) : FALSE
      BY <2>1
    <2>3. Shrunk(p, new)
      BY <1>1, <1>3, <2>1, <2>2 DEF Shrunk
    <2> QED
      BY <2>3 DEF new
  <1>5. CASE q < Shares(p.lots)
    <2>1. \A k \in 1..Len(new.lots) : \E n \in 1..Len(p.lots) : new.lots[k].at = p.lots[n].at
      BY <1>1, <1>5, RemovedAt
    <2>2. p.lots # <<>>
      BY <1>2, <1>5
    <2>3. p.stop # None => new.stop # None /\ new.stop >= p.stop
      <3>1. p.stop # None => p.stop \in Nat
        BY PositionsAre DEF Option
      <3> QED
        BY <1>1, <1>5, <3>1
    <2>4. Shrunk(p, new)
      BY <1>1, <1>3, <1>5, <2>1, <2>2, <2>3 DEF Shrunk
    <2> QED
      BY <2>4 DEF new
  <1> QED
    BY <1>2, <1>4, <1>5

LEMMA SteppedShrinks ==
    ASSUME NEW p \in Position, GoodLots(p.lots)
    PROVE  Shrunk(p, Stepped(p))
  <1> DEFINE new == Stepped(p)
  <1>1. /\ new \in Position /\ new.lots = p.lots /\ new.due = p.due /\ new.group = p.group
        /\ new.bought = p.bought
        /\ p.stop # None => new.stop # None /\ new.stop >= p.stop
    BY SteppedIs
  <1>2. Shares(p.lots) \in Nat
    BY SharesAre
  <1> HIDE DEF new
  <1>3. Shrunk(p, new)
    BY <1>1, <1>2 DEF Shrunk
  <1> QED
    BY <1>3 DEF new

LEMMA FirstTakenShrinks ==
    ASSUME NEW p \in Position, GoodLots(p.lots), p.lots # <<>> => p.bought > 0, session \in Nat
    PROVE  Shrunk(p, FirstTaken(p))
  <1> DEFINE new == FirstTaken(p)
  <1>1. /\ new \in Position
        /\ new.lots = Removed(p.lots, FirstLots(p)) /\ GoodLots(new.lots)
        /\ p.lots # <<>> => new.lots # <<>>
        /\ Shares(new.lots) <= Shares(p.lots)
        /\ new.stop = p.stop /\ new.due = p.due /\ new.group = p.group /\ new.bought = p.bought
    BY FirstTakenIs
  <1>2. FirstLots(p) \in Nat
    BY FirstLotsAre
  <1>3. \A k \in 1..Len(new.lots) : \E n \in 1..Len(p.lots) : new.lots[k].at = p.lots[n].at
    <2> HIDE DEF new
    <2>1. \A k \in 1..Len(Removed(p.lots, FirstLots(p))) : \E n \in 1..Len(p.lots) :
             Removed(p.lots, FirstLots(p))[k].at = p.lots[n].at
      BY <1>2, RemovedAt
    <2> QED
      BY <1>1, <2>1
  <1>4. new.lots # <<>> => p.lots # <<>>
    <2> HIDE DEF new
    <2>1. Shares(new.lots) \in Nat /\ Shares(p.lots) \in Nat
          /\ (Shares(p.lots) = 0 <=> p.lots = <<>>) /\ (Shares(new.lots) = 0 <=> new.lots = <<>>)
      BY <1>1, SharesAre
    <2> QED
      BY <1>1, <2>1
  <1>5. p.stop # None => new.stop # None /\ new.stop >= p.stop
    <2> HIDE DEF new
    <2>1. p.stop # None => p.stop \in Nat
      BY PositionsAre DEF Option
    <2> QED
      BY <1>1, <2>1
  <1> HIDE DEF new
  <1>6. Shrunk(p, new)
    BY <1>1, <1>3, <1>4, <1>5 DEF Shrunk
  <1> QED
    BY <1>6 DEF new

\* The position of an exit, stepped, split and sold.
AfterExit(j, p) ==
    LET split == IF Exits(j, p).first = None THEN p ELSE FirstTaken(p)
    IN IF Exits(j, p).rest = None THEN split ELSE Sold(split, Sellable(split.lots, session))

LEMMA ExitShrinks ==
    ASSUME NEW p \in Position, GoodLots(p.lots), p.lots # <<>> => p.bought > 0, session \in Nat,
           NEW j
    PROVE  Shrunk(p, AfterExit(j, p))
  <1> DEFINE split == IF Exits(j, p).first = None THEN p ELSE FirstTaken(p)
             q == Sellable(split.lots, session)
  <1>1. Shrunk(p, p)
    <2>1. Shares(p.lots) \in Nat
      BY SharesAre
    <2>2. p.stop # None => p.stop \in Nat
      BY PositionsAre DEF Option
    <2> QED
      BY <2>1, <2>2 DEF Shrunk
  <1>2. Shrunk(p, split)
    BY <1>1, FirstTakenShrinks
  <1>3. split \in Position /\ GoodLots(split.lots)
    BY <1>2 DEF Shrunk
  <1>4. q \in Nat
    BY <1>3, SellableAre
  <1>5. AfterExit(j, p) = IF Exits(j, p).rest = None THEN split ELSE Sold(split, q)
    BY DEF AfterExit
  <1> HIDE DEF split, q
  <1>6. Shrunk(split, Sold(split, q))
    BY <1>3, <1>4, SoldShrinks
  <1>7. Shrunk(p, Sold(split, q))
    BY <1>2, <1>6, ShrunkTwice
  <1> QED
    BY <1>2, <1>5, <1>7

-----------------------------------------------------------------------------
(* The invariant is kept, action by action *)

LEMMA TypesAre ==
    ASSUME TypeOK
    PROVE  /\ session \in Nat /\ MarketOK /\ cash \in Int /\ equity \in Int
           /\ pos \in [Instruments -> Position] /\ sells \subseteq SellOrder
           /\ buys \in Seq(BuyOrder)
           /\ \A j \in Instruments : pos[j] \in Position
           /\ Held \subseteq Instruments
  BY DEF TypeOK, MarketOK, Held

LEMMA BooksFrame ==
    ASSUME BooksOK, UNCHANGED <<pos, session>>,
           \A j \in Instruments : ToBuy(j)' => ToBuy(j),
           \A j \in Held : Priced(j) => Priced(j)'
    PROVE  BooksOK'
  <1>1. ASSUME NEW j \in Instruments
        PROVE  /\ GoodLots(pos[j].lots)' /\ NoLater(pos[j].lots, session)'
               /\ ToBuy(j)' => Earlier(pos[j].lots, session)'
               /\ pos'[j].lots # <<>> => pos'[j].bought > 0 /\ Priced(j)'
    BY DEF BooksOK, Held
  <1> QED
    BY <1>1 DEF BooksOK

LEMMA BooksShrink ==
    ASSUME BooksOK, TypeOK, NEW j \in Instruments, NEW new, Shrunk(pos[j], new),
           pos' = [pos EXCEPT ![j] = new], UNCHANGED <<session, last, bar, phase, queue>>
    PROVE  BooksOK'
  <1>1. pos[j] \in Position /\ session \in Nat
    BY TypesAre
  <1>2. pos'[j] = new /\ \A k \in Instruments : k # j => pos'[k] = pos[k]
    BY TypesAre
  <1>3. \A k \in Instruments : (ToBuy(k)' <=> ToBuy(k)) /\ (Priced(k)' <=> Priced(k))
    BY DEF ToBuy, Priced
  <1>4. GoodLots(pos[j].lots) /\ GoodLots(new.lots)
    BY DEF BooksOK, Shrunk
  <1>5. PICK p : p = pos[j]
    OBVIOUS
  <1>6. NoLater(p.lots, session) => NoLater(new.lots, session)
    BY <1>5 DEF NoLater, Shrunk
  <1>7. Earlier(p.lots, session) => Earlier(new.lots, session)
    BY <1>5 DEF Earlier, Shrunk
  <1>8. new.lots # <<>> => p.lots # <<>> /\ new.bought = p.bought
    BY <1>5 DEF Shrunk
  <1>9. /\ GoodLots(new.lots) /\ NoLater(new.lots, session')
        /\ ToBuy(j)' => Earlier(new.lots, session')
        /\ new.lots # <<>> => new.bought > 0 /\ Priced(j)'
    BY <1>3, <1>4, <1>5, <1>6, <1>7, <1>8 DEF BooksOK
  <1>10. ASSUME NEW k \in Instruments
        PROVE  /\ GoodLots(pos'[k].lots) /\ NoLater(pos'[k].lots, session')
               /\ ToBuy(k)' => Earlier(pos'[k].lots, session')
               /\ pos'[k].lots # <<>> => pos'[k].bought > 0 /\ Priced(k)'
    <2>1. CASE k = j
      BY <1>2, <1>9, <2>1
    <2>2. CASE k # j
      BY <1>2, <1>3, <2>2 DEF BooksOK
    <2> QED
      BY <2>1, <2>2
  <1> QED
    BY <1>10 DEF BooksOK

LEMMA SellAllIs ==
    ASSUME TypeOK, BooksOK, NEW j \in Held, NEW made \in Int, made >= -1
    PROVE  /\ SellAll(j, made) \in SellOrder /\ SellAll(j, made).inst = j
           /\ SellAll(j, made).upto = made + 1 + MAX_SELL /\ SellAll(j, made).qty = Qty(j)
           /\ Qty(j) \in Nat \ {0}
  <1>1. j \in Instruments /\ pos[j].lots # <<>>
    BY DEF Held
  <1>2. GoodLots(pos[j].lots)
    BY <1>1 DEF BooksOK
  <1>3. Qty(j) \in Nat \ {0}
    BY <1>1, <1>2, SharesAre DEF Qty
  <1> QED
    BY <1>1, <1>3, Naturals1 DEF SellAll, SellOrder

LEMMA NextSessionKeeps ==
    ASSUME EngineInv, NextSession
    PROVE  EngineInv'
  <1>1. /\ phase = "rest" /\ phase' = "sells" /\ session' = session + 1 /\ bar' \in Days
        /\ sells' = sells \union TimeStops(session') /\ left' = sells'
        /\ UNCHANGED <<last, cash, pos, buys, queue, equity, peak, killed, until, unlisted>>
    BY DEF NextSession, risk
  <1>2. TypeOK /\ PhasesOK /\ OrdersOK /\ BooksOK
    BY DEF EngineInv
  <1>3. queue = <<>> /\ unlisted = {} /\ session' \in Nat /\ session' > 0 /\ session \in Nat
    BY <1>1, <1>2, TypesAre DEF PhasesOK
  <1>31. PICK m \in Nat : m = session
    BY <1>3
  <1>32. session' - 1 = m /\ m >= -1 /\ m \in Int
    BY <1>1, <1>31
  <1>4. ASSUME NEW o \in TimeStops(session')
        PROVE  o \in SellOrder /\ o.inst \in Held /\ SellsOf(o.inst) = {}
               /\ o = SellAll(o.inst, session' - 1)
    <2>1. session' - 1 = m /\ m \in Int /\ m >= -1
      BY <1>31, <1>32
    <2>2. PICK j \in Held : o = SellAll(j, session' - 1) /\ SellsOf(j) = {}
      BY DEF TimeStops
    <2>3. o = SellAll(j, m)
      BY <2>1, <2>2
    <2>4. SellAll(j, m) \in SellOrder /\ SellAll(j, m).inst = j
      BY <1>2, <2>1, SellAllIs
    <2> QED
      BY <2>1, <2>2, <2>3, <2>4
  <1>5. TypeOK'
    <2>1. bar' \in [Instruments -> Bar]
      BY <1>1, EngineAssumption
    <2>2. sells' \subseteq SellOrder
      BY <1>1, <1>2, <1>4, TypesAre
    <2>3. queue' \in Seq(BuyOrder)
      BY <1>1, <1>3, EmptySeq
    <2> QED
      BY <1>1, <1>2, <1>3, <2>1, <2>2, <2>3 DEF TypeOK, Phases
  <1>6. PhasesOK'
    BY <1>1, <1>3 DEF PhasesOK
  <1>7. OrdersOK'
    <2>1. Waiting' = Waiting
      BY <1>1 DEF Waiting
    <2>2. ASSUME NEW o \in sells', NEW p \in sells', o.inst = p.inst PROVE o = p
      <3>1. CASE o \in sells /\ p \in sells
        BY <1>2, <2>2, <3>1 DEF OrdersOK
      <3>2. CASE o \in TimeStops(session') /\ p \in TimeStops(session')
        BY <1>4, <2>2, <3>2
      <3>3. CASE o \in sells /\ p \in TimeStops(session')
        BY <1>4, <2>2, <3>3 DEF SellsOf
      <3>4. CASE o \in TimeStops(session') /\ p \in sells
        BY <1>4, <2>2, <3>4 DEF SellsOf
      <3> QED
        BY <1>1, <3>1, <3>2, <3>3, <3>4
    <2>3. \A o \in Waiting' : GoodBuy(o)
      BY <1>2, <2>1 DEF OrdersOK
    <2>4. SingleIn(buys')
      BY <1>1, <1>2 DEF OrdersOK
    <2> QED
      BY <1>1, <2>2, <2>3, <2>4 DEF OrdersOK
  <1>8. BooksOK'
    <2>1. ASSUME NEW j \in Instruments
          PROVE  /\ GoodLots(pos'[j].lots) /\ NoLater(pos'[j].lots, session')
                 /\ Earlier(pos'[j].lots, session')
                 /\ pos'[j].lots # <<>> => pos'[j].bought > 0 /\ Priced(j)'
      <3>1. GoodLots(pos[j].lots) /\ NoLater(pos[j].lots, session)
            /\ (pos[j].lots # <<>> => pos[j].bought > 0 /\ Priced(j))
        BY <1>2 DEF BooksOK
      <3>2. \A k \in 1..Len(pos[j].lots) : pos[j].lots[k].at \in Nat /\ pos[j].lots[k].at <= session
        BY <3>1, GoodLotsAre DEF NoLater
      <3>3. NoLater(pos[j].lots, session') /\ Earlier(pos[j].lots, session')
        BY <1>1, <1>3, <3>2 DEF NoLater, Earlier
      <3>4. Priced(j) => Priced(j)'
        BY <1>1 DEF Priced
      <3> QED
        BY <1>1, <3>1, <3>3, <3>4
    <2> QED
      BY <2>1 DEF BooksOK
  <1>9. StopsOK'
    BY <1>1 DEF StopsOK
  <1> QED
    BY <1>5, <1>6, <1>7, <1>8, <1>9 DEF EngineInv

\* What the waiting orders keep when an action leaves them alone.
LEMMA OrdersFrame ==
    ASSUME OrdersOK, UNCHANGED <<sells, buys>>, phase' # "buys"
    PROVE  OrdersOK'
  <1>1. Waiting' \subseteq Waiting
    BY DEF Waiting
  <1>2. \A o \in Waiting' : GoodBuy(o)
    BY <1>1 DEF OrdersOK
  <1> QED
    BY <1>2 DEF OrdersOK

\* exec_sell: one position shrinks.
LEMMA SellFillsKeeps ==
    ASSUME EngineInv, NEW o \in sells, SellFills(o)
    PROVE  EngineInv'
  <1> DEFINE j == o.inst
             q == Least(o.qty, Sellable(pos[j].lots, session))
             new == Sold(pos[j], q)
             more == IF q < o.qty /\ q < Qty(j) /\ Lasts(o.upto) THEN {[o EXCEPT !.qty = @ - q]} ELSE {}
  <1>1. /\ phase = "sells" /\ o \in left /\ CanSell(o)
        /\ cash' = cash + Net(q, SellAt(j, bar[j].open))
        /\ pos' = [pos EXCEPT ![j] = new]
        /\ sells' = (sells \ {o}) \union more /\ left' = left \ {o}
        /\ UNCHANGED <<session, phase, bar, last, buys, queue, equity, peak, killed, until, unlisted>>
    BY DEF SellFills, market, risk
  <1>2. TypeOK /\ PhasesOK /\ OrdersOK /\ BooksOK
    BY DEF EngineInv
  <1>3. j \in Instruments /\ o \in SellOrder /\ o.qty \in Nat \ {0} /\ o.upto \in Nat
    BY <1>2, TypesAre, SellOrdersAre
  <1>4. /\ pos[j] \in Position /\ GoodLots(pos[j].lots) /\ session \in Nat /\ MarketOK /\ cash \in Int
        /\ pos \in [Instruments -> Position] /\ sells \subseteq SellOrder
    BY <1>2, <1>3, TypesAre DEF BooksOK
  <1>5. Sellable(pos[j].lots, session) \in Nat
    BY <1>4, SellableAre
  <1>6. q \in Nat
    BY <1>3, <1>5 DEF Least
  <1>7. SellAt(j, bar[j].open) \in Nat /\ SellAt(j, bar[j].open) > 0
    <2>1. bar[j].open \in Price
      BY <1>1, <1>3, <1>4, BarsAre DEF CanSell, Trades, MarketOK, Option
    <2> QED
      BY <1>3, <1>4, <2>1, SellAtIs
  <1>8. Net(q, SellAt(j, bar[j].open)) \in Nat
    BY <1>6, <1>7, NetIs
  <1> HIDE DEF q
  <1>9. Shrunk(pos[j], new)
    BY <1>4, <1>6, SoldShrinks
  <1> HIDE DEF new
  <1>10. new \in Position
    BY <1>9 DEF Shrunk
  <1>11. \A p \in more : p \in SellOrder /\ p.inst = j
    BY <1>3, <1>6 DEF SellOrder
  <1> HIDE DEF more
  <1>12. left' \subseteq sells'
    BY <1>1, <1>2 DEF PhasesOK
  <1>13. TypeOK'
    <2>1. pos' \in [Instruments -> Position]
      BY <1>1, <1>4, <1>10
    <2>2. cash' \in Int
      BY <1>1, <1>4, <1>8
    <2>3. sells' \subseteq SellOrder
      BY <1>1, <1>4, <1>11
    <2> QED
      BY <1>1, <1>2, <1>12, <2>1, <2>2, <2>3 DEF TypeOK
  <1>14. PhasesOK'
    BY <1>1, <1>2, <1>12 DEF PhasesOK
  <1>15. OrdersOK'
    <2>1. Waiting' = Waiting
      BY <1>1 DEF Waiting
    <2>2. ASSUME NEW a \in sells', NEW b \in sells', a.inst = b.inst PROVE a = b
      <3>1. \A x, y \in sells : x.inst = y.inst => x = y
        BY <1>2 DEF OrdersOK
      <3>2. \A x \in sells \ {o} : x.inst # j
        BY <3>1
      <3>3. \A x, y \in more : x = y
        BY DEF more
      <3>4. /\ a \in sells \ {o} \/ a \in more
            /\ b \in sells \ {o} \/ b \in more
        BY <1>1
      <3> QED
        BY <1>11, <2>2, <3>1, <3>2, <3>3, <3>4
    <2> QED
      BY <1>1, <1>2, <2>1, <2>2 DEF OrdersOK
  <1>16. BooksOK'
    BY <1>1, <1>2, <1>3, <1>9, BooksShrink
  <1>17. StopsOK'
    BY <1>1 DEF StopsOK
  <1> QED
    BY <1>13, <1>14, <1>15, <1>16, <1>17 DEF EngineInv

LEMMA SellWaitsKeeps ==
    ASSUME EngineInv, NEW o \in sells, SellWaits(o)
    PROVE  EngineInv'
  <1>1. /\ phase = "sells" /\ left' = left \ {o}
        /\ sells' = sells \/ sells' = sells \ {o}
        /\ UNCHANGED <<session, phase, bar, last, cash, pos, buys, queue,
                       equity, peak, killed, until, unlisted>>
    BY DEF SellWaits, market, risk
  <1>2. TypeOK /\ PhasesOK /\ OrdersOK /\ BooksOK
    BY DEF EngineInv
  <1>3. left' \subseteq sells' /\ sells' \subseteq sells
    BY <1>1, <1>2 DEF PhasesOK
  <1>4. TypeOK'
    BY <1>1, <1>2, <1>3 DEF TypeOK
  <1>5. PhasesOK'
    BY <1>1, <1>2, <1>3 DEF PhasesOK
  <1>6. OrdersOK'
    <2>1. Waiting' = Waiting
      BY <1>1 DEF Waiting
    <2> QED
      BY <1>1, <1>2, <1>3, <2>1 DEF OrdersOK
  <1>7. BooksOK'
    BY <1>1, <1>2, BooksFrame DEF ToBuy, Priced
  <1>8. StopsOK'
    BY <1>1 DEF StopsOK
  <1> QED
    BY <1>4, <1>5, <1>6, <1>7, <1>8 DEF EngineInv

LEMMA SellsEndKeeps ==
    ASSUME EngineInv, SellsEnd
    PROVE  EngineInv'
  <1>1. /\ phase = "sells" /\ left = {} /\ phase' = "buys" /\ queue' = buys /\ buys' = <<>>
        /\ UNCHANGED <<session, bar, last, cash, pos, sells, left, equity, peak, killed, until, unlisted>>
    BY DEF SellsEnd, market, risk
  <1>2. TypeOK /\ PhasesOK /\ OrdersOK /\ BooksOK
    BY DEF EngineInv
  <1>3. buys \in Seq(BuyOrder) /\ <<>> \in Seq(BuyOrder) /\ Range(<<>>) = {}
    BY <1>2, TypesAre, EmptySeq DEF Range
  <1>4. TypeOK'
    BY <1>1, <1>2, <1>3 DEF TypeOK, Phases
  <1>5. PhasesOK'
    BY <1>1, <1>2, <1>3 DEF PhasesOK
  <1>6. OrdersOK'
    <2>1. Waiting' = Waiting
      BY <1>1, <1>3 DEF Waiting
    <2>2. SingleIn(buys')
      BY <1>1 DEF SingleIn
    <2>3. SingleIn(queue')
      BY <1>1, <1>2 DEF OrdersOK
    <2>4. Range(buys') = {}
      BY <1>1, <1>3
    <2>5. \A o \in Waiting' : GoodBuy(o)
      BY <1>2, <2>1 DEF OrdersOK
    <2>6. \A o, p \in sells' : o.inst = p.inst => o = p
      BY <1>1, <1>2 DEF OrdersOK
    <2> QED
      BY <2>2, <2>3, <2>4, <2>5, <2>6 DEF OrdersOK
  <1>7. BooksOK'
    BY <1>1, <1>2, BooksFrame DEF ToBuy, Priced
  <1>8. StopsOK'
    BY <1>1 DEF StopsOK
  <1> QED
    BY <1>4, <1>5, <1>6, <1>7, <1>8 DEF EngineInv

\* exec_buy: the oldest buy in the queue becomes a lot of this session.
BuyOf(o) == Affordable(Least(o.value, cash), BuyPrice(o))
AfterBuy(o) == Bought(pos[o.item.inst], o.item, BuyOf(o), BuyPrice(o))

LEMMA BuyFillsIs ==
    ASSUME EngineInv, BuyFills
    PROVE  LET o == Head(queue)
               j == o.item.inst
           IN /\ phase = "buys" /\ queue # <<>> /\ o \in Range(queue) /\ j \in Instruments
              /\ o.item \in Item /\ o.item \in Asked /\ BuyPrice(o) \in Price
              /\ BuyOf(o) \in Nat \ {0}
              /\ Cost(BuyOf(o), BuyPrice(o)) \in Nat /\ Cost(BuyOf(o), BuyPrice(o)) > 0
              /\ Cost(BuyOf(o), BuyPrice(o)) <= cash
              /\ bar[j].close # None
              /\ pos[j] \in Position /\ GoodLots(pos[j].lots) /\ Earlier(pos[j].lots, session)
              /\ cash' = cash - Cost(BuyOf(o), BuyPrice(o))
              /\ pos' = [pos EXCEPT ![j] = AfterBuy(o)]
              /\ queue' = Tail(queue)
              /\ UNCHANGED <<session, phase, bar, last, sells, buys, left, equity, peak, killed, until, unlisted>>
  <1> DEFINE o == Head(queue)
             j == o.item.inst
  <1>1. /\ phase = "buys" /\ queue # <<>> /\ CanBuy(o)
        /\ cash' = cash - Cost(BuyOf(o), BuyPrice(o))
        /\ pos' = [pos EXCEPT ![j] = AfterBuy(o)]
        /\ queue' = Tail(queue)
        /\ UNCHANGED <<session, phase, bar, last, sells, buys, left, equity, peak, killed, until, unlisted>>
    BY DEF BuyFills, BuyOf, AfterBuy, market, risk, orders
  <1>2. TypeOK /\ PhasesOK /\ OrdersOK /\ BooksOK
    BY DEF EngineInv
  <1>3. queue \in Seq(BuyOrder) /\ o \in Range(queue)
    BY <1>1, <1>2, TailIs DEF PhasesOK
  <1>4. GoodBuy(o)
    BY <1>1, <1>2, <1>3 DEF OrdersOK, Waiting
  <1> HIDE DEF o
  <1>5. MarketOK /\ cash \in Int /\ \A i \in Instruments : pos[i] \in Position
    BY <1>2, TypesAre
  <1>6. PICK x : x = o
    OBVIOUS
  <1>7. BuyPrice(x) \in Price /\ x.item.inst \in Instruments /\ bar[x.item.inst].close # None
        /\ Affordable(Least(x.value, cash), BuyPrice(x)) >= LOT
    BY <1>1, <1>4, <1>5, <1>6, BuyPriceIs
  <1>8. x.value \in Nat /\ x.item \in Item /\ x.item \in Asked
    BY <1>4, <1>6, BuyOrdersAre DEF GoodBuy
  <1>9. Least(x.value, cash) \in Int /\ Least(x.value, cash) <= cash
    BY <1>5, <1>8 DEF Least
  <1>10. PICK c \in Int : c = Least(x.value, cash) /\ c <= cash
    BY <1>9
  <1>11. PICK y \in Price : y = BuyPrice(x)
    BY <1>7
  <1>12. Affordable(c, y) >= LOT
    BY <1>7, <1>10, <1>11
  <1>13. /\ Affordable(c, y) \in Nat \ {0} /\ Cost(Affordable(c, y), y) \in Nat
         /\ Cost(Affordable(c, y), y) > 0 /\ Cost(Affordable(c, y), y) <= c
    BY <1>12, AffordableIs
  <1>14. BuyOf(x) = Affordable(c, y)
    BY <1>10, <1>11 DEF BuyOf
  <1>15. /\ BuyOf(x) \in Nat \ {0} /\ Cost(BuyOf(x), BuyPrice(x)) \in Nat
         /\ Cost(BuyOf(x), BuyPrice(x)) > 0 /\ Cost(BuyOf(x), BuyPrice(x)) <= cash
    BY <1>5, <1>10, <1>11, <1>13, <1>14
  <1>16. j \in Instruments /\ ToBuy(j)
    BY <1>1, <1>3, <1>6, <1>7 DEF ToBuy
  <1>17. GoodLots(pos[j].lots) /\ Earlier(pos[j].lots, session)
    BY <1>2, <1>16 DEF BooksOK
  <1> QED
    BY <1>1, <1>3, <1>5, <1>6, <1>7, <1>8, <1>15, <1>16, <1>17 DEF o

LEMMA AfterBuyIs ==
    ASSUME EngineInv, BuyFills
    PROVE  LET o == Head(queue)
               j == o.item.inst
               l == [qty |-> BuyOf(o), at |-> session]
               new == AfterBuy(o)
           IN /\ new \in Position /\ l \in Lot
              /\ new.lots = Append(pos[j].lots, l) /\ GoodLots(new.lots) /\ new.lots # <<>>
              /\ new.bought > 0
              /\ pos[j].stop # None => new.stop = pos[j].stop
              /\ new.due = pos[j].due \/ (o.item.hold # None /\ new.due = session + o.item.hold)
              /\ new.group = IF pos[j].group = None THEN o.item.group ELSE pos[j].group
              /\ NoLater(new.lots, session)
  <1>1. PICK o : o = Head(queue)
    OBVIOUS
  <1>2. /\ o.item.inst \in Instruments /\ o.item \in Item /\ BuyPrice(o) \in Price
        /\ BuyOf(o) \in Nat \ {0}
        /\ pos[o.item.inst] \in Position /\ GoodLots(pos[o.item.inst].lots)
        /\ Earlier(pos[o.item.inst].lots, session)
    BY <1>1, BuyFillsIs
  <1>3. PICK p \in Position : p = pos[o.item.inst]
    BY <1>2
  <1>4. PICK it \in Item, q \in Nat \ {0}, y \in Price :
            it = o.item /\ q = BuyOf(o) /\ y = BuyPrice(o)
    BY <1>2
  <1>5. session \in Nat /\ \A k \in 1..Len(p.lots) : p.lots[k].at < session
    BY <1>2, <1>3, TypesAre DEF EngineInv, Earlier
  <1>6. AfterBuy(o) = Bought(p, it, q, y)
    BY <1>3, <1>4 DEF AfterBuy
  <1>7. PICK l : l = [qty |-> q, at |-> session]
    OBVIOUS
  <1> DEFINE new == Bought(p, it, q, y)
  <1>8. /\ new \in Position /\ l \in Lot
        /\ new.lots = Append(p.lots, l) /\ GoodLots(new.lots) /\ new.lots # <<>>
        /\ new.bought > 0
        /\ p.stop # None => new.stop = p.stop
        /\ new.due = p.due \/ (it.hold # None /\ new.due = session + it.hold)
        /\ new.group = IF p.group = None THEN it.group ELSE p.group
    <2>1. GoodLots(p.lots) /\ session \in Nat /\ \A k \in 1..Len(p.lots) : p.lots[k].at < session
      BY <1>2, <1>3, <1>5
    <2>2. LET m == [qty |-> q, at |-> session]
          IN /\ new \in Position /\ m \in Lot
             /\ new.lots = Append(p.lots, m) /\ GoodLots(new.lots) /\ new.lots # <<>>
             /\ new.bought > 0
             /\ p.stop # None => new.stop = p.stop
             /\ new.due = p.due \/ (it.hold # None /\ new.due = session + it.hold)
             /\ new.group = IF p.group = None THEN it.group ELSE p.group
      BY <2>1, BoughtIs
    <2> HIDE DEF new
    <2> QED
      BY <1>7, <2>2
  <1> HIDE DEF new
  <1>9. NoLater(new.lots, session)
    <2>0. p.lots \in Seq(Lot)
      BY PositionsAre
    <2>1. /\ Len(new.lots) = Len(p.lots) + 1
          /\ \A k \in 1..Len(p.lots) : new.lots[k] = p.lots[k]
          /\ new.lots[Len(p.lots) + 1] = l
      <3>1. /\ Len(Append(p.lots, l)) = Len(p.lots) + 1
            /\ \A k \in 1..Len(p.lots) : Append(p.lots, l)[k] = p.lots[k]
            /\ Append(p.lots, l)[Len(p.lots) + 1] = l
        BY <1>8, <2>0, AppendProperties
      <3> QED
        BY <1>8, <3>1
    <2>2. Len(p.lots) \in Nat /\ \A k \in 1..Len(p.lots) : p.lots[k].at \in Nat
      BY <1>2, <1>3, GoodLotsAre
    <2>3. \A k \in 1..Len(p.lots) + 1 : k \in 1..Len(p.lots) \/ k = Len(p.lots) + 1
      BY <2>2
    <2>4. l.at = session
      BY <1>7
    <2>5. ASSUME NEW k \in 1..Len(new.lots) PROVE new.lots[k].at <= session
      <3>1. k \in 1..Len(p.lots) \/ k = Len(p.lots) + 1
        BY <2>1, <2>3
      <3>2. CASE k \in 1..Len(p.lots)
        <4>1. p.lots[k].at < session /\ p.lots[k].at \in Nat /\ new.lots[k] = p.lots[k]
          BY <1>5, <2>1, <2>2, <3>2
        <4> QED
          BY <1>5, <4>1
      <3>3. CASE k = Len(p.lots) + 1
        BY <1>5, <2>1, <2>4, <3>3
      <3> QED
        BY <3>1, <3>2, <3>3
    <2> QED
      BY <2>5 DEF NoLater
  <1>10. l = [qty |-> BuyOf(o), at |-> session]
    BY <1>4, <1>7
  <1> QED
    BY <1>1, <1>3, <1>4, <1>6, <1>8, <1>9, <1>10 DEF new

LEMMA BuyFillsKeeps ==
    ASSUME EngineInv, BuyFills
    PROVE  EngineInv'
  <1>1. PICK o : o = Head(queue)
    OBVIOUS
  <1>2. PICK j : j = o.item.inst
    OBVIOUS
  <1>3. /\ phase = "buys" /\ queue # <<>> /\ o \in Range(queue) /\ j \in Instruments
        /\ Cost(BuyOf(o), BuyPrice(o)) \in Nat /\ bar[j].close # None
        /\ cash' = cash - Cost(BuyOf(o), BuyPrice(o))
        /\ pos' = [pos EXCEPT ![j] = AfterBuy(o)]
        /\ queue' = Tail(queue)
        /\ UNCHANGED <<session, phase, bar, last, sells, buys, left, equity, peak, killed, until, unlisted>>
    BY <1>1, <1>2, BuyFillsIs
  <1>4. PICK new : new = AfterBuy(o)
    OBVIOUS
  <1>5. /\ new \in Position /\ GoodLots(new.lots) /\ new.lots # <<>> /\ new.bought > 0
        /\ NoLater(new.lots, session)
    BY <1>1, <1>4, AfterBuyIs
  <1>6. TypeOK /\ PhasesOK /\ OrdersOK /\ BooksOK
    BY DEF EngineInv
  <1>7. cash \in Int /\ pos \in [Instruments -> Position] /\ queue \in Seq(BuyOrder)
    BY <1>3, <1>6, TypesAre DEF PhasesOK
  <1>8. /\ queue' \in Seq(BuyOrder) /\ Range(queue) = Range(queue') \union {o}
        /\ SingleIn(queue')
        /\ \A x \in Range(queue') : x.item.inst # j
    <2>1. SingleIn(queue)
      BY <1>3, <1>6 DEF OrdersOK
    <2>2. PICK s : s = Tail(queue)
      OBVIOUS
    <2>3. /\ s \in Seq(BuyOrder) /\ Range(queue) = Range(s) \union {o} /\ SingleIn(s)
          /\ \A x \in Range(s) : x.item.inst # j
      BY <1>1, <1>2, <1>3, <1>7, <2>1, <2>2, TailIs
    <2> QED
      BY <1>3, <2>2, <2>3
  <1>9. pos' = [pos EXCEPT ![j] = new]
    BY <1>3, <1>4
  <1>10. TypeOK'
    <2>1. pos' \in [Instruments -> Position]
      BY <1>3, <1>5, <1>7, <1>9
    <2>2. cash' \in Int
      BY <1>3, <1>7
    <2> QED
      BY <1>3, <1>6, <1>8, <2>1, <2>2 DEF TypeOK
  <1>11. PhasesOK'
    BY <1>3, <1>6, <1>8 DEF PhasesOK
  <1>12. OrdersOK'
    <2>1. \A x \in Waiting' : GoodBuy(x)
      BY <1>3, <1>6, <1>8 DEF OrdersOK, Waiting
    <2>2. \A x, y \in sells' : x.inst = y.inst => x = y
      BY <1>3, <1>6 DEF OrdersOK
    <2>3. SingleIn(buys') /\ \A x \in Range(buys'), y \in Range(queue') : x.item.inst # y.item.inst
      BY <1>3, <1>6, <1>8 DEF OrdersOK
    <2> QED
      BY <1>8, <2>1, <2>2, <2>3 DEF OrdersOK
  <1>13. BooksOK'
    <2>1. ASSUME NEW k \in Instruments
          PROVE  /\ GoodLots(pos'[k].lots) /\ NoLater(pos'[k].lots, session')
                 /\ ToBuy(k)' => Earlier(pos'[k].lots, session')
                 /\ pos'[k].lots # <<>> => pos'[k].bought > 0 /\ Priced(k)'
      <3>1. CASE k = j
        <4>1. pos'[k] = new
          BY <1>7, <1>9, <3>1
        <4>2. ~ToBuy(k)'
          BY <1>3, <1>8, <3>1 DEF ToBuy
        <4>3. Priced(k)'
          BY <1>3, <3>1 DEF Priced
        <4> QED
          BY <1>3, <1>5, <4>1, <4>2, <4>3
      <3>2. CASE k # j
        <4>1. pos'[k] = pos[k]
          BY <1>7, <1>9, <3>2
        <4>2. ToBuy(k)' => ToBuy(k)
          BY <1>3, <1>8 DEF ToBuy
        <4>3. Priced(k)' <=> Priced(k)
          BY <1>3 DEF Priced
        <4> QED
          BY <1>3, <1>6, <4>1, <4>2, <4>3 DEF BooksOK
      <3> QED
        BY <3>1, <3>2
    <2> QED
      BY <2>1 DEF BooksOK
  <1>14. StopsOK'
    BY <1>3 DEF StopsOK
  <1> QED
    BY <1>10, <1>11, <1>12, <1>13, <1>14 DEF EngineInv

\* A buy that is not filled waits for the next session, or is dropped.
LEMMA BuyFailsKeeps ==
    ASSUME EngineInv, BuyFails
    PROVE  EngineInv'
  <1>1. PICK o : o = Head(queue)
    OBVIOUS
  <1>2. /\ phase = "buys" /\ queue # <<>>
        /\ buys' = buys \/ buys' = Append(buys, o)
        /\ queue' = Tail(queue)
        /\ UNCHANGED <<session, phase, bar, last, cash, pos, sells, left, equity, peak, killed, until, unlisted>>
    BY <1>1 DEF BuyFails, market, risk
  <1>3. TypeOK /\ PhasesOK /\ OrdersOK /\ BooksOK
    BY DEF EngineInv
  <1>4. buys \in Seq(BuyOrder) /\ queue \in Seq(BuyOrder) /\ SingleIn(queue) /\ SingleIn(buys)
    BY <1>2, <1>3, TypesAre DEF PhasesOK, OrdersOK
  <1>5. PICK s : s = Tail(queue)
    OBVIOUS
  <1>6. /\ o \in BuyOrder /\ o \in Range(queue)
        /\ s \in Seq(BuyOrder) /\ Range(queue) = Range(s) \union {o} /\ SingleIn(s)
        /\ \A x \in Range(s) : x.item.inst # o.item.inst
    BY <1>1, <1>2, <1>4, <1>5, TailIs
  <1>7. \A x \in Range(buys) : x.item.inst # o.item.inst
    BY <1>2, <1>3, <1>6 DEF OrdersOK
  <1>8. PICK t : t = Append(buys, o)
    OBVIOUS
  <1>9. t \in Seq(BuyOrder) /\ Range(t) = Range(buys) \union {o} /\ SingleIn(t)
    BY <1>4, <1>6, <1>7, <1>8, AppendIs
  <1>10. /\ buys' \in Seq(BuyOrder) /\ SingleIn(buys') /\ Range(buys') \subseteq Range(buys) \union {o}
         /\ queue' = s
    BY <1>2, <1>4, <1>5, <1>8, <1>9
  <1>11. TypeOK'
    BY <1>2, <1>3, <1>6, <1>10 DEF TypeOK
  <1>12. PhasesOK'
    BY <1>2, <1>3, <1>6, <1>10 DEF PhasesOK
  <1>13. OrdersOK'
    <2>1. \A x \in Waiting' : GoodBuy(x)
      BY <1>2, <1>3, <1>6, <1>10 DEF OrdersOK, Waiting
    <2>2. \A x, y \in sells' : x.inst = y.inst => x = y
      BY <1>2, <1>3 DEF OrdersOK
    <2>3. \A x \in Range(buys'), y \in Range(queue') : x.item.inst # y.item.inst
      <3>1. \A x \in Range(buys), y \in Range(queue) : x.item.inst # y.item.inst
        BY <1>2, <1>3 DEF OrdersOK
      <3> QED
        BY <1>6, <1>10, <3>1
    <2> QED
      BY <1>6, <1>10, <2>1, <2>2, <2>3 DEF OrdersOK
  <1>14. BooksOK'
    <2>1. \A k \in Instruments : ToBuy(k)' => ToBuy(k)
      BY <1>2, <1>6, <1>10 DEF ToBuy
    <2>2. \A k \in Held : Priced(k) => Priced(k)'
      BY <1>2 DEF Priced
    <2> QED
      BY <1>2, <1>3, <2>1, <2>2, BooksFrame
  <1>15. StopsOK'
    BY <1>2 DEF StopsOK
  <1> QED
    BY <1>11, <1>12, <1>13, <1>14, <1>15 DEF EngineInv

LEMMA BuysEndKeeps ==
    ASSUME EngineInv, BuysEnd
    PROVE  EngineInv'
  <1>1. /\ phase = "buys" /\ queue = <<>> /\ phase' = "exits" /\ left' = Held
        /\ UNCHANGED <<session, bar, last, cash, pos, sells, buys, queue, equity, peak, killed, until, unlisted>>
    BY DEF BuysEnd, market, orders, risk
  <1>2. TypeOK /\ PhasesOK /\ OrdersOK /\ BooksOK
    BY DEF EngineInv
  <1>3. Held \subseteq Instruments /\ Held' = Held
    BY <1>1 DEF Held
  <1>4. TypeOK'
    BY <1>1, <1>2, <1>3 DEF TypeOK, Phases
  <1>5. PhasesOK'
    BY <1>1, <1>2, <1>3 DEF PhasesOK
  <1>6. OrdersOK'
    BY <1>1, <1>2, OrdersFrame
  <1>7. BooksOK'
    BY <1>1, <1>2, BooksFrame DEF ToBuy, Priced
  <1>8. StopsOK'
    BY <1>1, <1>3 DEF StopsOK
  <1> QED
    BY <1>4, <1>5, <1>6, <1>7, <1>8 DEF EngineInv

\* A stop that was touched: what is settled is gone after the exit of its position.
LEMMA ExitHonours ==
    ASSUME MarketOK, session \in Nat, NEW j \in Instruments, NEW p \in Position, GoodLots(p.lots),
           p.lots # <<>> => p.bought > 0, Watched(j, p), STOP_FIRST,
           AfterExit(j, p).lots # <<>>, Touched(j, AfterExit(j, p))
    PROVE  NoneSettled(AfterExit(j, p).lots)
  <1> DEFINE split == IF Exits(j, p).first = None THEN p ELSE FirstTaken(p)
             q == Sellable(split.lots, session)
  <1>1. AfterExit(j, p) = IF Exits(j, p).rest = None THEN split ELSE Sold(split, q)
    BY DEF AfterExit
  <1>2. split \in Position /\ GoodLots(split.lots) /\ split.stop = p.stop
    BY FirstTakenIs
  <1>3. q \in Nat
    BY <1>2, SellableAre
  <1>4. CASE Exits(j, p).rest = None
    <2>1. AfterExit(j, p) = split
      BY <1>1, <1>4
    <2>2. p.stop # None /\ bar[j].low <= p.stop
      BY <1>2, <2>1 DEF Touched
    <2>3. Exits(j, p).rest # None
      BY <2>2, ExitsAre
    <2> QED
      BY <1>4, <2>3
  <1>5. CASE Exits(j, p).rest # None
    <2>1. AfterExit(j, p) = Sold(split, q)
      BY <1>1, <1>5
    <2> HIDE DEF split
    <2>2. q < Shares(split.lots)
      <3>1. q >= Shares(split.lots) => Sold(split, q) = Flat
        BY <1>2, <1>3, SoldIs
      <3>2. Shares(split.lots) \in Nat
        BY <1>2, SharesAre
      <3> QED
        BY <1>3, <2>1, <3>1, <3>2, FlatIsAPosition
    <2>3. Sold(split, q).lots = Removed(split.lots, Sellable(split.lots, session))
      BY <1>2, <1>3, <2>2, SoldIs
    <2>4. PICK new : new = Removed(split.lots, Sellable(split.lots, session))
      OBVIOUS
    <2>5. \A n \in 1..Len(new) : ~Settled(new, n, session)
      BY <1>2, <2>4, SettledLeave
    <2> QED
      BY <2>1, <2>3, <2>4, <2>5 DEF NoneSettled
  <1> QED
    BY <1>4, <1>5

\* The exits phase has been through the position of j, which became new.
LEMMA ExitStep ==
    ASSUME EngineInv, phase = "exits", NEW j \in Instruments, NEW new, Shrunk(pos[j], new),
           pos' = [pos EXCEPT ![j] = new], left' = left \ {j}, cash' \in Int,
           UNCHANGED <<session, phase, bar, last, sells, buys, queue, equity, peak, killed, until, unlisted>>,
           STOP_FIRST /\ new.lots # <<>> /\ Touched(j, new) => NoneSettled(new.lots)
    PROVE  EngineInv'
  <1>1. TypeOK /\ PhasesOK /\ OrdersOK /\ BooksOK /\ StopsOK
    BY DEF EngineInv
  <1>2. pos \in [Instruments -> Position] /\ new \in Position
    BY <1>1, TypesAre DEF Shrunk
  <1>3. left' \subseteq Instruments
    BY <1>1 DEF PhasesOK
  <1>4. TypeOK'
    BY <1>1, <1>2, <1>3 DEF TypeOK
  <1>5. PhasesOK'
    BY <1>1, <1>3 DEF PhasesOK
  <1>6. OrdersOK'
    BY <1>1, OrdersFrame
  <1>7. BooksOK'
    BY <1>1, BooksShrink
  <1>8. StopsOK'
    <2>1. ASSUME STOP_FIRST, NEW k \in Held', k \notin left', Touched(k, pos[k])'
          PROVE  NoneSettled(pos[k].lots)'
      <3>1. k \in Instruments /\ pos'[k].lots # <<>>
        BY <2>1 DEF Held
      <3>2. CASE k = j
        <4>1. pos'[k] = new
          BY <1>2, <3>2
        <4>2. Touched(j, new)
          BY <2>1, <3>2, <4>1 DEF Touched, Floor
        <4>3. NoneSettled(new.lots)
          BY <2>1, <3>1, <4>1, <4>2
        <4> QED
          BY <4>1, <4>3 DEF NoneSettled
      <3>3. CASE k # j
        <4>1. pos'[k] = pos[k]
          BY <1>2, <3>1, <3>3
        <4>2. k \in Held /\ k \notin left
          BY <2>1, <3>1, <3>3, <4>1 DEF Held
        <4>3. Touched(k, pos[k])
          BY <2>1, <4>1 DEF Touched, Floor
        <4>4. NoneSettled(pos[k].lots)
          BY <1>1, <2>1, <4>2, <4>3 DEF StopsOK
        <4> QED
          BY <4>1, <4>4 DEF NoneSettled
      <3> QED
        BY <3>2, <3>3
    <2> QED
      BY <2>1 DEF StopsOK
  <1> QED
    BY <1>4, <1>5, <1>6, <1>7, <1>8 DEF EngineInv

LEMMA NoExitKeeps ==
    ASSUME EngineInv, NEW j \in Instruments, NoExit(j)
    PROVE  EngineInv' /\ Shrunk(pos[j], pos'[j])
  <1>1. PICK p : p = Stepped(pos[j])
    OBVIOUS
  <1>2. /\ phase = "exits" /\ j \in left
        /\ Watched(j, p) => Exits(j, p) = [first |-> None, rest |-> None]
        /\ pos' = [pos EXCEPT ![j] = p] /\ left' = left \ {j}
        /\ UNCHANGED <<session, phase, bar, last, cash, sells, buys, queue, equity, peak, killed, until, unlisted>>
    BY <1>1 DEF NoExit, market, orders, risk
  <1>3. TypeOK /\ BooksOK
    BY DEF EngineInv
  <1>4. /\ pos[j] \in Position /\ GoodLots(pos[j].lots) /\ MarketOK /\ session \in Nat /\ cash \in Int
        /\ pos \in [Instruments -> Position]
    BY <1>3, TypesAre DEF BooksOK
  <1>5. Shrunk(pos[j], p)
    BY <1>1, <1>4, SteppedShrinks
  <1>6. p \in Position /\ GoodLots(p.lots)
    BY <1>5 DEF Shrunk
  <1>7. ASSUME STOP_FIRST, p.lots # <<>>, Touched(j, p) PROVE NoneSettled(p.lots)
    <2>1. CASE Sellable(p.lots, session) > 0
      <3>1. Watched(j, p)
        BY <1>7, <2>1 DEF Watched, Touched
      <3>2. Exits(j, p).rest # None
        BY <1>4, <1>6, <1>7, <3>1, ExitsAre DEF Touched
      <3> QED
        BY <1>2, <3>1, <3>2
    <2>2. CASE ~(Sellable(p.lots, session) > 0)
      BY <1>4, <1>6, <2>2, SellableAre DEF NoneSettled
    <2> QED
      BY <2>1, <2>2
  <1>8. EngineInv'
    BY <1>2, <1>4, <1>5, <1>7, ExitStep
  <1>9. pos'[j] = p
    BY <1>2, <1>4
  <1> QED
    BY <1>5, <1>8, <1>9

\* What an exit does to the position and the cash.
LEMMA ExitIs ==
    ASSUME EngineInv, NEW j \in Instruments, Exit(j)
    PROVE  LET p == Stepped(pos[j])
               at == Exits(j, p)
               split == IF at.first = None THEN p ELSE FirstTaken(p)
               q == Sellable(split.lots, session)
               one == IF at.first = None THEN 0 ELSE Net(FirstLots(p), at.first)
               all == IF at.rest = None THEN 0 ELSE Net(q, at.rest)
           IN /\ phase = "exits" /\ j \in left /\ Watched(j, p)
              /\ p \in Position /\ GoodLots(p.lots) /\ p.lots = pos[j].lots
              /\ p.lots # <<>> => p.bought > 0
              /\ FirstLots(p) \in Nat /\ FirstLots(p) <= Sellable(p.lots, session)
              /\ split \in Position /\ GoodLots(split.lots) /\ q \in Nat
              /\ one \in Nat /\ (one > 0 <=> at.first # None /\ FirstLots(p) > 0)
              /\ all \in Nat /\ (all > 0 <=> at.rest # None /\ q > 0)
              /\ cash' = cash + one + all
              /\ pos' = [pos EXCEPT ![j] = AfterExit(j, p)]
              /\ Shrunk(pos[j], AfterExit(j, p))
              /\ left' = left \ {j}
              /\ UNCHANGED <<session, phase, bar, last, sells, buys, queue, equity, peak, killed, until, unlisted>>
  <1>1. PICK p : p = Stepped(pos[j])
    OBVIOUS
  <1> DEFINE at == Exits(j, p)
             split == IF at.first = None THEN p ELSE FirstTaken(p)
             q == Sellable(split.lots, session)
             one == IF at.first = None THEN 0 ELSE Net(FirstLots(p), at.first)
             all == IF at.rest = None THEN 0 ELSE Net(q, at.rest)
  <1>2. /\ phase = "exits" /\ j \in left /\ Watched(j, p)
        /\ pos' = [pos EXCEPT ![j] = AfterExit(j, p)]
        /\ cash' = cash + one + all
        /\ left' = left \ {j}
        /\ UNCHANGED <<session, phase, bar, last, sells, buys, queue, equity, peak, killed, until, unlisted>>
    BY <1>1 DEF Exit, AfterExit, market, orders, risk
  <1>3. TypeOK /\ BooksOK
    BY DEF EngineInv
  <1>4. /\ pos[j] \in Position /\ GoodLots(pos[j].lots) /\ MarketOK /\ session \in Nat
        /\ pos[j].lots # <<>> => pos[j].bought > 0
    BY <1>3, TypesAre DEF BooksOK
  <1>5. Shrunk(pos[j], p) /\ p.lots = pos[j].lots /\ p.bought = pos[j].bought
    BY <1>1, <1>4, SteppedShrinks, SteppedIs
  <1>6. p \in Position /\ GoodLots(p.lots) /\ (p.lots # <<>> => p.bought > 0)
    BY <1>4, <1>5 DEF Shrunk
  <1>7. FirstLots(p) \in Nat /\ FirstLots(p) <= Sellable(p.lots, session)
    BY <1>4, <1>6, FirstLotsAre
  <1>8. split \in Position /\ GoodLots(split.lots)
    BY <1>4, <1>6, FirstTakenIs
  <1>9. q \in Nat
    BY <1>4, <1>8, SellableAre
  <1>10. /\ at.first # None => at.first \in Nat /\ at.first > 0
         /\ at.rest # None => at.rest \in Nat /\ at.rest > 0
    BY <1>2, <1>4, <1>6, ExitsAre
  <1> HIDE DEF split, q
  <1>11. one \in Nat /\ (one > 0 <=> at.first # None /\ FirstLots(p) > 0)
    <2>1. at.first # None =>
             /\ Net(FirstLots(p), at.first) \in Nat
             /\ FirstLots(p) > 0 => Net(FirstLots(p), at.first) > 0
             /\ FirstLots(p) = 0 => Net(FirstLots(p), at.first) = 0
      BY <1>7, <1>10, NetIs
    <2> QED
      BY <1>7, <2>1
  <1>12. all \in Nat /\ (all > 0 <=> at.rest # None /\ q > 0)
    <2>1. at.rest # None =>
             /\ Net(q, at.rest) \in Nat
             /\ q > 0 => Net(q, at.rest) > 0
             /\ q = 0 => Net(q, at.rest) = 0
      BY <1>9, <1>10, NetIs
    <2> QED
      BY <1>9, <2>1
  <1>13. Shrunk(p, AfterExit(j, p))
    BY <1>4, <1>6, ExitShrinks
  <1>14. Shrunk(pos[j], AfterExit(j, p))
    BY <1>4, <1>5, <1>13, ShrunkTwice
  <1> HIDE DEF at, one, all
  <1> QED
    BY <1>1, <1>2, <1>5, <1>6, <1>7, <1>8, <1>9, <1>11, <1>12, <1>14 DEF at, split, q, one, all

LEMMA ExitKeeps ==
    ASSUME EngineInv, NEW j \in Instruments, Exit(j)
    PROVE  EngineInv' /\ Shrunk(pos[j], pos'[j])
  <1>1. PICK p : p = Stepped(pos[j])
    OBVIOUS
  <1>2. PICK new : new = AfterExit(j, p)
    OBVIOUS
  <1>3. PICK one \in Nat, all \in Nat : cash' = cash + one + all
    BY <1>1, ExitIs
  <1>4. /\ phase = "exits" /\ Watched(j, p)
        /\ p \in Position /\ GoodLots(p.lots) /\ (p.lots # <<>> => p.bought > 0)
        /\ pos' = [pos EXCEPT ![j] = new] /\ Shrunk(pos[j], new) /\ left' = left \ {j}
        /\ UNCHANGED <<session, phase, bar, last, sells, buys, queue, equity, peak, killed, until, unlisted>>
    BY <1>1, <1>2, ExitIs
  <1>5. MarketOK /\ session \in Nat /\ cash \in Int /\ pos \in [Instruments -> Position]
    BY TypesAre DEF EngineInv
  <1>6. cash' \in Int
    BY <1>3, <1>5
  <1>7. STOP_FIRST /\ new.lots # <<>> /\ Touched(j, new) => NoneSettled(new.lots)
    BY <1>2, <1>4, <1>5, ExitHonours
  <1>8. EngineInv'
    BY <1>4, <1>6, <1>7, ExitStep
  <1>9. pos'[j] = new
    BY <1>4, <1>5
  <1> QED
    BY <1>4, <1>8, <1>9

LEMMA ExitsEndKeeps ==
    ASSUME EngineInv, ExitsEnd
    PROVE  EngineInv'
  <1>1. /\ phase = "exits" /\ left = {} /\ phase' = "close"
        /\ UNCHANGED <<session, bar, last, cash, pos, sells, buys, left, queue, equity, peak, killed, until, unlisted>>
    BY DEF ExitsEnd, market, orders, risk
  <1>2. TypeOK /\ PhasesOK /\ OrdersOK /\ BooksOK /\ StopsOK
    BY DEF EngineInv
  <1>3. TypeOK'
    BY <1>1, <1>2 DEF TypeOK, Phases
  <1>4. PhasesOK'
    BY <1>1, <1>2 DEF PhasesOK
  <1>5. OrdersOK'
    BY <1>1, <1>2, OrdersFrame
  <1>6. BooksOK'
    BY <1>1, <1>2, BooksFrame DEF ToBuy, Priced
  <1>7. StopsOK'
    BY <1>1, <1>2 DEF StopsOK, Held, Touched, NoneSettled, Floor, Settled
  <1> QED
    BY <1>3, <1>4, <1>5, <1>6, <1>7 DEF EngineInv

\* 3. The close: what is held has a price, so the portfolio has a worth.
Marked == [j \in Instruments |-> IF bar[j].close = None THEN last[j] ELSE bar[j].close]
Worth == cash + 1000 * Total([j \in Held |-> Qty(j) * Marked[j]], Held)
Top == IF Resumes THEN Worth ELSE Most(peak, Worth)
Fires == (~killed \/ Resumes) /\ Drawdown(Top, Worth)

LEMMA WorthIs ==
    ASSUME EngineInv, phase = "close"
    PROVE  /\ Worth \in Int /\ Marked \in [Instruments -> Option(Price)]
           /\ \A j \in Held : Marked[j] # None
  <1>1. TypeOK /\ BooksOK
    BY DEF EngineInv
  <1>2. MarketOK /\ cash \in Int /\ Held \subseteq Instruments
    BY <1>1, TypesAre
  <1>3. Marked \in [Instruments -> Option(Price)]
    <2>1. ASSUME NEW j \in Instruments
          PROVE  (IF bar[j].close = None THEN last[j] ELSE bar[j].close) \in Option(Price)
      <3>1. bar[j] \in Bar /\ last[j] \in Option(Price)
        BY <1>2 DEF MarketOK
      <3> QED
        BY <3>1, BarsAre
    <2> QED
      BY <2>1 DEF Marked
  <1>4. ASSUME NEW j \in Held PROVE Marked[j] # None /\ Qty(j) * Marked[j] \in Int
    <2>1. j \in Instruments /\ pos[j].lots # <<>> /\ Priced(j) /\ GoodLots(pos[j].lots)
      BY <1>1 DEF Held, BooksOK
    <2>2. Marked[j] # None
      BY <2>1 DEF Priced, Marked
    <2>3. Marked[j] \in Nat
      BY <1>3, <2>1, <2>2, Prices DEF Option
    <2>4. Qty(j) \in Nat
      BY <2>1, SharesAre DEF Qty
    <2> QED
      BY <2>2, <2>3, <2>4
  <1> DEFINE f == [j \in Held |-> Qty(j) * Marked[j]]
  <1>5. f \in [Held -> Int]
    BY <1>4
  <1>6. IsFiniteSet(Held)
    BY <1>2, EngineAssumption, FS_Subset
  <1> HIDE DEF f
  <1>7. PICK S : S = Held
    OBVIOUS
  <1>8. PICK g \in [S -> Int] : g = f
    BY <1>5, <1>7
  <1>9. Total(g, S) \in Int
    BY <1>6, <1>7, TotalIsAnInteger
  <1>10. Total(f, Held) \in Int
    BY <1>7, <1>8, <1>9
  <1>11. Worth \in Int
    BY <1>2, <1>10 DEF Worth, f
  <1> QED
    BY <1>3, <1>4, <1>11

LEMMA CloseIs ==
    ASSUME Close
    PROVE  /\ phase = "close" /\ phase' = "decide" /\ last' = Marked /\ equity' = Worth
           /\ peak' \in {Top, peak} /\ killed' = IF ~killed \/ Resumes THEN Fires ELSE killed
           /\ until' = IF Fires THEN session + COOLDOWN ELSE until
           /\ IF Fires THEN Liquidate ELSE UNCHANGED <<sells, buys>>
           /\ UNCHANGED <<session, bar, cash, pos, left, queue, unlisted>>
  BY DEF Close, Marked, Worth, Top, Fires, orders

LEMMA CloseKeeps ==
    ASSUME EngineInv, Close
    PROVE  EngineInv'
  <1>1. /\ phase = "close" /\ phase' = "decide" /\ last' = Marked /\ equity' = Worth
        /\ peak' \in {Top, peak} /\ killed' = IF ~killed \/ Resumes THEN Fires ELSE killed
        /\ until' = IF Fires THEN session + COOLDOWN ELSE until
        /\ IF Fires THEN Liquidate ELSE UNCHANGED <<sells, buys>>
        /\ UNCHANGED <<session, bar, cash, pos, left, queue, unlisted>>
    BY CloseIs
  <1>2. TypeOK /\ PhasesOK /\ OrdersOK /\ BooksOK
    BY DEF EngineInv
  <1>3. /\ Worth \in Int /\ Marked \in [Instruments -> Option(Price)]
        /\ \A j \in Held : Marked[j] # None
    BY <1>1, WorthIs
  <1>4. /\ session \in Nat /\ sells \subseteq SellOrder /\ buys \in Seq(BuyOrder)
        /\ peak \in Int /\ until \in Int /\ killed \in BOOLEAN
    BY <1>2 DEF TypeOK
  <1>5. ASSUME NEW j \in Held
        PROVE  SellAll(j, session) \in SellOrder /\ SellAll(j, session).inst = j
    <2>1. session \in Int /\ session >= -1
      BY <1>4
    <2> QED
      BY <1>2, <2>1, SellAllIs
  <1>6. sells' \subseteq SellOrder /\ \A o, p \in sells' : o.inst = p.inst => o = p
    <2>1. \A o, p \in sells : o.inst = p.inst => o = p
      BY <1>2 DEF OrdersOK
    <2>2. CASE Fires
      <3>1. sells' = {o \in sells : o.inst \notin Held} \union {SellAll(j, session) : j \in Held}
        BY <1>1, <2>2 DEF Liquidate
      <3> QED
        BY <1>4, <1>5, <2>1, <3>1
    <2>3. CASE ~Fires
      BY <1>1, <1>4, <2>1, <2>3
    <2> QED
      BY <2>2, <2>3
  <1>7. buys' = buys \/ buys' = <<>>
    BY <1>1 DEF Liquidate
  <1>8. buys' \in Seq(BuyOrder) /\ SingleIn(buys') /\ Range(buys') \subseteq Range(buys)
    <2>1. <<>> \in Seq(BuyOrder) /\ SingleIn(<<>>) /\ Range(<<>>) = {}
      BY EmptySeq DEF SingleIn, Range
    <2>2. SingleIn(buys)
      BY <1>2 DEF OrdersOK
    <2> QED
      BY <1>4, <1>7, <2>1, <2>2
  <1>9. left' = {} /\ queue' = <<>> /\ unlisted' = {}
    BY <1>1, <1>2 DEF PhasesOK
  <1>10. TypeOK'
    <2>1. Top \in Int
      BY <1>3, <1>4 DEF Top, Most
    <2>2. until' \in Int
      BY <1>1, <1>4, Naturals1
    <2>3. killed' \in BOOLEAN
      BY <1>1, <1>4 DEF Fires
    <2>4. last' \in [Instruments -> Option(Price)] /\ equity' \in Int /\ peak' \in Int
      BY <1>1, <1>3, <1>4, <2>1
    <2>5. queue' \in Seq(BuyOrder)
      BY <1>9, EmptySeq
    <2>6. left' \subseteq Instruments /\ unlisted' \subseteq Instruments
      BY <1>9
    <2>7. session' \in Nat /\ phase' \in Phases /\ bar' \in [Instruments -> Bar] /\ cash' \in Int
          /\ pos' \in [Instruments -> Position]
      BY <1>1, <1>2 DEF TypeOK, Phases
    <2> QED
      BY <1>6, <1>8, <2>2, <2>3, <2>4, <2>5, <2>6, <2>7 DEF TypeOK
  <1>11. PhasesOK'
    BY <1>1, <1>9 DEF PhasesOK
  <1>12. OrdersOK'
    <2>1. \A o \in Waiting' : GoodBuy(o)
      BY <1>1, <1>2, <1>8 DEF OrdersOK, Waiting
    <2> QED
      BY <1>1, <1>6, <1>8, <2>1 DEF OrdersOK
  <1>13. BooksOK'
    <2>1. \A j \in Held : Priced(j)'
      BY <1>1, <1>3 DEF Priced
    <2>2. \A j \in Instruments : ~ToBuy(j)'
      BY <1>1 DEF ToBuy
    <2> QED
      BY <1>1, <1>2, <2>1, <2>2, BooksFrame
  <1>14. StopsOK'
    BY <1>1 DEF StopsOK
  <1> QED
    BY <1>10, <1>11, <1>12, <1>13, <1>14 DEF EngineInv

\* 4. The signal.
LEMMA NoSignalKeeps ==
    ASSUME EngineInv, NoSignal
    PROVE  EngineInv'
  <1>1. /\ phase = "decide" /\ phase' = "rest"
        /\ UNCHANGED <<session, bar, last, cash, pos, sells, buys, left, queue, equity, peak, killed, until, unlisted>>
    BY DEF NoSignal, market, orders, risk
  <1>2. TypeOK /\ PhasesOK /\ OrdersOK /\ BooksOK
    BY DEF EngineInv
  <1>3. TypeOK'
    BY <1>1, <1>2 DEF TypeOK, Phases
  <1>4. PhasesOK'
    BY <1>1, <1>2 DEF PhasesOK
  <1>5. OrdersOK'
    BY <1>1, <1>2, OrdersFrame
  <1>6. BooksOK'
    BY <1>1, <1>2, BooksFrame DEF ToBuy, Priced
  <1>7. StopsOK'
    BY <1>1 DEF StopsOK
  <1> QED
    BY <1>3, <1>4, <1>5, <1>6, <1>7 DEF EngineInv

LEMMA DecideKeeps ==
    ASSUME EngineInv, Decide
    PROVE  EngineInv'
  <1>1. PICK s \in Signals : queue' = s.items /\ unlisted' = IF s.full THEN Held \ Listed(s) ELSE {}
    BY DEF Decide
  <1>2. /\ phase = "decide" /\ phase' = "orders"
        /\ UNCHANGED <<session, bar, last, cash, pos, sells, buys, left, equity, peak, killed, until>>
    BY DEF Decide, market, orders, risk
  <1>3. TypeOK /\ PhasesOK /\ OrdersOK /\ BooksOK
    BY DEF EngineInv
  <1>4. queue' \in Seq(Item) /\ Range(queue') \subseteq Asked
    BY <1>1, AskedAre
  <1>5. unlisted' \subseteq Held /\ Held' = Held /\ Held \subseteq Instruments
    BY <1>1, <1>2 DEF Held
  <1>6. TypeOK'
    BY <1>2, <1>3, <1>4, <1>5 DEF TypeOK, Phases
  <1>7. PhasesOK'
    BY <1>2, <1>3, <1>4, <1>5 DEF PhasesOK
  <1>8. OrdersOK'
    BY <1>2, <1>3, OrdersFrame
  <1>9. BooksOK'
    BY <1>2, <1>3, BooksFrame DEF ToBuy, Priced
  <1>10. StopsOK'
    BY <1>2 DEF StopsOK
  <1> QED
    BY <1>6, <1>7, <1>8, <1>9, <1>10 DEF EngineInv

LEMMA ItemsTail ==
    ASSUME EngineInv, phase = "orders", queue # <<>>
    PROVE  /\ Head(queue) \in Asked /\ Head(queue) \in Item
           /\ Tail(queue) \in Seq(Item) /\ Range(Tail(queue)) \subseteq Asked
  <1>1. queue \in Seq(Item) /\ Range(queue) \subseteq Asked
    BY DEF EngineInv, PhasesOK
  <1>2. /\ Head(queue) \in Item /\ Head(queue) \in Range(queue) /\ Tail(queue) \in Seq(Item)
        /\ Range(queue) = Range(Tail(queue)) \union {Head(queue)}
    BY <1>1, TailIs
  <1> QED
    BY <1>1, <1>2

LEMMA SkipKeeps ==
    ASSUME EngineInv, Skip
    PROVE  EngineInv'
  <1>1. /\ phase = "orders" /\ queue # <<>> /\ queue' = Tail(queue)
        /\ UNCHANGED <<session, phase, bar, last, cash, pos, sells, buys, left, equity, peak, killed, until, unlisted>>
    BY DEF Skip, market, orders, risk
  <1>2. TypeOK /\ PhasesOK /\ OrdersOK /\ BooksOK
    BY DEF EngineInv
  <1>3. queue' \in Seq(Item) /\ Range(queue') \subseteq Asked
    <2>1. Tail(queue) \in Seq(Item) /\ Range(Tail(queue)) \subseteq Asked
      BY <1>1, ItemsTail
    <2> QED
      BY <1>1, <2>1
  <1>4. Held' = Held
    BY <1>1 DEF Held
  <1>5. TypeOK'
    BY <1>1, <1>2, <1>3 DEF TypeOK
  <1>6. PhasesOK'
    BY <1>1, <1>2, <1>3, <1>4 DEF PhasesOK
  <1>7. OrdersOK'
    BY <1>1, <1>2, OrdersFrame
  <1>8. BooksOK'
    BY <1>1, <1>2, BooksFrame DEF ToBuy, Priced
  <1>9. StopsOK'
    BY <1>1 DEF StopsOK
  <1> QED
    BY <1>5, <1>6, <1>7, <1>8, <1>9 DEF EngineInv

\* What an item becomes: what waits for its instrument is dropped, and nothing, a buy or a
\* sell takes its place.
OthersWait(j, w) == w \in Seq(BuyOrder) /\ SingleIn(w) /\ Range(w) = {o \in Range(buys) : o.item.inst # j}
OthersSell(j) == {o \in sells : o.inst # j}
OrderNone(it) == sells' = OthersSell(it.inst) /\ \E w : OthersWait(it.inst, w) /\ buys' = w
OrderBuy(it) ==
    /\ sells' = OthersSell(it.inst) /\ it.weight > 0
    /\ \E w, o : OthersWait(it.inst, w) /\ GoodBuy(o) /\ o.item = it /\ buys' = Append(w, o)
OrderSell(it) ==
    /\ \E w : OthersWait(it.inst, w) /\ buys' = w
    /\ \E o \in SellOrder : /\ o.inst = it.inst /\ it.inst \in Held
                            /\ sells' = OthersSell(it.inst) \union {o}

LEMMA OrderIs ==
    ASSUME EngineInv, NEW it, Order(it)
    PROVE  /\ phase = "orders" /\ queue # <<>> /\ it = Head(queue) /\ ~Skipped(it)
           /\ it \in Asked /\ it \in Item /\ it.inst \in Instruments
           /\ OrderNone(it) \/ OrderBuy(it) \/ OrderSell(it)
           /\ queue' = Tail(queue)
           /\ UNCHANGED <<session, phase, bar, last, cash, pos, left, equity, peak, killed, until, unlisted>>
  <1> DEFINE j == it.inst
             target == (it.weight * equity) \div 100
             delta == target - 1000 * Qty(j) * last[j]
             small == /\ it.weight > 0 /\ j \in Held
                      /\ Most(delta, -delta) * 100 < THRESHOLD * target
             q == IF it.weight = 0 THEN Qty(j)
                  ELSE Least(Qty(j), Lots((0 - delta) \div (1000 * last[j])))
             waiting == Only(buys, {o \in Range(buys) : o.item.inst # j})
             buy == [upto |-> session + Most(1, it.valid), value |-> delta,
                     limit |-> Limit(it), item |-> it]
             sell == [SellAll(j, session) EXCEPT !.qty = q]
  <1>1. /\ phase = "orders" /\ queue # <<>> /\ it = Head(queue) /\ ~Skipped(it)
        /\ buys' = IF ~small /\ delta > 0 /\ it.weight > 0 THEN Append(waiting, buy) ELSE waiting
        /\ sells' = IF ~small /\ (delta < 0 \/ it.weight = 0) /\ q > 0
                    THEN OthersSell(j) \union {sell} ELSE OthersSell(j)
        /\ queue' = Tail(queue)
        /\ UNCHANGED <<session, phase, bar, last, cash, pos, left, equity, peak, killed, until, unlisted>>
    BY DEF Order, OthersSell, market, risk
  <1>2. TypeOK /\ OrdersOK /\ BooksOK
    BY DEF EngineInv
  <1>3. it \in Asked /\ it \in Item
    BY <1>1, ItemsTail
  <1>4. j \in Instruments /\ it.weight \in Nat /\ it.valid \in Nat /\ it.limit \in Option(Price)
    BY <1>3, ItemsAre
  <1>5. last[j] \in Price
    <2>1. last[j] # None
      BY <1>1 DEF Skipped
    <2> QED
      BY <1>2, <1>4, <2>1 DEF TypeOK, Option
  <1>6. /\ Qty(j) \in Nat /\ (Qty(j) > 0 => j \in Held) /\ session \in Nat /\ equity \in Int
        /\ buys \in Seq(BuyOrder) /\ SingleIn(buys)
    <2>1. GoodLots(pos[j].lots)
      BY <1>2, <1>4 DEF BooksOK
    <2>2. Qty(j) \in Nat /\ (Qty(j) = 0 <=> pos[j].lots = <<>>)
      BY <2>1, SharesAre DEF Qty
    <2> QED
      BY <1>2, <1>4, <2>2 DEF TypeOK, OrdersOK, Held
  <1>7. OthersWait(j, waiting)
    <2>1. PICK b \in Seq(BuyOrder) : b = buys
      BY <1>6
    <2>2. PICK S : S = {o \in Range(buys) : o.item.inst # j}
      OBVIOUS
    <2>3. Only(b, S) \in Seq(BuyOrder) /\ Range(Only(b, S)) = Range(b) \intersect S /\ SingleIn(Only(b, S))
      BY <1>6, <2>1, OnlyIs
    <2>4. Range(b) \intersect S = {o \in Range(buys) : o.item.inst # j}
      BY <2>1, <2>2
    <2> QED
      BY <2>1, <2>2, <2>3, <2>4 DEF OthersWait
  <1>8. target \in Int
    BY <1>4, <1>6
  <1>9. delta \in Int
    <2>1. last[j] \in Nat /\ Qty(j) \in Nat
      BY <1>5, <1>6, Prices
    <2>2. 1000 * Qty(j) * last[j] \in Nat
      BY <2>1
    <2> HIDE DEF target
    <2> QED
      BY <1>8, <2>2
  <1>10. q \in Int
    <2>1. PICK m : m = 1000 * last[j]
      OBVIOUS
    <2>2. m \in Nat /\ m > 0
      <3>1. PICK l \in Nat : l = last[j] /\ l > 0
        <4>1. last[j] \in Nat /\ last[j] > 0
          BY <1>5, Prices
        <4> QED
          BY <4>1
      <3>2. m = 1000 * l
        BY <2>1, <3>1
      <3> QED
        BY <3>1, <3>2
    <2>3. PICK c \in Int : c = 0 - delta
      BY <1>9
    <2>4. PICK d : d = c \div m
      OBVIOUS
    <2>5. d \in Int
      BY <2>2, <2>3, <2>4
    <2>6. PICK e : e = d \div LOT
      OBVIOUS
    <2>7. e \in Int
      BY <2>5, <2>6, Naturals1
    <2>8. LOT * e \in Int
      BY <2>7, Naturals1
    <2>9. q = IF it.weight = 0 THEN Qty(j) ELSE Least(Qty(j), LOT * e)
      BY <2>1, <2>3, <2>4, <2>6 DEF Lots
    <2> HIDE DEF q
    <2> QED
      BY <1>6, <2>8, <2>9 DEF Least
  <1>11. q <= Qty(j)
    <2> DEFINE r == Lots((0 - delta) \div (1000 * last[j]))
    <2>1. q = IF it.weight = 0 THEN Qty(j) ELSE Least(Qty(j), r)
      OBVIOUS
    <2> HIDE DEF r, q
    <2> QED
      BY <1>6, <1>10, <2>1 DEF Least
  <1> HIDE DEF target, delta, q, waiting
  <1>12. delta > 0 => buy \in BuyOrder /\ GoodBuy(buy) /\ buy.item = it
    <2>1. session + Most(1, it.valid) \in Nat
      BY <1>4, <1>6 DEF Most
    <2>2. Limit(it) \in Option(Price)
      BY <1>4, <1>5 DEF Limit, Option
    <2>3. it.kind \in {"stop", "limit"} => Limit(it) # None
      <3>1. it.kind = "stop" => it.limit # None
        BY <1>3, AskedAre
      <3>2. last[j] # None
        BY <1>1 DEF Skipped
      <3> QED
        BY <3>1, <3>2 DEF Limit
    <2>4. delta > 0 => delta \in Nat
      BY <1>9
    <2>5. delta > 0 => buy \in BuyOrder
      BY <1>3, <2>1, <2>2, <2>4 DEF BuyOrder
    <2>6. buy.item = it /\ buy.limit = Limit(it)
      OBVIOUS
    <2> QED
      BY <1>3, <2>3, <2>5, <2>6 DEF GoodBuy
  <1>13. q > 0 => sell \in SellOrder /\ sell.inst = j /\ j \in Held
    <2>1. ASSUME q > 0 PROVE q \in Nat \ {0} /\ j \in Held
      BY <1>6, <1>10, <1>11, <2>1
    <2>2. PICK sa : sa = SellAll(j, session)
      OBVIOUS
    <2>3. sa = [inst |-> j, upto |-> session + 1 + MAX_SELL, qty |-> Qty(j)]
      BY <2>2 DEF SellAll
    <2>4. session + 1 + MAX_SELL \in Nat
      BY <1>6, Naturals1
    <2>5. sell = [inst |-> j, upto |-> session + 1 + MAX_SELL, qty |-> q]
      BY <2>2, <2>3
    <2> QED
      BY <1>4, <2>1, <2>4, <2>5 DEF SellOrder
  <1> HIDE DEF buy, sell
  <1>14. CASE ~small /\ delta > 0 /\ it.weight > 0
    <2>1. sells' = OthersSell(j)
      BY <1>1, <1>4, <1>9, <1>14
    <2>2. OrderBuy(it)
      BY <1>1, <1>7, <1>12, <1>14, <2>1 DEF OrderBuy
    <2> QED
      BY <1>1, <1>3, <1>4, <2>2
  <1>15. CASE ~(~small /\ delta > 0 /\ it.weight > 0)
    <2>1. buys' = waiting
      BY <1>1, <1>15
    <2>2. OrderNone(it) \/ OrderSell(it)
      BY <1>1, <1>7, <1>13, <2>1 DEF OrderNone, OrderSell
    <2> QED
      BY <1>1, <1>3, <1>4, <2>2
  <1> QED
    BY <1>14, <1>15

LEMMA OrderKeeps ==
    ASSUME EngineInv, NEW it, Order(it)
    PROVE  EngineInv'
  <1>1. /\ phase = "orders" /\ queue # <<>> /\ it \in Asked /\ it.inst \in Instruments
        /\ OrderNone(it) \/ OrderBuy(it) \/ OrderSell(it)
        /\ queue' = Tail(queue)
        /\ UNCHANGED <<session, phase, bar, last, cash, pos, left, equity, peak, killed, until, unlisted>>
    BY OrderIs
  <1>2. TypeOK /\ PhasesOK /\ OrdersOK /\ BooksOK
    BY DEF EngineInv
  <1>3. queue' \in Seq(Item) /\ Range(queue') \subseteq Asked
    <2>1. Tail(queue) \in Seq(Item) /\ Range(Tail(queue)) \subseteq Asked
      BY <1>1, ItemsTail
    <2> QED
      BY <1>1, <2>1
  <1>4. Held' = Held
    BY <1>1 DEF Held
  <1>5. /\ buys' \in Seq(BuyOrder) /\ SingleIn(buys')
        /\ \A x \in Range(buys') : GoodBuy(x)
    <2>1. \A x \in Range(buys) : GoodBuy(x)
      BY <1>2 DEF OrdersOK, Waiting
    <2>2. CASE OrderNone(it) \/ OrderSell(it)
      BY <2>1, <2>2 DEF OrderNone, OrderSell, OthersWait
    <2>3. CASE OrderBuy(it)
      <3>1. PICK w, o : OthersWait(it.inst, w) /\ GoodBuy(o) /\ o.item = it /\ buys' = Append(w, o)
        BY <2>3 DEF OrderBuy
      <3>2. /\ w \in Seq(BuyOrder) /\ SingleIn(w) /\ \A x \in Range(w) : x.item.inst # o.item.inst
            /\ Range(w) \subseteq Range(buys) /\ o \in BuyOrder
        BY <3>1 DEF OthersWait, GoodBuy
      <3>3. PICK t : t = Append(w, o)
        OBVIOUS
      <3>4. t \in Seq(BuyOrder) /\ Range(t) = Range(w) \union {o} /\ SingleIn(t)
        BY <3>2, <3>3, AppendIs
      <3>5. buys' = t
        BY <3>1, <3>3
      <3> QED
        BY <2>1, <3>1, <3>2, <3>4, <3>5
    <2> QED
      BY <1>1, <2>2, <2>3
  <1>6. sells' \subseteq SellOrder /\ \A o, p \in sells' : o.inst = p.inst => o = p
    <2>1. sells \subseteq SellOrder /\ \A o, p \in sells : o.inst = p.inst => o = p
      BY <1>2 DEF TypeOK, OrdersOK
    <2>2. CASE OrderNone(it) \/ OrderBuy(it)
      BY <2>1, <2>2 DEF OrderNone, OrderBuy, OthersSell
    <2>3. CASE OrderSell(it)
      <3>1. PICK o \in SellOrder : o.inst = it.inst /\ sells' = OthersSell(it.inst) \union {o}
        BY <2>3 DEF OrderSell
      <3> QED
        BY <2>1, <3>1 DEF OthersSell
    <2> QED
      BY <1>1, <2>2, <2>3
  <1>7. TypeOK'
    <2>1. left' = {}
      BY <1>1, <1>2 DEF PhasesOK
    <2> QED
      BY <1>1, <1>2, <1>3, <1>5, <1>6, <2>1 DEF TypeOK
  <1>8. PhasesOK'
    BY <1>1, <1>2, <1>3, <1>4 DEF PhasesOK
  <1>9. OrdersOK'
    <2>1. Waiting' = Range(buys')
      BY <1>1 DEF Waiting
    <2> QED
      BY <1>1, <1>5, <1>6, <2>1 DEF OrdersOK
  <1>10. BooksOK'
    BY <1>1, <1>2, BooksFrame DEF ToBuy, Priced
  <1>11. StopsOK'
    BY <1>1 DEF StopsOK
  <1> QED
    BY <1>7, <1>8, <1>9, <1>10, <1>11 DEF EngineInv

\* full_rebalance: what is not listed is sold and not bought.
LEMMA OrdersEndKeeps ==
    ASSUME EngineInv, OrdersEnd
    PROVE  EngineInv'
  <1>1. /\ phase = "orders" /\ queue = <<>> /\ phase' = "rest" /\ unlisted' = {}
        /\ sells' = {o \in sells : o.inst \notin unlisted} \union {SellAll(j, session) : j \in unlisted}
        /\ buys' = Only(buys, {o \in Range(buys) : o.item.inst \notin unlisted})
        /\ UNCHANGED <<session, bar, last, cash, pos, left, queue, equity, peak, killed, until>>
    BY DEF OrdersEnd, market, risk
  <1>2. TypeOK /\ PhasesOK /\ OrdersOK /\ BooksOK
    BY DEF EngineInv
  <1>3. unlisted \subseteq Held /\ left = {}
    BY <1>1, <1>2 DEF PhasesOK
  <1>4. session \in Nat /\ sells \subseteq SellOrder /\ buys \in Seq(BuyOrder) /\ SingleIn(buys)
    BY <1>2 DEF TypeOK, OrdersOK
  <1>5. ASSUME NEW j \in unlisted
        PROVE  SellAll(j, session) \in SellOrder /\ SellAll(j, session).inst = j
    BY <1>2, <1>3, <1>4, SellAllIs
  <1>6. sells' \subseteq SellOrder /\ \A o, p \in sells' : o.inst = p.inst => o = p
    <2>1. \A o, p \in sells : o.inst = p.inst => o = p
      BY <1>2 DEF OrdersOK
    <2> QED
      BY <1>1, <1>4, <1>5, <2>1
  <1>7. buys' \in Seq(BuyOrder) /\ SingleIn(buys') /\ Range(buys') \subseteq Range(buys)
    <2>1. PICK b \in Seq(BuyOrder) : b = buys
      BY <1>4
    <2>2. PICK S : S = {o \in Range(buys) : o.item.inst \notin unlisted}
      OBVIOUS
    <2>3. Only(b, S) \in Seq(BuyOrder) /\ Range(Only(b, S)) = Range(b) \intersect S /\ SingleIn(Only(b, S))
      BY <1>4, <2>1, OnlyIs
    <2>4. buys' = Only(b, S)
      BY <1>1, <2>1, <2>2
    <2> QED
      BY <2>1, <2>3, <2>4
  <1>8. TypeOK'
    <2>1. left' = {} /\ queue' = <<>> /\ unlisted' = {} /\ <<>> \in Seq(BuyOrder)
      BY <1>1, <1>3, EmptySeq
    <2> QED
      BY <1>1, <1>2, <1>6, <1>7, <2>1 DEF TypeOK, Phases
  <1>9. PhasesOK'
    BY <1>1, <1>2 DEF PhasesOK
  <1>10. OrdersOK'
    <2>1. \A o \in Waiting' : GoodBuy(o)
      BY <1>1, <1>2, <1>7 DEF OrdersOK, Waiting
    <2> QED
      BY <1>1, <1>6, <1>7, <2>1 DEF OrdersOK
  <1>11. BooksOK'
    BY <1>1, <1>2, BooksFrame DEF ToBuy, Priced
  <1>12. StopsOK'
    BY <1>1 DEF StopsOK
  <1> QED
    BY <1>8, <1>9, <1>10, <1>11, <1>12 DEF EngineInv

LEMMA InitIsGood ==
    ASSUME Init
    PROVE  EngineInv
  <1>1. PICK d \in Days : bar = d /\ last = [j \in Instruments |-> d[j].close]
    BY DEF Init
  <1>2. /\ session = 0 /\ phase = "rest" /\ cash = Capital /\ equity = Capital /\ peak = Capital
        /\ pos = [j \in Instruments |-> Flat] /\ sells = {} /\ buys = <<>> /\ left = {} /\ queue = <<>>
        /\ killed = FALSE /\ until = -1 /\ unlisted = {}
    BY DEF Init
  <1>3. <<>> \in Seq(BuyOrder) /\ Range(<<>>) = {} /\ SingleIn(<<>>)
    BY EmptySeq DEF Range, SingleIn
  <1>4. TypeOK
    <2>1. bar \in [Instruments -> Bar]
      BY <1>1, EngineAssumption
    <2>2. last \in [Instruments -> Option(Price)]
      <3>1. \A j \in Instruments : d[j].close \in Option(Price)
        BY DaysAre, BarsAre
      <3> QED
        BY <1>1, <3>1
    <2>3. pos \in [Instruments -> Position]
      BY <1>2, FlatIsAPosition
    <2>4. Capital \in Int /\ 0 \in Nat /\ -1 \in Int
      BY Naturals1
    <2> QED
      BY <1>2, <1>3, <2>1, <2>2, <2>3, <2>4 DEF TypeOK, Phases
  <1>5. PhasesOK
    BY <1>2 DEF PhasesOK
  <1>6. OrdersOK
    BY <1>2, <1>3 DEF OrdersOK, Waiting
  <1>7. BooksOK
    <2>1. \A j \in Instruments : pos[j].lots = <<>>
      BY <1>2, FlatIsAPosition
    <2>2. \A j \in Instruments : \A k \in 1..Len(pos[j].lots) : FALSE
      BY <2>1, EmptySeq
    <2> QED
      BY <1>2, <2>1, <2>2, NoLotsAreGood DEF BooksOK, NoLater, Earlier
  <1>8. StopsOK
    BY <1>2 DEF StopsOK
  <1> QED
    BY <1>4, <1>5, <1>6, <1>7, <1>8 DEF EngineInv

LEMMA StutterKeeps ==
    ASSUME EngineInv, UNCHANGED vars
    PROVE  EngineInv'
  <1>1. UNCHANGED <<session, phase, bar, last, cash, pos, sells, buys, left, queue,
                    equity, peak, killed, until, unlisted>>
    BY DEF vars, market, orders, risk
  <1>2. TypeOK /\ PhasesOK /\ OrdersOK /\ BooksOK /\ StopsOK
    BY DEF EngineInv
  <1>3. TypeOK'
    BY <1>1, <1>2 DEF TypeOK
  <1>4. PhasesOK'
    BY <1>1, <1>2 DEF PhasesOK, Held
  <1>5. OrdersOK'
    BY <1>1, <1>2 DEF OrdersOK, Waiting
  <1>6. BooksOK'
    BY <1>1, <1>2, BooksFrame DEF ToBuy, Priced
  <1>7. StopsOK'
    BY <1>1, <1>2 DEF StopsOK, Held, Touched, NoneSettled, Floor, Settled
  <1> QED
    BY <1>3, <1>4, <1>5, <1>6, <1>7 DEF EngineInv

LEMMA StepKeeps ==
    ASSUME EngineInv, [Next]_vars
    PROVE  EngineInv'
  <1>1. CASE NextSession
    BY <1>1, NextSessionKeeps
  <1>2. ASSUME NEW o \in sells, SellFills(o) \/ SellWaits(o) PROVE EngineInv'
    BY <1>2, SellFillsKeeps, SellWaitsKeeps
  <1>3. CASE SellsEnd
    BY <1>3, SellsEndKeeps
  <1>4. CASE BuyFills
    BY <1>4, BuyFillsKeeps
  <1>5. CASE BuyFails
    BY <1>5, BuyFailsKeeps
  <1>6. CASE BuysEnd
    BY <1>6, BuysEndKeeps
  <1>7. ASSUME NEW j \in Instruments, NoExit(j) \/ Exit(j) PROVE EngineInv'
    BY <1>7, NoExitKeeps, ExitKeeps
  <1>8. CASE ExitsEnd
    BY <1>8, ExitsEndKeeps
  <1>9. CASE Close
    BY <1>9, CloseKeeps
  <1>10. CASE NoSignal
    BY <1>10, NoSignalKeeps
  <1>11. CASE Decide
    BY <1>11, DecideKeeps
  <1>12. CASE Skip
    BY <1>12, SkipKeeps
  <1>13. ASSUME NEW s \in Signals, NEW k \in DOMAIN s.items, Order(s.items[k]) PROVE EngineInv'
    BY <1>13, OrderKeeps
  <1>14. CASE OrdersEnd
    BY <1>14, OrdersEndKeeps
  <1>15. CASE UNCHANGED vars
    BY <1>15, StutterKeeps
  <1> QED
    BY <1>1, <1>2, <1>3, <1>4, <1>5, <1>6, <1>7, <1>8, <1>9, <1>10, <1>11, <1>12, <1>13, <1>14, <1>15
       DEF Next

\* Every state of the simulator has the invariant.
THEOREM InvAlways == Spec => []EngineInv
  <1>1. Init => EngineInv
    BY InitIsGood
  <1>2. EngineInv /\ [Next]_vars => EngineInv'
    BY StepKeeps
  <1> QED
    BY <1>1, <1>2, PTL DEF Spec

\* The simulator's state has its types, whatever prices and signals come.
THEOREM TypeCorrect == Spec => []TypeOK
  <1>1. EngineInv => TypeOK
    BY DEF EngineInv
  <1> QED
    BY <1>1, InvAlways, PTL

-----------------------------------------------------------------------------
(* Stops *)

\* The close finds no settled share of a position whose stop was touched.
THEOREM StopIsHonouredAlways == Spec => []StopIsHonoured
  <1>1. ASSUME EngineInv, phase = "close", STOP_FIRST, NEW j \in Held,
               pos[j].stop # None, Trades(bar[j]), bar[j].high # None, bar[j].low # None,
               bar[j].high > Floor(j), bar[j].low <= pos[j].stop, NEW k \in DOMAIN pos[j].lots
        PROVE  session < pos[j].lots[k].at + SETTLE
    <2>1. j \in Instruments /\ left = {}
      BY <1>1 DEF EngineInv, PhasesOK, Held
    <2>2. NoneSettled(pos[j].lots)
      BY <1>1, <2>1 DEF EngineInv, StopsOK, Touched
    <2>3. GoodLots(pos[j].lots) /\ session \in Nat
      BY <1>1, <2>1 DEF EngineInv, BooksOK, TypeOK
    <2>4. k \in 1..Len(pos[j].lots) /\ pos[j].lots[k].at \in Nat
      BY <2>3, GoodLotsAre
    <2>5. ~(session - pos[j].lots[k].at >= SETTLE)
      BY <2>2, <2>4 DEF NoneSettled, Settled
    <2>6. PICK at \in Nat : at = pos[j].lots[k].at
      BY <2>4
    <2>7. ~(session - at >= SETTLE) => session < at + SETTLE
      BY <2>3, Naturals1
    <2> QED
      BY <2>5, <2>6, <2>7
  <1>2. EngineInv => StopIsHonoured
    BY <1>1 DEF StopIsHonoured
  <1> QED
    BY <1>2, InvAlways, PTL

\* How a step changes the positions: one shrinks, one is bought, or none is touched.
LEMMA PositionStep ==
    ASSUME EngineInv, [Next]_vars
    PROVE  \/ pos' = pos
           \/ \E j \in Instruments : Shrunk(pos[j], pos'[j]) /\ \A k \in Instruments \ {j} : pos'[k] = pos[k]
           \/ BuyFills
  <1>0. TypeOK /\ BooksOK /\ pos \in [Instruments -> Position]
    BY DEF EngineInv, TypeOK
  <1>1. CASE NextSession
    BY <1>1 DEF NextSession
  <1>2. ASSUME NEW o \in sells, SellFills(o)
        PROVE  \E j \in Instruments : Shrunk(pos[j], pos'[j]) /\ \A k \in Instruments \ {j} : pos'[k] = pos[k]
    <2>1. PICK j : j = o.inst
      OBVIOUS
    <2>2. j \in Instruments /\ o.qty \in Nat /\ session \in Nat
      BY <1>0, <2>1, TypesAre, SellOrdersAre
    <2>3. pos[j] \in Position /\ GoodLots(pos[j].lots)
      BY <1>0, <2>2 DEF BooksOK
    <2>4. PICK q : q = Least(o.qty, Sellable(pos[j].lots, session))
      OBVIOUS
    <2>5. q \in Nat
      BY <2>2, <2>3, <2>4, SellableAre DEF Least
    <2>6. pos' = [pos EXCEPT ![j] = Sold(pos[j], q)]
      BY <1>2, <2>1, <2>4 DEF SellFills
    <2>7. pos'[j] = Sold(pos[j], q) /\ \A k \in Instruments \ {j} : pos'[k] = pos[k]
      BY <1>0, <2>2, <2>6
    <2> QED
      BY <2>2, <2>3, <2>5, <2>7, SoldShrinks
  <1>3. ASSUME NEW o \in sells, SellWaits(o) PROVE pos' = pos
    BY <1>3 DEF SellWaits
  <1>4. CASE SellsEnd \/ BuyFails \/ BuysEnd \/ ExitsEnd \/ NoSignal \/ Decide \/ Skip \/ OrdersEnd
    BY <1>4 DEF SellsEnd, BuyFails, BuysEnd, ExitsEnd, NoSignal, Decide, Skip, OrdersEnd
  <1>5. CASE Close
    BY <1>5, CloseIs
  <1>6. ASSUME NEW j \in Instruments, NoExit(j) \/ Exit(j)
        PROVE  Shrunk(pos[j], pos'[j]) /\ \A k \in Instruments \ {j} : pos'[k] = pos[k]
    <2>1. Shrunk(pos[j], pos'[j])
      BY <1>6, NoExitKeeps, ExitKeeps
    <2>2. \E new : pos' = [pos EXCEPT ![j] = new]
      BY <1>6 DEF NoExit, Exit
    <2> QED
      BY <1>0, <2>1, <2>2
  <1>7. ASSUME NEW s \in Signals, NEW k \in DOMAIN s.items, Order(s.items[k]) PROVE pos' = pos
    BY <1>7, OrderIs
  <1>8. CASE UNCHANGED vars
    BY <1>8 DEF vars
  <1> QED
    BY <1>1, <1>2, <1>3, <1>4, <1>5, <1>6, <1>7, <1>8 DEF Next

\* exec_buy and the break-even move: no step lowers the stop of a position that is held.
THEOREM StopNeverFallsAlways == Spec => StopNeverFalls
  <1>1. ASSUME EngineInv, [Next]_vars PROVE [NoLowerStop]_vars
    <2>1. ASSUME NEW j \in Instruments
          PROVE  pos[j] \in Position /\ (pos[j].stop # None => pos[j].stop \in Nat)
      BY <1>1, TypesAre, PositionsAre DEF EngineInv, Option
    <2>2. CASE pos' = pos
      BY <2>1, <2>2 DEF NoLowerStop
    <2>3. ASSUME NEW j \in Instruments, Shrunk(pos[j], pos'[j]),
                 \A k \in Instruments \ {j} : pos'[k] = pos[k]
          PROVE  NoLowerStop
      <3>1. pos'[j].lots # <<>> /\ pos[j].stop # None => pos'[j].stop # None /\ pos'[j].stop >= pos[j].stop
        BY <2>3 DEF Shrunk
      <3> QED
        BY <2>1, <2>3, <3>1 DEF NoLowerStop
    <2>4. CASE BuyFills
      <3>1. PICK o : o = Head(queue)
        OBVIOUS
      <3>2. PICK j : j = o.item.inst
        OBVIOUS
      <3>3. j \in Instruments /\ pos' = [pos EXCEPT ![j] = AfterBuy(o)]
        BY <1>1, <2>4, <3>1, <3>2, BuyFillsIs
      <3>4. pos[j].stop # None => AfterBuy(o).stop = pos[j].stop
        BY <1>1, <2>4, <3>1, <3>2, AfterBuyIs
      <3>5. pos'[j] = AfterBuy(o) /\ \A k \in Instruments \ {j} : pos'[k] = pos[k]
        <4>1. pos \in [Instruments -> Position]
          BY <1>1 DEF EngineInv, TypeOK
        <4> QED
          BY <3>3, <4>1
      <3> QED
        BY <2>1, <3>3, <3>4, <3>5 DEF NoLowerStop
    <2> QED
      BY <1>1, <2>2, <2>3, <2>4, PositionStep
  <1> QED
    BY <1>1, InvAlways, PTL DEF Spec, StopNeverFalls

-----------------------------------------------------------------------------
(* One order for an instrument *)

\* What a sale leaves of its order and of its position.
Rest(o, q) == [o EXCEPT !.qty = @ - q]
LEMMA SellFillsIs ==
    ASSUME EngineInv, NEW o \in sells, SellFills(o)
    PROVE  LET j == o.inst
               q == Least(o.qty, Sellable(pos[j].lots, session))
           IN /\ phase = "sells" /\ j \in Instruments /\ session \in Nat
              /\ o.qty \in Nat \ {0} /\ o.upto \in Nat
              /\ pos[j] \in Position /\ GoodLots(pos[j].lots)
              /\ q \in Nat /\ q > 0 /\ q <= o.qty /\ q <= Sellable(pos[j].lots, session)
              /\ bar[j].open \in Price /\ Qty(j) \in Nat
              /\ cash' = cash + Net(q, SellAt(j, bar[j].open))
              /\ Net(q, SellAt(j, bar[j].open)) \in Nat /\ Net(q, SellAt(j, bar[j].open)) > 0
              /\ pos'[j] = Sold(pos[j], q) /\ Shrunk(pos[j], pos'[j])
              /\ \A k \in Instruments \ {j} : pos'[k] = pos[k]
              /\ Qty(j)' = Most(0, Qty(j) - q)
              /\ Rest(o, q).inst = j /\ Rest(o, q).qty = o.qty - q /\ Rest(o, q).upto = o.upto
              /\ sells' = (sells \ {o}) \union
                    (IF q < o.qty /\ q < Qty(j) /\ Lasts(o.upto) THEN {Rest(o, q)} ELSE {})
              /\ left' = left \ {o}
              /\ UNCHANGED <<session, phase, bar, last, buys, queue, equity, peak, killed, until, unlisted>>
  <1>1. PICK j : j = o.inst
    OBVIOUS
  <1>2. PICK q : q = Least(o.qty, Sellable(pos[j].lots, session))
    OBVIOUS
  <1>3. /\ phase = "sells" /\ CanSell(o)
        /\ cash' = cash + Net(q, SellAt(j, bar[j].open))
        /\ pos' = [pos EXCEPT ![j] = Sold(pos[j], q)]
        /\ sells' = (sells \ {o}) \union
              (IF q < o.qty /\ q < Qty(j) /\ Lasts(o.upto) THEN {Rest(o, q)} ELSE {})
        /\ left' = left \ {o}
        /\ UNCHANGED <<session, phase, bar, last, buys, queue, equity, peak, killed, until, unlisted>>
    BY <1>1, <1>2 DEF SellFills, Rest, market, risk
  <1>4. TypeOK /\ BooksOK
    BY DEF EngineInv
  <1>5. o \in SellOrder /\ j \in Instruments /\ o.qty \in Nat \ {0} /\ o.upto \in Nat
    BY <1>1, <1>4, TypesAre, SellOrdersAre
  <1>6. /\ pos[j] \in Position /\ GoodLots(pos[j].lots) /\ session \in Nat /\ MarketOK
        /\ pos \in [Instruments -> Position]
    BY <1>4, <1>5, TypesAre DEF BooksOK
  <1>7. Sellable(pos[j].lots, session) \in Nat /\ Sellable(pos[j].lots, session) > 0
    BY <1>1, <1>3, <1>6, SellableAre DEF CanSell
  <1>8. q \in Nat /\ q > 0 /\ q <= o.qty /\ q <= Sellable(pos[j].lots, session)
    BY <1>2, <1>5, <1>7 DEF Least
  <1>9. bar[j].open \in Price
    BY <1>1, <1>3, <1>5, <1>6, BarsAre DEF CanSell, Trades, MarketOK, Option
  <1>10. Net(q, SellAt(j, bar[j].open)) \in Nat /\ Net(q, SellAt(j, bar[j].open)) > 0
    BY <1>5, <1>6, <1>8, <1>9, SellAtIs, NetIs
  <1>11. pos'[j] = Sold(pos[j], q) /\ \A k \in Instruments \ {j} : pos'[k] = pos[k]
    BY <1>3, <1>5, <1>6
  <1>12. Shrunk(pos[j], pos'[j])
    BY <1>6, <1>8, <1>11, SoldShrinks
  <1>13. Qty(j)' = Most(0, Qty(j) - q)
    <2>1. Shares(Sold(pos[j], q).lots) = Most(0, Shares(pos[j].lots) - q)
      BY <1>6, <1>8, SoldIs
    <2> QED
      BY <1>11, <2>1 DEF Qty
  <1>14. Rest(o, q).inst = j /\ Rest(o, q).qty = o.qty - q /\ Rest(o, q).upto = o.upto
    BY <1>1, <1>5 DEF Rest, SellOrder
  <1>15. Qty(j) \in Nat
    BY <1>6, SharesAre DEF Qty
  <1> QED
    BY <1>1, <1>2, <1>3, <1>5, <1>6, <1>8, <1>9, <1>10, <1>11, <1>12, <1>13, <1>14, <1>15

\* What the dates ask of a step that adds no buy and touches no date.
LEMMA DatesFrame ==
    ASSUME DatesOK, Waiting' \subseteq Waiting,
           \A j \in Instruments : pos'[j].due \in {pos[j].due, None},
           \A j \in Instruments : j \in Held' => j \in Held,
           \A j \in Instruments : SellsOf(j)' # {} => SellsOf(j) # {} \/ ~Awaits(j),
           \A j \in Instruments : Dated(j) => \A o \in SellsOf(j)' : o.qty >= Qty(j)'
    PROVE  DatesOK'
  <1>1. \A j \in Instruments : Awaits(j)' => Awaits(j)
    BY DEF Awaits
  <1>2. ASSUME NEW j \in Instruments
        PROVE  /\ pos'[j].due # None => Dated(j)
               /\ Dated(j) /\ j \in Held' => ~Awaits(j)'
               /\ SellsOf(j)' # {} => ~Awaits(j)'
               /\ Dated(j) => \A o \in SellsOf(j)' : o.qty >= Qty(j)'
    BY <1>1 DEF DatesOK
  <1> QED
    BY <1>2 DEF DatesOK, Dated

LEMMA QuantitiesAre ==
    ASSUME EngineInv, NEW j \in Instruments
    PROVE  Qty(j) \in Nat /\ (Qty(j) = 0 <=> j \notin Held) /\ (j \in Held <=> pos[j].lots # <<>>)
  <1>1. GoodLots(pos[j].lots)
    BY DEF EngineInv, BooksOK
  <1> QED
    BY <1>1, SharesAre DEF Qty, Held

\* A position that shrinks or stays keeps its date, and holds no more than before.
LEMMA ShrunkIs ==
    ASSUME EngineInv, EngineInv', NEW j \in Instruments, Shrunk(pos[j], pos'[j]) \/ pos'[j] = pos[j]
    PROVE  /\ Qty(j)' \in Nat /\ Qty(j) \in Nat /\ Qty(j)' <= Qty(j)
           /\ j \in Held' => j \in Held /\ pos'[j].group = pos[j].group /\ pos'[j].due = pos[j].due
           /\ pos'[j].due \in {pos[j].due, None} /\ pos'[j].group \in {pos[j].group, None}
  <1>1. Qty(j) \in Nat
    BY QuantitiesAre
  <1>2. GoodLots(pos'[j].lots)
    BY DEF EngineInv, BooksOK
  <1>3. Qty(j)' \in Nat
    BY <1>2, SharesAre DEF Qty
  <1>4. CASE pos'[j] = pos[j]
    BY <1>1, <1>4 DEF Qty, Held
  <1>5. CASE Shrunk(pos[j], pos'[j])
    BY <1>1, <1>3, <1>5 DEF Qty, Held, Shrunk
  <1> QED
    BY <1>4, <1>5

LEMMA SamePositions ==
    ASSUME pos' = pos
    PROVE  /\ Held' = Held
           /\ \A j \in Instruments : Qty(j)' = Qty(j)
           /\ \A j \in Instruments : j \in Held' => j \in Held
  BY DEF Held, Qty

LEMMA DatesNextSession ==
    ASSUME EngineInv, DatesOK, NextSession
    PROVE  DatesOK'
  <1>1. /\ phase = "rest" /\ phase' = "sells" /\ sells' = sells \union TimeStops(session')
        /\ UNCHANGED <<pos, buys>>
    BY DEF NextSession
  <1>2. Waiting' = Waiting
    BY <1>1 DEF Waiting
  <1>3. ASSUME NEW o \in TimeStops(session')
        PROVE  o.inst \in Held /\ pos[o.inst].due # None /\ o.qty = Qty(o.inst)
    <2>1. PICK j \in Held : o = SellAll(j, session' - 1) /\ Due(j, session')
      BY DEF TimeStops
    <2>2. o.inst = j /\ o.qty = Qty(j)
      BY <2>1 DEF SellAll
    <2> QED
      BY <2>1, <2>2 DEF Due
  <1>4. ASSUME NEW j \in Instruments, SellsOf(j)' # {} PROVE SellsOf(j) # {} \/ ~Awaits(j)
    <2>1. PICK o \in sells' : o.inst = j
      BY <1>4 DEF SellsOf
    <2>2. CASE o \in sells
      BY <2>1, <2>2 DEF SellsOf
    <2>3. CASE o \in TimeStops(session')
      BY <1>3, <2>1, <2>3 DEF DatesOK
    <2> QED
      BY <1>1, <2>2, <2>3
  <1>5. ASSUME NEW j \in Instruments, Dated(j), NEW o \in SellsOf(j)' PROVE o.qty >= Qty(j)'
    <2>1. Qty(j)' = Qty(j) /\ Qty(j) \in Nat
      BY <1>1, SamePositions, QuantitiesAre
    <2>2. o \in sells' /\ o.inst = j
      BY <1>5 DEF SellsOf
    <2>3. CASE o \in sells
      BY <1>5, <2>1, <2>2, <2>3 DEF DatesOK, SellsOf
    <2>4. CASE o \in TimeStops(session')
      BY <1>3, <2>1, <2>2, <2>4
    <2> QED
      BY <1>1, <2>2, <2>3, <2>4
  <1> QED
    BY <1>1, <1>2, <1>4, <1>5, DatesFrame, SamePositions

LEMMA DatesSellFills ==
    ASSUME EngineInv, EngineInv', DatesOK, NEW o \in sells, SellFills(o)
    PROVE  DatesOK'
  <1>1. PICK j : j = o.inst
    OBVIOUS
  <1>2. PICK q : q = Least(o.qty, Sellable(pos[j].lots, session))
    OBVIOUS
  <1>3. /\ j \in Instruments /\ o.qty \in Nat /\ q \in Nat /\ q <= o.qty /\ Qty(j) \in Nat
        /\ Shrunk(pos[j], pos'[j]) /\ \A k \in Instruments \ {j} : pos'[k] = pos[k]
        /\ Qty(j)' = Most(0, Qty(j) - q)
        /\ Rest(o, q).inst = j /\ Rest(o, q).qty = o.qty - q
        /\ sells' \subseteq (sells \ {o}) \union {Rest(o, q)}
        /\ UNCHANGED <<phase, buys, queue>>
    BY <1>1, <1>2, SellFillsIs
  <1>4. Waiting' = Waiting
    BY <1>3 DEF Waiting
  <1>5. \A k \in Instruments : /\ pos'[k].due \in {pos[k].due, None} /\ (k \in Held' => k \in Held)
                               /\ Qty(k)' \in Nat /\ Qty(k) \in Nat /\ Qty(k)' <= Qty(k)
    BY <1>3, ShrunkIs
  <1>6. ASSUME NEW k \in Instruments, SellsOf(k)' # {} PROVE SellsOf(k) # {}
    <2>1. PICK p \in sells' : p.inst = k
      BY <1>6 DEF SellsOf
    <2>2. p \in sells \/ k = j
      BY <1>3, <2>1
    <2> QED
      BY <1>1, <2>1, <2>2 DEF SellsOf
  <1>7. ASSUME NEW k \in Instruments, Dated(k), NEW p \in SellsOf(k)' PROVE p.qty >= Qty(k)'
    <2>1. p \in sells' /\ p.inst = k
      BY <1>7 DEF SellsOf
    <2>2. CASE p \in sells
      <3>1. p.qty >= Qty(k) /\ p.qty \in Nat
        <4>1. p \in SellOrder
          BY <2>2, TypesAre DEF EngineInv
        <4> QED
          BY <1>7, <2>1, <2>2, <4>1, SellOrdersAre DEF DatesOK, SellsOf
      <3> QED
        BY <1>5, <3>1
    <2>3. CASE p = Rest(o, q)
      <3>1. k = j /\ o.qty >= Qty(j)
        BY <1>1, <1>3, <1>7, <2>1, <2>3 DEF DatesOK, SellsOf
      <3> QED
        BY <1>3, <2>3, <3>1 DEF Most
    <2> QED
      BY <1>3, <2>1, <2>2, <2>3
  <1> QED
    BY <1>4, <1>5, <1>6, <1>7, DatesFrame

LEMMA DatesBuyFills ==
    ASSUME EngineInv, EngineInv', DatesOK, BuyFills
    PROVE  DatesOK'
  <1>1. PICK o : o = Head(queue)
    OBVIOUS
  <1>2. PICK j : j = o.item.inst
    OBVIOUS
  <1>3. /\ phase = "buys" /\ queue # <<>> /\ o \in Range(queue) /\ j \in Instruments /\ o.item \in Asked
        /\ pos' = [pos EXCEPT ![j] = AfterBuy(o)] /\ queue' = Tail(queue)
        /\ UNCHANGED <<session, phase, sells, buys>>
    BY <1>1, <1>2, BuyFillsIs
  <1>4. AfterBuy(o).due = pos[j].due \/ o.item.hold # None
    BY <1>1, <1>2, AfterBuyIs
  <1>5. pos'[j] = AfterBuy(o) /\ \A k \in Instruments \ {j} : pos'[k] = pos[k]
    <2>1. pos \in [Instruments -> Position]
      BY DEF EngineInv, TypeOK
    <2> QED
      BY <1>3, <2>1
  <1>6. /\ Range(queue) = Range(queue') \union {o}
        /\ \A x \in Range(queue') : x.item.inst # j
        /\ \A x \in Range(buys) : x.item.inst # j
    <2>1. queue \in Seq(BuyOrder) /\ SingleIn(queue)
      BY <1>3 DEF EngineInv, PhasesOK, OrdersOK
    <2>2. PICK s : s = Tail(queue)
      OBVIOUS
    <2>3. Range(queue) = Range(s) \union {o} /\ \A x \in Range(s) : x.item.inst # j
      BY <1>1, <1>2, <1>3, <2>1, <2>2, TailIs
    <2>4. \A x \in Range(buys) : x.item.inst # j
      BY <1>2, <1>3 DEF EngineInv, OrdersOK
    <2> QED
      BY <1>3, <2>2, <2>3, <2>4
  <1>7. Awaits(j) /\ ~Awaits(j)' /\ \A k \in Instruments : Awaits(k)' => Awaits(k)
    BY <1>2, <1>3, <1>6 DEF Awaits, Waiting
  <1>8. SellsOf(j) = {} /\ \A k \in Instruments : SellsOf(k)' = SellsOf(k)
    BY <1>3, <1>7 DEF DatesOK, SellsOf
  <1>9. ASSUME NEW k \in Instruments
        PROVE  /\ pos'[k].due # None => Dated(k)
               /\ Dated(k) /\ k \in Held' => ~Awaits(k)'
               /\ SellsOf(k)' # {} => ~Awaits(k)'
               /\ Dated(k) => \A x \in SellsOf(k)' : x.qty >= Qty(k)'
    <2>1. CASE k = j
      <3>1. pos'[j].due # None => Dated(j)
        BY <1>2, <1>3, <1>4, <1>5 DEF DatesOK, Dated
      <3> QED
        BY <1>7, <1>8, <2>1, <3>1
    <2>2. CASE k # j
      <3>1. pos'[k] = pos[k]
        BY <1>5, <2>2
      <3>2. Qty(k)' = Qty(k) /\ (k \in Held' <=> k \in Held)
        BY <3>1 DEF Qty, Held
      <3> QED
        BY <1>7, <1>8, <3>1, <3>2 DEF DatesOK
    <2> QED
      BY <2>1, <2>2
  <1> QED
    BY <1>9 DEF DatesOK, Dated

\* A step that leaves the positions alone, and neither sells nor buys more.
LEMMA DatesUntouched ==
    ASSUME EngineInv, DatesOK, pos' = pos, sells' \subseteq sells, Waiting' \subseteq Waiting
    PROVE  DatesOK'
  <1>1. \A j \in Instruments : SellsOf(j)' \subseteq SellsOf(j)
    BY DEF SellsOf
  <1>2. Held' = Held /\ \A j \in Instruments : Qty(j)' = Qty(j)
    BY SamePositions
  <1>3. \A j \in Instruments : Dated(j) => \A o \in SellsOf(j)' : o.qty >= Qty(j)'
    BY <1>1, <1>2 DEF DatesOK
  <1> QED
    BY <1>1, <1>2, <1>3, DatesFrame

LEMMA DatesExit ==
    ASSUME EngineInv, EngineInv', DatesOK, NEW j \in Instruments, NoExit(j) \/ Exit(j)
    PROVE  DatesOK'
  <1>1. Shrunk(pos[j], pos'[j]) /\ \A k \in Instruments \ {j} : pos'[k] = pos[k]
    <2>1. Shrunk(pos[j], pos'[j])
      BY NoExitKeeps, ExitKeeps
    <2>2. \E new : pos' = [pos EXCEPT ![j] = new]
      BY DEF NoExit, Exit
    <2>3. pos \in [Instruments -> Position]
      BY DEF EngineInv, TypeOK
    <2> QED
      BY <2>1, <2>2, <2>3
  <1>2. UNCHANGED <<phase, sells, buys, queue>>
    BY DEF NoExit, Exit, orders
  <1>3. Waiting' = Waiting /\ \A k \in Instruments : SellsOf(k)' = SellsOf(k)
    BY <1>2 DEF Waiting, SellsOf
  <1>4. \A k \in Instruments : /\ pos'[k].due \in {pos[k].due, None} /\ (k \in Held' => k \in Held)
                               /\ Qty(k)' \in Nat /\ Qty(k) \in Nat /\ Qty(k)' <= Qty(k)
    BY <1>1, ShrunkIs
  <1>5. ASSUME NEW k \in Instruments, Dated(k), NEW o \in SellsOf(k)' PROVE o.qty >= Qty(k)'
    <2>1. o \in sells /\ o.qty >= Qty(k)
      BY <1>3, <1>5 DEF DatesOK, SellsOf
    <2>2. o.qty \in Nat
      BY <2>1, TypesAre, SellOrdersAre DEF EngineInv
    <2> QED
      BY <1>4, <2>1, <2>2
  <1> QED
    BY <1>3, <1>4, <1>5, DatesFrame

LEMMA DatesClose ==
    ASSUME EngineInv, DatesOK, Close
    PROVE  DatesOK'
  <1>1. /\ phase = "close" /\ phase' = "decide" /\ pos' = pos
        /\ IF Fires THEN Liquidate ELSE UNCHANGED <<sells, buys>>
    BY CloseIs
  <1>2. Held' = Held /\ \A j \in Instruments : Qty(j)' = Qty(j) /\ Qty(j) \in Nat
    BY <1>1, SamePositions, QuantitiesAre
  <1>3. CASE Fires
    <2>1. /\ buys' = <<>>
          /\ sells' = {o \in sells : o.inst \notin Held} \union {SellAll(j, session) : j \in Held}
      BY <1>1, <1>3 DEF Liquidate
    <2>2. Waiting' = {}
      BY <1>1, <2>1 DEF Waiting, Range
    <2>3. \A j \in Instruments : ~Awaits(j)'
      BY <2>2 DEF Awaits
    <2>4. ASSUME NEW j \in Instruments, Dated(j), NEW o \in SellsOf(j)' PROVE o.qty >= Qty(j)'
      <3>1. o \in sells' /\ o.inst = j
        BY <2>4 DEF SellsOf
      <3>2. CASE o \in sells
        BY <1>2, <2>4, <3>1, <3>2 DEF DatesOK, SellsOf
      <3>3. CASE o \notin sells
        <4>1. PICK k \in Held : o = SellAll(k, session)
          BY <2>1, <3>1, <3>3
        <4>2. k = j /\ o.qty = Qty(j)
          BY <3>1, <4>1 DEF SellAll
        <4> QED
          BY <1>2, <4>2
      <3> QED
        BY <3>2, <3>3
    <2>5. \A j \in Instruments : pos'[j].due # None => Dated(j)
      BY <1>1 DEF DatesOK
    <2>6. \A j \in Instruments :
             /\ pos'[j].due # None => Dated(j)
             /\ Dated(j) /\ j \in Held' => ~Awaits(j)'
             /\ SellsOf(j)' # {} => ~Awaits(j)'
             /\ Dated(j) => \A o \in SellsOf(j)' : o.qty >= Qty(j)'
      BY <2>3, <2>4, <2>5
    <2> QED
      BY <2>6 DEF DatesOK, Dated
  <1>4. CASE ~Fires
    <2>1. UNCHANGED <<sells, buys>>
      BY <1>1, <1>4
    <2>2. Waiting' = Waiting
      BY <1>1, <2>1 DEF Waiting
    <2> QED
      BY <1>1, <2>1, <2>2, DatesUntouched
  <1> QED
    BY <1>3, <1>4

LEMMA DatesOrder ==
    ASSUME EngineInv, DatesOK, DatedAreFlat, NEW it, Order(it)
    PROVE  DatesOK'
  <1>1. PICK j : j = it.inst
    OBVIOUS
  <1>2. /\ phase = "orders" /\ ~Skipped(it) /\ it \in Asked /\ j \in Instruments
        /\ OrderNone(it) \/ OrderBuy(it) \/ OrderSell(it)
        /\ phase' = "orders" /\ pos' = pos
    BY <1>1, OrderIs
  <1>3. Held' = Held /\ \A k \in Instruments : Qty(k)' = Qty(k) /\ Qty(k) \in Nat
    BY <1>2, SamePositions, QuantitiesAre
  <1>4. Dated(j) => j \notin Held
    <2>1. Dated(j) => it.flat
      BY <1>1, <1>2 DEF Dated, DatedAreFlat
    <2> QED
      BY <1>1, <1>2, <2>1 DEF Skipped
  <1>5. Waiting = Range(buys) /\ Waiting' = Range(buys')
    BY <1>2 DEF Waiting
  <1>6. /\ \A o \in Waiting' : o \in Waiting \/ (o.item.inst = j /\ SellsOf(j)' = {})
        /\ \A o \in sells' : o \in sells \/ (o.inst = j /\ j \in Held)
        /\ SellsOf(j)' # {} => ~Awaits(j)'
    <2>1. CASE OrderNone(it)
      <3>1. Range(buys') \subseteq Range(buys) /\ sells' \subseteq OthersSell(j)
        BY <1>1, <2>1 DEF OrderNone, OthersWait
      <3>2. SellsOf(j)' = {}
        BY <3>1 DEF SellsOf, OthersSell
      <3> QED
        BY <1>5, <3>1, <3>2 DEF OthersSell
    <2>2. CASE OrderBuy(it)
      <3>1. PICK w, o : OthersWait(j, w) /\ GoodBuy(o) /\ o.item = it /\ buys' = Append(w, o)
        BY <1>1, <2>2 DEF OrderBuy
      <3>2. PICK t : t = Append(w, o)
        OBVIOUS
      <3>3. Range(t) = Range(w) \union {o} /\ Range(w) \subseteq Range(buys)
        BY <3>1, <3>2, AppendIs DEF OthersWait, GoodBuy
      <3>4. Range(buys') \subseteq Range(buys) \union {o}
        BY <3>1, <3>2, <3>3
      <3>5. sells' = OthersSell(j)
        BY <1>1, <2>2 DEF OrderBuy
      <3>6. SellsOf(j)' = {}
        BY <3>5 DEF SellsOf, OthersSell
      <3> QED
        BY <1>1, <1>5, <3>1, <3>4, <3>5, <3>6 DEF OthersSell
    <2>3. CASE OrderSell(it)
      <3>1. PICK w : OthersWait(j, w) /\ buys' = w
        BY <1>1, <2>3 DEF OrderSell
      <3>2. Range(buys') \subseteq Range(buys) /\ \A o \in Range(buys') : o.item.inst # j
        BY <3>1 DEF OthersWait
      <3>3. ~Awaits(j)'
        BY <1>5, <3>2 DEF Awaits
      <3>4. \A o \in sells' : o \in sells \/ (o.inst = j /\ j \in Held)
        BY <1>1, <2>3 DEF OrderSell, OthersSell
      <3> QED
        BY <1>5, <3>2, <3>3, <3>4
    <2> QED
      BY <1>2, <2>1, <2>2, <2>3
  <1>7. ASSUME NEW k \in Instruments
        PROVE  /\ pos'[k].due # None => Dated(k)
               /\ Dated(k) /\ k \in Held' => ~Awaits(k)'
               /\ SellsOf(k)' # {} => ~Awaits(k)'
               /\ Dated(k) => \A x \in SellsOf(k)' : x.qty >= Qty(k)'
    <2>1. pos'[k].due # None => Dated(k)
      BY <1>2 DEF DatesOK
    <2>2. CASE k = j
      <3>1. Dated(j) => \A x \in SellsOf(j)' : x.qty >= Qty(j)'
        <4>1. ASSUME Dated(j), NEW x \in SellsOf(j)' PROVE x.qty >= Qty(j)'
          <5>1. x \in sells
            BY <1>4, <1>6, <4>1 DEF SellsOf
          <5> QED
            BY <1>2, <1>3, <4>1, <5>1 DEF DatesOK, SellsOf
        <4> QED
          BY <4>1
      <3> QED
        BY <1>3, <1>4, <1>6, <2>1, <2>2, <3>1
    <2>3. CASE k # j
      <3>1. Awaits(k)' => Awaits(k)
        BY <1>6, <2>3 DEF Awaits
      <3>2. SellsOf(k)' \subseteq SellsOf(k)
        BY <1>6, <2>3 DEF SellsOf
      <3> QED
        BY <1>3, <2>1, <3>1, <3>2 DEF DatesOK
    <2> QED
      BY <2>2, <2>3
  <1> QED
    BY <1>7 DEF DatesOK, Dated

LEMMA DatesOrdersEnd ==
    ASSUME EngineInv, DatesOK, OrdersEnd
    PROVE  DatesOK'
  <1>1. /\ phase = "orders" /\ phase' = "rest" /\ pos' = pos
        /\ sells' = {o \in sells : o.inst \notin unlisted} \union {SellAll(j, session) : j \in unlisted}
        /\ buys' = Only(buys, {o \in Range(buys) : o.item.inst \notin unlisted})
    BY DEF OrdersEnd
  <1>2. Held' = Held /\ \A k \in Instruments : Qty(k)' = Qty(k) /\ Qty(k) \in Nat
    BY <1>1, SamePositions, QuantitiesAre
  <1>3. Range(buys') \subseteq Range(buys) /\ \A o \in Range(buys') : o.item.inst \notin unlisted
    <2>1. PICK b \in Seq(BuyOrder) : b = buys
      BY TypesAre DEF EngineInv
    <2>2. PICK S : S = {o \in Range(buys) : o.item.inst \notin unlisted}
      OBVIOUS
    <2>3. Range(Only(b, S)) = Range(b) \intersect S
      BY <2>1, OnlyIs
    <2>4. buys' = Only(b, S)
      BY <1>1, <2>1, <2>2
    <2> QED
      BY <2>1, <2>2, <2>3, <2>4
  <1>4. Waiting = Range(buys) /\ Waiting' = Range(buys')
    BY <1>1 DEF Waiting
  <1>5. ASSUME NEW k \in Instruments
        PROVE  /\ pos'[k].due # None => Dated(k)
               /\ Dated(k) /\ k \in Held' => ~Awaits(k)'
               /\ SellsOf(k)' # {} => ~Awaits(k)'
               /\ Dated(k) => \A x \in SellsOf(k)' : x.qty >= Qty(k)'
    <2>1. pos'[k].due # None => Dated(k)
      BY <1>1 DEF DatesOK
    <2>2. Awaits(k)' => Awaits(k) /\ k \notin unlisted
      BY <1>3, <1>4 DEF Awaits
    <2>3. ASSUME NEW x \in SellsOf(k)' PROVE x \in SellsOf(k) \/ (k \in unlisted /\ x.qty = Qty(k))
      <3>1. x \in sells' /\ x.inst = k
        BY <2>3 DEF SellsOf
      <3>2. CASE x \in sells
        BY <3>1, <3>2 DEF SellsOf
      <3>3. CASE x \notin sells
        <4>1. PICK j \in unlisted : x = SellAll(j, session)
          BY <1>1, <3>1, <3>3
        <4> QED
          BY <3>1, <4>1 DEF SellAll
      <3> QED
        BY <3>2, <3>3
    <2> QED
      BY <1>2, <2>1, <2>2, <2>3 DEF DatesOK
  <1> QED
    BY <1>5 DEF DatesOK, Dated

LEMMA DatesStep ==
    ASSUME EngineInv, DatesOK, DatedAreFlat, [Next]_vars
    PROVE  DatesOK'
  <1>0. EngineInv'
    BY StepKeeps
  <1>1. CASE NextSession
    BY <1>1, DatesNextSession
  <1>2. ASSUME NEW o \in sells, SellFills(o) PROVE DatesOK'
    BY <1>0, <1>2, DatesSellFills
  <1>3. ASSUME NEW o \in sells, SellWaits(o) PROVE DatesOK'
    <2>1. pos' = pos /\ sells' \subseteq sells /\ UNCHANGED <<phase, buys, queue>>
      BY <1>3 DEF SellWaits
    <2>2. Waiting' = Waiting
      BY <2>1 DEF Waiting
    <2> QED
      BY <2>1, <2>2, DatesUntouched
  <1>4. CASE SellsEnd
    <2>1. pos' = pos /\ sells' = sells /\ phase = "sells" /\ queue' = buys /\ buys' = <<>>
      BY <1>4 DEF SellsEnd
    <2>2. Range(<<>>) = {}
      BY DEF Range
    <2>3. Waiting' \subseteq Waiting
      BY <2>1, <2>2 DEF Waiting
    <2> QED
      BY <2>1, <2>3, DatesUntouched
  <1>5. CASE BuyFills
    BY <1>0, <1>5, DatesBuyFills
  <1>6. CASE BuyFails
    <2>1. PICK o : o = Head(queue)
      OBVIOUS
    <2>2. /\ phase = "buys" /\ phase' = "buys" /\ queue # <<>> /\ pos' = pos /\ sells' = sells
          /\ queue' = Tail(queue)
          /\ buys' = buys \/ buys' = Append(buys, o)
      BY <1>6, <2>1 DEF BuyFails
    <2>3. queue \in Seq(BuyOrder) /\ buys \in Seq(BuyOrder)
      BY <2>2 DEF EngineInv, PhasesOK, TypeOK
    <2>4. PICK s, t : s = Tail(queue) /\ t = Append(buys, o)
      OBVIOUS
    <2>5. o \in BuyOrder /\ o \in Range(queue) /\ Range(s) \subseteq Range(queue)
      BY <2>1, <2>2, <2>3, <2>4, TailIs
    <2>6. Range(t) = Range(buys) \union {o}
      BY <2>3, <2>4, <2>5, AppendIs
    <2>7. Waiting' \subseteq Waiting
      BY <2>2, <2>4, <2>5, <2>6 DEF Waiting
    <2> QED
      BY <2>2, <2>7, DatesUntouched
  <1>7. CASE BuysEnd \/ ExitsEnd \/ NoSignal \/ Decide \/ Skip
    <2>1. UNCHANGED <<pos, sells, buys>> /\ phase' # "buys"
      BY <1>7 DEF BuysEnd, ExitsEnd, NoSignal, Decide, Skip, orders
    <2>2. Waiting' \subseteq Waiting
      BY <2>1 DEF Waiting
    <2> QED
      BY <2>1, <2>2, DatesUntouched
  <1>8. ASSUME NEW j \in Instruments, NoExit(j) \/ Exit(j) PROVE DatesOK'
    BY <1>0, <1>8, DatesExit
  <1>9. CASE Close
    BY <1>9, DatesClose
  <1>10. ASSUME NEW s \in Signals, NEW k \in DOMAIN s.items, Order(s.items[k]) PROVE DatesOK'
    BY <1>10, DatesOrder
  <1>11. CASE OrdersEnd
    BY <1>11, DatesOrdersEnd
  <1>12. CASE UNCHANGED vars
    <2>1. UNCHANGED <<pos, sells, buys, phase, queue>>
      BY <1>12 DEF vars, orders
    <2>2. Waiting' = Waiting
      BY <2>1 DEF Waiting
    <2> QED
      BY <2>1, <2>2, DatesUntouched
  <1> QED
    BY <1>1, <1>2, <1>3, <1>4, <1>5, <1>6, <1>7, <1>8, <1>9, <1>10, <1>11, <1>12 DEF Next

LEMMA AtMostOne ==
    ASSUME NEW S, \A x, y \in S : x = y
    PROVE  Cardinality(S) \in {0, 1} /\ (S = {} => Cardinality(S) = 0)
  <1>1. CASE S = {}
    BY <1>1, FS_EmptySet
  <1>2. CASE S # {}
    <2>1. PICK x : S = {x}
      BY <1>2
    <2> QED
      BY <1>2, <2>1, FS_Singleton
  <1> QED
    BY <1>1, <1>2

LEMMA OneOrderFollows ==
    ASSUME EngineInv, DatesOK
    PROVE  OneOrderEach
  <1>1. ASSUME phase = "rest", NEW j \in Instruments
        PROVE  Cardinality(SellsOf(j)) + Cardinality({k \in DOMAIN buys : buys[k].item.inst = j}) <= 1
    <2> DEFINE K == {k \in DOMAIN buys : buys[k].item.inst = j}
    <2>1. \A x, y \in SellsOf(j) : x = y
      BY DEF EngineInv, OrdersOK, SellsOf
    <2>2. \A x, y \in K : x = y
      BY DEF EngineInv, OrdersOK, SingleIn
    <2>3. SellsOf(j) = {} \/ K = {}
      <3>1. K # {} => Awaits(j)
        BY <1>1 DEF Awaits, Waiting, Range
      <3> QED
        BY <3>1 DEF DatesOK
    <2>4. Cardinality(SellsOf(j)) \in {0, 1} /\ (SellsOf(j) = {} => Cardinality(SellsOf(j)) = 0)
      BY <2>1, AtMostOne
    <2> HIDE DEF K
    <2>5. Cardinality(K) \in {0, 1} /\ (K = {} => Cardinality(K) = 0)
      BY <2>2, AtMostOne
    <2> HIDE DEF SellsOf
    <2>6. Cardinality(SellsOf(j)) + Cardinality(K) <= 1
      BY <2>3, <2>4, <2>5
    <2> QED
      BY <2>6 DEF K
  <1> QED
    BY <1>1 DEF OneOrderEach

LEMMA InitIsDated ==
    ASSUME Init
    PROVE  DatesOK
  <1>1. /\ phase = "rest" /\ sells = {} /\ buys = <<>> /\ \A j \in Instruments : pos[j].due = None
    BY FlatIsAPosition DEF Init
  <1>2. Waiting = {}
    BY <1>1 DEF Waiting, Range
  <1> QED
    BY <1>1, <1>2 DEF DatesOK, Awaits, SellsOf

\* One order for an instrument, for strategies that buy what has a date only when flat.
THEOREM OneOrderEachAlways == ASSUME DatedAreFlat PROVE Spec => [](DatesOK /\ OneOrderEach)
  <1>1. Init => DatesOK
    BY InitIsDated
  <1>2. EngineInv /\ DatesOK /\ [Next]_vars => DatesOK'
    BY DatesStep
  <1>3. EngineInv /\ DatesOK => OneOrderEach
    BY OneOrderFollows
  <1> QED
    BY <1>1, <1>2, <1>3, InvAlways, PTL DEF Spec

-----------------------------------------------------------------------------
(* Time-stops *)

LEMMA UnsettledFrame ==
    ASSUME NEW j, pos'[j] = pos[j], session' = session
    PROVE  /\ Unsettled(j) => Unsettled(j)'
           /\ (j \in Held' /\ j \in Instruments) => j \in Held
           /\ Due(j, session)' => Due(j, session)
  BY DEF Unsettled, Settled, Held, Due

\* With nothing of it settled there is something unsettled.
LEMMA NothingToSell ==
    ASSUME EngineInv, NEW j \in Held, ~(Sellable(pos[j].lots, session) > 0)
    PROVE  Unsettled(j)
  <1>1. j \in Instruments /\ pos[j].lots # <<>> /\ GoodLots(pos[j].lots) /\ session \in Nat
    BY DEF Held, EngineInv, BooksOK, TypeOK
  <1>2. 1 \in 1..Len(pos[j].lots)
    <2>1. Len(pos[j].lots) \in Nat /\ Len(pos[j].lots) # 0
      BY <1>1, EmptySeq, GoodLotsAre DEF GoodLots
    <2> QED
      BY <2>1
  <1>3. ~Settled(pos[j].lots, 1, session)
    BY <1>1, <1>2, SellableAre
  <1> QED
    BY <1>2, <1>3 DEF Unsettled

LEMMA TimesSellFills ==
    ASSUME EngineInv, EngineInv', DatesOK, TimesOK, NEW o \in sells, SellFills(o)
    PROVE  TimesOK'
  <1>1. PICK j : j = o.inst
    OBVIOUS
  <1>2. PICK q : q = Least(o.qty, Sellable(pos[j].lots, session))
    OBVIOUS
  <1>3. /\ phase = "sells" /\ j \in Instruments /\ session \in Nat /\ o.qty \in Nat \ {0}
        /\ pos[j] \in Position /\ GoodLots(pos[j].lots) /\ q \in Nat /\ Qty(j) \in Nat
        /\ pos'[j] = Sold(pos[j], q) /\ Shrunk(pos[j], pos'[j])
        /\ \A k \in Instruments \ {j} : pos'[k] = pos[k]
        /\ left' = left \ {o}
        /\ UNCHANGED <<session, phase, bar, last>>
    BY <1>1, <1>2, SellFillsIs
  <1>4. ASSUME NEW k \in Held', Due(k, session)', CanTrade(k)'
        PROVE  Unsettled(k)' \/ (phase = "sells" /\ \E p \in left' : p.inst = k)
    <2>1. k \in Instruments /\ pos'[k].lots # <<>>
      BY <1>4 DEF Held
    <2>2. CanTrade(k)
      BY <1>3, <1>4 DEF CanTrade, Floor
    <2>3. CASE k # j
      <3>1. k \in Held /\ Due(k, session) /\ (Unsettled(k) => Unsettled(k)')
        BY <1>3, <1>4, <2>1, <2>3, UnsettledFrame
      <3>2. Unsettled(k) \/ \E p \in left : p.inst = k
        BY <1>3, <2>2, <3>1 DEF TimesOK
      <3> QED
        BY <1>1, <1>3, <2>3, <3>1, <3>2
    <2>4. CASE k = j
      <3>1. pos'[j].due = pos[j].due /\ pos'[j].due # None
        BY <1>3, <1>4, <2>1, <2>4 DEF Shrunk, Due
      <3>2. o.qty >= Qty(j)
        BY <1>1, <3>1, <1>3 DEF DatesOK, SellsOf
      <3>3. PICK s \in Nat : s = Sellable(pos[j].lots, session) /\ s <= Qty(j)
        BY <1>3, SellableAre DEF Qty
      <3>4. q = s
        BY <1>2, <1>3, <3>2, <3>3 DEF Least
      <3>5. q < Shares(pos[j].lots)
        <4>1. q >= Shares(pos[j].lots) => pos'[j] = Flat
          BY <1>3, SoldIs
        <4>2. Shares(pos[j].lots) \in Nat
          BY <1>3, SharesAre
        <4> QED
          BY <1>3, <2>1, <2>4, <4>1, <4>2, FlatIsAPosition
      <3>6. pos'[j].lots = Removed(pos[j].lots, q)
        <4>1. pos[j] \in Position /\ GoodLots(pos[j].lots) /\ q \in Nat /\ pos'[j] = Sold(pos[j], q)
          BY <1>3
        <4>2. Sold(pos[j], q).lots = Removed(pos[j].lots, q)
          BY <3>5, <4>1, SoldIs
        <4> QED
          BY <4>1, <4>2
      <3>7. PICK new : new = Removed(pos[j].lots, Sellable(pos[j].lots, session))
        OBVIOUS
      <3>8. \A n \in 1..Len(new) : ~Settled(new, n, session)
        BY <1>3, <3>7, SettledLeave
      <3>9. pos'[j].lots = new
        BY <3>3, <3>4, <3>6, <3>7
      <3>10. GoodLots(new)
        BY <1>3, <3>9 DEF Shrunk
      <3>11. Len(new) \in Nat /\ Len(new) # 0
        BY <2>1, <2>4, <3>9, <3>10, EmptySeq, GoodLotsAre DEF GoodLots
      <3>12. 1 \in 1..Len(new)
        BY <3>11
      <3>13. ~Settled(pos'[j].lots, 1, session') /\ 1 \in 1..Len(pos'[j].lots)
        BY <1>3, <3>8, <3>9, <3>12
      <3> QED
        BY <2>4, <3>13 DEF Unsettled, Settled
    <2> QED
      BY <2>3, <2>4
  <1> QED
    BY <1>3, <1>4 DEF TimesOK

LEMMA TimesSellWaits ==
    ASSUME EngineInv, TimesOK, NEW o \in sells, SellWaits(o)
    PROVE  TimesOK'
  <1>1. /\ phase = "sells" /\ ~CanSell(o) /\ left' = left \ {o}
        /\ UNCHANGED <<session, phase, bar, last, pos>>
    BY DEF SellWaits, market
  <1>2. ASSUME NEW k \in Held', Due(k, session)', CanTrade(k)'
        PROVE  Unsettled(k)' \/ (phase = "sells" /\ \E p \in left' : p.inst = k)
    <2>1. k \in Held /\ Due(k, session) /\ (Unsettled(k) => Unsettled(k)')
      BY <1>1, <1>2, UnsettledFrame DEF Held
    <2>2. CanTrade(k)
      BY <1>1, <1>2 DEF CanTrade, Floor
    <2>3. Unsettled(k) \/ \E p \in left : p.inst = k
      BY <1>1, <2>1, <2>2 DEF TimesOK
    <2>4. CASE k = o.inst
      <3>1. ~(Sellable(pos[k].lots, session) > 0)
        BY <1>1, <2>2, <2>4 DEF CanSell, CanTrade
      <3> QED
        BY <2>1, <3>1, NothingToSell
    <2>5. CASE k # o.inst
      BY <1>1, <2>1, <2>3, <2>5
    <2> QED
      BY <2>4, <2>5
  <1> QED
    BY <1>1, <1>2 DEF TimesOK

LEMMA TimesNextSession ==
    ASSUME EngineInv, NextSession
    PROVE  TimesOK'
  <1>1. /\ phase' = "sells" /\ pos' = pos /\ sells' = sells \union TimeStops(session') /\ left' = sells'
    BY DEF NextSession
  <1>2. ASSUME NEW k \in Held', Due(k, session)' PROVE \E p \in left' : p.inst = k
    <2>1. k \in Held /\ Due(k, session')
      BY <1>1, <1>2 DEF Held, Due
    <2>2. CASE SellsOf(k) = {}
      <3>1. SellAll(k, session' - 1) \in TimeStops(session')
        BY <2>1, <2>2 DEF TimeStops
      <3>2. SellAll(k, session' - 1).inst = k
        BY DEF SellAll
      <3> QED
        BY <1>1, <3>1, <3>2
    <2>3. CASE SellsOf(k) # {}
      BY <1>1, <2>3 DEF SellsOf
    <2> QED
      BY <2>2, <2>3
  <1> QED
    BY <1>1, <1>2 DEF TimesOK

LEMMA TimesBuyFills ==
    ASSUME EngineInv, TimesOK, BuyFills, SETTLE > 0
    PROVE  TimesOK'
  <1>1. PICK o : o = Head(queue)
    OBVIOUS
  <1>2. PICK j : j = o.item.inst
    OBVIOUS
  <1>3. /\ phase = "buys" /\ j \in Instruments /\ pos' = [pos EXCEPT ![j] = AfterBuy(o)]
        /\ pos[j] \in Position /\ GoodLots(pos[j].lots)
        /\ UNCHANGED <<session, phase, bar, last>>
    BY <1>1, <1>2, BuyFillsIs
  <1>4. PICK l : l = [qty |-> BuyOf(o), at |-> session]
    OBVIOUS
  <1>5. l \in Lot /\ AfterBuy(o).lots = Append(pos[j].lots, l)
    BY <1>1, <1>2, <1>4, AfterBuyIs
  <1>6. pos'[j] = AfterBuy(o) /\ \A k \in Instruments \ {j} : pos'[k] = pos[k]
    <2>1. pos \in [Instruments -> Position]
      BY DEF EngineInv, TypeOK
    <2> QED
      BY <1>3, <2>1
  <1>7. Unsettled(j)'
    <2>1. pos[j].lots \in Seq(Lot) /\ Len(pos[j].lots) \in Nat
      BY <1>3, PositionsAre, GoodLotsAre
    <2>2. PICK n \in Nat : n = Len(pos[j].lots) + 1 /\ n >= 1
      BY <2>1
    <2>3. Append(pos[j].lots, l)[n] = l /\ Len(Append(pos[j].lots, l)) = n
      BY <1>5, <2>1, <2>2, AppendProperties
    <2>4. pos'[j].lots[n] = l /\ Len(pos'[j].lots) = n
      BY <1>5, <1>6, <2>3
    <2>5. l.at = session /\ session \in Nat /\ SETTLE \in Nat
      BY <1>4, Naturals1 DEF EngineInv, TypeOK
    <2>6. ~(session' - pos'[j].lots[n].at >= SETTLE) /\ n \in 1..Len(pos'[j].lots)
      BY <1>3, <2>2, <2>4, <2>5
    <2> QED
      BY <2>6 DEF Unsettled, Settled
  <1>8. ASSUME NEW k \in Held', Due(k, session)', CanTrade(k)' PROVE Unsettled(k)'
    <2>1. CASE k = j
      BY <1>7, <2>1
    <2>2. CASE k # j
      <3>1. k \in Instruments
        BY <1>8 DEF Held
      <3>2. k \in Held /\ Due(k, session) /\ (Unsettled(k) => Unsettled(k)')
        BY <1>3, <1>6, <1>8, <2>2, <3>1, UnsettledFrame
      <3>3. CanTrade(k)
        BY <1>3, <1>8 DEF CanTrade, Floor
      <3> QED
        BY <1>3, <3>2, <3>3 DEF TimesOK
    <2> QED
      BY <2>1, <2>2
  <1> QED
    BY <1>3, <1>8 DEF TimesOK

\* A step of these phases that leaves positions and prices alone.
LEMMA TimesFrame ==
    ASSUME TimesOK, UNCHANGED <<session, bar, last, pos>>, phase \in {"sells", "buys"},
           phase' = "buys" \/ (phase' = phase /\ left' = left), left = {} \/ phase' = phase
    PROVE  TimesOK'
  <1>1. ASSUME NEW k \in Held', Due(k, session)', CanTrade(k)'
        PROVE  Unsettled(k)' \/ (phase' = "sells" /\ \E p \in left' : p.inst = k)
    <2>1. k \in Held /\ Due(k, session) /\ (Unsettled(k) => Unsettled(k)') /\ CanTrade(k)
      BY <1>1, UnsettledFrame DEF Held, CanTrade, Floor
    <2> QED
      BY <2>1 DEF TimesOK
  <1> QED
    BY <1>1 DEF TimesOK

LEMMA TimesStep ==
    ASSUME EngineInv, DatesOK, TimesOK, SETTLE > 0, [Next]_vars
    PROVE  TimesOK'
  <1>0. EngineInv'
    BY StepKeeps
  <1>1. CASE NextSession
    BY <1>1, TimesNextSession
  <1>2. ASSUME NEW o \in sells, SellFills(o) \/ SellWaits(o) PROVE TimesOK'
    BY <1>0, <1>2, TimesSellFills, TimesSellWaits
  <1>3. CASE SellsEnd
    <2>1. UNCHANGED <<session, bar, last, pos>> /\ phase = "sells" /\ phase' = "buys" /\ left = {}
      BY <1>3 DEF SellsEnd, market
    <2> QED
      BY <2>1, TimesFrame
  <1>4. CASE BuyFills
    BY <1>4, TimesBuyFills
  <1>5. CASE BuyFails
    <2>1. UNCHANGED <<session, bar, last, pos, left, phase>> /\ phase = "buys"
      BY <1>5 DEF BuyFails, market
    <2> QED
      BY <2>1, TimesFrame
  <1>6. CASE BuysEnd \/ ExitsEnd \/ Close \/ NoSignal \/ Decide \/ OrdersEnd
    <2>1. phase' \notin {"sells", "buys"}
      BY <1>6 DEF BuysEnd, ExitsEnd, Close, NoSignal, Decide, OrdersEnd
    <2> QED
      BY <2>1 DEF TimesOK
  <1>7. ASSUME NEW j \in Instruments, NoExit(j) \/ Exit(j) PROVE TimesOK'
    <2>1. phase' \notin {"sells", "buys"}
      BY <1>7 DEF NoExit, Exit
    <2> QED
      BY <2>1 DEF TimesOK
  <1>8. CASE Skip
    <2>1. phase' \notin {"sells", "buys"}
      BY <1>8 DEF Skip
    <2> QED
      BY <2>1 DEF TimesOK
  <1>9. ASSUME NEW s \in Signals, NEW k \in DOMAIN s.items, Order(s.items[k]) PROVE TimesOK'
    <2>1. phase' \notin {"sells", "buys"}
      BY <1>9, OrderIs
    <2> QED
      BY <2>1 DEF TimesOK
  <1>10. CASE UNCHANGED vars
    <2>1. UNCHANGED <<session, bar, last, pos, left, phase>>
      BY <1>10 DEF vars, market
    <2>2. CASE phase \in {"sells", "buys"}
      BY <2>1, <2>2, TimesFrame
    <2>3. CASE phase \notin {"sells", "buys"}
      BY <2>1, <2>3 DEF TimesOK
    <2> QED
      BY <2>2, <2>3
  <1> QED
    BY <1>1, <1>2, <1>3, <1>4, <1>5, <1>6, <1>7, <1>8, <1>9, <1>10 DEF Next

LEMMA TimesFollow ==
    ASSUME EngineInv, TimesOK
    PROVE  TimeExitOnTime
  <1>1. ASSUME phase = "buys", NEW j \in Held, pos[j].due # None, session >= pos[j].due,
               Trades(bar[j]), bar[j].open > Floor(j)
        PROVE  \E k \in DOMAIN pos[j].lots : session < pos[j].lots[k].at + SETTLE
    <2>1. Unsettled(j)
      BY <1>1 DEF TimesOK, Due, CanTrade
    <2>2. PICK k \in 1..Len(pos[j].lots) : ~(session - pos[j].lots[k].at >= SETTLE)
      BY <2>1 DEF Unsettled, Settled
    <2>3. GoodLots(pos[j].lots) /\ session \in Nat
      BY <1>1 DEF EngineInv, BooksOK, TypeOK, Held
    <2>4. pos[j].lots[k].at \in Nat /\ DOMAIN pos[j].lots = 1..Len(pos[j].lots)
      BY <2>2, <2>3, GoodLotsAre
    <2>5. session < pos[j].lots[k].at + SETTLE
      BY <2>2, <2>3, <2>4, Naturals1, SMTT(20)
    <2> QED
      BY <2>2, <2>4, <2>5
  <1> QED
    BY <1>1 DEF TimeExitOnTime

\* A position past its date is gone once the session has sold, but for what is unsettled.
THEOREM TimeExitAlways == ASSUME DatedAreFlat, SETTLE > 0 PROVE Spec => []TimeExitOnTime
  <1>1. Init => TimesOK
    BY DEF Init, TimesOK
  <1>2. EngineInv /\ DatesOK /\ TimesOK /\ [Next]_vars => TimesOK'
    BY TimesStep
  <1>3. EngineInv /\ TimesOK => TimeExitOnTime
    BY TimesFollow
  <1>4. Spec => []DatesOK
    BY OneOrderEachAlways, PTL
  <1> QED
    BY <1>1, <1>2, <1>3, <1>4, InvAlways, PTL DEF Spec

-----------------------------------------------------------------------------
(* The kill switch *)

OnSale(j) == \E o \in SellsOf(j) : o.qty >= Qty(j) /\ o.upto >= until
MustBeOnSale == session < until \/ phase \in {"decide", "rest"}

LEMMA KillIs ==
    KillOK <=> (killed => /\ phase # "orders" /\ buys = <<>> /\ (phase = "buys" => queue = <<>>)
                          /\ MustBeOnSale => \A j \in Held : OnSale(j))
  BY DEF KillOK, OnSale, MustBeOnSale

\* A step that takes no sell away and leaves no position larger.
LEMMA KillFrame ==
    ASSUME EngineInv, KillOK, killed' => killed, UNCHANGED <<until, session>>, sells \subseteq sells',
           killed => /\ phase' # "orders" /\ buys' = <<>> /\ (phase' = "buys" => queue' = <<>>)
                     /\ MustBeOnSale' => MustBeOnSale,
           \A j \in Instruments : j \in Held' => /\ j \in Held /\ Qty(j)' \in Nat /\ Qty(j) \in Nat
                                                 /\ Qty(j)' <= Qty(j)
    PROVE  KillOK'
  <1>1. ASSUME killed, MustBeOnSale, NEW j \in Held' PROVE OnSale(j)'
    <2>1. j \in Instruments
      BY <1>1 DEF Held
    <2>2. j \in Held /\ Qty(j)' \in Nat /\ Qty(j) \in Nat /\ Qty(j)' <= Qty(j)
      BY <1>1, <2>1
    <2>3. PICK o \in SellsOf(j) : o.qty >= Qty(j) /\ o.upto >= until
      BY <1>1, <2>2, KillIs DEF OnSale
    <2>4. o.qty \in Nat
      BY <2>3, TypesAre, SellOrdersAre DEF SellsOf, EngineInv
    <2>5. o \in SellsOf(j)' /\ o.qty >= Qty(j)'
      BY <2>2, <2>3, <2>4 DEF SellsOf
    <2> QED
      BY <2>3, <2>5 DEF OnSale
  <1>2. killed' => /\ phase' # "orders" /\ buys' = <<>> /\ (phase' = "buys" => queue' = <<>>)
                   /\ MustBeOnSale' => \A j \in Held' : OnSale(j)'
    BY <1>1
  <1> QED
    BY <1>2 DEF KillOK, OnSale, MustBeOnSale

LEMMA KillSellFills ==
    ASSUME EngineInv, EngineInv', KillOK, NEW o \in sells, SellFills(o)
    PROVE  KillOK'
  <1>1. PICK j : j = o.inst
    OBVIOUS
  <1>2. PICK q : q = Least(o.qty, Sellable(pos[j].lots, session))
    OBVIOUS
  <1>3. /\ phase = "sells" /\ j \in Instruments /\ session \in Nat /\ o.qty \in Nat \ {0} /\ o.upto \in Nat
        /\ q \in Nat /\ q <= o.qty /\ Qty(j) \in Nat
        /\ Shrunk(pos[j], pos'[j]) /\ \A k \in Instruments \ {j} : pos'[k] = pos[k]
        /\ Qty(j)' = Most(0, Qty(j) - q)
        /\ Rest(o, q).inst = j /\ Rest(o, q).qty = o.qty - q /\ Rest(o, q).upto = o.upto
        /\ sells' = (sells \ {o}) \union
              (IF q < o.qty /\ q < Qty(j) /\ Lasts(o.upto) THEN {Rest(o, q)} ELSE {})
        /\ UNCHANGED <<session, phase, buys, queue, killed, until>>
    BY <1>1, <1>2, SellFillsIs
  <1>4. ASSUME killed, session < until, NEW k \in Held' PROVE OnSale(k)'
    <2>1. k \in Instruments
      BY <1>4 DEF Held
    <2>2. k \in Held /\ Qty(k)' \in Nat /\ Qty(k) \in Nat /\ Qty(k)' <= Qty(k) /\ Qty(k)' # 0
      <3>1. Shrunk(pos[k], pos'[k]) \/ pos'[k] = pos[k]
        BY <1>3, <2>1
      <3>2. GoodLots(pos'[k].lots) /\ pos'[k].lots # <<>>
        BY <1>4, <2>1 DEF EngineInv, BooksOK, Held
      <3>3. Qty(k)' # 0
        BY <3>2, SharesAre DEF Qty
      <3> QED
        BY <1>4, <2>1, <3>1, <3>3, ShrunkIs
    <2>3. PICK p \in SellsOf(k) : p.qty >= Qty(k) /\ p.upto >= until
      BY <1>4, <2>2, KillIs DEF OnSale, MustBeOnSale
    <2>4. p \in sells /\ p.inst = k /\ p.qty \in Nat
      BY <2>3, TypesAre, SellOrdersAre DEF SellsOf, EngineInv
    <2>5. until \in Int
      BY DEF EngineInv, TypeOK
    <2>6. CASE k = j
      <3>1. p = o
        BY <1>1, <2>4, <2>6 DEF EngineInv, OrdersOK
      <3>2. q < Qty(j) /\ Qty(j)' = Qty(j) - q
        BY <1>3, <2>2, <2>6 DEF Most
      <3>3. q < o.qty
        BY <1>3, <2>3, <2>6, <3>1, <3>2
      <3>4. Lasts(o.upto)
        BY <1>3, <1>4, <2>3, <2>5, <3>1 DEF Lasts
      <3>5. Rest(o, q) \in SellsOf(j)'
        BY <1>3, <3>2, <3>3, <3>4 DEF SellsOf
      <3>6. Rest(o, q).qty >= Qty(j)' /\ Rest(o, q).upto >= until'
        BY <1>3, <2>3, <2>6, <3>1, <3>2
      <3> QED
        BY <2>6, <3>5, <3>6 DEF OnSale
    <2>7. CASE k # j
      <3>1. p \in SellsOf(k)'
        BY <1>1, <1>3, <2>4, <2>7 DEF SellsOf
      <3>2. p.qty >= Qty(k)' /\ p.upto >= until'
        BY <1>3, <2>2, <2>3, <2>4
      <3> QED
        BY <3>1, <3>2 DEF OnSale
    <2> QED
      BY <2>6, <2>7
  <1>5. (killed => buys = <<>>) /\ (MustBeOnSale' => session < until)
    BY <1>3, KillIs DEF MustBeOnSale
  <1>6. killed' => /\ phase' # "orders" /\ buys' = <<>> /\ (phase' = "buys" => queue' = <<>>)
                   /\ MustBeOnSale' => \A k \in Held' : OnSale(k)'
    BY <1>3, <1>4, <1>5, KillIs
  <1> QED
    BY <1>6 DEF KillOK, OnSale, MustBeOnSale

LEMMA KillSellWaits ==
    ASSUME EngineInv, KillOK, NEW o \in sells, SellWaits(o)
    PROVE  KillOK'
  <1>1. /\ phase = "sells" /\ pos' = pos
        /\ sells' = IF o.inst \in Held /\ Lasts(o.upto) THEN sells ELSE sells \ {o}
        /\ UNCHANGED <<session, phase, buys, queue, killed, until>>
    BY DEF SellWaits, risk
  <1>2. ASSUME killed, session < until, NEW k \in Held' PROVE OnSale(k)'
    <2>1. k \in Held /\ Qty(k)' = Qty(k)
      BY <1>1, <1>2 DEF Held, Qty
    <2>2. PICK p \in SellsOf(k) : p.qty >= Qty(k) /\ p.upto >= until
      BY <1>2, <2>1, KillIs DEF OnSale, MustBeOnSale
    <2>3. p \in sells'
      <3>1. p \in sells /\ p.inst = k
        BY <2>2 DEF SellsOf
      <3>2. session \in Nat /\ until \in Int /\ p.upto \in Nat
        BY <3>1, TypesAre, SellOrdersAre DEF EngineInv, TypeOK
      <3>3. p = o => Lasts(o.upto) /\ o.inst \in Held
        BY <1>2, <2>1, <2>2, <3>1, <3>2 DEF Lasts
      <3> QED
        BY <1>1, <3>1, <3>3
    <2> QED
      BY <1>1, <2>1, <2>2, <2>3 DEF OnSale, SellsOf
  <1>3. MustBeOnSale' => session < until
    BY <1>1 DEF MustBeOnSale
  <1>4. killed' => /\ phase' # "orders" /\ buys' = <<>> /\ (phase' = "buys" => queue' = <<>>)
                   /\ MustBeOnSale' => \A k \in Held' : OnSale(k)'
    BY <1>1, <1>2, <1>3, KillIs
  <1> QED
    BY <1>4 DEF KillOK, OnSale, MustBeOnSale

LEMMA KillNextSession ==
    ASSUME EngineInv, KillOK, NextSession
    PROVE  KillOK'
  <1>1. /\ phase = "rest" /\ phase' = "sells" /\ pos' = pos /\ sells \subseteq sells'
        /\ UNCHANGED <<buys, killed, until>>
    BY DEF NextSession, risk
  <1>2. ASSUME killed, NEW k \in Held' PROVE OnSale(k)'
    <2>1. k \in Held /\ Qty(k)' = Qty(k)
      BY <1>1, <1>2 DEF Held, Qty
    <2>2. PICK p \in SellsOf(k) : p.qty >= Qty(k) /\ p.upto >= until
      BY <1>1, <1>2, <2>1, KillIs DEF OnSale, MustBeOnSale
    <2> QED
      BY <1>1, <2>1, <2>2 DEF OnSale, SellsOf
  <1>3. killed' => /\ phase' # "orders" /\ buys' = <<>> /\ (phase' = "buys" => queue' = <<>>)
                   /\ MustBeOnSale' => \A k \in Held' : OnSale(k)'
    BY <1>1, <1>2, KillIs
  <1> QED
    BY <1>3 DEF KillOK, OnSale, MustBeOnSale

LEMMA KillClose ==
    ASSUME EngineInv, KillOK, Close, COOLDOWN <= MAX_SELL + 1
    PROVE  KillOK'
  <1>1. /\ phase = "close" /\ phase' = "decide" /\ pos' = pos /\ session' = session
        /\ killed' = IF ~killed \/ Resumes THEN Fires ELSE killed
        /\ until' = IF Fires THEN session + COOLDOWN ELSE until
        /\ IF Fires THEN Liquidate ELSE UNCHANGED <<sells, buys>>
    BY CloseIs
  <1>2. Held' = Held /\ \A j \in Instruments : Qty(j)' = Qty(j) /\ Qty(j) \in Nat
    BY <1>1, SamePositions, QuantitiesAre
  <1>3. CASE Fires
    <2>1. /\ buys' = <<>>
          /\ sells' = {o \in sells : o.inst \notin Held} \union {SellAll(j, session) : j \in Held}
      BY <1>1, <1>3 DEF Liquidate
    <2>2. ASSUME NEW j \in Held' PROVE OnSale(j)'
      <3>1. j \in Held /\ Qty(j)' = Qty(j) /\ Qty(j) \in Nat
        BY <1>2, <2>2 DEF Held
      <3>2. PICK s : s = SellAll(j, session)
        OBVIOUS
      <3>3. s \in sells' /\ s.inst = j /\ s.qty = Qty(j) /\ s.upto = session + 1 + MAX_SELL
        BY <2>1, <3>1, <3>2 DEF SellAll
      <3>4. session \in Nat /\ until' = session + COOLDOWN
        BY <1>1, <1>3 DEF EngineInv, TypeOK
      <3>5. s.upto >= until'
        BY <3>3, <3>4, Naturals1
      <3> QED
        BY <3>1, <3>3, <3>5 DEF OnSale, SellsOf
    <2> QED
      BY <1>1, <2>1, <2>2 DEF KillOK, OnSale
  <1>4. CASE ~Fires
    <2>1. killed' => killed /\ ~Resumes
      BY <1>1, <1>4
    <2>2. UNCHANGED <<sells, buys, until>>
      BY <1>1, <1>4
    <2>3. ASSUME killed' PROVE \A j \in Held' : OnSale(j)'
      <3>1. killed /\ session < until
        <4>1. session \in Nat /\ until \in Int
          BY DEF EngineInv, TypeOK
        <4> QED
          BY <2>1, <2>3, <4>1 DEF Resumes
      <3>2. \A j \in Held : OnSale(j)
        BY <3>1, KillIs DEF MustBeOnSale
      <3> QED
        BY <1>1, <1>2, <2>2, <3>2 DEF OnSale, SellsOf, Qty, Held
    <2>4. killed' => buys' = <<>>
      BY <2>1, <2>2, KillIs
    <2> QED
      BY <1>1, <2>3, <2>4 DEF KillOK, OnSale
  <1> QED
    BY <1>3, <1>4

LEMMA KillStep ==
    ASSUME EngineInv, KillOK, COOLDOWN <= MAX_SELL + 1, [Next]_vars
    PROVE  KillOK'
  <1>0. EngineInv'
    BY StepKeeps
  <1>1. CASE NextSession
    BY <1>1, KillNextSession
  <1>2. ASSUME NEW o \in sells, SellFills(o) \/ SellWaits(o) PROVE KillOK'
    BY <1>0, <1>2, KillSellFills, KillSellWaits
  <1>3. CASE SellsEnd
    <2>1. /\ phase = "sells" /\ phase' = "buys" /\ pos' = pos /\ queue' = buys /\ buys' = <<>>
          /\ UNCHANGED <<session, sells, killed, until>>
      BY <1>3 DEF SellsEnd, risk
    <2>2. killed => buys = <<>>
      BY KillIs
    <2>3. MustBeOnSale' => MustBeOnSale
      BY <2>1 DEF MustBeOnSale
    <2> QED
      BY <2>1, <2>2, <2>3, KillFrame, SamePositions, QuantitiesAre DEF Held
  <1>4. CASE BuyFills \/ BuyFails
    <2>1. phase = "buys" /\ queue # <<>> /\ killed' = killed
      BY <1>4 DEF BuyFills, BuyFails, risk
    <2>2. ~killed'
      BY <2>1, KillIs
    <2> QED
      BY <2>2 DEF KillOK
  <1>5. CASE BuysEnd \/ ExitsEnd
    <2>1. /\ phase \in {"buys", "exits"} /\ phase' \in {"exits", "close"} /\ pos' = pos
          /\ UNCHANGED <<session, sells, buys, killed, until>>
      BY <1>5 DEF BuysEnd, ExitsEnd, risk, orders
    <2>2. MustBeOnSale' => MustBeOnSale
      BY <2>1 DEF MustBeOnSale
    <2>3. killed => buys = <<>>
      BY KillIs
    <2> QED
      BY <2>1, <2>2, <2>3, KillFrame, SamePositions, QuantitiesAre DEF Held
  <1>6. ASSUME NEW j \in Instruments, NoExit(j) \/ Exit(j) PROVE KillOK'
    <2>1. Shrunk(pos[j], pos'[j]) /\ \A k \in Instruments \ {j} : pos'[k] = pos[k]
      <3>1. Shrunk(pos[j], pos'[j])
        BY <1>6, NoExitKeeps, ExitKeeps
      <3>2. \E new : pos' = [pos EXCEPT ![j] = new]
        BY <1>6 DEF NoExit, Exit
      <3>3. pos \in [Instruments -> Position]
        BY DEF EngineInv, TypeOK
      <3> QED
        BY <3>1, <3>2, <3>3
    <2>2. phase = "exits" /\ UNCHANGED <<phase, session, sells, buys, killed, until, queue>>
      BY <1>6 DEF NoExit, Exit, orders, risk
    <2>3. \A k \in Instruments : /\ (k \in Held' => k \in Held) /\ Qty(k)' \in Nat /\ Qty(k) \in Nat
                                 /\ Qty(k)' <= Qty(k)
      BY <1>0, <2>1, ShrunkIs
    <2>4. MustBeOnSale' => MustBeOnSale
      BY <2>2 DEF MustBeOnSale
    <2>5. killed => buys = <<>>
      BY KillIs
    <2> QED
      BY <2>2, <2>3, <2>4, <2>5, KillFrame
  <1>7. CASE Close
    BY <1>7, KillClose
  <1>8. CASE NoSignal
    <2>1. /\ phase = "decide" /\ phase' = "rest" /\ pos' = pos
          /\ UNCHANGED <<session, sells, buys, killed, until>>
      BY <1>8 DEF NoSignal, risk, orders
    <2>2. MustBeOnSale
      BY <2>1 DEF MustBeOnSale
    <2>3. killed => buys = <<>>
      BY KillIs
    <2> QED
      BY <2>1, <2>2, <2>3, KillFrame, SamePositions, QuantitiesAre DEF Held
  <1>9. CASE Decide
    <2>1. ~killed'
      BY <1>9 DEF Decide, risk
    <2> QED
      BY <2>1 DEF KillOK
  <1>10. CASE Skip \/ OrdersEnd
    <2>1. phase = "orders" /\ killed' = killed
      BY <1>10 DEF Skip, OrdersEnd, risk
    <2>2. ~killed'
      BY <2>1, KillIs
    <2> QED
      BY <2>2 DEF KillOK
  <1>11. ASSUME NEW s \in Signals, NEW k \in DOMAIN s.items, Order(s.items[k]) PROVE KillOK'
    <2>1. phase = "orders" /\ killed' = killed
      BY <1>11, OrderIs
    <2>2. ~killed'
      BY <2>1, KillIs
    <2> QED
      BY <2>2 DEF KillOK
  <1>12. CASE UNCHANGED vars
    <2>1. UNCHANGED <<session, phase, pos, sells, buys, queue, killed, until>>
      BY <1>12 DEF vars, orders, risk
    <2>2. MustBeOnSale' => MustBeOnSale
      BY <2>1 DEF MustBeOnSale
    <2>3. killed => phase # "orders" /\ buys = <<>> /\ (phase = "buys" => queue = <<>>)
      BY KillIs
    <2> QED
      BY <2>1, <2>2, <2>3, KillFrame, SamePositions, QuantitiesAre DEF Held
  <1> QED
    BY <1>1, <1>2, <1>3, <1>4, <1>5, <1>6, <1>7, <1>8, <1>9, <1>10, <1>11, <1>12 DEF Next

\* After the kill switch, for a cooldown no longer than the sells last.
THEOREM KillSellsEverythingAlways ==
    ASSUME COOLDOWN <= MAX_SELL + 1 PROVE Spec => []KillSellsEverything
  <1>1. Init => KillOK
    BY DEF Init, KillOK
  <1>2. EngineInv /\ KillOK /\ [Next]_vars => KillOK'
    BY KillStep
  <1>3. KillOK => KillSellsEverything
    BY DEF KillOK, KillSellsEverything
  <1> QED
    BY <1>1, <1>2, <1>3, InvAlways, PTL DEF Spec

\* What must be sold is sold, or on sale, at the moment its rule says.
THEOREM ExitsAreHonouredAlways ==
    ASSUME DatedAreFlat, SETTLE > 0, COOLDOWN <= MAX_SELL + 1
    PROVE  Spec => []ExitsAreHonoured
  <1>1. Spec => []KillSellsEverything
    BY KillSellsEverythingAlways
  <1>2. Spec => []TimeExitOnTime
    BY TimeExitAlways
  <1>3. Spec => []StopIsHonoured
    BY StopIsHonouredAlways
  <1>4. KillSellsEverything /\ TimeExitOnTime /\ StopIsHonoured => ExitsAreHonoured
    BY DEF ExitsAreHonoured
  <1> QED
    BY <1>1, <1>2, <1>3, <1>4, PTL

-----------------------------------------------------------------------------
(* The slots *)

GroupsAre(j) ==
    \A a \in Asked : a.inst = j => /\ pos[j].group \in {None, a.group}
                                   /\ j \in Held => pos[j].group = a.group

LEMMA GroupsAreIs == GroupsOK <=> \A j \in Instruments : GroupsAre(j)
  <1>1. \A a \in Asked : a.inst \in Instruments
    BY AskedAre, ItemsAre
  <1> QED
    BY <1>1 DEF GroupsOK, GroupsAre

LEMMA GroupsStep ==
    ASSUME EngineInv, GroupsOK, OneGroupEach, [Next]_vars
    PROVE  GroupsOK'
  <1>1. ASSUME NEW j \in Instruments, pos'[j] = pos[j] PROVE GroupsAre(j)'
    BY <1>1, GroupsAreIs DEF GroupsAre, Held
  <1>2. ASSUME NEW j \in Instruments, Shrunk(pos[j], pos'[j]) PROVE GroupsAre(j)'
    <2>1. pos'[j].group \in {pos[j].group, None} /\ (j \in Held' => j \in Held /\ pos'[j].group = pos[j].group)
      BY <1>2 DEF Shrunk, Held
    <2> QED
      BY <2>1, GroupsAreIs DEF GroupsAre
  <1>3. \A j \in Instruments : GroupsAre(j)'
    <2>1. CASE pos' = pos
      BY <1>1, <2>1
    <2>2. ASSUME NEW j \in Instruments, Shrunk(pos[j], pos'[j]), \A k \in Instruments \ {j} : pos'[k] = pos[k]
          PROVE  \A k \in Instruments : GroupsAre(k)'
      BY <1>1, <1>2, <2>2
    <2>3. CASE BuyFills
      <3>1. PICK o : o = Head(queue)
        OBVIOUS
      <3>2. PICK j : j = o.item.inst
        OBVIOUS
      <3>3. j \in Instruments /\ o.item \in Asked /\ pos' = [pos EXCEPT ![j] = AfterBuy(o)]
        BY <2>3, <3>1, <3>2, BuyFillsIs
      <3>4. AfterBuy(o).group = IF pos[j].group = None THEN o.item.group ELSE pos[j].group
        BY <2>3, <3>1, <3>2, AfterBuyIs
      <3>5. pos'[j] = AfterBuy(o) /\ \A k \in Instruments \ {j} : pos'[k] = pos[k]
        <4>1. pos \in [Instruments -> Position]
          BY DEF EngineInv, TypeOK
        <4> QED
          BY <3>3, <4>1
      <3>6. \A a \in Asked : a.inst = j => a.group = o.item.group
        BY <3>2, <3>3 DEF OneGroupEach
      <3>7. GroupsAre(j)'
        BY <3>3, <3>4, <3>5, <3>6, GroupsAreIs DEF GroupsAre
      <3> QED
        BY <1>1, <3>5, <3>7
    <2> QED
      BY <2>1, <2>2, <2>3, PositionStep
  <1>4. \A a \in Asked : a.inst \in Instruments
    BY AskedAre, ItemsAre
  <1> QED
    BY <1>3, <1>4 DEF GroupsOK, GroupsAre

Taken == {j \in Instruments : j \in Held \/ Awaits(j)}
TakenBy(g) ==
    {j \in Held : pos[j].group = g} \union {o.item.inst : o \in {x \in Waiting : x.item.group = g}}

LEMMA FewerAre ==
    ASSUME NEW S, S \subseteq Instruments, NEW T, T \subseteq S
    PROVE  Cardinality(T) <= Cardinality(S) /\ Cardinality(S) \in Nat /\ Cardinality(T) \in Nat
           /\ IsFiniteSet(S) /\ IsFiniteSet(T)
  <1>1. IsFiniteSet(S)
    BY EngineAssumption, FS_Subset
  <1> QED
    BY <1>1, FS_Subset, FS_CardinalityType

LEMMA OneMoreIs ==
    ASSUME NEW S, S \subseteq Instruments, NEW j \in Instruments, NEW T, T \subseteq S \union {j},
           NEW most \in Nat, Cardinality(S) <= most, j \in S \/ Cardinality(S) < most
    PROVE  Cardinality(T) <= most
  <1>1. IsFiniteSet(S) /\ Cardinality(S) \in Nat
    BY FewerAre
  <1>2. Cardinality(S \union {j}) = IF j \in S THEN Cardinality(S) ELSE Cardinality(S) + 1
    BY <1>1, FS_AddElement
  <1>3. S \union {j} \subseteq Instruments
    OBVIOUS
  <1>4. Cardinality(T) <= Cardinality(S \union {j}) /\ Cardinality(T) \in Nat
    BY <1>3, FewerAre
  <1> QED
    BY <1>1, <1>2, <1>4

LEMMA TakenAre ==
    ASSUME EngineInv
    PROVE  /\ Taken \subseteq Instruments /\ \A g : TakenBy(g) \subseteq Instruments
           /\ \A o \in Waiting : o.item.inst \in Instruments /\ o.item \in Asked
  <1>1. \A o \in Waiting : o.item.inst \in Instruments /\ o.item \in Asked
    <2>1. \A o \in Waiting : GoodBuy(o)
      BY DEF EngineInv, OrdersOK
    <2> QED
      BY <2>1, BuyOrdersAre DEF GoodBuy
  <1>2. Held \subseteq Instruments
    BY DEF Held
  <1> QED
    BY <1>1, <1>2 DEF Taken, TakenBy

LEMMA SlotsAre ==
    SlotsAreBounded <=> /\ Cardinality(Taken) <= MAX_POSITIONS
                        /\ \A g \in Groups : Cardinality(TakenBy(g)) <= GROUP_CAP[g]
  BY DEF SlotsAreBounded, Taken, TakenBy

\* No slot more is taken.
LEMMA SlotsFrame ==
    ASSUME EngineInv, SlotsAreBounded, Taken' \subseteq Taken,
           \A g \in Groups : TakenBy(g)' \subseteq TakenBy(g)
    PROVE  SlotsAreBounded'
  <1>1. MAX_POSITIONS \in Nat /\ \A g \in Groups : GROUP_CAP[g] \in Nat
    BY EngineAssumption
  <1>2. Cardinality(Taken') <= MAX_POSITIONS
    <2>1. PICK S : S = Taken
      OBVIOUS
    <2>2. PICK T : T = Taken'
      OBVIOUS
    <2>3. S \subseteq Instruments /\ T \subseteq S
      BY <2>1, <2>2, TakenAre
    <2>4. Cardinality(T) <= Cardinality(S) /\ Cardinality(S) \in Nat /\ Cardinality(T) \in Nat
      BY <2>3, FewerAre
    <2>5. Cardinality(S) <= MAX_POSITIONS
      BY <2>1, SlotsAre
    <2> QED
      BY <1>1, <2>2, <2>4, <2>5
  <1>3. ASSUME NEW g \in Groups PROVE Cardinality(TakenBy(g)') <= GROUP_CAP[g]
    <2>1. PICK S : S = TakenBy(g)
      OBVIOUS
    <2>2. PICK T : T = TakenBy(g)'
      OBVIOUS
    <2>3. S \subseteq Instruments /\ T \subseteq S
      BY <2>1, <2>2, TakenAre
    <2>4. Cardinality(T) <= Cardinality(S) /\ Cardinality(S) \in Nat /\ Cardinality(T) \in Nat
      BY <2>3, FewerAre
    <2>5. Cardinality(S) <= GROUP_CAP[g]
      BY <2>1, SlotsAre
    <2> QED
      BY <1>1, <2>2, <2>4, <2>5
  <1> QED
    BY <1>2, <1>3 DEF SlotsAreBounded, Taken, TakenBy

LEMMA SlotsShrink ==
    ASSUME EngineInv, SlotsAreBounded, Waiting' \subseteq Waiting,
           \A j \in Instruments : j \in Held' => j \in Held /\ pos'[j].group = pos[j].group
    PROVE  SlotsAreBounded'
  <1>1. \A j \in Held' : j \in Held /\ pos'[j].group = pos[j].group
    BY DEF Held
  <1>2. Taken' \subseteq Taken
    BY <1>1 DEF Taken, Awaits
  <1>3. \A g \in Groups : TakenBy(g)' \subseteq TakenBy(g)
    BY <1>1 DEF TakenBy
  <1> QED
    BY <1>2, <1>3, SlotsFrame

LEMMA SlotsBuyFills ==
    ASSUME EngineInv, SlotsAreBounded, GroupsOK, OneGroupEach, BuyFills
    PROVE  SlotsAreBounded'
  <1>1. PICK o : o = Head(queue)
    OBVIOUS
  <1>2. PICK j : j = o.item.inst
    OBVIOUS
  <1>3. /\ phase = "buys" /\ queue # <<>> /\ o \in Range(queue) /\ j \in Instruments /\ o.item \in Asked
        /\ pos' = [pos EXCEPT ![j] = AfterBuy(o)] /\ queue' = Tail(queue)
        /\ UNCHANGED <<session, phase, sells, buys>>
    BY <1>1, <1>2, BuyFillsIs
  <1>4. AfterBuy(o).group = IF pos[j].group = None THEN o.item.group ELSE pos[j].group
    BY <1>1, <1>2, AfterBuyIs
  <1>5. pos'[j] = AfterBuy(o) /\ \A k \in Instruments \ {j} : pos'[k] = pos[k]
    <2>1. pos \in [Instruments -> Position]
      BY DEF EngineInv, TypeOK
    <2> QED
      BY <1>3, <2>1
  <1>6. Range(queue') \subseteq Range(queue)
    <2>1. PICK s : s = Tail(queue)
      OBVIOUS
    <2>2. queue \in Seq(BuyOrder)
      BY <1>3 DEF EngineInv, PhasesOK
    <2>3. Range(s) \subseteq Range(queue)
      BY <1>3, <2>1, <2>2, TailIs
    <2> QED
      BY <1>3, <2>1, <2>3
  <1>7. o \in Waiting /\ Waiting' \subseteq Waiting
    BY <1>3, <1>6 DEF Waiting
  <1>8. pos'[j].group = o.item.group
    BY <1>2, <1>3, <1>4, <1>5 DEF GroupsOK
  <1>9. \A k \in Held' : k = j \/ (k \in Held /\ pos'[k].group = pos[k].group)
    BY <1>5 DEF Held
  <1>10. Taken' \subseteq Taken
    BY <1>2, <1>3, <1>7, <1>9 DEF Taken, Awaits
  <1>11. \A g \in Groups : TakenBy(g)' \subseteq TakenBy(g)
    BY <1>2, <1>3, <1>7, <1>8, <1>9 DEF TakenBy
  <1> QED
    BY <1>10, <1>11, SlotsFrame

LEMMA SlotsOrder ==
    ASSUME EngineInv, SlotsAreBounded, GroupsOK, NEW it, Order(it)
    PROVE  SlotsAreBounded'
  <1>1. PICK j : j = it.inst
    OBVIOUS
  <1>2. /\ phase = "orders" /\ ~Skipped(it) /\ it \in Asked /\ j \in Instruments
        /\ OrderNone(it) \/ OrderBuy(it) \/ OrderSell(it)
        /\ phase' = "orders" /\ pos' = pos
    BY <1>1, OrderIs
  <1>3. Waiting = Range(buys) /\ Waiting' = Range(buys')
    BY <1>2 DEF Waiting
  <1>4. Held' = Held /\ \A k \in Instruments : pos'[k] = pos[k]
    BY <1>2 DEF Held
  <1>5. CASE OrderNone(it) \/ OrderSell(it)
    <2>1. Waiting' \subseteq Waiting
      BY <1>3, <1>5 DEF OrderNone, OrderSell, OthersWait
    <2> QED
      BY <1>4, <2>1, SlotsShrink
  <1>6. CASE OrderBuy(it)
    <2>1. it.weight > 0 /\ \E w, o : OthersWait(j, w) /\ GoodBuy(o) /\ o.item = it /\ buys' = Append(w, o)
      BY <1>1, <1>6 DEF OrderBuy
    <2>2. PICK w, o : OthersWait(j, w) /\ GoodBuy(o) /\ o.item = it /\ buys' = Append(w, o)
      BY <2>1
    <2>3. PICK t : t = Append(w, o)
      OBVIOUS
    <2>4. Range(t) = Range(w) \union {o} /\ Range(w) \subseteq Range(buys)
      BY <2>2, <2>3, AppendIs DEF OthersWait, GoodBuy
    <2>5. Waiting' \subseteq Waiting \union {o} /\ o.item = it
      BY <1>3, <2>2, <2>3, <2>4
    <2>6. MAX_POSITIONS \in Nat /\ \A g \in Groups : GROUP_CAP[g] \in Nat
      BY EngineAssumption
    <2>7. Taken' \subseteq Taken \union {j}
      BY <1>1, <1>4, <2>5 DEF Taken, Awaits
    <2>8. ASSUME NEW g \in Groups
          PROVE  TakenBy(g)' \subseteq TakenBy(g) \union {j} /\ (it.group # g => TakenBy(g)' \subseteq TakenBy(g))
      BY <1>1, <1>4, <2>5 DEF TakenBy, Held
    <2>9. Occupied = Taken
      <3>1. \A x \in Waiting : x.item.inst \in Instruments
        BY TakenAre
      <3> QED
        BY <1>3, <3>1 DEF Occupied, Taken, Awaits, Held
    <2>10. \A g \in Groups : InGroup(g) = TakenBy(g)
      BY <1>3 DEF InGroup, BuysIn, TakenBy
    <2>11. j \in Taken \/ Cardinality(Taken) < MAX_POSITIONS
      <3>1. CASE j \in Held
        BY <1>2, <3>1 DEF Taken
      <3>2. CASE j \notin Held
        <4>1. j \in Occupied \/ Cardinality(Occupied) < MAX_POSITIONS
          BY <1>1, <1>2, <2>1, <3>2 DEF Skipped
        <4> QED
          BY <2>9, <4>1
      <3> QED
        BY <3>1, <3>2
    <2>12. ASSUME NEW g \in Groups, it.group = g
           PROVE  j \in TakenBy(g) \/ Cardinality(TakenBy(g)) < GROUP_CAP[g]
      <3>1. it.group # None
        BY <2>12, EngineAssumption
      <3>2. CASE j \in Held
        BY <1>1, <1>2, <2>12, <3>2 DEF TakenBy, GroupsOK
      <3>3. CASE j \notin Held
        <4>1. j \in InGroup(g) \/ Cardinality(InGroup(g)) < GROUP_CAP[g]
          BY <1>1, <1>2, <2>1, <2>12, <3>1, <3>3 DEF Skipped
        <4> QED
          BY <2>10, <4>1
      <3> QED
        BY <3>2, <3>3
    <2>13. Cardinality(Taken') <= MAX_POSITIONS
      <3>1. PICK S, T : S = Taken /\ T = Taken'
        OBVIOUS
      <3>2. /\ S \subseteq Instruments /\ T \subseteq S \union {j} /\ Cardinality(S) <= MAX_POSITIONS
            /\ j \in S \/ Cardinality(S) < MAX_POSITIONS
        BY <2>7, <2>11, <3>1, TakenAre, SlotsAre
      <3>3. Cardinality(T) <= MAX_POSITIONS
        BY <1>2, <2>6, <3>2, OneMoreIs
      <3> QED
        BY <3>1, <3>3
    <2>14. ASSUME NEW g \in Groups PROVE Cardinality(TakenBy(g)') <= GROUP_CAP[g]
      <3>1. PICK S, T : S = TakenBy(g) /\ T = TakenBy(g)'
        OBVIOUS
      <3>2. S \subseteq Instruments /\ T \subseteq S \union {j} /\ Cardinality(S) <= GROUP_CAP[g]
            /\ (it.group # g => T \subseteq S)
        BY <2>8, <3>1, TakenAre, SlotsAre
      <3>3. PICK most \in Nat : most = GROUP_CAP[g]
        BY <2>6
      <3>4. CASE it.group = g
        <4>1. j \in S \/ Cardinality(S) < most
          BY <2>12, <3>1, <3>3, <3>4
        <4>2. Cardinality(T) <= most
          BY <1>2, <3>2, <3>3, <4>1, OneMoreIs
        <4> QED
          BY <3>1, <3>3, <4>2
      <3>5. CASE it.group # g
        <4>1. Cardinality(T) <= Cardinality(S) /\ Cardinality(S) \in Nat /\ Cardinality(T) \in Nat
          BY <3>2, <3>5, FewerAre
        <4>2. Cardinality(T) <= most
          BY <3>2, <3>3, <4>1
        <4> QED
          BY <3>1, <3>3, <4>2
      <3> QED
        BY <3>4, <3>5
    <2> QED
      BY <2>13, <2>14 DEF SlotsAreBounded, Taken, TakenBy
  <1> QED
    BY <1>2, <1>5, <1>6

LEMMA WaitingStep ==
    ASSUME EngineInv, [Next]_vars, ~BuyFills
    PROVE  Waiting' \subseteq Waiting \/ \E s \in Signals : \E k \in DOMAIN s.items : Order(s.items[k])
  <1>1. CASE NextSession
    <2>1. phase = "rest" /\ phase' = "sells" /\ buys' = buys
      BY <1>1 DEF NextSession
    <2> QED
      BY <2>1 DEF Waiting
  <1>2. ASSUME NEW o \in sells, SellFills(o) \/ SellWaits(o) PROVE Waiting' \subseteq Waiting
    <2>1. UNCHANGED <<phase, buys, queue>>
      BY <1>2 DEF SellFills, SellWaits
    <2> QED
      BY <2>1 DEF Waiting
  <1>3. CASE SellsEnd
    <2>1. phase = "sells" /\ queue' = buys /\ buys' = <<>> /\ Range(<<>>) = {}
      BY <1>3 DEF SellsEnd, Range
    <2> QED
      BY <2>1 DEF Waiting
  <1>4. CASE BuyFails
    <2>1. PICK o : o = Head(queue)
      OBVIOUS
    <2>2. /\ phase = "buys" /\ phase' = "buys" /\ queue # <<>> /\ queue' = Tail(queue)
          /\ buys' = buys \/ buys' = Append(buys, o)
      BY <1>4, <2>1 DEF BuyFails
    <2>3. queue \in Seq(BuyOrder) /\ buys \in Seq(BuyOrder)
      BY <2>2 DEF EngineInv, PhasesOK, TypeOK
    <2>4. PICK s, t : s = Tail(queue) /\ t = Append(buys, o)
      OBVIOUS
    <2>5. o \in BuyOrder /\ o \in Range(queue) /\ Range(s) \subseteq Range(queue)
      BY <2>1, <2>2, <2>3, <2>4, TailIs
    <2>6. Range(t) = Range(buys) \union {o}
      BY <2>3, <2>4, <2>5, AppendIs
    <2> QED
      BY <2>2, <2>4, <2>5, <2>6 DEF Waiting
  <1>5. CASE BuysEnd \/ ExitsEnd \/ NoSignal \/ Decide \/ Skip
    <2>1. buys' = buys /\ phase' # "buys"
      BY <1>5 DEF BuysEnd, ExitsEnd, NoSignal, Decide, Skip, orders
    <2> QED
      BY <2>1 DEF Waiting
  <1>6. ASSUME NEW j \in Instruments, NoExit(j) \/ Exit(j) PROVE Waiting' \subseteq Waiting
    <2>1. phase' # "buys" /\ buys' = buys
      BY <1>6 DEF NoExit, Exit, orders
    <2> QED
      BY <2>1 DEF Waiting
  <1>7. CASE Close
    <2>1. phase' = "decide" /\ (buys' = buys \/ buys' = <<>>) /\ Range(<<>>) = {}
      BY <1>7, CloseIs DEF Liquidate, Range
    <2> QED
      BY <2>1 DEF Waiting
  <1>8. CASE OrdersEnd
    <2>1. phase' = "rest" /\ buys' = Only(buys, {o \in Range(buys) : o.item.inst \notin unlisted})
      BY <1>8 DEF OrdersEnd
    <2>2. PICK b \in Seq(BuyOrder) : b = buys
      BY TypesAre DEF EngineInv
    <2>3. PICK S : S = {o \in Range(buys) : o.item.inst \notin unlisted}
      OBVIOUS
    <2>4. Range(Only(b, S)) = Range(b) \intersect S
      BY <2>2, OnlyIs
    <2>5. Range(buys') \subseteq Range(buys)
      BY <2>1, <2>2, <2>3, <2>4
    <2> QED
      BY <2>1, <2>5 DEF Waiting
  <1>9. CASE UNCHANGED vars
    BY <1>9 DEF vars, orders, Waiting
  <1> QED
    BY <1>1, <1>2, <1>3, <1>4, <1>5, <1>6, <1>7, <1>8, <1>9 DEF Next

LEMMA SlotsStep ==
    ASSUME EngineInv, SlotsAreBounded, GroupsOK, OneGroupEach, [Next]_vars
    PROVE  SlotsAreBounded'
  <1>1. CASE BuyFills
    BY <1>1, SlotsBuyFills
  <1>2. ASSUME NEW s \in Signals, NEW k \in DOMAIN s.items, Order(s.items[k]) PROVE SlotsAreBounded'
    BY <1>2, SlotsOrder
  <1>3. CASE ~BuyFills /\ Waiting' \subseteq Waiting
    <2>1. \A j \in Instruments : j \in Held' => j \in Held /\ pos'[j].group = pos[j].group
      BY <1>3, PositionStep DEF Shrunk, Held
    <2> QED
      BY <1>3, <2>1, SlotsShrink
  <1> QED
    BY <1>1, <1>2, <1>3, WaitingStep

LEMMA InitHasRoom ==
    ASSUME Init
    PROVE  GroupsOK /\ SlotsAreBounded
  <1>1. /\ phase = "rest" /\ buys = <<>>
        /\ \A j \in Instruments : pos[j].lots = <<>> /\ pos[j].group = None
    BY FlatIsAPosition DEF Init
  <1>2. \A a \in Asked : a.inst \in Instruments
    BY AskedAre, ItemsAre
  <1>3. Waiting = {} /\ Held = {}
    BY <1>1 DEF Waiting, Range, Held
  <1>4. GroupsOK
    BY <1>1, <1>2, <1>3 DEF GroupsOK
  <1>5. Taken = {} /\ \A g \in Groups : TakenBy(g) = {}
    BY <1>3 DEF Taken, TakenBy, Awaits
  <1>6. \A g \in Groups : GROUP_CAP[g] \in Nat
    BY EngineAssumption
  <1>7. \A g \in Groups : 0 <= GROUP_CAP[g]
    BY <1>6
  <1>8. SlotsAreBounded
    BY <1>5, <1>7, Naturals1, SlotsAre, FS_EmptySet
  <1> QED
    BY <1>4, <1>8

\* max_positions and max_positions_by_group bound what is held or awaits a buy at any moment.
THEOREM SlotsAreBoundedAlways == ASSUME OneGroupEach PROVE Spec => []SlotsAreBounded
  <1>1. Init => GroupsOK /\ SlotsAreBounded
    BY InitHasRoom
  <1>2. EngineInv /\ GroupsOK /\ SlotsAreBounded /\ [Next]_vars => GroupsOK' /\ SlotsAreBounded'
    BY GroupsStep, SlotsStep
  <1> QED
    BY <1>1, <1>2, InvAlways, PTL DEF Spec

\* Between any two steps the orders fit the book.
THEOREM OrdersFitTheBookAlways ==
    ASSUME DatedAreFlat, OneGroupEach PROVE Spec => []OrdersFitTheBook
  <1>1. Spec => []OneOrderEach
    BY OneOrderEachAlways, PTL
  <1>2. Spec => []SlotsAreBounded
    BY SlotsAreBoundedAlways
  <1>3. TypeOK /\ OneOrderEach /\ SlotsAreBounded => OrdersFitTheBook
    BY DEF OrdersFitTheBook
  <1> QED
    BY <1>1, <1>2, <1>3, TypeCorrect, PTL

-----------------------------------------------------------------------------
(* The account of the docstring *)

\* What Account calls held: the shares of an instrument by the session that bought them.
Book == [j \in Instruments |-> [d \in 0..End |-> On(pos[j].lots, d)]]
Ages(j) == [d \in 0..End |-> On(pos[j].lots, d)]

\* The loop ends with the last session.
WithinOK == session \in 0..End

LEMMA WithinStep ==
    ASSUME EngineInv, WithinOK, [Next]_vars
    PROVE  WithinOK'
  <1>1. CASE NextSession
    BY <1>1, Naturals1 DEF NextSession, WithinOK
  <1>2. ASSUME NEW o \in sells, SellFills(o) \/ SellWaits(o) PROVE session' = session
    BY <1>2 DEF SellFills, SellWaits
  <1>3. CASE SellsEnd \/ BuyFills \/ BuyFails \/ BuysEnd \/ ExitsEnd \/ NoSignal \/ Decide \/ Skip \/ OrdersEnd
    BY <1>3 DEF SellsEnd, BuyFills, BuyFails, BuysEnd, ExitsEnd, NoSignal, Decide, Skip, OrdersEnd, WithinOK
  <1>4. CASE Close
    BY <1>4, CloseIs DEF WithinOK
  <1>5. ASSUME NEW j \in Instruments, NoExit(j) \/ Exit(j) PROVE session' = session
    BY <1>5 DEF NoExit, Exit
  <1>6. ASSUME NEW s \in Signals, NEW k \in DOMAIN s.items, Order(s.items[k]) PROVE session' = session
    BY <1>6, OrderIs
  <1>7. CASE UNCHANGED vars
    BY <1>7 DEF vars, WithinOK
  <1> QED
    BY <1>1, <1>2, <1>3, <1>4, <1>5, <1>6, <1>7 DEF Next, WithinOK

\* One step of the account, told by the lots of its instrument.
LEMMA BuyMaps ==
    ASSUME NEW j \in Instruments, session \in 0..End, session' = session,
           0 <= cash', cash' < cash,
           On(pos'[j].lots, session) > On(pos[j].lots, session),
           \A d \in 0..End \ {session} : On(pos'[j].lots, d) = On(pos[j].lots, d),
           \A k \in Instruments \ {j} : pos'[k] = pos[k]
    PROVE  A!Buy(j)
  <1>1. PICK was : was = Book
    OBVIOUS
  <1>2. PICK is : is = Book'
    OBVIOUS
  <1>3. /\ was = [k \in Instruments |-> [d \in 0..End |-> On(pos[k].lots, d)]]
        /\ is = [k \in Instruments |-> [d \in 0..End |-> On(pos'[k].lots, d)]]
    BY <1>1, <1>2 DEF Book
  <1>4. is[j][session] > was[j][session]
    BY <1>3
  <1>5. is[j] = [was[j] EXCEPT ![session] = is[j][session]]
    BY <1>3
  <1>6. \A k \in Instruments \ {j} : is[k] = was[k]
    BY <1>3
  <1>7. is = [was EXCEPT ![j] = is[j]]
    BY <1>3, <1>6
  <1>8. is = [was EXCEPT ![j][session] = is[j][session]]
    BY <1>5, <1>7
  <1> QED
    BY <1>1, <1>2, <1>4, <1>8 DEF A!Buy, Shared, Book, On

LEMMA SellMaps ==
    ASSUME NEW j \in Instruments, session \in 0..End, session' = session, cash' > cash,
           OldestFirst(pos[j].lots, pos'[j].lots, session),
           NEW b \in Nat, On(pos'[j].lots, b) < On(pos[j].lots, b),
           \A k \in Instruments \ {j} : pos'[k] = pos[k]
    PROVE  A!Sell(j)
  <1>1. PICK was : was = Book
    OBVIOUS
  <1>2. PICK is : is = Book'
    OBVIOUS
  <1>3. /\ was = [k \in Instruments |-> [d \in 0..End |-> On(pos[k].lots, d)]]
        /\ is = [k \in Instruments |-> [d \in 0..End |-> On(pos'[k].lots, d)]]
    BY <1>1, <1>2 DEF Book
  <1>4. \A d \in 0..End :
          /\ is[j][d] = On(pos'[j].lots, d) /\ was[j][d] = On(pos[j].lots, d)
          /\ is[j][d] \in Nat /\ was[j][d] \in Nat
    <2>1. ASSUME NEW d \in 0..End
          PROVE  is[j][d] = On(pos'[j].lots, d) /\ was[j][d] = On(pos[j].lots, d)
      BY <1>3
    <2>2. ASSUME NEW d \in 0..End
          PROVE  On(pos'[j].lots, d) \in Nat /\ On(pos[j].lots, d) \in Nat
      BY Naturals1 DEF OldestFirst
    <2> QED
      BY <2>1, <2>2
  <1>5. is[j] # was[j]
    <2>1. b + SETTLE <= session
      BY DEF OldestFirst
    <2>2. b \in 0..End
      BY <2>1, Naturals1
    <2>3. is[j][b] < was[j][b]
      BY <1>4, <2>2
    <2> QED
      BY <1>4, <2>2, <2>3
  <1>6. \A k \in Instruments \ {j} : is[k] = was[k]
    BY <1>3
  <1>7. is = [was EXCEPT ![j] = is[j]]
    BY <1>3, <1>6
  <1>8. \A d \in 0..End :
          /\ 0 <= is[j][d] /\ is[j][d] <= was[j][d]
          /\ is[j][d] < was[j][d] =>
                d + SETTLE <= session /\ \A e \in 0..End : e < d => is[j][e] = 0
    BY <1>4, Naturals1 DEF OldestFirst
  <1> QED
    BY <1>1, <1>2, <1>5, <1>7, <1>8 DEF A!Sell, Shared, Book, On

\* Nothing of the account moves where neither a lot nor the cash does.
LEMMA StutterMaps ==
    ASSUME session' = session, cash' = cash,
           \A j \in Instruments : \A d \in 0..End : On(pos'[j].lots, d) = On(pos[j].lots, d)
    PROVE  UNCHANGED A!avars
  <1>1. PICK was : was = Book
    OBVIOUS
  <1>2. PICK is : is = Book'
    OBVIOUS
  <1>3. /\ was = [k \in Instruments |-> [d \in 0..End |-> On(pos[k].lots, d)]]
        /\ is = [k \in Instruments |-> [d \in 0..End |-> On(pos'[k].lots, d)]]
    BY <1>1, <1>2 DEF Book
  <1>4. is = was
    BY <1>3
  <1> QED
    BY <1>1, <1>2, <1>4 DEF A!avars, Shared, Book, On

LEMMA SessionMaps ==
    ASSUME NextSession
    PROVE  A!NextSession
  <1>1. session' = session + 1 /\ cash' = cash /\ pos' = pos
    BY DEF NextSession
  <1>2. Book' = Book
    BY <1>1 DEF Book
  <1> QED
    BY <1>1, <1>2 DEF A!NextSession, Shared, Book, On

LEMMA InitMaps ==
    ASSUME Init
    PROVE  A!Init /\ WithinOK
  <1>1. session = 0 /\ cash = Capital /\ pos = [j \in Instruments |-> Flat]
    BY DEF Init
  <1>2. \A d : On(<<>>, d) = 0
    BY NoLotsAreGood, OnNoLot
  <1>3. \A j \in Instruments : pos[j].lots = <<>>
    BY <1>1 DEF Flat
  <1>4. Book = [j \in Instruments |-> [d \in 0..End |-> 0]]
    BY <1>2, <1>3 DEF Book
  <1> QED
    BY <1>1, <1>4, Naturals1 DEF A!Init, Shared, Book, On, WithinOK

\* exec_buy is a Buy of the account: a lot of this session, where there was none.
LEMMA BuyFillsMaps ==
    ASSUME EngineInv, WithinOK, BuyFills
    PROVE  \E j \in Instruments : A!Buy(j)
  <1>1. PICK o : o = Head(queue)
    OBVIOUS
  <1>2. PICK j : j = o.item.inst
    OBVIOUS
  <1>3. PICK q : q = BuyOf(o)
    OBVIOUS
  <1>4. PICK c : c = Cost(BuyOf(o), BuyPrice(o))
    OBVIOUS
  <1>5. PICK new : new = AfterBuy(o)
    OBVIOUS
  <1>6. /\ j \in Instruments /\ q \in Nat \ {0} /\ c \in Nat /\ c > 0 /\ c <= cash
        /\ GoodLots(pos[j].lots) /\ Earlier(pos[j].lots, session)
        /\ cash' = cash - c /\ pos' = [pos EXCEPT ![j] = new] /\ session' = session
    BY <1>1, <1>2, <1>3, <1>4, <1>5, BuyFillsIs
  <1>7. PICK i : i = session
    OBVIOUS
  <1>8. i \in 0..End /\ i \in Nat /\ cash \in Int /\ pos \in [Instruments -> Position]
    BY <1>7, Naturals1 DEF EngineInv, TypeOK, WithinOK
  <1>9. PICK lots : lots = pos[j].lots
    OBVIOUS
  <1>10. PICK l : l = [qty |-> BuyOf(o), at |-> session]
    OBVIOUS
  <1>11. l \in Lot /\ AfterBuy(o).lots = Append(pos[j].lots, l)
    BY <1>1, <1>2, <1>10, AfterBuyIs
  <1>12. lots \in SomeLots /\ l \in [qty : Nat, at : Nat] /\ GoodLots(lots)
    BY <1>6, <1>9, <1>11, GoodLotsAre DEF Lot
  <1>13. \A k \in 1..Len(lots) : lots[k].at # i
    <2>1. \A k \in 1..Len(lots) : lots[k].at < i /\ lots[k].at \in Nat
      BY <1>6, <1>7, <1>9, <1>12, GoodLotsAre DEF Earlier
    <2> QED
      BY <1>8, <2>1
  <1>14. GoodLots(Append(lots, l))
    BY <1>1, <1>2, <1>9, <1>11, AfterBuyIs
  <1>15. PICK more : more = Append(lots, l)
    OBVIOUS
  <1>16. /\ Len(more) = Len(lots) + 1 /\ Len(lots) \in Nat
         /\ \A n \in 1..Len(lots) : more[n] = lots[n]
         /\ more[Len(lots) + 1] = l
    BY <1>12, <1>15, AppendLots, LotsAre
  <1>17. On(lots, i) = 0
    BY <1>12, <1>13, OnNoLot
  <1>18. On(more, i) = q
    <2>1. Len(lots) + 1 \in 1..Len(more)
      BY <1>16
    <2>2. On(more, more[Len(lots) + 1].at) = more[Len(lots) + 1].qty
      BY <1>14, <1>15, <2>1, OnALot
    <2> QED
      BY <1>3, <1>7, <1>10, <1>16, <2>2
  <1>19. ASSUME NEW d \in 0..End \ {i} PROVE On(more, d) = On(lots, d)
    <2>1. CASE \E k \in 1..Len(lots) : lots[k].at = d
      <3>1. PICK k \in 1..Len(lots) : lots[k].at = d
        BY <2>1
      <3>2. On(lots, d) = lots[k].qty
        BY <1>12, <3>1, OnALot
      <3>3. k \in 1..Len(more) /\ more[k] = lots[k]
        BY <1>16, <3>1
      <3>4. On(more, d) = more[k].qty
        BY <1>14, <1>15, <3>1, <3>3, OnALot
      <3> QED
        BY <3>2, <3>3, <3>4
    <2>2. CASE \A k \in 1..Len(lots) : lots[k].at # d
      <3>1. On(lots, d) = 0
        BY <1>12, <2>2, OnNoLot
      <3>2. \A k \in 1..Len(more) : more[k].at # d
        <4>1. ASSUME NEW k \in 1..Len(more) PROVE k \in 1..Len(lots) \/ k = Len(lots) + 1
          BY <1>16
        <4>2. more[Len(lots) + 1].at = i
          BY <1>7, <1>10, <1>16
        <4> QED
          BY <1>16, <2>2, <4>1, <4>2
      <3>3. On(more, d) = 0
        BY <1>14, <1>15, <3>2, OnNoLot
      <3> QED
        BY <3>1, <3>3
    <2> QED
      BY <2>1, <2>2
  <1>20. pos'[j] = new /\ \A k \in Instruments \ {j} : pos'[k] = pos[k]
    BY <1>6, <1>8
  <1>21. pos'[j].lots = more
    BY <1>5, <1>9, <1>11, <1>15, <1>20
  <1>22. 0 <= cash' /\ cash' < cash
    BY <1>6, <1>8
  <1>23. session \in 0..End /\ session' = session
    BY <1>6, <1>7, <1>8
  <1>24. On(pos'[j].lots, session) > On(pos[j].lots, session)
    BY <1>6, <1>7, <1>9, <1>17, <1>18, <1>21
  <1>25. \A d \in 0..End \ {session} : On(pos'[j].lots, d) = On(pos[j].lots, d)
    BY <1>7, <1>9, <1>19, <1>21
  <1>26. A!Buy(j)
    BY <1>6, <1>20, <1>22, <1>23, <1>24, <1>25, BuyMaps
  <1> QED
    BY <1>6, <1>26

\* exec_sell is a Sell of the account.
LEMMA SellFillsMaps ==
    ASSUME EngineInv, WithinOK, NEW o \in sells, SellFills(o)
    PROVE  \E j \in Instruments : A!Sell(j)
  <1>1. PICK j : j = o.inst
    OBVIOUS
  <1>2. PICK q : q = Least(o.qty, Sellable(pos[j].lots, session))
    OBVIOUS
  <1>3. PICK c : c = Net(q, SellAt(j, bar[j].open))
    OBVIOUS
  <1>4. /\ j \in Instruments /\ pos[j] \in Position /\ GoodLots(pos[j].lots)
        /\ q \in Nat /\ q > 0 /\ q <= Sellable(pos[j].lots, session)
        /\ c \in Nat /\ c > 0 /\ cash' = cash + c
        /\ pos'[j] = Sold(pos[j], q) /\ \A k \in Instruments \ {j} : pos'[k] = pos[k]
        /\ session' = session
    BY <1>1, <1>2, <1>3, SellFillsIs
  <1>5. cash \in Int /\ session \in Nat /\ session \in 0..End
    BY DEF EngineInv, TypeOK, WithinOK
  <1>6. PICK p \in Position, i \in Nat : p = pos[j] /\ i = session
    BY <1>4, <1>5
  <1>7. /\ OldestFirst(p.lots, Sold(p, q).lots, i)
        /\ p.lots # <<>> /\ 1 \in 1..Len(p.lots)
        /\ On(Sold(p, q).lots, p.lots[1].at) < On(p.lots, p.lots[1].at)
    BY <1>4, <1>6, SoldOldestFirst
  <1>8. PICK b : b = p.lots[1].at
    OBVIOUS
  <1>9. b \in Nat
    BY <1>4, <1>6, <1>7, <1>8, GoodLotsAre
  <1>10. OldestFirst(pos[j].lots, pos'[j].lots, session) /\ On(pos'[j].lots, b) < On(pos[j].lots, b)
    BY <1>4, <1>6, <1>7, <1>8
  <1>11. cash' > cash
    BY <1>4, <1>5
  <1>12. A!Sell(j)
    BY <1>4, <1>5, <1>9, <1>10, <1>11, SellMaps
  <1> QED
    BY <1>4, <1>12

LEMMA OldestFirstStays ==
    ASSUME NEW lots, GoodLots(lots), NEW i
    PROVE  OldestFirst(lots, lots, i)
  <1>1. \A d : On(lots, d) \in Nat
    BY OnIsNatural
  <1> QED
    BY <1>1 DEF OldestFirst

LEMMA OldestFirstTwice ==
    ASSUME NEW a, NEW b, NEW c, NEW i, OldestFirst(a, b, i), OldestFirst(b, c, i)
    PROVE  OldestFirst(a, c, i)
  <1>1. \A d \in Nat : /\ On(a, d) \in Nat /\ On(b, d) \in Nat /\ On(c, d) \in Nat
                       /\ On(c, d) <= On(b, d) /\ On(b, d) <= On(a, d)
    BY DEF OldestFirst
  <1>2. ASSUME NEW d \in Nat, On(c, d) < On(a, d)
        PROVE  d + SETTLE <= i /\ \A e \in Nat : e < d => On(c, e) = 0
    <2>1. CASE On(c, d) < On(b, d)
      BY <2>1 DEF OldestFirst
    <2>2. CASE On(b, d) < On(a, d)
      <3>1. d + SETTLE <= i /\ \A e \in Nat : e < d => On(b, e) = 0
        BY <2>2 DEF OldestFirst
      <3> QED
        BY <1>1, <3>1
    <2> QED
      BY <1>1, <1>2, <2>1, <2>2
  <1>3. \A d \in Nat : On(c, d) <= On(a, d)
    BY <1>1
  <1> QED
    BY <1>1, <1>2, <1>3 DEF OldestFirst

\* An exit that sells is a Sell of the account, and one that does not changes no lot.
LEMMA ExitMaps ==
    ASSUME EngineInv, WithinOK, NEW j \in Instruments, Exit(j)
    PROVE  A!Sell(j) \/ UNCHANGED A!avars
  <1>1. PICK p : p = Stepped(pos[j])
    OBVIOUS
  <1>2. PICK at : at = Exits(j, p)
    OBVIOUS
  <1>3. PICK split : split = IF at.first = None THEN p ELSE FirstTaken(p)
    OBVIOUS
  <1>4. PICK i : i = session
    OBVIOUS
  <1>5. PICK q : q = Sellable(split.lots, i)
    OBVIOUS
  <1>6. PICK one : one = IF at.first = None THEN 0 ELSE Net(FirstLots(p), at.first)
    OBVIOUS
  <1>7. PICK all : all = IF at.rest = None THEN 0 ELSE Net(q, at.rest)
    OBVIOUS
  <1>8. PICK u : u = FirstLots(p)
    OBVIOUS
  <1>9. PICK new : new = AfterExit(j, p)
    OBVIOUS
  <1>10. /\ p \in Position /\ GoodLots(p.lots) /\ p.lots = pos[j].lots
         /\ p.lots # <<>> => p.bought > 0
         /\ u \in Nat /\ u <= Sellable(p.lots, i)
         /\ split \in Position /\ GoodLots(split.lots) /\ q \in Nat
         /\ one \in Nat /\ (one > 0 <=> at.first # None /\ u > 0)
         /\ all \in Nat /\ (all > 0 <=> at.rest # None /\ q > 0)
         /\ cash' = cash + one + all
         /\ pos' = [pos EXCEPT ![j] = new] /\ session' = session
    BY <1>1, <1>2, <1>3, <1>4, <1>5, <1>6, <1>7, <1>8, <1>9, ExitIs
  <1>11. cash \in Int /\ i \in Nat /\ i \in 0..End /\ pos \in [Instruments -> Position]
    BY <1>4 DEF EngineInv, TypeOK, WithinOK
  <1>12. pos'[j] = new /\ \A k \in Instruments \ {j} : pos'[k] = pos[k]
    BY <1>10, <1>11
  <1>13. new = IF at.rest = None THEN split ELSE Sold(split, q)
    BY <1>2, <1>3, <1>4, <1>5, <1>9 DEF AfterExit
  <1>14. /\ OldestFirst(p.lots, split.lots, i)
         /\ one = 0 => \A d \in Nat : On(split.lots, d) = On(p.lots, d)
         /\ one > 0 => \E b \in Nat : On(split.lots, b) < On(p.lots, b)
    <2>1. CASE at.first = None
      BY <1>3, <1>10, <2>1, OldestFirstStays
    <2>2. CASE at.first # None
      <3>1. split.lots = Removed(p.lots, u)
        BY <1>3, <1>4, <1>8, <1>10, <1>11, <2>2, FirstTakenIs
      <3>2. /\ OldestFirst(p.lots, split.lots, i)
            /\ u = 0 => \A d \in Nat : On(split.lots, d) = On(p.lots, d)
            /\ u > 0 => /\ p.lots # <<>> /\ 1 \in 1..Len(p.lots)
                        /\ On(split.lots, p.lots[1].at) < On(p.lots, p.lots[1].at)
        BY <1>10, <1>11, <3>1, RemovedOldestFirst
      <3>3. u > 0 => p.lots[1].at \in Nat
        BY <1>10, <3>2, GoodLotsAre
      <3> QED
        BY <1>10, <2>2, <3>2, <3>3
    <2> QED
      BY <2>1, <2>2
  <1>15. /\ OldestFirst(split.lots, new.lots, i)
         /\ all = 0 => \A d \in Nat : On(new.lots, d) = On(split.lots, d)
         /\ all > 0 => \E b \in Nat : On(new.lots, b) < On(split.lots, b)
    <2>1. CASE at.rest = None
      BY <1>10, <1>13, <2>1, OldestFirstStays
    <2>2. CASE at.rest # None
      <3>1. new = Sold(split, q)
        BY <1>13, <2>2
      <3>2. /\ OldestFirst(split.lots, new.lots, i)
            /\ q = 0 => \A d \in Nat : On(new.lots, d) = On(split.lots, d)
            /\ q > 0 => /\ split.lots # <<>> /\ 1 \in 1..Len(split.lots)
                        /\ On(new.lots, split.lots[1].at) < On(split.lots, split.lots[1].at)
        BY <1>5, <1>10, <1>11, <3>1, SoldOldestFirst
      <3>3. q > 0 => split.lots[1].at \in Nat
        BY <1>10, <3>2, GoodLotsAre
      <3> QED
        BY <1>10, <2>2, <3>2, <3>3
    <2> QED
      BY <2>1, <2>2
  <1>16. OldestFirst(p.lots, new.lots, i)
    BY <1>14, <1>15, OldestFirstTwice
  <1>17. CASE one = 0 /\ all = 0
    <2>1. session' = session /\ cash' = cash
      BY <1>10, <1>11, <1>17
    <2>2. \A d \in Nat : On(new.lots, d) = On(p.lots, d)
      BY <1>14, <1>15, <1>17
    <2>3. \A d \in 0..End : d \in Nat
      BY Naturals1
    <2>4. \A k \in Instruments : \A d \in 0..End : On(pos'[k].lots, d) = On(pos[k].lots, d)
      BY <1>10, <1>12, <2>2, <2>3
    <2> QED
      BY <2>1, <2>4, StutterMaps
  <1>18. CASE one > 0 \/ all > 0
    <2>1. PICK b \in Nat : On(new.lots, b) < On(p.lots, b)
      <3>1. \A d \in Nat : /\ On(p.lots, d) \in Nat /\ On(split.lots, d) \in Nat /\ On(new.lots, d) \in Nat
                           /\ On(new.lots, d) <= On(split.lots, d) /\ On(split.lots, d) <= On(p.lots, d)
        BY <1>14, <1>15 DEF OldestFirst
      <3> QED
        BY <1>14, <1>15, <1>18, <3>1
    <2>2. cash' > cash
      BY <1>10, <1>11, <1>18
    <2>3. OldestFirst(pos[j].lots, pos'[j].lots, session) /\ On(pos'[j].lots, b) < On(pos[j].lots, b)
      BY <1>4, <1>10, <1>12, <1>16, <2>1
    <2>4. session \in 0..End /\ session' = session
      BY <1>4, <1>10, <1>11
    <2> QED
      BY <1>12, <2>1, <2>2, <2>3, <2>4, SellMaps
  <1> QED
    BY <1>10, <1>17, <1>18

\* The break-even move touches a level and no lot.
LEMMA NoExitMaps ==
    ASSUME EngineInv, NEW j \in Instruments, NoExit(j)
    PROVE  UNCHANGED A!avars
  <1>1. PICK p : p = Stepped(pos[j])
    OBVIOUS
  <1>2. pos' = [pos EXCEPT ![j] = p] /\ session' = session /\ cash' = cash
    BY <1>1 DEF NoExit
  <1>3. pos \in [Instruments -> Position] /\ pos[j] \in Position
    BY DEF EngineInv, TypeOK
  <1>4. p.lots = pos[j].lots
    BY <1>1, <1>3, SteppedIs
  <1>5. \A k \in Instruments : pos'[k].lots = pos[k].lots
    BY <1>2, <1>3, <1>4
  <1> QED
    BY <1>2, <1>5, StutterMaps

LEMMA StepMaps ==
    ASSUME EngineInv, WithinOK, [Next]_vars
    PROVE  A!Next \/ UNCHANGED A!avars
  <1>0. ASSUME UNCHANGED <<session, cash, pos>> PROVE UNCHANGED A!avars
    BY <1>0, StutterMaps
  <1>1. CASE NextSession
    BY <1>1, SessionMaps DEF A!Next
  <1>2. ASSUME NEW o \in sells, SellFills(o) PROVE A!Next
    BY <1>2, SellFillsMaps DEF A!Next
  <1>3. ASSUME NEW o \in sells, SellWaits(o) PROVE UNCHANGED A!avars
    BY <1>0, <1>3 DEF SellWaits
  <1>4. CASE BuyFills
    BY <1>4, BuyFillsMaps DEF A!Next
  <1>5. CASE SellsEnd \/ BuyFails \/ BuysEnd \/ ExitsEnd \/ NoSignal \/ Decide \/ Skip \/ OrdersEnd
    BY <1>0, <1>5 DEF SellsEnd, BuyFails, BuysEnd, ExitsEnd, NoSignal, Decide, Skip, OrdersEnd
  <1>6. ASSUME NEW j \in Instruments, Exit(j) PROVE A!Next \/ UNCHANGED A!avars
    BY <1>6, ExitMaps DEF A!Next
  <1>7. ASSUME NEW j \in Instruments, NoExit(j) PROVE UNCHANGED A!avars
    BY <1>7, NoExitMaps
  <1>8. CASE Close
    BY <1>0, <1>8, CloseIs
  <1>9. ASSUME NEW s \in Signals, NEW k \in DOMAIN s.items, Order(s.items[k]) PROVE UNCHANGED A!avars
    BY <1>0, <1>9, OrderIs
  <1>10. CASE UNCHANGED vars
    BY <1>0, <1>10 DEF vars
  <1> QED
    BY <1>1, <1>2, <1>3, <1>4, <1>5, <1>6, <1>7, <1>8, <1>9, <1>10 DEF Next

\* The docstring's account: every step of the simulator is a step of Account or moves
\* nothing in it.  Buys are paid in cash that is there; sells give up settled shares only,
\* the oldest first, for more than nothing; and between the sessions nothing moves.
THEOREM ImplementsAccountAlways == Spec => ImplementsAccount
  <1>1. Init => A!Init /\ WithinOK
    BY InitMaps
  <1>2. EngineInv /\ WithinOK /\ [Next]_vars => WithinOK'
    BY WithinStep
  <1>3. EngineInv /\ WithinOK /\ [Next]_vars => A!Next \/ UNCHANGED A!avars
    BY StepMaps
  <1>4. A!Next \/ UNCHANGED A!avars => [A!Next]_(A!avars)
    OBVIOUS
  <1> QED
    BY <1>1, <1>2, <1>3, <1>4, InvAlways, PTL DEF Spec, ImplementsAccount, A!Spec
=============================================================================
