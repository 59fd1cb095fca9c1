------------------------- MODULE PaperRecordProofs -------------------------
(***************************************************************************)
(* What holds of the paper record for any instruments, universe files,     *)
(* rankings, calendar of months, number of tranches, spacing, horizon, and *)
(* any number of failures, kills and edits of the universe.                *)
(*                                                                         *)
(* The record of a session is the replay of decisions made before it.  The *)
(* calendar only grows at its end, so a decision is never made before one  *)
(* that was already replayed: what the replay says of a session, it says   *)
(* ever after.  The rest follows the run from step to step: what a table   *)
(* holds, once its step is over in a run nothing failed in.                *)
(***************************************************************************)
EXTENDS PaperRecord, FiniteSetTheorems, WellFoundedInduction, TLAPS

-----------------------------------------------------------------------------
(* The invariant.                                                          *)

\* Bars are stored from the first session on, and the calendar follows them.
CalendarIsWhole ==
    /\ \A s \in Trading, t \in Sessions : t < s => stored[t] = "full"
    /\ calendar \subseteq Trading
    /\ \A s \in calendar, t \in Sessions : t < s => t \in calendar

\* The run works on the last session of the calendar.
Working == run.pc \in {"features", "flags", "cards", "store", "orders", "positions", "snapshots",
                       "recommendations", "finish"}
LastOf(s, d) == s \in Cal(d) /\ \A t \in Cal(d) : t <= s

RunIsLatest ==
    /\ run.pc # "idle" => run.asof = ran
    /\ Working => LastOf(run.session, ran)
    /\ run.drafts # {} => At("store")
    /\ \A c \in run.drafts : c.at = run.session /\ c.name \in members[c.at]

\* Decisions are made of sessions of the calendar, in their order.
DecisionsAreDated ==
    /\ \A k \in DOMAIN targets : targets[k].at \in Cal(ran)
    /\ \A j, k \in DOMAIN targets : j < k => targets[j].at <= targets[k].at
    /\ \A c \in cards : c.at \in Cal(ran)

\* What a row of the target book is.
RowIsSound(k) ==
    LET row == targets[k] IN
    /\ row.kind = "exit" => policy = "close_now"
    /\ row.kind # "exit" => /\ [kind |-> row.kind, n |-> row.n] \in Due(row.at)
                            /\ row.final \in Book /\ row.from \in Book
    /\ row.kind = "tranche" /\ row.n = TRANCHES => \A x \in row.roll : row.current[x] = row.final[x]
    /\ policy = "next_rebalance" =>
          \A x \in Names \ row.roll : row.current[x] <= IF k = 1 THEN 0 ELSE targets[k - 1].current[x]
TargetsAreSound ==
    /\ \A k \in DOMAIN targets : RowIsSound(k)
    /\ policy = "next_rebalance" => \A j, k \in DOMAIN targets : j < k => targets[j].at < targets[k].at

\* A snapshot is the replay of its session.
SnapsAreTrue == \A e \in Sessions : snaps[e] # None => e \in Cal(ran) /\ snaps[e] = BookAt(e)

\* A card that was not filled, or whose position is over, stays so.
NotFilled(c) ==
    c.at + 1 \in Cal(ran) /\ HeldAt(c.sleeve, c.name, c.at + 1) <= HeldAt(c.sleeve, c.name, c.at)
Over(c) ==
    /\ c.at + 1 \in Cal(ran) /\ HeldAt(c.sleeve, c.name, c.at) = 0
    /\ HeldAt(c.sleeve, c.name, c.at + 1) > 0
    /\ \E q \in Cal(ran) : q > c.at + 1 /\ HeldAt(c.sleeve, c.name, q) = 0
SettledIsSettled ==
    \A c \in cards : (status[c] = "skipped" => NotFilled(c)) /\ (status[c] = "closed" => Over(c))

\* What the tables hold when their step is over.
FlagsAre(s) == \A c \in Open : c \in flagged <=> c.name \notin members[s]
SnapsAre(s) == \A e \in Sessions : snaps[e] = IF e \in Cal(s) THEN BookAt(e) ELSE None
StatusIs(s) == \A c \in cards : c.at <= s /\ status[c] = StatusUpTo(c, s)

After(steps) == run.ok /\ run.pc \in steps
Progress ==
    /\ After({"cards", "store", "orders", "positions", "snapshots", "recommendations", "finish"})
          => FlagsAre(run.session)
    /\ After({"positions", "snapshots", "recommendations", "finish"}) => orders = OrdersUpTo(run.session)
    /\ After({"snapshots", "recommendations", "finish"}) => positions = PositionsUpTo(run.session)
    /\ After({"recommendations", "finish"}) => SnapsAre(run.session)
    /\ After({"finish"}) => StatusIs(run.session)
    /\ At("idle") /\ done # None /\ done.ok =>
          /\ LastOf(done.session, ran)
          /\ FlagsAre(done.session) /\ orders = OrdersUpTo(done.session)
          /\ positions = PositionsUpTo(done.session)
          /\ SnapsAre(done.session) /\ StatusIs(done.session)

RecordInv ==
    /\ TypeOK /\ CalendarIsWhole /\ RunIsLatest /\ DecisionsAreDated /\ TargetsAreSound
    /\ SnapsAreTrue /\ SettledIsSettled /\ Progress

-----------------------------------------------------------------------------
(* Natural numbers.                                                        *)

\* The order of the natural numbers is well-founded.
LessThan == {ss \in Nat \X Nat : ss[1] < ss[2]}

LEMMA LeastOfNaturals ==
    ASSUME NEW S, S \subseteq Nat, S # {}
    PROVE  \E n \in S : \A m \in S : n <= m
  <1>1. OpToRel(<, Nat) = LessThan
    BY Zenon DEF OpToRel, LessThan
  <1>2. IsWellFoundedOn(LessThan, Nat)
    BY <1>1, NatLessThanWellFounded
  <1>3. PICK n \in S : \A m \in S : <<m, n>> \notin LessThan
    BY <1>2, WFMin, Zenon
  <1>4. ASSUME NEW m \in S PROVE n <= m
    <2>1. m \in Nat /\ n \in Nat
      OBVIOUS
    <2>2. m < n => <<m, n>> \in LessThan
      BY <2>1 DEF LessThan
    <2> QED
      BY <1>3, <2>1, <2>2
  <1> QED
    BY <1>4

LEMMA Least ==
    ASSUME NEW S, S \subseteq Nat, S # {}
    PROVE  Min(S) \in S /\ \A m \in S : Min(S) <= m
  <1>1. \E n \in S : \A m \in S : n <= m
    BY LeastOfNaturals
  <1> QED
    BY <1>1, Zenon DEF Min

LEMMA LeastIs ==
    ASSUME NEW S, S \subseteq Nat, NEW n \in S, \A m \in S : n <= m
    PROVE  Min(S) = n
  <1>1. Min(S) \in S /\ \A m \in S : Min(S) <= m
    BY Least
  <1>2. Min(S) <= n /\ n <= Min(S) /\ Min(S) \in Nat /\ n \in Nat
    BY <1>1
  <1> QED
    BY <1>2

\* A bounded set of natural numbers has a greatest one.
LEMMA Greatest ==
    ASSUME NEW T, T \subseteq Nat, T # {}, NEW bound \in Nat, \A d \in T : d <= bound
    PROVE  Max(T) \in T /\ \A d \in T : d <= Max(T)
  <1> DEFINE Bounds == {n \in Nat : \A d \in T : d <= n}
  <1>1. bound \in Bounds
    OBVIOUS
  <1>2. PICK n \in Bounds : \A m \in Bounds : n <= m
    BY <1>1, LeastOfNaturals
  <1>3. n \in T
    <2> SUFFICES ASSUME n \notin T PROVE FALSE
      OBVIOUS
    <2>1. \A d \in T : d <= n - 1 /\ n - 1 \in Nat
      OBVIOUS
    <2>2. n - 1 \in Bounds
      BY <2>1
    <2> QED
      BY <1>2, <2>2
  <1>4. \E x \in T : \A y \in T : x >= y
    BY <1>2, <1>3
  <1>5. Max(T) \in T /\ \A y \in T : Max(T) >= y
    BY <1>4, Zenon DEF Max
  <1> QED
    BY <1>5

\* Division.
LEMMA TimesGrows ==
    ASSUME NEW a \in Int, NEW b \in Int, a <= b, NEW c \in Nat
    PROVE  a * c <= b * c
  OBVIOUS

LEMMA Quotient ==
    ASSUME NEW a \in Int, NEW t \in Nat \ {0}
    PROVE  /\ a \div t \in Int
           /\ (a \div t) * t <= a /\ a < (a \div t) * t + t
  OBVIOUS

LEMMA QuotientBetween ==
    ASSUME NEW low \in Int, NEW high \in Int, NEW a \in Int, NEW t \in Nat \ {0},
           low * t <= a, a <= high * t
    PROVE  a \div t \in Int /\ low <= a \div t /\ a \div t <= high
  <1> DEFINE q == a \div t
  <1>1. q \in Int /\ q * t <= a /\ a < q * t + t
    BY Quotient
  <1> HIDE DEF q
  <1>2. low <= q
    <2> SUFFICES ASSUME q + 1 <= low PROVE FALSE
      BY <1>1
    <2>1. (q + 1) * t <= low * t
      BY <1>1, TimesGrows
    <2>2. (q + 1) * t = q * t + t
      BY <1>1
    <2>3. q * t \in Int /\ low * t \in Int /\ (q + 1) * t \in Int
      BY <1>1
    <2> QED
      BY <1>1, <2>1, <2>2, <2>3
  <1>3. q <= high
    <2> SUFFICES ASSUME high + 1 <= q PROVE FALSE
      BY <1>1
    <2>1. (high + 1) * t <= q * t
      BY <1>1, TimesGrows
    <2>2. (high + 1) * t = high * t + t
      OBVIOUS
    <2>3. q * t \in Int /\ high * t \in Int /\ (high + 1) * t \in Int
      BY <1>1
    <2> QED
      BY <1>1, <2>1, <2>2, <2>3
  <1> QED
    BY <1>1, <1>2, <1>3 DEF q

\* n of t equal steps from a to b stay between the two and the last one ends at b.
LEMMA StepsBetween ==
    ASSUME NEW u \in Nat, NEW a \in 0..u, NEW b \in 0..u, NEW t \in Nat \ {0}, NEW n \in 1..t
    PROVE  /\ a + ((b - a) * n) \div t \in 0..u
           /\ b <= a => a + ((b - a) * n) \div t <= a
           /\ a + ((b - a) * t) \div t = b
  <1> DEFINE d == b - a
  <1>1. d \in Int /\ n \in Nat /\ t \in Nat /\ d * n \in Int /\ n <= t
    OBVIOUS
  <1>3. a + ((b - a) * t) \div t = b
    <2>1. d * t <= d * t /\ d * t \in Int
      BY <1>1
    <2>2. (d * t) \div t \in Int /\ d <= (d * t) \div t /\ (d * t) \div t <= d
      BY <1>1, <2>1, QuotientBetween
    <2> QED
      BY <2>2
  <1>2. CASE d >= 0
    <2>1. 0 * t <= d * n
      <3>1. 0 * n <= d * n
        BY <1>1, <1>2, TimesGrows
      <3> QED
        BY <1>1, <3>1
    <2>2. d * n <= d * t
      <3>1. n * d <= t * d
        BY <1>1, <1>2, TimesGrows
      <3>2. n * d = d * n /\ t * d = d * t
        BY <1>1
      <3> QED
        BY <3>1, <3>2
    <2>3. 0 <= (d * n) \div t /\ (d * n) \div t <= d /\ (d * n) \div t \in Int
      BY <1>1, <2>1, <2>2, QuotientBetween
    <2> QED
      BY <1>2, <1>3, <2>3
  <1>4. CASE d < 0
    <2>1. d * n <= 0 * t
      <3>1. d * n <= 0 * n
        BY <1>1, <1>4, TimesGrows
      <3> QED
        BY <1>1, <3>1
    <2>2. d * t <= d * n
      <3>1. n * (0 - d) <= t * (0 - d)
        BY <1>1, <1>4, TimesGrows
      <3>2. n * (0 - d) = 0 - d * n /\ t * (0 - d) = 0 - d * t /\ d * t \in Int
        BY <1>1
      <3> QED
        BY <1>1, <3>1, <3>2
    <2>3. d <= (d * n) \div t /\ (d * n) \div t <= 0 /\ (d * n) \div t \in Int
      BY <1>1, <2>1, <2>2, QuotientBetween
    <2> QED
      BY <1>3, <1>4, <2>3
  <1> QED
    BY <1>1, <1>2, <1>4

USE RecordAssumption

LEMMA Facts ==
    /\ Last \in Nat \ {0} /\ Sessions \subseteq Nat \ {0} /\ Sessions = 1..Last
    /\ TRANCHES \in Nat \ {0} /\ SPACING \in Nat /\ UNIT \in Nat \ {0} /\ HOLD \in Nat \ {0}
    /\ None \notin Sessions
  BY DEF Sessions

-----------------------------------------------------------------------------
(* The SWING cards that were taken.                                        *)

Asks(x, s) == [sleeve |-> "swing", name |-> x, at |-> s] \in cards

\* What Taken is: the cards that came when the earlier ones were over.
TakenAre(x) ==
    /\ Taken(x) \subseteq Sessions
    /\ \A s \in Sessions :
           s \in Taken(x) <=> Asks(x, s) /\ \A t \in Taken(x) : t < s => Between(t, s) > HOLD

TakenUpTo(x, n, f) ==
    /\ f \in [0..n -> SUBSET Sessions] /\ f[0] = {}
    /\ \A s \in 1..n : f[s] = IF Asks(x, s) /\ \A t \in f[s - 1] : Between(t, s) > HOLD
                              THEN f[s - 1] \union {s} ELSE f[s - 1]

\* The recursion has a solution, one session after the other.
LEMMA TakenExists ==
    ASSUME NEW x
    PROVE  \E f : TakenUpTo(x, Last, f)
  <1> DEFINE Missing == {n \in 0..Last : ~ \E f : TakenUpTo(x, n, f)}
  <1> SUFFICES ASSUME Last \in Missing PROVE FALSE
    BY Facts
  <1>1. PICK n \in Missing : \A m \in Missing : n <= m
    <2>1. Missing \subseteq 0..Last /\ Missing # {}
      OBVIOUS
    <2> HIDE DEF Missing
    <2>2. Missing \subseteq Nat
      BY <2>1, Facts
    <2> QED
      BY <2>1, <2>2, LeastOfNaturals
  <1>2. n \in 0..Last /\ ~ \E f : TakenUpTo(x, n, f)
    OBVIOUS
  <1>3. CASE n = 0
    <2>1. TakenUpTo(x, 0, [k \in 0..0 |-> {}])
      BY DEF TakenUpTo
    <2> QED
      BY <1>2, <1>3, <2>1
  <1>4. CASE n # 0
    <2>1. n - 1 \in 0..Last /\ n - 1 \notin Missing /\ n \in 1..Last
      BY <1>1, <1>2, <1>4, Facts
    <2>2. PICK f : TakenUpTo(x, n - 1, f)
      BY <2>1
    <2> DEFINE next == IF Asks(x, n) /\ \A t \in f[n - 1] : Between(t, n) > HOLD
                       THEN f[n - 1] \union {n} ELSE f[n - 1]
               g == [k \in 0..n |-> IF k = n THEN next ELSE f[k]]
    <2>3. next \subseteq Sessions
      BY <2>1, <2>2, Facts DEF TakenUpTo
    <2>4. g \in [0..n -> SUBSET Sessions] /\ g[0] = {}
      BY <2>1, <2>2, <2>3 DEF TakenUpTo
    <2>5. \A s \in 1..n : g[s] = IF Asks(x, s) /\ \A t \in g[s - 1] : Between(t, s) > HOLD
                                 THEN g[s - 1] \union {s} ELSE g[s - 1]
      <3> SUFFICES ASSUME NEW s \in 1..n
                   PROVE  g[s] = IF Asks(x, s) /\ \A t \in g[s - 1] : Between(t, s) > HOLD
                                 THEN g[s - 1] \union {s} ELSE g[s - 1]
        OBVIOUS
      <3>1. g[s - 1] = f[s - 1]
        BY <2>1
      <3>2. CASE s = n
        <4>1. g[s] = next
          BY <3>2
        <4> QED
          BY <3>1, <3>2, <4>1
      <3>3. CASE s # n
        <4>1. g[s] = f[s] /\ s \in 1..(n - 1)
          BY <2>1, <3>3
        <4> HIDE DEF g
        <4> QED
          BY <2>2, <3>1, <4>1 DEF TakenUpTo
      <3> QED
        BY <3>2, <3>3
    <2> HIDE DEF g
    <2>6. TakenUpTo(x, n, g)
      BY <2>4, <2>5 DEF TakenUpTo
    <2> QED
      BY <1>2, <2>6
  <1> QED
    BY <1>3, <1>4

LEMMA TakenIsASolution ==
    ASSUME NEW x
    PROVE  \E f : TakenUpTo(x, Last, f) /\ Taken(x) = f[Last]
  <1>1. PICK g : TakenUpTo(x, Last, g)
    BY TakenExists
  <1>2. g = [s \in 0..Last |-> IF s = 0 THEN {}
                        ELSE IF [sleeve |-> "swing", name |-> x, at |-> s] \in cards
                                /\ \A t \in g[s - 1] : Between(t, s) > HOLD
                        THEN g[s - 1] \union {s} ELSE g[s - 1]]
    <2>1. g \in [0..Last -> SUBSET Sessions] /\ g[0] = {}
      BY <1>1 DEF TakenUpTo
    <2>2. \A s \in 1..Last : g[s] = IF Asks(x, s) /\ \A t \in g[s - 1] : Between(t, s) > HOLD
                                    THEN g[s - 1] \union {s} ELSE g[s - 1]
      BY <1>1 DEF TakenUpTo
    <2>3. \A s \in 0..Last : g[s] = IF s = 0 THEN {}
                        ELSE IF Asks(x, s) /\ \A t \in g[s - 1] : Between(t, s) > HOLD
                        THEN g[s - 1] \union {s} ELSE g[s - 1]
      <3> SUFFICES ASSUME NEW s \in 0..Last, s # 0
                   PROVE  g[s] = IF Asks(x, s) /\ \A t \in g[s - 1] : Between(t, s) > HOLD
                                 THEN g[s - 1] \union {s} ELSE g[s - 1]
        BY <2>1
      <3>1. s \in 1..Last
        BY Facts
      <3> QED
        BY <2>2, <3>1
    <2> QED
      BY <2>1, <2>3 DEF Asks
  <1>3. \E f : f = [s \in 0..Last |-> IF s = 0 THEN {}
                        ELSE IF [sleeve |-> "swing", name |-> x, at |-> s] \in cards
                                /\ \A t \in f[s - 1] : Between(t, s) > HOLD
                        THEN f[s - 1] \union {s} ELSE f[s - 1]]
    BY <1>2
  <1>4. \E f : /\ f = [s \in 0..Last |-> IF s = 0 THEN {}
                        ELSE IF [sleeve |-> "swing", name |-> x, at |-> s] \in cards
                                /\ \A t \in f[s - 1] : Between(t, s) > HOLD
                        THEN f[s - 1] \union {s} ELSE f[s - 1]]
               /\ Taken(x) = f[Last]
    BY <1>3, Zenon DEF Taken
  <1>5. PICK f : /\ f = [s \in 0..Last |-> IF s = 0 THEN {}
                        ELSE IF [sleeve |-> "swing", name |-> x, at |-> s] \in cards
                                /\ \A t \in f[s - 1] : Between(t, s) > HOLD
                        THEN f[s - 1] \union {s} ELSE f[s - 1]]
               /\ Taken(x) = f[Last]
    BY <1>4
  <1>6. /\ DOMAIN f = 0..Last /\ f[0] = {}
        /\ \A s \in 1..Last : f[s] = IF Asks(x, s) /\ \A t \in f[s - 1] : Between(t, s) > HOLD
                                     THEN f[s - 1] \union {s} ELSE f[s - 1]
    <2>1. DOMAIN f = 0..Last /\ 0 \in 0..Last
      BY <1>5, Facts
    <2>2. f[0] = {}
      BY <1>5, <2>1
    <2>3. \A s \in 1..Last : s \in 0..Last /\ s # 0
      OBVIOUS
    <2> QED
      BY <1>5, <2>1, <2>2, <2>3 DEF Asks
  <1> DEFINE Odd == {s \in 0..Last : ~ f[s] \subseteq Sessions}
  <1>7. Odd = {}
    <2> SUFFICES ASSUME Odd # {} PROVE FALSE
      OBVIOUS
    <2>1. PICK n \in Odd : \A m \in Odd : n <= m
      <3>1. Odd \subseteq Nat
        BY Facts
      <3> HIDE DEF Odd
      <3> QED
        BY <3>1, LeastOfNaturals
    <2>2. n \in 1..Last
      BY <1>6, Facts
    <2>3. n - 1 \in 0..Last /\ n - 1 \notin Odd /\ n \in Sessions
      BY <2>1, <2>2, Facts
    <2>4. f[n - 1] \subseteq Sessions
      BY <2>3
    <2>5. f[n] \subseteq f[n - 1] \union {n}
      BY <1>6, <2>2
    <2> QED
      BY <2>3, <2>4, <2>5
  <1>8. f = [s \in 0..Last |-> f[s]]
    BY <1>5
  <1>9. f \in [0..Last -> SUBSET Sessions]
    BY <1>7, <1>8
  <1> QED
    BY <1>5, <1>6, <1>9 DEF TakenUpTo

LEMMA TakenIs == \A x : TakenAre(x)
  <1> SUFFICES ASSUME NEW x PROVE TakenAre(x)
    OBVIOUS
  <1>1. PICK f : TakenUpTo(x, Last, f) /\ Taken(x) = f[Last]
    BY TakenIsASolution
  <1>2. f \in [0..Last -> SUBSET Sessions] /\ f[0] = {}
    BY <1>1 DEF TakenUpTo
  <1>3. \A s \in 1..Last : f[s] = IF Asks(x, s) /\ \A t \in f[s - 1] : Between(t, s) > HOLD
                                  THEN f[s - 1] \union {s} ELSE f[s - 1]
    BY <1>1 DEF TakenUpTo
  \* f[n] is what of the whole is not later than n.
  <1> DEFINE Good(n) == \A m \in 0..n : f[m] = {s \in f[n] : s <= m}
             Odd == {n \in 0..Last : ~ Good(n)}
  <1>4. Odd = {}
    <2> SUFFICES ASSUME Odd # {} PROVE FALSE
      OBVIOUS
    <2>1. PICK n \in Odd : \A m \in Odd : n <= m
      <3>1. Odd \subseteq Nat
        BY Facts
      <3> HIDE DEF Odd
      <3> QED
        BY <3>1, LeastOfNaturals
    <2>2. n \in 0..Last /\ ~ Good(n)
      OBVIOUS
    <2>3. CASE n = 0
      <3>1. Good(0)
        BY <1>2
      <3> QED
        BY <2>2, <2>3, <3>1
    <2>4. CASE n # 0
      <3>1. n \in 1..Last /\ n - 1 \in 0..Last /\ n - 1 \notin Odd
        BY <2>1, <2>2, <2>4, Facts
      <3>2. Good(n - 1)
        BY <3>1
      <3>3. f[n - 1] = {s \in f[n - 1] : s <= n - 1}
        BY <3>1, <3>2
      <3>4. /\ f[n - 1] \subseteq f[n] /\ f[n] \subseteq f[n - 1] \union {n}
            /\ f[n] \subseteq Nat
        <4>1. f[n] \subseteq Nat
          BY <1>2, <3>1, Facts
        <4> QED
          BY <1>3, <3>1, <4>1
      <3>5. ASSUME NEW m \in 0..n PROVE f[m] = {s \in f[n] : s <= m}
        <4>1. CASE m = n
          <5>1. \A s \in f[n] : s <= n
            BY <3>1, <3>3, <3>4
          <5> QED
            BY <4>1, <5>1
        <4>2. CASE m # n
          <5>1. m \in 0..(n - 1)
            BY <3>1, <4>2
          <5>2. f[m] = {s \in f[n - 1] : s <= m}
            BY <3>2, <5>1
          <5>3. \A s \in f[n] : s <= m => s \in f[n - 1]
            BY <3>1, <3>4, <5>1
          <5> QED
            BY <3>4, <5>2, <5>3
        <4> QED
          BY <4>1, <4>2
      <3> QED
        BY <2>2, <3>5
    <2> QED
      BY <2>3, <2>4
  <1>5. \A m \in 0..Last : f[m] = {s \in Taken(x) : s <= m}
    <2>1. Last \notin Odd /\ Last \in 0..Last
      BY <1>4, Facts
    <2>2. Good(Last)
      BY <2>1
    <2> QED
      BY <1>1, <2>2
  <1>6. Taken(x) \subseteq Sessions
    BY <1>1, <1>2, Facts
  <1>7. ASSUME NEW s \in Sessions
        PROVE  s \in Taken(x) <=> Asks(x, s) /\ \A t \in Taken(x) : t < s => Between(t, s) > HOLD
    <2>1. s \in 1..Last /\ s - 1 \in 0..Last /\ s \in 0..Last
      BY Facts
    <2>2. f[s - 1] = {t \in Taken(x) : t < s}
      <3>1. \A t \in Taken(x) : t <= s - 1 <=> t < s
        BY <1>6, <2>1, Facts
      <3>2. f[s - 1] = {t \in Taken(x) : t <= s - 1}
        BY <1>5, <2>1
      <3> QED
        BY <3>1, <3>2
    <2>3. s \in Taken(x) <=> s \in f[s]
      BY <1>5, <2>1
    <2>4. s \notin f[s - 1]
      BY <2>1, <2>2
    <2>5. s \in f[s] <=> Asks(x, s) /\ \A t \in f[s - 1] : Between(t, s) > HOLD
      <3> HIDE DEF Good, Odd
      <3> QED
        BY <1>3, <2>1, <2>4
    <2> QED
      BY <2>2, <2>3, <2>5
  <1> QED
    BY <1>6, <1>7 DEF TakenAre

LEMMA TakenIsNext == (\A x : TakenAre(x))'
  BY TakenIs, PTL

\* Two such sets that agree on what they ask before a session agree up to it.
Grown(S, P, R) ==
    /\ S \subseteq Sessions
    /\ \A s \in Sessions : s \in S <=> s \in P /\ \A t \in S : t < s => <<t, s>> \in R
AlikeBefore(b, P, Q, R, W) ==
    /\ \A s \in Sessions : s < b => (s \in P <=> s \in Q)
    /\ \A s, t \in Sessions : s < b /\ s \in P /\ t < s => (<<t, s>> \in R <=> <<t, s>> \in W)

LEMMA TakenAgree ==
    ASSUME NEW S, NEW T, NEW P, NEW Q, NEW R, NEW W, NEW b \in Nat,
           Grown(S, P, R), Grown(T, Q, W), AlikeBefore(b, P, Q, R, W)
    PROVE  \A s \in Sessions : s < b => (s \in S <=> s \in T)
  <1> USE DEF Grown, AlikeBefore
  <1> DEFINE Odd == {s \in Sessions : s < b /\ ~ (s \in S <=> s \in T)}
  <1> SUFFICES ASSUME Odd # {} PROVE FALSE
    OBVIOUS
  <1>1. PICK n \in Odd : \A m \in Odd : n <= m
    <2>1. Odd \subseteq Nat
      BY Facts
    <2> HIDE DEF Odd
    <2> QED
      BY <2>1, LeastOfNaturals
  <1>2. n \in Sessions /\ n < b /\ ~ (n \in S <=> n \in T)
    OBVIOUS
  <1>3. \A t \in Sessions : t < n => (t \in S <=> t \in T)
    <2> SUFFICES ASSUME NEW t \in Sessions, t < n PROVE t \in S <=> t \in T
      OBVIOUS
    <2>1. t \in Nat /\ n \in Nat /\ t < b /\ ~ (n <= t)
      BY <1>2, Facts
    <2>2. t \notin Odd
      BY <1>1, <2>1
    <2> QED
      BY <2>1, <2>2
  <1> QED
    BY <1>2, <1>3
-----------------------------------------------------------------------------
(* What the replay says of a session stands.                               *)

LEMMA CurrentOnStands ==
    ASSUME targets \in Seq(Target), NEW D,
           \/ targets' = targets
           \/ \E row : targets' = Append(targets, row) /\ row.at \notin D
    PROVE  CurrentOn(D)' = CurrentOn(D)
  <1>1. CASE targets' = targets
    BY <1>1 DEF CurrentOn, LatestOn, Earlier
  <1>2. CASE \E row : targets' = Append(targets, row) /\ row.at \notin D
    <2>1. PICK row : targets' = Append(targets, row) /\ row.at \notin D
      BY <1>2
    <2>2. /\ DOMAIN targets = 1..Len(targets) /\ DOMAIN targets' = 1..(Len(targets) + 1)
          /\ Len(targets) \in Nat
          /\ \A k \in DOMAIN targets : k \in DOMAIN targets' /\ targets'[k] = targets[k]
          /\ targets'[Len(targets) + 1] = row
      BY <2>1
    <2>3. {k \in DOMAIN targets' : targets'[k].at \in D} = {k \in DOMAIN targets : targets[k].at \in D}
      <3>1. \A k \in DOMAIN targets' : targets'[k].at \in D => k \in DOMAIN targets
        <4> SUFFICES ASSUME NEW k \in DOMAIN targets', targets'[k].at \in D
                     PROVE  k \in DOMAIN targets
          OBVIOUS
        <4>1. k # Len(targets) + 1
          BY <2>1, <2>2
        <4> QED
          BY <2>2, <4>1
      <3> QED
        BY <2>2, <3>1
    <2>4. \A k, m \in DOMAIN targets : Earlier(k, m)' = Earlier(k, m)
      BY <2>2 DEF Earlier
    <2>5. LatestOn(D)' = LatestOn(D)
      BY <2>3, <2>4 DEF LatestOn
    <2>6. LatestOn(D) \subseteq DOMAIN targets
      BY DEF LatestOn
    <2>7. PICK L : L = LatestOn(D)
      OBVIOUS
    <2>8. CASE L = {}
      BY <2>5, <2>7, <2>8 DEF CurrentOn, NoBook
    <2>9. CASE L # {}
      <3>1. PICK k : k = CHOOSE j \in L : TRUE
        OBVIOUS
      <3>2. k \in DOMAIN targets
        BY <2>6, <2>7, <2>9, <3>1
      <3>3. CurrentOn(D) = targets[k].current /\ CurrentOn(D)' = targets'[k].current
        BY <2>5, <2>7, <2>9, <3>1 DEF CurrentOn
      <3> QED
        BY <2>2, <3>2, <3>3
    <2> QED
      BY <2>8, <2>9
  <1> QED
    BY <1>1, <1>2

\* The book the replay holds on a session.
LEMMA InvestIs == \A x, e, D : D = {s \in calendar : s < e} => InvestAt(x, e) = CurrentOn(D)[x]
  BY DEF InvestAt, Traded
LEMMA InvestIsNext == (\A x, e, D : D = {s \in calendar : s < e} => InvestAt(x, e) = CurrentOn(D)[x])'
  BY InvestIs, PTL

\* The calendar up to a session, and what is decided before it.
SameDays(e) == \A y \in Sessions : y <= e => (y \in calendar' <=> y \in calendar)
SameCards(e) == \A x : \A s \in Sessions : s < e => (Asks(x, s)' <=> Asks(x, s))
SameRows(e) == \/ targets' = targets
               \/ \E row : targets' = Append(targets, row) /\ row.at \in Sessions /\ e <= row.at

LEMMA InvestStands ==
    ASSUME targets \in Seq(Target), calendar \subseteq Sessions, calendar' \subseteq Sessions,
           NEW e \in Sessions, SameDays(e), SameRows(e)
    PROVE  \A x : InvestAt(x, e)' = InvestAt(x, e)
  <1>1. PICK D : D = {s \in calendar : s < e}
    OBVIOUS
  <1>2. D = {s \in calendar' : s < e}
    <2>1. \A s \in Sessions : s < e => s <= e
      BY Facts
    <2>2. \A s \in Sessions : s < e => (s \in calendar' <=> s \in calendar)
      BY <2>1 DEF SameDays
    <2> QED
      BY <1>1, <2>2
  <1>3. CurrentOn(D)' = CurrentOn(D)
    <2>1. \A row : row.at \in Sessions /\ e <= row.at => row.at \notin D
      BY <1>1, Facts
    <2> QED
      BY <2>1, CurrentOnStands DEF SameRows
  <1>4. \A x : InvestAt(x, e)' = CurrentOn(D)'[x]
    BY <1>2, InvestIsNext
  <1>5. \A x : InvestAt(x, e) = CurrentOn(D)[x]
    BY <1>1, InvestIs
  <1> QED
    BY <1>3, <1>4, <1>5

LEMMA BetweenStands ==
    ASSUME calendar \subseteq Sessions, calendar' \subseteq Sessions,
           NEW e \in Sessions, SameDays(e), NEW s \in Sessions, s <= e, NEW t
    PROVE  Between(t, s)' = Between(t, s)
  <1>1. {x \in calendar' : t < x /\ x <= s} = {x \in calendar : t < x /\ x <= s}
    <2>1. \A y \in Sessions : y <= s => y <= e
      BY Facts
    <2>2. \A y \in Sessions : y <= s => (y \in calendar' <=> y \in calendar)
      BY <2>1 DEF SameDays
    <2> QED
      BY <2>2
  <1> QED
    BY <1>1, Zenon DEF Between

LEMMA TakenStands ==
    ASSUME calendar \subseteq Sessions, calendar' \subseteq Sessions,
           NEW e \in Sessions, SameDays(e), SameCards(e), NEW x
    PROVE  \A s \in Sessions : s < e => (s \in Taken(x)' <=> s \in Taken(x))
  <1>1. PICK S : S = Taken(x)
    OBVIOUS
  <1>2. PICK T : T = Taken(x)'
    OBVIOUS
  <1>3. PICK P : P = {s \in Sessions : Asks(x, s)}
    OBVIOUS
  <1>4. PICK Q : Q = {s \in Sessions : Asks(x, s)'}
    OBVIOUS
  <1>5. PICK R : R = {p \in Sessions \X Sessions : Between(p[1], p[2]) > HOLD}
    OBVIOUS
  <1>6. PICK W : W = {p \in Sessions \X Sessions : Between(p[1], p[2])' > HOLD}
    OBVIOUS
  <1>7. S \subseteq Sessions /\ \A s \in Sessions : s \in S <=> s \in P /\ \A t \in S : t < s => <<t, s>> \in R
    <2>1. TakenAre(x)
      BY TakenIs
    <2>2. \A t, s \in Sessions : <<t, s>> \in R <=> Between(t, s) > HOLD
      BY <1>5
    <2> QED
      BY <1>1, <1>3, <2>1, <2>2 DEF TakenAre
  <1>8. T \subseteq Sessions /\ \A s \in Sessions : s \in T <=> s \in Q /\ \A t \in T : t < s => <<t, s>> \in W
    <2>1. TakenAre(x)'
      BY TakenIsNext
    <2>2. \A t, s \in Sessions : <<t, s>> \in W <=> Between(t, s)' > HOLD
      BY <1>6
    <2> QED
      BY <1>2, <1>4, <2>1, <2>2 DEF TakenAre
  <1>9. \A s \in Sessions : s < e => (s \in P <=> s \in Q)
    BY <1>3, <1>4 DEF SameCards
  <1>10. \A s, t \in Sessions : s < e /\ s \in P /\ t < s => (<<t, s>> \in R <=> <<t, s>> \in W)
    <2> SUFFICES ASSUME NEW s \in Sessions, NEW t \in Sessions, s < e
                 PROVE  <<t, s>> \in R <=> <<t, s>> \in W
      OBVIOUS
    <2>1. s <= e
      BY Facts
    <2>2. Between(t, s)' = Between(t, s)
      BY <2>1, BetweenStands
    <2> QED
      BY <1>5, <1>6, <2>2
  <1>11. e \in Nat
    BY Facts
  <1>12. \A s \in Sessions : s < e => (s \in S <=> s \in T)
    <2>1. Grown(S, P, R)
      BY <1>7 DEF Grown
    <2>2. Grown(T, Q, W)
      BY <1>8 DEF Grown
    <2>3. AlikeBefore(e, P, Q, R, W)
      BY <1>9, <1>10 DEF AlikeBefore
    <2> QED
      BY <1>11, <2>1, <2>2, <2>3, TakenAgree
  <1> QED
    BY <1>1, <1>2, <1>12

LEMMA SwingStands ==
    ASSUME calendar \subseteq Sessions, calendar' \subseteq Sessions,
           NEW e \in Sessions, SameDays(e), SameCards(e)
    PROVE  \A x : SwingAt(x, e)' = SwingAt(x, e)
  <1> SUFFICES ASSUME NEW x PROVE SwingAt(x, e)' = SwingAt(x, e)
    OBVIOUS
  <1>1. Taken(x) \subseteq Sessions /\ Taken(x)' \subseteq Sessions
    BY TakenIs, TakenIsNext DEF TakenAre
  <1>2. \A s \in Sessions : Between(s, e)' = Between(s, e)
    <2>1. e <= e
      BY Facts
    <2> QED
      BY <2>1, BetweenStands
  <1>3. (\E s \in Taken(x) : s < e /\ Between(s, e) <= HOLD)'
           <=> \E s \in Taken(x) : s < e /\ Between(s, e) <= HOLD
    BY <1>1, <1>2, TakenStands
  <1> QED
    BY <1>3 DEF SwingAt, Traded

LEMMA HeldStands ==
    ASSUME targets \in Seq(Target), calendar \subseteq Sessions, calendar' \subseteq Sessions,
           NEW e \in Sessions, SameDays(e), SameCards(e), SameRows(e)
    PROVE  /\ \A sleeve, x : HeldAt(sleeve, x, e)' = HeldAt(sleeve, x, e)
           /\ BookAt(e)' = BookAt(e)
  <1>1. \A sleeve, x : HeldAt(sleeve, x, e)' = HeldAt(sleeve, x, e)
    BY InvestStands, SwingStands DEF HeldAt
  <1>2. \A h : h \in BookAt(e)' <=> h \in BookAt(e)
    BY <1>1 DEF BookAt
  <1>3. BookAt(e)' = BookAt(e)
    <2>1. PICK S : S = BookAt(e)
      OBVIOUS
    <2>2. PICK T : T = BookAt(e)'
      OBVIOUS
    <2>3. \A h : h \in T <=> h \in S
      BY <1>2, <2>1, <2>2
    <2>4. T = S
      BY <2>3
    <2> QED
      BY <2>1, <2>2, <2>4
  <1> QED
    BY <1>1, <1>3

-----------------------------------------------------------------------------
(* What the operators of the replay return.                                *)

Typed == targets \in Seq(Target) /\ calendar \subseteq Sessions /\ cards \subseteq Card

LEMMA LatestIsARow ==
    ASSUME NEW D
    PROVE  \A k \in LatestOn(D) : /\ k \in DOMAIN targets /\ targets[k].at \in D
                                  /\ \A m \in DOMAIN targets : targets[m].at \in D /\ m # k => Earlier(m, k)
  BY DEF LatestOn

LEMMA CurrentIsABook ==
    ASSUME Typed, NEW D
    PROVE  CurrentOn(D) \in Book
  <1>1. CASE LatestOn(D) = {}
    <2>1. NoBook \in Book
      BY Facts DEF NoBook, Book
    <2> QED
      BY <1>1, <2>1 DEF CurrentOn
  <1>2. CASE LatestOn(D) # {}
    <2>1. PICK k : k = CHOOSE j \in LatestOn(D) : TRUE
      OBVIOUS
    <2>2. k \in LatestOn(D)
      BY <1>2, <2>1
    <2>3. k \in DOMAIN targets
      BY <2>2, LatestIsARow
    <2>4. targets[k] \in Target
      BY <2>3 DEF Typed
    <2>5. CurrentOn(D) = targets[k].current
      BY <1>2, <2>1 DEF CurrentOn
    <2> QED
      BY <2>4, <2>5 DEF Target
  <1> QED
    BY <1>1, <1>2

LEMMA HeldIsAWeight ==
    ASSUME Typed, NEW x \in Names, NEW e
    PROVE  /\ InvestAt(x, e) \in 0..UNIT /\ SwingAt(x, e) \in 0..UNIT
           /\ \A sleeve : HeldAt(sleeve, x, e) \in 0..UNIT
  <1>1. InvestAt(x, e) \in 0..UNIT
    <2>1. PICK D : D = {s \in calendar : s < e}
      OBVIOUS
    <2>2. CurrentOn(D) \in Book
      BY CurrentIsABook
    <2>3. InvestAt(x, e) = CurrentOn(D)[x]
      BY <2>1, InvestIs
    <2> QED
      BY <2>2, <2>3 DEF Book
  <1>2. SwingAt(x, e) \in 0..UNIT
    <2>1. SwingAt(x, e) = UNIT \/ SwingAt(x, e) = 0
      BY Zenon DEF SwingAt
    <2> QED
      BY <2>1, Facts
  <1> QED
    BY <1>1, <1>2 DEF HeldAt

LEMMA BookAtIs ==
    ASSUME Typed, NEW e
    PROVE  /\ BookAt(e) \subseteq Sleeves \X Names \X (1..UNIT)
           /\ \A x \in Names : \A w : <<"invest", x, w>> \in BookAt(e) <=> w = InvestAt(x, e) /\ w > 0
  <1>1. \A sleeve \in Sleeves, x \in Names : HeldAt(sleeve, x, e) > 0 => HeldAt(sleeve, x, e) \in 1..UNIT
    <2> SUFFICES ASSUME NEW sleeve, NEW x \in Names, HeldAt(sleeve, x, e) > 0
                 PROVE  HeldAt(sleeve, x, e) \in 1..UNIT
      OBVIOUS
    <2>1. HeldAt(sleeve, x, e) \in 0..UNIT
      BY HeldIsAWeight
    <2> QED
      BY <2>1, Facts
  <1>2. BookAt(e) \subseteq Sleeves \X Names \X (1..UNIT)
    BY <1>1 DEF BookAt
  <1>3. "invest" \in Sleeves /\ "invest" # "swing"
    BY DEF Sleeves
  <1>4. \A x : HeldAt("invest", x, e) = InvestAt(x, e)
    BY <1>3 DEF HeldAt
  <1>5. \A x \in Names : \A w : <<"invest", x, w>> \in BookAt(e) <=> w = InvestAt(x, e) /\ w > 0
    BY <1>3, <1>4 DEF BookAt
  <1> QED
    BY <1>2, <1>5

LEMMA ClosingIs ==
    ASSUME Typed, NEW sleeve, NEW x, NEW e, NEW d
    PROVE  /\ Closing(sleeve, x, e, d) \in Sessions \union {None}
           /\ Closing(sleeve, x, e, d) # None <=> \E q \in Cal(d) : q > e /\ HeldAt(sleeve, x, q) = 0
  <1>1. PICK F : F = {q \in Cal(d) : q > e /\ HeldAt(sleeve, x, q) = 0}
    OBVIOUS
  <1>2. Closing(sleeve, x, e, d) = IF F = {} THEN None ELSE Min(F)
    BY <1>1, Zenon DEF Closing
  <1>3. F \subseteq Sessions
    BY <1>1 DEF Cal, Typed
  <1>4. F # {} => Min(F) \in F
    <2>1. F \subseteq Nat
      BY <1>3, Facts
    <2> QED
      BY <2>1, Least
  <1>5. F # {} <=> \E q \in Cal(d) : q > e /\ HeldAt(sleeve, x, q) = 0
    BY <1>1
  <1> QED
    BY <1>2, <1>3, <1>4, <1>5, Facts

LEMMA TablesAreTyped ==
    ASSUME Typed, NEW d \in Sessions
    PROVE  OrdersUpTo(d) \subseteq Order /\ PositionsUpTo(d) \subseteq Position
  <1>1. Cal(d - 1) \subseteq Sessions /\ Cal(d) \subseteq Sessions
    BY DEF Cal, Typed
  <1>2. UNIT \in 0..UNIT
    BY Facts
  <1>3. \A c \in cards : c.sleeve \in Sleeves /\ c.name \in Names /\ c.at \in Sessions
    BY DEF Typed, Card
  <1>4. {[sleeve |-> "swing", name |-> c.name, at |-> c.at, weight |-> UNIT, pending |-> FALSE] :
            c \in {c \in cards : c.sleeve = "swing" /\ c.at \in Cal(d - 1) /\ c.at \in Taken(c.name)}}
        \subseteq Order
    <2>1. \A c \in cards : [sleeve |-> "swing", name |-> c.name, at |-> c.at, weight |-> UNIT,
                             pending |-> FALSE] \in Order
      BY <1>2, <1>3 DEF Order, Sleeves
    <2> QED
      BY <2>1
  <1>5. {[sleeve |-> "invest", name |-> p[2], at |-> p[1], weight |-> CurrentOn(1..p[1])[p[2]],
          pending |-> FALSE] :
            p \in {p \in Cal(d - 1) \X Names : CurrentOn(1..p[1])[p[2]] # InvestAt(p[2], p[1])}}
        \subseteq Order
    <2>1. \A s, x : x \in Names => CurrentOn(1..s)[x] \in 0..UNIT
      BY CurrentIsABook DEF Book
    <2>2. \A p \in Cal(d - 1) \X Names :
            [sleeve |-> "invest", name |-> p[2], at |-> p[1], weight |-> CurrentOn(1..p[1])[p[2]],
             pending |-> FALSE] \in Order
      <3> SUFFICES ASSUME NEW s \in Cal(d - 1), NEW x \in Names
                   PROVE  [sleeve |-> "invest", name |-> x, at |-> s, weight |-> CurrentOn(1..s)[x],
                           pending |-> FALSE] \in Order
        OBVIOUS
      <3>1. s \in Sessions /\ CurrentOn(1..s)[x] \in 0..UNIT
        BY <1>1, <2>1
      <3> QED
        BY <3>1 DEF Order, Sleeves
    <2> QED
      BY <2>2
  <1>6. {[sleeve |-> c.sleeve, name |-> c.name, at |-> d, weight |-> UNIT, pending |-> TRUE] :
            c \in {c \in cards : c.at = d}} \subseteq Order
    <2>1. \A c \in cards : [sleeve |-> c.sleeve, name |-> c.name, at |-> d, weight |-> UNIT,
                             pending |-> TRUE] \in Order
      BY <1>2, <1>3 DEF Order
    <2> QED
      BY <2>1
  <1>7. OrdersUpTo(d) \subseteq Order
    BY <1>4, <1>5, <1>6, Zenon DEF OrdersUpTo
  <1>8. PositionsUpTo(d) \subseteq Position
    <2>1. \A p \in Sleeves \X Names \X Cal(d) :
            [sleeve |-> p[1], name |-> p[2], opened |-> p[3], closed |-> Closing(p[1], p[2], p[3], d)]
                \in Position
      <3> SUFFICES ASSUME NEW sleeve \in Sleeves, NEW x \in Names, NEW e \in Cal(d)
                   PROVE  [sleeve |-> sleeve, name |-> x, opened |-> e, closed |-> Closing(sleeve, x, e, d)]
                              \in Position
        OBVIOUS
      <3>1. e \in Sessions /\ Closing(sleeve, x, e, d) \in Sessions \union {None}
        BY <1>1, ClosingIs
      <3> QED
        BY <3>1 DEF Position
    <2> QED
      BY <2>1 DEF PositionsUpTo
  <1> QED
    BY <1>7, <1>8

LEMMA StatusIsTyped == \A c, d : StatusUpTo(c, d) \in Statuses
  BY DEF StatusUpTo, Statuses

-----------------------------------------------------------------------------
(* What a step of the INVEST sleeve writes.                                *)

LEMMA MonthStartIs ==
    ASSUME Typed, NEW s \in calendar
    PROVE  MonthStart(s) \in calendar /\ MonthStart(s) <= s
  <1>1. PICK F : F = {x \in calendar : x <= s /\ Month[x] = Month[s]}
    OBVIOUS
  <1>2. MonthStart(s) = Min(F)
    BY <1>1, Zenon DEF MonthStart
  <1>3. s \in Nat /\ F \subseteq Nat
    BY <1>1, Facts DEF Typed
  <1>4. s \in F
    BY <1>1, <1>3
  <1>5. Min(F) \in F
    BY <1>3, <1>4, Least
  <1> QED
    BY <1>1, <1>2, <1>5

LEMMA OffsetIs ==
    ASSUME Typed, NEW s \in calendar, MonthStart(s) # s
    PROVE  Offset(s) \in Nat \ {0}
  <1>1. PICK F : F = {x \in calendar : MonthStart(s) < x /\ x <= s}
    OBVIOUS
  <1>2. Offset(s) = Cardinality(F)
    BY <1>1, Zenon DEF Offset
  <1>3. s \in Nat /\ MonthStart(s) \in Nat /\ MonthStart(s) <= s
    BY MonthStartIs, Facts DEF Typed
  <1>4. s \in F
    BY <1>1, <1>3
  <1>5. IsFiniteSet(F)
    <2>1. F \subseteq 1..Last
      BY <1>1, Facts DEF Typed
    <2>2. IsFiniteSet(1..Last)
      BY FS_Interval, Facts
    <2> QED
      BY <2>1, <2>2, FS_Subset
  <1>6. Cardinality(F) \in Nat /\ Cardinality(F) # 0
    BY <1>4, <1>5, FS_CardinalityType, FS_EmptySet
  <1> QED
    BY <1>2, <1>6

LEMMA DueIsOne ==
    ASSUME Typed, NEW s \in calendar
    PROVE  \A c, d \in Due(s) : c = d
  <1>1. CASE MonthStart(s) = s
    <2>1. Due(s) = {[kind |-> "rebalance", n |-> 1]}
      BY <1>1 DEF Due
    <2> QED
      BY <2>1
  <1>2. CASE MonthStart(s) # s
    <2>1. PICK o : o = Offset(s)
      OBVIOUS
    <2>2. o \in Nat \ {0}
      BY <1>2, <2>1, OffsetIs
    <2>3. \A j, k \in 2..TRANCHES : o = (j - 1) * SPACING /\ o = (k - 1) * SPACING => ~ (j < k)
      <3> SUFFICES ASSUME NEW j \in 2..TRANCHES, NEW k \in 2..TRANCHES, j < k,
                          o = (j - 1) * SPACING, o = (k - 1) * SPACING
                   PROVE  FALSE
        OBVIOUS
      <3>1. j \in Nat /\ k \in Nat /\ j <= k - 1 /\ j - 1 \in Nat /\ k - 1 \in Nat /\ SPACING \in Nat
        BY Facts
      <3>2. j * SPACING <= (k - 1) * SPACING
        BY <3>1, TimesGrows
      <3>3. j * SPACING = (j - 1) * SPACING + SPACING
        BY <3>1
      <3>4. SPACING = 0
        BY <3>1, <3>2, <3>3, <2>2
      <3>5. (j - 1) * SPACING = 0
        BY <3>1, <3>4
      <3> QED
        BY <2>2, <3>5
    <2>4. \A j, k \in 2..TRANCHES : o = (j - 1) * SPACING /\ o = (k - 1) * SPACING => j = k
      <3>1. \A j, k \in 2..TRANCHES : j < k \/ k < j \/ j = k
        BY Facts
      <3> QED
        BY <2>3, <3>1
    <2>5. Due(s) = {[kind |-> "tranche", n |-> k] : k \in {k \in 2..TRANCHES : o = (k - 1) * SPACING}}
      BY <1>2, <2>1, Zenon DEF Due
    <2> QED
      BY <2>4, <2>5
  <1> QED
    BY <1>1, <1>2

LEMMA DueIsTyped ==
    ASSUME NEW s, NEW d \in Due(s)
    PROVE  d.n \in 1..TRANCHES /\ d = [kind |-> d.kind, n |-> d.n] /\ d.kind \in {"rebalance", "tranche"}
  <1>1. CASE MonthStart(s) = s
    BY <1>1, Facts DEF Due
  <1>2. CASE MonthStart(s) # s
    BY <1>2, Facts DEF Due
  <1> QED
    BY <1>1, <1>2

\* A row that a step writes on session s.
StepRow(row, s) ==
    /\ row \in Target /\ row.at = s /\ row.roll = members[s] /\ row.kind # "exit"
    /\ [kind |-> row.kind, n |-> row.n] \in Due(s)
    /\ row.final \in Book /\ row.from \in Book
    /\ row.kind = "tranche" /\ row.n = TRANCHES => \A x \in row.roll : row.current[x] = row.final[x]
    /\ \A x \in Names \ row.roll : row.current[x] <= CurrentOn(Before(s))[x]

LEMMA BlendIs ==
    ASSUME NEW from \in Book, NEW final \in Book, NEW n \in 1..TRANCHES
    PROVE  /\ Blend(from, final, n) \in Book
           /\ \A x \in Names : final[x] <= from[x] => Blend(from, final, n)[x] <= from[x]
           /\ \A x \in Names : Blend(from, final, TRANCHES)[x] = final[x]
  <1>1. \A x \in Names :
            /\ from[x] + ((final[x] - from[x]) * n) \div TRANCHES \in 0..UNIT
            /\ final[x] <= from[x] => from[x] + ((final[x] - from[x]) * n) \div TRANCHES <= from[x]
            /\ from[x] + ((final[x] - from[x]) * TRANCHES) \div TRANCHES = final[x]
    <2> SUFFICES ASSUME NEW x \in Names
                 PROVE  /\ from[x] + ((final[x] - from[x]) * n) \div TRANCHES \in 0..UNIT
                        /\ final[x] <= from[x] => from[x] + ((final[x] - from[x]) * n) \div TRANCHES <= from[x]
                        /\ from[x] + ((final[x] - from[x]) * TRANCHES) \div TRANCHES = final[x]
      OBVIOUS
    <2>1. PICK a : a = from[x]
      OBVIOUS
    <2>2. PICK b : b = final[x]
      OBVIOUS
    <2>3. a \in 0..UNIT /\ b \in 0..UNIT
      BY <2>1, <2>2 DEF Book
    <2>4. UNIT \in Nat /\ TRANCHES \in Nat \ {0}
      BY Facts
    <2>5. /\ a + ((b - a) * n) \div TRANCHES \in 0..UNIT
          /\ b <= a => a + ((b - a) * n) \div TRANCHES <= a
          /\ a + ((b - a) * TRANCHES) \div TRANCHES = b
      BY <2>3, <2>4, StepsBetween
    <2> QED
      BY <2>1, <2>2, <2>5
  <1> QED
    BY <1>1, Zenon DEF Blend, Book

LEMMA RebalanceRowIs ==
    ASSUME Typed, NEW s \in Sessions, NEW ranking, members[s] \subseteq Names,
           [kind |-> "rebalance", n |-> 1] \in Due(s)
    PROVE  StepRow(RebalanceRow(s, ranking), s)
  <1>1. PICK from : from = CurrentOn(Before(s))
    OBVIOUS
  <1>2. PICK final : final = [x \in Names |-> IF x \in TopOf(ranking, members[s]) THEN UNIT ELSE 0]
    OBVIOUS
  <1>3. from \in Book /\ final \in Book
    BY <1>1, <1>2, CurrentIsABook, Facts DEF Book
  <1>4. 1 \in 1..TRANCHES
    BY Facts
  <1>5. PICK book : book = Blend(from, final, 1)
    OBVIOUS
  <1>6. book \in Book /\ \A x \in Names : final[x] <= from[x] => book[x] <= from[x]
    BY <1>3, <1>4, <1>5, BlendIs
  <1>7. \A x \in Names \ members[s] : final[x] <= from[x]
    <2>1. TopOf(ranking, members[s]) \subseteq members[s]
      BY DEF TopOf
    <2>2. \A x \in Names \ members[s] : final[x] = 0 /\ from[x] \in 0..UNIT
      BY <1>2, <1>3, <2>1 DEF Book
    <2> QED
      BY <2>2, Facts
  <1>8. PICK row : row = RebalanceRow(s, ranking)
    OBVIOUS
  <1>9. row = [at |-> s, kind |-> "rebalance", n |-> 1, current |-> book,
               final |-> final, from |-> from, roll |-> members[s]]
    BY <1>1, <1>2, <1>5, <1>8, Zenon DEF RebalanceRow
  <1>10. row \in Target
    BY <1>3, <1>4, <1>6, <1>9 DEF Target
  <1>11. \A x \in Names \ members[s] : book[x] <= from[x]
    BY <1>6, <1>7
  <1>12. StepRow(row, s)
    BY <1>1, <1>3, <1>9, <1>10, <1>11 DEF StepRow
  <1> QED
    BY <1>8, <1>12

LEMMA TrancheRowIs ==
    ASSUME Typed, NEW s \in Sessions, members[s] \subseteq Names, NEW n \in 1..TRANCHES,
           [kind |-> "tranche", n |-> n] \in Due(s), NEW base, base.final \in Book, base.from \in Book
    PROVE  StepRow(TrancheRow(s, n, base), s)
  <1>1. PICK now : now = CurrentOn(Before(s))
    OBVIOUS
  <1>2. now \in Book
    BY <1>1, CurrentIsABook
  <1>3. PICK step : step = Blend(base.from, base.final, n)
    OBVIOUS
  <1>4. step \in Book /\ (n = TRANCHES => \A x \in Names : step[x] = base.final[x])
    <2>1. PICK f \in Book, g \in Book : f = base.from /\ g = base.final
      OBVIOUS
    <2>2. step = Blend(f, g, n)
      BY <1>3, <2>1
    <2>3. Blend(f, g, n) \in Book /\ \A x \in Names : Blend(f, g, TRANCHES)[x] = g[x]
      BY BlendIs
    <2>4. n = TRANCHES => step = Blend(f, g, TRANCHES)
      BY <2>2
    <2> QED
      BY <2>1, <2>2, <2>3, <2>4
  <1>5. PICK book : book = Kept(step, now, members[s])
    OBVIOUS
  <1>6. book = [x \in Names |-> IF x \in members[s] THEN step[x] ELSE now[x]]
    BY <1>5, Zenon DEF Kept
  <1>7. book \in Book
    BY <1>2, <1>4, <1>6 DEF Book
  <1>8. PICK row : row = TrancheRow(s, n, base)
    OBVIOUS
  <1>9. row = [at |-> s, kind |-> "tranche", n |-> n, current |-> book,
               final |-> base.final, from |-> base.from, roll |-> members[s]]
    BY <1>1, <1>3, <1>5, <1>8, Zenon DEF TrancheRow
  <1>10. row \in Target
    BY <1>7, <1>9 DEF Target
  <1>11. \A x \in Names \ members[s] : book[x] = now[x] /\ now[x] \in 0..UNIT
    BY <1>2, <1>6 DEF Book
  <1>12. \A x \in Names \ members[s] : book[x] <= now[x]
    BY <1>11, Facts
  <1>13. n = TRANCHES => \A x \in members[s] : book[x] = base.final[x]
    BY <1>4, <1>6
  <1>14. StepRow(row, s)
    BY <1>1, <1>9, <1>10, <1>12, <1>13 DEF StepRow
  <1> QED
    BY <1>8, <1>14

LEMMA StepWrites ==
    ASSUME Typed, TargetsAreSound, NEW s \in calendar, members[s] \subseteq Names,
           NEW ranking, NEW row \in Step(s, ranking)
    PROVE  StepRow(row, s)
  <1>1. s \in Sessions
    BY DEF Typed
  <1>2. CASE \E d \in Due(s) : d.kind = "rebalance" /\ row = RebalanceRow(s, ranking)
    <2>1. PICK d \in Due(s) : d.kind = "rebalance" /\ row = RebalanceRow(s, ranking)
      BY <1>2
    <2>2. MonthStart(s) = s
      BY <2>1 DEF Due
    <2>3. [kind |-> "rebalance", n |-> 1] \in Due(s)
      BY <2>2 DEF Due
    <2> QED
      BY <1>1, <2>1, <2>3, RebalanceRowIs
  <1>3. CASE \E d \in Due(s), k \in Stored(MonthStart(s), "rebalance", 1) :
               d.kind = "tranche" /\ row = TrancheRow(s, d.n, targets[k])
    <2>1. PICK d \in Due(s), k \in Stored(MonthStart(s), "rebalance", 1) :
               d.kind = "tranche" /\ row = TrancheRow(s, d.n, targets[k])
      BY <1>3
    <2>2. k \in DOMAIN targets /\ targets[k].kind = "rebalance"
      BY DEF Stored
    <2>3. targets[k].final \in Book /\ targets[k].from \in Book
      BY <2>2 DEF TargetsAreSound, RowIsSound
    <2>4. d.n \in 1..TRANCHES /\ d = [kind |-> "tranche", n |-> d.n]
      BY <2>1, DueIsTyped
    <2> QED
      BY <1>1, <2>1, <2>3, <2>4, TrancheRowIs
  <1>4. (\E d \in Due(s) : d.kind = "rebalance" /\ row = RebalanceRow(s, ranking))
        \/ \E d \in Due(s), k \in Stored(MonthStart(s), "rebalance", 1) :
               d.kind = "tranche" /\ row = TrancheRow(s, d.n, targets[k])
    <2>1. CASE row \in {RebalanceRow(s, ranking) : d \in {d \in Due(s) : d.kind = "rebalance"}}
      BY <2>1
    <2>2. CASE row \in {TrancheRow(s, p[1].n, targets[p[2]]) :
                          p \in {d \in Due(s) : d.kind = "tranche"} \X Stored(MonthStart(s), "rebalance", 1)}
      <3>1. PICK p \in {d \in Due(s) : d.kind = "tranche"} \X Stored(MonthStart(s), "rebalance", 1) :
                    row = TrancheRow(s, p[1].n, targets[p[2]])
        BY <2>2
      <3> QED
        BY <3>1
    <2> QED
      BY <2>1, <2>2, Zenon DEF Step
  <1> QED
    BY <1>2, <1>3, <1>4

-----------------------------------------------------------------------------
(* The target book grows at its end.                                       *)

LEMMA MonthStartStands ==
    ASSUME calendar \subseteq Sessions, calendar' \subseteq Sessions, NEW s \in Sessions, SameDays(s)
    PROVE  MonthStart(s)' = MonthStart(s)
  <1>1. {x \in calendar' : x <= s /\ Month[x] = Month[s]} = {x \in calendar : x <= s /\ Month[x] = Month[s]}
    BY DEF SameDays
  <1> QED
    BY <1>1, Zenon DEF MonthStart

LEMMA DueStands ==
    ASSUME calendar \subseteq Sessions, calendar' \subseteq Sessions, NEW s \in Sessions, SameDays(s)
    PROVE  Due(s)' = Due(s)
  <1>1. PICK m : m = MonthStart(s)
    OBVIOUS
  <1>2. MonthStart(s)' = m
    BY <1>1, MonthStartStands
  <1>3. {x \in calendar' : m < x /\ x <= s} = {x \in calendar : m < x /\ x <= s}
    BY DEF SameDays
  <1>4. Offset(s)' = Offset(s)
    BY <1>1, <1>2, <1>3, Zenon DEF Offset
  <1> QED
    BY <1>1, <1>2, <1>4 DEF Due

RowIs(row, s, k) ==
    /\ row.kind = "exit" => policy = "close_now"
    /\ row.kind # "exit" => /\ [kind |-> row.kind, n |-> row.n] \in Due(s)
                            /\ row.final \in Book /\ row.from \in Book
    /\ row.kind = "tranche" /\ row.n = TRANCHES => \A x \in row.roll : row.current[x] = row.final[x]
    /\ policy = "next_rebalance" =>
          \A x \in Names \ row.roll : row.current[x] <= IF k = 1 THEN 0 ELSE targets[k - 1].current[x]

LEMMA SoundIs == \A k, row, s : row = targets[k] /\ s = row.at => (RowIsSound(k) <=> RowIs(row, s, k))
  BY DEF RowIsSound, RowIs
LEMMA SoundIsNext == (\A k, row, s : row = targets[k] /\ s = row.at => (RowIsSound(k) <=> RowIs(row, s, k)))'
  BY SoundIs, PTL

\* Rows that are there stay sound when days and rows are added at the end.
LEMMA RowsStaySound ==
    ASSUME Typed, \A k \in DOMAIN targets : RowIsSound(k), policy' = policy, calendar' \subseteq Sessions,
           \A k \in DOMAIN targets : SameDays(targets[k].at),
           \A k \in DOMAIN targets : k \in DOMAIN targets' /\ targets'[k] = targets[k]
    PROVE  \A k \in DOMAIN targets : RowIsSound(k)'
  <1> SUFFICES ASSUME NEW k \in DOMAIN targets PROVE RowIsSound(k)'
    OBVIOUS
  <1>1. PICK row : row = targets[k]
    OBVIOUS
  <1>2. PICK t : t = row.at
    OBVIOUS
  <1>3. row \in Target /\ row = targets'[k]
    BY <1>1 DEF Typed
  <1>4. k \in Nat /\ k >= 1 /\ DOMAIN targets = 1..Len(targets)
    BY DEF Typed
  <1>5. k # 1 => targets'[k - 1] = targets[k - 1]
    <2>1. k # 1 => k - 1 \in DOMAIN targets
      BY <1>4
    <2> QED
      BY <2>1
  <1>6. t \in Sessions /\ SameDays(t)
    BY <1>1, <1>2, <1>3 DEF Target
  <1>7. Due(t)' = Due(t)
    BY <1>6, DueStands DEF Typed
  <1>8. RowIs(row, t, k)
    BY <1>1, <1>2, SoundIs
  <1>9. RowIs(row, t, k)'
    BY <1>5, <1>7, <1>8 DEF RowIs
  <1> QED
    BY <1>2, <1>3, <1>9, SoundIsNext

LEMMA RowsAreTyped ==
    ASSUME Typed
    PROVE  /\ DOMAIN targets = 1..Len(targets) /\ Len(targets) \in Nat
           /\ \A k \in DOMAIN targets : targets[k].at \in Sessions /\ targets[k].current \in Book
  <1>1. \A k \in DOMAIN targets : targets[k] \in Target
    BY DEF Typed
  <1>2. \A row \in Target : row.at \in Sessions /\ row.current \in Book
    BY DEF Target
  <1>3. \A k \in DOMAIN targets : targets[k].at \in Sessions /\ targets[k].current \in Book
    BY <1>1, <1>2
  <1> QED
    BY <1>3 DEF Typed

\* While removals wait for a rebalance the newest row is the last one.
LEMMA NewestIsLast ==
    ASSUME Typed, NEW s \in Sessions,
           \A j, k \in DOMAIN targets : j < k => targets[j].at < targets[k].at,
           \A k \in DOMAIN targets : targets[k].at < s
    PROVE  CurrentOn(Before(s)) = IF Len(targets) = 0 THEN NoBook ELSE targets[Len(targets)].current
  <1>1. DOMAIN targets = 1..Len(targets) /\ Len(targets) \in Nat
        /\ \A k \in DOMAIN targets : targets[k].at \in Sessions
    BY RowsAreTyped
  <1>2. \A k \in DOMAIN targets : targets[k].at \in Before(s)
    BY <1>1, Facts DEF Before
  <1>3. CASE Len(targets) = 0
    <2>1. LatestOn(Before(s)) = {}
      BY <1>1, <1>3, LatestIsARow
    <2> QED
      BY <1>3, <2>1 DEF CurrentOn
  <1>4. CASE Len(targets) # 0
    <2>1. PICK n : n = Len(targets)
      OBVIOUS
    <2>2. n \in DOMAIN targets /\ \A k \in DOMAIN targets \ {n} : k < n
      BY <1>1, <1>4, <2>1
    <2>3. n \in LatestOn(Before(s))
      BY <1>2, <2>2 DEF LatestOn, Earlier
    <2>4. \A k \in LatestOn(Before(s)) : k = n
      <3> SUFFICES ASSUME NEW k \in LatestOn(Before(s)), k # n PROVE FALSE
        OBVIOUS
      <3>1. k \in DOMAIN targets /\ Earlier(n, k)
        BY <1>2, <2>2, LatestIsARow
      <3>2. k < n /\ targets[k].at < targets[n].at
        BY <2>2, <3>1
      <3>3. targets[k].at \in Nat /\ targets[n].at \in Nat /\ k \in Nat /\ n \in Nat
        BY <1>1, <2>2, <3>1, Facts
      <3> QED
        BY <3>1, <3>2, <3>3 DEF Earlier
    <2>5. PICK m : m = CHOOSE k \in LatestOn(Before(s)) : TRUE
      OBVIOUS
    <2>6. m = n
      BY <2>3, <2>4, <2>5
    <2>7. CurrentOn(Before(s)) = targets[m].current
      BY <2>3, <2>5 DEF CurrentOn
    <2> QED
      BY <1>4, <2>1, <2>6, <2>7
  <1> QED
    BY <1>3, <1>4

ExitRowIs(row, s) == row \in Target /\ row.at = s /\ row.kind = "exit" /\ policy = "close_now"

LEMMA SavedIs ==
    ASSUME Typed, CalendarIsWhole, DecisionsAreDated, TargetsAreSound, NEW s, LastOf(s, ran),
           NEW row, StepRow(row, s) \/ ExitRowIs(row, s), targets' = Saved(row),
           UNCHANGED <<calendar, ran, policy>>
    PROVE  /\ targets' \in Seq(Target) /\ TargetsAreSound'
           /\ \A k \in DOMAIN targets' : targets'[k].at \in Cal(ran)'
           /\ \A j, k \in DOMAIN targets' : j < k => targets'[j].at <= targets'[k].at
           /\ \A e \in Sessions : e <= s => SameRows(e)
  <1>1. /\ row \in Target /\ row.at = s /\ s \in calendar /\ s \in Sessions
        /\ \A t \in Cal(ran) : t <= s
    BY DEF LastOf, Cal, Typed, StepRow, ExitRowIs
  <1>2. Cal(ran)' = Cal(ran)
    BY DEF Cal
  <1>3. \A e \in Sessions : SameDays(e)
    BY DEF SameDays
  <1>4. /\ DOMAIN targets = 1..Len(targets) /\ Len(targets) \in Nat
        /\ \A k \in DOMAIN targets : targets[k].at \in Sessions /\ targets[k].at \in Cal(ran)
    BY RowsAreTyped DEF DecisionsAreDated
  <1>5. CASE targets' = targets
    <2>1. \A k \in DOMAIN targets : RowIsSound(k)'
      BY <1>3, <1>4, <1>5, RowsStaySound DEF TargetsAreSound, Typed
    <2>2. TargetsAreSound'
      BY <1>5, <2>1 DEF TargetsAreSound
    <2> QED
      BY <1>2, <1>5, <2>2 DEF DecisionsAreDated, SameRows, Typed
  <1>6. CASE targets' = Append(targets, row) /\ Stored(row.at, row.kind, row.n) = {}
    <2>1. PICK n : n = Len(targets) + 1
      OBVIOUS
    <2>2. /\ targets' \in Seq(Target) /\ DOMAIN targets' = 1..n /\ targets'[n] = row
          /\ n \in Nat /\ DOMAIN targets = 1..(n - 1)
          /\ \A k \in DOMAIN targets : k \in DOMAIN targets' /\ targets'[k] = targets[k]
      BY <1>1, <1>4, <1>6, <2>1 DEF Typed
    <2>3. \A k \in DOMAIN targets' : k = n \/ k \in DOMAIN targets
      BY <2>2
    <2>4. \A k \in DOMAIN targets' : targets'[k].at \in Cal(ran)'
      BY <1>1, <1>2, <1>4, <2>2, <2>3 DEF LastOf
    <2>5. \A j, k \in DOMAIN targets' : j < k => targets'[j].at <= targets'[k].at
      <3> SUFFICES ASSUME NEW j \in DOMAIN targets', NEW k \in DOMAIN targets', j < k
                   PROVE  targets'[j].at <= targets'[k].at
        OBVIOUS
      <3>1. j \in DOMAIN targets
        BY <2>2
      <3>2. CASE k \in DOMAIN targets
        BY <2>2, <3>1, <3>2 DEF DecisionsAreDated
      <3>3. CASE k = n
        BY <1>1, <1>4, <2>2, <3>1, <3>3
      <3> QED
        BY <2>3, <3>2, <3>3
    <2>6. \A k \in DOMAIN targets : RowIsSound(k)'
      BY <1>3, <1>4, <2>2, RowsStaySound DEF TargetsAreSound, Typed
    \* A step of the day is stored once, so the day has no row yet.
    <2>7. policy = "next_rebalance" =>
              StepRow(row, s) /\ \A k \in DOMAIN targets : targets[k].at < s
      <3> SUFFICES ASSUME policy = "next_rebalance", NEW k \in DOMAIN targets, targets[k].at = s
                   PROVE  FALSE
        <4>1. policy = "next_rebalance" => StepRow(row, s)
          BY DEF ExitRowIs
        <4>2. \A k \in DOMAIN targets : targets[k].at \in Nat /\ s \in Nat /\ targets[k].at <= s
          BY <1>1, <1>4, Facts
        <4> QED
          BY <4>1, <4>2
      <3>1. StepRow(row, s)
        BY DEF ExitRowIs
      <3>2. targets[k].kind # "exit" /\ [kind |-> targets[k].kind, n |-> targets[k].n] \in Due(s)
        BY DEF TargetsAreSound, RowIsSound
      <3>3. [kind |-> row.kind, n |-> row.n] \in Due(s)
        BY <3>1 DEF StepRow
      <3>4. [kind |-> row.kind, n |-> row.n] = [kind |-> targets[k].kind, n |-> targets[k].n]
        BY <1>1, <3>2, <3>3, DueIsOne
      <3>5. row.kind = targets[k].kind /\ row.n = targets[k].n
        BY <3>4
      <3>6. k \in Stored(row.at, row.kind, row.n)
        BY <1>1, <3>5 DEF Stored
      <3> QED
        BY <1>6, <3>6
    <2>8. policy = "next_rebalance" =>
              \A x \in Names \ row.roll : row.current[x] <= IF n = 1 THEN 0 ELSE targets[n - 1].current[x]
      <3> SUFFICES ASSUME policy = "next_rebalance", NEW x \in Names \ row.roll
                   PROVE  row.current[x] <= IF n = 1 THEN 0 ELSE targets[n - 1].current[x]
        OBVIOUS
      <3>1. row.current[x] <= CurrentOn(Before(s))[x]
        BY <2>7 DEF StepRow
      <3>2. CurrentOn(Before(s)) = IF Len(targets) = 0 THEN NoBook ELSE targets[Len(targets)].current
        BY <1>1, <2>7, NewestIsLast DEF TargetsAreSound
      <3>3. NoBook[x] = 0
        BY DEF NoBook
      <3>4. n - 1 = Len(targets) /\ (n = 1 <=> Len(targets) = 0)
        BY <1>4, <2>1
      <3> QED
        BY <3>1, <3>2, <3>3, <3>4
    <2>9. RowIsSound(n)'
      <3>1. Due(s)' = Due(s)
        BY <1>1, <1>3, DueStands DEF Typed
      <3>2. targets'[n] = row /\ row.at = s
        BY <1>1, <2>2
      <3>3. row.kind = "exit" => policy' = "close_now"
        BY DEF StepRow, ExitRowIs
      <3>4. row.kind # "exit" => StepRow(row, s)
        BY DEF ExitRowIs
      <3>5. row.kind # "exit" => /\ [kind |-> row.kind, n |-> row.n] \in Due(s)'
                                 /\ row.final \in Book /\ row.from \in Book
        BY <3>1, <3>4 DEF StepRow
      <3>6. row.kind = "tranche" /\ row.n = TRANCHES => \A x \in row.roll : row.current[x] = row.final[x]
        BY <3>4 DEF StepRow
      <3>7. policy' = "next_rebalance" =>
                \A x \in Names \ row.roll : row.current[x] <= IF n = 1 THEN 0 ELSE targets'[n - 1].current[x]
        <4>1. n # 1 => targets'[n - 1] = targets[n - 1]
          <5>1. n \in 1..n
            BY <1>4, <2>1
          <5>2. n # 1 => n - 1 \in DOMAIN targets
            BY <2>2, <5>1
          <5> QED
            BY <2>2, <5>2
        <4> QED
          BY <2>8, <4>1
      <3>8. RowIs(row, s, n)'
        BY <3>3, <3>5, <3>6, <3>7 DEF RowIs
      <3> QED
        BY <3>2, <3>8, SoundIsNext
    <2>10. TargetsAreSound'
      <3>1. \A k \in DOMAIN targets' : RowIsSound(k)'
        BY <2>3, <2>6, <2>9
      <3>2. policy' = "next_rebalance" => \A j, k \in DOMAIN targets' : j < k => targets'[j].at < targets'[k].at
        <4> SUFFICES ASSUME policy = "next_rebalance", NEW j \in DOMAIN targets', NEW k \in DOMAIN targets', j < k
                     PROVE  targets'[j].at < targets'[k].at
          OBVIOUS
        <4>1. j \in DOMAIN targets
          BY <2>2
        <4>2. CASE k \in DOMAIN targets
          BY <2>2, <4>1, <4>2 DEF TargetsAreSound
        <4>3. CASE k = n
          BY <1>1, <2>2, <2>7, <4>1, <4>3
        <4> QED
          BY <2>3, <4>2, <4>3
      <3> QED
        BY <3>1, <3>2 DEF TargetsAreSound
    <2>11. \A e \in Sessions : e <= s => SameRows(e)
      BY <1>1, <1>6 DEF SameRows
    <2> QED
      BY <2>2, <2>4, <2>5, <2>10, <2>11
  <1>7. targets' = targets \/ (targets' = Append(targets, row) /\ Stored(row.at, row.kind, row.n) = {})
    BY Zenon DEF Saved
  <1> QED
    BY <1>5, <1>6, <1>7

-----------------------------------------------------------------------------
(* What a step leaves of the replay.                                       *)

\* Days, rows and cards only come after those that are there.
Stands ==
    /\ calendar' \subseteq Sessions /\ Cal(ran) \subseteq Cal(ran)'
    /\ \A e \in Cal(ran) : SameDays(e) /\ SameCards(e) /\ SameRows(e)

LEMMA ReplayStands ==
    ASSUME Typed, Stands
    PROVE  \A e \in Cal(ran) : /\ \A sleeve, x : HeldAt(sleeve, x, e)' = HeldAt(sleeve, x, e)
                               /\ BookAt(e)' = BookAt(e)
  <1> SUFFICES ASSUME NEW e \in Cal(ran)
               PROVE  /\ \A sleeve, x : HeldAt(sleeve, x, e)' = HeldAt(sleeve, x, e)
                      /\ BookAt(e)' = BookAt(e)
    OBVIOUS
  <1>1. e \in Sessions
    BY DEF Cal, Typed
  <1> QED
    BY <1>1, HeldStands DEF Stands, Typed

LEMMA HistoryStands ==
    ASSUME Typed, Stands, DecisionsAreDated, NEW c \in cards
    PROVE  (NotFilled(c) => NotFilled(c)') /\ (Over(c) => Over(c)')
  <1>1. c.at \in Cal(ran)
    BY DEF DecisionsAreDated
  <1>2. \A e \in Cal(ran) : e \in Cal(ran)' /\ HeldAt(c.sleeve, c.name, e)' = HeldAt(c.sleeve, c.name, e)
    BY ReplayStands DEF Stands
  <1>3. NotFilled(c) => NotFilled(c)'
    BY <1>1, <1>2 DEF NotFilled
  <1>4. Over(c) => Over(c)'
    BY <1>1, <1>2 DEF Over
  <1> QED
    BY <1>3, <1>4

LEMMA SnapsStayTrue ==
    ASSUME Typed, Stands, SnapsAreTrue, snaps' = snaps
    PROVE  SnapsAreTrue'
  BY ReplayStands DEF SnapsAreTrue, Stands

LEMMA SettledStaySettled ==
    ASSUME Typed, Stands, DecisionsAreDated, SettledIsSettled,
           \A c \in cards' : status'[c] \in {"skipped", "closed"} => c \in cards /\ status'[c] = status[c]
    PROVE  SettledIsSettled'
  BY HistoryStands DEF SettledIsSettled

\* The tables are what the calendar, the rows and the cards make of them.
LEMMA SameReplay ==
    ASSUME UNCHANGED <<calendar, targets, cards>>
    PROVE  /\ \A d : Cal(d)' = Cal(d) /\ OrdersUpTo(d)' = OrdersUpTo(d)
           /\ \A d : PositionsUpTo(d)' = PositionsUpTo(d)
           /\ \A c, d : StatusUpTo(c, d)' = StatusUpTo(c, d)
           /\ \A e : BookAt(e)' = BookAt(e)
  <1>1. \A s, e : Between(s, e)' = Between(s, e)
    BY DEF Between
  <1>2. \A x : Taken(x)' = Taken(x)
    <2> SUFFICES ASSUME NEW x PROVE Taken(x)' = Taken(x)
      OBVIOUS
    <2>1. PICK S : S = Taken(x)
      OBVIOUS
    <2>2. PICK T : T = Taken(x)'
      OBVIOUS
    <2>3. PICK P : P = {s \in Sessions : Asks(x, s)}
      OBVIOUS
    <2>4. PICK R : R = {p \in Sessions \X Sessions : Between(p[1], p[2]) > HOLD}
      OBVIOUS
    <2>5. \A t, s \in Sessions : <<t, s>> \in R <=> Between(t, s) > HOLD
      BY <2>4
    <2>6. Grown(S, P, R)
      BY <2>1, <2>3, <2>5, TakenIs DEF TakenAre, Grown
    <2>7. Grown(T, P, R)
      <3>1. TakenAre(x)'
        BY TakenIsNext
      <3>2. \A s : Asks(x, s)' <=> Asks(x, s)
        BY DEF Asks
      <3>3. \A s \in Sessions : Asks(x, s)' <=> s \in P
        BY <2>3, <3>2
      <3>4. \A t, s \in Sessions : <<t, s>> \in R <=> Between(t, s)' > HOLD
        BY <1>1, <2>5
      <3>5. T \subseteq Sessions
        BY <2>2, <3>1 DEF TakenAre
      <3>6. \A s \in Sessions : s \in T <=> s \in P /\ \A t \in T : t < s => <<t, s>> \in R
        BY <2>2, <3>1, <3>3, <3>4, <3>5 DEF TakenAre
      <3> QED
        BY <3>5, <3>6 DEF Grown
    <2>8. Last + 1 \in Nat /\ \A s \in Sessions : s < Last + 1
      BY Facts
    <2>9. AlikeBefore(Last + 1, P, P, R, R)
      BY DEF AlikeBefore
    <2>10. \A s \in Sessions : s \in S <=> s \in T
      BY <2>6, <2>7, <2>8, <2>9, TakenAgree
    <2>11. S = T
      BY <2>6, <2>7, <2>10 DEF Grown
    <2> QED
      BY <2>1, <2>2, <2>11
  <1>3. \A D : CurrentOn(D)' = CurrentOn(D)
    BY DEF CurrentOn, LatestOn, Earlier
  <1>4. \A d : Cal(d)' = Cal(d)
    BY DEF Cal
  <1>5. \A x, e : InvestAt(x, e)' = InvestAt(x, e)
    BY <1>3 DEF InvestAt, Traded
  <1>6. \A sleeve, x, e : HeldAt(sleeve, x, e)' = HeldAt(sleeve, x, e)
    BY <1>1, <1>2, <1>5 DEF HeldAt, SwingAt, Traded
  <1>7. \A sleeve, x, e, d : Closing(sleeve, x, e, d)' = Closing(sleeve, x, e, d)
    BY <1>4, <1>6, Zenon DEF Closing
  <1>8. \A d : OrdersUpTo(d)' = OrdersUpTo(d)
    BY <1>2, <1>3, <1>4, <1>5, Zenon DEF OrdersUpTo
  <1>9. \A sleeve, x, e : Opens(sleeve, x, e)' = Opens(sleeve, x, e)
    BY <1>4, <1>6, Zenon DEF Opens
  <1>10. \A d : PositionsUpTo(d)' = PositionsUpTo(d)
    BY <1>4, <1>7, <1>9, Zenon DEF PositionsUpTo
  <1>11. \A c, d : StatusUpTo(c, d)' = StatusUpTo(c, d)
    BY <1>4, <1>6, <1>7, Zenon DEF StatusUpTo
  <1>12. \A e : BookAt(e)' = BookAt(e)
    <2> SUFFICES ASSUME NEW e PROVE BookAt(e)' = BookAt(e)
      OBVIOUS
    <2>1. \A h : h \in BookAt(e)' <=> h \in BookAt(e)
      BY <1>6 DEF BookAt
    <2>2. PICK S : S = BookAt(e)
      OBVIOUS
    <2>3. PICK T : T = BookAt(e)'
      OBVIOUS
    <2>4. \A h : h \in T <=> h \in S
      BY <2>1, <2>2, <2>3
    <2>5. T = S
      BY <2>4
    <2> QED
      BY <2>2, <2>3, <2>5
  <1> QED
    BY <1>4, <1>8, <1>10, <1>11, <1>12

LEMMA DaysOfARun ==
    ASSUME Typed, CalendarIsWhole, ran \in Nat, NEW s, LastOf(s, ran)
    PROVE  s \in Sessions /\ Cal(s) = Cal(ran) /\ \A t \in Sessions : t <= s => t \in Cal(s)
  <1>1. s \in calendar /\ s <= ran /\ s \in Sessions /\ s \in Nat
    BY Facts DEF LastOf, Cal, Typed
  <1>2. \A t \in Cal(ran) : t \in Cal(s)
    BY DEF LastOf, Cal
  <1>3. \A t \in Sessions : t <= s => t \in Cal(s)
    BY <1>1, Facts DEF CalendarIsWhole, Cal
  <1>4. \A t \in Cal(s) : t \in Cal(ran)
    <2>1. \A t \in Sessions : t <= s => t <= ran
      BY <1>1, Facts
    <2> QED
      BY <2>1 DEF Cal, Typed
  <1>5. Cal(s) = Cal(ran)
    BY <1>2, <1>4
  <1> QED
    BY <1>1, <1>3, <1>5

\* What step_state says of a card says that it was not filled, or is over.
LEMMA StatusTells ==
    ASSUME Typed, CalendarIsWhole, DecisionsAreDated, ran \in Nat, NEW s, LastOf(s, ran), NEW c \in cards
    PROVE  /\ c.at <= s
           /\ StatusUpTo(c, s) = "skipped" <=> NotFilled(c)
           /\ StatusUpTo(c, s) = "closed" <=> Over(c)
  <1>1. s \in Sessions /\ Cal(s) = Cal(ran) /\ \A t \in Sessions : t <= s => t \in Cal(s)
    BY DaysOfARun
  <1>2. c.at \in Cal(ran) /\ c.at \in Sessions /\ c.at <= s /\ c.name \in Names
    BY DEF DecisionsAreDated, LastOf, Typed, Card
  <1>3. \A t \in Cal(ran) : t <= s /\ t \in Nat
    BY Facts DEF LastOf, Cal, Typed
  <1>4. c.at \in Nat /\ s \in Nat
    BY <1>1, <1>2, Facts
  <1>5. CASE c.at = s
    <2>1. StatusUpTo(c, s) = "pending"
      BY <1>5 DEF StatusUpTo
    <2>2. c.at + 1 \notin Cal(ran)
      BY <1>3, <1>4, <1>5
    <2> QED
      BY <1>2, <2>1, <2>2 DEF NotFilled, Over
  <1>6. CASE c.at # s
    <2>1. PICK e : e = c.at + 1
      OBVIOUS
    <2>2. e \in Nat /\ e <= s /\ e \in Sessions
      BY <1>1, <1>2, <1>4, <1>6, <2>1, Facts
    <2>3. e \in Cal(s) /\ e \in Cal(ran)
      BY <1>1, <2>2
    <2>4. PICK F : F = {x \in Cal(s) : x > c.at}
      OBVIOUS
    <2>5. F \subseteq Nat /\ e \in F /\ \A m \in F : e <= m
      <3>1. F \subseteq Nat /\ \A m \in F : m > c.at
        BY <1>1, <1>3, <2>4
      <3>2. e > c.at
        BY <1>4, <2>1
      <3>3. e \in F
        BY <2>3, <2>4, <3>2
      <3>4. \A m \in F : e <= m
        BY <1>4, <2>1, <3>1
      <3> QED
        BY <3>1, <3>3, <3>4
    <2>6. Min(F) = e
      BY <2>5, LeastIs
    <2>7. PICK b : b = HeldAt(c.sleeve, c.name, c.at)
      OBVIOUS
    <2>8. PICK h : h = HeldAt(c.sleeve, c.name, e)
      OBVIOUS
    <2>9. b \in Nat /\ h \in Nat
      <3>1. b \in 0..UNIT /\ h \in 0..UNIT
        BY <1>2, <2>7, <2>8, HeldIsAWeight
      <3> QED
        BY <3>1
    <2>10. StatusUpTo(c, s) = IF h <= b THEN "skipped"
                              ELSE IF b = 0 /\ Closing(c.sleeve, c.name, e, s) # None THEN "closed"
                              ELSE "holding"
      BY <1>6, <2>4, <2>6, <2>7, <2>8, Zenon DEF StatusUpTo
    <2>11. Closing(c.sleeve, c.name, e, s) # None
              <=> \E q \in Cal(ran) : q > e /\ HeldAt(c.sleeve, c.name, q) = 0
      BY <1>1, ClosingIs
    <2>12. NotFilled(c) <=> h <= b
      BY <2>1, <2>3, <2>7, <2>8 DEF NotFilled
    <2>13. Over(c) <=> b = 0 /\ h > 0 /\ Closing(c.sleeve, c.name, e, s) # None
      BY <2>1, <2>3, <2>7, <2>8, <2>11 DEF Over
    <2>14. b = 0 => (h > 0 <=> ~ (h <= b))
      BY <2>9
    <2> QED
      BY <1>2, <2>9, <2>10, <2>12, <2>13, <2>14
  <1> QED
    BY <1>5, <1>6

-----------------------------------------------------------------------------
(* What the steps leave of the history.                                    *)

History ==
    CalendarIsWhole /\ DecisionsAreDated /\ TargetsAreSound /\ SnapsAreTrue /\ SettledIsSettled

LEMMA CalGrows ==
    ASSUME calendar \subseteq Sessions, calendar \subseteq calendar', ran \in Nat, ran' \in Nat, ran <= ran'
    PROVE  Cal(ran) \subseteq Cal(ran)'
  <1>1. \A s \in Sessions : s <= ran => s <= ran'
    BY Facts
  <1> QED
    BY <1>1 DEF Cal

\* Nothing the replay reads changes: a new day, a new run, a step that failed.
LEMMA QuietKeeps ==
    ASSUME Typed, History, UNCHANGED <<calendar, stored, targets, cards, status, snaps, policy>>,
           ran \in Nat, ran' \in Nat, ran <= ran'
    PROVE  History'
  <1> USE DEF History
  <1>1. CalendarIsWhole'
    BY DEF CalendarIsWhole, Trading
  <1>2. Cal(ran) \subseteq Cal(ran)'
    BY CalGrows DEF Typed
  <1>3. Stands
    BY <1>2 DEF Stands, Typed, SameDays, SameCards, SameRows, Asks
  <1>4. DecisionsAreDated'
    BY <1>2 DEF DecisionsAreDated
  <1>5. \A e \in Sessions : SameDays(e)
    BY DEF SameDays
  <1>6. \A k \in DOMAIN targets : RowIsSound(k)'
    BY <1>5, RowsAreTyped, RowsStaySound DEF TargetsAreSound, Typed
  <1>7. TargetsAreSound'
    BY <1>6 DEF TargetsAreSound
  <1>8. SnapsAreTrue'
    BY <1>3, SnapsStayTrue
  <1>9. SettledIsSettled'
    BY <1>3, SettledStaySettled
  <1> QED
    BY <1>1, <1>4, <1>7, <1>8, <1>9

\* The calendar takes the sessions that have bars.
LEMMA CalendarKeeps ==
    ASSUME Typed, History, UNCHANGED <<stored, targets, cards, status, snaps, policy, ran>>,
           ran \in Nat, calendar' = Trading
    PROVE  History' /\ calendar' \subseteq Sessions
  <1> USE DEF History
  <1>1. calendar' \subseteq Sessions /\ calendar \subseteq calendar'
    BY DEF Trading, CalendarIsWhole
  <1>2. CalendarIsWhole'
    <2>1. Trading' = Trading
      BY DEF Trading
    <2>2. \A s \in Trading, t \in Sessions : t < s => t \in Trading
      BY DEF Trading, CalendarIsWhole
    <2> QED
      BY <2>1, <2>2 DEF CalendarIsWhole
  <1>3. Cal(ran) \subseteq Cal(ran)'
    BY <1>1, CalGrows DEF Typed
  <1>4. \A e \in calendar : SameDays(e)
    <2> SUFFICES ASSUME NEW e \in calendar, NEW y \in Sessions, y <= e PROVE y \in calendar' <=> y \in calendar
      BY DEF SameDays
    <2>1. y = e \/ y < e
      BY Facts DEF Typed
    <2>2. y \in calendar
      BY <2>1 DEF CalendarIsWhole
    <2> QED
      BY <1>1, <2>2
  <1>5. Stands
    BY <1>1, <1>3, <1>4 DEF Stands, Cal, SameCards, SameRows, Asks
  <1>6. DecisionsAreDated'
    BY <1>3 DEF DecisionsAreDated
  <1>7. \A k \in DOMAIN targets : SameDays(targets[k].at)
    BY <1>4 DEF DecisionsAreDated, Cal
  <1>8. \A k \in DOMAIN targets : RowIsSound(k)'
    BY <1>1, <1>7, RowsStaySound DEF TargetsAreSound, Typed
  <1>9. TargetsAreSound'
    BY <1>8 DEF TargetsAreSound
  <1>10. SnapsAreTrue'
    BY <1>5, SnapsStayTrue
  <1>11. SettledIsSettled'
    BY <1>5, SettledStaySettled
  <1> QED
    BY <1>1, <1>2, <1>6, <1>9, <1>10, <1>11

\* A row is written on the session the run works on.
LEMMA RowKeeps ==
    ASSUME Typed, History, UNCHANGED <<stored, calendar, cards, status, snaps, policy, ran>>,
           ran \in Nat, NEW s, LastOf(s, ran),
           targets' = targets \/ \E row : (StepRow(row, s) \/ ExitRowIs(row, s)) /\ targets' = Saved(row)
    PROVE  History' /\ targets' \in Seq(Target)
  <1> USE DEF History
  <1>1. CASE targets' = targets
    BY <1>1, QuietKeeps DEF Typed
  <1>2. CASE \E row : (StepRow(row, s) \/ ExitRowIs(row, s)) /\ targets' = Saved(row)
    <2>1. PICK row : (StepRow(row, s) \/ ExitRowIs(row, s)) /\ targets' = Saved(row)
      BY <1>2
    <2>2. /\ targets' \in Seq(Target) /\ TargetsAreSound'
          /\ \A k \in DOMAIN targets' : targets'[k].at \in Cal(ran)'
          /\ \A j, k \in DOMAIN targets' : j < k => targets'[j].at <= targets'[k].at
          /\ \A e \in Sessions : e <= s => SameRows(e)
      BY <2>1, SavedIs
    <2>3. CalendarIsWhole'
      BY DEF CalendarIsWhole, Trading
    <2>4. Cal(ran)' = Cal(ran)
      BY DEF Cal
    <2>5. DecisionsAreDated'
      BY <2>2, <2>4 DEF DecisionsAreDated
    <2>6. Stands
      <3>1. \A e \in Cal(ran) : e \in Sessions /\ e <= s
        BY DEF LastOf, Cal, Typed
      <3> QED
        BY <2>2, <2>4, <3>1 DEF Stands, SameDays, SameCards, Asks, Typed
    <2>7. SnapsAreTrue'
      BY <2>6, SnapsStayTrue
    <2>8. SettledIsSettled'
      BY <2>6, SettledStaySettled
    <2> QED
      BY <2>2, <2>3, <2>5, <2>7, <2>8
  <1> QED
    BY <1>1, <1>2

\* The cards of the session the run works on are stored.
LEMMA CardsKeep ==
    ASSUME Typed, History, UNCHANGED <<stored, calendar, targets, snaps, policy, ran>>,
           ran \in Nat, NEW s, LastOf(s, ran), NEW new, \A c \in new : c.at = s, cards' = cards \union new,
           status' = [c \in cards' |-> IF c \in cards THEN status[c] ELSE "pending"]
    PROVE  History'
  <1> USE DEF History
  <1>1. CalendarIsWhole'
    BY DEF CalendarIsWhole, Trading
  <1>2. Cal(ran)' = Cal(ran)
    BY DEF Cal
  <1>3. \A e \in Cal(ran) : SameCards(e)
    <2> SUFFICES ASSUME NEW e \in Cal(ran), NEW x, NEW t \in Sessions, t < e
                 PROVE  Asks(x, t)' <=> Asks(x, t)
      BY DEF SameCards
    <2>1. t # s
      <3>1. e <= s /\ e \in Sessions
        BY DEF LastOf, Cal, Typed
      <3> QED
        BY <3>1, Facts
    <2>2. [sleeve |-> "swing", name |-> x, at |-> t] \notin new
      BY <2>1
    <2> QED
      BY <2>2 DEF Asks
  <1>4. Stands
    BY <1>2, <1>3 DEF Stands, SameDays, SameRows, Typed
  <1>5. DecisionsAreDated'
    BY <1>2 DEF DecisionsAreDated, LastOf
  <1>6. \A e \in Sessions : SameDays(e)
    BY DEF SameDays
  <1>7. \A k \in DOMAIN targets : RowIsSound(k)'
    BY <1>6, RowsAreTyped, RowsStaySound DEF TargetsAreSound, Typed
  <1>8. TargetsAreSound'
    BY <1>7 DEF TargetsAreSound
  <1>9. SnapsAreTrue'
    BY <1>4, SnapsStayTrue
  <1>10. SettledIsSettled'
    <2>1. \A c \in cards' : status'[c] \in {"skipped", "closed"} => c \in cards /\ status'[c] = status[c]
      OBVIOUS
    <2> QED
      BY <1>4, <2>1, SettledStaySettled
  <1> QED
    BY <1>1, <1>5, <1>8, <1>9, <1>10

\* The replay writes what it found of sessions and of cards.
LEMMA SnapshotsKeep ==
    ASSUME Typed, History, UNCHANGED <<stored, calendar, targets, cards, status, policy, ran>>,
           ran \in Nat, NEW s, LastOf(s, ran),
           snaps' = [e \in Sessions |-> IF e \in Cal(s) THEN BookAt(e) ELSE snaps[e]]
    PROVE  /\ History' /\ SnapsAre(s)'
           /\ \A e \in Sessions : snaps[e] # None => snaps'[e] = snaps[e]
  <1> USE DEF History
  <1>1. Cal(s) = Cal(ran) /\ Cal(s)' = Cal(s) /\ Cal(ran)' = Cal(ran)
    BY DaysOfARun DEF Cal
  <1>2. \A e : BookAt(e)' = BookAt(e)
    BY SameReplay
  <1>3. \A e \in Sessions : snaps[e] # None => e \in Cal(s) /\ snaps[e] = BookAt(e)
    BY <1>1 DEF SnapsAreTrue
  <1>4. \A e \in Sessions : snaps'[e] = IF e \in Cal(s) THEN BookAt(e) ELSE None
    BY <1>3
  <1>5. SnapsAre(s)'
    BY <1>1, <1>2, <1>4 DEF SnapsAre
  <1>6. SnapsAreTrue'
    BY <1>1, <1>2, <1>4 DEF SnapsAreTrue
  <1>7. Stands
    BY <1>1 DEF Stands, Typed, SameDays, SameCards, SameRows, Asks
  <1>8. \A k \in DOMAIN targets : RowIsSound(k)'
    <2>1. \A e \in Sessions : SameDays(e)
      BY DEF SameDays
    <2> QED
      BY <2>1, RowsAreTyped, RowsStaySound DEF TargetsAreSound, Typed
  <1>9. TargetsAreSound' /\ DecisionsAreDated' /\ CalendarIsWhole'
    BY <1>1, <1>8 DEF TargetsAreSound, DecisionsAreDated, CalendarIsWhole, Trading
  <1>10. SettledIsSettled'
    BY <1>7, SettledStaySettled
  <1>11. \A e \in Sessions : snaps[e] # None => snaps'[e] = snaps[e]
    BY <1>3
  <1> QED
    BY <1>5, <1>6, <1>9, <1>10, <1>11

LEMMA StatusesKeep ==
    ASSUME Typed, History, status \in [cards -> Statuses],
           UNCHANGED <<stored, calendar, targets, cards, snaps, policy, ran>>,
           ran \in Nat, NEW s, LastOf(s, ran),
           status' = [c \in cards |-> IF c.at <= s THEN StatusUpTo(c, s) ELSE status[c]]
    PROVE  /\ History' /\ StatusIs(s)' /\ status' \in [cards -> Statuses]
           /\ Open' \subseteq Open
  <1> USE DEF History
  <1>1. \A c \in cards : /\ c.at <= s /\ status'[c] = StatusUpTo(c, s)
                         /\ StatusUpTo(c, s) = "skipped" <=> NotFilled(c)
                         /\ StatusUpTo(c, s) = "closed" <=> Over(c)
    BY StatusTells
  <1>2. Cal(ran)' = Cal(ran)
    BY DEF Cal
  <1>3. Stands
    BY <1>2 DEF Stands, Typed, SameDays, SameCards, SameRows, Asks
  <1>4. SettledIsSettled'
    BY <1>1, <1>3, HistoryStands DEF SettledIsSettled
  <1>5. SnapsAreTrue'
    BY <1>3, SnapsStayTrue
  <1>6. \A k \in DOMAIN targets : RowIsSound(k)'
    <2>1. \A e \in Sessions : SameDays(e)
      BY DEF SameDays
    <2> QED
      BY <2>1, RowsAreTyped, RowsStaySound DEF TargetsAreSound, Typed
  <1>7. TargetsAreSound' /\ DecisionsAreDated' /\ CalendarIsWhole'
    BY <1>2, <1>6 DEF TargetsAreSound, DecisionsAreDated, CalendarIsWhole, Trading
  <1>8. StatusIs(s)'
    <2>1. \A c : StatusUpTo(c, s)' = StatusUpTo(c, s)
      BY SameReplay
    <2> QED
      BY <1>1, <2>1 DEF StatusIs
  <1>9. status' \in [cards -> Statuses]
    BY <1>1, StatusIsTyped
  <1>10. Open' \subseteq Open
    <2> SUFFICES ASSUME NEW c \in cards, status'[c] \in {"pending", "holding"}
                 PROVE  status[c] \in {"pending", "holding"}
      BY DEF Open
    <2>1. status[c] \in Statuses
      OBVIOUS
    <2>2. status[c] # "skipped" /\ status[c] # "closed"
      BY <1>1 DEF SettledIsSettled
    <2> QED
      BY <2>1, <2>2 DEF Statuses
  <1> QED
    BY <1>4, <1>5, <1>7, <1>8, <1>9, <1>10

-----------------------------------------------------------------------------
(* Where the run stands.                                                   *)

LEMMA Going ==
    ASSUME run \in Run, NEW p \in Steps, Go(p)
    PROVE  /\ run' \in Run /\ run'.pc = p /\ run'.asof = run.asof /\ run'.session = run.session
           /\ run'.ok = run.ok /\ run'.issue = run.issue /\ run'.drafts = run.drafts
  BY DEF Go, Run

LEMMA Failing ==
    ASSUME run \in Run, faults \in 0..FAULTS, NEW p \in Steps, Failed(p)
    PROVE  /\ run' \in Run /\ run'.pc = p /\ run'.asof = run.asof /\ run'.session = run.session
           /\ run'.ok = FALSE /\ run'.drafts = run.drafts /\ faults' \in 0..FAULTS
  <1>1. faults' \in 0..FAULTS
    BY DEF Failed, Fault
  <1>2. run' = [run EXCEPT !.pc = p, !.ok = FALSE]
    BY DEF Failed
  <1> QED
    BY <1>1, <1>2 DEF Run

LEMMA Idling ==
    ASSUME run' = Idle
    PROVE  run' \in Run /\ run'.pc = "idle" /\ run'.drafts = {}
  <1>1. 1 \in Sessions /\ 0 \in 0..Last
    BY Facts
  <1> QED
    BY <1>1 DEF Idle, Run, Steps

LEMMA NoDrafts ==
    ASSUME RunIsLatest, ~ At("store")
    PROVE  run.drafts = {}
  BY DEF RunIsLatest

LEMMA IdleIsLatest ==
    ASSUME run' = Idle
    PROVE  RunIsLatest'
  BY Idling DEF RunIsLatest, Working, At

LEMMA RunStaysLatest ==
    ASSUME RunIsLatest, UNCHANGED <<calendar, ran>>, ~ At("idle"), run'.asof = run.asof,
           run'.session = run.session, run'.drafts = {}, Working' => Working
    PROVE  RunIsLatest'
  <1>1. Working' => LastOf(run.session, ran)'
    BY DEF RunIsLatest, LastOf, Cal
  <1> QED
    BY <1>1 DEF RunIsLatest, At, LastOf, Cal

\* A run that has failed, or has written no table yet, promises nothing.
LEMMA NoNews ==
    ASSUME \/ run'.pc # "idle" /\ (run'.ok = FALSE \/ run'.pc \in {"universe", "ingest", "calendar", "features", "flags"})
           \/ run'.pc = "idle" /\ (done' = None \/ done'.ok = FALSE)
    PROVE  Progress'
  BY DEF Progress, After, At

ProgressAt(s, t) ==
    /\ After({"cards", "store", "orders", "positions", "snapshots", "recommendations", "finish"})
          => FlagsAre(s)
    /\ After({"positions", "snapshots", "recommendations", "finish"}) => orders = OrdersUpTo(s)
    /\ After({"snapshots", "recommendations", "finish"}) => positions = PositionsUpTo(s)
    /\ After({"recommendations", "finish"}) => SnapsAre(s)
    /\ After({"finish"}) => StatusIs(s)
    /\ At("idle") /\ done # None /\ done.ok =>
          /\ LastOf(t, ran) /\ FlagsAre(t) /\ orders = OrdersUpTo(t)
          /\ positions = PositionsUpTo(t) /\ SnapsAre(t) /\ StatusIs(t)

LEMMA ProgressIs == \A s, t : s = run.session /\ t = done.session => (Progress <=> ProgressAt(s, t))
  BY DEF Progress, ProgressAt
LEMMA ProgressIsNext ==
    (\A s, t : s = run.session /\ t = done.session => (Progress <=> ProgressAt(s, t)))'
  BY ProgressIs, PTL

LEMMA TablesStay ==
    ASSUME UNCHANGED <<calendar, targets, cards>>
    PROVE  /\ \A s : OrdersUpTo(s)' = OrdersUpTo(s) /\ PositionsUpTo(s)' = PositionsUpTo(s)
           /\ snaps' = snaps => \A s : SnapsAre(s)' <=> SnapsAre(s)
           /\ status' = status => \A s : StatusIs(s)' <=> StatusIs(s)
           /\ status' = status /\ UNCHANGED <<flagged, members>> => \A s : FlagsAre(s)' <=> FlagsAre(s)
           /\ ran' = ran => \A s : LastOf(s, ran)' <=> LastOf(s, ran)
  <1>1. \A s : OrdersUpTo(s)' = OrdersUpTo(s) /\ PositionsUpTo(s)' = PositionsUpTo(s)
    BY SameReplay
  <1>2. snaps' = snaps => \A s : SnapsAre(s)' <=> SnapsAre(s)
    BY SameReplay DEF SnapsAre
  <1>3. status' = status => \A s : StatusIs(s)' <=> StatusIs(s)
    BY SameReplay DEF StatusIs
  <1>4. status' = status /\ UNCHANGED <<flagged, members>> => \A s : FlagsAre(s)' <=> FlagsAre(s)
    BY DEF FlagsAre, Open
  <1>5. ran' = ran => \A s : LastOf(s, ran)' <=> LastOf(s, ran)
    BY DEF LastOf, Cal
  <1> QED
    BY <1>1, <1>2, <1>3, <1>4, <1>5

LEMMA InvIs == RecordInv <=> TypeOK /\ History /\ RunIsLatest /\ Progress
  BY DEF RecordInv, History
LEMMA InvIsNext == (RecordInv <=> TypeOK /\ History /\ RunIsLatest /\ Progress)'
  BY InvIs, PTL

LEMMA TypesGive ==
    ASSUME TypeOK
    PROVE  /\ Typed /\ run \in Run /\ ran \in Nat /\ run.asof \in Sessions /\ faults \in 0..FAULTS
           /\ \A s \in Sessions : members[s] \subseteq Names
  BY Facts DEF TypeOK, Typed, Run

-----------------------------------------------------------------------------
(* The steps that write nothing of the record.                             *)

LEMMA RecordStarts == Init => RecordInv
  <1> SUFFICES ASSUME Init PROVE RecordInv
    OBVIOUS
  <1>1. TypeOK
    <2>1. /\ today \in Sessions /\ file \in Files /\ policy \in Policies
          /\ ran \in 0..Last /\ faults \in 0..FAULTS /\ edits \in 0..EDITS
      BY Facts DEF Init
    <2>2. members \in [Sessions -> SUBSET Names] /\ stored \in [Sessions -> {"none", "thin", "full"}]
      BY DEF Init
    <2>3. run \in Run
      BY Facts DEF Init, Idle, Run, Steps
    <2>4. status \in [cards -> Statuses]
      BY DEF Init
    <2> QED
      BY <2>1, <2>2, <2>3, <2>4 DEF Init, TypeOK
  <1>2. History
    BY DEF Init, History, CalendarIsWhole, Trading, DecisionsAreDated, TargetsAreSound, SnapsAreTrue,
           SettledIsSettled
  <1>3. RunIsLatest /\ Progress
    BY DEF Init, Idle, RunIsLatest, Working, At, Progress, After
  <1> QED
    BY <1>1, <1>2, <1>3, InvIs

\* A day passes, the operator edits the file, or nothing happens.
LEMMA WaitStep ==
    ASSUME RecordInv, NextDay \/ EditFile \/ UNCHANGED vars
    PROVE  RecordInv' /\ snaps' = snaps
  <1> USE DEF world, data, decisions, marks, tables, vars
  <1>1. /\ UNCHANGED <<policy, members, stored, calendar, targets, cards, status, flagged, orders, positions, snaps>>
        /\ UNCHANGED <<run, done, ran, faults>>
    BY DEF NextDay, EditFile
  <1>2. TypeOK /\ History /\ RunIsLatest /\ Progress
    BY InvIs
  <1>3. today' \in Sessions /\ file' \in Files /\ edits' \in 0..EDITS
    <2>1. today \in 1..Last /\ file \in Files /\ edits \in 0..EDITS
      BY <1>2, Facts DEF TypeOK
    <2>2. today' \in 1..Last
      BY <2>1, Facts DEF NextDay, EditFile
    <2>3. edits' \in 0..EDITS
      BY <2>1, RecordAssumption DEF NextDay, EditFile
    <2> QED
      BY <2>1, <2>2, <2>3, Facts DEF NextDay, EditFile
  <1>4. TypeOK'
    BY <1>1, <1>2, <1>3 DEF TypeOK
  <1>5. History'
    <2>1. Typed /\ ran \in Nat /\ ran' \in Nat /\ ran <= ran'
      BY <1>1, <1>2, TypesGive
    <2> QED
      BY <1>1, <1>2, <2>1, QuietKeeps
  <1>6. RunIsLatest'
    BY <1>1, <1>2 DEF RunIsLatest, Working, At, LastOf, Cal
  <1>7. Progress'
    <2>1. PICK s : s = run.session
      OBVIOUS
    <2>2. PICK t : t = done.session
      OBVIOUS
    <2>3. ProgressAt(s, t)
      BY <1>2, <2>1, <2>2, ProgressIs
    <2>4. ProgressAt(s, t)'
      BY <1>1, <2>3, TablesStay DEF ProgressAt, After, At
    <2> QED
      BY <1>1, <2>1, <2>2, <2>4, ProgressIsNext
  <1> QED
    BY <1>1, <1>4, <1>5, <1>6, <1>7, InvIsNext

\* A run starts or is killed, the universe file is applied, a step before the
\* calendar fails.
LEMMA StartStep ==
    ASSUME RecordInv, Start
    PROVE  RecordInv'
  <1> USE DEF world, data, decisions, marks, tables
  <1>1. TypeOK /\ History /\ Typed /\ ran \in Nat
    BY InvIs, TypesGive
  <1>2. PICK d \in 1..today : ran <= d /\ run' = [Idle EXCEPT !.pc = "universe", !.asof = d] /\ ran' = d
    BY DEF Start
  <1>3. d \in Sessions /\ d \in 0..Last
    BY <1>1, Facts DEF TypeOK
  <1>4. run' \in Run /\ run'.pc = "universe" /\ run'.asof = d /\ run'.drafts = {}
    <2>1. Idle \in Run /\ Idle.drafts = {}
      BY Facts DEF Idle, Run, Steps
    <2> QED
      BY <1>2, <1>3, <2>1 DEF Run, Steps
  <1>5. TypeOK'
    BY <1>1, <1>2, <1>3, <1>4 DEF TypeOK, Start
  <1>6. History'
    BY <1>1, <1>2, <1>3, QuietKeeps, Facts DEF Start
  <1>7. RunIsLatest'
    BY <1>2, <1>4 DEF RunIsLatest, Working, At
  <1>8. Progress'
    BY <1>4, NoNews
  <1> QED
    BY <1>5, <1>6, <1>7, <1>8, InvIsNext

LEMMA KillStep ==
    ASSUME RecordInv, Kill
    PROVE  RecordInv'
  <1> USE DEF world, data, decisions, marks, tables
  <1>1. TypeOK /\ History /\ Typed /\ ran \in Nat /\ faults \in 0..FAULTS
    BY InvIs, TypesGive
  <1>2. run' = Idle /\ run' \in Run /\ run'.pc = "idle" /\ done' = None
    BY Idling DEF Kill
  <1>3. faults' \in 0..FAULTS
    BY <1>1 DEF Kill, Fault
  <1>4. TypeOK'
    BY <1>1, <1>2, <1>3 DEF TypeOK, Kill
  <1>5. History'
    BY <1>1, QuietKeeps DEF Kill
  <1>6. RunIsLatest' /\ Progress'
    BY <1>2, IdleIsLatest, NoNews
  <1> QED
    BY <1>4, <1>5, <1>6, InvIsNext

LEMMA EarlyStep ==
    ASSUME RecordInv, ApplyUniverse \/ UniverseFails \/ IngestFails
    PROVE  RecordInv'
  <1> USE DEF world, data, decisions, marks, tables
  <1>1. TypeOK /\ History /\ RunIsLatest /\ Typed /\ ran \in Nat /\ faults \in 0..FAULTS /\ run \in Run
    BY InvIs, TypesGive
  <1>2. run.drafts = {} /\ ~ At("idle")
    BY <1>1, NoDrafts DEF ApplyUniverse, UniverseFails, IngestFails, At
  <1>3. /\ run' \in Run /\ run'.pc \in {"ingest", "calendar"} /\ run'.asof = run.asof
        /\ run'.drafts = {} /\ faults' \in 0..FAULTS
    <2>1. CASE ApplyUniverse
      BY <1>1, <1>2, <2>1, Going DEF ApplyUniverse, Steps
    <2>2. CASE UniverseFails
      BY <1>1, <1>2, <2>2, Failing DEF UniverseFails, Steps
    <2>3. CASE IngestFails
      BY <1>1, <1>2, <2>3, Failing DEF IngestFails, Steps
    <2> QED
      BY <2>1, <2>2, <2>3
  <1>4. members' \in [Sessions -> SUBSET Names]
    <2>1. file \in SUBSET Names
      BY <1>1, RecordAssumption DEF TypeOK
    <2> QED
      BY <1>1, <2>1 DEF TypeOK, ApplyUniverse, UniverseFails, IngestFails
  <1>5. UNCHANGED <<stored, calendar, targets, cards, status, snaps, policy, ran>>
    BY DEF ApplyUniverse, UniverseFails, IngestFails
  <1>6. TypeOK'
    BY <1>1, <1>3, <1>4, <1>5 DEF TypeOK, ApplyUniverse, UniverseFails, IngestFails
  <1>7. History'
    BY <1>1, <1>5, QuietKeeps
  <1>8. RunIsLatest'
    BY <1>1, <1>2, <1>3, <1>5 DEF RunIsLatest, Working, At
  <1>9. Progress'
    BY <1>3, NoNews
  <1> QED
    BY <1>6, <1>7, <1>8, <1>9, InvIsNext

\* Bars arrive: of every session before the as-of date in full, and of none
\* after it that did not have them.
LEMMA IngestStep ==
    ASSUME RecordInv, Ingest
    PROVE  RecordInv'
  <1> USE DEF world, data, decisions, marks, tables
  <1>1. TypeOK /\ History /\ RunIsLatest /\ Typed /\ ran \in Nat /\ faults \in 0..FAULTS /\ run \in Run
    BY InvIs, TypesGive
  <1>2. PICK level \in {"none", "thin", "full"}, clean \in BOOLEAN :
            /\ Levels[level] >= Levels[stored[run.asof]]
            /\ IF level = "full" /\ clean THEN UNCHANGED faults ELSE Fault
            /\ stored' = [s \in Sessions |-> IF s < run.asof THEN "full"
                                             ELSE IF s = run.asof THEN level ELSE stored[s]]
            /\ run' = [run EXCEPT !.pc = "calendar", !.issue = clean]
    BY DEF Ingest
  <1>3. run.drafts = {} /\ run.asof \in Sessions /\ run.asof = ran
    BY <1>1, NoDrafts DEF Ingest, At, Run, RunIsLatest
  <1>4. /\ run' \in Run /\ run'.pc = "calendar" /\ run'.asof = run.asof /\ run'.drafts = {}
    BY <1>1, <1>2, <1>3 DEF Run, Steps
  <1>5. stored' \in [Sessions -> {"none", "thin", "full"}]
    BY <1>1, <1>2 DEF TypeOK
  <1>6. faults' \in 0..FAULTS
    BY <1>1, <1>2 DEF Fault
  <1>7. TypeOK'
    BY <1>1, <1>4, <1>5, <1>6 DEF TypeOK, Ingest
  <1>8. UNCHANGED <<calendar, targets, cards, status, snaps, policy, ran>>
    BY DEF Ingest
  <1>9. \A s \in Sessions : stored[s] # "none" => stored'[s] # "none"
    <2> SUFFICES ASSUME NEW s \in Sessions, stored[s] # "none", s = run.asof PROVE level # "none"
      BY <1>2
    <2>1. stored[s] \in {"thin", "full"}
      BY <1>1 DEF TypeOK
    <2>2. Levels["none"] = 0 /\ Levels["thin"] = 1 /\ Levels["full"] = 2
      BY DEF Levels
    <2> QED
      BY <1>2, <2>1, <2>2
  <1>10. CalendarIsWhole'
    <2>1. \A s, t \in Sessions : stored'[s] # "none" /\ t < s => stored'[t] = "full"
      <3> SUFFICES ASSUME NEW s \in Sessions, NEW t \in Sessions, stored'[s] # "none", t < s
                   PROVE  stored'[t] = "full"
        OBVIOUS
      <3>1. s \in Nat /\ t \in Nat /\ run.asof \in Nat
        BY <1>3, Facts
      <3>2. CASE t < run.asof
        BY <1>2, <3>2
      <3>3. CASE ~ (t < run.asof)
        <4>1. s # run.asof /\ ~ (s < run.asof)
          BY <3>1, <3>3
        <4>2. stored[s] # "none"
          BY <1>2, <4>1
        <4>3. stored[t] = "full"
          BY <1>1, <4>2 DEF History, CalendarIsWhole, Trading
        <4>4. CASE t = run.asof
          <5>1. Levels["none"] = 0 /\ Levels["thin"] = 1 /\ Levels["full"] = 2
            BY DEF Levels
          <5>2. level = "full"
            BY <1>2, <4>3, <4>4, <5>1
          <5> QED
            BY <1>2, <3>3, <4>4, <5>2
        <4>5. CASE t # run.asof
          BY <1>2, <3>3, <4>3, <4>5
        <4> QED
          BY <4>4, <4>5
      <3> QED
        BY <3>2, <3>3
    <2>2. Trading \subseteq Trading'
      BY <1>9 DEF Trading
    <2> QED
      BY <1>1, <1>8, <2>1, <2>2 DEF History, CalendarIsWhole, Trading
  <1>11. History'
    <2>1. DecisionsAreDated' /\ Cal(ran)' = Cal(ran)
      BY <1>1, <1>8 DEF History, DecisionsAreDated, Cal
    <2>2. \A e \in Sessions : SameDays(e)
      BY <1>8 DEF SameDays
    <2>3. Stands
      BY <1>1, <1>8, <2>1, <2>2 DEF Stands, SameCards, SameRows, Asks, Typed, Cal
    <2>4. \A k \in DOMAIN targets : RowIsSound(k)'
      BY <1>1, <1>8, <2>2, RowsAreTyped, RowsStaySound DEF History, TargetsAreSound, Typed
    <2>5. TargetsAreSound'
      BY <1>1, <1>8, <2>4 DEF History, TargetsAreSound
    <2>6. SnapsAreTrue'
      BY <1>1, <1>8, <2>3, SnapsStayTrue DEF History
    <2>7. SettledIsSettled'
      BY <1>1, <1>8, <2>3, SettledStaySettled DEF History
    <2> QED
      BY <1>10, <2>1, <2>5, <2>6, <2>7 DEF History
  <1>12. RunIsLatest'
    BY <1>3, <1>4, <1>8 DEF RunIsLatest, Working, At
  <1>13. Progress'
    BY <1>4, NoNews
  <1> QED
    BY <1>7, <1>11, <1>12, <1>13, InvIsNext

\* The run takes the last session of the calendar.
LEMMA WorkOnIs ==
    ASSUME TypeOK, RunIsLatest, ~ At("idle"), ~ At("store"), NEW cal, cal \subseteq Sessions, NEW ok \in BOOLEAN,
           WorkOn(cal, ok), calendar' = cal, ran' = ran
    PROVE  /\ run' \in Run /\ done' \in {None} \union [ok: BOOLEAN, session: 0..Last]
           /\ RunIsLatest' /\ Progress'
  <1>1. PICK days : days = {s \in cal : s <= run.asof}
    OBVIOUS
  <1>2. run \in Run /\ run.asof \in Sessions /\ run.asof = ran /\ run.drafts = {}
    BY NoDrafts, TypesGive DEF RunIsLatest, At
  <1>3. CASE days = {}
    <2>1. run' = Idle /\ done' = [ok |-> FALSE, session |-> 0]
      BY <1>1, <1>3 DEF WorkOn
    <2>2. done' \in [ok: BOOLEAN, session: 0..Last] /\ done'.ok = FALSE
      BY <2>1, Facts
    <2> QED
      BY <2>1, <2>2, Idling, IdleIsLatest, NoNews
  <1>4. CASE days # {}
    <2>1. PICK last : last = Max(days)
      OBVIOUS
    <2>2. last \in days /\ \A d \in days : d <= last
      <3>1. days \subseteq Nat /\ run.asof \in Nat /\ \A d \in days : d <= run.asof
        BY <1>1, <1>2, Facts
      <3> QED
        BY <1>4, <2>1, <3>1, Greatest
    <2>3. /\ run' = [run EXCEPT !.pc = "features", !.session = last, !.ok = run.ok /\ ok,
                                !.issue = run.issue /\ stored[last] = "full"]
          /\ done' = done
      BY <1>1, <1>4, <2>1 DEF WorkOn
    <2>4. last \in 0..Last
      BY <1>1, <2>2, Facts
    <2>5. run' \in Run /\ run'.pc = "features" /\ run'.asof = run.asof /\ run'.session = last /\ run'.drafts = {}
      BY <1>2, <2>3, <2>4 DEF Run, Steps
    <2>6. LastOf(last, ran)'
      BY <1>1, <1>2, <2>2 DEF LastOf, Cal
    <2>7. RunIsLatest'
      BY <1>2, <2>5, <2>6 DEF RunIsLatest, Working, At, LastOf, Cal
    <2>8. Progress'
      BY <2>5, NoNews
    <2> QED
      BY <2>3, <2>5, <2>7, <2>8 DEF TypeOK
  <1> QED
    BY <1>3, <1>4

LEMMA CalendarStep ==
    ASSUME RecordInv, SyncCalendar \/ CalendarFails
    PROVE  RecordInv'
  <1> USE DEF world, data, decisions, marks, tables
  <1>1. TypeOK /\ History /\ RunIsLatest /\ Typed /\ ran \in Nat /\ faults \in 0..FAULTS
    BY InvIs, TypesGive
  <1>2. ~ At("idle") /\ ~ At("store")
    BY DEF SyncCalendar, CalendarFails, At
  <1>3. UNCHANGED <<world, members, stored, decisions, marks, tables, ran>>
    BY DEF SyncCalendar, CalendarFails
  <1>4. faults' \in 0..FAULTS
    <2>1. CASE SyncCalendar
      BY <1>1, <2>1 DEF SyncCalendar
    <2>2. CASE CalendarFails
      BY <1>1, <2>2 DEF CalendarFails, Fault
    <2> QED
      BY <2>1, <2>2
  <1>5. History' /\ calendar' \subseteq Sessions
    <2>1. CASE SyncCalendar
      BY <1>1, <1>3, <2>1, CalendarKeeps DEF SyncCalendar
    <2>2. CASE CalendarFails
      BY <1>1, <1>3, <2>2, QuietKeeps DEF CalendarFails, Typed
    <2> QED
      BY <2>1, <2>2
  <1>6. /\ run' \in Run /\ done' \in {None} \union [ok: BOOLEAN, session: 0..Last]
        /\ RunIsLatest' /\ Progress'
    <2>1. CASE SyncCalendar
      <3>1. PICK cal : cal = Trading
        OBVIOUS
      <3>2. WorkOn(cal, TRUE) /\ calendar' = cal
        BY <2>1, <3>1 DEF SyncCalendar
      <3> QED
        BY <1>1, <1>2, <1>3, <1>5, <3>2, WorkOnIs
    <2>2. CASE CalendarFails
      <3>1. PICK cal : cal = calendar
        OBVIOUS
      <3>2. WorkOn(cal, FALSE) /\ calendar' = cal
        BY <2>2, <3>1 DEF CalendarFails
      <3> QED
        BY <1>1, <1>2, <1>3, <1>5, <3>2, WorkOnIs
    <2> QED
      BY <2>1, <2>2
  <1>7. TypeOK'
    BY <1>1, <1>3, <1>4, <1>5, <1>6 DEF TypeOK
  <1> QED
    BY <1>5, <1>6, <1>7, InvIsNext

-----------------------------------------------------------------------------
(* The steps that decide.                                                  *)

\* What every step after the calendar starts from.
LEMMA WorkingGives ==
    ASSUME RecordInv, Working
    PROVE  /\ TypeOK /\ History /\ RunIsLatest /\ Progress /\ Typed /\ run \in Run
           /\ ran \in Nat /\ faults \in 0..FAULTS /\ ~ At("idle")
           /\ run.session \in calendar /\ run.session \in Sessions /\ LastOf(run.session, ran)
           /\ members[run.session] \subseteq Names
  <1>1. TypeOK /\ History /\ RunIsLatest /\ Progress
    BY InvIs
  <1>2. LastOf(run.session, ran)
    BY <1>1 DEF RunIsLatest
  <1>3. run.session \in calendar
    BY <1>2 DEF LastOf, Cal
  <1> QED
    BY <1>1, <1>2, <1>3, TypesGive DEF Working, At, Typed

\* A step that only moves the run, or fails, leaves the record as it is.
LEMMA FailingStep ==
    ASSUME RecordInv, Features \/ FlagsFail \/ StoreFails \/ StateFails
    PROVE  RecordInv'
  <1> USE DEF world, data, decisions, marks, tables
  <1>1. Working
    BY DEF Features, FlagsFail, StoreFails, StateFails, Working, At
  <1>2. /\ TypeOK /\ History /\ RunIsLatest /\ Progress /\ Typed /\ run \in Run
        /\ ran \in Nat /\ faults \in 0..FAULTS /\ ~ At("idle")
    BY <1>1, WorkingGives
  <1>3. /\ run' \in Run /\ run'.pc \in {"flags", "cards", "orders", "finish"} /\ run'.asof = run.asof
        /\ run'.session = run.session /\ run'.drafts = {} /\ faults' \in 0..FAULTS
        /\ run'.ok = FALSE \/ run'.pc = "flags"
    <2>1. CASE Features
      BY <1>2, <2>1, NoDrafts, Going DEF Features, Steps, At
    <2>2. CASE FlagsFail
      <3>1. AfterFlags \in {"cards", "orders"} /\ AfterFlags \in Steps
        BY DEF AfterFlags, Steps
      <3> QED
        BY <1>2, <2>2, <3>1, NoDrafts, Failing DEF FlagsFail, At
    <2>3. CASE StoreFails
      <3>1. run' = [run EXCEPT !.pc = "orders", !.drafts = {}, !.ok = FALSE]
        BY <2>3 DEF StoreFails
      <3>2. faults' \in 0..FAULTS
        BY <1>2, <2>3 DEF StoreFails, Fault
      <3> QED
        BY <1>2, <3>1, <3>2 DEF Run, Steps
    <2>4. CASE StateFails
      <3>1. "finish" \in Steps
        BY DEF Steps
      <3> QED
        BY <1>2, <2>4, <3>1, NoDrafts, Failing DEF StateFails, At
    <2> QED
      BY <2>1, <2>2, <2>3, <2>4
  <1>4. UNCHANGED <<world, data, decisions, status, tables, done, ran>>
    BY DEF Features, FlagsFail, StoreFails, StateFails
  <1>5. flagged' \subseteq cards'
    <2>1. Open \subseteq cards /\ flagged \subseteq cards
      BY <1>2 DEF Open, TypeOK
    <2>2. CASE FlagsFail
      BY <1>4, <2>1, <2>2 DEF FlagsFail, Outside
    <2>3. CASE ~ FlagsFail
      BY <1>4, <2>1, <2>3 DEF Features, StoreFails, StateFails
    <2> QED
      BY <2>2, <2>3
  <1>6. TypeOK'
    BY <1>2, <1>3, <1>4, <1>5 DEF TypeOK
  <1>7. History'
    BY <1>2, <1>4, QuietKeeps
  <1>8. RunIsLatest'
    BY <1>1, <1>2, <1>3, <1>4, RunStaysLatest
  <1>9. Progress'
    BY <1>3, NoNews
  <1> QED
    BY <1>6, <1>7, <1>8, <1>9, InvIsNext

LEMMA FeaturesFailStep ==
    ASSUME RecordInv, FeaturesFail
    PROVE  RecordInv'
  <1> USE DEF world, data, decisions, marks, tables
  <1>1. Working
    BY DEF FeaturesFail, Working, At
  <1>2. TypeOK /\ History /\ Typed /\ ran \in Nat /\ faults \in 0..FAULTS /\ run \in Run
    BY <1>1, WorkingGives
  <1>3. run' = Idle /\ run' \in Run /\ run'.pc = "idle" /\ done'.ok = FALSE
    BY Idling DEF FeaturesFail
  <1>4. done' \in [ok: BOOLEAN, session: 0..Last] /\ faults' \in 0..FAULTS
    BY <1>2 DEF FeaturesFail, Fault, Run
  <1>5. TypeOK'
    BY <1>2, <1>3, <1>4 DEF TypeOK, FeaturesFail
  <1>6. History'
    BY <1>2, QuietKeeps DEF FeaturesFail
  <1>7. RunIsLatest' /\ Progress'
    BY <1>3, IdleIsLatest, NoNews
  <1> QED
    BY <1>5, <1>6, <1>7, InvIsNext

LEMMA ExitRowIsOne ==
    ASSUME Typed, NEW s \in Sessions, members[s] \subseteq Names, ExitDue(s)
    PROVE  ExitRowIs(ExitRow(s), s)
  <1>1. PICK now : now = CurrentOn(1..s)
    OBVIOUS
  <1>2. now \in Book
    BY <1>1, CurrentIsABook
  <1>3. PICK book : book = [x \in Names |-> IF x \in members[s] THEN now[x] ELSE 0]
    OBVIOUS
  <1>4. book \in Book
    BY <1>2, <1>3, Facts DEF Book
  <1>5. PICK row : row = ExitRow(s)
    OBVIOUS
  <1>6. row = [at |-> s, kind |-> "exit", n |-> 1, final |-> None, from |-> None, roll |-> members[s],
               current |-> book]
    BY <1>1, <1>3, <1>5, Zenon DEF ExitRow
  <1>7. row \in Target
    BY <1>4, <1>6, Facts DEF Target
  <1>8. ExitRowIs(row, s)
    BY <1>6, <1>7 DEF ExitRowIs, ExitDue
  <1> QED
    BY <1>5, <1>8

LEMMA FlagsStep ==
    ASSUME RecordInv, Flags
    PROVE  RecordInv'
  <1> USE DEF world, data, decisions, marks, tables
  <1>1. Working
    BY DEF Flags, Working, At
  <1>2. PICK s : s = run.session
    OBVIOUS
  <1>3. /\ TypeOK /\ History /\ RunIsLatest /\ Progress /\ Typed /\ run \in Run /\ ran \in Nat /\ ~ At("idle")
        /\ s \in Sessions /\ LastOf(s, ran) /\ members[s] \subseteq Names
    BY <1>1, <1>2, WorkingGives
  <1>4. /\ run' \in Run /\ run'.pc \in {"cards", "orders"} /\ run'.asof = run.asof
        /\ run'.session = s /\ run'.drafts = {} /\ run'.ok = run.ok
    <2>1. AfterFlags \in {"cards", "orders"} /\ AfterFlags \in Steps
      BY DEF AfterFlags, Steps
    <2> QED
      BY <1>2, <1>3, <2>1, NoDrafts, Going DEF Flags, At
  <1>5. UNCHANGED <<world, data, cards, status, tables, done, ran, faults>>
    BY DEF Flags
  <1>6. targets' = targets \/ \E row : (StepRow(row, s) \/ ExitRowIs(row, s)) /\ targets' = Saved(row)
    <2>1. CASE ExitDue(s)
      <3>1. PICK row : row = ExitRow(s)
        OBVIOUS
      <3>2. targets' = Saved(row)
        BY <1>2, <2>1, <3>1 DEF Flags
      <3> QED
        BY <1>3, <2>1, <3>1, <3>2, ExitRowIsOne
    <2>2. CASE ~ ExitDue(s)
      BY <1>2, <2>2 DEF Flags
    <2> QED
      BY <2>1, <2>2
  <1>7. History' /\ targets' \in Seq(Target)
    BY <1>3, <1>5, <1>6, RowKeeps
  <1>8. flagged' = (flagged \ Open) \union Outside(s)
    BY <1>2 DEF Flags, Flagged
  <1>9. flagged' \subseteq cards'
    BY <1>3, <1>5, <1>8 DEF Outside, Open, TypeOK
  <1>10. TypeOK'
    BY <1>3, <1>4, <1>5, <1>7, <1>9 DEF TypeOK
  <1>11. RunIsLatest'
    BY <1>1, <1>2, <1>3, <1>4, <1>5, RunStaysLatest
  <1>12. FlagsAre(s)'
    <2>1. Open' = Open
      BY <1>5 DEF Open
    <2> QED
      BY <1>5, <1>8, <2>1 DEF FlagsAre, Outside
  <1>13. Progress'
    <2>1. PICK t : t = done'.session
      OBVIOUS
    <2>2. ProgressAt(s, t)'
      BY <1>4, <1>12 DEF ProgressAt, After, At
    <2> QED
      BY <1>4, <2>1, <2>2, ProgressIsNext
  <1> QED
    BY <1>7, <1>10, <1>11, <1>13, InvIsNext

Drafts(s, ranking, rejected, picks) ==
    (UNION {InvestCards(row, rejected) : row \in Step(s, ranking)}) \union SwingCards(s, picks)

LEMMA CardsOfAStep ==
    ASSUME Typed, TargetsAreSound, NEW s \in calendar, members[s] \subseteq Names,
           NEW ranking, NEW rejected, NEW picks
    PROVE  \A c \in Drafts(s, ranking, rejected, picks) : c \in Card /\ c.at = s /\ c.name \in members[s]
  <1>1. s \in Sessions /\ {"swing", "invest"} = Sleeves
    BY DEF Typed, Sleeves
  <1>2. \A c \in SwingCards(s, picks) : c \in Card /\ c.at = s /\ c.name \in members[s]
    BY <1>1 DEF SwingCards, Card
  <1>3. \A row \in Step(s, ranking) : \A c \in InvestCards(row, rejected) :
            c \in Card /\ c.at = s /\ c.name \in members[s]
    <2> SUFFICES ASSUME NEW row \in Step(s, ranking), NEW c \in InvestCards(row, rejected)
                 PROVE  c \in Card /\ c.at = s /\ c.name \in members[s]
      OBVIOUS
    <2>1. row.at = s
      BY StepWrites, ZenonT(40) DEF StepRow
    <2>2. PICK x \in members[row.at] : c = [sleeve |-> "invest", name |-> x, at |-> row.at]
      BY DEF InvestCards
    <2> QED
      BY <1>1, <2>1, <2>2 DEF Card
  <1>4. \A c \in Drafts(s, ranking, rejected, picks) :
            c \in SwingCards(s, picks) \/ \E row \in Step(s, ranking) : c \in InvestCards(row, rejected)
    BY DEF Drafts
  <1> QED
    BY <1>2, <1>3, <1>4

LEMMA DecideStep ==
    ASSUME RecordInv, Decide
    PROVE  RecordInv'
  <1> USE DEF world, data, decisions, marks, tables
  <1>1. Working
    BY DEF Decide, Working, At
  <1>2. PICK s : s = run.session
    OBVIOUS
  <1>3. /\ TypeOK /\ History /\ RunIsLatest /\ Progress /\ Typed /\ run \in Run /\ ran \in Nat /\ ~ At("idle")
        /\ s \in Sessions /\ s \in calendar /\ LastOf(s, ran) /\ members[s] \subseteq Names
        /\ faults \in 0..FAULTS
    BY <1>1, <1>2, WorkingGives
  <1>4. PICK ranking \in Rankings, picks \in SwingPicks, rejected \in SUBSET Names :
            /\ IF rejected = {} THEN UNCHANGED faults ELSE Step(run.session, ranking) # {} /\ Fault
            /\ targets' = IF Step(run.session, ranking) = {} THEN targets
                          ELSE Saved(CHOOSE row \in Step(run.session, ranking) : TRUE)
            /\ run' = [run EXCEPT !.pc = "store",
                         !.drafts = (UNION {InvestCards(row, rejected) : row \in Step(run.session, ranking)})
                                    \union SwingCards(run.session, picks)]
    BY Zenon DEF Decide
  <1>5. PICK rows : rows = Step(run.session, ranking)
    OBVIOUS
  <1>6. PICK drafts : drafts = Drafts(run.session, ranking, rejected, picks)
    OBVIOUS
  <1>61. drafts \subseteq Card /\ \A c \in drafts : c.at = s /\ c.name \in members[s]
    BY <1>2, <1>3, <1>6, CardsOfAStep DEF History
  <1>7. /\ run' \in Run /\ run'.pc = "store" /\ run'.asof = run.asof
        /\ run'.session = s /\ run'.drafts = drafts /\ run'.ok = run.ok
    <2>1. run' = [run EXCEPT !.pc = "store", !.drafts = drafts]
      BY <1>4, <1>6, Zenon DEF Drafts
    <2> QED
      BY <1>2, <1>3, <1>61, <2>1 DEF Run, Steps
  <1>8. UNCHANGED <<world, data, cards, marks, tables, done, ran>>
    BY DEF Decide
  <1>9. targets' = targets \/ \E row : (StepRow(row, s) \/ ExitRowIs(row, s)) /\ targets' = Saved(row)
    <2>1. CASE rows # {}
      <3>1. PICK row : row = CHOOSE r \in rows : TRUE
        OBVIOUS
      <3>2. row \in rows
        BY <2>1, <3>1
      <3>3. StepRow(row, s)
        BY <1>2, <1>3, <1>5, <3>2, StepWrites DEF History
      <3>4. targets' = Saved(row)
        BY <1>4, <1>5, <2>1, <3>1
      <3> QED
        BY <3>3, <3>4
    <2>2. CASE rows = {}
      BY <1>4, <1>5, <2>2
    <2> QED
      BY <2>1, <2>2
  <1>10. History' /\ targets' \in Seq(Target)
    BY <1>3, <1>8, <1>9, RowKeeps
  <1>11. faults' \in 0..FAULTS
    <2>1. UNCHANGED faults \/ Fault
      BY <1>4
    <2> QED
      BY <1>3, <2>1 DEF Fault
  <1>12. TypeOK'
    BY <1>3, <1>7, <1>8, <1>10, <1>11 DEF TypeOK
  <1>13. RunIsLatest'
    <2>1. run'.asof = ran'
      BY <1>3, <1>7, <1>8 DEF RunIsLatest, At
    <2>2. LastOf(s, ran)'
      BY <1>3, <1>8 DEF LastOf, Cal
    <2> QED
      BY <1>61, <1>7, <1>8, <2>1, <2>2 DEF RunIsLatest, LastOf, Cal, At
  <1>14. run.ok => FlagsAre(s)'
    <2>1. run.ok => FlagsAre(s)
      BY <1>2, <1>3 DEF Progress, After, Decide, At
    <2> QED
      BY <1>8, <2>1 DEF FlagsAre, Open
  <1>15. Progress'
    <2>1. PICK t : t = done'.session
      OBVIOUS
    <2>2. ProgressAt(s, t)'
      BY <1>7, <1>14 DEF ProgressAt, After, At
    <2> QED
      BY <1>7, <2>1, <2>2, ProgressIsNext
  <1> QED
    BY <1>10, <1>12, <1>13, <1>15, InvIsNext

LEMMA DecideFailsStep ==
    ASSUME RecordInv, DecideFails
    PROVE  RecordInv'
  <1> USE DEF world, data, decisions, marks, tables
  <1>1. Working
    BY DEF DecideFails, Working, At
  <1>2. PICK s : s = run.session
    OBVIOUS
  <1>3. /\ TypeOK /\ History /\ RunIsLatest /\ Progress /\ Typed /\ run \in Run /\ ran \in Nat /\ ~ At("idle")
        /\ s \in Sessions /\ s \in calendar /\ LastOf(s, ran) /\ members[s] \subseteq Names
        /\ faults \in 0..FAULTS
    BY <1>1, <1>2, WorkingGives
  <1>4. /\ run' \in Run /\ run'.pc = "orders" /\ run'.asof = run.asof
        /\ run'.session = run.session /\ run'.drafts = {} /\ run'.ok = FALSE /\ faults' \in 0..FAULTS
    <2>1. "orders" \in Steps
      BY DEF Steps
    <2> QED
      BY <1>3, <2>1, NoDrafts, Failing DEF DecideFails, At
  <1>5. UNCHANGED <<world, data, cards, marks, tables, done, ran>>
    BY DEF DecideFails
  <1>6. targets' = targets \/ \E row : (StepRow(row, s) \/ ExitRowIs(row, s)) /\ targets' = Saved(row)
    <2>1. CASE targets' = targets
      BY <2>1
    <2>2. CASE \E ranking \in Rankings : \E row \in Step(s, ranking) : targets' = Saved(row)
      <3>1. PICK ranking \in Rankings : \E row \in Step(s, ranking) : targets' = Saved(row)
        BY <2>2
      <3>2. PICK row \in Step(s, ranking) : targets' = Saved(row)
        BY <3>1
      <3>3. StepRow(row, s)
        BY <1>3, StepWrites DEF History
      <3> QED
        BY <3>2, <3>3
    <2> QED
      BY <1>2, <2>1, <2>2 DEF DecideFails
  <1>7. History' /\ targets' \in Seq(Target)
    BY <1>3, <1>5, <1>6, RowKeeps
  <1>8. TypeOK'
    BY <1>3, <1>4, <1>5, <1>7 DEF TypeOK
  <1>9. RunIsLatest'
    BY <1>1, <1>3, <1>4, <1>5, RunStaysLatest
  <1>10. Progress'
    BY <1>4, NoNews
  <1> QED
    BY <1>7, <1>8, <1>9, <1>10, InvIsNext

LEMMA StoreStep ==
    ASSUME RecordInv, Store
    PROVE  RecordInv'
  <1> USE DEF world, data, decisions, marks, tables
  <1>1. Working
    BY DEF Store, Working, At
  <1>2. PICK s : s = run.session
    OBVIOUS
  <1>3. /\ TypeOK /\ History /\ RunIsLatest /\ Progress /\ Typed /\ run \in Run /\ ran \in Nat /\ ~ At("idle")
        /\ LastOf(s, ran)
    BY <1>1, <1>2, WorkingGives
  <1>4. PICK new : new = run.drafts
    OBVIOUS
  <1>5. new \subseteq Card /\ \A c \in new : c.at = s /\ c.name \in members[s]
    BY <1>2, <1>3, <1>4 DEF RunIsLatest, Run
  <1>6. /\ cards' = cards \union new
        /\ status' = [c \in cards' |-> IF c \in cards THEN status[c] ELSE "pending"]
    BY <1>4 DEF Store
  <1>7. /\ run' \in Run /\ run'.pc = "orders" /\ run'.asof = run.asof
        /\ run'.session = s /\ run'.drafts = {} /\ run'.ok = run.ok
    BY <1>2, <1>3 DEF Store, Run, Steps
  <1>8. UNCHANGED <<world, data, targets, flagged, tables, done, ran, faults>>
    BY DEF Store
  <1>9. cards' \subseteq Card /\ flagged' \subseteq cards' /\ status' \in [cards' -> Statuses]
    BY <1>3, <1>5, <1>6, <1>8 DEF TypeOK, Statuses
  <1>10. TypeOK'
    BY <1>3, <1>7, <1>8, <1>9 DEF TypeOK
  <1>11. History'
    BY <1>3, <1>5, <1>6, <1>8, CardsKeep
  <1>12. RunIsLatest'
    BY <1>1, <1>2, <1>3, <1>7, <1>8, RunStaysLatest
  <1>13. run.ok => FlagsAre(s)'
    <2>1. run.ok => FlagsAre(s)
      BY <1>2, <1>3 DEF Progress, After, Store, At
    <2>2. \A c \in cards' \ cards : c \notin flagged /\ c.name \in members[s]
      BY <1>3, <1>5, <1>6 DEF TypeOK
    <2>3. \A c \in cards : status'[c] = status[c]
      BY <1>6
    <2> QED
      BY <1>8, <2>1, <2>2, <2>3 DEF FlagsAre, Open
  <1>14. Progress'
    <2>1. PICK t : t = done'.session
      OBVIOUS
    <2>2. ProgressAt(s, t)'
      BY <1>7, <1>13 DEF ProgressAt, After, At
    <2> QED
      BY <1>7, <2>1, <2>2, ProgressIsNext
  <1> QED
    BY <1>10, <1>11, <1>12, <1>14, InvIsNext

-----------------------------------------------------------------------------
(* The steps that write what the replay found.                             *)

LEMMA OrdersStep ==
    ASSUME RecordInv, SyncOrders
    PROVE  RecordInv'
  <1> USE DEF world, data, decisions, marks, tables
  <1>1. Working
    BY DEF SyncOrders, Working, At
  <1>2. PICK s : s = run.session
    OBVIOUS
  <1>3. /\ TypeOK /\ History /\ RunIsLatest /\ Progress /\ Typed /\ run \in Run /\ ran \in Nat /\ ~ At("idle")
        /\ s \in Sessions /\ LastOf(s, ran)
    BY <1>1, <1>2, WorkingGives
  <1>4. /\ run' \in Run /\ run'.pc = "positions" /\ run'.asof = run.asof
        /\ run'.session = s /\ run'.drafts = {} /\ run'.ok = run.ok
    <2>1. "positions" \in Steps
      BY DEF Steps
    <2> QED
      BY <1>2, <1>3, <2>1, NoDrafts, Going DEF SyncOrders, At
  <1>5. UNCHANGED <<world, data, decisions, marks, positions, snaps, done, ran, faults>>
    BY DEF SyncOrders
  <1>6. orders' = OrdersUpTo(s)
    BY <1>2 DEF SyncOrders, Merged
  <1>7. orders' \subseteq Order
    BY <1>3, <1>6, TablesAreTyped
  <1>8. TypeOK'
    BY <1>3, <1>4, <1>5, <1>7 DEF TypeOK
  <1>9. History'
    BY <1>3, <1>5, QuietKeeps
  <1>10. RunIsLatest'
    BY <1>1, <1>2, <1>3, <1>4, <1>5, RunStaysLatest
  <1>11. run.ok => FlagsAre(s)'
    <2>1. run.ok => FlagsAre(s)
      BY <1>2, <1>3 DEF Progress, After, SyncOrders, At
    <2> QED
      BY <1>5, <2>1, TablesStay
  <1>12. orders' = OrdersUpTo(s)'
    BY <1>5, <1>6, TablesStay
  <1>13. Progress'
    <2>1. PICK t : t = done'.session
      OBVIOUS
    <2>2. ProgressAt(s, t)'
      BY <1>4, <1>11, <1>12 DEF ProgressAt, After, At
    <2> QED
      BY <1>4, <2>1, <2>2, ProgressIsNext
  <1> QED
    BY <1>8, <1>9, <1>10, <1>13, InvIsNext

LEMMA PositionsStep ==
    ASSUME RecordInv, SyncPositions
    PROVE  RecordInv'
  <1> USE DEF world, data, decisions, marks, tables
  <1>1. Working
    BY DEF SyncPositions, Working, At
  <1>2. PICK s : s = run.session
    OBVIOUS
  <1>3. /\ TypeOK /\ History /\ RunIsLatest /\ Progress /\ Typed /\ run \in Run /\ ran \in Nat /\ ~ At("idle")
        /\ s \in Sessions /\ LastOf(s, ran)
    BY <1>1, <1>2, WorkingGives
  <1>4. /\ run' \in Run /\ run'.pc = "snapshots" /\ run'.asof = run.asof
        /\ run'.session = s /\ run'.drafts = {} /\ run'.ok = run.ok
    <2>1. "snapshots" \in Steps
      BY DEF Steps
    <2> QED
      BY <1>2, <1>3, <2>1, NoDrafts, Going DEF SyncPositions, At
  <1>5. UNCHANGED <<world, data, decisions, marks, orders, snaps, done, ran, faults>>
    BY DEF SyncPositions
  <1>6. positions' = PositionsUpTo(s)
    BY <1>2 DEF SyncPositions, Merged
  <1>7. positions' \subseteq Position
    BY <1>3, <1>6, TablesAreTyped
  <1>8. TypeOK'
    BY <1>3, <1>4, <1>5, <1>7 DEF TypeOK
  <1>9. History'
    BY <1>3, <1>5, QuietKeeps
  <1>10. RunIsLatest'
    BY <1>1, <1>2, <1>3, <1>4, <1>5, RunStaysLatest
  <1>11. run.ok => FlagsAre(s)' /\ orders' = OrdersUpTo(s)'
    <2>1. run.ok => FlagsAre(s) /\ orders = OrdersUpTo(s)
      BY <1>2, <1>3 DEF Progress, After, SyncPositions, At
    <2> QED
      BY <1>5, <2>1, TablesStay
  <1>12. positions' = PositionsUpTo(s)'
    BY <1>5, <1>6, TablesStay
  <1>13. Progress'
    <2>1. PICK t : t = done'.session
      OBVIOUS
    <2>2. ProgressAt(s, t)'
      BY <1>4, <1>11, <1>12 DEF ProgressAt, After, At
    <2> QED
      BY <1>4, <2>1, <2>2, ProgressIsNext
  <1> QED
    BY <1>8, <1>9, <1>10, <1>13, InvIsNext

LEMMA SnapshotsStep ==
    ASSUME RecordInv, SyncSnapshots
    PROVE  RecordInv' /\ \A e \in Sessions : snaps[e] # None => snaps'[e] = snaps[e]
  <1> USE DEF world, data, decisions, marks, tables
  <1>1. Working
    BY DEF SyncSnapshots, Working, At
  <1>2. PICK s : s = run.session
    OBVIOUS
  <1>3. /\ TypeOK /\ History /\ RunIsLatest /\ Progress /\ Typed /\ run \in Run /\ ran \in Nat /\ ~ At("idle")
        /\ s \in Sessions /\ LastOf(s, ran)
    BY <1>1, <1>2, WorkingGives
  <1>4. /\ run' \in Run /\ run'.pc = "recommendations" /\ run'.asof = run.asof
        /\ run'.session = s /\ run'.drafts = {} /\ run'.ok = run.ok
    <2>1. "recommendations" \in Steps
      BY DEF Steps
    <2> QED
      BY <1>2, <1>3, <2>1, NoDrafts, Going DEF SyncSnapshots, At
  <1>5. UNCHANGED <<world, data, decisions, marks, orders, positions, done, ran, faults>>
    BY DEF SyncSnapshots
  <1>6. snaps' = [e \in Sessions |-> IF e \in Cal(s) THEN BookAt(e) ELSE snaps[e]]
    BY <1>2 DEF SyncSnapshots
  <1>7. snaps' \in [Sessions -> {None} \union SUBSET (Sleeves \X Names \X (1..UNIT))]
    BY <1>3, <1>6, BookAtIs DEF TypeOK
  <1>8. TypeOK'
    BY <1>3, <1>4, <1>5, <1>7 DEF TypeOK
  <1>9. /\ History' /\ SnapsAre(s)'
        /\ \A e \in Sessions : snaps[e] # None => snaps'[e] = snaps[e]
    BY <1>3, <1>5, <1>6, SnapshotsKeep
  <1>10. RunIsLatest'
    BY <1>1, <1>2, <1>3, <1>4, <1>5, RunStaysLatest
  <1>11. run.ok => FlagsAre(s)' /\ orders' = OrdersUpTo(s)' /\ positions' = PositionsUpTo(s)'
    <2>1. run.ok => FlagsAre(s) /\ orders = OrdersUpTo(s) /\ positions = PositionsUpTo(s)
      BY <1>2, <1>3 DEF Progress, After, SyncSnapshots, At
    <2> QED
      BY <1>5, <2>1, TablesStay
  <1>12. Progress'
    <2>1. PICK t : t = done'.session
      OBVIOUS
    <2>2. ProgressAt(s, t)'
      BY <1>4, <1>9, <1>11 DEF ProgressAt, After, At
    <2> QED
      BY <1>4, <2>1, <2>2, ProgressIsNext
  <1> QED
    BY <1>8, <1>9, <1>10, <1>12, InvIsNext

LEMMA RecommendationsStep ==
    ASSUME RecordInv, SyncRecommendations
    PROVE  RecordInv'
  <1> USE DEF world, data, decisions, marks, tables
  <1>1. Working
    BY DEF SyncRecommendations, Working, At
  <1>2. PICK s : s = run.session
    OBVIOUS
  <1>3. /\ TypeOK /\ History /\ RunIsLatest /\ Progress /\ Typed /\ run \in Run /\ ran \in Nat /\ ~ At("idle")
        /\ s \in Sessions /\ LastOf(s, ran)
    BY <1>1, <1>2, WorkingGives
  <1>4. /\ run' \in Run /\ run'.pc = "finish" /\ run'.asof = run.asof
        /\ run'.session = s /\ run'.drafts = {} /\ run'.ok = run.ok
    <2>1. "finish" \in Steps
      BY DEF Steps
    <2> QED
      BY <1>2, <1>3, <2>1, NoDrafts, Going DEF SyncRecommendations, At
  <1>5. UNCHANGED <<world, data, decisions, flagged, tables, done, ran, faults>>
    BY DEF SyncRecommendations
  <1>6. status' = [c \in cards |-> IF c.at <= s THEN StatusUpTo(c, s) ELSE status[c]]
    BY <1>2 DEF SyncRecommendations
  <1>7. /\ History' /\ StatusIs(s)' /\ status' \in [cards -> Statuses]
        /\ Open' \subseteq Open
    BY <1>3, <1>5, <1>6, StatusesKeep DEF TypeOK
  <1>8. TypeOK'
    BY <1>3, <1>4, <1>5, <1>7 DEF TypeOK
  <1>9. RunIsLatest'
    BY <1>1, <1>2, <1>3, <1>4, <1>5, RunStaysLatest
  <1>10. run.ok => orders' = OrdersUpTo(s)' /\ positions' = PositionsUpTo(s)' /\ SnapsAre(s)'
    <2>1. run.ok => orders = OrdersUpTo(s) /\ positions = PositionsUpTo(s) /\ SnapsAre(s)
      BY <1>2, <1>3 DEF Progress, After, SyncRecommendations, At
    <2> QED
      BY <1>5, <2>1, TablesStay
  <1>11. run.ok => FlagsAre(s)'
    <2>1. run.ok => FlagsAre(s)
      BY <1>2, <1>3 DEF Progress, After, SyncRecommendations, At
    <2> QED
      BY <1>5, <1>7, <2>1 DEF FlagsAre
  <1>12. Progress'
    <2>1. PICK t : t = done'.session
      OBVIOUS
    <2>2. ProgressAt(s, t)'
      BY <1>4, <1>7, <1>10, <1>11 DEF ProgressAt, After, At
    <2> QED
      BY <1>4, <2>1, <2>2, ProgressIsNext
  <1> QED
    BY <1>7, <1>8, <1>9, <1>12, InvIsNext

LEMMA FinishStep ==
    ASSUME RecordInv, Finish
    PROVE  RecordInv'
  <1> USE DEF world, data, decisions, marks, tables
  <1>1. Working
    BY DEF Finish, Working, At
  <1>2. PICK s : s = run.session
    OBVIOUS
  <1>3. /\ TypeOK /\ History /\ RunIsLatest /\ Progress /\ Typed /\ run \in Run /\ ran \in Nat /\ ~ At("idle")
        /\ s \in Sessions /\ LastOf(s, ran)
    BY <1>1, <1>2, WorkingGives
  <1>4. run' = Idle /\ run' \in Run /\ run'.pc = "idle"
    BY Idling DEF Finish
  <1>5. done' = [ok |-> run.ok, session |-> s] /\ done' \in [ok: BOOLEAN, session: 0..Last]
    BY <1>2, <1>3 DEF Finish, Run
  <1>6. UNCHANGED <<world, data, decisions, marks, tables, ran, faults>>
    BY DEF Finish
  <1>7. TypeOK'
    BY <1>3, <1>4, <1>5, <1>6 DEF TypeOK
  <1>8. History'
    BY <1>3, <1>6, QuietKeeps
  <1>9. RunIsLatest'
    BY <1>4, IdleIsLatest
  <1>10. run.ok => /\ LastOf(s, ran)' /\ FlagsAre(s)' /\ orders' = OrdersUpTo(s)'
                   /\ positions' = PositionsUpTo(s)' /\ SnapsAre(s)' /\ StatusIs(s)'
    <2>1. run.ok => /\ FlagsAre(s) /\ orders = OrdersUpTo(s) /\ positions = PositionsUpTo(s)
                    /\ SnapsAre(s) /\ StatusIs(s)
      BY <1>2, <1>3 DEF Progress, After, Finish, At
    <2> QED
      BY <1>3, <1>6, <2>1, TablesStay
  <1>11. Progress'
    <2>1. PICK r : r = run'.session
      OBVIOUS
    <2>2. done'.ok = run.ok /\ done'.session = s
      BY <1>5
    <2>3. ProgressAt(r, s)'
      BY <1>4, <1>10, <2>2 DEF ProgressAt, After, At
    <2> QED
      BY <2>1, <2>2, <2>3, ProgressIsNext
  <1> QED
    BY <1>7, <1>8, <1>9, <1>11, InvIsNext

LEMMA RecordStep == RecordInv /\ [Next]_vars => RecordInv'
  <1> SUFFICES ASSUME RecordInv, [Next]_vars PROVE RecordInv'
    OBVIOUS
  <1>1. CASE Start \/ Kill \/ Ingest
    BY <1>1, StartStep, KillStep, IngestStep
  <1>2. CASE ApplyUniverse \/ UniverseFails \/ IngestFails
    BY <1>2, EarlyStep
  <1>3. CASE SyncCalendar \/ CalendarFails
    BY <1>3, CalendarStep
  <1>4. CASE Features \/ FlagsFail \/ StoreFails \/ StateFails
    BY <1>4, FailingStep
  <1>5. CASE FeaturesFail \/ Flags
    BY <1>5, FeaturesFailStep, FlagsStep
  <1>6. CASE Decide \/ DecideFails \/ Store
    BY <1>6, DecideStep, DecideFailsStep, StoreStep
  <1>7. CASE SyncOrders \/ SyncPositions \/ SyncSnapshots
    BY <1>7, OrdersStep, PositionsStep, SnapshotsStep
  <1>8. CASE SyncRecommendations \/ Finish
    BY <1>8, RecommendationsStep, FinishStep
  <1>9. CASE NextDay \/ EditFile \/ UNCHANGED vars
    BY <1>9, WaitStep
  <1> QED
    BY <1>1, <1>2, <1>3, <1>4, <1>5, <1>6, <1>7, <1>8, <1>9 DEF Next, Daily, Fails

-----------------------------------------------------------------------------
(* The theorems.                                                           *)

\* The invariant holds of every day, edit, run, failure and kill.
THEOREM InvAlways == Spec => []RecordInv
  BY RecordStarts, RecordStep, PTL DEF Spec

\* Types (paper/daily.py, state.py, sync.py): rows, cards, orders, positions and
\* snapshots are what their tables can hold.
THEOREM TypeCorrect == Spec => []TypeOK
  <1>1. RecordInv => TypeOK
    BY DEF RecordInv
  <1> QED
    BY <1>1, InvAlways, PTL

\* The record of a past session is never rewritten: later decisions, edits,
\* failures and repeated runs leave the book of a session as it was stored.
THEOREM PastStandsAlways == Spec => PastStands
  <1> DEFINE Kept1 == \A e \in Sessions : snaps[e] # None => snaps'[e] = snaps[e]
  <1>1. RecordInv /\ [Next]_vars => [Kept1]_vars
    <2> SUFFICES ASSUME RecordInv, [Next]_vars PROVE Kept1 \/ UNCHANGED vars
      OBVIOUS
    <2>1. CASE SyncSnapshots
      BY <2>1, SnapshotsStep
    <2>2. CASE snaps' = snaps
      BY <2>2
    <2>3. SyncSnapshots \/ snaps' = snaps
      <3> USE DEF world, data, decisions, marks, tables, vars
      <3>1. CASE Daily
        BY <3>1 DEF Daily, Start, ApplyUniverse, Ingest, SyncCalendar, Features, Flags, Decide, Store,
                    SyncOrders, SyncPositions, SyncRecommendations, Finish
      <3>2. CASE Fails
        BY <3>2 DEF Fails, UniverseFails, IngestFails, CalendarFails, FeaturesFail, FlagsFail, DecideFails,
                    StoreFails, StateFails, Kill
      <3>3. CASE NextDay \/ EditFile \/ UNCHANGED vars
        BY <3>3 DEF NextDay, EditFile
      <3> QED
        BY <3>1, <3>2, <3>3 DEF Next
    <2> QED
      BY <2>1, <2>2, <2>3
  <1> QED
    BY <1>1, InvAlways, PTL DEF Spec, PastStands

\* After a run that reports success every table is the replay of the decisions
\* and the flags of the open cards tell who left, whatever earlier runs failed.
THEOREM TablesTellTheDecisionsAlways == Spec => []TablesTellTheDecisions
  <1>1. RecordInv => TablesTellTheDecisions
    <2> SUFFICES ASSUME RecordInv PROVE TablesTellTheDecisions
      OBVIOUS
    <2>1. TypeOK /\ Progress
      BY DEF RecordInv
    <2>2. TablesEqualReplay
      BY <2>1 DEF Progress, TablesEqualReplay, SnapsAre, StatusIs
    <2>3. FlagsTell
      BY <2>1 DEF Progress, FlagsTell, FlagsAre
    <2> QED
      BY <2>1, <2>2, <2>3 DEF TablesTellTheDecisions
  <1> QED
    BY <1>1, InvAlways, PTL

\* A name that has left the universe does not grow.
LEMMA NobodyIsToppedUp ==
    ASSUME RecordInv
    PROVE  NeverToppedUp
  <1> SUFFICES ASSUME NEW k \in DOMAIN targets, NEW x \in Names, policy = "next_rebalance",
                      x \notin targets[k].roll
               PROVE  targets[k].current[x] <= Prev(k)[x]
    BY DEF NeverToppedUp
  <1>1. Typed /\ TargetsAreSound
    BY InvIs, TypesGive DEF History
  <1>2. /\ DOMAIN targets = 1..Len(targets) /\ Len(targets) \in Nat
        /\ \A m \in DOMAIN targets : targets[m].at \in Nat
    BY <1>1, RowsAreTyped, Facts
  <1>3. targets[k].current[x] <= IF k = 1 THEN 0 ELSE targets[k - 1].current[x]
    BY <1>1 DEF TargetsAreSound, RowIsSound
  <1>4. \A m, j \in DOMAIN targets : Earlier(m, j) <=> m < j
    <2>1. \A m, j \in DOMAIN targets : m < j => targets[m].at < targets[j].at
      BY <1>1 DEF TargetsAreSound
    <2>2. \A m, j \in DOMAIN targets : m < j \/ m = j \/ j < m
      BY <1>2
    <2> QED
      BY <1>2, <2>1, <2>2 DEF Earlier
  <1>5. PICK R : R = {m \in DOMAIN targets : Earlier(m, k)}
    OBVIOUS
  <1>6. R = {m \in DOMAIN targets : m < k}
    BY <1>4, <1>5
  <1>7. CASE k = 1
    <2>1. R = {}
      BY <1>2, <1>6, <1>7
    <2>2. Prev(k) = NoBook
      BY <1>5, <2>1, Zenon DEF Prev
    <2> QED
      BY <1>3, <1>7, <2>2 DEF NoBook
  <1>8. CASE k # 1
    <2>1. PICK p : p = k - 1
      OBVIOUS
    <2>2. p \in R /\ \A j \in R \ {p} : j < p
      BY <1>2, <1>6, <1>8, <2>1
    <2>3. PICK q : q = CHOOSE m \in R : \A j \in R \ {m} : Earlier(j, m)
      OBVIOUS
    <2>4. q \in R /\ \A j \in R \ {q} : Earlier(j, q)
      <3>1. \A j \in R \ {p} : Earlier(j, p)
        BY <1>4, <1>6, <2>2
      <3> QED
        BY <2>2, <2>3, <3>1
    <2>5. q = p
      <3> SUFFICES ASSUME q # p PROVE FALSE
        OBVIOUS
      <3>1. q < p /\ p < q
        BY <1>4, <1>6, <2>2, <2>4
      <3>2. q \in Nat /\ p \in Nat
        BY <1>2, <1>6, <2>2, <2>4
      <3> QED
        BY <3>1, <3>2
    <2>6. Prev(k) = targets[q].current
      BY <1>5, <2>2, <2>3, Zenon DEF Prev
    <2> QED
      BY <1>3, <1>8, <2>1, <2>5, <2>6
  <1> QED
    BY <1>7, <1>8

\* The session after the last tranche the snapshot is the book of its rebalance.
LEMMA TargetIsReached ==
    ASSUME RecordInv
    PROVE  BookReachesTarget
  <1> SUFFICES ASSUME At("idle"), done # None, done.ok, NEW k \in DOMAIN targets,
                      targets[k].kind = "tranche", targets[k].n = TRANCHES,
                      ~ \E m \in DOMAIN targets : m > k /\ targets[m].at = targets[k].at,
                      NEW e \in Next1(targets[k].at, done.session), NEW x \in targets[k].roll
               PROVE  {w \in 1..UNIT : <<"invest", x, w>> \in snaps[e]} = {targets[k].final[x]} \ {0}
    BY DEF BookReachesTarget
  <1>1. /\ TypeOK /\ Typed /\ TargetsAreSound /\ DecisionsAreDated /\ Progress
        /\ CalendarIsWhole /\ ran \in Nat
    BY InvIs, TypesGive DEF History
  <1>2. PICK s : s = done.session
    OBVIOUS
  <1>3. LastOf(s, ran) /\ SnapsAre(s)
    BY <1>1, <1>2 DEF Progress
  <1>4. Cal(s) = Cal(ran) /\ Cal(s) \subseteq Sessions
    BY <1>1, <1>3, DaysOfARun DEF Cal, Typed
  <1>5. PICK t : t = targets[k].at
    OBVIOUS
  <1>6. targets[k] \in Target
    BY <1>1 DEF Typed
  <1>7. x \in Names /\ targets[k].current \in Book
    BY <1>6 DEF Target
  <1>8. e \in Cal(s) /\ e > t /\ \A y \in Cal(s) : y > t => y >= e
    BY <1>2, <1>5 DEF Next1
  <1>9. /\ DOMAIN targets = 1..Len(targets) /\ Len(targets) \in Nat
        /\ \A m \in DOMAIN targets : targets[m].at \in Cal(s) /\ targets[m].at \in Nat
    BY <1>1, <1>4, RowsAreTyped, Facts DEF DecisionsAreDated
  <1>10. e \in Sessions /\ e \in Nat /\ t \in Nat /\ t \in Cal(s)
    BY <1>4, <1>5, <1>8, <1>9, Facts
  <1>11. snaps[e] = BookAt(e)
    BY <1>3, <1>8, <1>10 DEF SnapsAre
  <1>12. PICK D : D = {y \in calendar : y < e}
    OBVIOUS
  <1>13. t \in D
    BY <1>8, <1>10, <1>12 DEF Cal
  <1>14. \A m \in DOMAIN targets : targets[m].at \in D /\ m # k => Earlier(m, k)
    <2> SUFFICES ASSUME NEW m \in DOMAIN targets, targets[m].at \in D, m # k PROVE Earlier(m, k)
      OBVIOUS
    <2>1. targets[m].at < e
      BY <1>12
    <2>2. ~ (targets[m].at > t)
      BY <1>8, <1>9, <1>10, <2>1
    <2>3. CASE targets[m].at < t
      BY <1>5, <2>3 DEF Earlier
    <2>4. CASE targets[m].at = t
      <3>1. ~ (m > k)
        BY <1>5, <2>4
      <3>2. m < k
        BY <1>9, <3>1
      <3> QED
        BY <1>5, <2>4, <3>2 DEF Earlier
    <2> QED
      BY <1>9, <1>10, <2>2, <2>3, <2>4
  <1>15. k \in LatestOn(D)
    BY <1>5, <1>13, <1>14 DEF LatestOn
  <1>16. \A m \in LatestOn(D) : m = k
    <2> SUFFICES ASSUME NEW m \in LatestOn(D), m # k PROVE FALSE
      OBVIOUS
    <2>1. m \in DOMAIN targets /\ targets[m].at \in D /\ Earlier(k, m)
      BY <1>5, <1>13, LatestIsARow
    <2>2. Earlier(m, k)
      BY <1>14, <2>1
    <2>3. targets[m].at \in Nat /\ targets[k].at \in Nat /\ m \in Nat /\ k \in Nat
      BY <1>9, <2>1
    <2> QED
      BY <2>1, <2>2, <2>3 DEF Earlier
  <1>17. CurrentOn(D) = targets[k].current
    <2>1. PICK j : j = CHOOSE m \in LatestOn(D) : TRUE
      OBVIOUS
    <2>2. j = k
      BY <1>15, <1>16, <2>1
    <2> QED
      BY <1>15, <2>1, <2>2 DEF CurrentOn
  <1>18. InvestAt(x, e) = targets[k].current[x]
    <2>1. InvestAt(x, e) = CurrentOn(D)[x]
      BY <1>12 DEF InvestAt, Traded
    <2> QED
      BY <1>17, <2>1
  <1>19. targets[k].current[x] = targets[k].final[x]
    BY <1>1 DEF TargetsAreSound, RowIsSound
  <1>20. PICK v : v = targets[k].final[x]
    OBVIOUS
  <1>21. v \in 0..UNIT /\ InvestAt(x, e) = v
    BY <1>7, <1>18, <1>19, <1>20 DEF Book
  <1>22. \A w : <<"invest", x, w>> \in BookAt(e) <=> w = v /\ w > 0
    BY <1>1, <1>7, <1>21, BookAtIs
  <1>23. {w \in 1..UNIT : <<"invest", x, w>> \in BookAt(e)} = {v} \ {0}
    BY <1>21, <1>22, Facts
  <1> QED
    BY <1>11, <1>20, <1>23

\* Through lost, failed and repeated runs a rebalance ends where it was decided,
\* and a name that left the universe does not grow on the way.
THEOREM BookFollowsTheTargetsAlways == Spec => []BookFollowsTheTargets
  <1>1. RecordInv => BookFollowsTheTargets
    BY NobodyIsToppedUp, TargetIsReached DEF BookFollowsTheTargets
  <1> QED
    BY <1>1, InvAlways, PTL
=============================================================================
