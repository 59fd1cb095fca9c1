------------------------- MODULE DataPipelineProofs -------------------------
(***************************************************************************)
(* What holds of the data job for any stocks, calendar, overlap, tolerance *)
(* and number of events, jobs and cards, and of its quality step for any   *)
(* events, known issues and files of the operator.                         *)
(*                                                                         *)
(* The overlap window needs two facts of every stock, ingested or not: its *)
(* bars mirror the vendor's except on dates known to be out of sight, or   *)
(* all of them have moved so far that any window shows it.  A card needs   *)
(* that a rewrite never changes what the table was at an earlier moment.   *)
(***************************************************************************)
EXTENDS DataPipeline, DataQuality, FiniteSetTheorems, WellFoundedInduction, TLAPS

USE DataConstants

-----------------------------------------------------------------------------
(* The invariant.                                                          *)

\* The vendor serves no bar of a day to come.  A stored bar is final, the vendor
\* still serves its date, and restatements only lower it.
BarsAreFinal ==
    /\ \A s \in Stocks, d \in Dates : d > today => vendor[s][d] = None
    /\ \A s \in Stocks, d \in Dates :
           bars[s][d] # None => is_final(d) /\ vendor[s][d] # None /\ vendor[s][d] <= bars[s][d]

\* The tolerance of _drifted, for a close that fell.
Beyond(old, new) == (old - new) * TolDen > TolNum * old

\* All that is stored has drifted.
Shifted(s) == \A d \in StoredDates(bars, s) : Beyond(bars[s][d], vendor[s][d])

\* Up to the last stored date the bars are the vendor's, unseen dates excepted.
Mirrors(s) ==
    \A e \in StoredDates(bars, s) : \A d \in Dates \ unseen[s] : d <= e => bars[s][d] = vendor[s][d]

DriftShows == \A s \in Stocks : Shifted(s) \/ Mirrors(s)

\* Every write has a second of its own.
RevisionsAreDated ==
    /\ \A r \in revisions : r.superseded_at <= clock
    /\ \A r, q \in revisions :
           r.stock = q.stock /\ r.date = q.date /\ r.superseded_at = q.superseded_at => r = q

\* The dates a card of these stored dates reads.
Latest(stored) == {d \in stored : Cardinality({e \in stored : d <= e}) <= FingerprintBars}

\* The bars of a card are still stored, and their values at its issue are known.
CardIsTrue(c) ==
    /\ c.stock \in Stocks /\ c.as_of \in Nat /\ c.issued_at \in Nat /\ c.issued_at <= clock
    /\ c.stored \subseteq StoredDates(bars, c.stock)
    /\ c.data = [d \in Latest(c.stored) |-> ValueAsKnown(c.stock, d, c.issued_at)]

CardsAreTrue == \A c \in cards : CardIsTrue(c)

\* Nothing is ingested once the calendar is rebuilt, until the next job, and each
\* command has its steps.
CalendarIsRebuilt ==
    \/ ended \in {"data", "backfill", "ingest"}
    \/ job.phase = "quality" /\ job.command = "data"
AlertsTellHistory == \A s \in members : alerts[s] = IF Blocked(s) THEN Sessions(s) ELSE None
CalendarFollows ==
    /\ ended # "none" => job = Idle
    /\ job.phase = "backfill" => job.command \in {"data", "backfill"}
    /\ job.phase = "ingest" => job.command \in {"data", "ingest"}
    /\ job.phase = "quality" => job.command \in {"data", "quality"} /\ job.todo = {}
    /\ CalendarIsRebuilt => calendar = ComputeTradingDays(bars)
    /\ ended \in {"data", "backfill", "quality"} => AlertsTellHistory

DataInv ==
    /\ DataTypeOK /\ BarsAreFinal /\ DriftShows /\ NoSplice
    /\ RevisionsAreDated /\ CardsAreTrue /\ CalendarFollows

-----------------------------------------------------------------------------
(* Dates and the greatest of them.                                         *)

LEMMA Constants ==
    /\ LastDate \in Nat \ {0} /\ TolDen \in Nat \ {0} /\ Base \in Nat \ {0} /\ TolNum \in Nat /\ Overlap \in Nat
    /\ 1 \in Dates /\ Dates \subseteq Nat \ {0} /\ None \notin Closes /\ None \notin Dates
    /\ Closes \subseteq Nat /\ 0 \in Closes /\ Base \in Closes
  BY DEF Dates, Closes, None

\* The order of the natural numbers is well-founded.
LessThan == {ss \in Nat \X Nat : ss[1] < ss[2]}

LEMMA LeastOfNaturals ==
    ASSUME NEW S, S \subseteq Nat, S # {}
    PROVE  \E n \in S : \A m \in S : n <= m
  <1>1. OpToRel(<, Nat) = LessThan
    BY Zenon DEF OpToRel, LessThan
  <1>2. IsWellFoundedOn(LessThan, Nat)
    BY <1>1, NatLessThanWellFounded
  <1>3. PICK n \in S : \A m \in S : <<m, n>> \notin LessThan
    BY <1>2, WFMin, Zenon
  <1>4. ASSUME NEW m \in S PROVE n <= m
    <2>1. m \in Nat /\ n \in Nat
      OBVIOUS
    <2>2. m < n => <<m, n>> \in LessThan
      BY <2>1 DEF LessThan
    <2> QED
      BY <1>3, <2>1, <2>2
  <1> QED
    BY <1>4

\* Max is the greatest of a set that has one.
LEMMA Greatest ==
    ASSUME NEW S, S \subseteq Int, NEW m \in S, \A x \in S : x <= m
    PROVE  Max(S) = m
  <1>1. \A y \in S : m >= y
    OBVIOUS
  <1>2. Max(S) \in S /\ \A y \in S : Max(S) >= y
    BY <1>1, Zenon DEF Max
  <1>3. m >= Max(S) /\ Max(S) >= m /\ Max(S) \in Int /\ m \in Int
    BY <1>1, <1>2
  <1> QED
    BY <1>3

LEMMA MaxOfTwo ==
    ASSUME NEW a \in Int, NEW b \in Int
    PROVE  Max({a, b}) = IF a >= b THEN a ELSE b
  <1>1. {a, b} \subseteq Int
    OBVIOUS
  <1>2. CASE a >= b
    <2>1. \A x \in {a, b} : x <= a
      BY <1>2
    <2>2. Max({a, b}) = a
      BY <1>1, <2>1, Greatest
    <2> QED
      BY <1>2, <2>2
  <1>3. CASE ~ (a >= b)
    <2>1. \A x \in {a, b} : x <= b
      BY <1>3
    <2>2. Max({a, b}) = b
      BY <1>1, <2>1, Greatest
    <2> QED
      BY <1>3, <2>2
  <1> QED
    BY <1>2, <1>3

\* A bounded set of natural numbers has a greatest one.
LEMMA GreatestOfBounded ==
    ASSUME NEW T, T \subseteq Nat, T # {}, NEW bound \in Nat, \A d \in T : d <= bound
    PROVE  Max(T) \in T /\ \A d \in T : d <= Max(T)
  <1> DEFINE Bounds == {n \in Nat : \A d \in T : d <= n}
  <1>1. bound \in Bounds
    OBVIOUS
  <1>2. PICK n \in Bounds : \A m \in Bounds : n <= m
    BY <1>1, LeastOfNaturals
  <1>4. n \in T
    <2> SUFFICES ASSUME n \notin T PROVE FALSE
      OBVIOUS
    <2>1. \A d \in T : d <= n - 1 /\ n - 1 \in Nat
      OBVIOUS
    <2>2. n - 1 \in Bounds
      BY <2>1
    <2> QED
      BY <1>2, <2>2
  <1>5. T \subseteq Int /\ \A d \in T : d <= n
    BY <1>2
  <1>6. Max(T) = n
    BY <1>4, <1>5, Greatest
  <1> QED
    BY <1>4, <1>5, <1>6

\* A set of dates has a last one.
LEMMA LastOfDates ==
    ASSUME NEW T, T \subseteq Dates, T # {}
    PROVE  Max(T) \in T /\ \A d \in T : d <= Max(T)
  <1>1. T \subseteq Nat /\ LastDate \in Nat /\ \A d \in T : d <= LastDate
    BY Constants DEF Dates
  <1> QED
    BY <1>1, GreatestOfBounded

-----------------------------------------------------------------------------
(* What an ingest reads and writes.                                        *)

LEMMA Cells ==
    ASSUME DataTypeOK, NEW s \in Stocks
    PROVE  /\ \A d \in Dates : bars[s][d] \in Closes \union {None} /\ vendor[s][d] \in Closes \union {None}
           /\ \A d \in Dates : (bars[s][d] # None => bars[s][d] \in Nat) /\ (vendor[s][d] # None => vendor[s][d] \in Nat)
           /\ StoredDates(bars, s) \subseteq Dates /\ today \in Nat /\ today <= LastDate
           /\ bars[s] \in [Dates -> Closes \union {None}] /\ vendor[s] \in [Dates -> Closes \union {None}]
  <1>1. bars[s] \in [Dates -> Closes \union {None}] /\ vendor[s] \in [Dates -> Closes \union {None}]
    BY DEF DataTypeOK
  <1>2. \A d \in Dates : bars[s][d] \in Closes \union {None} /\ vendor[s][d] \in Closes \union {None}
    BY <1>1
  <1>3. StoredDates(bars, s) \subseteq Dates /\ today \in Nat /\ today <= LastDate
    BY DEF DataTypeOK, StoredDates
  <1> QED
    BY <1>1, <1>2, <1>3, Constants

\* The dates fetched are the final ones the vendor serves.
LEMMA FetchedDates ==
    ASSUME DataTypeOK, NEW s \in Stocks, NEW frm \in Dates
    PROVE  /\ Fetched(s, frm) \subseteq Dates
           /\ \A d \in Dates : d \in Fetched(s, frm) <=> frm <= d /\ vendor[s][d] # None /\ is_final(d)
  <1>1. today \in Nat /\ today <= LastDate
    BY Cells
  <1>2. frm .. today \subseteq Dates
    BY <1>1, Constants DEF Dates
  <1>3. \A d \in Dates : is_final(d) => d <= today
    BY <1>1, Constants DEF is_final
  <1> QED
    BY <1>1, <1>2, <1>3, Constants DEF Fetched, fetch_daily, Dates

\* The window starts at the first date, or it covers the last stored date, which
\* then has not drifted.
LEMMA Window ==
    ASSUME DataInv, NEW s \in Stocks, NEW full \in BOOLEAN
    PROVE  /\ FetchFrom(s, full) \in Dates
           /\ \/ FetchFrom(s, full) = 1
              \/ Mirrors(s) /\ \E e \in StoredDates(bars, s) : FetchFrom(s, full) <= e
  <1> DEFINE stored == StoredDates(bars, s)
             recent == IF full \/ stored = {} THEN 1 ELSE Max({1, Max(stored) - Overlap})
  <1>1. DataTypeOK /\ BarsAreFinal /\ (Shifted(s) \/ Mirrors(s)) /\ stored \subseteq Dates
    BY Cells DEF DataInv, DriftShows
  <1>2. FetchFrom(s, full) = IF Drifted(s, Fetched(s, recent)) /\ ~full THEN 1 ELSE recent
    BY DEF FetchFrom
  <1>3. CASE full \/ stored = {}
    BY <1>2, <1>3, Constants
  <1>4. CASE ~ full /\ stored # {}
    <2>1. PICK e \in stored : e = Max(stored)
      BY <1>1, <1>4, LastOfDates
    <2>2. e \in Dates /\ e \in Nat \ {0} /\ e - Overlap \in Int
      <3>1. e \in Dates
        BY <1>1
      <3>2. e \in Nat \ {0} /\ Overlap \in Nat
        BY <3>1, Constants
      <3> QED
        BY <3>1, <3>2
    <2>3. recent = IF 1 >= e - Overlap THEN 1 ELSE e - Overlap
      BY <1>4, <2>1, <2>2, MaxOfTwo
    <2>4. recent \in Dates /\ recent <= e
      BY <2>2, <2>3, Constants DEF Dates
    <2> HIDE DEF recent
    <2>5. CASE Drifted(s, Fetched(s, recent))
      BY <1>2, <1>4, <2>5, Constants
    <2>6. CASE ~ Drifted(s, Fetched(s, recent))
      <3>1. bars[s][e] # None /\ is_final(e) /\ vendor[s][e] # None /\ vendor[s][e] <= bars[s][e]
        BY <1>1, <2>2 DEF BarsAreFinal, StoredDates
      <3>2. e \in Fetched(s, recent)
        BY <1>1, <2>2, <2>4, <3>1, FetchedDates
      <3>3. ~ (Abs(vendor[s][e] - bars[s][e]) * TolDen > TolNum * bars[s][e])
        BY <2>6, <3>1, <3>2 DEF Drifted
      <3>4. bars[s][e] \in Nat /\ vendor[s][e] \in Nat
        BY <1>1, <2>2, <3>1, Cells
      <3>5. Abs(vendor[s][e] - bars[s][e]) = bars[s][e] - vendor[s][e]
        BY <3>1, <3>4 DEF Abs
      <3>6. ~ Shifted(s)
        BY <2>1, <3>3, <3>5 DEF Shifted, Beyond
      <3> QED
        BY <1>1, <1>2, <2>4, <2>6, <3>6
    <2> QED
      BY <2>5, <2>6
  <1> QED
    BY <1>3, <1>4

\* What is written: the fetched dates of one stock.
LEMMA Writes ==
    ASSUME DataTypeOK, NEW s \in Stocks, IngestSymbol(s),
           NEW frm, frm = FetchFrom(s, job.full), frm \in Dates
    PROVE  /\ bars' \in [Stocks -> [Dates -> Closes \union {None}]]
           /\ \A t \in Stocks \ {s} : bars'[t] = bars[t]
           /\ \A d \in Dates : bars'[s][d] = IF d \in Fetched(s, frm) THEN vendor[s][d] ELSE bars[s][d]
           /\ \A t \in Stocks : StoredDates(bars, t) \subseteq StoredDates(bars', t)
           /\ revisions' = revisions \union Superseded(s, Fetched(s, frm))
           /\ clock' = clock + 1
           /\ unseen' = [unseen EXCEPT ![s] = @ \ (frm .. LastDate)] /\ upToDate' = upToDate \union {s}
           /\ job' = [job EXCEPT !.todo = @ \ {s}] /\ s \in job.todo
           /\ UNCHANGED <<vendor, today, closed, members, calendar, alerts, cards, ended, events, jobs>>
  <1> DEFINE row == [d \in Dates |-> IF d \in Fetched(s, frm) THEN vendor[s][d] ELSE bars[s][d]]
  <1>1. bars' = [bars EXCEPT ![s] = row]
    BY DEF IngestSymbol
  <1>2. row \in [Dates -> Closes \union {None}]
    BY Cells
  <1>3. bars \in [Stocks -> [Dates -> Closes \union {None}]]
    BY DEF DataTypeOK
  <1>4. bars'[s] = row /\ \A t \in Stocks \ {s} : bars'[t] = bars[t]
    BY <1>1, <1>3
  <1>5. bars' \in [Stocks -> [Dates -> Closes \union {None}]]
    BY <1>1, <1>2, <1>3
  <1>6. \A d \in Dates : bars'[s][d] = IF d \in Fetched(s, frm) THEN vendor[s][d] ELSE bars[s][d]
    BY <1>4
  <1>7. \A t \in Stocks : StoredDates(bars, t) \subseteq StoredDates(bars', t)
    BY <1>4, <1>6, FetchedDates DEF StoredDates
  <1>8. /\ revisions' = revisions \union Superseded(s, Fetched(s, frm))
        /\ clock' = clock + 1
        /\ unseen' = [unseen EXCEPT ![s] = @ \ (frm .. LastDate)] /\ upToDate' = upToDate \union {s}
        /\ job' = [job EXCEPT !.todo = @ \ {s}] /\ s \in job.todo
        /\ UNCHANGED <<vendor, today, closed, members, calendar, alerts, cards, ended, events, jobs>>
    BY DEF IngestSymbol, world
  <1> QED
    BY <1>4, <1>5, <1>6, <1>7, <1>8

-----------------------------------------------------------------------------
(* An ingest keeps the invariant, part by part.                            *)

LEMMA IngestTypes ==
    ASSUME DataInv, NEW s \in Stocks, IngestSymbol(s)
    PROVE  DataTypeOK'
  <1>1. DataTypeOK
    BY DEF DataInv
  <1>2. PICK frm \in Dates : frm = FetchFrom(s, job.full)
    BY <1>1, Window DEF DataTypeOK, Job
  <1>3. \A d \in Dates : Differs(s, d) => bars[s][d] \in Closes
    BY <1>1, Cells DEF Differs
  <1>4. Superseded(s, Fetched(s, frm)) \subseteq [stock : Stocks, date : Dates, close : Closes, superseded_at : Nat]
    <2>1. clock + 1 \in Nat
      BY <1>1 DEF DataTypeOK
    <2> QED
      BY <1>1, <1>2, <1>3, <2>1, FetchedDates DEF Superseded
  <1>5. revisions' \subseteq [stock : Stocks, date : Dates, close : Closes, superseded_at : Nat]
    BY <1>1, <1>2, <1>4, Writes DEF DataTypeOK
  <1>6. job' \in Job
    <2>1. job' = [job EXCEPT !.todo = @ \ {s}]
      BY <1>1, <1>2, Writes
    <2>2. job \in Job
      BY <1>1 DEF DataTypeOK
    <2> QED
      BY <2>1, <2>2 DEF Job
  <1>7. unseen' \in [Stocks -> SUBSET Dates]
    BY <1>1, <1>2, Writes, SMTT(20) DEF DataTypeOK
  <1>8. bars' \in [Stocks -> [Dates -> Closes \union {None}]]
    BY <1>1, <1>2, Writes
  <1>9. clock' \in Nat /\ upToDate' \subseteq Stocks
    BY <1>1, <1>2, Writes DEF DataTypeOK
  <1>10. UNCHANGED <<vendor, today, closed, members, calendar, alerts, cards, ended, events, jobs>>
    BY <1>1, <1>2, Writes
  <1> QED
    BY <1>1, <1>5, <1>6, <1>7, <1>8, <1>9, <1>10 DEF DataTypeOK

LEMMA IngestIsFinal ==
    ASSUME DataInv, NEW s \in Stocks, IngestSymbol(s)
    PROVE  BarsAreFinal'
  <1>1. DataTypeOK /\ BarsAreFinal
    BY DEF DataInv
  <1>2. PICK frm \in Dates : frm = FetchFrom(s, job.full)
    BY <1>1, Window DEF DataTypeOK, Job
  <1>3. /\ \A t \in Stocks \ {s} : bars'[t] = bars[t]
        /\ \A d \in Dates : bars'[s][d] = IF d \in Fetched(s, frm) THEN vendor[s][d] ELSE bars[s][d]
        /\ UNCHANGED <<vendor, today, closed>>
    BY <1>1, <1>2, Writes
  <1>4. \A t \in Stocks, d \in Dates : bars'[t][d] # None => is_final(d) /\ vendor[t][d] # None /\ vendor[t][d] <= bars'[t][d]
    <2> SUFFICES ASSUME NEW t \in Stocks, NEW d \in Dates, bars'[t][d] # None
                 PROVE  is_final(d) /\ vendor[t][d] # None /\ vendor[t][d] <= bars'[t][d]
      OBVIOUS
    <2>1. CASE t = s /\ d \in Fetched(s, frm)
      <3>1. vendor[s][d] # None /\ is_final(d) /\ bars'[s][d] = vendor[s][d]
        BY <1>1, <1>3, <2>1, FetchedDates
      <3>2. vendor[s][d] \in Nat
        BY <1>1, <3>1, Cells
      <3> QED
        BY <2>1, <3>1, <3>2
    <2>2. CASE ~ (t = s /\ d \in Fetched(s, frm))
      <3>1. bars'[t][d] = bars[t][d]
        BY <1>3, <2>2
      <3> QED
        BY <1>1, <3>1 DEF BarsAreFinal
    <2> QED
      BY <2>1, <2>2
  <1>5. \A d : is_final(d)' = is_final(d)
    BY <1>3 DEF is_final
  <1> QED
    BY <1>1, <1>3, <1>4, <1>5 DEF BarsAreFinal

\* After an ingest the bars of the stock are the vendor's, unseen dates excepted:
\* those before the window were, or the window is the whole history.
LEMMA IngestMirrors ==
    ASSUME DataInv, NEW s \in Stocks, IngestSymbol(s), NEW d \in Dates, d \notin unseen'[s]
    PROVE  bars'[s][d] = IF is_final(d) THEN vendor[s][d] ELSE None
  <1>1. DataTypeOK /\ BarsAreFinal
    BY DEF DataInv
  <1>2. PICK frm \in Dates : frm = FetchFrom(s, job.full)
    BY <1>1, Window DEF DataTypeOK, Job
  <1>3. /\ bars'[s][d] = IF d \in Fetched(s, frm) THEN vendor[s][d] ELSE bars[s][d]
        /\ unseen' = [unseen EXCEPT ![s] = @ \ (frm .. LastDate)]
    BY <1>1, <1>2, Writes
  <1>4. d \in frm .. LastDate \/ d \notin unseen[s]
    BY <1>1, <1>3 DEF DataTypeOK
  <1>5. bars[s][d] # None => is_final(d) /\ vendor[s][d] # None
    BY <1>1 DEF BarsAreFinal
  <1>6. CASE d \in Fetched(s, frm)
    BY <1>1, <1>3, <1>6, FetchedDates
  <1>7. CASE d \notin Fetched(s, frm) /\ frm <= d
    <2>1. vendor[s][d] = None \/ ~ is_final(d)
      BY <1>1, <1>7, FetchedDates
    <2> QED
      BY <1>3, <1>5, <1>7, <2>1
  <1>8. CASE d \notin Fetched(s, frm) /\ ~ (frm <= d)
    <2>1. frm # 1 /\ d \notin unseen[s]
      BY <1>2, <1>4, <1>8, Constants
    <2>2. Mirrors(s) /\ \E e \in StoredDates(bars, s) : frm <= e
      <3>1. job.full \in BOOLEAN
        BY <1>1 DEF DataTypeOK, Job
      <3> QED
        BY <1>2, <2>1, <3>1, Window
    <2>3. PICK e \in StoredDates(bars, s) : frm <= e
      BY <2>2
    <2>4. e \in Dates /\ e \in Nat /\ d \in Nat /\ frm \in Nat /\ d < e
      BY <1>1, <1>8, <2>3, Cells, Constants
    <2>5. bars[s][d] = vendor[s][d]
      BY <2>1, <2>2, <2>3, <2>4 DEF Mirrors
    <2>6. is_final(e)
      BY <1>1, <2>3 DEF BarsAreFinal, StoredDates
    <2>7. today \in Nat
      BY <1>1, Cells
    <2>8. is_final(d)
      BY <2>4, <2>6, <2>7 DEF is_final
    <2> QED
      BY <1>3, <1>8, <2>5, <2>8
  <1> QED
    BY <1>6, <1>7, <1>8

LEMMA IngestSplicesNothing ==
    ASSUME DataInv, NEW s \in Stocks, IngestSymbol(s)
    PROVE  NoSplice' /\ DriftShows'
  <1>1. DataTypeOK /\ DataTypeOK' /\ BarsAreFinal' /\ NoSplice /\ DriftShows
    BY IngestTypes, IngestIsFinal DEF DataInv
  <1>2. PICK frm \in Dates : frm = FetchFrom(s, job.full)
    BY <1>1, Window DEF DataTypeOK, Job
  <1>3. /\ \A t \in Stocks \ {s} : bars'[t] = bars[t] /\ unseen'[t] = unseen[t]
        /\ upToDate' = upToDate \union {s} /\ upToDate \subseteq Stocks
        /\ UNCHANGED <<vendor, today, closed>>
    BY <1>1, <1>2, Writes DEF DataTypeOK
  <1>4. \A d : is_final(d)' = is_final(d)
    BY <1>3 DEF is_final
  <1>5. \A d \in Dates \ unseen'[s] : bars'[s][d] = IF is_final(d) THEN vendor[s][d] ELSE None
    BY IngestMirrors
  <1>6. NoSplice'
    <2> SUFFICES ASSUME NEW t \in upToDate', NEW d \in Dates \ unseen'[t]
                 PROVE  bars'[t][d] = IF is_final(d) THEN vendor'[t][d] ELSE None
      BY <1>4 DEF NoSplice
    <2>1. CASE t = s
      BY <1>3, <1>5, <2>1
    <2>2. CASE t # s
      BY <1>1, <1>3, <2>2 DEF NoSplice
    <2> QED
      BY <2>1, <2>2
  <1>7. Mirrors(s)'
    <2> SUFFICES ASSUME NEW e \in StoredDates(bars', s), NEW d \in Dates \ unseen'[s], d <= e
                 PROVE  bars'[s][d] = vendor[s][d]
      BY <1>3 DEF Mirrors
    <2>1. e \in Dates /\ bars'[s][e] # None
      BY DEF StoredDates
    <2>2. is_final(e)
      BY <1>1, <1>4, <2>1 DEF BarsAreFinal
    <2>3. e \in Nat /\ d \in Nat /\ today \in Nat
      BY <1>1, <2>1, Cells, Constants
    <2>4. is_final(d)
      BY <2>2, <2>3 DEF is_final
    <2> QED
      BY <1>5, <2>4
  <1>8. ASSUME NEW t \in Stocks \ {s} PROVE Shifted(t)' \/ Mirrors(t)'
    <2>1. bars'[t] = bars[t] /\ unseen'[t] = unseen[t] /\ vendor'[t] = vendor[t]
      BY <1>3
    <2>2. StoredDates(bars, t)' = StoredDates(bars, t)
      BY <2>1 DEF StoredDates
    <2>3. Shifted(t)' <=> Shifted(t)
      BY <2>1, <2>2 DEF Shifted, Beyond
    <2>4. Mirrors(t)' <=> Mirrors(t)
      BY <2>1, <2>2 DEF Mirrors
    <2> QED
      BY <1>1, <2>3, <2>4 DEF DriftShows
  <1> QED
    BY <1>6, <1>7, <1>8 DEF DriftShows

-----------------------------------------------------------------------------
(* A rewrite leaves the past as it was.                                    *)

LEMMA IngestIsDated ==
    ASSUME DataInv, NEW s \in Stocks, IngestSymbol(s)
    PROVE  RevisionsAreDated' /\ clock' = clock + 1 /\ clock \in Nat
  <1>1. DataTypeOK /\ RevisionsAreDated /\ clock \in Nat /\ \A r \in revisions : r.superseded_at \in Nat
    BY DEF DataInv, DataTypeOK
  <1>2. PICK frm \in Dates : frm = FetchFrom(s, job.full)
    BY <1>1, Window DEF DataTypeOK, Job
  <1>3. revisions' = revisions \union Superseded(s, Fetched(s, frm)) /\ clock' = clock + 1
    BY <1>1, <1>2, Writes
  <1>4. \A r \in Superseded(s, Fetched(s, frm)) :
            r.superseded_at = clock + 1
            /\ r = [stock |-> s, date |-> r.date, close |-> bars[s][r.date], superseded_at |-> clock + 1]
    BY DEF Superseded
  <1>5. \A r, q \in Superseded(s, Fetched(s, frm)) : r.date = q.date => r = q
    BY <1>4
  <1>6. \A r \in revisions : r.superseded_at < clock + 1
    BY <1>1 DEF RevisionsAreDated
  <1>7. \A r \in revisions' : r.superseded_at <= clock'
    BY <1>1, <1>3, <1>4, <1>6
  <1>8. ASSUME NEW r \in revisions', NEW q \in revisions',
               r.stock = q.stock, r.date = q.date, r.superseded_at = q.superseded_at
        PROVE  r = q
    <2>1. CASE r \in revisions /\ q \in revisions
      BY <1>1, <1>8, <2>1 DEF RevisionsAreDated
    <2>2. CASE r \notin revisions /\ q \notin revisions
      BY <1>3, <1>5, <1>8, <2>2
    <2>3. CASE r \in revisions /\ q \notin revisions
      BY <1>1, <1>3, <1>4, <1>6, <1>8, <2>3
    <2>4. CASE r \notin revisions /\ q \in revisions
      BY <1>1, <1>3, <1>4, <1>6, <1>8, <2>4
    <2> QED
      BY <2>1, <2>2, <2>3, <2>4
  <1> QED
    BY <1>1, <1>3, <1>7, <1>8 DEF RevisionsAreDated

\* The oldest of a set of revisions with dates of their own.
LEMMA Oldest ==
    ASSUME NEW L, \A r \in L : r.superseded_at \in Nat,
           \A r, q \in L : r.superseded_at = q.superseded_at => r = q,
           NEW o \in L, \A q \in L : o.superseded_at <= q.superseded_at
    PROVE  (CHOOSE r \in L : \A q \in L : r.superseded_at <= q.superseded_at) = o
  <1> DEFINE first == CHOOSE r \in L : \A q \in L : r.superseded_at <= q.superseded_at
  <1>1. first \in L /\ \A q \in L : first.superseded_at <= q.superseded_at
    BY Zenon
  <1> HIDE DEF first
  <1>2. first.superseded_at <= o.superseded_at /\ o.superseded_at <= first.superseded_at
        /\ first.superseded_at \in Nat /\ o.superseded_at \in Nat
    BY <1>1
  <1>3. first.superseded_at = o.superseded_at
    BY <1>2
  <1>4. first = o
    BY <1>1, <1>3
  <1> QED
    BY <1>4 DEF first

LEMMA OldestExists ==
    ASSUME NEW L, \A r \in L : r.superseded_at \in Nat, L # {}
    PROVE  \E o \in L : \A q \in L : o.superseded_at <= q.superseded_at
  <1> DEFINE Moments == {r.superseded_at : r \in L}
  <1>1. Moments \subseteq Nat /\ Moments # {}
    OBVIOUS
  <1>2. PICK n \in Moments : \A m \in Moments : n <= m
    BY <1>1, LeastOfNaturals
  <1>3. PICK o \in L : o.superseded_at = n
    OBVIOUS
  <1> QED
    BY <1>2, <1>3

\* What a stored bar was at a moment that has passed stays known.
LEMMA PastStays ==
    ASSUME DataInv, NEW s \in Stocks, IngestSymbol(s),
           NEW t \in Stocks, NEW d \in StoredDates(bars, t), NEW k \in Nat, k <= clock
    PROVE  ValueAsKnown(t, d, k)' = ValueAsKnown(t, d, k)
  <1>1. DataTypeOK /\ RevisionsAreDated /\ clock \in Nat /\ d \in Dates /\ bars[t][d] # None
    BY DEF DataInv, DataTypeOK, StoredDates
  <1>2. PICK frm \in Dates : frm = FetchFrom(s, job.full)
    BY <1>1, Window DEF DataTypeOK, Job
  <1>3. /\ revisions' = revisions \union Superseded(s, Fetched(s, frm))
        /\ \A u \in Stocks \ {s} : bars'[u] = bars[u]
        /\ \A e \in Dates : bars'[s][e] = IF e \in Fetched(s, frm) THEN vendor[s][e] ELSE bars[s][e]
    BY <1>1, <1>2, Writes
  <1>4. PICK L : L = RevisionsAfter(t, d, k)
    OBVIOUS
  <1>5. PICK M : M = RevisionsAfter(t, d, k)'
    OBVIOUS
  <1>6. /\ ValueAsKnown(t, d, k) = IF L = {} THEN bars[t][d]
                ELSE (CHOOSE r \in L : \A q \in L : r.superseded_at <= q.superseded_at).close
        /\ ValueAsKnown(t, d, k)' = IF M = {} THEN bars'[t][d]
                ELSE (CHOOSE r \in M : \A q \in M : r.superseded_at <= q.superseded_at).close
    BY <1>4, <1>5 DEF ValueAsKnown
  <1>7. \A r \in L : r.superseded_at \in Nat /\ r.superseded_at < clock + 1
    BY <1>1, <1>4 DEF RevisionsAfter, DataTypeOK, RevisionsAreDated
  <1>8. CASE t = s /\ d \in Fetched(s, frm) /\ Differs(s, d)
    <2> DEFINE new == [stock |-> s, date |-> d, close |-> bars[s][d], superseded_at |-> clock + 1]
    <2>1. \A r \in Superseded(s, Fetched(s, frm)) : r.date = d => r = new
      BY DEF Superseded
    <2>2. new \in Superseded(s, Fetched(s, frm))
      BY <1>8 DEF Superseded
    <2>3. new.stock = t /\ new.date = d /\ new.superseded_at > k /\ new.superseded_at = clock + 1 /\ new.close = bars[t][d]
      BY <1>1, <1>8
    <2> HIDE DEF new
    <2>4. M = L \union {new}
      BY <1>3, <1>4, <1>5, <2>1, <2>2, <2>3 DEF RevisionsAfter
    <2>5. /\ \A r \in M : r.superseded_at \in Nat
          /\ \A r, q \in M : r.superseded_at = q.superseded_at => r = q
      <3>1. \A r, q \in L : r.superseded_at = q.superseded_at => r = q
        BY <1>1, <1>4 DEF RevisionsAfter, RevisionsAreDated
      <3>2. \A r \in L : r.superseded_at # new.superseded_at
        BY <1>1, <1>7, <2>3
      <3> QED
        BY <1>1, <1>7, <2>3, <2>4, <3>1, <3>2
    <2>6. CASE L = {}
      <3>1. (CHOOSE r \in M : \A q \in M : r.superseded_at <= q.superseded_at) = new
        <4>1. new \in M /\ \A q \in M : new.superseded_at <= q.superseded_at
          BY <1>1, <2>3, <2>4, <2>6
        <4> QED
          BY <2>5, <4>1, Oldest
      <3> QED
        BY <1>6, <2>3, <2>4, <2>6, <3>1
    <2>7. CASE L # {}
      <3>1. PICK o \in L : \A q \in L : o.superseded_at <= q.superseded_at
        BY <1>7, <2>7, OldestExists
      <3>2. o \in M /\ \A q \in M : o.superseded_at <= q.superseded_at
        BY <1>1, <1>7, <2>3, <2>4, <3>1
      <3>3. (CHOOSE r \in M : \A q \in M : r.superseded_at <= q.superseded_at) = o
        BY <2>5, <3>2, Oldest
      <3>4. (CHOOSE r \in L : \A q \in L : r.superseded_at <= q.superseded_at) = o
        <4>1. /\ \A r \in L : r.superseded_at \in Nat
              /\ \A r, q \in L : r.superseded_at = q.superseded_at => r = q
          BY <2>4, <2>5
        <4> QED
          BY <3>1, <4>1, Oldest
      <3> QED
        BY <1>6, <2>4, <2>7, <3>3, <3>4
    <2> QED
      BY <2>6, <2>7
  <1>9. CASE ~ (t = s /\ d \in Fetched(s, frm) /\ Differs(s, d))
    <2>1. bars'[t][d] = bars[t][d]
      BY <1>1, <1>3, <1>9 DEF Differs
    <2>2. \A r \in Superseded(s, Fetched(s, frm)) : ~ (r.stock = t /\ r.date = d)
      BY <1>9 DEF Superseded
    <2>3. M = L
      BY <1>3, <1>4, <1>5, <2>2 DEF RevisionsAfter
    <2> QED
      BY <1>6, <2>1, <2>3
  <1> QED
    BY <1>8, <1>9

LEMMA IngestKeepsTheCards ==
    ASSUME DataInv, NEW s \in Stocks, IngestSymbol(s)
    PROVE  CardsAreTrue'
  <1>1. DataTypeOK /\ CardsAreTrue
    BY DEF DataInv
  <1>2. PICK frm \in Dates : frm = FetchFrom(s, job.full)
    BY <1>1, Window DEF DataTypeOK, Job
  <1>3. cards' = cards /\ \A t \in Stocks : StoredDates(bars, t) \subseteq StoredDates(bars', t)
    BY <1>1, <1>2, Writes
  <1>4. clock' = clock + 1 /\ clock \in Nat
    BY IngestIsDated
  <1>5. ASSUME NEW c \in cards PROVE CardIsTrue(c)'
    <2>1. CardIsTrue(c)
      BY <1>1 DEF CardsAreTrue
    <2>2. Latest(c.stored) \subseteq c.stored
      BY DEF Latest
    <2>3. \A d \in Latest(c.stored) : ValueAsKnown(c.stock, d, c.issued_at)' = ValueAsKnown(c.stock, d, c.issued_at)
      BY <2>1, <2>2, PastStays DEF CardIsTrue
    <2>4. c.data = [d \in Latest(c.stored) |-> ValueAsKnown(c.stock, d, c.issued_at)']
      BY <2>1, <2>3, Zenon DEF CardIsTrue
    <2>5. c.stored \subseteq StoredDates(bars', c.stock)
      BY <1>3, <2>1 DEF CardIsTrue
    <2> QED
      BY <1>4, <2>1, <2>4, <2>5 DEF CardIsTrue, Latest
  <1> QED
    BY <1>3, <1>5 DEF CardsAreTrue

LEMMA Ingesting ==
    ASSUME DataInv, NEW s \in Stocks, IngestSymbol(s)
    PROVE  DataInv'
  <1>1. CalendarFollows'
    <2>1. CalendarFollows /\ s \in job.todo /\ DataTypeOK
      BY DEF DataInv, IngestSymbol
    <2>2. job.phase # "quality" /\ ended = "none"
      BY <2>1 DEF CalendarFollows, Idle
    <2>3. job'.phase = job.phase /\ job'.command = job.command /\ ended' = ended
      BY <2>1 DEF IngestSymbol, DataTypeOK, Job
    <2> QED
      BY <2>1, <2>2, <2>3 DEF CalendarFollows, CalendarIsRebuilt
  <1> QED
    BY <1>1, IngestTypes, IngestIsFinal, IngestSplicesNothing, IngestIsDated, IngestKeepsTheCards DEF DataInv

-----------------------------------------------------------------------------
(* The vendor and the calendar of the exchange.                            *)

LEMMA SeriesKept ==
    ASSUME DataInv, UNCHANGED <<vendor, today, closed, bars, upToDate, unseen>>
    PROVE  BarsAreFinal' /\ DriftShows' /\ NoSplice'
  <1>1. \A d : is_final(d)' = is_final(d)
    BY DEF is_final
  <1>2. BarsAreFinal'
    BY <1>1 DEF DataInv, BarsAreFinal
  <1>3. \A s : Shifted(s)' = Shifted(s) /\ Mirrors(s)' = Mirrors(s)
    BY DEF Shifted, Mirrors, Beyond, StoredDates
  <1>4. NoSplice'
    BY <1>1 DEF DataInv, NoSplice
  <1> QED
    BY <1>2, <1>3, <1>4 DEF DataInv, DriftShows

LEMMA PastKept ==
    ASSUME DataInv, UNCHANGED <<bars, revisions>>, clock' \in Nat, clock <= clock'
    PROVE  /\ RevisionsAreDated'
           /\ \A c \in cards : CardIsTrue(c)'
           /\ \A s, d, k : ValueAsKnown(s, d, k)' = ValueAsKnown(s, d, k)
  <1>1. clock \in Nat /\ \A r \in revisions : r.superseded_at \in Nat
    BY DEF DataInv, DataTypeOK
  <1>2. RevisionsAreDated'
    BY <1>1 DEF DataInv, RevisionsAreDated
  <1>3. \A s, d, k : ValueAsKnown(s, d, k)' = ValueAsKnown(s, d, k)
    BY DEF ValueAsKnown, RevisionsAfter
  <1>4. ASSUME NEW c \in cards PROVE CardIsTrue(c)'
    <2>1. CardIsTrue(c)
      BY DEF DataInv, CardsAreTrue
    <2>2. c.data = [d \in Latest(c.stored) |-> ValueAsKnown(c.stock, d, c.issued_at)']
      BY <1>3, <2>1, Zenon DEF CardIsTrue
    <2>3. StoredDates(bars, c.stock)' = StoredDates(bars, c.stock)
      BY DEF StoredDates
    <2> QED
      BY <1>1, <2>1, <2>2, <2>3 DEF CardIsTrue, Latest
  <1> QED
    BY <1>2, <1>3, <1>4

\* The tolerance is for a ratio: a further fall, or one from a higher bar, is
\* beyond it too.
LEMMA BeyondFalls ==
    ASSUME NEW old \in Nat, NEW new \in Nat, NEW lower \in Nat, lower <= new, Beyond(old, new)
    PROVE  Beyond(old, lower)
  <1>1. TolDen \in Nat /\ TolNum \in Nat /\ (old - new) * TolDen > TolNum * old
    BY Constants DEF Beyond
  <1>2. (old - lower) * TolDen >= (old - new) * TolDen
    <2>1. PICK k \in Nat : k = new - lower
      OBVIOUS
    <2>2. old - lower = (old - new) + k
      BY <2>1
    <2>3. (old - lower) * TolDen = (old - new) * TolDen + k * TolDen
      BY <1>1, <2>2
    <2>4. k * TolDen >= 0 /\ k * TolDen \in Int
      BY <1>1, <2>1
    <2> QED
      BY <1>1, <2>3, <2>4
  <1>3. TolNum * old \in Int /\ (old - new) * TolDen \in Int /\ (old - lower) * TolDen \in Int
    BY <1>1
  <1> QED
    BY <1>1, <1>2, <1>3 DEF Beyond

LEMMA BeyondFromAbove ==
    ASSUME NEW old \in Nat, NEW new \in Nat, NEW higher \in Nat, old <= higher, Beyond(old, new)
    PROVE  Beyond(higher, new)
  <1>1. TolDen \in Nat /\ TolNum \in Nat /\ (old - new) * TolDen > TolNum * old
    BY Constants DEF Beyond
  <1>2. PICK w \in Int : w = TolDen - TolNum
    BY <1>1
  <1>3. (old - new) * TolDen - TolNum * old = old * w - new * TolDen
    BY <1>1, <1>2
  <1>4. new * TolDen >= 0 /\ new * TolDen \in Int /\ old * w \in Int /\ TolNum * old \in Int
        /\ (old - new) * TolDen \in Int
    BY <1>1, <1>2
  <1>5. old * w > 0
    BY <1>1, <1>3, <1>4
  <1>6. w > 0
    BY <1>2, <1>5
  <1>7. PICK k \in Nat : k = higher - old
    OBVIOUS
  <1>8. higher * w = old * w + k * w /\ k * w >= 0 /\ k * w \in Int /\ higher * w \in Int
    BY <1>2, <1>6, <1>7
  <1>9. (higher - new) * TolDen - TolNum * higher = higher * w - new * TolDen
    BY <1>1, <1>2
  <1>10. (higher - new) * TolDen \in Int /\ TolNum * higher \in Int
    BY <1>1
  <1> QED
    BY <1>1, <1>3, <1>4, <1>8, <1>9, <1>10 DEF Beyond

\* A vendor's change of one stock is out of sight where it says so, or beyond the
\* tolerance on every date.
LEMMA VendorMoves ==
    ASSUME DataInv, NEW s \in Stocks, NEW row \in [Dates -> Closes \union {None}], NEW dates \in SUBSET Dates,
           vendor' = [vendor EXCEPT ![s] = row],
           upToDate' = upToDate \ {s}, unseen' = [unseen EXCEPT ![s] = @ \union dates],
           UNCHANGED <<today, closed, bars>>,
           \A d \in Dates : d > today => row[d] = None,
           \A d \in Dates : vendor[s][d] # None => row[d] # None /\ row[d] <= vendor[s][d],
           \/ \A d \in Dates \ dates : row[d] = vendor[s][d]
           \/ \A d \in Dates : vendor[s][d] # None => Beyond(vendor[s][d], row[d])
    PROVE  BarsAreFinal' /\ DriftShows' /\ NoSplice'
  <1>1. DataTypeOK /\ BarsAreFinal /\ DriftShows /\ NoSplice
    BY DEF DataInv
  <1>2. /\ vendor'[s] = row /\ \A t \in Stocks \ {s} : vendor'[t] = vendor[t]
        /\ unseen'[s] = unseen[s] \union dates /\ \A t \in Stocks \ {s} : unseen'[t] = unseen[t]
    BY <1>1 DEF DataTypeOK
  <1>3. \A d : is_final(d)' = is_final(d)
    BY DEF is_final
  <1>4. \A d \in StoredDates(bars, s) :
            /\ d \in Dates /\ bars[s][d] \in Nat /\ vendor[s][d] \in Nat /\ row[d] \in Nat
            /\ row[d] <= vendor[s][d] /\ vendor[s][d] <= bars[s][d] /\ vendor[s][d] # None
    <2> SUFFICES ASSUME NEW d \in StoredDates(bars, s)
                 PROVE  /\ d \in Dates /\ bars[s][d] \in Nat /\ vendor[s][d] \in Nat /\ row[d] \in Nat
                        /\ row[d] <= vendor[s][d] /\ vendor[s][d] <= bars[s][d] /\ vendor[s][d] # None
      OBVIOUS
    <2>1. d \in Dates /\ bars[s][d] # None
      BY DEF StoredDates
    <2>2. vendor[s][d] # None /\ vendor[s][d] <= bars[s][d] /\ row[d] # None /\ row[d] <= vendor[s][d]
      BY <1>1, <2>1 DEF BarsAreFinal
    <2>3. row[d] \in Closes
      BY <2>1, <2>2
    <2> QED
      BY <1>1, <2>1, <2>2, <2>3, Cells, Constants
  <1>5. BarsAreFinal'
    <2>1. \A t \in Stocks, d \in Dates : d > today => vendor'[t][d] = None
      BY <1>1, <1>2 DEF BarsAreFinal
    <2>2. ASSUME NEW t \in Stocks, NEW d \in Dates, bars[t][d] # None
          PROVE  is_final(d) /\ vendor'[t][d] # None /\ vendor'[t][d] <= bars[t][d]
      <3>1. CASE t = s
        <4>1. d \in StoredDates(bars, s)
          BY <2>2, <3>1 DEF StoredDates
        <4>2. row[d] # None /\ row[d] <= bars[s][d]
          BY <1>4, <4>1
        <4> QED
          BY <1>1, <1>2, <2>2, <3>1, <4>2 DEF BarsAreFinal
      <3>2. CASE t # s
        BY <1>1, <1>2, <2>2, <3>2 DEF BarsAreFinal
      <3> QED
        BY <3>1, <3>2
    <2> QED
      BY <1>3, <2>1, <2>2 DEF BarsAreFinal
  <1>6. Shifted(s)' \/ Mirrors(s)'
    <2>0. StoredDates(bars, s)' = StoredDates(bars, s)
      BY DEF StoredDates
    <2>1. CASE \A d \in Dates : vendor[s][d] # None => Beyond(vendor[s][d], row[d])
      <3>1. \A d \in StoredDates(bars, s) : Beyond(bars[s][d], row[d])
        BY <1>4, <2>1, BeyondFromAbove
      <3> QED
        BY <1>2, <2>0, <3>1 DEF Shifted, Beyond
    <2>2. CASE Shifted(s)
      <3>1. \A d \in StoredDates(bars, s) : Beyond(bars[s][d], row[d])
        BY <1>4, <2>2, BeyondFalls DEF Shifted
      <3> QED
        BY <1>2, <2>0, <3>1 DEF Shifted, Beyond
    <2>3. CASE Mirrors(s) /\ \A d \in Dates \ dates : row[d] = vendor[s][d]
      BY <1>2, <2>0, <2>3 DEF Mirrors
    <2> QED
      BY <1>1, <2>1, <2>2, <2>3 DEF DriftShows
  <1>7. ASSUME NEW t \in Stocks \ {s} PROVE Shifted(t)' \/ Mirrors(t)'
    <2>1. unseen'[t] = unseen[t] /\ vendor'[t] = vendor[t] /\ StoredDates(bars, t)' = StoredDates(bars, t)
      BY <1>2 DEF StoredDates
    <2>2. (Shifted(t)' <=> Shifted(t)) /\ (Mirrors(t)' <=> Mirrors(t))
      BY <2>1 DEF Shifted, Mirrors, Beyond
    <2> QED
      BY <1>1, <2>2 DEF DriftShows
  <1>8. NoSplice'
    <2>1. \A t \in upToDate' : t \in upToDate /\ t \in Stocks \ {s}
      BY <1>1 DEF DataTypeOK
    <2> QED
      BY <1>1, <1>2, <1>3, <2>1 DEF NoSplice
  <1> QED
    BY <1>5, <1>6, <1>7, <1>8 DEF DriftShows

\* What follows the bars stays so while they do.
LEMMA CalendarStays ==
    ASSUME CalendarFollows, UNCHANGED <<bars, calendar, alerts, job, ended>>, members' \subseteq members
    PROVE  CalendarFollows'
  <1>1. ComputeTradingDays(bars)' = ComputeTradingDays(bars)
    BY DEF ComputeTradingDays, ActiveOn, StoredDates
  <1>2. \A s : Blocked(s)' = Blocked(s) /\ Sessions(s)' = Sessions(s)
    BY DEF Blocked, Sessions, StoredDates
  <1>3. CalendarIsRebuilt' <=> CalendarIsRebuilt
    BY DEF CalendarIsRebuilt
  <1>4. AlertsTellHistory => AlertsTellHistory'
    BY <1>2 DEF AlertsTellHistory
  <1> QED
    BY <1>1, <1>3, <1>4 DEF CalendarFollows, Idle

\* A session that opens or ends: what was final stays so, and nothing is up to
\* date any more.
LEMMA TimePasses ==
    ASSUME DataInv, NewDay \/ MarketCloses
    PROVE  DataInv'
  <1>1. DataTypeOK /\ BarsAreFinal /\ DriftShows /\ CalendarFollows
    BY DEF DataInv
  <1>2. /\ upToDate' = {} /\ job = Idle
        /\ UNCHANGED <<bars, revisions, calendar, alerts, members, job, clock, cards, ended, unseen, jobs>>
    BY <1>1 DEF NewDay, MarketCloses, tables
  <1>3. /\ today' \in 0 .. LastDate /\ closed' \in BOOLEAN /\ events' \in Nat
        /\ \A d \in Dates : is_final(d) => is_final(d)'
        /\ \A d \in Dates : is_final(d) => d <= today
        /\ today' \in {today, today + 1}
    <2>1. today \in Nat /\ today <= LastDate /\ Dates \subseteq Nat /\ events \in Nat
      BY <1>1, Constants DEF DataTypeOK
    <2>2. CASE NewDay
      <3>1. today' = today + 1 /\ today < LastDate
        BY <2>2 DEF NewDay
      <3>2. events' \in Nat
        BY <2>1, <2>2 DEF NewDay, Event
      <3>3. closed' = FALSE
        BY <2>2 DEF NewDay
      <3>4. \A d \in Dates : is_final(d) => d <= today
        BY <2>1 DEF is_final
      <3>5. \A d \in Dates : is_final(d) => is_final(d)'
        <4> SUFFICES ASSUME NEW d \in Dates, is_final(d) PROVE is_final(d)'
          OBVIOUS
        <4>1. d <= today /\ d \in Int /\ today \in Int
          BY <2>1, <3>4 DEF Dates
        <4> QED
          BY <3>1, <4>1 DEF is_final
      <3>6. today' \in 0 .. LastDate /\ today' \in {today, today + 1}
        BY <2>1, <3>1, Constants
      <3> QED
        BY <3>2, <3>3, <3>4, <3>5, <3>6
    <2>3. CASE MarketCloses /\ ~ NewDay
      <3>1. today' = today /\ closed' = TRUE /\ events' = events
        BY <2>3 DEF MarketCloses
      <3>2. \A d \in Dates : (is_final(d) => d <= today) /\ (is_final(d) => is_final(d)')
        <4> SUFFICES ASSUME NEW d \in Dates, is_final(d) PROVE d <= today /\ is_final(d)'
          OBVIOUS
        <4>1. d \in Int /\ today \in Int
          BY <2>1 DEF Dates
        <4>2. d < today \/ d = today
          BY DEF is_final
        <4> QED
          BY <3>1, <4>1, <4>2 DEF is_final
      <3> QED
        BY <2>1, <2>3, <3>1, <3>2
    <2> QED
      BY <2>2, <2>3
  <1>4. /\ vendor' \in [Stocks -> [Dates -> Closes \union {None}]]
        /\ \A s \in Stocks, d \in Dates : vendor'[s][d] # vendor[s][d] => d = today + 1 /\ d <= today'
    <2>1. CASE NewDay
      <3>1. PICK traded \in SUBSET Stocks :
                vendor' = [s \in Stocks |->
                    [vendor[s] EXCEPT ![today + 1] = IF s \in traded THEN Base ELSE None]]
        BY <2>1 DEF NewDay
      <3>2. ASSUME NEW s \in Stocks
            PROVE  /\ vendor'[s] = [vendor[s] EXCEPT ![today + 1] = IF s \in traded THEN Base ELSE None]
                   /\ vendor'[s] \in [Dates -> Closes \union {None}]
        BY <1>1, <3>1, Cells, Constants
      <3>3. today' = today + 1 /\ today \in Nat
        BY <1>1, <2>1 DEF NewDay, DataTypeOK
      <3>4. ASSUME NEW s \in Stocks, NEW d \in Dates, d # today + 1 PROVE vendor'[s][d] = vendor[s][d]
        <4>1. vendor[s] \in [Dates -> Closes \union {None}]
          BY <1>1, Cells
        <4>2. vendor'[s] = [vendor[s] EXCEPT ![today + 1] = IF s \in traded THEN Base ELSE None]
          BY <3>2
        <4> QED
          BY <3>4, <4>1, <4>2
      <3>5. vendor' \in [Stocks -> [Dates -> Closes \union {None}]]
        BY <3>1, <3>2
      <3> QED
        BY <3>3, <3>4, <3>5
    <2>2. CASE MarketCloses
      BY <1>1, <2>2 DEF MarketCloses, DataTypeOK
    <2> QED
      BY <2>1, <2>2
  <1>5. \A s \in Stocks, d \in Dates : d > today' => vendor'[s][d] = None
    <2>1. today \in Nat /\ Dates \subseteq Nat /\ today' \in Nat
      BY <1>1, <1>3, Constants DEF DataTypeOK
    <2> SUFFICES ASSUME NEW s \in Stocks, NEW d \in Dates, d > today' PROVE vendor'[s][d] = None
      OBVIOUS
    <2>2. d > today
      BY <1>3, <2>1
    <2>3. vendor'[s][d] = vendor[s][d]
      BY <1>4, <2>1
    <2> QED
      BY <1>1, <2>2, <2>3 DEF BarsAreFinal
  <1>6. \A s \in Stocks, d \in Dates : is_final(d) => vendor'[s][d] = vendor[s][d]
    <2>1. today \in Nat /\ Dates \subseteq Nat
      BY <1>1, Constants DEF DataTypeOK
    <2> QED
      BY <1>3, <1>4, <2>1
  <1>7. BarsAreFinal'
    BY <1>1, <1>2, <1>3, <1>5, <1>6 DEF BarsAreFinal
  <1>8. DriftShows'
    <2> SUFFICES ASSUME NEW s \in Stocks PROVE Shifted(s)' \/ Mirrors(s)'
      BY DEF DriftShows
    <2>1. StoredDates(bars, s)' = StoredDates(bars, s) /\ \A e \in StoredDates(bars, s) : is_final(e) /\ e \in Dates
      BY <1>1, <1>2 DEF StoredDates, BarsAreFinal
    <2>2. ASSUME NEW e \in StoredDates(bars, s), NEW d \in Dates, d <= e PROVE is_final(d)
      <3>1. today \in Nat /\ d \in Nat /\ e \in Nat
        BY <1>1, <2>1, Cells, Constants
      <3>2. is_final(e)
        BY <2>1
      <3> QED
        BY <2>2, <3>1, <3>2 DEF is_final
    <2>3. CASE Shifted(s)
      BY <1>2, <1>6, <2>1, <2>3 DEF Shifted, Beyond
    <2>4. CASE Mirrors(s)
      BY <1>2, <1>6, <2>1, <2>2, <2>4 DEF Mirrors
    <2> QED
      BY <1>1, <2>3, <2>4 DEF DriftShows
  <1>9. NoSplice' /\ CalendarFollows'
    BY <1>1, <1>2, CalendarStays DEF NoSplice
  <1>10. clock' \in Nat /\ clock <= clock'
    BY <1>1, <1>2 DEF DataTypeOK
  <1>11. RevisionsAreDated' /\ CardsAreTrue'
    BY <1>2, <1>10, PastKept DEF CardsAreTrue
  <1>12. DataTypeOK'
    BY <1>1, <1>2, <1>3, <1>4 DEF DataTypeOK
  <1> QED
    BY <1>7, <1>8, <1>9, <1>11, <1>12 DEF DataInv

\* What all of the vendor's changes leave alone.
LEMMA VendorOnly ==
    ASSUME DataInv, NEW s \in Stocks, NEW row, NEW dates \in SUBSET Dates,
           VendorChanges(s, [vendor EXCEPT ![s] = row], dates), Event, UNCHANGED jobs,
           row \in [Dates -> Closes \union {None}],
           \A d \in Dates : d > today => row[d] = None,
           \A d \in Dates : vendor[s][d] # None => row[d] # None /\ row[d] <= vendor[s][d],
           \/ \A d \in Dates \ dates : row[d] = vendor[s][d]
           \/ \A d \in Dates : vendor[s][d] # None => Beyond(vendor[s][d], row[d])
    PROVE  DataInv'
  <1>1. DataTypeOK /\ CalendarFollows
    BY DEF DataInv
  <1>2. /\ vendor' = [vendor EXCEPT ![s] = row]
        /\ upToDate' = upToDate \ {s} /\ unseen' = [unseen EXCEPT ![s] = @ \union dates]
        /\ UNCHANGED <<today, closed, members, bars, revisions, calendar, alerts, job, clock, cards, jobs>>
        /\ ended' = ended /\ events' = events + 1 /\ job = Idle
    BY DEF VendorChanges, tables, Event
  <1>3. BarsAreFinal' /\ DriftShows' /\ NoSplice'
    BY <1>2, VendorMoves
  <1>4. clock' \in Nat /\ clock <= clock'
    BY <1>1, <1>2 DEF DataTypeOK
  <1>5. RevisionsAreDated' /\ CardsAreTrue'
    BY <1>2, <1>4, PastKept DEF CardsAreTrue
  <1>6. CalendarFollows'
    BY <1>1, <1>2, CalendarStays
  <1>7. DataTypeOK'
    <2>1. vendor' \in [Stocks -> [Dates -> Closes \union {None}]]
      BY <1>1, <1>2 DEF DataTypeOK
    <2>2. unseen' \in [Stocks -> SUBSET Dates]
      BY <1>1, <1>2 DEF DataTypeOK
    <2>3. upToDate' \subseteq Stocks /\ {events', jobs'} \subseteq Nat /\ ended' \in Commands \union {"none"}
      <3>1. /\ events \in Nat /\ jobs \in Nat /\ upToDate \subseteq Stocks
            /\ ended \in Commands \union {"none"}
        BY <1>1 DEF DataTypeOK
      <3>2. events' \in Nat /\ jobs' \in Nat
        BY <1>2, <3>1
      <3> QED
        BY <1>2, <3>1, <3>2
    <2>4. UNCHANGED <<today, closed, members, bars, revisions, calendar, alerts, job, clock>>
      BY <1>2
    <2> QED
      BY <1>1, <2>1, <2>2, <2>3, <2>4 DEF DataTypeOK
  <1> QED
    BY <1>3, <1>5, <1>6, <1>7 DEF DataInv

LEMMA Filling ==
    ASSUME DataInv, NEW s \in Stocks, NEW d \in Dates, VendorFills(s, d)
    PROVE  DataInv'
  <1>1. DataTypeOK /\ BarsAreFinal /\ d <= today /\ vendor[s][d] = None
    BY DEF DataInv, VendorFills
  <1>2. PICK row : row = [vendor[s] EXCEPT ![d] = Base]
    OBVIOUS
  <1>3. [vendor EXCEPT ![s][d] = Base] = [vendor EXCEPT ![s] = row]
    BY <1>1, <1>2 DEF DataTypeOK
  <1>4. row \in [Dates -> Closes \union {None}] /\ \A e \in Dates : e # d => row[e] = vendor[s][e]
    BY <1>1, <1>2, Cells, Constants
  <1>5. \A e \in Dates : e > today => row[e] = None
    <2>1. today \in Nat /\ d \in Nat
      BY <1>1, Cells, Constants
    <2> QED
      BY <1>1, <1>4, <2>1 DEF BarsAreFinal
  <1>6. \A e \in Dates : vendor[s][e] # None => row[e] # None /\ row[e] <= vendor[s][e]
    BY <1>1, <1>4, Cells
  <1>7. \A e \in Dates \ {d} : row[e] = vendor[s][e]
    BY <1>4
  <1>8. VendorChanges(s, [vendor EXCEPT ![s] = row], {d}) /\ Event /\ UNCHANGED jobs
    BY <1>3 DEF VendorFills
  <1> QED
    BY <1>4, <1>5, <1>6, <1>7, <1>8, VendorOnly

LEMMA Restating ==
    ASSUME DataInv, NEW s \in Stocks, NEW x, NEW halved \in BOOLEAN, VendorRestates(s, x, halved)
    PROVE  DataInv'
  <1> DEFINE new == [d \in Dates |-> IF d >= x \/ vendor[s][d] = None THEN vendor[s][d]
                                ELSE IF halved THEN vendor[s][d] \div 2 ELSE Max({0, vendor[s][d] - 1})]
             moved == {d \in Dates : new[d] # vendor[s][d]}
             plain == \A d \in Dates : vendor[s][d] # None
                          => Abs(new[d] - vendor[s][d]) * TolDen > TolNum * vendor[s][d]
  <1>1. DataTypeOK /\ BarsAreFinal
    BY DEF DataInv
  <1>2. VendorChanges(s, [vendor EXCEPT ![s] = new], IF plain THEN {} ELSE moved) /\ Event /\ UNCHANGED jobs
    BY Zenon DEF VendorRestates
  <1>3. ASSUME NEW d \in Dates, vendor[s][d] # None
        PROVE  new[d] \in Closes /\ new[d] <= vendor[s][d] /\ vendor[s][d] \in Nat
    <2>1. vendor[s][d] \in Nat /\ vendor[s][d] <= Base /\ Base \in Nat
      BY <1>1, <1>3, Cells, Constants DEF Closes
    <2>2. Max({0, vendor[s][d] - 1}) \in 0 .. vendor[s][d]
      <3>1. Max({0, vendor[s][d] - 1}) = IF 0 >= vendor[s][d] - 1 THEN 0 ELSE vendor[s][d] - 1
        BY <2>1, MaxOfTwo
      <3> QED
        BY <2>1, <3>1
    <2>3. vendor[s][d] \div 2 \in 0 .. vendor[s][d]
      BY <2>1
    <2> QED
      BY <2>1, <2>2, <2>3 DEF Closes
  <1>4. \A d \in Dates : vendor[s][d] = None => new[d] = None
    OBVIOUS
  <1>5. PICK row : row = new
    OBVIOUS
  <1>6. PICK dates \in SUBSET Dates : dates = IF plain THEN {} ELSE moved
    OBVIOUS
  <1>7. row \in [Dates -> Closes \union {None}]
    <2>1. \A d \in Dates : new[d] \in Closes \union {None}
      BY <1>3, <1>4
    <2> QED
      BY <1>5, <2>1
  <1>8. \A d \in Dates : d > today => row[d] = None
    BY <1>1, <1>4, <1>5 DEF BarsAreFinal
  <1>9. \A d \in Dates : vendor[s][d] # None => row[d] # None /\ row[d] <= vendor[s][d]
    BY <1>3, <1>5, Constants
  <1>10. \/ \A d \in Dates \ dates : row[d] = vendor[s][d]
         \/ \A d \in Dates : vendor[s][d] # None => Beyond(vendor[s][d], row[d])
    <2>1. CASE plain
      <3> SUFFICES ASSUME NEW d \in Dates, vendor[s][d] # None PROVE Beyond(vendor[s][d], row[d])
        OBVIOUS
      <3>1. Abs(new[d] - vendor[s][d]) = vendor[s][d] - new[d]
        <4>1. new[d] \in Nat /\ vendor[s][d] \in Nat /\ new[d] <= vendor[s][d]
          BY <1>3, Constants
        <4> HIDE DEF new
        <4> QED
          BY <4>1 DEF Abs
      <3> QED
        BY <1>5, <2>1, <3>1 DEF Beyond
    <2>2. CASE ~ plain
      BY <1>5, <1>6, <2>2
    <2> QED
      BY <2>1, <2>2
  <1>11. VendorChanges(s, [vendor EXCEPT ![s] = row], dates)
    BY <1>2, <1>5, <1>6
  <1> QED
    BY <1>2, <1>7, <1>8, <1>9, <1>10, <1>11, VendorOnly

-----------------------------------------------------------------------------
(* The calendar, and the findings that come from it.                       *)

LEMMA Counting ==
    ASSUME DataTypeOK, NEW s \in Stocks
    PROVE  Sessions(s) \in 0 .. LastDate
  <1>1. IsFiniteSet(Dates) /\ Cardinality(Dates) = LastDate
    <2>1. 1 \in Int /\ LastDate \in Int /\ LastDate >= 1
      BY Constants
    <2>2. IsFiniteSet(1 .. LastDate) /\ Cardinality(1 .. LastDate) = IF 1 > LastDate THEN 0 ELSE LastDate - 1 + 1
      BY <2>1, FS_Interval, Zenon
    <2>3. ~ (1 > LastDate) /\ LastDate - 1 + 1 = LastDate
      BY <2>1
    <2> QED
      BY <2>2, <2>3, Zenon DEF Dates
  <1>2. StoredDates(bars, s) \subseteq Dates
    BY Cells
  <1>3. Cardinality(StoredDates(bars, s)) <= LastDate /\ IsFiniteSet(StoredDates(bars, s))
    BY <1>1, <1>2, FS_Subset
  <1> QED
    BY <1>3, FS_CardinalityType, Constants DEF Sessions

\* Somebody traded every session of the calendar.
LEMMA SessionsAreTraded ==
    ASSUME NEW d \in ComputeTradingDays(bars)
    PROVE  d \in Dates /\ \E s \in Stocks : bars[s][d] # None
  <1> DEFINE traded == {s \in Stocks : bars[s][d] # None}
  <1>1. d \in Dates /\ Cardinality(traded) >= 1
    BY DEF ComputeTradingDays
  <1>2. traded # {}
    <2> HIDE DEF traded
    <2>1. Cardinality({}) = 0
      BY FS_EmptySet
    <2> QED
      BY <1>1, <2>1
  <1> QED
    BY <1>1, <1>2

LEMMA FindingsFollow ==
    ASSUME DataTypeOK, calendar = ComputeTradingDays(bars)
    PROVE  FindingsHaveAWitness
  <1> SUFFICES ASSUME NEW s \in Stocks, NEW f \in CalendarFindings(s)
               PROVE  /\ f.check = "missing_trading_day" => \E o \in Stocks \ {s} : f.date \in StoredDates(bars, o)
                      /\ f.check = "stale_series" => \E o \in Stocks \ {s} : \E d \in StoredDates(bars, o) : d > f.date
                      /\ f.check = "extra_day" /\ f.date \in Min(calendar) .. Max(calendar)
                            => f.date \in PartialSessions
    BY Zenon DEF FindingsHaveAWitness
  <1> DEFINE stored == StoredDates(bars, s)
             last == Max(stored)
             Found(check, dates) == {[check |-> check, date |-> d] : d \in dates}
  <1>1. stored \subseteq Dates /\ calendar \subseteq Dates
    BY Cells, SessionsAreTraded
  <1>2. CASE stored = {}
    <2>1. f \in {[check |-> "no_data", date |-> d] : d \in {None}}
      BY <1>2 DEF CalendarFindings
    <2>2. f.check = "no_data"
      BY <2>1
    <2> QED
      BY <2>2
  <1>3. CASE stored # {}
    <2>1. calendar # {} /\ f \in Found("missing_trading_day", (calendar \ stored) \intersect (Min(stored) .. last))
                                  \union Found("extra_day", stored \ calendar)
                                  \union Found("stale_series", IF last < Max(calendar) THEN {last} ELSE {})
      BY <1>3 DEF CalendarFindings
    <2>2. last \in stored /\ \A d \in stored : d <= last
      BY <1>1, <1>3, LastOfDates
    <2>3. Max(calendar) \in calendar
      BY <1>1, <2>1, LastOfDates
    <2>4. CASE f \in Found("missing_trading_day", (calendar \ stored) \intersect (Min(stored) .. last))
      <3>1. f.check = "missing_trading_day" /\ f.date \in calendar \ stored
        BY <2>4
      <3>2. PICK o \in Stocks : bars[o][f.date] # None /\ f.date \in Dates
        BY <3>1, SessionsAreTraded
      <3>3. o # s /\ f.date \in StoredDates(bars, o)
        BY <3>1, <3>2 DEF StoredDates
      <3> QED
        BY <3>1, <3>3
    <2>5. CASE f \in Found("extra_day", stored \ calendar)
      <3>1. f.check = "extra_day" /\ f.date \in stored \ calendar
        BY <2>5
      <3>2. bars[s][f.date] # None
        BY <3>1 DEF StoredDates
      <3> QED
        BY <2>1, <3>1, <3>2 DEF PartialSessions
    <2>6. CASE f \in Found("stale_series", IF last < Max(calendar) THEN {last} ELSE {})
      <3>1. f.check = "stale_series" /\ f.date = last /\ last < Max(calendar)
        BY <2>6
      <3>2. PICK o \in Stocks : bars[o][Max(calendar)] # None /\ Max(calendar) \in Dates
        BY <2>3, SessionsAreTraded
      <3>3. last \in Nat /\ Max(calendar) \in Nat
        BY <1>1, <2>2, <3>2, Constants
      <3>4. o # s
        <4>1. Max(calendar) \notin stored
          BY <2>2, <3>1, <3>3
        <4> QED
          BY <3>2, <4>1 DEF StoredDates
      <3>5. Max(calendar) \in StoredDates(bars, o) /\ Max(calendar) > f.date
        BY <3>1, <3>2, <3>3 DEF StoredDates
      <3> QED
        BY <3>1, <3>4, <3>5
    <2> QED
      BY <2>1, <2>4, <2>5, <2>6
  <1> QED
    BY <1>2, <1>3

-----------------------------------------------------------------------------
(* The steps of the job around its ingests.                                *)

\* A step that leaves the series and their past alone.
LEMMA Proceeding ==
    ASSUME DataInv, UNCHANGED <<vendor, today, closed, bars, revisions, clock, cards, upToDate, unseen>>,
           members' \subseteq Stocks, calendar' \subseteq Dates,
           alerts' \in [Stocks -> 0 .. LastDate \union {None}],
           job' \in Job,
           ended' \in Commands \union {"none"}, events' \in Nat, jobs' \in Nat, CalendarFollows'
    PROVE  DataInv'
  <1>1. BarsAreFinal' /\ DriftShows' /\ NoSplice'
    BY SeriesKept
  <1>2. clock' \in Nat /\ clock <= clock'
    BY DEF DataInv, DataTypeOK
  <1>3. RevisionsAreDated' /\ CardsAreTrue'
    BY <1>2, PastKept DEF CardsAreTrue
  <1>4. DataTypeOK
    BY DEF DataInv
  <1>5. /\ vendor' \in [Stocks -> [Dates -> Closes \union {None}]]
        /\ bars' \in [Stocks -> [Dates -> Closes \union {None}]]
        /\ today' \in 0 .. LastDate /\ closed' \in BOOLEAN
    BY <1>4 DEF DataTypeOK
  <1>6. /\ revisions' \subseteq [stock : Stocks, date : Dates, close : Closes, superseded_at : Nat]
        /\ upToDate' \subseteq Stocks /\ unseen' \in [Stocks -> SUBSET Dates]
    BY <1>4 DEF DataTypeOK
  <1>7. {events', jobs'} \subseteq Nat
    OBVIOUS
  <1>8. DataTypeOK'
    BY <1>2, <1>5, <1>6, <1>7 DEF DataTypeOK
  <1> QED
    BY <1>1, <1>3, <1>8 DEF DataInv

\* The alerts a sync writes are of every member, and of the others what they were.
LEMMA Syncing ==
    ASSUME DataTypeOK, SyncReadinessAlerts
    PROVE  /\ alerts' \in [Stocks -> 0 .. LastDate \union {None}]
           /\ \A s \in members : alerts'[s] = IF Blocked(s) THEN Sessions(s) ELSE None
  <1>1. \A s \in Stocks : Sessions(s) \in 0 .. LastDate /\ alerts[s] \in 0 .. LastDate \union {None}
    BY Counting DEF DataTypeOK
  <1>2. members \subseteq Stocks /\ \A s \in members : s \in readiness(members) <=> Blocked(s)
    BY DEF DataTypeOK, readiness
  <1>3. alerts' = [s \in Stocks |-> IF s \in readiness(members) THEN Sessions(s)
                                    ELSE IF s \in members THEN None ELSE alerts[s]]
    BY DEF SyncReadinessAlerts
  <1> HIDE DEF SyncReadinessAlerts
  <1>4. alerts' \in [Stocks -> 0 .. LastDate \union {None}]
    BY <1>1, <1>3
  <1>5. \A s \in members : alerts'[s] = IF Blocked(s) THEN Sessions(s) ELSE None
    BY <1>2, <1>3
  <1> QED
    BY <1>4, <1>5

LEMMA Kinds ==
    ASSUME DataTypeOK
    PROVE  /\ members \subseteq Stocks /\ calendar \subseteq Dates
           /\ alerts \in [Stocks -> 0 .. LastDate \union {None}]
           /\ ended \in Commands \union {"none"} /\ events \in Nat /\ jobs \in Nat
           /\ job \in Job
           /\ job.todo \subseteq Stocks /\ job.full \in BOOLEAN
           /\ Idle \in Job
  <1>1. job \in Job
    BY DEF DataTypeOK
  <1>2. job.todo \subseteq Stocks /\ job.full \in BOOLEAN
    BY <1>1 DEF Job
  <1>3. Idle \in Job
    BY DEF Idle, Job
  <1>4. /\ members \subseteq Stocks /\ calendar \subseteq Dates
        /\ alerts \in [Stocks -> 0 .. LastDate \union {None}]
        /\ ended \in Commands \union {"none"} /\ events \in Nat /\ jobs \in Nat
    BY DEF DataTypeOK
  <1> QED
    BY <1>1, <1>2, <1>3, <1>4

LEMMA Leaving ==
    ASSUME DataInv, NEW s \in Stocks, Leave(s)
    PROVE  DataInv'
  <1>1. DataTypeOK /\ CalendarFollows
    BY DEF DataInv
  <1>2. /\ UNCHANGED <<vendor, today, closed, bars, revisions, clock, cards, upToDate, unseen>>
        /\ UNCHANGED <<calendar, alerts, job, jobs>>
        /\ members' = members \ {s} /\ ended' = ended /\ events' = events + 1
    BY DEF Leave, tables, Event
  <1>3. CalendarFollows'
    BY <1>1, <1>2, CalendarStays
  <1>4. members' \subseteq Stocks /\ events' \in Nat /\ jobs' \in Nat
    BY <1>1, <1>2, Kinds
  <1> QED
    BY <1>1, <1>2, <1>3, <1>4, Kinds, Proceeding

\* A new job: whatever the last one left is not taken up.
LEMMA StartingOne ==
    ASSUME DataInv, NEW command \in Commands, NEW phase \in {"backfill", "ingest", "quality"},
           NEW todo \in SUBSET Stocks, NEW full \in BOOLEAN, Start(command, phase, todo, full),
           \/ phase = "backfill" /\ command \in {"data", "backfill"}
           \/ phase = "ingest" /\ command = "ingest"
           \/ phase = "quality" /\ command = "quality" /\ todo = {},
           events' \in Nat
    PROVE  DataInv'
  <1>1. DataTypeOK /\ CalendarFollows
    BY DEF DataInv
  <1>2. /\ UNCHANGED <<vendor, today, closed, bars, revisions, clock, cards, upToDate, unseen>>
        /\ UNCHANGED <<members, calendar, alerts>> /\ ended' = "none" /\ jobs' = jobs + 1
    BY DEF Start, world, tables
  <1>3. /\ job' \in Job /\ job'.command = command /\ job'.phase = phase /\ job'.todo = todo
    BY DEF Start, Job
  <1>4. CalendarFollows'
    BY <1>2, <1>3 DEF CalendarFollows, CalendarIsRebuilt
  <1>5. jobs' \in Nat
    BY <1>1, <1>2, Kinds
  <1> QED
    BY <1>1, <1>2, <1>3, <1>4, <1>5, Kinds, Proceeding

LEMMA Starting ==
    ASSUME DataInv, StartPipeline \/ StartCommand
    PROVE  DataInv'
  <1>1. events' \in Nat
    <2>1. events \in Nat
      BY Kinds DEF DataInv
    <2>2. events' = events \/ events' = events + 1
      BY DEF StartPipeline, StartCommand, Event
    <2> QED
      BY <2>1, <2>2
  <1>2. find_new_targets \subseteq Stocks
    BY DEF find_new_targets
  <1>3. CASE Start("data", "backfill", find_new_targets, FALSE)
    BY <1>1, <1>2, <1>3, StartingOne DEF Commands
  <1>4. CASE Start("backfill", "backfill", find_new_targets, FALSE)
    BY <1>1, <1>2, <1>4, StartingOne DEF Commands
  <1>5. ASSUME NEW refetch \in BOOLEAN, Start("ingest", "ingest", Stocks, refetch) PROVE DataInv'
    BY <1>1, <1>5, StartingOne DEF Commands
  <1>6. CASE Start("quality", "quality", {}, FALSE)
    BY <1>1, <1>6, StartingOne DEF Commands
  <1> QED
    BY <1>3, <1>4, <1>5, <1>6 DEF StartPipeline, StartCommand

\* The calendar can be rebuilt at any time.
LEMMA Rebuilding ==
    ASSUME DataInv, SyncCalendar
    PROVE  DataInv'
  <1>1. DataTypeOK /\ CalendarFollows
    BY DEF DataInv
  <1>2. /\ UNCHANGED <<vendor, today, closed, bars, revisions, clock, cards, upToDate, unseen>>
        /\ UNCHANGED <<members, alerts, job, ended, events, jobs>> /\ calendar' = ComputeTradingDays(bars)
    BY DEF SyncCalendar, world
  <1>3. ComputeTradingDays(bars)' = ComputeTradingDays(bars) /\ ComputeTradingDays(bars) \subseteq Dates
    BY <1>2 DEF ComputeTradingDays, ActiveOn, StoredDates
  <1>4. \A s : Blocked(s)' = Blocked(s) /\ Sessions(s)' = Sessions(s)
    BY <1>2 DEF Blocked, Sessions, StoredDates
  <1>5. AlertsTellHistory => AlertsTellHistory'
    BY <1>2, <1>4 DEF AlertsTellHistory
  <1>6. CalendarFollows'
    BY <1>1, <1>2, <1>3, <1>5 DEF CalendarFollows, Idle
  <1> QED
    BY <1>1, <1>2, <1>3, <1>6, Kinds, Proceeding

LEMMA Failing ==
    ASSUME DataInv, NEW s \in Stocks, IngestFails(s)
    PROVE  DataInv'
  <1>1. DataTypeOK /\ CalendarFollows
    BY DEF DataInv
  <1>2. /\ UNCHANGED <<vendor, today, closed, bars, revisions, clock, cards, upToDate, unseen>>
        /\ UNCHANGED <<members, calendar, alerts, ended, jobs>> /\ events' = events + 1
        /\ job' = [job EXCEPT !.todo = @ \ {s}, !.failed = @ \union {s}] /\ s \in job.todo
    BY DEF IngestFails, world, tables, Event
  <1>3. job \in Job
    BY <1>1, Kinds
  <1>4. job' \in Job
        /\ job'.phase = job.phase /\ job'.command = job.command
    BY <1>2, <1>3 DEF Job
  <1>5. job.phase # "quality" /\ ended = "none"
    BY <1>1, <1>2 DEF CalendarFollows, Idle
  <1>6. CalendarFollows'
    BY <1>1, <1>2, <1>4, <1>5 DEF CalendarFollows, CalendarIsRebuilt
  <1>7. events' \in Nat /\ jobs' \in Nat
    BY <1>1, <1>2, Kinds
  <1> QED
    BY <1>1, <1>2, <1>4, <1>6, <1>7, Kinds, Proceeding

\* The three ends, and the death of the process.
LEMMA Ending ==
    ASSUME DataInv, BackfillEnds \/ IngestEnds \/ QualityEnds \/ JobDies
    PROVE  DataInv'
  <1>1. DataTypeOK /\ CalendarFollows
    BY DEF DataInv
  <1>2. /\ UNCHANGED <<vendor, today, closed, bars, revisions, clock, cards, upToDate, unseen>>
        /\ UNCHANGED <<members, jobs>>
    BY DEF BackfillEnds, IngestEnds, QualityEnds, JobDies, world, tables
  <1>3. events' \in Nat /\ jobs' \in Nat
    BY <1>1, <1>2, Kinds DEF BackfillEnds, IngestEnds, QualityEnds, JobDies, Event
  <1>4. ComputeTradingDays(bars)' = ComputeTradingDays(bars) /\ ComputeTradingDays(bars) \subseteq Dates
    BY <1>2 DEF ComputeTradingDays, ActiveOn, StoredDates
  <1>5. \A s : Blocked(s)' = Blocked(s) /\ Sessions(s)' = Sessions(s)
    BY <1>2 DEF Blocked, Sessions, StoredDates
  <1>6. job \in Job
    BY <1>1, Kinds
  <1>7. ended = "none"
    BY <1>1 DEF CalendarFollows, BackfillEnds, IngestEnds, QualityEnds, JobDies, Idle
  <1>8. JobEnds => /\ job' = Idle /\ ended' = job.command /\ job' \in Job
                   /\ job'.phase = "idle" /\ job'.command = "none"
    BY <1>1, Kinds DEF JobEnds, Idle
  <1>9. CASE BackfillEnds
    <2>1. SyncReadinessAlerts /\ calendar' = ComputeTradingDays(bars) /\ job.phase = "backfill"
      BY <1>9 DEF BackfillEnds
    <2>2. AlertsTellHistory'
      <3>1. \A s \in members : alerts'[s] = IF Blocked(s) THEN Sessions(s) ELSE None
        BY <1>1, <2>1, Syncing
      <3> QED
        BY <1>2, <1>5, <3>1 DEF AlertsTellHistory
    <2>3. CASE job.command = "data"
      <3>1. job' = [job EXCEPT !.phase = "ingest", !.todo = Stocks, !.failed = {}] /\ ended' = ended
        BY <1>9, <2>3 DEF BackfillEnds, GoesOn
      <3>2. job' \in Job /\ job'.phase = "ingest" /\ job'.command = "data"
        BY <1>6, <2>3, <3>1 DEF Job
      <3>3. CalendarFollows'
        BY <1>7, <3>1, <3>2 DEF CalendarFollows, CalendarIsRebuilt
      <3> QED
        BY <1>1, <1>2, <1>3, <1>4, <2>1, <3>1, <3>2, <3>3, Kinds, Syncing, Proceeding
    <2>4. CASE job.command # "data"
      <3>1. JobEnds /\ job.command = "backfill"
        BY <1>1, <1>9, <2>1, <2>4 DEF BackfillEnds, GoesOn, CalendarFollows
      <3>2. CalendarFollows'
        BY <1>4, <1>8, <2>1, <2>2, <3>1 DEF CalendarFollows, CalendarIsRebuilt, Idle
      <3> QED
        BY <1>1, <1>2, <1>3, <1>4, <1>8, <2>1, <3>1, <3>2, Kinds, Syncing, Proceeding DEF Commands
    <2> QED
      BY <2>3, <2>4
  <1>10. CASE IngestEnds
    <2>1. /\ calendar' = ComputeTradingDays(bars) /\ UNCHANGED alerts
          /\ job.phase = "ingest" /\ job.todo = {}
      BY <1>10 DEF IngestEnds
    <2>2. CASE job.command = "data"
      <3>1. job' = [job EXCEPT !.phase = "quality"] /\ ended' = ended
        BY <1>10, <2>2 DEF IngestEnds, GoesOn
      <3>2. job' \in Job /\ job'.phase = "quality" /\ job'.command = "data" /\ job'.todo = {}
        BY <1>6, <2>1, <2>2, <3>1 DEF Job
      <3>3. CalendarFollows'
        BY <1>4, <1>7, <2>1, <3>1, <3>2 DEF CalendarFollows, CalendarIsRebuilt
      <3> QED
        BY <1>1, <1>2, <1>3, <1>4, <2>1, <3>1, <3>2, <3>3, Kinds, Proceeding
    <2>3. CASE job.command # "data"
      <3>1. JobEnds /\ job.command = "ingest"
        BY <1>1, <1>10, <2>1, <2>3 DEF IngestEnds, GoesOn, CalendarFollows
      <3>2. CalendarFollows'
        BY <1>4, <1>8, <2>1, <3>1 DEF CalendarFollows, CalendarIsRebuilt, Idle
      <3> QED
        BY <1>1, <1>2, <1>3, <1>4, <1>8, <2>1, <3>1, <3>2, Kinds, Proceeding DEF Commands
    <2> QED
      BY <2>2, <2>3
  <1>11. CASE QualityEnds
    <2>1. /\ SyncReadinessAlerts /\ JobEnds /\ UNCHANGED calendar /\ job.phase = "quality"
      BY <1>11 DEF QualityEnds
    <2>2. AlertsTellHistory'
      <3>1. \A s \in members : alerts'[s] = IF Blocked(s) THEN Sessions(s) ELSE None
        BY <1>1, <2>1, Syncing
      <3> QED
        BY <1>2, <1>5, <3>1 DEF AlertsTellHistory
    <2>3. /\ job.command \in {"data", "quality"}
          /\ job.command = "data" => calendar = ComputeTradingDays(bars)
      BY <1>1, <2>1 DEF CalendarFollows, CalendarIsRebuilt
    <2>4. CalendarFollows'
      BY <1>4, <1>8, <2>1, <2>2, <2>3 DEF CalendarFollows, CalendarIsRebuilt, Idle
    <2> QED
      BY <1>1, <1>2, <1>3, <1>8, <2>1, <2>3, <2>4, Kinds, Syncing, Proceeding DEF Commands
  <1>12. CASE JobDies
    <2>1. job' = Idle /\ UNCHANGED <<calendar, alerts, ended>> /\ job'.phase = "idle"
      BY <1>12 DEF JobDies, tables, Idle
    <2>2. CalendarFollows'
      BY <1>7, <2>1 DEF CalendarFollows, CalendarIsRebuilt
    <2> QED
      BY <1>1, <1>2, <1>3, <2>1, <2>2, Kinds, Proceeding
  <1> QED
    BY <1>9, <1>10, <1>11, <1>12

\* A card reads the latest of all that is stored, as it is now.
LEMMA Issuing ==
    ASSUME DataInv, NEW s \in Stocks, IssueCard(s)
    PROVE  DataInv'
  <1>1. DataTypeOK /\ BarsAreFinal /\ CalendarFollows /\ RevisionsAreDated /\ today \in Nat /\ clock \in Nat
    BY DEF DataInv, DataTypeOK
  <1>2. /\ UNCHANGED <<vendor, today, closed, members, bars, revisions, calendar, alerts, job, ended,
                       upToDate, unseen, events, jobs>>
        /\ clock' = clock + 1
        /\ cards' = cards \union {[stock |-> s, as_of |-> today, issued_at |-> clock + 1,
                                   data |-> BarsAsKnown(s, today, clock + 1),
                                   stored |-> StoredDates(bars, s)]}
    BY DEF IssueCard, world, tables
  <1>3. BarsAreFinal' /\ DriftShows' /\ NoSplice'
    BY <1>2, SeriesKept
  <1>4. clock' \in Nat /\ clock <= clock'
    BY <1>1, <1>2
  <1>5. /\ RevisionsAreDated' /\ \A c \in cards : CardIsTrue(c)'
        /\ \A t, d, k : ValueAsKnown(t, d, k)' = ValueAsKnown(t, d, k)
    BY <1>2, <1>4, PastKept
  <1>6. LastDates(s, today) = Latest(StoredDates(bars, s))
    <2>1. \A d \in StoredDates(bars, s) : d <= today
      <3> SUFFICES ASSUME NEW d \in StoredDates(bars, s) PROVE d <= today
        OBVIOUS
      <3>1. d \in Nat /\ is_final(d)
        BY <1>1, Cells, Constants DEF BarsAreFinal, StoredDates
      <3> QED
        BY <1>1, <3>1 DEF is_final
    <2>2. \A d : {e \in StoredDates(bars, s) : d <= e /\ e <= today} = {e \in StoredDates(bars, s) : d <= e}
      BY <2>1
    <2> QED
      BY <2>1, <2>2 DEF LastDates, Latest
  <1>7. ASSUME NEW c \in cards', c \notin cards PROVE CardIsTrue(c)'
    <2>1. /\ c.stock = s /\ c.as_of = today /\ c.issued_at = clock + 1 /\ c.stored = StoredDates(bars, s)
          /\ c.data = BarsAsKnown(s, today, clock + 1)
      BY <1>2, <1>7
    <2>2. c.data = [d \in LastDates(s, today) |-> ValueAsKnown(s, d, clock + 1)]
      BY <2>1 DEF BarsAsKnown
    <2>3. Latest(c.stored) = LastDates(s, today)
      BY <1>6, <2>1
    <2>4. c.data = [d \in Latest(c.stored) |-> ValueAsKnown(c.stock, d, c.issued_at)]
      BY <2>1, <2>2, <2>3, Zenon
    <2>5. c.data = [d \in Latest(c.stored) |-> ValueAsKnown(c.stock, d, c.issued_at)']
      BY <1>5, <2>4, Zenon
    <2>6. StoredDates(bars, c.stock)' = StoredDates(bars, c.stock)
      BY <1>2 DEF StoredDates
    <2> QED
      BY <1>1, <1>2, <2>1, <2>5, <2>6 DEF CardIsTrue, Latest
  <1>8. CardsAreTrue'
    BY <1>5, <1>7 DEF CardsAreTrue
  <1>9. CalendarFollows'
    BY <1>1, <1>2, CalendarStays
  <1>10. DataTypeOK'
    BY <1>1, <1>2, <1>4 DEF DataTypeOK
  <1> QED
    BY <1>3, <1>5, <1>8, <1>9, <1>10 DEF DataInv

-----------------------------------------------------------------------------
(* The theorems.                                                           *)

LEMMA InvInit == DataInit => DataInv
  <1> SUFFICES ASSUME DataInit PROVE DataInv
    OBVIOUS
  <1>1. \A s \in Stocks : StoredDates(bars, s) = {}
    BY DEF DataInit, StoredDates
  <1>2. DataTypeOK
    <2>1. None \in Closes \union {None} /\ 0 \in 0 .. LastDate
      BY Constants
    <2>2. /\ vendor \in [Stocks -> [Dates -> Closes \union {None}]]
          /\ bars \in [Stocks -> [Dates -> Closes \union {None}]]
          /\ alerts \in [Stocks -> 0 .. LastDate \union {None}]
          /\ unseen \in [Stocks -> SUBSET Dates]
      BY <2>1 DEF DataInit
    <2>3. job \in Job
      BY DEF DataInit, Idle, Job
    <2>4. /\ today \in 0 .. LastDate /\ closed \in BOOLEAN /\ members \subseteq Stocks
          /\ revisions = {} /\ calendar = {} /\ clock \in Nat /\ ended \in Commands \union {"none"} /\ upToDate = {}
          /\ events \in Nat /\ jobs \in Nat
      BY <2>1 DEF DataInit
    <2> QED
      BY <2>2, <2>3, <2>4 DEF DataTypeOK
  <1>3. BarsAreFinal /\ DriftShows /\ NoSplice
    BY <1>1 DEF DataInit, BarsAreFinal, DriftShows, Shifted, NoSplice
  <1>4. RevisionsAreDated /\ CardsAreTrue /\ CalendarFollows
    BY DEF DataInit, RevisionsAreDated, CardsAreTrue, CalendarFollows, CalendarIsRebuilt, Idle
  <1> QED
    BY <1>2, <1>3, <1>4 DEF DataInv

LEMMA InvStep == DataInv /\ [DataNext]_dataVars => DataInv'
  <1> SUFFICES ASSUME DataInv, [DataNext]_dataVars PROVE DataInv'
    OBVIOUS
  <1>1. CASE NewDay \/ MarketCloses
    BY <1>1, TimePasses
  <1>2. CASE \E s \in Stocks, d \in Dates : VendorFills(s, d)
    BY <1>2, Filling
  <1>3. CASE \E s \in Stocks, x \in 2 .. LastDate + 1, halved \in BOOLEAN : VendorRestates(s, x, halved)
    BY <1>3, Restating
  <1>4. CASE \E s \in Stocks : Leave(s)
    BY <1>4, Leaving
  <1>5. CASE StartPipeline \/ StartCommand
    BY <1>5, Starting
  <1>11. CASE SyncCalendar
    BY <1>11, Rebuilding
  <1>6. CASE \E s \in Stocks : IngestSymbol(s)
    BY <1>6, Ingesting
  <1>7. CASE \E s \in Stocks : IngestFails(s)
    BY <1>7, Failing
  <1>8. CASE BackfillEnds \/ IngestEnds \/ QualityEnds \/ JobDies
    BY <1>8, Ending
  <1>9. CASE \E s \in Stocks : IssueCard(s)
    BY <1>9, Issuing
  <1>10. CASE UNCHANGED dataVars
    <2>1. /\ UNCHANGED <<vendor, today, closed, bars, revisions, clock, cards, upToDate, unseen>>
          /\ UNCHANGED <<members, calendar, alerts, job, ended, events, jobs>>
      BY <1>10 DEF dataVars
    <2>2. DataTypeOK /\ CalendarFollows
      BY DEF DataInv
    <2>3. CalendarFollows'
      BY <2>1, <2>2, CalendarStays
    <2> QED
      BY <2>1, <2>2, <2>3, Kinds, Proceeding
  <1> QED
    BY <1>1, <1>2, <1>3, <1>4, <1>5, <1>6, <1>7, <1>8, <1>9, <1>10, <1>11 DEF DataNext

\* Every reachable state of the data job has the invariant.
THEOREM InvAlways == DataSpec => []DataInv
  BY InvInit, InvStep, PTL DEF DataSpec

\* The tables of the data job keep their types.
THEOREM TypeCorrect == DataSpec => []DataTypeOK
  <1>1. DataInv => DataTypeOK
    BY DEF DataInv
  <1> QED
    BY <1>1, InvAlways, PTL

\* ingest_symbol never splices a restated history onto an old one: for any
\* overlap and tolerance, whatever the vendor filled in or restated, the bars of
\* an ingested stock are the vendor's but for the dates known to be out of sight.
THEOREM NoSpliceAlways == DataSpec => []NoSplice
  <1>1. DataInv => NoSplice
    BY DEF DataInv
  <1> QED
    BY <1>1, InvAlways, PTL

\* A card's bars are read back as they were, after any number of rewrites of
\* them (bars_as_known, trace).
THEOREM CardsAreTraceableAlways == DataSpec => []CardsAreTraceable
  <1>1. DataInv => CardsAreTraceable
    <2> SUFFICES ASSUME DataInv, NEW c \in cards, {d \in StoredDates(bars, c.stock) : d <= c.as_of} = c.stored
                 PROVE  Verifies(c)
      BY DEF CardsAreTraceable
    <2>1. c.data = [d \in Latest(c.stored) |-> ValueAsKnown(c.stock, d, c.issued_at)]
      BY DEF DataInv, CardsAreTrue, CardIsTrue
    <2>2. \A d \in c.stored : d \in StoredDates(bars, c.stock) /\ d <= c.as_of
      OBVIOUS
    <2>3. \A d : {e \in StoredDates(bars, c.stock) : d <= e /\ e <= c.as_of} = {e \in c.stored : d <= e}
      <3> SUFFICES ASSUME NEW d, NEW e
                   PROVE  (e \in StoredDates(bars, c.stock) /\ d <= e /\ e <= c.as_of) <=> (e \in c.stored /\ d <= e)
        OBVIOUS
      <3> QED
        BY <2>2
    <2>4. LastDates(c.stock, c.as_of) = Latest(c.stored)
      BY <2>2, <2>3 DEF LastDates, Latest
    <2> QED
      BY <2>1, <2>4, Zenon DEF Verifies, BarsAsKnown
  <1> QED
    BY <1>1, InvAlways, PTL

\* When a job has ended, whatever failed in it, the calendar and its findings are what
\* the stored bars say, and so are the alerts - apart from what the command leaves
\* alone: the alerts after `ingest`, the calendar after `quality run` (cli.py).
THEOREM DerivedTablesAgreeAlways == DataSpec => []DerivedTablesAgree
  <1>1. DataInv => DerivedTablesAgree
    BY FindingsFollow DEF DataInv, CalendarFollows, CalendarIsRebuilt, AlertsTellHistory, DerivedTablesAgree, Blocked
  <1> QED
    BY <1>1, InvAlways, PTL

-----------------------------------------------------------------------------
(* The quality step and the operator's files of corporate actions.         *)

\* The active factors are the confirmed events; only a gap is ever rejected and
\* none is ever confirmed; what a run found is what the data say.
QualityInv ==
    /\ QualityTypeOK
    /\ factors \in Seq(SUBSET (ExDates \X (Nat \ {0})))
    /\ \A a \in DOMAIN actions : a[1] # Gap => actions[a].status \in {"none", "confirmed"}
    /\ \A a \in DOMAIN actions : actions[a].status = "confirmed" => actions[a].factor # 0
    /\ FactorsFollowTheActions
    /\ FindingsTellTheData

HIDE DataConstants
USE QualityConstants

LEMMA KeysOfActions ==
    /\ Gap \notin ACTION_TYPES
    /\ \A d \in ExDates : <<Gap, d>> \in Types \X ExDates
    /\ \A a \in Types \X ExDates : a = <<a[1], a[2]>> /\ a[1] \in Types /\ a[2] \in ExDates
  BY DEF Gap, Types, ACTION_TYPES, StockTypes

LEMMA QualityStarts == QualityInit => QualityInv
  <1> SUFFICES ASSUME QualityInit PROVE QualityInv
    OBVIOUS
  <1> USE DEF QualityInit, NoAction, Statuses
  <1>1. QualityTypeOK
    <2>1. gaps \subseteq ExDates /\ prevClose \in [ExDates -> Nat] /\ problems \subseteq Subjects /\ csv \subseteq Issues
      OBVIOUS
    <2>2. actions \in [Types \X ExDates -> [status: Statuses, factor: Nat]]
      OBVIOUS
    <2>3. warned \subseteq ExDates /\ DOMAIN factors = {}
      OBVIOUS
    <2>4. known \subseteq Issues /\ findings \in [Subjects -> {"none", "open", "explained", "resolved"}]
      OBVIOUS
    <2>5. blocking \subseteq Errors /\ fresh \in BOOLEAN /\ changes \in Nat
      OBVIOUS
    <2> QED
      BY <2>1, <2>2, <2>3, <2>4, <2>5 DEF QualityTypeOK
  <1>2. FactorsFollowTheActions
    BY KeysOfActions DEF FactorsFollowTheActions, Active, Confirmed, OnePerDate
  <1>3. FindingsTellTheData
    BY DEF FindingsTellTheData
  <1> QED
    BY <1>1, <1>2, <1>3 DEF QualityInv

\* What the two files of the operator and the bars do leaves the tables alone.
LEMMA OutsideStep ==
    ASSUME QualityInv, StoredBarsChange \/ CsvIsEdited \/ (\E d \in ExDates : Acknowledge(d))
    PROVE  QualityInv' /\ UNCHANGED <<actions, factors>>
  <1> USE DEF QualityInv
  <1>1. UNCHANGED <<actions, factors, known, findings, blocking>>
    BY DEF StoredBarsChange, CsvIsEdited, Acknowledge
  <1>2. QualityTypeOK'
    <2>1. gaps' \subseteq ExDates /\ prevClose' \in [ExDates -> Nat] /\ problems' \subseteq Subjects
      BY DEF QualityTypeOK, StoredBarsChange, CsvIsEdited, Acknowledge, SymDiff
    <2>2. csv' \subseteq Issues
      BY DEF QualityTypeOK, StoredBarsChange, CsvIsEdited, Acknowledge
    <2>3. warned' \subseteq ExDates
      BY DEF QualityTypeOK, StoredBarsChange, CsvIsEdited, Acknowledge
    <2>4. fresh' \in BOOLEAN
      BY DEF QualityTypeOK, StoredBarsChange, CsvIsEdited, Acknowledge, Change
    <2>5. changes' \in Nat
      <3>1. changes \in Nat
        BY DEF QualityTypeOK
      <3>2. changes' = changes + 1 \/ changes' = changes
        BY DEF StoredBarsChange, CsvIsEdited, Acknowledge, Change
      <3> QED
        BY <3>1, <3>2
    <2> QED
      BY <1>1, <2>1, <2>2, <2>3, <2>4, <2>5 DEF QualityTypeOK
  <1>3. FactorsFollowTheActions'
    BY <1>1 DEF FactorsFollowTheActions, Active, Confirmed, OnePerDate
  <1>4. FindingsTellTheData'
    BY <1>1 DEF FindingsTellTheData, Status, StoredBarsChange, CsvIsEdited, Acknowledge, Change, Explained
  <1> QED
    BY <1>1, <1>2, <1>3, <1>4

\* The confirmed events are those of the keys whose rows stay.
LEMMA SameConfirmed ==
    ASSUME DOMAIN actions' = DOMAIN actions,
           \A a \in DOMAIN actions : actions[a].status = "confirmed" \/ actions'[a].status = "confirmed"
               => actions'[a] = actions[a]
    PROVE  Confirmed(actions)' = Confirmed(actions)
  <1>1. {b \in DOMAIN actions' : actions'[b].status = "confirmed"}
          = {b \in DOMAIN actions : actions[b].status = "confirmed"}
    OBVIOUS
  <1> QED
    BY <1>1 DEF Confirmed

\* record_candidates touches the gaps that are not rejected, and only them.
LEMMA CandidatesStep ==
    ASSUME QualityInv, RecordCandidates
    PROVE  /\ actions' \in [Types \X ExDates -> [status: Statuses, factor: Nat]]
           /\ \A a \in DOMAIN actions : a[1] # Gap => actions'[a] = actions[a]
           /\ \A a \in DOMAIN actions : actions[a].status \in {"rejected", "confirmed"} => actions'[a] = actions[a]
           /\ \A d \in ExDates : LET new == actions'[<<Gap, d>>].status IN
                  /\ new # "confirmed"
                  /\ new = "candidate" <=> d \in gaps /\ new # "rejected"
  <1> USE DEF RecordCandidates, Reopens
  <1>0. /\ actions \in [Types \X ExDates -> [status: Statuses, factor: Nat]]
        /\ \A d \in ExDates : actions[<<Gap, d>>].status # "confirmed"
    BY DEF QualityInv, QualityTypeOK, FactorsFollowTheActions
  <1>2. actions' \in [Types \X ExDates -> [status: Statuses, factor: Nat]]
    BY <1>0 DEF Statuses
  <1>3. \A a \in DOMAIN actions : a[1] # Gap => actions'[a] = actions[a]
    BY <1>0
  <1>4. \A a \in DOMAIN actions : actions[a].status \in {"rejected", "confirmed"} => actions'[a] = actions[a]
    BY <1>0
  <1>5. ASSUME NEW d \in ExDates
        PROVE  LET new == actions'[<<Gap, d>>].status IN
                  /\ new # "confirmed"
                  /\ new = "candidate" <=> d \in gaps /\ new # "rejected"
    <2>1. <<Gap, d>> \in DOMAIN actions
      BY <1>0, KeysOfActions
    <2>2. /\ actions[<<Gap, d>>].status \in Statuses \ {"confirmed"}
          /\ actions[<<Gap, d>>] \in [status: Statuses, factor: Nat]
      BY <1>0, <2>1
    <2>3. actions'[<<Gap, d>>] =
             IF d \in gaps /\ Reopens(actions[<<Gap, d>>].status)
             THEN [actions[<<Gap, d>>] EXCEPT !.status = "candidate"]
             ELSE IF d \notin gaps /\ actions[<<Gap, d>>].status = "candidate"
             THEN [actions[<<Gap, d>>] EXCEPT !.status = "stale"]
             ELSE actions[<<Gap, d>>]
      BY <2>1
    <2> QED
      BY <2>2, <2>3 DEF Statuses
  <1> QED
    BY <1>2, <1>3, <1>4, <1>5

LEMMA RunStep ==
    ASSUME QualityInv, RunQuality
    PROVE  QualityInv'
  <1> USE DEF QualityInv
  <1>1. /\ known' = Loaded /\ RecordCandidates /\ StoreFindings(known')
        /\ blocking' = UnexplainedErrors(findings') /\ fresh' = TRUE
        /\ UNCHANGED <<gaps, prevClose, problems, csv, factors, changes>>
    BY DEF RunQuality
  <1>2. /\ known' \subseteq Issues
        /\ findings' \in [Subjects -> {"none", "open", "explained", "resolved"}]
        /\ blocking' \subseteq Errors
        /\ warned' \subseteq ExDates
    BY <1>1 DEF Loaded, StoreFindings, UnexplainedErrors, RecordCandidates, QualityTypeOK
  <1>3. QualityTypeOK'
    BY <1>1, <1>2, CandidatesStep DEF QualityTypeOK
  <1>4. Confirmed(actions)' = Confirmed(actions)
    <2>1. DOMAIN actions = Types \X ExDates
      BY DEF QualityTypeOK
    <2>2. \A a \in DOMAIN actions : a[1] = Gap => actions'[a].status # "confirmed"
      BY <1>1, <2>1, CandidatesStep, KeysOfActions
    <2>3. \A a \in DOMAIN actions : actions[a].status = "confirmed" \/ actions'[a].status = "confirmed"
               => actions'[a] = actions[a]
      BY <1>1, <2>2, CandidatesStep
    <2> QED
      BY <1>1, <2>1, <2>3, CandidatesStep, SameConfirmed
  <1>5. FactorsFollowTheActions'
    BY <1>1, <1>4, CandidatesStep DEF FactorsFollowTheActions, Active, OnePerDate
  <1>6. FindingsTellTheData'
    <2>1. {d \in ExDates : Status(d)' = "candidate"} = {d \in gaps' : Status(d)' # "rejected"}
      BY <1>1, CandidatesStep DEF Status, QualityTypeOK
    <2>2. {s \in Subjects : findings'[s] \in {"open", "explained"}} = problems'
      BY <1>1 DEF StoreFindings, QualityTypeOK
    <2>3. blocking' = {s \in problems' \intersect Errors : ~ Explained(known', s)}
      BY <1>1 DEF StoreFindings, QualityTypeOK, UnexplainedErrors
    <2> QED
      BY <2>1, <2>2, <2>3 DEF FindingsTellTheData, Explained
  <1>7. \A a \in DOMAIN actions' : a[1] # Gap => actions'[a].status \in {"none", "confirmed"}
    BY <1>1, CandidatesStep DEF QualityTypeOK
  <1>8. \A a \in DOMAIN actions' : actions'[a].status = "confirmed" => actions'[a].factor # 0
    <2>1. \A a \in DOMAIN actions' : a[1] = Gap => actions'[a].status # "confirmed"
      BY <1>1, CandidatesStep, KeysOfActions
    <2> QED
      BY <1>1, <2>1, CandidatesStep DEF QualityTypeOK
  <1> QED
    BY <1>1, <1>3, <1>5, <1>6, <1>7, <1>8

LEMMA DiesStep ==
    ASSUME QualityInv, RunQualityDies
    PROVE  QualityInv'
  <1> USE DEF QualityInv, RunQualityDies
  <1>1. QualityTypeOK'
    BY DEF QualityTypeOK, Loaded
  <1>2. FactorsFollowTheActions'
    BY DEF FactorsFollowTheActions, Active, Confirmed, OnePerDate
  <1>3. FindingsTellTheData'
    BY DEF FindingsTellTheData
  <1> QED
    BY <1>1, <1>2, <1>3

-----------------------------------------------------------------------------
(* apply_confirmed.                                                        *)

LEMMA FactorIsPositive ==
    ASSUME QualityTypeOK, NEW r \in EventRow, compute_factor(r) # Bad
    PROVE  compute_factor(r) \in Nat \ {0}
  <1> DEFINE f == IF r.factor # 0 THEN r.factor
                  ELSE IF r.type \in StockTypes /\ r.ratio > 0 THEN Scale \div (1 + r.ratio)
                  ELSE IF r.type = "cash_dividend" /\ r.cash > 0 /\ prevClose[r.ex] > r.cash
                       THEN ((prevClose[r.ex] - r.cash) * Scale) \div prevClose[r.ex]
                  ELSE Bad
  <1>0. r.factor \in Int /\ r.ratio \in Int /\ r.cash \in Nat /\ prevClose[r.ex] \in Nat /\ Scale \in Nat
    BY DEF EventRow, QualityTypeOK
  <1>1. r.ratio > 0 => Scale \div (1 + r.ratio) \in Int
    BY <1>0
  <1>2. (r.cash > 0 /\ prevClose[r.ex] > r.cash) =>
            ((prevClose[r.ex] - r.cash) * Scale) \div prevClose[r.ex] \in Int
    <2>1. (prevClose[r.ex] - r.cash) * Scale \in Int
      BY <1>0
    <2> QED
      BY <1>0, <2>1
  <1>3. f \in Int
    BY <1>0, <1>1, <1>2 DEF Bad
  <1> HIDE DEF f
  <1>4. compute_factor(r) = IF f <= 0 \/ f = Scale THEN Bad ELSE f
    BY DEF compute_factor, f
  <1> QED
    BY <1>3, <1>4

\* What one file does to one row of corporate_actions.
LEMMA AppliedRow ==
    ASSUME QualityInv, NEW file \in CsvFiles, \A n \in DOMAIN file : compute_factor(file[n]) # Bad,
           NEW a \in DOMAIN actions
    PROVE  LET new == Applied(file)[a] IN
           /\ new \in [status: Statuses, factor: Nat]
           /\ new.status = "confirmed" => new.factor # 0
           /\ a[1] # Gap => new = actions[a] \/ new.status = "confirmed"
           /\ a[1] = Gap => new = actions[a] \/ (actions[a].status # "none" /\ new.status = "rejected")
           /\ actions[a].status = "confirmed" => new.status = "confirmed"
  <1> DEFINE About == {n \in DOMAIN file : <<file[n].type, file[n].ex>> = a}
             IsNew(n) == actions[<<file[n].type, file[n].ex>>].status = "none"
  <1>1. file \in Seq(EventRow)
    OBVIOUS
  <1>2. \A n \in DOMAIN file : file[n] \in EventRow
    BY <1>1
  <1>3. About # {} => Max(About) \in DOMAIN file
    <2>1. About \subseteq Nat /\ Len(file) \in Nat /\ \A n \in About : n <= Len(file)
      BY <1>1
    <2>2. About \subseteq DOMAIN file
      OBVIOUS
    <2> HIDE DEF About
    <2>3. About # {} => Max(About) \in About
      BY <2>1, GreatestOfBounded
    <2> QED
      BY <2>2, <2>3
  <1>4. About # {} => a[1] # Gap
    BY <1>2, KeysOfActions DEF EventRow
  <1>5. actions[a] \in [status: Statuses, factor: Nat]
    BY DEF QualityInv, QualityTypeOK
  <1>6. /\ a[1] # Gap => actions[a].status \in {"none", "confirmed"}
        /\ actions[a].status = "confirmed" => actions[a].factor # 0
    BY DEF QualityInv
  <1>7. a[1] = Gap => actions[a].status # "confirmed"
    BY KeysOfActions DEF QualityInv, QualityTypeOK, FactorsFollowTheActions
  <1>8. CASE About # {}
    <2>1. Applied(file)[a] = [status |-> "confirmed", factor |-> compute_factor(file[Max(About)])]
      BY <1>8 DEF Applied
    <2>2. compute_factor(file[Max(About)]) \in Nat \ {0}
      BY <1>2, <1>3, <1>8, FactorIsPositive DEF QualityInv
    <2> QED
      BY <1>4, <1>8, <2>1, <2>2 DEF Statuses
  <1>9. CASE About = {}
    <2>1. Applied(file)[a] =
             IF actions[a].status # "none" /\ \E n \in DOMAIN file : a = <<Gap, file[n].ex>> /\ IsNew(n)
             THEN [actions[a] EXCEPT !.status = "rejected"] ELSE actions[a]
      BY <1>9 DEF Applied
    <2>2. CASE Applied(file)[a] = actions[a]
      BY <1>5, <1>6, <1>7, <2>2 DEF Statuses
    <2>3. CASE Applied(file)[a] # actions[a]
      <3>1. /\ Applied(file)[a] = [actions[a] EXCEPT !.status = "rejected"]
            /\ actions[a].status # "none"
            /\ \E n \in DOMAIN file : a = <<Gap, file[n].ex>>
        BY <2>1, <2>3, Zenon
      <3>3. a[1] = Gap
        BY <3>1
      <3>2. Applied(file)[a] = [status |-> "rejected", factor |-> actions[a].factor]
        BY <1>5, <3>1
      <3> QED
        BY <1>5, <1>7, <3>1, <3>2, <3>3 DEF Statuses
    <2> QED
      BY <2>2, <2>3
  <1> QED
    BY <1>8, <1>9

LEMMA ApplyStep ==
    ASSUME QualityInv, NEW file \in CsvFiles, ApplyConfirmed(file)
    PROVE  /\ QualityInv'
           /\ \A a \in DOMAIN actions : actions[a].status \in {"rejected", "confirmed"}
                  => actions'[a].status = actions[a].status
           /\ factors' = factors \/ \E v : factors' = Append(factors, v)
  <1> DEFINE want == WantedFactors(Applied(file))
  <1>1. /\ \A n \in DOMAIN file : compute_factor(file[n]) # Bad
        /\ OnePerDate(want) /\ actions' = Applied(file)
        /\ \/ want = Active /\ factors' = factors
           \/ factors' = Append(factors, want)
        /\ UNCHANGED <<gaps, prevClose, problems, csv, warned, known, findings, blocking, fresh, changes>>
    BY DEF ApplyConfirmed
  <1>2. actions \in [Types \X ExDates -> [status: Statuses, factor: Nat]]
    BY DEF QualityInv, QualityTypeOK
  <1>3. actions' \in [Types \X ExDates -> [status: Statuses, factor: Nat]]
    <2>1. Applied(file) = [a \in DOMAIN actions |-> Applied(file)[a]]
      BY DEF Applied
    <2>2. \A a \in DOMAIN actions : Applied(file)[a] \in [status: Statuses, factor: Nat]
      BY <1>1, AppliedRow
    <2> QED
      BY <1>1, <1>2, <2>1, <2>2
  <1>4. want = Confirmed(actions)'
    BY <1>1 DEF WantedFactors, Confirmed
  <1>5. want \in SUBSET (ExDates \X (Nat \ {0}))
    <2>1. ASSUME NEW a \in DOMAIN actions', actions'[a].status = "confirmed"
          PROVE  <<a[2], actions'[a].factor>> \in ExDates \X (Nat \ {0})
      <3>1. a \in DOMAIN actions /\ a[2] \in ExDates
        BY <1>2, <1>3, KeysOfActions
      <3>2. actions'[a].factor \in Nat /\ actions'[a].factor # 0
        BY <1>1, <2>1, <3>1, AppliedRow
      <3> QED
        BY <3>1, <3>2
    <2> QED
      BY <1>4, <2>1 DEF Confirmed
  <1>6. factors' \in Seq(SUBSET (ExDates \X (Nat \ {0}))) /\ Active' = want
    <2>1. CASE want = Active /\ factors' = factors
      BY <2>1 DEF QualityInv, Active
    <2>2. CASE factors' = Append(factors, want)
      <3>1. factors' \in Seq(SUBSET (ExDates \X (Nat \ {0}))) /\ factors' # <<>> /\ factors'[Len(factors')] = want
        BY <1>5, <2>2 DEF QualityInv
      <3> QED
        BY <3>1 DEF Active, Last
    <2> QED
      BY <1>1, <2>1, <2>2
  <1>7. QualityTypeOK'
    <2>1. \A v \in DOMAIN factors' : \A f \in factors'[v] : f[1] \in ExDates /\ f[2] \in Nat \ {0}
      BY <1>6
    <2> QED
      BY <1>1, <1>3, <2>1 DEF QualityInv, QualityTypeOK
  <1>8. \A a \in DOMAIN actions : a \in DOMAIN actions' /\
           /\ a[1] # Gap => actions'[a] = actions[a] \/ actions'[a].status = "confirmed"
           /\ a[1] = Gap => \/ actions'[a] = actions[a]
                            \/ actions[a].status # "none" /\ actions'[a].status = "rejected"
           /\ actions[a].status = "confirmed" => actions'[a].status = "confirmed"
           /\ actions'[a].status = "confirmed" => actions'[a].factor # 0
    BY <1>1, <1>2, <1>3, AppliedRow
  <1>9. \A d \in ExDates : actions'[<<Gap, d>>].status # "confirmed"
    <2>1. \A d \in ExDates : <<Gap, d>> \in DOMAIN actions /\ actions[<<Gap, d>>].status # "confirmed"
      BY <1>2, KeysOfActions DEF QualityInv, FactorsFollowTheActions
    <2> QED
      BY <1>8, <2>1
  <1>10. FactorsFollowTheActions'
    BY <1>1, <1>4, <1>6, <1>9 DEF FactorsFollowTheActions, OnePerDate
  <1>11. FindingsTellTheData'
    <2>1. \A d \in ExDates : <<Gap, d>> \in DOMAIN actions /\ <<Gap, d>>[1] = Gap
      BY <1>2, KeysOfActions
    <2>2. \A d \in ExDates : Status(d)' = Status(d) \/ (Status(d) # "none" /\ Status(d)' = "rejected")
      BY <1>8, <2>1 DEF Status
    <2>3. fresh => {d \in ExDates : Status(d) = "candidate"} = {d \in gaps : Status(d) # "rejected"}
      BY DEF QualityInv, FindingsTellTheData
    <2>4. fresh => {d \in ExDates : Status(d)' = "candidate"} = {d \in gaps : Status(d)' # "rejected"}
      BY <2>2, <2>3 DEF QualityInv, QualityTypeOK
    <2> QED
      BY <1>1, <2>4 DEF QualityInv, FindingsTellTheData, Explained
  <1>12. /\ \A a \in DOMAIN actions' : a[1] # Gap => actions'[a].status \in {"none", "confirmed"}
         /\ \A a \in DOMAIN actions' : actions'[a].status = "confirmed" => actions'[a].factor # 0
    BY <1>2, <1>3, <1>8 DEF QualityInv
  <1>13. \A a \in DOMAIN actions : actions[a].status \in {"rejected", "confirmed"}
             => actions'[a].status = actions[a].status
    BY <1>8 DEF QualityInv
  <1> QED
    BY <1>1, <1>6, <1>7, <1>10, <1>11, <1>12, <1>13 DEF QualityInv

LEMMA QualityStep == QualityInv /\ [QualityNext]_qualityVars => QualityInv'
  <1> SUFFICES ASSUME QualityInv, [QualityNext]_qualityVars PROVE QualityInv'
    OBVIOUS
  <1>1. CASE StoredBarsChange \/ CsvIsEdited \/ (\E d \in ExDates : Acknowledge(d))
    BY <1>1, OutsideStep
  <1>2. CASE RunQuality
    BY <1>2, RunStep
  <1>3. CASE RunQualityDies
    BY <1>3, DiesStep
  <1>4. CASE \E file \in CsvFiles : ApplyConfirmed(file)
    BY <1>4, ApplyStep
  <1>5. CASE UNCHANGED qualityVars
    BY <1>5 DEF qualityVars, QualityInv, QualityTypeOK, FactorsFollowTheActions, Active, Confirmed,
                OnePerDate, FindingsTellTheData, Status, Explained
  <1> QED
    BY <1>1, <1>2, <1>3, <1>4, <1>5 DEF QualityNext

\* Every reachable state of the quality step and the operator's commands.
THEOREM QualityInvAlways == QualitySpec => []QualityInv
  BY QualityStarts, QualityStep, PTL DEF QualitySpec

\* The tables of the price adjustments and the findings keep their types.
THEOREM QualityTypeCorrect == QualitySpec => []QualityTypeOK
  <1>1. QualityInv => QualityTypeOK
    BY DEF QualityInv
  <1> QED
    BY <1>1, QualityInvAlways, PTL

\* The active factors are exactly the confirmed events, one to a date, whatever
\* files an operator applies, in whatever order and however often
\* (_rebuild_factor_version).
THEOREM FactorsFollowTheActionsAlways == QualitySpec => []FactorsFollowTheActions
  <1>1. QualityInv => FactorsFollowTheActions
    BY DEF QualityInv
  <1> QED
    BY <1>1, QualityInvAlways, PTL

\* Until something changes after a run, the blocking errors, the findings and the
\* candidates are what the bars and the known issues say (store_findings,
\* record_candidates), files of events applied since included.
THEOREM FindingsTellTheDataAlways == QualitySpec => []FindingsTellTheData
  <1>1. QualityInv => FindingsTellTheData
    BY DEF QualityInv
  <1> QED
    BY <1>1, QualityInvAlways, PTL

\* No command or run reopens a gap an operator rejected, drops a confirmed event
\* or rewrites a stored version of the factors.
THEOREM NothingIsUndoneAlways == QualitySpec => NothingIsUndone
  <1> DEFINE Settled == /\ \A a \in DOMAIN actions :
                            actions[a].status \in {"rejected", "confirmed"} => actions'[a].status = actions[a].status
                        /\ IsPrefix(factors, factors')
  <1>0. QualityInv => IsPrefix(factors, factors)
    BY DEF QualityInv, IsPrefix
  <1>1. QualityInv /\ [QualityNext]_qualityVars => [Settled]_qualityVars
    <2> SUFFICES ASSUME QualityInv, QualityNext PROVE Settled
      BY DEF qualityVars
    <2>1. CASE StoredBarsChange \/ CsvIsEdited \/ RunQualityDies \/ (\E d \in ExDates : Acknowledge(d))
      <3>1. UNCHANGED <<actions, factors>>
        BY <2>1, OutsideStep DEF RunQualityDies
      <3> QED
        BY <1>0, <3>1
    <2>2. CASE RunQuality
      <3>1. factors' = factors /\ RecordCandidates
        BY <2>2 DEF RunQuality
      <3> QED
        BY <1>0, <3>1, CandidatesStep
    <2>3. CASE \E file \in CsvFiles : ApplyConfirmed(file)
      <3>1. PICK file \in CsvFiles : ApplyConfirmed(file)
        BY <2>3
      <3>2. IsPrefix(factors, factors')
        <4>1. CASE factors' = factors
          BY <1>0, <4>1
        <4>2. CASE \E v : factors' = Append(factors, v)
          <5>1. PICK v : factors' = Append(factors, v)
            BY <4>2
          <5>2. /\ factors \in Seq(SUBSET (ExDates \X (Nat \ {0})))
                /\ Len(factors') = Len(factors) + 1
                /\ \A k \in 1..Len(factors) : factors'[k] = factors[k]
            BY <5>1 DEF QualityInv
          <5>3. SubSeq(factors, 1, Len(factors)) = SubSeq(factors', 1, Len(factors))
            BY <5>2
          <5> QED
            BY <5>2, <5>3 DEF IsPrefix
        <4> QED
          BY <3>1, <4>1, <4>2, ApplyStep
      <3> QED
        BY <3>1, <3>2, ApplyStep
    <2> QED
      BY <2>1, <2>2, <2>3 DEF QualityNext
  <1> QED
    BY <1>1, QualityInvAlways, PTL DEF QualitySpec, NothingIsUndone
=============================================================================
