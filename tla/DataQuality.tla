---------------------------- MODULE DataQuality ----------------------------
(***************************************************************************)
(* The quality step of the data job (pipeline.run_quality): price gaps     *)
(* recorded as candidates of corporate actions (data/adjustments.py) and   *)
(* findings matched against known issues (data/quality_store.py), with the *)
(* operator's commands that confirm events and edit the known issues.      *)
(*                                                                         *)
(* One instrument; what the checks see in its bars is the environment.  A  *)
(* price is a small integer and a factor is in units of 1 / Scale, which   *)
(* stands for the twelve decimals of the column.                           *)
(***************************************************************************)
EXTENDS Integers, Sequences, FiniteSets, FiniteSetsExt, SequencesExt

CONSTANTS
    ExDates,        \* dates an event can have
    CsvFiles,       \* files of confirmed events an operator applies
    Subjects,       \* (check, date) keys a check can report
    Errors,         \* those of severity error
    Issues,         \* known issues a CSV can hold: [key, covers]
    Scale,
    MaxVersions, MaxChanges \* bounds

Gap == "unknown_gap"
StockTypes == {"stock_dividend", "bonus", "split"}
ACTION_TYPES == StockTypes \union {"cash_dividend", "rights", "other"}
Types == ACTION_TYPES \union {Gap}

\* A row of the operator's file: 0 is an empty cell.
EventRow == [type: ACTION_TYPES, ex: ExDates, ratio: Int, cash: Nat, factor: Int]

ASSUME QualityConstants ==
    /\ Errors \subseteq Subjects
    /\ \A i \in Issues : i.covers \subseteq Subjects
    /\ CsvFiles \subseteq Seq(EventRow) \ {<<>>}
    /\ Scale \in Nat \ {0} /\ {MaxVersions, MaxChanges} \subseteq Nat

NoAction == [status |-> "none", factor |-> 0]
Bad == -1   \* AdjustmentError

VARIABLES
    gaps,       \* dates whose open is beyond the compounded band
    prevClose,  \* the close before each date
    problems,   \* what run_quality_checks reports
    csv,        \* the known-issues file
    actions,    \* corporate_actions, by (type, ex-date)
    warned,     \* dates of the open corporate_action_candidate alerts
    factors,    \* adjustment_factors: one set of (date, factor) per version
    known,      \* data_quality_known_issues
    findings,   \* data_quality_findings, by subject
    blocking,   \* unexplained errors the last quality run returned
    fresh,      \* aux: nothing changed since that run
    changes     \* aux: bound

qualityVars == <<gaps, prevClose, problems, csv, actions, warned, factors, known, findings, blocking,
                 fresh, changes>>

Statuses == {"none", "candidate", "confirmed", "rejected", "stale"}

QualityTypeOK ==
    /\ gaps \subseteq ExDates /\ prevClose \in [ExDates -> Nat]
    /\ problems \subseteq Subjects /\ csv \subseteq Issues
    /\ actions \in [Types \X ExDates -> [status: Statuses, factor: Nat]]
    /\ warned \subseteq ExDates
    /\ \A v \in DOMAIN factors : \A f \in factors[v] : f[1] \in ExDates /\ f[2] \in Nat \ {0}
    /\ known \subseteq Issues /\ findings \in [Subjects -> {"none", "open", "explained", "resolved"}]
    /\ blocking \subseteq Errors /\ fresh \in BOOLEAN /\ changes \in Nat

QualityInit ==
    /\ gaps = {} /\ prevClose = [d \in ExDates |-> 2] /\ problems = {} /\ csv = {}
    /\ actions = [a \in Types \X ExDates |-> NoAction]
    /\ warned = {} /\ factors = <<>> /\ known = {}
    /\ findings = [s \in Subjects |-> "none"] /\ blocking = {} /\ fresh = FALSE /\ changes = 0

-----------------------------------------------------------------------------
(* The stored bars and the operator's files change between the runs.       *)

Change == /\ changes < MaxChanges /\ changes' = changes + 1 /\ fresh' = FALSE

\* An ingest rewrites bars: a gap or a problem appears or disappears, or the
\* close before a date is another one.
StoredBarsChange ==
    /\ Change
    /\ \/ /\ \E d \in ExDates : gaps' = SymDiff(gaps, {d})
          /\ UNCHANGED <<prevClose, problems>>
       \/ /\ \E d \in ExDates : prevClose' = [prevClose EXCEPT ![d] = 4]
          /\ UNCHANGED <<gaps, problems>>
       \/ /\ \E s \in Subjects : problems' = SymDiff(problems, {s})
          /\ UNCHANGED <<gaps, prevClose>>
    /\ UNCHANGED <<csv, actions, warned, factors, known, findings, blocking>>

CsvIsEdited ==
    /\ Change
    /\ csv' \in SUBSET Issues
    /\ UNCHANGED <<gaps, prevClose, problems, actions, warned, factors, known, findings, blocking>>

-----------------------------------------------------------------------------
(* run_quality: the known issues in one transaction, the checks in another. *)

Status(d) == actions[<<Gap, d>>].status

\* mutant: a rejected gap is a candidate again
ReopensAll(status) == TRUE

\* The gaps record_candidates makes candidates, or leaves candidates.
Reopens(status) == status \in {"none", "candidate", "stale"}

\* record_candidates: a new gap is a candidate and raises an alert, one seen
\* again is a candidate again, one no longer seen is stale and its alert is
\* acknowledged; a rejected one is left alone.
RecordCandidates ==
    /\ actions' = [a \in DOMAIN actions |->
           IF a[1] # Gap THEN actions[a]
           ELSE IF a[2] \in gaps /\ Reopens(actions[a].status)
                THEN [actions[a] EXCEPT !.status = "candidate"]
           ELSE IF a[2] \notin gaps /\ actions[a].status = "candidate"
                THEN [actions[a] EXCEPT !.status = "stale"]
           ELSE actions[a]]
    /\ warned' = (warned \union {d \in gaps : Status(d) = "none"})
                     \ {d \in ExDates \ gaps : Status(d) = "candidate"}

Explained(table, s) == \E i \in table : s \in i.covers

\* mutant: a problem that comes back stays resolved
StoreNewFindings(table) ==
    findings' = [s \in Subjects |->
        IF s \in problems /\ findings[s] # "resolved"
        THEN IF Explained(table, s) THEN "explained" ELSE "open"
        ELSE IF findings[s] = "none" THEN "none" ELSE "resolved"]

\* store_findings: current problems are open or explained, the others resolved.
StoreFindings(table) ==
    findings' = [s \in Subjects |->
        IF s \in problems THEN IF Explained(table, s) THEN "explained" ELSE "open"
        ELSE IF findings[s] = "none" THEN "none" ELSE "resolved"]

UnexplainedErrors(f) == {s \in Errors : f[s] = "open"}

\* load_known_issues: a file that does not validate (here: a repeated key) stops
\* the run; its rows are upserted by key and none is ever deleted.
Valid == \A i, j \in csv : i.key = j.key => i = j
Loaded == {k \in known : \A i \in csv : i.key # k.key} \union csv

RunQuality ==
    /\ Valid
    /\ known' = Loaded
    /\ RecordCandidates
    /\ StoreFindings(known')
    /\ blocking' = UnexplainedErrors(findings')
    /\ fresh' = TRUE
    /\ UNCHANGED <<gaps, prevClose, problems, csv, factors, changes>>

\* The process dies, or a check raises, after the known issues are committed.
RunQualityDies ==
    /\ Valid /\ known # Loaded
    /\ known' = Loaded /\ fresh' = FALSE
    /\ UNCHANGED <<gaps, prevClose, problems, csv, actions, warned, factors, findings, blocking, changes>>

-----------------------------------------------------------------------------
(* The operator confirms events and acknowledges alerts.                   *)

\* compute_factor: an explicit factor wins, a stock event uses 1/(1+ratio), a
\* cash dividend (P-D)/P; 0 in a row is an empty cell.
compute_factor(r) ==
    LET f == IF r.factor # 0 THEN r.factor
             ELSE IF r.type \in StockTypes /\ r.ratio > 0 THEN Scale \div (1 + r.ratio)
             ELSE IF r.type = "cash_dividend" /\ r.cash > 0 /\ prevClose[r.ex] > r.cash
                  THEN ((prevClose[r.ex] - r.cash) * Scale) \div prevClose[r.ex]
             ELSE Bad
    IN  IF f <= 0 \/ f = Scale THEN Bad ELSE f

\* The table after the rows of the file, one after the other: a row stores its
\* event over what an earlier one stored; an event that is new rejects the gap
\* candidate of its date, one already stored leaves the candidate alone.
Applied(file) ==
    LET About(a) == {n \in DOMAIN file : <<file[n].type, file[n].ex>> = a}
        IsNew(n) == actions[<<file[n].type, file[n].ex>>].status = "none"
        Explains(a, n) == a = <<Gap, file[n].ex>> /\ IsNew(n)
    IN  [a \in DOMAIN actions |->
            IF About(a) # {}
            THEN [status |-> "confirmed", factor |-> compute_factor(file[Max(About(a))])]
            ELSE IF actions[a].status # "none" /\ \E n \in DOMAIN file : Explains(a, n)
            THEN [actions[a] EXCEPT !.status = "rejected"]
            ELSE actions[a]]

Confirmed(table) ==
    {<<a[2], table[a].factor>> : a \in {b \in DOMAIN table : table[b].status = "confirmed"}}

\* mutant: only the events of this file make the new version
ConfirmedNow(table) ==
    {<<a[2], table[a].factor>> :
        a \in {b \in DOMAIN table : table[b].status = "confirmed" /\ table[b] # actions[b]}}

Active == IF factors = <<>> THEN {} ELSE Last(factors)

\* _rebuild_factor_version: every confirmed event; nothing if it is the active
\* version.  The unique key allows one factor per date and version.
WantedFactors(table) == Confirmed(table)
OnePerDate(version) == \A f, g \in version : f[1] = g[1] => f = g

\* apply_confirmed: every row is valid and the version fits the unique key, or
\* the whole file is rolled back.
ApplyConfirmed(file) ==
    LET table == Applied(file)
        want == WantedFactors(table)
    IN  /\ \A n \in DOMAIN file : compute_factor(file[n]) # Bad
        /\ OnePerDate(want)
        /\ actions' = table
        /\ IF want = Active THEN factors' = factors
           ELSE Len(factors) < MaxVersions /\ factors' = Append(factors, want)
        /\ UNCHANGED <<gaps, prevClose, problems, csv, warned, known, findings, blocking,
                       fresh, changes>>

\* paper/alerts.acknowledge
Acknowledge(d) ==
    /\ d \in warned /\ warned' = warned \ {d}
    /\ UNCHANGED <<gaps, prevClose, problems, csv, actions, factors, known, findings, blocking,
                   fresh, changes>>

QualityNext ==
    \/ StoredBarsChange \/ CsvIsEdited
    \/ RunQuality \/ RunQualityDies
    \/ \E file \in CsvFiles : ApplyConfirmed(file)
    \/ \E d \in ExDates : Acknowledge(d)

QualitySpec == QualityInit /\ [][QualityNext]_qualityVars

-----------------------------------------------------------------------------
(* Properties.                                                             *)

\* The active factors (adjustments.py) are exactly the confirmed events,
\* whatever files were applied, in whatever order and however often; nothing
\* is ever adjusted from a candidate, and a date has one factor.
FactorsFollowTheActions ==
    /\ Active = Confirmed(actions)
    /\ \A d \in ExDates : actions[<<Gap, d>>].status # "confirmed"
    /\ OnePerDate(Active)

\* After a run (quality_store.py) the open errors are exactly the problems the
\* bars have now that no stored known issue covers, problems that went away
\* and came back included, and the candidates are the gaps nobody rejected.
FindingsTellTheData ==
    fresh => /\ {d \in ExDates : Status(d) = "candidate"} = {d \in gaps : Status(d) # "rejected"}
             /\ {s \in Subjects : findings[s] \in {"open", "explained"}} = problems
             /\ blocking = {s \in problems \intersect Errors : ~ Explained(known, s)}

\* What an operator settled stays settled: a rejected gap is never a candidate
\* again, a confirmed event is never dropped, a stored version of the factors
\* is never rewritten.
NothingIsUndone ==
    [][/\ \A a \in DOMAIN actions :
             actions[a].status \in {"rejected", "confirmed"} => actions'[a].status = actions[a].status
       /\ IsPrefix(factors, factors')]_qualityVars
=============================================================================
