------------------------- MODULE OperationsProofs -------------------------
(***************************************************************************)
(* What holds of the jobs around the database, whatever is killed between  *)
(* two operations of theirs: the versions of the training sets, for any    *)
(* number of trainers, bodies of the definition, contents of the data and  *)
(* mishaps; the dumps of the database, for any retention, length of a week *)
(* and number of dumps a day; and the monthly evaluation and the retrain,  *)
(* for any calendar, settings of lifecycle.*, models, faults and replays.  *)
(*                                                                         *)
(* The table of versions is only appended to, so a version that is still   *)
(* free was numbered by a transaction that read the table as it is: the    *)
(* unique key turns a look-up made long before the insert into one made at *)
(* it.  Of the dumps, a prune sees only those that earlier prunes left.    *)
(* It still decides as if it saw all of them, because what must be kept of *)
(* all days ever dumped only shrinks but for the newest day: a day that is *)
(* once given up is never asked for again.  A challenger counts for the    *)
(* month it was started in.  A month that is over starts nothing any more, *)
(* so the two bounds need only be carried through the present one: there,  *)
(* every challenger but one in shadow was settled in the very month, and   *)
(* every evaluation but one was not recorded.                              *)
(***************************************************************************)
EXTENDS Datasets, Backup, Lifecycle, FiniteSetTheorems, SequenceTheorems, TLAPS

-----------------------------------------------------------------------------
(* Natural numbers.                                                        *)

\* A non-empty set of natural numbers has a least element: the order is
\* well-founded (in the form the provers can use, without a second-order <).
LessThan == {ss \in Nat \X Nat : ss[1] < ss[2]}

LEMMA LeastOfNaturals ==
    ASSUME NEW S, S \subseteq Nat, S # {}
    PROVE  \E n \in S : \A m \in S : n <= m
  <1>1. OpToRel(<, Nat) = LessThan
    BY Zenon DEF OpToRel, LessThan
  <1>2. IsWellFoundedOn(LessThan, Nat)
    BY <1>1, NatLessThanWellFounded
  <1>3. PICK n \in S : \A m \in S : <<m, n>> \notin LessThan
    BY <1>2, WFMin, Zenon
  <1>4. ASSUME NEW m \in S PROVE n <= m
    <2>1. m \in Nat /\ n \in Nat /\ <<m, n>> \notin LessThan
      BY <1>3
    <2>2. <<m, n>> \in Nat \X Nat /\ <<m, n>>[1] = m /\ <<m, n>>[2] = n
      BY <2>1
    <2>3. ~ (m < n)
      BY <2>1, <2>2, Zenon DEF LessThan
    <2> QED
      BY <2>1, <2>3
  <1> QED
    BY <1>4

\* A non-empty set of naturals that is bounded has a greatest element.
LEMMA GreatestOfNaturals ==
    ASSUME NEW n \in Nat, NEW S, S \subseteq 0..n, S # {}
    PROVE  \E m \in S : \A x \in S : x <= m
  <1>1. PICK T : T = {n - x : x \in S}
    OBVIOUS
  <1>2. T \subseteq Nat /\ T # {}
    <2>1. PICK x : x \in S
      OBVIOUS
    <2>2. n - x \in T
      BY <1>1, <2>1
    <2>3. ASSUME NEW y \in S PROVE n - y \in Nat
      <3>1. y \in 0..n
        OBVIOUS
      <3> QED
        BY <3>1
    <2> QED
      BY <1>1, <2>2, <2>3
  <1>3. PICK t \in T : \A u \in T : t <= u
    BY <1>2, LeastOfNaturals
  <1>4. PICK m \in S : t = n - m
    BY <1>1, <1>3
  <1>5. ASSUME NEW x \in S PROVE x <= m
    <2>1. n - x \in T
      BY <1>1
    <2> QED
      BY <1>3, <1>4, <2>1
  <1> QED
    BY <1>5

\* A set that has 0, and the successor of every number it has, has them all.
LEMMA SetInduction ==
    ASSUME NEW S, 0 \in S, \A n \in Nat : n \in S => n + 1 \in S
    PROVE  \A n \in Nat : n \in S
  <1>1. SUFFICES ASSUME Nat \ S # {} PROVE FALSE
    OBVIOUS
  <1>2. PICK n \in Nat \ S : \A m \in Nat \ S : n <= m
    BY <1>1, LeastOfNaturals
  <1>3. n # 0 /\ n - 1 \in Nat /\ ~(n <= n - 1)
    BY <1>2
  <1>4. n - 1 \in S
    BY <1>2, <1>3
  <1> QED
    BY <1>2, <1>3, <1>4

-----------------------------------------------------------------------------
(* Datasets: the versions.                                                 *)

USE DatasetsConstants

-----------------------------------------------------------------------------
(* The states of a trainer, and what each of them has of the table.        *)

File == [gone : {FALSE}, content : Content, lib : {1, 2}]
DatasetRow == [content : Content, sha : File, file_pruned : BOOLEAN]

Idle == {AtRest}
Assembled == [step : {"assembled"}, content : Content]
Numbered == [step : {"numbered"}, content : Content, version : Nat]
Written == [step : {"written"}, content : Content, version : Nat, sha : File]
Built == [step : {"built"}, version : Nat]
Training == [step : {"training"}, version : Nat, saw : Content]

TrainerState == Idle \union Assembled \union Numbered \union Written \union Built \union Training

\* A frame in memory was computed under the definition stored by then, which
\* nobody replaces.
FrameIsDefined(s) ==
    s.step \in {"assembled", "numbered", "written"} => s.content.cfg = defined

\* A number that is still free is the next one, and what made the build ask for
\* it is still so: no row holds its frame.
NumberIsFresh(s) ==
    s.step \in {"numbered", "written"}
        => \/ s.version \in Versions
           \/ s.version = Len(rows) + 1 /\ SameFrame(s.content) = {}

\* The hash taken of a file is of the content it stands for.
HashIsTrue(s) == s.step = "written" => s.sha.content = s.content

\* A build ends with a version of the table, and what a training read under a
\* version is the frame of its row.
ReaderIsServed(s) ==
    /\ s.step \in {"built", "training"} => s.version \in Versions
    /\ s.step = "training" => s.saw = rows[s.version].content

StateIsSound(s) ==
    s \in TrainerState /\ FrameIsDefined(s) /\ NumberIsFresh(s) /\ HashIsTrue(s) /\ ReaderIsServed(s)

TrainersOK == trainer \in [Trainers -> TrainerState] /\ \A t \in Trainers : StateIsSound(trainer[t])
TableOK == /\ rows \in Seq(DatasetRow) /\ library \in {1, 2} /\ data \in Data
           /\ \A v \in Versions : rows[v].sha.content = rows[v].content
DefinitionsOK == written \in Configs /\ defined \in Configs \union {Undefined}
ModelsOK == \A m \in models : m.version \in Versions /\ m.saw = rows[m.version].content

DatasetsInv ==
    /\ TrainersOK /\ TableOK /\ DefinitionsOK /\ ModelsOK
    /\ OneVersionPerFrame /\ BuiltAsDefined

-----------------------------------------------------------------------------
(* Lemmas.                                                                 *)

\* The versions are 1 up to the number of rows.
LEMMA VersionsAreNumbered ==
    ASSUME TableOK
    PROVE  /\ Len(rows) \in Nat /\ Versions = 1 .. Len(rows)
           /\ \A v \in Versions : rows[v] \in DatasetRow /\ rows[v].content \in Content
  <1>1. Len(rows) \in Nat /\ Versions = 1 .. Len(rows)
    BY LenProperties DEF TableOK, Versions
  <1>2. \A v \in Versions : rows[v] \in DatasetRow
    BY <1>1, ElementOfSeq DEF TableOK
  <1> QED
    BY <1>1, <1>2 DEF DatasetRow

\* The file a build writes records the content it was given.
LEMMA ShaIsOfItsContent ==
    ASSUME library \in {1, 2}, NEW c \in Content
    PROVE  Sha(c) \in File /\ Sha(c).content = c
  BY DEF Sha, File

\* The version a look-up returns is the lowest row with the frame.
LEMMA FirstIsFound ==
    ASSUME TableOK, NEW c, SameFrame(c) # {}
    PROVE  First(SameFrame(c)) \in SameFrame(c)
  <1>1. SameFrame(c) \subseteq Nat
    BY DEF SameFrame, Versions, TableOK
  <1>2. \E v \in SameFrame(c) : \A w \in SameFrame(c) : v <= w
    BY <1>1, LeastOfNaturals
  <1> QED
    BY <1>2 DEF First

\* A step that touches neither the table, nor the definition, nor the models
\* keeps the invariant when every trainer is left in a sound state.
LEMMA TrainersStep ==
    ASSUME DatasetsInv, UNCHANGED <<rows, defined, models>>,
           written' \in Configs, library' \in {1, 2}, data' \in Data,
           trainer' \in [Trainers -> TrainerState],
           \A t \in Trainers : trainer'[t] = trainer[t] \/ StateIsSound(trainer'[t])
    PROVE  DatasetsInv'
  <1>1. TableOK' /\ DefinitionsOK' /\ ModelsOK' /\ OneVersionPerFrame' /\ BuiltAsDefined'
    BY DEF DatasetsInv, TableOK, DefinitionsOK, ModelsOK, OneVersionPerFrame, BuiltAsDefined,
           Versions
  <1>2. ASSUME NEW t \in Trainers PROVE StateIsSound(trainer[t])'
    <2>1. StateIsSound(trainer'[t])
      BY DEF DatasetsInv, TrainersOK
    <2> QED
      BY <2>1 DEF StateIsSound, FrameIsDefined, NumberIsFresh, HashIsTrue, ReaderIsServed,
                  Versions, SameFrame
  <1> QED
    BY <1>1, <1>2 DEF DatasetsInv, TrainersOK

\* In particular a step of one trainer.
LEMMA TrainerStep ==
    ASSUME DatasetsInv, NEW t \in Trainers, NEW s, StateIsSound(s), Becomes(t, s),
           UNCHANGED <<data, written, defined, library, rows, models>>
    PROVE  DatasetsInv'
  <1>1. trainer' \in [Trainers -> TrainerState] /\ trainer'[t] = s
    BY DEF DatasetsInv, TrainersOK, Becomes, StateIsSound
  <1>2. \A u \in Trainers : u # t => trainer'[u] = trainer[u]
    BY DEF DatasetsInv, TrainersOK, Becomes
  <1> QED
    BY <1>1, <1>2, TrainersStep DEF DatasetsInv, TableOK, DefinitionsOK

\* Coming to rest is always sound.
LEMMA RestIsSound == StateIsSound(AtRest)
  BY DEF StateIsSound, TrainerState, Idle, AtRest, FrameIsDefined, NumberIsFresh, HashIsTrue,
         ReaderIsServed

-----------------------------------------------------------------------------
(* One step at a time.                                                     *)

\* A build that has its frame: the frame is computed under the body that the
\* same transaction found or stored.
LEMMA Assembling ==
    ASSUME DatasetsInv, NEW t \in Trainers, BuildAssembles(t) \/ BuildComesToNothing(t)
    PROVE  DatasetsInv'
  <1> DEFINE c == [cfg |-> written, data |-> data]
  <1>1. written \in Configs /\ data \in Data /\ defined' = written /\ written' = written
    BY DEF DatasetsInv, DefinitionsOK, TableOK, BuildAssembles, BuildComesToNothing, SyncDefinitions
  <1>2. CASE defined = Undefined
    <2>1. \A v \in Versions : rows[v].content.cfg \in Configs
      BY VersionsAreNumbered DEF DatasetsInv, Content
    <2>2. Versions = {}
      BY <1>2, <2>1 DEF DatasetsInv, BuiltAsDefined
    <2>3. \A u \in Trainers : trainer[u].step \notin {"assembled", "numbered", "written"}
      <3> SUFFICES ASSUME NEW u \in Trainers,
                          trainer[u].step \in {"assembled", "numbered", "written"}
                   PROVE  FALSE
        OBVIOUS
      <3>1. trainer[u].content.cfg = Undefined
        BY <1>2 DEF DatasetsInv, TrainersOK, StateIsSound, FrameIsDefined
      <3>2. trainer[u].content \in Content
        BY DEF DatasetsInv, TrainersOK, TrainerState, Idle, AtRest, Assembled, Numbered, Written,
               Built, Training
      <3> QED
        BY <3>1, <3>2 DEF Content
    <2>4. TableOK' /\ DefinitionsOK' /\ ModelsOK' /\ OneVersionPerFrame' /\ BuiltAsDefined'
      BY <1>1, <2>2 DEF DatasetsInv, TableOK, DefinitionsOK, ModelsOK, OneVersionPerFrame,
                        BuiltAsDefined, Versions, BuildAssembles, BuildComesToNothing
    <2>5. CASE BuildAssembles(t)
      <3>1. trainer' \in [Trainers -> TrainerState]
        BY <2>5, <1>1 DEF BuildAssembles, Becomes, DatasetsInv, TrainersOK, TrainerState, Assembled,
                          Content
      <3>2. ASSUME NEW u \in Trainers PROVE StateIsSound(trainer[u])'
        <4>1. CASE u = t
          BY <2>5, <1>1, <3>1, <4>1 DEF BuildAssembles, Becomes, DatasetsInv, TrainersOK,
             StateIsSound, FrameIsDefined, NumberIsFresh, HashIsTrue, ReaderIsServed
        <4>2. CASE u # t
          <5>1. trainer'[u] = trainer[u] /\ StateIsSound(trainer[u]) /\ rows' = rows
            BY <2>5, <4>2 DEF BuildAssembles, Becomes, DatasetsInv, TrainersOK
          <5> QED
            BY <2>3, <3>1, <5>1 DEF StateIsSound, FrameIsDefined, NumberIsFresh, HashIsTrue,
               ReaderIsServed, Versions, SameFrame
        <4> QED
          BY <4>1, <4>2
      <3> QED
        BY <2>4, <3>1, <3>2 DEF DatasetsInv, TrainersOK
    <2>6. CASE BuildComesToNothing(t)
      <3>1. ASSUME NEW u \in Trainers PROVE StateIsSound(trainer[u])'
        BY <2>3, <2>6 DEF BuildComesToNothing, DatasetsInv, TrainersOK, StateIsSound, FrameIsDefined,
           NumberIsFresh, HashIsTrue, ReaderIsServed, Versions, SameFrame
      <3>2. trainer' = trainer
        BY <2>6 DEF BuildComesToNothing
      <3> QED
        BY <2>4, <3>1, <3>2 DEF DatasetsInv, TrainersOK
    <2> QED
      BY <2>5, <2>6
  <1>3. CASE defined # Undefined
    <2>1. UNCHANGED <<data, written, defined, library, rows, models>>
      BY <1>1, <1>3 DEF BuildAssembles, BuildComesToNothing, SyncDefinitions
    <2>2. StateIsSound([step |-> "assembled", content |-> c])
      BY <1>1, <2>1 DEF StateIsSound, TrainerState, Assembled, Content, FrameIsDefined,
         NumberIsFresh, HashIsTrue, ReaderIsServed
    <2>3. CASE BuildAssembles(t)
      BY <2>1, <2>2, <2>3, TrainerStep DEF BuildAssembles
    <2>4. CASE BuildComesToNothing(t)
      BY <1>1, <2>1, <2>4, TrainersStep DEF BuildComesToNothing, DatasetsInv, TableOK, TrainersOK
    <2> QED
      BY <2>3, <2>4
  <1> QED
    BY <1>2, <1>3

\* The versions that hold a frame are versions of the table.
LEMMA Found ==
    ASSUME TableOK, NEW c, SameFrame(c) # {}
    PROVE  /\ First(SameFrame(c)) \in Versions /\ First(SameFrame(c)) \in Nat
           /\ rows[First(SameFrame(c))].content = c
  <1>1. First(SameFrame(c)) \in SameFrame(c)
    BY FirstIsFound
  <1>2. First(SameFrame(c)) \in Versions /\ rows[First(SameFrame(c))].content = c
    BY <1>1 DEF SameFrame
  <1> QED
    BY <1>2, VersionsAreNumbered

\* The look-up: a found version, restored if need be, or the next number.
LEMMA LookingUp ==
    ASSUME DatasetsInv, NEW t \in Trainers, BuildReuses(t) \/ BuildRestores(t) \/ BuildNumbers(t)
    PROVE  DatasetsInv'
  <1> DEFINE c == trainer[t].content
             v == First(SameFrame(c))
  <1>1. StateIsSound(trainer[t]) /\ TableOK /\ trainer[t].step = "assembled"
    BY DEF DatasetsInv, TrainersOK, BuildReuses, BuildRestores, BuildNumbers, Is
  <1>2. c \in Content /\ c.cfg = defined
    BY <1>1 DEF StateIsSound, TrainerState, Idle, AtRest, Assembled, Numbered, Written, Built,
                Training, FrameIsDefined
  <1>3. ASSUME SameFrame(c) # {} PROVE StateIsSound([step |-> "built", version |-> v])
    <2>1. v \in Versions /\ v \in Nat
      BY <1>1, <1>3, Found
    <2> QED
      BY <2>1 DEF StateIsSound, TrainerState, Built, FrameIsDefined, NumberIsFresh, HashIsTrue,
                  ReaderIsServed
  <1>4. CASE BuildReuses(t)
    BY <1>3, <1>4, TrainerStep DEF BuildReuses, specs
  <1>5. CASE BuildRestores(t)
    BY <1>3, <1>5, RestIsSound, TrainerStep DEF BuildRestores, specs
  <1>6. CASE BuildNumbers(t)
    <2> DEFINE s == [step |-> "numbered", content |-> c, version |-> Len(rows) + 1]
    <2>1. StateIsSound(s)
      <3>1. s \in Numbered
        BY <1>1, <1>2, VersionsAreNumbered DEF Numbered
      <3>2. SameFrame(c) = {}
        BY <1>6 DEF BuildNumbers
      <3> QED
        BY <3>1, <3>2, <1>2 DEF StateIsSound, TrainerState, FrameIsDefined, NumberIsFresh,
           HashIsTrue, ReaderIsServed
    <2> QED
      BY <1>6, <2>1, TrainerStep DEF BuildNumbers, specs
  <1> QED
    BY <1>4, <1>5, <1>6

\* The file takes its name.
LEMMA Writing ==
    ASSUME DatasetsInv, NEW t \in Trainers, BuildWrites(t)
    PROVE  DatasetsInv'
  <1> DEFINE s == trainer[t]
             w == [step |-> "written", content |-> s.content, version |-> s.version,
                   sha |-> Sha(s.content)]
  <1>1. StateIsSound(s) /\ library \in {1, 2} /\ s.step = "numbered"
    BY DEF DatasetsInv, TrainersOK, TableOK, BuildWrites, Is
  <1>2. s \in Numbered
    BY <1>1 DEF StateIsSound, TrainerState, Idle, AtRest, Assembled, Numbered, Written, Built,
                Training
  <1>3. w \in Written /\ w.sha.content = w.content
    BY <1>1, <1>2, ShaIsOfItsContent DEF Numbered, Written
  <1>4. StateIsSound(w)
    BY <1>1, <1>3 DEF StateIsSound, TrainerState, FrameIsDefined, NumberIsFresh, HashIsTrue,
       ReaderIsServed
  <1> QED
    BY <1>4, TrainerStep DEF BuildWrites, specs

\* A longer table has the old rows, whatever the new one is.
LEMMA LongerTable ==
    ASSUME TableOK, NEW r \in DatasetRow, rows' = Append(rows, r)
    PROVE  /\ Len(rows)' = Len(rows) + 1 /\ Versions' = Versions \union {Len(rows) + 1}
           /\ \A v \in Versions : v <= Len(rows) /\ rows'[v] = rows[v]
           /\ rows'[Len(rows) + 1] = r /\ rows' \in Seq(DatasetRow)
  <1>1. rows \in Seq(DatasetRow) /\ Len(rows) \in Nat /\ Versions = 1 .. Len(rows)
    BY VersionsAreNumbered DEF TableOK
  <1>2. /\ Len(rows') = Len(rows) + 1 /\ rows' \in Seq(DatasetRow)
        /\ \A v \in 1 .. Len(rows) : rows'[v] = rows[v]
        /\ rows'[Len(rows) + 1] = r
    BY <1>1, AppendProperties
  <1>3. DOMAIN rows' = 1 .. Len(rows) + 1
    BY <1>1, <1>2, LenProperties
  <1> QED
    BY <1>1, <1>2, <1>3 DEF Versions

\* The insert.  The number is free, hence the next one, hence still asked for by
\* a look-up that holds; every other number is now taken.
LEMMA Inserting ==
    ASSUME DatasetsInv, NEW t \in Trainers, BuildInserts(t)
    PROVE  DatasetsInv'
  <1> DEFINE s == trainer[t]
             r == [content |-> s.content, sha |-> s.sha, file_pruned |-> FALSE]
             n == Len(rows) + 1
  <1>1. /\ StateIsSound(s) /\ s.step = "written" /\ TableOK
        /\ rows' = Append(rows, r) /\ s.version \notin Versions
        /\ trainer' = [trainer EXCEPT ![t] = [step |-> "built", version |-> n]]
        /\ UNCHANGED <<data, written, defined, library, models>>
    BY DEF DatasetsInv, TrainersOK, BuildInserts, VersionIsFree, Becomes, Is, specs
  <1>2. s \in Written
    BY <1>1 DEF StateIsSound, TrainerState, Idle, AtRest, Assembled, Numbered, Written, Built,
                Training
  <1>3. SameFrame(s.content) = {} /\ s.content.cfg = defined /\ s.sha.content = s.content
    BY <1>1 DEF StateIsSound, NumberIsFresh, FrameIsDefined, HashIsTrue
  <1>4. r \in DatasetRow
    BY <1>2 DEF Written, DatasetRow
  <1>5. /\ Len(rows)' = n /\ Versions' = Versions \union {n} /\ n \in Nat
        /\ \A v \in Versions : v \in Nat /\ v < n /\ rows'[v] = rows[v]
        /\ rows'[n] = r /\ rows' \in Seq(DatasetRow)
    <2>1. Len(rows) \in Nat /\ Versions = 1 .. Len(rows)
      BY <1>1, VersionsAreNumbered
    <2> QED
      BY <1>1, <1>4, <2>1, LongerTable
  <1>6. TableOK' /\ DefinitionsOK' /\ ModelsOK' /\ BuiltAsDefined'
    <2>1. r.sha.content = r.content /\ r.content.cfg = defined'
      BY <1>1, <1>3
    <2>2. ASSUME NEW v \in Versions'
          PROVE  rows'[v].sha.content = rows'[v].content /\ rows'[v].content.cfg = defined'
      <3>1. CASE v = n
        BY <1>5, <2>1, <3>1
      <3>2. CASE v # n
        <4>1. v \in Versions /\ rows'[v] = rows[v]
          BY <1>5, <3>2
        <4> QED
          BY <1>1, <4>1 DEF DatasetsInv, TableOK, BuiltAsDefined
      <3> QED
        BY <3>1, <3>2
    <2>3. \A m \in models' : m.version \in Versions' /\ m.saw = rows'[m.version].content
      BY <1>1, <1>5 DEF DatasetsInv, ModelsOK
    <2> QED
      BY <1>1, <1>5, <2>2, <2>3 DEF DatasetsInv, TableOK, DefinitionsOK, ModelsOK, BuiltAsDefined
  <1>7. OneVersionPerFrame'
    <2>1. \A v \in Versions : rows[v].content # s.content
      BY <1>3 DEF SameFrame
    <2> QED
      BY <1>5, <2>1 DEF DatasetsInv, OneVersionPerFrame
  <1>8. ASSUME NEW u \in Trainers PROVE StateIsSound(trainer[u])'
    <2>1. CASE u = t
      <3>1. trainer'[u] = [step |-> "built", version |-> n]
        BY <1>1, <2>1 DEF DatasetsInv, TrainersOK
      <3> QED
        BY <1>5, <3>1 DEF StateIsSound, TrainerState, Built, FrameIsDefined, NumberIsFresh,
           HashIsTrue, ReaderIsServed
    <2>2. CASE u # t
      <3> DEFINE x == trainer[u]
      <3>1. trainer'[u] = x /\ StateIsSound(x)
        BY <1>1, <2>2 DEF DatasetsInv, TrainersOK
      <3>2. x.step \in {"numbered", "written"} => x.version \in Versions'
        BY <1>5, <3>1 DEF StateIsSound, NumberIsFresh
      <3>3. ReaderIsServed(x)'
        BY <1>5, <3>1 DEF StateIsSound, ReaderIsServed
      <3> QED
        BY <1>1, <3>1, <3>2, <3>3 DEF StateIsSound, FrameIsDefined, NumberIsFresh, HashIsTrue,
           ReaderIsServed
    <2> QED
      BY <2>1, <2>2
  <1>9. trainer' \in [Trainers -> TrainerState]
    BY <1>1, <1>5 DEF DatasetsInv, TrainersOK, TrainerState, Built
  <1> QED
    BY <1>6, <1>7, <1>8, <1>9 DEF DatasetsInv, TrainersOK

\* Reading: the verified file is the one whose hash the row has.
LEMMA Reading ==
    ASSUME DatasetsInv, NEW t \in Trainers, Reads(t)
    PROVE  DatasetsInv'
  <1> DEFINE v == trainer[t].version
             s == [step |-> "training", version |-> v, saw |-> FileOf(v).content]
  <1>1. v \in Versions /\ v \in Nat /\ rows[v].content \in Content /\ rows[v].sha.content = rows[v].content
    <2>1. v \in Versions /\ TableOK
      BY DEF DatasetsInv, TrainersOK, StateIsSound, ReaderIsServed, Reads, Is
    <2> QED
      BY <2>1, VersionsAreNumbered DEF TableOK
  <1>2. s.saw = rows[v].content
    BY <1>1 DEF Reads, Verified
  <1>3. StateIsSound(s)
    BY <1>1, <1>2 DEF StateIsSound, TrainerState, Training, FrameIsDefined, NumberIsFresh,
       HashIsTrue, ReaderIsServed
  <1> QED
    BY <1>3, TrainerStep DEF Reads, specs

\* The row of a model.
LEMMA TrainingEnds ==
    ASSUME DatasetsInv, NEW t \in Trainers, Trains(t)
    PROVE  DatasetsInv'
  <1> DEFINE s == trainer[t]
             m == [version |-> s.version, saw |-> s.saw]
  <1>1. s.version \in Versions /\ s.saw = rows[s.version].content
    BY DEF DatasetsInv, TrainersOK, StateIsSound, ReaderIsServed, Trains, Is
  <1>2. /\ UNCHANGED <<data, written, defined, library, rows>>
        /\ models' = models \union {m} /\ trainer' = [trainer EXCEPT ![t] = AtRest]
    BY DEF Trains, Becomes, specs
  <1>3. TableOK' /\ DefinitionsOK' /\ OneVersionPerFrame' /\ BuiltAsDefined'
    BY <1>2 DEF DatasetsInv, TableOK, DefinitionsOK, OneVersionPerFrame, BuiltAsDefined, Versions
  <1>4. ModelsOK'
    BY <1>1, <1>2 DEF DatasetsInv, ModelsOK, Versions
  <1>5. TrainersOK'
    <2>1. trainer' \in [Trainers -> TrainerState]
      BY <1>2 DEF DatasetsInv, TrainersOK, TrainerState, Idle
    <2>2. ASSUME NEW u \in Trainers PROVE StateIsSound(trainer[u])'
      <3>1. StateIsSound(trainer'[u])
        BY <1>2, RestIsSound DEF DatasetsInv, TrainersOK
      <3> QED
        BY <1>2, <3>1 DEF StateIsSound, FrameIsDefined, NumberIsFresh, HashIsTrue,
           ReaderIsServed, Versions, SameFrame
    <2> QED
      BY <2>1, <2>2 DEF TrainersOK
  <1> QED
    BY <1>3, <1>4, <1>5 DEF DatasetsInv

\* A trainer that gives up, fails or is killed.
LEMMA Resigning ==
    ASSUME DatasetsInv, NEW t \in Trainers,
           BuildIsRefused(t) \/ ReadIsRefused(t) \/ GivesUp(t) \/ TrainerIsKilled(t)
    PROVE  DatasetsInv'
  <1>1. Becomes(t, AtRest) /\ UNCHANGED <<data, written, defined, library, rows, models>>
    BY DEF BuildIsRefused, ReadIsRefused, GivesUp, TrainerIsKilled, specs
  <1> QED
    BY <1>1, RestIsSound, TrainerStep

\* The prune marks rows and changes nothing else of them.
LEMMA Marking ==
    ASSUME DatasetsInv, PruneCommits
    PROVE  DatasetsInv'
  <1>1. /\ UNCHANGED <<data, written, defined, library, models, trainer>>
        /\ Versions' = Versions /\ Len(rows') = Len(rows)
        /\ rows' \in Seq(DatasetRow)
        /\ \A v \in Versions : rows'[v].content = rows[v].content /\ rows'[v].sha = rows[v].sha
    <2>1. /\ Len(rows) \in Nat /\ Versions = 1 .. Len(rows)
          /\ \A v \in Versions : rows[v] \in DatasetRow
      BY VersionsAreNumbered DEF DatasetsInv
    <2>2. rows' = [v \in Versions |-> [rows[v] EXCEPT !.file_pruned = @ \/ v \in pruner.removed]]
      BY DEF PruneCommits
    <2>3. \A v \in Versions : /\ rows'[v] \in DatasetRow
                              /\ rows'[v].content = rows[v].content /\ rows'[v].sha = rows[v].sha
      BY <2>1, <2>2 DEF DatasetRow
    <2>4. rows' \in [1 .. Len(rows) -> DatasetRow]
      BY <2>1, <2>2, <2>3
    <2>5. rows' \in Seq(DatasetRow) /\ Len(rows') = Len(rows) /\ DOMAIN rows' = Versions
      BY <2>1, <2>4, IsASeq, LenProperties
    <2> QED
      BY <2>3, <2>5 DEF PruneCommits, specs, Versions
  <1>2. TableOK' /\ DefinitionsOK' /\ ModelsOK' /\ OneVersionPerFrame' /\ BuiltAsDefined'
    BY <1>1 DEF DatasetsInv, TableOK, DefinitionsOK, ModelsOK, OneVersionPerFrame, BuiltAsDefined
  <1>3. ASSUME NEW u \in Trainers PROVE StateIsSound(trainer[u])'
    <2>1. StateIsSound(trainer[u]) /\ trainer'[u] = trainer[u]
      BY <1>1 DEF DatasetsInv, TrainersOK
    <2>2. SameFrame(trainer[u].content)' = SameFrame(trainer[u].content)
      BY <1>1, <2>1 DEF SameFrame
    <2> QED
      BY <1>1, <2>1, <2>2 DEF StateIsSound, FrameIsDefined, NumberIsFresh, HashIsTrue,
         ReaderIsServed
  <1> QED
    BY <1>1, <1>2, <1>3 DEF DatasetsInv, TrainersOK

\* The world, the deletions of the prune and its end: nothing the invariant
\* speaks of.
LEMMA Elsewhere ==
    ASSUME DatasetsInv,
           \/ BarsChange \/ LibraryChanges \/ SpecIsEdited \/ (\E v \in DOMAIN files : FileIsDamaged(v))
           \/ PruneReads \/ PruneDeletes \/ PruneIsKilled \/ UNCHANGED datasetVars
    PROVE  DatasetsInv'
  <1>1. UNCHANGED <<rows, defined, models, trainer>>
    BY DEF BarsChange, LibraryChanges, SpecIsEdited, FileIsDamaged, PruneReads, PruneDeletes,
           PruneIsKilled, datasetVars, specs
  <1>2. written' \in Configs /\ library' \in {1, 2} /\ data' \in Data
    BY DEF BarsChange, LibraryChanges, SpecIsEdited, FileIsDamaged, PruneReads, PruneDeletes,
           PruneIsKilled, datasetVars, specs, DatasetsInv, TableOK, DefinitionsOK
  <1> QED
    BY <1>1, <1>2, TrainersStep DEF DatasetsInv, TrainersOK

-----------------------------------------------------------------------------
(* The theorem.                                                            *)

LEMMA InvIsInductive == DatasetsInv /\ [DatasetsNext]_datasetVars => DatasetsInv'
  BY Assembling, LookingUp, Writing, Inserting, Reading, TrainingEnds, Resigning, Marking, Elsewhere
     DEF DatasetsNext

\* Whatever builds overlap, processes die, files are lost, definitions are
\* edited or libraries change: a version stands for one frame computed as the
\* stored definition says, and a model for the frame its version names.
THEOREM VersionsAreTrueAlways == DatasetsSpec => []VersionsAreTrue
  <1>1. DatasetsInit => DatasetsInv
    <2> SUFFICES ASSUME DatasetsInit PROVE DatasetsInv
      OBVIOUS
    <2>1. rows \in Seq(DatasetRow) /\ Versions = {}
      BY DEF DatasetsInit, Versions
    <2>2. trainer \in [Trainers -> TrainerState] /\ \A t \in Trainers : trainer[t] = AtRest
      BY DEF DatasetsInit, TrainerState, Idle
    <2> QED
      BY <2>1, <2>2, RestIsSound DEF DatasetsInit, DatasetsInv, TrainersOK, TableOK, DefinitionsOK,
         ModelsOK, OneVersionPerFrame, BuiltAsDefined
  <1>2. DatasetsInv => VersionsAreTrue
    BY DEF DatasetsInv, VersionsAreTrue, TrainedOnWhatIsRecorded, ModelsOK
  <1> QED
    BY <1>1, <1>2, InvIsInductive, PTL DEF DatasetsSpec

HIDE DatasetsConstants
USE BackupConstants

-----------------------------------------------------------------------------
(* What the newest of a set are.                                           *)

Above(D, d) == {e \in D : e > d}
Top(D, k) == {d \in D : Cardinality(Above(D, d)) < k}

LEMMA Counts ==
    ASSUME NEW n \in Nat, NEW S, S \subseteq 0..n
    PROVE  /\ IsFiniteSet(S) /\ Cardinality(S) \in Nat
           /\ \A T : T \subseteq S => /\ IsFiniteSet(T) /\ Cardinality(T) \in Nat
                                      /\ Cardinality(T) <= Cardinality(S)
  <1>1. IsFiniteSet(S)
    BY FS_BoundedSetOfNaturals
  <1> QED
    BY <1>1, FS_Subset, FS_CardinalityType

\* A subset that has the k newest of a set has the same k newest.
LEMMA NewestAmong ==
    ASSUME NEW n \in Nat, NEW D, D \subseteq 0..n, NEW F, F \subseteq D, NEW k \in Nat, Top(D, k) \subseteq F
    PROVE  Top(F, k) = Top(D, k)
  <1>1. ASSUME NEW d \in D
        PROVE  /\ Above(F, d) \subseteq Above(D, d)
               /\ Cardinality(Above(F, d)) \in Nat /\ Cardinality(Above(D, d)) \in Nat
               /\ Cardinality(Above(F, d)) <= Cardinality(Above(D, d))
    <2>1. Above(F, d) \subseteq Above(D, d) /\ Above(D, d) \subseteq 0..n
      BY DEF Above
    <2> QED
      BY <2>1, Counts
  <1>2. Top(D, k) \subseteq Top(F, k)
    <2> SUFFICES ASSUME NEW d \in Top(D, k) PROVE d \in F /\ Cardinality(Above(F, d)) < k
      BY DEF Top
    <2>1. d \in D /\ Cardinality(Above(D, d)) < k
      BY DEF Top
    <2> QED
      BY <1>1, <2>1
  <1>3. ASSUME NEW d \in Top(F, k), d \notin Top(D, k) PROVE FALSE
    <2>1. d \in D \ Top(D, k) /\ D \ Top(D, k) \subseteq 0..n
      BY <1>3 DEF Top
    <2>2. PICK m \in D \ Top(D, k) : \A x \in D \ Top(D, k) : x <= m
      BY <2>1, GreatestOfNaturals
    <2>3. Above(D, m) \subseteq Above(F, d)
      <3> SUFFICES ASSUME NEW x \in D, x > m PROVE x \in F /\ x > d
        BY DEF Above
      <3>1. x \in Top(D, k)
        BY <2>2
      <3> QED
        BY <2>1, <2>2, <3>1
    <2>4. Above(F, d) \subseteq 0..n
      BY DEF Above
    <2>5. Cardinality(Above(D, m)) <= Cardinality(Above(F, d))
      BY <2>3, <2>4, Counts
    <2>6. Cardinality(Above(F, d)) < k /\ ~(Cardinality(Above(D, m)) < k)
      BY <1>3, <2>2 DEF Top
    <2> QED
      BY <1>1, <2>1, <2>2, <2>5, <2>6
  <1> QED
    BY <1>2, <1>3

\* A newcomer beyond all others takes the place of one of the newest, if any.
LEMMA TopGrows ==
    ASSUME NEW n \in Nat, NEW D, D \subseteq 0..n, NEW t \in 0..n, \A d \in D : d <= t, NEW k \in Nat \ {0}
    PROVE  /\ Top(D \union {t}, k) \subseteq Top(D, k) \union {t}
           /\ t \in Top(D \union {t}, k)
  <1>1. ASSUME NEW d \in D
        PROVE  /\ Cardinality(Above(D, d)) \in Nat /\ Cardinality(Above(D \union {t}, d)) \in Nat
               /\ Cardinality(Above(D, d)) <= Cardinality(Above(D \union {t}, d))
    <2>1. Above(D, d) \subseteq Above(D \union {t}, d) /\ Above(D \union {t}, d) \subseteq 0..n
      BY DEF Above
    <2> QED
      BY <2>1, Counts
  <1>2. Above(D \union {t}, t) = {}
    <2>1. \A e \in D \union {t} : ~(e > t)
      OBVIOUS
    <2> QED
      BY <2>1 DEF Above
  <1>3. Cardinality(Above(D \union {t}, t)) = 0
    BY <1>2, FS_EmptySet
  <1>4. t \in Top(D \union {t}, k)
    BY <1>3 DEF Top
  <1>5. ASSUME NEW d \in Top(D \union {t}, k), d # t PROVE d \in Top(D, k)
    <2>1. d \in D /\ Cardinality(Above(D \union {t}, d)) < k
      BY <1>5 DEF Top
    <2>2. Cardinality(Above(D, d)) < k
      BY <1>1, <2>1
    <2> QED
      BY <2>1, <2>2 DEF Top
  <1> QED
    BY <1>4, <1>5

-----------------------------------------------------------------------------
(* The days that must be kept of all the days that had a dump.             *)

Recent(D) == Top(D, daily_keep)
Old(D) == D \ Recent(D)
WeeksOf(D) == {WeekOf(d) : d \in D}
FirstInWeek(D, d) == \A e \in D : WeekOf(e) = WeekOf(d) => d <= e
Starts(D) == {d \in Old(D) : FirstInWeek(Old(D), d) /\ WeekOf(d) \in Top(WeeksOf(Old(D)), weekly_keep)}
Essential(D) == Recent(D) \union Starts(D)

LEMMA WeekType ==
    ASSUME NEW d \in Nat \ {0}
    PROVE  WeekOf(d) \in Nat /\ WeekOf(d) <= d
  <1>1. DaysPerWeek \in Nat \ {0} /\ d - 1 \in Nat
    OBVIOUS
  <1>2. (d - 1) \div DaysPerWeek \in Nat /\ (d - 1) \div DaysPerWeek <= d - 1
    BY <1>1
  <1> QED
    BY <1>2 DEF WeekOf

LEMMA WeeksAre ==
    ASSUME NEW n \in Nat, NEW D, D \subseteq 1..n
    PROVE  /\ WeeksOf(D) \subseteq 0..n /\ D \subseteq 0..n
           /\ \A w \in WeeksOf(D) : \E d \in D : WeekOf(d) = w /\ FirstInWeek(D, d)
  <1>1. ASSUME NEW d \in D PROVE WeekOf(d) \in 0..n
    BY WeekType
  <1>2. ASSUME NEW w \in WeeksOf(D) PROVE \E d \in D : WeekOf(d) = w /\ FirstInWeek(D, d)
    <2>1. PICK S : S = {d \in D : WeekOf(d) = w}
      OBVIOUS
    <2>2. S # {} /\ S \subseteq Nat
      BY <2>1 DEF WeeksOf
    <2>3. PICK d \in S : \A e \in S : d <= e
      BY <2>2, LeastOfNaturals
    <2> QED
      BY <2>1, <2>3 DEF FirstInWeek
  <1> QED
    BY <1>1, <1>2 DEF WeeksOf

\* A new day asks for none that was not kept before.
LEMMA EssentialGrows ==
    ASSUME NEW n \in Nat, NEW D, D \subseteq 1..n, NEW t \in 1..n, \A d \in D : d <= t
    PROVE  Essential(D \union {t}) \subseteq Essential(D) \union {t}
  <1>1. PICK E : E = D \union {t}
    OBVIOUS
  <1>2. E \subseteq 1..n /\ Old(D) \subseteq 1..n /\ Old(E) \subseteq 1..n
    BY <1>1 DEF Old
  <1>3. Recent(E) \subseteq Recent(D) \union {t} /\ t \in Recent(E)
    BY <1>1, <1>2, TopGrows, WeeksAre DEF Recent
  <1>4. Old(D) \ {t} \subseteq Old(E) /\ Old(E) \subseteq D
    BY <1>1, <1>3 DEF Old
  <1>5. ASSUME NEW d \in Starts(E), d \notin Recent(D) PROVE d \in Starts(D)
    <2>1. d \in Old(E) /\ FirstInWeek(Old(E), d) /\ WeekOf(d) \in Top(WeeksOf(Old(E)), weekly_keep)
      BY <1>5 DEF Starts
    <2>2. d \in Old(D) /\ d # t
      BY <1>3, <1>4, <1>5, <2>1 DEF Old
    <2>3. t \notin Old(D) \/ t \in D
      BY DEF Old
    <2>4. Old(D) \subseteq Old(E) \union {t}
      BY <1>4
    <2>5. FirstInWeek(Old(D), d)
      <3> SUFFICES ASSUME NEW e \in Old(D), WeekOf(e) = WeekOf(d) PROVE d <= e
        BY DEF FirstInWeek
      <3>1. CASE e = t
        BY <1>4, <2>1, <3>1
      <3>2. CASE e # t
        BY <1>4, <2>1, <3>2 DEF FirstInWeek
      <3> QED
        BY <3>1, <3>2
    <2>6. t \in D => t \notin Old(D)
      <3>1. ASSUME t \in D PROVE Top(D, daily_keep) = Top(E, daily_keep)
        BY <1>1, <3>1
      <3> QED
        BY <1>3, <3>1 DEF Old, Recent
    <2>7. Old(D) \subseteq Old(E)
      BY <2>3, <2>4, <2>6
    <2>8. PICK v : v = WeekOf(d)
      OBVIOUS
    <2>9. Above(WeeksOf(Old(D)), v) \subseteq Above(WeeksOf(Old(E)), v)
      BY <2>7 DEF WeeksOf, Above
    <2>10. Above(WeeksOf(Old(E)), v) \subseteq 0..n
      BY <1>2, WeeksAre DEF Above
    <2>11. /\ Cardinality(Above(WeeksOf(Old(D)), v)) <= Cardinality(Above(WeeksOf(Old(E)), v))
           /\ Cardinality(Above(WeeksOf(Old(D)), v)) \in Nat /\ Cardinality(Above(WeeksOf(Old(E)), v)) \in Nat
      BY <2>9, <2>10, Counts
    <2>12. Cardinality(Above(WeeksOf(Old(E)), v)) < weekly_keep
      BY <2>1, <2>8 DEF Top
    <2>13. v \in WeeksOf(Old(D))
      BY <2>2, <2>8 DEF WeeksOf
    <2>14. v \in Top(WeeksOf(Old(D)), weekly_keep)
      BY <2>11, <2>12, <2>13 DEF Top
    <2> QED
      BY <2>2, <2>5, <2>8, <2>14 DEF Starts
  <1> QED
    BY <1>1, <1>3, <1>5 DEF Essential

-----------------------------------------------------------------------------
(* What a prune keeps of some of the dumps.                                *)

\* Dumps have the days and numbers they were taken at: no number twice, and a
\* later number no earlier day.
Dated(fs, n) ==
    /\ \A f \in fs : f[1] \in 1..n /\ f[2] \in 1..n
    /\ \A f, g \in fs : f[2] = g[2] => f = g
    /\ \A f, g \in fs : f[2] < g[2] => f[1] <= g[1]

LEMMA Ends ==
    ASSUME NEW n \in Nat, NEW fs, Dated(fs, n), fs # {}
    PROVE  /\ \E f \in fs : \A g \in fs : ~Earlier(g, f)
           /\ \E f \in fs : \A g \in fs : ~Earlier(f, g)
  <1>1. PICK N : N = {f[2] : f \in fs}
    OBVIOUS
  <1>2. N \subseteq 0..n /\ N \subseteq Nat
    BY <1>1 DEF Dated
  <1>3. N # {}
    <2>1. PICK f : f \in fs
      OBVIOUS
    <2>2. f[2] \in N
      BY <1>1, <2>1
    <2> QED
      BY <2>2
  <1>4. PICK a \in N : \A m \in N : a <= m
    BY <1>2, <1>3, LeastOfNaturals
  <1>5. PICK b \in N : \A m \in N : m <= b
    BY <1>2, <1>3, GreatestOfNaturals
  <1>6. PICK f \in fs : f[2] = a
    BY <1>1
  <1>7. PICK g \in fs : g[2] = b
    BY <1>1
  <1>8. \A h \in fs : a <= h[2] /\ h[2] <= b /\ h[2] \in Nat
    BY <1>1, <1>2, <1>4, <1>5
  <1>9. a \in Nat /\ b \in Nat
    BY <1>2
  <1> QED
    BY <1>6, <1>7, <1>8, <1>9 DEF Earlier

LEMMA DatedPart ==
    ASSUME NEW n, NEW fs, Dated(fs, n), NEW some, some \subseteq fs
    PROVE  Dated(some, n)
  BY DEF Dated

LEMMA DaysAre ==
    ASSUME NEW n \in Nat, NEW fs, Dated(fs, n)
    PROVE  Days(fs) \subseteq 1..n /\ \A f \in fs : f[1] \in Days(fs)
  BY DEF Dated, Days

\* Every day that has a dump has a latest one.
LEMMA DaysHaveALast ==
    ASSUME NEW n \in Nat, NEW fs, Dated(fs, n), NEW d \in Days(fs)
    PROVE  \E f \in LatestOfDay(fs) : f[1] = d
  <1>1. PICK S : S = {f \in fs : f[1] = d}
    OBVIOUS
  <1>2. S # {}
    BY <1>1 DEF Days
  <1>3. Dated(S, n)
    BY <1>1, DatedPart
  <1>4. PICK f \in S : \A g \in S : ~Earlier(f, g)
    BY <1>2, <1>3, Ends
  <1> QED
    BY <1>1, <1>4 DEF LatestOfDay

\* The daily rule keeps the last dumps of the newest days.
LEMMA DailyAre ==
    ASSUME NEW n \in Nat, NEW fs, Dated(fs, n)
    PROVE  KeptDaily(fs) = {f \in LatestOfDay(fs) : f[1] \in Recent(Days(fs))}
  <1>1. PICK L : L = LatestOfDay(fs)
    OBVIOUS
  <1>2. L \subseteq fs
    BY <1>1 DEF LatestOfDay
  <1>3. PICK r : r = [f \in fs |-> f[1]]
    OBVIOUS
  <1>4. ASSUME NEW f \in L PROVE {r[g] : g \in {h \in L : r[h] > r[f]}} = Above(Days(fs), f[1])
    <2>1. \A g \in L : r[g] = g[1]
      BY <1>2, <1>3
    <2>2. ASSUME NEW d \in Above(Days(fs), f[1]) PROVE \E g \in L : r[g] = d /\ r[g] > r[f]
      <3>1. d \in Days(fs) /\ d > f[1]
        BY DEF Above
      <3>2. PICK g \in L : g[1] = d
        BY <1>1, <3>1, DaysHaveALast
      <3> QED
        BY <2>1, <3>1, <3>2
    <2>3. ASSUME NEW g \in L, r[g] > r[f] PROVE r[g] \in Above(Days(fs), f[1])
      BY <1>2, <2>1, <2>3, DaysAre DEF Above
    <2> QED
      BY <2>2, <2>3
  <1>5. ASSUME NEW f \in L PROVE f[1] \in Days(fs)
    BY <1>2, DaysAre
  <1>6. KeptDaily(fs) = {f \in L : Cardinality({r[g] : g \in {h \in L : r[h] > r[f]}}) < daily_keep}
    BY <1>1, <1>3 DEF KeptDaily, Newest
  <1> QED
    BY <1>1, <1>4, <1>5, <1>6 DEF Recent, Top

\* The oldest dump of its week among fs.
OfWeek(fs) == {f \in fs : \A g \in fs : Week(g) = Week(f) => ~ Earlier(g, f)}

LEMMA OfWeekAre ==
    ASSUME NEW n \in Nat, NEW fs, Dated(fs, n), NEW f \in OfWeek(fs)
    PROVE  f \in fs /\ Week(f) = WeekOf(f[1]) /\ FirstInWeek(Days(fs), f[1])
  <1>1. f \in fs
    BY DEF OfWeek
  <1>2. ASSUME NEW e \in Days(fs), WeekOf(e) = WeekOf(f[1]) PROVE f[1] <= e
    <2>1. PICK g \in fs : g[1] = e
      BY DEF Days
    <2>2. ~Earlier(g, f)
      BY <1>2, <2>1 DEF OfWeek, Week, WeekOf
    <2>3. f[2] \in Nat /\ g[2] \in Nat /\ f[1] \in Nat /\ g[1] \in Nat
      BY <1>1 DEF Dated
    <2>4. f[2] = g[2] \/ f[2] < g[2]
      BY <2>2, <2>3 DEF Earlier
    <2> QED
      BY <1>1, <2>1, <2>3, <2>4 DEF Dated
  <1> QED
    BY <1>1, <1>2 DEF FirstInWeek, Week, WeekOf

LEMMA WeeksHaveAFirst ==
    ASSUME NEW n \in Nat, NEW fs, Dated(fs, n), NEW w \in WeeksOf(Days(fs))
    PROVE  \E f \in OfWeek(fs) : Week(f) = w
  <1>1. PICK S : S = {f \in fs : Week(f) = w}
    OBVIOUS
  <1>2. PICK f \in fs : WeekOf(f[1]) = w
    BY DEF WeeksOf, Days
  <1>3. S # {} /\ Dated(S, n)
    BY <1>1, <1>2, DatedPart DEF Week, WeekOf
  <1>4. PICK g \in S : \A h \in S : ~Earlier(h, g)
    BY <1>3, Ends
  <1> QED
    BY <1>1, <1>4 DEF OfWeek

\* The weekly rule keeps the oldest dumps of the newest weeks of the rest.
LEMMA WeeklyAre ==
    ASSUME NEW n \in Nat, NEW fs, Dated(fs, n)
    PROVE  \E rest : /\ rest = {f \in fs : f[1] \notin Days(KeptDaily(fs))}
                     /\ KeptWeekly(fs) = {f \in OfWeek(rest) : Week(f) \in Top(WeeksOf(Days(rest)), weekly_keep)}
  <1>1. PICK rest : rest = {f \in fs : f[1] \notin Days(KeptDaily(fs))}
    OBVIOUS
  <1>2. rest \subseteq fs /\ Dated(rest, n)
    BY <1>1, DatedPart
  <1>3. PICK O : O = OfWeek(rest)
    OBVIOUS
  <1>4. PICK r : r = [f \in fs |-> Week(f)]
    OBVIOUS
  <1>5. O \subseteq rest /\ \A f \in O : r[f] = Week(f) /\ Week(f) \in WeeksOf(Days(rest))
    <2>1. ASSUME NEW f \in O PROVE f \in rest /\ r[f] = Week(f) /\ Week(f) \in WeeksOf(Days(rest))
      <3>1. f \in rest /\ Week(f) = WeekOf(f[1])
        BY <1>2, <1>3, OfWeekAre
      <3>2. f[1] \in Days(rest)
        BY <3>1 DEF Days
      <3> QED
        BY <1>2, <1>4, <3>1, <3>2 DEF WeeksOf
    <2> QED
      BY <2>1
  <1>6. ASSUME NEW f \in O PROVE {r[g] : g \in {h \in O : r[h] > r[f]}} = Above(WeeksOf(Days(rest)), Week(f))
    <2>1. ASSUME NEW w \in Above(WeeksOf(Days(rest)), Week(f)) PROVE \E g \in O : r[g] = w /\ r[g] > r[f]
      <3>1. w \in WeeksOf(Days(rest)) /\ w > Week(f)
        BY DEF Above
      <3>2. PICK g \in O : Week(g) = w
        BY <1>2, <1>3, <3>1, WeeksHaveAFirst
      <3> QED
        BY <1>5, <3>1, <3>2
    <2>2. ASSUME NEW g \in O, r[g] > r[f] PROVE r[g] \in Above(WeeksOf(Days(rest)), Week(f))
      BY <1>5, <2>2 DEF Above
    <2> QED
      BY <2>1, <2>2
  <1>7. KeptWeekly(fs) = {f \in O : Cardinality({r[g] : g \in {h \in O : r[h] > r[f]}}) < weekly_keep}
    BY <1>1, <1>3, <1>4 DEF KeptWeekly, Newest, OfWeek, Days
  <1>8. ASSUME NEW f \in O
        PROVE  Cardinality({r[g] : g \in {h \in O : r[h] > r[f]}}) < weekly_keep
                   <=> Week(f) \in Top(WeeksOf(Days(rest)), weekly_keep)
    <2>1. PICK A : A = {r[g] : g \in {h \in O : r[h] > r[f]}}
      OBVIOUS
    <2>2. A = Above(WeeksOf(Days(rest)), Week(f))
      BY <1>6, <2>1, Zenon
    <2> QED
      BY <1>5, <2>1, <2>2 DEF Top
  <1>9. KeptWeekly(fs) = {f \in O : Week(f) \in Top(WeeksOf(Days(rest)), weekly_keep)}
    BY <1>7, <1>8, Zenon
  <1> QED
    BY <1>1, <1>3, <1>9

\* As long as every essential day has a dump, a prune keeps the essential days
\* and no others, whatever else was deleted before.
LEMMA PruneKeeps ==
    ASSUME NEW n \in Nat, NEW all, Dated(all, n), NEW fs, fs \subseteq all, Essential(Days(all)) \subseteq Days(fs)
    PROVE  Days(Keep(fs)) = Essential(Days(all))
  <1>1. PICK D : D = Days(all)
    OBVIOUS
  <1>2. PICK F : F = Days(fs)
    OBVIOUS
  <1>3. Dated(fs, n) /\ F \subseteq D /\ D \subseteq 1..n /\ D \subseteq 0..n
    BY <1>1, <1>2, DatedPart, DaysAre, WeeksAre DEF Days
  <1>4. Recent(F) = Recent(D)
    BY <1>1, <1>2, <1>3, NewestAmong DEF Essential, Recent
  <1>5. KeptDaily(fs) \subseteq fs /\ Days(KeptDaily(fs)) = Recent(D)
    <2>1. KeptDaily(fs) = {f \in LatestOfDay(fs) : f[1] \in Recent(D)}
      BY <1>2, <1>3, <1>4, DailyAre
    <2>2. ASSUME NEW d \in Recent(D) PROVE d \in Days(KeptDaily(fs))
      <3>1. d \in Days(fs)
        BY <1>2, <1>4 DEF Recent, Top
      <3>2. PICK f \in LatestOfDay(fs) : f[1] = d
        BY <1>3, <3>1, DaysHaveALast
      <3> QED
        BY <2>1, <3>2 DEF Days
    <2> QED
      BY <2>1, <2>2 DEF Days, LatestOfDay
  <1>6. PICK rest : /\ rest = {f \in fs : f[1] \notin Recent(D)}
                    /\ KeptWeekly(fs) = {f \in OfWeek(rest) : Week(f) \in Top(WeeksOf(Days(rest)), weekly_keep)}
    BY <1>3, <1>5, WeeklyAre
  <1>7. Dated(rest, n) /\ Days(rest) \subseteq Old(D) /\ Old(D) \subseteq 1..n
    BY <1>1, <1>3, <1>6, DatedPart DEF Days, Old
  <1>8. Starts(D) \subseteq Days(rest)
    <2> SUFFICES ASSUME NEW d \in Starts(D) PROVE d \in Days(rest)
      OBVIOUS
    <2>1. d \in Days(fs) /\ d \notin Recent(D)
      BY <1>1 DEF Essential, Starts, Old
    <2>2. PICK f \in fs : f[1] = d
      BY <2>1 DEF Days
    <2> QED
      BY <1>6, <2>1, <2>2 DEF Days
  <1>9. PICK W : W = WeeksOf(Old(D))
    OBVIOUS
  <1>10. Top(WeeksOf(Days(rest)), weekly_keep) = Top(W, weekly_keep)
    <2>1. WeeksOf(Days(rest)) \subseteq W /\ W \subseteq 0..n
      BY <1>7, <1>9, WeeksAre DEF WeeksOf
    <2>2. ASSUME NEW w \in Top(W, weekly_keep) PROVE w \in WeeksOf(Days(rest))
      <3>1. w \in WeeksOf(Old(D))
        BY <1>9 DEF Top
      <3>2. PICK d \in Old(D) : WeekOf(d) = w /\ FirstInWeek(Old(D), d)
        BY <1>7, <3>1, WeeksAre
      <3>3. d \in Starts(D)
        BY <1>9, <3>2 DEF Starts
      <3> QED
        BY <1>8, <3>2, <3>3 DEF WeeksOf
    <2> QED
      BY <2>1, <2>2, NewestAmong
  <1>11. ASSUME NEW d \in Starts(D) PROVE d \in Days(KeptWeekly(fs))
    <2>1. d \in Days(rest) /\ d \in Old(D) /\ FirstInWeek(Old(D), d) /\ WeekOf(d) \in Top(W, weekly_keep)
      BY <1>8, <1>9 DEF Starts
    <2>2. WeekOf(d) \in WeeksOf(Days(rest))
      BY <2>1 DEF WeeksOf
    <2>3. PICK f \in OfWeek(rest) : Week(f) = WeekOf(d)
      BY <1>7, <2>2, WeeksHaveAFirst
    <2>4. f \in rest /\ WeekOf(f[1]) = WeekOf(d) /\ FirstInWeek(Days(rest), f[1])
      BY <1>7, <2>3, OfWeekAre
    <2>5. f[1] \in Days(rest)
      BY <2>4 DEF Days
    <2>6. f[1] <= d /\ d <= f[1]
      BY <1>7, <2>1, <2>4, <2>5 DEF FirstInWeek
    <2>7. f[1] = d
      BY <1>7, <2>1, <2>5, <2>6
    <2>8. f \in KeptWeekly(fs)
      BY <1>6, <1>10, <2>1, <2>3
    <2> QED
      BY <2>7, <2>8 DEF Days
  <1>12. ASSUME NEW f \in KeptWeekly(fs) PROVE f[1] \in Starts(D)
    <2>1. f \in OfWeek(rest) /\ Week(f) \in Top(W, weekly_keep)
      BY <1>6, <1>10
    <2>2. f \in rest /\ Week(f) = WeekOf(f[1]) /\ FirstInWeek(Days(rest), f[1])
      BY <1>7, <2>1, OfWeekAre
    <2>3. f[1] \in Old(D) /\ f[1] \in Days(rest)
      BY <1>7, <2>2 DEF Days
    <2>4. WeekOf(f[1]) \in WeeksOf(Old(D))
      BY <2>3 DEF WeeksOf
    <2>5. PICK d \in Old(D) : WeekOf(d) = WeekOf(f[1]) /\ FirstInWeek(Old(D), d)
      BY <1>7, <2>4, WeeksAre
    <2>6. d \in Starts(D)
      BY <1>9, <2>1, <2>2, <2>5 DEF Starts
    <2>7. f[1] <= d /\ d <= f[1]
      BY <1>8, <2>2, <2>3, <2>5, <2>6 DEF FirstInWeek
    <2>8. f[1] = d
      BY <1>7, <2>3, <2>5, <2>7
    <2> QED
      BY <2>6, <2>8
  <1>13. Days(Keep(fs)) = Days(KeptDaily(fs)) \union Days(KeptWeekly(fs))
    BY DEF Keep, Days
  <1>14. Days(KeptWeekly(fs)) = Starts(D)
    BY <1>11, <1>12 DEF Days
  <1> QED
    BY <1>1, <1>5, <1>13, <1>14 DEF Essential

\* ... and of a recent day the last dump of all that were taken.
LEMMA PruneKeepsTheLast ==
    ASSUME NEW n \in Nat, NEW all, Dated(all, n), NEW fs, fs \subseteq all,
           NEW f \in fs, f[1] \in Recent(Days(all)), \A g \in all : g[1] = f[1] => ~Earlier(f, g)
    PROVE  f \in Keep(fs)
  <1>1. Dated(fs, n) /\ Days(fs) \subseteq Days(all) /\ Days(all) \subseteq 0..n /\ f[1] \in Days(fs)
    BY DatedPart, DaysAre, WeeksAre DEF Days
  <1>2. f \in LatestOfDay(fs)
    BY DEF LatestOfDay
  <1>3. Above(Days(fs), f[1]) \subseteq Above(Days(all), f[1]) /\ Above(Days(all), f[1]) \subseteq 0..n
    BY <1>1 DEF Above
  <1>4. /\ Cardinality(Above(Days(fs), f[1])) \in Nat /\ Cardinality(Above(Days(all), f[1])) \in Nat
        /\ Cardinality(Above(Days(fs), f[1])) <= Cardinality(Above(Days(all), f[1]))
    BY <1>3, Counts
  <1>5. f[1] \in Recent(Days(fs))
    BY <1>1, <1>4 DEF Recent, Top
  <1> QED
    BY <1>1, <1>2, <1>5, DailyAre DEF Keep

-----------------------------------------------------------------------------
(* The invariant.                                                          *)

OnDay(d) == {f \in taken : f[1] = d}
UpToDay(d) == {f \in taken : f[1] <= d}
LastOfItsDay(f) == \A g \in taken : g[1] = f[1] => ~Earlier(f, g)
Remaining == dumps \ worker.doomed

\* Dumps are numbered as they are taken.
TakenOK ==
    /\ IsFiniteSet(taken)
    /\ \A f \in taken : f[1] \in 1..date /\ f[2] \in 1..Cardinality(taken)
    /\ \A f, g \in taken : f[2] = g[2] => f = g
    /\ \A f, g \in taken : f[2] < g[2] => f[1] <= g[1]
    /\ \A d \in Nat : Cardinality(OnDay(d)) <= PerDay

\* The dump being taken is the next one; a dump has a checksum before it is
\* pruned, and loses it after.
WorkerOK ==
    /\ dumps \subseteq taken
    /\ worker.step = "dumping" => /\ worker.file = <<date, Cardinality(taken) + 1>>
                                  /\ Cardinality(OnDay(date)) < PerDay
    /\ worker.step = "named" => worker.file \in taken
    /\ worker.step = "half" => worker.file \notin dumps
    /\ worker.doomed # {} => worker.step \in {"deleting", "half"}
    /\ pruned => worker = Nobody
    /\ \A f \in dumps : verify(f) \/ f \in torn \/ (worker.step = "named" /\ f = worker.file)

\* Whatever a prune has still to delete, the essential days stay, and of a recent
\* day the last dump; once it has begun no other day will be left.
RetentionOK ==
    /\ Essential(Days(taken)) \subseteq Days(Remaining)
    /\ worker.step \in {"deleting", "half"} \/ pruned => Days(Remaining) = Essential(Days(taken))
    /\ \A f \in taken : f[1] \in Recent(Days(taken)) /\ LastOfItsDay(f) => f \in Remaining

BackupInv == BackupTypeOK /\ TakenOK /\ WorkerOK /\ RetentionOK

LEMMA TakenAre ==
    ASSUME BackupTypeOK, TakenOK
    PROVE  \E n \in Nat : /\ Dated(taken, n) /\ date \in 1..n /\ Days(taken) \subseteq 1..n
                          /\ \A d \in Days(taken) : d <= date
  <1>1. Cardinality(taken) \in Nat /\ date \in Nat \ {0}
    BY FS_CardinalityType DEF TakenOK, BackupTypeOK
  <1>2. PICK n : n = date + Cardinality(taken)
    OBVIOUS
  <1>3. n \in Nat /\ Dated(taken, n)
    BY <1>1, <1>2 DEF TakenOK, Dated
  <1>4. \A d \in Days(taken) : d <= date
    BY <1>1 DEF TakenOK, Days
  <1> QED
    BY <1>1, <1>2, <1>3, <1>4, DaysAre

\* At most PerDay dumps a day are no more than there are numbers for.
LEMMA NumbersSuffice ==
    ASSUME BackupTypeOK, TakenOK, Cardinality(OnDay(date)) < PerDay
    PROVE  Cardinality(taken) \in Nat /\ Cardinality(taken) + 1 <= LastDay * PerDay
  <1>1. date \in 1..LastDay /\ LastDay \in Nat /\ PerDay \in Nat
    BY DEF BackupTypeOK
  <1>2. ASSUME NEW d \in Nat
        PROVE  IsFiniteSet(UpToDay(d)) /\ IsFiniteSet(OnDay(d))
               /\ Cardinality(UpToDay(d)) \in Nat /\ Cardinality(OnDay(d)) \in Nat
    BY FS_Subset, FS_CardinalityType DEF UpToDay, OnDay, TakenOK
  <1>3. ASSUME NEW d \in Nat
        PROVE  Cardinality(UpToDay(d + 1)) = Cardinality(UpToDay(d)) + Cardinality(OnDay(d + 1))
    <2>1. UpToDay(d + 1) = UpToDay(d) \union OnDay(d + 1) /\ UpToDay(d) \intersect OnDay(d + 1) = {}
      BY <1>1 DEF UpToDay, OnDay, TakenOK
    <2>2. PICK A, B : A = UpToDay(d) /\ B = OnDay(d + 1)
      OBVIOUS
    <2>3. IsFiniteSet(A) /\ IsFiniteSet(B) /\ Cardinality(A) \in Nat /\ Cardinality(B) \in Nat
      BY <1>2, <2>2
    <2>4. Cardinality(A \union B) = Cardinality(A) + Cardinality(B) - Cardinality(A \intersect B)
      BY <2>3, FS_Union
    <2>5. Cardinality(A \intersect B) = 0
      BY <2>1, <2>2, FS_EmptySet
    <2>6. UpToDay(d + 1) = A \union B
      BY <2>1, <2>2
    <2>7. Cardinality(UpToDay(d + 1)) = Cardinality(A \union B)
      BY <2>6, Zenon
    <2>8. Cardinality(A \union B) = Cardinality(A) + Cardinality(B)
      BY <2>3, <2>4, <2>5
    <2> QED
      BY <2>2, <2>7, <2>8, Zenon
  <1>4. \A d \in Nat : Cardinality(UpToDay(d)) <= d * PerDay
    <2>1. PICK S : S = {d \in Nat : Cardinality(UpToDay(d)) <= d * PerDay}
      OBVIOUS
    <2>2. UpToDay(0) = {}
      BY <1>1 DEF UpToDay, TakenOK
    <2>3. 0 \in S
      <3>1. Cardinality(UpToDay(0)) = Cardinality({})
        BY <2>2, Zenon
      <3>2. Cardinality({}) = 0 /\ 0 * PerDay = 0
        BY <1>1, FS_EmptySet
      <3> QED
        BY <2>1, <3>1, <3>2
    <2>4. ASSUME NEW d \in Nat, d \in S PROVE d + 1 \in S
      <3>1. Cardinality(OnDay(d + 1)) <= PerDay
        BY DEF TakenOK
      <3>2. Cardinality(UpToDay(d)) <= d * PerDay
        BY <2>1, <2>4
      <3>3. d * PerDay + PerDay = (d + 1) * PerDay
        BY <1>1
      <3>4. d * PerDay \in Nat /\ (d + 1) * PerDay \in Nat
        BY <1>1
      <3>5. Cardinality(UpToDay(d + 1)) <= (d + 1) * PerDay
        BY <1>1, <1>2, <1>3, <3>1, <3>2, <3>3, <3>4
      <3> QED
        BY <2>1, <3>5
    <2>5. \A d \in Nat : d \in S
      BY <2>3, <2>4, SetInduction
    <2> QED
      BY <2>1, <2>5
  <1>5. PICK e \in Nat : date = e + 1
    <2>1. date - 1 \in Nat /\ date = (date - 1) + 1
      BY <1>1
    <2> QED
      BY <2>1
  <1>6. UpToDay(e + 1) = taken
    BY <1>1, <1>5 DEF UpToDay, TakenOK
  <1>7. Cardinality(taken) = Cardinality(UpToDay(e)) + Cardinality(OnDay(date))
    BY <1>3, <1>5, <1>6
  <1>8. Cardinality(UpToDay(e)) <= e * PerDay
    BY <1>4
  <1>9. e * PerDay + PerDay = (e + 1) * PerDay /\ (e + 1) * PerDay <= LastDay * PerDay
    BY <1>1, <1>5
  <1>10. e * PerDay \in Nat /\ (e + 1) * PerDay \in Nat /\ LastDay * PerDay \in Nat
    BY <1>1
  <1>11. Cardinality(UpToDay(e)) \in Nat /\ Cardinality(OnDay(date)) \in Nat
    BY <1>1, <1>2
  <1> QED
    BY <1>1, <1>7, <1>8, <1>9, <1>10, <1>11

LEMMA KeepIsPart == ASSUME NEW fs PROVE Keep(fs) \subseteq fs
  BY DEF Keep, KeptDaily, KeptWeekly, LatestOfDay, Newest

\* A step that takes no dump and leaves the clock alone, or moves it to the next
\* day, keeps the numbers.
LEMMA TakenStays ==
    ASSUME BackupTypeOK, TakenOK, UNCHANGED taken, date' \in Nat, date <= date'
    PROVE  TakenOK'
  BY DEF TakenOK, OnDay, BackupTypeOK

WorkerState == [step : {"none", "dumping", "named", "written", "deleting", "half"},
                goal : {"none", "keep", "prune", "restore"},
                file : Files \union {<<0, 0>>}, doomed : SUBSET Files]

LEMMA TypeIs ==
    BackupTypeOK <=> /\ date \in 1 .. LastDay
                     /\ dumps \subseteq Files /\ sides \subseteq Files /\ part \in BOOLEAN
                     /\ worker \in WorkerState
                     /\ taken \subseteq Files /\ torn \subseteq Files /\ pruned \in BOOLEAN
  BY DEF BackupTypeOK, WorkerState

LEMMA NobodyType ==
    /\ Nobody.step = "none" /\ Nobody.doomed = {} /\ Nobody.file = <<0, 0>>
    /\ Nobody \in WorkerState
  BY DEF Nobody, WorkerState

LEMMA BackupInvInit == BackupInit => BackupInv
  <1> SUFFICES ASSUME BackupInit PROVE BackupInv
    OBVIOUS
  <1>1. worker = Nobody /\ worker.doomed = {} /\ worker.step = "none" /\ Remaining = {} /\ ~pruned
    BY DEF BackupInit, Nobody, Remaining
  <1>2. BackupTypeOK
    <2>1. 1 \in 1..LastDay
      OBVIOUS
    <2> QED
      BY <2>1, NobodyType DEF BackupInit, BackupTypeOK, WorkerState
  <1>3. TakenOK
    <2>1. \A d : OnDay(d) = {}
      BY DEF BackupInit, OnDay
    <2>2. IsFiniteSet({}) /\ Cardinality({}) = 0
      BY FS_EmptySet
    <2> QED
      BY <2>1, <2>2 DEF BackupInit, TakenOK
  <1>4. WorkerOK
    BY <1>1 DEF BackupInit, WorkerOK
  <1>5. RetentionOK
    <2>1. Days(taken) = {}
      BY DEF BackupInit, Days
    <2>2. Essential({}) = {}
      BY DEF Essential, Starts, Old, Recent, Top
    <2> QED
      BY <1>1, <2>1, <2>2 DEF BackupInit, RetentionOK
  <1> QED
    BY <1>2, <1>3, <1>4, <1>5 DEF BackupInv

\* A step that takes no dump keeps what the dumps that remain must cover.
LEMMA RetentionStays ==
    ASSUME RetentionOK, UNCHANGED taken, Remaining' = Remaining,
           worker'.step \in {"deleting", "half"} \/ pruned' => worker.step \in {"deleting", "half"} \/ pruned
    PROVE  RetentionOK'
  BY DEF RetentionOK, LastOfItsDay

LEMMA KeepsNextDay == ASSUME BackupInv, NextDay PROVE BackupInv'
  <1>1. BackupTypeOK'
    BY DEF BackupInv, BackupTypeOK, NextDay
  <1>2. TakenOK'
    BY TakenStays DEF BackupInv, BackupTypeOK, NextDay
  <1>3. WorkerOK'
    BY NobodyType DEF BackupInv, WorkerOK, NextDay, verify, OnDay
  <1>4. RetentionOK'
    BY RetentionStays DEF BackupInv, NextDay, Remaining
  <1> QED
    BY <1>1, <1>2, <1>3, <1>4 DEF BackupInv

LEMMA KeepsStarts == ASSUME BackupInv, NEW goal \in {"keep", "prune", "restore"}, DumpStarts(goal) PROVE BackupInv'
  <1>1. PICK w : w = [step |-> "dumping", goal |-> goal, file |-> <<date, Cardinality(taken) + 1>>, doomed |-> {}]
    OBVIOUS
  <1>2. /\ worker = Nobody /\ worker' = w /\ part' = TRUE /\ pruned' = FALSE /\ Cardinality(OnDay(date)) < PerDay
        /\ UNCHANGED <<date, dumps, sides, taken, torn>>
    BY <1>1 DEF DumpStarts, OnDay
  <1>3. w.step = "dumping" /\ w.goal = goal /\ w.file = <<date, Cardinality(taken) + 1>> /\ w.doomed = {}
    BY <1>1
  <1>4. <<date, Cardinality(taken) + 1>> \in Files
    <2>1. date \in 1..LastDay /\ LastDay * PerDay \in Nat
      BY DEF BackupInv, BackupTypeOK
    <2> QED
      BY <1>2, <2>1, NumbersSuffice DEF BackupInv, Files
  <1>5. BackupTypeOK'
    <2>1. w \in WorkerState
      BY <1>1, <1>4 DEF WorkerState
    <2> QED
      BY <1>2, <2>1 DEF BackupInv, BackupTypeOK, WorkerState
  <1>6. TakenOK'
    BY <1>2, TakenStays DEF BackupInv, BackupTypeOK
  <1>7. WorkerOK'
    BY <1>2, <1>3, NobodyType DEF BackupInv, WorkerOK, verify, OnDay
  <1>8. RetentionOK'
    BY <1>2, <1>3, NobodyType, RetentionStays DEF BackupInv, Remaining
  <1> QED
    BY <1>5, <1>6, <1>7, <1>8 DEF BackupInv

LEMMA KeepsFails == ASSUME BackupInv, DumpFails PROVE BackupInv'
  <1>1. /\ worker.step = "dumping" /\ worker' = Nobody /\ part' = FALSE /\ UNCHANGED <<date, dumps, sides, taken, torn, pruned>>
    BY DEF DumpFails
  <1>2. ~pruned /\ worker.doomed = {}
    BY <1>1, NobodyType DEF BackupInv, WorkerOK
  <1>3. BackupTypeOK'
    BY <1>1, NobodyType DEF BackupInv, BackupTypeOK, WorkerState
  <1>4. TakenOK'
    BY <1>1, TakenStays DEF BackupInv, BackupTypeOK
  <1>5. WorkerOK'
    BY <1>1, <1>2, NobodyType DEF BackupInv, WorkerOK, verify, OnDay
  <1>6. RetentionOK'
    BY <1>1, <1>2, NobodyType, RetentionStays DEF BackupInv, Remaining
  <1> QED
    BY <1>3, <1>4, <1>5, <1>6 DEF BackupInv

LEMMA KeepsNamed == ASSUME BackupInv, DumpIsNamed PROVE BackupInv'
  <1>1. PICK f : f = worker.file
    OBVIOUS
  <1>2. PICK w : w = [worker EXCEPT !.step = "named"]
    OBVIOUS
  <1>3. /\ worker.step = "dumping" /\ part' = FALSE /\ dumps' = dumps \union {f} /\ taken' = taken \union {f}
        /\ worker' = w /\ UNCHANGED <<date, sides, torn, pruned>>
    BY <1>1, <1>2 DEF DumpIsNamed
  <1>4. w \in WorkerState /\ w.step = "named" /\ w.file = f /\ w.doomed = worker.doomed /\ f \in Files \union {<<0, 0>>}
    BY <1>1, <1>2, TypeIs DEF BackupInv, WorkerState
  <1>5. f = <<date, Cardinality(taken) + 1>> /\ Cardinality(OnDay(date)) < PerDay /\ worker.doomed = {} /\ ~pruned
    BY <1>1, <1>3, NobodyType DEF BackupInv, WorkerOK
  <1>6. date \in 1..LastDay /\ Cardinality(taken) \in Nat /\ IsFiniteSet(taken)
    BY TypeIs, FS_CardinalityType DEF BackupInv, TakenOK
  <1>7. f[1] = date /\ f[2] = Cardinality(taken) + 1 /\ f \notin taken
    <2>1. f[1] = date /\ f[2] = Cardinality(taken) + 1
      BY <1>5
    <2> QED
      BY <1>6, <2>1 DEF BackupInv, TakenOK
  <1>8. f \in Files
    <2>1. f # <<0, 0>>
      BY <1>6, <1>7
    <2> QED
      BY <1>4, <2>1
  <1>9. BackupTypeOK'
    BY <1>3, <1>4, <1>8 DEF BackupInv, BackupTypeOK, WorkerState
  <1>10. TakenOK'
    <2>1. IsFiniteSet(taken') /\ Cardinality(taken') = Cardinality(taken) + 1
      BY <1>3, <1>6, <1>7, FS_AddElement
    <2>2. \A g \in taken' : g = f \/ (g \in taken /\ g[1] \in 1..date /\ g[2] \in 1..Cardinality(taken))
      BY <1>3 DEF BackupInv, TakenOK
    <2>3. \A g \in taken' : g[1] \in 1..date /\ g[2] \in 1..Cardinality(taken')
      BY <1>6, <1>7, <2>1, <2>2
    <2>4. ASSUME NEW g \in taken', NEW h \in taken' PROVE (g[2] = h[2] => g = h) /\ (g[2] < h[2] => g[1] <= h[1])
      BY <1>6, <1>7, <2>2 DEF BackupInv, TakenOK
    <2>5. ASSUME NEW d \in Nat PROVE Cardinality(OnDay(d)') <= PerDay
      <3>1. CASE d = date
        <4>1. OnDay(d)' = OnDay(date) \union {f} /\ f \notin OnDay(date)
          BY <1>3, <1>7, <3>1 DEF OnDay
        <4>2. IsFiniteSet(OnDay(date)) /\ Cardinality(OnDay(date)) \in Nat
          BY <1>6, FS_Subset, FS_CardinalityType DEF OnDay
        <4>3. Cardinality(OnDay(date) \union {f}) = Cardinality(OnDay(date)) + 1
          BY <4>1, <4>2, FS_AddElement
        <4>4. Cardinality(OnDay(d)') = Cardinality(OnDay(date)) + 1
          BY <4>1, <4>3, Zenon
        <4> QED
          BY <1>5, <4>2, <4>4
      <3>2. CASE d # date
        <4>1. OnDay(d)' = OnDay(d)
          BY <1>3, <1>7, <3>2 DEF OnDay
        <4> QED
          BY <4>1 DEF BackupInv, TakenOK
      <3> QED
        BY <3>1, <3>2
    <2> QED
      BY <1>3, <2>1, <2>3, <2>4, <2>5 DEF TakenOK
  <1>11. WorkerOK'
    BY <1>3, <1>4, <1>5 DEF BackupInv, WorkerOK, verify
  <1>12. RetentionOK'
    <2>1. PICK D : D = Days(taken)
      OBVIOUS
    <2>2. Days(taken)' = D \union {date} /\ Days(Remaining)' = Days(Remaining) \union {date}
      BY <1>3, <1>4, <1>5, <1>7, <2>1 DEF Days, Remaining
    <2>3. PICK n \in Nat : date \in 1..n /\ D \subseteq 1..n /\ \A d \in D : d <= date
      BY <2>1, TakenAre DEF BackupInv
    <2>4. Essential(D \union {date}) \subseteq Essential(D) \union {date}
      BY <2>3, EssentialGrows
    <2>5. Recent(D \union {date}) \subseteq Recent(D) \union {date}
      BY <2>3, TopGrows, WeeksAre DEF Recent
    <2>6. ASSUME NEW g \in taken', g[1] \in Recent(D \union {date}), LastOfItsDay(g)' PROVE g \in Remaining'
      <3>1. CASE g = f
        BY <1>3, <1>4, <1>5, <3>1 DEF Remaining
      <3>2. CASE g # f
        <4>1. g \in taken /\ g[2] \in 1..Cardinality(taken)
          BY <1>3, <3>2 DEF BackupInv, TakenOK
        <4>2. g[2] < f[2]
          BY <1>6, <1>7, <4>1
        <4>3. g[1] # date
          BY <1>3, <1>7, <2>6, <4>2 DEF LastOfItsDay, Earlier
        <4>4. LastOfItsDay(g)
          BY <1>3, <2>6 DEF LastOfItsDay
        <4>5. g \in Remaining
          BY <2>1, <2>5, <2>6, <4>1, <4>3, <4>4 DEF BackupInv, RetentionOK
        <4> QED
          BY <1>3, <1>4, <1>5, <4>5 DEF Remaining
      <3> QED
        BY <3>1, <3>2
    <2>7. Essential(D) \subseteq Days(Remaining)
      BY <2>1 DEF BackupInv, RetentionOK
    <2> QED
      BY <1>3, <1>4, <1>5, <2>2, <2>4, <2>6, <2>7 DEF RetentionOK
  <1> QED
    BY <1>9, <1>10, <1>11, <1>12 DEF BackupInv

LEMMA KeepsChecksum == ASSUME BackupInv, ChecksumIsWritten PROVE BackupInv'
  <1>1. PICK f : f = worker.file
    OBVIOUS
  <1>2. PICK w : w = [worker EXCEPT !.step = IF worker.goal = "prune" THEN "deleting" ELSE "written",
                                    !.doomed = IF worker.goal = "prune" THEN dumps \ Keep(dumps) ELSE {}]
    OBVIOUS
  <1>3. /\ worker.step = "named" /\ sides' = sides \union {f} /\ worker' = w
        /\ UNCHANGED <<date, dumps, part, taken, torn, pruned>>
    BY <1>1, <1>2 DEF ChecksumIsWritten
  <1>4. /\ w.step = IF worker.goal = "prune" THEN "deleting" ELSE "written"
        /\ w.doomed = IF worker.goal = "prune" THEN dumps \ Keep(dumps) ELSE {}
        /\ w.file = f /\ w \in WorkerState
    BY <1>1, <1>2, TypeIs DEF BackupInv, WorkerState
  <1>5. f \in taken /\ taken \subseteq Files /\ worker.doomed = {} /\ ~pruned /\ dumps \subseteq taken
    BY <1>1, <1>3, NobodyType, TypeIs DEF BackupInv, WorkerOK
  <1>6. BackupTypeOK'
    BY <1>3, <1>4, <1>5 DEF BackupInv, BackupTypeOK, WorkerState
  <1>7. TakenOK'
    BY <1>3, TakenStays, TypeIs DEF BackupInv
  <1>8. WorkerOK'
    BY <1>1, <1>3, <1>4, <1>5 DEF BackupInv, WorkerOK, verify
  <1>9. RetentionOK'
    <2>1. CASE worker.goal = "prune"
      <3>1. Remaining' = Keep(dumps) /\ Remaining = dumps
        BY <1>3, <1>4, <1>5, <2>1, KeepIsPart DEF Remaining
      <3>2. PICK n \in Nat : Dated(taken, n)
        BY TakenAre DEF BackupInv
      <3>3. Days(Keep(dumps)) = Essential(Days(taken))
        BY <1>5, <3>1, <3>2, PruneKeeps DEF BackupInv, RetentionOK
      <3>4. ASSUME NEW g \in taken, g[1] \in Recent(Days(taken)), LastOfItsDay(g) PROVE g \in Keep(dumps)
        <4>1. g \in dumps
          BY <3>1, <3>4 DEF BackupInv, RetentionOK
        <4> QED
          BY <1>5, <3>2, <3>4, <4>1, PruneKeepsTheLast DEF LastOfItsDay
      <3> QED
        BY <1>3, <3>1, <3>3, <3>4 DEF RetentionOK, LastOfItsDay
    <2>2. CASE worker.goal # "prune"
      BY <1>3, <1>4, <1>5, <2>2, RetentionStays DEF BackupInv, Remaining
    <2> QED
      BY <2>1, <2>2
  <1> QED
    BY <1>6, <1>7, <1>8, <1>9 DEF BackupInv

LEMMA KeepsUnlinks == ASSUME BackupInv, PruneUnlinks PROVE BackupInv'
  <1>1. PICK f \in worker.doomed : /\ dumps' = dumps \ {f}
                                   /\ worker' = [worker EXCEPT !.step = "half", !.file = f, !.doomed = @ \ {f}]
    BY DEF PruneUnlinks
  <1>2. worker.step = "deleting" /\ UNCHANGED <<date, sides, part, taken, torn, pruned>>
    BY DEF PruneUnlinks
  <1>3. worker'.step = "half" /\ worker'.file = f /\ worker'.doomed = worker.doomed \ {f} /\ worker' \in WorkerState
    BY <1>1, TypeIs DEF BackupInv, WorkerState
  <1>4. BackupTypeOK'
    BY <1>1, <1>2, <1>3 DEF BackupInv, BackupTypeOK, WorkerState
  <1>5. TakenOK'
    BY <1>2, TakenStays, TypeIs DEF BackupInv
  <1>6. WorkerOK'
    BY <1>1, <1>2, <1>3, NobodyType DEF BackupInv, WorkerOK, verify
  <1>7. RetentionOK'
    <2>1. Remaining' = Remaining
      BY <1>1, <1>3 DEF Remaining
    <2> QED
      BY <1>2, <2>1, RetentionStays DEF BackupInv
  <1> QED
    BY <1>4, <1>5, <1>6, <1>7 DEF BackupInv

LEMMA KeepsUnlinksSide == ASSUME BackupInv, PruneUnlinksSide PROVE BackupInv'
  <1>1. /\ worker.step = "half" /\ sides' = sides \ {worker.file} /\ worker' = [worker EXCEPT !.step = "deleting"]
        /\ UNCHANGED <<date, dumps, part, taken, torn, pruned>>
    BY DEF PruneUnlinksSide
  <1>2. worker'.step = "deleting" /\ worker'.doomed = worker.doomed /\ worker' \in WorkerState
    BY <1>1, TypeIs DEF BackupInv, WorkerState
  <1>3. BackupTypeOK'
    BY <1>1, <1>2 DEF BackupInv, BackupTypeOK, WorkerState
  <1>4. TakenOK'
    BY <1>1, TakenStays, TypeIs DEF BackupInv
  <1>5. WorkerOK'
    BY <1>1, <1>2, NobodyType DEF BackupInv, WorkerOK, verify
  <1>6. RetentionOK'
    BY <1>1, <1>2, RetentionStays DEF BackupInv, Remaining
  <1> QED
    BY <1>3, <1>4, <1>5, <1>6 DEF BackupInv

LEMMA KeepsPruneEnds == ASSUME BackupInv, PruneEnds PROVE BackupInv'
  <1>1. /\ worker.step = "deleting" /\ worker.doomed = {} /\ worker' = Nobody /\ pruned' = TRUE
        /\ UNCHANGED <<date, dumps, sides, part, taken, torn>>
    BY DEF PruneEnds
  <1>2. BackupTypeOK'
    BY <1>1, NobodyType DEF BackupInv, BackupTypeOK, WorkerState
  <1>3. TakenOK'
    BY <1>1, TakenStays, TypeIs DEF BackupInv
  <1>4. WorkerOK'
    BY <1>1, NobodyType DEF BackupInv, WorkerOK, verify
  <1>5. RetentionOK'
    BY <1>1, NobodyType, RetentionStays DEF BackupInv, Remaining
  <1> QED
    BY <1>2, <1>3, <1>4, <1>5 DEF BackupInv

LEMMA KeepsDumpEnds == ASSUME BackupInv, DumpEnds PROVE BackupInv'
  <1>1. /\ worker.step = "written" /\ worker' = Nobody
        /\ UNCHANGED <<date, dumps, sides, part, taken, torn, pruned>>
    BY DEF DumpEnds
  <1>2. ~pruned /\ worker.doomed = {}
    BY <1>1, NobodyType DEF BackupInv, WorkerOK
  <1>3. BackupTypeOK'
    BY <1>1, NobodyType DEF BackupInv, BackupTypeOK, WorkerState
  <1>4. TakenOK'
    BY <1>1, TakenStays, TypeIs DEF BackupInv
  <1>5. WorkerOK'
    BY <1>1, <1>2, NobodyType DEF BackupInv, WorkerOK, verify
  <1>6. RetentionOK'
    BY <1>1, <1>2, NobodyType, RetentionStays DEF BackupInv, Remaining
  <1> QED
    BY <1>3, <1>4, <1>5, <1>6 DEF BackupInv

LEMMA KeepsKilled == ASSUME BackupInv, Killed PROVE BackupInv'
  <1>1. /\ worker # Nobody /\ worker' = Nobody
        /\ torn' = (IF worker.step = "named" THEN torn \union {worker.file} ELSE torn)
        /\ UNCHANGED <<date, dumps, sides, part, taken, pruned>>
    BY DEF Killed
  <1>2. ~pruned /\ (worker.step = "named" => worker.file \in Files)
    BY <1>1, TypeIs DEF BackupInv, WorkerOK
  <1>3. BackupTypeOK'
    BY <1>1, <1>2, NobodyType DEF BackupInv, BackupTypeOK, WorkerState
  <1>4. TakenOK'
    BY <1>1, TakenStays, TypeIs DEF BackupInv
  <1>5. WorkerOK'
    BY <1>1, <1>2, NobodyType DEF BackupInv, WorkerOK, verify
  <1>6. RetentionOK'
    <2>1. Remaining \subseteq Remaining'
      BY <1>1, NobodyType DEF Remaining
    <2>2. Days(Remaining) \subseteq Days(Remaining')
      BY <2>1 DEF Days
    <2>3. worker'.step = "none" /\ ~pruned' /\ taken' = taken
      BY <1>1, <1>2, NobodyType
    <2> QED
      BY <2>1, <2>2, <2>3 DEF BackupInv, RetentionOK, LastOfItsDay, Days, Remaining
  <1> QED
    BY <1>3, <1>4, <1>5, <1>6 DEF BackupInv

\* Every reachable state of the dumps has the invariant.
THEOREM BackupInvAlways == BackupSpec => []BackupInv
  <1>1. BackupInv /\ [BackupNext]_backupVars => BackupInv'
    <2> SUFFICES ASSUME BackupInv, [BackupNext]_backupVars PROVE BackupInv'
      OBVIOUS
    <2>1. CASE UNCHANGED backupVars
      BY <2>1 DEF backupVars, BackupInv, BackupTypeOK, TakenOK, WorkerOK, RetentionOK, OnDay,
                  LastOfItsDay, Remaining, verify
    <2> QED
      BY <2>1, KeepsNextDay, KeepsStarts, KeepsFails, KeepsNamed, KeepsChecksum, KeepsUnlinks,
         KeepsUnlinksSide, KeepsPruneEnds, KeepsDumpEnds, KeepsKilled DEF BackupNext
  <1> QED
    BY BackupInvInit, <1>1, PTL DEF BackupSpec

\* The directory of dumps and the process that works on it keep their types.
THEOREM BackupTypeCorrect == BackupSpec => []BackupTypeOK
  <1>1. BackupInv => BackupTypeOK
    BY DEF BackupInv
  <1> QED
    BY <1>1, BackupInvAlways, PTL

LEMMA EssentialIs ==
    RecentDays = Recent(Days(taken)) /\ RecentDays \union WeekStarts = Essential(Days(taken))
  <1>1. RecentDays = Recent(Days(taken))
    BY DEF RecentDays, Recent, Top, Above
  <1>2. OldDays = Old(Days(taken))
    BY <1>1 DEF OldDays, Old
  <1>3. PICK O : O = OldDays
    OBVIOUS
  <1>4. \A d \in O : {WeekOf(e) : e \in {x \in O : WeekOf(x) > WeekOf(d)}} = Above(WeeksOf(O), WeekOf(d))
    BY DEF Above, WeeksOf
  <1>5. \A d \in O : WeekOf(d) \in WeeksOf(O)
    BY DEF WeeksOf
  <1>6. WeekStarts = {d \in O : FirstInWeek(O, d) /\ WeekOf(d) \in Top(WeeksOf(O), weekly_keep)}
    BY <1>3, <1>4, <1>5 DEF WeekStarts, FirstInWeek, Top
  <1> QED
    BY <1>1, <1>2, <1>3, <1>6 DEF Essential, Starts

\* The retention depends on the days that had a dump and on nothing else: on no
\* day that was missed and on no prune that was interrupted.
THEOREM RetentionIsPathIndependentAlways == BackupSpec => []RetentionIsPathIndependent
  <1>1. BackupInv => RetentionIsPathIndependent
    BY EssentialIs, NobodyType
       DEF BackupInv, RetentionOK, WorkerOK, Remaining, RetentionIsPathIndependent
  <1> QED
    BY <1>1, BackupInvAlways, PTL

\* A dump without a checksum is being written or was left by a kill, and the last
\* dump of a recent day is there at any moment of a prune.
THEOREM BackupsAreUsableAlways == BackupSpec => []BackupsAreUsable
  <1>1. BackupInv => BackupsAreUsable
    <2> SUFFICES ASSUME BackupInv PROVE BackupsAreUsable
      OBVIOUS
    <2>1. \A f \in taken : f[1] \in RecentDays /\ LastOfItsDay(f) => f \in dumps
      BY EssentialIs DEF BackupInv, RetentionOK, Remaining
    <2> QED
      BY <2>1 DEF BackupInv, WorkerOK, BackupsAreUsable, LastOfItsDay
  <1> QED
    BY <1>1, BackupInvAlways, PTL

HIDE BackupConstants
USE LifecycleConstants

-----------------------------------------------------------------------------
(* The invariant.                                                          *)

CountsOK ==
    /\ started \in [ModelIds -> Nat] /\ fine \subseteq Calendar
    /\ decided \in [Months -> Nat] /\ unrecorded \in [Months -> Nat]

Present == Month(session)
Starters(x) == {m \in ModelIds : started[m] = x}
SettledOf(x) == {m \in Starters(x) : role[m] # "shadow"}

\* What was started is a model, and was started by now.
StartersExist == \A m \in ModelIds : started[m] # 0 => role[m] # "none" /\ started[m] <= Present

\* A retrain under way has no challenger beside it: nobody else starts one.
RetrainIsAlone == Step("retrain") => Challengers = {}

\* Challengers of the present month that left the shadow left it this month.
AttemptsAreSettled ==
    /\ \A x \in Months : Attempts(x) <= 1 + decided[x]
    /\ Cardinality(SettledOf(Present)) <= decided[Present]

\* Without the record of the month, every attempt of it went unrecorded; the
\* one that is about to be recorded excepted.
AttemptsAreRecorded ==
    /\ \A x \in Months : Attempts(x) <= 1 + unrecorded[x]
    /\ Present \notin evaluated /\ ~ Step("record") => Attempts(Present) <= unrecorded[Present]
    /\ Evaluating => Present \notin evaluated

\* A job whose steps were all fine has the month evaluated when it reports.
ReportsAreTrue ==
    Step("report") /\ daily.ok /\ DayOfMonth(session) >= evaluate_day => Present \in evaluated

LifecycleInv ==
    /\ LifecycleTypeOK /\ CountsOK /\ StartersExist /\ RetrainIsAlone
    /\ AttemptsAreSettled /\ AttemptsAreRecorded /\ ReportsAreTrue /\ MonthsAreEvaluated

-----------------------------------------------------------------------------
(* Months and counts.                                                      *)

LEMMA MonthType ==
    ASSUME NEW d \in Calendar
    PROVE  Month(d) \in Months /\ Month(d) \in Nat \ {0}
  <1>1. MonthLength \in Nat \ {0} /\ d - 1 \in Nat
    BY DEF Calendar
  <1>2. (d - 1) \div MonthLength \in Nat
    BY <1>1
  <1> QED
    BY <1>2 DEF Month, Months

\* Months follow each other.
LEMMA MonthsFollow ==
    ASSUME NEW d \in Calendar
    PROVE  Month(d) <= Month(d + 1)
  <1>1. MonthLength \in Nat \ {0} /\ d - 1 \in Nat /\ (d + 1) - 1 = (d - 1) + 1
    BY DEF Calendar
  <1>2. (d - 1) \div MonthLength <= ((d - 1) + 1) \div MonthLength
    BY <1>1
  <1>3. (d - 1) \div MonthLength \in Int /\ ((d - 1) + 1) \div MonthLength \in Int
    BY <1>1
  <1> QED
    BY <1>1, <1>2, <1>3 DEF Month

\* Models are finitely many.
LEMMA ModelsAreFinite == IsFiniteSet(ModelIds)
  <1>1. MaxModels \in Nat
    OBVIOUS
  <1> QED
    BY <1>1, FS_Interval DEF ModelIds

LEMMA ModelsAreCounted ==
    ASSUME NEW S, S \subseteq ModelIds
    PROVE  /\ IsFiniteSet(S) /\ Cardinality(S) \in Nat
           /\ \A T \in SUBSET S : Cardinality(T) <= Cardinality(S) /\ Cardinality(T) \in Nat
           /\ \A m \in ModelIds \ S : Cardinality(S \union {m}) = Cardinality(S) + 1
  <1>1. IsFiniteSet(S)
    BY ModelsAreFinite, FS_Subset
  <1>2. \A T \in SUBSET S : IsFiniteSet(T) /\ Cardinality(T) <= Cardinality(S)
    BY <1>1, FS_Subset
  <1>3. \A m \in ModelIds \ S : Cardinality(S \union {m}) = Cardinality(S) + 1
    BY <1>1, FS_AddElement
  <1> QED
    BY <1>1, <1>2, <1>3, FS_CardinalityType

\* Attempts counts the starters.
LEMMA AttemptsCount ==
    ASSUME NEW x
    PROVE  Attempts(x) = Cardinality(Starters(x)) /\ Attempts(x) \in Nat
  BY ModelsAreCounted DEF Attempts, Starters

-----------------------------------------------------------------------------
(* JobSteps that neither start nor settle anything.                           *)

LEMMA JobStep ==
    ASSUME LifecycleInv, LifecycleTypeOK', fine' \subseteq Calendar,
           UNCHANGED <<session, role, started, decided, unrecorded>>,
           evaluated \subseteq evaluated',
           Step("retrain")' => Challengers = {},
           Present \notin evaluated' /\ ~ Step("record")' => Attempts(Present) <= unrecorded[Present],
           Evaluating' => Present \notin evaluated',
           ReportsAreTrue', MonthsAreEvaluated'
    PROVE  LifecycleInv'
  <1>1. Present' = Present /\ \A x : Attempts(x)' = Attempts(x) /\ SettledOf(x)' = SettledOf(x)
    BY DEF Present, Attempts, SettledOf, Starters, Month
  <1>2. CountsOK' /\ StartersExist'
    BY <1>1 DEF LifecycleInv, CountsOK, StartersExist
  <1>3. RetrainIsAlone'
    BY DEF RetrainIsAlone, Challengers, WithRole
  <1>4. AttemptsAreSettled'
    BY <1>1 DEF LifecycleInv, AttemptsAreSettled
  <1>5. AttemptsAreRecorded'
    BY <1>1 DEF LifecycleInv, AttemptsAreRecorded
  <1> QED
    BY <1>2, <1>3, <1>4, <1>5 DEF LifecycleInv

\* A step of the job's own, outside the evaluation.
LEMMA PlainStep ==
    ASSUME LifecycleInv, LifecycleTypeOK',
           UNCHANGED <<session, role, evaluated, started, decided, unrecorded, fine>>,
           \/ UNCHANGED daily
           \/ daily'.step \in {"idle", "champions", "shadows", "monitor", "due"} /\ ~ Step("record")
    PROVE  LifecycleInv'
  <1>1. Present \notin evaluated /\ ~ Step("record")' => Attempts(Present) <= unrecorded[Present]
    BY DEF LifecycleInv, AttemptsAreRecorded, Step
  <1>2. ReportsAreTrue' /\ MonthsAreEvaluated'
    BY DEF LifecycleInv, ReportsAreTrue, MonthsAreEvaluated, Step, Present, Month, DayOfMonth
  <1>3. Step("retrain")' => Challengers = {}
    BY DEF LifecycleInv, RetrainIsAlone, Step
  <1>4. Evaluating' => Present \notin evaluated'
    BY DEF LifecycleInv, AttemptsAreRecorded, Evaluating
  <1>5. fine' \subseteq Calendar
    BY DEF LifecycleInv, CountsOK
  <1> QED
    BY <1>1, <1>2, <1>3, <1>4, <1>5, JobStep

JobSteps == {"idle", "champions", "shadows", "monitor", "due", "evaluate", "retrain", "record", "report"}

LEMMA JobType ==
    ASSUME LifecycleTypeOK
    PROVE  /\ daily.step \in JobSteps /\ daily.todo \in SUBSET ModelIds /\ daily.ok \in BOOLEAN
           /\ \A s \in JobSteps, T \in SUBSET ModelIds, b \in BOOLEAN :
                  [step |-> s, todo |-> T, ok |-> b] \in [step : JobSteps, todo : SUBSET ModelIds, ok : BOOLEAN]
  <1>1. daily \in [step : JobSteps, todo : SUBSET ModelIds, ok : BOOLEAN]
    BY DEF LifecycleTypeOK, JobSteps
  <1>2. daily.step \in JobSteps /\ daily.todo \in SUBSET ModelIds /\ daily.ok \in BOOLEAN
    BY <1>1
  <1>3. \A s \in JobSteps, T \in SUBSET ModelIds, b \in BOOLEAN :
            [step |-> s, todo |-> T, ok |-> b] \in [step : JobSteps, todo : SUBSET ModelIds, ok : BOOLEAN]
    OBVIOUS
  <1> QED
    BY <1>2, <1>3

\* A step of the job that changes nothing but its own place.
LEMMA MovesOn ==
    ASSUME LifecycleInv, UNCHANGED <<store, started, decided, unrecorded>>,
           daily' \in [step : JobSteps, todo : SUBSET ModelIds, ok : BOOLEAN]
    PROVE  LifecycleTypeOK' /\ UNCHANGED <<session, role, evaluated, started, decided, unrecorded>>
  BY DEF LifecycleInv, LifecycleTypeOK, store, JobSteps

\* The steps before the evaluation.
LEMMA Scoring ==
    ASSUME LifecycleInv,
           \/ ShadowStarts \/ ShadowTurns \/ ShadowEnds \/ ShadowFails
           \/ \E b \in BOOLEAN : Monitors(b)
    PROVE  LifecycleInv'
  <1>1. LifecycleTypeOK
    BY DEF LifecycleInv
  <1>2. \A r : WithRole(r) \in SUBSET ModelIds
    BY DEF WithRole
  <1>3. /\ daily' \in [step : JobSteps, todo : SUBSET ModelIds, ok : BOOLEAN]
        /\ daily'.step \in {"champions", "shadows", "monitor", "due"} /\ ~ Step("record")
        /\ UNCHANGED <<store, aux>>
    <2>1. CASE ShadowStarts
      BY <1>2, <2>1 DEF ShadowStarts, NoJob, Step, JobSteps
    <2>2. CASE ShadowTurns
      BY <1>1, <1>2, <2>2 DEF ShadowTurns, LifecycleTypeOK, Step, JobSteps
    <2>3. CASE ShadowEnds
      BY <1>1, <2>3 DEF ShadowEnds, Goto, LifecycleTypeOK, Step, JobSteps
    <2>4. CASE ShadowFails
      BY <2>4 DEF ShadowFails, Step, JobSteps
    <2>5. ASSUME NEW b \in BOOLEAN, Monitors(b) PROVE <1>3!1 /\ <1>3!2 /\ <1>3!3
      BY <1>1, <2>5 DEF Monitors, LifecycleTypeOK, Step, JobSteps
    <2> QED
      BY <2>1, <2>2, <2>3, <2>4, <2>5
  <1>4. LifecycleTypeOK' /\ UNCHANGED <<session, role, evaluated, started, decided, unrecorded, fine>>
    BY <1>3, MovesOn DEF aux
  <1> QED
    BY <1>3, <1>4, PlainStep

\* Predictions of the job and of a replay.
LEMMA Storing ==
    ASSUME LifecycleInv,
           \/ \E m \in ModelIds : ShadowStores(m)
           \/ \E m \in ModelIds, from, to \in Calendar : Replays(m, from, to)
    PROVE  LifecycleInv'
  <1>1. CASE \E m \in ModelIds : ShadowStores(m)
    <2>1. PICK m \in ModelIds : ShadowStores(m)
      BY <1>1
    <2>2. LifecycleTypeOK'
      BY <2>1 DEF ShadowStores, Stored, LifecycleInv, LifecycleTypeOK
    <2>3. daily'.step = daily.step /\ daily'.ok = daily.ok
      BY <2>1 DEF ShadowStores, LifecycleInv, LifecycleTypeOK
    <2>4. UNCHANGED <<session, role, evaluated, started, decided, unrecorded, fine>>
      BY <2>1 DEF ShadowStores, aux
    <2>5. ReportsAreTrue' /\ MonthsAreEvaluated'
      BY <2>3, <2>4 DEF LifecycleInv, ReportsAreTrue, MonthsAreEvaluated, Step, Present, Month, DayOfMonth
    <2>6. /\ Step("retrain")' => Challengers = {}
          /\ Evaluating' => Present \notin evaluated'
          /\ Present \notin evaluated' /\ ~ Step("record")' => Attempts(Present) <= unrecorded[Present]
          /\ fine' \subseteq Calendar
      BY <2>3, <2>4 DEF LifecycleInv, RetrainIsAlone, AttemptsAreRecorded, Evaluating, Step, CountsOK
    <2> QED
      BY <2>2, <2>4, <2>5, <2>6, JobStep
  <1>2. CASE \E m \in ModelIds, from, to \in Calendar : Replays(m, from, to)
    <2>1. PICK m \in ModelIds, from \in Calendar, to \in Calendar : Replays(m, from, to)
      BY <1>2
    <2>2. from .. to \subseteq Calendar
      BY DEF Calendar
    <2>3. LifecycleTypeOK'
      BY <2>1, <2>2 DEF Replays, Stored, LifecycleInv, LifecycleTypeOK
    <2> QED
      BY <2>1, <2>3, PlainStep DEF Replays
  <1> QED
    BY <1>1, <1>2

\* Whether an evaluation is due, and what it decides.
LEMMA Deciding ==
    ASSUME LifecycleInv,
           \/ EvaluationIsDue \/ EvaluationIsNotDue \/ EvaluatesOnly \/ RetrainAddsNothing
           \/ \E b \in BOOLEAN : EvaluateRetrains(b)
    PROVE  LifecycleInv'
  <1>1. LifecycleTypeOK
    BY DEF LifecycleInv
  <1>2. /\ UNCHANGED <<store, aux>> /\ ~ Step("record")
        /\ \E s \in {"evaluate", "report", "retrain", "record"} : Goto(s)
        /\ Goto("report") => EvaluationIsNotDue
        /\ Goto("retrain") => Challengers = {}
        /\ ~ Goto("report") => Present \notin evaluated
    <2>1. ASSUME NEW s \in JobSteps, NEW r \in JobSteps, Goto(s), Goto(r) PROVE s = r
      BY <1>1, <2>1, JobType DEF Goto
    <2>2. Evaluating => Present \notin evaluated
      BY DEF LifecycleInv, AttemptsAreRecorded
    <2>3. CASE EvaluationIsDue
      BY <2>1, <2>3 DEF EvaluationIsDue, evaluation_due, Step, JobSteps, Present
    <2>4. CASE EvaluationIsNotDue
      BY <2>1, <2>4 DEF EvaluationIsNotDue, Step, JobSteps
    <2>5. CASE EvaluatesOnly
      BY <2>1, <2>2, <2>5 DEF EvaluatesOnly, Step, JobSteps, Evaluating
    <2>6. CASE RetrainAddsNothing
      BY <2>1, <2>2, <2>6 DEF RetrainAddsNothing, Step, JobSteps, Evaluating
    <2>7. CASE \E b \in BOOLEAN : EvaluateRetrains(b)
      BY <2>1, <2>2, <2>7 DEF EvaluateRetrains, Step, JobSteps, Evaluating
    <2> QED
      BY <2>3, <2>4, <2>5, <2>6, <2>7
  <1>3. PICK s \in {"evaluate", "report", "retrain", "record"} : Goto(s)
    BY <1>2
  <1>4. daily' = [step |-> s, todo |-> {}, ok |-> daily.ok] /\ daily.ok \in BOOLEAN
    BY <1>1, <1>3, JobType DEF Goto
  <1>5. daily' \in [step : JobSteps, todo : SUBSET ModelIds, ok : BOOLEAN]
    BY <1>4 DEF JobSteps
  <1>6. LifecycleTypeOK' /\ UNCHANGED <<session, role, evaluated, started, decided, unrecorded, fine>>
    BY <1>2, <1>5, MovesOn DEF aux
  <1>7. MonthsAreEvaluated' /\ fine' \subseteq Calendar
    BY <1>6 DEF LifecycleInv, CountsOK, MonthsAreEvaluated
  <1>8. ReportsAreTrue'
    <2>1. CASE s = "report"
      BY <1>2, <1>3, <1>6, <2>1 DEF EvaluationIsNotDue, evaluation_due, ReportsAreTrue, Present, Month,
         DayOfMonth
    <2>2. CASE s # "report"
      BY <1>4, <2>2 DEF ReportsAreTrue, Step
    <2> QED
      BY <2>1, <2>2
  <1>9. /\ Step("retrain")' => Challengers = {}
        /\ Evaluating' => Present \notin evaluated'
    <2>1. s # "report" => ~ Goto("report")
      BY <1>1, <1>4, JobType DEF Goto, JobSteps
    <2> QED
      BY <1>2, <1>3, <1>4, <1>6, <2>1 DEF Step, Evaluating
  <1>10. Present \notin evaluated' /\ ~ Step("record")' => Attempts(Present) <= unrecorded[Present]
    BY <1>2, <1>6 DEF LifecycleInv, AttemptsAreRecorded
  <1> QED
    BY <1>6, <1>7, <1>8, <1>9, <1>10, JobStep

-----------------------------------------------------------------------------
(* The retrain, the record of the evaluation, and its failure.             *)

LEMMA PresentType ==
    ASSUME LifecycleTypeOK
    PROVE  Present \in Months /\ Present \in Nat \ {0}
  BY MonthType DEF LifecycleTypeOK, Present

\* Nothing is in shadow, so whatever this month started was settled this month.
LEMMA Retraining ==
    ASSUME LifecycleInv, NEW m \in ModelIds, RetrainStarts(m)
    PROVE  LifecycleInv'
  <1>1. LifecycleTypeOK /\ CountsOK /\ Present \in Months /\ Present \in Nat \ {0}
    BY PresentType DEF LifecycleInv
  <1>2. /\ role[m] = "none" /\ \A x \in ModelIds : role[x] # "shadow"
        /\ started[m] = 0
        /\ Step("retrain") /\ Present \notin evaluated
        /\ Attempts(Present) <= unrecorded[Present]
    BY DEF RetrainStarts, LifecycleInv, StartersExist, RetrainIsAlone, Challengers, WithRole,
       AttemptsAreRecorded, Evaluating, Step
  <1>3. /\ role' = [role EXCEPT ![m] = "shadow"] /\ started' = [started EXCEPT ![m] = Present]
        /\ daily' = [step |-> "record", todo |-> {}, ok |-> daily.ok]
        /\ UNCHANGED <<session, evaluated, decided, unrecorded, fine>> /\ Present' = Present
    BY DEF RetrainStarts, Goto, Present, Month
  <1>4. LifecycleTypeOK'
    <2>1. session' \in Calendar /\ evaluated' \subseteq Months
      BY <1>1, <1>3 DEF LifecycleTypeOK
    <2>2. role' \in [ModelIds -> {"none", "shadow", "champion", "retired"}]
      BY <1>1, <1>3 DEF LifecycleTypeOK
    <2>3. session - horizon \in -horizon .. LastSession
      BY <1>1 DEF LifecycleTypeOK, Calendar
    <2>4. until' \in [ModelIds -> -horizon .. LastSession]
      BY <1>1, <2>3 DEF LifecycleTypeOK, RetrainStarts
    <2>5. series' \in [ModelIds -> SUBSET Calendar]
      BY <1>1 DEF LifecycleTypeOK, RetrainStarts, Stored
    <2>6. daily' \in [step : JobSteps, todo : SUBSET ModelIds, ok : BOOLEAN]
      BY <1>1, <1>3, JobType DEF JobSteps
    <2> QED
      BY <2>1, <2>2, <2>4, <2>5, <2>6 DEF LifecycleTypeOK, JobSteps
  <1>5. CountsOK'
    BY <1>1, <1>3 DEF CountsOK
  <1>6. StartersExist'
    BY <1>1, <1>3 DEF LifecycleInv, StartersExist, LifecycleTypeOK, CountsOK
  <1>7. RetrainIsAlone' /\ ReportsAreTrue' /\ MonthsAreEvaluated'
    BY <1>3 DEF RetrainIsAlone, ReportsAreTrue, MonthsAreEvaluated, LifecycleInv, Step
  <1>p. PICK p \in Nat \ {0} : p = Present /\ p = Present' /\ p \in Months
    BY <1>1, <1>3
  <1>8. \A x \in Nat \ {0, p} : Starters(x)' = Starters(x)
    BY <1>1, <1>2, <1>3, <1>p DEF Starters, CountsOK
  <1>9. Starters(p)' = Starters(p) \union {m} /\ m \in ModelIds \ Starters(p)
    BY <1>1, <1>2, <1>3, <1>p DEF Starters, CountsOK
  <1>10. SettledOf(p)' = Starters(p) /\ SettledOf(p) = Starters(p)
    BY <1>1, <1>2, <1>3, <1>9, <1>p DEF SettledOf, LifecycleTypeOK, Starters
  <1>11. \A x \in Nat \ {0, p} : Attempts(x)' = Attempts(x)
    BY <1>8, AttemptsCount DEF Attempts, Starters
  <1>12. Attempts(p)' = Attempts(p) + 1 /\ Attempts(p) \in Nat
    <2>1. Starters(p) \subseteq ModelIds
      BY DEF Starters
    <2>2. Cardinality(Starters(p) \union {m}) = Cardinality(Starters(p)) + 1
      BY <1>9, <2>1, ModelsAreCounted
    <2>3. Attempts(p)' = Cardinality(Starters(p)')
      BY DEF Attempts, Starters
    <2> QED
      BY <1>9, <2>2, <2>3, AttemptsCount
  <1>13. \A x \in Months : x \in Nat \ {0}
    BY MonthType DEF Months
  <1>14. AttemptsAreSettled'
    <2>1. Attempts(p) <= decided[p]
      BY <1>10, <1>p, AttemptsCount DEF LifecycleInv, AttemptsAreSettled
    <2>2. Cardinality(SettledOf(p)') <= decided[p]
      BY <1>10, <2>1, AttemptsCount
    <2>3. decided[p] \in Nat
      BY <1>1, <1>p DEF CountsOK
    <2>4. \A x \in Months : Attempts(x)' <= 1 + decided[x]
      BY <1>11, <1>12, <1>13, <1>p, <2>1, <2>3 DEF LifecycleInv, AttemptsAreSettled
    <2> QED
      <3>1. SettledOf(Present)' = SettledOf(p)'
        BY <1>p DEF SettledOf, Starters
      <3> QED
        BY <1>3, <1>p, <2>2, <2>4, <3>1 DEF AttemptsAreSettled
  <1>15. AttemptsAreRecorded'
    <2>1. unrecorded[p] \in Nat
      BY <1>1, <1>p DEF CountsOK
    <2>2. Attempts(p) <= unrecorded[p]
      BY <1>2, <1>p
    <2>3. Attempts(p)' <= 1 + unrecorded[p]
      BY <1>12, <2>1, <2>2
    <2>4. \A x \in Months : Attempts(x)' <= 1 + unrecorded[x]
      BY <1>11, <1>13, <2>3 DEF LifecycleInv, AttemptsAreRecorded
    <2> QED
      BY <1>2, <1>3, <2>4 DEF AttemptsAreRecorded, Step, Evaluating
  <1> QED
    BY <1>4, <1>5, <1>6, <1>7, <1>14, <1>15 DEF LifecycleInv

\* The month is recorded as evaluated.
LEMMA RecordingMonth ==
    ASSUME LifecycleInv, EvaluationIsRecorded
    PROVE  LifecycleInv'
  <1>1. LifecycleTypeOK /\ CountsOK /\ Present \in Months
    BY PresentType DEF LifecycleInv
  <1>2. /\ evaluated' = evaluated \union {Present}
        /\ daily' = [step |-> "report", todo |-> {}, ok |-> daily.ok]
        /\ UNCHANGED <<session, role, until, series, started, decided, unrecorded, fine>>
        /\ Present' = Present
    BY DEF EvaluationIsRecorded, Goto, aux, Present, Month
  <1>3. LifecycleTypeOK'
    <2>1. daily' \in [step : JobSteps, todo : SUBSET ModelIds, ok : BOOLEAN]
      BY <1>1, <1>2, JobType DEF JobSteps
    <2> QED
      BY <1>1, <1>2, <2>1 DEF LifecycleTypeOK, JobSteps
  <1>4. ReportsAreTrue' /\ MonthsAreEvaluated'
    BY <1>2 DEF LifecycleInv, ReportsAreTrue, MonthsAreEvaluated
  <1>5. /\ Step("retrain")' => Challengers = {}
        /\ Evaluating' => Present \notin evaluated'
        /\ Present \in evaluated' /\ fine' \subseteq Calendar
    BY <1>1, <1>2 DEF Step, Evaluating, CountsOK
  <1> QED
    BY <1>2, <1>3, <1>4, <1>5, JobStep

\* An evaluation that is not recorded makes room for one more attempt.
LEMMA Missing ==
    ASSUME LifecycleInv, Evaluating, Unrecorded,
           UNCHANGED <<store, started, decided, fine>>,
           \/ daily' = NoJob
           \/ daily' = [step |-> "report", todo |-> {}, ok |-> FALSE]
    PROVE  LifecycleInv'
  <1>1. LifecycleTypeOK /\ CountsOK /\ Present \in Months
    BY PresentType DEF LifecycleInv
  <1>2. /\ UNCHANGED <<session, role, until, series, evaluated>>
        /\ unrecorded' = [unrecorded EXCEPT ![Present] = @ + 1] /\ Present' = Present
    BY DEF store, Unrecorded, Present, Month
  <1>3. unrecorded'[Present] = unrecorded[Present] + 1 /\ unrecorded[Present] \in Nat
    BY <1>1, <1>2 DEF CountsOK
  <1>4. CountsOK'
    BY <1>1, <1>2, <1>3 DEF CountsOK
  <1>5. LifecycleTypeOK'
    <2>1. daily' \in [step : JobSteps, todo : SUBSET ModelIds, ok : BOOLEAN]
      <3>1. NoJob \in [step : JobSteps, todo : SUBSET ModelIds, ok : BOOLEAN]
        BY DEF NoJob, JobSteps
      <3>2. [step |-> "report", todo |-> {}, ok |-> FALSE] \in [step : JobSteps, todo : SUBSET ModelIds, ok : BOOLEAN]
        BY DEF JobSteps
      <3> QED
        BY <3>1, <3>2
    <2> QED
      BY <1>1, <1>2, <2>1 DEF LifecycleTypeOK, JobSteps
  <1>6. /\ StartersExist' /\ RetrainIsAlone' /\ MonthsAreEvaluated'
    BY <1>2 DEF LifecycleInv, StartersExist, RetrainIsAlone, MonthsAreEvaluated, Step, NoJob
  <1>7. ReportsAreTrue'
    BY DEF ReportsAreTrue, Step, NoJob
  <1>8. \A x : Attempts(x)' = Attempts(x) /\ SettledOf(x)' = SettledOf(x)
    BY <1>2 DEF Attempts, SettledOf, Starters
  <1>9. AttemptsAreSettled'
    BY <1>2, <1>8 DEF LifecycleInv, AttemptsAreSettled
  <1>10. AttemptsAreRecorded'
    <2>1. \A x \in Months : Attempts(x) \in Nat /\ unrecorded[x] \in Nat /\ unrecorded[x] <= unrecorded'[x]
      BY <1>1, <1>2, <1>3, AttemptsCount DEF CountsOK
    <2>2. \A x \in Months : Attempts(x) <= 1 + unrecorded[x]
      BY DEF LifecycleInv, AttemptsAreRecorded
    <2>3. \A x \in Months : Attempts(x)' <= 1 + unrecorded'[x]
      <3>1. \A x \in Months : unrecorded'[x] \in Nat
        BY <1>4 DEF CountsOK
      <3> QED
        BY <1>8, <2>1, <2>2, <3>1
    <2>4. Attempts(Present)' <= unrecorded'[Present]
      <3>1. Attempts(Present)' = Attempts(Present)
        BY <1>2 DEF Attempts
      <3> QED
        BY <1>1, <1>3, <3>1, <2>1, <2>2
    <2>5. ~ Evaluating'
      BY DEF Evaluating, NoJob
    <2> QED
      BY <1>2, <2>3, <2>4, <2>5 DEF AttemptsAreRecorded
  <1> QED
    BY <1>4, <1>5, <1>6, <1>7, <1>9, <1>10 DEF LifecycleInv

\* The job ends, or is killed.
LEMMA Ending ==
    ASSUME LifecycleInv, EvaluationFails \/ DailyEnds \/ DailyIsKilled
    PROVE  LifecycleInv'
  <1>1. CASE EvaluationFails
    BY <1>1, Missing DEF EvaluationFails
  <1>2. CASE DailyEnds
    <2>1. LifecycleTypeOK /\ CountsOK
      BY DEF LifecycleInv
    <2>2. /\ UNCHANGED <<session, role, until, series, evaluated, started, decided, unrecorded>>
          /\ daily' = NoJob /\ Step("report") /\ Present' = Present
          /\ fine' = IF daily.ok THEN fine \union {session} ELSE fine
      BY <1>2 DEF DailyEnds, store, Present, Month
    <2>3. LifecycleTypeOK'
      BY <2>1, <2>2 DEF LifecycleTypeOK, NoJob
    <2>4. fine' \subseteq Calendar
      BY <2>1, <2>2 DEF CountsOK, LifecycleTypeOK
    <2>5. MonthsAreEvaluated'
      BY <2>2 DEF LifecycleInv, MonthsAreEvaluated, ReportsAreTrue, Present
    <2>6. /\ ReportsAreTrue' /\ ~ Step("retrain")' /\ ~ Evaluating' /\ ~ Step("record")
      BY <2>2 DEF ReportsAreTrue, Step, NoJob, Evaluating
    <2>7. Present \notin evaluated' /\ ~ Step("record")' => Attempts(Present) <= unrecorded[Present]
      BY <2>2, <2>6 DEF LifecycleInv, AttemptsAreRecorded
    <2> QED
      BY <2>2, <2>3, <2>4, <2>5, <2>6, <2>7, JobStep
  <1>3. CASE DailyIsKilled
    <2>1. CASE Evaluating /\ Unrecorded
      BY <1>3, <2>1, Missing DEF DailyIsKilled
    <2>2. CASE ~ Evaluating /\ UNCHANGED unrecorded
      <3>1. /\ UNCHANGED <<session, role, until, series, evaluated, started, decided, unrecorded, fine>>
            /\ daily' = NoJob /\ ~ Step("record")
        BY <1>3, <2>2 DEF DailyIsKilled, store, Evaluating, Step
      <3>2. LifecycleTypeOK'
        BY <3>1 DEF LifecycleInv, LifecycleTypeOK, NoJob
      <3> QED
        BY <3>1, <3>2, PlainStep DEF NoJob
    <2> QED
      BY <1>3, <2>1, <2>2 DEF DailyIsKilled
  <1> QED
    BY <1>1, <1>2, <1>3

-----------------------------------------------------------------------------
(* A new session, and the decisions of the operator.                       *)

\* A new month has started nothing yet.
LEMMA Passing ==
    ASSUME LifecycleInv, NewSession
    PROVE  LifecycleInv'
  <1>1. LifecycleTypeOK /\ CountsOK
    BY DEF LifecycleInv
  <1>2. /\ session' = session + 1 /\ session' \in Calendar
        /\ UNCHANGED <<role, until, series, evaluated, daily, started, decided, unrecorded, fine>>
        /\ daily = NoJob
    BY <1>1 DEF NewSession, aux, LifecycleTypeOK, Calendar
  <1>3. Present \in Nat \ {0} /\ Present' \in Nat \ {0} /\ Present <= Present' /\ Present' \in Months
    BY <1>1, <1>2, MonthType, MonthsFollow DEF LifecycleTypeOK, Present
  <1>4. \A x : Attempts(x)' = Attempts(x) /\ Starters(x)' = Starters(x)
    BY <1>2 DEF Attempts, Starters
  <1>5. LifecycleTypeOK'
    BY <1>1, <1>2 DEF LifecycleTypeOK
  <1>6. CountsOK' /\ RetrainIsAlone' /\ MonthsAreEvaluated' /\ ReportsAreTrue'
    BY <1>2 DEF LifecycleInv, CountsOK, RetrainIsAlone, MonthsAreEvaluated, ReportsAreTrue, Step, NoJob,
       DayOfMonth, Month
  <1>7. StartersExist'
    BY <1>1, <1>2, <1>3 DEF LifecycleInv, StartersExist, CountsOK
  <1>8. Present' # Present => Starters(Present') = {} /\ Attempts(Present') = 0
    <2>1. Present' # Present => Starters(Present') = {}
      BY <1>1, <1>3 DEF LifecycleInv, StartersExist, Starters, CountsOK
    <2> QED
      BY <2>1, AttemptsCount, FS_EmptySet
  <1>9. \A x : SettledOf(x)' = SettledOf(x)
    BY <1>2, <1>4 DEF SettledOf
  <1>10. decided[Present'] \in Nat /\ unrecorded[Present'] \in Nat
    BY <1>1, <1>3 DEF CountsOK
  <1>11. AttemptsAreSettled'
    <2>1. Cardinality(SettledOf(Present')) <= decided[Present']
      <3>1. CASE Present' = Present
        BY <3>1 DEF LifecycleInv, AttemptsAreSettled
      <3>2. CASE Present' # Present
        <4>1. SettledOf(Present') = {}
          BY <1>8, <3>2 DEF SettledOf
        <4> QED
          BY <1>10, <4>1, FS_EmptySet
      <3> QED
        BY <3>1, <3>2
    <2>2. Cardinality(SettledOf(Present))' <= decided'[Present']
      BY <1>2, <2>1 DEF SettledOf, Starters
    <2> QED
      BY <1>2, <1>4, <2>2 DEF LifecycleInv, AttemptsAreSettled
  <1>12. AttemptsAreRecorded'
    <2>1. Present' \notin evaluated /\ ~ Step("record") => Attempts(Present') <= unrecorded[Present']
      BY <1>8, <1>10 DEF LifecycleInv, AttemptsAreRecorded
    <2>2. Present' \notin evaluated' /\ ~ Step("record")' => Attempts(Present)' <= unrecorded'[Present']
      BY <1>2, <2>1 DEF Step, Attempts
    <2>3. ~ Evaluating'
      BY <1>2 DEF Evaluating, NoJob
    <2> QED
      BY <1>2, <1>4, <2>2, <2>3 DEF LifecycleInv, AttemptsAreRecorded
  <1> QED
    BY <1>5, <1>6, <1>7, <1>11, <1>12 DEF LifecycleInv

\* A challenger leaves the shadow, and the month counts the decision.
LEMMA Settling ==
    ASSUME LifecycleInv, NEW m \in ModelIds,
           Rejects(m) \/ \E c \in ModelIds : Promotes(m, c)
    PROVE  LifecycleInv'
  <1>1. LifecycleTypeOK /\ CountsOK /\ Present \in Months
    BY PresentType DEF LifecycleInv
  <1>2. /\ Settles /\ UNCHANGED <<session, until, series, evaluated, daily, started, unrecorded, fine>>
        /\ role' \in [ModelIds -> {"none", "shadow", "champion", "retired"}]
        /\ \A x \in ModelIds : role'[x] = "shadow" => role[x] = "shadow"
        /\ \A x \in ModelIds : x # m /\ role[x] = "shadow" => role'[x] = "shadow"
        /\ \A x \in ModelIds : role[x] # "none" => role'[x] # "none"
    BY <1>1 DEF Rejects, Promotes, LifecycleTypeOK
  <1>3. decided' = [decided EXCEPT ![Present] = @ + 1] /\ Present' = Present
    BY <1>2 DEF Settles, Present, Month
  <1>4. decided'[Present] = decided[Present] + 1 /\ decided[Present] \in Nat
    BY <1>1, <1>3 DEF CountsOK
  <1>5. CountsOK' /\ LifecycleTypeOK'
    BY <1>1, <1>2, <1>3, <1>4 DEF CountsOK, LifecycleTypeOK
  <1>6. /\ StartersExist' /\ RetrainIsAlone' /\ MonthsAreEvaluated' /\ ReportsAreTrue'
    BY <1>2, <1>3 DEF LifecycleInv, StartersExist, RetrainIsAlone, Challengers, WithRole, MonthsAreEvaluated,
       ReportsAreTrue, Step, DayOfMonth, Month
  <1>7. \A x : Attempts(x)' = Attempts(x) /\ Starters(x)' = Starters(x)
    BY <1>2 DEF Attempts, Starters
  <1>8. AttemptsAreRecorded'
    BY <1>2, <1>3, <1>7 DEF LifecycleInv, AttemptsAreRecorded, Step, Evaluating
  <1>9. AttemptsAreSettled'
    <2>1. \A x \in Months : Attempts(x) \in Nat /\ decided[x] \in Nat /\ decided'[x] \in Nat
                            /\ decided[x] <= decided'[x]
      BY <1>1, <1>3, <1>5, AttemptsCount DEF CountsOK
    <2>2. \A x \in Months : Attempts(x)' <= 1 + decided'[x]
      BY <1>7, <2>1 DEF LifecycleInv, AttemptsAreSettled
    <2>3. SettledOf(Present)' \subseteq SettledOf(Present) \union {m}
      BY <1>2, <1>3 DEF SettledOf, Starters
    <2>4. SettledOf(Present) \subseteq ModelIds /\ SettledOf(Present) \union {m} \subseteq ModelIds
      BY DEF SettledOf, Starters
    <2>5. Cardinality(SettledOf(Present) \union {m}) <= Cardinality(SettledOf(Present)) + 1
      <3>1. Cardinality(SettledOf(Present)) \in Nat
        BY <2>4, ModelsAreCounted
      <3>2. m \in SettledOf(Present) => SettledOf(Present) \union {m} = SettledOf(Present)
        OBVIOUS
      <3>3. m \notin SettledOf(Present) =>
                Cardinality(SettledOf(Present) \union {m}) = Cardinality(SettledOf(Present)) + 1
        BY <2>4, ModelsAreCounted
      <3>4. PICK n : n = Cardinality(SettledOf(Present))
        OBVIOUS
      <3>5. n \in Nat
        BY <3>1, <3>4
      <3>6. Cardinality(SettledOf(Present) \union {m}) \in {n, n + 1}
        BY <3>2, <3>3, <3>4, Zenon
      <3> QED
        BY <3>4, <3>5, <3>6
    <2>6. \A T \in SUBSET (SettledOf(Present) \union {m}) :
              Cardinality(T) <= Cardinality(SettledOf(Present) \union {m}) /\ Cardinality(T) \in Nat
      BY <2>4, ModelsAreCounted
    <2>7. Cardinality(SettledOf(Present)') <= decided'[Present]
      <3>1. Cardinality(SettledOf(Present)) <= decided[Present] /\ Cardinality(SettledOf(Present)) \in Nat
        BY <2>4, ModelsAreCounted DEF LifecycleInv, AttemptsAreSettled
      <3>2. Cardinality(SettledOf(Present) \union {m}) \in Nat
        BY <2>4, ModelsAreCounted
      <3> QED
        BY <1>4, <2>3, <2>5, <2>6, <3>1, <3>2
    <2> QED
      BY <1>3, <2>2, <2>7 DEF AttemptsAreSettled
  <1> QED
    BY <1>5, <1>6, <1>8, <1>9 DEF LifecycleInv

-----------------------------------------------------------------------------
(* The theorems.                                                           *)

LEMMA LifecycleInvInit == LifecycleInit => LifecycleInv
  <1> SUFFICES ASSUME LifecycleInit PROVE LifecycleInv
    OBVIOUS
  <1>1. LastSession \in Nat \ {0} /\ horizon \in Nat
    OBVIOUS
  <1>2. 1 \in Calendar /\ 0 \in -horizon .. LastSession
    BY <1>1 DEF Calendar
  <1>3. LifecycleTypeOK
    BY <1>2 DEF LifecycleInit, LifecycleTypeOK, NoJob
  <1>4. CountsOK /\ StartersExist /\ RetrainIsAlone /\ ReportsAreTrue /\ MonthsAreEvaluated
    BY DEF LifecycleInit, CountsOK, StartersExist, RetrainIsAlone, ReportsAreTrue, MonthsAreEvaluated, Step,
       NoJob
  <1>5. Present \in Months /\ \A x \in Months : x \in Nat \ {0}
    BY <1>3, PresentType, MonthType DEF Months
  <1>6. \A x \in Months : Attempts(x) = 0 /\ SettledOf(x) = {}
    <2>1. \A x \in Months : Starters(x) = {} /\ SettledOf(x) = {}
      BY <1>5 DEF LifecycleInit, Starters, SettledOf
    <2> QED
      BY <2>1, AttemptsCount, FS_EmptySet
  <1>7. decided = [x \in Months |-> 0] /\ unrecorded = [x \in Months |-> 0] /\ daily = NoJob
    BY DEF LifecycleInit
  <1>8. AttemptsAreSettled
    BY <1>5, <1>6, <1>7, FS_EmptySet DEF AttemptsAreSettled
  <1>9. AttemptsAreRecorded
    BY <1>5, <1>6, <1>7 DEF AttemptsAreRecorded, Evaluating, NoJob
  <1> QED
    BY <1>3, <1>4, <1>8, <1>9 DEF LifecycleInv

LEMMA LifecycleInvStep == LifecycleInv /\ [LifecycleNext]_lifecycleVars => LifecycleInv'
  <1> SUFFICES ASSUME LifecycleInv, [LifecycleNext]_lifecycleVars PROVE LifecycleInv'
    OBVIOUS
  <1>1. CASE NewSession
    BY <1>1, Passing
  <1>2. CASE \/ ShadowStarts \/ ShadowTurns \/ ShadowEnds \/ ShadowFails
             \/ \E b \in BOOLEAN : Monitors(b)
    BY <1>2, Scoring
  <1>3. CASE \/ \E m \in ModelIds : ShadowStores(m)
             \/ \E m \in ModelIds, from, to \in Calendar : Replays(m, from, to)
    BY <1>3, Storing
  <1>4. CASE \/ EvaluationIsDue \/ EvaluationIsNotDue \/ EvaluatesOnly \/ RetrainAddsNothing
             \/ \E b \in BOOLEAN : EvaluateRetrains(b)
    BY <1>4, Deciding
  <1>5. CASE \E m \in ModelIds : RetrainStarts(m)
    BY <1>5, Retraining
  <1>6. CASE EvaluationIsRecorded
    BY <1>6, RecordingMonth
  <1>7. CASE EvaluationFails \/ DailyEnds \/ DailyIsKilled
    BY <1>7, Ending
  <1>8. CASE \E m \in ModelIds : Rejects(m) \/ \E c \in ModelIds : Promotes(m, c)
    BY <1>8, Settling
  <1>9. CASE UNCHANGED lifecycleVars
    <2>1. LifecycleTypeOK'
      BY <1>9 DEF lifecycleVars, aux, LifecycleInv, LifecycleTypeOK
    <2> QED
      BY <1>9, <2>1, PlainStep DEF lifecycleVars
  <1> QED
    BY <1>1, <1>2, <1>3, <1>4, <1>5, <1>6, <1>7, <1>8, <1>9 DEF LifecycleNext

\* Every reachable state of the daily and monthly jobs has the invariant.
THEOREM LifecycleInvAlways == LifecycleSpec => []LifecycleInv
  BY LifecycleInvInit, LifecycleInvStep, PTL DEF LifecycleSpec

\* The tables of the lifecycle keep their types: a cut-off of a model's training
\* data lies at most a horizon before the record, a month is evaluated once it
\* has come.
THEOREM LifecycleTypeCorrect == LifecycleSpec => []LifecycleTypeOK
  <1>1. LifecycleInv => LifecycleTypeOK
    BY DEF LifecycleInv
  <1> QED
    BY <1>1, LifecycleInvAlways, PTL

\* The monthly evaluation is neither lost nor does it start a challenger beside
\* the one of the month, wherever its jobs are missed, fail or are killed.
THEOREM MonthsAreServedOnceAlways == LifecycleSpec => []MonthsAreServedOnce
  <1>1. LifecycleInv => MonthsAreServedOnce
    BY DEF LifecycleInv, AttemptsAreSettled, AttemptsAreRecorded, MonthsAreServedOnce, OneAttemptPerMonth
  <1> QED
    BY <1>1, LifecycleInvAlways, PTL
=============================================================================
