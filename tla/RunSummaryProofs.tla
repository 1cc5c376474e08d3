-------------------------- MODULE RunSummaryProofs --------------------------
(***************************************************************************)
(* The run log and its two caches, for any number of services, readers and *)
(* operators, any runs, rows and faults.                                    *)
(*                                                                         *)
(* None of the three properties is inductive.  What is cached is sound only *)
(* if what every process is about to cache is; an answer names the last run *)
(* only if rows are in the order of their runs; and --doctor accepts what a *)
(* rebuild leaves only if, while nothing fails or overlaps, the one process *)
(* at work holds what a scan of the log finds.  That scan is a fold over    *)
(* the rows; its closed form is proved by least-element induction (CaughtUpIs). *)
(***************************************************************************)
EXTENDS RunSummary, TLAPS, NaturalsInduction, WellFoundedInduction

\* What a scan of the rows behind `from`, up to the k-th, makes of a summary.
Tally(rows, summary, from, k) ==
    [run |-> IF k = from THEN summary.run ELSE rows[k].run,
     success |-> LET ok == {i \in (from + 1)..k : rows[i].ok} IN
                 IF ok = {} THEN summary.success
                 ELSE rows[CHOOSE m \in ok : \A i \in ok : i <= m].run]

\* What a scan of the whole log finds, and of all but its last row.
ScanOf(rows) == Tally(rows, NoSummary, 0, Len(rows))
Before(rows) == Tally(rows, NoSummary, 0, Len(rows) - 1)

\* Rows are in the order of their runs, and no more than there were runs.
Ordered(rows, last) ==
    /\ Len(rows) <= last
    /\ \A i \in DOMAIN rows : rows[i].run <= last
    /\ \A i, j \in DOMAIN rows : i < j => rows[i].run < rows[j].run

\* Who may be where; files are put back only in a restore.
Place(p, label, j, rows, half) ==
    /\ p \in Runners => label \in {"idle", "opened", "appended", "index", "snapshot"}
    /\ p \in Readers => label \in {"idle", "payload", "state", "scan", "index",
                                   "snapshot", "answered"}
    /\ p \in Operators => label \in {"idle", "measured", "index", "snapshot", "copy_state",
                                     "copy_index", "put_state", "put_index", "rebuild"}
    /\ label \in {"put_state", "put_index"} => half
    /\ label = "opened" => j.offset <= Len(rows)
    /\ label = "appended" => j.eof \in DOMAIN rows /\ j.offset < j.eof
    /\ label = "measured" => j.eof <= Len(rows)

Places == \A p \in Procs : Place(p, pc[p], job[p], runs, halfRestored)

\* Before the first run there is nothing to cache, archive or restore.
NothingYet ==
    runs = <<>> =>
        /\ index = NoIndex /\ snapshot = NoSummary /\ archived.runs = <<>>
        /\ \A p \in Procs : pc[p] \notin {"appended", "payload", "index", "snapshot",
                                          "put_state", "put_index", "rebuild"}

\* Sound and SkipsNothing, of the rows of any moment.
SoundIn(rows, summary) ==
    summary # NoSummary =>
        \E k \in DOMAIN rows :
            /\ rows[k].run = summary.run
            /\ summary.success = 0
               \/ \E i \in DOMAIN rows : rows[i].ok /\ rows[i].run = summary.success

SkipsIn(rows, summary, offset, eof) ==
    \E k \in DOMAIN rows : rows[k].run = summary.run /\ offset < k /\ eof <= k

FilesSound(rows, snap, idx) ==
    /\ SoundIn(rows, snap) /\ SoundIn(rows, idx.summary)
    /\ idx = NoIndex \/ SkipsIn(rows, idx.summary, idx.offset, idx.eof)

\* What a process is about to write or answer, and the index it has read.
JobSound(rows, p, label, j) ==
    /\ label \in {"payload", "index", "snapshot", "answered"} => SoundIn(rows, j.summary)
    /\ label \in {"payload", "index"} => SkipsIn(rows, j.summary, j.offset, j.eof)
    /\ p \in Readers /\ label # "idle" => j.since <= Len(rows)
    /\ p \in Readers /\ label \in {"index", "snapshot", "answered"}
       /\ ~j.guess /\ j.since > 0 => j.summary.run >= rows[j.since].run

SoundInv ==
    ~halfRestored =>
        /\ FilesSound(runs, snapshot, index)
        /\ \A p \in Procs : JobSound(runs, p, pc[p], job[p])

\* At work on the files, or on an answer from them.
Busy(label) == label \notin {"idle", "copy_state", "copy_index"}

\* What an undisturbed scan or append leaves: all of the log, and its last row.
AtEnd(rows, x) ==
    /\ rows # <<>> /\ x.summary = ScanOf(rows)
    /\ x.offset = Len(rows) - 1 /\ x.eof = Len(rows)

DoctorAt(rows, snap, idx) ==
    /\ snap = ScanOf(rows)
    /\ idx = NoIndex \/ AtEnd(rows, idx)

\* How far the one process at work is, and what it has left to do.
Phase(rows, snap, idx, label, j) ==
    /\ label = "opened" => DoctorAt(rows, snap, idx) /\ j.offset = Len(rows)
    /\ label = "appended" =>
          /\ rows # <<>> /\ j.offset = Len(rows) - 1 /\ j.eof = Len(rows)
          /\ snap = Before(rows) /\ (idx = NoIndex \/ idx.summary = Before(rows))
    /\ label = "index" => AtEnd(rows, j)
    /\ label = "snapshot" => AtEnd(rows, idx) /\ j.summary = ScanOf(rows)
    /\ label = "payload" => DoctorAt(rows, snap, idx) /\ idx # NoIndex /\ AtEnd(rows, j)
    /\ label \in {"payload", "state", "scan"} => j.since = Len(rows)
    /\ label \in {"state", "scan", "answered"} => DoctorAt(rows, snap, idx)
    /\ label = "measured" => j.eof = Len(rows)

ExactInv ==
    exact =>
        /\ \A p, q \in Procs : Busy(pc[p]) /\ Busy(pc[q]) => p = q
        /\ (\A p \in Procs : ~Busy(pc[p])) => DoctorAt(runs, snapshot, index)
        /\ \A p \in Procs : Phase(runs, snapshot, index, pc[p], job[p])

IInv ==
    /\ TypeOK /\ Ordered(runs, begun) /\ Ordered(archived.runs, begun)
    /\ Places /\ NothingYet /\ SoundInv /\ ExactInv
-----------------------------------------------------------------------------
(* Numbers and tallies.                                                     *)

\* A set of numbers has a least one.
LEMMA Least ==
    ASSUME NEW S \in SUBSET Nat, S # {}
    PROVE  \E m \in S : \A x \in S : m <= x
<1> DEFINE R == OpToRel(<, Nat)
<1>1. PICK m \in S : \A x \in S : ~(<<x, m>> \in R)
  <2>1. IsWellFoundedOn(R, Nat)
    BY NatLessThanWellFounded
  <2> HIDE DEF R
  <2> QED BY <2>1, WFMin
<1>2. ASSUME NEW x \in S PROVE m <= x
  <2>1. x \in Nat /\ m \in Nat /\ ~(<<x, m>> \in R)
    BY <1>1
  <2>2. (x < m) => (<<x, m>> \in R)
    BY <2>1, Zenon DEF OpToRel
  <2>3. ~(x < m)
    BY <2>1, <2>2, Zenon
  <2>4. x \in Nat /\ m \in Nat
    OBVIOUS
  <2> HIDE DEF R
  <2> QED BY <2>3, <2>4
<1> QED BY <1>2

\* And a bounded set of numbers a greatest one.
LEMMA Greatest ==
    ASSUME NEW n \in Nat, NEW S \in SUBSET (0..n), S # {}
    PROVE  \E m \in S : \A x \in S : x <= m
<1> DEFINE T == {n - x : x \in S}
<1>0. \A x \in S : x \in Int /\ 0 <= x /\ x <= n /\ n - x \in Nat
  OBVIOUS
<1>1. T \in SUBSET Nat /\ T # {}
  BY <1>0
<1>2. PICK m \in T : \A x \in T : m <= x
  BY <1>1, Least
<1>3. PICK y \in S : m = n - y
  OBVIOUS
<1>4. ASSUME NEW x \in S PROVE x <= y
  <2>1. n - x \in T
    OBVIOUS
  <2>2. n - y <= n - x
    BY <1>2, <1>3, <2>1
  <2> QED BY <1>0, <2>2
<1> QED BY <1>4

Successes(rows, from, k) == {i \in (from + 1)..k : rows[i].ok}

\* What a tally says is a run of the log, or what the summary said.
LEMMA TallyIs ==
    ASSUME NEW rows \in Seq(Row), NEW summary \in Summary,
           NEW from \in 0..Len(rows), NEW k \in from..Len(rows)
    PROVE  LET t == Tally(rows, summary, from, k) IN
           /\ t \in Summary
           /\ t.run = IF k = from THEN summary.run ELSE rows[k].run
           /\ t.success = summary.success
              \/ \E i \in DOMAIN rows : rows[i].ok /\ rows[i].run = t.success
<1> DEFINE ok == Successes(rows, from, k)
           t  == Tally(rows, summary, from, k)
           best == CHOOSE m \in ok : \A i \in ok : i <= m
<1>1. Len(rows) \in Nat /\ DOMAIN rows = 1..Len(rows)
      /\ \A i \in 1..Len(rows) : rows[i] \in Row
  OBVIOUS
<1>2. t = [run |-> IF k = from THEN summary.run ELSE rows[k].run,
           success |-> IF ok = {} THEN summary.success ELSE rows[best].run]
  BY DEF Tally, Successes
<1>3. ok \subseteq 1..Len(rows) /\ \A i \in ok : rows[i].ok
  BY <1>1 DEF Successes
<1>4. ok # {} => best \in ok
  <2> SUFFICES ASSUME ok # {} PROVE \E m \in ok : \A i \in ok : i <= m
    OBVIOUS
  <2>1. ok \in SUBSET (0..Len(rows))
    BY <1>1, <1>3
  <2> HIDE DEF ok
  <2> QED BY <1>1, <2>1, Greatest
<1>5. summary.run \in 0..MaxRuns /\ summary.success \in 0..MaxRuns
      /\ \A i \in 1..Len(rows) : rows[i].run \in 0..MaxRuns
  BY <1>1, MaxRunsNat DEF Summary, Row
<1>6. k # from => k \in 1..Len(rows)
  BY <1>1
<1> HIDE DEF ok, best, t
<1>7. /\ t.run = IF k = from THEN summary.run ELSE rows[k].run
      /\ t.success = IF ok = {} THEN summary.success ELSE rows[best].run
  BY <1>2
<1>8. t \in Summary
  <2>1. t.run \in 0..MaxRuns /\ t.success \in 0..MaxRuns
    BY <1>3, <1>4, <1>5, <1>6, <1>7
  <2>2. t = [run |-> t.run, success |-> t.success]
    BY <1>2, <1>7
  <2> QED BY <2>1, <2>2 DEF Summary
<1>9. t.success = summary.success
      \/ \E i \in DOMAIN rows : rows[i].ok /\ rows[i].run = t.success
  BY <1>1, <1>3, <1>4, <1>7
<1>10. /\ t \in Summary
       /\ t.run = IF k = from THEN summary.run ELSE rows[k].run
       /\ t.success = summary.success
          \/ \E i \in DOMAIN rows : rows[i].ok /\ rows[i].run = t.success
  BY <1>7, <1>8, <1>9
<1> QED BY <1>10 DEF t

\* The next row extends a tally.
LEMMA TallyStep ==
    ASSUME NEW rows \in Seq(Row), NEW summary \in Summary,
           NEW from \in 0..Len(rows), NEW k \in (from + 1)..Len(rows)
    PROVE  Tally(rows, summary, from, k) =
               Extended(Tally(rows, summary, from, k - 1), rows[k])
<1> DEFINE ok(n)   == Successes(rows, from, n)
           best(n) == CHOOSE m \in ok(n) : \A i \in ok(n) : i <= m
<1>1. k \in Nat /\ k - 1 \in Nat /\ from \in Nat /\ k # from
  OBVIOUS
<1>2. /\ Tally(rows, summary, from, k).success =
            IF ok(k) = {} THEN summary.success ELSE rows[best(k)].run
      /\ Tally(rows, summary, from, k - 1).success =
            IF ok(k - 1) = {} THEN summary.success ELSE rows[best(k - 1)].run
  BY DEF Tally, Successes
<1>3. CASE rows[k].ok
  <2>1. k \in ok(k) /\ \A i \in ok(k) : i <= k /\ i \in Nat
    BY <1>1, <1>3 DEF Successes
  <2> HIDE DEF ok
  <2>2. best(k) = k
    <3>1. best(k) \in ok(k) /\ k <= best(k)
      BY <2>1
    <3> HIDE DEF best
    <3> QED BY <1>1, <2>1, <3>1
  <2> HIDE DEF best
  <2>3. Tally(rows, summary, from, k).success = rows[k].run
    BY <1>2, <2>1, <2>2
  <2> QED BY <1>1, <1>3, <2>3 DEF Tally, Extended
<1>4. CASE ~rows[k].ok
  <2>1. ok(k) = ok(k - 1)
    BY <1>1, <1>4 DEF Successes
  <2> HIDE DEF ok
  <2>0. best(k) = best(k - 1)
    BY <2>1, Zenon
  <2> HIDE DEF best
  <2>2. Tally(rows, summary, from, k).success = Tally(rows, summary, from, k - 1).success
    BY <1>2, <2>0, <2>1
  <2> QED BY <1>1, <1>4, <2>2 DEF Tally, Extended
<1> QED BY <1>3, <1>4

\* CaughtUp, which goes through the rows one by one, ends with the tally.
LEMMA CaughtUpIs ==
    ASSUME runs \in Seq(Row), NEW summary \in Summary, NEW from \in 0..Len(runs)
    PROVE  CaughtUp(summary, from) = Tally(runs, summary, from, Len(runs))
<1> DEFINE N == Len(runs)
           Step(f, k) == IF k = from THEN summary ELSE Extended(f[k - 1], runs[k])
           tally == [k \in from..N |-> Tally(runs, summary, from, k)]
           upTo == CHOOSE f : f = [k \in from..N |-> Step(f, k)]
<1>1. N \in Nat /\ from \in Nat /\ from <= N /\ N \in from..N
  OBVIOUS
<1>2. Tally(runs, summary, from, from) = summary
  <2>1. {i \in (from + 1)..from : runs[i].ok} = {}
    BY <1>1
  <2> QED BY <2>1 DEF Tally, Summary
<1>3. tally = [k \in from..N |-> Step(tally, k)]
  <2>1. ASSUME NEW k \in from..N PROVE tally[k] = Step(tally, k)
    <3>1. CASE k = from
      BY <1>2, <3>1
    <3>2. CASE k # from
      <4>1. k \in (from + 1)..N /\ k - 1 \in from..N
        BY <1>1, <3>2
      <4>2. tally[k] = Extended(Tally(runs, summary, from, k - 1), runs[k])
        BY <4>1, TallyStep
      <4> QED BY <3>2, <4>1, <4>2
    <3> QED BY <3>1, <3>2
  <2> QED BY <2>1
<1>4. upTo = [k \in from..N |-> Step(upTo, k)]
  <2> HIDE DEF tally
  <2> QED BY <1>3
<1>5. CaughtUp(summary, from) = upTo[N]
  BY DEF CaughtUp
<1> HIDE DEF upTo
<1>6. \A k \in from..N : upTo[k] = tally[k]
  <2> DEFINE Wrong == {k \in from..N : upTo[k] # tally[k]}
  <2> SUFFICES ASSUME Wrong # {} PROVE FALSE
    OBVIOUS
  <2>1. Wrong \in SUBSET Nat
    BY <1>1
  <2>2. PICK k \in Wrong : \A x \in Wrong : k <= x
    BY <2>1, Least
  <2>3. k \in from..N /\ upTo[k] = Step(upTo, k) /\ tally[k] = Step(tally, k)
    BY <1>3, <1>4
  <2>4. CASE k = from
    BY <2>2, <2>3, <2>4
  <2>5. CASE k # from
    <3>1. k - 1 \in from..N /\ ~(k <= k - 1)
      BY <1>1, <2>3, <2>5
    <3>2. upTo[k - 1] = tally[k - 1]
      BY <2>2, <3>1
    <3> QED BY <2>2, <2>3, <2>5, <3>2
  <2> QED BY <2>4, <2>5
<1> QED BY <1>1, <1>5, <1>6

\* A tally of no rows is the summary it began with.
LEMMA TallyOfNothing ==
    ASSUME NEW rows \in Seq(Row), NEW summary \in Summary, NEW from \in 0..Len(rows)
    PROVE  Tally(rows, summary, from, from) = summary
<1>1. from \in Nat
  OBVIOUS
<1>2. {i \in (from + 1)..from : rows[i].ok} = {}
  BY <1>1
<1> QED BY <1>2 DEF Tally, Summary

LEMMA NothingSound ==
    /\ NoSummary \in Summary /\ NoSummary.run = 0 /\ NoSummary.success = 0
    /\ \A rows : SoundIn(rows, NoSummary)
BY MaxRunsNat DEF NoSummary, Summary, SoundIn

\* What a scan finds is in the log; of an empty log it finds nothing.
LEMMA ScanIs ==
    ASSUME NEW rows \in Seq(Row)
    PROVE  /\ ScanOf(rows) \in Summary
           /\ SoundIn(rows, ScanOf(rows))
           /\ rows # <<>> => /\ Len(rows) \in DOMAIN rows
                             /\ rows[Len(rows)].run = ScanOf(rows).run
           /\ rows = <<>> => ScanOf(rows) = NoSummary
<1>1. Len(rows) \in Nat /\ DOMAIN rows = 1..Len(rows) /\ (rows = <<>> <=> Len(rows) = 0)
  OBVIOUS
<1> DEFINE t == ScanOf(rows)
<1>2. /\ t \in Summary
      /\ t.run = IF Len(rows) = 0 THEN 0 ELSE rows[Len(rows)].run
      /\ t.success = 0 \/ \E i \in DOMAIN rows : rows[i].ok /\ rows[i].run = t.success
  <2>1. 0 \in 0..Len(rows) /\ Len(rows) \in 0..Len(rows)
    BY <1>1
  <2>2. t = Tally(rows, NoSummary, 0, Len(rows))
    BY DEF ScanOf
  <2> HIDE DEF t
  <2>3. /\ t \in Summary
        /\ t.run = IF Len(rows) = 0 THEN NoSummary.run ELSE rows[Len(rows)].run
        /\ t.success = NoSummary.success
           \/ \E i \in DOMAIN rows : rows[i].ok /\ rows[i].run = t.success
    BY <2>1, <2>2, NothingSound, TallyIs
  <2> QED BY <2>3, NothingSound
<1>3. rows = <<>> => t = NoSummary
  <2>1. rows = <<>> => 0 \in 0..Len(rows) /\ Len(rows) = 0
    BY <1>1
  <2> QED BY <2>1, NothingSound, TallyOfNothing DEF ScanOf
<1> HIDE DEF t
<1>4. rows # <<>> => Len(rows) \in DOMAIN rows /\ rows[Len(rows)].run = t.run
  BY <1>1, <1>2
<1>5. SoundIn(rows, t)
  BY <1>2, <1>3, <1>4, NothingSound DEF SoundIn
<1> QED BY <1>2, <1>3, <1>4, <1>5 DEF t

\* What ends with the last row of the log skips none of it.
LEMMA LastRow ==
    ASSUME NEW rows \in Seq(Row), rows # <<>>, NEW s, rows[Len(rows)].run = s.run
    PROVE  \A eof \in 0..Len(rows) : SkipsIn(rows, s, Len(rows) - 1, eof)
<1>1. Len(rows) \in DOMAIN rows /\ Len(rows) \in Nat
  OBVIOUS
<1>2. \A eof \in 0..Len(rows) : Len(rows) - 1 < Len(rows) /\ eof <= Len(rows)
  BY <1>1
<1> QED BY <1>1, <1>2 DEF SkipsIn

LEMMA AtEndSound ==
    ASSUME NEW rows \in Seq(Row), NEW x, AtEnd(rows, x)
    PROVE  SoundIn(rows, x.summary) /\ SkipsIn(rows, x.summary, x.offset, x.eof)
<1>1. /\ rows # <<>> /\ x.summary = ScanOf(rows)
      /\ x.offset = Len(rows) - 1 /\ x.eof = Len(rows) /\ Len(rows) \in 0..Len(rows)
  BY DEF AtEnd
<1>2. rows[Len(rows)].run = x.summary.run /\ SoundIn(rows, x.summary)
  BY <1>1, ScanIs
<1>3. \A eof \in 0..Len(rows) : SkipsIn(rows, x.summary, Len(rows) - 1, eof)
  BY <1>1, <1>2, LastRow
<1> QED BY <1>1, <1>2, <1>3

\* _build_summary_from_runs, which looks back from the last row, agrees with a scan.
LEMMA BuiltIsScan ==
    ASSUME NEW rows \in Seq(Row), rows # <<>>
    PROVE  Built(rows) = ScanOf(rows)
<1>1. Len(rows) \in Nat /\ Len(rows) # 0 /\ DOMAIN rows = (0 + 1)..Len(rows)
  OBVIOUS
<1>2. {k \in DOMAIN rows : rows[k].ok} = {i \in (0 + 1)..Len(rows) : rows[i].ok}
  BY <1>1
<1> DEFINE ok == {k \in DOMAIN rows : rows[k].ok}
           best == CHOOSE k \in ok : \A i \in ok : i <= k
           all == {i \in (0 + 1)..Len(rows) : rows[i].ok}
           last == CHOOSE k \in all : \A i \in all : i <= k
<1>3. Built(rows) = [run |-> rows[Len(rows)].run,
                     success |-> IF ok = {} THEN 0 ELSE rows[best].run]
  BY Zenon DEF Built
<1>4. ScanOf(rows) = [run |-> IF Len(rows) = 0 THEN NoSummary.run ELSE rows[Len(rows)].run,
                      success |-> IF all = {} THEN NoSummary.success ELSE rows[last].run]
  BY Zenon DEF ScanOf, Tally
<1>5. ok = all
  BY <1>2
<1> HIDE DEF ok, all
<1>6. best = last
  BY <1>5, Zenon
<1> HIDE DEF best, last
<1> QED BY <1>1, <1>3, <1>4, <1>5, <1>6, NothingSound

\* A row that is appended takes nothing from what was true of the log.
LEMMA AppendSound ==
    ASSUME NEW rows \in Seq(Row), NEW row \in Row
    PROVE  /\ \A s : SoundIn(rows, s) => SoundIn(Append(rows, row), s)
           /\ \A s, offset, eof : SkipsIn(rows, s, offset, eof)
                                  => SkipsIn(Append(rows, row), s, offset, eof)
<1> DEFINE more == Append(rows, row)
<1>1. /\ DOMAIN rows \subseteq DOMAIN more
      /\ \A i \in DOMAIN rows : more[i] = rows[i]
  OBVIOUS
<1> HIDE DEF more
<1>2. \A s : SoundIn(rows, s) => SoundIn(more, s)
  BY <1>1 DEF SoundIn
<1>3. \A s, offset, eof : SkipsIn(rows, s, offset, eof) => SkipsIn(more, s, offset, eof)
  BY <1>1 DEF SkipsIn
<1> QED BY <1>2, <1>3 DEF more

\* Nor from what a process has in hand.
LEMMA AppendJobSound ==
    ASSUME NEW rows \in Seq(Row), NEW row \in Row, NEW p \in Procs, NEW label,
           NEW j \in Job, JobSound(rows, p, label, j)
    PROVE  JobSound(Append(rows, row), p, label, j)
<1> DEFINE more == Append(rows, row)
<1>1. /\ Len(rows) \in Nat /\ Len(more) = Len(rows) + 1
      /\ DOMAIN rows = 1..Len(rows)
      /\ \A i \in DOMAIN rows : more[i] = rows[i]
  OBVIOUS
<1>2. /\ \A s : SoundIn(rows, s) => SoundIn(more, s)
      /\ \A s, offset, eof : SkipsIn(rows, s, offset, eof) => SkipsIn(more, s, offset, eof)
  BY AppendSound
<1> HIDE DEF more
<1>3. j.since \in Nat
  BY MaxRunsNat DEF Job
<1>4. p \in Readers /\ label # "idle" => j.since <= Len(rows) /\ j.since <= Len(more)
  BY <1>1, <1>3 DEF JobSound
<1>5. p \in Readers /\ label # "idle" /\ j.since > 0 => more[j.since] = rows[j.since]
  BY <1>1, <1>3, <1>4
<1>6. JobSound(more, p, label, j)
  BY <1>2, <1>4, <1>5 DEF JobSound
<1> QED BY <1>6 DEF more

\* Before the last row stood what a scan found when it was not there yet.
LEMMA AppendScan ==
    ASSUME NEW rows \in Seq(Row), NEW row \in Row
    PROVE  Before(Append(rows, row)) = ScanOf(rows)
<1> DEFINE more == Append(rows, row)
           N == Len(rows)
           ok == {i \in (0 + 1)..N : rows[i].ok}
           best == CHOOSE m \in ok : \A i \in ok : i <= m
<1>1. /\ N \in Nat /\ Len(more) - 1 = N
      /\ \A i \in (0 + 1)..N : more[i] = rows[i]
      /\ N # 0 => more[N] = rows[N]
  OBVIOUS
<1>2. {i \in (0 + 1)..N : more[i].ok} = ok
  BY <1>1
<1>3. ok # {} => best \in (0 + 1)..N
  <2> SUFFICES ASSUME ok # {} PROVE \E m \in ok : \A i \in ok : i <= m
    OBVIOUS
  <2>1. ok \in SUBSET (0..N)
    BY <1>1
  <2> HIDE DEF ok
  <2> QED BY <1>1, <2>1, Greatest
<1>4. Before(more) = [run |-> IF N = 0 THEN 0 ELSE more[N].run,
                      success |-> IF ok = {} THEN 0 ELSE more[best].run]
  <2>1. Before(more) = Tally(more, NoSummary, 0, N)
    BY <1>1, Zenon DEF Before
  <2> HIDE DEF more, N
  <2> QED BY <1>2, <2>1, NothingSound, Zenon DEF Tally
<1>5. ScanOf(rows) = [run |-> IF N = 0 THEN NoSummary.run ELSE rows[N].run,
                      success |-> IF ok = {} THEN NoSummary.success ELSE rows[best].run]
  BY Zenon DEF Tally, ScanOf
<1> HIDE DEF best, ok, more, N
<1>6. Before(more) = ScanOf(rows)
  BY <1>1, <1>3, <1>4, <1>5, NothingSound
<1> QED BY <1>6 DEF more

\* The order is kept by a row of a later run.
LEMMA AppendOrdered ==
    ASSUME NEW rows \in Seq(Row), NEW last \in Nat, Ordered(rows, last),
           NEW row \in Row, row.run = last + 1
    PROVE  Ordered(Append(rows, row), last + 1)
<1> DEFINE more == Append(rows, row)
<1>1. /\ Len(rows) \in Nat /\ Len(more) = Len(rows) + 1
      /\ DOMAIN rows = 1..Len(rows) /\ DOMAIN more = 1..Len(more)
      /\ \A i \in DOMAIN rows : more[i] = rows[i] /\ rows[i] \in Row
      /\ more[Len(more)] = row
  OBVIOUS
<1>0. \A r \in Row : r.run \in Nat
  BY MaxRunsNat DEF Row
<1>2. \A i \in DOMAIN more : i \in DOMAIN rows \/ i = Len(more)
  BY <1>1
<1> HIDE DEF more
<1>3. \A i \in DOMAIN rows : more[i].run <= last /\ more[i].run \in Nat
  BY <1>0, <1>1 DEF Ordered
<1>4. \A i \in DOMAIN more : more[i].run <= last + 1
  BY <1>1, <1>2, <1>3
<1>5. ASSUME NEW i \in DOMAIN more, NEW j \in DOMAIN more, i < j
      PROVE  more[i].run < more[j].run
  <2>1. i \in DOMAIN rows
    BY <1>1, <1>5
  <2>2. CASE j \in DOMAIN rows
    BY <1>1, <1>5, <2>1, <2>2 DEF Ordered
  <2>3. CASE j = Len(more)
    BY <1>1, <1>3, <2>1, <2>3
  <2> QED BY <1>2, <2>2, <2>3
<1>6. Len(more) <= last + 1
  BY <1>1 DEF Ordered
<1> QED BY <1>4, <1>5, <1>6 DEF Ordered, more

\* The rows behind an index that skips none, taken into its summary, name the
\* last run.
LEMMA CaughtUpSound ==
    ASSUME NEW rows \in Seq(Row), NEW s \in Summary, NEW offset, NEW eof \in 0..Len(rows),
           SoundIn(rows, s), SkipsIn(rows, s, offset, eof)
    PROVE  LET t == Tally(rows, s, eof, Len(rows)) IN
           t \in Summary /\ SoundIn(rows, t) /\ rows # <<>> /\ rows[Len(rows)].run = t.run
<1> DEFINE t == Tally(rows, s, eof, Len(rows))
<1>1. /\ Len(rows) \in Nat /\ DOMAIN rows = 1..Len(rows) /\ eof \in Nat
      /\ (rows = <<>> <=> Len(rows) = 0)
  OBVIOUS
<1>0. PICK k \in DOMAIN rows : rows[k].run = s.run /\ eof <= k
  BY DEF SkipsIn
<1>2. /\ t \in Summary
      /\ t.run = IF Len(rows) = eof THEN s.run ELSE rows[Len(rows)].run
      /\ t.success = s.success
         \/ \E i \in DOMAIN rows : rows[i].ok /\ rows[i].run = t.success
  <2>1. Len(rows) \in eof..Len(rows)
    BY <1>1
  <2> QED BY <2>1, TallyIs
<1> HIDE DEF t
<1>3. Len(rows) \in DOMAIN rows /\ rows # <<>> /\ rows[Len(rows)].run = t.run
  <2>1. Len(rows) \in DOMAIN rows /\ rows # <<>>
    BY <1>0, <1>1
  <2>2. CASE Len(rows) = eof
    <3>1. k = Len(rows)
      BY <1>0, <1>1, <2>2
    <3> QED BY <1>0, <1>2, <2>1, <2>2, <3>1
  <2>3. CASE Len(rows) # eof
    BY <1>2, <2>1, <2>3
  <2> QED BY <2>2, <2>3
<1>4. s.success = 0 \/ \E i \in DOMAIN rows : rows[i].ok /\ rows[i].run = s.success
  BY NothingSound DEF SoundIn
<1>5. SoundIn(rows, t)
  BY <1>2, <1>3, <1>4 DEF SoundIn
<1> QED BY <1>2, <1>3, <1>5 DEF t

\* The summary of a run that extends what it found in a cache.
LEMMA ExtendedSound ==
    ASSUME NEW rows \in Seq(Row), NEW s \in Summary, NEW k \in DOMAIN rows
    PROVE  LET t == Extended(s, rows[k]) IN
           /\ t \in Summary /\ rows[k].run = t.run
           /\ SoundIn(rows, s) => SoundIn(rows, t)
<1> DEFINE t == Extended(s, rows[k])
<1>1. rows[k] \in Row
  OBVIOUS
<1>2. /\ t.run = rows[k].run /\ t.run \in 0..MaxRuns
      /\ t.success = IF rows[k].ok THEN rows[k].run ELSE s.success
      /\ t.success \in 0..MaxRuns
      /\ t = [run |-> t.run, success |-> t.success]
  BY <1>1, MaxRunsNat DEF Extended, Row, Summary
<1> HIDE DEF t
<1>3. t \in Summary
  BY <1>2 DEF Summary
<1>4. ASSUME SoundIn(rows, s) PROVE SoundIn(rows, t)
  <2>1. s.success = 0 \/ \E i \in DOMAIN rows : rows[i].ok /\ rows[i].run = s.success
    BY <1>4, NothingSound DEF SoundIn
  <2> QED BY <1>2, <2>1 DEF SoundIn
<1> QED BY <1>2, <1>3, <1>4 DEF t

\* The last row names the last run that was recorded since a reader began.
LEMMA SinceLast ==
    ASSUME NEW rows \in Seq(Row), NEW last \in Nat, Ordered(rows, last),
           NEW s, rows[Len(rows)].run = s.run, NEW since \in Nat, since > 0,
           since <= Len(rows)
    PROVE  s.run >= rows[since].run
<1>1. /\ Len(rows) \in Nat /\ since \in DOMAIN rows /\ Len(rows) \in DOMAIN rows
      /\ rows[since] \in Row /\ rows[Len(rows)] \in Row
  OBVIOUS
<1>2. rows[since].run \in Nat /\ rows[Len(rows)].run \in Nat
  BY <1>1, MaxRunsNat DEF Row
<1>3. CASE since = Len(rows)
  BY <1>2, <1>3
<1>4. CASE since # Len(rows)
  <2>1. since < Len(rows)
    BY <1>1, <1>4
  <2>2. rows[since].run < rows[Len(rows)].run
    BY <1>1, <2>1 DEF Ordered
  <2> QED BY <1>2, <2>2
<1> QED BY <1>3, <1>4
-----------------------------------------------------------------------------
(* Types.                                                                   *)

\* The step of one process; the others stay where they are.
Acts(p) ==
    \/ p \in Runners /\ (Open(p) \/ AppendRun(p) \/ ReadPrevious(p))
    \/ p \in Readers /\ Read(p)
    \/ p \in Operators /\ Operate(p)
    \/ WriteIndex(p) \/ WriteSnapshot(p) \/ WriteIndexFails(p)
    \/ WriteSnapshotFails(p) \/ Crash(p)

LEMMA NextActs == ASSUME Next PROVE \E p \in Procs : Acts(p)
BY Zenon DEF Next, Write, WriteFails, Procs, Acts

\* What Current(p) is when the index it starts from fits the log.
LEMMA CurrentIs ==
    ASSUME TypeOK, NEW p \in Procs, Fits(IndexEntry(p))
    PROVE  /\ job[p].summary \in Summary /\ job[p].eof \in 0..Len(runs)
           /\ runs # <<>>
           /\ Current(p) = Tally(runs, job[p].summary, job[p].eof, Len(runs))
           /\ Current(p) \in Summary
<1>1. /\ runs \in Seq(Row) /\ Len(runs) \in Nat /\ DOMAIN runs = 1..Len(runs)
      /\ job[p] \in Job
  BY DEF TypeOK
<1>2. job[p].summary \in Summary /\ job[p].eof \in Nat
  BY <1>1, MaxRunsNat DEF Job
<1>3. job[p].eof <= Len(runs) /\ job[p].offset + 1 \in DOMAIN runs
  BY DEF Fits, IndexEntry
<1>4. /\ job[p].eof \in 0..Len(runs) /\ Len(runs) \in job[p].eof..Len(runs)
      /\ runs # <<>>
  BY <1>1, <1>2, <1>3
<1>5. Current(p) = Tally(runs, job[p].summary, job[p].eof, Len(runs))
  BY <1>1, <1>2, <1>4, CaughtUpIs DEF Current
<1>6. Tally(runs, job[p].summary, job[p].eof, Len(runs)) \in Summary
  BY <1>1, <1>2, <1>4, TallyIs
<1> QED BY <1>2, <1>4, <1>5, <1>6

LEMMA NoJobOK == /\ NoJob \in Job /\ NoIndex \in Index
                 /\ NoArchive \in [runs: Seq(Row), snapshot: Summary, index: Index]
                 /\ NoArchive.runs = <<>> /\ NoArchive.snapshot = NoSummary
<1>1. 0 \in 0..MaxRuns
  BY MaxRunsNat
<1>2. NoJob \in Job
  BY <1>1, NothingSound DEF NoJob, Job
<1>3. NoIndex \in Index
  BY <1>1, NothingSound DEF NoIndex, Index
<1>4. NoArchive \in [runs: Seq(Row), snapshot: Summary, index: Index]
  <2>1. <<>> \in Seq(Row)
    OBVIOUS
  <2> QED BY <1>3, <2>1, NothingSound DEF NoArchive
<1> QED BY <1>2, <1>3, <1>4 DEF NoArchive

\* The fields of a job stay in their sets.
LEMMA JobFields ==
    ASSUME NEW j \in Job, NEW s \in Summary, NEW o \in 0..MaxRuns, NEW e \in 0..MaxRuns
    PROVE  /\ [j EXCEPT !.summary = s] \in Job
           /\ [j EXCEPT !.summary = s, !.guess = TRUE] \in Job
           /\ [j EXCEPT !.eof = e] \in Job
           /\ [j EXCEPT !.offset = o] \in Job
           /\ [j EXCEPT !.since = o] \in Job
           /\ [j EXCEPT !.offset = o, !.eof = e] \in Job
           /\ [j EXCEPT !.summary = s, !.offset = o, !.eof = e] \in Job
           /\ \A n \in 0..MaxRuns :
                 [j EXCEPT !.summary = s, !.offset = o, !.eof = e, !.since = n] \in Job
BY DEF Job

\* The job of one process changes.
LEMMA JobChanges ==
    ASSUME job \in [Procs -> Job], NEW p \in Procs, NEW j \in Job,
           job' = [job EXCEPT ![p] = j]
    PROVE  job' \in [Procs -> Job] /\ job'[p] = j
OBVIOUS

\* What a process has in hand after each of the steps that change it.
LEMMA JobOfStep ==
    ASSUME TypeOK, NEW p \in Procs
    PROVE  /\ Open(p) => job' = [job EXCEPT ![p] = [NoJob EXCEPT !.offset = Len(runs)]]
           /\ AppendRun(p) => job' = [job EXCEPT ![p] = [job[p] EXCEPT !.eof = Len(runs')]]
           /\ AfterIndex(p) =>
                 job' = [job EXCEPT ![p] = [job[p] EXCEPT !.offset = 0, !.eof = 0]]
           /\ LoadThroughIndex(p) /\ job[p].eof # Len(runs) =>
                 \E size \in Measured(p) :
                    /\ size > job[p].eof
                    /\ job' = [job EXCEPT ![p] =
                          [job[p] EXCEPT !.summary = Current(p), !.offset = Len(runs) - 1,
                                         !.eof = size]]
<1>1. job \in [Procs -> Job] /\ job[p] \in Job
  BY DEF TypeOK
<1>2. Open(p) => job' = [job EXCEPT ![p] = [NoJob EXCEPT !.offset = Len(runs)]]
  BY DEF Open
<1>3. AppendRun(p) => job' = [job EXCEPT ![p] = [job[p] EXCEPT !.eof = Len(runs')]]
  BY <1>1 DEF AppendRun
<1>4. AfterIndex(p) => job' = [job EXCEPT ![p] = [job[p] EXCEPT !.offset = 0, !.eof = 0]]
  BY <1>1 DEF AfterIndex
<1>5. ASSUME LoadThroughIndex(p), job[p].eof # Len(runs)
      PROVE  \E size \in Measured(p) :
                /\ size > job[p].eof
                /\ job' = [job EXCEPT ![p] =
                      [job[p] EXCEPT !.summary = Current(p), !.offset = Len(runs) - 1,
                                     !.eof = size]]
  <2>1. PICK size \in Measured(p) :
           /\ size > job[p].eof
           /\ job' = [job EXCEPT ![p].summary = Current(p), ![p].eof = size,
                                 ![p].offset = Len(runs) - 1]
    BY <1>5 DEF LoadThroughIndex
  <2>2. job' = [job EXCEPT ![p] = [job[p] EXCEPT !.summary = Current(p),
                                      !.offset = Len(runs) - 1, !.eof = size]]
    BY <1>1, <2>1 DEF Job
  <2> QED BY <2>1, <2>2
<1> QED BY <1>2, <1>3, <1>4, <1>5

LEMMA FromScanOK ==
    ASSUME TypeOK, NEW p \in Procs, Len(runs) \in 0..MaxRuns, runs # <<>>,
           NEW size \in 0..MaxRuns
    PROVE  /\ FromScan(p, size) \in Job /\ Built(runs) = ScanOf(runs)
           /\ FromScan(p, size).summary = ScanOf(runs) /\ FromScan(p, size).eof = size
           /\ FromScan(p, size).offset = Len(runs) - 1
           /\ FromScan(p, size).since = job[p].since
<1>1. /\ runs \in Seq(Row) /\ job[p] \in Job /\ (runs = <<>> <=> Len(runs) = 0)
  BY DEF TypeOK
<1>2. Built(runs) = ScanOf(runs) /\ Built(runs) \in Summary
  BY <1>1, BuiltIsScan, ScanIs
<1>3. Len(runs) - 1 \in 0..MaxRuns
  BY <1>1, MaxRunsNat
<1>4. FromScan(p, size) \in Job
  BY <1>1, <1>2, <1>3, JobFields DEF FromScan
<1> QED BY <1>1, <1>2, <1>4 DEF FromScan, Job

LEMMA Typing ==
    ASSUME TypeOK, Ordered(runs, begun), Places, Next
    PROVE  TypeOK'
<1>0. /\ runs \in Seq(Row) /\ Len(runs) \in 0..MaxRuns /\ begun \in Nat
      /\ begun \in 0..MaxRuns /\ (runs = <<>> <=> Len(runs) = 0)
      /\ job \in [Procs -> Job] /\ pc \in [Procs -> Labels]
  BY MaxRunsNat DEF TypeOK, Ordered
<1>1. PICK p \in Procs : Acts(p)
  BY NextActs
<1>2. /\ job[p] \in Job /\ job[p].summary \in Summary /\ job[p].eof \in 0..MaxRuns
      /\ job[p].since \in 0..MaxRuns
      /\ index.summary \in Summary /\ index.eof \in 0..MaxRuns /\ index.offset \in 0..MaxRuns
      /\ IndexEntry(p) \in Index /\ snapshot \in Summary
      /\ 0 \in 0..MaxRuns
  BY MaxRunsNat DEF TypeOK, Job, Index, IndexEntry
<1>21. \A size \in Measured(p) : size \in 0..MaxRuns
  BY <1>0, <1>2, MaxRunsNat DEF Measured
<1>12. Fault => faults' \in 0..MaxFaults /\ exact' = FALSE
  BY MaxFaultsNat DEF Fault, TypeOK
<1>13. AfterIndex(p) => job' \in [Procs -> Job] /\ pc' \in [Procs -> Labels]
  <2>1. [job[p] EXCEPT !.offset = 0, !.eof = 0] \in Job
    BY <1>2, JobFields
  <2>2. AfterIndex(p) => job' \in [Procs -> Job]
    BY <1>0, <2>1, JobOfStep, JobChanges
  <2> QED BY <1>0, <2>2 DEF AfterIndex, Goto, Labels
<1>14. AfterSnapshot(p) => job' \in [Procs -> Job] /\ pc' \in [Procs -> Labels]
  BY <1>0, <1>2, NoJobOK DEF AfterSnapshot, Goto, Labels
<1>15. CASE Open(p)
  <2>1. [NoJob EXCEPT !.offset = Len(runs)] \in Job
    BY <1>0, <1>2, NoJobOK, JobFields
  <2>2. job' \in [Procs -> Job]
    BY <1>0, <1>15, <2>1, JobOfStep, JobChanges
  <2> QED BY <1>15, <2>2 DEF TypeOK, Open, Goto, Overlap, disk, history, Labels
<1>3. CASE AppendRun(p)
  <2>1. PICK ok \in BOOLEAN : runs' = Append(runs, [run |-> begun', ok |-> ok])
    BY <1>3 DEF AppendRun
  <2>2. begun' \in 1..MaxRuns /\ begun' \in 0..MaxRuns
    BY <1>0, <1>3, MaxRunsNat DEF AppendRun
  <2>3. [run |-> begun', ok |-> ok] \in Row
    BY <2>2 DEF Row
  <2>4. runs' \in Seq(Row) /\ Len(runs') = Len(runs) + 1
    BY <1>0, <2>1, <2>3
  <2>5. Len(runs') \in 0..MaxRuns
    BY <1>0, <1>3, <2>4, MaxRunsNat DEF AppendRun, Ordered
  <2>6. [job[p] EXCEPT !.eof = Len(runs')] \in Job
    BY <1>2, <2>5, JobFields
  <2>7. job' \in [Procs -> Job]
    BY <1>0, <1>3, <2>6, JobOfStep, JobChanges
  <2> QED BY <1>3, <2>2, <2>4, <2>7 DEF TypeOK, AppendRun, Goto, Calm, Labels
<1>4. CASE ReadPrevious(p)
  <2>1. job[p].eof \in DOMAIN runs
    BY <1>4 DEF ReadPrevious, Places, Place
  <2> DEFINE previous == IF index # NoIndex THEN index.summary ELSE snapshot
  <2>2. Extended(previous, runs[job[p].eof]) \in Summary
    BY <1>0, <1>2, <2>1, ExtendedSound
  <2>3. job' = [job EXCEPT ![p].summary = Extended(previous, runs[job[p].eof])]
    BY <1>4 DEF ReadPrevious
  <2>4. job' \in [Procs -> Job]
    BY <1>0, <1>2, <2>2, <2>3 DEF Job
  <2> QED BY <1>4, <2>4 DEF TypeOK, ReadPrevious, Goto, Calm, disk, history, Labels
<1>5. CASE WriteIndex(p)
  BY <1>2, <1>5, <1>13 DEF TypeOK, WriteIndex, Calm, history
<1>6. CASE WriteIndexFails(p)
  BY <1>6, <1>12, <1>13 DEF TypeOK, WriteIndexFails, disk, history
<1>7. CASE WriteSnapshot(p)
  BY <1>2, <1>7, <1>14 DEF TypeOK, WriteSnapshot, Calm
<1>8. CASE WriteSnapshotFails(p)
  BY <1>8, <1>12, <1>14 DEF TypeOK, WriteSnapshotFails, disk, history
<1>9. CASE Crash(p)
  BY <1>9, <1>12, NoJobOK DEF TypeOK, Crash, Goto, disk, history, Labels
<1>10. CASE Read(p)
  <2>1. CASE Load(p)
    <3>1. [NoJob EXCEPT !.summary = index.summary, !.offset = index.offset,
                        !.eof = index.eof, !.since = Len(runs)] \in Job
      BY <1>0, <1>2, NoJobOK, JobFields
    <3>2. job' \in [Procs -> Job]
      BY <1>0, <2>1, <3>1 DEF Load
    <3> QED BY <2>1, <3>2 DEF TypeOK, Load, Goto, Overlap, disk, history, Labels
  <2>2. CASE LoadThroughIndex(p)
    <3>1. Current(p) \in Summary /\ runs # <<>>
      BY <2>2, CurrentIs DEF LoadThroughIndex
    <3>2. job' \in [Procs -> Job] /\ pc' \in [Procs -> Labels]
      <4>1. CASE job[p].eof = Len(runs)
        BY <1>13, <2>2, <4>1 DEF LoadThroughIndex
      <4>2. CASE job[p].eof # Len(runs)
        <5>1. PICK size \in Measured(p) :
                 job' = [job EXCEPT ![p] =
                    [job[p] EXCEPT !.summary = Current(p), !.offset = Len(runs) - 1,
                                   !.eof = size]]
          BY <2>2, <4>2, JobOfStep
        <5>2. Len(runs) - 1 \in 0..MaxRuns /\ size \in 0..MaxRuns
          BY <1>0, <1>21, <3>1, MaxRunsNat
        <5>3. [job[p] EXCEPT !.summary = Current(p), !.offset = Len(runs) - 1,
                             !.eof = size] \in Job
          BY <1>2, <3>1, <5>2, JobFields
        <5>4. job' \in [Procs -> Job]
          BY <1>0, <5>1, <5>3, JobChanges
        <5> QED BY <1>0, <2>2, <4>2, <5>4 DEF LoadThroughIndex, Goto, Labels
      <4> QED BY <4>1, <4>2
    <3> QED BY <2>2, <3>2 DEF TypeOK, LoadThroughIndex, Calm, disk, history
  <2>3. CASE IndexRefused(p)
    <3>1. [NoJob EXCEPT !.since = job[p].since] \in Job
      BY <1>2, NoJobOK, JobFields
    <3>2. job' \in [Procs -> Job]
      BY <1>0, <2>3, <3>1 DEF IndexRefused
    <3> QED BY <2>3, <3>2 DEF TypeOK, IndexRefused, Goto, Calm, disk, history, Labels
  <2>4. CASE LoadFromState(p)
    <3>1. [NoJob EXCEPT !.summary = snapshot, !.guess = TRUE] \in Job
      BY <1>2, NoJobOK, JobFields
    <3>2. job' \in [Procs -> Job]
      BY <1>0, <2>4, <3>1 DEF LoadFromState
    <3> QED BY <2>4, <3>2 DEF TypeOK, LoadFromState, Goto, Calm, disk, history, Labels
  <2>5. CASE StateHasNone(p)
    BY <2>5 DEF TypeOK, StateHasNone, Goto, Calm, disk, history, Labels
  <2>6. CASE ScanRuns(p)
    <3>1. CASE runs = <<>>
      <4>1. job' = [job EXCEPT ![p].summary = NoSummary]
        BY <2>6, <3>1 DEF ScanRuns
      <4>2. job' = [job EXCEPT ![p] = [job[p] EXCEPT !.summary = NoSummary]]
        BY <1>0, <4>1
      <4>3. [job[p] EXCEPT !.summary = NoSummary] \in Job
        BY <1>2, NothingSound, JobFields
      <4>4. job' \in [Procs -> Job]
        BY <1>0, <4>2, <4>3, JobChanges
      <4> QED BY <2>6, <3>1, <4>4 DEF TypeOK, ScanRuns, Goto, Calm, disk, history, Labels
    <3>2. CASE runs # <<>>
      <4>1. PICK size \in Measured(p) : job' = [job EXCEPT ![p] = FromScan(p, size)]
        BY <2>6, <3>2 DEF ScanRuns
      <4>2. FromScan(p, size) \in Job
        BY <1>0, <1>21, <3>2, FromScanOK
      <4>3. job' \in [Procs -> Job]
        BY <1>0, <4>1, <4>2, JobChanges
      <4> QED BY <2>6, <3>2, <4>3 DEF TypeOK, ScanRuns, Goto, Calm, disk, history, Labels
    <3> QED BY <3>1, <3>2
  <2>7. CASE Report(p)
    BY <2>7, NoJobOK DEF TypeOK, Report, Goto, Calm, disk, history, Labels
  <2> QED BY <1>10, <2>1, <2>2, <2>3, <2>4, <2>5, <2>6, <2>7 DEF Read
<1>11. CASE Operate(p)
  <2>1. CASE Measure(p)
    <3>1. [NoJob EXCEPT !.eof = Len(runs)] \in Job
      BY <1>0, <1>2, NoJobOK, JobFields
    <3>2. job' \in [Procs -> Job]
      BY <1>0, <2>1, <3>1 DEF Measure
    <3> QED BY <2>1, <3>2 DEF TypeOK, Measure, Goto, disk, history, Labels
  <2>8. CASE Rebuild(p)
    <3>1. FromScan(p, job[p].eof) \in Job
      BY <1>0, <1>2, <2>8, FromScanOK DEF Rebuild
    <3>2. job' \in [Procs -> Job]
      BY <1>0, <2>8, <3>1 DEF Rebuild
    <3> QED BY <2>8, <3>2 DEF TypeOK, Rebuild, Goto, Calm, disk, history, Labels
  <2>9. CASE RebuildNothing(p)
    BY <2>9, NoJobOK DEF TypeOK, RebuildNothing, Goto, Calm, history, Labels
  <2>2. CASE ArchiveRuns(p)
    <3>1. [NoArchive EXCEPT !.runs = runs] \in [runs: Seq(Row), snapshot: Summary, index: Index]
      BY <1>0, NoJobOK
    <3> QED BY <2>2, <3>1 DEF TypeOK, ArchiveRuns, Goto, Calm, disk, Labels
  <2>3. CASE ArchiveState(p)
    BY <2>3 DEF TypeOK, ArchiveState, Goto, Calm, disk, Labels
  <2>4. CASE ArchiveIndex(p)
    BY <2>4 DEF TypeOK, ArchiveIndex, Goto, Calm, disk, Labels
  <2>5. CASE RestoreRuns(p)
    BY <2>5 DEF TypeOK, RestoreRuns, Goto, Calm, Labels
  <2>6. CASE RestoreState(p)
    BY <2>6 DEF TypeOK, RestoreState, Goto, Calm, history, Labels
  <2>7. CASE RestoreIndex(p)
    BY <2>7 DEF TypeOK, RestoreIndex, Goto, Calm, history, Labels
  <2> QED BY <1>11, <2>1, <2>2, <2>3, <2>4, <2>5, <2>6, <2>7, <2>8, <2>9 DEF Operate
<1> QED BY <1>1, <1>3, <1>4, <1>5, <1>6, <1>7, <1>8, <1>9, <1>10, <1>11, <1>15 DEF Acts

LEMMA OthersStay ==
    ASSUME TypeOK, NEW p \in Procs, Acts(p), NEW q \in Procs, q # p
    PROVE  pc'[q] = pc[q] /\ job'[q] = job[q]
<1>1. pc \in [Procs -> Labels] /\ job \in [Procs -> Job]
  BY DEF TypeOK
<1>2. (Open(p) \/ AppendRun(p) \/ ReadPrevious(p)) => pc'[q] = pc[q] /\ job'[q] = job[q]
  BY <1>1 DEF Open, AppendRun, ReadPrevious, Goto
<1>3. Read(p) => pc'[q] = pc[q] /\ job'[q] = job[q]
  BY <1>1 DEF Read, Load, LoadThroughIndex, IndexRefused, LoadFromState, StateHasNone,
              ScanRuns, Report, AfterIndex, Goto
<1>4. Operate(p) => pc'[q] = pc[q] /\ job'[q] = job[q]
  BY <1>1 DEF Operate, Measure, Rebuild, RebuildNothing, ArchiveRuns, ArchiveState, ArchiveIndex, RestoreRuns,
              RestoreState, RestoreIndex, Goto, history
<1>5. (WriteIndex(p) \/ WriteSnapshot(p) \/ WriteIndexFails(p) \/ WriteSnapshotFails(p)
       \/ Crash(p)) => pc'[q] = pc[q] /\ job'[q] = job[q]
  BY <1>1 DEF WriteIndex, WriteSnapshot, WriteIndexFails, WriteSnapshotFails,
              AfterIndex, AfterSnapshot, Crash, Goto
<1> QED BY <1>2, <1>3, <1>4, <1>5, Zenon DEF Acts

\* The log grows by a row of the newest run, is put back, or stays.
LEMMA LogMoves ==
    ASSUME TypeOK, NEW p \in Procs, Acts(p)
    PROVE  \/ /\ AppendRun(p) /\ p \in Runners
              /\ \E row \in Row : row.run = begun + 1 /\ runs' = Append(runs, row)
              /\ begun' = begun + 1 /\ archived' = archived /\ halfRestored' = halfRestored
           \/ /\ RestoreRuns(p) /\ p \in Operators
              /\ runs' = archived.runs /\ begun' = begun /\ archived' = archived
           \/ /\ runs' = runs /\ begun' = begun
              /\ archived'.runs = archived.runs \/ archived'.runs = runs
<1> DEFINE Stays == /\ runs' = runs /\ begun' = begun
                    /\ archived'.runs = archived.runs \/ archived'.runs = runs
<1>1. CASE AppendRun(p) /\ p \in Runners
  <2>1. PICK ok \in BOOLEAN : runs' = Append(runs, [run |-> begun', ok |-> ok])
    BY <1>1 DEF AppendRun
  <2>2. begun' = begun + 1 /\ [run |-> begun', ok |-> ok] \in Row
    BY <1>1, MaxRunsNat DEF AppendRun, TypeOK, Row
  <2> QED BY <1>1, <2>1, <2>2 DEF AppendRun
<1>2. Open(p) \/ ReadPrevious(p) => Stays
  BY DEF Open, ReadPrevious, disk, history
<1>3. Read(p) => Stays
  BY DEF Read, Load, LoadThroughIndex, IndexRefused, LoadFromState, StateHasNone,
         ScanRuns, Report, disk, history
<1>4. CASE RestoreRuns(p) /\ p \in Operators
  BY <1>4 DEF RestoreRuns
<1>5. Operate(p) /\ ~RestoreRuns(p) => Stays
  <2>1. archived.runs = archived.runs /\ [NoArchive EXCEPT !.runs = runs].runs = runs
    BY DEF NoArchive
  <2> QED BY <2>1 DEF Operate, Measure, Rebuild, RebuildNothing, ArchiveRuns, ArchiveState, ArchiveIndex,
         RestoreState, RestoreIndex, disk, history, TypeOK
<1>6. (WriteIndex(p) \/ WriteSnapshot(p) \/ WriteIndexFails(p) \/ WriteSnapshotFails(p)
       \/ Crash(p)) => Stays
  BY DEF WriteIndex, WriteSnapshot, WriteIndexFails, WriteSnapshotFails, Crash,
         disk, history
<1> QED BY <1>1, <1>2, <1>3, <1>4, <1>5, <1>6, Zenon DEF Acts
-----------------------------------------------------------------------------
(* The inductive invariant, part by part.                                    *)

LEMMA OrderKept ==
    ASSUME TypeOK, Ordered(runs, begun), Ordered(archived.runs, begun), Next
    PROVE  Ordered(runs, begun)' /\ Ordered(archived.runs, begun)'
<1>1. runs \in Seq(Row) /\ archived.runs \in Seq(Row) /\ begun \in Nat
  BY DEF TypeOK
<1>2. PICK p \in Procs : Acts(p)
  BY NextActs
<1>3. CASE /\ AppendRun(p) /\ p \in Runners
           /\ \E row \in Row : row.run = begun + 1 /\ runs' = Append(runs, row)
           /\ begun' = begun + 1 /\ archived' = archived /\ halfRestored' = halfRestored
  <2>1. Ordered(runs', begun + 1)
    BY <1>1, <1>3, AppendOrdered
  <2>2. \A i \in DOMAIN archived.runs : archived.runs[i].run \in Nat
    <3>1. \A i \in DOMAIN archived.runs : archived.runs[i] \in Row
      BY <1>1
    <3> QED BY <3>1, MaxRunsNat DEF Row
  <2>3. Ordered(archived.runs, begun + 1)
    BY <1>1, <2>2 DEF Ordered
  <2> QED BY <1>3, <2>1, <2>3 DEF Ordered
<1>4. CASE runs' = archived.runs /\ begun' = begun /\ archived' = archived
  BY <1>4 DEF Ordered
<1>5. CASE /\ runs' = runs /\ begun' = begun
           /\ archived'.runs = archived.runs \/ archived'.runs = runs
  BY <1>5 DEF Ordered
<1> QED BY <1>2, <1>3, <1>4, <1>5, LogMoves

LEMMA LogOfOthers ==
    ASSUME TypeOK, Places, NEW p \in Procs, Acts(p), NEW q \in Procs, q # p,
           Place(q, pc[q], job[q], runs, halfRestored)
    PROVE  Place(q, pc'[q], job'[q], runs', halfRestored)
<1>1. pc'[q] = pc[q] /\ job'[q] = job[q]
  BY OthersStay
<1>2. CASE runs' = runs
  BY <1>1, <1>2
<1>3. CASE \E row \in Row : runs' = Append(runs, row)
  <2>1. /\ DOMAIN runs \subseteq DOMAIN runs'
        /\ Len(runs) \in Nat /\ Len(runs') \in Nat /\ Len(runs) <= Len(runs')
    BY <1>3 DEF TypeOK
  <2>2. job[q].offset \in Nat /\ job[q].eof \in Nat
    BY MaxRunsNat DEF TypeOK, Job
  <2>3. \A n \in Nat : n <= Len(runs) => n <= Len(runs')
    BY <2>1
  <2> QED BY <1>1, <2>1, <2>2, <2>3 DEF Place
<1>4. CASE RestoreRuns(p)
  <2>1. pc[q] = "idle"
    BY <1>4 DEF RestoreRuns, AllIdle
  <2> QED BY <1>1, <2>1 DEF Place
<1> QED BY <1>2, <1>3, <1>4, LogMoves

\* A restore that is going on is not over before it is.
LEMMA RestoreGoesOn ==
    ASSUME TypeOK, Places, ExactInv, NEW p \in Procs, Acts(p),
           halfRestored, ~halfRestored'
    PROVE  /\ WriteSnapshot(p) /\ p \in Operators /\ exact /\ pc[p] = "snapshot"
           /\ \A q \in Procs : q # p => ~Busy(pc[q])
<1>1. Open(p) \/ ReadPrevious(p) \/ Read(p) \/ WriteIndex(p) \/ WriteIndexFails(p)
      \/ WriteSnapshotFails(p) \/ Crash(p) => halfRestored' = halfRestored
  BY DEF Open, ReadPrevious, WriteIndex, WriteIndexFails, WriteSnapshotFails, Crash, Read, Load,
         LoadThroughIndex, IndexRefused, LoadFromState, StateHasNone,
         ScanRuns, Report, disk, history
<1>2. AppendRun(p) \/ (Operate(p) /\ ~RestoreRuns(p)) => halfRestored' = halfRestored
  BY DEF AppendRun, Operate, Measure, Rebuild, RebuildNothing, ArchiveRuns, ArchiveState, ArchiveIndex,
         RestoreState, RestoreIndex, disk, history
<1>3. RestoreRuns(p) => halfRestored'
  BY DEF RestoreRuns
<1>4. WriteSnapshot(p)
  BY <1>1, <1>2, <1>3 DEF Acts
<1>5. p \in Operators /\ exact /\ pc[p] = "snapshot"
  BY <1>4 DEF WriteSnapshot
<1>6. ASSUME NEW q \in Procs, q # p PROVE ~Busy(pc[q])
  BY <1>5, <1>6 DEF ExactInv, Busy
<1> QED BY <1>4, <1>5, <1>6

LEMMA PlacesKept ==
    ASSUME TypeOK, Places, NothingYet, ExactInv, Next
    PROVE  Places'
<1>1. PICK p \in Procs : Acts(p)
  BY NextActs
<1>2. pc \in [Procs -> Labels] /\ job \in [Procs -> Job] /\ runs \in Seq(Row)
  BY DEF TypeOK
<1>3. ASSUME NEW q \in Procs, q # p
      PROVE  Place(q, pc'[q], job'[q], runs', halfRestored')
  <2>1. Place(q, pc[q], job[q], runs, halfRestored)
    BY DEF Places
  <2>2. Place(q, pc'[q], job'[q], runs', halfRestored)
    BY <1>1, <1>3, <2>1, LogOfOthers
  <2>3. CASE halfRestored => halfRestored'
    BY <2>2, <2>3 DEF Place
  <2>4. CASE halfRestored /\ ~halfRestored'
    <3>1. ~Busy(pc[q])
      BY <1>1, <1>3, <2>4, RestoreGoesOn
    <3>2. pc'[q] = pc[q]
      BY <1>1, <1>3, OthersStay
    <3> QED BY <2>2, <3>1, <3>2 DEF Place, Busy
  <2> QED BY <2>3, <2>4
<1>4. Place(p, pc'[p], job'[p], runs', halfRestored')
  <2>1. Place(p, pc[p], job[p], runs, halfRestored)
    BY DEF Places
  <2>2. CASE AppendRun(p) /\ p \in Runners
    <3>1. \E row \in Row : runs' = Append(runs, row)
      <4>1. PICK ok \in BOOLEAN : runs' = Append(runs, [run |-> begun', ok |-> ok])
        BY <2>2 DEF AppendRun
      <4>2. [run |-> begun', ok |-> ok] \in Row
        BY <2>2, MaxRunsNat DEF AppendRun, TypeOK, Row
      <4> QED BY <4>1, <4>2
    <3>2. /\ Len(runs') \in DOMAIN runs' /\ Len(runs') = Len(runs) + 1
          /\ Len(runs) \in Nat
      BY <1>2, <3>1
    <3>3. /\ pc'[p] = "appended" /\ pc[p] = "opened"
          /\ job'[p].eof = Len(runs') /\ job'[p].offset = job[p].offset
      BY <1>2, <2>2 DEF AppendRun, Goto, Job
    <3>4. p \notin Readers /\ p \notin Operators
      BY <2>2, Roles
    <3>5. job[p].offset <= Len(runs) /\ job[p].offset \in Nat
      BY <1>2, <2>1, <3>3, MaxRunsNat DEF Place, Job
    <3>6. job'[p].offset < job'[p].eof
      BY <3>2, <3>3, <3>5
    <3> QED BY <2>2, <3>2, <3>3, <3>4, <3>6 DEF Place
  <2>9. CASE Open(p) /\ p \in Runners
    <3>1. pc'[p] = "opened" /\ job'[p] = [NoJob EXCEPT !.offset = Len(runs)] /\ runs' = runs
      BY <1>2, <2>9 DEF Open, Goto, disk
    <3>2. job'[p].offset <= Len(runs')
      BY <1>2, <3>1 DEF NoJob
    <3>4. p \notin Readers /\ p \notin Operators
      BY <2>9, Roles
    <3> QED BY <2>9, <3>1, <3>2, <3>4 DEF Place
  <2>3. CASE ReadPrevious(p) /\ p \in Runners
    BY <1>2, <2>3, Roles DEF ReadPrevious, Goto, Place
  <2>4. CASE WriteIndex(p) \/ WriteIndexFails(p)
    BY <1>2, <2>1, <2>4 DEF WriteIndex, WriteIndexFails, AfterIndex, Goto, Place
  <2>5. CASE WriteSnapshot(p) \/ WriteSnapshotFails(p)
    BY <1>2, <2>1, <2>5, Roles DEF WriteSnapshot, WriteSnapshotFails, AfterSnapshot, Goto, Place
  <2>6. CASE Crash(p)
    BY <1>2, <2>6 DEF Crash, Goto, Place
  <2>7. CASE Read(p) /\ p \in Readers
    <3>1. p \notin Runners /\ p \notin Operators
      BY <2>7, Roles
    <3>2. pc'[p] \in {"payload", "state", "scan", "index", "snapshot", "answered", "idle"}
      BY <1>2, <2>7 DEF Read, Load, LoadThroughIndex, IndexRefused, LoadFromState,
         StateHasNone, ScanRuns, Report, AfterIndex, Goto
    <3> QED BY <3>1, <3>2 DEF Place
  <2>8. CASE Operate(p) /\ p \in Operators
    <3>1. p \notin Runners /\ p \notin Readers
      BY <2>8, Roles
    <3>2. pc'[p] \in {"index", "copy_state", "copy_index", "rebuild", "idle"}
          \/ (pc'[p] = "put_state" /\ halfRestored')
          \/ (pc'[p] = "put_index" /\ halfRestored')
          \/ (pc'[p] = "measured" /\ job'[p].eof <= Len(runs'))
      <4>1. CASE RestoreState(p) \/ RestoreIndex(p)
        BY <1>2, <2>1, <4>1 DEF RestoreState, RestoreIndex, Goto, history, Place
      <4>2. CASE RestoreRuns(p)
        BY <1>2, <4>2 DEF RestoreRuns, Goto
      <4>4. CASE Measure(p)
        <5>1. /\ pc'[p] = "measured" /\ runs' = runs
              /\ job'[p] = [NoJob EXCEPT !.eof = Len(runs)]
          BY <1>2, <4>4 DEF Measure, Goto, disk
        <5> QED BY <1>2, <5>1 DEF NoJob
      <4>3. CASE Rebuild(p) \/ RebuildNothing(p) \/ ArchiveRuns(p) \/ ArchiveState(p) \/ ArchiveIndex(p)
        BY <1>2, <4>3 DEF Rebuild, RebuildNothing, ArchiveRuns, ArchiveState, ArchiveIndex, Goto
      <4> QED BY <2>8, <4>1, <4>2, <4>3, <4>4 DEF Operate
    <3> QED BY <3>1, <3>2 DEF Place
  <2> QED BY <1>1, <2>2, <2>3, <2>4, <2>5, <2>6, <2>7, <2>8, <2>9 DEF Acts
<1> QED BY <1>3, <1>4 DEF Places

LEMMA NothingYetKept ==
    ASSUME TypeOK, NothingYet, Next
    PROVE  NothingYet'
<1> SUFFICES ASSUME runs' = <<>>
             PROVE  /\ index' = NoIndex /\ snapshot' = NoSummary /\ archived'.runs = <<>>
                    /\ \A p \in Procs :
                          pc'[p] \notin {"appended", "payload", "index", "snapshot",
                                         "put_state", "put_index", "rebuild"}
  BY DEF NothingYet
<1>1. PICK p \in Procs : Acts(p)
  BY NextActs
<1>2. /\ runs = <<>> /\ ~AppendRun(p) /\ ~RestoreRuns(p)
      /\ archived'.runs = archived.runs \/ archived'.runs = runs
  <2>1. \A row \in Row : Append(runs, row) # <<>>
    BY DEF TypeOK
  <2>2. RestoreRuns(p) => runs' # <<>>
    BY DEF RestoreRuns
  <2>3. ~RestoreRuns(p)
    BY <2>2
  <2>4. ~\E row \in Row : row.run = begun + 1 /\ runs' = Append(runs, row)
    BY <2>1
  <2>5. runs' = runs /\ (archived'.runs = archived.runs \/ archived'.runs = runs)
    BY <1>1, <2>3, <2>4, LogMoves
  <2>6. ~AppendRun(p)
    <3>1. SUFFICES ASSUME AppendRun(p) PROVE FALSE
      OBVIOUS
    <3>2. PICK ok \in BOOLEAN : runs' = Append(runs, [run |-> begun', ok |-> ok])
      BY <3>1 DEF AppendRun
    <3>3. [run |-> begun', ok |-> ok] \in Row
      BY <3>1, MaxRunsNat DEF AppendRun, TypeOK, Row
    <3> QED BY <2>1, <3>2, <3>3
  <2> QED BY <2>3, <2>5, <2>6
<1>3. /\ index = NoIndex /\ snapshot = NoSummary /\ archived.runs = <<>>
      /\ \A q \in Procs : pc[q] \notin {"appended", "payload", "index", "snapshot",
                                        "put_state", "put_index", "rebuild"}
  BY <1>2 DEF NothingYet
<1>4. /\ ~ReadPrevious(p) /\ ~WriteIndex(p) /\ ~WriteIndexFails(p) /\ ~WriteSnapshot(p)
      /\ ~WriteSnapshotFails(p) /\ ~LoadThroughIndex(p) /\ ~IndexRefused(p)
      /\ ~LoadFromState(p) /\ ~RestoreState(p) /\ ~RestoreIndex(p) /\ ~Rebuild(p)
  BY <1>2, <1>3 DEF Rebuild, ReadPrevious, WriteIndex, WriteIndexFails, WriteSnapshot, WriteSnapshotFails,
              LoadThroughIndex, IndexRefused, LoadFromState, RestoreState, RestoreIndex
<1>5. pc \in [Procs -> Labels]
  BY DEF TypeOK
<1>6. /\ pc'[p] \in {"idle", "opened", "measured", "state", "scan", "answered", "copy_state", "copy_index"}
      /\ index' = NoIndex /\ snapshot' = NoSummary
  <2>1. Acts(p) => \/ Open(p) \/ Load(p) \/ StateHasNone(p) \/ ScanRuns(p) \/ Report(p)
                   \/ Measure(p) \/ RebuildNothing(p) \/ ArchiveRuns(p) \/ ArchiveState(p) \/ ArchiveIndex(p)
                   \/ Crash(p)
    BY <1>2, <1>4 DEF Acts, Read, Operate
  <2>2. CASE Open(p) \/ Load(p) \/ StateHasNone(p) \/ ScanRuns(p) \/ Report(p)
    BY <1>2, <1>3, <1>5, <2>2 DEF Open, Load, StateHasNone, ScanRuns, Report, Goto, disk
  <2>3. CASE Measure(p) \/ RebuildNothing(p) \/ ArchiveRuns(p) \/ ArchiveState(p) \/ ArchiveIndex(p) \/ Crash(p)
    BY <1>2, <1>3, <1>5, <2>3
       DEF Measure, RebuildNothing, ArchiveRuns, ArchiveState, ArchiveIndex, Crash, Goto, disk
  <2> QED BY <1>1, <2>1, <2>2, <2>3
<1>7. \A q \in Procs : q # p => pc'[q] = pc[q]
  BY <1>1, OthersStay
<1> QED BY <1>2, <1>3, <1>6, <1>7

\* What the process at work writes or takes in hand, while no restore is cut short.
LEMMA ActorSound ==
    ASSUME TypeOK, Ordered(runs, begun), Places, ~halfRestored, NEW p \in Procs, Acts(p),
           ~RestoreRuns(p), FilesSound(runs, snapshot, index),
           JobSound(runs, p, pc[p], job[p])
    PROVE  FilesSound(runs', snapshot', index') /\ JobSound(runs', p, pc'[p], job'[p])
<1>1. /\ pc \in [Procs -> Labels] /\ job \in [Procs -> Job] /\ runs \in Seq(Row)
      /\ job[p] \in Job /\ snapshot \in Summary /\ index \in Index
      /\ index.summary \in Summary /\ index.eof \in Nat
      /\ Len(runs) \in Nat /\ DOMAIN runs = 1..Len(runs)
      /\ Place(p, pc[p], job[p], runs, halfRestored)
      /\ (runs = <<>> <=> Len(runs) = 0)
  BY MaxRunsNat DEF TypeOK, Index, Places
<1>11. /\ begun \in Nat /\ job[p].since \in Nat
       /\ p \in Readers /\ pc[p] # "idle" => job[p].since <= Len(runs)
  BY <1>1, MaxRunsNat DEF TypeOK, Job, JobSound
<1>14. Len(runs) \in 0..MaxRuns
  BY <1>1, MaxRunsNat DEF Ordered, TypeOK
<1>12. CASE Open(p) /\ p \in Runners
  <2>1. /\ pc'[p] = "opened" /\ p \notin Readers
        /\ runs' = runs /\ snapshot' = snapshot /\ index' = index
    BY <1>1, <1>12, Roles DEF Open, Goto, disk
  <2> QED BY <2>1 DEF JobSound
<1>2. CASE AppendRun(p) /\ p \in Runners
  <2>1. PICK row \in Row : runs' = Append(runs, row)
    <3>1. PICK ok \in BOOLEAN : runs' = Append(runs, [run |-> begun', ok |-> ok])
      BY <1>2 DEF AppendRun
    <3>2. [run |-> begun', ok |-> ok] \in Row
      BY <1>2, MaxRunsNat DEF AppendRun, TypeOK, Row
    <3> QED BY <3>1, <3>2
  <2>2. pc'[p] = "appended" /\ p \notin Readers /\ snapshot' = snapshot /\ index' = index
    BY <1>1, <1>2, Roles DEF AppendRun, Goto
  <2>3. FilesSound(runs', snapshot', index')
    BY <1>1, <2>1, <2>2, AppendSound DEF FilesSound
  <2>4. JobSound(runs', p, pc'[p], job'[p])
    BY <2>2 DEF JobSound
  <2> QED BY <2>3, <2>4
<1>3. CASE ReadPrevious(p) /\ p \in Runners
  <2> DEFINE previous == IF index # NoIndex THEN index.summary ELSE snapshot
             t == Extended(previous, runs[job[p].eof])
  <2>1. job[p].eof \in DOMAIN runs /\ job[p].offset < job[p].eof
    BY <1>1, <1>3 DEF ReadPrevious, Place
  <2>2. previous \in Summary /\ SoundIn(runs, previous)
    BY <1>1 DEF FilesSound
  <2>3. SoundIn(runs, t) /\ SkipsIn(runs, t, job[p].offset, job[p].eof)
    <3>1. SoundIn(runs, t) /\ runs[job[p].eof].run = t.run
      BY <1>1, <2>1, <2>2, ExtendedSound
    <3> HIDE DEF t
    <3> QED BY <1>1, <2>1, <3>1 DEF SkipsIn
  <2>4. /\ pc'[p] = "index" /\ p \notin Readers
        /\ job' = [job EXCEPT ![p].summary = t]
        /\ runs' = runs /\ snapshot' = snapshot /\ index' = index
    BY <1>1, <1>3, Roles DEF ReadPrevious, Goto, disk
  <2>5. job'[p].summary = t /\ job'[p].eof = job[p].eof /\ job'[p].offset = job[p].offset
    BY <1>1, <2>4 DEF Job
  <2> QED BY <2>3, <2>4, <2>5 DEF JobSound
<1>13. AfterIndex(p) => /\ pc'[p] = "snapshot" /\ job'[p].summary = job[p].summary
                        /\ job'[p].since = job[p].since /\ job'[p].guess = job[p].guess
  BY <1>1 DEF AfterIndex, Goto, Job
<1>4. CASE WriteIndex(p)
  <2>1. /\ pc[p] = "index" /\ AfterIndex(p) /\ index' = IndexEntry(p)
        /\ runs' = runs /\ snapshot' = snapshot
    BY <1>4 DEF WriteIndex
  <2>2. SoundIn(runs, job[p].summary) /\ SkipsIn(runs, job[p].summary, job[p].offset, job[p].eof)
    BY <2>1 DEF JobSound
  <2> QED BY <1>13, <2>1, <2>2 DEF JobSound, FilesSound, IndexEntry
<1>5. CASE WriteIndexFails(p)
  BY <1>5, <1>13 DEF WriteIndexFails, JobSound, disk
<1>6. CASE WriteSnapshot(p)
  <2>1. /\ pc[p] = "snapshot" /\ snapshot' = job[p].summary
        /\ runs' = runs /\ index' = index
    BY <1>6 DEF WriteSnapshot
  <2>2. FilesSound(runs', snapshot', index')
    BY <2>1 DEF JobSound, FilesSound
  <2>3. (p \in Readers /\ pc'[p] = "answered" /\ job'[p] = job[p])
        \/ (p \notin Readers /\ pc'[p] = "idle")
    BY <1>1, <1>6 DEF WriteSnapshot, AfterSnapshot, Goto
  <2>4. JobSound(runs', p, pc'[p], job'[p])
    BY <2>1, <2>3 DEF JobSound
  <2> QED BY <2>2, <2>4
<1>7. CASE WriteSnapshotFails(p)
  <2>1. /\ pc[p] = "snapshot" /\ snapshot' = snapshot /\ runs' = runs /\ index' = index
    BY <1>7 DEF WriteSnapshotFails, disk
  <2>3. (p \in Readers /\ pc'[p] = "answered" /\ job'[p] = job[p])
        \/ (p \notin Readers /\ pc'[p] = "idle")
    BY <1>1, <1>7 DEF WriteSnapshotFails, AfterSnapshot, Goto
  <2> QED BY <2>1, <2>3 DEF JobSound
<1>8. CASE Crash(p)
  BY <1>1, <1>8 DEF Crash, Goto, disk, JobSound
<1>9. CASE Read(p) /\ p \in Readers
  <2>0. runs' = runs /\ snapshot' = snapshot /\ index' = index
    BY <1>9 DEF Read, Load, LoadThroughIndex, IndexRefused, LoadFromState, StateHasNone,
                ScanRuns, Report, disk
  <2>1. JobSound(runs, p, pc'[p], job'[p])
    <3>1. CASE Load(p)
      <4>1. /\ pc'[p] = (IF index = NoIndex THEN "state" ELSE "payload")
            /\ job'[p] = [NoJob EXCEPT !.summary = index.summary, !.offset = index.offset,
                                       !.eof = index.eof, !.since = Len(runs)]
        BY <1>1, <3>1 DEF Load, Goto
      <4>2. /\ job'[p].summary = index.summary /\ job'[p].since = Len(runs)
            /\ job'[p].offset = index.offset /\ job'[p].eof = index.eof
        BY <4>1 DEF NoJob
      <4> QED BY <1>1, <4>1, <4>2 DEF JobSound, FilesSound
    <3>2. CASE LoadThroughIndex(p)
      <4>1. pc[p] = "payload" /\ Fits(IndexEntry(p))
        BY <3>2 DEF LoadThroughIndex
      <4>2. /\ job[p].summary \in Summary /\ job[p].eof \in 0..Len(runs) /\ runs # <<>>
            /\ Current(p) = Tally(runs, job[p].summary, job[p].eof, Len(runs))
        BY <4>1, CurrentIs
      <4>3. /\ SoundIn(runs, job[p].summary)
            /\ SkipsIn(runs, job[p].summary, job[p].offset, job[p].eof)
        BY <4>1 DEF JobSound
      <4>4. SoundIn(runs, Current(p)) /\ runs[Len(runs)].run = Current(p).run
        BY <1>1, <4>2, <4>3, CaughtUpSound
      <4>5. job[p].since > 0 => Current(p).run >= runs[job[p].since].run
        <5>1. job[p].since <= Len(runs)
          BY <1>9, <1>11, <4>1
        <5> QED BY <1>1, <1>11, <4>4, <5>1, SinceLast
      <4>6. CASE job[p].eof = Len(runs)
        <5>1. AfterIndex(p)
          BY <3>2, <4>6 DEF LoadThroughIndex
        <5>2. Current(p) = job[p].summary
          BY <1>1, <4>2, <4>6, TallyOfNothing
        <5> QED BY <1>9, <1>11, <1>13, <4>1, <4>3, <4>5, <5>1, <5>2 DEF JobSound
      <4>7. CASE job[p].eof # Len(runs)
        <5>1. PICK size \in Measured(p) :
                 job' = [job EXCEPT ![p] =
                    [job[p] EXCEPT !.summary = Current(p), !.offset = Len(runs) - 1,
                                   !.eof = size]]
          BY <3>2, <4>7, JobOfStep
        <5>2. /\ job'[p].summary = Current(p) /\ job'[p].offset = Len(runs) - 1
              /\ job'[p].eof = size /\ job'[p].since = job[p].since
          BY <1>1, <5>1 DEF Job
        <5>3. pc'[p] = "index"
          BY <1>1, <3>2, <4>7 DEF LoadThroughIndex, Goto
        <5>4. size \in 0..Len(runs)
          BY <1>1, <1>11 DEF Measured
        <5>5. SkipsIn(runs, Current(p), Len(runs) - 1, size)
          BY <1>1, <4>2, <4>4, <5>4, LastRow
        <5> QED BY <1>9, <1>11, <4>1, <4>4, <4>5, <5>2, <5>3, <5>5 DEF JobSound
      <4> QED BY <4>6, <4>7
    <3>3. CASE IndexRefused(p)
      <4>1. /\ pc[p] = "payload" /\ pc'[p] = "state"
            /\ job'[p] = [NoJob EXCEPT !.since = job[p].since]
        BY <1>1, <3>3 DEF IndexRefused, Goto
      <4>2. job'[p].since = job[p].since
        BY <4>1 DEF NoJob
      <4> QED BY <1>11, <4>1, <4>2 DEF JobSound
    <3>4. CASE LoadFromState(p)
      <4>1. /\ pc[p] = "state" /\ pc'[p] = "answered"
            /\ job'[p] = [NoJob EXCEPT !.summary = snapshot, !.guess = TRUE]
        BY <1>1, <3>4 DEF LoadFromState, Goto
      <4>2. job'[p].summary = snapshot /\ job'[p].guess /\ job'[p].since = 0
        BY <4>1 DEF NoJob
      <4> QED BY <1>1, <1>9, <4>1, <4>2 DEF JobSound, FilesSound
    <3>5. CASE StateHasNone(p)
      BY <1>1, <3>5 DEF StateHasNone, Goto, JobSound
    <3>6. CASE ScanRuns(p)
      <4>1. CASE runs = <<>>
        <5>1. /\ pc[p] = "scan" /\ pc'[p] = "answered"
              /\ job' = [job EXCEPT ![p].summary = NoSummary]
          BY <1>1, <3>6, <4>1 DEF ScanRuns, Goto
        <5>2. job'[p].summary = NoSummary /\ job'[p].since = job[p].since
          BY <1>1, <5>1 DEF Job
        <5>3. job[p].since <= 0 /\ job[p].since \in Nat
          BY <1>1, <1>9, <4>1, <5>1, MaxRunsNat DEF JobSound, Job
        <5> QED BY <1>1, <4>1, <5>1, <5>2, <5>3, NothingSound DEF JobSound
      <4>2. CASE runs # <<>>
        <5>1. PICK size \in Measured(p) : job' = [job EXCEPT ![p] = FromScan(p, size)]
          BY <3>6, <4>2 DEF ScanRuns
        <5>2. pc[p] = "scan" /\ pc'[p] = "index" /\ job'[p] = FromScan(p, size)
          BY <1>1, <3>6, <4>2, <5>1 DEF ScanRuns, Goto
        <5>3. size \in 0..Len(runs) /\ size \in 0..MaxRuns
          BY <1>1, <1>11, <1>14, MaxRunsNat DEF Measured
        <5>4. /\ job'[p].summary = ScanOf(runs) /\ job'[p].offset = Len(runs) - 1
              /\ job'[p].eof = size /\ job'[p].since = job[p].since
          BY <1>14, <4>2, <5>2, <5>3, FromScanOK
        <5>5. SoundIn(runs, ScanOf(runs)) /\ runs[Len(runs)].run = ScanOf(runs).run
          BY <1>1, <4>2, ScanIs
        <5>6. SkipsIn(runs, ScanOf(runs), Len(runs) - 1, size)
          BY <1>1, <4>2, <5>3, <5>5, LastRow
        <5>7. job[p].since > 0 => ScanOf(runs).run >= runs[job[p].since].run
          <6>1. job[p].since <= Len(runs)
            BY <1>9, <1>11, <5>2
          <6> QED BY <1>1, <1>11, <5>5, <6>1, SinceLast
        <5> QED BY <1>9, <1>11, <5>2, <5>4, <5>5, <5>6, <5>7 DEF JobSound
      <4> QED BY <4>1, <4>2
    <3>7. CASE Report(p)
      BY <1>1, <3>7 DEF Report, Goto, JobSound
    <3> QED BY <1>9, <3>1, <3>2, <3>3, <3>4, <3>5, <3>6, <3>7 DEF Read
  <2> QED BY <2>0, <2>1
<1>10. CASE Operate(p) /\ p \in Operators
  <2>0. p \notin Readers
    BY <1>10, Roles
  <2>4. CASE Measure(p)
    <3>1. pc'[p] = "measured" /\ index' = index /\ runs' = runs /\ snapshot' = snapshot
      BY <1>1, <2>4 DEF Measure, Goto, disk
    <3> QED BY <2>0, <3>1 DEF JobSound
  <2>5. CASE RebuildNothing(p)
    <3>1. pc'[p] = "idle" /\ index' = NoIndex /\ runs' = runs /\ snapshot' = snapshot
      BY <1>1, <2>5 DEF RebuildNothing, Goto
    <3> QED BY <3>1, NothingSound DEF JobSound, FilesSound, NoIndex
  <2>1. CASE Rebuild(p)
    <3>1. /\ pc[p] = "measured" /\ pc'[p] = "index" /\ runs # <<>>
          /\ index' = index /\ runs' = runs /\ snapshot' = snapshot
          /\ job'[p] = FromScan(p, job[p].eof)
      BY <1>1, <2>1 DEF Rebuild, Goto, disk
    <3>2. job[p].eof \in 0..Len(runs) /\ job[p].eof \in 0..MaxRuns
      BY <1>1, <3>1, MaxRunsNat DEF Place, Job
    <3>3. /\ job'[p].summary = ScanOf(runs) /\ job'[p].offset = Len(runs) - 1
          /\ job'[p].eof = job[p].eof
      BY <1>14, <3>1, <3>2, FromScanOK
    <3>4. SoundIn(runs, ScanOf(runs)) /\ runs[Len(runs)].run = ScanOf(runs).run
      BY <1>1, <3>1, ScanIs
    <3>5. SkipsIn(runs, ScanOf(runs), Len(runs) - 1, job[p].eof)
      BY <1>1, <3>1, <3>2, <3>4, LastRow
    <3> QED BY <2>0, <3>1, <3>3, <3>4, <3>5 DEF JobSound
  <2>2. CASE ArchiveRuns(p) \/ ArchiveState(p) \/ ArchiveIndex(p)
    <3>1. /\ pc'[p] \in {"idle", "copy_state", "copy_index"}
          /\ runs' = runs /\ snapshot' = snapshot /\ index' = index
      BY <1>1, <2>2 DEF ArchiveRuns, ArchiveState, ArchiveIndex, Goto, disk
    <3> QED BY <2>0, <3>1 DEF JobSound
  <2>3. ~RestoreState(p) /\ ~RestoreIndex(p)
    BY <1>1 DEF RestoreState, RestoreIndex, Place
  <2> QED BY <1>10, <2>1, <2>2, <2>3, <2>4, <2>5 DEF Operate
<1> QED BY <1>2, <1>3, <1>4, <1>5, <1>6, <1>7, <1>8, <1>9, <1>10, <1>12 DEF Acts

LEMMA SoundKept ==
    ASSUME IInv, Next
    PROVE  SoundInv'
<1> SUFFICES ASSUME ~halfRestored'
             PROVE  /\ FilesSound(runs', snapshot', index')
                    /\ \A q \in Procs : JobSound(runs', q, pc'[q], job'[q])
  BY DEF SoundInv
<1>1. PICK p \in Procs : Acts(p)
  BY NextActs
<1>2. /\ TypeOK /\ Ordered(runs, begun) /\ Places /\ SoundInv /\ ExactInv
      /\ pc \in [Procs -> Labels] /\ job \in [Procs -> Job] /\ runs \in Seq(Row)
  BY DEF IInv, TypeOK
<1>3. CASE ~halfRestored
  <2>1. /\ FilesSound(runs, snapshot, index)
        /\ \A q \in Procs : JobSound(runs, q, pc[q], job[q])
    BY <1>2, <1>3 DEF SoundInv
  <2>2. ~RestoreRuns(p)
    BY DEF RestoreRuns
  <2>3. FilesSound(runs', snapshot', index') /\ JobSound(runs', p, pc'[p], job'[p])
    BY <1>1, <1>2, <1>3, <2>1, <2>2, ActorSound
  <2>4. ASSUME NEW q \in Procs, q # p PROVE JobSound(runs', q, pc'[q], job'[q])
    <3>1. pc'[q] = pc[q] /\ job'[q] = job[q] /\ job[q] \in Job
      BY <1>1, <1>2, <2>4, OthersStay
    <3>2. JobSound(runs, q, pc[q], job[q])
      BY <2>1
    <3>3. runs' = runs \/ \E row \in Row : runs' = Append(runs, row)
      BY <1>1, <1>2, <2>2, LogMoves
    <3>4. CASE runs' = runs
      BY <3>1, <3>2, <3>4
    <3>5. CASE \E row \in Row : runs' = Append(runs, row)
      <4>1. PICK row \in Row : runs' = Append(runs, row)
        BY <3>5
      <4>2. JobSound(Append(runs, row), q, pc[q], job[q])
        BY <1>2, <3>1, <3>2, AppendJobSound
      <4> QED BY <3>1, <4>1, <4>2
    <3> QED BY <3>3, <3>4, <3>5
  <2> QED BY <2>3, <2>4
<1>4. CASE halfRestored
  <2>1. /\ WriteSnapshot(p) /\ p \in Operators /\ exact /\ pc[p] = "snapshot"
        /\ \A q \in Procs : q # p => ~Busy(pc[q])
    BY <1>1, <1>2, <1>4, RestoreGoesOn
  <2>2. job[p].summary = ScanOf(runs) /\ AtEnd(runs, index)
    BY <1>2, <2>1 DEF ExactInv, Phase
  <2>3. snapshot' = ScanOf(runs) /\ runs' = runs /\ index' = index
    BY <2>1, <2>2 DEF WriteSnapshot
  <2>4. FilesSound(runs', snapshot', index')
    BY <1>2, <2>2, <2>3, ScanIs, AtEndSound DEF FilesSound
  <2>5. ASSUME NEW q \in Procs PROVE JobSound(runs', q, pc'[q], job'[q])
    <3>1. CASE q = p
      <4>1. p \notin Readers
        BY <2>1, Roles
      <4>2. pc'[p] = "idle"
        BY <1>2, <2>1, <4>1 DEF WriteSnapshot, AfterSnapshot, Goto
      <4> QED BY <3>1, <4>1, <4>2 DEF JobSound
    <3>2. CASE q # p
      <4>1. pc'[q] = pc[q] /\ pc[q] \in {"idle", "copy_state", "copy_index"}
        BY <1>1, <1>2, <2>1, <3>2, OthersStay DEF Busy
      <4>2. q \in Readers => pc[q] = "idle"
        BY <1>2, <4>1 DEF Places, Place
      <4> QED BY <4>1, <4>2 DEF JobSound
    <3> QED BY <3>1, <3>2
  <2> QED BY <2>4, <2>5
<1> QED BY <1>3, <1>4

\* What the only process at work leaves, as long as nothing fails.
LEMMA ActorExact ==
    ASSUME IInv, NEW p \in Procs, Acts(p), exact',
           \A q \in Procs : q # p => ~Busy(pc[q])
    PROVE  /\ ~Busy(pc'[p]) => DoctorAt(runs', snapshot', index')
           /\ Phase(runs', snapshot', index', pc'[p], job'[p])
<1>1. /\ TypeOK /\ Ordered(runs, begun) /\ NothingYet
      /\ pc \in [Procs -> Labels] /\ job \in [Procs -> Job] /\ runs \in Seq(Row)
      /\ job[p] \in Job /\ index \in Index
      /\ Len(runs) \in Nat /\ DOMAIN runs = 1..Len(runs)
      /\ (runs = <<>> <=> Len(runs) = 0)
  BY DEF IInv, TypeOK
<1>13. Len(runs) \in 0..MaxRuns
  BY <1>1, MaxRunsNat DEF Ordered, TypeOK
<1>2. exact => Phase(runs, snapshot, index, pc[p], job[p])
  BY DEF IInv, ExactInv
<1>3. exact /\ ~Busy(pc[p]) => DoctorAt(runs, snapshot, index)
  BY DEF IInv, ExactInv
<1>11. CASE Open(p) /\ p \in Runners
  <2>1. exact /\ pc[p] = "idle"
    BY <1>11 DEF Open, MayBegin, Overlap
  <2>2. DoctorAt(runs, snapshot, index)
    BY <1>3, <2>1 DEF Busy
  <2>3. /\ pc'[p] = "opened" /\ job'[p] = [NoJob EXCEPT !.offset = Len(runs)]
        /\ runs' = runs /\ snapshot' = snapshot /\ index' = index
    BY <1>1, <1>11 DEF Open, Goto, disk
  <2>4. job'[p].offset = Len(runs)
    BY <2>3 DEF NoJob
  <2> QED BY <2>2, <2>3, <2>4 DEF Phase, Busy
<1>4. CASE AppendRun(p) /\ p \in Runners
  <2>1. exact /\ pc[p] = "opened"
    BY <1>4 DEF AppendRun, Calm
  <2>2. DoctorAt(runs, snapshot, index) /\ job[p].offset = Len(runs)
    BY <1>2, <2>1 DEF Phase
  <2>3. PICK row \in Row : runs' = Append(runs, row)
    <3>1. PICK ok \in BOOLEAN : runs' = Append(runs, [run |-> begun', ok |-> ok])
      BY <1>4 DEF AppendRun
    <3>2. [run |-> begun', ok |-> ok] \in Row
      BY <1>1, <1>4, MaxRunsNat DEF AppendRun, TypeOK, Row
    <3> QED BY <3>1, <3>2
  <2>4. Before(runs') = ScanOf(runs) /\ runs' # <<>> /\ Len(runs') - 1 = Len(runs)
    BY <1>1, <2>3, AppendScan
  <2>5. /\ pc'[p] = "appended" /\ job'[p].eof = Len(runs') /\ job'[p].offset = job[p].offset
        /\ snapshot' = snapshot /\ index' = index
    BY <1>1, <1>4 DEF AppendRun, Goto, Job
  <2> QED BY <2>2, <2>4, <2>5 DEF Phase, Busy, DoctorAt, AtEnd
<1>5. CASE ReadPrevious(p) /\ p \in Runners
  <2> DEFINE previous == IF index # NoIndex THEN index.summary ELSE snapshot
  <2>1. exact /\ pc[p] = "appended"
    BY <1>5 DEF ReadPrevious, Calm
  <2>2. /\ runs # <<>> /\ job[p].offset = Len(runs) - 1 /\ job[p].eof = Len(runs)
        /\ previous = Before(runs)
    BY <1>2, <2>1 DEF Phase
  <2>3. Extended(previous, runs[Len(runs)]) = ScanOf(runs)
    <3>1. 0 \in 0..Len(runs) /\ Len(runs) \in (0 + 1)..Len(runs)
      BY <1>1, <2>2
    <3> QED BY <1>1, <2>2, <3>1, TallyStep, NothingSound DEF ScanOf, Before
  <2>4. /\ pc'[p] = "index" /\ runs' = runs
        /\ job' = [job EXCEPT ![p].summary = Extended(previous, runs[job[p].eof])]
    BY <1>1, <1>5 DEF ReadPrevious, Goto, disk
  <2>5. AtEnd(runs, job'[p])
    BY <1>1, <2>2, <2>3, <2>4 DEF Job, AtEnd
  <2> QED BY <2>4, <2>5 DEF Phase, Busy
<1>12. AfterIndex(p) => pc'[p] = "snapshot" /\ job'[p].summary = job[p].summary
  BY <1>1 DEF AfterIndex, Goto, Job
<1>6. CASE WriteIndex(p)
  <2>1. /\ exact /\ pc[p] = "index" /\ AfterIndex(p) /\ runs' = runs
        /\ index' = IndexEntry(p)
    BY <1>6 DEF WriteIndex, Calm
  <2>2. AtEnd(runs, job[p])
    BY <1>2, <2>1 DEF Phase
  <2>3. AtEnd(runs, index') /\ job[p].summary = ScanOf(runs)
    BY <2>1, <2>2 DEF IndexEntry, AtEnd
  <2> QED BY <1>12, <2>1, <2>3 DEF Phase, Busy
<1>7. CASE WriteSnapshot(p)
  <2>1. /\ exact /\ pc[p] = "snapshot" /\ runs' = runs /\ index' = index
        /\ snapshot' = job[p].summary
    BY <1>7 DEF WriteSnapshot, Calm
  <2>2. DoctorAt(runs', snapshot', index')
    BY <1>2, <2>1 DEF Phase, DoctorAt
  <2>3. pc'[p] \in {"answered", "idle"}
    BY <1>1, <1>7 DEF WriteSnapshot, AfterSnapshot, Goto
  <2> QED BY <2>2, <2>3 DEF Phase
<1>8. ~WriteIndexFails(p) /\ ~WriteSnapshotFails(p) /\ ~Crash(p)
  BY DEF WriteIndexFails, WriteSnapshotFails, Crash, Fault
<1>9. CASE Read(p) /\ p \in Readers
  <2>0. runs' = runs /\ snapshot' = snapshot /\ index' = index
    BY <1>9 DEF Read, Load, LoadThroughIndex, IndexRefused, LoadFromState, StateHasNone,
                ScanRuns, Report, disk
  <2>1. CASE Load(p)
    <3>1. /\ exact /\ pc[p] = "idle" /\ pc'[p] = (IF index = NoIndex THEN "state" ELSE "payload")
          /\ job'[p] = [NoJob EXCEPT !.summary = index.summary, !.offset = index.offset,
                                     !.eof = index.eof, !.since = Len(runs)]
      BY <1>1, <2>1 DEF Load, MayBegin, Overlap, Goto
    <3>2. /\ job'[p].summary = index.summary /\ job'[p].eof = index.eof
          /\ job'[p].offset = index.offset /\ job'[p].since = Len(runs)
      BY <3>1 DEF NoJob
    <3>3. DoctorAt(runs, snapshot, index)
      BY <1>3, <3>1 DEF Busy
    <3>4. index # NoIndex => AtEnd(runs, job'[p])
      BY <3>2, <3>3 DEF DoctorAt, AtEnd
    <3> QED BY <2>0, <3>1, <3>2, <3>3, <3>4 DEF Phase, Busy
  <2>2. CASE LoadThroughIndex(p)
    <3>1. exact /\ pc[p] = "payload"
      BY <2>2 DEF LoadThroughIndex, Calm
    <3>2. /\ DoctorAt(runs, snapshot, index) /\ index # NoIndex
          /\ AtEnd(runs, job[p])
      BY <1>2, <3>1 DEF Phase
    <3>3. AtEnd(runs, index) /\ job[p].summary = ScanOf(runs) /\ job[p].eof = Len(runs)
      BY <3>2 DEF DoctorAt, AtEnd
    <3>4. AfterIndex(p)
      BY <2>2, <3>3 DEF LoadThroughIndex
    <3> QED BY <1>12, <2>0, <3>3, <3>4 DEF Phase, Busy
  <2>3. CASE IndexRefused(p)
    <3>1. /\ exact /\ pc[p] = "payload" /\ pc'[p] = "state"
          /\ job'[p] = [NoJob EXCEPT !.since = job[p].since]
      BY <1>1, <2>3 DEF IndexRefused, Goto, Calm
    <3>2. job'[p].since = job[p].since
      BY <3>1 DEF NoJob
    <3> QED BY <1>2, <2>0, <3>1, <3>2 DEF Phase, Busy
  <2>4. CASE LoadFromState(p)
    BY <1>1, <1>2, <2>0, <2>4 DEF LoadFromState, Goto, Calm, Phase, Busy
  <2>5. CASE StateHasNone(p)
    BY <1>1, <1>2, <2>0, <2>5 DEF StateHasNone, Goto, Calm, Phase, Busy
  <2>6. CASE ScanRuns(p)
    <3>1. exact /\ pc[p] = "scan"
      BY <2>6 DEF ScanRuns, Calm
    <3>2. DoctorAt(runs, snapshot, index) /\ job[p].since = Len(runs)
      BY <1>2, <3>1 DEF Phase
    <3>3. CASE runs = <<>>
      <4>1. pc'[p] = "answered"
        BY <1>1, <2>6, <3>3 DEF ScanRuns, Goto
      <4> QED BY <2>0, <3>2, <4>1 DEF Phase, Busy
    <3>4. CASE runs # <<>>
      <4>1. PICK size \in Measured(p) : job' = [job EXCEPT ![p] = FromScan(p, size)]
        BY <2>6, <3>4 DEF ScanRuns
      <4>2. pc'[p] = "index" /\ job'[p] = FromScan(p, size)
        BY <1>1, <2>6, <3>4, <4>1 DEF ScanRuns, Goto
      <4>3. size = Len(runs) /\ size \in 0..MaxRuns
        BY <1>1, <1>13, <3>2 DEF Measured
      <4>4. AtEnd(runs, job'[p])
        BY <1>1, <1>13, <3>4, <4>2, <4>3, FromScanOK DEF AtEnd
      <4> QED BY <2>0, <4>2, <4>4 DEF Phase, Busy
    <3> QED BY <3>3, <3>4
  <2>7. CASE Report(p)
    <3>1. exact /\ pc[p] = "answered" /\ pc'[p] = "idle"
      BY <1>1, <2>7 DEF Report, Calm, Goto
    <3> QED BY <1>2, <2>0, <3>1 DEF Phase
  <2> QED BY <1>9, <2>1, <2>2, <2>3, <2>4, <2>5, <2>6, <2>7 DEF Read
<1>10. CASE Operate(p) /\ p \in Operators
  <2>4. CASE Measure(p)
    <3>1. pc'[p] = "measured" /\ runs' = runs /\ job'[p] = [NoJob EXCEPT !.eof = Len(runs)]
      BY <1>1, <2>4 DEF Measure, Goto, disk
    <3>2. job'[p].eof = Len(runs)
      BY <3>1 DEF NoJob
    <3> QED BY <3>1, <3>2 DEF Phase, Busy
  <2>5. CASE RebuildNothing(p)
    <3>1. /\ exact /\ pc[p] = "measured" /\ job[p].eof = 0
          /\ pc'[p] = "idle" /\ index' = NoIndex /\ runs' = runs /\ snapshot' = snapshot
      BY <1>1, <2>5 DEF RebuildNothing, Goto, Calm
    <3>2. runs = <<>>
      BY <1>1, <1>2, <3>1 DEF Phase
    <3>3. snapshot = NoSummary /\ ScanOf(runs) = NoSummary
      BY <1>1, <3>2, ScanIs DEF NothingYet
    <3> QED BY <3>1, <3>3 DEF Phase, DoctorAt
  <2>1. CASE Rebuild(p)
    <3>1. /\ exact /\ pc[p] = "measured" /\ pc'[p] = "index" /\ runs' = runs /\ runs # <<>>
          /\ job'[p] = FromScan(p, job[p].eof)
      BY <1>1, <2>1 DEF Rebuild, Goto, Calm, disk
    <3>2. job[p].eof = Len(runs)
      BY <1>2, <3>1 DEF Phase
    <3>3. AtEnd(runs, job'[p])
      BY <1>1, <1>13, <3>1, <3>2, FromScanOK DEF AtEnd
    <3> QED BY <3>1, <3>3 DEF Phase, Busy
  <2>2. CASE ArchiveRuns(p) \/ ArchiveState(p) \/ ArchiveIndex(p)
    <3>1. /\ exact /\ pc[p] \in {"idle", "copy_state", "copy_index"}
          /\ pc'[p] \in {"idle", "copy_state", "copy_index"}
          /\ runs' = runs /\ snapshot' = snapshot /\ index' = index
      BY <1>1, <2>2 DEF ArchiveRuns, ArchiveState, ArchiveIndex, MayBegin, Goto, Calm, disk
    <3> QED BY <1>3, <3>1 DEF Phase, Busy
  <2>3. CASE RestoreRuns(p) \/ RestoreState(p) \/ RestoreIndex(p)
    <3>1. pc'[p] \in {"put_state", "put_index", "rebuild"}
      BY <1>1, <2>3 DEF RestoreRuns, RestoreState, RestoreIndex, Goto
    <3> QED BY <3>1 DEF Phase, Busy
  <2> QED BY <1>10, <2>1, <2>2, <2>3, <2>4, <2>5 DEF Operate
<1> QED BY <1>4, <1>5, <1>6, <1>7, <1>8, <1>9, <1>10, <1>11 DEF Acts

LEMMA ExactKept ==
    ASSUME IInv, Next
    PROVE  ExactInv'
<1> SUFFICES ASSUME exact'
             PROVE  /\ \A q, r \in Procs : Busy(pc'[q]) /\ Busy(pc'[r]) => q = r
                    /\ (\A q \in Procs : ~Busy(pc'[q])) => DoctorAt(runs', snapshot', index')
                    /\ \A q \in Procs : Phase(runs', snapshot', index', pc'[q], job'[q])
  BY DEF ExactInv
<1>1. PICK p \in Procs : Acts(p)
  BY NextActs
<1>2. TypeOK /\ pc \in [Procs -> Labels] /\ job \in [Procs -> Job]
  BY DEF IInv, TypeOK
<1>3. \A q \in Procs : q # p => pc'[q] = pc[q] /\ job'[q] = job[q]
  BY <1>1, <1>2, OthersStay
<1>4. CASE \A q \in Procs : q # p => ~Busy(pc[q])
  <2>1. /\ ~Busy(pc'[p]) => DoctorAt(runs', snapshot', index')
        /\ Phase(runs', snapshot', index', pc'[p], job'[p])
    BY <1>1, <1>4, ActorExact
  <2>2. \A q \in Procs : q # p => ~Busy(pc'[q])
    BY <1>3, <1>4
  <2>3. \A q \in Procs : q # p => Phase(runs', snapshot', index', pc'[q], job'[q])
    BY <2>2 DEF Phase, Busy
  <2> QED BY <2>1, <2>2, <2>3
<1>5. CASE \E q \in Procs : q # p /\ Busy(pc[q])
  <2>1. ~AllIdle /\ ~\A q \in Procs \ {p} : pc[q] = "idle"
    BY <1>5 DEF AllIdle, Busy
  <2>2. exact \/ exact' = exact
    <3>1. Open(p) \/ AppendRun(p) \/ ReadPrevious(p) \/ WriteIndex(p) \/ WriteSnapshot(p)
          => exact' = (exact /\ AllIdle) \/ exact' = exact
      BY DEF Open, AppendRun, ReadPrevious, WriteIndex, WriteSnapshot, Overlap, Calm
    <3>2. ~WriteIndexFails(p) /\ ~WriteSnapshotFails(p) /\ ~Crash(p)
      BY DEF WriteIndexFails, WriteSnapshotFails, Crash, Fault
    <3>3. Read(p) => exact' = (exact /\ AllIdle) \/ exact' = exact
      BY DEF Read, Load, LoadThroughIndex, IndexRefused, LoadFromState, StateHasNone,
             ScanRuns, Report, Overlap, Calm
    <3>4. Operate(p) => exact' = (\A q \in Procs \ {p} : pc[q] = "idle") \/ exact' = exact
      BY DEF Operate, Measure, Rebuild, RebuildNothing, ArchiveRuns, ArchiveState,
             ArchiveIndex, RestoreRuns, RestoreState, RestoreIndex, Calm
    <3> QED BY <1>1, <2>1, <3>1, <3>2, <3>3, <3>4 DEF Acts
  <2>3. exact
    BY <2>2
  <2>4. ~Busy(pc[p])
    BY <1>5, <2>3 DEF IInv, ExactInv
  <2>5. /\ pc'[p] \in {"idle", "copy_state", "copy_index"}
        /\ runs' = runs /\ snapshot' = snapshot /\ index' = index
    <3>1. /\ ~ReadPrevious(p) /\ ~WriteIndex(p) /\ ~WriteIndexFails(p) /\ ~WriteSnapshot(p)
          /\ ~WriteSnapshotFails(p) /\ ~Crash(p) /\ ~LoadThroughIndex(p) /\ ~IndexRefused(p)
          /\ ~LoadFromState(p) /\ ~StateHasNone(p) /\ ~ScanRuns(p) /\ ~Report(p)
          /\ ~RestoreState(p) /\ ~RestoreIndex(p)
          /\ ~AppendRun(p) /\ ~Rebuild(p) /\ ~RebuildNothing(p)
      BY <2>4 DEF AppendRun, Rebuild, RebuildNothing, ReadPrevious, WriteIndex, WriteIndexFails, WriteSnapshot, Crash, Fault,
                  WriteSnapshotFails, LoadThroughIndex, IndexRefused, LoadFromState,
                  StateHasNone, ScanRuns, Report, RestoreState, RestoreIndex, Busy
    <3>2. ~Open(p) /\ ~Load(p) /\ ~RestoreRuns(p) /\ ~Measure(p)
      BY <2>1 DEF Open, Load, Overlap, RestoreRuns, Measure
    <3>3. ArchiveRuns(p) \/ ArchiveState(p) \/ ArchiveIndex(p)
      BY <1>1, <3>1, <3>2 DEF Acts, Read, Operate
    <3> QED BY <1>2, <3>3 DEF ArchiveRuns, ArchiveState, ArchiveIndex, Goto, disk
  <2>6. ~Busy(pc'[p]) /\ Phase(runs', snapshot', index', pc'[p], job'[p])
    BY <2>5 DEF Busy, Phase
  <2>7. /\ \A q, r \in Procs : Busy(pc[q]) /\ Busy(pc[r]) => q = r
        /\ \A q \in Procs : Phase(runs, snapshot, index, pc[q], job[q])
    BY <2>3 DEF IInv, ExactInv
  <2>8. PICK q \in Procs : q # p /\ Busy(pc'[q])
    BY <1>3, <1>5
  <2> QED BY <1>3, <2>5, <2>6, <2>7, <2>8
<1> QED BY <1>4, <1>5
-----------------------------------------------------------------------------
(* The theorems.                                                             *)

LEMMA InitIInv == ASSUME Init PROVE IInv
<1>1. <<>> \in Seq(Row) /\ Len(<<>>) = 0 /\ DOMAIN <<>> = {}
  OBVIOUS
<1>2. TypeOK
  <2>1. 0 \in 0..MaxRuns /\ 0 \in 0..MaxFaults
    BY MaxRunsNat, MaxFaultsNat
  <2> QED BY <1>1, <2>1, NothingSound, NoJobOK DEF Init, TypeOK, Labels
<1>3. Ordered(runs, begun) /\ Ordered(archived.runs, begun)
  BY <1>1 DEF Init, Ordered, NoArchive
<1>4. \A p \in Procs : pc[p] = "idle"
  BY DEF Init
<1>5. Places /\ NothingYet
  BY <1>4 DEF Init, Places, Place, NothingYet, NoArchive
<1>6. SoundInv
  BY <1>4, NothingSound DEF Init, SoundInv, FilesSound, NoIndex, JobSound
<1>7. ExactInv
  <2>1. DoctorAt(runs, snapshot, index)
    BY <1>1, ScanIs DEF Init, DoctorAt
  <2> QED BY <1>4, <2>1 DEF ExactInv, Busy, Phase
<1> QED BY <1>2, <1>3, <1>5, <1>6, <1>7 DEF IInv

LEMMA NextIInv == ASSUME IInv, [Next]_vars PROVE IInv'
<1>1. CASE Next
  <2>1. TypeOK' /\ Ordered(runs, begun)' /\ Ordered(archived.runs, begun)'
    BY <1>1, Typing, OrderKept DEF IInv
  <2>2. Places' /\ NothingYet'
    BY <1>1, PlacesKept, NothingYetKept DEF IInv
  <2>3. SoundInv' /\ ExactInv'
    BY <1>1, SoundKept, ExactKept
  <2> QED BY <2>1, <2>2, <2>3 DEF IInv
<1>2. CASE UNCHANGED vars
  <2> USE <1>2 DEF vars, disk, history
  <2>1. TypeOK' /\ Ordered(runs, begun)' /\ Ordered(archived.runs, begun)'
    BY DEF IInv, TypeOK, Ordered
  <2>2. Places' /\ NothingYet'
    BY DEF IInv, Places, Place, NothingYet
  <2>3. SoundInv' /\ ExactInv'
    BY DEF IInv, SoundInv, ExactInv
  <2> QED BY <2>1, <2>2, <2>3 DEF IInv
<1> QED BY <1>1, <1>2

\* The run log, its caches and its users keep the inductive invariant.
THEOREM Invariance == Spec => []IInv
<1>1. Init => IInv
  BY InitIInv
<1>2. IInv /\ [Next]_vars => IInv'
  BY NextIInv
<1> QED BY <1>1, <1>2, PTL DEF Spec

\* Every reachable state of the run log, its caches, its archive and the processes
\* that use them is well typed.
THEOREM TypeCorrect == Spec => []TypeOK
<1>1. IInv => TypeOK
  BY DEF IInv
<1> QED BY <1>1, Invariance, PTL

\* However many runs, health checks and operators overlap, fail or are killed, what
\* the two caches and the health check say is about recorded runs, only a run that
\* succeeded is called a success, and an index, whatever came in between the offset
\* and the row, never lets its reader skip a row behind its run, unless a restore was
\* cut short.
THEOREM CachesTheorem == Spec => []CachesAreSound
<1>1. IInv => CachesAreSound
  BY DEF IInv, SoundInv, CachesAreSound, FilesSound, JobSound, SoundIn, Sound, SkipsIn,
         SkipsNothing, Procs
<1> QED BY <1>1, Invariance, PTL

\* An answer that went through the index or the log names the last run recorded
\* before the question, or a later one, whatever is appended or rewritten meanwhile.
THEOREM AnswerTheorem == Spec => []AnswerNamesLastRun
<1>1. IInv => AnswerNamesLastRun
  BY DEF IInv, SoundInv, AnswerNamesLastRun, JobSound, Procs
<1> QED BY <1>1, Invariance, PTL

\* After a rebuild, and for as long as nothing fails or overlaps, --doctor finds the
\* caches to be what a scan of the whole log finds.
THEOREM DoctorTheorem == Spec => []DoctorAccepts
<1>1. IInv => DoctorAccepts
  <2> SUFFICES ASSUME IInv, exact, AllIdle PROVE Doctor
    BY DEF DoctorAccepts
  <2>1. \A p \in Procs : ~Busy(pc[p])
    BY DEF AllIdle, Busy
  <2>2. DoctorAt(runs, snapshot, index)
    BY <2>1 DEF IInv, ExactInv
  <2>3. runs \in Seq(Row) /\ Len(runs) \in Nat
    BY DEF IInv, TypeOK
  <2>4. Scanned = ScanOf(runs)
    <3>1. 0 \in 0..Len(runs)
      BY <2>3
    <3> QED BY <2>3, <3>1, NothingSound, CaughtUpIs DEF Scanned, ScanOf
  <2>5. AtEnd(runs, index) => Fits(index) /\ index.summary = ScanOf(runs)
    <3> SUFFICES ASSUME AtEnd(runs, index) PROVE Fits(index) /\ index.summary = ScanOf(runs)
      OBVIOUS
    <3>1. /\ runs # <<>> /\ index.summary = ScanOf(runs)
          /\ index.offset = Len(runs) - 1 /\ index.eof = Len(runs)
      BY DEF AtEnd
    <3>2. Len(runs) \in DOMAIN runs /\ runs[Len(runs)].run = index.summary.run
      BY <2>3, <3>1, ScanIs
    <3>3. index.offset + 1 = Len(runs) /\ index.eof <= Len(runs)
      BY <2>3, <3>1
    <3> QED BY <3>1, <3>2, <3>3 DEF Fits
  <2> QED BY <2>2, <2>4, <2>5 DEF Doctor, DoctorAt
<1> QED BY <1>1, Invariance, PTL
=============================================================================
