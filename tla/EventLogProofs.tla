--------------------------- MODULE EventLogProofs ---------------------------
(***************************************************************************)
(* Theorems about EventLog, for every number of processes and ids, every   *)
(* size of the disk and any number of faults.                              *)
(*                                                                         *)
(* The crux is that appends never begin with a newline.  So a log is       *)
(* either Framed, one record and one newline in turn with at most a torn   *)
(* tail, or a line before its tail is damaged, and stays so.  In a framed  *)
(* log the rows are the checkpoint tokens, wherever a scan begins, and an  *)
(* append changes nothing about the rows before it.                        *)
(***************************************************************************)
EXTENDS EventLog, SequenceTheorems, WellFoundedInduction, TLAPS

Tokens == Records \union {NewLine, Fragment}

\* Records and newlines in turn; the last token may be a torn record.
Framed ==
    /\ \A k \in 1..Size : log[k] \in Records \union {NewLine}
                          \/ (k = Size /\ log[k] = Fragment)
    /\ \A k \in 1..Size : log[k] = NewLine <=> (k > 1 /\ log[k - 1] # NewLine)

RowsBelow(k) == {o \in CheckpointRows(0) : o < k}

\* An index payload names the last row of some size the log has had since the
\* size it was made for.
Knows(i) ==
    /\ i.eof <= Size
    /\ \E k \in i.eof..Size : RowsBelow(k) # {} /\ CheckpointAt(k) = i.checkpoint

\* The log stood for c at some moment since it was of this size.
StoodFor(c, since) == \E k \in since..Size : c = CheckpointAt(k)

\* What a process has learnt from index and log, and is about to pass on.
JobKnows(p) ==
    LET j == job[p] IN
    /\ pc[p] \in {"check", "scan", "append", "index"} /\ j.idx # NoIndex => Knows(j.idx)
    /\ pc[p] = "scan" => j.from = IF j.idx = NoIndex THEN 0 ELSE j.idx.eof
    /\ pc[p] = "index" => Knows(j.new)
    /\ pc[p] = "index" /\ j.mode = "load" => StoodFor(j.new.checkpoint, j.since)
    /\ pc[p] \in {"append", "index"} /\ j.mode = "bootstrap" => StoodFor(j.result, j.since)
    /\ pc[p] \in {"loaded", "sync", "ready"} /\ j.mode = "load" => StoodFor(j.result, j.since)
    /\ pc[p] = "snapshot" => CheckpointRows(0) # {}

\* What a process does where.
Modes ==
    \A p \in Procs :
        /\ pc[p] = "check" => job[p].mode = "load"
        /\ pc[p] = "scan" => job[p].mode \in {"load", "rebuild"}
        /\ pc[p] = "append" => job[p].mode \in {"append", "bootstrap"}

\* A process's view of the size is never ahead of the log.
SizesSeen == \A p \in Procs : job[p].since <= Size /\ job[p].size <= Size

CleanInv ==
    Clean => /\ Framed
             /\ index # NoIndex => Knows(index)
             /\ CheckpointRows(0) = {} => snap = legacy
             /\ \A p \in Procs : JobKnows(p)

IInv == TypeOK /\ Modes /\ SizesSeen /\ CleanInv /\ RaisedOnlyWhenCorrupt

-----------------------------------------------------------------------------
(* Numbers and sequences.                                                   *)

\* A set of numbers has a least one.
LEMMA Least ==
    ASSUME NEW S \in SUBSET Nat, S # {}
    PROVE  \E m \in S : \A x \in S : m <= x
<1> DEFINE R == OpToRel(<, Nat)
<1>1. PICK m \in S : \A x \in S : ~(<<x, m>> \in R)
  <2>1. IsWellFoundedOn(R, Nat)
    BY NatLessThanWellFounded
  <2> HIDE DEF R
  <2> QED BY <2>1, WFMin
<1>2. ASSUME NEW x \in S PROVE m <= x
  <2>1. x \in Nat /\ m \in Nat /\ ~(<<x, m>> \in R)
    BY <1>1
  <2>2. (x < m) => (<<x, m>> \in R)
    BY <2>1, Zenon DEF OpToRel
  <2>3. ~(x < m)
    BY <2>1, <2>2, Zenon
  <2>4. x \in Nat /\ m \in Nat
    OBVIOUS
  <2> HIDE DEF R
  <2> QED BY <2>3, <2>4
<1> QED BY <1>2

\* Max is the greatest element of a bounded set of numbers.
LEMMA MaxOf ==
    ASSUME NEW n \in Nat, NEW S \in SUBSET (0..n), S # {}
    PROVE  Max(S) \in S /\ \A x \in S : x <= Max(S)
<1> DEFINE T == {n - x : x \in S}
<1>0. \A x \in S : x \in Int /\ 0 <= x /\ x <= n /\ n - x \in Nat
  OBVIOUS
<1>1. T \in SUBSET Nat /\ T # {}
  BY <1>0
<1>2. PICK m \in T : \A x \in T : m <= x
  BY <1>1, Least
<1>3. PICK y \in S : m = n - y
  OBVIOUS
<1>4. ASSUME NEW x \in S PROVE y >= x
  <2>1. n - x \in T
    OBVIOUS
  <2>2. n - y <= n - x
    BY <1>2, <1>3, <2>1
  <2> QED BY <1>0, <2>2
<1>5. Max(S) \in S /\ \A x \in S : Max(S) >= x
  BY <1>4 DEF Max
<1>6. ASSUME NEW x \in S PROVE x <= Max(S)
  BY <1>0, <1>5
<1> QED BY <1>5, <1>6

LEMMA UpToTwoMore ==
    ASSUME NEW a \in Nat, NEW b \in 0..2, NEW k \in 1..(a + b)
    PROVE  k \in 1..a \/ k = a + 1 \/ k = a + 2
OBVIOUS

\* The kinds of tokens can be told apart.
LEMMA TokenKinds ==
    /\ NewLine \notin Records /\ Fragment \notin Records /\ NewLine # Fragment
    /\ NewLine.event # "checkpoint" /\ Fragment.event # "checkpoint"
    /\ \A t \in Records : t.event \in {"checkpoint", "other"} /\ t.checkpoint \in Checkpoint
<1>1. /\ NewLine.event = "newline" /\ Fragment.event = "fragment"
      /\ \A c : Record("checkpoint", c).event = "checkpoint"
              /\ Record("checkpoint", c).checkpoint = c
      /\ Record("other", None).event = "other" /\ Record("other", None).checkpoint = None
  BY DEF NewLine, Fragment, Record
<1>2. \A t \in Records : \/ \E c \in Checkpoint : t = Record("checkpoint", c)
                         \/ t = Record("other", None)
  BY DEF Records
<1>3. None \in Checkpoint
  BY DEF Checkpoint
<1>4. \A t \in Records : t.event \in {"checkpoint", "other"} /\ t.checkpoint \in Checkpoint
  BY <1>1, <1>2, <1>3
<1> QED BY <1>1, <1>4

LEMMA LogType ==
    TypeOK => /\ log \in Seq(Tokens) /\ Size \in Nat /\ Size <= MaxLog
              /\ \A k \in 1..Size : log[k] \in Tokens
BY ElementOfSeq, LenProperties DEF TypeOK, Size, Tokens

\* What an append leaves of the log before it, and adds to it.
Appended(part) ==
    /\ log' = log \o part
    /\ Size + Len(part) <= MaxLog

Parts(rec) == {<<>>, <<Fragment>>, <<rec>>, <<rec, NewLine>>}

LEMMA AppendedLog ==
    ASSUME TypeOK, NEW rec \in Records, NEW part \in Parts(rec), Appended(part)
    PROVE  /\ log' \in Seq(Tokens) /\ Size' \in Nat /\ Size' <= MaxLog
           /\ Size' = Size + Len(part) /\ Len(part) \in 0..2
           /\ \A k \in 1..Size : log'[k] = log[k]
           /\ \A k \in 1..Len(part) : log'[Size + k] = part[k]
           /\ Len(part) > 0 => part[1] # NewLine /\ part[1] \in {rec, Fragment}
           /\ Len(part) > 1 => part[2] = NewLine /\ part[1] = rec /\ Len(part) = 2
<1>1. /\ part \in Seq(Tokens) /\ Len(part) \in 0..2
      /\ Len(part) > 0 => part[1] \in {rec, Fragment}
      /\ Len(part) > 1 => part[2] = NewLine /\ part[1] = rec /\ Len(part) = 2
  <2>1. rec \in Tokens /\ Fragment \in Tokens /\ NewLine \in Tokens
    BY DEF Tokens
  <2>2. CASE part = <<>>
    BY <2>2
  <2>3. ASSUME NEW t \in {rec, Fragment}, part = <<t>>
        PROVE  part \in Seq(Tokens) /\ Len(part) = 1 /\ part[1] = t
    BY <2>1, <2>3
  <2>4. CASE part = <<rec, NewLine>>
    BY <2>1, <2>4
  <2> QED BY <2>2, <2>3, <2>4 DEF Parts
<1>2. log \in Seq(Tokens) /\ Size \in Nat
  BY LogType
<1>3. /\ log' \in Seq(Tokens) /\ Size' = Size + Len(part)
      /\ \A i \in 1..(Size + Len(part)) :
            log'[i] = IF i <= Size THEN log[i] ELSE part[i - Size]
  BY <1>1, <1>2, ConcatProperties DEF Appended, Size
<1>4. \A k \in 1..Size : log'[k] = log[k]
  BY <1>1, <1>2, <1>3
<1>5. \A k \in 1..Len(part) : log'[Size + k] = part[k]
  BY <1>1, <1>2, <1>3
<1>6. Size' \in Nat /\ Size' <= MaxLog
  BY <1>1, <1>2, <1>3 DEF Appended
<1> QED BY <1>1, <1>3, <1>4, <1>5, <1>6, TokenKinds

-----------------------------------------------------------------------------
(* Framed logs.                                                             *)

\* In a framed log a scan finds the checkpoint tokens from where it begins.
LEMMA FramedRows ==
    TypeOK /\ Framed =>
        \A from \in Nat : CheckpointRows(from) =
            {o \in from..(Size - 1) : log[o + 1].event = "checkpoint"}
<1> SUFFICES ASSUME TypeOK, Framed, NEW from \in Nat
             PROVE  CheckpointRows(from) =
                        {o \in from..(Size - 1) : log[o + 1].event = "checkpoint"}
  OBVIOUS
<1>0. Size \in Nat
  BY LogType
<1>1. CheckpointRows(from) \subseteq {o \in from..(Size - 1) : log[o + 1].event = "checkpoint"}
  BY DEF CheckpointRows, LineStarts
<1>2. ASSUME NEW o \in from..(Size - 1), log[o + 1].event = "checkpoint"
      PROVE  o \in CheckpointRows(from)
  <2>1. o \in Nat /\ o + 1 \in 1..Size /\ (o + 1) - 1 = o
    BY <1>0
  <2>2. log[o + 1] \in Records /\ log[o + 1] # NewLine
    BY <1>2, <2>1, TokenKinds DEF Framed
  <2>3. o = 0 \/ log[o] = NewLine
    BY <2>1, <2>2 DEF Framed
  <2>4. o + 2 <= Size => log[o + 2] = NewLine
    <3> SUFFICES ASSUME o + 2 <= Size PROVE log[o + 2] = NewLine
      OBVIOUS
    <3>1. o + 2 \in 1..Size /\ o + 2 > 1 /\ (o + 2) - 1 = o + 1
      BY <1>0, <2>1
    <3> QED BY <2>2, <3>1 DEF Framed
  <2>5. o = from \/ log[o] = NewLine
    BY <2>1, <2>3
  <2> QED BY <1>2, <2>1, <2>2, <2>4, <2>5 DEF CheckpointRows, LineStarts, Parses
<1> QED BY <1>1, <1>2

LEMMA FramedRowsBelow ==
    TypeOK /\ Framed =>
        \A k \in Nat : RowsBelow(k) =
            {o \in 0..(Size - 1) : o < k /\ log[o + 1].event = "checkpoint"}
BY FramedRows DEF RowsBelow

LEMMA FramedRowsBelowNext ==
    TypeOK' /\ Framed' =>
        \A k \in Nat : RowsBelow(k)' =
            {o \in 0..(Size' - 1) : o < k /\ log'[o + 1].event = "checkpoint"}
<1>1. (TypeOK /\ Framed => \A k \in Nat : RowsBelow(k) =
          {o \in 0..(Size - 1) : o < k /\ log[o + 1].event = "checkpoint"})'
  BY FramedRowsBelow, PTL
<1> QED BY <1>1

\* The last row of a scan is its greatest offset.
LEMMA LastRowIs ==
    TypeOK => \A from \in Nat : \A rows \in SUBSET CheckpointRows(from) :
        rows # {} => LastRow(rows) \in rows /\ \A o \in rows : o <= LastRow(rows)
<1> SUFFICES ASSUME TypeOK, NEW from \in Nat,
                    NEW rows \in SUBSET CheckpointRows(from), rows # {}
             PROVE  LastRow(rows) \in rows /\ \A o \in rows : o <= LastRow(rows)
  OBVIOUS
<1>1. Size \in Nat
  BY LogType
<1>2. rows \subseteq 0..Size
  BY <1>1 DEF CheckpointRows, LineStarts
<1> QED BY <1>1, <1>2, MaxOf DEF LastRow

\* A scan that finds rows finds what the log stands for.
LEMMA ScanIsCurrent ==
    ASSUME TypeOK, Framed, NEW from \in Nat, CheckpointRows(from) # {}
    PROVE  /\ RowsBelow(Size) # {}
           /\ CheckpointAt(Size) = log[LastRow(CheckpointRows(from)) + 1].checkpoint
<1> DEFINE rows == CheckpointRows(from)
           all == RowsBelow(Size)
<1>1. Size \in Nat
  BY LogType
<1>2. rows \subseteq all /\ all \subseteq CheckpointRows(0)
      /\ \A o \in all : o >= from => o \in rows
  <2>1. rows = {o \in from..(Size - 1) : log[o + 1].event = "checkpoint"}
    BY FramedRows
  <2>2. all = {o \in 0..(Size - 1) : o < Size /\ log[o + 1].event = "checkpoint"}
    BY <1>1, FramedRowsBelow
  <2>3. all \subseteq CheckpointRows(0)
    BY DEF RowsBelow
  <2> HIDE DEF rows, all
  <2> QED BY <1>1, <2>1, <2>2, <2>3
<1>3. LastRow(rows) \in rows /\ \A o \in rows : o <= LastRow(rows)
  BY LastRowIs
<1>4. LastRow(all) \in all /\ \A o \in all : o <= LastRow(all)
  BY <1>2, LastRowIs
<1>5. LastRow(rows) = LastRow(all)
  <2>1. LastRow(rows) \in Nat /\ LastRow(all) \in Nat /\ LastRow(rows) >= from
    BY <1>1, <1>3, <1>4 DEF RowsBelow, CheckpointRows, LineStarts
  <2>2. LastRow(rows) <= LastRow(all)
    BY <1>2, <1>3, <1>4
  <2>3. LastRow(all) >= from
    BY <2>1, <2>2
  <2>4. LastRow(all) <= LastRow(rows)
    BY <1>2, <1>3, <1>4, <2>3
  <2> QED BY <2>1, <2>2, <2>4
<1>6. CheckpointAt(Size) = log[LastRow(all) + 1].checkpoint
  BY <1>2, <1>3 DEF CheckpointAt, RowsBelow
<1> QED BY <1>2, <1>3, <1>5, <1>6

\* A payload behind whose size no row is found is still current.
LEMMA PayloadIsCurrent ==
    ASSUME TypeOK, Framed, NEW i \in Indexes, Knows(i), CheckpointRows(i.eof) = {}
    PROVE  RowsBelow(Size) # {} /\ CheckpointAt(Size) = i.checkpoint
<1>1. Size \in Nat /\ i.eof \in Nat
  BY LogType DEF Indexes
<1>2. PICK k \in i.eof..Size : RowsBelow(k) # {} /\ CheckpointAt(k) = i.checkpoint
  BY DEF Knows
<1>3. RowsBelow(k) = RowsBelow(Size)
  <2>1. k \in Nat
    BY <1>1
  <2>2. \A o \in i.eof..(Size - 1) : log[o + 1].event # "checkpoint"
    BY <1>1, FramedRows
  <2>3. ASSUME NEW o \in 0..(Size - 1), log[o + 1].event = "checkpoint"
        PROVE  o < k /\ o < Size
    <3>1. ~(o \in i.eof..(Size - 1))
      BY <2>2, <2>3
    <3> QED BY <1>1, <3>1
  <2>4. RowsBelow(k) = {o \in 0..(Size - 1) : o < k /\ log[o + 1].event = "checkpoint"}
    BY <2>1, FramedRowsBelow
  <2>5. RowsBelow(Size) = {o \in 0..(Size - 1) : o < Size /\ log[o + 1].event = "checkpoint"}
    BY <1>1, FramedRowsBelow
  <2> QED BY <2>3, <2>4, <2>5
<1> QED BY <1>2, <1>3 DEF CheckpointAt, RowsBelow

-----------------------------------------------------------------------------
(* What an append, whole or torn, leaves as it was.                         *)

Damaged(o) == o \in LineStarts(0) /\ ~Blank(o) /\ ~Parses(o)

\* A damaged line is never repaired, and what is behind the tail stays there.
LEMMA DamageStays ==
    ASSUME TypeOK, NEW rec \in Records, NEW part \in Parts(rec), Appended(part),
           NEW o, Damaged(o)
    PROVE  Damaged(o)' /\ o \in 0..(Size - 1) /\ (o + 1 # Size => o + 1 # Size')
<1>1. o \in 0..(Size - 1) /\ (o = 0 \/ log[o] = NewLine) /\ log[o + 1] # NewLine
  BY DEF Damaged, LineStarts, Blank
<1>2. log[o + 1] \notin Records \/ (o + 2 <= Size /\ log[o + 2] # NewLine)
  BY DEF Damaged, Parses
<1>3. /\ Size \in Nat /\ Size' \in Nat /\ Size <= Size'
      /\ \A k \in 1..Size : log'[k] = log[k]
  BY AppendedLog, LogType
<1>4. o \in 0..(Size' - 1) /\ o + 1 \in 1..Size /\ (o + 1 # Size => o + 1 # Size')
  BY <1>1, <1>3
<1>5. (o = 0 \/ log'[o] = NewLine) /\ log'[o + 1] = log[o + 1]
  <2>1. o # 0 => o \in 1..Size
    BY <1>1, <1>3
  <2> QED BY <1>1, <1>3, <1>4, <2>1
<1>6. log'[o + 1] \notin Records \/ (o + 2 <= Size' /\ log'[o + 2] # NewLine)
  <2>1. CASE log[o + 1] \notin Records
    BY <1>5, <2>1
  <2>2. CASE o + 2 <= Size /\ log[o + 2] # NewLine
    <3>1. o + 2 \in 1..Size
      BY <1>1, <1>3, <2>2
    <3>2. log'[o + 2] = log[o + 2] /\ o + 2 <= Size'
      BY <1>3, <3>1
    <3> QED BY <2>2, <3>2
  <2> QED BY <1>2, <2>1, <2>2
<1> QED BY <1>1, <1>4, <1>5, <1>6 DEF Damaged, LineStarts, Blank, Parses

\* A log that is clean after an append was clean before it.
LEMMA CleanBefore ==
    ASSUME TypeOK, NEW rec \in Records, NEW part \in Parts(rec), Appended(part), Clean'
    PROVE  Clean
<1> SUFFICES ASSUME NEW o \in LineStarts(0), ~Blank(o), ~Parses(o), o + 1 # Size
             PROVE  FALSE
  BY DEF Clean
<1>1. Damaged(o)' /\ o + 1 # Size'
  BY DamageStays DEF Damaged
<1> QED BY <1>1 DEF Clean, Damaged

\* And its records and newlines go on in turn.
LEMMA FramedAfter ==
    ASSUME TypeOK, NEW rec \in Records, NEW part \in Parts(rec), Appended(part),
           Clean', Framed
    PROVE  Framed'
<1>1. /\ Size \in Nat /\ Size' = Size + Len(part) /\ Len(part) \in 0..2
      /\ \A k \in 1..Size : log'[k] = log[k]
      /\ \A k \in 1..Len(part) : log'[Size + k] = part[k]
      /\ Len(part) > 0 => part[1] # NewLine /\ part[1] \in {rec, Fragment}
      /\ Len(part) > 1 => part[2] = NewLine /\ part[1] = rec /\ Len(part) = 2
  BY AppendedLog, LogType
<1>2. CASE Len(part) = 0
  <2>1. Size' = Size
    BY <1>1, <1>2
  <2>2. ASSUME NEW k \in 1..Size
        PROVE  log'[k] = log[k] /\ (k > 1 => log'[k - 1] = log[k - 1])
    BY <1>1
  <2> QED BY <2>1, <2>2 DEF Framed
<1>3. CASE Len(part) > 0
  <2>1. Size = 0 \/ log[Size] = NewLine
    <3> SUFFICES ASSUME Size > 0, log[Size] # NewLine PROVE FALSE
      BY <1>1
    <3> DEFINE o == Size - 1
    <3>1. o \in 0..(Size' - 1) /\ o + 1 = Size /\ o + 2 = Size + 1
          /\ o + 2 <= Size' /\ o + 1 # Size'
      BY <1>1, <1>3
    <3>2. Size = 1 \/ log'[Size - 1] = NewLine
      <4>1. Size \in 1..Size
        BY <1>1
      <4>2. Size > 1 => log[Size - 1] = NewLine /\ Size - 1 \in 1..Size
        BY <1>1, <4>1 DEF Framed
      <4>3. ASSUME Size > 1 PROVE log'[Size - 1] = NewLine
        <5>1. log'[Size - 1] = log[Size - 1]
          BY <1>1, <4>2, <4>3
        <5> QED BY <4>2, <4>3, <5>1
      <4>5. Size = 1 \/ Size > 1
        BY <1>1
      <4> QED BY <4>3, <4>5, Zenon
    <3>3. log'[o + 1] # NewLine
      BY <1>1, <3>1
    <3>4. log'[o + 2] # NewLine
      BY <1>1, <1>3, <3>1
    <3>5. o = 0 \/ log'[o] = NewLine
      BY <3>2
    <3> HIDE DEF o
    <3> QED BY <3>1, <3>3, <3>4, <3>5 DEF Clean, LineStarts, Blank, Parses
  <2>2. ASSUME NEW k \in 1..Size'
        PROVE  /\ log'[k] \in Records \union {NewLine} \/ (k = Size' /\ log'[k] = Fragment)
               /\ log'[k] = NewLine <=> (k > 1 /\ log'[k - 1] # NewLine)
    <3>1. CASE k \in 1..Size
      <4>1. log'[k] = log[k] /\ (k > 1 => log'[k - 1] = log[k - 1])
        BY <1>1, <3>1
      <4>2. log[k] \in Records \union {NewLine}
        BY <2>1, <3>1, TokenKinds DEF Framed
      <4> QED BY <3>1, <4>1, <4>2 DEF Framed
    <3>2. CASE k = Size + 1
      <4>1. log'[k] = part[1] /\ k - 1 = Size
        BY <1>1, <1>3, <3>2
      <4>2. Size > 0 => log'[Size] = NewLine
        BY <1>1, <2>1
      <4>3. ~(k > 1 /\ log'[k - 1] # NewLine)
        BY <1>1, <3>2, <4>1, <4>2
      <4>4. part[1] \in Records \/ (k = Size' /\ part[1] = Fragment)
        BY <1>1, <1>3, <3>2
      <4> QED BY <1>1, <1>3, <4>1, <4>3, <4>4
    <3>3. CASE k = Size + 2
      <4>1. Len(part) = 2 /\ part[1] = rec /\ part[2] = NewLine
        BY <1>1, <3>3
      <4>2. log'[k] = NewLine /\ k - 1 = Size + 1 /\ k > 1
        BY <1>1, <3>3, <4>1
      <4>3. log'[Size + 1] = rec
        BY <1>1, <4>1
      <4> QED BY <4>2, <4>3, TokenKinds
    <3>4. k \in 1..Size \/ k = Size + 1 \/ k = Size + 2
      <4>1. k \in 1..(Size + Len(part))
        BY <1>1
      <4> QED BY <1>1, <4>1, UpToTwoMore
    <3> QED BY <3>1, <3>2, <3>3, <3>4
  <2> QED BY <2>2 DEF Framed
<1> QED BY <1>1, <1>2, <1>3

\* So the log stands for what it stood for at every size it has had.
LEMMA PastStays ==
    ASSUME TypeOK, TypeOK', NEW rec \in Records, NEW part \in Parts(rec),
           Appended(part), legacy' = legacy, Framed, Framed', NEW n \in 0..Size
    PROVE  RowsBelow(n)' = RowsBelow(n) /\ CheckpointAt(n)' = CheckpointAt(n)
<1>1. /\ Size \in Nat /\ Size' \in Nat /\ Size <= Size'
      /\ \A i \in 1..Size : log'[i] = log[i]
  BY AppendedLog, LogType
<1>2. RowsBelow(n) = {o \in 0..(Size - 1) : o < n /\ log[o + 1].event = "checkpoint"}
  BY <1>1, FramedRowsBelow
<1>3. RowsBelow(n)' = {o \in 0..(Size' - 1) : o < n /\ log'[o + 1].event = "checkpoint"}
  <2>1. n \in Nat
    BY <1>1
  <2> QED BY <2>1, FramedRowsBelowNext
<1>4. ASSUME NEW o, o \in 0..(Size - 1) PROVE log'[o + 1] = log[o + 1]
  BY <1>1, <1>4
<1>5. RowsBelow(n)' = RowsBelow(n)
  <2>1. \A o : o \in 0..(Size' - 1) /\ o < n <=> o \in 0..(Size - 1) /\ o < n
    BY <1>1
  <2> QED BY <1>2, <1>3, <1>4, <2>1
<1>6. RowsBelow(n) # {} => LastRow(RowsBelow(n)) \in 0..(Size - 1)
  <2>1. RowsBelow(n) \in SUBSET CheckpointRows(0)
    BY DEF RowsBelow
  <2> QED BY <1>2, <2>1, LastRowIs
<1>7. CheckpointAt(n)' = IF RowsBelow(n)' = {} THEN legacy'
                         ELSE log'[LastRow(RowsBelow(n)') + 1].checkpoint
  BY DEF CheckpointAt, RowsBelow, LastRow
<1>8. CheckpointAt(n) = IF RowsBelow(n) = {} THEN legacy
                        ELSE log[LastRow(RowsBelow(n)) + 1].checkpoint
  BY DEF CheckpointAt, RowsBelow
<1> QED BY <1>4, <1>5, <1>6, <1>7, <1>8

\* A checkpoint event that was appended is what the log stands for now, with
\* or without its newline.
LEMMA AppendedCheckpoint ==
    ASSUME TypeOK, TypeOK', NEW rec \in Records, rec.event = "checkpoint",
           NEW part \in {<<rec>>, <<rec, NewLine>>}, Appended(part), Framed',
           NEW n, n = Size'
    PROVE  RowsBelow(n)' # {} /\ CheckpointAt(n)' = rec.checkpoint
<1> DEFINE rows == {o \in 0..(n - 1) : o < n /\ log'[o + 1].event = "checkpoint"}
<1>1. /\ Size \in Nat /\ n \in Nat /\ log'[Size + 1] = rec
      /\ n = Size + 1 \/ (n = Size + 2 /\ log'[Size + 2] = NewLine)
  <2>1. /\ part \in Parts(rec) /\ part[1] = rec
        /\ Len(part) = 1 \/ (Len(part) = 2 /\ part[2] = NewLine)
    BY DEF Parts
  <2>2. Size' = Size + Len(part) /\ \A k \in 1..Len(part) : log'[Size + k] = part[k]
    BY <2>1, AppendedLog
  <2>3. Size \in Nat
    BY LogType
  <2>4. CASE Len(part) = 1
    BY <2>1, <2>2, <2>3, <2>4
  <2>5. CASE Len(part) = 2 /\ part[2] = NewLine
    <3>1. 1 \in 1..2 /\ 2 \in 1..2
      OBVIOUS
    <3> QED BY <2>1, <2>2, <2>3, <2>5, <3>1
  <2> QED BY <2>1, <2>4, <2>5
<1>2. RowsBelow(n)' = rows
  BY <1>1, FramedRowsBelowNext
<1>3. Size \in rows /\ \A o \in rows : o <= Size
  <2>1. Size \in 0..(n - 1) /\ Size < n /\ log'[Size + 1].event = "checkpoint"
    <3>1. \A i, k \in Nat : k = i + 1 \/ k = i + 2 => i \in 0..(k - 1) /\ i < k
      OBVIOUS
    <3> QED BY <1>1, <3>1
  <2>2. ASSUME NEW o \in rows PROVE o <= Size
    <3>1. CASE n = Size + 1
      BY <1>1, <3>1
    <3>2. CASE n = Size + 2 /\ log'[Size + 2] = NewLine
      <4>1. (Size + 1) + 1 = Size + 2
        BY <1>1
      <4>2. o # Size + 1
        BY <3>2, <4>1, TokenKinds
      <4> QED BY <1>1, <3>2, <4>2
    <3> QED BY <1>1, <3>1, <3>2
  <2> QED BY <2>1, <2>2
<1> HIDE DEF rows
<1>4. Max(rows) = Size
  <2>0. \A o \in rows : o \in 0..n
    <3>1. \A o \in rows : o \in 0..(n - 1)
      BY DEF rows
    <3> QED BY <1>1, <3>1
  <2>1. rows \in SUBSET (0..n) /\ rows # {}
    BY <1>3, <2>0
  <2>2. Max(rows) \in rows /\ \A o \in rows : o <= Max(rows)
    BY <1>1, <2>1, MaxOf
  <2>3. Max(rows) \in 0..n /\ Max(rows) <= Size /\ Size <= Max(rows)
    BY <1>3, <2>1, <2>2
  <2> QED BY <1>1, <2>3
<1>5. CheckpointAt(n)' = IF RowsBelow(n)' = {} THEN legacy'
                         ELSE log'[Max(RowsBelow(n)') + 1].checkpoint
  BY DEF CheckpointAt, RowsBelow, LastRow
<1> QED BY <1>1, <1>2, <1>3, <1>4, <1>5
-----------------------------------------------------------------------------
(* Steps.                                                                   *)

Step(p) ==
    \/ Load(p) \/ Rebuild(p)
    \/ IndexHit(p) \/ IndexBehind(p) \/ IndexMiss(p)
    \/ ScanRaises(p) \/ ScanFinds(p) \/ ScanFindsNothing(p)
    \/ RebuildFindsNothing(p)
    \/ UpdateIndex(p) \/ UpdateIndexFails(p)
    \/ LoadInitialSyncState(p) \/ InitialSyncStateLoaded(p)
    \/ \E rec \in Records : Open(p, rec)
    \/ AppendRow(p) \/ AppendRowFails(p)
    \/ UpdateSnapshot(p)
    \/ Finish(p)
    \/ Crash(p)

LEMMA NextIsStep == Next <=> \E p \in Procs : Step(p)
BY DEF Next, Step

\* Every step appends something to the log, if only nothing, and only an
\* append appends something: the record in hand, or what is left of it.
LEMMA StepAppendsRec ==
    ASSUME TypeOK, NEW p \in Procs, Step(p)
    PROVE  \E part \in Parts(job[p].rec) :
              /\ Appended(part)
              /\ part # <<>> => pc[p] = "append"
              /\ AppendRow(p) => part = <<job[p].rec, NewLine>>
<1>1. CASE AppendRow(p)
  BY <1>1 DEF AppendRow, Parts, Appended
<1>2. CASE pc[p] = "append" /\ TornAppend(job[p].rec) /\ ~AppendRow(p)
  BY <1>2 DEF TornAppend, Parts, Appended
<1>3. CASE log' = log /\ ~AppendRow(p)
  <2>1. log \o <<>> = log /\ Size \in Nat /\ Size <= MaxLog
    BY LogType, ConcatEmptySeq
  <2> QED BY <1>3, <2>1 DEF Parts, Appended
<1>4. log' = log \/ AppendRow(p) \/ (pc[p] = "append" /\ TornAppend(job[p].rec))
  BY DEF Step, Load, Rebuild, IndexHit, IndexBehind, IndexMiss, ScanRaises, ScanFinds,
         ScanFindsNothing, RebuildFindsNothing, UpdateIndex, UpdateIndexFails,
         LoadInitialSyncState, InitialSyncStateLoaded, Open, AppendRowFails,
         UpdateSnapshot, Finish, Crash, files
<1> QED BY <1>1, <1>2, <1>3, <1>4

LEMMA StepAppends ==
    ASSUME TypeOK, NEW p \in Procs, Step(p)
    PROVE  \E rec \in Records : \E part \in Parts(rec) : Appended(part)
<1>1. job[p].rec \in Records
  BY DEF TypeOK, Jobs
<1> QED BY <1>1, StepAppendsRec

LEMMA LegacyStays == ASSUME NEW p \in Procs, Step(p) PROVE legacy' = legacy
BY DEF Step, Load, Rebuild, IndexHit, IndexBehind, IndexMiss, ScanRaises, ScanFinds,
       ScanFindsNothing, RebuildFindsNothing, UpdateIndex, UpdateIndexFails,
       LoadInitialSyncState, InitialSyncStateLoaded, Open, AppendRow, AppendRowFails,
       UpdateSnapshot, Finish, Crash, files

-----------------------------------------------------------------------------
(* Types.                                                                   *)

LEMMA Constants ==
    /\ Record("other", None) \in Records
    /\ \A c \in Checkpoint : Record("checkpoint", c) \in Records
    /\ NoIndex \in Indexes /\ IdleJob \in Jobs
    /\ None \in Checkpoint /\ MaxLog \in Nat
<1>1. None \in Checkpoint /\ MaxLog \in Nat
  BY BoundsNat DEF Checkpoint
<1>2. Record("other", None) \in Records /\ \A c \in Checkpoint : Record("checkpoint", c) \in Records
  BY DEF Records
<1>3. NoIndex \in Indexes
  BY <1>1 DEF NoIndex, Indexes
<1>4. IdleJob \in Jobs
  BY <1>1, <1>2, <1>3 DEF IdleJob, Jobs
<1> QED BY <1>1, <1>2, <1>3, <1>4

LEMMA PayloadType ==
    ASSUME TypeOK, NEW from \in Nat, NEW j \in Jobs
    PROVE  Payload(CheckpointRows(from), j) \in Indexes
<1>1. CASE CheckpointRows(from) = {}
  <2>1. j.idx \in Indexes /\ j.size \in 0..MaxLog
    BY DEF Jobs
  <2> QED BY <1>1, <2>1 DEF Payload, Indexes
<1>2. CASE CheckpointRows(from) # {}
  <2> DEFINE o == LastRow(CheckpointRows(from))
  <2>1. o \in CheckpointRows(from)
    BY <1>2, LastRowIs
  <2>2. o \in 0..(Size - 1) /\ log[o + 1] \in Records
    BY <2>1, LogType DEF CheckpointRows, LineStarts, Parses
  <2>3. log[o + 1].checkpoint \in Checkpoint /\ o \in 0..(MaxLog + 1)
    BY <2>2, TokenKinds, LogType, Constants
  <2>4. j.size \in 0..MaxLog
    BY DEF Jobs
  <2> HIDE DEF o
  <2>5. [checkpoint |-> log[o + 1].checkpoint, offset |-> o, eof |-> j.size] \in Indexes
    BY <2>3, <2>4 DEF Indexes
  <2> QED BY <1>2, <2>5 DEF Payload, o
<1> QED BY <1>1, <1>2

LEMMA InitTyped == Init => TypeOK
<1> SUFFICES ASSUME Init PROVE TypeOK
  OBVIOUS
<1>1. log \in Seq(Records \union {NewLine, Fragment}) /\ Size = 0
  BY DEF Init, InitCommon, Size
<1>2. 0 \in 0..MaxFaults /\ 0 <= MaxLog
  BY BoundsNat
<1> QED BY <1>1, <1>2, Constants DEF Init, InitCommon, TypeOK, Labels

\* What every step does to the log and to the sizes that were acknowledged.
LEMMA LogTyped ==
    ASSUME TypeOK, NEW p \in Procs, Step(p)
    PROVE  /\ log' \in Seq(Tokens) /\ Size' \in Nat /\ Size \in Nat
           /\ Size' <= MaxLog /\ Size <= Size' /\ acked' \in 0..Size'
<1>0. PICK rec \in Records : \E part \in Parts(rec) : Appended(part)
  BY StepAppends
<1>1. PICK part \in Parts(rec) : Appended(part)
  BY <1>0
<1>2. /\ log' \in Seq(Tokens) /\ Size' \in Nat /\ Size \in Nat
      /\ Size' <= MaxLog /\ Size <= Size'
  BY <1>1, AppendedLog, LogType
<1>3. CASE acked' = acked
  BY <1>2, <1>3 DEF TypeOK
<1>4. CASE AppendRow(p)
  BY <1>2, <1>4 DEF AppendRow, Size
<1>5. acked' = acked \/ AppendRow(p)
  BY DEF Step, Load, Rebuild, IndexHit, IndexBehind, IndexMiss, ScanRaises, ScanFinds,
         ScanFindsNothing, RebuildFindsNothing, UpdateIndex, UpdateIndexFails,
         LoadInitialSyncState, InitialSyncStateLoaded, Open, AppendRowFails,
         UpdateSnapshot, Finish, Crash, files
<1> QED BY <1>2, <1>3, <1>4, <1>5

\* Every step leaves the process with a job of the right type.
JobStep(p) == \E j \in Jobs : \E l \in Labels :
    job' = [job EXCEPT ![p] = j] /\ pc' = [pc EXCEPT ![p] = l]

LEMMA JobTyped ==
    ASSUME TypeOK, NEW p \in Procs, Step(p)
    PROVE  JobStep(p)
<1>1. /\ job[p] \in Jobs /\ job[p].idx \in Indexes /\ job[p].new \in Indexes
      /\ job[p].rec \in Records /\ job[p].result \in Checkpoint
      /\ job[p].size \in 0..MaxLog /\ job[p].since \in 0..MaxLog
      /\ index \in Indexes /\ snap \in Checkpoint
      /\ pc[p] \in Labels /\ job \in [Procs -> Jobs] /\ pc \in [Procs -> Labels]
      /\ \A i \in Indexes : i.checkpoint \in Checkpoint /\ i.eof \in 0..MaxLog
  BY DEF TypeOK, Jobs, Indexes
<1>2. /\ Size \in 0..MaxLog /\ acked \in 0..MaxLog /\ Size \in 0..(MaxLog + 1)
      /\ Size' \in 0..MaxLog /\ 0 \in 0..MaxLog
  BY LogType, LogTyped, Constants DEF TypeOK
<1>3. ASSUME NEW c \in Checkpoint, Loaded(p, c) PROVE JobStep(p)
  <2>1. [IdleJob EXCEPT !.since = job[p].since, !.result = c] \in Jobs
    BY <1>1, Constants DEF Jobs
  <2> QED BY <1>3, <2>1 DEF Loaded, Goto, JobStep, Labels
<1>4. ASSUME Forget(p), Goto(p, "idle") PROVE JobStep(p)
  BY <1>4, Constants DEF Forget, Goto, JobStep, Labels
<1>5. ASSUME Working(p) PROVE JobStep(p)
  <2>1. [IdleJob EXCEPT !.mode = "append"] \in Jobs
    BY Constants DEF Jobs
  <2> QED BY <1>5, <2>1 DEF Working, Goto, JobStep, Labels
<1>6. CASE Load(p)
  <2>1. [IdleJob EXCEPT !.idx = index, !.since = acked] \in Jobs
    BY <1>1, <1>2, Constants DEF Jobs
  <2> QED BY <1>6, <2>1 DEF Load, Goto, JobStep, Labels
<1>7. CASE Rebuild(p)
  <2>1. [IdleJob EXCEPT !.mode = "rebuild", !.size = Size] \in Jobs
    BY <1>2, Constants DEF Jobs
  <2> QED BY <1>7, <2>1 DEF Rebuild, Goto, JobStep, Labels
<1>8. CASE IndexHit(p)
  BY <1>1, <1>3, <1>8 DEF IndexHit
<1>9. CASE IndexBehind(p)
  <2>1. [job[p] EXCEPT !.from = job[p].idx.eof, !.size = Size] \in Jobs
    BY <1>1, <1>2 DEF Jobs
  <2>2. job' = [job EXCEPT ![p] = [job[p] EXCEPT !.from = job[p].idx.eof, !.size = Size]]
    BY <1>1, <1>9 DEF IndexBehind
  <2> QED BY <1>9, <2>1, <2>2 DEF IndexBehind, Goto, JobStep, Labels
<1>10. CASE IndexMiss(p)
  <2>1. [job[p] EXCEPT !.idx = NoIndex, !.from = 0, !.size = Size] \in Jobs
    BY <1>1, <1>2, Constants DEF Jobs
  <2>2. job' = [job EXCEPT ![p] = [job[p] EXCEPT !.idx = NoIndex, !.from = 0, !.size = Size]]
    BY <1>1, <1>10 DEF IndexMiss
  <2> QED BY <1>10, <2>1, <2>2 DEF IndexMiss, Goto, JobStep, Labels
<1>11. CASE ScanRaises(p)
  <2>1. [IdleJob EXCEPT !.size = job[p].size] \in Jobs
    BY <1>1, Constants DEF Jobs
  <2> QED BY <1>11, <2>1 DEF ScanRaises, Goto, JobStep, Labels
<1>12. CASE ScanFinds(p)
  <2> DEFINE new == Payload(CheckpointRows(job[p].from), job[p])
  <2>1. job[p].from \in Nat
    BY <1>1, Constants DEF Jobs
  <2>2. new \in Indexes
    BY <1>1, <2>1, PayloadType
  <2>3. [job[p] EXCEPT !.new = new] \in Jobs
    <3> HIDE DEF new
    <3> QED BY <1>1, <2>2 DEF Jobs
  <2>4. job' = [job EXCEPT ![p] = [job[p] EXCEPT !.new = new]]
    BY <1>1, <1>12 DEF ScanFinds
  <2> QED BY <1>12, <2>3, <2>4 DEF ScanFinds, Goto, JobStep, Labels
<1>13. CASE ScanFindsNothing(p)
  <2> DEFINE j == [job[p] EXCEPT !.mode = "bootstrap", !.result = snap,
                                 !.rec = Record("checkpoint", snap),
                                 !.new = [job[p].new EXCEPT !.offset = Size]]
  <2>1. [job[p].new EXCEPT !.offset = Size] \in Indexes
    BY <1>1, <1>2 DEF Indexes
  <2>2. j \in Jobs
    BY <1>1, <2>1, Constants DEF Jobs
  <2>3. Loaded(p, snap) \/ (job' = [job EXCEPT ![p] = j] /\ Goto(p, "append"))
    <3>1. ASSUME job' = [job EXCEPT ![p].mode = "bootstrap", ![p].result = snap,
                           ![p].rec = Record("checkpoint", snap),
                           ![p].new.offset = Size]
          PROVE  job' = [job EXCEPT ![p] = j]
      BY <1>1, <3>1 DEF Jobs, Indexes
    <3> HIDE DEF j
    <3> QED BY <1>13, <3>1 DEF ScanFindsNothing
  <2> HIDE DEF j
  <2> QED BY <1>1, <1>3, <2>2, <2>3 DEF Goto, JobStep, Labels
<1>14. CASE RebuildFindsNothing(p)
  BY <1>4, <1>14 DEF RebuildFindsNothing
<1>15. CASE AfterIndex(p)
  <2>1. [job[p] EXCEPT !.idx = NoIndex, !.from = 0, !.size = Size, !.new = NoIndex] \in Jobs
    BY <1>1, <1>2, Constants DEF Jobs
  <2>2. \/ /\ job' = [job EXCEPT ![p] = [job[p] EXCEPT !.idx = NoIndex, !.from = 0,
                                                      !.size = Size, !.new = NoIndex]]
           /\ Goto(p, "scan")
        \/ Loaded(p, job[p].new.checkpoint)
        \/ Loaded(p, job[p].result)
        \/ Forget(p) /\ Goto(p, "idle")
        \/ job' = job /\ Goto(p, "snapshot")
    BY <1>1, <1>15 DEF AfterIndex
  <2>3. job = [job EXCEPT ![p] = job[p]]
    BY <1>1
  <2> QED BY <1>1, <1>3, <1>4, <2>1, <2>2, <2>3 DEF Goto, JobStep, Labels
<1>16. CASE LoadInitialSyncState(p)
  <2>1. [job[p] EXCEPT !.size = Size] \in Jobs
    BY <1>1, <1>2 DEF Jobs
  <2>2. job' = [job EXCEPT ![p] = [job[p] EXCEPT !.size = Size]]
    BY <1>1, <1>16 DEF LoadInitialSyncState
  <2> QED BY <1>16, <2>1, <2>2 DEF LoadInitialSyncState, Goto, JobStep, Labels
<1>17. CASE InitialSyncStateLoaded(p)
  <2>1. [job[p] EXCEPT !.size = 0] \in Jobs
    BY <1>1, <1>2 DEF Jobs
  <2>2. job' = [job EXCEPT ![p] = [job[p] EXCEPT !.size = 0]]
    BY <1>1, <1>17 DEF InitialSyncStateLoaded
  <2> QED BY <1>17, <2>1, <2>2 DEF InitialSyncStateLoaded, Goto, JobStep, Labels
<1>18. ASSUME NEW rec \in Records, Open(p, rec) PROVE JobStep(p)
  <2>1. [NoIndex EXCEPT !.offset = Size] \in Indexes
    BY <1>2, Constants DEF Indexes
  <2>2. [IdleJob EXCEPT !.mode = "append", !.rec = rec,
                        !.new = [NoIndex EXCEPT !.offset = Size]] \in Jobs
    BY <2>1, Constants DEF Jobs
  <2> QED BY <1>18, <2>2 DEF Open, Goto, JobStep, Labels
<1>19. CASE AppendRow(p)
  <2> DEFINE j == [job[p] EXCEPT !.new = [job[p].new EXCEPT
                        !.checkpoint = job[p].rec.checkpoint, !.eof = Size']]
  <2>1. job[p].rec.checkpoint \in Checkpoint
    BY <1>1, TokenKinds
  <2>2. [job[p].new EXCEPT !.checkpoint = job[p].rec.checkpoint, !.eof = Size'] \in Indexes
    BY <1>1, <1>2, <2>1 DEF Indexes
  <2>3. j \in Jobs
    BY <1>1, <2>2 DEF Jobs
  <2>4. Working(p) \/ (job' = [job EXCEPT ![p] = j] /\ Goto(p, "index"))
    <3>1. ASSUME job' = [job EXCEPT ![p].new.checkpoint = job[p].rec.checkpoint,
                                    ![p].new.eof = Size']
          PROVE  job' = [job EXCEPT ![p] = j]
      BY <1>1, <3>1 DEF Jobs, Indexes
    <3> HIDE DEF j
    <3> QED BY <1>19, <3>1 DEF AppendRow, Size
  <2> HIDE DEF j
  <2> QED BY <1>5, <2>3, <2>4 DEF Goto, JobStep, Labels
<1>20. CASE AppendRowFails(p)
  BY <1>4, <1>5, <1>20 DEF AppendRowFails
<1>21. CASE UpdateSnapshot(p)
  BY <1>5, <1>21 DEF UpdateSnapshot
<1>22. CASE Finish(p)
  BY <1>4, <1>22 DEF Finish
<1>23. CASE Crash(p)
  BY <1>4, <1>23 DEF Crash
<1>24. UpdateIndex(p) \/ UpdateIndexFails(p) => AfterIndex(p)
  BY DEF UpdateIndex, UpdateIndexFails
<1> QED BY <1>6, <1>7, <1>8, <1>9, <1>10, <1>11, <1>12, <1>13, <1>14, <1>15, <1>16,
           <1>17, <1>18, <1>19, <1>20, <1>21, <1>22, <1>23, <1>24 DEF Step

LEMMA StepTyped ==
    ASSUME TypeOK, NEW p \in Procs, Step(p)
    PROVE  TypeOK'
<1>1. log' \in Seq(Records \union {NewLine, Fragment}) /\ Size' <= MaxLog /\ acked' \in 0..Size'
  BY LogTyped DEF Tokens
<1>2. job' \in [Procs -> Jobs] /\ pc' \in [Procs -> Labels]
  BY JobTyped DEF JobStep, TypeOK
<1>3. legacy' \in Checkpoint
  BY LegacyStays DEF TypeOK
<1>4. faults' \in 0..MaxFaults
  <2>1. faults' = faults \/ (faults < MaxFaults /\ faults' = faults + 1)
    BY DEF Step, Load, Rebuild, IndexHit, IndexBehind, IndexMiss, ScanRaises,
         ScanFinds, ScanFindsNothing, RebuildFindsNothing, UpdateIndex, UpdateIndexFails,
         LoadInitialSyncState, InitialSyncStateLoaded, Open, AppendRow, AppendRowFails,
         UpdateSnapshot, Finish, Crash, Fault
  <2> QED BY <2>1, BoundsNat DEF TypeOK
<1>5. snap' \in Checkpoint
  <2>1. job[p].rec.checkpoint \in Checkpoint
    BY TokenKinds DEF TypeOK, Jobs
  <2>2. snap' = snap \/ snap' = job[p].rec.checkpoint
    BY DEF Step, Load, Rebuild, IndexHit, IndexBehind, IndexMiss, ScanRaises, ScanFinds,
         ScanFindsNothing, RebuildFindsNothing, UpdateIndex, UpdateIndexFails,
         LoadInitialSyncState, InitialSyncStateLoaded, Open, AppendRow, AppendRowFails,
         UpdateSnapshot, Finish, Crash, files
  <2> QED BY <2>1, <2>2 DEF TypeOK
<1>6. index' \in Indexes
  <2>1. job[p].new \in Indexes
    BY DEF TypeOK, Jobs
  <2>2. index' = index \/ index' = job[p].new \/ index' = NoIndex
    BY DEF Step, Load, Rebuild, IndexHit, IndexBehind, IndexMiss, ScanRaises, ScanFinds,
         ScanFindsNothing, RebuildFindsNothing, UpdateIndex, UpdateIndexFails,
         LoadInitialSyncState, InitialSyncStateLoaded, Open, AppendRow, AppendRowFails,
         UpdateSnapshot, Finish, Crash, files
  <2> QED BY <2>1, <2>2, Constants DEF TypeOK
<1> QED BY <1>1, <1>2, <1>3, <1>4, <1>5, <1>6 DEF TypeOK

\* TypeOK: log, index and every process's view of them are of their types, the
\* disk is never overfull, and no size that was acknowledged is ahead of the log.
THEOREM TypeCorrect == Spec => []TypeOK
<1>1. Init => TypeOK
  BY InitTyped
<1>2. TypeOK /\ [Next]_vars => TypeOK'
  <2> SUFFICES ASSUME TypeOK, [Next]_vars PROVE TypeOK'
    OBVIOUS
  <2>1. CASE Next
    BY <2>1, NextIsStep, StepTyped
  <2>2. CASE UNCHANGED vars
    BY <2>2 DEF vars, TypeOK, Size
  <2> QED BY <2>1, <2>2
<1> QED BY <1>1, <1>2, PTL DEF Spec

-----------------------------------------------------------------------------
(* What is known of the log stays true.                                     *)

\* A step that leaves the log clean changes nothing of what it stood for.
Grows ==
    /\ Clean /\ Framed /\ Framed'
    /\ Size \in Nat /\ Size' \in Nat /\ Size <= Size'
    /\ \A i \in Indexes : Knows(i) => Knows(i)'
    /\ \A c \in Checkpoint : \A s \in Nat : StoodFor(c, s) => StoodFor(c, s)'
    /\ CheckpointRows(0) # {} => CheckpointRows(0)' # {}

LEMMA StepGrows ==
    ASSUME TypeOK, CleanInv, NEW p \in Procs, Step(p), Clean'
    PROVE  Grows
<1>0. PICK rec \in Records : \E part \in Parts(rec) : Appended(part)
  BY StepAppends
<1>1. PICK part \in Parts(rec) : Appended(part)
  BY <1>0
<1>2. TypeOK' /\ legacy' = legacy
  BY StepTyped, LegacyStays
<1>3. Clean
  BY <1>1, CleanBefore
<1>4. Framed
  BY <1>3 DEF CleanInv
<1>5. Framed'
  BY <1>1, <1>4, FramedAfter
<1>6. Size \in Nat /\ Size' \in Nat /\ Size <= Size'
  BY LogTyped
<1>7. \A n \in 0..Size : RowsBelow(n)' = RowsBelow(n) /\ CheckpointAt(n)' = CheckpointAt(n)
  BY <1>1, <1>2, <1>4, <1>5, PastStays
<1>8. ASSUME NEW i \in Indexes, Knows(i) PROVE Knows(i)'
  <2>1. i.eof \in Nat
    BY Constants DEF Indexes
  <2>2. PICK k \in i.eof..Size : RowsBelow(k) # {} /\ CheckpointAt(k) = i.checkpoint
    BY <1>8 DEF Knows
  <2>3. k \in i.eof..Size' /\ k \in 0..Size /\ i.eof <= Size'
    BY <1>6, <2>1, <2>2
  <2>4. RowsBelow(k)' # {} /\ CheckpointAt(k)' = i.checkpoint
    BY <1>7, <2>2, <2>3
  <2> QED BY <2>3, <2>4 DEF Knows
<1>9. ASSUME NEW c \in Checkpoint, NEW s \in Nat, StoodFor(c, s) PROVE StoodFor(c, s)'
  <2>1. PICK k \in s..Size : c = CheckpointAt(k)
    BY <1>9 DEF StoodFor
  <2>2. k \in s..Size' /\ k \in 0..Size
    BY <1>6, <2>1
  <2>3. c = CheckpointAt(k)'
    BY <1>7, <2>1, <2>2
  <2> QED BY <2>2, <2>3 DEF StoodFor
<1>10. ASSUME CheckpointRows(0) # {} PROVE CheckpointRows(0)' # {}
  <2>1. RowsBelow(Size) = CheckpointRows(0)
    <3>1. \A o \in CheckpointRows(0) : o < Size
      BY <1>6 DEF CheckpointRows, LineStarts
    <3> QED BY <3>1 DEF RowsBelow
  <2>2. RowsBelow(Size)' \subseteq CheckpointRows(0)'
    BY DEF RowsBelow
  <2>3. PICK n \in 0..Size : n = Size
    BY <1>6
  <2>4. RowsBelow(n)' # {} /\ RowsBelow(n)' \subseteq CheckpointRows(0)'
    <3>1. RowsBelow(n)' # {}
      BY <1>7, <1>10, <2>1, <2>3
    <3> QED BY <3>1 DEF RowsBelow
  <2> QED BY <2>4
<1> QED BY <1>3, <1>4, <1>5, <1>6, <1>8, <1>9, <1>10 DEF Grows

\* So does what another process has learnt.
LEMMA JobKept ==
    ASSUME TypeOK, NEW q \in Procs, JobKnows(q), Grows,
           job'[q] = job[q], pc'[q] = pc[q]
    PROVE  JobKnows(q)'
<1>1. job[q].idx \in Indexes /\ job[q].new \in Indexes /\ job[q].since \in Nat
      /\ job[q].result \in Checkpoint /\ job[q].new.checkpoint \in Checkpoint
  <2>1. job[q] \in Jobs /\ MaxLog \in Nat
    BY Constants DEF TypeOK
  <2>2. job[q].since \in 0..MaxLog /\ job[q].new \in Indexes
    BY <2>1 DEF Jobs
  <2> QED BY <2>1, <2>2 DEF Jobs, Indexes
<1> QED BY <1>1 DEF JobKnows, Grows

LEMMA ValidIsIndex ==
    TypeOK => \A i \in Indexes : ValidIndex(i) => i # NoIndex
<1> SUFFICES ASSUME TypeOK, ValidIndex(NoIndex) PROVE FALSE
  OBVIOUS
<1>1. NoIndex.offset = MaxLog + 1
  BY DEF NoIndex
<1> QED BY <1>1, LogType, Constants DEF ValidIndex

\* What a scan that succeeds puts into the index is the log's last row.
LEMMA ScanKnows ==
    ASSUME TypeOK, SizesSeen, CleanInv, Clean, NEW p \in Procs, pc[p] = "scan",
           CheckpointRows(job[p].from) # {} \/ job[p].idx # NoIndex
    PROVE  LET new == Payload(CheckpointRows(job[p].from), job[p]) IN
           Knows(new) /\ CheckpointAt(Size) = new.checkpoint
<1> DEFINE j == job[p]
           rows == CheckpointRows(j.from)
           new == Payload(rows, j)
<1>1. /\ j.idx \in Indexes /\ j.from \in Nat /\ j.size \in Nat /\ j.size <= Size
      /\ Size \in Nat
  <2>1. j \in Jobs /\ MaxLog \in Nat
    BY Constants DEF TypeOK
  <2> QED BY <2>1, LogType DEF Jobs, SizesSeen
<1>2. Framed /\ JobKnows(p)
  BY DEF CleanInv
<1>3. RowsBelow(Size) # {} /\ CheckpointAt(Size) = new.checkpoint /\ new.eof = j.size
  <2>1. CASE rows # {}
    <3>1. RowsBelow(Size) # {} /\ CheckpointAt(Size) = log[LastRow(rows) + 1].checkpoint
      BY <1>1, <1>2, <2>1, ScanIsCurrent
    <3>2. new = [checkpoint |-> log[LastRow(rows) + 1].checkpoint,
                 offset |-> LastRow(rows), eof |-> j.size]
      BY <2>1 DEF Payload
    <3> HIDE DEF new
    <3> QED BY <3>1, <3>2
  <2>2. CASE rows = {}
    <3>1. j.idx # NoIndex /\ Knows(j.idx) /\ j.from = j.idx.eof
      BY <1>2, <2>2 DEF JobKnows
    <3>2. RowsBelow(Size) # {} /\ CheckpointAt(Size) = j.idx.checkpoint
      BY <1>1, <1>2, <2>2, <3>1, PayloadIsCurrent
    <3>3. new = [j.idx EXCEPT !.eof = j.size]
      BY <2>2 DEF Payload
    <3> HIDE DEF new
    <3> QED BY <1>1, <3>2, <3>3 DEF Indexes
  <2> QED BY <2>1, <2>2
<1> HIDE DEF new
<1>4. Knows(new)
  BY <1>1, <1>3 DEF Knows
<1> QED BY <1>3, <1>4 DEF new

\* A process learns only what is true of the log.
LEMMA OwnJob ==
    ASSUME TypeOK, TypeOK', Modes, SizesSeen, CleanInv, NEW p \in Procs, Step(p),
           Clean', Grows
    PROVE  JobKnows(p)'
<1>1. /\ Clean /\ Framed /\ Framed' /\ JobKnows(p)
      /\ index # NoIndex => Knows(index)
      /\ CheckpointRows(0) = {} => snap = legacy
      /\ Size \in Nat /\ Size <= Size'
      /\ \A i \in Indexes : Knows(i) => Knows(i)'
      /\ \A c \in Checkpoint : \A s \in Nat : StoodFor(c, s) => StoodFor(c, s)'
  BY DEF Grows, CleanInv
<1>2. job[p] \in Jobs /\ index \in Indexes /\ snap \in Checkpoint
      /\ job \in [Procs -> Jobs] /\ pc \in [Procs -> Labels]
  BY DEF TypeOK
<1>3. /\ job[p].idx \in Indexes /\ job[p].new \in Indexes /\ job[p].since \in Nat
      /\ job[p].result \in Checkpoint /\ job[p].new.checkpoint \in Checkpoint
      /\ job[p].idx.checkpoint \in Checkpoint /\ job[p].since <= Size
  <2>1. MaxLog \in Nat /\ job[p].since \in 0..MaxLog
    BY <1>2, Constants DEF Jobs
  <2> QED BY <1>2, <2>1 DEF Jobs, Indexes, SizesSeen
<1>4. /\ IdleJob.mode = "load" /\ IdleJob.idx = NoIndex /\ IdleJob.from = 0
      /\ IdleJob.since = 0
  BY DEF IdleJob
<1>5. ASSUME NEW c \in Checkpoint, StoodFor(c, job[p].since), Loaded(p, c) PROVE JobKnows(p)'
  <2>1. pc'[p] = "loaded" /\ job'[p].since = job[p].since /\ job'[p].result = c
    BY <1>2, <1>5 DEF Loaded, Goto, IdleJob
  <2> QED BY <1>1, <1>3, <1>5, <2>1 DEF JobKnows
<1>6. ASSUME Goto(p, "idle") PROVE JobKnows(p)'
  <2>1. pc'[p] = "idle"
    BY <1>2, <1>6 DEF Goto
  <2> QED BY <2>1 DEF JobKnows
<1>7. ASSUME Working(p) PROVE JobKnows(p)'
  <2>1. pc'[p] = "ready" /\ job'[p].mode = "append"
    BY <1>2, <1>7 DEF Working, Goto, IdleJob
  <2> QED BY <2>1 DEF JobKnows
<1>8. ASSUME NEW c \in Checkpoint, c = CheckpointAt(Size) PROVE StoodFor(c, job[p].since)
  BY <1>1, <1>3, <1>8 DEF StoodFor
<1>9. CASE Load(p)
  <2>1. pc'[p] = "check" /\ job'[p].idx = index
    BY <1>2, <1>9 DEF Load, Goto, IdleJob
  <2> QED BY <1>1, <1>2, <2>1 DEF JobKnows
<1>10. CASE Rebuild(p)
  <2>1. pc'[p] = "scan" /\ job'[p].idx = NoIndex /\ job'[p].from = 0
    BY <1>2, <1>10 DEF Rebuild, Goto, IdleJob
  <2> QED BY <2>1 DEF JobKnows
<1>11. CASE IndexHit(p)
  <2>1. pc[p] = "check" /\ job[p].idx # NoIndex /\ Size = job[p].idx.eof
    BY <1>3, <1>11, ValidIsIndex DEF IndexHit
  <2>2. Knows(job[p].idx)
    BY <1>1, <2>1 DEF JobKnows
  <2>3. CheckpointAt(Size) = job[p].idx.checkpoint
    BY <1>1, <2>1, <2>2 DEF Knows
  <2> QED BY <1>3, <1>5, <1>8, <1>11, <2>3 DEF IndexHit
<1>12. CASE IndexBehind(p)
  <2>1. pc[p] = "check" /\ job[p].idx # NoIndex
    BY <1>3, <1>12, ValidIsIndex DEF IndexBehind
  <2>2. pc'[p] = "scan" /\ job'[p].idx = job[p].idx /\ job'[p].from = job[p].idx.eof
    BY <1>2, <1>12 DEF IndexBehind, Goto, Jobs
  <2>3. Knows(job[p].idx)'
    <3>1. Knows(job[p].idx)
      BY <1>1, <2>1 DEF JobKnows
    <3> QED BY <1>1, <1>2, <1>3, <2>2, <3>1
  <2> QED BY <1>1, <2>1, <2>2, <2>3 DEF JobKnows
<1>13. CASE IndexMiss(p)
  <2>1. pc'[p] = "scan" /\ job'[p].idx = NoIndex /\ job'[p].from = 0
    BY <1>2, <1>13 DEF IndexMiss, Goto, Jobs
  <2> QED BY <2>1 DEF JobKnows
<1>14. CASE ScanRaises(p)
  <2>1. pc'[p] = "raised"
    BY <1>2, <1>14 DEF ScanRaises, Goto
  <2> QED BY <2>1 DEF JobKnows
<1>15. CASE ScanFinds(p)
  <2> DEFINE new == Payload(CheckpointRows(job[p].from), job[p])
  <2>1. /\ pc[p] = "scan" /\ pc'[p] = "index" /\ job'[p].idx = job[p].idx
        /\ job'[p].new = new /\ job'[p].mode = job[p].mode
        /\ job'[p].since = job[p].since
    BY <1>2, <1>15 DEF ScanFinds, Goto, Jobs
  <2>2. Knows(new) /\ CheckpointAt(Size) = new.checkpoint
    BY <1>1, <1>15, ScanKnows DEF ScanFinds
  <2>3. new \in Indexes /\ new.checkpoint \in Checkpoint
    <3>1. job'[p] \in Jobs
      BY DEF TypeOK
    <3> QED BY <2>1, <3>1 DEF Jobs, Indexes
  <2> HIDE DEF new
  <2>4. job[p].idx # NoIndex => Knows(job[p].idx)
    BY <1>1, <2>1 DEF JobKnows
  <2>5. job[p].mode # "bootstrap"
    BY <2>1 DEF Modes
  <2>6. Knows(job[p].new)' /\ (job'[p].idx # NoIndex => Knows(job[p].idx)')
    BY <1>1, <1>3, <2>1, <2>2, <2>3, <2>4
  <2>7. StoodFor(job[p].new.checkpoint, job[p].since)'
    BY <1>1, <1>3, <1>8, <2>1, <2>2, <2>3
  <2> QED BY <2>1, <2>5, <2>6, <2>7 DEF JobKnows
<1>16. CASE ScanFindsNothing(p)
  <2>1. pc[p] = "scan" /\ job[p].idx = NoIndex /\ CheckpointRows(job[p].from) = {}
    BY <1>16 DEF ScanFindsNothing
  <2>2. CheckpointRows(0) = {}
    BY <1>1, <2>1 DEF JobKnows
  <2>3. CheckpointAt(Size) = snap
    BY <1>1, <2>2 DEF CheckpointAt
  <2>4. StoodFor(snap, job[p].since)
    BY <1>2, <1>8, <2>3
  <2>5. CASE Loaded(p, snap)
    BY <1>2, <1>5, <2>4, <2>5
  <2>6. CASE ~Loaded(p, snap)
    <3>1. /\ pc'[p] = "append" /\ job'[p].idx = NoIndex /\ job'[p].result = snap
          /\ job'[p].since = job[p].since /\ job'[p].mode = "bootstrap"
      <4>1. /\ Goto(p, "append")
            /\ job' = [job EXCEPT ![p].mode = "bootstrap", ![p].result = snap,
                           ![p].rec = Record("checkpoint", snap),
                           ![p].new.offset = Size]
        BY <1>16, <2>6 DEF ScanFindsNothing
      <4> QED BY <1>2, <2>1, <4>1 DEF Goto, Jobs
    <3> QED BY <1>1, <1>2, <1>3, <2>4, <3>1 DEF JobKnows
  <2> QED BY <2>5, <2>6
<1>17. CASE RebuildFindsNothing(p)
  BY <1>6, <1>17 DEF RebuildFindsNothing
<1>18. ASSUME pc[p] = "index", AfterIndex(p) PROVE JobKnows(p)'
  <2>1. /\ Knows(job[p].new)
        /\ job[p].mode = "load" => StoodFor(job[p].new.checkpoint, job[p].since)
        /\ job[p].mode = "bootstrap" => StoodFor(job[p].result, job[p].since)
    BY <1>1, <1>18 DEF JobKnows
  <2>2. CASE job[p].mode = "append"
    <3>1. pc'[p] = "snapshot"
      BY <1>2, <1>18, <2>2 DEF AfterIndex, Goto
    <3>2. CheckpointRows(0)' # {}
      <4>1. CheckpointRows(0) # {}
        BY <2>1 DEF Knows, RowsBelow
      <4> QED BY <4>1 DEF Grows
    <3> QED BY <3>1, <3>2 DEF JobKnows
  <2>3. CASE Loaded(p, job[p].new.checkpoint) /\ job[p].mode = "load"
    BY <1>3, <1>5, <2>1, <2>3
  <2>4. CASE Loaded(p, job[p].result) /\ job[p].mode = "bootstrap"
    BY <1>3, <1>5, <2>1, <2>4
  <2>5. CASE job[p].mode = "rebuild"
    BY <1>6, <1>18, <2>5 DEF AfterIndex
  <2>6. CASE job[p].mode = "load" /\ ~Loaded(p, job[p].new.checkpoint)
    <3>1. /\ Goto(p, "scan")
          /\ job' = [job EXCEPT ![p].idx = NoIndex, ![p].from = 0, ![p].size = Size,
                             ![p].new = NoIndex]
      BY <1>18, <2>6 DEF AfterIndex
    <3>2. pc'[p] = "scan" /\ job'[p].idx = NoIndex /\ job'[p].from = 0
      BY <1>2, <3>1 DEF Goto, Jobs
    <3> QED BY <3>2 DEF JobKnows
  <2> QED BY <1>18, <2>2, <2>3, <2>4, <2>5, <2>6 DEF AfterIndex
<1>19. CASE UpdateIndex(p) \/ UpdateIndexFails(p)
  BY <1>18, <1>19 DEF UpdateIndex, UpdateIndexFails
<1>20. CASE LoadInitialSyncState(p)
  <2>1. /\ pc[p] = "loaded" /\ pc'[p] = "sync" /\ job'[p].mode = job[p].mode
        /\ job'[p].since = job[p].since /\ job'[p].result = job[p].result
    BY <1>2, <1>20 DEF LoadInitialSyncState, Goto, Jobs
  <2> QED BY <1>1, <1>3, <2>1 DEF JobKnows
<1>21. CASE InitialSyncStateLoaded(p)
  <2>1. /\ pc[p] = "sync" /\ pc'[p] \in {"raised", "ready"} /\ job'[p].mode = job[p].mode
        /\ job'[p].since = job[p].since /\ job'[p].result = job[p].result
    BY <1>2, <1>21 DEF InitialSyncStateLoaded, Goto, Jobs
  <2> QED BY <1>1, <1>3, <2>1 DEF JobKnows
<1>22. ASSUME NEW rec \in Records, Open(p, rec) PROVE JobKnows(p)'
  <2>1. pc'[p] = "append" /\ job'[p].mode = "append" /\ job'[p].idx = NoIndex
    BY <1>2, <1>22 DEF Open, Goto, IdleJob
  <2> QED BY <2>1 DEF JobKnows
<1>23. CASE AppendRow(p)
  <2> DEFINE rec == job[p].rec
  <2>1. rec \in Records /\ pc[p] = "append" /\ Appended(<<rec, NewLine>>) /\ Size' = Len(log')
    BY <1>2, <1>23 DEF AppendRow, Jobs, Appended, Size
  <2>2. CASE rec.event # "checkpoint"
    BY <1>7, <1>23, <2>2 DEF AppendRow
  <2>3. CASE rec.event = "checkpoint"
    <3>0. /\ Goto(p, "index")
          /\ job' = [job EXCEPT ![p].new.checkpoint = rec.checkpoint,
                                ![p].new.eof = Size']
      BY <1>23, <2>1, <2>3 DEF AppendRow
    <3>1. /\ pc'[p] = "index" /\ job'[p].idx = job[p].idx /\ job'[p].mode = job[p].mode
          /\ job'[p].since = job[p].since /\ job'[p].result = job[p].result
          /\ job'[p].new.checkpoint = rec.checkpoint /\ job'[p].new.eof = Size'
      BY <1>2, <1>3, <3>0 DEF Goto, Jobs, Indexes
    <3>2. \A n : n = Size' => RowsBelow(n)' # {} /\ CheckpointAt(n)' = rec.checkpoint
      BY <1>1, <2>1, <2>3, AppendedCheckpoint
    <3>3. Knows(job[p].new)'
      <4>1. PICK n : n = Size'
        OBVIOUS
      <4>2. Size' \in Nat
        BY DEF Grows
      <4>3. n \in job'[p].new.eof..Size' /\ job'[p].new.eof <= Size'
        BY <3>1, <4>1, <4>2
      <4>4. RowsBelow(n)' # {} /\ CheckpointAt(n)' = job'[p].new.checkpoint
        BY <3>1, <3>2, <4>1
      <4> QED BY <4>3, <4>4 DEF Knows
    <3>4. job[p].mode # "load"
      BY <2>1 DEF Modes
    <3>5. /\ job[p].idx # NoIndex => Knows(job[p].idx)
          /\ job[p].mode = "bootstrap" => StoodFor(job[p].result, job[p].since)
      BY <1>1, <2>1 DEF JobKnows
    <3>6. /\ job'[p].idx # NoIndex => Knows(job[p].idx)'
          /\ job'[p].mode = "bootstrap" => StoodFor(job[p].result, job[p].since)'
      BY <1>1, <1>3, <3>1, <3>5
    <3> HIDE DEF rec
    <3> QED BY <3>1, <3>3, <3>4, <3>6 DEF JobKnows
  <2> QED BY <2>2, <2>3
<1>24. CASE AppendRowFails(p)
  BY <1>6, <1>7, <1>24 DEF AppendRowFails
<1>25. CASE UpdateSnapshot(p)
  BY <1>7, <1>25 DEF UpdateSnapshot
<1>26. CASE Finish(p)
  BY <1>6, <1>26 DEF Finish
<1>27. CASE Crash(p)
  BY <1>6, <1>27 DEF Crash
<1> QED BY <1>9, <1>10, <1>11, <1>12, <1>13, <1>14, <1>15, <1>16, <1>17, <1>19, <1>20,
           <1>21, <1>22, <1>23, <1>24, <1>25, <1>26, <1>27 DEF Step

LEMMA CleanStep ==
    ASSUME TypeOK, Modes, SizesSeen, CleanInv, NEW p \in Procs, Step(p)
    PROVE  CleanInv'
<1> SUFFICES ASSUME Clean'
             PROVE  /\ Framed'
                    /\ (index # NoIndex => Knows(index))'
                    /\ (CheckpointRows(0) = {} => snap = legacy)'
                    /\ \A q \in Procs : JobKnows(q)'
  BY DEF CleanInv
<1>1. TypeOK' /\ Grows /\ legacy' = legacy
  BY StepTyped, StepGrows, LegacyStays
<1>2. /\ Clean /\ \A q \in Procs : JobKnows(q)
      /\ index # NoIndex => Knows(index)
      /\ CheckpointRows(0) = {} => snap = legacy
  BY <1>1 DEF Grows, CleanInv
<1>3. ASSUME index' # NoIndex PROVE Knows(index)'
  <2>1. index \in Indexes /\ job[p].new \in Indexes
    BY DEF TypeOK, Jobs
  <2>2. index' = index \/ (UpdateIndex(p) /\ index' = job[p].new) \/ index' = NoIndex
    BY DEF Step, Load, Rebuild, IndexHit, IndexBehind, IndexMiss, ScanRaises, ScanFinds,
         ScanFindsNothing, RebuildFindsNothing, UpdateIndex, UpdateIndexFails,
         LoadInitialSyncState, InitialSyncStateLoaded, Open, AppendRow, AppendRowFails,
         UpdateSnapshot, Finish, Crash, files
  <2>3. UpdateIndex(p) => Knows(job[p].new)
    BY <1>2 DEF UpdateIndex, JobKnows
  <2>4. PICK i \in Indexes : i = index' /\ Knows(i)
    BY <1>2, <1>3, <2>1, <2>2, <2>3
  <2>5. Knows(i)'
    BY <1>1, <2>4 DEF Grows
  <2> QED BY <2>4, <2>5
<1>4. ASSUME CheckpointRows(0)' = {} PROVE snap' = legacy'
  <2>1. CheckpointRows(0) = {}
    BY <1>1, <1>4 DEF Grows
  <2>2. ~UpdateSnapshot(p)
    BY <1>2, <2>1 DEF UpdateSnapshot, JobKnows
  <2>3. snap' = snap
    BY <2>2 DEF Step, Load, Rebuild, IndexHit, IndexBehind, IndexMiss, ScanRaises, ScanFinds,
         ScanFindsNothing, RebuildFindsNothing, UpdateIndex, UpdateIndexFails,
         LoadInitialSyncState, InitialSyncStateLoaded, Open, AppendRow, AppendRowFails,
         Finish, Crash, files
  <2> QED BY <1>1, <1>2, <2>1, <2>3
<1>5. ASSUME NEW q \in Procs PROVE JobKnows(q)'
  <2>1. CASE q = p
    BY <1>1, <2>1, OwnJob
  <2>2. CASE q # p
    <3>1. job'[q] = job[q] /\ pc'[q] = pc[q]
      BY <2>2, JobTyped DEF JobStep, TypeOK
    <3> QED BY <1>1, <1>2, <3>1, JobKept
  <2> QED BY <2>1, <2>2
<1> QED BY <1>1, <1>3, <1>4, <1>5 DEF Grows

-----------------------------------------------------------------------------
(* Sizes, modes and refusals.                                               *)

LEMMA SizesStep ==
    ASSUME TypeOK, Modes, SizesSeen, NEW p \in Procs, Step(p)
    PROVE  SizesSeen' /\ Modes'
<1>1. Size \in Nat /\ Size' \in Nat /\ Size <= Size' /\ acked <= Size /\ acked \in Nat
  BY LogTyped DEF TypeOK
<1>2. /\ job \in [Procs -> Jobs] /\ pc \in [Procs -> Labels] /\ job[p] \in Jobs
      /\ job[p].since <= Size /\ job[p].size <= Size
      /\ \A q \in Procs : job[q].since \in Nat /\ job[q].size \in Nat
  <2>1. MaxLog \in Nat
    BY Constants
  <2> QED BY <2>1 DEF TypeOK, SizesSeen, Jobs
<1>3. /\ job'[p].since \in {0, acked, job[p].since}
      /\ job'[p].size \in {0, Size, job[p].size}
      /\ pc'[p] = "check" => job'[p].mode = "load"
      /\ pc'[p] = "scan" => job'[p].mode \in {"load", "rebuild"}
      /\ pc'[p] = "append" => job'[p].mode \in {"append", "bootstrap"}
  <2> DEFINE Goal == /\ job'[p].since \in {0, acked, job[p].since}
                     /\ job'[p].size \in {0, Size, job[p].size}
                     /\ pc'[p] = "check" => job'[p].mode = "load"
                     /\ pc'[p] = "scan" => job'[p].mode \in {"load", "rebuild"}
                     /\ pc'[p] = "append" => job'[p].mode \in {"append", "bootstrap"}
  <2>1. ASSUME Forget(p), Goto(p, "idle") PROVE Goal
    BY <1>2, <2>1 DEF Forget, Goto, IdleJob
  <2>2. ASSUME Working(p) PROVE Goal
    BY <1>2, <2>2 DEF Working, Goto, IdleJob
  <2>3. ASSUME NEW c, Loaded(p, c) PROVE Goal
    BY <1>2, <2>3 DEF Loaded, Goto, IdleJob
  <2>4. ASSUME Load(p) PROVE Goal
    BY <1>2, <2>4 DEF Load, Goto, IdleJob
  <2>16. ASSUME Rebuild(p) PROVE Goal
    BY <1>2, <2>16 DEF Rebuild, Goto, IdleJob
  <2>5. ASSUME IndexBehind(p) \/ IndexMiss(p) PROVE Goal
    BY <1>2, <2>5 DEF IndexBehind, IndexMiss, Goto, Jobs, Modes
  <2>6. ASSUME ScanRaises(p) \/ ScanFinds(p) PROVE Goal
    BY <1>2, <2>6 DEF ScanRaises, ScanFinds, Goto, Jobs, IdleJob
  <2>7. ASSUME ScanFindsNothing(p) PROVE Goal
    <3>1. \/ Loaded(p, snap)
          \/ /\ Goto(p, "append")
             /\ job' = [job EXCEPT ![p].mode = "bootstrap", ![p].result = snap,
                           ![p].rec = Record("checkpoint", snap),
                           ![p].new.offset = Size]
      BY <2>7 DEF ScanFindsNothing
    <3> QED BY <1>2, <2>3, <3>1 DEF Goto, Jobs
  <2>8. ASSUME AfterIndex(p) PROVE Goal
    <3>1. \/ /\ job[p].mode = "load"
             /\ job' = [job EXCEPT ![p].idx = NoIndex, ![p].from = 0, ![p].size = Size,
                             ![p].new = NoIndex]
             /\ Goto(p, "scan")
          \/ \E c : Loaded(p, c)
          \/ Forget(p) /\ Goto(p, "idle")
          \/ job' = job /\ Goto(p, "snapshot")
      BY <2>8 DEF AfterIndex
    <3> QED BY <1>2, <2>1, <2>3, <3>1 DEF Goto, Jobs
  <2>9. ASSUME LoadInitialSyncState(p) \/ InitialSyncStateLoaded(p) PROVE Goal
    BY <1>2, <2>9 DEF LoadInitialSyncState, InitialSyncStateLoaded, Goto, Jobs
  <2>10. ASSUME NEW rec \in Records, Open(p, rec) PROVE Goal
    BY <1>2, <2>10 DEF Open, Goto, IdleJob
  <2>11. ASSUME AppendRow(p) PROVE Goal
    <3>1. \/ Working(p)
          \/ /\ Goto(p, "index")
             /\ job' = [job EXCEPT ![p].new.checkpoint = job[p].rec.checkpoint,
                                    ![p].new.eof = Len(log')]
      BY <2>11 DEF AppendRow
    <3> QED BY <1>2, <2>2, <3>1 DEF Goto, Jobs
  <2>12. \/ \E c : Loaded(p, c)
         \/ Working(p)
         \/ Forget(p) /\ Goto(p, "idle")
         \/ AfterIndex(p)
         \/ Load(p) \/ Rebuild(p) \/ IndexBehind(p) \/ IndexMiss(p)
         \/ ScanRaises(p) \/ ScanFinds(p) \/ ScanFindsNothing(p)
         \/ LoadInitialSyncState(p) \/ InitialSyncStateLoaded(p)
         \/ \E rec \in Records : Open(p, rec)
         \/ AppendRow(p)
    BY DEF Step, IndexHit, RebuildFindsNothing, UpdateIndex, UpdateIndexFails,
           AppendRowFails, UpdateSnapshot, Finish, Crash
  <2> HIDE DEF Goal
  <2>13. (\E c : Loaded(p, c)) => Goal
    BY <2>3, Zenon
  <2>14. (\E rec \in Records : Open(p, rec)) => Goal
    BY <2>10, Zenon
  <2>15. Goal
    BY <2>1, <2>2, <2>4, <2>5, <2>6, <2>7, <2>8, <2>9, <2>11, <2>12, <2>13, <2>14, <2>16
  <2> QED BY <2>15 DEF Goal
<1>4. ASSUME NEW q \in Procs, q # p PROVE job'[q] = job[q] /\ pc'[q] = pc[q]
  BY <1>4, JobTyped DEF JobStep, TypeOK
<1>5. SizesSeen'
  <2> SUFFICES ASSUME NEW q \in Procs PROVE job'[q].since <= Size' /\ job'[q].size <= Size'
    BY DEF SizesSeen
  <2>1. CASE q = p
    BY <1>1, <1>2, <1>3, <2>1
  <2>2. CASE q # p
    BY <1>1, <1>2, <1>4, <2>2 DEF SizesSeen
  <2> QED BY <2>1, <2>2
<1>6. Modes'
  BY <1>3, <1>4 DEF Modes
<1> QED BY <1>5, <1>6

\* Where a line that a scan cannot read begins inside a line of the log, that
\* line is damaged; and what ends at another size than the scan expects has
\* grown since.
LEMMA CorruptIsDamaged ==
    ASSUME TypeOK, NEW from \in Nat, NEW size \in Nat, size <= Size, Corrupt(from, size)
    PROVE  \E o \in LineStarts(0) : /\ ~Blank(o) /\ ~Parses(o)
                                    /\ o + 1 # Size \/ o >= size
<1>0. Size \in Nat
  BY LogType
<1>1. PICK o \in LineStarts(from) : ~Blank(o) /\ ~Parses(o) /\ LineEnd(o) # size
  BY DEF Corrupt
<1>2. o \in Nat /\ o \in from..(Size - 1) /\ (o = from \/ log[o] = NewLine)
  BY <1>0, <1>1 DEF LineStarts
<1>3. CASE o \in LineStarts(0)
  <2>1. CASE o + 1 # Size
    BY <1>1, <1>3, <2>1
  <2>2. CASE o + 1 = Size
    <3>1. LineEnd(o) = Size
      <4>1. {i \in (o + 1)..Size : log[i] = NewLine} \union {Size} = {Size}
        BY <1>0, <2>2
      <4> QED BY <1>0, <4>1 DEF LineEnd, Min
    <3>2. o >= size
      BY <1>0, <1>1, <1>2, <2>2, <3>1
    <3> QED BY <1>1, <1>3, <3>2
  <2> QED BY <2>1, <2>2
<1>4. CASE o \notin LineStarts(0)
  <2>1. o > 0 /\ log[o] # NewLine
    BY <1>0, <1>2, <1>4 DEF LineStarts
  <2> DEFINE S == {x \in LineStarts(0) : x < o}
  <2>2. S \in SUBSET (0..Size) /\ 0 \in S
    BY <1>0, <1>2, <2>1 DEF LineStarts
  <2>3. PICK s \in S : \A x \in S : x <= s
    BY <1>0, <2>2, MaxOf
  <2>4. s \in LineStarts(0) /\ s \in Nat /\ s < o
    BY <1>0, <2>2
  <2>5. ASSUME NEW x \in (s + 1)..o PROVE log[x] # NewLine
    <3> SUFFICES ASSUME log[x] = NewLine PROVE FALSE
      OBVIOUS
    <3>1. x \in 0..(Size - 1) /\ x < o /\ x > s
      BY <1>0, <1>2, <2>1, <2>4
    <3>2. x \in S
      BY <3>1 DEF LineStarts
    <3> QED BY <2>3, <2>4, <3>1, <3>2
  <2>6. log[s + 1] # NewLine /\ s + 1 # Size /\ s + 2 <= Size
    BY <1>0, <1>2, <2>4, <2>5
  <2>7. log[s + 2] # NewLine
    <3>1. CASE s + 2 <= o
      BY <1>0, <1>2, <2>4, <2>5, <3>1
    <3>2. CASE s + 2 > o
      <4>1. s + 2 = o + 1
        BY <1>2, <2>4, <3>2
      <4> QED BY <1>1, <4>1 DEF Blank
    <3> QED BY <1>2, <2>4, <3>1, <3>2
  <2> HIDE DEF S
  <2> QED BY <2>4, <2>6, <2>7 DEF Blank, Parses
<1> QED BY <1>3, <1>4

LEMMA RaisedStep ==
    ASSUME TypeOK, SizesSeen, RaisedOnlyWhenCorrupt, NEW p \in Procs, Step(p)
    PROVE  RaisedOnlyWhenCorrupt'
<1>0. PICK rec \in Records : \E part \in Parts(rec) : Appended(part)
  BY StepAppends
<1>1. PICK part \in Parts(rec) : Appended(part)
  BY <1>0
<1>2. ASSUME NEW size \in Nat,
             \E o \in LineStarts(0) : ~Blank(o) /\ ~Parses(o) /\ (o + 1 # Size \/ o >= size)
      PROVE  \E o \in LineStarts(0)' : /\ ~Blank(o)' /\ ~Parses(o)'
                                       /\ o + 1 # Size' \/ o >= size
  <2>1. PICK o \in LineStarts(0) : ~Blank(o) /\ ~Parses(o) /\ (o + 1 # Size \/ o >= size)
    BY <1>2
  <2>2. Damaged(o)' /\ (o + 1 # Size => o + 1 # Size')
    BY <1>1, <2>1, DamageStays DEF Damaged
  <2>3. o \in LineStarts(0)' /\ ~Blank(o)' /\ ~Parses(o)'
    BY <2>2 DEF Damaged
  <2> QED BY <2>1, <2>2, <2>3
<1>3. job \in [Procs -> Jobs] /\ pc \in [Procs -> Labels] /\ job[p] \in Jobs
      /\ \A q \in Procs : job[q].size \in Nat /\ job[q].size <= Size
      /\ job[p].from \in Nat
  <2>1. MaxLog \in Nat
    BY Constants
  <2> QED BY <2>1 DEF TypeOK, Jobs, SizesSeen
<1> SUFFICES ASSUME NEW q \in Procs, pc'[q] = "raised"
             PROVE  \E o \in LineStarts(0)' : /\ ~Blank(o)' /\ ~Parses(o)'
                                              /\ o + 1 # Size' \/ o >= job'[q].size
  BY DEF RaisedOnlyWhenCorrupt
<1>4. CASE q # p
  <2>1. job'[q] = job[q] /\ pc'[q] = pc[q]
    BY <1>4, JobTyped DEF JobStep, TypeOK
  <2> QED BY <1>2, <1>3, <2>1 DEF RaisedOnlyWhenCorrupt
<1>5. CASE q = p
  <2>1. ScanRaises(p) \/ InitialSyncStateLoaded(p)
    <3> USE <1>3, <1>5
    <3>1. ~AfterIndex(p)
      BY DEF AfterIndex, Loaded, Goto
    <3> QED BY <3>1 DEF Step, Load, Rebuild, IndexHit, IndexBehind, IndexMiss, ScanFinds,
         ScanFindsNothing, RebuildFindsNothing, UpdateIndex, UpdateIndexFails,
         LoadInitialSyncState, Open, AppendRow, AppendRowFails,
         UpdateSnapshot, Finish, Crash, Goto, Loaded, Working
  <2>2. CASE ScanRaises(p)
    <3>1. Corrupt(job[p].from, job[p].size) /\ job'[p].size = job[p].size
      BY <1>3, <2>2 DEF ScanRaises, IdleJob
    <3> QED BY <1>2, <1>3, <1>5, <3>1, CorruptIsDamaged
  <2>3. CASE InitialSyncStateLoaded(p)
    <3>1. Corrupt(0, job[p].size) /\ job'[p].size = 0
      BY <1>3, <1>5, <2>3 DEF InitialSyncStateLoaded, Goto, Jobs
    <3>2. \E o \in LineStarts(0) : ~Blank(o) /\ ~Parses(o) /\ (o + 1 # Size \/ o >= 0)
      BY LogType, <3>1 DEF Corrupt, LineStarts
    <3> QED BY <1>2, <1>5, <3>1, <3>2
  <2> QED BY <2>1, <2>2, <2>3
<1> QED BY <1>4, <1>5

-----------------------------------------------------------------------------
(* The invariant and what it implies.                                       *)

LEMMA InitInv == Init => IInv
<1> SUFFICES ASSUME Init PROVE IInv
  OBVIOUS
<1>1. TypeOK
  BY InitTyped
<1>2. Size = 0 /\ index = NoIndex /\ snap = legacy
      /\ \A p \in Procs : pc[p] = "idle" /\ job[p] = IdleJob
  BY DEF Init, InitCommon, Size
<1>3. Modes /\ SizesSeen /\ RaisedOnlyWhenCorrupt
  BY <1>2 DEF Modes, SizesSeen, RaisedOnlyWhenCorrupt, IdleJob
<1>4. CleanInv
  BY <1>2 DEF CleanInv, Framed, JobKnows
<1> QED BY <1>1, <1>3, <1>4 DEF IInv

LEMMA NextInv == IInv /\ [Next]_vars => IInv'
<1> SUFFICES ASSUME IInv, [Next]_vars PROVE IInv'
  OBVIOUS
<1>1. ASSUME NEW p \in Procs, Step(p) PROVE IInv'
  BY <1>1, StepTyped, SizesStep, CleanStep, RaisedStep DEF IInv
<1>2. CASE UNCHANGED vars
  <2>1. TypeOK' /\ Modes' /\ SizesSeen' /\ RaisedOnlyWhenCorrupt'
    BY <1>2 DEF IInv, vars, TypeOK, Modes, SizesSeen, RaisedOnlyWhenCorrupt, Size,
                LineStarts, Blank, Parses
  <2>2. CleanInv'
    <3>1. /\ log' = log /\ index' = index /\ snap' = snap /\ legacy' = legacy
          /\ pc' = pc /\ job' = job /\ Size' = Size
      BY <1>2 DEF vars, Size
    <3>2. Clean' = Clean /\ Framed' = Framed /\ CheckpointRows(0)' = CheckpointRows(0)
      BY <3>1 DEF Clean, Framed, CheckpointRows, LineStarts, Blank, Parses
    <3>3. \A k : RowsBelow(k)' = RowsBelow(k) /\ CheckpointAt(k)' = CheckpointAt(k)
      BY <3>1, <3>2 DEF RowsBelow, CheckpointAt
    <3>4. /\ \A i : Knows(i)' = Knows(i)
          /\ \A c, since : StoodFor(c, since)' = StoodFor(c, since)
      BY <3>1, <3>3 DEF Knows, StoodFor
    <3>5. \A p \in Procs : JobKnows(p)' = JobKnows(p)
      BY <3>1, <3>2, <3>4 DEF JobKnows
    <3>6. (index # NoIndex => Knows(index))' = (index # NoIndex => Knows(index))
      BY <3>1, <3>4
    <3> QED BY <3>1, <3>2, <3>5, <3>6 DEF IInv, CleanInv
  <2> QED BY <2>1, <2>2 DEF IInv
<1> QED BY <1>1, <1>2, NextIsStep

THEOREM Invariance == Spec => []IInv
BY InitInv, NextInv, PTL DEF Spec

\* LoadIsCurrent: whatever other processes append meanwhile, and whatever the
\* index file holds, a load returns a checkpoint the log stood for at some
\* moment since the load began.
THEOREM LoadTheorem == Spec => []LoadIsCurrent
<1>1. IInv => LoadIsCurrent
  <2> SUFFICES ASSUME IInv, NEW p \in Procs, pc[p] \in {"loaded", "sync", "ready"},
                      job[p].mode = "load", Clean
               PROVE  \E k \in job[p].since..Size : job[p].result = CheckpointAt(k)
    BY DEF LoadIsCurrent
  <2>1. JobKnows(p)
    BY DEF IInv, CleanInv
  <2> QED BY <2>1 DEF JobKnows, StoodFor
<1> QED BY <1>1, Invariance, PTL

\* IndexAgreesWithLog: a load through any index file that passes validation
\* answers what a scan of the whole log answers.
THEOREM IndexTheorem == Spec => []IndexAgreesWithLog
<1>1. IInv => IndexAgreesWithLog
  <2> SUFFICES ASSUME IInv, Clean, ValidIndex(index), index.eof <= Size
               PROVE  IndexAnswer = CheckpointAt(Size)
    BY DEF IndexAgreesWithLog
  <2>1. TypeOK /\ Framed /\ index \in Indexes
    BY DEF IInv, CleanInv, TypeOK
  <2>2. Knows(index)
    BY <2>1, ValidIsIndex DEF IInv, CleanInv
  <2>3. index.eof \in Nat
    BY <2>1, Constants DEF Indexes
  <2>4. CASE CheckpointRows(index.eof) = {}
    BY <2>1, <2>2, <2>4, PayloadIsCurrent DEF IndexAnswer
  <2>5. CASE CheckpointRows(index.eof) # {}
    BY <2>1, <2>3, <2>5, ScanIsCurrent DEF IndexAnswer
  <2> QED BY <2>4, <2>5
<1> QED BY <1>1, Invariance, PTL

\* RaisedOnlyWhenCorrupt: a store refuses to read only a log that is damaged
\* before its tail, or whose tail was torn after the size had been taken; a scan
\* that begins inside a line, from a stale index, is no exception.
THEOREM RaisedTheorem == Spec => []RaisedOnlyWhenCorrupt
<1>1. IInv => RaisedOnlyWhenCorrupt
  BY DEF IInv
<1> QED BY <1>1, Invariance, PTL
-----------------------------------------------------------------------------
(* The log as a register.                                                   *)

\* What else an append leaves in the log does not change what it stands for.
LEMMA NothingAppended ==
    ASSUME TypeOK, TypeOK', NEW rec \in Records, NEW part \in Parts(rec),
           Appended(part), legacy' = legacy, Framed, Framed',
           part = <<>> \/ part[1].event # "checkpoint", NEW n, n = Size'
    PROVE  CheckpointAt(n)' = CheckpointAt(Size)
<1>1. /\ Size \in Nat /\ n \in Nat /\ n = Size + Len(part) /\ Len(part) \in 0..2
      /\ \A k \in 1..Len(part) : log'[Size + k] = part[k]
      /\ Len(part) > 1 => part[2] = NewLine
  BY AppendedLog, LogType
<1>2. PICK m : m = Size
  OBVIOUS
<1>3. m \in 0..Size /\ m \in Nat
  BY <1>1, <1>2
<1>4. CheckpointAt(m)' = CheckpointAt(m)
  BY <1>3, PastStays
<1>5. ASSUME NEW o \in 0..(n - 1), log'[o + 1].event = "checkpoint" PROVE o < m
  <2>1. CASE o = Size /\ Len(part) > 0
    <3>1. 1 \in 1..Len(part)
      BY <1>1, <2>1
    <3>2. log'[o + 1] = part[1] /\ part # <<>>
      BY <1>1, <2>1, <3>1
    <3> QED BY <1>5, <3>2
  <2>2. CASE o = Size + 1 /\ Len(part) > 1
    <3>1. 2 \in 1..Len(part) /\ o + 1 = Size + 2
      BY <1>1, <2>2
    <3>2. log'[o + 1] = NewLine
      BY <1>1, <2>2, <3>1
    <3> QED BY <1>5, <3>2, TokenKinds
  <2>3. o \in Nat /\ o < Size + Len(part) /\ Size \in Nat /\ Len(part) \in {0, 1, 2}
    BY <1>1
  <2>4. o < Size \/ (o = Size /\ Len(part) > 0) \/ (o = Size + 1 /\ Len(part) > 1)
    <3>1. PICK size, l : size = Size /\ l = Len(part)
      OBVIOUS
    <3>2. o \in Nat /\ size \in Nat /\ o < size + l /\ (l = 0 \/ l = 1 \/ l = 2)
      BY <2>3, <3>1
    <3>3. o < size \/ (o = size /\ l > 0) \/ (o = size + 1 /\ l > 1)
      BY <3>2
    <3> QED BY <3>1, <3>3
  <2> QED BY <1>2, <2>1, <2>2, <2>4
<1>6. RowsBelow(n)' = RowsBelow(m)'
  <2>1. /\ RowsBelow(n)' = {o \in 0..(Size' - 1) : o < n /\ log'[o + 1].event = "checkpoint"}
        /\ RowsBelow(m)' = {o \in 0..(Size' - 1) : o < m /\ log'[o + 1].event = "checkpoint"}
    BY <1>1, <1>3, FramedRowsBelowNext
  <2>2. \A o \in 0..(Size' - 1) : log'[o + 1].event = "checkpoint" => o < m /\ o < n
    BY <1>1, <1>5
  <2> QED BY <2>1, <2>2
<1>7. CheckpointAt(n)' = CheckpointAt(m)'
  BY <1>6 DEF CheckpointAt, RowsBelow
<1> QED BY <1>2, <1>4, <1>7

\* What the log stands for.
Latest == CheckpointAt(Size)

\* A process writes c to it.
Writes(p, c) ==
    pc[p] = "append" /\ job[p].rec.event = "checkpoint" /\ job[p].rec.checkpoint = c

LEMMA StepOnLatest ==
    ASSUME TypeOK, CleanInv, NEW p \in Procs, Step(p), Clean'
    PROVE  /\ Latest' = Latest \/ Writes(p, Latest')
           /\ AppendRow(p) /\ job[p].rec.event = "checkpoint"
                 => Latest' = job[p].rec.checkpoint
<1>1. /\ TypeOK' /\ legacy' = legacy /\ Framed /\ Framed'
      /\ Size \in Nat /\ Size' \in Nat
  BY StepTyped, LegacyStays, StepGrows DEF Grows
<1>2. job[p].rec \in Records
  BY DEF TypeOK, Jobs
<1>3. PICK n : n = Size'
  OBVIOUS
<1>4. Latest' = CheckpointAt(n)'
  BY <1>3 DEF Latest, CheckpointAt
<1>5. PICK part \in Parts(job[p].rec) :
         /\ Appended(part)
         /\ part # <<>> => pc[p] = "append"
         /\ AppendRow(p) => part = <<job[p].rec, NewLine>>
  BY StepAppendsRec
<1>6. CASE part \in {<<job[p].rec>>, <<job[p].rec, NewLine>>} /\ job[p].rec.event = "checkpoint"
  <2>1. CheckpointAt(n)' = job[p].rec.checkpoint
    BY <1>1, <1>2, <1>3, <1>5, <1>6, AppendedCheckpoint
  <2>2. part # <<>>
    BY <1>6
  <2> QED BY <1>4, <1>5, <1>6, <2>1, <2>2 DEF Writes
<1>7. CASE ~(part \in {<<job[p].rec>>, <<job[p].rec, NewLine>>} /\ job[p].rec.event = "checkpoint")
  <2>1. part = <<>> \/ part[1].event # "checkpoint"
    BY <1>5, <1>7, TokenKinds DEF Parts
  <2>2. CheckpointAt(n)' = Latest
    BY <1>1, <1>2, <1>3, <1>5, <2>1, NothingAppended DEF Latest
  <2>3. ~(AppendRow(p) /\ job[p].rec.event = "checkpoint")
    BY <1>5, <1>7
  <2> QED BY <1>4, <2>2, <2>3
<1> QED BY <1>6, <1>7

\* The log as one register: while it is clean, what it stands for changes only
\* when a process appends a checkpoint event, to the checkpoint of that event,
\* wholly or not at all even if the append fails or its process is killed; and
\* an append that returns has made the change.  This is the durable checkpoint
\* of Pipeline, where Commit and CommitFails are single steps.
LogIsRegister ==
    [][Clean' =>
         /\ Latest' = Latest \/ \E p \in Procs : Writes(p, Latest')
         /\ \A p \in Procs : AppendRow(p) /\ job[p].rec.event = "checkpoint"
               => Latest' = job[p].rec.checkpoint]_vars

THEOREM RegisterTheorem == Spec => LogIsRegister
<1> DEFINE OneWrite ==
      Clean' =>
         /\ Latest' = Latest \/ \E p \in Procs : Writes(p, Latest')
         /\ \A p \in Procs : AppendRow(p) /\ job[p].rec.event = "checkpoint"
               => Latest' = job[p].rec.checkpoint
<1>1. IInv /\ [Next]_vars => [OneWrite]_vars
  <2> SUFFICES ASSUME IInv, Next PROVE OneWrite
    OBVIOUS
  <2>1. PICK q \in Procs : Step(q)
    BY NextIsStep
  <2>2. ASSUME Clean' PROVE Latest' = Latest \/ Writes(q, Latest')
    BY <2>1, <2>2, StepOnLatest DEF IInv
  <2>3. ASSUME Clean', NEW p \in Procs, AppendRow(p), job[p].rec.event = "checkpoint"
        PROVE  Latest' = job[p].rec.checkpoint
    BY <2>3, StepOnLatest DEF IInv, Step
  <2> QED BY <2>2, <2>3
<1> QED BY <1>1, Invariance, PTL DEF Spec, LogIsRegister
=============================================================================
