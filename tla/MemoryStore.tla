---------------------------- MODULE MemoryStore ----------------------------
(***************************************************************************)
(* One JSONL file of the memory store (memory/store.js), repairs.jsonl:    *)
(* appends, the counts kept beside it, compaction to the retention, the    *)
(* archive and the quarantine, and the identity of the namespace.          *)
(*                                                                         *)
(* Every write happens under the repository's lock, so writers follow one  *)
(* another (MemoryLockProofs!MutexHolds); what interrupts them is death    *)
(* between two file operations, or in the middle of one.                   *)
(* A definition that precedes the one it resembles is a seeded fault.      *)
(***************************************************************************)
EXTENDS Naturals, FiniteSets, Sequences, Functions

CONSTANTS
  Retain,      \* unpinned records to keep (retainN)
  RetainPinned,\* pinned records to keep (keepPinned)
  MaxRecords,  \* bound: records ever appended
  MaxCrashes,  \* bound: writers that die
  TornLog,     \* a crash may cut an append to the JSONL file short
  TornAside    \* ... or one to the archive, the quarantine or the identity

ASSUME MemoryStoreAssumption ==
  /\ {Retain, RetainPinned, MaxRecords, MaxCrashes} \subseteq Nat
  /\ {TornLog, TornAside} \subseteq BOOLEAN

VARIABLES
  log,         \* the JSONL file: a file of rows
  meta,        \* <file>.meta: the counts, or Missing
  archive,     \* *.archive.jsonl
  quarantine,  \* <file>.quarantine
  identity,    \* identity.json: "absent", "torn" or "ok"
  pc,          \* the next file operation of the process in the critical section
  counts,      \* the counts it will write to meta
  appended,    \* records whose append was completed
  next,        \* the next record
  crashes

files == <<log, meta, archive, quarantine, identity>>
vars == <<files, pc, counts, appended, next, crashes>>

\* A row is whole, a fragment, or complete but on one line with another: only whole ones parse.
\* `cut` tells that the final newline is missing.
Row == [id : 1..MaxRecords, pinned : BOOLEAN, text : {"whole", "fragment", "glued"}]
File == [rows : Seq(Row), cut : BOOLEAN]
EmptyFile == [rows |-> <<>>, cut |-> FALSE]
Missing == [lines |-> 0, pinned |-> 0, there |-> FALSE]

\* The rows that parse: a truncated last row is corrupt even when its text is complete.
Truncated(f, i) == f.cut /\ i = Len(f.rows)
IsGood(f, i) == f.rows[i].text = "whole" /\ ~Truncated(f, i)
GoodIdx(f) == {i \in DOMAIN f.rows : IsGood(f, i)}
\* Some of the rows, in their order: the k-th position has k - 1 before it.
Position(idx, k) == CHOOSE i \in idx : Cardinality({j \in idx : j < i}) = k - 1
RowsAt(f, idx) == [k \in 1..Cardinality(idx) |-> f.rows[Position(idx, k)]]
Good(f) == {f.rows[i] : i \in GoodIdx(f)}
Ids(rows) == {r.id : r \in rows}

\* What appending rows to a file leaves, with and without completing the last line first.
OneLine(row) == [row EXCEPT !.text = IF @ = "whole" THEN "glued" ELSE @]
Glued(f, rows) ==
  LET n == Len(f.rows)
  IN  [rows |-> IF f.cut /\ rows # <<>>
                THEN [f.rows EXCEPT ![n] = OneLine(@)] \o [rows EXCEPT ![1] = OneLine(@)]
                ELSE f.rows \o rows,
       cut |-> FALSE]
Completed(f, rows) == [rows |-> f.rows \o rows, cut |-> FALSE]

\* The newest n of a set of row positions.
Newest(idx, n) == {i \in idx : Cardinality({j \in idx : j > i}) < n}
OldestKept(idx, n) == {i \in idx : Cardinality({j \in idx : j < i}) < n}
NewestRest(idx, n) == Newest(idx, n)

PinnedIdx(f) == {i \in GoodIdx(f) : f.rows[i].pinned}
PinnedKept(f) == Newest(PinnedIdx(f), RetainPinned)
Kept(f) ==
  PinnedKept(f) \cup NewestRest(GoodIdx(f) \ PinnedIdx(f), Retain)

Ceil10(n) == (11 * n + 9) \div 10
\* Retention is exceeded by 10 %.
OverPinned(c) == c.pinned > Ceil10(RetainPinned)
Over(c) == c.lines - c.pinned > Ceil10(Retain) \/ c.pinned > Ceil10(RetainPinned)

ReadMeta ==
  IF meta.there THEN meta
  ELSE [lines |-> Len(log.rows), pinned |-> Cardinality(PinnedIdx(log)), there |-> TRUE]

Init ==
  /\ log = EmptyFile /\ archive = EmptyFile /\ quarantine = EmptyFile
  /\ meta = Missing /\ identity = "absent"
  /\ pc = "idle" /\ counts = Missing
  /\ appended = {} /\ next = 1 /\ crashes = 0

-----------------------------------------------------------------------------
(* ensureIdentity: a namespace whose identity does not name this repository is refused. *)

Mismatch == identity = "torn"
Begin(op) ==
  /\ pc = "idle" /\ ~Mismatch
  /\ pc' = IF identity = "absent" THEN op.identity ELSE op.first
  /\ UNCHANGED <<files, counts, appended, next, crashes>>

BeginAppend == next <= MaxRecords /\ Begin([identity |-> "identity, append", first |-> "append"])

BeginCompact == log.rows # <<>> /\ Begin([identity |-> "identity, compact", first |-> "quarantine"])

WriteIdentity ==
  /\ pc \in {"identity, append", "identity, compact"}
  /\ identity' = "ok"
  /\ pc' = IF pc = "identity, append" THEN "append" ELSE "quarantine"
  /\ UNCHANGED <<log, meta, archive, quarantine, counts, appended, next, crashes>>

\* The final newline is completed first, the counts are read before, and decide what follows.
AppendTo(f, rows) == Completed(f, rows)
AppendRecord ==
  /\ pc = "append"
  /\ \E pinned \in BOOLEAN :
       LET row == [id |-> next, pinned |-> pinned, text |-> "whole"]
           was == ReadMeta
           c == [was EXCEPT !.lines = @ + 1, !.pinned = @ + (IF pinned THEN 1 ELSE 0)]
       IN  /\ log' = AppendTo(log, <<row>>)
           /\ counts' = c
           /\ pc' = IF Over(c) THEN "quarantine" ELSE "meta"
           /\ appended' = appended \cup {[id |-> next, pinned |-> pinned]}
  /\ next' = next + 1
  /\ UNCHANGED <<meta, archive, quarantine, identity, crashes>>

\* compact: corrupt rows to the quarantine, older pinned rows to the archive, then the
\* rest replaces the file and the counts are set exactly.
Bad(f) == DOMAIN f.rows \ GoodIdx(f)
\* A corrupt row's text is kept inside a JSON line.
Enclosed(rows) == [i \in DOMAIN rows |-> [rows[i] EXCEPT !.text = "whole"]]
BadLinesUnparsable(f) == Enclosed(RowsAt(f, {i \in Bad(f) : ~Truncated(f, i)}))
BadLines(f) == Enclosed(RowsAt(f, Bad(f)))
ArchivedButOne(f) == PinnedIdx(f) \ Newest(PinnedIdx(f), RetainPinned + 1)
Archived(f) == PinnedIdx(f) \ PinnedKept(f)
ExactCounts(f) == [lines |-> Cardinality(Kept(f)), pinned |-> Cardinality(PinnedKept(f)), there |-> TRUE]

QuarantineBad ==
  /\ pc = "quarantine"
  /\ quarantine' = Glued(quarantine, BadLines(log))
  /\ pc' = "archive"
  /\ UNCHANGED <<log, meta, archive, identity, counts, appended, next, crashes>>

ArchiveOld ==
  /\ pc = "archive"
  /\ archive' = Glued(archive, RowsAt(log, Archived(log)))
  /\ pc' = "replace"
  /\ UNCHANGED <<log, meta, quarantine, identity, counts, appended, next, crashes>>

Replace ==
  /\ pc = "replace"
  /\ log' = [rows |-> RowsAt(log, Kept(log)), cut |-> FALSE]
  /\ counts' = ExactCounts(log)
  /\ pc' = "meta"
  /\ UNCHANGED <<meta, archive, quarantine, identity, appended, next, crashes>>

WriteMeta ==
  /\ pc = "meta"
  /\ meta' = counts
  /\ counts' = Missing
  /\ pc' = "idle"
  /\ UNCHANGED <<log, archive, quarantine, identity, appended, next, crashes>>

-----------------------------------------------------------------------------
(* Death of the process in the critical section; the lock is taken over.   *)

\* What an append cut short has written: some of the rows, then a fragment or a line without
\* its newline.
CutRows(rows) ==
  {SubSeq(rows, 1, k - 1) \o <<[rows[k] EXCEPT !.text = w]>> : k \in DOMAIN rows, w \in {"whole", "fragment"}}
Cut(f) == [f EXCEPT !.cut = TRUE]

CutLog ==
  /\ TornLog /\ pc = "append"
  /\ \E pinned \in BOOLEAN :
       \E written \in CutRows(<<[id |-> next, pinned |-> pinned, text |-> "whole"]>>) :
         log' = Cut(AppendTo(log, written))
  /\ next' = next + 1
  /\ UNCHANGED <<archive, quarantine, identity>>

CutAside ==
  /\ TornAside
  /\ \/ /\ pc = "archive"
        /\ \E written \in CutRows(RowsAt(log, Archived(log))) : archive' = Cut(Glued(archive, written))
        /\ UNCHANGED <<quarantine, identity>>
     \/ /\ pc = "quarantine"
        /\ \E written \in CutRows(BadLines(log)) : quarantine' = Cut(Glued(quarantine, written))
        /\ UNCHANGED <<archive, identity>>
     \/ /\ pc \in {"identity, append", "identity, compact"}
        /\ identity' = "torn"
        /\ UNCHANGED <<archive, quarantine>>
  /\ UNCHANGED <<log, next>>

Crash ==
  /\ pc # "idle" /\ crashes < MaxCrashes
  /\ crashes' = crashes + 1
  /\ pc' = "idle"
  /\ counts' = Missing
  /\ \/ UNCHANGED <<log, archive, quarantine, identity, next>>
     \/ CutLog
     \/ CutAside
  /\ UNCHANGED <<meta, appended>>

Next ==
  \/ BeginAppend \/ BeginCompact \/ WriteIdentity \/ AppendRecord
  \/ QuarantineBad \/ ArchiveOld \/ Replace \/ WriteMeta
  \/ Crash

Spec == Init /\ [][Next]_vars

-----------------------------------------------------------------------------
(* Properties *)

\* Retention drops nothing new: an appended record is in the file, or as many newer ones as
\* are to be kept are there (store.js:25-26), whatever died whenever.
NewestSurvive ==
  \A a \in appended :
    ~a.pinned => \/ a.id \in Ids(Good(log))
                 \/ Cardinality({r \in Good(log) : ~r.pinned /\ r.id > a.id}) >= Retain

\* A proven repair is never lost: it is in the file, or its text in the archive (store.js:225-227).
\* When an append to the archive was cut, the next row there shares a line with the fragment: its
\* text is kept and no longer parses.
Complete(f) == {r \in Range(f.rows) : r.text # "fragment"}
PinnedSurvive ==
  \A a \in appended : a.pinned => a.id \in Ids(Good(log)) \cup Ids(Complete(archive))

\* A corrupt row leaves the file only for the quarantine: no torn row disappears (store.js:27).
CorruptIsQuarantined ==
  [][\A i \in Bad(log) :
        \/ \E j \in DOMAIN log'.rows : log'.rows[j].id = log.rows[i].id
        \/ log.rows[i].id \in Ids(Complete(quarantine))]_vars

\* The counts decide on retention without a rescan: they may lag by one record per dead
\* writer, never more, so that is how far the file outgrows its retention.
Plain(f) == {i \in DOMAIN f.rows : ~f.rows[i].pinned}
PlainRows == Cardinality(Plain(log))
RetentionBound == pc = "idle" => PlainRows <= Ceil10(Retain) + crashes

-----------------------------------------------------------------------------
(* Why nothing is lost *)

Counts == [lines : Nat, pinned : Nat, there : BOOLEAN]
Compacting == {"quarantine", "archive", "replace"}
Place == {"idle", "identity, append", "identity, compact", "append", "meta"} \cup Compacting

TypeOK ==
  /\ log \in File /\ archive \in File /\ quarantine \in File
  /\ meta \in Counts /\ counts \in Counts
  /\ identity \in {"absent", "torn", "ok"} /\ pc \in Place
  /\ appended \subseteq [id : Nat, pinned : BOOLEAN]
  /\ next \in Nat \ {0} /\ crashes \in Nat

\* The rows stand in the order of their appends and none is glued to another; a record that was
\* appended is the one its row holds.
InOrder ==
  /\ \A i, j \in DOMAIN log.rows : i < j => log.rows[i].id < log.rows[j].id
  /\ \A i \in DOMAIN log.rows : log.rows[i].id < next /\ log.rows[i].text # "glued"
  /\ \A a \in appended :
       a.id < next /\ \A i \in DOMAIN log.rows : log.rows[i].id = a.id => log.rows[i].pinned = a.pinned
  /\ pc \in {"append", "identity, append"} => next <= MaxRecords

\* What the replacement drops has been put aside.
PutAside ==
  /\ pc = "replace" => \A i \in Archived(log) : log.rows[i].id \in Ids(Complete(archive))
  /\ pc \in {"archive", "replace"} => \A i \in Bad(log) : log.rows[i].id \in Ids(Complete(quarantine))

StoreInv == TypeOK /\ InOrder /\ PutAside /\ NewestSurvive /\ PinnedSurvive

\* The counts lag behind the file by the records of the writers that died; before its counts are
\* written, also by that of the one at work.
Lags(c, n) == IF c.there THEN PlainRows <= c.lines - c.pinned + n /\ c.lines - c.pinned <= Ceil10(Retain)
              ELSE PlainRows <= n
CountsFollow ==
  /\ Lags(meta, IF pc \in Compacting \cup {"meta"} THEN crashes + 1 ELSE crashes)
  /\ pc = "meta" => counts.there /\ Lags(counts, crashes)

=============================================================================
