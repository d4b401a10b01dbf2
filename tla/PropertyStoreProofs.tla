------------------------ MODULE PropertyStoreProofs -------------------------
(***************************************************************************)
(* Proofs about PropertyStore, for any listings, columns, readings and     *)
(* number of jobs.  The inductive invariant says of every job what it may  *)
(* rely on by itself (Good), of every version it has written that it is    *)
(* whole unless the row has changed since it was loaded (Sound), and that  *)
(* no two jobs have written versions of one row (Exclusive).               *)
(***************************************************************************)
EXTENDS PropertyStore, FiniteSetTheorems, TLAPS

USE StoreAssumption

Table == [Keys -> Row \cup {None}]

Job == [pc : {"idle", "load", "extract", "write"},
        kind : {"none", "search", "paste", "detail", "backfill"},
        todo : Seq(Keys), data : Data \cup {None}, old : Table, wrote : Table,
        ok : SUBSET Keys, dry : BOOLEAN, failFast : BOOLEAN]

Distinct(s) == \A a, b \in 1 .. Len(s) : s[a] = s[b] => a = b

Left(s) == {s[a] : a \in 1 .. Len(s)}

WroteKeys(q) == {k \in Keys : q.wrote[k] # None}

\* What a write relies on: a row to write, and what was read of it.
Ready(q) ==
    /\ q.todo # <<>> /\ q.data \in Data
    /\ q.kind \in {"paste", "backfill"} => ~Thin(q.data)
    /\ q.kind = "detail" =>
           /\ Tail(q.todo) = <<>>
           /\ q.old[Head(q.todo)] \in Row /\ q.old[Head(q.todo)].data = q.data

\* A backfill has written what it reports, and has yet to do what is left.
Reports(q) ==
    /\ q.pc \in {"extract", "write"}
    /\ q.dry => q.pc = "extract"
    /\ q.pc = "extract" => /\ WroteKeys(q) = IF q.dry THEN {} ELSE q.ok
                           /\ Left(q.todo) \cap q.ok = {}
    /\ q.pc = "write" => /\ WroteKeys(q) = q.ok \ {Head(q.todo)}
                         /\ Left(q.todo) \cap q.ok = {Head(q.todo)}

Good(q) ==
    /\ q \in Job
    /\ Distinct(q.todo)
    /\ Left(q.todo) \cap WroteKeys(q) = {}
    /\ q.kind = "none" <=> q.pc = "idle"
    /\ q.kind = "detail" /\ q.pc # "write" => q.todo = <<>>
    /\ q.kind # "backfill" => q.pc # "extract" /\ ~q.dry
    /\ q.pc = "write" => Ready(q)
    /\ q.kind = "backfill" => Reports(q)

\* A row that one job has read and written by itself.
Whole(kind, row) ==
    /\ row.score = row.data
    /\ kind # "detail" => row.source = SourceOf(kind)
    /\ kind \in {"paste", "backfill"} => ~Thin(row.data)

Sound(q, table) ==
    /\ \A k \in WroteKeys(q) : q.old[k] = table[k] => Whole(q.kind, q.wrote[k])
    /\ \A k \in Keys : q.old[k] # None => table[k] # None

Exclusive == \A i, j \in Jobs : i # j => WroteKeys(job[i]) \cap WroteKeys(job[j]) = {}

IInv ==
    /\ rows \in Table
    /\ job = [j \in Jobs |-> job[j]]
    /\ \A j \in Jobs : Good(job[j]) /\ Sound(job[j], rows)
    /\ Exclusive

-----------------------------------------------------------------------------
(* Sequences of keys.                                                      *)

LEMMA Next1 ==
    ASSUME NEW s \in Seq(Keys), s # <<>>, Distinct(s)
    PROVE  /\ Head(s) \in Keys /\ Head(s) \in Left(s)
           /\ Tail(s) \in Seq(Keys) /\ Distinct(Tail(s))
           /\ Left(Tail(s)) = Left(s) \ {Head(s)}
<1>1. Len(s) \in Nat /\ Len(s) >= 1 /\ Head(s) = s[1] /\ Head(s) \in Keys
  OBVIOUS
<1>2. /\ Tail(s) \in Seq(Keys) /\ Len(Tail(s)) = Len(s) - 1
      /\ \A a \in 1 .. Len(s) - 1 : Tail(s)[a] = s[a + 1]
  OBVIOUS
<1> DEFINE t == Tail(s)
<1> HIDE DEF t
<1>3. Distinct(t)
  BY <1>1, <1>2 DEF Distinct, t
<1>4. ASSUME NEW k \in Left(t) PROVE k \in Left(s) \ {Head(s)}
  <2>1. PICK a \in 1 .. Len(s) - 1 : k = s[a + 1]
    BY <1>2 DEF Left, t
  <2>2. a + 1 \in 1 .. Len(s) /\ a + 1 # 1
    BY <1>1
  <2> QED
    BY <1>1, <2>1, <2>2 DEF Left, Distinct
<1>5. ASSUME NEW k \in Left(s), k # Head(s) PROVE k \in Left(t)
  <2>1. PICK a \in 1 .. Len(s) : k = s[a]
    BY DEF Left
  <2>2. a # 1 /\ a - 1 \in 1 .. Len(s) - 1
    BY <1>1, <1>5, <2>1
  <2>3. t[a - 1] = s[a - 1 + 1] /\ a - 1 + 1 = a
    BY <1>2, <2>2 DEF t
  <2> QED
    BY <1>2, <2>1, <2>2, <2>3 DEF Left, t
<1>6. Head(s) \in Left(s)
  BY <1>1 DEF Left
<1> QED
  BY <1>1, <1>2, <1>3, <1>4, <1>5, <1>6 DEF t

LEMMA Empty == <<>> \in Seq(Keys) /\ Distinct(<<>>) /\ Left(<<>>) = {}
BY DEF Distinct, Left

LEMMA OrdersOf ==
    ASSUME NEW S \in SUBSET Keys, NEW s \in SetToSeqs(S)
    PROVE  s \in Seq(Keys) /\ Distinct(s) /\ Left(s) \subseteq S
<1>1. IsFiniteSet(S)
  BY FS_Subset
<1>2. Cardinality(S) \in Nat
  BY <1>1, FS_CardinalityType
<1>3. s \in [1 .. Cardinality(S) -> S]
      /\ \A a, b \in 1 .. Cardinality(S) : a # b => s[a] # s[b]
  BY DEF SetToSeqs
<1>4. s \in Seq(Keys) /\ Len(s) = Cardinality(S)
  BY <1>2, <1>3
<1> QED
  BY <1>3, <1>4 DEF Distinct, Left

LEMMA One ==
    ASSUME NEW k \in Keys
    PROVE  /\ <<k>> \in Seq(Keys) /\ Distinct(<<k>>) /\ Left(<<k>>) = {k}
           /\ Head(<<k>>) = k /\ Tail(<<k>>) = <<>> /\ <<k>> # <<>>
BY DEF Distinct, Left

-----------------------------------------------------------------------------
(* Rows.                                                                   *)

LEMMA ReadRow ==
    ASSUME NEW kind, NEW d \in Data
    PROVE  FromRaw(kind, d) \in Row
BY DEF FromRaw, Row, SourceOf, Sources

\* An UPDATE of a row that is as it was loaded stores all that was assigned.
LEMMA FlushUnraced ==
    ASSUME NEW old \in Row, NEW new \in Row
    PROVE  Flushed(old, old, new) = new
<1>1. \A x, y : Column(x, x, y) = y
  BY DEF Column
<1>2. new.data = [c \in Columns |-> new.data[c]]
  BY DEF Row, Data
<1>3. Flushed(old, old, new) = [data |-> new.data, source |-> new.source, score |-> new.score]
  BY <1>1, <1>2 DEF Flushed
<1> QED
  BY <1>3 DEF Row

LEMMA FlushType ==
    ASSUME NEW stored \in Row, NEW old \in Row, NEW new \in Row
    PROVE  Flushed(stored, old, new) \in Row
<1>1. stored.data \in Data /\ new.data \in Data
  BY DEF Row
<1>2. \A x, y, z : Column(x, y, z) \in {x, z}
  BY DEF Column
<1> DEFINE V == {d[b] : d \in Readings, b \in Columns}
<1>3. stored.data \in [Columns -> V] /\ new.data \in [Columns -> V]
  BY <1>1 DEF Data
<1> HIDE DEF V
<1>4. [c \in Columns |-> Column(stored.data[c], old.data[c], new.data[c])] \in [Columns -> V]
  BY <1>2, <1>3
<1>7. [c \in Columns |-> Column(stored.data[c], old.data[c], new.data[c])] \in Data
  BY <1>4 DEF Data, V
<1>5. Column(stored.source, old.source, new.source) \in Sources
  BY <1>2 DEF Row
<1>6. Column(stored.score, old.score, new.score) \in Data \cup {None}
  BY <1>2 DEF Row
<1> QED
  BY <1>5, <1>6, <1>7 DEF Flushed, Row

-----------------------------------------------------------------------------
(* Jobs.                                                                   *)

LEMMA IdleIsGood ==
    /\ Good(Idle) /\ WroteKeys(Idle) = {} /\ \A table : Sound(Idle, table)
    /\ \A k \in Keys : Idle.old[k] = None
<1>1. Idle \in Job
  BY Empty DEF Idle, Job, Table
<1>2. WroteKeys(Idle) = {}
  BY DEF Idle, WroteKeys
<1>3. Idle.pc = "idle" /\ Idle.kind = "none" /\ Idle.todo = <<>> /\ ~Idle.dry
      /\ \A k \in Keys : Idle.old[k] = None
  BY DEF Idle
<1> QED
  BY <1>1, <1>2, <1>3, Empty DEF Good, Sound

\* A step of one job that leaves the rows alone.
LEMMA OneJob ==
    ASSUME IInv, NEW j \in Jobs, NEW q, Set(j, q), Good(q), Sound(q, rows),
           \A h \in Jobs \ {j} : WroteKeys(q) \cap WroteKeys(job[h]) = {}
    PROVE  IInv'
<1>1. rows' = rows /\ job' = [job EXCEPT ![j] = q] /\ job = [h \in Jobs |-> job[h]]
  BY DEF Set, IInv
<1>2. job'[j] = q /\ \A h \in Jobs \ {j} : job'[h] = job[h]
  BY <1>1
<1>3. job' = [h \in Jobs |-> job'[h]]
  BY <1>1
<1>4. rows' \in Table
  BY <1>1 DEF IInv, Table
<1>5. ASSUME NEW h \in Jobs PROVE Good(job'[h]) /\ Sound(job'[h], rows')
  BY <1>1, <1>2 DEF IInv
<1>6. Exclusive'
  BY <1>2 DEF IInv, Exclusive
<1> QED
  BY <1>3, <1>4, <1>5, <1>6 DEF IInv

LEMMA OneJobSameWrites ==
    ASSUME IInv, NEW j \in Jobs, NEW q, Set(j, q), Good(q), Sound(q, rows),
           q.wrote = job[j].wrote
    PROVE  IInv'
<1>1. \A h \in Jobs \ {j} : WroteKeys(q) \cap WroteKeys(job[h]) = {}
  BY DEF WroteKeys, IInv, Exclusive
<1> QED
  BY <1>1, OneJob

LEMMA OneJobUnwritten ==
    ASSUME IInv, NEW j \in Jobs, NEW q, Set(j, q), Good(q), WroteKeys(q) = {},
           \A k \in Keys : q.old[k] # None => rows[k] # None
    PROVE  IInv'
BY OneJob DEF Sound

LEMMA SearchStarts == ASSUME IInv, NEW j \in Jobs, StartSearch(j) PROVE IInv'
<1>0. PICK found \in SUBSET Keys : \E todo \in SetToSeqs(found) :
          Set(j, [Idle EXCEPT !.pc = "load", !.kind = "search", !.todo = todo])
  BY DEF StartSearch, Start
<1>1. PICK todo \in SetToSeqs(found) :
          Set(j, [Idle EXCEPT !.pc = "load", !.kind = "search", !.todo = todo])
  BY <1>0
<1> DEFINE q == [Idle EXCEPT !.pc = "load", !.kind = "search", !.todo = todo]
<1>2. todo \in Seq(Keys) /\ Distinct(todo)
  BY OrdersOf
<1>3. /\ q \in Job /\ q.pc = "load" /\ q.kind = "search" /\ q.todo = todo
      /\ q.dry = FALSE /\ q.wrote = Idle.wrote /\ q.old = Idle.old
  BY <1>2 DEF Idle, Job, Table
<1> HIDE DEF q
<1>4. WroteKeys(q) = {}
  BY <1>3, IdleIsGood DEF WroteKeys
<1>5. Good(q)
  BY <1>2, <1>3, <1>4 DEF Good
<1> QED
  BY <1>1, <1>3, <1>4, <1>5, IdleIsGood, OneJobUnwritten DEF q

LEMMA PasteStarts == ASSUME IInv, NEW j \in Jobs, StartPaste(j) PROVE IInv'
<1>1. PICK k \in Keys :
          Set(j, [Idle EXCEPT !.pc = "load", !.kind = "paste", !.todo = <<k>>])
  BY DEF StartPaste, Start
<1> DEFINE q == [Idle EXCEPT !.pc = "load", !.kind = "paste", !.todo = <<k>>]
<1>3. /\ q \in Job /\ q.pc = "load" /\ q.kind = "paste" /\ q.todo = <<k>>
      /\ q.dry = FALSE /\ q.wrote = Idle.wrote /\ q.old = Idle.old
  BY One DEF Idle, Job, Table
<1> HIDE DEF q
<1>4. WroteKeys(q) = {}
  BY <1>3, IdleIsGood DEF WroteKeys
<1>5. Good(q)
  BY One, <1>3, <1>4 DEF Good
<1> QED
  BY <1>1, <1>3, <1>4, <1>5, IdleIsGood, OneJobUnwritten DEF q

LEMMA DetailStarts == ASSUME IInv, NEW j \in Jobs, StartDetail(j) PROVE IInv'
<1>1. PICK k \in Keys :
          /\ rows[k] # None
          /\ Set(j, [Idle EXCEPT !.pc = "write", !.kind = "detail", !.todo = <<k>>,
                                 !.data = rows[k].data, !.old[k] = rows[k]])
  BY DEF StartDetail, Start
<1> DEFINE q == [Idle EXCEPT !.pc = "write", !.kind = "detail", !.todo = <<k>>,
                             !.data = rows[k].data, !.old[k] = rows[k]]
<1>2. rows[k] \in Row /\ rows[k].data \in Data
  BY <1>1 DEF IInv, Table, Row
<1>3. /\ q \in Job /\ q.pc = "write" /\ q.kind = "detail" /\ q.todo = <<k>>
      /\ q.dry = FALSE /\ q.wrote = Idle.wrote
      /\ q.data = rows[k].data /\ q.old[k] = rows[k]
      /\ \A i \in Keys \ {k} : q.old[i] = None
  BY <1>2, One DEF Idle, Job, Table
<1> HIDE DEF q
<1>4. WroteKeys(q) = {}
  BY <1>3, IdleIsGood DEF WroteKeys
<1>5. Good(q)
  BY One, <1>2, <1>3, <1>4 DEF Good, Ready
<1> QED
  BY <1>1, <1>3, <1>4, <1>5, IdleIsGood, OneJobUnwritten DEF q

LEMMA BackfillStarts == ASSUME IInv, NEW j \in Jobs, StartBackfill(j) PROVE IInv'
<1>0. PICK chosen \in SUBSET External :
          \E todo \in SetToSeqs(chosen), dry, failFast \in BOOLEAN :
             Set(j, [Idle EXCEPT !.pc = "extract", !.kind = "backfill", !.todo = todo,
                         !.dry = dry, !.failFast = failFast,
                         !.old = [k \in Keys |-> IF k \in chosen THEN rows[k] ELSE None]])
  BY DEF StartBackfill, Start
<1>1. PICK todo \in SetToSeqs(chosen), dry \in BOOLEAN, failFast \in BOOLEAN :
          Set(j, [Idle EXCEPT !.pc = "extract", !.kind = "backfill", !.todo = todo,
                      !.dry = dry, !.failFast = failFast,
                      !.old = [k \in Keys |-> IF k \in chosen THEN rows[k] ELSE None]])
  BY <1>0
<1> DEFINE table == [k \in Keys |-> IF k \in chosen THEN rows[k] ELSE None]
           q == [Idle EXCEPT !.pc = "extract", !.kind = "backfill", !.todo = todo,
                     !.dry = dry, !.failFast = failFast, !.old = table]
<1>2. todo \in Seq(Keys) /\ Distinct(todo)
  BY OrdersOf DEF External
<1>3. table \in Table /\ \A k \in Keys : table[k] # None => rows[k] # None
  BY DEF IInv, Table
<1> HIDE DEF table
<1>4. /\ q \in Job /\ q.pc = "extract" /\ q.kind = "backfill" /\ q.todo = todo
      /\ q.ok = {} /\ q.wrote = Idle.wrote /\ q.old = table
  BY <1>2, <1>3 DEF Idle, Job, Table
<1> HIDE DEF q
<1>5. WroteKeys(q) = {}
  BY <1>4, IdleIsGood DEF WroteKeys
<1>6. Good(q)
  BY <1>2, <1>4, <1>5 DEF Good, Reports
<1> QED
  BY <1>1, <1>3, <1>4, <1>5, <1>6, OneJobUnwritten DEF q, table

LEMMA JobIs ==
    ASSUME IInv, NEW j \in Jobs
    PROVE  /\ job[j] \in Job /\ Good(job[j]) /\ Sound(job[j], rows)
           /\ job[j].todo # <<>> =>
                 /\ Key(j) = Head(job[j].todo) /\ Key(j) \in Keys
                 /\ Key(j) \in Left(job[j].todo) /\ Key(j) \notin WroteKeys(job[j])
                 /\ Tail(job[j].todo) \in Seq(Keys) /\ Distinct(Tail(job[j].todo))
                 /\ Left(Tail(job[j].todo)) = Left(job[j].todo) \ {Key(j)}
<1>1. Good(job[j]) /\ Sound(job[j], rows)
  BY DEF IInv
<1>2. job[j] \in Job /\ Distinct(job[j].todo) /\ Left(job[j].todo) \cap WroteKeys(job[j]) = {}
  BY <1>1 DEF Good
<1>3. job[j].todo \in Seq(Keys)
  BY <1>2 DEF Job
<1> QED
  BY <1>1, <1>2, <1>3, Next1 DEF Key

LEMMA LoadKeeps == ASSUME IInv, NEW j \in Jobs, Load(j) PROVE IInv'
<1> DEFINE o == job[j]
           k == Key(j)
<1>1. PICK d \in MayBeRead(o.kind) :
          Set(j, [o EXCEPT !.pc = "write", !.data = d, !.old[k] = rows[k]])
  BY DEF Load
<1> DEFINE q == [o EXCEPT !.pc = "write", !.data = d, !.old[k] = rows[k]]
<1>2. o.pc = "load" /\ o.todo # <<>>
  BY DEF Load
<1>3. /\ o \in Job /\ Good(o) /\ Sound(o, rows)
      /\ k = Head(o.todo) /\ k \in Keys /\ k \notin WroteKeys(o)
  BY <1>2, JobIs
<1>4. d \in Data /\ (o.kind = "paste" => ~Thin(d))
  BY DEF MayBeRead, Extracted
<1>5. o.kind \in {"search", "paste"} /\ ~o.dry
  BY <1>2, <1>3 DEF Good, Job, Reports
<1>6. rows[k] \in Row \cup {None}
  BY <1>3 DEF IInv, Table
<1>7. [o.old EXCEPT ![k] = rows[k]] \in Table
  BY <1>3, <1>6 DEF Job, Table
<1>8. /\ q \in Job /\ q.pc = "write" /\ q.kind = o.kind /\ q.todo = o.todo /\ q.data = d
      /\ q.dry = o.dry /\ q.wrote = o.wrote
      /\ q.old[k] = rows[k] /\ \A i \in Keys \ {k} : q.old[i] = o.old[i]
  <2> HIDE DEF o, k
  <2> QED
    BY <1>3, <1>4, <1>7 DEF Job, Table
<1> HIDE DEF q, o
<1>9. WroteKeys(q) = WroteKeys(o)
  BY <1>8 DEF WroteKeys
<1>10. Ready(q)
  BY <1>2, <1>4, <1>5, <1>8 DEF Ready
<1>11. Good(q)
  BY <1>3, <1>5, <1>8, <1>9, <1>10 DEF Good
<1>12. Sound(q, rows)
  BY <1>3, <1>8, <1>9 DEF Sound, WroteKeys
<1> QED
  BY <1>1, <1>8, <1>11, <1>12, OneJobSameWrites DEF q, o

\* A backfill gives up rows, those of all that is left included.
LEMMA Dropped ==
    ASSUME NEW o, Good(o), o.pc = "extract", o.todo # <<>>,
           NEW s \in {<<>>, Tail(o.todo)}, NEW table, Sound(o, table)
    PROVE  /\ Good([o EXCEPT !.todo = s]) /\ Sound([o EXCEPT !.todo = s], table)
           /\ [o EXCEPT !.todo = s].wrote = o.wrote
<1> DEFINE q == [o EXCEPT !.todo = s]
<1>1. o \in Job /\ o.todo \in Seq(Keys) /\ Distinct(o.todo)
  BY DEF Good, Job
<1>2. s \in Seq(Keys) /\ Distinct(s) /\ Left(s) \subseteq Left(o.todo)
  BY <1>1, Next1, Empty
<1>3. /\ q \in Job /\ q.pc = o.pc /\ q.kind = o.kind /\ q.todo = s /\ q.data = o.data
      /\ q.old = o.old /\ q.wrote = o.wrote /\ q.ok = o.ok /\ q.dry = o.dry
  BY <1>1, <1>2 DEF Job
<1> HIDE DEF q
<1>4. WroteKeys(q) = WroteKeys(o)
  BY <1>3 DEF WroteKeys
<1>5. o.kind = "backfill"
  BY DEF Good
<1>6. Reports(q)
  BY <1>2, <1>3, <1>4, <1>5 DEF Good, Reports
<1>7. Good(q)
  BY <1>2, <1>3, <1>4, <1>5, <1>6 DEF Good
<1>8. Sound(q, table)
  BY <1>3, <1>4 DEF Sound
<1> QED
  BY <1>3, <1>7, <1>8 DEF q

LEMMA DropKeeps ==
    ASSUME IInv, NEW j \in Jobs, ExtractFails(j) \/ SkipRow(j) PROVE IInv'
<1>1. job[j].pc = "extract" /\ job[j].todo # <<>>
  BY DEF ExtractFails, SkipRow, Extracting
<1>2. PICK s \in {<<>>, Tail(job[j].todo)} : Set(j, [job[j] EXCEPT !.todo = s])
  BY DEF ExtractFails, SkipRow
<1>3. Good(job[j]) /\ Sound(job[j], rows)
  BY DEF IInv
<1> DEFINE q == [job[j] EXCEPT !.todo = s]
<1>4. Good(q) /\ Sound(q, rows) /\ q.wrote = job[j].wrote
  BY <1>1, <1>3, Dropped
<1> HIDE DEF q
<1> QED
  BY <1>2, <1>4, OneJobSameWrites DEF q

LEMMA ExtractKeeps == ASSUME IInv, NEW j \in Jobs, ExtractEnds(j) PROVE IInv'
<1> DEFINE o == job[j]
           k == Key(j)
           dryRun == [o EXCEPT !.ok = @ \cup {k}, !.todo = Tail(@)]
<1>1. PICK d \in MayBeRead("backfill") :
          Set(j, IF o.dry THEN dryRun
                 ELSE [o EXCEPT !.ok = @ \cup {k}, !.pc = "write", !.data = d])
  BY DEF ExtractEnds
<1> DEFINE wet == [o EXCEPT !.ok = @ \cup {k}, !.pc = "write", !.data = d]
<1>2. o.pc = "extract" /\ o.todo # <<>>
  BY DEF ExtractEnds, Extracting
<1>3. /\ o \in Job /\ Good(o) /\ Sound(o, rows)
      /\ k = Head(o.todo) /\ k \in Keys /\ k \in Left(o.todo) /\ k \notin WroteKeys(o)
      /\ Tail(o.todo) \in Seq(Keys) /\ Distinct(Tail(o.todo))
      /\ Left(Tail(o.todo)) = Left(o.todo) \ {k}
  BY <1>2, JobIs
<1>4. d \in Data /\ ~Thin(d)
  BY DEF MayBeRead, Extracted
<1>5. /\ o.kind = "backfill" /\ Distinct(o.todo) /\ Left(o.todo) \cap WroteKeys(o) = {}
      /\ WroteKeys(o) = (IF o.dry THEN {} ELSE o.ok) /\ Left(o.todo) \cap o.ok = {}
  BY <1>2, <1>3 DEF Good, Reports
<1> HIDE DEF o, k
<1>6. CASE o.dry
  <2>1. /\ dryRun \in Job /\ dryRun.pc = "extract" /\ dryRun.kind = "backfill"
        /\ dryRun.todo = Tail(o.todo) /\ dryRun.ok = o.ok \cup {k} /\ dryRun.dry = o.dry
        /\ dryRun.wrote = o.wrote /\ dryRun.old = o.old
    BY <1>2, <1>3, <1>5 DEF Job
  <2> HIDE DEF dryRun
  <2>2. WroteKeys(dryRun) = {}
    BY <1>5, <1>6, <2>1 DEF WroteKeys
  <2>3. Reports(dryRun)
    BY <1>3, <1>5, <1>6, <2>1, <2>2 DEF Reports
  <2>4. Good(dryRun)
    BY <1>3, <2>1, <2>2, <2>3 DEF Good
  <2>5. Set(j, dryRun)
    BY <1>1, <1>6
  <2> QED
    BY <1>3, <2>1, <2>2, <2>4, <2>5, OneJobUnwritten DEF Sound
<1>7. CASE ~o.dry
  <2>1. /\ wet \in Job /\ wet.pc = "write" /\ wet.kind = "backfill" /\ wet.todo = o.todo
        /\ wet.data = d /\ wet.ok = o.ok \cup {k} /\ wet.dry = o.dry
        /\ wet.wrote = o.wrote /\ wet.old = o.old
    BY <1>3, <1>4, <1>5 DEF Job
  <2> HIDE DEF wet
  <2>2. WroteKeys(wet) = WroteKeys(o)
    BY <2>1 DEF WroteKeys
  <2>3. Reports(wet)
    BY <1>3, <1>5, <1>7, <2>1, <2>2 DEF Reports
  <2>4. Ready(wet)
    BY <1>2, <1>4, <2>1 DEF Ready
  <2>5. Good(wet)
    BY <1>5, <2>1, <2>2, <2>3, <2>4 DEF Good
  <2>6. Sound(wet, rows)
    BY <1>3, <1>5, <2>1, <2>2 DEF Sound
  <2>7. Set(j, wet)
    BY <1>1, <1>7 DEF wet
  <2> QED
    BY <2>1, <2>5, <2>6, <2>7, OneJobSameWrites DEF o
<1> QED
  BY <1>6, <1>7

\* What a write makes of the row, whole if the row is as it was loaded.
LEMMA Version ==
    ASSUME IInv, NEW j \in Jobs, job[j].pc = "write",
           job[j].old[Key(j)] = None => rows[Key(j)] = None,
           NEW v,
           v = IF job[j].old[Key(j)] = None THEN Assigned(j)
               ELSE Flushed(rows[Key(j)], job[j].old[Key(j)], Assigned(j))
    PROVE  v \in Row /\ (job[j].old[Key(j)] = rows[Key(j)] => Whole(job[j].kind, v))
<1> DEFINE o == job[j]
           k == Key(j)
           new == Assigned(j)
<1>1. Good(o) /\ o \in Job /\ Sound(o, rows)
  BY JobIs
<1>2. Ready(o)
  BY <1>1 DEF Good
<1>3. k = Head(o.todo) /\ k \in Keys
  BY <1>2, JobIs DEF Ready
<1>4. /\ o.old[k] \in Row \cup {None} /\ rows[k] \in Row \cup {None}
      /\ o.old[k] # None => rows[k] # None
  BY <1>1, <1>3 DEF Job, Table, IInv, Sound
<1>5. new \in Row /\ Whole(o.kind, new)
  <2>1. CASE o.kind = "detail"
    <3>1. o.old[k] \in Row /\ o.old[k].data = o.data /\ o.data \in Data
      BY <1>2, <1>3, <2>1 DEF Ready
    <3>2. new = [o.old[k] EXCEPT !.score = o.data]
      BY <2>1 DEF Assigned
    <3> HIDE DEF o, k, new
    <3>3. new \in Row /\ new.score = o.data /\ new.data = o.data
      BY <3>1, <3>2 DEF Row
    <3> QED
      BY <2>1, <3>3 DEF Whole
  <2>2. CASE o.kind # "detail"
    <3>1. new = FromRaw(o.kind, o.data) /\ o.data \in Data
      BY <1>2, <2>2 DEF Assigned, Ready
    <3>2. new.score = o.data /\ new.data = o.data /\ new.source = SourceOf(o.kind)
      BY <3>1 DEF FromRaw
    <3>3. o.kind \in {"paste", "backfill"} => ~Thin(o.data)
      BY <1>2 DEF Ready
    <3> HIDE DEF o, new
    <3>4. FromRaw(o.kind, o.data) \in Row
      BY <3>1, ReadRow
    <3> QED
      BY <2>2, <3>1, <3>2, <3>3, <3>4 DEF Whole
  <2> QED
    BY <2>1, <2>2
<1> HIDE DEF o, k, new
<1>6. CASE o.old[k] = None
  BY <1>5, <1>6 DEF o, k, new
<1>7. CASE o.old[k] # None
  <2>1. v = Flushed(rows[k], o.old[k], new) /\ rows[k] \in Row /\ o.old[k] \in Row
    BY <1>4, <1>7 DEF o, k, new
  <2>2. v \in Row
    BY <1>5, <2>1, FlushType
  <2>3. o.old[k] = rows[k] => v = new
    BY <1>5, <2>1, FlushUnraced
  <2> QED
    BY <1>5, <2>2, <2>3 DEF o, k
<1> QED
  BY <1>6, <1>7

LEMMA WriteKeeps == ASSUME IInv, NEW j \in Jobs, Write(j) PROVE IInv'
<1> DEFINE o == job[j]
           k == Key(j)
           v == IF o.old[k] = None THEN Assigned(j) ELSE Flushed(rows[k], o.old[k], Assigned(j))
           q == [o EXCEPT !.wrote[k] = v, !.todo = Tail(@), !.data = None,
                          !.pc = IF o.kind = "backfill" THEN "extract" ELSE "load"]
<1>1. /\ o.pc = "write" /\ Blockers(j) = {}
      /\ o.old[k] = None => rows[k] = None
      /\ Set(j, q)
  BY DEF Write
<1>2. Good(o) /\ o \in Job /\ Sound(o, rows)
  BY JobIs
<1>3. Ready(o) /\ o.kind # "none"
  BY <1>1, <1>2 DEF Good
<1>4. /\ k = Head(o.todo) /\ k \in Keys /\ k \in Left(o.todo) /\ k \notin WroteKeys(o)
      /\ Tail(o.todo) \in Seq(Keys) /\ Distinct(Tail(o.todo))
      /\ Left(Tail(o.todo)) = Left(o.todo) \ {k}
  BY <1>3, JobIs DEF Ready
<1>5. v \in Row /\ (o.old[k] = rows[k] => Whole(o.kind, v))
  BY <1>1, Version
<1>6. \A h \in Jobs \ {j} : k \notin WroteKeys(job[h])
  BY <1>1, <1>4 DEF Blockers, WroteKeys
<1>7. Left(o.todo) \cap WroteKeys(o) = {} /\ (o.kind = "detail" => Tail(o.todo) = <<>>)
  BY <1>2, <1>3 DEF Good, Ready
<1>8. o.kind # "backfill" => ~o.dry
  BY <1>2 DEF Good
<1>9. o.kind = "backfill" => ~o.dry /\ WroteKeys(o) = o.ok \ {k} /\ Left(o.todo) \cap o.ok = {k}
  BY <1>1, <1>2, <1>4 DEF Good, Reports, Job
<1> HIDE DEF o, k, v
<1>10. /\ q \in Job /\ q.pc = (IF o.kind = "backfill" THEN "extract" ELSE "load")
       /\ q.kind = o.kind /\ q.todo = Tail(o.todo) /\ q.ok = o.ok /\ q.dry = o.dry
       /\ q.old = o.old /\ q.wrote = [o.wrote EXCEPT ![k] = v]
  <2>1. [o.wrote EXCEPT ![k] = v] \in Table
    BY <1>2, <1>4, <1>5 DEF Job, Table
  <2> QED
    BY <1>2, <1>4, <2>1 DEF Job
<1> HIDE DEF q
<1>11. q.wrote[k] = v /\ \A i \in Keys \ {k} : q.wrote[i] = o.wrote[i]
  BY <1>2, <1>4, <1>10 DEF Job, Table
<1>12. WroteKeys(q) = WroteKeys(o) \cup {k}
  BY <1>4, <1>5, <1>11 DEF WroteKeys
<1>13. Left(q.todo) \cap WroteKeys(q) = {}
  BY <1>4, <1>7, <1>10, <1>12
<1>14. o.kind = "backfill" => Reports(q)
  BY <1>4, <1>9, <1>10, <1>12 DEF Reports
<1>15. Good(q)
  BY <1>3, <1>4, <1>7, <1>8, <1>10, <1>13, <1>14 DEF Good
<1>16. Sound(q, rows)
  <2>0. \A i \in Keys : q.old[i] # None => rows[i] # None
    BY <1>2, <1>10 DEF Sound
  <2>1. ASSUME NEW i \in WroteKeys(q), q.old[i] = rows[i] PROVE Whole(q.kind, q.wrote[i])
    <3>1. CASE i = k
      BY <1>5, <1>10, <1>11, <2>1, <3>1
    <3>2. CASE i # k
      BY <1>2, <1>10, <1>11, <1>12, <2>1, <3>2 DEF Sound, WroteKeys
    <3> QED
      BY <3>1, <3>2
  <2> QED
    BY <2>0, <2>1 DEF Sound
<1>17. \A h \in Jobs \ {j} : WroteKeys(q) \cap WroteKeys(job[h]) = {}
  BY <1>6, <1>12 DEF IInv, Exclusive, o
<1> QED
  BY <1>1, <1>15, <1>16, <1>17, OneJob

LEMMA CommitKeeps == ASSUME IInv, NEW j \in Jobs, Commit(j) PROVE IInv'
<1>1. /\ rows' = IF job[j].dry THEN rows ELSE Written(j)
      /\ job' = [job EXCEPT ![j] = Idle]
      /\ job = [h \in Jobs |-> job[h]]
  BY DEF Commit, IInv
<1>2. job'[j] = Idle /\ \A h \in Jobs \ {j} : job'[h] = job[h]
  BY <1>1
<1>3. job[j].wrote \in Table
  BY JobIs DEF Job
<1>4. rows' \in Table
  BY <1>1, <1>3 DEF IInv, Table, Written
<1>5. /\ \A k \in Keys \ WroteKeys(job[j]) : rows'[k] = rows[k]
      /\ \A k \in Keys : rows[k] # None => rows'[k] # None
  BY <1>1 DEF Written, WroteKeys
<1>6. ASSUME NEW h \in Jobs PROVE Good(job'[h]) /\ Sound(job'[h], rows')
  <2>1. CASE h = j
    BY <1>2, <2>1, IdleIsGood
  <2>2. CASE h # j
    <3>1. WroteKeys(job[h]) \cap WroteKeys(job[j]) = {} /\ WroteKeys(job[h]) \subseteq Keys
      BY <2>2 DEF IInv, Exclusive, WroteKeys
    <3>2. Good(job[h]) /\ Sound(job[h], rows) /\ job'[h] = job[h]
      BY <1>2, <2>2 DEF IInv
    <3> QED
      BY <1>5, <3>1, <3>2 DEF Sound
  <2> QED
    BY <2>1, <2>2
<1>7. Exclusive'
  <2>1. ASSUME NEW i \in Jobs, NEW h \in Jobs, i # h
        PROVE  WroteKeys(job'[i]) \cap WroteKeys(job'[h]) = {}
    BY <1>2, <2>1, IdleIsGood DEF IInv, Exclusive
  <2> QED
    BY <2>1 DEF Exclusive
<1>8. job' = [h \in Jobs |-> job'[h]]
  BY <1>1
<1> QED
  BY <1>4, <1>6, <1>7, <1>8 DEF IInv

LEMMA RollbackKeeps == ASSUME IInv, NEW j \in Jobs, Rollback(j) PROVE IInv'
BY IdleIsGood, OneJobUnwritten DEF Rollback

-----------------------------------------------------------------------------
LEMMA IInvStep == IInv /\ [Next]_vars => IInv'
<1> SUFFICES ASSUME IInv, [Next]_vars PROVE IInv'
  OBVIOUS
<1>1. ASSUME NEW j \in Jobs, StartJob(j) PROVE IInv'
  BY <1>1, SearchStarts, PasteStarts, DetailStarts, BackfillStarts DEF StartJob
<1>2. ASSUME NEW j \in Jobs, Proceed(j) PROVE IInv'
  BY <1>2, LoadKeeps, DropKeeps, ExtractKeeps, CommitKeeps, RollbackKeeps DEF Proceed, Fail
<1>3. ASSUME NEW j \in Jobs, Write(j) PROVE IInv'
  BY <1>3, WriteKeeps
<1>4. ASSUME NEW j \in Jobs, Abort(j) PROVE IInv'
  BY <1>4, RollbackKeeps DEF Abort
<1>5. CASE UNCHANGED vars
  BY <1>5 DEF vars, IInv, Exclusive
<1> QED
  BY <1>1, <1>2, <1>3, <1>4, <1>5 DEF Next

LEMMA IInvInit == Init => IInv
<1> SUFFICES ASSUME Init PROVE IInv
  OBVIOUS
<1>1. rows \in Table /\ job = [j \in Jobs |-> Idle]
  BY DEF Init, Table
<1>2. \A j \in Jobs : job[j] = Idle
  BY <1>1
<1> QED
  BY <1>1, <1>2, IdleIsGood DEF IInv, Exclusive

\* The inductive invariant of the store.
THEOREM StoreInvariance == Spec => []IInv
BY IInvInit, IInvStep, PTL DEF Spec

-----------------------------------------------------------------------------
LEMMA IInvType == IInv => TypeOK
<1> SUFFICES ASSUME IInv PROVE TypeOK
  OBVIOUS
<1>1. rows \in [Keys -> Row \cup {None}]
  BY DEF IInv, Table
<1>2. ASSUME NEW j \in Jobs
      PROVE  /\ job[j].old \in Table /\ job[j].wrote \in Table /\ job[j].todo \in Seq(Keys)
             /\ job[j].pc = "write" => job[j].todo # <<>> /\ job[j].data \in Data
  <2>1. Good(job[j]) /\ job[j] \in Job
    BY JobIs
  <2> QED
    BY <2>1 DEF Good, Ready, Job
<1> QED
  BY <1>1, <1>2 DEF TypeOK, Table

\* Rows and jobs keep their types, whatever jobs overlap and fail.
THEOREM StoreTypes == Spec => []TypeOK
BY StoreInvariance, IInvType, PTL

\* What a backfill reports done is what it has written, whatever fails on the way.
THEOREM BackfillReports == Spec => []BackfillKeepsItsReport
<1>1. IInv => BackfillKeepsItsReport
  <2> SUFFICES ASSUME IInv, NEW j \in Jobs, job[j].kind = "backfill"
               PROVE  {k \in Keys : job[j].wrote[k] # None} =
                        IF job[j].dry THEN {}
                        ELSE job[j].ok \ (IF job[j].pc = "write" THEN {Key(j)} ELSE {})
    BY DEF BackfillKeepsItsReport
  <2>1. Reports(job[j]) /\ job[j].dry \in BOOLEAN
    BY JobIs DEF Good, Job
  <2>2. CASE job[j].pc = "write"
    BY <2>1, <2>2 DEF Reports, WroteKeys, Key
  <2>3. CASE job[j].pc = "extract"
    BY <2>1, <2>3 DEF Reports, WroteKeys
  <2> QED
    BY <2>1, <2>2, <2>3 DEF Reports
<1> QED
  BY <1>1, StoreInvariance, PTL

\* Only a commit changes rows, and of what it has written.
LEMMA RowsChange ==
    ASSUME IInv, [Next]_vars, NEW k \in Keys, rows'[k] # rows[k]
    PROVE  \E j \in Jobs : Commit(j) /\ k \in WroteKeys(job[j]) /\ rows'[k] = job[j].wrote[k]
<1>1. rows' # rows
  OBVIOUS
<1>2. PICK j \in Jobs : Commit(j)
  BY <1>1, Zenon DEF Next, vars, StartJob, StartSearch, StartPaste, StartDetail, StartBackfill, Start,
       Proceed, Load, ExtractFails, ExtractEnds, SkipRow, Fail, Write, Abort, Rollback, Set
<1> QED
  BY <1>2, Zenon DEF Commit, Written, WroteKeys

\* Rows are torn or scored by another reading only by overlapping jobs.
THEOREM TornByRaces == Spec => TornByRacesOnly
<1>1. IInv /\ [Next]_vars => [\A k \in Keys : WholeRow(k)]_vars
  <2> SUFFICES ASSUME IInv, [Next]_vars, NEW k \in Keys, rows'[k] # rows[k]
               PROVE  WholeRow(k)
    BY DEF WholeRow
  <2>1. PICK j \in Jobs : k \in WroteKeys(job[j]) /\ rows'[k] = job[j].wrote[k]
    BY RowsChange
  <2>2. job[j].old[k] = rows[k] => Whole(job[j].kind, job[j].wrote[k])
    BY <2>1 DEF IInv, Sound
  <2>3. job[j].wrote[k] # None
    BY <2>1 DEF WroteKeys
  <2> QED
    BY <2>1, <2>2, <2>3 DEF WholeRow, Whole
<1> QED
  BY <1>1, StoreInvariance, PTL DEF Spec, TornByRacesOnly

\* A pasted URL or a backfill never empties a row that has not changed since.
THEOREM RowsStayRich == Spec => NeverThinned
<1> DEFINE Kept(j, k) == (/\ rows[k] # None /\ ~Thin(rows[k].data)
                          /\ job[j].kind \in {"paste", "backfill"} /\ CommitsUnraced(j, k))
                             => ~Thin(rows'[k].data)
<1>1. IInv /\ [Next]_vars => [\A k \in Keys, j \in Jobs : Kept(j, k)]_vars
  <2> SUFFICES ASSUME IInv, [Next]_vars, NEW k \in Keys, NEW j \in Jobs,
                      ~Thin(rows[k].data), job[j].kind \in {"paste", "backfill"},
                      CommitsUnraced(j, k)
               PROVE  ~Thin(rows'[k].data)
    OBVIOUS
  <2>1. CASE rows'[k] = rows[k]
    BY <2>1
  <2>2. CASE rows'[k] # rows[k]
    <3>1. PICK h \in Jobs : k \in WroteKeys(job[h]) /\ rows'[k] = job[h].wrote[k]
      BY <2>2, RowsChange
    <3>2. h = j
      BY <3>1 DEF IInv, Exclusive, CommitsUnraced, WroteKeys
    <3>3. Whole(job[j].kind, job[j].wrote[k])
      BY <3>1, <3>2 DEF IInv, Sound, CommitsUnraced
    <3> QED
      BY <3>1, <3>2, <3>3 DEF Whole
  <2> QED
    BY <2>1, <2>2
<1> QED
  BY <1>1, StoreInvariance, PTL DEF Spec, NeverThinned
=============================================================================
