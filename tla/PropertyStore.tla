--------------------------- MODULE PropertyStore ---------------------------
(***************************************************************************)
(* The table of listings and the four kinds of jobs that write it.  A      *)
(* search upserts every listing it has merged (search/service.py,          *)
(* upsert_property), a pasted URL upserts one (interest/router.py), the    *)
(* detail page scores a row that has no score (properties/router.py), and  *)
(* an operator's backfill extracts all external rows again                 *)
(* (scripts/backfill_external.py).                                         *)
(*                                                                         *)
(* Each job is one transaction.  PostgreSQL runs it at READ COMMITTED: a   *)
(* SELECT sees what is committed; an UPDATE waits for the lock of its row, *)
(* then changes the columns it names in the row as committed by then, and  *)
(* keeps the lock until the transaction ends; an INSERT waits for another  *)
(* transaction that has inserted the key and fails if that one commits.    *)
(* SQLAlchemy names the columns whose value is not the one it has loaded.  *)
(***************************************************************************)
EXTENDS Integers, Sequences, FiniteSets, SequencesExt

CONSTANTS Keys,      \* portal and external_id
          Columns,   \* what is read of a listing
          Readings,  \* what a scraper or an extraction may read: functions on Columns
          Jobs,      \* how many jobs run at once
          None,      \* NULL, and a row that does not exist
          FirstRows  \* tables to start from

Sources == {"live", "external"}

\* What a row may hold: what was read of a column may come from any reading.
\* A score stands for the reading it was computed from; None: not scored yet.
Data == [Columns -> {d[c] : d \in Readings, c \in Columns}]

Row == [data : Data, source : Sources, score : Data \cup {None}]

ASSUME StoreAssumption ==
    /\ IsFiniteSet(Keys)
    /\ Readings \subseteq Data
    /\ None \notin Data /\ None \notin Row
    /\ FirstRows \subseteq [Keys -> Row \cup {None}]

VARIABLES rows,   \* the committed rows
          job     \* the jobs

vars == <<rows, job>>

\* todo: the keys still to be written; data: what was read of the first of them;
\* old: the rows as loaded; wrote: the versions this transaction has written;
\* ok: the rows that a backfill reports as done.
Idle == [pc |-> "idle", kind |-> "none", todo |-> <<>>, data |-> None,
         old |-> [k \in Keys |-> None], wrote |-> [k \in Keys |-> None],
         ok |-> {}, dry |-> FALSE, failFast |-> FALSE]

Init == rows \in FirstRows /\ job = [j \in Jobs |-> Idle]

-----------------------------------------------------------------------------
(* Rows and readings.                                                      *)

SourceOf(kind) == IF kind = "search" THEN "live" ELSE "external"

\* A slip: the score is left to the detail page.
Unscored(kind, data) == [data |-> data, source |-> SourceOf(kind), score |-> None]

\* raw_property_to_model and apply_raw_to_row: every column, the source and the score.
FromRaw(kind, data) == [data |-> data, source |-> SourceOf(kind), score |-> data]

Column(stored, loaded, assigned) == IF assigned = loaded THEN stored ELSE assigned

\* The UPDATE of a row loaded as old and assigned new, on what is stored by then.
Flushed(stored, old, new) ==
    [data |-> [c \in Columns |-> Column(stored.data[c], old.data[c], new.data[c])],
     source |-> Column(stored.source, old.source, new.source),
     score |-> Column(stored.score, old.score, new.score)]

\* No price, no images, no locality: a bot wall or half a page.
Thin(data) == \A c \in Columns \ {"rooms"} : data[c] = None

\* A slip: whatever was extracted is taken.
AnyExtract(data) == TRUE

\* The test of extract_listing, and again of the backfill, before a row is written.
Extracted(data) == ~Thin(data)

-----------------------------------------------------------------------------
Set(j, q) == job' = [job EXCEPT ![j] = q] /\ UNCHANGED rows

Start(j, q) == job[j].pc = "idle" /\ Set(j, q)

\* A search has merged its listings: seen has each key once.
StartSearch(j) ==
    \E found \in (SUBSET Keys) \ {{}} : \E todo \in SetToSeqs(found) :
        Start(j, [Idle EXCEPT !.pc = "load", !.kind = "search", !.todo = todo])

\* The page of a pasted URL has been extracted.
StartPaste(j) ==
    \E k \in Keys : Start(j, [Idle EXCEPT !.pc = "load", !.kind = "paste", !.todo = <<k>>])

\* The detail page loads the row with the reading it will score.
StartDetail(j) ==
    \E k \in Keys :
        /\ rows[k] # None /\ rows[k].score = None
        /\ Start(j, [Idle EXCEPT !.pc = "write", !.kind = "detail", !.todo = <<k>>,
                                 !.data = rows[k].data, !.old[k] = rows[k]])

External == {k \in Keys : rows[k] # None /\ rows[k].source = "external"}

\* _select_rows: the external rows, or those of a list or of the keys given, loaded
\* at once; the least recently updated first, which may be any order.
StartBackfill(j) ==
    \E chosen \in (SUBSET External) \ {{}} : \E todo \in SetToSeqs(chosen), dry, failFast \in BOOLEAN :
        Start(j, [Idle EXCEPT !.pc = "extract", !.kind = "backfill", !.todo = todo,
                              !.dry = dry, !.failFast = failFast,
                              !.old = [k \in Keys |-> IF k \in chosen THEN rows[k] ELSE None]])

-----------------------------------------------------------------------------
(* One listing after the other: load, write.                               *)

Key(j) == Head(job[j].todo)

MayBeRead(kind) == IF kind = "search" THEN Readings ELSE {d \in Readings : Extracted(d)}

Load(j) ==
    /\ job[j].pc = "load" /\ job[j].todo # <<>>
    /\ \E data \in MayBeRead(job[j].kind) :
          Set(j, [job[j] EXCEPT !.pc = "write", !.data = data, !.old[Key(j)] = rows[Key(j)]])

Extracting(j) == job[j].pc = "extract" /\ job[j].todo # <<>>

\* A slip: the session is rolled back and the batch goes on.
RollsBackAndGoesOn(j) ==
    /\ Extracting(j)
    /\ Set(j, [job[j] EXCEPT !.todo = Tail(@), !.wrote = Idle.wrote])

\* A slip: the failure is reported, but the loop goes on to the write.
GoesOnAfterFailure(j) ==
    Extracting(j) /\ Set(j, [job[j] EXCEPT !.pc = "write"])

\* Nothing is written of a page that could not be read, or that was thin.
ExtractFails(j) ==
    /\ Extracting(j)
    /\ Set(j, [job[j] EXCEPT !.todo = IF job[j].failFast THEN <<>> ELSE Tail(@)])

\* A dry run reports the row as done, and goes on without writing it.
ExtractEnds(j) ==
    /\ Extracting(j)
    /\ \E data \in MayBeRead("backfill") :
          Set(j, IF job[j].dry
                 THEN [job[j] EXCEPT !.ok = @ \cup {Key(j)}, !.todo = Tail(@)]
                 ELSE [job[j] EXCEPT !.ok = @ \cup {Key(j)}, !.pc = "write", !.data = data])

\* A row whose address is no URL is skipped.
SkipRow(j) == Extracting(j) /\ Set(j, [job[j] EXCEPT !.todo = Tail(@)])

\* The jobs that hold the lock of the row j is about to write.
Blockers(j) ==
    IF job[j].pc = "write" THEN {h \in Jobs \ {j} : job[h].wrote[Key(j)] # None} ELSE {}

Assigned(j) ==
    IF job[j].kind = "detail" THEN [job[j].old[Key(j)] EXCEPT !.score = job[j].data]
    ELSE FromRaw(job[j].kind, job[j].data)

\* The flush: an UPDATE of a row that was loaded, an INSERT of one that was not.
Write(j) ==
    LET k == Key(j)
        q == job[j]
    IN  /\ q.pc = "write" /\ Blockers(j) = {}
        /\ q.old[k] = None => rows[k] = None
        /\ Set(j, [q EXCEPT !.wrote[k] = IF q.old[k] = None THEN Assigned(j)
                                         ELSE Flushed(rows[k], q.old[k], Assigned(j)),
                            !.todo = Tail(@), !.data = None,
                            !.pc = IF q.kind = "backfill" THEN "extract" ELSE "load"])

\* uq_portal_external: someone else has inserted the listing since.
DuplicateKey(j) ==
    job[j].pc = "write" /\ Blockers(j) = {} /\ job[j].old[Key(j)] = None /\ rows[Key(j)] # None

Written(j) == [k \in Keys |-> IF job[j].wrote[k] = None THEN rows[k] ELSE job[j].wrote[k]]

\* The job's work is done; a dry run rolls back.
Commit(j) ==
    /\ job[j].pc \in {"load", "extract"} /\ job[j].todo = <<>>
    /\ rows' = IF job[j].dry THEN rows ELSE Written(j)
    /\ job' = [job EXCEPT ![j] = Idle]

\* A slip: the session is not rolled back, and keeps its locks.
StuckAfterError(j) == Set(j, [job[j] EXCEPT !.pc = "failed"])

\* get_db rolls back and raises; the backfill ends with a traceback.
Rollback(j) == Set(j, Idle)

\* The database makes one of the jobs that wait for one another fail.
DeadlockVictim(j) ==
    \E circle \in SUBSET Jobs :
        /\ j \in circle
        /\ \A h \in circle : Blockers(h) \cap circle # {}

Fail(j) == (DuplicateKey(j) \/ DeadlockVictim(j)) /\ Rollback(j)

\* The request is cancelled, or the process dies.
Abort(j) == job[j].pc # "idle" /\ Rollback(j)

StartJob(j) == StartSearch(j) \/ StartPaste(j) \/ StartDetail(j) \/ StartBackfill(j)

Proceed(j) ==
    \/ Load(j) \/ ExtractFails(j) \/ ExtractEnds(j) \/ SkipRow(j)
    \/ Commit(j) \/ Fail(j)

Next == \E j \in Jobs : StartJob(j) \/ Proceed(j) \/ Write(j) \/ Abort(j)

\* Every job goes on when it can; the database queues those that wait for a row.
Fairness == \A j \in Jobs : WF_vars(Proceed(j)) /\ SF_vars(Write(j) \/ Fail(j))

Spec == Init /\ [][Next]_vars /\ Fairness

-----------------------------------------------------------------------------
(* Properties.                                                             *)

TypeOK ==
    /\ rows \in [Keys -> Row \cup {None}]
    /\ \A j \in Jobs : /\ job[j].old \in [Keys -> Row \cup {None}]
                       /\ job[j].wrote \in [Keys -> Row \cup {None}]
                       /\ job[j].todo \in Seq(Keys)
                       /\ job[j].pc = "write" => job[j].todo # <<>> /\ job[j].data \in Data

\* Job j commits row k, which still is what j has loaded.
CommitsUnraced(j, k) == job[j].wrote[k] # None /\ job'[j] = Idle /\ job[j].old[k] = rows[k]

WholeRow(k) ==
    rows'[k] # rows[k] =>
        \E j \in Jobs :
            /\ job[j].wrote[k] # None
            /\ job[j].old[k] = rows[k] =>
                  /\ rows'[k].score = rows'[k].data
                  /\ job[j].kind # "detail" => rows'[k].source = SourceOf(job[j].kind)

\* A row is never half of one reading and half of another, or scored by a reading
\* it does not hold, unless two jobs overlapped on it: the columns an UPDATE leaves
\* out are those that the job's own reading has found unchanged.
TornByRacesOnly == [][\A k \in Keys : WholeRow(k)]_vars

\* What a backfill reports is what it commits: all the rows it calls done have been
\* written, but for the one it is about to write, no other row has, and a dry run
\* writes nothing, whichever extractions failed on the way.
BackfillKeepsItsReport ==
    \A j \in Jobs : job[j].kind = "backfill" =>
        {k \in Keys : job[j].wrote[k] # None} =
            IF job[j].dry THEN {} ELSE job[j].ok \ (IF job[j].pc = "write" THEN {Key(j)} ELSE {})

\* Neither a pasted URL nor a backfill empties a row that says something, unless
\* another job has changed the row since it was loaded ("Never overwrite a richer
\* DB row").
NeverThinned ==
    [][\A k \in Keys, j \in Jobs :
          (/\ rows[k] # None /\ ~Thin(rows[k].data)
           /\ job[j].kind \in {"paste", "backfill"} /\ CommitsUnraced(j, k))
              => ~Thin(rows'[k].data)]_vars

\* A job ends: rows locked by a backfill, or by two searches that found the same
\* listings in different orders, keep nobody waiting for ever.
JobsEnd == \A j \in Jobs : job[j].pc # "idle" ~> job[j].pc = "idle"
=============================================================================
