---------------------------- MODULE CatalogPipeline ----------------------------
(***************************************************************************)
(* The product catalog and the batch jobs that fill it.  The sync job       *)
(* copies the backend's product table, page by page, into catalog_products; *)
(* the enrichment job claims pending rows, writes search documents for them *)
(* and marks them ready; the import, which takes no lock, brings rows and   *)
(* documents written elsewhere.  The jobs meet only in the rows: each action *)
(* is one database transaction of one of them, and everything between two   *)
(* transactions (the model, the embedder) is time in which others move.     *)
(***************************************************************************)
EXTENDS Integers, Sequences, FiniteSets

CONSTANTS
    NProducts,    \* products are numbered in the key order the sync pages through
    Inputs,       \* what the documents of a product are written from: name, price band
    Prices,       \* what else the backend may change
    Categories,
    Syncs,        \* sync jobs that may run at the same time
    Jobs,         \* enrichment jobs that may be started
    PageSize,     \* catalog_sync_batch_size
    BatchSize,    \* catalog_enrich_batch_size
    MaxBatches,   \* --max-batches
    MaxRuns,      \* bounds of the model: sync runs,
    Files,        \* what a file for the import may hold: rows for some of the products
    MaxChanges,   \* changes of the backend's table, and imports,
    MaxCrashes,   \* jobs killed, and locks lost,
    None          \* SQL's NULL

Products == 1 .. NProducts

\* A value of S for some of the products.
Tables(S) == UNION { [ps -> S] : ps \in SUBSET Products }

\* A row of the backend's table: all that source_hash covers.  The labels name
\* a category or leave it to the model.
Version == [input : Inputs, price : Prices, category : Categories \cup {None}]

\* What doc_input_hash covers: everything but the price within its band.
DocInput(v) == [input |-> v.input, category |-> v.category]
Document == [input : Inputs, category : Categories \cup {None}]

Statuses == {"pending", "processing", "ready", "failed"}

\* A row of catalog_products.  aged: not updated for stale_processing_seconds.
Row ==
    [ version : Version, category : Categories \cup {None},
      origin : {"source", "inferred", None}, active : BOOLEAN, status : Statuses,
      seen : 0 .. MaxRuns, aged : BOOLEAN ]

\* A product in a file: the final values of its row, the category among them.
FileRow == [version : Version, category : Categories, active : BOOLEAN]

ASSUME CatalogConstants ==
    /\ Files \subseteq Tables(FileRow)
    /\ NProducts \in Nat /\ MaxRuns \in Nat /\ MaxChanges \in Nat /\ MaxCrashes \in Nat
    /\ PageSize \in Nat \ {0} /\ BatchSize \in Nat \ {0} /\ MaxBatches \in Nat \ {0}
    /\ None \notin Jobs \cup Inputs \cup Categories \cup Version \cup Row \cup Document

VARIABLES
    source,     \* the backend's table: the row of each product, or None
    rows,       \* catalog_products: the row of each product, or None
    documents,  \* catalog_product_documents: what they were written from, or None
    runs,       \* catalog_sync_runs: the status of each run
    sync,       \* where each sync job is
    job,        \* where each enrichment job is
    lock,       \* the job whose database session holds the advisory lock, or None
    importing,  \* the products of the file that the import has not saved yet
    listed,     \* history: the products listed ever since a sync job's run started
    changes,    \* changes of the backend and imports so far
    crashes     \* crashes so far

vars == <<source, rows, documents, runs, sync, job, lock, importing, listed, changes, crashes>>

NoBatch == [p \in {} |-> None]

SyncOff == [pc |-> "off", mode |-> "full", run |-> 0, cursor |-> 0, batch |-> NoBatch]
JobOff  == [pc |-> "off", batches |-> 0, hand |-> [p \in Products |-> None]]

SyncState ==
    [ pc : {"off", "page", "store", "deactivate", "finish"}, mode : {"full", "incremental"},
      run : 0 .. MaxRuns, cursor : 0 .. NProducts, batch : Tables(Version) ]
JobState ==
    [ pc : {"off", "requeue", "release", "claim", "work"}, batches : 0 .. MaxBatches - 1,
      hand : [Products -> Version \cup {None}] ]

TypeOK ==
    /\ source \in [Products -> Version \cup {None}]
    /\ rows \in [Products -> Row \cup {None}]
    /\ documents \in [Products -> Document \cup {None}]
    /\ runs \in Seq({"running", "succeeded", "failed"}) /\ Len(runs) <= MaxRuns
    /\ importing \in Tables(FileRow)
    /\ sync \in [Syncs -> SyncState] /\ job \in [Jobs -> JobState] /\ lock \in Jobs \cup {None}
    /\ listed \in [Syncs -> SUBSET Products]

-----------------------------------------------------------------------------
(* Rows, as the statements of the two repositories leave them.  A definition  *)
(* named X_something is X with a mistake in it; nothing uses it.              *)

Has(p, status) == rows[p] # None /\ rows[p].status = status

Inserted(v, run) ==
    [ version |-> v, category |-> v.category,
      origin |-> IF v.category = None THEN None ELSE "source",
      active |-> TRUE, status |-> "pending", seen |-> run, aged |-> FALSE ]

Updated_ForgetsInferred(row, v, run) ==
    [ version |-> v, category |-> v.category,
      origin |-> IF v.category = None THEN None ELSE "source",
      active |-> TRUE,
      status |-> IF DocInput(row.version) = DocInput(v) THEN row.status ELSE "pending",
      seen |-> run, aged |-> FALSE ]

\* A category the model chose survives a change that leaves the document input
\* alone; so do the documents, and the row stays what it was.
Updated(row, v, run) ==
    LET same  == DocInput(row.version) = DocInput(v)
        keeps == v.category = None /\ row.origin = "inferred" /\ same
    IN  [ version |-> v,
          category |-> IF keeps THEN row.category ELSE v.category,
          origin |-> IF keeps THEN "inferred" ELSE IF v.category = None THEN None ELSE "source",
          active |-> TRUE,
          status |-> IF same THEN row.status ELSE "pending",
          seen |-> run, aged |-> FALSE ]

Seen_Unmarked(row, run) == row

\* _TOUCH_SEEN_SQL: a row the upsert skipped, its source unchanged.
Seen(row, run) == [row EXCEPT !.seen = run]

Upserted(row, v, run) ==
    IF row = None THEN Inserted(v, run)
    ELSE IF row.version = v THEN Seen(row, run)
    ELSE Updated(row, v, run)

WithStatus(row, status) == [row EXCEPT !.status = status, !.aged = FALSE]

\* The statements that move every row of a kind.
MoveAll(moved, status) ==
    rows' = [p \in Products |-> IF p \in moved THEN WithStatus(rows[p], status) ELSE rows[p]]

-----------------------------------------------------------------------------
(* The backend. *)

SourceChanges(p) ==
    /\ changes < MaxChanges
    /\ changes' = changes + 1
    /\ \E v \in (Version \cup {None}) \ {source[p]} :
          /\ source' = [source EXCEPT ![p] = v]
          /\ listed' = [s \in Syncs |-> IF v = None THEN listed[s] \ {p} ELSE listed[s]]
    /\ UNCHANGED <<rows, documents, runs, sync, job, lock, importing, crashes>>

-----------------------------------------------------------------------------
(* CatalogSyncService.sync. *)

StartRun(s, mode) ==
    /\ sync[s].pc = "off"
    /\ Len(runs) < MaxRuns
    /\ runs' = Append(runs, "running")
    /\ sync' = [sync EXCEPT ![s] = [SyncOff EXCEPT !.pc = "page", !.mode = mode,
                                                   !.run = Len(runs) + 1]]
    /\ listed' = [listed EXCEPT ![s] = {p \in Products : source[p] # None}]
    /\ UNCHANGED <<source, rows, documents, job, lock, importing, changes, crashes>>

\* iter_products: the next products in key order, at most PageSize of them.
Page(cursor) ==
    LET rest == {p \in Products : p > cursor /\ source[p] # None}
    IN  {p \in rest : Cardinality({q \in rest : q < p}) < PageSize}

\* An incremental run has not seen everything: it takes nothing down.
AfterPages(s) == IF sync[s].mode = "full" THEN "deactivate" ELSE "finish"

ReadPage(s) ==
    /\ sync[s].pc = "page"
    /\ LET page == Page(sync[s].cursor)
       IN  sync' = [sync EXCEPT
                        ![s].pc = IF page = {} THEN AfterPages(s) ELSE "store",
                        ![s].batch = [p \in page |-> source[p]]]
    /\ UNCHANGED <<source, rows, documents, runs, job, lock, importing, listed, changes, crashes>>

\* upsert_products; a short page was the last one.
StoreBatch(s) ==
    /\ sync[s].pc = "store"
    /\ LET batch == sync[s].batch
       IN  \E last \in DOMAIN batch :
              /\ \A q \in DOMAIN batch : q <= last
              /\ rows' = [p \in Products |->
                            IF p \in DOMAIN batch THEN Upserted(rows[p], batch[p], sync[s].run)
                            ELSE rows[p]]
              /\ sync' = [sync EXCEPT
                    ![s].pc = IF Cardinality(DOMAIN batch) < PageSize THEN AfterPages(s) ELSE "page",
                    ![s].cursor = last, ![s].batch = NoBatch]
    /\ UNCHANGED <<source, documents, runs, job, lock, importing, listed, changes, crashes>>

DeactivateMissing(s) ==
    /\ sync[s].pc = "deactivate"
    /\ rows' = [p \in Products |->
                  IF rows[p] # None /\ rows[p].active /\ rows[p].seen # sync[s].run
                  THEN [rows[p] EXCEPT !.active = FALSE, !.aged = FALSE] ELSE rows[p]]
    /\ sync' = [sync EXCEPT ![s].pc = "finish"]
    /\ UNCHANGED <<source, documents, runs, job, lock, importing, listed, changes, crashes>>

StopSync(s, status) ==
    /\ runs' = [runs EXCEPT ![sync[s].run] = status]
    /\ sync' = [sync EXCEPT ![s] = SyncOff]
    /\ listed' = [listed EXCEPT ![s] = {}]

FinishRun(s) ==
    /\ sync[s].pc = "finish"
    /\ StopSync(s, "succeeded")
    /\ UNCHANGED <<source, rows, documents, job, lock, importing, changes, crashes>>

\* A database raised: the run is marked failed and takes nothing down.
FailRun(s) ==
    /\ sync[s].pc \in {"page", "store", "deactivate"}
    /\ crashes < MaxCrashes
    /\ crashes' = crashes + 1
    /\ StopSync(s, "failed")
    /\ UNCHANGED <<source, rows, documents, job, lock, importing, changes>>

\* The job is killed: its run stays "running" in the table.
KillSync(s) ==
    /\ sync[s].pc # "off"
    /\ crashes < MaxCrashes
    /\ crashes' = crashes + 1
    /\ StopSync(s, "running")
    /\ UNCHANGED <<source, rows, documents, job, lock, importing, changes>>

-----------------------------------------------------------------------------
(* CatalogEnrichmentService.run_until_drained. *)

\* The job takes the advisory lock, which one connection of its pool holds.
StartJob(w, retry) ==
    /\ job[w].pc = "off"
    /\ lock = None
    /\ lock' = w
    /\ job' = [job EXCEPT ![w].pc = IF retry THEN "requeue" ELSE "release"]
    /\ UNCHANGED <<source, rows, documents, runs, sync, importing, listed, changes, crashes>>

\* The connection that holds the lock is cut, and the server gives the lock up.
\* The job learns of it when it ends: it works on over its other connections,
\* and another job may start beside it.
LoseLock(w) ==
    /\ lock = w
    /\ crashes < MaxCrashes
    /\ crashes' = crashes + 1
    /\ lock' = None
    /\ UNCHANGED <<source, rows, documents, runs, sync, job, importing, listed, changes>>

\* The job is over, and with it the session that holds the lock.
StopJob(w) ==
    /\ job' = [job EXCEPT ![w] = JobOff]
    /\ lock' = IF lock = w THEN None ELSE lock

RequeueFailed(w) ==
    /\ job[w].pc = "requeue"
    /\ MoveAll({p \in Products : Has(p, "failed") /\ rows[p].active}, "pending")
    /\ job' = [job EXCEPT ![w].pc = "release"]
    /\ UNCHANGED <<source, documents, runs, sync, lock, importing, listed, changes, crashes>>

ReleaseStale_Skipped(w) ==
    /\ job[w].pc = "release"
    /\ job' = [job EXCEPT ![w].pc = "claim"]
    /\ UNCHANGED <<source, rows, documents, runs, sync, lock, importing, listed, changes, crashes>>

\* What a job that died had in hand is put back, once it is old enough.
ReleaseStale(w) ==
    /\ job[w].pc = "release"
    /\ MoveAll({p \in Products : Has(p, "processing") /\ rows[p].aged}, "pending")
    /\ job' = [job EXCEPT ![w].pc = "claim"]
    /\ UNCHANGED <<source, documents, runs, sync, lock, importing, listed, changes, crashes>>

\* claim_pending; with nothing to claim the job ends.  Rows that another
\* transaction is writing are passed over, so it may be any of the pending ones.
ClaimPending(w) ==
    /\ job[w].pc = "claim"
    /\ \E picked \in SUBSET {p \in Products : Has(p, "pending") /\ rows[p].active} :
          /\ Cardinality(picked) <= BatchSize
          /\ MoveAll(picked, "processing")
          /\ IF picked = {} THEN StopJob(w)
             ELSE /\ job' = [job EXCEPT
                        ![w].pc = "work",
                        ![w].hand = [p \in Products |->
                                       IF p \in picked THEN rows[p].version ELSE None]]
                  /\ lock' = lock
    /\ UNCHANGED <<source, documents, runs, sync, importing, listed, changes, crashes>>

\* save_documents: the documents and the row, in one transaction.  The model
\* chose the category unless the labels did.
SaveDocuments(w, p) ==
    /\ job[w].hand[p] # None
    /\ LET v == job[w].hand[p]
       IN  /\ documents' = [documents EXCEPT ![p] = DocInput(v)]
           /\ \E c \in IF v.category = None THEN Categories ELSE {v.category} :
                 rows' = [rows EXCEPT ![p] =
                            [@ EXCEPT !.status = "ready", !.aged = FALSE, !.category = c,
                                      !.origin = IF v.category = None THEN "inferred"
                                                 ELSE "source"]]
    /\ job' = [job EXCEPT ![w].hand[p] = None]
    /\ UNCHANGED <<source, runs, sync, lock, importing, listed, changes, crashes>>

\* Generating, embedding or saving failed: the product alone is marked.
MarkFailed(w, p) ==
    /\ job[w].hand[p] # None
    /\ MoveAll({p}, "failed")
    /\ job' = [job EXCEPT ![w].hand[p] = None]
    /\ UNCHANGED <<source, documents, runs, sync, lock, importing, listed, changes, crashes>>

EndBatch_OffByOne(w) ==
    /\ job[w].pc = "work"
    /\ \A p \in Products : job[w].hand[p] = None
    /\ IF job[w].batches = MaxBatches THEN StopJob(w)
       ELSE job' = [job EXCEPT ![w].pc = "release", ![w].batches = @ + 1] /\ lock' = lock
    /\ UNCHANGED <<source, rows, documents, runs, sync, importing, listed, changes, crashes>>

\* The batch is done: the next one, up to --max-batches of them.
EndBatch(w) ==
    /\ job[w].pc = "work"
    /\ \A p \in Products : job[w].hand[p] = None
    /\ IF job[w].batches + 1 = MaxBatches THEN StopJob(w)
       ELSE job' = [job EXCEPT ![w].pc = "release", ![w].batches = @ + 1] /\ lock' = lock
    /\ UNCHANGED <<source, rows, documents, runs, sync, importing, listed, changes, crashes>>

\* The job is killed, or fails to mark a failure: its rows stay in processing.
KillJob(w) ==
    /\ job[w].pc # "off"
    /\ crashes < MaxCrashes
    /\ crashes' = crashes + 1
    /\ StopJob(w)
    /\ UNCHANGED <<source, rows, documents, runs, sync, importing, listed, changes>>

-----------------------------------------------------------------------------
(* run_import: the rows of a file in one statement, then its documents, product *)
(* by product.  It takes no lock.                                             *)

NoFile == [p \in {} |-> None]

\* Whatever state the row was in; a new row no sync run has seen.
ImportedRow(p, r) ==
    [ version |-> r.version, category |-> r.category,
      origin |-> IF r.version.category = None THEN "inferred" ELSE "source",
      active |-> r.active, status |-> "pending",
      seen |-> IF rows[p] = None THEN 0 ELSE rows[p].seen, aged |-> FALSE ]

StartImport(f) ==
    /\ importing = NoFile
    /\ changes < MaxChanges
    /\ changes' = changes + 1
    /\ importing' = f
    /\ rows' = [p \in Products |-> IF p \in DOMAIN f THEN ImportedRow(p, f[p]) ELSE rows[p]]
    /\ UNCHANGED <<source, documents, runs, sync, job, lock, listed, crashes>>

SaveImported(p) ==
    /\ p \in DOMAIN importing
    /\ LET r == importing[p]
       IN  /\ documents' = [documents EXCEPT ![p] = DocInput(r.version)]
           /\ rows' = [rows EXCEPT ![p] =
                          [@ EXCEPT !.status = "ready", !.aged = FALSE, !.category = r.category,
                                    !.origin = ImportedRow(p, r).origin]]
    /\ importing' = [q \in DOMAIN importing \ {p} |-> importing[q]]
    /\ UNCHANGED <<source, runs, sync, job, lock, listed, changes, crashes>>

\* The embedder or the database fails: what was not saved stays pending.
AbandonImport ==
    /\ importing # NoFile
    /\ importing' = NoFile
    /\ UNCHANGED <<source, rows, documents, runs, sync, job, lock, listed, changes, crashes>>

-----------------------------------------------------------------------------

\* stale_processing_seconds go by.
Age ==
    /\ \E p \in Products : Has(p, "processing") /\ ~rows[p].aged
    /\ rows' = [p \in Products |->
                  IF Has(p, "processing") THEN [rows[p] EXCEPT !.aged = TRUE] ELSE rows[p]]
    /\ UNCHANGED <<source, documents, runs, sync, job, lock, importing, listed, changes, crashes>>

-----------------------------------------------------------------------------

Init ==
    /\ source \in [Products -> Version \cup {None}]
    /\ rows = [p \in Products |-> None]
    /\ documents = [p \in Products |-> None]
    /\ runs = <<>>
    /\ sync = [s \in Syncs |-> SyncOff]
    /\ job = [w \in Jobs |-> JobOff]
    /\ lock = None
    /\ importing = NoFile
    /\ listed = [s \in Syncs |-> {}]
    /\ changes = 0
    /\ crashes = 0

SyncStep(s) ==
    ReadPage(s) \/ StoreBatch(s) \/ DeactivateMissing(s) \/ FinishRun(s)

JobStep(w) ==
    \/ RequeueFailed(w) \/ ReleaseStale(w) \/ ClaimPending(w) \/ EndBatch(w)
    \/ \E p \in Products : SaveDocuments(w, p) \/ MarkFailed(w, p)

Next ==
    \/ \E p \in Products : SourceChanges(p)
    \/ \E s \in Syncs : (\E mode \in {"full", "incremental"} : StartRun(s, mode))
                        \/ SyncStep(s) \/ FailRun(s) \/ KillSync(s)
    \/ \E w \in Jobs : (\E retry \in BOOLEAN : StartJob(w, retry))
                        \/ LoseLock(w) \/ JobStep(w) \/ KillJob(w)
    \/ (\E f \in Files : StartImport(f)) \/ (\E p \in Products : SaveImported(p)) \/ AbandonImport
    \/ Age

\* The enrichment job is scheduled again and again, its calls end by an answer
\* or a timeout, and time passes.  Sync runs are owed to nobody.
Fairness ==
    /\ \A w \in Jobs : WF_vars(JobStep(w))
    /\ WF_vars(\E w \in Jobs : StartJob(w, FALSE))
    /\ WF_vars(Age)

Spec == Init /\ [][Next]_vars
FairSpec == Spec /\ Fairness

-----------------------------------------------------------------------------
(* Properties. *)

\* What recommendation reads, a ready row, has documents to search and the
\* category its tab is filled from, whatever changes, failures and retries it
\* went through.  A row can be without only where ReadyMatchesRow fails: when a
\* job saved what it had claimed before the labels changed.
ReadyIsSearchable ==
    \A p \in Products :
        Has(p, "ready") =>
            /\ documents[p] # None
            /\ documents[p] = DocInput(rows[p].version) => rows[p].category # None

\* A full run takes down no product that the backend listed all along.
OnlyGoneAreTakenDown ==
    [][\A s \in Syncs : DeactivateMissing(s) =>
          \A p \in listed[s] : (rows[p] # None /\ rows[p].active) => rows'[p].active]_vars

\* A row in processing does not stay there when its job died.
Unstuck == \A p \in Products : Has(p, "processing") ~> ~Has(p, "processing")

\* "Whichever side runs first, and whichever dies, the result is the same": the
\* documents of a ready row were written from what the row says now.
ReadyMatchesRow ==
    \A p \in Products : Has(p, "ready") => documents[p] = DocInput(rows[p].version)

\* A product that sold out and came back is offered again, with the documents
\* it had: an inactive row is one that the newest run has not seen.
ReturnedIsOffered ==
    \A p \in Products :
        (rows[p] # None /\ ~rows[p].active) => rows[p].seen # Len(runs)

===============================================================================
