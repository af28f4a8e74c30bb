-------------------------- MODULE CatalogPipelineProofs --------------------------
(***************************************************************************)
(* The catalog's jobs, for any numbers of products, sync jobs, enrichment     *)
(* jobs, runs and crashes, and any files.  What keeps a ready row searchable   *)
(* is said of the row alone, so that any job may be the next to write it: as   *)
(* long as its documents are those of what it says, it has a category, which   *)
(* is marked as inferred when the labels name none.                           *)
(***************************************************************************)
EXTENDS CatalogPipeline, SequenceTheorems, FiniteSetTheorems, WellFoundedInduction, TLAPS

Searchable(row, document) ==
    row # None /\ row.status = "ready" =>
        /\ document # None
        /\ document = DocInput(row.version) =>
              row.category # None /\ (row.version.category = None => row.origin = "inferred")

\* A job has products in hand only while it works on them.
HandsFree == \A w \in Jobs, p \in Products : job[w].hand[p] # None => job[w].pc = "work"

\* What a job or the import has in hand is a product with a row.
InHand ==
    \A p \in Products : /\ \A w \in Jobs : job[w].hand[p] # None => rows[p] # None
                        /\ p \in DOMAIN importing => rows[p] # None

AllSearchable == \A p \in Products : Searchable(rows[p], documents[p])

\* The inductive invariant.
IInv == TypeOK /\ HandsFree /\ InHand /\ AllSearchable

-----------------------------------------------------------------------------
(* Rows.                                                                      *)

LEMMA Nulls ==
    /\ \A v \in Version : v # None /\ DocInput(v) \in Document /\ DocInput(v) # None
    /\ \A c \in Categories : c # None
    /\ \A r \in Row : r # None
<1>1. \A v \in Version : DocInput(v) \in Document
  BY DEF Version, DocInput, Document
<1> QED
  BY <1>1, CatalogConstants

\* A row that a sync writes stays as searchable as it was.
LEMMA UpsertedFacts ==
    ASSUME NEW row \in Row \cup {None}, NEW v \in Version, NEW run \in 0 .. MaxRuns
    PROVE  /\ Upserted(row, v, run) \in Row
           /\ \A d : Searchable(row, d) => Searchable(Upserted(row, v, run), d)
<1>1. CASE row = None
  <2>1. Upserted(row, v, run) = Inserted(v, run)
    BY <1>1 DEF Upserted
  <2>2. Inserted(v, run) \in Row /\ Inserted(v, run).status = "pending"
    BY DEF Inserted, Row, Version, Statuses
  <2> QED
    BY <2>1, <2>2 DEF Searchable
<1>2. CASE row # None /\ row.version = v
  <2>1. Upserted(row, v, run) = [row EXCEPT !.seen = run]
    BY <1>2 DEF Upserted, Seen
  <2>2. row \in Row
    BY <1>2
  <2>3. Upserted(row, v, run) \in Row
    BY <2>1, <2>2 DEF Row
  <2>4. PICK new : new = Upserted(row, v, run)
    OBVIOUS
  <2>5. /\ new.status = row.status /\ new.version = row.version
        /\ new.category = row.category /\ new.origin = row.origin
    BY <2>1, <2>2, <2>4 DEF Row
  <2> QED
    BY <1>2, <2>3, <2>4, <2>5 DEF Searchable
<1>3. CASE row # None /\ row.version # v
  <2>1. row \in Row
    BY <1>3
  <2>2. PICK new : new = Upserted(row, v, run) /\ new = Updated(row, v, run)
    BY <1>3 DEF Upserted
  <2>3. PICK same \in BOOLEAN : same <=> DocInput(row.version) = DocInput(v)
    OBVIOUS
  <2>4. PICK keeps \in BOOLEAN : keeps <=> v.category = None /\ row.origin = "inferred" /\ same
    OBVIOUS
  <2>5. new = [ version |-> v,
                category |-> IF keeps THEN row.category ELSE v.category,
                origin |-> IF keeps THEN "inferred" ELSE IF v.category = None THEN None ELSE "source",
                active |-> TRUE,
                status |-> IF same THEN row.status ELSE "pending",
                seen |-> run, aged |-> FALSE ]
    BY <2>2, <2>3, <2>4 DEF Updated
  <2>6. new \in Row
    BY <2>1, <2>5 DEF Row, Version, Statuses
  <2>7. ASSUME NEW d, Searchable(row, d), new.status = "ready"
        PROVE  /\ d # None
               /\ d = DocInput(new.version) =>
                     new.category # None /\ (new.version.category = None => new.origin = "inferred")
    <3>1. same /\ row.status = "ready" /\ DocInput(row.version) = DocInput(v)
      BY <2>3, <2>5, <2>7
    <3>2. row.version.category = v.category
      BY <3>1 DEF DocInput
    <3> QED
      BY <1>3, <2>4, <2>5, <2>7, <3>1, <3>2 DEF Searchable
  <2> QED
    BY <2>2, <2>6, <2>7 DEF Searchable
<1> QED
  BY <1>1, <1>2, <1>3

\* A row whose status changes to anything but ready needs nothing.
LEMMA WithStatusFacts ==
    ASSUME NEW row \in Row, NEW status \in {"pending", "processing", "failed"}
    PROVE  /\ WithStatus(row, status) \in Row
           /\ \A d : Searchable(WithStatus(row, status), d)
<1>1. WithStatus(row, status) \in Row /\ WithStatus(row, status).status = status
  BY DEF WithStatus, Row, Statuses
<1> QED
  BY <1>1 DEF Searchable

\* Documents and a category written together.
LEMMA SavedFacts ==
    ASSUME NEW row \in Row, NEW v \in Version, NEW c \in Categories, NEW o \in {"source", "inferred"},
           v.category = None => o = "inferred",
           NEW new, new = [row EXCEPT !.status = "ready", !.aged = FALSE, !.category = c, !.origin = o]
    PROVE  new \in Row /\ Searchable(new, DocInput(v))
<1>1. new \in Row
  BY DEF Row, Statuses
<1>2. new.category = c /\ new.origin = o /\ new.version = row.version
  BY DEF Row
<1>3. DocInput(v) = DocInput(row.version) => v.category = row.version.category
  BY DEF DocInput
<1> QED
  BY <1>1, <1>2, <1>3, Nulls DEF Searchable

\* Only the rows change, each to one that exists and is as searchable.
LEMMA RowsChange ==
    ASSUME IInv, UNCHANGED <<documents, job, importing>>, TypeOK',
           \A p \in Products : rows'[p] = rows[p] \/ (rows'[p] # None /\ Searchable(rows'[p], documents[p]))
    PROVE  IInv'
<1>1. HandsFree'
  BY DEF IInv, HandsFree
<1>2. InHand'
  BY DEF IInv, InHand
<1>3. AllSearchable'
  BY DEF IInv, AllSearchable
<1> QED
  BY <1>1, <1>2, <1>3 DEF IInv

\* The statements that move rows to another status.
LEMMA MoveAllFacts ==
    ASSUME IInv, NEW moved \in SUBSET Products, NEW status \in {"pending", "processing", "failed"},
           \A p \in moved : rows[p] # None, MoveAll(moved, status)
    PROVE  /\ rows' \in [Products -> Row \cup {None}]
           /\ \A p \in Products : rows'[p] = rows[p] \/ (rows'[p] # None /\ \A d : Searchable(rows'[p], d))
<1>1. \A p \in Products : rows'[p] = IF p \in moved THEN WithStatus(rows[p], status) ELSE rows[p]
  BY DEF MoveAll
<1>2. ASSUME NEW p \in moved
      PROVE  rows'[p] \in Row /\ rows'[p] # None /\ \A d : Searchable(rows'[p], d)
  <2>1. rows[p] \in Row
    BY DEF IInv, TypeOK
  <2> QED
    BY <1>1, <2>1, WithStatusFacts, Nulls
<1>3. rows' \in [Products -> Row \cup {None}]
  BY <1>1, <1>2 DEF MoveAll, IInv, TypeOK
<1> QED
  BY <1>1, <1>2, <1>3


-----------------------------------------------------------------------------
(* The backend and the sync jobs.                                             *)

LEMMA EmptyTable == NoBatch \in Tables(Version) /\ NoFile \in Tables(FileRow) /\ DOMAIN NoFile = {}
BY DEF NoBatch, NoFile, Tables

LEMMA Bounds ==
    /\ NProducts \in Nat /\ MaxRuns \in Nat /\ MaxBatches \in Nat \ {0} /\ Products = 1 .. NProducts
    /\ \A f \in Files : f \in Tables(FileRow)
BY CatalogConstants DEF Products

LEMMA SyncPc ==
    ASSUME NEW f \in [Syncs -> SyncState], NEW s \in Syncs,
           NEW to \in {"page", "store", "deactivate", "finish"}
    PROVE  [f EXCEPT ![s].pc = to] \in [Syncs -> SyncState]
BY DEF SyncState

LEMMA SyncBatch ==
    ASSUME NEW f \in [Syncs -> SyncState], NEW s \in Syncs, NEW batch \in Tables(Version)
    PROVE  [f EXCEPT ![s].batch = batch] \in [Syncs -> SyncState]
BY DEF SyncState

LEMMA SyncCursor ==
    ASSUME NEW f \in [Syncs -> SyncState], NEW s \in Syncs, NEW last \in 0 .. NProducts
    PROVE  [f EXCEPT ![s].cursor = last] \in [Syncs -> SyncState]
BY DEF SyncState

LEMMA StatusOfRun ==
    ASSUME NEW S, NEW s \in Seq(S), NEW i, NEW x \in S
    PROVE  [s EXCEPT ![i] = x] \in Seq(S) /\ Len([s EXCEPT ![i] = x]) = Len(s)
<1>1. PICK n \in Nat : s \in [1 .. n -> S]
  BY SeqDef
<1>2. [s EXCEPT ![i] = x] \in [1 .. n -> S]
  BY <1>1
<1>3. [s EXCEPT ![i] = x] \in Seq(S)
  BY <1>2, SeqDef
<1>4. DOMAIN s = 1 .. Len(s) /\ DOMAIN [s EXCEPT ![i] = x] = 1 .. Len([s EXCEPT ![i] = x])
      /\ Len(s) \in Nat /\ Len([s EXCEPT ![i] = x]) \in Nat
  BY <1>3, LenProperties
<1> QED
  BY <1>3, <1>4

LEMMA SourceChangesIInv ==
    ASSUME IInv, NEW p \in Products, SourceChanges(p)
    PROVE  IInv'
<1>1. UNCHANGED <<rows, documents, runs, sync, job, lock, importing>>
  BY DEF SourceChanges
<1>2. source' \in [Products -> Version \cup {None}] /\ listed' \in [Syncs -> SUBSET Products]
  BY DEF SourceChanges, IInv, TypeOK
<1>3. TypeOK'
  BY <1>1, <1>2 DEF IInv, TypeOK
<1> QED
  BY <1>1, <1>3, RowsChange

LEMMA StartRunIInv ==
    ASSUME IInv, NEW s \in Syncs, NEW mode \in {"full", "incremental"}, StartRun(s, mode)
    PROVE  IInv'
<1>1. /\ Len(runs) < MaxRuns /\ runs' = Append(runs, "running")
      /\ listed' = [listed EXCEPT ![s] = {p \in Products : source[p] # None}]
      /\ UNCHANGED <<source, rows, documents, job, lock, importing>>
  BY DEF StartRun
<1>2. runs' \in Seq({"running", "succeeded", "failed"}) /\ Len(runs') = Len(runs) + 1 /\ Len(runs) \in Nat
  BY <1>1, AppendProperties, LenProperties DEF IInv, TypeOK
<1>3. PICK new : new = [SyncOff EXCEPT !.pc = "page", !.mode = mode, !.run = Len(runs) + 1]
  OBVIOUS
<1>4. new \in SyncState
  <2>1. Len(runs) + 1 \in 0 .. MaxRuns /\ 0 \in 0 .. NProducts
    BY <1>1, <1>2, Bounds
  <2>2. new = [pc |-> "page", mode |-> mode, run |-> Len(runs) + 1, cursor |-> 0, batch |-> NoBatch]
    BY <1>3 DEF SyncOff
  <2> QED
    BY <2>1, <2>2, EmptyTable DEF SyncState
<1>5. sync' = [sync EXCEPT ![s] = new]
  BY <1>3 DEF StartRun
<1>6. Len(runs') <= MaxRuns
  BY <1>1, <1>2, Bounds
<1>7. sync' \in [Syncs -> SyncState] /\ listed' \in [Syncs -> SUBSET Products]
  BY <1>1, <1>4, <1>5 DEF IInv, TypeOK
<1>8. TypeOK'
  BY <1>1, <1>2, <1>6, <1>7 DEF IInv, TypeOK
<1> QED
  BY <1>1, <1>8, RowsChange

LEMMA ReadPageIInv ==
    ASSUME IInv, NEW s \in Syncs, ReadPage(s)
    PROVE  IInv'
<1>1. PICK page : page = Page(sync[s].cursor)
  OBVIOUS
<1>2. PICK to, batch : to = (IF page = {} THEN AfterPages(s) ELSE "store") /\ batch = [p \in page |-> source[p]]
  OBVIOUS
<1>3. /\ sync' = [sync EXCEPT ![s].pc = to, ![s].batch = batch]
      /\ UNCHANGED <<source, rows, documents, runs, job, lock, importing, listed>>
  BY <1>1, <1>2 DEF ReadPage
<1>4. batch \in Tables(Version)
  <2>1. page \subseteq Products /\ \A p \in page : source[p] \in Version
    BY <1>1 DEF Page, IInv, TypeOK
  <2>2. batch \in [page -> Version]
    BY <1>2, <2>1
  <2> QED
    BY <2>1, <2>2 DEF Tables
<1>5. to \in {"deactivate", "finish", "store"}
  BY <1>2 DEF AfterPages
<1>6. sync' \in [Syncs -> SyncState]
  <2>1. PICK f : f = [sync EXCEPT ![s].pc = to]
    OBVIOUS
  <2>2. f \in [Syncs -> SyncState]
    BY <1>5, <2>1, SyncPc DEF IInv, TypeOK
  <2>3. sync' = [f EXCEPT ![s].batch = batch]
    BY <1>3, <2>1
  <2> QED
    BY <1>4, <2>2, <2>3, SyncBatch
<1>7. TypeOK'
  BY <1>3, <1>6 DEF IInv, TypeOK
<1> QED
  BY <1>3, <1>7, RowsChange

LEMMA StoreBatchIInv ==
    ASSUME IInv, NEW s \in Syncs, StoreBatch(s)
    PROVE  IInv'
<1>1. PICK batch, run : batch = sync[s].batch /\ run = sync[s].run
  OBVIOUS
<1>2. batch \in Tables(Version) /\ run \in 0 .. MaxRuns
  BY <1>1 DEF IInv, TypeOK, SyncState
<1>3. DOMAIN batch \subseteq Products /\ \A p \in DOMAIN batch : batch[p] \in Version
  BY <1>2 DEF Tables
<1>4. /\ rows' = [p \in Products |-> IF p \in DOMAIN batch THEN Upserted(rows[p], batch[p], run) ELSE rows[p]]
      /\ UNCHANGED <<source, documents, runs, job, lock, importing, listed>>
  BY <1>1 DEF StoreBatch
<1>5. ASSUME NEW p \in DOMAIN batch
      PROVE  rows'[p] \in Row /\ rows'[p] # None /\ Searchable(rows'[p], documents[p])
  <2>1. p \in Products /\ batch[p] \in Version /\ rows[p] \in Row \cup {None}
    BY <1>3 DEF IInv, TypeOK
  <2>2. rows'[p] = Upserted(rows[p], batch[p], run) /\ Searchable(rows[p], documents[p])
    BY <1>4, <1>5, <2>1 DEF IInv, AllSearchable
  <2> QED
    BY <1>2, <2>1, <2>2, UpsertedFacts, Nulls
<1>6. rows' \in [Products -> Row \cup {None}]
  BY <1>4, <1>5 DEF IInv, TypeOK
<1>7. PICK last \in DOMAIN batch, to \in {"deactivate", "finish", "page"} :
        sync' = [sync EXCEPT ![s].pc = to, ![s].cursor = last, ![s].batch = NoBatch]
  <2>1. PICK to : to = IF Cardinality(DOMAIN batch) < PageSize THEN AfterPages(s) ELSE "page"
    OBVIOUS
  <2>2. to \in {"deactivate", "finish", "page"}
    BY <2>1 DEF AfterPages
  <2> QED
    BY <1>1, <2>1, <2>2 DEF StoreBatch
<1>8. to \in {"deactivate", "finish", "page"} /\ last \in 0 .. NProducts
  BY <1>3, <1>7, Bounds
<1>9. sync' \in [Syncs -> SyncState]
  <2>1. PICK f, g : f = [sync EXCEPT ![s].pc = to] /\ g = [f EXCEPT ![s].cursor = last]
    OBVIOUS
  <2>2. f \in [Syncs -> SyncState]
    BY <1>8, <2>1, SyncPc DEF IInv, TypeOK
  <2>3. g \in [Syncs -> SyncState]
    BY <1>8, <2>1, <2>2, SyncCursor
  <2>4. sync' = [g EXCEPT ![s].batch = NoBatch]
    BY <1>7, <2>1
  <2> QED
    BY <2>3, <2>4, EmptyTable, SyncBatch
<1>10. TypeOK'
  BY <1>4, <1>6, <1>9 DEF IInv, TypeOK
<1>11. \A p \in Products : rows'[p] = rows[p] \/ (rows'[p] # None /\ Searchable(rows'[p], documents[p]))
  BY <1>4, <1>5
<1> QED
  BY <1>4, <1>10, <1>11, RowsChange

\* A row that is taken down, or grows old, is otherwise what it was.
LEMMA MarkedFacts ==
    ASSUME IInv, NEW p \in Products, rows[p] # None, NEW a \in BOOLEAN, NEW g \in BOOLEAN,
           NEW new, new = [rows[p] EXCEPT !.active = a, !.aged = g]
    PROVE  new \in Row /\ new # None /\ Searchable(new, documents[p])
<1>1. rows[p] \in Row /\ Searchable(rows[p], documents[p])
  BY DEF IInv, TypeOK, AllSearchable
<1>2. new \in Row
  BY <1>1 DEF Row
<1>3. /\ new.status = rows[p].status /\ new.version = rows[p].version
      /\ new.category = rows[p].category /\ new.origin = rows[p].origin
  BY <1>1 DEF Row
<1> QED
  BY <1>1, <1>2, <1>3, Nulls DEF Searchable

LEMMA DeactivateIInv ==
    ASSUME IInv, NEW s \in Syncs, DeactivateMissing(s)
    PROVE  IInv'
<1>1. /\ sync' = [sync EXCEPT ![s].pc = "finish"]
      /\ UNCHANGED <<source, documents, runs, job, lock, importing, listed>>
      /\ \A p \in Products : \/ rows'[p] = rows[p]
                             \/ rows[p] # None /\ rows'[p] = [rows[p] EXCEPT !.active = FALSE, !.aged = FALSE]
      /\ DOMAIN rows' = Products /\ rows' = [p \in Products |-> rows'[p]]
  BY DEF DeactivateMissing
<1>2. \A p \in Products : \/ rows'[p] = rows[p]
                          \/ rows'[p] \in Row /\ rows'[p] # None /\ Searchable(rows'[p], documents[p])
  BY <1>1, MarkedFacts
<1>3. rows' \in [Products -> Row \cup {None}] /\ sync' \in [Syncs -> SyncState]
  <2>1. sync' \in [Syncs -> SyncState]
    BY <1>1, SyncPc DEF IInv, TypeOK
  <2>2. \A p \in Products : rows'[p] \in Row \cup {None}
    BY <1>2 DEF IInv, TypeOK
  <2> QED
    BY <1>1, <2>1, <2>2
<1>4. TypeOK'
  BY <1>1, <1>3 DEF IInv, TypeOK
<1> QED
  BY <1>1, <1>2, <1>4, RowsChange

LEMMA StopSyncIInv ==
    ASSUME IInv, NEW s \in Syncs, NEW status \in {"running", "succeeded", "failed"}, StopSync(s, status),
           UNCHANGED <<source, rows, documents, job, lock, importing>>
    PROVE  IInv'
<1>1. /\ runs' = [runs EXCEPT ![sync[s].run] = status] /\ sync' = [sync EXCEPT ![s] = SyncOff]
      /\ listed' = [listed EXCEPT ![s] = {}]
  BY DEF StopSync
<1>2. runs' \in Seq({"running", "succeeded", "failed"}) /\ Len(runs') = Len(runs)
  <2>1. PICK i, S : i = sync[s].run /\ S = {"running", "succeeded", "failed"}
    OBVIOUS
  <2>2. runs \in Seq(S) /\ status \in S /\ runs' = [runs EXCEPT ![i] = status]
    BY <1>1, <2>1 DEF IInv, TypeOK
  <2>3. runs' \in Seq(S) /\ Len(runs') = Len(runs)
    BY <2>2, StatusOfRun
  <2> QED
    BY <2>1, <2>3
<1>3. SyncOff \in SyncState
  BY EmptyTable, Bounds DEF SyncOff, SyncState
<1>4. sync' \in [Syncs -> SyncState] /\ listed' \in [Syncs -> SUBSET Products]
  BY <1>1, <1>3 DEF IInv, TypeOK
<1>5. TypeOK'
  BY <1>2, <1>4 DEF IInv, TypeOK
<1> QED
  BY <1>5, RowsChange

LEMMA AgeIInv ==
    ASSUME IInv, Age
    PROVE  IInv'
<1>1. /\ UNCHANGED <<source, documents, runs, sync, job, lock, importing, listed>>
      /\ rows' = [p \in Products |->
                    IF Has(p, "processing") THEN [rows[p] EXCEPT !.aged = TRUE] ELSE rows[p]]
  BY DEF Age
<1>2. ASSUME NEW p \in Products
      PROVE  \/ rows'[p] = rows[p]
             \/ rows'[p] \in Row /\ rows'[p] # None /\ Searchable(rows'[p], documents[p])
  <2>1. CASE Has(p, "processing")
    <3>1. rows[p] \in Row /\ rows[p] # None
      BY <2>1 DEF Has, IInv, TypeOK
    <3>2. PICK a \in BOOLEAN : a = rows[p].active
      BY <3>1 DEF Row
    <3>3. rows'[p] = [rows[p] EXCEPT !.active = a, !.aged = TRUE]
      BY <1>1, <2>1, <3>1, <3>2 DEF Row
    <3> QED
      BY <3>1, <3>3, MarkedFacts
  <2>2. CASE ~Has(p, "processing")
    BY <1>1, <2>2
  <2> QED
    BY <2>1, <2>2
<1>3. rows' \in [Products -> Row \cup {None}]
  BY <1>1, <1>2 DEF IInv, TypeOK
<1>4. TypeOK'
  BY <1>1, <1>3 DEF IInv, TypeOK
<1> QED
  BY <1>1, <1>2, <1>4, RowsChange


-----------------------------------------------------------------------------
(* The enrichment jobs.                                                       *)

LEMMA JobPc ==
    ASSUME NEW f \in [Jobs -> JobState], NEW w \in Jobs, NEW to \in {"requeue", "release", "claim", "work"},
           NEW g, g = [f EXCEPT ![w].pc = to]
    PROVE  /\ g \in [Jobs -> JobState]
           /\ \A v \in Jobs : /\ g[v].hand = f[v].hand
                              /\ g[v].pc = IF v = w THEN to ELSE f[v].pc
BY DEF JobState

LEMMA JobHand ==
    ASSUME NEW f \in [Jobs -> JobState], NEW w \in Jobs, NEW p \in Products,
           NEW g, g = [f EXCEPT ![w].hand[p] = None]
    PROVE  /\ g \in [Jobs -> JobState]
           /\ \A v \in Jobs : /\ g[v].pc = f[v].pc
                              /\ \A q \in Products : g[v].hand[q] = IF v = w /\ q = p THEN None ELSE f[v].hand[q]
BY DEF JobState

LEMMA JobOffType == JobOff \in JobState /\ JobOff.pc = "off" /\ \A p \in Products : JobOff.hand[p] = None
<1>1. 0 \in 0 .. MaxBatches - 1
  BY Bounds
<1> QED
  BY <1>1 DEF JobOff, JobState

\* A step of one job that leaves its hand, and no row ready that was not so.
LEMMA JobMoves ==
    ASSUME IInv, NEW w \in Jobs, job' \in [Jobs -> JobState],
           \A v \in Jobs : v # w => job'[v] = job[v],
           lock' \in Jobs \cup {None},
           \A p \in Products : job'[w].hand[p] # None => job'[w].pc = "work" /\ rows'[p] # None,
           UNCHANGED <<source, documents, runs, sync, importing, listed>>,
           rows' \in [Products -> Row \cup {None}],
           \A p \in Products : rows'[p] = rows[p] \/ (rows'[p] # None /\ Searchable(rows'[p], documents[p]))
    PROVE  IInv'
<1>1. TypeOK'
  BY DEF IInv, TypeOK
<1>2. HandsFree'
  BY DEF IInv, HandsFree
<1>3. InHand'
  BY DEF IInv, InHand
<1>4. AllSearchable'
  BY DEF IInv, AllSearchable
<1> QED
  BY <1>1, <1>2, <1>3, <1>4 DEF IInv

LEMMA StartJobIInv ==
    ASSUME IInv, NEW w \in Jobs, NEW retry \in BOOLEAN, StartJob(w, retry)
    PROVE  IInv'
<1>1. PICK to \in {"requeue", "release"} : job' = [job EXCEPT ![w].pc = to]
  BY DEF StartJob
<1>2. /\ job[w].pc = "off" /\ lock' = w
      /\ UNCHANGED <<source, rows, documents, runs, sync, importing, listed>>
  BY DEF StartJob
<1>3. job \in [Jobs -> JobState] /\ rows \in [Products -> Row \cup {None}]
  BY DEF IInv, TypeOK
<1>4. job' \in [Jobs -> JobState] /\ job'[w].hand = job[w].hand /\ \A v \in Jobs : v # w => job'[v] = job[v]
  <2>1. PICK g : g = job'
    OBVIOUS
  <2>2. g \in [Jobs -> JobState] /\ g[w].hand = job[w].hand
    BY <1>1, <1>3, <2>1, JobPc
  <2> QED
    BY <1>1, <1>3, <2>1, <2>2
<1>5. \A p \in Products : job[w].hand[p] = None
  BY <1>2 DEF IInv, HandsFree
<1> QED
  BY <1>2, <1>3, <1>4, <1>5, JobMoves

\* A job works on without its lock as it did with it.
LEMMA LoseLockIInv ==
    ASSUME IInv, NEW w \in Jobs, LoseLock(w)
    PROVE  IInv'
<1>1. lock' = None /\ UNCHANGED <<source, rows, documents, runs, sync, job, importing, listed>>
  BY DEF LoseLock
<1>2. TypeOK'
  BY <1>1 DEF IInv, TypeOK
<1> QED
  BY <1>1, <1>2, RowsChange

\* RequeueFailed and ReleaseStale: rows move, and the job goes on.
LEMMA MoveOnIInv ==
    ASSUME IInv, NEW w \in Jobs, job[w].pc \in {"requeue", "release"}, NEW to \in {"release", "claim"},
           job' = [job EXCEPT ![w].pc = to],
           NEW moved \in SUBSET Products, \A p \in moved : rows[p] # None, MoveAll(moved, "pending"),
           UNCHANGED <<source, documents, runs, sync, lock, importing, listed>>
    PROVE  IInv'
<1>1. job \in [Jobs -> JobState]
  BY DEF IInv, TypeOK
<1>2. job' \in [Jobs -> JobState] /\ job'[w].hand = job[w].hand /\ \A v \in Jobs : v # w => job'[v] = job[v]
  <2>1. PICK g : g = job'
    OBVIOUS
  <2>2. g \in [Jobs -> JobState] /\ g[w].hand = job[w].hand
    BY <1>1, <2>1, JobPc
  <2> QED
    BY <1>1, <2>1, <2>2
<1>3. \A p \in Products : job[w].hand[p] = None
  BY DEF IInv, HandsFree
<1>4. /\ rows' \in [Products -> Row \cup {None}]
      /\ \A p \in Products : rows'[p] = rows[p] \/ (rows'[p] # None /\ \A d : Searchable(rows'[p], d))
  BY MoveAllFacts
<1>5. lock' \in Jobs \cup {None}
  BY DEF IInv, TypeOK
<1> QED
  BY <1>2, <1>3, <1>4, <1>5, JobMoves

LEMMA RequeueIInv ==
    ASSUME IInv, NEW w \in Jobs, RequeueFailed(w) \/ ReleaseStale(w)
    PROVE  IInv'
<1>1. CASE RequeueFailed(w)
  <2>1. PICK moved \in SUBSET Products : /\ \A p \in moved : rows[p] # None
                                         /\ MoveAll(moved, "pending")
    <3>1. /\ {p \in Products : Has(p, "failed") /\ rows[p].active} \in SUBSET Products
          /\ MoveAll({p \in Products : Has(p, "failed") /\ rows[p].active}, "pending")
      BY <1>1 DEF RequeueFailed
    <3> QED
      BY <3>1 DEF Has
  <2>2. /\ job[w].pc \in {"requeue", "release"} /\ job' = [job EXCEPT ![w].pc = "release"]
        /\ UNCHANGED <<source, documents, runs, sync, lock, importing, listed>>
    BY <1>1 DEF RequeueFailed
  <2> QED
    BY <2>1, <2>2, MoveOnIInv
<1>2. CASE ReleaseStale(w)
  <2>1. PICK moved \in SUBSET Products : /\ \A p \in moved : rows[p] # None
                                         /\ MoveAll(moved, "pending")
    <3>1. /\ {p \in Products : Has(p, "processing") /\ rows[p].aged} \in SUBSET Products
          /\ MoveAll({p \in Products : Has(p, "processing") /\ rows[p].aged}, "pending")
      BY <1>2 DEF ReleaseStale
    <3> QED
      BY <3>1 DEF Has
  <2>2. /\ job[w].pc \in {"requeue", "release"} /\ job' = [job EXCEPT ![w].pc = "claim"]
        /\ UNCHANGED <<source, documents, runs, sync, lock, importing, listed>>
    BY <1>2 DEF ReleaseStale
  <2> QED
    BY <2>1, <2>2, MoveOnIInv
<1> QED
  BY <1>1, <1>2

LEMMA ClaimIInv ==
    ASSUME IInv, NEW w \in Jobs, ClaimPending(w)
    PROVE  IInv'
<1>1. PICK picked \in SUBSET {p \in Products : Has(p, "pending") /\ rows[p].active} :
        /\ MoveAll(picked, "processing")
        /\ IF picked = {} THEN StopJob(w)
           ELSE /\ job' = [job EXCEPT
                      ![w].pc = "work",
                      ![w].hand = [p \in Products |->
                                     IF p \in picked THEN rows[p].version ELSE None]]
                /\ lock' = lock
  BY DEF ClaimPending
<1>2. UNCHANGED <<source, documents, runs, sync, importing, listed>>
  BY DEF ClaimPending
<1>3. picked \in SUBSET Products /\ \A p \in picked : rows[p] # None /\ rows[p] \in Row
  BY DEF Has, IInv, TypeOK
<1>4. /\ rows' \in [Products -> Row \cup {None}]
      /\ \A p \in Products : rows'[p] = rows[p] \/ (rows'[p] # None /\ \A d : Searchable(rows'[p], d))
  BY <1>1, <1>3, MoveAllFacts
<1>5. PICK hand : hand = [p \in Products |-> IF p \in picked THEN rows[p].version ELSE None]
  OBVIOUS
<1>6. PICK new : new = IF picked = {} THEN JobOff ELSE [job[w] EXCEPT !.pc = "work", !.hand = hand]
  OBVIOUS
<1>7. hand \in [Products -> Version \cup {None}] /\ \A p \in Products : hand[p] # None => p \in picked
  BY <1>3, <1>5 DEF Row
<1>8. new \in JobState /\ \A p \in Products : new.hand[p] # None => new.pc = "work" /\ p \in picked
  <2>1. CASE picked = {}
    BY <1>6, <2>1, JobOffType
  <2>2. CASE picked # {}
    <3>1. job[w] \in JobState
      BY DEF IInv, TypeOK
    <3> QED
      BY <1>6, <1>7, <2>2, <3>1 DEF JobState
  <2> QED
    BY <2>1, <2>2
<1>9. job' = [job EXCEPT ![w] = new] /\ lock' \in Jobs \cup {None}
  <2>1. lock \in Jobs \cup {None} /\ job \in [Jobs -> JobState]
    BY DEF IInv, TypeOK
  <2>2. CASE picked = {}
    BY <1>1, <1>6, <2>1, <2>2 DEF StopJob
  <2>3. CASE picked # {}
    BY <1>1, <1>5, <1>6, <2>1, <2>3
  <2> QED
    BY <2>2, <2>3
<1>10. job' \in [Jobs -> JobState] /\ job'[w] = new /\ \A v \in Jobs : v # w => job'[v] = job[v]
  <2>1. job \in [Jobs -> JobState]
    BY DEF IInv, TypeOK
  <2> QED
    BY <1>8, <1>9, <2>1
<1>11. \A p \in Products : job'[w].hand[p] # None => job'[w].pc = "work" /\ rows'[p] # None
  BY <1>3, <1>4, <1>8, <1>10
<1> QED
  BY <1>2, <1>4, <1>9, <1>10, <1>11, JobMoves

\* A product leaves the hand of its job.
LEMMA PutDown ==
    ASSUME IInv, NEW w \in Jobs, NEW p \in Products, job[w].hand[p] # None,
           job' = [job EXCEPT ![w].hand[p] = None],
           \A q \in Products : rows[q] # None => rows'[q] # None,
           UNCHANGED importing
    PROVE  job' \in [Jobs -> JobState] /\ HandsFree' /\ InHand'
<1>1. job \in [Jobs -> JobState]
  BY DEF IInv, TypeOK
<1>2. PICK g : g = job'
  OBVIOUS
<1>3. /\ g \in [Jobs -> JobState]
      /\ \A v \in Jobs : /\ g[v].pc = job[v].pc
                         /\ \A q \in Products : g[v].hand[q] # None => job[v].hand[q] # None
  BY <1>1, <1>2, JobHand
<1>4. HandsFree'
  BY <1>2, <1>3 DEF IInv, HandsFree
<1>5. InHand'
  BY <1>2, <1>3 DEF IInv, InHand
<1> QED
  BY <1>2, <1>3, <1>4, <1>5

LEMMA SaveDocumentsIInv ==
    ASSUME IInv, NEW w \in Jobs, NEW p \in Products, SaveDocuments(w, p)
    PROVE  IInv'
<1>1. PICK v : v = job[w].hand[p]
  OBVIOUS
<1>2. v \in Version /\ v # None /\ rows[p] # None /\ rows[p] \in Row /\ job[w].hand[p] # None
  <2>1. job[w] \in JobState /\ rows[p] \in Row \cup {None} /\ v # None
    BY <1>1 DEF SaveDocuments, IInv, TypeOK
  <2>2. v \in Version
    BY <1>1, <2>1 DEF JobState
  <2>3. rows[p] # None
    BY <1>1, <2>1 DEF IInv, InHand
  <2> QED
    BY <1>1, <2>1, <2>2, <2>3
<1>3. /\ documents' = [documents EXCEPT ![p] = DocInput(v)] /\ job' = [job EXCEPT ![w].hand[p] = None]
      /\ UNCHANGED <<source, runs, sync, lock, importing, listed>>
  BY <1>1 DEF SaveDocuments
<1>4. PICK c \in Categories, o \in {"source", "inferred"} :
        /\ v.category = None => o = "inferred"
        /\ rows' = [rows EXCEPT ![p] = [rows[p] EXCEPT !.status = "ready", !.aged = FALSE,
                                                       !.category = c, !.origin = o]]
  <2>1. PICK c \in IF v.category = None THEN Categories ELSE {v.category} :
          rows' = [rows EXCEPT ![p] = [rows[p] EXCEPT !.status = "ready", !.aged = FALSE, !.category = c,
                                              !.origin = IF v.category = None THEN "inferred" ELSE "source"]]
    BY <1>1 DEF SaveDocuments
  <2>2. c \in Categories
    BY <1>2 DEF Version
  <2>3. PICK o : o = IF v.category = None THEN "inferred" ELSE "source"
    OBVIOUS
  <2> QED
    BY <2>1, <2>2, <2>3
<1>5. PICK new : new = [rows[p] EXCEPT !.status = "ready", !.aged = FALSE, !.category = c, !.origin = o]
  OBVIOUS
<1>6. new \in Row /\ new # None /\ Searchable(new, DocInput(v))
  BY <1>2, <1>4, <1>5, SavedFacts, Nulls
<1>7. /\ rows' \in [Products -> Row \cup {None}] /\ rows'[p] = new
      /\ documents' \in [Products -> Document \cup {None}] /\ documents'[p] = DocInput(v)
      /\ \A q \in Products \ {p} : rows'[q] = rows[q] /\ documents'[q] = documents[q]
  BY <1>2, <1>3, <1>4, <1>5, <1>6, Nulls DEF IInv, TypeOK
<1>8. job' \in [Jobs -> JobState] /\ HandsFree' /\ InHand'
  BY <1>2, <1>3, <1>6, <1>7, PutDown
<1>9. TypeOK'
  BY <1>3, <1>7, <1>8 DEF IInv, TypeOK
<1>10. AllSearchable'
  BY <1>6, <1>7 DEF IInv, AllSearchable
<1> QED
  BY <1>8, <1>9, <1>10 DEF IInv

LEMMA MarkFailedIInv ==
    ASSUME IInv, NEW w \in Jobs, NEW p \in Products, MarkFailed(w, p)
    PROVE  IInv'
<1>1. /\ job[w].hand[p] # None /\ MoveAll({p}, "failed") /\ job' = [job EXCEPT ![w].hand[p] = None]
      /\ UNCHANGED <<source, documents, runs, sync, lock, importing, listed>>
  BY DEF MarkFailed
<1>2. rows[p] # None
  BY <1>1 DEF IInv, InHand
<1>3. /\ rows' \in [Products -> Row \cup {None}]
      /\ \A q \in Products : rows'[q] = rows[q] \/ (rows'[q] # None /\ \A d : Searchable(rows'[q], d))
  BY <1>1, <1>2, MoveAllFacts
<1>4. job' \in [Jobs -> JobState] /\ HandsFree' /\ InHand'
  BY <1>1, <1>3, PutDown
<1>5. TypeOK'
  BY <1>1, <1>3, <1>4 DEF IInv, TypeOK
<1>6. AllSearchable'
  BY <1>1, <1>3 DEF IInv, AllSearchable
<1> QED
  BY <1>4, <1>5, <1>6 DEF IInv

\* A job that ends, or begins its next batch with empty hands.
LEMMA ResetIInv ==
    ASSUME IInv, NEW w \in Jobs, NEW new \in JobState, job' = [job EXCEPT ![w] = new],
           \A p \in Products : new.hand[p] = None, lock' \in {lock, None},
           UNCHANGED <<source, rows, documents, runs, sync, importing, listed>>
    PROVE  IInv'
<1>1. /\ job \in [Jobs -> JobState] /\ rows \in [Products -> Row \cup {None}]
      /\ lock' \in Jobs \cup {None}
  BY DEF IInv, TypeOK
<1>2. job' \in [Jobs -> JobState] /\ job'[w] = new /\ \A v \in Jobs : v # w => job'[v] = job[v]
  BY <1>1
<1> QED
  BY <1>1, <1>2, JobMoves

LEMMA EndBatchIInv ==
    ASSUME IInv, NEW w \in Jobs, EndBatch(w) \/ KillJob(w)
    PROVE  IInv'
<1>1. CASE StopJob(w)
  <2>1. UNCHANGED <<source, rows, documents, runs, sync, importing, listed>>
    BY DEF EndBatch, KillJob
  <2>2. job' = [job EXCEPT ![w] = JobOff] /\ lock' \in {lock, None}
    BY <1>1 DEF StopJob
  <2> QED
    BY <2>1, <2>2, JobOffType, ResetIInv
<1>2. CASE EndBatch(w) /\ ~StopJob(w)
  <2>1. /\ job[w].pc = "work" /\ \A p \in Products : job[w].hand[p] = None
        /\ job[w].batches + 1 # MaxBatches
        /\ job' = [job EXCEPT ![w].pc = "release", ![w].batches = job[w].batches + 1]
        /\ lock' = lock
        /\ UNCHANGED <<source, rows, documents, runs, sync, importing, listed>>
    BY <1>2 DEF EndBatch
  <2>2. job[w] \in JobState /\ job \in [Jobs -> JobState]
    BY DEF IInv, TypeOK
  <2>3. PICK n : n = job[w].batches + 1
    OBVIOUS
  <2>4. PICK new : new = [job[w] EXCEPT !.pc = "release", !.batches = n]
    OBVIOUS
  <2>5. n \in 0 .. MaxBatches - 1
    BY <2>1, <2>2, <2>3, Bounds DEF JobState
  <2>6. new \in JobState /\ \A p \in Products : new.hand[p] = None
    BY <2>1, <2>2, <2>4, <2>5 DEF JobState
  <2>7. job' = [job EXCEPT ![w] = new]
    BY <2>1, <2>2, <2>3, <2>4
  <2> QED
    BY <2>1, <2>6, <2>7, ResetIInv
<1> QED
  BY <1>1, <1>2 DEF KillJob

-----------------------------------------------------------------------------
(* The import.                                                                *)

LEMMA ImportedFacts ==
    ASSUME IInv, NEW p \in Products, NEW r \in FileRow
    PROVE  /\ ImportedRow(p, r) \in Row /\ ImportedRow(p, r).status = "pending"
           /\ ImportedRow(p, r).origin = IF r.version.category = None THEN "inferred" ELSE "source"
<1>1. PICK seen : seen = IF rows[p] = None THEN 0 ELSE rows[p].seen
  OBVIOUS
<1>2. seen \in 0 .. MaxRuns
  <2>1. rows[p] \in Row \cup {None} /\ 0 \in 0 .. MaxRuns
    BY Bounds DEF IInv, TypeOK
  <2> QED
    BY <1>1, <2>1 DEF Row
<1>3. PICK new : new = ImportedRow(p, r)
  OBVIOUS
<1>4. new = [ version |-> r.version, category |-> r.category,
              origin |-> IF r.version.category = None THEN "inferred" ELSE "source",
              active |-> r.active, status |-> "pending", seen |-> seen, aged |-> FALSE ]
  BY <1>1, <1>3 DEF ImportedRow
<1>5. r.version \in Version /\ r.category \in Categories /\ r.active \in BOOLEAN
  BY DEF FileRow
<1>6. new \in Row
  BY <1>2, <1>4, <1>5 DEF Row, Statuses
<1> QED
  BY <1>3, <1>4, <1>6

LEMMA StartImportIInv ==
    ASSUME IInv, NEW f \in Files, StartImport(f)
    PROVE  IInv'
<1>1. f \in Tables(FileRow) /\ DOMAIN f \subseteq Products /\ \A p \in DOMAIN f : f[p] \in FileRow
  <2>1. f \in Tables(FileRow)
    BY Bounds
  <2> QED
    BY <2>1 DEF Tables
<1>2. /\ importing' = f /\ UNCHANGED <<source, documents, runs, sync, job, lock, listed>>
      /\ rows' = [p \in Products |-> IF p \in DOMAIN f THEN ImportedRow(p, f[p]) ELSE rows[p]]
  BY DEF StartImport
<1>3. ASSUME NEW p \in DOMAIN f
      PROVE  rows'[p] \in Row /\ rows'[p] # None /\ rows'[p].status = "pending"
  <2>1. p \in Products /\ f[p] \in FileRow /\ rows'[p] = ImportedRow(p, f[p])
    BY <1>1, <1>2
  <2> QED
    BY <2>1, ImportedFacts, Nulls
<1>4. rows' \in [Products -> Row \cup {None}]
  BY <1>2, <1>3 DEF IInv, TypeOK
<1>5. TypeOK'
  BY <1>1, <1>2, <1>4 DEF IInv, TypeOK
<1>6. \A p \in Products : p \notin DOMAIN f => rows'[p] = rows[p]
  BY <1>2
<1>7. InHand'
  BY <1>2, <1>3, <1>6 DEF IInv, InHand
<1>8. HandsFree'
  BY <1>2 DEF IInv, HandsFree
<1>9. AllSearchable'
  BY <1>2, <1>3, <1>6 DEF IInv, AllSearchable, Searchable
<1> QED
  BY <1>5, <1>7, <1>8, <1>9 DEF IInv

LEMMA SaveImportedIInv ==
    ASSUME IInv, NEW p \in Products, SaveImported(p)
    PROVE  IInv'
<1>1. PICK r : r = importing[p]
  OBVIOUS
<1>2. DOMAIN importing \subseteq Products /\ \A q \in DOMAIN importing : importing[q] \in FileRow
  BY DEF IInv, TypeOK, Tables
<1>3. r \in FileRow /\ r.version \in Version /\ r.category \in Categories /\ rows[p] \in Row
  BY <1>1, <1>2 DEF SaveImported, FileRow, IInv, InHand, TypeOK
<1>4. /\ documents' = [documents EXCEPT ![p] = DocInput(r.version)]
      /\ importing' = [q \in DOMAIN importing \ {p} |-> importing[q]]
      /\ UNCHANGED <<source, runs, sync, job, lock, listed>>
  BY <1>1 DEF SaveImported
<1>5. PICK v, c, o : v = r.version /\ c = r.category /\ o = ImportedRow(p, r).origin
  OBVIOUS
<1>6. o \in {"source", "inferred"} /\ (v.category = None => o = "inferred")
  BY <1>3, <1>5, ImportedFacts
<1>7. PICK new : new = [rows[p] EXCEPT !.status = "ready", !.aged = FALSE, !.category = c, !.origin = o]
  OBVIOUS
<1>8. rows' = [rows EXCEPT ![p] = new]
  BY <1>1, <1>5, <1>7 DEF SaveImported
<1>9. new \in Row /\ new # None /\ Searchable(new, DocInput(v))
  BY <1>3, <1>5, <1>6, <1>7, SavedFacts, Nulls
<1>10. /\ rows' \in [Products -> Row \cup {None}] /\ rows'[p] = new
       /\ documents' \in [Products -> Document \cup {None}] /\ documents'[p] = DocInput(v)
       /\ \A q \in Products \ {p} : rows'[q] = rows[q] /\ documents'[q] = documents[q]
  BY <1>3, <1>4, <1>5, <1>8, <1>9, Nulls DEF IInv, TypeOK
<1>11. importing' \in Tables(FileRow) /\ DOMAIN importing' \subseteq DOMAIN importing
  <2>1. PICK left : left = DOMAIN importing \ {p}
    OBVIOUS
  <2>2. left \in SUBSET Products /\ importing' \in [left -> FileRow]
    BY <1>2, <1>4, <2>1
  <2> QED
    BY <2>1, <2>2 DEF Tables
<1>12. TypeOK'
  BY <1>4, <1>10, <1>11 DEF IInv, TypeOK
<1>13. HandsFree'
  BY <1>4 DEF IInv, HandsFree
<1>14. InHand'
  BY <1>4, <1>9, <1>10, <1>11 DEF IInv, InHand
<1>15. AllSearchable'
  BY <1>9, <1>10 DEF IInv, AllSearchable
<1> QED
  BY <1>12, <1>13, <1>14, <1>15 DEF IInv

LEMMA AbandonImportIInv ==
    ASSUME IInv, AbandonImport
    PROVE  IInv'
<1>1. importing' = NoFile /\ UNCHANGED <<source, rows, documents, runs, sync, job, lock, listed>>
  BY DEF AbandonImport
<1>2. TypeOK'
  BY <1>1, EmptyTable DEF IInv, TypeOK
<1>3. HandsFree' /\ AllSearchable'
  BY <1>1 DEF IInv, HandsFree, AllSearchable
<1>4. InHand'
  BY <1>1, EmptyTable DEF IInv, InHand
<1> QED
  BY <1>2, <1>3, <1>4 DEF IInv

-----------------------------------------------------------------------------
(* The invariant, and what it is for.                                         *)

LEMMA InitIInv ==
    ASSUME Init
    PROVE  IInv
<1>1. SyncOff \in SyncState
  BY EmptyTable, Bounds DEF SyncOff, SyncState
<1>2. /\ source \in [Products -> Version \cup {None}] /\ runs = << >>
      /\ rows = [p \in Products |-> None] /\ documents = [p \in Products |-> None]
      /\ sync = [s \in Syncs |-> SyncOff] /\ job = [w \in Jobs |-> JobOff] /\ lock = None
      /\ importing = NoFile /\ listed = [s \in Syncs |-> {}]
  BY DEF Init
<1>3. runs \in Seq({"running", "succeeded", "failed"}) /\ Len(runs) <= MaxRuns
  BY <1>2, Bounds
<1>4. TypeOK
  BY <1>1, <1>2, <1>3, EmptyTable, JobOffType DEF TypeOK
<1>5. HandsFree
  BY <1>2, JobOffType DEF HandsFree
<1>6. InHand
  BY <1>2, EmptyTable, JobOffType DEF InHand
<1>7. AllSearchable
  BY <1>2 DEF AllSearchable, Searchable
<1> QED
  BY <1>4, <1>5, <1>6, <1>7 DEF IInv

LEMMA NextIInv ==
    ASSUME IInv, [Next]_vars
    PROVE  IInv'
<1>1. CASE \E p \in Products : SourceChanges(p)
  BY <1>1, SourceChangesIInv
<1>2. CASE \E s \in Syncs : (\E mode \in {"full", "incremental"} : StartRun(s, mode))
                            \/ SyncStep(s) \/ FailRun(s) \/ KillSync(s)
  <2>1. PICK s \in Syncs : (\E mode \in {"full", "incremental"} : StartRun(s, mode))
                           \/ SyncStep(s) \/ FailRun(s) \/ KillSync(s)
    BY <1>2
  <2>2. CASE \E mode \in {"full", "incremental"} : StartRun(s, mode)
    BY <2>2, StartRunIInv
  <2>3. CASE ReadPage(s) \/ StoreBatch(s) \/ DeactivateMissing(s)
    BY <2>3, ReadPageIInv, StoreBatchIInv, DeactivateIInv
  <2>4. CASE FinishRun(s) \/ FailRun(s) \/ KillSync(s)
    <3>1. PICK status \in {"running", "succeeded", "failed"} :
            StopSync(s, status) /\ UNCHANGED <<source, rows, documents, job, lock, importing>>
      BY <2>4 DEF FinishRun, FailRun, KillSync
    <3> QED
      BY <3>1, StopSyncIInv
  <2> QED
    BY <2>1, <2>2, <2>3, <2>4 DEF SyncStep
<1>3. CASE \E w \in Jobs : (\E retry \in BOOLEAN : StartJob(w, retry))
                            \/ LoseLock(w) \/ JobStep(w) \/ KillJob(w)
  <2>1. PICK w \in Jobs : (\E retry \in BOOLEAN : StartJob(w, retry))
                          \/ LoseLock(w) \/ JobStep(w) \/ KillJob(w)
    BY <1>3
  <2>2. CASE \E retry \in BOOLEAN : StartJob(w, retry)
    BY <2>2, StartJobIInv
  <2>7. CASE LoseLock(w)
    BY <2>7, LoseLockIInv
  <2>3. CASE RequeueFailed(w) \/ ReleaseStale(w)
    BY <2>3, RequeueIInv
  <2>4. CASE ClaimPending(w)
    BY <2>4, ClaimIInv
  <2>5. CASE EndBatch(w) \/ KillJob(w)
    BY <2>5, EndBatchIInv
  <2>6. CASE \E p \in Products : SaveDocuments(w, p) \/ MarkFailed(w, p)
    BY <2>6, SaveDocumentsIInv, MarkFailedIInv
  <2> QED
    BY <2>1, <2>2, <2>3, <2>4, <2>5, <2>6, <2>7 DEF JobStep
<1>4. CASE (\E f \in Files : StartImport(f)) \/ (\E p \in Products : SaveImported(p)) \/ AbandonImport
  BY <1>4, StartImportIInv, SaveImportedIInv, AbandonImportIInv
<1>5. CASE Age
  BY <1>5, AgeIInv
<1>6. CASE UNCHANGED vars
  <2>1. TypeOK'
    BY <1>6 DEF IInv, TypeOK, vars
  <2>2. UNCHANGED <<rows, documents, job, importing>>
    BY <1>6 DEF vars
  <2> QED
    BY <2>1, <2>2, RowsChange
<1> QED
  BY <1>1, <1>2, <1>3, <1>4, <1>5, <1>6 DEF Next

\* The invariant holds of every behaviour of the jobs.
THEOREM Invariance == Spec => []IInv
<1>1. Init => IInv
  BY InitIInv
<1>2. IInv /\ [Next]_vars => IInv'
  BY NextIInv
<1> QED
  BY <1>1, <1>2, PTL DEF Spec

\* Rows, documents, runs and jobs are of their types.
THEOREM TypeCorrect == Spec => []TypeOK
<1>1. IInv => TypeOK
  BY DEF IInv
<1> QED
  BY <1>1, Invariance, PTL

\* A ready row has documents to search, and while they are those of the row, a
\* category to be shown under: save_documents, the upsert of a sync and the
\* import, in any order.
THEOREM ReadyIsSearchableHolds == Spec => []ReadyIsSearchable
<1>1. IInv => ReadyIsSearchable
  BY DEF IInv, AllSearchable, Searchable, ReadyIsSearchable, Has
<1> QED
  BY <1>1, Invariance, PTL

-----------------------------------------------------------------------------
(* What a full run takes down, while one run at a time goes on: two that       *)
(* overlap mark each other's rows, and the second to end finds marks that are  *)
(* not its own.                                                               *)

OneSync == \A s, t \in Syncs : s = t

\* The upsert of this run has seen the row.
Marked(s, p) == rows[p] # None /\ rows[p].seen = sync[s].run

\* A product listed all along is marked up to the cursor; beyond it, the page in
\* hand holds the product, or is full and ends before it.
StillListed(s) ==
    \A p \in listed[s] :
        /\ source[p] # None
        /\ p <= sync[s].cursor \/ sync[s].pc \in {"deactivate", "finish"} => Marked(s, p)
        /\ sync[s].pc = "store" /\ p > sync[s].cursor =>
              \/ p \in DOMAIN sync[s].batch
              \/ /\ Cardinality(DOMAIN sync[s].batch) >= PageSize
                 /\ \A q \in DOMAIN sync[s].batch : q < p

AllStillListed == \A s \in Syncs : StillListed(s)

\* No row is lost, and no mark of a run.
KeepsMarks == \A p \in Products : rows[p] # None => rows'[p] # None /\ rows'[p].seen = rows[p].seen

LEMMA Least ==
    ASSUME NEW T \in SUBSET Nat, T # {}
    PROVE  \E x \in T : \A y \in T : x <= y
<1>1. PICK x \in T : \A y \in T : ~ (<<y, x>> \in OpToRel(<, Nat))
  BY NatLessThanWellFounded, WFMin
<1>2. ASSUME NEW y \in T, ~(x <= y)
      PROVE  FALSE
  <2>1. y < x /\ x \in Nat /\ y \in Nat
    BY <1>2
  <2>2. <<y, x>> \in OpToRel(<, Nat)
    BY <2>1 DEF OpToRel
  <2> QED
    BY <1>1, <2>2
<1> QED
  BY <1>2

\* iter_products leaves out a product beyond the cursor only after a full page.
LEMMA PageFacts ==
    ASSUME NEW cursor \in Int, NEW p \in Products, source[p] # None, p > cursor
    PROVE  /\ Page(cursor) # {}
           /\ \/ p \in Page(cursor)
              \/ Cardinality(Page(cursor)) >= PageSize /\ \A q \in Page(cursor) : q < p
<1> DEFINE rest == {q \in Products : q > cursor /\ source[q] # None}
           below(x) == {q \in rest : q < x}
           page == {x \in rest : Cardinality(below(x)) < PageSize}
<1>1. page = Page(cursor) /\ p \in rest /\ rest \subseteq Nat /\ PageSize \in Nat \ {0}
  BY CatalogConstants DEF Page, Products
<1>2. IsFiniteSet(Products)
  BY Bounds, FS_Interval
<1>3. IsFiniteSet(page) /\ Cardinality(page) \in Nat
  BY <1>2, FS_Subset, FS_CardinalityType
<1>4. \A x : IsFiniteSet(below(x)) /\ Cardinality(below(x)) \in Nat
  BY <1>2, FS_Subset, FS_CardinalityType
<1> HIDE DEF below
<1>5. ASSUME p \notin page
      PROVE  Cardinality(page) >= PageSize /\ \A q \in page : q < p
  <2>1. Cardinality(below(p)) >= PageSize
    BY <1>1, <1>4, <1>5
  <2>2. PICK x \in {y \in rest : Cardinality(below(y)) >= PageSize} :
             \A y \in {z \in rest : Cardinality(below(z)) >= PageSize} : x <= y
    <3>1. p \in {y \in rest : Cardinality(below(y)) >= PageSize}
      BY <1>1, <2>1
    <3>2. {y \in rest : Cardinality(below(y)) >= PageSize} \in SUBSET Nat
      BY <1>1
    <3> QED
      BY <3>1, <3>2, Least
  <2>3. below(x) \subseteq page
    <3>1. SUFFICES ASSUME NEW q \in below(x)
                   PROVE  q \in page
      OBVIOUS
    <3>2. q \in rest /\ q < x /\ q \in Nat /\ x \in Nat
      BY <1>1 DEF below
    <3>3. ~(Cardinality(below(q)) >= PageSize)
      BY <2>2, <3>2
    <3> QED
      BY <1>1, <1>4, <3>2, <3>3
  <2>4. Cardinality(page) >= PageSize
    <3>1. Cardinality(below(x)) <= Cardinality(page)
      BY <1>3, <2>3, FS_Subset
    <3> QED
      BY <1>1, <1>3, <1>4, <2>2, <3>1
  <2>5. ASSUME NEW q \in page, ~(q < p)
        PROVE  FALSE
    <3>1. below(p) \subseteq below(q)
      BY <1>1, <2>5 DEF below
    <3>2. Cardinality(below(p)) <= Cardinality(below(q))
      BY <1>4, <3>1, FS_Subset
    <3> QED
      BY <1>1, <1>4, <2>1, <2>5, <3>2
  <2> QED
    BY <2>4, <2>5
<1>6. page # {}
  <2>1. CASE page = {}
    <3>1. Cardinality(page) = 0
      BY <2>1, FS_EmptySet
    <3> QED
      BY <1>1, <1>5, <2>1, <3>1
  <2> QED
    BY <2>1
<1> QED
  BY <1>1, <1>5, <1>6

\* A row that the upsert wrote is marked.
LEMMA UpsertedSeen ==
    ASSUME NEW row \in Row \cup {None}, NEW v \in Version, NEW run
    PROVE  Upserted(row, v, run).seen = run
BY DEF Upserted, Inserted, Seen, Updated, Row

\* Every other statement keeps the marks.
LEMMA MoveAllKeeps ==
    ASSUME IInv, NEW moved, NEW status \in Statuses, MoveAll(moved, status)
    PROVE  KeepsMarks
<1>1. SUFFICES ASSUME NEW p \in Products, rows[p] # None
               PROVE  rows'[p] # None /\ rows'[p].seen = rows[p].seen
  BY DEF KeepsMarks
<1>2. rows[p] \in Row /\ rows'[p] = IF p \in moved THEN WithStatus(rows[p], status) ELSE rows[p]
  BY <1>1 DEF IInv, TypeOK, MoveAll
<1>3. WithStatus(rows[p], status) \in Row /\ WithStatus(rows[p], status).seen = rows[p].seen
  BY <1>2 DEF WithStatus, Row
<1> QED
  BY <1>1, <1>2, <1>3, Nulls

LEMMA SavedKeeps ==
    ASSUME IInv, NEW p \in Products, NEW c \in Categories, NEW o \in {"source", "inferred"}, rows[p] # None,
           rows' = [rows EXCEPT ![p] = [rows[p] EXCEPT !.status = "ready", !.aged = FALSE,
                                                       !.category = c, !.origin = o]]
    PROVE  KeepsMarks
<1>1. rows \in [Products -> Row \cup {None}] /\ rows[p] \in Row
  BY DEF IInv, TypeOK
<1>2. \A q \in Products : q # p => rows'[q] = rows[q]
  BY <1>1
<1>3. rows'[p] \in Row /\ rows'[p].seen = rows[p].seen
  BY <1>1 DEF Row, Statuses
<1> QED
  BY <1>2, <1>3, Nulls DEF KeepsMarks

\* What leaves the sync jobs alone, and the marks.
LEMMA MarksStay ==
    ASSUME IInv, AllStillListed, KeepsMarks, UNCHANGED <<source, sync, listed>>
    PROVE  AllStillListed'
<1>1. \A s \in Syncs : listed[s] \subseteq Products
  BY DEF IInv, TypeOK
<1>2. ASSUME NEW s \in Syncs
      PROVE  StillListed(s)'
  BY <1>1 DEF AllStillListed, StillListed, Marked, KeepsMarks
<1> QED
  BY <1>2 DEF AllStillListed

LEMMA SourceChangesListed ==
    ASSUME IInv, AllStillListed, NEW p \in Products, SourceChanges(p)
    PROVE  AllStillListed'
<1>1. PICK v \in Version \cup {None} :
        /\ source' = [source EXCEPT ![p] = v]
        /\ listed' = [s \in Syncs |-> IF v = None THEN listed[s] \ {p} ELSE listed[s]]
        /\ UNCHANGED <<rows, sync>>
  BY DEF SourceChanges
<1>2. \A s \in Syncs : listed[s] \subseteq Products /\ source \in [Products -> Version \cup {None}]
  BY DEF IInv, TypeOK
<1>3. ASSUME NEW s \in Syncs
      PROVE  StillListed(s)'
  <2>1. \A q \in listed'[s] : q \in listed[s] /\ source'[q] # None
    BY <1>1, <1>2 DEF AllStillListed, StillListed
  <2> QED
    BY <1>1, <2>1 DEF AllStillListed, StillListed, Marked
<1> QED
  BY <1>3 DEF AllStillListed

LEMMA StartRunListed ==
    ASSUME IInv, AllStillListed, OneSync, NEW s \in Syncs, NEW mode \in {"full", "incremental"}, StartRun(s, mode)
    PROVE  AllStillListed'
<1>1. /\ sync'[s].pc = "page" /\ sync'[s].cursor = 0 /\ UNCHANGED source
      /\ listed'[s] = {p \in Products : source[p] # None}
  BY DEF StartRun, SyncOff, IInv, TypeOK
<1>2. \A p \in Products : p > 0 /\ p \in Nat
  BY Bounds
<1>3. StillListed(s)'
  BY <1>1, <1>2 DEF StillListed
<1> QED
  BY <1>3 DEF AllStillListed, OneSync

LEMMA ReadPageListed ==
    ASSUME IInv, AllStillListed, OneSync, NEW s \in Syncs, ReadPage(s)
    PROVE  AllStillListed'
<1>1. PICK page, to : /\ page = Page(sync[s].cursor)
                      /\ to = IF page = {} THEN AfterPages(s) ELSE "store"
  OBVIOUS
<1>2. /\ sync' = [sync EXCEPT ![s].pc = to, ![s].batch = [p \in page |-> source[p]]]
      /\ sync[s].pc = "page" /\ UNCHANGED <<source, rows, listed>>
  BY <1>1 DEF ReadPage
<1>3. /\ sync'[s].pc = to /\ DOMAIN sync'[s].batch = page
      /\ sync'[s].cursor = sync[s].cursor /\ sync'[s].run = sync[s].run
  BY <1>2 DEF IInv, TypeOK, SyncState
<1>4. listed[s] \subseteq Products /\ sync[s].cursor \in Int
  BY DEF IInv, TypeOK, SyncState
<1>5. ASSUME NEW p \in listed[s]
      PROVE  /\ source[p] # None
             /\ p <= sync[s].cursor => Marked(s, p)
             /\ to \in {"deactivate", "finish"} => Marked(s, p)
             /\ p > sync[s].cursor => \/ p \in page
                                      \/ Cardinality(page) >= PageSize /\ \A q \in page : q < p
  <2>1. source[p] # None /\ (p <= sync[s].cursor => Marked(s, p)) /\ p \in Int
    BY <1>4, Bounds DEF AllStillListed, StillListed
  <2>2. p > sync[s].cursor => /\ page # {}
                              /\ \/ p \in page
                                 \/ Cardinality(page) >= PageSize /\ \A q \in page : q < p
    BY <1>1, <1>4, <2>1, PageFacts
  <2>3. to \in {"deactivate", "finish"} => page = {}
    BY <1>1
  <2> QED
    BY <1>4, <2>1, <2>2, <2>3
<1>6. StillListed(s)'
  BY <1>2, <1>3, <1>5 DEF StillListed, Marked
<1> QED
  BY <1>6 DEF AllStillListed, OneSync

LEMMA StoreBatchListed ==
    ASSUME IInv, AllStillListed, OneSync, NEW s \in Syncs, StoreBatch(s)
    PROVE  AllStillListed'
<1>1. PICK batch, run, cursor : batch = sync[s].batch /\ run = sync[s].run /\ cursor = sync[s].cursor
  OBVIOUS
<1>2. batch \in Tables(Version) /\ cursor \in Int /\ sync \in [Syncs -> SyncState]
  BY <1>1 DEF IInv, TypeOK, SyncState
<1>3. DOMAIN batch \subseteq Products /\ \A p \in DOMAIN batch : batch[p] \in Version
  BY <1>2 DEF Tables
<1>4. PICK last, to :
        /\ last \in DOMAIN batch /\ \A q \in DOMAIN batch : q <= last
        /\ to = IF Cardinality(DOMAIN batch) < PageSize THEN AfterPages(s) ELSE "page"
        /\ sync' = [sync EXCEPT ![s].pc = to, ![s].cursor = last, ![s].batch = NoBatch]
        /\ rows' = [p \in Products |-> IF p \in DOMAIN batch THEN Upserted(rows[p], batch[p], run) ELSE rows[p]]
        /\ sync[s].pc = "store" /\ UNCHANGED <<source, listed>>
  BY <1>1 DEF StoreBatch
<1>5. /\ sync'[s].pc = to /\ sync'[s].cursor = last /\ sync'[s].run = run
      /\ to \in {"deactivate", "finish", "page"}
      /\ to \in {"deactivate", "finish"} => Cardinality(DOMAIN batch) < PageSize
  BY <1>1, <1>2, <1>4 DEF SyncState, AfterPages
<1>6. listed[s] \subseteq Products /\ last \in Int /\ \A p \in Products : p \in Int
  BY <1>3, <1>4, Bounds DEF IInv, TypeOK
<1>7. ASSUME NEW p \in DOMAIN batch
      PROVE  rows'[p] # None /\ rows'[p].seen = run
  <2>1. p \in Products /\ batch[p] \in Version /\ rows[p] \in Row \cup {None} /\ run \in 0 .. MaxRuns
    BY <1>1, <1>3 DEF IInv, TypeOK, SyncState
  <2>2. rows'[p] = Upserted(rows[p], batch[p], run)
    BY <1>4, <2>1
  <2> QED
    BY <2>1, <2>2, UpsertedFacts, UpsertedSeen, Nulls
<1>8. \A p \in Products : p \notin DOMAIN batch => rows'[p] = rows[p]
  BY <1>4
<1>9. PageSize \in Nat /\ Cardinality(DOMAIN batch) \in Nat
  <2>1. IsFiniteSet(DOMAIN batch)
    BY <1>3, Bounds, FS_Interval, FS_Subset
  <2> QED
    BY <2>1, FS_CardinalityType, CatalogConstants
<1>10. ASSUME NEW p \in listed[s], p <= last \/ to \in {"deactivate", "finish"}
       PROVE  rows'[p] # None /\ rows'[p].seen = run
  <2>1. CASE p \in DOMAIN batch
    BY <1>7, <2>1
  <2>2. CASE p \notin DOMAIN batch
    <3>1. p <= cursor
      <4>1. SUFFICES ASSUME p > cursor PROVE FALSE
        BY <1>2, <1>6
      <4>2. Cardinality(DOMAIN batch) >= PageSize /\ \A q \in DOMAIN batch : q < p
        BY <1>1, <1>4, <2>2, <4>1 DEF AllStillListed, StillListed
      <4> QED
        BY <1>4, <1>5, <1>6, <1>9, <1>10, <4>2
    <3>2. rows[p] # None /\ rows[p].seen = run
      BY <1>1, <3>1 DEF AllStillListed, StillListed, Marked
    <3> QED
      BY <1>6, <1>8, <2>2, <3>2
  <2> QED
    BY <2>1, <2>2
<1>11. \A p \in listed[s] : source[p] # None
  BY DEF AllStillListed, StillListed
<1>12. StillListed(s)'
  BY <1>4, <1>5, <1>10, <1>11 DEF StillListed, Marked
<1> QED
  BY <1>12 DEF AllStillListed, OneSync

\* Taking rows down marks none.
LEMMA DeactivateListed ==
    ASSUME IInv, AllStillListed, NEW s \in Syncs, DeactivateMissing(s)
    PROVE  /\ AllStillListed'
           /\ \A p \in listed[s] : rows[p] # None /\ rows[p].active => rows'[p].active
<1>1. /\ sync' = [sync EXCEPT ![s].pc = "finish"] /\ sync[s].pc = "deactivate"
      /\ UNCHANGED <<source, listed>>
      /\ rows' = [p \in Products |->
                    IF rows[p] # None /\ rows[p].active /\ rows[p].seen # sync[s].run
                    THEN [rows[p] EXCEPT !.active = FALSE, !.aged = FALSE] ELSE rows[p]]
  BY DEF DeactivateMissing
<1>2. \A t \in Syncs : /\ listed[t] \subseteq Products
                       /\ sync'[t].run = sync[t].run /\ sync'[t].cursor = sync[t].cursor
                       /\ sync'[t].batch = sync[t].batch
                       /\ sync'[t].pc = IF t = s THEN "finish" ELSE sync[t].pc
  BY <1>1 DEF IInv, TypeOK, SyncState
<1>3. \A p \in Products : rows[p] # None => rows'[p] # None /\ rows'[p].seen = rows[p].seen
  <2>1. SUFFICES ASSUME NEW p \in Products, rows[p] # None
                 PROVE  rows'[p] # None /\ rows'[p].seen = rows[p].seen
    OBVIOUS
  <2>2. rows[p] \in Row
    BY <2>1 DEF IInv, TypeOK
  <2>3. /\ [rows[p] EXCEPT !.active = FALSE, !.aged = FALSE] \in Row
        /\ [rows[p] EXCEPT !.active = FALSE, !.aged = FALSE].seen = rows[p].seen
    BY <2>2 DEF Row
  <2>4. \/ rows'[p] = rows[p]
        \/ rows'[p] = [rows[p] EXCEPT !.active = FALSE, !.aged = FALSE]
    BY <1>1
  <2> QED
    BY <2>1, <2>3, <2>4, Nulls
<1>4. ASSUME NEW t \in Syncs
      PROVE  StillListed(t)'
  <2>1. ASSUME NEW p \in listed[t], p <= sync[t].cursor \/ sync'[t].pc \in {"deactivate", "finish"}
        PROVE  rows'[p] # None /\ rows'[p].seen = sync[t].run
    <3>1. p <= sync[t].cursor \/ sync[t].pc \in {"deactivate", "finish"}
      BY <1>1, <1>2, <2>1
    <3>2. Marked(t, p)
      BY <3>1 DEF AllStillListed, StillListed
    <3> QED
      BY <1>2, <1>3, <3>2 DEF Marked
  <2>2. sync'[t].pc = "store" => sync[t].pc = "store"
    BY <1>2
  <2> QED
    BY <1>1, <1>2, <2>1, <2>2 DEF AllStillListed, StillListed, Marked
<1>5. \A p \in listed[s] : Marked(s, p)
  BY <1>1 DEF AllStillListed, StillListed
<1>6. \A p \in listed[s] : rows[p] # None /\ rows[p].active => rows'[p].active
  BY <1>1, <1>2, <1>5 DEF Marked
<1> QED
  BY <1>4, <1>6 DEF AllStillListed

LEMMA StopSyncListed ==
    ASSUME IInv, NEW s \in Syncs, NEW status, StopSync(s, status), OneSync
    PROVE  AllStillListed'
<1>1. listed'[s] = {}
  BY DEF StopSync, IInv, TypeOK
<1>2. StillListed(s)'
  BY <1>1 DEF StillListed
<1> QED
  BY <1>2 DEF AllStillListed, OneSync

\* The enrichment jobs, the import and time keep the marks.
LEMMA OthersKeep ==
    ASSUME IInv,
           \/ \E w \in Jobs : (\E retry \in BOOLEAN : StartJob(w, retry))
                              \/ LoseLock(w) \/ JobStep(w) \/ KillJob(w)
           \/ (\E f \in Files : StartImport(f)) \/ (\E p \in Products : SaveImported(p)) \/ AbandonImport
           \/ Age \/ UNCHANGED vars
    PROVE  KeepsMarks /\ UNCHANGED <<source, sync, listed>>
<1>1. ASSUME NEW w \in Jobs,
             (\E retry \in BOOLEAN : StartJob(w, retry)) \/ LoseLock(w) \/ EndBatch(w) \/ KillJob(w)
      PROVE  KeepsMarks /\ UNCHANGED <<source, sync, listed>>
  BY <1>1 DEF StartJob, LoseLock, EndBatch, KillJob, KeepsMarks
<1>2. ASSUME NEW w \in Jobs, RequeueFailed(w) \/ ReleaseStale(w) \/ ClaimPending(w)
      PROVE  KeepsMarks /\ UNCHANGED <<source, sync, listed>>
  <2>1. PICK status \in Statuses, moved \in SUBSET Products : MoveAll(moved, status) /\ UNCHANGED <<source, sync, listed>>
    <3>1. CASE RequeueFailed(w)
      BY <3>1 DEF RequeueFailed, Statuses
    <3>2. CASE ReleaseStale(w)
      BY <3>2 DEF ReleaseStale, Statuses
    <3>3. CASE ClaimPending(w)
      BY <3>3 DEF ClaimPending, Statuses
    <3> QED
      BY <1>2, <3>1, <3>2, <3>3
  <2> QED
    BY <2>1, MoveAllKeeps
<1>3. ASSUME NEW w \in Jobs, NEW p \in Products, SaveDocuments(w, p)
      PROVE  KeepsMarks /\ UNCHANGED <<source, sync, listed>>
  <2>1. PICK v : v = job[w].hand[p]
    OBVIOUS
  <2>2. v \in Version /\ rows[p] # None
    <3>1. job[w] \in JobState /\ v # None
      BY <1>3, <2>1 DEF SaveDocuments, IInv, TypeOK
    <3> QED
      BY <2>1, <3>1 DEF JobState, IInv, InHand
  <2>3. PICK o : o = IF v.category = None THEN "inferred" ELSE "source"
    OBVIOUS
  <2>4. PICK c \in IF v.category = None THEN Categories ELSE {v.category} :
          rows' = [rows EXCEPT ![p] = [rows[p] EXCEPT !.status = "ready", !.aged = FALSE,
                                                      !.category = c, !.origin = o]]
    BY <1>3, <2>1, <2>3 DEF SaveDocuments
  <2>5. c \in Categories /\ o \in {"source", "inferred"}
    BY <2>2, <2>3 DEF Version
  <2> QED
    BY <1>3, <2>2, <2>4, <2>5, SavedKeeps DEF SaveDocuments
<1>4. ASSUME NEW w \in Jobs, NEW p \in Products, MarkFailed(w, p)
      PROVE  KeepsMarks /\ UNCHANGED <<source, sync, listed>>
  BY <1>4, MoveAllKeeps DEF MarkFailed, Statuses
<1>5. ASSUME NEW f \in Files, StartImport(f)
      PROVE  KeepsMarks /\ UNCHANGED <<source, sync, listed>>
  <2>1. f \in Tables(FileRow)
    BY Bounds
  <2>2. \A p \in DOMAIN f : f[p] \in FileRow
    BY <2>1 DEF Tables
  <2>3. \A p \in Products : rows'[p] = IF p \in DOMAIN f THEN ImportedRow(p, f[p]) ELSE rows[p]
    BY <1>5 DEF StartImport
  <2>4. \A p \in Products : p \in DOMAIN f /\ rows[p] # None =>
            ImportedRow(p, f[p]) # None /\ ImportedRow(p, f[p]).seen = rows[p].seen
    <3>1. \A p \in Products : p \in DOMAIN f => ImportedRow(p, f[p]) \in Row
      BY <2>2, ImportedFacts
    <3>2. \A p \in Products : rows[p] # None => ImportedRow(p, f[p]).seen = rows[p].seen
      BY DEF ImportedRow
    <3> QED
      BY <3>1, <3>2, Nulls
  <2> QED
    BY <1>5, <2>3, <2>4 DEF KeepsMarks, StartImport
<1>6. ASSUME NEW p \in Products, SaveImported(p)
      PROVE  KeepsMarks /\ UNCHANGED <<source, sync, listed>>
  <2>1. PICK r, c, o : r = importing[p] /\ c = r.category /\ o = ImportedRow(p, r).origin
    OBVIOUS
  <2>2. r \in FileRow /\ rows[p] # None
    <3>1. p \in DOMAIN importing
      BY <1>6 DEF SaveImported
    <3>2. importing[p] \in FileRow
      BY <3>1 DEF IInv, TypeOK, Tables
    <3> QED
      BY <2>1, <3>1, <3>2 DEF IInv, InHand
  <2>3. c \in Categories /\ o \in {"source", "inferred"}
    BY <2>1, <2>2, ImportedFacts DEF FileRow
  <2>4. rows' = [rows EXCEPT ![p] = [rows[p] EXCEPT !.status = "ready", !.aged = FALSE,
                                                    !.category = c, !.origin = o]]
    BY <1>6, <2>1 DEF SaveImported
  <2> QED
    BY <1>6, <2>2, <2>3, <2>4, SavedKeeps DEF SaveImported
<1>7. CASE AbandonImport \/ UNCHANGED vars
  BY <1>7 DEF AbandonImport, vars, KeepsMarks
<1>8. CASE Age
  <2>1. \A p \in Products : rows[p] # None =>
            rows[p] \in Row /\ [rows[p] EXCEPT !.aged = TRUE] \in Row
            /\ [rows[p] EXCEPT !.aged = TRUE].seen = rows[p].seen
    BY DEF IInv, TypeOK, Row
  <2>2. \A p \in Products : rows'[p] = rows[p] \/ rows'[p] = [rows[p] EXCEPT !.aged = TRUE]
    BY <1>8 DEF Age
  <2> QED
    BY <1>8, <2>1, <2>2, Nulls DEF KeepsMarks, Age
<1> QED
  BY <1>1, <1>2, <1>3, <1>4, <1>5, <1>6, <1>7, <1>8 DEF JobStep

LEMMA NextListed ==
    ASSUME IInv, AllStillListed, OneSync, [Next]_vars
    PROVE  AllStillListed'
<1>1. CASE \E p \in Products : SourceChanges(p)
  BY <1>1, SourceChangesListed
<1>2. CASE \E s \in Syncs : (\E mode \in {"full", "incremental"} : StartRun(s, mode))
                            \/ SyncStep(s) \/ FailRun(s) \/ KillSync(s)
  <2>1. PICK s \in Syncs : (\E mode \in {"full", "incremental"} : StartRun(s, mode))
                           \/ SyncStep(s) \/ FailRun(s) \/ KillSync(s)
    BY <1>2
  <2>2. CASE FinishRun(s) \/ FailRun(s) \/ KillSync(s)
    BY <2>2, StopSyncListed DEF FinishRun, FailRun, KillSync
  <2> QED
    BY <2>1, <2>2, StartRunListed, ReadPageListed, StoreBatchListed, DeactivateListed DEF SyncStep
<1>3. CASE \/ \E w \in Jobs : (\E retry \in BOOLEAN : StartJob(w, retry))
                              \/ LoseLock(w) \/ JobStep(w) \/ KillJob(w)
           \/ (\E f \in Files : StartImport(f)) \/ (\E p \in Products : SaveImported(p)) \/ AbandonImport
           \/ Age \/ UNCHANGED vars
  BY <1>3, OthersKeep, MarksStay
<1> QED
  BY <1>1, <1>2, <1>3 DEF Next

\* A full run takes down no product that the backend listed all along, as long as
\* no other run marks the rows meanwhile: deactivate_missing of sync, whatever
\* the page size, the changes between the pages and the runs that died before.
THEOREM OnlyGoneAreTakenDownHolds ==
    ASSUME OneSync
    PROVE  Spec => OnlyGoneAreTakenDown
<1>1. Init => AllStillListed
  BY DEF Init, AllStillListed, StillListed
<1>2. IInv /\ AllStillListed /\ [Next]_vars => AllStillListed'
  BY NextListed
<1>3. IInv /\ AllStillListed =>
        [\A s \in Syncs : DeactivateMissing(s) =>
            \A p \in listed[s] : (rows[p] # None /\ rows[p].active) => rows'[p].active]_vars
  BY DeactivateListed
<1> QED
  BY <1>1, <1>2, <1>3, Invariance, PTL DEF Spec, OnlyGoneAreTakenDown

===============================================================================
