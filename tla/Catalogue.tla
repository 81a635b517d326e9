----------------------------- MODULE Catalogue -----------------------------
(***************************************************************************)
(* The price catalogue: ingestion.service.ts (imports and approved         *)
(* submissions), prices.service.ts, product-matching.service.ts and        *)
(* search.service.ts, for the products of one store.                       *)
(*                                                                         *)
(* An import goes through its file a row at a time, an approval brings one *)
(* row; each looks the product up, writes it, records the price, indexes   *)
(* it and asks for matching, every one a statement of its own.             *)
(*                                                                         *)
(* External: Elasticsearch goes down, comes back and may have lost its     *)
(* documents, at most Outages times; BullMQ starts an import over whose    *)
(* worker died, at most ImportStalls times.                                *)
(***************************************************************************)
EXTENDS Platform, Sequences, FiniteSets

CONSTANTS Imports,        \* runs
          FileRows,       \* FileRows[r]: what the adapter parses from the file
          Approvals,      \* rows that approved submissions bring
          MaxApplied,     \* approvals at most
          Similarity,     \* Similarity[name]: the ingredients nearest to it, [id, sim],
                          \* sim in hundredths
          Embedded,       \* whether ingredients have embeddings
          Outages,
          ImportStalls

ASSUME CatalogueAssumption ==
    /\ Outages \in Nat /\ ImportStalls \in Nat /\ MaxApplied \in Nat
    /\ \A r \in Imports : FileRows[r] \in Seq({FileRows[r][i] : i \in DOMAIN FileRows[r]})
    /\ Nothing \notin Imports /\ "sync" \notin Handlers \cup Workers
    /\ Embedded \in BOOLEAN

VARIABLES
    product,    \* product[p]: the row, [name, ext], or Nothing
    prices,     \* prices[p]: what was recorded, in this order
    doc,        \* doc[p]: the document of the index, [priced], or Nothing
    matches,    \* matches[p]: the ingredients p is matched to
    embedding,  \* embedding[p]: the name p was embedded under, or Nothing
    importRun,  \* importRun[r]: the row, [status, total, ok, bad]
    importJob,  \* importJob[r]: [state, stalls]
    matchJobs,  \* products with a job of the matching queue
    task,       \* task[k]: where an import or an approval stands
    search,     \* the service: [available, timer, syncing]
    sync,       \* the reconciliation under way: [left, of, priced]
    elastic,    \* Elasticsearch: [up, outages]
    applied,    \* approvals so far
    stained,    \* history: indexed by two at once, or not indexed when it should be
    unasked     \* history: written, then its row broke off before asking for matching

catalogueVars == <<product, prices, doc, matches, embedding, importRun, importJob, matchJobs, task, search,
                   sync, elastic, applied, stained, unasked>>

Importers == Handlers \cup Workers

NoImport == [status |-> "none", total |-> 0, ok |-> 0, bad |-> 0]
Resting == [at |-> "idle", run |-> Nothing, rows |-> <<>>, found |-> Nothing,
            ask |-> FALSE, ok |-> 0, bad |-> 0]
SyncIdle == [left |-> {}, of |-> Nothing, priced |-> Nothing]

Known == {p \in Products : product[p] # Nothing}
RowAt(k) == Head(task[k].rows)
\* Mutant: the first price, as if ordered by effectiveAt ascending.
FirstPrice(p) == IF prices[p] = <<>> THEN Nothing ELSE prices[p][1]

LatestPrice(p) == IF prices[p] = <<>> THEN Nothing ELSE prices[p][Len(prices[p])]

Goto(k, at) == task' = [task EXCEPT ![k].at = at]

CatalogueInit ==
    /\ product = [p \in Products |-> Nothing]
    /\ prices = [p \in Products |-> <<>>]
    /\ doc = [p \in Products |-> Nothing]
    /\ matches = [p \in Products |-> {}]
    /\ embedding = [p \in Products |-> Nothing]
    /\ importRun = [r \in Imports |-> NoImport]
    /\ importJob = [r \in Imports |-> [state |-> "none", stalls |-> 0]]
    /\ matchJobs = {}
    /\ task = [k \in Importers |-> Resting]
    /\ search = [available |-> FALSE, timer |-> TRUE, syncing |-> FALSE]
    /\ sync = SyncIdle
    /\ elastic = [up |-> TRUE, outages |-> 0]
    /\ applied = 0 /\ stained = {} /\ unasked = {}

searchVars == <<search, sync, elastic>>
rowVars == <<product, prices, doc, matches, embedding, matchJobs, stained, unasked>>

-----------------------------------------------------------------------------
\* Imports.

\* The file is stored and the run created PENDING.
CreatePendingRun(h, r) ==
    /\ task[h].at = "idle" /\ importRun[r].status = "none"
    /\ importRun' = [importRun EXCEPT ![r].status = "PENDING"]
    /\ task' = [task EXCEPT ![h] = [Resting EXCEPT !.at = "enqueue", !.run = r]]
    /\ UNCHANGED <<rowVars, importJob, searchVars, applied>>

AddImportJob(h) ==
    /\ task[h].at = "enqueue"
    /\ importJob' = [importJob EXCEPT ![task[h].run].state = "waiting"]
    /\ task' = [task EXCEPT ![h] = Resting]
    /\ UNCHANGED <<rowVars, importRun, searchVars, applied>>

\* executeRun: the row RUNNING, the counters from zero, the file from the top.
StartImport(w, r) ==
    /\ task[w].at = "idle" /\ importJob[r].state = "waiting"
    /\ importJob' = [importJob EXCEPT ![r].state = "active"]
    /\ importRun' = [importRun EXCEPT ![r].status = "RUNNING"]
    /\ task' = [task EXCEPT ![w] = [Resting EXCEPT !.at = "read", !.run = r]]
    /\ UNCHANGED <<rowVars, searchVars, applied>>

ReadFile(w) ==
    LET file == FileRows[task[w].run] IN
    /\ task[w].at = "read"
    /\ task' = [task EXCEPT ![w] = [@ EXCEPT !.at = IF file = <<>> THEN "finish" ELSE "find", !.rows = file]]
    /\ UNCHANGED <<rowVars, importRun, importJob, searchVars, applied>>

\* How a run ends in its row.
RunStatus(ok, bad) ==
    IF bad = 0 THEN "COMPLETED" ELSE IF ok > 0 THEN "PARTIAL" ELSE "FAILED"

CloseRun(w, status, total) ==
    /\ importRun' = [importRun EXCEPT ![task[w].run] =
                        [status |-> status, total |-> total,
                         ok |-> task[w].ok, bad |-> task[w].bad]]
    /\ importJob' = [importJob EXCEPT ![task[w].run].state = "ended"]
    /\ task' = [task EXCEPT ![w] = Resting]
    /\ UNCHANGED <<rowVars, searchVars, applied>>

FinishImport(w) ==
    /\ task[w].at = "finish"
    /\ CloseRun(w, RunStatus(task[w].ok, task[w].bad), Len(FileRows[task[w].run]))

\* The file is gone or does not parse, or the row is not updated at first: the
\* catch says FAILED.
FailImport(w) ==
    /\ task[w].at \in {"read", "finish"}
    /\ CloseRun(w, "FAILED", IF task[w].at = "read" THEN 0 ELSE Len(FileRows[task[w].run]))

\* Left as it is, written or not.
BrokenOff(k) == IF task[k].ask THEN unasked \cup {task[k].found} ELSE unasked

\* The process ends; an import waits for another worker while stalls are left.
ImporterDies(k) ==
    LET r == task[k].run
        again == k \in Workers /\ importJob[r].stalls < ImportStalls
    IN /\ task[k].at # "idle"
       /\ importJob' = IF k \notin Workers THEN importJob
                       ELSE [importJob EXCEPT ![r] =
                               [state |-> IF again THEN "waiting" ELSE "ended",
                                stalls |-> IF again THEN @.stalls + 1 ELSE @.stalls]]
       /\ stained' = IF task[k].at = "index" THEN stained \cup {task[k].found} ELSE stained
       /\ unasked' = BrokenOff(k)
       /\ task' = [task EXCEPT ![k] = Resting]
       /\ UNCHANGED <<product, prices, doc, matches, embedding, importRun, matchJobs, searchVars,
                      applied>>

-----------------------------------------------------------------------------
\* One row: the lookup, the product, the price, the index, the matching job.

\* The approval of a submission, moderated or by consensus.
ApplySubmission(h, row) ==
    /\ task[h].at = "idle" /\ applied < MaxApplied
    /\ applied' = applied + 1
    /\ task' = [task EXCEPT ![h] = [Resting EXCEPT !.at = "find", !.rows = <<row>>]]
    /\ UNCHANGED <<rowVars, importRun, importJob, searchVars>>

\* By the store's identifier, if the row has one, or else by name.
Lookup(row) ==
    LET byId == {p \in Known : row.ext # Nothing /\ product[p].ext = row.ext}
    IN IF byId # {} THEN byId ELSE {p \in Known : product[p].name = row.name}

FindProduct(k) ==
    LET hits == Lookup(RowAt(k))
        Found(p, at) == task' = [task EXCEPT ![k] = [@ EXCEPT !.at = at, !.found = p]]
    IN /\ task[k].at = "find"
       /\ \/ hits = {} /\ Found(Nothing, "write")
          \/ \E p \in hits : Found(p, IF k \in Handlers THEN "record" ELSE "write")
       /\ UNCHANGED <<rowVars, importRun, importJob, searchVars, applied>>

NeedsMatching(old, name) == old = Nothing \/ old.name # name

\* The update of what was found, or the creation of a product.  An approval
\* asks for matching before the price, an import after it.
UpsertProduct(k) ==
    LET row == RowAt(k)
        Write(p) ==
            /\ product' = [product EXCEPT ![p] =
                             [name |-> row.name,
                              ext |-> IF row.ext = Nothing /\ @ # Nothing THEN @.ext ELSE row.ext]]
            /\ task' = [task EXCEPT ![k] =
                          [@ EXCEPT !.at = IF k \in Handlers THEN "ask" ELSE "record",
                                    !.found = p,
                                    !.ask = NeedsMatching(product[p], row.name)]]
    IN /\ task[k].at = "write"
       /\ IF task[k].found # Nothing THEN Write(task[k].found)
          ELSE \E p \in Products \ Known : Write(p)
       /\ UNCHANGED <<prices, doc, matches, embedding, matchJobs, importRun, importJob, searchVars,
                      applied, stained, unasked>>

\* Those who hold a price of p they have not indexed yet.
Writers(p) == {k \in Importers : task[k].at = "index" /\ task[k].found = p}
                \cup {s \in {"sync"} : sync.of = p}

Stain(p, k) == IF Writers(p) \ {k} # {} THEN stained \cup {p} ELSE stained

RecordPrice(k) ==
    LET p == task[k].found IN
    /\ task[k].at = "record"
    /\ prices' = [prices EXCEPT ![p] = Append(@, RowAt(k).price)]
    /\ stained' = Stain(p, k)
    /\ Goto(k, "index")
    /\ UNCHANGED <<product, doc, matches, embedding, matchJobs, importRun, importJob, searchVars,
                   applied, unasked>>

\* What indexProducts does with one document: nothing when Elasticsearch is
\* thought to be down; else it is written, refused, or the call fails.  lost
\* says whether the index misses it.
IndexDoc(p, priced, lost) ==
    \/ /\ ~search.available /\ lost
       /\ UNCHANGED <<doc, search>>
    \/ /\ search.available /\ elastic.up /\ ~lost
       /\ doc' = [doc EXCEPT ![p] = [priced |-> priced]]
       /\ UNCHANGED search
    \/ /\ search.available /\ elastic.up /\ lost
       /\ UNCHANGED <<doc, search>>
    \/ /\ search.available /\ ~elastic.up /\ lost
       /\ search' = [search EXCEPT !.available = FALSE, !.timer = TRUE]
       /\ UNCHANGED doc

NextRow(k, ok, bad) ==
    LET last == Tail(task[k].rows) = <<>> IN
    task' = [task EXCEPT ![k] =
              IF k \in Handlers THEN Resting
              ELSE [task[k] EXCEPT !.at = IF last THEN "finish" ELSE "find",
                                   !.rows = Tail(@), !.found = Nothing, !.ask = FALSE,
                                   !.ok = @ + ok, !.bad = @ + bad]]

\* recordPrice indexes what it has inserted.
IndexPrice(k) ==
    LET p == task[k].found IN
    /\ task[k].at = "index"
    /\ \E lost \in BOOLEAN :
          /\ IndexDoc(p, RowAt(k).price, lost)
          /\ stained' = IF lost THEN stained \cup {p} ELSE stained
    /\ IF task[k].ask THEN Goto(k, "ask") ELSE NextRow(k, 1, 0)
    /\ UNCHANGED <<product, prices, matches, embedding, matchJobs, importRun, importJob, sync,
                   elastic, applied, unasked>>

AskMatching(k) ==
    /\ task[k].at = "ask"
    /\ matchJobs' = matchJobs \cup {task[k].found}
    /\ unasked' = unasked \ {task[k].found}
    /\ IF k \in Handlers
       THEN task' = [task EXCEPT ![k] = [@ EXCEPT !.at = "record", !.ask = FALSE]]
       ELSE NextRow(k, 1, 0)
    /\ UNCHANGED <<product, prices, doc, matches, embedding, importRun, importJob, searchVars,
                   applied, stained>>

\* Mutant: the row that failed counts as imported.
FailedRow(k) == NextRow(k, 1, 0)

SkipRow(k) == NextRow(k, 0, 1)

\* A statement of the row throws: the import goes on with the next row, the
\* approval is answered 500.
RowFails(k) ==
    /\ task[k].at \in {"find", "write", "record", "ask"}
    /\ unasked' = BrokenOff(k)
    /\ SkipRow(k)
    /\ UNCHANGED <<product, prices, doc, matches, embedding, matchJobs, importRun, importJob,
                   searchVars, applied, stained>>

-----------------------------------------------------------------------------
\* Matching.

MinSimilarity == 45
TrigramFloor == 30

\* By vectors if both sides have them, by trigrams otherwise.
DecideMatchPath(hasEmbedding) == IF hasEmbedding /\ Embedded THEN "embedding" ELSE "trigram"

\* The best of each ingredient, above the floor and at or above the threshold.
FilterCandidates(candidates, floor) ==
    {c.id : c \in {d \in candidates : d.sim > floor /\ d.sim >= MinSimilarity}}

\* A product embedded once keeps its embedding when it is renamed.
Accepted(name, vector) ==
    IF DecideMatchPath(vector # Nothing) = "embedding" THEN FilterCandidates(Similarity[vector], 0)
    ELSE FilterCandidates(Similarity[name], TrigramFloor)

\* The job: embed the product if it is not and the model answers, then insert
\* or update its matches.  What was matched before stays.
MatchProduct(p) ==
    /\ p \in matchJobs
    /\ \E answers \in BOOLEAN :
          embedding' = [embedding EXCEPT ![p] = IF @ = Nothing /\ answers THEN product[p].name ELSE @]
    /\ matches' = [matches EXCEPT ![p] = @ \cup Accepted(product[p].name, embedding'[p])]
    /\ matchJobs' = matchJobs \ {p}
    /\ UNCHANGED <<product, prices, doc, importRun, importJob, task, searchVars, applied, stained,
                   unasked>>

\* All its attempts fail.
MatchingGivenUp(p) ==
    /\ p \in matchJobs
    /\ matchJobs' = matchJobs \ {p}
    /\ unasked' = unasked \cup {p}
    /\ UNCHANGED <<product, prices, doc, matches, embedding, importRun, importJob, task, searchVars,
                   applied, stained>>

-----------------------------------------------------------------------------
\* The search service.

ElasticGoesDown(wiped) ==
    /\ elastic.up /\ elastic.outages < Outages
    /\ elastic' = [up |-> FALSE, outages |-> elastic.outages + 1]
    /\ doc' = IF wiped THEN [p \in Products |-> Nothing] ELSE doc
    /\ UNCHANGED <<product, prices, matches, embedding, importRun, importJob, matchJobs, task,
                   search, sync, applied, stained, unasked>>

ElasticComesBack ==
    /\ ~elastic.up
    /\ elastic' = [elastic EXCEPT !.up = TRUE]
    /\ UNCHANGED <<rowVars, importRun, importJob, task, search, sync, applied>>

\* A tick of the timer, or the start of the process: available or retried; one
\* that was away is reconciled, unless a reconciliation is under way.
EnsureIndices ==
    /\ search.timer
    /\ search' = IF elastic.up THEN [available |-> TRUE, timer |-> FALSE, syncing |-> TRUE]
                 ELSE [search EXCEPT !.available = FALSE]
    /\ sync' = IF elastic.up /\ ~search.syncing /\ Cardinality({p \in Products : doc[p] # Nothing})
                                                    < Cardinality(Known)
               THEN [SyncIdle EXCEPT !.left = Known] ELSE sync
    /\ UNCHANGED <<rowVars, importRun, importJob, task, elastic, applied>>

\* The products counted, in batches: read with their latest price, then indexed.
SyncRead(p) ==
    /\ sync.of = Nothing /\ p \in sync.left
    /\ sync' = [left |-> sync.left \ {p}, of |-> p, priced |-> LatestPrice(p)]
    /\ stained' = Stain(p, "sync")
    /\ UNCHANGED <<product, prices, doc, matches, embedding, importRun, importJob, matchJobs, task,
                   search, elastic, applied, unasked>>

SyncIndex ==
    /\ sync.of # Nothing
    /\ \E lost \in BOOLEAN :
          /\ IndexDoc(sync.of, sync.priced, lost)
          /\ stained' = IF lost THEN stained \cup {sync.of} ELSE stained
    /\ sync' = [sync EXCEPT !.of = Nothing]
    /\ UNCHANGED <<product, prices, matches, embedding, importRun, importJob, matchJobs, task,
                   elastic, applied, unasked>>

\* Nothing left, or a statement or call fails: the flag is dropped either way.
SyncEnds ==
    /\ search.syncing /\ sync.of = Nothing
    /\ search' = [search EXCEPT !.syncing = FALSE]
    /\ sync' = SyncIdle
    /\ UNCHANGED <<rowVars, importRun, importJob, task, elastic, applied>>

\* A search: by the index, or when that is down or fails by the database.
SearchProducts ==
    /\ search.available /\ ~elastic.up
    /\ search' = [search EXCEPT !.available = FALSE, !.timer = TRUE]
    /\ UNCHANGED <<rowVars, importRun, importJob, task, sync, elastic, applied>>

ImportNext ==
    \/ \E h \in Handlers : \/ \E r \in Imports : CreatePendingRun(h, r)
                           \/ AddImportJob(h)
                           \/ \E row \in Approvals : ApplySubmission(h, row)
    \/ \E w \in Workers : \/ \E r \in Imports : StartImport(w, r)
                          \/ ReadFile(w) \/ FinishImport(w) \/ FailImport(w)
    \/ \E k \in Importers : \/ FindProduct(k) \/ UpsertProduct(k) \/ RecordPrice(k) \/ IndexPrice(k)
                            \/ AskMatching(k) \/ RowFails(k) \/ ImporterDies(k)
    \/ \E p \in Products : MatchProduct(p) \/ MatchingGivenUp(p)

SearchNext ==
    \/ \E wiped \in BOOLEAN : ElasticGoesDown(wiped)
    \/ ElasticComesBack \/ EnsureIndices \/ SyncIndex \/ SyncEnds \/ SearchProducts
    \/ \E p \in Products : SyncRead(p)

CatalogueNext == ImportNext \/ SearchNext

CatalogueSpec == CatalogueInit /\ [][CatalogueNext]_catalogueVars

-----------------------------------------------------------------------------
\* ingestion.service.ts:154: the counters of a run that ended are true of the
\* catalogue although a row is several statements and any of them may fail:
\* every row counted as imported has its price recorded, by this run or another,
\* and a run that is COMPLETED lost none.
CountsAreRecorded ==
    \A r \in Imports :
       LET wanted == {FileRows[r][i] : i \in DOMAIN FileRows[r]}
           present == {row \in wanted : \E p \in Products : \E i \in DOMAIN prices[p] :
                                            prices[p][i] = row.price}
       IN importRun[r].status \in {"COMPLETED", "PARTIAL", "FAILED"} =>
             /\ importRun[r].ok <= Cardinality({i \in DOMAIN FileRows[r] : FileRows[r][i] \in present})
             /\ importRun[r].status = "COMPLETED" => present = wanted

\* ingestion.service.ts:223: a product whose name no job is going to match has
\* been matched to what its name (or the one it was embedded under) is similar
\* to, unless the row that named it broke off between the product and the job.
NamesAreMatched ==
    \A p \in Known \ (matchJobs \cup unasked) :
       \/ \E k \in Importers : task[k].found = p /\ task[k].ask
       \/ Accepted(product[p].name, embedding[p]) \subseteq matches[p]

\* prices.service.ts:49 and search.service.ts:72: with a document and nobody
\* about to write it, a product shows its latest price, unless two wrote it at
\* once or an index write was lost.
IndexFollowsPrices ==
    \A p \in Products \ stained :
       doc[p] # Nothing /\ Writers(p) = {} =>
          IF prices[p] = <<>> THEN doc[p].priced = Nothing
          ELSE doc[p].priced = prices[p][Len(prices[p])]

\* What the search and the optimizer read of the catalogue is up to date.
CatalogueIsFollowed == NamesAreMatched /\ IndexFollowsPrices
=============================================================================
