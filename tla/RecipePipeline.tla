--------------------------- MODULE RecipePipeline ---------------------------
(***************************************************************************)
(* Recipes and their ingredient lines: recipes.service.ts, the BullMQ jobs *)
(* it enqueues and recipe.processor.ts.                                    *)
(*                                                                         *)
(* Request handlers and jobs are actors that rewrite the lines of a recipe *)
(* one database statement at a time: deleteMany, one create per line, then *)
(* status READY.  What a line says is abstracted to where it comes from    *)
(* (the user's form or the extraction) and its position.                   *)
(*                                                                         *)
(* External: BullMQ's retries and stalled-job check.  A job whose worker   *)
(* died is started again MaxStalls times and then failed without calling   *)
(* the processor.                                                          *)
(***************************************************************************)
EXTENDS Naturals, FiniteSets

CONSTANTS Recipes,
          Handlers,      \* request handlers that can be in flight at once
          Jobs,          \* jobs that can be queued or running at once
          Lines,         \* lines of a recipe
          Attempts,      \* RECIPE_PROCESSING_JOB_OPTIONS.attempts
          MaxStalls,     \* BullMQ's maxStalledCount
          Workers,       \* jobs running at once (concurrency x replicas)
          Faults,        \* what may go wrong: "handler", "worker", "mark"
          Nothing        \* no recipe at hand

ASSUME ConstantsAssumption ==
    /\ Handlers \cap Jobs = {}
    /\ Lines \in Nat \ {0}
    /\ Attempts \in Nat \ {0}
    /\ MaxStalls \in Nat
    /\ Workers \in Nat
    /\ Faults \subseteq {"handler", "worker", "mark"}
    /\ Nothing \notin Recipes

VARIABLES
    status,     \* status[i]: "none" before the row exists
    stored,     \* recipes with a stored source (file, URL or raw text)
    deleted,    \* recipes with deletedAt set
    lines,      \* lines[i][o, n]: copies of line n written by origin o
    run,        \* run[a]: where the handler or job a stands
    job,        \* job[j]: BullMQ's record of the job
    stuck,      \* history: recipes one of whose actors died half-way
    shared      \* history: recipes rewritten by two actors at once

vars == <<status, stored, deleted, lines, run, job, stuck, shared>>
recipe == <<status, stored, deleted>>

-----------------------------------------------------------------------------
Actors == Handlers \cup Jobs
Origins == {"form", "extraction"}

Run == [at : {"idle", "process", "enqueue", "delete", "read", "extract",
              "clear", "attach", "ready", "failed"},
        does : {"none", "create", "import", "update", "reprocess", "delete", "job"},
        on : Recipes \cup {Nothing}, line : 1..Lines]
Job == [state : {"none", "waiting", "active"},
        on : Recipes \cup {Nothing}, made : 0..(Attempts - 1), stalls : 0..MaxStalls]

Written == [Origins \X (1..Lines) -> Nat]

Resting == [at |-> "idle", does |-> "none", on |-> Nothing, line |-> 1]
NoJob == [state |-> "none", on |-> Nothing, made |-> 0, stalls |-> 0]
NoLines == [k \in Origins \X (1..Lines) |-> 0]

At(a, step) == run[a].at = step

Move(a, step) == run' = [run EXCEPT ![a] = [@ EXCEPT !.at = step]]

Start(a, step, does, i) ==
    run' = [run EXCEPT ![a] = [at |-> step, does |-> does, on |-> i, line |-> 1]]

Rest(a) == run' = [run EXCEPT ![a] = Resting]

Origin(a) == IF a \in Jobs THEN "extraction" ELSE "form"

\* The actor is between the first and the last statement on the lines.
Rewriting(a, i) == run[a].on = i /\ run[a].at \in {"attach", "ready"}

Init ==
    /\ status = [i \in Recipes |-> "none"]
    /\ stored = {}
    /\ deleted = {}
    /\ lines = [i \in Recipes |-> NoLines]
    /\ run = [a \in Actors |-> Resting]
    /\ job = [j \in Jobs |-> NoJob]
    /\ stuck = {}
    /\ shared = {}

-----------------------------------------------------------------------------
(* Request handlers.                                                       *)

\* createManual(): the row, then lines and READY within the request.
CreateManual(h, i) ==
    /\ At(h, "idle")
    /\ status[i] = "none"
    /\ status' = [status EXCEPT ![i] = "PROCESSING"]
    /\ Start(h, "attach", "create", i)
    /\ UNCHANGED <<stored, deleted, lines, job, stuck, shared>>

\* upload(), importUrl() and paste(), once quota and storage have let them.
Import(h, i) ==
    /\ At(h, "idle")
    /\ status[i] = "none"
    /\ status' = [status EXCEPT ![i] = "PROCESSING"]
    /\ stored' = stored \cup {i}
    /\ Start(h, "enqueue", "import", i)
    /\ UNCHANGED <<deleted, lines, job, stuck, shared>>

Owned(i) == status[i] # "none" /\ i \notin deleted

\* update() with new ingredients; other fields leave lines and status alone.
Update(h, i) ==
    /\ At(h, "idle")
    /\ Owned(i)
    /\ Start(h, "clear", "update", i)
    /\ UNCHANGED <<recipe, lines, job, stuck, shared>>

\* reprocess(): any status will do, 422 without a stored source.
Reprocess(h, i) ==
    /\ At(h, "idle")
    /\ Owned(i)
    /\ i \in stored
    /\ Start(h, "process", "reprocess", i)
    /\ UNCHANGED <<recipe, lines, job, stuck, shared>>

SetProcessing(h) ==
    /\ At(h, "process")
    /\ status' = [status EXCEPT ![run[h].on] = "PROCESSING"]
    /\ Move(h, "enqueue")
    /\ UNCHANGED <<stored, deleted, lines, job, stuck, shared>>

Enqueue(h, j) ==
    /\ At(h, "enqueue")
    /\ job[j].state = "none"
    /\ job' = [job EXCEPT ![j] = [state |-> "waiting", on |-> run[h].on,
                                  made |-> 0, stalls |-> 0]]
    /\ Rest(h)
    /\ UNCHANGED <<recipe, lines, stuck, shared>>

SoftDelete(h, i) ==
    /\ At(h, "idle")
    /\ Owned(i)
    /\ Start(h, "delete", "delete", i)
    /\ UNCHANGED <<recipe, lines, job, stuck, shared>>

MarkDeleted(h) ==
    /\ At(h, "delete")
    /\ deleted' = deleted \cup {run[h].on}
    /\ Rest(h)
    /\ UNCHANGED <<status, stored, lines, job, stuck, shared>>

\* A rejected statement or a dead process ends the handler where it stands.
HandlerFails(h) ==
    /\ "handler" \in Faults
    /\ ~At(h, "idle")
    /\ stuck' = stuck \cup {run[h].on}
    /\ Rest(h)
    /\ UNCHANGED <<recipe, lines, job, shared>>

-----------------------------------------------------------------------------
(* The lines, shared by handlers and jobs.                                 *)

\* Mutant: the old lines are kept.
ClearNothing(a) ==
    LET i == run[a].on IN
    /\ At(a, "clear")
    /\ shared' = IF \E b \in Actors \ {a} : Rewriting(b, i) THEN shared \cup {i} ELSE shared
    /\ Move(a, "attach")
    /\ UNCHANGED <<recipe, lines, job, stuck>>

\* recipeIngredient.deleteMany
Clear(a) ==
    LET i == run[a].on IN
    /\ At(a, "clear")
    /\ lines' = [lines EXCEPT ![i] = NoLines]
    /\ shared' = IF \E b \in Actors \ {a} : Rewriting(b, i) THEN shared \cup {i} ELSE shared
    /\ Move(a, "attach")
    /\ UNCHANGED <<recipe, job, stuck>>

\* attachIngredients(): one create per turn of the loop.
Attach(a) ==
    LET i == run[a].on n == run[a].line IN
    /\ At(a, "attach")
    /\ lines' = [lines EXCEPT ![i] = [lines[i] EXCEPT ![<<Origin(a), n>>] = @ + 1]]
    /\ run' = [run EXCEPT ![a] = IF n = Lines THEN [@ EXCEPT !.at = "ready"]
                                              ELSE [@ EXCEPT !.line = n + 1]]
    /\ UNCHANGED <<recipe, job, stuck, shared>>

\* Nutrition, then READY: the end of createManual, update and a job.
Ready(a) ==
    /\ At(a, "ready")
    /\ status' = [status EXCEPT ![run[a].on] = "READY"]
    /\ job' = IF a \in Jobs THEN [job EXCEPT ![a] = NoJob] ELSE job
    /\ Rest(a)
    /\ UNCHANGED <<stored, deleted, lines, stuck, shared>>

-----------------------------------------------------------------------------
(* The processor.                                                          *)

Take(j) ==
    /\ job[j].state = "waiting"
    /\ Cardinality({k \in Jobs : job[k].state = "active"}) < Workers
    /\ job' = [job EXCEPT ![j] = [@ EXCEPT !.state = "active"]]
    /\ Start(j, "read", "job", job[j].on)
    /\ UNCHANGED <<recipe, lines, stuck, shared>>

\* removeOnComplete and removeOnFail: an ended job is forgotten.
End(j) ==
    /\ job' = [job EXCEPT ![j] = NoJob]
    /\ Rest(j)

\* run() looks once whether the recipe is still there.
Read(j) ==
    /\ At(j, "read")
    /\ run[j].on \notin deleted
    /\ Move(j, "extract")
    /\ UNCHANGED <<recipe, lines, job, stuck, shared>>

Skip(j) ==
    /\ At(j, "read")
    /\ run[j].on \in deleted
    /\ End(j)
    /\ UNCHANGED <<recipe, lines, stuck, shared>>

\* Raw text, structure and the recipe's own fields.
Extract(j) ==
    /\ At(j, "extract")
    /\ Move(j, "clear")
    /\ UNCHANGED <<recipe, lines, job, stuck, shared>>

\* Mutant: attemptsMade is taken to count the attempt that just failed.
IsFinalLate(j, unrecoverable) == unrecoverable \/ job[j].made >= Attempts

IsFinal(j, unrecoverable) == unrecoverable \/ job[j].made + 1 >= Attempts

\* The job goes back to the queue.
Again(j, made, stalls) ==
    [state |-> "waiting", on |-> job[j].on, made |-> made, stalls |-> stalls]

\* BullMQ, once the processor has thrown.
Settle(j, unrecoverable) ==
    /\ job' = [job EXCEPT ![j] =
                  IF unrecoverable \/ job[j].made + 1 >= Attempts THEN NoJob
                  ELSE Again(j, job[j].made + 1, job[j].stalls)]
    /\ Rest(j)

\* An error in the first attempts: rethrown, nothing is marked.
Throw(j, unrecoverable) ==
    /\ run[j].at \in {"read", "extract", "clear", "attach", "ready"}
    /\ unrecoverable => At(j, "extract")
    /\ ~IsFinal(j, unrecoverable)
    /\ Settle(j, unrecoverable)
    /\ UNCHANGED <<recipe, lines, stuck, shared>>

\* The final error goes to markFailed before it is rethrown.
GiveUp(j, unrecoverable) ==
    /\ run[j].at \in {"read", "extract", "clear", "attach", "ready"}
    /\ unrecoverable => At(j, "extract")
    /\ IsFinal(j, unrecoverable)
    /\ Move(j, "failed")
    /\ UNCHANGED <<recipe, lines, job, stuck, shared>>

MarkFailed(j) ==
    /\ At(j, "failed")
    /\ status' = [status EXCEPT ![run[j].on] = "FAILED"]
    /\ End(j)
    /\ UNCHANGED <<stored, deleted, lines, stuck, shared>>

\* markFailed's own failure is logged and swallowed.
MarkFailedFails(j) ==
    /\ "mark" \in Faults
    /\ At(j, "failed")
    /\ stuck' = stuck \cup {run[j].on}
    /\ End(j)
    /\ UNCHANGED <<recipe, lines, shared>>

\* The worker died and the job is started over, its attempts as they were.
Stall(j) ==
    /\ "worker" \in Faults
    /\ job[j].state = "active"
    /\ job[j].stalls < MaxStalls
    /\ job' = [job EXCEPT ![j] = Again(j, job[j].made, job[j].stalls + 1)]
    /\ Rest(j)
    /\ UNCHANGED <<recipe, lines, stuck, shared>>

\* It died once too often: BullMQ fails the job, the processor never hears.
Abandon(j) ==
    /\ "worker" \in Faults
    /\ job[j].state = "active"
    /\ job[j].stalls = MaxStalls
    /\ stuck' = stuck \cup {run[j].on}
    /\ End(j)
    /\ UNCHANGED <<recipe, lines, shared>>

-----------------------------------------------------------------------------
Begin(h) ==
    \E i \in Recipes : \/ CreateManual(h, i) \/ Import(h, i) \/ Update(h, i)
                       \/ Reprocess(h, i) \/ SoftDelete(h, i)

Continue(h) ==
    \/ SetProcessing(h) \/ MarkDeleted(h) \/ Clear(h) \/ Attach(h) \/ Ready(h)
    \/ \E j \in Jobs : Enqueue(h, j)

Work(j) ==
    \/ Take(j) \/ Read(j) \/ Skip(j) \/ Extract(j) \/ Clear(j) \/ Attach(j) \/ Ready(j)
    \/ \E unrecoverable \in BOOLEAN : Throw(j, unrecoverable) \/ GiveUp(j, unrecoverable)
    \/ MarkFailed(j) \/ MarkFailedFails(j)

Next ==
    \/ \E h \in Handlers : Begin(h) \/ Continue(h) \/ HandlerFails(h)
    \/ \E j \in Jobs : Work(j) \/ Stall(j) \/ Abandon(j)

Spec == Init /\ [][Next]_vars

\* Handlers run to their end and the workers take jobs.
FairSpec ==
    /\ Spec
    /\ \A h \in Handlers : WF_vars(Continue(h))
    /\ \A j \in Jobs : WF_vars(Work(j))

-----------------------------------------------------------------------------
(* Properties.                                                             *)

\* Recipes, lines, actors and jobs have the shapes the code uses.
TypeOK ==
    /\ status \in [Recipes -> {"none", "PROCESSING", "READY", "FAILED"}]
    /\ stored \subseteq Recipes
    /\ deleted \subseteq Recipes
    /\ lines \in [Recipes -> Written]
    /\ run \in [Actors -> Run]
    /\ job \in [Jobs -> Job]
    /\ stuck \subseteq Recipes
    /\ shared \subseteq Recipes

Complete(i, origin) ==
    lines[i] = [k \in Origins \X (1..Lines) |-> IF k[1] = origin THEN 1 ELSE 0]

\* Retries, stalls and earlier failures leave no trace: an actor about to set
\* READY finds exactly its own lines, each once, unless another rewrote them
\* at the same time.
WholeWhenReady ==
    \A a \in Actors :
        At(a, "ready") /\ run[a].on \notin shared => Complete(run[a].on, Origin(a))

Underway(i) ==
    \/ \E j \in Jobs : job[j].state \in {"waiting", "active"} /\ job[j].on = i
    \/ \E h \in Handlers : run[h].on = i /\ run[h].does \in {"create", "import", "reprocess"}

\* A recipe shows PROCESSING only while someone is going to change that:
\* whatever is retried, given up, edited or reprocessed meanwhile, unless one
\* of its actors died.
ProcessingIsUnderway ==
    \A i \in Recipes \ (deleted \cup stuck) : status[i] = "PROCESSING" => Underway(i)

\* Without such deaths every recipe settles.
Settles ==
    \A i \in Recipes :
        status[i] = "PROCESSING" ~> status[i] \in {"READY", "FAILED"} \/ i \in deleted
=============================================================================
