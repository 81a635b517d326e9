------------------------ MODULE RecipePipelineProofs ------------------------
(* Theorems about recipes and their lines, for any number of recipes,      *)
(* handlers, jobs, lines, attempts and workers.                            *)
EXTENDS RecipePipeline, TLAPS

JobSteps == {"read", "extract", "clear", "attach", "ready", "failed"}

\* Where an actor can stand, and what it then has in hand.
Standing ==
    /\ \A a \in Actors :
          /\ ~At(a, "idle") => run[a].on \in Recipes /\ status[run[a].on] # "none"
          /\ At(a, "idle") => run[a].on = Nothing
    /\ \A h \in Handlers :
          /\ run[h].at \in {"idle", "process", "enqueue", "delete", "clear", "attach", "ready"}
          /\ run[h].at \in {"process", "enqueue"} => run[h].does \in {"import", "reprocess"}
    /\ \A j \in Jobs :
          /\ job[j].state = "active" <=> ~At(j, "idle")
          /\ run[j].at \in JobSteps \cup {"idle"}
          /\ job[j].state = "active" => job[j].on = run[j].on
          /\ job[j].state # "none" => job[j].on \in Recipes /\ status[job[j].on] # "none"

TypeInv == TypeOK /\ Standing

LEMMA NoLinesType == NoLines \in Written
BY DEF NoLines, Written

LEMMA TypeInit == Init => TypeInv
<1> SUFFICES ASSUME Init PROVE TypeInv
    OBVIOUS
<1>1. Resting \in Run /\ NoJob \in Job
      BY ConstantsAssumption DEF Resting, Run, NoJob, Job
<1>2. TypeOK
      BY <1>1, NoLinesType DEF Init, TypeOK
<1>3. Standing
      BY ConstantsAssumption DEF Init, Standing, Resting, NoJob, At, Actors
<1> QED BY <1>2, <1>3 DEF TypeInv

LEMMA TypeStep == TypeInv /\ [Next]_vars => TypeInv'
<1> USE ConstantsAssumption
<1> SUFFICES ASSUME TypeInv, [Next]_vars PROVE TypeInv'
    OBVIOUS
<1>1. ASSUME NEW h \in Handlers, NEW i \in Recipes, CreateManual(h, i) PROVE TypeInv'
      <2> USE DEF CreateManual, Start, Actors, At
      <2>1. run' \in [Actors -> Run]
            BY <1>1 DEF TypeInv, TypeOK, Standing, Run, Job
      <2>2. job' \in [Jobs -> Job]
            BY <1>1 DEF TypeInv, TypeOK, Standing, Run, Job, NoJob
      <2>3. TypeOK'
            BY <1>1, <2>1, <2>2 DEF TypeInv, TypeOK, Standing
      <2>4. Standing'
            BY <1>1, <2>1, <2>2 DEF TypeInv, TypeOK, Standing, JobSteps, Run, Job, Resting, NoJob
      <2> QED BY <2>3, <2>4 DEF TypeInv
<1>2. ASSUME NEW h \in Handlers, NEW i \in Recipes, Import(h, i) PROVE TypeInv'
      <2> USE DEF Import, Start, Actors, At
      <2>1. run' \in [Actors -> Run]
            BY <1>2 DEF TypeInv, TypeOK, Standing, Run, Job
      <2>2. job' \in [Jobs -> Job]
            BY <1>2 DEF TypeInv, TypeOK, Standing, Run, Job, NoJob
      <2>3. TypeOK'
            BY <1>2, <2>1, <2>2 DEF TypeInv, TypeOK, Standing
      <2>4. Standing'
            BY <1>2, <2>1, <2>2 DEF TypeInv, TypeOK, Standing, JobSteps, Run, Job, Resting, NoJob
      <2> QED BY <2>3, <2>4 DEF TypeInv
<1>3. ASSUME NEW h \in Handlers, NEW i \in Recipes, Update(h, i) PROVE TypeInv'
      <2> USE DEF Update, Start, Owned, recipe, Actors, At
      <2>1. run' \in [Actors -> Run]
            BY <1>3 DEF TypeInv, TypeOK, Standing, Run, Job
      <2>2. job' \in [Jobs -> Job]
            BY <1>3 DEF TypeInv, TypeOK, Standing, Run, Job, NoJob
      <2>3. TypeOK'
            BY <1>3, <2>1, <2>2 DEF TypeInv, TypeOK, Standing
      <2>4. Standing'
            BY <1>3, <2>1, <2>2 DEF TypeInv, TypeOK, Standing, JobSteps, Run, Job, Resting, NoJob
      <2> QED BY <2>3, <2>4 DEF TypeInv
<1>4. ASSUME NEW h \in Handlers, NEW i \in Recipes, Reprocess(h, i) PROVE TypeInv'
      <2> USE DEF Reprocess, Start, Owned, recipe, Actors, At
      <2>1. run' \in [Actors -> Run]
            BY <1>4 DEF TypeInv, TypeOK, Standing, Run, Job
      <2>2. job' \in [Jobs -> Job]
            BY <1>4 DEF TypeInv, TypeOK, Standing, Run, Job, NoJob
      <2>3. TypeOK'
            BY <1>4, <2>1, <2>2 DEF TypeInv, TypeOK, Standing
      <2>4. Standing'
            BY <1>4, <2>1, <2>2 DEF TypeInv, TypeOK, Standing, JobSteps, Run, Job, Resting, NoJob
      <2> QED BY <2>3, <2>4 DEF TypeInv
<1>5. ASSUME NEW h \in Handlers, SetProcessing(h) PROVE TypeInv'
      <2> USE DEF SetProcessing, Move, Actors, At
      <2>1. run' \in [Actors -> Run]
            BY <1>5 DEF TypeInv, TypeOK, Standing, Run, Job
      <2>2. job' \in [Jobs -> Job]
            BY <1>5 DEF TypeInv, TypeOK, Standing, Run, Job, NoJob
      <2>3. TypeOK'
            BY <1>5, <2>1, <2>2 DEF TypeInv, TypeOK, Standing
      <2>4. Standing'
            BY <1>5, <2>1, <2>2 DEF TypeInv, TypeOK, Standing, JobSteps, Run, Job, Resting, NoJob
      <2> QED BY <2>3, <2>4 DEF TypeInv
<1>6. ASSUME NEW h \in Handlers, NEW j \in Jobs, Enqueue(h, j) PROVE TypeInv'
      <2> USE DEF Enqueue, Rest, recipe, Actors, At
      <2>1. run' \in [Actors -> Run]
            BY <1>6 DEF TypeInv, TypeOK, Standing, Run, Job, Resting
      <2>2. job' \in [Jobs -> Job]
            BY <1>6 DEF TypeInv, TypeOK, Standing, Run, Job, NoJob
      <2>3. TypeOK'
            BY <1>6, <2>1, <2>2 DEF TypeInv, TypeOK, Standing
      <2>4. Standing'
            BY <1>6, <2>1, <2>2 DEF TypeInv, TypeOK, Standing, JobSteps, Run, Job, Resting, NoJob
      <2> QED BY <2>3, <2>4 DEF TypeInv
<1>7. ASSUME NEW h \in Handlers, NEW i \in Recipes, SoftDelete(h, i) PROVE TypeInv'
      <2> USE DEF SoftDelete, Start, Owned, recipe, Actors, At
      <2>1. run' \in [Actors -> Run]
            BY <1>7 DEF TypeInv, TypeOK, Standing, Run, Job
      <2>2. job' \in [Jobs -> Job]
            BY <1>7 DEF TypeInv, TypeOK, Standing, Run, Job, NoJob
      <2>3. TypeOK'
            BY <1>7, <2>1, <2>2 DEF TypeInv, TypeOK, Standing
      <2>4. Standing'
            BY <1>7, <2>1, <2>2 DEF TypeInv, TypeOK, Standing, JobSteps, Run, Job, Resting, NoJob
      <2> QED BY <2>3, <2>4 DEF TypeInv
<1>8. ASSUME NEW h \in Handlers, MarkDeleted(h) PROVE TypeInv'
      <2> USE DEF MarkDeleted, Rest, Actors, At
      <2>1. run' \in [Actors -> Run]
            BY <1>8 DEF TypeInv, TypeOK, Standing, Run, Job, Resting
      <2>2. job' \in [Jobs -> Job]
            BY <1>8 DEF TypeInv, TypeOK, Standing, Run, Job, NoJob
      <2>3. TypeOK'
            BY <1>8, <2>1, <2>2 DEF TypeInv, TypeOK, Standing
      <2>4. Standing'
            BY <1>8, <2>1, <2>2 DEF TypeInv, TypeOK, Standing, JobSteps, Run, Job, Resting, NoJob
      <2> QED BY <2>3, <2>4 DEF TypeInv
<1>9. ASSUME NEW h \in Handlers, HandlerFails(h) PROVE TypeInv'
      <2> USE DEF HandlerFails, Rest, recipe, Actors, At
      <2>1. run' \in [Actors -> Run]
            BY <1>9 DEF TypeInv, TypeOK, Standing, Run, Job, Resting
      <2>2. job' \in [Jobs -> Job]
            BY <1>9 DEF TypeInv, TypeOK, Standing, Run, Job, NoJob
      <2>3. TypeOK'
            BY <1>9, <2>1, <2>2 DEF TypeInv, TypeOK, Standing
      <2>4. Standing'
            BY <1>9, <2>1, <2>2 DEF TypeInv, TypeOK, Standing, JobSteps, Run, Job, Resting, NoJob
      <2> QED BY <2>3, <2>4 DEF TypeInv
<1>10. ASSUME NEW a \in Actors, Clear(a) PROVE TypeInv'
      <2> USE DEF Clear, Move, recipe, Actors, At
      <2>1. run' \in [Actors -> Run]
            BY <1>10 DEF TypeInv, TypeOK, Standing, Run, Job
      <2>2. job' \in [Jobs -> Job]
            BY <1>10 DEF TypeInv, TypeOK, Standing, Run, Job, NoJob
      <2>3. TypeOK'
            BY <1>10, <2>1, <2>2, NoLinesType DEF TypeInv, TypeOK, Standing
      <2>4. Standing'
            BY <1>10, <2>1, <2>2 DEF TypeInv, TypeOK, Standing, JobSteps, Run, Job, Resting, NoJob
      <2> QED BY <2>3, <2>4 DEF TypeInv
<1>11. ASSUME NEW a \in Actors, Attach(a) PROVE TypeInv'
      <2> USE DEF Attach, recipe, Actors, At
      <2>1. run' \in [Actors -> Run]
            BY <1>11 DEF TypeInv, TypeOK, Standing, Run, Job
      <2>2. job' \in [Jobs -> Job]
            BY <1>11 DEF TypeInv, TypeOK, Standing, Run, Job, NoJob
      <2>3. lines' \in [Recipes -> Written]
            <3> DEFINE i == run[a].on
                       k == <<Origin(a), run[a].line>>
            <3>1. i \in Recipes /\ run[a].line \in 1..Lines
                  BY <1>11 DEF TypeInv, TypeOK, Standing, Run
            <3>2. k \in Origins \X (1..Lines)
                  BY <3>1 DEF Origins, Origin
            <3>3. [lines[i] EXCEPT ![k] = @ + 1] \in Written
                  BY <3>1, <3>2 DEF TypeInv, TypeOK, Written
            <3> QED BY <1>11, <3>1, <3>3 DEF TypeInv, TypeOK
      <2>4. TypeOK'
            BY <1>11, <2>1, <2>2, <2>3 DEF TypeInv, TypeOK, Standing
      <2>5. Standing'
            BY <1>11, <2>1, <2>2 DEF TypeInv, TypeOK, Standing, JobSteps, Run, Job, Resting, NoJob
      <2> QED BY <2>4, <2>5 DEF TypeInv
<1>12. ASSUME NEW a \in Actors, Ready(a) PROVE TypeInv'
      <2> USE DEF Ready, Rest, Actors, At
      <2>1. run' \in [Actors -> Run]
            BY <1>12 DEF TypeInv, TypeOK, Standing, Run, Job, Resting
      <2>2. job' \in [Jobs -> Job]
            BY <1>12 DEF TypeInv, TypeOK, Standing, Run, Job, NoJob
      <2>3. TypeOK'
            BY <1>12, <2>1, <2>2 DEF TypeInv, TypeOK, Standing
      <2>4. Standing'
            BY <1>12, <2>1, <2>2 DEF TypeInv, TypeOK, Standing, JobSteps, Run, Job, Resting, NoJob
      <2> QED BY <2>3, <2>4 DEF TypeInv
<1>13. ASSUME NEW j \in Jobs, Take(j) PROVE TypeInv'
      <2> USE DEF Take, Start, recipe, Actors, At
      <2>1. run' \in [Actors -> Run]
            BY <1>13 DEF TypeInv, TypeOK, Standing, Run, Job
      <2>2. job' \in [Jobs -> Job]
            BY <1>13 DEF TypeInv, TypeOK, Standing, Run, Job, NoJob
      <2>3. TypeOK'
            BY <1>13, <2>1, <2>2 DEF TypeInv, TypeOK, Standing
      <2>4. Standing'
            BY <1>13, <2>1, <2>2 DEF TypeInv, TypeOK, Standing, JobSteps, Run, Job, Resting, NoJob
      <2> QED BY <2>3, <2>4 DEF TypeInv
<1>14. ASSUME NEW j \in Jobs, Read(j) PROVE TypeInv'
      <2> USE DEF Read, Move, recipe, Actors, At
      <2>1. run' \in [Actors -> Run]
            BY <1>14 DEF TypeInv, TypeOK, Standing, Run, Job
      <2>2. job' \in [Jobs -> Job]
            BY <1>14 DEF TypeInv, TypeOK, Standing, Run, Job, NoJob
      <2>3. TypeOK'
            BY <1>14, <2>1, <2>2 DEF TypeInv, TypeOK, Standing
      <2>4. Standing'
            BY <1>14, <2>1, <2>2 DEF TypeInv, TypeOK, Standing, JobSteps, Run, Job, Resting, NoJob
      <2> QED BY <2>3, <2>4 DEF TypeInv
<1>15. ASSUME NEW j \in Jobs, Skip(j) PROVE TypeInv'
      <2> USE DEF Skip, End, Rest, recipe, Actors, At
      <2>1. run' \in [Actors -> Run]
            BY <1>15 DEF TypeInv, TypeOK, Standing, Run, Job, Resting
      <2>2. job' \in [Jobs -> Job]
            BY <1>15 DEF TypeInv, TypeOK, Standing, Run, Job, NoJob
      <2>3. TypeOK'
            BY <1>15, <2>1, <2>2 DEF TypeInv, TypeOK, Standing
      <2>4. Standing'
            BY <1>15, <2>1, <2>2 DEF TypeInv, TypeOK, Standing, JobSteps, Run, Job, Resting, NoJob
      <2> QED BY <2>3, <2>4 DEF TypeInv
<1>16. ASSUME NEW j \in Jobs, Extract(j) PROVE TypeInv'
      <2> USE DEF Extract, Move, recipe, Actors, At
      <2>1. run' \in [Actors -> Run]
            BY <1>16 DEF TypeInv, TypeOK, Standing, Run, Job
      <2>2. job' \in [Jobs -> Job]
            BY <1>16 DEF TypeInv, TypeOK, Standing, Run, Job, NoJob
      <2>3. TypeOK'
            BY <1>16, <2>1, <2>2 DEF TypeInv, TypeOK, Standing
      <2>4. Standing'
            BY <1>16, <2>1, <2>2 DEF TypeInv, TypeOK, Standing, JobSteps, Run, Job, Resting, NoJob
      <2> QED BY <2>3, <2>4 DEF TypeInv
<1>17. ASSUME NEW j \in Jobs, NEW unrecoverable \in BOOLEAN,
             Throw(j, unrecoverable)
      PROVE  TypeInv'
      <2> USE DEF Throw, Settle, Rest, recipe, Actors, At
      <2>1. run' \in [Actors -> Run]
            BY <1>17 DEF TypeInv, TypeOK, Standing, Run, Job, Resting
      <2>2. job' \in [Jobs -> Job]
            <3> DEFINE again == Again(j, job[j].made + 1, job[j].stalls)
            <3>1. NoJob \in Job
                  BY DEF NoJob, Job
            <3>2. job[j].made + 1 < Attempts => again \in Job
                  BY DEF TypeInv, TypeOK, Job, Again
            <3>3. CASE unrecoverable \/ job[j].made + 1 >= Attempts
                  BY <1>17, <3>1, <3>3 DEF TypeInv, TypeOK
            <3>4. CASE ~(unrecoverable \/ job[j].made + 1 >= Attempts)
                  <4>1. job' = [job EXCEPT ![j] = again]
                        BY <1>17, <3>4
                  <4>2. job[j].made \in Nat
                        BY DEF TypeInv, TypeOK, Job
                  <4> QED BY <3>2, <3>4, <4>1, <4>2 DEF TypeInv, TypeOK
            <3> QED BY <3>3, <3>4
      <2>3. TypeOK'
            BY <1>17, <2>1, <2>2 DEF TypeInv, TypeOK, Standing
      <2>4. Standing'
            BY <1>17, <2>1, <2>2
               DEF TypeInv, TypeOK, Standing, JobSteps, Run, Job, Resting, NoJob, Again
      <2> QED BY <2>3, <2>4 DEF TypeInv
<1>18. ASSUME NEW j \in Jobs, NEW unrecoverable \in BOOLEAN,
             GiveUp(j, unrecoverable)
      PROVE  TypeInv'
      <2> USE DEF GiveUp, Move, recipe, Actors, At
      <2>1. run' \in [Actors -> Run]
            BY <1>18 DEF TypeInv, TypeOK, Standing, Run, Job
      <2>2. job' \in [Jobs -> Job]
            BY <1>18 DEF TypeInv, TypeOK, Standing, Run, Job, NoJob
      <2>3. TypeOK'
            BY <1>18, <2>1, <2>2 DEF TypeInv, TypeOK, Standing
      <2>4. Standing'
            BY <1>18, <2>1, <2>2 DEF TypeInv, TypeOK, Standing, JobSteps, Run, Job, Resting, NoJob
      <2> QED BY <2>3, <2>4 DEF TypeInv
<1>19. ASSUME NEW j \in Jobs, MarkFailed(j) PROVE TypeInv'
      <2> USE DEF MarkFailed, End, Rest, Actors, At
      <2>1. run' \in [Actors -> Run]
            BY <1>19 DEF TypeInv, TypeOK, Standing, Run, Job, Resting
      <2>2. job' \in [Jobs -> Job]
            BY <1>19 DEF TypeInv, TypeOK, Standing, Run, Job, NoJob
      <2>3. TypeOK'
            BY <1>19, <2>1, <2>2 DEF TypeInv, TypeOK, Standing
      <2>4. Standing'
            BY <1>19, <2>1, <2>2 DEF TypeInv, TypeOK, Standing, JobSteps, Run, Job, Resting, NoJob
      <2> QED BY <2>3, <2>4 DEF TypeInv
<1>20. ASSUME NEW j \in Jobs, MarkFailedFails(j) PROVE TypeInv'
      <2> USE DEF MarkFailedFails, End, Rest, recipe, Actors, At
      <2>1. run' \in [Actors -> Run]
            BY <1>20 DEF TypeInv, TypeOK, Standing, Run, Job, Resting
      <2>2. job' \in [Jobs -> Job]
            BY <1>20 DEF TypeInv, TypeOK, Standing, Run, Job, NoJob
      <2>3. TypeOK'
            BY <1>20, <2>1, <2>2 DEF TypeInv, TypeOK, Standing
      <2>4. Standing'
            BY <1>20, <2>1, <2>2 DEF TypeInv, TypeOK, Standing, JobSteps, Run, Job, Resting, NoJob
      <2> QED BY <2>3, <2>4 DEF TypeInv
<1>21. ASSUME NEW j \in Jobs, Stall(j) PROVE TypeInv'
      <2> USE DEF Stall, Rest, recipe, Actors, At
      <2>1. run' \in [Actors -> Run]
            BY <1>21 DEF TypeInv, TypeOK, Standing, Run, Job, Resting
      <2>2. job' \in [Jobs -> Job]
            <3> DEFINE again == Again(j, job[j].made, job[j].stalls + 1)
            <3>1. again \in Job
                  BY <1>21 DEF TypeInv, TypeOK, Job, Again
            <3> QED BY <1>21, <3>1 DEF TypeInv, TypeOK
      <2>3. TypeOK'
            BY <1>21, <2>1, <2>2 DEF TypeInv, TypeOK, Standing
      <2>4. Standing'
            BY <1>21, <2>1, <2>2
               DEF TypeInv, TypeOK, Standing, JobSteps, Run, Job, Resting, Again
      <2> QED BY <2>3, <2>4 DEF TypeInv
<1>22. ASSUME NEW j \in Jobs, Abandon(j) PROVE TypeInv'
      <2> USE DEF Abandon, End, Rest, recipe, Actors, At
      <2>1. run' \in [Actors -> Run]
            BY <1>22 DEF TypeInv, TypeOK, Standing, Run, Job, Resting
      <2>2. job' \in [Jobs -> Job]
            BY <1>22 DEF TypeInv, TypeOK, Standing, Run, Job, NoJob
      <2>3. TypeOK'
            BY <1>22, <2>1, <2>2 DEF TypeInv, TypeOK, Standing
      <2>4. Standing'
            BY <1>22, <2>1, <2>2 DEF TypeInv, TypeOK, Standing, JobSteps, Run, Job, Resting, NoJob
      <2> QED BY <2>3, <2>4 DEF TypeInv
<1>23. CASE UNCHANGED vars
      BY <1>23 DEF vars, TypeInv, TypeOK, Standing, At
<1> QED
    BY <1>1, <1>2, <1>3, <1>4, <1>5, <1>6, <1>7, <1>8, <1>9, <1>10, <1>11,
       <1>12, <1>13, <1>14, <1>15, <1>16, <1>17, <1>18, <1>19, <1>20, <1>21,
       <1>22, <1>23
    DEF Next, Begin, Continue, Work, Actors

\* Every reachable state is well typed, whatever is retried, stalled or given up.
THEOREM TypeCorrect == Spec => []TypeOK
<1>1. TypeInv => TypeOK
      BY DEF TypeInv
<1> QED BY <1>1, TypeInit, TypeStep, PTL DEF Spec

\* The invariant in full, for the theorems below.
LEMMA Typed == Spec => []TypeInv
BY TypeInit, TypeStep, PTL DEF Spec

-----------------------------------------------------------------------------
\* A recipe is left in PROCESSING by nobody but those who die.
LEMMA UnderwayStep == TypeInv /\ ProcessingIsUnderway /\ [Next]_vars => ProcessingIsUnderway'
<1> USE ConstantsAssumption
<1> SUFFICES ASSUME TypeInv, ProcessingIsUnderway, [Next]_vars PROVE ProcessingIsUnderway'
    OBVIOUS
<1>1. ASSUME NEW h \in Handlers, NEW i \in Recipes,
             CreateManual(h, i)
      PROVE  ProcessingIsUnderway'
      BY <1>1 DEF CreateManual, Start, ProcessingIsUnderway, Underway, TypeInv,
         TypeOK, Standing, JobSteps, Run, Job, Resting, NoJob, At, Actors
<1>2. ASSUME NEW h \in Handlers, NEW i \in Recipes,
             Import(h, i)
      PROVE  ProcessingIsUnderway'
      BY <1>2 DEF Import, Start, ProcessingIsUnderway, Underway, TypeInv, TypeOK,
         Standing, JobSteps, Run, Job, Resting, NoJob, At, Actors
<1>3. ASSUME NEW h \in Handlers, NEW i \in Recipes,
             Update(h, i)
      PROVE  ProcessingIsUnderway'
      BY <1>3 DEF Update, Start, Owned, recipe, ProcessingIsUnderway, Underway,
         TypeInv, TypeOK, Standing, JobSteps, Run, Job, Resting, NoJob, At, Actors
<1>4. ASSUME NEW h \in Handlers, NEW i \in Recipes,
             Reprocess(h, i)
      PROVE  ProcessingIsUnderway'
      BY <1>4 DEF Reprocess, Start, Owned, recipe, ProcessingIsUnderway, Underway,
         TypeInv, TypeOK, Standing, JobSteps, Run, Job, Resting, NoJob, At, Actors
<1>5. ASSUME NEW h \in Handlers, SetProcessing(h) PROVE ProcessingIsUnderway'
      BY <1>5 DEF SetProcessing, Move, ProcessingIsUnderway, Underway, TypeInv,
         TypeOK, Standing, JobSteps, Run, Job, Resting, NoJob, At, Actors
<1>6. ASSUME NEW h \in Handlers, NEW j \in Jobs, Enqueue(h, j) PROVE ProcessingIsUnderway'
      BY <1>6 DEF Enqueue, Rest, recipe, ProcessingIsUnderway, Underway, TypeInv,
         TypeOK, Standing, JobSteps, Run, Job, Resting, NoJob, At, Actors
<1>7. ASSUME NEW h \in Handlers, NEW i \in Recipes,
             SoftDelete(h, i)
      PROVE  ProcessingIsUnderway'
      BY <1>7 DEF SoftDelete, Start, Owned, recipe, ProcessingIsUnderway, Underway,
         TypeInv, TypeOK, Standing, JobSteps, Run, Job, Resting, NoJob, At, Actors
<1>8. ASSUME NEW h \in Handlers, MarkDeleted(h) PROVE ProcessingIsUnderway'
      BY <1>8 DEF MarkDeleted, Rest, ProcessingIsUnderway, Underway, TypeInv,
         TypeOK, Standing, JobSteps, Run, Job, Resting, NoJob, At, Actors
<1>9. ASSUME NEW h \in Handlers, HandlerFails(h) PROVE ProcessingIsUnderway'
      BY <1>9 DEF HandlerFails, Rest, recipe, ProcessingIsUnderway, Underway,
         TypeInv, TypeOK, Standing, JobSteps, Run, Job, Resting, NoJob, At, Actors
<1>10. ASSUME NEW a \in Actors, Clear(a) PROVE ProcessingIsUnderway'
      BY <1>10 DEF Clear, Move, recipe, ProcessingIsUnderway, Underway, TypeInv,
         TypeOK, Standing, JobSteps, Run, Job, Resting, NoJob, At, Actors
<1>11. ASSUME NEW a \in Actors, Attach(a) PROVE ProcessingIsUnderway'
      BY <1>11 DEF Attach, recipe, ProcessingIsUnderway, Underway, TypeInv, TypeOK,
         Standing, JobSteps, Run, Job, Resting, NoJob, At, Actors
<1>12. ASSUME NEW a \in Actors, Ready(a) PROVE ProcessingIsUnderway'
      BY <1>12 DEF Ready, Rest, ProcessingIsUnderway, Underway, TypeInv, TypeOK,
         Standing, JobSteps, Run, Job, Resting, NoJob, At, Actors
<1>13. ASSUME NEW j \in Jobs, Take(j) PROVE ProcessingIsUnderway'
      BY <1>13 DEF Take, Start, recipe, ProcessingIsUnderway, Underway, TypeInv,
         TypeOK, Standing, JobSteps, Run, Job, Resting, NoJob, At, Actors
<1>14. ASSUME NEW j \in Jobs, Read(j) PROVE ProcessingIsUnderway'
      BY <1>14 DEF Read, Move, recipe, ProcessingIsUnderway, Underway, TypeInv,
         TypeOK, Standing, JobSteps, Run, Job, Resting, NoJob, At, Actors
<1>15. ASSUME NEW j \in Jobs, Skip(j) PROVE ProcessingIsUnderway'
      BY <1>15 DEF Skip, End, Rest, recipe, ProcessingIsUnderway, Underway, TypeInv,
         TypeOK, Standing, JobSteps, Run, Job, Resting, NoJob, At, Actors
<1>16. ASSUME NEW j \in Jobs, Extract(j) PROVE ProcessingIsUnderway'
      BY <1>16 DEF Extract, Move, recipe, ProcessingIsUnderway, Underway, TypeInv,
         TypeOK, Standing, JobSteps, Run, Job, Resting, NoJob, At, Actors
<1>17. ASSUME NEW j \in Jobs, NEW unrecoverable \in BOOLEAN,
             Throw(j, unrecoverable)
      PROVE  ProcessingIsUnderway'
      BY <1>17 DEF Throw, IsFinal, Settle, Again, Rest, recipe, ProcessingIsUnderway,
         Underway, TypeInv, TypeOK, Standing, JobSteps, Run, Job, Resting, NoJob,
         At, Actors
<1>18. ASSUME NEW j \in Jobs, NEW unrecoverable \in BOOLEAN,
             GiveUp(j, unrecoverable)
      PROVE  ProcessingIsUnderway'
      BY <1>18 DEF GiveUp, Move, recipe, ProcessingIsUnderway, Underway, TypeInv,
         TypeOK, Standing, JobSteps, Run, Job, Resting, NoJob, At, Actors
<1>19. ASSUME NEW j \in Jobs, MarkFailed(j) PROVE ProcessingIsUnderway'
      BY <1>19 DEF MarkFailed, End, Rest, ProcessingIsUnderway, Underway, TypeInv,
         TypeOK, Standing, JobSteps, Run, Job, Resting, NoJob, At, Actors
<1>20. ASSUME NEW j \in Jobs, MarkFailedFails(j) PROVE ProcessingIsUnderway'
      BY <1>20 DEF MarkFailedFails, End, Rest, recipe, ProcessingIsUnderway,
         Underway, TypeInv, TypeOK, Standing, JobSteps, Run, Job, Resting, NoJob,
         At, Actors
<1>21. ASSUME NEW j \in Jobs, Stall(j) PROVE ProcessingIsUnderway'
      BY <1>21 DEF Stall, Again, Rest, recipe, ProcessingIsUnderway, Underway,
         TypeInv, TypeOK, Standing, JobSteps, Run, Job, Resting, NoJob, At, Actors
<1>22. ASSUME NEW j \in Jobs, Abandon(j) PROVE ProcessingIsUnderway'
      BY <1>22 DEF Abandon, End, Rest, recipe, ProcessingIsUnderway, Underway,
         TypeInv, TypeOK, Standing, JobSteps, Run, Job, Resting, NoJob, At, Actors
<1>23. CASE UNCHANGED vars
      BY <1>23 DEF vars, ProcessingIsUnderway, Underway, TypeInv, TypeOK, Standing,
         JobSteps, Run, Job, Resting, NoJob, At, Actors
<1> QED
    BY <1>1, <1>2, <1>3, <1>4, <1>5, <1>6, <1>7, <1>8, <1>9, <1>10, <1>11,
       <1>12, <1>13, <1>14, <1>15, <1>16, <1>17, <1>18, <1>19, <1>20, <1>21,
       <1>22, <1>23
    DEF Next, Begin, Continue, Work, Actors

\* Any number of attempts, edits and reprocessings keeps a recipe that shows
\* PROCESSING in somebody's hands, unless one of them died.
THEOREM NobodyForgets == Spec => []ProcessingIsUnderway
<1>1. Init => ProcessingIsUnderway
      BY DEF Init, ProcessingIsUnderway
<1> QED BY <1>1, UnderwayStep, Typed, PTL DEF Spec

-----------------------------------------------------------------------------
\* The first m lines written by one origin, and nothing else.
Upto(origin, m) ==
    [k \in Origins \X (1..Lines) |-> IF k[1] = origin /\ k[2] <= m THEN 1 ELSE 0]

\* How many lines the actor a has written since it cleared them.
Done(a) == IF At(a, "ready") THEN Lines ELSE run[a].line - 1

LEMMA UptoZero == ASSUME NEW origin PROVE NoLines = Upto(origin, 0)
<1>1. ASSUME NEW k \in Origins \X (1..Lines) PROVE ~(k[1] = origin /\ k[2] <= 0)
      BY <1>1, ConstantsAssumption
<1> QED BY <1>1 DEF NoLines, Upto

LEMMA UptoNext ==
    ASSUME NEW origin \in Origins, NEW n \in 1..Lines
    PROVE  [Upto(origin, n - 1) EXCEPT ![<<origin, n>>] = @ + 1] = Upto(origin, n)
<1> DEFINE before == Upto(origin, n - 1)
           after == [before EXCEPT ![<<origin, n>>] = @ + 1]
<1>1. ASSUME NEW p \in Origins, NEW m \in 1..Lines
      PROVE  before[<<p, m>>] = (IF p = origin /\ m <= n - 1 THEN 1 ELSE 0)
      BY DEF Upto
<1>2. ASSUME NEW p \in Origins, NEW m \in 1..Lines
      PROVE  after[<<p, m>>] = (IF p = origin /\ m <= n THEN 1 ELSE 0)
      <2>1. CASE p = origin /\ m = n
            <3>1. before[<<origin, n>>] = 0
                  BY <1>1, ConstantsAssumption
            <3>2. after[<<origin, n>>] = before[<<origin, n>>] + 1
                  BY DEF Upto
            <3> QED BY <2>1, <3>1, <3>2, ConstantsAssumption
      <2>2. CASE ~(p = origin /\ m = n)
            <3>1. after[<<p, m>>] = before[<<p, m>>]
                  BY <2>2 DEF Upto
            <3>2. p = origin => (m <= n - 1 <=> m <= n)
                  BY <2>2, ConstantsAssumption
            <3> QED BY <1>1, <3>1, <3>2
      <2> QED BY <2>1, <2>2
<1>3. ASSUME NEW k \in Origins \X (1..Lines)
      PROVE  after[k] = (IF k[1] = origin /\ k[2] <= n THEN 1 ELSE 0)
      <2>1. PICK p \in Origins, m \in 1..Lines : k = <<p, m>>
            OBVIOUS
      <2> QED BY <1>2, <2>1
<1>4. DOMAIN after = Origins \X (1..Lines) /\ after = [k \in DOMAIN after |-> after[k]]
      BY DEF Upto
<1>5. Upto(origin, n) = [k \in Origins \X (1..Lines) |-> after[k]]
      BY <1>3 DEF Upto
<1> QED BY <1>4, <1>5

\* An actor that is alone on a recipe's lines has written what it should.
Sole ==
    \A a \in Actors :
        run[a].at \in {"attach", "ready"} /\ run[a].on \notin shared =>
            /\ \A b \in Actors \ {a} : ~Rewriting(b, run[a].on)
            /\ lines[run[a].on] = Upto(Origin(a), Done(a))

\* Nothing has been written before the row exists or before the loop starts.
Fresh ==
    /\ \A i \in Recipes : status[i] = "none" => lines[i] = NoLines
    /\ \A a \in Actors : run[a].at \notin {"attach", "ready", "failed"} => run[a].line = 1

WholeInv == Sole /\ Fresh

LEMMA WholeStep == TypeInv /\ WholeInv /\ [Next]_vars => WholeInv'
<1> USE ConstantsAssumption
<1> SUFFICES ASSUME TypeInv, WholeInv, [Next]_vars PROVE WholeInv'
    OBVIOUS
<1>1. ASSUME NEW h \in Handlers, NEW i \in Recipes, CreateManual(h, i) PROVE WholeInv'
      <2>1. lines[i] = Upto(Origin(h), 0)
            BY <1>1, UptoZero DEF CreateManual, WholeInv, Fresh
      <2>2. \A b \in Actors \ {h} : ~Rewriting(b, i)
            BY <1>1 DEF CreateManual, At, Actors, TypeInv, TypeOK, Standing, Rewriting
      <2> QED
            BY <1>1, <2>1, <2>2
               DEF CreateManual, Start, TypeInv, TypeOK, Standing, Run, At, Actors, WholeInv, Sole, Fresh, Rewriting, Done
<1>2. ASSUME NEW h \in Handlers, NEW i \in Recipes, Import(h, i) PROVE WholeInv'
      BY <1>2 DEF Import, Start, TypeInv, TypeOK, Standing, JobSteps, Run, Resting,
         At, Actors, WholeInv, Sole, Fresh, Rewriting, Done
<1>3. ASSUME NEW h \in Handlers, NEW i \in Recipes, Update(h, i) PROVE WholeInv'
      BY <1>3 DEF Update, Start, Owned, recipe, TypeInv, TypeOK, Standing, JobSteps,
         Run, Resting, At, Actors, WholeInv, Sole, Fresh, Rewriting, Done
<1>4. ASSUME NEW h \in Handlers, NEW i \in Recipes, Reprocess(h, i) PROVE WholeInv'
      BY <1>4 DEF Reprocess, Start, Owned, recipe, TypeInv, TypeOK, Standing,
         JobSteps, Run, Resting, At, Actors, WholeInv, Sole, Fresh, Rewriting, Done
<1>5. ASSUME NEW h \in Handlers, SetProcessing(h) PROVE WholeInv'
      BY <1>5 DEF SetProcessing, Move, TypeInv, TypeOK, Standing, JobSteps, Run,
         Resting, At, Actors, WholeInv, Sole, Fresh, Rewriting, Done
<1>6. ASSUME NEW h \in Handlers, NEW j \in Jobs, Enqueue(h, j) PROVE WholeInv'
      BY <1>6 DEF Enqueue, Rest, recipe, TypeInv, TypeOK, Standing, JobSteps, Run,
         Resting, At, Actors, WholeInv, Sole, Fresh, Rewriting, Done
<1>7. ASSUME NEW h \in Handlers, NEW i \in Recipes, SoftDelete(h, i) PROVE WholeInv'
      BY <1>7 DEF SoftDelete, Start, Owned, recipe, TypeInv, TypeOK, Standing,
         JobSteps, Run, Resting, At, Actors, WholeInv, Sole, Fresh, Rewriting, Done
<1>8. ASSUME NEW h \in Handlers, MarkDeleted(h) PROVE WholeInv'
      BY <1>8 DEF MarkDeleted, Rest, TypeInv, TypeOK, Standing, JobSteps, Run,
         Resting, At, Actors, WholeInv, Sole, Fresh, Rewriting, Done
<1>9. ASSUME NEW h \in Handlers, HandlerFails(h) PROVE WholeInv'
      BY <1>9 DEF HandlerFails, Rest, recipe, TypeInv, TypeOK, Standing, JobSteps,
         Run, Resting, At, Actors, WholeInv, Sole, Fresh, Rewriting, Done
<1>10. ASSUME NEW a \in Actors, Clear(a) PROVE WholeInv'
      <2> DEFINE i == run[a].on
      <2>1. i \in Recipes /\ lines'[i] = Upto(Origin(a), 0)
            BY <1>10, UptoZero DEF Clear, TypeInv, TypeOK, Standing, At
      <2>2. i \notin shared' => \A b \in Actors \ {a} : ~Rewriting(b, i)
            BY <1>10 DEF Clear
      <2>3. run[a].line = 1
            BY <1>10 DEF Clear, At, WholeInv, Fresh
      <2> QED
            BY <1>10, <2>1, <2>2, <2>3
               DEF Clear, Move, recipe, TypeInv, TypeOK, Standing, JobSteps, Run, Resting, At, Actors, WholeInv, Sole, Fresh, Rewriting, Done
<1>11. ASSUME NEW a \in Actors, Attach(a) PROVE WholeInv'
      <2> DEFINE i == run[a].on
                 n == run[a].line
      <2>1. i \in Recipes /\ n \in 1..Lines
            BY <1>11 DEF Attach, TypeInv, TypeOK, Standing, At, Run
      <2>2. CASE i \notin shared
            <3>1. lines[i] = Upto(Origin(a), n - 1) /\ \A b \in Actors \ {a} : ~Rewriting(b, i)
                  BY <1>11, <2>2 DEF Attach, At, WholeInv, Sole, Done
            <3>2. lines'[i] = Upto(Origin(a), n)
                  BY <1>11, <2>1, <3>1, UptoNext DEF Attach, TypeInv, TypeOK, Origin, Origins
            <3> QED
                  BY <1>11, <2>1, <2>2, <3>1, <3>2
                     DEF Attach, recipe, TypeInv, TypeOK, Standing, JobSteps, Run, Resting, At, Actors, WholeInv, Sole, Fresh, Rewriting, Done
      <2>3. CASE i \in shared
            BY <1>11, <2>1, <2>3
               DEF Attach, recipe, TypeInv, TypeOK, Standing, JobSteps, Run, Resting, At, Actors, WholeInv, Sole, Fresh, Rewriting, Done
      <2> QED BY <2>2, <2>3
<1>12. ASSUME NEW a \in Actors, Ready(a) PROVE WholeInv'
      BY <1>12 DEF Ready, Rest, TypeInv, TypeOK, Standing, JobSteps, Run, Resting,
         At, Actors, WholeInv, Sole, Fresh, Rewriting, Done
<1>13. ASSUME NEW j \in Jobs, Take(j) PROVE WholeInv'
      BY <1>13 DEF Take, Start, recipe, TypeInv, TypeOK, Standing, JobSteps, Run,
         Resting, At, Actors, WholeInv, Sole, Fresh, Rewriting, Done
<1>14. ASSUME NEW j \in Jobs, Read(j) PROVE WholeInv'
      BY <1>14 DEF Read, Move, recipe, TypeInv, TypeOK, Standing, JobSteps, Run,
         Resting, At, Actors, WholeInv, Sole, Fresh, Rewriting, Done
<1>15. ASSUME NEW j \in Jobs, Skip(j) PROVE WholeInv'
      BY <1>15 DEF Skip, End, Rest, recipe, TypeInv, TypeOK, Standing, JobSteps,
         Run, Resting, At, Actors, WholeInv, Sole, Fresh, Rewriting, Done
<1>16. ASSUME NEW j \in Jobs, Extract(j) PROVE WholeInv'
      BY <1>16 DEF Extract, Move, recipe, TypeInv, TypeOK, Standing, JobSteps, Run,
         Resting, At, Actors, WholeInv, Sole, Fresh, Rewriting, Done
<1>17. ASSUME NEW j \in Jobs, NEW unrecoverable \in BOOLEAN,
             Throw(j, unrecoverable)
      PROVE  WholeInv'
      BY <1>17 DEF Throw, Settle, Again, Rest, recipe, TypeInv, TypeOK, Standing,
         JobSteps, Run, Resting, At, Actors, WholeInv, Sole, Fresh, Rewriting, Done
<1>18. ASSUME NEW j \in Jobs, NEW unrecoverable \in BOOLEAN,
             GiveUp(j, unrecoverable)
      PROVE  WholeInv'
      BY <1>18 DEF GiveUp, Move, recipe, TypeInv, TypeOK, Standing, JobSteps, Run,
         Resting, At, Actors, WholeInv, Sole, Fresh, Rewriting, Done
<1>19. ASSUME NEW j \in Jobs, MarkFailed(j) PROVE WholeInv'
      BY <1>19 DEF MarkFailed, End, Rest, TypeInv, TypeOK, Standing, JobSteps, Run,
         Resting, At, Actors, WholeInv, Sole, Fresh, Rewriting, Done
<1>20. ASSUME NEW j \in Jobs, MarkFailedFails(j) PROVE WholeInv'
      BY <1>20 DEF MarkFailedFails, End, Rest, recipe, TypeInv, TypeOK, Standing,
         JobSteps, Run, Resting, At, Actors, WholeInv, Sole, Fresh, Rewriting, Done
<1>21. ASSUME NEW j \in Jobs, Stall(j) PROVE WholeInv'
      BY <1>21 DEF Stall, Again, Rest, recipe, TypeInv, TypeOK, Standing, JobSteps,
         Run, Resting, At, Actors, WholeInv, Sole, Fresh, Rewriting, Done
<1>22. ASSUME NEW j \in Jobs, Abandon(j) PROVE WholeInv'
      BY <1>22 DEF Abandon, End, Rest, recipe, TypeInv, TypeOK, Standing, JobSteps,
         Run, Resting, At, Actors, WholeInv, Sole, Fresh, Rewriting, Done
<1>23. CASE UNCHANGED vars
      BY <1>23 DEF vars, TypeInv, TypeOK, Standing, JobSteps, Run, Resting, At,
         Actors, WholeInv, Sole, Fresh, Rewriting, Done
<1> QED
    BY <1>1, <1>2, <1>3, <1>4, <1>5, <1>6, <1>7, <1>8, <1>9, <1>10, <1>11,
       <1>12, <1>13, <1>14, <1>15, <1>16, <1>17, <1>18, <1>19, <1>20, <1>21,
       <1>22, <1>23
    DEF Next, Begin, Continue, Work, Actors

\* However often a recipe is retried, stalled, edited or reprocessed, an actor
\* that had its lines to itself declares READY exactly what it wrote.
THEOREM ReadyIsWhole == Spec => []WholeWhenReady
<1>1. Init => WholeInv
      BY ConstantsAssumption DEF Init, WholeInv, Sole, Fresh, Resting, Actors
<1>2. TypeInv /\ WholeInv => WholeWhenReady
      BY ConstantsAssumption
         DEF WholeInv, Sole, WholeWhenReady, Complete, Upto, Done, At
<1> QED BY <1>1, <1>2, WholeStep, Typed, PTL DEF Spec
=============================================================================
