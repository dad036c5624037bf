----------------------- MODULE ProjectRefresh_proofs -----------------------
(***************************************************************************)
(* Proofs about ProjectRefresh for every set of refreshes, updates and     *)
(* deployments, every set of items, views, tags and configurations and     *)
(* every bound.                                                            *)
(***************************************************************************)
EXTENDS ProjectRefresh, TLAPS

USE JobsAssumption, ConfigsAssumption, BoundsAssumption

-----------------------------------------------------------------------------
(* What types rest on: a saver indexes once, so that its rows are not there  *)
(* before it inserts them, and the tags of the configuration exist.          *)

TagsExist == \A t \in yamlDefined : tagUuid[t] # None

BeforeIndex == {"idle", "add", "queued", "mark", "step", "testing", "compiling",
                "replaceTags", "replaceParameters", "readTags", "readIcons", "readEdges",
                "save", "queueIndex"}

CompilePhases == {"idle", "compiling", "replaceTags", "replaceParameters", "readTags",
                  "readIcons", "readEdges", "save", "queueIndex"}

IndexedOnce ==
    \A j \in Savers :
        /\ run[j].phase \in BeforeIndex \/ run[j].step = "test" => index[j].phase = "none"
        /\ run[j].phase \in CompilePhases => run[j].step = "compile"

FreshRows ==
    \A j \in Savers :
        index[j].phase \in {"none", "queued", "readYamlTags", "delete", "insert"} =>
            \A r \in catalog.rows : r[2] # j

TInv ==
    /\ TypeOK
    /\ TagsExist
    /\ IndexedOnce
    /\ FreshRows

-----------------------------------------------------------------------------
(* Type correctness. *)

LEMMA GotoType ==
  ASSUME NEW j \in Savers, NEW p \in RunPhases, run \in [Savers -> Runs], Goto(j, p)
  PROVE  /\ run' \in [Savers -> Runs]
         /\ \A k \in Savers : /\ run'[k] = IF k = j THEN [run[j] EXCEPT !.phase = p] ELSE run[k]
                              /\ run'[k].phase = IF k = j THEN p ELSE run[k].phase
                              /\ run'[k].step = run[k].step
                              /\ run'[k].dbt = run[k].dbt
                              /\ run'[k].config = run[k].config
                              /\ run'[k].prev = run[k].prev
  BY DEF Goto, Runs

LEMMA ProceedType ==
  ASSUME NEW j \in Savers, NEW p \in IndexPhases, index \in [Savers -> Indexings], Proceed(j, p)
  PROVE  /\ index' \in [Savers -> Indexings]
         /\ \A k \in Savers : index'[k].phase = IF k = j THEN p ELSE index[k].phase
  BY DEF Proceed, Indexings

\* Nothing that an action leaves alone has to be shown again.
LEMMA ProjectType ==
  ASSUME TInv, UNCHANGED project
  PROVE  /\ tagUuid' \in [Tags -> Uuids \cup {None}]
         /\ yamlDefined' \subseteq Tags
         /\ parameters' \in Configs
         /\ explores' \in Explores
         /\ catalog' \in [rows: SUBSET Rows,
                          tags: SUBSET (Rows \X Tags),
                          yaml: SUBSET (Rows \X Tags),
                          icons: SUBSET Rows,
                          edges: SUBSET (Rows \X Rows)]
         /\ References'
         /\ TagsExist'
  BY DEF TInv, TypeOK, References, TagsExist, project

LEMMA FreshRowsKept ==
  ASSUME FreshRows, UNCHANGED <<catalog, index>>
  PROVE  FreshRows'
  BY DEF FreshRows

\* A step of a run that changes job rows and locks, and no table of the project.
LEMMA RunStepType ==
  ASSUME TInv,
         NEW j \in Savers,
         run' \in [Savers -> Runs],
         \A k \in Savers \ {j} : run'[k] = run[k],
         run'[j].phase \in BeforeIndex \/ run'[j].step = "test" => index[j].phase = "none",
         run'[j].phase \in CompilePhases => run'[j].step = "compile",
         job' \in [Jobs -> JobRows],
         lock' \in Refreshes \cup {None},
         dbt' \in BOOLEAN,
         faults' \in 0 .. MaxFaults,
         UNCHANGED <<project, index, edits>>
  PROVE  TInv'
<1>1. IndexedOnce'
  BY DEF TInv, IndexedOnce
<1>2. FreshRows'
  BY FreshRowsKept DEF TInv, project
<1> QED
  BY <1>1, <1>2, ProjectType DEF TInv, TypeOK

LEMMA GotoStepType ==
  ASSUME TInv,
         NEW j \in Savers, NEW p \in RunPhases,
         Goto(j, p),
         p \in BeforeIndex => run[j].phase \in BeforeIndex \/ run[j].step = "test",
         p \in CompilePhases => run[j].phase \in CompilePhases \/ run[j].step = "compile",
         job' \in [Jobs -> JobRows],
         lock' \in Refreshes \cup {None},
         dbt' \in BOOLEAN,
         faults' \in 0 .. MaxFaults,
         UNCHANGED <<project, index, edits>>
  PROVE  TInv'
<1>1. run' \in [Savers -> Runs]
  BY GotoType DEF TInv, TypeOK
<1>2. \A k \in Savers \ {j} : run'[k] = run[k]
  BY GotoType DEF TInv, TypeOK
<1>3. run'[j].phase = p /\ run'[j].step = run[j].step
  BY GotoType DEF TInv, TypeOK
<1>4. /\ run'[j].phase \in BeforeIndex \/ run'[j].step = "test" => index[j].phase = "none"
      /\ run'[j].phase \in CompilePhases => run'[j].step = "compile"
  BY <1>3 DEF TInv, IndexedOnce
<1> QED
  BY <1>1, <1>2, <1>4, RunStepType

LEMMA CreatedType ==
  ASSUME NEW S
  PROVE  Created(S) \in JobRows
  BY DEF Created, JobRows, StepStatuses

LEMMA WithStatusType ==
  ASSUME TypeOK, NEW j \in Jobs, NEW status \in {"RUNNING", "DONE", "ERROR"}
  PROVE  WithStatus(j, status) \in [Jobs -> JobRows]
  BY DEF WithStatus, TypeOK, JobRows

LEMMA WithStepType ==
  ASSUME TypeOK, NEW j \in Jobs, NEW status \in {"RUNNING", "DONE", "ERROR"}
  PROVE  WithStep(j, status) \in [Jobs -> JobRows]
<1>1. run[j].step \in {"test", "compile"} /\ job[j] \in JobRows
  BY DEF TypeOK, Runs, Savers
<1> DEFINE new == [job[j] EXCEPT !.steps[run[j].step] = IF @ = "none" THEN @ ELSE status]
<1>2. new \in JobRows
  BY <1>1 DEF JobRows, StepStatuses
<1>3. WithStep(j, status) = [job EXCEPT ![j] = new]
  BY DEF WithStep, TypeOK, JobRows
<1> HIDE DEF new
<1> QED
  BY <1>2, <1>3 DEF TypeOK

LEMMA SkippedType ==
  ASSUME TypeOK, NEW j \in Jobs
  PROVE  Skipped(j) \in [{"test", "compile"} -> StepStatuses]
  BY DEF Skipped, TypeOK, JobRows, StepStatuses

LEMMA StepEndedType ==
  ASSUME TypeOK, NEW j \in Jobs, NEW status \in {"DONE", "ERROR"}
  PROVE  StepEnded(j, status) \in [Jobs -> JobRows]
<1>1. run[j].step \in {"test", "compile"} /\ job[j] \in JobRows
  BY DEF TypeOK, Runs, Savers
<1> DEFINE new == [job[j] EXCEPT !.steps[run[j].step] = IF @ = "none" THEN @ ELSE status,
                                 !.status = IF status = "ERROR" THEN "ERROR" ELSE "RUNNING"]
<1>2. new \in JobRows
  BY <1>1 DEF JobRows, StepStatuses
<1>3. StepEnded(j, status) = [job EXCEPT ![j] = new]
  BY DEF StepEnded, TypeOK, JobRows
<1> HIDE DEF new
<1> QED
  BY <1>2, <1>3 DEF TypeOK

LEMMA InitType == Init => TInv
<1> SUFFICES ASSUME Init PROVE TInv
  OBVIOUS
<1>1. PICK views \in SUBSET Views, marked \in SUBSET InitConfig.items :
         LET items == InitConfig.items \cup views
             rows == marked \X {Initial}
         IN  /\ explores = [uuid |-> [i \in Items |-> IF i \in items \cup InitConfig.broken
                                                     THEN Initial ELSE None],
                            config |-> InitConfig]
             /\ catalog = [rows  |-> items \X {Initial},
                           tags  |-> rows \X (Tags \ YamlTags),
                           yaml  |-> {m \in (items \X {Initial}) \X Tags :
                                        <<MetricOf[m[1][1]], m[2]>> \in InitConfig.categories},
                           icons |-> rows,
                           edges |-> {e \in rows \X rows :
                                        MetricOf[e[1][1]] # MetricOf[e[2][1]]}]
  BY DEF Init
<1> DEFINE items == InitConfig.items \cup views
           rows == marked \X {Initial}
<1>2. /\ InitConfig \in ConfigType
      /\ InitConfig.categories \subseteq Metrics(InitConfig.items) \X InitConfig.defined
      /\ InitConfig.items \subseteq Items /\ InitConfig.defined \subseteq Tags
      /\ InitConfig.defined \subseteq YamlTags
  BY MetricsAssumption DEF ConfigType, YamlTags
<1>3. items \X {Initial} \subseteq Rows /\ rows \subseteq items \X {Initial}
  BY <1>2 DEF Rows
<1>4. explores \in Explores
  BY <1>1 DEF Uuids, Explores
<1>5. /\ catalog.rows = items \X {Initial}
      /\ catalog.tags = rows \X (Tags \ YamlTags)
      /\ catalog.yaml = {m \in (items \X {Initial}) \X Tags :
                           <<MetricOf[m[1][1]], m[2]>> \in InitConfig.categories}
      /\ catalog.icons = rows
      /\ catalog.edges = {e \in rows \X rows : MetricOf[e[1][1]] # MetricOf[e[2][1]]}
  BY <1>1
<1>6. /\ catalog.yaml \subseteq catalog.rows \X InitConfig.defined
      /\ catalog.tags \subseteq catalog.rows \X (Tags \ YamlTags)
      /\ catalog.icons \subseteq catalog.rows
      /\ catalog.edges \subseteq catalog.rows \X catalog.rows
  BY <1>2, <1>3, <1>5
<1>7. catalog \in [rows: SUBSET Rows,
                   tags: SUBSET (Rows \X Tags),
                   yaml: SUBSET (Rows \X Tags),
                   icons: SUBSET Rows,
                   edges: SUBSET (Rows \X Rows)]
  BY <1>1, <1>2, <1>3, <1>5, <1>6
<1>8. References
  <2>1. \A r \in catalog.rows : explores.uuid[r[1]] # None
    BY <1>1, <1>2, <1>5 DEF Uuids
  <2>2. \A m \in catalog.tags \cup catalog.yaml : tagUuid[m[2]] # None
    BY <1>2, <1>6 DEF Init, Uuids
  <2>3. catalog.tags \cap catalog.yaml = {}
    BY <1>2, <1>6
  <2> QED
    BY <1>2, <1>6, <2>1, <2>2, <2>3 DEF References
<1>9. tagUuid \in [Tags -> Uuids \cup {None}] /\ yamlDefined \subseteq Tags /\ TagsExist
  BY <1>2 DEF Init, TagsExist, Uuids
<1>10. run \in [Savers -> Runs] /\ IndexedOnce
  BY DEF Init, Runs, RunPhases, IndexedOnce, NoPayload, Payloads
<1>11. index \in [Savers -> Indexings]
  BY <1>4 DEF Init, Indexings, IndexPhases
<1>12. job \in [Jobs -> JobRows]
  BY DEF Init, JobRows, StepStatuses
<1>13. FreshRows
  BY <1>5 DEF FreshRows
<1>14. dbt \in BOOLEAN /\ lock = None /\ edits = 0 /\ faults = 0 /\ parameters = InitConfig
  BY DEF Init
<1> QED
  BY <1>4, <1>7, <1>8, <1>9, <1>10, <1>11, <1>12, <1>13, <1>14 DEF TInv, TypeOK

\* What TInv says, and what most steps use of it.
CatalogTables == [rows: SUBSET Rows,
                  tags: SUBSET (Rows \X Tags),
                  yaml: SUBSET (Rows \X Tags),
                  icons: SUBSET Rows,
                  edges: SUBSET (Rows \X Rows)]

LEMMA TableFacts ==
  ASSUME TInv
  PROVE  /\ catalog \in CatalogTables
         /\ References /\ TagsExist /\ IndexedOnce /\ FreshRows
         /\ run \in [Savers -> Runs]
         /\ index \in [Savers -> Indexings]
         /\ tagUuid \in [Tags -> Uuids \cup {None}]
         /\ yamlDefined \subseteq Tags
         /\ parameters \in Configs
         /\ explores \in Explores
         /\ edits \in 0 .. MaxEdits
  BY DEF TInv, TypeOK, CatalogTables

LEMMA SaverFacts ==
  ASSUME TInv
  PROVE  /\ Refreshes \subseteq Jobs /\ Updates \subseteq Jobs
         /\ Jobs \subseteq Savers /\ Deploys \subseteq Savers
         /\ \A j \in Savers : run[j] \in Runs
         /\ job \in [Jobs -> JobRows]
         /\ lock \in Refreshes \cup {None}
         /\ dbt \in BOOLEAN
         /\ faults \in 0 .. MaxFaults
         /\ \A j \in Savers : (IF lock = j THEN None ELSE lock) \in Refreshes \cup {None}
  BY DEF TInv, TypeOK, Jobs, Savers

LEMMA ScheduleCompileProjectType ==
  ASSUME TInv, NEW r \in Refreshes, ScheduleCompileProject(r)
  PROVE  TInv'
<1>1. job' \in [Jobs -> JobRows]
  BY CreatedType, SaverFacts DEF ScheduleCompileProject
<1> QED
  BY <1>1, GotoStepType, SaverFacts
     DEF ScheduleCompileProject, At, BeforeIndex, CompilePhases, RunPhases, counters

LEMMA UpdateAndScheduleAsyncWorkType ==
  ASSUME TInv, NEW u \in Updates, NEW toDbt \in BOOLEAN, UpdateAndScheduleAsyncWork(u, toDbt)
  PROVE  TInv'
<1>1. job' \in [Jobs -> JobRows]
  BY CreatedType, SaverFacts DEF UpdateAndScheduleAsyncWork
<1>2. dbt' \in BOOLEAN
  BY DEF UpdateAndScheduleAsyncWork
<1>3. CASE toDbt
  BY <1>1, <1>2, <1>3, GotoStepType, SaverFacts
     DEF UpdateAndScheduleAsyncWork, At, BeforeIndex, CompilePhases, RunPhases, counters
<1>4. CASE ~toDbt
  BY <1>1, <1>2, <1>4, GotoStepType, SaverFacts
     DEF UpdateAndScheduleAsyncWork, At, BeforeIndex, CompilePhases, RunPhases, counters
<1> QED
  BY <1>3, <1>4

LEMMA AddCompileJobType ==
  ASSUME TInv, NEW j \in Jobs, AddCompileJob(j)
  PROVE  TInv'
  BY GotoStepType, SaverFacts DEF AddCompileJob, At, BeforeIndex, CompilePhases, RunPhases, counters

LEMMA TryAcquireProjectLockType ==
  ASSUME TInv, NEW r \in Refreshes, TryAcquireProjectLock(r)
  PROVE  TInv'
<1>1. CASE lock = None
  BY <1>1, GotoStepType, SaverFacts
     DEF TryAcquireProjectLock, At, BeforeIndex, CompilePhases, RunPhases, counters
<1>2. CASE lock # None
  BY <1>2, GotoStepType, SaverFacts
     DEF TryAcquireProjectLock, At, BeforeIndex, CompilePhases, RunPhases, counters
<1> QED
  BY <1>1, <1>2

LEMMA PhaseAndStepType ==
  ASSUME run \in [Savers -> Runs], NEW j \in Savers,
         NEW p \in RunPhases, NEW st \in {"test", "compile"},
         run' = [run EXCEPT ![j].phase = p, ![j].step = st]
  PROVE  /\ run' \in [Savers -> Runs]
         /\ \A k \in Savers \ {j} : run'[k] = run[k]
         /\ run'[j].phase = p
         /\ run'[j].step = st
         /\ run'[j].config = run[j].config
<1> DEFINE new == [run[j] EXCEPT !.phase = p, !.step = st]
<1>1. /\ new \in Runs /\ new.phase = p /\ new.step = st
      /\ new.config = run[j].config
  BY DEF Runs
<1>2. run' = [run EXCEPT ![j] = new]
  BY DEF Runs
<1> HIDE DEF new
<1> QED
  BY <1>1, <1>2

LEMMA PhaseAndDbtType ==
  ASSUME run \in [Savers -> Runs], NEW j \in Savers,
         NEW p \in RunPhases, NEW d \in BOOLEAN,
         run' = [run EXCEPT ![j].phase = p, ![j].dbt = d]
  PROVE  /\ run' \in [Savers -> Runs]
         /\ \A k \in Savers \ {j} : run'[k] = run[k]
         /\ run'[j].phase = p
         /\ run'[j].dbt = d
         /\ run'[j].step = run[j].step
         /\ run'[j].config = run[j].config
<1> DEFINE new == [run[j] EXCEPT !.phase = p, !.dbt = d]
<1>1. /\ new \in Runs /\ new.phase = p /\ new.dbt = d
      /\ new.step = run[j].step
      /\ new.config = run[j].config
  BY DEF Runs
<1>2. run' = [run EXCEPT ![j] = new]
  BY DEF Runs
<1> HIDE DEF new
<1> QED
  BY <1>1, <1>2

LEMMA PhaseAndConfigType ==
  ASSUME run \in [Savers -> Runs], NEW j \in Savers,
         NEW p \in RunPhases, NEW c \in Configs,
         run' = [run EXCEPT ![j].phase = p, ![j].config = c]
  PROVE  /\ run' \in [Savers -> Runs]
         /\ \A k \in Savers \ {j} : run'[k] = run[k]
         /\ run'[j].phase = p
         /\ run'[j].config = c
         /\ run'[j].step = run[j].step
<1> DEFINE new == [run[j] EXCEPT !.phase = p, !.config = c]
<1>1. /\ new \in Runs /\ new.phase = p /\ new.config = c
      /\ new.step = run[j].step
  BY DEF Runs
<1>2. run' = [run EXCEPT ![j] = new]
  BY DEF Runs
<1> HIDE DEF new
<1> QED
  BY <1>1, <1>2

LEMMA TestAndCompileProjectType ==
  ASSUME TInv, NEW u \in Updates, TestAndCompileProject(u)
  PROVE  TInv'
<1>1. run' \in [Savers -> Runs]
  BY SaverFacts, PhaseAndDbtType DEF TestAndCompileProject, RunPhases, TInv, TypeOK
<1>2. \A k \in Savers \ {u} : run'[k] = run[k]
  BY SaverFacts DEF TestAndCompileProject, TInv, TypeOK
<1>3. index[u].phase = "none" /\ run'[u].phase \notin CompilePhases
  BY SaverFacts, TableFacts, PhaseAndDbtType DEF TestAndCompileProject, RunPhases, At, TInv, IndexedOnce, BeforeIndex, CompilePhases
<1> QED
  BY <1>1, <1>2, <1>3, RunStepType, SaverFacts DEF TestAndCompileProject, counters

LEMMA MarkRunningType ==
  ASSUME TInv, NEW j \in Jobs, MarkRunning(j)
  PROVE  TInv'
<1>1. run' \in [Savers -> Runs]
  BY SaverFacts, PhaseAndStepType DEF MarkRunning, RunPhases, TInv, TypeOK
<1>2. \A k \in Savers \ {j} : run'[k] = run[k]
  BY SaverFacts DEF MarkRunning, TInv, TypeOK
<1>3. index[j].phase = "none" /\ run'[j].phase \notin CompilePhases
  BY SaverFacts, TableFacts, PhaseAndStepType DEF MarkRunning, RunPhases, At, TInv, IndexedOnce, BeforeIndex, CompilePhases
<1>4. job' \in [Jobs -> JobRows]
  BY WithStatusType DEF MarkRunning, TInv
<1> QED
  BY <1>1, <1>2, <1>3, <1>4, RunStepType, SaverFacts DEF MarkRunning, counters

LEMMA StartJobStepType ==
  ASSUME TInv, NEW j \in Jobs, StartJobStep(j)
  PROVE  TInv'
<1>1. run[j].step \in {"test", "compile"}
  BY SaverFacts DEF Runs
<1>4. job' \in [Jobs -> JobRows]
  BY WithStepType DEF StartJobStep, TInv
<1>5. CASE run[j].step = "test"
  BY <1>4, <1>5, GotoStepType, SaverFacts DEF StartJobStep, At, BeforeIndex, CompilePhases, RunPhases, counters
<1>6. CASE run[j].step # "test"
  <2>1. Goto(j, "compiling") /\ run[j].step = "compile"
    BY <1>1, <1>6 DEF StartJobStep
  <2> QED
    BY <1>4, <2>1, GotoStepType, SaverFacts
       DEF StartJobStep, At, BeforeIndex, CompilePhases, RunPhases, counters
<1> QED
  BY <1>5, <1>6

LEMMA TestProjectAdapterType ==
  ASSUME TInv, NEW u \in Updates, TestProjectAdapter(u)
  PROVE  TInv'
<1>1. CASE Goto(u, "stepDone")
  BY <1>1, GotoStepType, SaverFacts DEF TestProjectAdapter, At, BeforeIndex, CompilePhases, RunPhases, counters
<1>2. CASE Goto(u, "stepFailed")
  BY <1>2, GotoStepType, SaverFacts DEF TestProjectAdapter, At, BeforeIndex, CompilePhases, RunPhases, counters
<1> QED
  BY <1>1, <1>2 DEF TestProjectAdapter

LEMMA CompileAllExploresType ==
  ASSUME TInv, NEW j \in Jobs, CompileAllExplores(j)
  PROVE  TInv'
<1>1. CASE Goto(j, "stepFailed")
  BY <1>1, GotoStepType, SaverFacts DEF CompileAllExplores, At, BeforeIndex, CompilePhases, RunPhases, counters
<1>2. ASSUME NEW c \in Configs,
             run' = [run EXCEPT ![j].phase = "replaceTags", ![j].config = c]
      PROVE  TInv'
  <2>1. run' \in [Savers -> Runs]
    BY <1>2, SaverFacts, PhaseAndConfigType DEF RunPhases, TInv, TypeOK
  <2>2. \A k \in Savers \ {j} : run'[k] = run[k]
    BY <1>2, SaverFacts DEF TInv, TypeOK
  <2>3. index[j].phase = "none" /\ run'[j].step = "compile"
    BY <1>2, SaverFacts, TableFacts DEF CompileAllExplores, Runs, At, TInv, IndexedOnce, BeforeIndex, CompilePhases
  <2> QED
    BY <2>1, <2>2, <2>3, RunStepType, SaverFacts DEF CompileAllExplores, counters
<1> QED
  BY <1>1, <1>2 DEF CompileAllExplores

LEMMA DeployType ==
  ASSUME TInv, NEW d \in Deploys, Deploy(d)
  PROVE  TInv'
<1>1. PICK c \in Configs : run' = [run EXCEPT ![d].phase = "replaceTags", ![d].config = c]
  BY DEF Deploy
<1>2. run' \in [Savers -> Runs]
  BY <1>1, SaverFacts, PhaseAndConfigType DEF RunPhases, TInv, TypeOK
<1>3. \A k \in Savers \ {d} : run'[k] = run[k]
  BY <1>1, SaverFacts DEF TInv, TypeOK
<1>4. index[d].phase = "none" /\ run'[d].step = "compile"
  BY <1>1, SaverFacts, TableFacts DEF Deploy, Runs, At, TInv, IndexedOnce, BeforeIndex, CompilePhases
<1> QED
  BY <1>2, <1>3, <1>4, RunStepType, SaverFacts DEF Deploy, counters

LEMMA JobStepDoneType ==
  ASSUME TInv, NEW j \in Jobs, JobStepDone(j)
  PROVE  TInv'
<1>1. run' \in [Savers -> Runs]
  BY SaverFacts, PhaseAndStepType DEF JobStepDone, RunPhases, TInv, TypeOK
<1>2. \A k \in Savers \ {j} : run'[k] = run[k]
  BY SaverFacts DEF JobStepDone, TInv, TypeOK
<1>3. run'[j].step = "compile" /\ (run'[j].phase \in BeforeIndex => run[j].step = "test")
  BY SaverFacts DEF JobStepDone, TInv, TypeOK, Runs, BeforeIndex
<1>4. job' \in [Jobs -> JobRows]
  BY StepEndedType DEF JobStepDone, TInv
<1> QED
  BY <1>1, <1>2, <1>3, <1>4, RunStepType, SaverFacts DEF JobStepDone, counters, TInv, IndexedOnce

LEMMA FinishType ==
  ASSUME TInv, NEW j \in Jobs, Finish(j)
  PROVE  TInv'
<1>1. job' \in [Jobs -> JobRows]
  BY WithStatusType DEF Finish, TInv
<1> QED
  BY <1>1, GotoStepType, SaverFacts DEF Finish, At, BeforeIndex, CompilePhases, RunPhases, counters

LEMMA JobStepFailedType ==
  ASSUME TInv, NEW j \in Jobs, JobStepFailed(j)
  PROVE  TInv'
<1>1. job' \in [Jobs -> JobRows]
  BY StepEndedType DEF JobStepFailed, TInv
<1> QED
  BY <1>1, GotoStepType, SaverFacts DEF JobStepFailed, At, BeforeIndex, CompilePhases, RunPhases, counters

LEMMA FinishFailedType ==
  ASSUME TInv, NEW j \in Jobs, FinishFailed(j)
  PROVE  TInv'
<1>1. job' \in [Jobs -> JobRows]
  BY SaverFacts, SkippedType DEF FinishFailed, JobRows, TInv
<1> QED
  BY <1>1, GotoStepType, SaverFacts DEF FinishFailed, At, BeforeIndex, CompilePhases, RunPhases, counters

LEMMA FailType ==
  ASSUME NEW j \in Savers, Fail(j)
  PROVE  Goto(j, "ended") \/ Goto(j, "stepFailed")
  BY DEF Fail

LEMMA PartlyWrittenType ==
  ASSUME TInv, NEW j \in Savers, PartlyWritten(j)
  PROVE  job' \in [Jobs -> JobRows]
<1>1. TypeOK
  BY DEF TInv
<1>2. ASSUME j \in Jobs PROVE [job EXCEPT ![j].steps = Skipped(j)] \in [Jobs -> JobRows]
  BY <1>1, <1>2, SaverFacts, SkippedType DEF JobRows
<1>3. CASE UNCHANGED job
  BY <1>3, SaverFacts
<1>4. CASE j \in Jobs /\ \E s \in {"RUNNING", "DONE"} : job' = WithStatus(j, s)
  BY <1>1, <1>4, WithStatusType
<1>5. CASE j \in Jobs /\ \E s \in {"RUNNING", "DONE", "ERROR"} : job' = WithStep(j, s)
  BY <1>1, <1>5, WithStepType
<1>6. CASE j \in Jobs /\ job' = StepEnded(j, "DONE")
  BY <1>1, <1>6, StepEndedType
<1>7. CASE j \in Jobs /\ job' = [job EXCEPT ![j].steps = Skipped(j)]
  BY <1>2, <1>7
<1> QED
  BY <1>3, <1>4, <1>5, <1>6, <1>7 DEF PartlyWritten

LEMMA RunThrowsType ==
  ASSUME TInv, NEW j \in Savers, RunThrows(j), UNCHANGED <<project, edits>>,
         faults' \in 0 .. MaxFaults
  PROVE  TInv'
<1>1. job' \in [Jobs -> JobRows] /\ lock' \in Refreshes \cup {None} /\ dbt' \in BOOLEAN
  BY SaverFacts, PartlyWrittenType DEF RunThrows
<1>2. Goto(j, "ended") \/ Goto(j, "failed") \/ Goto(j, "stepFailed")
  BY FailType DEF RunThrows
<1>3. UNCHANGED <<project, index, edits>>
  BY DEF RunThrows
<1>4. CASE Goto(j, "ended")
  BY <1>1, <1>3, <1>4, GotoStepType DEF BeforeIndex, CompilePhases, RunPhases
<1>5. CASE Goto(j, "failed")
  BY <1>1, <1>3, <1>5, GotoStepType DEF BeforeIndex, CompilePhases, RunPhases
<1>6. CASE Goto(j, "stepFailed")
  BY <1>1, <1>3, <1>6, GotoStepType DEF BeforeIndex, CompilePhases, RunPhases
<1> QED
  BY <1>2, <1>4, <1>5, <1>6

LEMMA UpdateThrowsType ==
  ASSUME TInv, NEW u \in Updates, UpdateThrows(u), UNCHANGED <<project, edits>>,
         faults' \in 0 .. MaxFaults
  PROVE  TInv'
  BY GotoStepType, SaverFacts DEF UpdateThrows, BeforeIndex, CompilePhases, RunPhases

-----------------------------------------------------------------------------
(* Type correctness: tables of the project. *)

\* What cascades leaves tables of the same shape.
LEMMA WithoutRowsFacts ==
  ASSUME NEW gone, catalog \in CatalogTables, References
  PROVE  /\ WithoutRows(gone) \in CatalogTables
         /\ WithoutRows(gone).rows = catalog.rows \ gone
         /\ WithoutRows(gone).tags \subseteq catalog.tags
         /\ WithoutRows(gone).yaml \subseteq catalog.yaml
         /\ WithoutRows(gone).tags \cup WithoutRows(gone).yaml \subseteq (catalog.rows \ gone) \X Tags
         /\ WithoutRows(gone).icons \subseteq catalog.rows \ gone
         /\ WithoutRows(gone).edges \subseteq (catalog.rows \ gone) \X (catalog.rows \ gone)
  BY DEF WithoutRows, CatalogTables, References

LEMMA WithoutTagsFacts ==
  ASSUME NEW gone, catalog \in CatalogTables, References
  PROVE  /\ WithoutTags(gone) \in CatalogTables
         /\ WithoutTags(gone).rows = catalog.rows
         /\ WithoutTags(gone).tags = {m \in catalog.tags : m[2] \notin gone}
         /\ WithoutTags(gone).yaml = {m \in catalog.yaml : m[2] \notin gone}
         /\ WithoutTags(gone).icons = catalog.icons
         /\ WithoutTags(gone).edges = catalog.edges
  BY DEF WithoutTags, CatalogTables, References

\* A step that changes tables and indexings, with or without a step of a run.
LEMMA TablesType ==
  ASSUME TInv,
         tagUuid' \in [Tags -> Uuids \cup {None}],
         yamlDefined' \subseteq Tags,
         parameters' \in Configs,
         explores' \in Explores,
         catalog' \in CatalogTables,
         run' \in [Savers -> Runs],
         index' \in [Savers -> Indexings],
         edits' \in 0 .. MaxEdits,
         faults' \in 0 .. MaxFaults,
         lock' \in Refreshes \cup {None},
         UNCHANGED <<job, dbt>>,
         References', TagsExist', IndexedOnce', FreshRows'
  PROVE  TInv'
  BY DEF TInv, TypeOK, CatalogTables

\* Runs that move on without beginning anew, and indexings that stay.
LEMMA IndexedOnceKept ==
  ASSUME TInv, UNCHANGED index, NEW j \in Savers, NEW p \in RunPhases, Goto(j, p),
         p \in BeforeIndex => run[j].phase \in BeforeIndex,
         p \in CompilePhases => run[j].phase \in CompilePhases
  PROVE  IndexedOnce'
<1> SUFFICES ASSUME NEW k \in Savers
             PROVE  /\ run'[k].phase \in BeforeIndex \/ run'[k].step = "test" =>
                           index'[k].phase = "none"
                    /\ run'[k].phase \in CompilePhases => run'[k].step = "compile"
  BY DEF IndexedOnce
<1>1. /\ run'[k].phase = IF k = j THEN p ELSE run[k].phase
      /\ run'[k].step = run[k].step
  BY GotoType, TableFacts
<1> QED
  BY <1>1, TableFacts DEF IndexedOnce

LEMMA ReplaceYamlTagsType ==
  ASSUME TInv, NEW j \in Savers, ReplaceYamlTags(j)
  PROVE  TInv'
<1> DEFINE wanted == run[j].config.defined
           gone == yamlDefined \ wanted
<1>1. wanted \subseteq Tags
  BY TableFacts DEF Runs, ConfigType
<1>2. /\ tagUuid' = [t \in Tags |-> IF t \in gone THEN None
                                    ELSE IF t \in wanted \ yamlDefined THEN j ELSE tagUuid[t]]
      /\ yamlDefined' = wanted
      /\ catalog' = WithoutTags(gone)
      /\ Goto(j, "replaceParameters")
      /\ UNCHANGED <<parameters, explores, dbt, job, lock, index, counters>>
  BY DEF ReplaceYamlTags
<1>3. tagUuid' \in [Tags -> Uuids \cup {None}]
  BY <1>2, TableFacts DEF Uuids
<1>4. \A t \in Tags \ gone : tagUuid[t] # None => tagUuid'[t] # None
  BY <1>2 DEF Uuids
<1>5. TagsExist'
  <2>1. \A t \in wanted : tagUuid'[t] # None
    BY <1>1, <1>2, TableFacts DEF TagsExist, Uuids
  <2> QED
    BY <2>1, <1>2 DEF TagsExist
<1>6. catalog' \in CatalogTables
  BY <1>2, WithoutTagsFacts, TableFacts
<1>7. References'
  <2>1. \A m \in catalog'.tags \cup catalog'.yaml : tagUuid'[m[2]] # None
    BY <1>2, <1>4, WithoutTagsFacts, TableFacts DEF References
  <2> HIDE DEF gone
  <2>2. \A r \in catalog'.rows : explores'.uuid[r[1]] # None
    BY <1>2, WithoutTagsFacts, TableFacts DEF References
  <2> QED
    BY <1>2, <2>1, <2>2, WithoutTagsFacts, TableFacts DEF References
<1>8. FreshRows'
  BY <1>2, WithoutTagsFacts, TableFacts DEF FreshRows
<1>9. run' \in [Savers -> Runs]
  BY <1>2, GotoType, TableFacts DEF RunPhases
<1>10. IndexedOnce'
  BY <1>2, IndexedOnceKept DEF ReplaceYamlTags, At, BeforeIndex, CompilePhases, RunPhases
<1> QED
  BY <1>1, <1>2, <1>3, <1>5, <1>6, <1>7, <1>8, <1>9, <1>10, TablesType, TableFacts, SaverFacts
     DEF counters

LEMMA ReplaceProjectParametersType ==
  ASSUME TInv, NEW j \in Savers, ReplaceProjectParameters(j)
  PROVE  TInv'
<1>1. /\ parameters' = run[j].config
      /\ Goto(j, "readTags")
      /\ At(j, "replaceParameters")
      /\ UNCHANGED <<tagUuid, yamlDefined, explores, catalog, dbt, job, lock, index, counters>>
  BY DEF ReplaceProjectParameters
<1>2. parameters' \in Configs
  BY <1>1, TableFacts DEF Runs
<1>3. References' /\ TagsExist' /\ FreshRows'
  BY <1>1, TableFacts DEF References, TagsExist, FreshRows
<1>4. run' \in [Savers -> Runs]
  BY <1>1, GotoType, TableFacts DEF RunPhases
<1>5. IndexedOnce'
  BY <1>1, IndexedOnceKept DEF At, BeforeIndex, CompilePhases, RunPhases
<1> QED
  BY <1>1, <1>2, <1>3, <1>4, <1>5, TablesType, TableFacts, SaverFacts DEF counters

LEMMA PhaseAndPrevType ==
  ASSUME run \in [Savers -> Runs], NEW j \in Savers,
         NEW p \in RunPhases, NEW prev \in Payloads,
         run' = [run EXCEPT ![j].phase = p, ![j].prev = prev]
  PROVE  /\ run' \in [Savers -> Runs]
         /\ \A k \in Savers \ {j} : run'[k] = run[k]
         /\ run'[j].phase = p
         /\ run'[j].step = run[j].step
         /\ run'[j].config = run[j].config
<1> DEFINE new == [run[j] EXCEPT !.phase = p, !.prev = prev]
<1>1. /\ new \in Runs /\ new.phase = p
      /\ new.step = run[j].step /\ new.config = run[j].config
  BY DEF Runs
<1>2. run' = [run EXCEPT ![j] = new]
  BY DEF Runs
<1> HIDE DEF new
<1> QED
  BY <1>1, <1>2

LEMMA ReadTagsRun ==
  ASSUME TInv, NEW j \in Savers, ReadTags(j)
  PROVE  \E prev \in Payloads : run' = [run EXCEPT ![j].phase = "readIcons", ![j].prev = prev]
<1> DEFINE tags == {<<m[1], m[2], tagUuid[m[2]]>> : m \in catalog.tags}
           new == [run[j].prev EXCEPT !.tags = tags]
<1>1. tags \subseteq Marked
  <2> SUFFICES ASSUME NEW m \in catalog.tags PROVE <<m[1], m[2], tagUuid[m[2]]>> \in Marked
    OBVIOUS
  <2>1. m[1] \in Rows /\ m[2] \in Tags
    BY TableFacts DEF CatalogTables
  <2>2. tagUuid[m[2]] \in Uuids
    BY <2>1, TableFacts DEF References
  <2> QED
    BY <2>1, <2>2 DEF Marked
<1> HIDE DEF tags
<1>2. new \in Payloads
  BY <1>1, SaverFacts, TableFacts DEF Runs, Payloads
<1>3. run' = [run EXCEPT ![j].phase = "readIcons", ![j].prev = new]
  BY TableFacts DEF ReadTags, Runs, tags
<1> QED
  BY <1>2, <1>3

LEMMA ReadIconsRun ==
  ASSUME TInv, NEW j \in Savers, ReadIcons(j)
  PROVE  \E prev \in Payloads : run' = [run EXCEPT ![j].phase = "readEdges", ![j].prev = prev]
<1> DEFINE new == [run[j].prev EXCEPT !.icons = catalog.icons]
<1>1. run[j].prev \in Payloads /\ catalog.icons \subseteq Rows
  BY SaverFacts, TableFacts DEF Runs, CatalogTables
<1>2. new \in Payloads
  BY <1>1 DEF Payloads
<1>3. run' = [run EXCEPT ![j].phase = "readEdges", ![j].prev = new]
  BY TableFacts DEF ReadIcons, Runs
<1> QED
  BY <1>2, <1>3

LEMMA ReadEdgesRun ==
  ASSUME TInv, NEW j \in Savers, ReadEdges(j)
  PROVE  \E prev \in Payloads : run' = [run EXCEPT ![j].phase = "save", ![j].prev = prev]
<1> DEFINE new == [run[j].prev EXCEPT !.edges = catalog.edges]
<1>1. run[j].prev \in Payloads /\ catalog.edges \subseteq Rows \X Rows
  BY SaverFacts, TableFacts DEF Runs, CatalogTables
<1>2. new \in Payloads
  BY <1>1 DEF Payloads
<1>3. run' = [run EXCEPT ![j].phase = "save", ![j].prev = new]
  BY TableFacts DEF ReadEdges, Runs
<1> QED
  BY <1>2, <1>3

\* The three reads before the explores are saved: run and phase change alone.
LEMMA ReadsRun ==
  ASSUME TInv, NEW j \in Savers, ReadTags(j) \/ ReadIcons(j) \/ ReadEdges(j)
  PROVE  /\ run[j].phase \in {"readTags", "readIcons", "readEdges"}
         /\ UNCHANGED <<project, dbt, job, lock, index, counters>>
         /\ \E p \in {"readIcons", "readEdges", "save"}, prev \in Payloads :
              run' = [run EXCEPT ![j].phase = p, ![j].prev = prev]
<1>1. CASE ReadTags(j)
  BY <1>1, ReadTagsRun DEF ReadTags, At
<1>2. CASE ReadIcons(j)
  BY <1>2, ReadIconsRun DEF ReadIcons, At
<1>3. CASE ReadEdges(j)
  BY <1>3, ReadEdgesRun DEF ReadEdges, At
<1> QED
  BY <1>1, <1>2, <1>3

LEMMA ReadsType ==
  ASSUME TInv, NEW j \in Savers, ReadTags(j) \/ ReadIcons(j) \/ ReadEdges(j)
  PROVE  TInv'
<1>1. PICK p \in {"readIcons", "readEdges", "save"}, prev \in Payloads :
           run' = [run EXCEPT ![j].phase = p, ![j].prev = prev]
  BY ReadsRun
<1>2. index[j].phase = "none" /\ run[j].step = "compile"
  BY ReadsRun, TableFacts DEF IndexedOnce, BeforeIndex, CompilePhases
<1>3. /\ run' \in [Savers -> Runs] /\ run'[j].step = run[j].step
      /\ \A k \in Savers \ {j} : run'[k] = run[k]
  BY <1>1, PhaseAndPrevType, TableFacts DEF RunPhases
<1>4. UNCHANGED <<project, dbt, job, lock, index, edits, faults>>
  BY ReadsRun DEF counters
<1>5. /\ job' \in [Jobs -> JobRows] /\ lock' \in Refreshes \cup {None}
      /\ dbt' \in BOOLEAN /\ faults' \in 0 .. MaxFaults
  BY <1>4, SaverFacts
<1> QED
  BY <1>2, <1>3, <1>4, <1>5, RunStepType

LEMMA SaveExploresToCacheType ==
  ASSUME TInv, NEW j \in Savers, SaveExploresToCache(j)
  PROVE  TInv'
<1> DEFINE saved == run[j].config.items \cup run[j].config.broken \cup CreatedViews
<1>1. /\ At(j, "save")
      /\ UNCHANGED <<tagUuid, yamlDefined, parameters, dbt, job, lock, index, counters>>
  BY DEF SaveExploresToCache
<1>2. CASE saved = {}
  <2>1. Fail(j) /\ UNCHANGED <<explores, catalog>>
    BY <1>2 DEF SaveExploresToCache
  <2>2. CASE Goto(j, "ended")
    BY <1>1, <2>1, <2>2, GotoStepType, SaverFacts DEF BeforeIndex, CompilePhases, RunPhases, project, counters
  <2>3. CASE Goto(j, "stepFailed")
    BY <1>1, <2>1, <2>3, GotoStepType, SaverFacts DEF BeforeIndex, CompilePhases, RunPhases, project, counters
  <2> QED
    BY <2>1, <2>2, <2>3, FailType
<1>3. CASE saved # {}
  <2>1. /\ explores' = [uuid |-> [i \in Items |-> IF i \in saved THEN j ELSE None],
                        config |-> run[j].config]
        /\ catalog' = WithoutRows(catalog.rows)
        /\ Goto(j, "queueIndex")
    BY <1>3 DEF SaveExploresToCache
  <2>2. explores' \in Explores
    BY <2>1, SaverFacts DEF Runs, Uuids, Explores
  <2>3. /\ catalog' \in CatalogTables
        /\ catalog'.rows = {} /\ catalog'.tags = {} /\ catalog'.yaml = {}
        /\ catalog'.icons = {} /\ catalog'.edges = {}
    BY <2>1, WithoutRowsFacts, TableFacts
  <2>4. References' /\ FreshRows' /\ TagsExist'
    BY <1>1, <2>3, TableFacts DEF References, FreshRows, TagsExist
  <2>5. run' \in [Savers -> Runs]
    BY <2>1, GotoType, TableFacts DEF RunPhases
  <2>6. IndexedOnce'
    BY <1>1, <2>1, IndexedOnceKept DEF At, BeforeIndex, CompilePhases, RunPhases
  <2> QED
    BY <1>1, <2>2, <2>3, <2>4, <2>5, <2>6, TablesType, TableFacts, SaverFacts DEF counters
<1> QED
  BY <1>2, <1>3

LEMMA QueueIndexCatalogType ==
  ASSUME TInv, NEW j \in Savers, QueueIndexCatalog(j)
  PROVE  TInv'
<1>1. /\ At(j, "queueIndex")
      /\ index' = [index EXCEPT ![j].phase = "queued"]
      /\ UNCHANGED <<project, dbt, job, lock, counters>>
  BY DEF QueueIndexCatalog
<1>2. PICK p \in {"ended", "stepDone"} : Goto(j, p)
  BY DEF QueueIndexCatalog
<1>3. /\ run' \in [Savers -> Runs]
      /\ \A k \in Savers : /\ run'[k].phase = IF k = j THEN p ELSE run[k].phase
                           /\ run'[k].step = run[k].step
  <2>1. p \in RunPhases
    BY DEF RunPhases
  <2> QED
    BY <1>2, <2>1, GotoType, TableFacts
<1>4. /\ index' \in [Savers -> Indexings]
      /\ \A k \in Savers : index'[k].phase = IF k = j THEN "queued" ELSE index[k].phase
  BY <1>1, ProceedType, TableFacts DEF Proceed, IndexPhases
<1>5. index[j].phase = "none"
  BY <1>1, TableFacts DEF At, IndexedOnce, BeforeIndex, CompilePhases
<1>6. FreshRows'
  BY <1>1, <1>4, <1>5, TableFacts DEF FreshRows, project
<1>7. run[j].step = "compile"
  BY <1>1, TableFacts DEF At, IndexedOnce, CompilePhases
<1>8. IndexedOnce'
  BY <1>3, <1>4, <1>7, TableFacts DEF IndexedOnce, BeforeIndex, CompilePhases
<1> QED
  BY <1>1, <1>3, <1>4, <1>6, <1>8, ProjectType, SaverFacts, TableFacts DEF counters, TInv, TypeOK

-----------------------------------------------------------------------------
(* Type correctness: the indexing of the catalog. *)

Early == {"none", "queued", "readYamlTags", "delete", "insert"}

\* A step of an indexing that changes no table.
LEMMA IndexOnlyType ==
  ASSUME TInv, NEW j \in Savers,
         index' \in [Savers -> Indexings],
         \A k \in Savers \ {j} : index'[k] = index[k],
         index[j].phase # "none",
         index'[j].phase \in Early => index[j].phase \in Early,
         UNCHANGED <<project, dbt, job, lock, run, counters>>
  PROVE  TInv'
<1>1. IndexedOnce'
  BY TableFacts DEF IndexedOnce
<1>2. FreshRows'
  BY TableFacts DEF FreshRows, Early, project
<1> QED
  BY <1>1, <1>2, ProjectType, TableFacts, SaverFacts DEF TInv, TypeOK, counters

\* And of one that changes the catalog.
LEMMA MigrationType ==
  ASSUME TInv, NEW j \in Savers, NEW p \in IndexPhases \ Early,
         Proceed(j, p),
         index[j].phase # "none",
         catalog' \in CatalogTables,
         References', FreshRows',
         UNCHANGED <<tagUuid, yamlDefined, parameters, explores, dbt, job, lock, run, counters>>
  PROVE  TInv'
<1>1. /\ index' \in [Savers -> Indexings]
      /\ \A k \in Savers : index'[k].phase = IF k = j THEN p ELSE index[k].phase
  BY ProceedType, TableFacts
<1>2. IndexedOnce'
  BY <1>1, TableFacts DEF IndexedOnce
<1>3. TagsExist'
  BY TableFacts DEF TagsExist
<1> QED
  BY <1>1, <1>2, <1>3, TablesType, TableFacts, SaverFacts DEF counters

LEMMA ReadExploresType ==
  ASSUME TInv, NEW j \in Savers, ReadExplores(j)
  PROVE  TInv'
<1> DEFINE new == [index[j] EXCEPT !.phase = "readYamlTags", !.explores = explores]
<1>1. new \in Indexings /\ new.phase = "readYamlTags"
  BY TableFacts DEF Indexings, IndexPhases
<1>2. index' = [index EXCEPT ![j] = new]
  BY TableFacts DEF ReadExplores, Indexings
<1> HIDE DEF new
<1>3. index' \in [Savers -> Indexings] /\ index'[j] = new /\ \A k \in Savers \ {j} : index'[k] = index[k]
  BY <1>1, <1>2, TableFacts
<1> QED
  BY <1>1, <1>3, IndexOnlyType DEF ReadExplores, Early, counters

LEMMA ReadYamlTagsType ==
  ASSUME TInv, NEW j \in Savers, ReadYamlTags(j)
  PROVE  TInv'
<1> DEFINE yaml == {<<t, tagUuid[t]>> : t \in yamlDefined}
           new == [index[j] EXCEPT !.phase = "delete", !.yaml = yaml]
<1>1. yaml \subseteq Tags \X Uuids
  BY TableFacts DEF TagsExist
<1> HIDE DEF yaml
<1>2. new \in Indexings /\ new.phase = "delete"
  BY <1>1, TableFacts DEF Indexings, IndexPhases
<1>3. index' = [index EXCEPT ![j] = new]
  BY TableFacts DEF ReadYamlTags, Indexings, yaml
<1> HIDE DEF new
<1>4. index' \in [Savers -> Indexings] /\ index'[j] = new /\ \A k \in Savers \ {j} : index'[k] = index[k]
  BY <1>2, <1>3, TableFacts
<1> QED
  BY <1>2, <1>4, IndexOnlyType DEF ReadYamlTags, Early, counters

\* The rows of the catalog, read to work on.
LEMMA PhaseAndRowsType ==
  ASSUME TInv, NEW j \in Savers, NEW p \in IndexPhases,
         index' = [index EXCEPT ![j].phase = p, ![j].rows = catalog.rows]
  PROVE  /\ index' \in [Savers -> Indexings]
         /\ index'[j].phase = p
         /\ \A k \in Savers \ {j} : index'[k] = index[k]
<1> DEFINE new == [index[j] EXCEPT !.phase = p, !.rows = catalog.rows]
<1>1. new \in Indexings /\ new.phase = p
  BY TableFacts DEF Indexings, CatalogTables
<1>2. index' = [index EXCEPT ![j] = new]
  BY TableFacts DEF Indexings
<1> HIDE DEF new
<1> QED
  BY <1>1, <1>2, TableFacts

LEMMA DeleteRowsType ==
  ASSUME TInv, NEW j \in Savers, DeleteRows(j)
  PROVE  TInv'
<1>1. PICK p \in {"insert", "readForTags"} :
           index' = [index EXCEPT ![j].phase = p, ![j].rows = catalog.rows]
  BY DEF DeleteRows
<1>2. p \in IndexPhases
  BY DEF IndexPhases
<1> QED
  BY <1>1, <1>2, PhaseAndRowsType, IndexOnlyType DEF DeleteRows, Early

LEMMA ReadRowsType ==
  ASSUME TInv, NEW j \in Savers, ReadRows(j)
  PROVE  TInv'
<1>1. PICK p \in {<<"readForTags", "migrateTags">>, <<"readForIcons", "migrateIcons">>,
                  <<"readForEdges", "migrateEdges">>} :
        /\ index[j].phase = p[1]
        /\ index' = [index EXCEPT ![j].phase = p[2], ![j].rows = catalog.rows]
        /\ UNCHANGED <<project, dbt, job, lock, run, counters>>
  BY DEF ReadRows
<1>2. p[2] \in IndexPhases /\ p[2] \notin Early /\ p[1] # "none"
  BY DEF IndexPhases, Early
<1> QED
  BY <1>1, <1>2, PhaseAndRowsType, IndexOnlyType

LEMMA IndexedFacts ==
  ASSUME TInv, NEW j \in Savers
  PROVE  /\ Indexed(j) \subseteq Items
         /\ YamlMarks(j) \subseteq (Indexed(j) \X {j}) \X Tags
  BY DEF Indexed, YamlMarks

LEMMA InsertRowsType ==
  ASSUME TInv, NEW j \in Savers, InsertRows(j)
  PROVE  TInv'
<1>1. /\ index[j].phase = "insert"
      /\ Proceed(j, "readForTags")
      /\ UNCHANGED <<tagUuid, yamlDefined, parameters, explores, dbt, job, lock, run, counters>>
  BY DEF InsertRows
<1>2. "readForTags" \in IndexPhases \ Early
  BY DEF IndexPhases, Early
<1>3. \A k \in Savers : index'[k].phase = IF k = j THEN "readForTags" ELSE index[k].phase
  BY <1>1, <1>2, ProceedType, TableFacts
<1>4. CASE ~ReferencesHold(j)
  <2>1. UNCHANGED catalog
    BY <1>4 DEF InsertRows
  <2>2. catalog' \in CatalogTables /\ References'
    BY <1>1, <2>1, TableFacts DEF References
  <2>3. FreshRows'
    BY <1>1, <1>3, <2>1, TableFacts DEF FreshRows, Early
  <2> QED
    BY <1>1, <1>2, <2>2, <2>3, MigrationType
<1>5. CASE ReferencesHold(j)
  <2> DEFINE kept == WithoutRows(index[j].rows)
             new == Indexed(j) \X {j}
  <2>1. catalog' = [kept EXCEPT !.rows = @ \cup new, !.yaml = @ \cup YamlMarks(j)]
    BY <1>5 DEF InsertRows
  <2>2. /\ kept \in CatalogTables
        /\ kept.rows \subseteq catalog.rows
        /\ kept.tags \subseteq catalog.tags /\ kept.yaml \subseteq catalog.yaml
        /\ kept.tags \cup kept.yaml \subseteq kept.rows \X Tags
        /\ kept.icons \subseteq kept.rows
        /\ kept.edges \subseteq kept.rows \X kept.rows
    BY WithoutRowsFacts, TableFacts
  <2>3. new \subseteq Rows /\ YamlMarks(j) \subseteq new \X Tags
    BY IndexedFacts DEF Rows
  <2>4. new \cap kept.rows = {}
    BY <1>1, <2>2, TableFacts DEF FreshRows
  <2>5. /\ catalog'.rows = kept.rows \cup new
        /\ catalog'.tags = kept.tags
        /\ catalog'.yaml = kept.yaml \cup YamlMarks(j)
        /\ catalog'.icons = kept.icons
        /\ catalog'.edges = kept.edges
        /\ catalog' \in CatalogTables
    <3> HIDE DEF kept, new
    <3> QED
      BY <2>1, <2>2, <2>3 DEF CatalogTables
  <2>6. \A i \in Indexed(j) : explores.uuid[i] # None
    BY <1>5 DEF ReferencesHold, Indexed
  <2>7. \A m \in YamlMarks(j) : tagUuid[m[2]] # None
    <3>1. index[j].yaml \subseteq Tags \X Uuids
      BY TableFacts DEF Indexings
    <3> QED
      BY <1>5, <3>1 DEF ReferencesHold
  <2>8. \A r \in catalog'.rows : explores'.uuid[r[1]] # None
    BY <1>1, <2>2, <2>5, <2>6, TableFacts DEF References
  <2>9. \A m \in catalog'.tags \cup catalog'.yaml : tagUuid'[m[2]] # None
    <3> HIDE DEF kept
    <3> QED
      BY <1>1, <2>2, <2>5, <2>7, TableFacts DEF References
  <2>10. FreshRows'
    <3> SUFFICES ASSUME NEW k \in Savers, index'[k].phase \in Early, NEW r \in catalog'.rows
                 PROVE  r[2] # k
      BY DEF FreshRows, Early
    <3>1. k # j /\ index[k].phase \in Early
      BY <1>2, <1>3
    <3>2. CASE r \in kept.rows
      BY <2>2, <3>1, <3>2, TableFacts DEF FreshRows, Early
    <3>3. CASE r \in new
      BY <3>1, <3>3
    <3> QED
      BY <2>5, <3>2, <3>3
  <2> HIDE DEF kept, new
  <2>11. catalog'.tags \cap catalog'.yaml = {}
    BY <2>2, <2>3, <2>4, <2>5, TableFacts DEF References
  <2>12. References'
    BY <2>2, <2>3, <2>5, <2>8, <2>9, <2>11 DEF References
  <2> QED
    BY <1>1, <1>2, <2>5, <2>10, <2>12, MigrationType
<1> QED
  BY <1>4, <1>5

LEMMA FreshRowsStay ==
  ASSUME TInv, catalog'.rows \subseteq catalog.rows,
         \A k \in Savers : index'[k].phase \in Early => index[k].phase \in Early
  PROVE  FreshRows'
  BY TableFacts DEF FreshRows, Early

LEMMA MigrateCatalogItemTagsType ==
  ASSUME TInv, NEW j \in Savers, MigrateCatalogItemTags(j)
  PROVE  TInv'
<1>1. /\ index[j].phase = "migrateTags"
      /\ UNCHANGED <<tagUuid, yamlDefined, parameters, explores, dbt, job, lock, run, counters>>
  BY DEF MigrateCatalogItemTags
<1>2. PICK first \in Firsts({m[1] : m \in run[j].prev.tags}) :
         LET news == {n \in index[j].rows \X run[j].prev.tags :
                        Metric(n[1]) \in DOMAIN first /\ n[2][1] = first[Metric(n[1])]}
             marks == {<<n[1], n[2][2]>> : n \in news}
         IN  IF /\ \A n \in news : n[1] \in catalog.rows /\ tagUuid[n[2][2]] = n[2][3]
                /\ marks \cap (catalog.tags \cup catalog.yaml) = {}
             THEN /\ catalog' = [catalog EXCEPT !.tags = @ \cup marks]
                  /\ Proceed(j, "readForIcons")
             ELSE UNCHANGED catalog /\ Proceed(j, "failed")
  BY DEF MigrateCatalogItemTags
<1> DEFINE news == {n \in index[j].rows \X run[j].prev.tags :
                      Metric(n[1]) \in DOMAIN first /\ n[2][1] = first[Metric(n[1])]}
           marks == {<<n[1], n[2][2]>> : n \in news}
<1>3. {"readForIcons", "failed"} \subseteq IndexPhases \ Early
  BY DEF IndexPhases, Early
<1>4. ASSUME NEW p \in {"readForIcons", "failed"}, Proceed(j, p), catalog'.rows = catalog.rows
      PROVE  FreshRows'
  <2>1. \A k \in Savers : index'[k].phase = IF k = j THEN p ELSE index[k].phase
    BY <1>3, <1>4, ProceedType, TableFacts
  <2> QED
    BY <1>3, <1>4, <2>1, FreshRowsStay
<1>5. CASE UNCHANGED catalog /\ Proceed(j, "failed")
  <2>1. catalog' \in CatalogTables /\ References'
    BY <1>1, <1>5, TableFacts DEF References
  <2> QED
    BY <1>1, <1>3, <1>4, <1>5, <2>1, MigrationType
<1>6. CASE /\ \A n \in news : n[1] \in catalog.rows /\ tagUuid[n[2][2]] = n[2][3]
           /\ marks \cap (catalog.tags \cup catalog.yaml) = {}
           /\ catalog' = [catalog EXCEPT !.tags = @ \cup marks]
           /\ Proceed(j, "readForIcons")
  <2>1. run[j].prev.tags \subseteq Marked
    BY SaverFacts DEF Runs, Payloads
  <2>2. \A n \in news : n[2][2] \in Tags /\ n[2][3] \in Uuids
    BY <2>1 DEF Marked
  <2>3. marks \subseteq catalog.rows \X Tags /\ \A m \in marks : tagUuid[m[2]] # None
    BY <1>6, <2>2
  <2> HIDE DEF news, marks
  <2>4. catalog.rows \subseteq Rows
    BY TableFacts DEF CatalogTables
  <2>5. /\ catalog' \in CatalogTables
        /\ catalog'.rows = catalog.rows /\ catalog'.yaml = catalog.yaml
        /\ catalog'.icons = catalog.icons /\ catalog'.edges = catalog.edges
        /\ catalog'.tags = catalog.tags \cup marks
    BY <1>6, <2>3, <2>4, TableFacts DEF CatalogTables
  <2>6. References'
    BY <1>1, <1>6, <2>3, <2>5, TableFacts DEF References
  <2> QED
    BY <1>1, <1>3, <1>4, <1>6, <2>5, <2>6, MigrationType
<1> QED
  BY <1>2, <1>5, <1>6

LEMMA MigrateCatalogItemIconsType ==
  ASSUME TInv, NEW j \in Savers, MigrateCatalogItemIcons(j)
  PROVE  TInv'
<1> DEFINE icons == {r \in index[j].rows \cap catalog.rows :
                       \E q \in run[j].prev.icons : Metric(q) = Metric(r)}
<1>1. /\ index[j].phase = "migrateIcons"
      /\ catalog' = [catalog EXCEPT !.icons = @ \cup icons]
      /\ Proceed(j, "readForEdges")
      /\ UNCHANGED <<tagUuid, yamlDefined, parameters, explores, dbt, job, lock, run, counters>>
  BY DEF MigrateCatalogItemIcons
<1>2. icons \subseteq catalog.rows
  OBVIOUS
<1> HIDE DEF icons
<1>3. catalog.rows \subseteq Rows
  BY TableFacts DEF CatalogTables
<1>4. /\ catalog' \in CatalogTables
      /\ catalog'.rows = catalog.rows /\ catalog'.yaml = catalog.yaml
      /\ catalog'.tags = catalog.tags /\ catalog'.edges = catalog.edges
      /\ catalog'.icons = catalog.icons \cup icons
  BY <1>1, <1>2, <1>3, TableFacts DEF CatalogTables
<1>5. References'
  BY <1>1, <1>2, <1>4, TableFacts DEF References
<1>6. "readForEdges" \in IndexPhases \ Early
  BY DEF IndexPhases, Early
<1>7. \A k \in Savers : index'[k].phase = IF k = j THEN "readForEdges" ELSE index[k].phase
  BY <1>1, <1>6, ProceedType, TableFacts
<1>8. FreshRows'
  BY <1>4, <1>6, <1>7, FreshRowsStay
<1> QED
  BY <1>1, <1>4, <1>5, <1>6, <1>8, MigrationType

LEMMA MigrateMetricsTreeEdgesType ==
  ASSUME TInv, NEW j \in Savers, MigrateMetricsTreeEdges(j)
  PROVE  TInv'
<1>1. /\ index[j].phase = "migrateEdges"
      /\ UNCHANGED <<tagUuid, yamlDefined, parameters, explores, dbt, job, lock, run, counters>>
  BY DEF MigrateMetricsTreeEdges
<1>2. \/ \E edges \in SUBSET (catalog.rows \X catalog.rows) :
           /\ catalog' = [catalog EXCEPT !.edges = @ \cup edges]
           /\ Proceed(j, "ended")
      \/ UNCHANGED catalog /\ Proceed(j, "failed")
  BY DEF MigrateMetricsTreeEdges
<1>3. {"ended", "failed"} \subseteq IndexPhases \ Early
  BY DEF IndexPhases, Early
<1>4. ASSUME NEW p \in {"ended", "failed"}, Proceed(j, p), catalog'.rows = catalog.rows
      PROVE  FreshRows'
  <2>1. \A k \in Savers : index'[k].phase = IF k = j THEN p ELSE index[k].phase
    BY <1>3, <1>4, ProceedType, TableFacts
  <2> QED
    BY <1>3, <1>4, <2>1, FreshRowsStay
<1>5. CASE UNCHANGED catalog /\ Proceed(j, "failed")
  <2>1. catalog' \in CatalogTables /\ References'
    BY <1>1, <1>5, TableFacts DEF References
  <2> QED
    BY <1>1, <1>3, <1>4, <1>5, <2>1, MigrationType
<1>6. ASSUME NEW edges \in SUBSET (catalog.rows \X catalog.rows),
             catalog' = [catalog EXCEPT !.edges = @ \cup edges],
             Proceed(j, "ended")
      PROVE  TInv'
  <2>1. catalog.rows \subseteq Rows
    BY TableFacts DEF CatalogTables
  <2>2. /\ catalog' \in CatalogTables
        /\ catalog'.rows = catalog.rows /\ catalog'.yaml = catalog.yaml
        /\ catalog'.tags = catalog.tags /\ catalog'.icons = catalog.icons
        /\ catalog'.edges = catalog.edges \cup edges
    BY <1>6, <2>1, TableFacts DEF CatalogTables
  <2>3. References'
    BY <1>1, <1>6, <2>2, TableFacts DEF References
  <2> QED
    BY <1>1, <1>3, <1>4, <1>6, <2>2, <2>3, MigrationType
<1> QED
  BY <1>2, <1>5, <1>6

-----------------------------------------------------------------------------
(* Type correctness: users, and processes that die. *)

LEMMA EditType ==
  ASSUME TInv, Edit,
         catalog' \in CatalogTables,
         catalog'.rows \subseteq catalog.rows,
         explores' \in Explores,
         References',
         UNCHANGED <<tagUuid, yamlDefined, parameters>>
  PROVE  TInv'
<1>1. edits' \in 0 .. MaxEdits
  BY TableFacts DEF Edit
<1>2. IndexedOnce' /\ TagsExist'
  BY TableFacts DEF Edit, IndexedOnce, TagsExist
<1>3. FreshRows'
  BY FreshRowsStay DEF Edit
<1> QED
  BY <1>1, <1>2, <1>3, TablesType, TableFacts, SaverFacts DEF Edit

\* Marks that a user adds to or removes from the rows that are there.
LEMMA EditCatalogType ==
  ASSUME TInv, NEW c \in CatalogTables, EditCatalog(c),
         c.rows = catalog.rows,
         c.tags \cup c.yaml \subseteq c.rows \X Tags,
         c.tags \cap c.yaml = {},
         \A m \in c.tags \cup c.yaml : tagUuid[m[2]] # None,
         c.icons \subseteq c.rows,
         c.edges \subseteq c.rows \X c.rows
  PROVE  TInv'
<1>1. catalog' = c /\ Edit /\ UNCHANGED <<tagUuid, yamlDefined, parameters, explores>>
  BY DEF EditCatalog
<1>2. References'
  BY <1>1, TableFacts DEF References
<1> QED
  BY <1>1, <1>2, EditType, TableFacts

LEMMA TagsOfRow ==
  ASSUME TInv, NEW tags \in SUBSET (catalog.rows \X Tags), NEW yaml \in SUBSET (catalog.rows \X Tags),
         tags \cap yaml = {},
         \A m \in tags \cup yaml : tagUuid[m[2]] # None,
         EditCatalog([catalog EXCEPT !.tags = tags, !.yaml = yaml])
  PROVE  TInv'
<1> DEFINE c == [catalog EXCEPT !.tags = tags, !.yaml = yaml]
<1>1. catalog.rows \subseteq Rows
  BY TableFacts DEF CatalogTables
<1>2. /\ c \in CatalogTables
      /\ c.rows = catalog.rows /\ c.tags = tags /\ c.yaml = yaml
      /\ c.icons = catalog.icons /\ c.edges = catalog.edges
  BY <1>1, TableFacts DEF CatalogTables
<1>3. c.icons \subseteq c.rows /\ c.edges \subseteq c.rows \X c.rows
  BY <1>2, TableFacts DEF References
<1> QED
  BY <1>2, <1>3, EditCatalogType

LEMMA TagCatalogItemType ==
  ASSUME TInv, NEW r \in catalog.rows, NEW t \in Tags, TagCatalogItem(r, t)
  PROVE  TInv'
<1> DEFINE tags == catalog.tags \cup {<<r, t>>}
           yaml == catalog.yaml
<1>1. /\ catalog.tags \cup catalog.yaml \subseteq catalog.rows \X Tags
      /\ catalog.tags \cap catalog.yaml = {}
      /\ \A m \in catalog.tags \cup catalog.yaml : tagUuid[m[2]] # None
  BY TableFacts DEF References
<1>2. /\ tagUuid[t] # None /\ <<r, t>> \notin catalog.tags \cup catalog.yaml
      /\ EditCatalog([catalog EXCEPT !.tags = @ \cup {<<r, t>>}])
  BY DEF TagCatalogItem
<1>3. [catalog EXCEPT !.tags = @ \cup {<<r, t>>}] = [catalog EXCEPT !.tags = tags, !.yaml = yaml]
  BY TableFacts DEF CatalogTables
<1>4. EditCatalog([catalog EXCEPT !.tags = tags, !.yaml = yaml])
  BY <1>2, <1>3
<1>5. /\ tags \in SUBSET (catalog.rows \X Tags) /\ yaml \in SUBSET (catalog.rows \X Tags)
      /\ tags \cap yaml = {}
      /\ \A m \in tags \cup yaml : tagUuid[m[2]] # None
  BY <1>1, <1>2
<1> HIDE DEF tags, yaml
<1> QED
  BY <1>4, <1>5, TagsOfRow

LEMMA UntagCatalogItemType ==
  ASSUME TInv, NEW r \in catalog.rows, NEW t \in Tags, UntagCatalogItem(r, t)
  PROVE  TInv'
<1> DEFINE tags == catalog.tags \ {<<r, t>>}
           yaml == catalog.yaml \ {<<r, t>>}
<1>1. EditCatalog([catalog EXCEPT !.tags = tags, !.yaml = yaml])
  BY DEF UntagCatalogItem
<1>2. /\ tags \in SUBSET (catalog.rows \X Tags) /\ yaml \in SUBSET (catalog.rows \X Tags)
      /\ tags \cap yaml = {}
      /\ \A m \in tags \cup yaml : tagUuid[m[2]] # None
  BY TableFacts DEF References
<1> HIDE DEF tags, yaml
<1> QED
  BY <1>1, <1>2, TagsOfRow

LEMMA UpdateCatalogItemIconType ==
  ASSUME TInv, NEW r \in catalog.rows, UpdateCatalogItemIcon(r)
  PROVE  TInv'
<1> DEFINE icons == IF r \in catalog.icons THEN catalog.icons \ {r} ELSE catalog.icons \cup {r}
           c == [catalog EXCEPT !.icons = icons]
<1>1. icons \subseteq catalog.rows
  BY TableFacts DEF References
<1>2. EditCatalog(c)
  BY DEF UpdateCatalogItemIcon
<1> HIDE DEF icons
<1>3. catalog.rows \subseteq Rows
  BY TableFacts DEF CatalogTables
<1>4. /\ c \in CatalogTables
      /\ c.rows = catalog.rows /\ c.tags = catalog.tags /\ c.yaml = catalog.yaml
      /\ c.icons = icons /\ c.edges = catalog.edges
  BY <1>1, <1>3, TableFacts DEF CatalogTables
<1> QED
  BY <1>1, <1>2, <1>4, EditCatalogType, TableFacts DEF References

LEMMA EdgesOfTree ==
  ASSUME TInv, NEW edges \in SUBSET (catalog.rows \X catalog.rows),
         EditCatalog([catalog EXCEPT !.edges = edges])
  PROVE  TInv'
<1> DEFINE c == [catalog EXCEPT !.edges = edges]
<1>1. catalog.rows \subseteq Rows
  BY TableFacts DEF CatalogTables
<1>2. /\ c \in CatalogTables
      /\ c.rows = catalog.rows /\ c.tags = catalog.tags /\ c.yaml = catalog.yaml
      /\ c.icons = catalog.icons /\ c.edges = edges
  BY <1>1, TableFacts DEF CatalogTables
<1> QED
  BY <1>2, EditCatalogType, TableFacts DEF References

LEMMA CreateMetricsTreeEdgeType ==
  ASSUME TInv, NEW r \in catalog.rows, NEW q \in catalog.rows, CreateMetricsTreeEdge(r, q)
  PROVE  TInv'
<1> DEFINE edges == catalog.edges \cup {<<r, q>>}
<1>1. EditCatalog([catalog EXCEPT !.edges = edges])
  BY DEF CreateMetricsTreeEdge
<1>2. edges \in SUBSET (catalog.rows \X catalog.rows)
  BY TableFacts DEF References
<1> HIDE DEF edges
<1> QED
  BY <1>1, <1>2, EdgesOfTree

LEMMA DeleteMetricsTreeEdgeType ==
  ASSUME TInv, NEW r \in catalog.rows, NEW q \in catalog.rows, DeleteMetricsTreeEdge(r, q)
  PROVE  TInv'
<1> DEFINE edges == catalog.edges \ {<<r, q>>}
<1>1. EditCatalog([catalog EXCEPT !.edges = edges])
  BY DEF DeleteMetricsTreeEdge
<1>2. edges \in SUBSET (catalog.rows \X catalog.rows)
  BY TableFacts DEF References
<1> HIDE DEF edges
<1> QED
  BY <1>1, <1>2, EdgesOfTree

LEMMA CreateVirtualViewType ==
  ASSUME TInv, NEW v \in Views, CreateVirtualView(v)
  PROVE  TInv'
<1>1. /\ Edit
      /\ explores' = [explores EXCEPT !.uuid[v] = edits + 1]
      /\ UNCHANGED <<tagUuid, yamlDefined, parameters, catalog>>
  BY DEF CreateVirtualView
<1>2. edits + 1 \in Uuids
  BY <1>1, TableFacts DEF Edit, Uuids
<1>3. /\ explores' \in Explores
      /\ \A i \in Items : explores'.uuid[i] = IF i = v THEN edits + 1 ELSE explores.uuid[i]
  BY <1>1, <1>2, TableFacts DEF Explores
<1>4. \A r \in catalog.rows : r[1] \in Items
  BY TableFacts DEF CatalogTables, Rows
<1>5. References'
  BY <1>1, <1>2, <1>3, <1>4, TableFacts DEF References
<1> QED
  BY <1>1, <1>3, <1>5, EditType, TableFacts

LEMMA DeleteVirtualViewType ==
  ASSUME TInv, NEW v \in Views, DeleteVirtualView(v)
  PROVE  TInv'
<1> DEFINE gone == RowsOf(v)
<1>1. /\ Edit
      /\ explores' = [explores EXCEPT !.uuid[v] = None]
      /\ catalog' = WithoutRows(gone)
      /\ UNCHANGED <<tagUuid, yamlDefined, parameters>>
  BY DEF DeleteVirtualView
<1>2. \A r \in catalog.rows \ gone : r[1] \in Items /\ r[1] # v
  BY TableFacts DEF CatalogTables, Rows, RowsOf
<1> HIDE DEF gone
<1>3. /\ explores' \in Explores
      /\ \A i \in Items : explores'.uuid[i] = IF i = v THEN None ELSE explores.uuid[i]
  BY <1>1, TableFacts DEF Explores
<1>4. /\ catalog' \in CatalogTables
      /\ catalog'.rows = catalog.rows \ gone
      /\ catalog'.tags \subseteq catalog.tags /\ catalog'.yaml \subseteq catalog.yaml
      /\ catalog'.tags \cup catalog'.yaml \subseteq catalog'.rows \X Tags
      /\ catalog'.icons \subseteq catalog'.rows
      /\ catalog'.edges \subseteq catalog'.rows \X catalog'.rows
  BY <1>1, WithoutRowsFacts, TableFacts
<1>5. References'
  BY <1>1, <1>2, <1>3, <1>4, TableFacts DEF References
<1> QED
  BY <1>1, <1>3, <1>4, <1>5, EditType

LEMMA IndexEndsType ==
  ASSUME TInv, NEW j \in Savers, NEW p \in {"failed", "readForTags"},
         index[j].phase # "none", Proceed(j, p),
         UNCHANGED <<project, dbt, job, lock, run, edits>>, faults' \in 0 .. MaxFaults
  PROVE  TInv'
<1>1. p \in IndexPhases /\ p \notin Early
  BY DEF IndexPhases, Early
<1>2. /\ index' \in [Savers -> Indexings]
      /\ \A k \in Savers : index'[k].phase = IF k = j THEN p ELSE index[k].phase
  BY <1>1, ProceedType, TableFacts
<1>3. IndexedOnce'
  BY <1>2, TableFacts DEF IndexedOnce
<1>4. FreshRows'
  BY <1>1, <1>2, FreshRowsStay DEF project
<1> QED
  BY <1>2, <1>3, <1>4, ProjectType, TableFacts, SaverFacts DEF TInv, TypeOK

LEMMA ThrowsType ==
  ASSUME TInv, NEW j \in Savers, Throws(j)
  PROVE  TInv'
<1>1. faults' \in 0 .. MaxFaults /\ UNCHANGED <<project, edits>>
  BY SaverFacts DEF Throws
<1>2. CASE IndexThrows(j)
  BY <1>1, <1>2, IndexEndsType DEF IndexThrows, Proceed
<1> QED
  BY <1>1, <1>2, RunThrowsType, UpdateThrowsType DEF Throws

LEMMA CrashType ==
  ASSUME TInv, NEW j \in Savers, Crash(j)
  PROVE  TInv'
<1>1. faults' \in 0 .. MaxFaults /\ UNCHANGED <<project, dbt, edits>>
  BY SaverFacts DEF Crash
<1>2. CASE /\ Goto(j, "dead") /\ lock' = (IF lock = j THEN None ELSE lock)
           /\ PartlyWritten(j) /\ UNCHANGED index
  <2>1. lock' \in Refreshes \cup {None} /\ job' \in [Jobs -> JobRows]
    BY <1>2, SaverFacts, PartlyWrittenType
  <2> QED
    BY <1>1, <1>2, <2>1, GotoStepType, SaverFacts DEF BeforeIndex, CompilePhases, RunPhases
<1>3. CASE index[j].phase # "none" /\ Proceed(j, "failed") /\ UNCHANGED <<job, run, lock>>
  BY <1>1, <1>3, IndexEndsType
<1> QED
  BY <1>2, <1>3 DEF Crash

-----------------------------------------------------------------------------
(* Type correctness: every step. *)

LEMMA SaveStepType ==
  ASSUME TInv, NEW j \in Savers, SaveStep(j)
  PROVE  TInv'
  BY ReplaceYamlTagsType, ReplaceProjectParametersType, ReadsType,
     SaveExploresToCacheType, QueueIndexCatalogType DEF SaveStep

LEMMA CompileStepType ==
  ASSUME TInv, NEW j \in Jobs, CompileStep(j)
  PROVE  TInv'
  BY MarkRunningType, StartJobStepType, CompileAllExploresType, JobStepDoneType, FinishType,
     JobStepFailedType, FinishFailedType DEF CompileStep

LEMMA RunStepsType ==
  ASSUME TInv, NEW j \in Savers, RunStep(j)
  PROVE  TInv'
  BY TryAcquireProjectLockType, TestAndCompileProjectType, TestProjectAdapterType,
     AddCompileJobType, CompileStepType, SaveStepType DEF RunStep

LEMMA IndexStepType ==
  ASSUME TInv, NEW j \in Savers, IndexStep(j)
  PROVE  TInv'
  BY ReadExploresType, ReadYamlTagsType, DeleteRowsType, InsertRowsType, ReadRowsType,
     MigrateCatalogItemTagsType, MigrateCatalogItemIconsType, MigrateMetricsTreeEdgesType
     DEF IndexStep

LEMMA EditStepType ==
  ASSUME TInv, EditStep
  PROVE  TInv'
  BY TagCatalogItemType, UntagCatalogItemType, UpdateCatalogItemIconType,
     CreateMetricsTreeEdgeType, DeleteMetricsTreeEdgeType, CreateVirtualViewType,
     DeleteVirtualViewType DEF EditStep

LEMMA NextType ==
  ASSUME TInv, [Next]_vars
  PROVE  TInv'
<1>1. CASE Next
  BY <1>1, ScheduleCompileProjectType, UpdateAndScheduleAsyncWorkType, DeployType,
     RunStepsType, IndexStepType, ThrowsType, CrashType, EditStepType DEF Next
<1>2. CASE UNCHANGED vars
  <2>1. UNCHANGED <<project, dbt, job, lock, run, index, counters>>
    BY <1>2 DEF vars, project, counters
  <2>2. FreshRows' /\ IndexedOnce'
    BY <2>1, TableFacts DEF FreshRows, IndexedOnce, project
  <2> QED
    BY <2>1, <2>2, ProjectType DEF TInv, TypeOK, counters
<1> QED
  BY <1>1, <1>2

LEMMA Typing == Spec => []TInv
<1>1. TInv /\ [Next]_vars => TInv'
  BY NextType
<1> QED
  BY InitType, <1>1, PTL DEF Spec

\* Every table keeps its shape, foreign keys and primary keys included, whatever
\* refreshes, updates, deployments, index jobs and users do at the same time.
THEOREM TypeCorrect == Spec => []TypeOK
<1>1. TInv => TypeOK
  BY DEF TInv
<1> QED
  BY Typing, <1>1, PTL

-----------------------------------------------------------------------------
(* What a step leaves alone.  Indexings and users touch no run, job or lock  *)
(* and do not change what was compiled; what was queued stays known.         *)

Queued(j) == index[j].phase # "none"

LEMMA QuietSteps ==
  ASSUME TInv, EditStep \/ \E j \in Savers : IndexStep(j)
  PROVE  /\ UNCHANGED <<yamlDefined, parameters, dbt, job, lock, run, faults>>
         /\ explores'.config = explores.config
         /\ \A k \in Savers : Queued(k) => Queued(k)'
<1>1. CASE EditStep
  <2>1. Edit /\ UNCHANGED <<yamlDefined, parameters>>
    BY <1>1 DEF EditStep, TagCatalogItem, UntagCatalogItem, UpdateCatalogItemIcon,
                CreateMetricsTreeEdge, DeleteMetricsTreeEdge, CreateVirtualView,
                DeleteVirtualView, EditCatalog
  <2>2. \/ UNCHANGED explores
        \/ \E v \in Views, u \in Uuids \cup {None} \cup {edits + 1} :
             explores' = [explores EXCEPT !.uuid[v] = u]
    BY <1>1 DEF EditStep, TagCatalogItem, UntagCatalogItem, UpdateCatalogItemIcon,
                CreateMetricsTreeEdge, DeleteMetricsTreeEdge, CreateVirtualView,
                DeleteVirtualView, EditCatalog
  <2>3. explores'.config = explores.config
    BY <2>2, TableFacts DEF Explores
  <2> QED
    BY <2>1, <2>3 DEF Edit, Queued
<1>2. ASSUME NEW j \in Savers, IndexStep(j)
      PROVE  /\ UNCHANGED <<yamlDefined, parameters, dbt, job, lock, run, faults>>
             /\ explores'.config = explores.config
             /\ \A k \in Savers : Queued(k) => Queued(k)'
  <2>1. UNCHANGED <<yamlDefined, parameters, explores, dbt, job, lock, run, faults>>
    BY <1>2 DEF IndexStep, ReadExplores, ReadYamlTags, DeleteRows, InsertRows, ReadRows,
                MigrateCatalogItemTags, MigrateCatalogItemIcons, MigrateMetricsTreeEdges,
                project, counters
  <2>2. \A k \in Savers : index[k].phase # "none" => index'[k].phase # "none"
    <3>1. ASSUME NEW p \in IndexPhases \ {"none"}, Proceed(j, p)
          PROVE  \A k \in Savers : index[k].phase # "none" => index'[k].phase # "none"
      BY <3>1, ProceedType, TableFacts
    <3>2. CASE ReadExplores(j)
      BY <3>2, TableFacts DEF ReadExplores, Indexings
    <3>3. CASE ReadYamlTags(j)
      BY <3>3, TableFacts DEF ReadYamlTags, Indexings
    <3>4. CASE DeleteRows(j)
      BY <3>4, TableFacts DEF DeleteRows, Indexings
    <3>5. CASE ReadRows(j)
      BY <3>5, TableFacts DEF ReadRows, Indexings
    <3>6. CASE InsertRows(j)
      BY <3>1, <3>6 DEF InsertRows, IndexPhases
    <3>7. CASE MigrateCatalogItemTags(j)
      BY <3>1, <3>7 DEF MigrateCatalogItemTags, IndexPhases
    <3>8. CASE MigrateCatalogItemIcons(j)
      BY <3>1, <3>8 DEF MigrateCatalogItemIcons, IndexPhases
    <3>9. CASE MigrateMetricsTreeEdges(j)
      BY <3>1, <3>9 DEF MigrateMetricsTreeEdges, IndexPhases
    <3> QED
      BY <1>2, <3>2, <3>3, <3>4, <3>5, <3>6, <3>7, <3>8, <3>9 DEF IndexStep
  <2> QED
    BY <2>1, <2>2, TableFacts DEF Queued
<1> QED
  BY <1>1, <1>2

-----------------------------------------------------------------------------
(* The lock. *)

\* A run that goes from one phase to another, and what becomes of the lock.
LockMoves(j, p) ==
    \/ /\ UNCHANGED lock
       /\ j \in Refreshes => (run[j].phase \in UnderLock <=> p \in UnderLock)
    \/ /\ lock' = IF lock = j THEN None ELSE lock
       /\ p \notin UnderLock
    \/ /\ lock = None /\ lock' = j
       /\ j \in Refreshes /\ p \in UnderLock

\* Where a run goes, and that nothing else of it is of interest to the lock.
Moves(j, p) ==
    /\ run'[j].phase = p
    /\ \A k \in Savers \ {j} : run'[k].phase = run[k].phase

LEMMA LockStep ==
  ASSUME LockIsHeld, lock \in Refreshes \cup {None},
         NEW j \in Savers, NEW p, Moves(j, p), LockMoves(j, p)
  PROVE  LockIsHeld'
<1> SUFFICES ASSUME NEW r \in Refreshes PROVE lock' = r <=> run'[r].phase \in UnderLock
  BY DEF LockIsHeld
<1>1. None \notin Refreshes /\ r \in Savers
  BY DEF Uuids, Savers, Jobs
<1>2. CASE r = j
  BY <1>1, <1>2 DEF LockIsHeld, Moves, LockMoves
<1>3. CASE r # j
  BY <1>1, <1>3 DEF LockIsHeld, Moves, LockMoves
<1> QED
  BY <1>2, <1>3

LEMMA GotoMoves ==
  ASSUME TInv, NEW j \in Savers, NEW p, Goto(j, p)
  PROVE  /\ Moves(j, p)
         /\ run'[j].phase = p
         /\ run'[j].step = run[j].step
         /\ run'[j].config = run[j].config
         /\ \A k \in Savers \ {j} : run'[k] = run[k]
  BY TableFacts DEF Goto, Moves, Runs

LEMMA LockOfRunStep ==
  ASSUME TInv, NEW j \in Savers, RunStep(j)
  PROVE  \E p \in RunPhases \ {"idle"} : Moves(j, p) /\ LockMoves(j, p)
<1>1. ASSUME NEW p \in RunPhases \ {"idle"}, Goto(j, p), LockMoves(j, p)
      PROVE  \E q \in RunPhases \ {"idle"} : Moves(j, q) /\ LockMoves(j, q)
  BY <1>1, GotoMoves
<1>2. CASE j \in Refreshes /\ TryAcquireProjectLock(j)
  <2>1. CASE lock = None
    BY <1>1, <1>2, <2>1 DEF TryAcquireProjectLock, LockMoves, UnderLock, RunPhases
  <2>2. CASE lock # None
    BY <1>1, <1>2, <2>2 DEF TryAcquireProjectLock, LockMoves, UnderLock, RunPhases, At
  <2> QED
    BY <2>1, <2>2
<1>3. CASE j \in Updates /\ TestAndCompileProject(j)
  <2>1. Moves(j, "mark")
    BY <1>3, PhaseAndDbtType, TableFacts DEF TestAndCompileProject, Moves, RunPhases, TypeOK, TInv
  <2> QED
    BY <1>3, <2>1 DEF TestAndCompileProject, LockMoves, RunPhases
<1>4. CASE j \in Updates /\ TestProjectAdapter(j)
  BY <1>1, <1>4 DEF TestProjectAdapter, LockMoves, RunPhases
<1>5. CASE j \in Jobs /\ AddCompileJob(j)
  BY <1>1, <1>5 DEF AddCompileJob, At, LockMoves, UnderLock, RunPhases
<1>6. CASE j \in Jobs /\ MarkRunning(j)
  <2>1. Moves(j, "step")
    BY <1>6, PhaseAndStepType, TableFacts DEF MarkRunning, Moves, RunPhases
  <2> QED
    BY <1>6, <2>1 DEF MarkRunning, At, LockMoves, UnderLock, RunPhases
<1>7. CASE j \in Jobs /\ StartJobStep(j)
  <2>1. PICK p \in {"testing", "compiling"} : Goto(j, p)
    BY <1>7 DEF StartJobStep
  <2> QED
    BY <1>1, <1>7, <2>1 DEF StartJobStep, At, LockMoves, UnderLock, RunPhases
<1>8. CASE j \in Jobs /\ CompileAllExplores(j)
  <2>1. CASE Goto(j, "stepFailed")
    BY <1>1, <1>8, <2>1 DEF CompileAllExplores, At, LockMoves, UnderLock, RunPhases
  <2>2. ASSUME NEW c \in Configs,
               run' = [run EXCEPT ![j].phase = "replaceTags", ![j].config = c]
        PROVE  Moves(j, "replaceTags")
    BY <2>2, PhaseAndConfigType, TableFacts DEF Moves, RunPhases
  <2> QED
    BY <1>8, <2>1, <2>2 DEF CompileAllExplores, At, LockMoves, UnderLock, RunPhases
<1>9. CASE j \in Jobs /\ JobStepDone(j)
  <2>1. PICK p \in {"step", "finish"} : run' = [run EXCEPT ![j].phase = p, ![j].step = "compile"]
    BY <1>9 DEF JobStepDone
  <2>2. Moves(j, p)
    BY <2>1, PhaseAndStepType, TableFacts DEF Moves, RunPhases
  <2> QED
    BY <1>9, <2>2 DEF JobStepDone, At, LockMoves, UnderLock, RunPhases
<1>10. CASE j \in Jobs /\ Finish(j)
  BY <1>1, <1>10 DEF Finish, LockMoves, UnderLock, RunPhases
<1>11. CASE j \in Jobs /\ JobStepFailed(j)
  BY <1>1, <1>11 DEF JobStepFailed, At, LockMoves, UnderLock, RunPhases
<1>12. CASE j \in Jobs /\ FinishFailed(j)
  BY <1>1, <1>12 DEF FinishFailed, LockMoves, UnderLock, RunPhases
<1>13. CASE ReplaceYamlTags(j)
  BY <1>1, <1>13 DEF ReplaceYamlTags, At, LockMoves, UnderLock, RunPhases
<1>14. CASE ReplaceProjectParameters(j)
  BY <1>1, <1>14 DEF ReplaceProjectParameters, At, LockMoves, UnderLock, RunPhases
<1>15. CASE ReadTags(j) \/ ReadIcons(j) \/ ReadEdges(j)
  <2>1. PICK p \in {"readIcons", "readEdges", "save"}, prev \in Payloads :
             run' = [run EXCEPT ![j].phase = p, ![j].prev = prev]
    BY <1>15, ReadsRun
  <2>2. Moves(j, p)
    BY <2>1, PhaseAndPrevType, TableFacts DEF Moves, RunPhases
  <2> QED
    BY <1>15, <2>2, ReadsRun DEF LockMoves, UnderLock, RunPhases
<1>16. CASE SaveExploresToCache(j)
  <2>1. \/ Goto(j, "queueIndex") \/ Goto(j, "stepFailed") \/ (j \in Deploys /\ Goto(j, "ended"))
    BY <1>16 DEF SaveExploresToCache, Fail
  <2> QED
    BY <1>1, <1>16, <2>1 DEF SaveExploresToCache, At, LockMoves, UnderLock, RunPhases, Jobs
<1>17. CASE QueueIndexCatalog(j)
  <2>1. \/ Goto(j, "stepDone") \/ (j \in Deploys /\ Goto(j, "ended"))
    BY <1>17 DEF QueueIndexCatalog
  <2> QED
    BY <1>1, <1>17, <2>1 DEF QueueIndexCatalog, At, LockMoves, UnderLock, RunPhases, Jobs
<1> QED
  BY <1>2, <1>3, <1>4, <1>5, <1>6, <1>7, <1>8, <1>9, <1>10, <1>11, <1>12, <1>13, <1>14,
     <1>15, <1>16, <1>17 DEF RunStep, CompileStep, SaveStep

LEMMA NextLock ==
  ASSUME TInv, LockIsHeld, [Next]_vars
  PROVE  LockIsHeld'
<1>1. ASSUME NEW j \in Savers, NEW p \in RunPhases, Goto(j, p), LockMoves(j, p)
      PROVE  LockIsHeld'
  BY <1>1, GotoMoves, LockStep, SaverFacts
<1>2. ASSUME NEW r \in Refreshes, ScheduleCompileProject(r)
      PROVE  LockIsHeld'
  BY <1>1, <1>2, SaverFacts DEF ScheduleCompileProject, At, LockMoves, UnderLock, RunPhases
<1>3. ASSUME NEW u \in Updates, NEW toDbt \in BOOLEAN, UpdateAndScheduleAsyncWork(u, toDbt)
      PROVE  LockIsHeld'
  <2>1. Goto(u, "add") \/ Goto(u, "finish")
    BY <1>3 DEF UpdateAndScheduleAsyncWork
  <2> QED
    BY <1>1, <1>3, <2>1, SaverFacts DEF UpdateAndScheduleAsyncWork, LockMoves, RunPhases
<1>4. ASSUME NEW d \in Deploys, Deploy(d)
      PROVE  LockIsHeld'
  <2>1. PICK c \in Configs : run' = [run EXCEPT ![d].phase = "replaceTags", ![d].config = c]
    BY <1>4 DEF Deploy
  <2>2. Moves(d, "replaceTags")
    BY <2>1, PhaseAndConfigType, TableFacts, SaverFacts DEF Moves, RunPhases
  <2>3. LockMoves(d, "replaceTags")
    BY <1>4 DEF Deploy, LockMoves, Jobs
  <2> QED
    BY <2>2, <2>3, LockStep, SaverFacts
<1>5. ASSUME NEW j \in Savers, RunStep(j)
      PROVE  LockIsHeld'
  BY <1>5, LockOfRunStep, LockStep, SaverFacts
<1>6. ASSUME NEW j \in Savers, Throws(j)
      PROVE  LockIsHeld'
  <2>1. CASE Goto(j, "ended") /\ lock' = (IF lock = j THEN None ELSE lock)
    BY <1>1, <2>1 DEF LockMoves, UnderLock, RunPhases
  <2>2. CASE j \in Updates /\ UpdateThrows(j)
    BY <1>1, <2>2 DEF UpdateThrows, LockMoves, RunPhases
  <2>3. CASE IndexThrows(j)
    BY <2>3 DEF IndexThrows, LockIsHeld
  <2>4. CASE /\ run[j].phase \in {"mark", "stepFailed", "finish"}
             /\ Goto(j, "failed") /\ UNCHANGED lock
    BY <1>1, <2>4 DEF LockMoves, UnderLock, RunPhases
  <2>5. CASE /\ run[j].phase \in UnderLock /\ Fail(j) /\ UNCHANGED lock
    <3>1. Goto(j, "stepFailed") \/ (j \in Deploys /\ Goto(j, "ended"))
      BY <2>5 DEF Fail
    <3> QED
      BY <1>1, <2>5, <3>1 DEF LockMoves, UnderLock, RunPhases, Jobs
  <2>6. {"step", "replaceTags", "replaceParameters", "readTags", "readIcons", "readEdges",
         "save", "queueIndex", "stepDone"} \subseteq UnderLock
    BY DEF UnderLock, RunPhases
  <2> QED
    BY <1>6, <2>1, <2>4, <2>5, <2>6, <2>2, <2>3 DEF Throws, RunThrows, At
<1>7. ASSUME NEW j \in Savers, Crash(j)
      PROVE  LockIsHeld'
  <2>1. CASE Goto(j, "dead") /\ lock' = (IF lock = j THEN None ELSE lock)
    BY <1>1, <2>1 DEF LockMoves, UnderLock, RunPhases
  <2>2. CASE UNCHANGED <<run, lock>>
    BY <2>2 DEF LockIsHeld
  <2> QED
    BY <1>7, <2>1, <2>2 DEF Crash
<1>8. CASE EditStep \/ \E j \in Savers : IndexStep(j)
  BY <1>8, QuietSteps DEF LockIsHeld
<1>9. CASE UNCHANGED vars
  BY <1>9 DEF vars, LockIsHeld
<1> QED
  BY <1>2, <1>3, <1>4, <1>5, <1>6, <1>7, <1>8, <1>9 DEF Next

\* The lock of a project is held by a refresh exactly while that refresh works
\* (tryAcquireProjectLock): never by one that ended, failed or died.
THEOREM NobodyIsLockedOut == Spec => []LockIsHeld
<1>1. Init => LockIsHeld
  BY DEF Init, LockIsHeld, UnderLock, Uuids, Savers, Jobs
<1>2. TInv /\ LockIsHeld /\ [Next]_vars => LockIsHeld'
  BY NextLock
<1> QED
  BY Typing, <1>1, <1>2, PTL DEF Spec

-----------------------------------------------------------------------------
(* Jobs.  DoneIsTrue is not inductive: a step's row is clean when the job     *)
(* ends because each step begins only after the one before it was done, and  *)
(* a compilation is done only after its catalog was queued.                  *)

Steps == {"test", "compile"}
Pending == {"none", "PENDING"}
Clean == {"none", "PENDING", "DONE"}
StepPhases == {"step", "testing", "compiling", "replaceTags", "replaceParameters", "readTags",
               "readIcons", "readEdges", "save", "queueIndex", "stepDone"}

\* A job that is done, whose pending steps may since have been skipped.
Fine(j) ==
    /\ \A s \in Steps : job[j].steps[s] \in Clean \cup {"SKIPPED"}
    /\ job[j].steps["compile"] = "DONE" => Queued(j)
    /\ j \in Refreshes => job[j].steps["compile"] = "DONE"

AllClean(j) ==
    /\ \A s \in Steps : job[j].steps[s] \in Clean
    /\ job[j].steps["compile"] = "DONE" => Queued(j)
    /\ j \in Refreshes => job[j].steps["compile"] = "DONE"

\* In a step, the other one has not begun or is done.
OtherClean(j) ==
    /\ \A s \in Steps \ {run[j].step} : job[j].steps[s] \in Clean
    /\ run[j].step = "test" => job[j].steps["compile"] \in Pending
    /\ j \in Refreshes => run[j].step = "compile"

JobTrue(j) ==
    /\ run[j].phase \in {"idle", "add", "queued", "mark"} =>
           \A s \in Steps : job[j].steps[s] \in Pending
    /\ run[j].phase \in StepPhases => OtherClean(j)
    /\ run[j].phase = "testing" => run[j].step = "test"
    /\ run[j].phase = "stepDone" /\ run[j].step = "compile" => Queued(j)
    /\ run[j].phase = "finish" => AllClean(j)
    /\ j \in Refreshes /\ run[j].phase # "idle" => job[j].steps["compile"] # "none"
    /\ job[j].status = "DONE" =>
           /\ run[j].phase \in {"failed", "ended", "dead"} /\ Fine(j)
           /\ run[j].phase = "failed" => faults > 0
    /\ job[j].status = "ERROR" => run[j].phase \in {"failed", "ended", "dead"}

JobTruth == \A j \in Jobs : JobTrue(j)

Lasting == faults > 0 => faults' > 0

LEMMA FaultsGrow ==
  ASSUME TInv, [Next]_vars
  PROVE  /\ faults \in Nat /\ (faults' = faults \/ faults' = faults + 1)
         /\ Lasting
<1>1. faults \in Nat
  BY SaverFacts
<1>2. faults' = faults \/ faults' = faults + 1
  BY QuietSteps DEF Next, ScheduleCompileProject, UpdateAndScheduleAsyncWork, Deploy, RunStep,
     SaveStep, CompileStep, TryAcquireProjectLock, TestAndCompileProject, TestProjectAdapter,
     AddCompileJob, MarkRunning, StartJobStep, CompileAllExplores, JobStepDone, Finish,
     JobStepFailed, FinishFailed, ReplaceYamlTags, ReplaceProjectParameters, ReadTags,
     ReadIcons, ReadEdges, SaveExploresToCache, QueueIndexCatalog, Throws, Crash, counters, vars
<1> QED
  BY <1>1, <1>2 DEF Lasting

LEMMA JobKept ==
  ASSUME NEW j \in Jobs, JobTrue(j), run'[j] = run[j], job'[j] = job[j], Queued(j) => Queued(j)',
         Lasting
  PROVE  JobTrue(j)'
  BY DEF JobTrue, OtherClean, AllClean, Fine, Lasting

\* A step of one run.
LEMMA JobStep ==
  ASSUME TInv, JobTruth, Lasting, NEW j \in Savers,
         \A k \in Savers \ {j} : run'[k] = run[k],
         \A k \in Jobs \ {j} : job'[k] = job[k],
         \A k \in Savers : Queued(k) => Queued(k)',
         j \in Jobs => JobTrue(j)'
  PROVE  JobTruth'
<1> SUFFICES ASSUME NEW k \in Jobs, k # j PROVE JobTrue(k)'
  BY DEF JobTruth
<1> QED
  BY JobKept, SaverFacts DEF JobTruth

\* A run that moves on, while its job row stays.
LEMMA JobGoto ==
  ASSUME TInv, JobTruth, Lasting, NEW j \in Savers, NEW p \in RunPhases,
         Goto(j, p),
         UNCHANGED job,
         \A k \in Savers : Queued(k) => Queued(k)',
         j \in Jobs =>
             /\ run[j].phase \notin {"idle", "ended", "failed", "dead"}
             /\ job[j].status = "ERROR" => p \in {"failed", "ended", "dead"}
             /\ p \in {"idle", "add", "queued", "mark"} => run[j].phase \in {"add", "queued"}
             /\ p \in StepPhases => run[j].phase \in StepPhases
             /\ p = "testing" => run[j].step = "test"
             /\ p = "stepDone" => run[j].step = "test" \/ Queued(j)'
             /\ p # "finish"
  PROVE  JobTruth'
<1>1. /\ run'[j].phase = p /\ run'[j].step = run[j].step
      /\ \A k \in Savers \ {j} : run'[k] = run[k]
  BY GotoType, TableFacts
<1>2. ASSUME j \in Jobs PROVE JobTrue(j)'
  <2>1. JobTrue(j) /\ run[j].step \in Steps
    BY <1>2, SaverFacts DEF JobTruth, Runs, Steps
  <2>2. job[j].status # "DONE"
    BY <1>2, <2>1 DEF JobTrue
  <2>3. OtherClean(j) => OtherClean(j)'
    BY <1>1 DEF OtherClean
  <2> QED
    BY <1>1, <1>2, <2>1, <2>2, <2>3 DEF JobTrue
<1> QED
  BY <1>1, <1>2, JobStep

LEMMA InitJobs == Init => JobTruth
  BY DEF Init, JobTruth, JobTrue, Pending, StepPhases, Steps, Jobs, Savers

LEMMA ScheduleCompileProjectJob ==
  ASSUME TInv, JobTruth, Lasting, NEW r \in Refreshes, ScheduleCompileProject(r)
  PROVE  JobTruth'
<1>1. /\ Goto(r, "add")
      /\ job' = [job EXCEPT ![r] = Created({"compile"})]
      /\ UNCHANGED index
  BY DEF ScheduleCompileProject
<1>2. run'[r].phase = "add" /\ \A k \in Savers \ {r} : run'[k] = run[k]
  BY <1>1, GotoMoves, SaverFacts
<1>3. job'[r] = Created({"compile"}) /\ \A k \in Jobs \ {r} : job'[k] = job[k]
  BY <1>1, SaverFacts
<1>4. JobTrue(r)'
  BY <1>2, <1>3 DEF JobTrue, Created, Pending, Steps, StepPhases
<1> QED
  BY <1>1, <1>2, <1>3, <1>4, JobStep, SaverFacts DEF Queued

LEMMA UpdateAndScheduleAsyncWorkJob ==
  ASSUME TInv, JobTruth, Lasting, NEW u \in Updates, NEW toDbt \in BOOLEAN,
         UpdateAndScheduleAsyncWork(u, toDbt)
  PROVE  JobTruth'
<1>1. PICK steps \in SUBSET Steps : job' = [job EXCEPT ![u] = Created(steps)]
  BY DEF UpdateAndScheduleAsyncWork, Steps
<1>2. PICK p \in {"add", "finish"} : Goto(u, p)
  BY DEF UpdateAndScheduleAsyncWork
<1>3. p \in RunPhases
  BY DEF RunPhases
<1>4. run'[u].phase = p /\ \A k \in Savers \ {u} : run'[k] = run[k]
  BY <1>2, <1>3, GotoMoves, SaverFacts
<1>5. job'[u] = Created(steps) /\ \A k \in Jobs \ {u} : job'[k] = job[k]
  BY <1>1, SaverFacts
<1>6. u \notin Refreshes
  OBVIOUS
<1>7. job'[u].status = "STARTED" /\ \A s \in Steps : job'[u].steps[s] \in Pending
  BY <1>5 DEF Created, Pending, Steps
<1>8. JobTrue(u)'
  BY <1>4, <1>6, <1>7 DEF JobTrue, AllClean, Pending, Clean, Steps, StepPhases
<1> QED
  BY <1>4, <1>5, <1>8, JobStep, SaverFacts DEF UpdateAndScheduleAsyncWork, Queued

\* What is written into a job row.
LEMMA WithStatusFacts ==
  ASSUME TInv, NEW j \in Jobs, NEW status, job' = WithStatus(j, status)
  PROVE  /\ job'[j].status = status /\ job'[j].steps = job[j].steps
         /\ \A k \in Jobs \ {j} : job'[k] = job[k]
  BY SaverFacts DEF WithStatus, JobRows

LEMMA WithStepFacts ==
  ASSUME TInv, NEW j \in Jobs, NEW status, job' = WithStep(j, status)
  PROVE  /\ job'[j].status = job[j].status
         /\ job'[j].steps[run[j].step] = IF job[j].steps[run[j].step] = "none"
                                         THEN "none" ELSE status
         /\ \A s \in Steps \ {run[j].step} : job'[j].steps[s] = job[j].steps[s]
         /\ \A k \in Jobs \ {j} : job'[k] = job[k]
<1>1. run[j].step \in Steps /\ job[j] \in JobRows
  BY SaverFacts DEF Runs, Steps
<1> DEFINE new == [job[j] EXCEPT !.steps[run[j].step] = IF @ = "none" THEN @ ELSE status]
<1>2. job' = [job EXCEPT ![j] = new]
  BY SaverFacts DEF WithStep, JobRows
<1>3. /\ new.status = job[j].status
      /\ new.steps[run[j].step] = IF job[j].steps[run[j].step] = "none" THEN "none" ELSE status
      /\ \A s \in Steps \ {run[j].step} : new.steps[s] = job[j].steps[s]
  BY <1>1 DEF JobRows, Steps
<1> HIDE DEF new
<1> QED
  BY <1>2, <1>3, SaverFacts

LEMMA SkippedFacts ==
  ASSUME TInv, NEW j \in Jobs
  PROVE  \A s \in Steps :
           \/ Skipped(j)[s] = job[j].steps[s]
           \/ j \notin Refreshes /\ job[j].steps[s] = "PENDING" /\ Skipped(j)[s] = "SKIPPED"
  BY SaverFacts DEF Skipped, JobRows, Steps

LEMMA MarkRunningJob ==
  ASSUME TInv, JobTruth, Lasting, NEW j \in Jobs, MarkRunning(j)
  PROVE  JobTruth'
<1> DEFINE st == IF j \in Updates THEN "test" ELSE "compile"
<1>1. /\ At(j, "mark")
      /\ job' = WithStatus(j, "RUNNING")
      /\ run' = [run EXCEPT ![j].phase = "step", ![j].step = st]
      /\ UNCHANGED index
  BY DEF MarkRunning
<1>2. st \in {"test", "compile"} /\ "step" \in RunPhases
  BY DEF RunPhases
<1>3. j \in Refreshes => st = "compile"
  OBVIOUS
<1> HIDE DEF st
<1>4. /\ run'[j].phase = "step" /\ run'[j].step = st
      /\ \A k \in Savers \ {j} : run'[k] = run[k]
  BY <1>1, <1>2, PhaseAndStepType, TableFacts, SaverFacts
<1>5. /\ job'[j].status = "RUNNING" /\ job'[j].steps = job[j].steps
      /\ \A k \in Jobs \ {j} : job'[k] = job[k]
  BY <1>1, WithStatusFacts
<1>6. JobTrue(j) /\ run[j].phase = "mark"
  BY <1>1 DEF JobTruth, At
<1>7. \A s \in Steps : job'[j].steps[s] \in Pending
  BY <1>5, <1>6 DEF JobTrue
<1>8. OtherClean(j)'
  BY <1>3, <1>4, <1>7 DEF OtherClean, Pending, Clean, Steps
<1>9. JobTrue(j)'
  BY <1>4, <1>5, <1>6, <1>8 DEF JobTrue
<1> QED
  BY <1>1, <1>4, <1>5, <1>9, JobStep, SaverFacts DEF Queued

LEMMA StartJobStepJob ==
  ASSUME TInv, JobTruth, Lasting, NEW j \in Jobs, StartJobStep(j)
  PROVE  JobTruth'
<1>1. /\ At(j, "step")
      /\ job' = WithStep(j, "RUNNING")
      /\ Goto(j, IF run[j].step = "test" THEN "testing" ELSE "compiling")
      /\ UNCHANGED index
  BY DEF StartJobStep
<1>2. /\ run'[j].phase = IF run[j].step = "test" THEN "testing" ELSE "compiling"
      /\ run'[j].step = run[j].step
      /\ \A k \in Savers \ {j} : run'[k] = run[k]
  BY <1>1, GotoMoves, SaverFacts
<1>3. /\ job'[j].status = job[j].status
      /\ \A s \in Steps \ {run[j].step} : job'[j].steps[s] = job[j].steps[s]
      /\ job[j].steps["compile"] # "none" => job'[j].steps["compile"] # "none"
      /\ \A k \in Jobs \ {j} : job'[k] = job[k]
  BY <1>1, WithStepFacts DEF Steps
<1>4. JobTrue(j) /\ run[j].phase = "step" /\ OtherClean(j) /\ run[j].step \in Steps
  BY <1>1, SaverFacts DEF JobTruth, JobTrue, At, StepPhases, Runs, Steps
<1>5. OtherClean(j)'
  BY <1>2, <1>3, <1>4 DEF OtherClean, Steps
<1>6. JobTrue(j)'
  BY <1>2, <1>3, <1>4, <1>5 DEF JobTrue
<1> QED
  BY <1>1, <1>2, <1>3, <1>6, JobStep, SaverFacts DEF Queued

\* A job row when its step has ended.
LEMMA StepEndedFacts ==
  ASSUME TInv, NEW j \in Jobs, NEW status \in {"DONE", "ERROR"}, job' = StepEnded(j, status)
  PROVE  /\ job'[j].status = IF status = "ERROR" THEN "ERROR" ELSE "RUNNING"
         /\ job'[j].steps[run[j].step] = IF job[j].steps[run[j].step] = "none"
                                         THEN "none" ELSE status
         /\ \A s \in Steps \ {run[j].step} : job'[j].steps[s] = job[j].steps[s]
         /\ \A k \in Jobs \ {j} : job'[k] = job[k]
<1>1. run[j].step \in Steps /\ job[j] \in JobRows
  BY SaverFacts DEF Runs, Steps
<1> DEFINE new == [job[j] EXCEPT !.steps[run[j].step] = IF @ = "none" THEN @ ELSE status,
                                 !.status = IF status = "ERROR" THEN "ERROR" ELSE "RUNNING"]
<1>2. job' = [job EXCEPT ![j] = new]
  BY SaverFacts DEF StepEnded, JobRows
<1>3. /\ new.status = IF status = "ERROR" THEN "ERROR" ELSE "RUNNING"
      /\ new.steps[run[j].step] = IF job[j].steps[run[j].step] = "none" THEN "none" ELSE status
      /\ \A s \in Steps \ {run[j].step} : new.steps[s] = job[j].steps[s]
  BY <1>1 DEF JobRows, Steps
<1> HIDE DEF new
<1> QED
  BY <1>2, <1>3, SaverFacts

LEMMA JobStepDoneJob ==
  ASSUME TInv, JobTruth, Lasting, NEW j \in Jobs, JobStepDone(j)
  PROVE  JobTruth'
<1>1. /\ At(j, "stepDone")
      /\ job' = StepEnded(j, "DONE")
      /\ UNCHANGED index
  BY DEF JobStepDone
<1>2. PICK p \in {"step", "finish"} :
        /\ run' = [run EXCEPT ![j].phase = p, ![j].step = "compile"]
        /\ p = "step" => run[j].step = "test"
  BY DEF JobStepDone
<1>3. /\ run'[j].phase = p /\ run'[j].step = "compile"
      /\ \A k \in Savers \ {j} : run'[k] = run[k]
  BY <1>2, PhaseAndStepType, TableFacts, SaverFacts DEF RunPhases
<1>4. JobTrue(j) /\ run[j].phase = "stepDone" /\ OtherClean(j) /\ run[j].step \in Steps
  BY <1>1, SaverFacts DEF JobTruth, JobTrue, At, StepPhases, Runs, Steps
<1>5. /\ job'[j].status = "RUNNING"
      /\ job'[j].steps[run[j].step] = IF job[j].steps[run[j].step] = "none" THEN "none" ELSE "DONE"
      /\ \A s \in Steps \ {run[j].step} : job'[j].steps[s] = job[j].steps[s]
      /\ \A k \in Jobs \ {j} : job'[k] = job[k]
  BY <1>1, StepEndedFacts
<1>6. \A s \in Steps : job'[j].steps[s] \in Clean
  BY <1>4, <1>5 DEF OtherClean, Clean
<1>7. run[j].step = "test" => job'[j].steps["compile"] \in Pending
  BY <1>4, <1>5 DEF OtherClean, Steps
<1>8. job'[j].steps["compile"] = "DONE" => Queued(j)'
  BY <1>1, <1>4, <1>7 DEF JobTrue, Pending, Steps, Queued
<1>9. j \in Refreshes => job'[j].steps["compile"] = "DONE"
  BY <1>4, <1>5 DEF JobTrue, OtherClean
<1>10. AllClean(j)' /\ OtherClean(j)'
  BY <1>3, <1>6, <1>8, <1>9 DEF AllClean, OtherClean, Steps
<1>11. JobTrue(j)'
  BY <1>3, <1>5, <1>9, <1>10 DEF JobTrue
<1> QED
  BY <1>1, <1>3, <1>5, <1>11, JobStep, SaverFacts DEF Queued

LEMMA FinishJob ==
  ASSUME TInv, JobTruth, Lasting, NEW j \in Jobs, Finish(j)
  PROVE  JobTruth'
<1>1. /\ At(j, "finish")
      /\ job' = WithStatus(j, "DONE")
      /\ Goto(j, "ended")
      /\ UNCHANGED index
  BY DEF Finish
<1>2. /\ run'[j].phase = "ended"
      /\ \A k \in Savers \ {j} : run'[k] = run[k]
  BY <1>1, GotoMoves, SaverFacts
<1>3. /\ job'[j].status = "DONE" /\ job'[j].steps = job[j].steps
      /\ \A k \in Jobs \ {j} : job'[k] = job[k]
  BY <1>1, WithStatusFacts
<1>4. AllClean(j) /\ (j \in Refreshes => job[j].steps["compile"] # "none")
  BY <1>1 DEF JobTruth, JobTrue, At
<1>5. Fine(j)'
  BY <1>1, <1>3, <1>4 DEF AllClean, Fine, Queued
<1>6. JobTrue(j)'
  BY <1>2, <1>3, <1>4, <1>5 DEF JobTrue, StepPhases
<1> QED
  BY <1>1, <1>2, <1>3, <1>6, JobStep, SaverFacts DEF Queued

LEMMA JobStepFailedJob ==
  ASSUME TInv, JobTruth, Lasting, NEW j \in Jobs, JobStepFailed(j)
  PROVE  JobTruth'
<1>1. /\ At(j, "stepFailed")
      /\ job' = StepEnded(j, "ERROR")
      /\ Goto(j, "failed")
      /\ UNCHANGED index
  BY DEF JobStepFailed
<1>2. /\ run'[j].phase = "failed"
      /\ \A k \in Savers \ {j} : run'[k] = run[k]
  BY <1>1, GotoMoves, SaverFacts
<1>3. JobTrue(j) /\ run[j].phase = "stepFailed" /\ run[j].step \in Steps
  BY <1>1, SaverFacts DEF JobTruth, At, Runs, Steps
<1>4. /\ job'[j].status = "ERROR"
      /\ job[j].steps["compile"] # "none" => job'[j].steps["compile"] # "none"
      /\ \A k \in Jobs \ {j} : job'[k] = job[k]
  BY <1>1, <1>3, StepEndedFacts DEF Steps
<1>5. JobTrue(j)'
  BY <1>2, <1>3, <1>4 DEF JobTrue, StepPhases
<1> QED
  BY <1>1, <1>2, <1>4, <1>5, JobStep, SaverFacts DEF Queued

LEMMA FinishFailedJob ==
  ASSUME TInv, JobTruth, Lasting, NEW j \in Jobs, FinishFailed(j)
  PROVE  JobTruth'
<1>1. /\ At(j, "failed")
      /\ job' = [job EXCEPT ![j] = [status |-> "ERROR", steps |-> Skipped(j)]]
      /\ Goto(j, "ended")
      /\ UNCHANGED index
  BY DEF FinishFailed
<1>2. /\ run'[j].phase = "ended"
      /\ \A k \in Savers \ {j} : run'[k] = run[k]
  BY <1>1, GotoMoves, SaverFacts
<1>3. /\ job'[j].status = "ERROR" /\ job'[j].steps = Skipped(j)
      /\ \A k \in Jobs \ {j} : job'[k] = job[k]
  BY <1>1, SaverFacts
<1>4. JobTrue(j) /\ run[j].phase = "failed"
  BY <1>1 DEF JobTruth, At
<1>5. job[j].steps["compile"] # "none" => Skipped(j)["compile"] # "none"
  BY SkippedFacts DEF Steps
<1>6. JobTrue(j)'
  BY <1>2, <1>3, <1>4, <1>5 DEF JobTrue, StepPhases
<1> QED
  BY <1>1, <1>2, <1>3, <1>6, JobStep, SaverFacts DEF Queued

\* The steps of a run in which its job row stays as it is.
LEMMA OtherRunStepsJob ==
  ASSUME TInv, JobTruth, Lasting, NEW j \in Savers, RunStep(j), UNCHANGED job
  PROVE  JobTruth'
<1>1. ASSUME NEW p \in RunPhases, Goto(j, p), UNCHANGED index,
             j \in Jobs =>
               /\ run[j].phase \notin {"idle", "ended", "failed", "dead"}
               /\ p \in {"idle", "add", "queued", "mark"} => run[j].phase \in {"add", "queued"}
               /\ p \in StepPhases => run[j].phase \in StepPhases
               /\ p = "testing" => run[j].step = "test"
               /\ p = "stepDone" => run[j].step = "test"
               /\ p # "finish"
      PROVE  JobTruth'
  BY <1>1, JobGoto DEF JobTruth, JobTrue, Queued
<1>2. ASSUME run' \in [Savers -> Runs],
             \A k \in Savers \ {j} : run'[k] = run[k],
             run'[j].step = run[j].step,
             UNCHANGED index,
             \/ run[j].phase = "queued" /\ run'[j].phase = "mark"
             \/ run[j].phase \in StepPhases /\ run'[j].phase \in StepPhases \ {"testing", "stepDone"}
      PROVE  JobTruth'
  <2>1. ASSUME j \in Jobs PROVE JobTrue(j)'
    <3>1. JobTrue(j)
      BY <2>1 DEF JobTruth
    <3>2. OtherClean(j) => OtherClean(j)'
      BY <1>2 DEF OtherClean
    <3> QED
      BY <1>2, <3>1, <3>2 DEF JobTrue, StepPhases
  <2> QED
    BY <1>2, <2>1, JobStep DEF Queued
<1>3. CASE j \in Refreshes /\ TryAcquireProjectLock(j)
  <2>1. Goto(j, "mark") \/ Goto(j, "refused")
    BY <1>3 DEF TryAcquireProjectLock
  <2> QED
    BY <1>1, <1>3, <2>1 DEF TryAcquireProjectLock, At, StepPhases, RunPhases
<1>4. CASE j \in Updates /\ TestAndCompileProject(j)
  <2>1. /\ run' \in [Savers -> Runs] /\ run'[j].phase = "mark" /\ run'[j].step = run[j].step
        /\ \A k \in Savers \ {j} : run'[k] = run[k]
    BY <1>4, PhaseAndDbtType, TableFacts, SaverFacts DEF TestAndCompileProject, RunPhases
  <2> QED
    BY <1>2, <1>4, <2>1 DEF TestAndCompileProject, At
<1>5. CASE j \in Updates /\ TestProjectAdapter(j)
  <2>1. Goto(j, "stepDone") \/ Goto(j, "stepFailed")
    BY <1>5 DEF TestProjectAdapter
  <2>2. run[j].step = "test"
    BY <1>5, SaverFacts DEF TestProjectAdapter, At, JobTruth, JobTrue
  <2> QED
    BY <1>1, <1>5, <2>1, <2>2 DEF TestProjectAdapter, At, StepPhases, RunPhases
<1>6. CASE j \in Jobs /\ AddCompileJob(j)
  BY <1>1, <1>6 DEF AddCompileJob, At, StepPhases, RunPhases
<1>7. CASE j \in Jobs /\ CompileAllExplores(j)
  <2>1. CASE Goto(j, "stepFailed")
    BY <1>1, <1>7, <2>1 DEF CompileAllExplores, At, StepPhases, RunPhases
  <2>2. ASSUME NEW c \in Configs,
               run' = [run EXCEPT ![j].phase = "replaceTags", ![j].config = c]
        PROVE  /\ run' \in [Savers -> Runs]
               /\ run'[j].phase = "replaceTags" /\ run'[j].step = run[j].step
               /\ \A k \in Savers \ {j} : run'[k] = run[k]
    BY <2>2, PhaseAndConfigType, TableFacts DEF RunPhases
  <2> QED
    BY <1>2, <1>7, <2>1, <2>2 DEF CompileAllExplores, At, StepPhases
<1>8. CASE ReplaceYamlTags(j)
  BY <1>1, <1>8 DEF ReplaceYamlTags, At, StepPhases, RunPhases
<1>9. CASE ReplaceProjectParameters(j)
  BY <1>1, <1>9 DEF ReplaceProjectParameters, At, StepPhases, RunPhases
<1>10. CASE ReadTags(j) \/ ReadIcons(j) \/ ReadEdges(j)
  <2>1. PICK p \in {"readIcons", "readEdges", "save"}, prev \in Payloads :
             run' = [run EXCEPT ![j].phase = p, ![j].prev = prev]
    BY <1>10, ReadsRun
  <2>2. /\ run' \in [Savers -> Runs] /\ run'[j].phase = p /\ run'[j].step = run[j].step
        /\ \A k \in Savers \ {j} : run'[k] = run[k]
    BY <2>1, PhaseAndPrevType, TableFacts DEF RunPhases
  <2> QED
    BY <1>2, <1>10, <2>2, ReadsRun DEF StepPhases
<1>11. CASE SaveExploresToCache(j)
  <2>1. \/ Goto(j, "queueIndex") \/ Goto(j, "stepFailed") \/ (j \in Deploys /\ Goto(j, "ended"))
    BY <1>11 DEF SaveExploresToCache, Fail
  <2> QED
    BY <1>1, <1>11, <2>1 DEF SaveExploresToCache, At, StepPhases, RunPhases, Jobs
<1>12. CASE QueueIndexCatalog(j)
  <2>1. \/ Goto(j, "stepDone") \/ (j \in Deploys /\ Goto(j, "ended"))
    BY <1>12 DEF QueueIndexCatalog
  <2>2. \A k \in Savers : (Queued(k) => Queued(k)') /\ Queued(j)'
    BY <1>12, TableFacts DEF QueueIndexCatalog, Queued, Indexings
  <2>3. j \in Jobs => job[j].status # "ERROR"
    BY <1>12 DEF JobTruth, JobTrue, QueueIndexCatalog, At
  <2> QED
    BY <1>12, <2>1, <2>2, <2>3, JobGoto DEF QueueIndexCatalog, At, StepPhases, RunPhases, Jobs
<1>13. CASE j \in Jobs /\ (\/ MarkRunning(j) \/ StartJobStep(j) \/ JobStepDone(j) \/ Finish(j)
                           \/ JobStepFailed(j) \/ FinishFailed(j))
  BY <1>13, MarkRunningJob, StartJobStepJob, JobStepDoneJob, FinishJob, JobStepFailedJob,
     FinishFailedJob
<1> QED
  BY <1>3, <1>4, <1>5, <1>6, <1>7, <1>8, <1>9, <1>10, <1>11, <1>12, <1>13
     DEF RunStep, CompileStep, SaveStep

LEMMA RunStepJob ==
  ASSUME TInv, JobTruth, Lasting, NEW j \in Savers, RunStep(j)
  PROVE  JobTruth'
<1>1. CASE UNCHANGED job
  BY <1>1, OtherRunStepsJob
<1>2. CASE ~UNCHANGED job
  <2>1. j \in Jobs /\ (\/ MarkRunning(j) \/ StartJobStep(j) \/ JobStepDone(j) \/ Finish(j)
                       \/ JobStepFailed(j) \/ FinishFailed(j))
    BY <1>2 DEF RunStep, CompileStep, SaveStep, TryAcquireProjectLock, TestAndCompileProject,
                TestProjectAdapter, AddCompileJob, CompileAllExplores, ReplaceYamlTags,
                ReplaceProjectParameters, ReadTags, ReadIcons, ReadEdges, SaveExploresToCache,
                QueueIndexCatalog
  <2> QED
    BY <2>1, MarkRunningJob, StartJobStepJob, JobStepDoneJob, FinishJob, JobStepFailedJob,
       FinishFailedJob
<1> QED
  BY <1>1, <1>2

\* What a failed call may leave in the row of its job.
LEMMA PartlyFacts ==
  ASSUME TInv, NEW j \in Jobs, PartlyWritten(j)
  PROVE  /\ \A k \in Jobs \ {j} : job'[k] = job[k]
         /\ \/ job'[j].status = job[j].status
            \/ job'[j].status = "RUNNING" /\ run[j].phase \in {"mark", "stepDone"}
            \/ job'[j].status = "DONE" /\ run[j].phase = "finish"
         /\ \A s \in Steps :
              \/ job'[j].steps[s] = job[j].steps[s]
              \/ /\ run[j].phase \in {"step", "stepDone", "stepFailed"}
                 /\ job'[j].steps[s] # "none"
              \/ /\ run[j].phase = "failed" /\ j \notin Refreshes
                 /\ job[j].steps[s] = "PENDING" /\ job'[j].steps[s] = "SKIPPED"
<1>1. run[j].step \in Steps
  BY SaverFacts DEF Runs, Steps
<1>2. CASE UNCHANGED job
  BY <1>2
<1>3. CASE At(j, "mark") /\ job' = WithStatus(j, "RUNNING")
  BY <1>3, WithStatusFacts DEF At
<1>4. CASE At(j, "finish") /\ job' = WithStatus(j, "DONE")
  BY <1>4, WithStatusFacts DEF At
<1>5. CASE /\ run[j].phase \in {"step", "stepDone", "stepFailed"}
           /\ \E status \in {"RUNNING", "DONE", "ERROR"} : job' = WithStep(j, status)
  BY <1>1, <1>5, WithStepFacts
<1>6. CASE At(j, "stepDone") /\ job' = StepEnded(j, "DONE")
  BY <1>1, <1>6, StepEndedFacts DEF At
<1>7. CASE At(j, "failed") /\ job' = [job EXCEPT ![j].steps = Skipped(j)]
  <2>1. /\ job'[j].status = job[j].status /\ job'[j].steps = Skipped(j)
        /\ \A k \in Jobs \ {j} : job'[k] = job[k]
    BY <1>7, SaverFacts DEF JobRows
  <2> QED
    BY <1>7, <2>1, SkippedFacts DEF At
<1> QED
  BY <1>2, <1>3, <1>4, <1>5, <1>6, <1>7 DEF PartlyWritten, At

\* A failed call or a crash ends a run, or the part of it that it was in.
LEMMA JobBreaks ==
  ASSUME TInv, JobTruth, Lasting, NEW j \in Savers,
         NEW p \in {"ended", "failed", "stepFailed", "dead"},
         Goto(j, p), PartlyWritten(j), faults' > 0, UNCHANGED index,
         run[j].phase # "idle",
         p = "stepFailed" => run[j].phase \notin {"finish", "failed", "ended", "dead"}
  PROVE  JobTruth'
<1>1. /\ run'[j].phase = p /\ run'[j].step = run[j].step
      /\ \A k \in Savers \ {j} : run'[k] = run[k]
  BY GotoMoves
<1>2. ASSUME j \in Jobs PROVE JobTrue(j)'
  <2>1. JobTrue(j)
    BY <1>2 DEF JobTruth
  <2>2. j \in Refreshes => job'[j].steps["compile"] # "none"
    BY <1>2, <2>1, PartlyFacts DEF JobTrue, Steps
  <2>3. job'[j].status = "ERROR" => p # "stepFailed"
    BY <1>2, <2>1, PartlyFacts DEF JobTrue
  <2>4. job'[j].status = "DONE" => Fine(j)' /\ p # "stepFailed"
    <3>1. CASE run[j].phase = "finish"
      <4>1. AllClean(j) /\ p # "stepFailed"
        BY <2>1, <3>1 DEF JobTrue
      <4>2. \A s \in Steps : job'[j].steps[s] = job[j].steps[s]
        BY <1>2, <3>1, PartlyFacts
      <4> QED
        BY <4>1, <4>2 DEF AllClean, Fine, Queued, Steps
    <3>2. ASSUME run[j].phase # "finish", job'[j].status = "DONE"
          PROVE  Fine(j)' /\ p # "stepFailed"
      <4>1. job[j].status = "DONE"
        BY <1>2, <3>2, PartlyFacts
      <4>2. run[j].phase \in {"failed", "ended", "dead"} /\ Fine(j)
        BY <2>1, <4>1 DEF JobTrue
      <4>3. \A s \in Steps :
              \/ job'[j].steps[s] = job[j].steps[s]
              \/ j \notin Refreshes /\ job'[j].steps[s] = "SKIPPED"
        BY <1>2, <4>2, PartlyFacts
      <4> QED
        BY <4>2, <4>3 DEF Fine, Queued, Steps
    <3> QED
      BY <3>1, <3>2
  <2> QED
    BY <1>1, <2>2, <2>3, <2>4 DEF JobTrue, StepPhases
<1>3. \A k \in Jobs \ {j} : job'[k] = job[k]
  BY PartlyFacts DEF PartlyWritten
<1> QED
  BY <1>1, <1>2, <1>3, JobStep DEF Queued

LEMMA ThrowsJob ==
  ASSUME TInv, JobTruth, Lasting, NEW j \in Savers, Throws(j)
  PROVE  JobTruth'
<1>1. faults' > 0
  BY SaverFacts DEF Throws
<1>2. CASE RunThrows(j)
  <2>1. /\ PartlyWritten(j) /\ UNCHANGED index
        /\ run[j].phase \notin {"idle", "ended", "dead"}
    BY <1>2 DEF RunThrows, At
  <2>2. \/ Goto(j, "ended") \/ Goto(j, "failed")
        \/ Goto(j, "stepFailed") /\ run[j].phase \notin {"finish", "failed", "ended", "dead"}
    BY <1>2 DEF RunThrows, Fail
  <2> QED
    BY <1>1, <2>1, <2>2, JobBreaks
<1>3. CASE j \in Updates /\ UpdateThrows(j)
  <2>1. /\ Goto(j, "ended") /\ UNCHANGED <<job, index>> /\ run[j].phase = "idle"
    BY <1>3 DEF UpdateThrows, At
  <2>2. run'[j].phase = "ended" /\ \A k \in Savers \ {j} : run'[k] = run[k]
    BY <2>1, GotoMoves
  <2>3. JobTrue(j) /\ j \notin Refreshes
    BY <1>3 DEF JobTruth, Jobs
  <2>4. JobTrue(j)'
    BY <2>1, <2>2, <2>3 DEF JobTrue, StepPhases
  <2> QED
    BY <2>1, <2>2, <2>4, JobStep DEF Queued
<1>4. CASE IndexThrows(j)
  <2>1. /\ UNCHANGED <<run, job>>
        /\ \A k \in Savers : Queued(k) => Queued(k)'
    BY <1>4, TableFacts DEF IndexThrows, Queued, Indexings
  <2> QED
    BY <2>1, JobKept, SaverFacts DEF JobTruth
<1> QED
  BY <1>2, <1>3, <1>4 DEF Throws

LEMMA NextJobs ==
  ASSUME TInv, JobTruth, [Next]_vars
  PROVE  JobTruth'
<1>1. Lasting
  BY FaultsGrow
<1>2. ASSUME NEW d \in Deploys, Deploy(d)
      PROVE  JobTruth'
  <2>1. PICK c \in Configs : run' = [run EXCEPT ![d].phase = "replaceTags", ![d].config = c]
    BY <1>2 DEF Deploy
  <2>2. \A k \in Savers \ {d} : run'[k] = run[k]
    BY <2>1, PhaseAndConfigType, TableFacts, SaverFacts DEF RunPhases
  <2>3. d \notin Jobs
    OBVIOUS
  <2> QED
    BY <1>2, <1>1, <2>2, <2>3, JobStep, SaverFacts DEF Deploy, Queued
<1>3. ASSUME NEW j \in Savers, Crash(j)
      PROVE  JobTruth'
  <2>1. CASE run[j].phase # "idle" /\ Goto(j, "dead") /\ PartlyWritten(j) /\ UNCHANGED index
    <3>1. faults' > 0
      BY <1>3, SaverFacts DEF Crash
    <3> QED
      BY <1>1, <2>1, <3>1, JobBreaks
  <2>2. CASE /\ index[j].phase # "none" /\ Proceed(j, "failed")
             /\ UNCHANGED <<run, job>>
    <3>1. \A k \in Savers : Queued(k) => Queued(k)'
      BY <2>2, ProceedType, TableFacts DEF Queued, IndexPhases
    <3> QED
      BY <1>1, <2>2, <3>1, JobKept, SaverFacts DEF JobTruth
  <2> QED
    BY <1>3, <2>1, <2>2 DEF Crash
<1>4. CASE EditStep \/ \E j \in Savers : IndexStep(j)
  BY <1>4, <1>1, QuietSteps, JobKept, SaverFacts DEF JobTruth
<1>5. CASE UNCHANGED vars
  BY <1>5, <1>1, JobKept DEF vars, JobTruth, Queued
<1> QED
  BY <1>2, <1>3, <1>4, <1>5, <1>1, ScheduleCompileProjectJob, UpdateAndScheduleAsyncWorkJob,
     RunStepJob, ThrowsJob DEF Next

LEMMA JobsTruth == Spec => [](TInv /\ JobTruth)
<1>1. TInv /\ JobTruth /\ [Next]_vars => JobTruth'
  BY NextJobs
<1> QED
  BY Typing, InitJobs, <1>1, PTL DEF Spec

LEMMA TruthOfDone ==
  ASSUME TInv, JobTruth
  PROVE  DoneIsTrue
<1> SUFFICES ASSUME NEW j \in Jobs, job[j].status = "DONE"
             PROVE  /\ \A s \in DOMAIN job[j].steps : job[j].steps[s] \notin {"RUNNING", "ERROR"}
                    /\ job[j].steps["compile"] = "DONE" => index[j].phase # "none"
                    /\ j \in Refreshes => job[j].steps["compile"] = "DONE"
  BY DEF DoneIsTrue
<1>1. Fine(j)
  BY DEF JobTruth, JobTrue
<1>2. DOMAIN job[j].steps = Steps
  BY SaverFacts DEF JobRows, Steps
<1> QED
  BY <1>1, <1>2 DEF Fine, Clean, Queued

\* A poller that is told DONE (job, tryJobStep) can rely on it: no step failed or is
\* running, and what was compiled was saved and its catalog queued.
THEOREM DoneTellsTheTruth == Spec => []DoneIsTrue
<1>1. TInv /\ JobTruth => DoneIsTrue
  BY TruthOfDone
<1> QED
  BY JobsTruth, <1>1, PTL

\* What EndedJobsStayEnded says of one job.
LastWord(j) ==
    job[j].status \in {"DONE", "ERROR"} =>
        /\ \/ job'[j].status = job[j].status
           \/ job'[j].status = "ERROR" /\ At(j, "failed") /\ faults > 0
        /\ \A s \in DOMAIN job[j].steps :
             job'[j].steps[s] # job[j].steps[s] =>
                 job[j].steps[s] = "PENDING" /\ job'[j].steps[s] = "SKIPPED"

LEMMA NextLastWord ==
  ASSUME TInv, JobTruth, [Next]_vars, NEW k \in Jobs
  PROVE  LastWord(k)
<1>1. CASE job'[k] = job[k]
  BY <1>1 DEF LastWord
<1>2. CASE UNCHANGED job
  BY <1>2 DEF LastWord
<1>3. ASSUME NEW j \in Jobs, \A i \in Jobs \ {j} : job'[i] = job[i],
             run[j].phase \notin {"failed", "ended", "dead"}
      PROVE  LastWord(k)
  <2>1. CASE k = j
    BY <1>3, <2>1 DEF JobTruth, JobTrue, LastWord
  <2>2. CASE k # j
    BY <1>1, <1>3, <2>2
  <2> QED
    BY <2>1, <2>2
<1>4. ASSUME NEW j \in Jobs, FinishFailed(j)
      PROVE  LastWord(k)
  <2>1. CASE k = j
    <3>1. job[k].status = "DONE" => faults > 0
      BY <1>4, <2>1 DEF FinishFailed, At, JobTruth, JobTrue
    <3>2. At(k, "failed") /\ job'[k].status = "ERROR" /\ job'[k].steps = Skipped(k)
      BY <1>4, <2>1, SaverFacts DEF FinishFailed
    <3>3. DOMAIN job[k].steps = Steps
      BY SaverFacts DEF JobRows, Steps
    <3> QED
      BY <3>1, <3>2, <3>3, SkippedFacts DEF LastWord
  <2>2. CASE k # j
    BY <1>1, <1>4, <2>2, SaverFacts DEF FinishFailed
  <2> QED
    BY <2>1, <2>2
<1>5. ASSUME NEW j \in Jobs,
             \/ MarkRunning(j) \/ StartJobStep(j) \/ JobStepDone(j) \/ Finish(j) \/ JobStepFailed(j)
      PROVE  LastWord(k)
  <2>1. run[j].phase \notin {"failed", "ended", "dead"}
    BY <1>5 DEF MarkRunning, StartJobStep, JobStepDone, Finish, JobStepFailed, At
  <2>2. \A i \in Jobs \ {j} : job'[i] = job[i]
    BY <1>5, WithStatusFacts, WithStepFacts, StepEndedFacts
       DEF MarkRunning, StartJobStep, JobStepDone, Finish, JobStepFailed
  <2> QED
    BY <1>3, <2>1, <2>2
<1>6. ASSUME NEW r \in Refreshes, ScheduleCompileProject(r)
      PROVE  LastWord(k)
  BY <1>3, <1>6, SaverFacts DEF ScheduleCompileProject, At
<1>7. ASSUME NEW u \in Updates, NEW toDbt \in BOOLEAN, UpdateAndScheduleAsyncWork(u, toDbt)
      PROVE  LastWord(k)
  BY <1>3, <1>7, SaverFacts DEF UpdateAndScheduleAsyncWork, At
<1>8. ASSUME NEW j \in Savers, RunStep(j)
      PROVE  UNCHANGED job \/ (j \in Jobs /\ (\/ MarkRunning(j) \/ StartJobStep(j) \/ JobStepDone(j)
                                              \/ Finish(j) \/ JobStepFailed(j) \/ FinishFailed(j)))
  BY <1>8 DEF RunStep, CompileStep, SaveStep, TryAcquireProjectLock, TestAndCompileProject,
              TestProjectAdapter, AddCompileJob, CompileAllExplores, ReplaceYamlTags,
              ReplaceProjectParameters, ReadTags, ReadIcons, ReadEdges, SaveExploresToCache,
              QueueIndexCatalog
<1>9. ASSUME NEW j \in Savers, PartlyWritten(j)
      PROVE  LastWord(k)
  <2>1. CASE j \in Jobs /\ run[j].phase \notin {"failed", "ended", "dead"}
    BY <1>3, <1>9, <2>1, PartlyFacts
  <2>2. CASE j \in Jobs /\ run[j].phase \in {"failed", "ended", "dead"}
    <3>1. CASE k = j
      <4>1. /\ job'[k].status = job[k].status
            /\ \A s \in Steps :
                 \/ job'[k].steps[s] = job[k].steps[s]
                 \/ job[k].steps[s] = "PENDING" /\ job'[k].steps[s] = "SKIPPED"
        <5>1. \/ job' = job
              \/ job' = [job EXCEPT ![j].steps = Skipped(j)]
          BY <1>9, <2>2 DEF PartlyWritten, At
        <5>2. /\ job'[k].status = job[k].status
              /\ job'[k].steps = job[k].steps \/ job'[k].steps = Skipped(k)
          BY <3>1, <5>1, SaverFacts DEF JobRows
        <5> QED
          BY <5>2, SkippedFacts
      <4>2. DOMAIN job[k].steps = Steps
        BY SaverFacts DEF JobRows, Steps
      <4> QED
        BY <4>1, <4>2 DEF LastWord
    <3>2. CASE k # j
      BY <1>1, <1>9, <2>2, <3>2, PartlyFacts
    <3> QED
      BY <3>1, <3>2
  <2>3. CASE j \notin Jobs
    BY <1>2, <1>9, <2>3 DEF PartlyWritten
  <2> QED
    BY <2>1, <2>2, <2>3
<1>10. ASSUME NEW j \in Savers, Throws(j) \/ Crash(j)
       PROVE  PartlyWritten(j)
  BY <1>10 DEF Throws, RunThrows, UpdateThrows, IndexThrows, Crash, PartlyWritten
<1>11. CASE \/ \E d \in Deploys : Deploy(d)
            \/ EditStep \/ \E j \in Savers : IndexStep(j)
            \/ UNCHANGED vars
  BY <1>2, <1>11, QuietSteps DEF Deploy, vars
<1> QED
  BY <1>2, <1>4, <1>5, <1>6, <1>7, <1>8, <1>9, <1>10, <1>11 DEF Next

\* Once a poller reads DONE or ERROR, the job row says nothing else any more, except
\* that the steps of an update that never began are marked as skipped, and that DONE
\* becomes ERROR when the catch block follows the lost answer of that very write.
THEOREM EndedIsTheLastWord == Spec => EndedJobsStayEnded
<1>1. TInv /\ JobTruth /\ [Next]_vars =>
        [\A j \in Jobs : job[j].status \in {"DONE", "ERROR"} =>
           /\ \/ job'[j].status = job[j].status
              \/ job'[j].status = "ERROR" /\ At(j, "failed") /\ faults > 0
           /\ \A s \in DOMAIN job[j].steps :
                job'[j].steps[s] # job[j].steps[s] =>
                    job[j].steps[s] = "PENDING" /\ job'[j].steps[s] = "SKIPPED"]_vars
  BY NextLastWord DEF LastWord
<1> QED
  BY JobsTruth, <1>1, PTL DEF Spec, EndedJobsStayEnded

-----------------------------------------------------------------------------
(* The configuration.  That it is whole while nobody has the lock follows     *)
(* from how much of it the holder of the lock has replaced so far.           *)

Whole == explores.config = parameters /\ yamlDefined = parameters.defined

\* Nothing failed, and only refreshes were asked for.
Untouched ==
    /\ faults = 0
    /\ \A j \in Savers \ Refreshes : run[j].phase = "idle"
    /\ \A c \in Configs : c.items \cup c.broken # {}

Progress(r) ==
    /\ run[r].phase \in {"mark", "step", "testing", "compiling", "replaceTags", "queueIndex",
                         "stepDone", "finish", "stepFailed", "failed"} => Whole
    /\ run[r].phase \in {"replaceParameters", "readTags", "readIcons", "readEdges", "save"} =>
           yamlDefined = run[r].config.defined
    /\ run[r].phase \in {"readTags", "readIcons", "readEdges", "save"} =>
           parameters = run[r].config

WholeInv ==
    Untouched => /\ lock = None => Whole
                 /\ \A r \in Refreshes : Progress(r)

\* A step of a refresh that has the lock, or changes no table.
LEMMA RefreshStep ==
  ASSUME TInv, LockIsHeld, WholeInv, Untouched,
         NEW r \in Refreshes,
         \A k \in Savers \ {r} : run'[k] = run[k],
         run[r].phase \in UnderLock \/ UNCHANGED <<yamlDefined, parameters, explores>>,
         Progress(r)',
         lock' = None => lock = None \/ Whole',
         lock = None => UNCHANGED <<yamlDefined, parameters, explores>>
  PROVE  WholeInv'
<1>1. ASSUME NEW k \in Refreshes, k # r PROVE Progress(k)'
  <2>1. run'[k] = run[k]
    BY <1>1, SaverFacts
  <2>2. CASE UNCHANGED <<yamlDefined, parameters, explores>>
    BY <2>1, <2>2 DEF WholeInv, Progress, Whole
  <2>3. CASE run[r].phase \in UnderLock
    <3>1. run[k].phase \notin UnderLock
      BY <1>1, <2>3 DEF LockIsHeld
    <3>2. run'[k].phase \notin {"mark", "step", "testing", "compiling", "replaceTags", "queueIndex",
                         "stepDone", "finish", "stepFailed", "failed", "replaceParameters",
                         "readTags", "readIcons", "readEdges", "save"}
      BY <2>1, <3>1 DEF UnderLock, RunPhases
    <3> QED
      BY <3>2 DEF Progress
  <2> QED
    BY <2>2, <2>3
<1>2. lock' = None => Whole'
  BY DEF WholeInv, Whole
<1> QED
  BY <1>1, <1>2 DEF WholeInv

\* A refresh that moves on while no table changes.
LEMMA RefreshGoto ==
  ASSUME TInv, LockIsHeld, WholeInv, Untouched,
         NEW r \in Refreshes, NEW p, Goto(r, p),
         UNCHANGED <<yamlDefined, parameters, explores>>,
         p \in {"idle", "add", "queued", "refused", "ended", "dead"} \/ Whole,
         p \notin {"replaceParameters", "readTags", "readIcons", "readEdges", "save"},
         lock' = None => lock = None \/ Whole
  PROVE  WholeInv'
<1>1. run'[r].phase = p /\ \A k \in Savers \ {r} : run'[k] = run[k]
  BY GotoMoves, SaverFacts
<1>2. Whole => Whole'
  BY DEF Whole
<1>3. Progress(r)'
  BY <1>1, <1>2 DEF Progress
<1> QED
  BY <1>1, <1>2, <1>3, RefreshStep

LEMMA RefreshRunStep ==
  ASSUME TInv, LockIsHeld, WholeInv, Untouched, NEW r \in Refreshes, RunStep(r)
  PROVE  WholeInv'
<1>1. r \in Savers /\ r \in Jobs /\ r \notin Updates /\ r \notin Deploys /\ Progress(r)
  BY SaverFacts DEF WholeInv
<1>2. run[r].phase \in UnderLock => lock = r /\ lock # None
  BY DEF LockIsHeld, Uuids, Savers, Jobs
<1>3. CASE TryAcquireProjectLock(r)
  <2>1. CASE lock = None
    BY <1>3, <2>1, RefreshGoto DEF TryAcquireProjectLock, project, WholeInv
  <2>2. CASE lock # None
    BY <1>3, <2>2, RefreshGoto DEF TryAcquireProjectLock, project
  <2> QED
    BY <2>1, <2>2
<1>4. CASE AddCompileJob(r)
  BY <1>4, RefreshGoto DEF AddCompileJob, project
<1>5. CASE MarkRunning(r)
  <2>1. run'[r].phase = "step" /\ \A k \in Savers \ {r} : run'[k] = run[k]
    BY <1>1, <1>5, PhaseAndStepType, TableFacts DEF MarkRunning, RunPhases
  <2>2. Whole /\ UNCHANGED <<yamlDefined, parameters, explores, lock>>
    BY <1>1, <1>5 DEF MarkRunning, At, Progress, project
  <2>3. Progress(r)'
    BY <2>1, <2>2 DEF Progress, Whole
  <2> QED
    BY <2>1, <2>2, <2>3, RefreshStep
<1>6. CASE StartJobStep(r)
  <2>1. PICK p \in {"testing", "compiling"} : Goto(r, p)
    BY <1>6 DEF StartJobStep
  <2>2. Whole
    BY <1>1, <1>6 DEF StartJobStep, At, Progress
  <2> QED
    BY <1>6, <2>1, <2>2, RefreshGoto DEF StartJobStep, project
<1>7. CASE CompileAllExplores(r)
  <2>1. Whole /\ UNCHANGED <<yamlDefined, parameters, explores, lock>>
    BY <1>1, <1>7 DEF CompileAllExplores, At, Progress, project
  <2>2. CASE Goto(r, "stepFailed")
    BY <2>1, <2>2, RefreshGoto
  <2>3. ASSUME NEW c \in Configs,
               run' = [run EXCEPT ![r].phase = "replaceTags", ![r].config = c]
        PROVE  WholeInv'
    <3>1. run'[r].phase = "replaceTags" /\ \A k \in Savers \ {r} : run'[k] = run[k]
      BY <1>1, <2>3, PhaseAndConfigType, TableFacts DEF RunPhases
    <3>2. Progress(r)'
      BY <2>1, <3>1 DEF Progress, Whole
    <3> QED
      BY <2>1, <3>1, <3>2, RefreshStep
  <2> QED
    BY <1>7, <2>2, <2>3 DEF CompileAllExplores
<1>8. CASE JobStepDone(r)
  <2>1. PICK p \in {"step", "finish"} : run' = [run EXCEPT ![r].phase = p, ![r].step = "compile"]
    BY <1>8 DEF JobStepDone
  <2>2. run'[r].phase = p /\ \A k \in Savers \ {r} : run'[k] = run[k]
    BY <1>1, <2>1, PhaseAndStepType, TableFacts DEF RunPhases
  <2>3. Whole /\ UNCHANGED <<yamlDefined, parameters, explores, lock>>
    BY <1>1, <1>8 DEF JobStepDone, At, Progress, project
  <2>4. Progress(r)'
    BY <2>2, <2>3 DEF Progress, Whole
  <2> QED
    BY <2>2, <2>3, <2>4, RefreshStep
<1>9. CASE Finish(r)
  <2>1. Whole
    BY <1>1, <1>9 DEF Finish, At, Progress
  <2> QED
    BY <1>9, <2>1, RefreshGoto DEF Finish, project
<1>10. CASE JobStepFailed(r)
  <2>1. Whole
    BY <1>1, <1>10 DEF JobStepFailed, At, Progress
  <2> QED
    BY <1>10, <2>1, RefreshGoto DEF JobStepFailed, project
<1>11. CASE FinishFailed(r)
  <2>1. Whole
    BY <1>1, <1>11 DEF FinishFailed, At, Progress
  <2> QED
    BY <1>11, <2>1, RefreshGoto DEF FinishFailed, project
<1>12. CASE ReplaceYamlTags(r)
  <2>1. /\ yamlDefined' = run[r].config.defined
        /\ Goto(r, "replaceParameters")
        /\ run[r].phase \in UnderLock
        /\ UNCHANGED lock
    BY <1>12 DEF ReplaceYamlTags, At, UnderLock, RunPhases
  <2>2. /\ run'[r].phase = "replaceParameters" /\ run'[r].config = run[r].config
        /\ \A k \in Savers \ {r} : run'[k] = run[k]
    BY <1>1, <2>1, GotoMoves
  <2>3. Progress(r)'
    BY <2>1, <2>2 DEF Progress
  <2> QED
    BY <1>2, <2>1, <2>2, <2>3, RefreshStep
<1>13. CASE ReplaceProjectParameters(r)
  <2>1. /\ parameters' = run[r].config
        /\ UNCHANGED <<yamlDefined, lock>>
        /\ Goto(r, "readTags")
        /\ run[r].phase \in UnderLock
        /\ yamlDefined = run[r].config.defined
    BY <1>1, <1>13 DEF ReplaceProjectParameters, At, UnderLock, RunPhases, Progress
  <2>2. /\ run'[r].phase = "readTags" /\ run'[r].config = run[r].config
        /\ \A k \in Savers \ {r} : run'[k] = run[k]
    BY <1>1, <2>1, GotoMoves
  <2>3. Progress(r)'
    BY <2>1, <2>2 DEF Progress
  <2> QED
    BY <1>2, <2>1, <2>2, <2>3, RefreshStep
<1>14. CASE ReadTags(r) \/ ReadIcons(r) \/ ReadEdges(r)
  <2>1. PICK p \in {"readIcons", "readEdges", "save"}, prev \in Payloads :
             run' = [run EXCEPT ![r].phase = p, ![r].prev = prev]
    BY <1>1, <1>14, ReadsRun
  <2>2. run'[r].phase = p /\ run'[r].config = run[r].config /\ \A k \in Savers \ {r} : run'[k] = run[k]
    BY <1>1, <2>1, PhaseAndPrevType, TableFacts DEF RunPhases
  <2>3. /\ run[r].phase \in {"readTags", "readIcons", "readEdges"}
        /\ UNCHANGED <<yamlDefined, parameters, explores, lock>>
    BY <1>1, <1>14, ReadsRun DEF project
  <2>4. Progress(r)'
    BY <1>1, <2>2, <2>3 DEF Progress
  <2> QED
    BY <2>2, <2>3, <2>4, RefreshStep
<1>15. CASE SaveExploresToCache(r)
  <2>1. run[r].config.items \cup run[r].config.broken # {}
    BY <1>1, SaverFacts DEF Runs, Untouched
  <2>2. /\ explores'.config = run[r].config
        /\ Goto(r, "queueIndex")
        /\ UNCHANGED <<yamlDefined, parameters, lock>>
        /\ run[r].phase = "save"
    BY <1>15, <2>1 DEF SaveExploresToCache, At
  <2>3. run'[r].phase = "queueIndex" /\ \A k \in Savers \ {r} : run'[k] = run[k]
    BY <1>1, <2>2, GotoMoves
  <2>4. Whole'
    BY <1>1, <2>2 DEF Progress, Whole
  <2>5. Progress(r)'
    BY <2>3, <2>4 DEF Progress
  <2>6. run[r].phase \in UnderLock
    BY <2>2 DEF UnderLock, RunPhases
  <2> QED
    BY <1>2, <2>2, <2>3, <2>5, <2>6, RefreshStep
<1>16. CASE QueueIndexCatalog(r)
  <2>1. Whole
    BY <1>1, <1>16 DEF QueueIndexCatalog, At, Progress
  <2> QED
    BY <1>1, <1>16, <2>1, RefreshGoto DEF QueueIndexCatalog, project
<1> QED
  BY <1>1, <1>3, <1>4, <1>5, <1>6, <1>7, <1>8, <1>9, <1>10, <1>11, <1>12, <1>13, <1>14,
     <1>15, <1>16 DEF RunStep, CompileStep, SaveStep

LEMMA NextWhole ==
  ASSUME TInv, LockIsHeld, WholeInv, [Next]_vars
  PROVE  WholeInv'
<1> SUFFICES ASSUME Untouched' PROVE WholeInv'
  BY DEF WholeInv
<1>1. \A c \in Configs : c.items \cup c.broken # {}
  BY DEF Untouched
<1>2. faults = 0
  BY FaultsGrow DEF Untouched
<1>3. ASSUME NEW j \in Savers \ Refreshes, RunStep(j)
      PROVE  FALSE
  <2>1. \E p \in RunPhases \ {"idle"} : Moves(j, p)
    BY <1>3, LockOfRunStep
  <2> QED
    BY <2>1 DEF Moves, Untouched
<1>4. ASSUME NEW r \in Refreshes, RunStep(r)
      PROVE  WholeInv'
  <2>1. Untouched
    <3>1. \E p \in RunPhases \ {"idle"} : Moves(r, p)
      BY <1>4, LockOfRunStep, SaverFacts
    <3> QED
      BY <1>1, <1>2, <3>1 DEF Moves, Untouched
  <2> QED
    BY <1>4, <2>1, RefreshRunStep
<1>5. ASSUME NEW r \in Refreshes, ScheduleCompileProject(r)
      PROVE  WholeInv'
  <2>1. /\ Goto(r, "add")
        /\ UNCHANGED <<yamlDefined, parameters, explores, lock>>
    BY <1>5 DEF ScheduleCompileProject, project
  <2>2. \A k \in Savers \ {r} : run'[k] = run[k]
    BY <2>1, GotoMoves, SaverFacts
  <2>3. Untouched
    BY <1>1, <1>2, <2>2 DEF Untouched
  <2> QED
    BY <2>1, <2>3, RefreshGoto
<1>6. ASSUME NEW u \in Updates, NEW toDbt \in BOOLEAN, UpdateAndScheduleAsyncWork(u, toDbt)
      PROVE  FALSE
  <2>1. Goto(u, "add") \/ Goto(u, "finish")
    BY <1>6 DEF UpdateAndScheduleAsyncWork
  <2>2. run'[u].phase # "idle"
    BY <2>1, GotoMoves, SaverFacts
  <2> QED
    BY <2>2, SaverFacts DEF Untouched
<1>7. ASSUME NEW d \in Deploys, Deploy(d)
      PROVE  FALSE
  <2>1. PICK c \in Configs : run' = [run EXCEPT ![d].phase = "replaceTags", ![d].config = c]
    BY <1>7 DEF Deploy
  <2>2. run'[d].phase = "replaceTags"
    BY <2>1, PhaseAndConfigType, TableFacts, SaverFacts DEF RunPhases
  <2> QED
    BY <2>2, SaverFacts DEF Untouched, Jobs
<1>8. ASSUME NEW j \in Savers, Throws(j) \/ Crash(j)
      PROVE  FALSE
  BY <1>2, <1>8 DEF Throws, Crash, Untouched
<1>9. CASE EditStep \/ \E j \in Savers : IndexStep(j)
  <2>1. /\ UNCHANGED <<yamlDefined, parameters, lock, run, faults>>
        /\ explores'.config = explores.config
    BY <1>9, QuietSteps
  <2> QED
    BY <2>1 DEF WholeInv, Untouched, Progress, Whole
<1>10. CASE UNCHANGED vars
  BY <1>10 DEF vars, WholeInv, Untouched, Progress, Whole
<1> QED
  BY <1>3, <1>4, <1>5, <1>6, <1>7, <1>8, <1>9, <1>10 DEF Next

\* Refreshes of a project that overlap never leave tags, parameters and explores of
\* different compilations behind: the project lock serialises compileProject.
THEOREM RefreshesDoNotMix == Spec => []ConfigurationIsWhole
<1>1. Init => WholeInv
  BY DEF Init, WholeInv, Whole, Progress, Savers, Jobs
<1>2. TInv /\ LockIsHeld /\ WholeInv /\ [Next]_vars => WholeInv'
  BY NextWhole
<1>3. WholeInv => ConfigurationIsWhole
  BY DEF WholeInv, ConfigurationIsWhole, Untouched, Whole
<1> QED
  BY Typing, NobodyIsLockedOut, <1>1, <1>2, <1>3, PTL DEF Spec

=============================================================================
