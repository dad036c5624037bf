--------------------------- MODULE ProjectRefresh ---------------------------
(***************************************************************************)
(* How a project's explores, YAML tags, parameters and catalog change      *)
(* together.  A refresh (under the project lock), an update of the project *)
(* or a deployment from the CLI replaces tags, parameters and explores     *)
(* step by step; deleting the explores empties the catalog, and a job      *)
(* queued afterwards indexes it again and puts back the tags, icons and    *)
(* metric tree edges that users had made, as they were read before.        *)
(*                                                                         *)
(* An item is an explore with the one metric of it that is marked; several *)
(* explores of one dbt model have the same metric, which is how marks are  *)
(* found again.  A uuid is whoever generated it: each saver replaces       *)
(* explores and tags once and indexes once.                                *)
(***************************************************************************)
EXTENDS Integers

CONSTANTS
    Refreshes,   \* jobs that compile under the lock
    Updates,     \* jobs that test and compile without it
    Deploys,     \* deployments from the CLI
    Items,       \* explores
    Views,       \* of these, the virtual views users may create
    MetricOf,    \* the name and base table of an explore's metric
    Tags,        \* names of tags
    Configs,     \* what may be compiled
    InitConfig,
    MaxEdits,    \* bound: changes by users
    MaxFaults,   \* bound: crashes and failed calls
    Initial,
    None

Jobs == Refreshes \cup Updates
Savers == Jobs \cup Deploys
Uuids == Savers \cup {Initial} \cup 1 .. MaxEdits
Rows == Items \X (Savers \cup {Initial})

Metrics(items) == {MetricOf[i] : i \in items}

ConfigType == [items: SUBSET (Items \ Views),
               broken: SUBSET (Items \ Views),    \* that do not compile
               defined: SUBSET Tags,
               categories: SUBSET (Metrics(Items) \X Tags)]

ASSUME JobsAssumption ==
    /\ Refreshes \cap Updates = {}
    /\ Jobs \cap Deploys = {}
    /\ Initial \notin Savers
    /\ None \notin Uuids
ASSUME ConfigsAssumption ==
    /\ InitConfig \in Configs
    /\ Views \subseteq Items
    /\ \A c \in Configs : c \in ConfigType
ASSUME MetricsAssumption ==
    /\ \A v \in Views, i \in Items : MetricOf[i] = MetricOf[v] => i = v
    /\ \A c \in Configs : /\ c.items \cap c.broken = {}
                          /\ c.categories \subseteq Metrics(c.items) \X c.defined
ASSUME BoundsAssumption == MaxEdits \in Nat /\ MaxFaults \in Nat

VARIABLES
    tagUuid,     \* the tags table: the uuid of each tag that exists
    yamlDefined, \* of these, the ones with a yaml_reference
    parameters,  \* the configuration whose parameters the project has
    explores,    \* the cached explores and what was compiled
    catalog,     \* catalog_search and the tables that refer to its rows
    dbt,         \* the project has a dbt connection
    job,         \* job and job step rows
    lock,        \* who holds the advisory lock of the project
    run,         \* refreshes, updates and deployments in progress
    index,       \* indexCatalog jobs, by the saver that queued them
    edits,
    faults

vars == <<tagUuid, yamlDefined, parameters, explores, catalog, dbt, job, lock,
          run, index, edits, faults>>

project == <<tagUuid, yamlDefined, parameters, explores, catalog>>
counters == <<edits, faults>>

StepStatuses == {"none", "PENDING", "RUNNING", "DONE", "ERROR", "SKIPPED"}
JobRows == [status: {"absent", "STARTED", "RUNNING", "DONE", "ERROR"},
            steps: [{"test", "compile"} -> StepStatuses]]

Marked == Rows \X Tags \X Uuids    \* a tag on a row, with the tag's uuid

Payloads == [tags: SUBSET Marked, icons: SUBSET Rows, edges: SUBSET (Rows \X Rows)]

RunPhases == {"idle", "add", "queued", "refused", "mark", "step", "testing",
              "compiling", "replaceTags", "replaceParameters", "readTags",
              "readIcons", "readEdges", "save", "queueIndex", "stepDone", "finish",
              "stepFailed", "failed", "ended", "dead"}

Runs == [phase: RunPhases,
         step: {"test", "compile"},
         dbt: BOOLEAN,            \* the project has a dbt connection, as j read it
         config: Configs,
         prev: Payloads]

IndexPhases == {"none", "queued", "readYamlTags", "delete", "insert", "readForTags",
                "migrateTags", "readForIcons", "migrateIcons", "readForEdges",
                "migrateEdges", "ended", "failed"}

\* cached_explore, and what was compiled
Explores == [uuid: [Items -> Uuids \cup {None}], config: Configs]

Indexings == [phase: IndexPhases,
              explores: Explores,
              yaml: SUBSET (Tags \X Uuids),
              rows: SUBSET Rows]

\* Foreign and primary keys.
References ==
    /\ catalog.tags \cup catalog.yaml \subseteq catalog.rows \X Tags
    /\ catalog.tags \cap catalog.yaml = {}
    /\ catalog.icons \subseteq catalog.rows
    /\ catalog.edges \subseteq catalog.rows \X catalog.rows
    /\ \A r \in catalog.rows : explores.uuid[r[1]] # None
    /\ \A m \in catalog.tags \cup catalog.yaml : tagUuid[m[2]] # None

TypeOK ==
    /\ tagUuid \in [Tags -> Uuids \cup {None}]
    /\ yamlDefined \subseteq Tags
    /\ parameters \in Configs
    /\ explores \in Explores
    /\ catalog \in [rows: SUBSET Rows,
                    tags: SUBSET (Rows \X Tags),
                    yaml: SUBSET (Rows \X Tags),
                    icons: SUBSET Rows,
                    edges: SUBSET (Rows \X Rows)]
    /\ dbt \in BOOLEAN
    /\ job \in [Jobs -> JobRows]
    /\ lock \in Refreshes \cup {None}
    /\ run \in [Savers -> Runs]
    /\ index \in [Savers -> Indexings]
    /\ edits \in 0 .. MaxEdits
    /\ faults \in 0 .. MaxFaults
    /\ References

YamlTags == UNION {c.defined : c \in Configs}

NoPayload == [tags |-> {}, icons |-> {}, edges |-> {}]

\* A project that was compiled and indexed, with or without marks of its users.
Init ==
    /\ yamlDefined = InitConfig.defined
    /\ tagUuid = [t \in Tags |-> IF t \in yamlDefined \/ t \notin YamlTags
                                  THEN Initial ELSE None]
    /\ parameters = InitConfig
    /\ \E views \in SUBSET Views, marked \in SUBSET InitConfig.items :
         LET items == InitConfig.items \cup views
             rows == marked \X {Initial}
         IN  /\ explores = [uuid |-> [i \in Items |-> IF i \in items \cup InitConfig.broken
                                                     THEN Initial ELSE None],
                            config |-> InitConfig]
             /\ catalog = [rows  |-> items \X {Initial},
                           tags  |-> rows \X (Tags \ YamlTags),
                           yaml  |-> {m \in (items \X {Initial}) \X Tags :
                                        <<MetricOf[m[1][1]], m[2]>> \in InitConfig.categories},
                           icons |-> rows,
                           edges |-> {e \in rows \X rows :
                                        MetricOf[e[1][1]] # MetricOf[e[2][1]]}]
    /\ dbt = TRUE
    /\ job = [j \in Jobs |-> [status |-> "absent",
                              steps |-> [s \in {"test", "compile"} |-> "none"]]]
    /\ lock = None
    /\ run = [j \in Savers |-> [phase |-> "idle", step |-> "compile", dbt |-> TRUE,
                                config |-> InitConfig, prev |-> NoPayload]]
    /\ index = [j \in Savers |-> [phase |-> "none", explores |-> explores,
                                  yaml |-> {}, rows |-> {}]]
    /\ edits = 0
    /\ faults = 0

-----------------------------------------------------------------------------
(* Tables. *)

RowsOf(item) == {r \in catalog.rows : r[1] = item}

\* Catalog rows go, and what refers to them.
WithoutRows(gone) ==
    [rows  |-> catalog.rows \ gone,
     tags  |-> {m \in catalog.tags : m[1] \notin gone},
     yaml  |-> {m \in catalog.yaml : m[1] \notin gone},
     icons |-> catalog.icons \ gone,
     edges |-> {e \in catalog.edges : e[1] \notin gone /\ e[2] \notin gone}]

\* Mutant: the tags of lightdash.config.yml do not cascade.
WithoutUserTags(gone) ==
    [catalog EXCEPT !.tags = {m \in @ : m[2] \notin gone}]

WithoutTags(gone) ==
    [catalog EXCEPT !.tags = {m \in @ : m[2] \notin gone},
                    !.yaml = {m \in @ : m[2] \notin gone}]

CreatedViews == {v \in Views : explores.uuid[v] # None}

\* The job row as a new one: the steps are pending.
Created(steps) ==
    [status |-> "STARTED",
     steps |-> [s \in {"test", "compile"} |-> IF s \in steps THEN "PENDING" ELSE "none"]]

WithStatus(j, status) == [job EXCEPT ![j].status = status]

WithStep(j, status) ==
    [job EXCEPT ![j].steps[run[j].step] = IF @ = "none" THEN @ ELSE status]

\* updateJobStep: the step, then the job.
StepEnded(j, status) ==
    [job EXCEPT ![j].steps[run[j].step] = IF @ = "none" THEN @ ELSE status,
                ![j].status = IF status = "ERROR" THEN "ERROR" ELSE "RUNNING"]

\* setPendingJobsToSkipped, of which only updates make use.
Skipped(j) ==
    [s \in DOMAIN job[j].steps |->
        IF j \in Updates /\ job[j].steps[s] = "PENDING" THEN "SKIPPED" ELSE job[j].steps[s]]

-----------------------------------------------------------------------------
(* Refreshes, updates, deployments.  Each action is what happens between   *)
(* two awaits, or writes the rows of a job more than once; At(j, p) and    *)
(* Goto(j, p) say where j is and where it goes.                            *)

At(j, p) == run[j].phase = p
Goto(j, p) == run' = [run EXCEPT ![j].phase = p]

ScheduleCompileProject(r) ==
    /\ At(r, "idle")
    /\ job' = [job EXCEPT ![r] = Created({"compile"})]
    /\ Goto(r, "add")
    /\ UNCHANGED <<project, dbt, lock, index, counters>>

\* The connection may change from or to a dbt project; the steps are those of the old one.
UpdateAndScheduleAsyncWork(u, toDbt) ==
    /\ At(u, "idle")
    /\ job' = [job EXCEPT ![u] = Created({"test"} \cup IF dbt THEN {"compile"} ELSE {})]
    /\ dbt' = toDbt
    /\ Goto(u, IF toDbt THEN "add" ELSE "finish")
    /\ UNCHANGED <<project, lock, index, counters>>

AddCompileJob(j) ==
    /\ At(j, "add")
    /\ Goto(j, "queued")
    /\ UNCHANGED <<project, dbt, job, lock, index, counters>>

\* Mutant: no lock.
StartWithoutLock(r) ==
    /\ At(r, "queued")
    /\ lock' = r
    /\ Goto(r, "mark")
    /\ UNCHANGED <<project, dbt, job, index, counters>>

\* compileProject: a task that does not get the lock gives up.
TryAcquireProjectLock(r) ==
    /\ At(r, "queued")
    /\ IF lock = None
       THEN lock' = r /\ Goto(r, "mark")
       ELSE UNCHANGED lock /\ Goto(r, "refused")
    /\ UNCHANGED <<project, dbt, job, index, counters>>

TestAndCompileProject(u) ==
    /\ At(u, "queued")
    /\ run' = [run EXCEPT ![u].phase = "mark", ![u].dbt = dbt]
    /\ UNCHANGED <<project, dbt, job, lock, index, counters>>

MarkRunning(j) ==
    /\ At(j, "mark")
    /\ job' = WithStatus(j, "RUNNING")
    /\ run' = [run EXCEPT ![j].phase = "step",
                          ![j].step = IF j \in Updates THEN "test" ELSE "compile"]
    /\ UNCHANGED <<project, dbt, lock, index, counters>>

StartJobStep(j) ==
    /\ At(j, "step")
    /\ job' = WithStep(j, "RUNNING")
    /\ Goto(j, IF run[j].step = "test" THEN "testing" ELSE "compiling")
    /\ UNCHANGED <<project, dbt, lock, index, counters>>

TestProjectAdapter(u) ==
    /\ At(u, "testing")
    /\ Goto(u, "stepDone") \/ Goto(u, "stepFailed")
    /\ UNCHANGED <<project, dbt, job, lock, index, counters>>

\* The explores and the project's configuration, from dbt; compilation may fail.
CompileAllExplores(j) ==
    /\ At(j, "compiling")
    /\ \/ \E c \in Configs :
            run' = [run EXCEPT ![j].phase = "replaceTags", ![j].config = c]
       \/ Goto(j, "stepFailed")
    /\ UNCHANGED <<project, dbt, job, lock, index, counters>>

\* The CLI compiles on the user's machine and then makes three requests.
Deploy(d) ==
    /\ At(d, "idle")
    /\ \E c \in Configs :
         run' = [run EXCEPT ![d].phase = "replaceTags", ![d].config = c]
    /\ UNCHANGED <<project, dbt, job, lock, index, counters>>

\* Tags with a yaml_reference become those of the configuration.
ReplaceYamlTags(j) ==
    LET wanted == run[j].config.defined
        gone == yamlDefined \ wanted
    IN  /\ At(j, "replaceTags")
        /\ tagUuid' = [t \in Tags |-> IF t \in gone THEN None
                                       ELSE IF t \in wanted \ yamlDefined THEN j
                                       ELSE tagUuid[t]]
        /\ yamlDefined' = wanted
        /\ catalog' = WithoutTags(gone)
        /\ Goto(j, "replaceParameters")
        /\ UNCHANGED <<parameters, explores, dbt, job, lock, index, counters>>

ReplaceProjectParameters(j) ==
    /\ At(j, "replaceParameters")
    /\ parameters' = run[j].config
    /\ Goto(j, "readTags")
    /\ UNCHANGED <<tagUuid, yamlDefined, explores, catalog, dbt, job, lock, index, counters>>

(* saveExploresToCacheAndIndexCatalog *)

\* Mutant: the tags of lightdash.config.yml are carried over too.
ReadAllTags(j) ==
    /\ At(j, "readTags")
    /\ run' = [run EXCEPT ![j].phase = "readIcons",
                          ![j].prev.tags = {<<m[1], m[2], tagUuid[m[2]]>> :
                                              m \in catalog.tags \cup catalog.yaml}]
    /\ UNCHANGED <<project, dbt, job, lock, index, counters>>

ReadTags(j) ==
    /\ At(j, "readTags")
    /\ run' = [run EXCEPT ![j].phase = "readIcons",
                          ![j].prev = [@ EXCEPT !.tags =
                              {<<m[1], m[2], tagUuid[m[2]]>> : m \in catalog.tags}]]
    /\ UNCHANGED <<project, dbt, job, lock, index, counters>>

ReadIcons(j) ==
    /\ At(j, "readIcons")
    /\ run' = [run EXCEPT ![j].phase = "readEdges", ![j].prev = [@ EXCEPT !.icons = catalog.icons]]
    /\ UNCHANGED <<project, dbt, job, lock, index, counters>>

ReadEdges(j) ==
    /\ At(j, "readEdges")
    /\ run' = [run EXCEPT ![j].phase = "save", ![j].prev = [@ EXCEPT !.edges = catalog.edges]]
    /\ UNCHANGED <<project, dbt, job, lock, index, counters>>

\* A failed call; in a job, the catch block of tryJobStep.
Fail(j) == Goto(j, IF j \in Deploys THEN "ended" ELSE "stepFailed")

\* All explores are replaced, by those that do not compile too, virtual views kept;
\* the catalog goes with the old ones.
SaveExploresToCache(j) ==
    LET saved == run[j].config.items \cup run[j].config.broken \cup CreatedViews
    IN  /\ At(j, "save")
        /\ IF saved = {}    \* No explores to save
           THEN Fail(j) /\ UNCHANGED <<explores, catalog>>
           ELSE /\ explores' = [uuid |-> [i \in Items |-> IF i \in saved THEN j ELSE None],
                                config |-> run[j].config]
                /\ catalog' = WithoutRows(catalog.rows)
                /\ Goto(j, "queueIndex")
        /\ UNCHANGED <<tagUuid, yamlDefined, parameters, dbt, job, lock, index, counters>>

\* Mutant: not while a catalog of the project is being indexed.
QueueIndexCatalogOnce(j) ==
    /\ At(j, "queueIndex")
    /\ index' = IF \E k \in Savers : index[k].phase \notin {"none", "ended", "failed"}
                THEN index ELSE [index EXCEPT ![j].phase = "queued"]
    /\ Goto(j, IF j \in Deploys THEN "ended" ELSE "stepDone")
    /\ UNCHANGED <<project, dbt, job, lock, counters>>

QueueIndexCatalog(j) ==
    /\ At(j, "queueIndex")
    /\ index' = [index EXCEPT ![j].phase = "queued"]
    /\ Goto(j, IF j \in Deploys THEN "ended" ELSE "stepDone")
    /\ UNCHANGED <<project, dbt, job, lock, counters>>

JobStepDone(j) ==
    /\ At(j, "stepDone")
    /\ job' = StepEnded(j, "DONE")
    /\ run' = [run EXCEPT ![j].phase = IF run[j].step = "test" /\ run[j].dbt
                                      THEN "step" ELSE "finish",
                          ![j].step = "compile"]
    /\ UNCHANGED <<project, dbt, lock, index, counters>>

\* An update to a connection without dbt is done when it is saved: nothing is queued.
UpdateOnly(j) == job[j].status = "STARTED"

\* Mutant: nobody says that the job is done.
FinishQuietly(j) ==
    /\ At(j, "finish")
    /\ lock' = IF lock = j THEN None ELSE lock
    /\ Goto(j, "ended")
    /\ UNCHANGED <<project, dbt, job, index, counters>>

\* The lock is released with its transaction.
Finish(j) ==
    /\ At(j, "finish")
    /\ job' = WithStatus(j, "DONE")
    /\ lock' = IF lock = j THEN None ELSE lock
    /\ Goto(j, "ended")
    /\ UNCHANGED <<project, dbt, index, counters>>

\* Mutant: tryJobStep does not throw the error again.
JobStepFailedQuietly(j) ==
    /\ At(j, "stepFailed")
    /\ job' = StepEnded(j, "ERROR")
    /\ Goto(j, "finish")
    /\ UNCHANGED <<project, dbt, lock, index, counters>>

JobStepFailed(j) ==
    /\ At(j, "stepFailed")
    /\ job' = StepEnded(j, "ERROR")
    /\ Goto(j, "failed")
    /\ UNCHANGED <<project, dbt, lock, index, counters>>

\* Mutant: the lock is one of the session.
FinishFailedLocked(j) ==
    /\ At(j, "failed")
    /\ job' = WithStatus(j, "ERROR")
    /\ Goto(j, "ended")
    /\ UNCHANGED <<project, dbt, lock, index, counters>>

\* Mutant: the failed task is tried again.
FinishFailedAndRetry(j) ==
    /\ At(j, "failed")
    /\ job' = WithStatus(j, "ERROR")
    /\ lock' = IF lock = j THEN None ELSE lock
    /\ Goto(j, "queued")
    /\ UNCHANGED <<project, dbt, index, counters>>

\* The catch block.
FinishFailed(j) ==
    /\ At(j, "failed")
    /\ job' = [job EXCEPT ![j] = [status |-> "ERROR", steps |-> Skipped(j)]]
    /\ lock' = IF lock = j THEN None ELSE lock
    /\ Goto(j, "ended")
    /\ UNCHANGED <<project, dbt, index, counters>>

\* What a call that fails, or dies with its process, leaves in the rows of its job:
\* nothing, or some of its writes, or all of them and only the answer is lost.
PartlyWritten(j) ==
    \/ UNCHANGED job
    \/ /\ j \in Jobs
       /\ \/ At(j, "mark") /\ job' = WithStatus(j, "RUNNING")
          \/ At(j, "step") /\ job' = WithStep(j, "RUNNING")
          \/ At(j, "stepDone") /\ job' \in {WithStep(j, "DONE"), StepEnded(j, "DONE")}
          \/ At(j, "stepFailed") /\ job' = WithStep(j, "ERROR")
          \/ At(j, "finish") /\ job' = WithStatus(j, "DONE")
          \/ At(j, "failed") /\ job' = [job EXCEPT ![j].steps = Skipped(j)]

\* A call fails: before the try block, in it, in a step, in one of the catch blocks.
\* (Of the other writes, a lost answer is the failure of the call that follows.)
RunThrows(j) ==
    /\ \/ /\ \/ run[j].phase \in {"add", "queued", "failed"}
             \/ At(j, "finish") /\ UpdateOnly(j)
          /\ Goto(j, "ended")
          /\ lock' = IF lock = j THEN None ELSE lock
       \/ /\ \/ run[j].phase \in {"mark", "stepFailed"}
             \/ At(j, "finish") /\ ~UpdateOnly(j)
          /\ Goto(j, "failed")
          /\ UNCHANGED lock
       \/ /\ run[j].phase \in {"step", "replaceTags", "replaceParameters", "readTags",
                               "readIcons", "readEdges", "save", "queueIndex", "stepDone"}
          /\ Fail(j)
          /\ UNCHANGED lock
    /\ PartlyWritten(j)
    /\ UNCHANGED <<dbt, index>>

\* The project is updated, and its job not created.
UpdateThrows(u) ==
    /\ At(u, "idle")
    /\ dbt' \in BOOLEAN
    /\ Goto(u, "ended")
    /\ UNCHANGED <<job, lock, index>>

\* The index transaction is rolled back and the error logged; the marks still come.
IndexThrows(j) ==
    /\ index[j].phase \in {"delete", "insert"}
    /\ index' = [index EXCEPT ![j].phase = "readForTags"]
    /\ UNCHANGED <<dbt, job, lock, run>>

Throws(j) ==
    /\ faults < MaxFaults
    /\ faults' = faults + 1
    /\ RunThrows(j) \/ (j \in Updates /\ UpdateThrows(j)) \/ IndexThrows(j)
    /\ UNCHANGED <<project, edits>>

-----------------------------------------------------------------------------
(* indexCatalog jobs.  The index is one transaction in which another job's *)
(* rows, committed after its DELETE has begun, are not seen.  Afterwards   *)
(* rows are found by their metric and marks inserted by the rows' uuids.   *)

Proceed(j, p) == index' = [index EXCEPT ![j].phase = p]

ReadExplores(j) ==
    /\ index[j].phase = "queued"
    /\ index' = [index EXCEPT ![j].phase = "readYamlTags", ![j].explores = explores]
    /\ UNCHANGED <<project, dbt, job, lock, run, counters>>

ReadYamlTags(j) ==
    /\ index[j].phase = "readYamlTags"
    /\ index' = [index EXCEPT ![j].phase = "delete",
                              ![j].yaml = {<<t, tagUuid[t]>> : t \in yamlDefined}]
    /\ UNCHANGED <<project, dbt, job, lock, run, counters>>

\* The explores that compiled; without any, nothing is deleted or inserted.
Indexed(j) ==
    {i \in Items : index[j].explores.uuid[i] # None} \ index[j].explores.config.broken

DeleteRows(j) ==
    /\ index[j].phase = "delete"
    /\ index' = [index EXCEPT ![j].phase = IF Indexed(j) = {} THEN "readForTags"
                                                             ELSE "insert",
                              ![j].rows = catalog.rows]
    /\ UNCHANGED <<project, dbt, job, lock, run, counters>>

YamlMarks(j) ==
    {m \in (Indexed(j) \X {j}) \X Tags :
        /\ <<MetricOf[m[1][1]], m[2]>> \in index[j].explores.config.categories
        /\ \E u \in Uuids : <<m[2], u>> \in index[j].yaml}

\* The rows refer to the explores and the marks to the tags that were read.
ReferencesHold(j) ==
    /\ \A i \in Indexed(j) : explores.uuid[i] = index[j].explores.uuid[i]
    /\ \A m \in YamlMarks(j) : <<m[2], tagUuid[m[2]]>> \in index[j].yaml

\* An error rolls the transaction back, is logged and goes no further.
InsertRows(j) ==
    /\ index[j].phase = "insert"
    /\ IF ReferencesHold(j)
       THEN LET kept == WithoutRows(index[j].rows)
            IN  catalog' = [kept EXCEPT !.rows = @ \cup Indexed(j) \X {j},
                                        !.yaml = @ \cup YamlMarks(j)]
       ELSE UNCHANGED catalog
    /\ Proceed(j, "readForTags")
    /\ UNCHANGED <<tagUuid, yamlDefined, parameters, explores, dbt, job, lock, run, counters>>

\* getCatalogItemsSummary
ReadRows(j) ==
    \E p \in {<<"readForTags", "migrateTags">>, <<"readForIcons", "migrateIcons">>,
               <<"readForEdges", "migrateEdges">>} :
        /\ index[j].phase = p[1]
        /\ index' = [index EXCEPT ![j].phase = p[2], ![j].rows = catalog.rows]
        /\ UNCHANGED <<project, dbt, job, lock, run, counters>>

Metric(row) == MetricOf[row[1]]

\* The first of the rows of each metric, in whatever order they come.
Firsts(rows) ==
    {f \in [{Metric(r) : r \in rows} -> rows] : \A m \in DOMAIN f : Metric(f[m]) = m}

\* Every row of a metric gets the tags of the first that was tagged.  One INSERT: a
\* missing row or tag, or a mark that is there already, fails it.
MigrateCatalogItemTags(j) ==
    /\ index[j].phase = "migrateTags"
    /\ \E first \in Firsts({m[1] : m \in run[j].prev.tags}) :
         LET news == {n \in index[j].rows \X run[j].prev.tags :
                        Metric(n[1]) \in DOMAIN first /\ n[2][1] = first[Metric(n[1])]}
             marks == {<<n[1], n[2][2]>> : n \in news}
         IN  IF /\ \A n \in news : n[1] \in catalog.rows /\ tagUuid[n[2][2]] = n[2][3]
                /\ marks \cap (catalog.tags \cup catalog.yaml) = {}
             THEN /\ catalog' = [catalog EXCEPT !.tags = @ \cup marks]
                  /\ Proceed(j, "readForIcons")
             ELSE UNCHANGED catalog /\ Proceed(j, "failed")
    /\ UNCHANGED <<tagUuid, yamlDefined, parameters, explores, dbt, job, lock, run, counters>>

\* Updates of rows that are gone do nothing.
MigrateCatalogItemIcons(j) ==
    /\ index[j].phase = "migrateIcons"
    /\ catalog' = [catalog EXCEPT !.icons = @ \cup
            {r \in index[j].rows \cap catalog.rows :
                \E q \in run[j].prev.icons : Metric(q) = Metric(r)}]
    /\ Proceed(j, "readForEdges")
    /\ UNCHANGED <<tagUuid, yamlDefined, parameters, explores, dbt, job, lock, run, counters>>

\* Mutant: source and target are swapped.
MigrateMetricsTreeEdgesSwapped(j) ==
    /\ index[j].phase = "migrateEdges"
    /\ \E first \in Firsts(index[j].rows) :
         LET prev == {e \in run[j].prev.edges : {Metric(e[1]), Metric(e[2])} \subseteq DOMAIN first}
         IN  catalog' = [catalog EXCEPT !.edges =
                             @ \cup {<<first[Metric(e[2])], first[Metric(e[1])]>> : e \in prev}]
    /\ Proceed(j, "ended")
    /\ UNCHANGED <<tagUuid, yamlDefined, parameters, explores, dbt, job, lock, run, counters>>

\* One INSERT again, in which no two edges may come to join the same rows.
MigrateMetricsTreeEdges(j) ==
    /\ index[j].phase = "migrateEdges"
    /\ \E first \in Firsts(index[j].rows) :
         LET prev == {e \in run[j].prev.edges : {Metric(e[1]), Metric(e[2])} \subseteq DOMAIN first}
             New(e) == <<first[Metric(e[1])], first[Metric(e[2])]>>
             edges == {New(e) : e \in prev}
         IN  IF /\ \A e, f \in prev : New(e) = New(f) => e = f
                /\ edges \subseteq catalog.rows \X catalog.rows
                /\ edges \cap catalog.edges = {}
             THEN /\ catalog' = [catalog EXCEPT !.edges = @ \cup edges]
                  /\ Proceed(j, "ended")
             ELSE UNCHANGED catalog /\ Proceed(j, "failed")
    /\ UNCHANGED <<tagUuid, yamlDefined, parameters, explores, dbt, job, lock, run, counters>>

-----------------------------------------------------------------------------
(* Users of the catalog.  A call with the uuid of a row that is gone fails *)
(* or does nothing.                                                        *)

Edit ==
    /\ edits < MaxEdits
    /\ edits' = edits + 1
    /\ UNCHANGED <<dbt, job, lock, run, index, faults>>

EditCatalog(c) ==
    /\ Edit
    /\ catalog' = c
    /\ UNCHANGED <<tagUuid, yamlDefined, parameters, explores>>

TagCatalogItem(r, t) ==
    /\ tagUuid[t] # None
    /\ <<r, t>> \notin catalog.tags \cup catalog.yaml
    /\ EditCatalog([catalog EXCEPT !.tags = @ \cup {<<r, t>>}])

UntagCatalogItem(r, t) ==
    /\ <<r, t>> \in catalog.tags \cup catalog.yaml
    /\ EditCatalog([catalog EXCEPT !.tags = @ \ {<<r, t>>}, !.yaml = @ \ {<<r, t>>}])

UpdateCatalogItemIcon(r) ==
    EditCatalog([catalog EXCEPT !.icons = IF r \in @ THEN @ \ {r} ELSE @ \cup {r}])

\* Between metrics, which virtual views have not.
CreateMetricsTreeEdge(r, q) ==
    /\ {r[1], q[1]} \cap Views = {}
    /\ <<r, q>> \notin catalog.edges
    /\ EditCatalog([catalog EXCEPT !.edges = @ \cup {<<r, q>>}])

DeleteMetricsTreeEdge(r, q) ==
    /\ <<r, q>> \in catalog.edges
    /\ EditCatalog([catalog EXCEPT !.edges = @ \ {<<r, q>>}])

\* A new view is not indexed before the next refresh.
CreateVirtualView(v) ==
    /\ explores.uuid[v] = None
    /\ Edit
    /\ explores' = [explores EXCEPT !.uuid[v] = edits + 1]
    /\ UNCHANGED <<tagUuid, yamlDefined, parameters, catalog>>

DeleteVirtualView(v) ==
    /\ explores.uuid[v] # None
    /\ Edit
    /\ explores' = [explores EXCEPT !.uuid[v] = None]
    /\ catalog' = WithoutRows(RowsOf(v))
    /\ UNCHANGED <<tagUuid, yamlDefined, parameters>>

\* A process dies with one task, or a call of an index job fails; the lock goes with
\* its connection.
Crash(j) ==
    /\ faults < MaxFaults
    /\ faults' = faults + 1
    /\ \/ /\ run[j].phase \notin {"idle", "queued", "refused", "ended", "dead"}
          /\ Goto(j, "dead")
          /\ lock' = IF lock = j THEN None ELSE lock
          /\ PartlyWritten(j)
          /\ UNCHANGED index
       \/ /\ index[j].phase \notin {"none", "queued", "ended", "failed"}
          /\ Proceed(j, "failed")
          /\ UNCHANGED <<job, run, lock>>
    /\ UNCHANGED <<project, dbt, edits>>

-----------------------------------------------------------------------------
CompileStep(j) ==
    \/ MarkRunning(j) \/ StartJobStep(j) \/ CompileAllExplores(j)
    \/ JobStepDone(j) \/ Finish(j) \/ JobStepFailed(j) \/ FinishFailed(j)

SaveStep(j) ==
    \/ ReplaceYamlTags(j) \/ ReplaceProjectParameters(j)
    \/ ReadTags(j) \/ ReadIcons(j) \/ ReadEdges(j)
    \/ SaveExploresToCache(j) \/ QueueIndexCatalog(j)

IndexStep(j) ==
    \/ ReadExplores(j) \/ ReadYamlTags(j) \/ DeleteRows(j) \/ InsertRows(j)
    \/ ReadRows(j) \/ MigrateCatalogItemTags(j) \/ MigrateCatalogItemIcons(j)
    \/ MigrateMetricsTreeEdges(j)

EditStep ==
    \/ \E r \in catalog.rows, t \in Tags : TagCatalogItem(r, t) \/ UntagCatalogItem(r, t)
    \/ \E r \in catalog.rows : UpdateCatalogItemIcon(r)
    \/ \E r, q \in catalog.rows : CreateMetricsTreeEdge(r, q) \/ DeleteMetricsTreeEdge(r, q)
    \/ \E v \in Views : CreateVirtualView(v) \/ DeleteVirtualView(v)

RunStep(j) ==
    \/ j \in Refreshes /\ TryAcquireProjectLock(j)
    \/ j \in Updates /\ (TestAndCompileProject(j) \/ TestProjectAdapter(j))
    \/ j \in Jobs /\ (AddCompileJob(j) \/ CompileStep(j))
    \/ SaveStep(j)

Next ==
    \/ \E r \in Refreshes : ScheduleCompileProject(r)
    \/ \E u \in Updates, toDbt \in BOOLEAN : UpdateAndScheduleAsyncWork(u, toDbt)
    \/ \E d \in Deploys : Deploy(d)
    \/ \E j \in Savers : RunStep(j) \/ IndexStep(j) \/ Throws(j) \/ Crash(j)
    \/ EditStep

Spec == Init /\ [][Next]_vars

\* What was begun goes on, in a process or from the queue; nobody has to refresh,
\* deploy or edit.
FairSpec == Spec /\ \A j \in Savers : WF_vars(RunStep(j)) /\ WF_vars(IndexStep(j))

-----------------------------------------------------------------------------
(* Correctness of refreshes. *)

UnderLock == RunPhases \ {"idle", "add", "queued", "refused", "ended", "dead"}

\* The lock is held by the refresh that is under way, and by no refresh that
\* ended, failed or died: nobody is locked out of a project nobody compiles.
LockIsHeld ==
    \A r \in Refreshes : lock = r <=> run[r].phase \in UnderLock

\* Refreshes that overlap never leave tags, parameters and explores of different
\* compilations behind, unless one failed half way.  (Updates and deployments
\* take no lock, and do.)
ConfigurationIsWhole ==
    /\ faults = 0
    /\ lock = None
    /\ \A j \in Savers \ Refreshes : run[j].phase = "idle"
    /\ \A c \in Configs : c.items \cup c.broken # {}
    => explores.config = parameters /\ yamlDefined = parameters.defined

\* What a poller is told of a job that is DONE: no step of it failed or is running,
\* a refresh has compiled, and a compilation has saved its explores and had the
\* catalog indexed.
DoneIsTrue ==
    \A j \in Jobs : job[j].status = "DONE" =>
        /\ \A s \in DOMAIN job[j].steps : job[j].steps[s] \notin {"RUNNING", "ERROR"}
        /\ job[j].steps["compile"] = "DONE" => index[j].phase # "none"
        /\ j \in Refreshes => job[j].steps["compile"] = "DONE"

\* A poller that stops at ERROR has seen the last word, and one that stops at DONE
\* unless the answer to that very write was lost, after which the job is in ERROR.
\* No step runs again; at most it is skipped.
EndedJobsStayEnded ==
    [][\A j \in Jobs : job[j].status \in {"DONE", "ERROR"} =>
         /\ \/ job'[j].status = job[j].status
            \/ job'[j].status = "ERROR" /\ At(j, "failed") /\ faults > 0
         /\ \A s \in DOMAIN job[j].steps :
              job'[j].steps[s] # job[j].steps[s] =>
                  job[j].steps[s] = "PENDING" /\ job'[j].steps[s] = "SKIPPED"]_vars

\* A job is done or fails, unless it was refused because another refresh had the
\* lock, or something failed.
JobsEnd ==
    \A j \in Jobs :
        job[j].status = "STARTED" ~>
            job[j].status \in {"DONE", "ERROR"} \/ At(j, "refused") \/ faults > 0

-----------------------------------------------------------------------------
(* Correctness of the catalog. *)

Indexing(j) == index[j].phase \notin {"none", "ended", "failed"}

\* The saved explores that compiled; the others are never indexed.
Explored == {i \in Items : explores.uuid[i] # None} \ explores.config.broken

\* Every such explore is in the catalog in the end, whichever refreshes, updates and
\* deployments saved and indexed at the same time: an index job that finds its
\* explores or tags replaced gives up, and a later one is on its way.
CatalogCatchesUp ==
    <>[](faults > 0 \/ \A i \in Explored :
           explores.uuid[i] \in Savers \cup {Initial} => RowsOf(i) # {})

\* What puts rows in: replacing the explores, or an index whose rows are still to come.
Saving(j) == run[j].phase \in {"replaceParameters", "readTags", "readIcons", "readEdges", "save"}
ToIndex(j) ==
    At(j, "queueIndex") \/ index[j].phase \in {"queued", "readYamlTags", "delete", "insert"}

\* Why it catches up: an explore without catalog rows is owed some by a saver or an
\* index job that is still on its way, and never forgotten, however they overlap.
CatalogIsOwed ==
    /\ faults = 0 /\ edits = 0
    /\ \A c \in Configs : c.items \cup c.broken # {}
    => \A i \in Explored : RowsOf(i) = {} => \E j \in Savers : Saving(j) \/ ToIndex(j)

\* The marks of users: in the catalog, or on their way from the catalog that was
\* deleted to the one that is indexed.
Carries(j, migrated) ==
    At(j, "queueIndex") \/ (Indexing(j) /\ index[j].phase \notin migrated)

MigratedTags == {"readForIcons", "migrateIcons", "readForEdges", "migrateEdges"}
MigratedIcons == {"readForEdges", "migrateEdges"}

Tagged ==
    catalog.tags \cup
        {<<m[1], m[2]>> : m \in UNION {run[j].prev.tags :
                                          j \in {k \in Savers : Carries(k, MigratedTags)}}}

Icons ==
    catalog.icons \cup
        UNION {run[j].prev.icons : j \in {k \in Savers : Carries(k, MigratedIcons)}}

Edges ==
    catalog.edges \cup
        UNION {run[j].prev.edges : j \in {k \in Savers : Carries(k, {})}}

\* Of the metrics that are explored.
UserTags == {<<Metric(m[1]), m[2]>> : m \in Tagged} \cap (Metrics(Explored) \X Tags)
UserIcons == {Metric(r) : r \in Icons} \cap Metrics(Explored)
Between(e) == <<Metric(e[1]), Metric(e[2])>>
UserEdges == {Between(e) : e \in Edges} \cap (Metrics(Explored) \X Metrics(Explored))

Edited == edits' # edits

\* A refresh, update or deployment gives no metric a tag that none of its explores
\* had, and leaves it the tags of one of them (all its tags, where its explores have
\* the same or it has but one), those deleted with lightdash.config.yml excepted
\* ("best effort migration").  A metric that is kept keeps its icon, and none gets one.
TagsAndIconsSurvive ==
    [][Edited \/ faults' > 0 \/
         /\ UserTags' \subseteq UserTags
         /\ \A m \in Tagged : Metric(m[1]) \in Metrics(Explored)' =>
              \E n \in Tagged :
                /\ Metric(n[1]) = Metric(m[1])
                /\ \A t \in Tags : <<n[1], t>> \in Tagged /\ tagUuid'[t] # None =>
                     <<Metric(m[1]), t>> \in UserTags'
         /\ UserIcons' = UserIcons \cap Metrics(Explored)']_vars

\* Nor does it add, lose or turn round an edge of the metrics tree between metrics
\* that it keeps; only where two edges join the same metrics, in different explores,
\* may the whole tree be lost.
MetricsTreeSurvives ==
    [][Edited \/ faults' > 0 \/
         \/ UserEdges' = UserEdges \cap (Metrics(Explored)' \X Metrics(Explored)')
         \/ UserEdges' = {} /\ \E e, f \in Edges : e # f /\ Between(e) = Between(f)]_vars

-----------------------------------------------------------------------------
(* The conditions under which marks are safe (action constraints of a run). *)

Busy(j) ==
    \/ run[j].phase \in {"replaceTags", "replaceParameters", "readTags", "readIcons",
                         "readEdges", "save", "queueIndex"}
    \/ Indexing(j)

Quiet == \A j \in Savers : ~Busy(j)

\* Nobody saves or edits while another saves and indexes.
OneAtATime ==
    /\ Edited => Quiet
    /\ \A j \in Savers : Busy(j)' /\ ~Busy(j) => Quiet

\* Users leave the tags of lightdash.config.yml to it.
OwnTags ==
    Edited => \A m \in catalog'.tags \ catalog.tags : m[2] \notin YamlTags

\* What the run with these action constraints checks.
CarefulSpec == Init /\ [][Next /\ OneAtATime /\ OwnTags]_vars
=============================================================================
