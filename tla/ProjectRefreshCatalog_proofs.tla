-------------------- MODULE ProjectRefreshCatalog_proofs --------------------
(***************************************************************************)
(* That the catalog is never forgotten (CatalogIsOwed), for every set of   *)
(* refreshes, updates and deployments, items and configurations.           *)
(*                                                                         *)
(* All explores that exist were saved by the same saver, their owner.      *)
(* Explores that compiled and have no rows are owed by whoever is about to *)
(* replace them or by the owner's index, which is still to come and will   *)
(* not be refused: the explores it has read are those that exist, and the  *)
(* tags it has read are replaced only by somebody who goes on to replace   *)
(* the explores.                                                           *)
(***************************************************************************)
EXTENDS ProjectRefresh_proofs

USE JobsAssumption, ConfigsAssumption, BoundsAssumption

-----------------------------------------------------------------------------
(* The inductive invariant. *)

\* A saver that has yet to save.
NotSaved(k) == run[k].phase \in BeforeIndex \ {"queueIndex"} \/ run[k].step = "test"

\* An index job that works with explores it has read.
Snapshot(j) == index[j].phase \in {"readYamlTags", "delete", "insert"}

Owner(k) == \E i \in Items : explores.uuid[i] = k

HasRows == \A i \in Explored : RowsOf(i) # {}

OneOwner == \E k \in Savers \cup {Initial} : \A i \in Items : explores.uuid[i] \in {k, None}

\* Nobody has read what is not saved.
Unsaved ==
    \A k \in Savers : NotSaved(k) =>
        /\ ~Owner(k)
        /\ \A j \in Savers, i \in Items : index[j].explores.uuid[i] # k

\* What was read is what is there, or all of it was replaced; the owner's is there.
Snapshots ==
    \A j \in Savers : Snapshot(j) =>
        /\ \/ index[j].explores = explores
           \/ \A i \in Items : index[j].explores.uuid[i] # None =>
                                   index[j].explores.uuid[i] # explores.uuid[i]
        /\ Owner(j) => index[j].explores = explores

SomethingIndexed == \A j \in Savers : index[j].phase = "insert" => Indexed(j) # {}

\* The owner knows the tags that exist, unless somebody is replacing everything.
TagsKnown ==
    \A j \in Savers : Owner(j) /\ index[j].phase \in {"delete", "insert"} =>
        \/ \E k \in Savers : Saving(k)
        \/ \A p \in index[j].yaml : p[2] = tagUuid[p[1]]

Promise ==
    \/ HasRows
    \/ \E k \in Savers : Saving(k)
    \/ \E k \in Savers : Owner(k) /\ ToIndex(k)

OwedInv == OneOwner /\ Unsaved /\ Snapshots /\ SomethingIndexed /\ TagsKnown /\ Promise

\* Nothing failed, nobody edited, and something is always compiled.
Untroubled == faults = 0 /\ edits = 0 /\ \A c \in Configs : c.items \cup c.broken # {}

LEMMA InitOwed == Init => OwedInv
<1> SUFFICES ASSUME Init PROVE OwedInv
  OBVIOUS
<1>1. \E views \in SUBSET Views :
           /\ explores.uuid = [i \in Items |->
                  IF i \in InitConfig.items \cup views \cup InitConfig.broken THEN Initial ELSE None]
           /\ explores.config = InitConfig
           /\ catalog.rows = (InitConfig.items \cup views) \X {Initial}
  <2>1. PICK views \in SUBSET Views, marked \in SUBSET InitConfig.items :
         LET items == InitConfig.items \cup views
             rows == marked \X {Initial}
         IN  /\ explores = [uuid |-> [i \in Items |-> IF i \in items \cup InitConfig.broken
                                                     THEN Initial ELSE None],
                            config |-> InitConfig]
             /\ catalog = [rows  |-> items \X {Initial},
                           tags  |-> rows \X (Tags \ YamlTags),
                           yaml  |-> {m \in (items \X {Initial}) \X Tags :
                                        <<MetricOf[m[1][1]], m[2]>> \in InitConfig.categories},
                           icons |-> rows,
                           edges |-> {e \in rows \X rows :
                                        MetricOf[e[1][1]] # MetricOf[e[2][1]]}]
    BY DEF Init
  <2> WITNESS views \in SUBSET Views
  <2> QED
    BY <2>1
<1>2. /\ \A j \in Savers : index[j].phase = "none"
      /\ Initial \notin Savers /\ None \notin Savers
  <2>1. index = [j \in Savers |-> [phase |-> "none", explores |-> explores,
                                  yaml |-> {}, rows |-> {}]]
    BY DEF Init
  <2>2. \A j \in Savers : index[j].phase = "none"
    BY <2>1
  <2> QED
    BY <2>2 DEF Uuids
<1>3. \A j \in Savers : index[j].explores = explores
  BY DEF Init
<1>4. \A i \in Items : explores.uuid[i] \in {Initial, None}
  BY <1>1
<1>5. OneOwner
  BY <1>4 DEF OneOwner
<1>6. Unsaved /\ Snapshots /\ SomethingIndexed /\ TagsKnown
  BY <1>2, <1>3, <1>4 DEF Unsaved, Owner, Snapshots, Snapshot, SomethingIndexed, TagsKnown
<1>7. ASSUME NEW i \in Explored PROVE RowsOf(i) # {}
  <2>1. <<i, Initial>> \in catalog.rows
    BY <1>1, <1>7 DEF Explored
  <2> QED
    BY <2>1 DEF RowsOf
<1> QED
  BY <1>5, <1>6, <1>7 DEF OwedInv, Promise, HasRows

-----------------------------------------------------------------------------
(* Steps that leave the explores and the rows alone. *)

LEMMA OwedKept ==
  ASSUME OwedInv,
         UNCHANGED explores, catalog'.rows = catalog.rows,
         \A k \in Savers : /\ index'[k].explores = index[k].explores
                           /\ index'[k].yaml = index[k].yaml
                           /\ Snapshot(k)' => index'[k].phase = index[k].phase
                           /\ ToIndex(k) => ToIndex(k)'
                           /\ NotSaved(k)' => NotSaved(k)
                           /\ Saving(k) => Saving(k)',
         UNCHANGED tagUuid \/ \E k \in Savers : Saving(k)'
  PROVE  OwedInv'
<1>1. /\ \A k : Owner(k)' <=> Owner(k)
      /\ HasRows' <=> HasRows
  BY DEF Owner, HasRows, Explored, RowsOf
<1>2. OneOwner'
  BY DEF OwedInv, OneOwner
<1>3. Unsaved'
  BY <1>1 DEF OwedInv, Unsaved
<1>4. Snapshots'
  BY <1>1 DEF OwedInv, Snapshots, Snapshot
<1>5. SomethingIndexed'
  BY DEF OwedInv, SomethingIndexed, Snapshot, Indexed
<1>6. TagsKnown'
  <2> SUFFICES ASSUME NEW j \in Savers, Owner(j)', index'[j].phase \in {"delete", "insert"},
                      ~\E k \in Savers : Saving(k)'
               PROVE  \A p \in index'[j].yaml : p[2] = tagUuid'[p[1]]
    BY DEF TagsKnown
  <2>1. Owner(j) /\ index[j].phase \in {"delete", "insert"}
    BY <1>1 DEF Snapshot
  <2>2. ~\E k \in Savers : Saving(k)
    OBVIOUS
  <2> QED
    BY <2>1, <2>2 DEF OwedInv, TagsKnown
<1>7. Promise'
  BY <1>1 DEF OwedInv, Promise
<1> QED
  BY <1>2, <1>3, <1>4, <1>5, <1>6, <1>7 DEF OwedInv

\* A saver that moves on.
Onward(j, p) ==
    /\ p \in BeforeIndex \ {"queueIndex"} => NotSaved(j)
    /\ Saving(j) => p \in {"replaceParameters", "readTags", "readIcons", "readEdges", "save"}
    /\ ~At(j, "queueIndex")

LEMMA OnwardOwed ==
  ASSUME TInv, OwedInv, NEW j \in Savers, NEW p,
         \A k \in Savers \ {j} : run'[k] = run[k],
         run'[j].phase = p, run'[j].step = "test" => NotSaved(j), Onward(j, p),
         UNCHANGED <<explores, index>>, catalog'.rows = catalog.rows,
         UNCHANGED tagUuid \/ p = "replaceParameters"
  PROVE  OwedInv'
<1> SUFFICES ASSUME NEW k \in Savers
             PROVE  /\ ToIndex(k) => ToIndex(k)'
                    /\ NotSaved(k)' => NotSaved(k)
                    /\ Saving(k) => Saving(k)'
                    /\ Snapshot(k)' => index'[k].phase = index[k].phase
  <2>1. UNCHANGED tagUuid \/ \E k \in Savers : Saving(k)'
    BY DEF Saving
  <2> QED
    BY <2>1, OwedKept
<1>1. CASE k = j
  BY <1>1 DEF Onward, ToIndex, At, NotSaved, Saving
<1>2. CASE k # j
  <2>1. run'[k] = run[k]
    BY <1>2
  <2> QED
    BY <2>1 DEF ToIndex, At, NotSaved, Saving
<1> QED
  BY <1>1, <1>2

LEMMA GotoOwed ==
  ASSUME TInv, OwedInv, NEW j \in Savers, NEW p, Goto(j, p), Onward(j, p),
         UNCHANGED <<explores, index>>, catalog'.rows = catalog.rows,
         UNCHANGED tagUuid \/ p = "replaceParameters"
  PROVE  OwedInv'
<1>1. /\ run'[j].phase = p /\ run'[j].step = run[j].step
      /\ \A k \in Savers \ {j} : run'[k] = run[k]
  BY GotoMoves
<1>2. run'[j].step = "test" => NotSaved(j)
  BY <1>1 DEF NotSaved
<1> QED
  BY <1>1, <1>2, OnwardOwed

-----------------------------------------------------------------------------
(* Steps of the savers. *)

LEMMA ScheduleOwed ==
  ASSUME TInv, OwedInv,
         \/ \E r \in Refreshes : ScheduleCompileProject(r)
         \/ \E u \in Updates, toDbt \in BOOLEAN : UpdateAndScheduleAsyncWork(u, toDbt)
         \/ \E d \in Deploys : Deploy(d)
  PROVE  OwedInv'
<1>1. ASSUME NEW j \in Savers, At(j, "idle"), NEW p \in {"add", "finish"}, Goto(j, p),
             UNCHANGED <<project, index>>
      PROVE  OwedInv'
  <2>1. NotSaved(j)
    BY <1>1 DEF NotSaved, At, BeforeIndex
  <2>2. Onward(j, p)
    BY <1>1, <2>1 DEF Onward, At, Saving
  <2> QED
    BY <1>1, <2>2, GotoOwed DEF project
<1>2. ASSUME NEW r \in Refreshes, ScheduleCompileProject(r) PROVE OwedInv'
  BY <1>1, <1>2, SaverFacts DEF ScheduleCompileProject
<1>3. ASSUME NEW u \in Updates, NEW toDbt \in BOOLEAN, UpdateAndScheduleAsyncWork(u, toDbt)
      PROVE  OwedInv'
  BY <1>1, <1>3, SaverFacts DEF UpdateAndScheduleAsyncWork
<1>4. ASSUME NEW d \in Deploys, Deploy(d) PROVE OwedInv'
  <2>1. PICK c \in Configs : run' = [run EXCEPT ![d].phase = "replaceTags", ![d].config = c]
    BY <1>4 DEF Deploy
  <2>2. /\ run'[d].phase = "replaceTags" /\ run'[d].step = run[d].step
        /\ \A k \in Savers \ {d} : run'[k] = run[k]
    BY <2>1, PhaseAndConfigType, TableFacts, SaverFacts DEF RunPhases
  <2>3. NotSaved(d)
    BY <1>4 DEF Deploy, NotSaved, At, BeforeIndex
  <2>4. Onward(d, "replaceTags")
    BY <1>4, <2>3 DEF Deploy, Onward, At, Saving
  <2> QED
    BY <1>4, <2>2, <2>3, <2>4, OnwardOwed, SaverFacts DEF Deploy, project
<1> QED
  BY <1>2, <1>3, <1>4

LEMMA CompileStepOwed ==
  ASSUME TInv, OwedInv, NEW j \in Jobs, AddCompileJob(j) \/ CompileStep(j)
  PROVE  OwedInv'
<1>1. j \in Savers
  BY SaverFacts
<1>2. UNCHANGED <<project, index>>
  BY DEF AddCompileJob, CompileStep, MarkRunning, StartJobStep, CompileAllExplores,
         JobStepDone, Finish, JobStepFailed, FinishFailed
<1>3. UNCHANGED <<explores, tagUuid, catalog, index>>
  BY <1>2 DEF project
<1>4. ASSUME NEW p, Goto(j, p), Onward(j, p) PROVE OwedInv'
  BY <1>1, <1>3, <1>4, GotoOwed
<1>5. CASE AddCompileJob(j)
  <2>1. Goto(j, "queued") /\ Onward(j, "queued")
    BY <1>5 DEF AddCompileJob, Onward, At, NotSaved, Saving, BeforeIndex
  <2> QED
    BY <1>4, <2>1
<1>6. CASE MarkRunning(j)
  <2>1. PICK st \in {"test", "compile"} :
             run' = [run EXCEPT ![j].phase = "step", ![j].step = st]
    BY <1>6 DEF MarkRunning
  <2>2. run'[j].phase = "step" /\ \A k \in Savers \ {j} : run'[k] = run[k]
    BY <1>1, <2>1, PhaseAndStepType, TableFacts DEF RunPhases
  <2>3. NotSaved(j) /\ Onward(j, "step")
    BY <1>6 DEF MarkRunning, Onward, At, NotSaved, Saving, BeforeIndex
  <2> QED
    BY <1>1, <1>3, <2>2, <2>3, OnwardOwed
<1>7. CASE StartJobStep(j)
  <2>1. NotSaved(j) /\ ~Saving(j) /\ ~At(j, "queueIndex")
    BY <1>7 DEF StartJobStep, At, NotSaved, Saving, BeforeIndex
  <2>2. PICK p \in {"testing", "compiling"} : Goto(j, p)
    BY <1>7 DEF StartJobStep
  <2>3. Onward(j, p)
    BY <2>1 DEF Onward
  <2> QED
    BY <1>4, <2>2, <2>3
<1>8. CASE CompileAllExplores(j)
  <2>1. NotSaved(j) /\ ~Saving(j) /\ ~At(j, "queueIndex")
    BY <1>8 DEF CompileAllExplores, At, NotSaved, Saving, BeforeIndex
  <2>2. CASE Goto(j, "stepFailed")
    BY <1>4, <2>1, <2>2 DEF Onward
  <2>3. ASSUME NEW c \in Configs,
               run' = [run EXCEPT ![j].phase = "replaceTags", ![j].config = c]
        PROVE  OwedInv'
    <3>1. /\ run'[j].phase = "replaceTags"
          /\ \A k \in Savers \ {j} : run'[k] = run[k]
      BY <1>1, <2>3, PhaseAndConfigType, TableFacts DEF RunPhases
    <3>2. Onward(j, "replaceTags")
      BY <2>1 DEF Onward
    <3> QED
      BY <1>1, <1>3, <2>1, <3>1, <3>2, OnwardOwed
  <2> QED
    BY <1>8, <2>2, <2>3 DEF CompileAllExplores
<1>9. CASE JobStepDone(j)
  <2> DEFINE p == IF run[j].step = "test" /\ run[j].dbt THEN "step" ELSE "finish"
  <2>1. run' = [run EXCEPT ![j].phase = p, ![j].step = "compile"]
    BY <1>9 DEF JobStepDone
  <2>2. /\ run'[j].phase = p /\ run'[j].step = "compile"
        /\ \A k \in Savers \ {j} : run'[k] = run[k]
    BY <1>1, <2>1, PhaseAndStepType, TableFacts DEF RunPhases
  <2>3. Onward(j, p)
    BY <1>9 DEF JobStepDone, Onward, At, NotSaved, Saving, BeforeIndex
  <2> HIDE DEF p
  <2> QED
    BY <1>1, <1>3, <2>2, <2>3, OnwardOwed
<1>10. CASE Finish(j)
  <2>1. Goto(j, "ended") /\ Onward(j, "ended")
    BY <1>10 DEF Finish, Onward, At, NotSaved, Saving, BeforeIndex
  <2> QED
    BY <1>4, <2>1
<1>11. CASE JobStepFailed(j)
  <2>1. Goto(j, "failed") /\ Onward(j, "failed")
    BY <1>11 DEF JobStepFailed, Onward, At, NotSaved, Saving, BeforeIndex
  <2> QED
    BY <1>4, <2>1
<1>12. CASE FinishFailed(j)
  <2>1. Goto(j, "ended") /\ Onward(j, "ended")
    BY <1>12 DEF FinishFailed, Onward, At, NotSaved, Saving, BeforeIndex
  <2> QED
    BY <1>4, <2>1
<1> QED
  BY <1>5, <1>6, <1>7, <1>8, <1>9, <1>10, <1>11, <1>12 DEF CompileStep

LEMMA StartOwed ==
  ASSUME TInv, OwedInv, NEW j \in Jobs,
         \/ j \in Refreshes /\ TryAcquireProjectLock(j)
         \/ j \in Updates /\ (TestAndCompileProject(j) \/ TestProjectAdapter(j))
  PROVE  OwedInv'
<1>1. j \in Savers
  BY SaverFacts
<1>2. UNCHANGED <<explores, tagUuid, catalog, index>>
  BY DEF TryAcquireProjectLock, TestAndCompileProject, TestProjectAdapter, project
<1>3. NotSaved(j) /\ ~Saving(j) /\ ~At(j, "queueIndex")
  BY DEF TryAcquireProjectLock, TestAndCompileProject, TestProjectAdapter, At, NotSaved,
         Saving, BeforeIndex
<1>4. ASSUME NEW p, Goto(j, p) PROVE OwedInv'
  <2>1. Onward(j, p)
    BY <1>3 DEF Onward
  <2> QED
    BY <1>1, <1>2, <1>4, <2>1, GotoOwed
<1>5. CASE TestAndCompileProject(j)
  <2>1. run' = [run EXCEPT ![j].phase = "mark", ![j].dbt = dbt]
    BY <1>5 DEF TestAndCompileProject
  <2>2. /\ run'[j].phase = "mark"
        /\ \A k \in Savers \ {j} : run'[k] = run[k]
    BY <1>1, <2>1, PhaseAndDbtType, TableFacts, SaverFacts DEF RunPhases
  <2>3. Onward(j, "mark")
    BY <1>3 DEF Onward
  <2> QED
    BY <1>1, <1>2, <1>3, <2>2, <2>3, OnwardOwed
<1> QED
  BY <1>4, <1>5 DEF TryAcquireProjectLock, TestProjectAdapter

\* All explores that exist are new, and whoever saved them queues their index.
LEMMA SaveOwed ==
  ASSUME TInv, OwedInv, Untroubled, NEW j \in Savers, SaveExploresToCache(j)
  PROVE  OwedInv'
<1> DEFINE saved == run[j].config.items \cup run[j].config.broken \cup CreatedViews
<1>1. At(j, "save") /\ UNCHANGED <<tagUuid, index>>
  BY DEF SaveExploresToCache
<1>2. run[j].config \in Configs /\ run[j].step = "compile" /\ index[j].phase = "none"
  BY <1>1, TableFacts, SaverFacts DEF Runs, IndexedOnce, At, CompilePhases, BeforeIndex
<1>3. saved # {} /\ saved \subseteq Items
  BY <1>2 DEF Untroubled, CreatedViews, ConfigType
<1>4. /\ explores' = [uuid |-> [i \in Items |-> IF i \in saved THEN j ELSE None],
                      config |-> run[j].config]
      /\ Goto(j, "queueIndex")
  BY <1>3 DEF SaveExploresToCache
<1>5. \A i \in Items : explores'.uuid[i] = IF i \in saved THEN j ELSE None
  BY <1>4
<1>6. /\ run'[j].phase = "queueIndex" /\ run'[j].step = "compile"
      /\ \A k \in Savers \ {j} : run'[k] = run[k]
  BY <1>2, <1>4, GotoMoves
<1>7. NotSaved(j) /\ ~NotSaved(j)' /\ \A k \in Savers : NotSaved(k)' => NotSaved(k) /\ k # j
  <2>1. NotSaved(j) /\ ~NotSaved(j)'
    BY <1>1, <1>6 DEF NotSaved, At, BeforeIndex
  <2> QED
    BY <1>6, <2>1 DEF NotSaved
<1>8. None \notin Savers
  BY DEF Uuids
<1> HIDE DEF saved
<1>9. Owner(j)' /\ \A k \in Savers : Owner(k)' => k = j
  BY <1>3, <1>5, <1>8 DEF Owner
<1>10. OneOwner'
  BY <1>5 DEF OneOwner
<1>11. Unsaved'
  BY <1>1, <1>7, <1>9 DEF OwedInv, Unsaved
<1>12. ~Snapshot(j)' /\ index'[j].phase # "insert" /\ index'[j].phase # "delete"
  BY <1>1, <1>2 DEF Snapshot
<1>13. Snapshots'
  <2> SUFFICES ASSUME NEW k \in Savers, Snapshot(k)'
               PROVE  /\ \A i \in Items : index'[k].explores.uuid[i] # None =>
                                   index'[k].explores.uuid[i] # explores'.uuid[i]
                      /\ ~Owner(k)'
    BY DEF Snapshots
  <2>1. k # j
    BY <1>12
  <2>2. \A i \in Items : index[k].explores.uuid[i] # j
    BY <1>7 DEF OwedInv, Unsaved
  <2> QED
    BY <1>1, <1>5, <1>9, <2>1, <2>2
<1>14. SomethingIndexed'
  BY <1>1 DEF OwedInv, SomethingIndexed, Indexed
<1>15. TagsKnown'
  BY <1>9, <1>12 DEF TagsKnown
<1>16. Promise'
  BY <1>6, <1>9 DEF Promise, ToIndex, At
<1> QED
  BY <1>10, <1>11, <1>13, <1>14, <1>15, <1>16 DEF OwedInv

LEMMA SaveStepOwed ==
  ASSUME TInv, OwedInv, Untroubled, NEW j \in Savers, SaveStep(j)
  PROVE  OwedInv'
<1>1. CASE ReplaceYamlTags(j)
  <2>1. /\ Goto(j, "replaceParameters") /\ At(j, "replaceTags")
        /\ UNCHANGED <<explores, index>>
        /\ catalog' = WithoutTags(yamlDefined \ run[j].config.defined)
    BY <1>1 DEF ReplaceYamlTags
  <2>2. catalog'.rows = catalog.rows
    BY <2>1, WithoutTagsFacts, TableFacts
  <2>3. Onward(j, "replaceParameters")
    BY <2>1 DEF Onward, At, NotSaved, BeforeIndex
  <2> QED
    BY <2>1, <2>2, <2>3, GotoOwed
<1>2. CASE ReplaceProjectParameters(j)
  <2>1. Goto(j, "readTags") /\ UNCHANGED <<explores, index, tagUuid, catalog>>
    BY <1>2 DEF ReplaceProjectParameters
  <2>2. Onward(j, "readTags")
    BY <1>2 DEF ReplaceProjectParameters, Onward, At, NotSaved, BeforeIndex
  <2> QED
    BY <2>1, <2>2, GotoOwed
<1>3. CASE ReadTags(j) \/ ReadIcons(j) \/ ReadEdges(j)
  <2>1. PICK p \in {"readIcons", "readEdges", "save"}, prev \in Payloads :
             run' = [run EXCEPT ![j].phase = p, ![j].prev = prev]
    BY <1>3, ReadsRun
  <2>2. run[j].phase \in {"readTags", "readIcons", "readEdges"} /\ UNCHANGED <<project, index>>
    BY <1>3, ReadsRun
  <2>3. run'[j].phase = p /\ \A k \in Savers \ {j} : run'[k] = run[k]
    BY <2>1, PhaseAndPrevType, TableFacts DEF RunPhases
  <2>4. NotSaved(j) /\ Onward(j, p)
    BY <2>2 DEF Onward, At, NotSaved, BeforeIndex
  <2> QED
    BY <2>2, <2>3, <2>4, OnwardOwed DEF project
<1>4. CASE SaveExploresToCache(j)
  BY <1>4, SaveOwed
<1>5. CASE QueueIndexCatalog(j)
  <2>1. /\ At(j, "queueIndex")
        /\ index' = [index EXCEPT ![j].phase = "queued"]
        /\ UNCHANGED <<explores, catalog, tagUuid>>
    BY <1>5 DEF QueueIndexCatalog, project
  <2>2. PICK p \in {"ended", "stepDone"} : Goto(j, p)
    BY <1>5 DEF QueueIndexCatalog
  <2>3. /\ run'[j].phase = p /\ run'[j].step = run[j].step
        /\ \A k \in Savers \ {j} : run'[k] = run[k]
    BY <2>2, GotoMoves
  <2>4. \A k \in Savers : /\ index'[k].explores = index[k].explores
                          /\ index'[k].yaml = index[k].yaml
                          /\ index'[k].phase = IF k = j THEN "queued" ELSE index[k].phase
    BY <2>1, TableFacts DEF Indexings
  <2>5. ASSUME NEW k \in Savers
        PROVE  /\ Snapshot(k)' => index'[k].phase = index[k].phase
               /\ ToIndex(k) => ToIndex(k)'
               /\ NotSaved(k)' => NotSaved(k)
               /\ Saving(k) => Saving(k)'
    <3>1. CASE k = j
      BY <2>1, <2>3, <2>4, <3>1 DEF Snapshot, ToIndex, NotSaved, Saving, At, BeforeIndex
    <3>2. CASE k # j
      <4>1. run'[k] = run[k]
        BY <2>3, <3>2
      <4> QED
        BY <2>4, <3>2, <4>1 DEF Snapshot, ToIndex, NotSaved, Saving, At
    <3> QED
      BY <3>1, <3>2
  <2> QED
    BY <2>1, <2>4, <2>5, OwedKept
<1> QED
  BY <1>1, <1>2, <1>3, <1>4, <1>5 DEF SaveStep

-----------------------------------------------------------------------------
(* Steps of the index jobs. *)

\* One that has no explores in hand and moves on.
LEMMA MigrationOwed ==
  ASSUME TInv, OwedInv, NEW j \in Savers,
         UNCHANGED <<tagUuid, explores, run>>, catalog'.rows = catalog.rows,
         \A k \in Savers : /\ index'[k].explores = index[k].explores
                           /\ index'[k].yaml = index[k].yaml
                           /\ k # j => index'[k].phase = index[k].phase,
         index[j].phase \notin {"queued", "readYamlTags", "delete", "insert"},
         index'[j].phase \notin {"queued", "readYamlTags", "delete", "insert"}
  PROVE  OwedInv'
<1>1. \A k \in Savers : /\ Snapshot(k)' => index'[k].phase = index[k].phase
                        /\ ToIndex(k) => ToIndex(k)'
                        /\ NotSaved(k)' => NotSaved(k)
                        /\ Saving(k) => Saving(k)'
  BY DEF Snapshot, ToIndex, NotSaved, Saving, At
<1> QED
  BY <1>1, OwedKept

LEMMA ReadExploresOwed ==
  ASSUME TInv, OwedInv, NEW j \in Savers, ReadExplores(j)
  PROVE  OwedInv'
<1>1. /\ index[j].phase = "queued"
      /\ index' = [index EXCEPT ![j].phase = "readYamlTags", ![j].explores = explores]
      /\ UNCHANGED <<tagUuid, explores, catalog, run>>
  BY DEF ReadExplores, project
<1>2. /\ index'[j].phase = "readYamlTags" /\ index'[j].explores = explores
      /\ \A k \in Savers \ {j} : index'[k] = index[k]
  <2> DEFINE new == [index[j] EXCEPT !.phase = "readYamlTags", !.explores = explores]
  <2>1. new.phase = "readYamlTags" /\ new.explores = explores
    BY TableFacts DEF Indexings
  <2>2. index' = [index EXCEPT ![j] = new]
    BY <1>1, TableFacts DEF Indexings
  <2> HIDE DEF new
  <2> QED
    BY <2>1, <2>2, TableFacts
<1>3. \A k : /\ Owner(k)' <=> Owner(k)
             /\ NotSaved(k)' <=> NotSaved(k)
             /\ Saving(k)' <=> Saving(k)
  BY <1>1 DEF Owner, NotSaved, Saving
<1>4. OneOwner'
  BY <1>1 DEF OwedInv, OneOwner
<1>5. Unsaved'
  <2> SUFFICES ASSUME NEW k \in Savers, NotSaved(k), NEW l \in Savers, NEW i \in Items
               PROVE  index'[l].explores.uuid[i] # k
    BY <1>3 DEF OwedInv, Unsaved
  <2>1. explores.uuid[i] # k /\ index[l].explores.uuid[i] # k
    BY DEF OwedInv, Unsaved, Owner
  <2> QED
    BY <1>2, <2>1
<1>6. Snapshots'
  <2> SUFFICES ASSUME NEW k \in Savers, Snapshot(k)'
               PROVE  /\ \/ index'[k].explores = explores
                         \/ \A i \in Items : index'[k].explores.uuid[i] # None =>
                                   index'[k].explores.uuid[i] # explores.uuid[i]
                      /\ Owner(k) => index'[k].explores = explores
    BY <1>1, <1>3 DEF Snapshots
  <2>1. CASE k = j
    BY <1>2, <2>1
  <2>2. CASE k # j
    <3>1. index'[k] = index[k]
      BY <1>2, <2>2
    <3> QED
      BY <3>1 DEF OwedInv, Snapshots, Snapshot
  <2> QED
    BY <2>1, <2>2
<1>7. ASSUME NEW k \in Savers, index'[k].phase \in {"delete", "insert"}
      PROVE  k # j /\ index'[k] = index[k]
  BY <1>2, <1>7
<1>8. SomethingIndexed'
  BY <1>7 DEF OwedInv, SomethingIndexed, Indexed
<1>9. TagsKnown'
  BY <1>1, <1>3, <1>7 DEF OwedInv, TagsKnown
<1>10. Promise'
  <2>1. HasRows' <=> HasRows
    BY <1>1 DEF HasRows, Explored, RowsOf
  <2>2. \A k \in Savers : ToIndex(k) => ToIndex(k)'
    BY <1>1, <1>2 DEF ToIndex, At
  <2> QED
    BY <1>3, <2>1, <2>2 DEF OwedInv, Promise
<1> QED
  BY <1>4, <1>5, <1>6, <1>8, <1>9, <1>10 DEF OwedInv

LEMMA ReadYamlTagsOwed ==
  ASSUME TInv, OwedInv, NEW j \in Savers, ReadYamlTags(j)
  PROVE  OwedInv'
<1> DEFINE yaml == {<<t, tagUuid[t]>> : t \in yamlDefined}
           new == [index[j] EXCEPT !.phase = "delete", !.yaml = yaml]
<1>1. /\ index[j].phase = "readYamlTags"
      /\ UNCHANGED <<tagUuid, explores, catalog, run>>
  BY DEF ReadYamlTags, project
<1>2. \A p \in yaml : p[2] = tagUuid[p[1]]
  OBVIOUS
<1>3. index' = [index EXCEPT ![j] = new]
  BY TableFacts DEF ReadYamlTags, Indexings
<1>4. new.phase = "delete" /\ new.explores = index[j].explores /\ new.yaml = yaml
  <2> HIDE DEF yaml
  <2> QED
    BY TableFacts DEF Indexings
<1> HIDE DEF yaml, new
<1>5. /\ index'[j].phase = "delete" /\ index'[j].explores = index[j].explores
      /\ index'[j].yaml = yaml
      /\ \A k \in Savers \ {j} : index'[k] = index[k]
  BY <1>3, <1>4, TableFacts
<1>6. \A k : /\ Owner(k)' <=> Owner(k)
             /\ NotSaved(k)' <=> NotSaved(k)
             /\ Saving(k)' <=> Saving(k)
  BY <1>1 DEF Owner, NotSaved, Saving
<1>7. \A k \in Savers : /\ index'[k].explores = index[k].explores
                        /\ Snapshot(k)' => Snapshot(k)
                        /\ ToIndex(k) => ToIndex(k)'
  BY <1>1, <1>5 DEF Snapshot, ToIndex, At
<1>8. OneOwner' /\ Unsaved' /\ Snapshots'
  BY <1>1, <1>6, <1>7 DEF OwedInv, OneOwner, Unsaved, Snapshots
<1>9. SomethingIndexed'
  <2> SUFFICES ASSUME NEW k \in Savers, index'[k].phase = "insert"
               PROVE  Indexed(k)' # {}
    BY DEF SomethingIndexed
  <2>1. index[k].phase = "insert"
    BY <1>5
  <2> QED
    BY <1>7, <2>1 DEF OwedInv, SomethingIndexed, Indexed
<1>10. TagsKnown'
  <2> SUFFICES ASSUME NEW k \in Savers, Owner(k), index'[k].phase \in {"delete", "insert"},
                      ~\E l \in Savers : Saving(l)
               PROVE  \A p \in index'[k].yaml : p[2] = tagUuid[p[1]]
    BY <1>1, <1>6 DEF TagsKnown
  <2>1. CASE k = j
    BY <1>2, <1>5, <2>1
  <2>2. CASE k # j
    <3>1. index'[k] = index[k]
      BY <1>5, <2>2
    <3> QED
      BY <3>1 DEF OwedInv, TagsKnown
  <2> QED
    BY <2>1, <2>2
<1>11. Promise'
  <2>1. HasRows' <=> HasRows
    BY <1>1 DEF HasRows, Explored, RowsOf
  <2> QED
    BY <1>6, <1>7, <2>1 DEF OwedInv, Promise
<1> QED
  BY <1>8, <1>9, <1>10, <1>11 DEF OwedInv

\* The owner's index has in hand what has to be indexed.
LEMMA OwnerHasIndexed ==
  ASSUME TInv, OwedInv, NEW j \in Savers, Owner(j), Snapshot(j)
  PROVE  index[j].explores = explores /\ Indexed(j) = Explored
<1>1. index[j].explores = explores
  BY DEF OwedInv, Snapshots
<1> QED
  BY <1>1 DEF Explored, Indexed

LEMMA DeleteRowsOwed ==
  ASSUME TInv, OwedInv, NEW j \in Savers, DeleteRows(j)
  PROVE  OwedInv'
<1> DEFINE p == IF Indexed(j) = {} THEN "readForTags" ELSE "insert"
           new == [index[j] EXCEPT !.phase = p, !.rows = catalog.rows]
<1>1. /\ index[j].phase = "delete"
      /\ UNCHANGED <<tagUuid, explores, catalog, run>>
  BY DEF DeleteRows, project
<1>2. index' = [index EXCEPT ![j] = new]
  BY TableFacts DEF DeleteRows, Indexings
<1>3. new.phase = p /\ new.explores = index[j].explores /\ new.yaml = index[j].yaml
  <2> HIDE DEF p
  <2> QED
    BY TableFacts DEF Indexings
<1> HIDE DEF new
<1>4. /\ index'[j].phase = p /\ \A k \in Savers \ {j} : index'[k] = index[k]
      /\ \A k \in Savers : /\ index'[k].explores = index[k].explores
                           /\ index'[k].yaml = index[k].yaml
  BY <1>2, <1>3, TableFacts
<1>5. \A k : /\ Owner(k)' <=> Owner(k)
             /\ NotSaved(k)' <=> NotSaved(k)
             /\ Saving(k)' <=> Saving(k)
  BY <1>1 DEF Owner, NotSaved, Saving
<1>6. \A k \in Savers : Snapshot(k)' => Snapshot(k)
  BY <1>1, <1>4 DEF Snapshot
<1>7. OneOwner' /\ Unsaved' /\ Snapshots'
  BY <1>1, <1>4, <1>5, <1>6 DEF OwedInv, OneOwner, Unsaved, Snapshots
<1>8. SomethingIndexed'
  <2> SUFFICES ASSUME NEW k \in Savers, index'[k].phase = "insert"
               PROVE  Indexed(k) # {}
    BY <1>4 DEF SomethingIndexed, Indexed
  <2> QED
    BY <1>4 DEF OwedInv, SomethingIndexed
<1>9. TagsKnown'
  <2> SUFFICES ASSUME NEW k \in Savers, Owner(k), index'[k].phase \in {"delete", "insert"},
                      ~\E l \in Savers : Saving(l)
               PROVE  \A m \in index[k].yaml : m[2] = tagUuid[m[1]]
    BY <1>1, <1>4, <1>5 DEF TagsKnown
  <2>1. index[k].phase \in {"delete", "insert"}
    BY <1>1, <1>4
  <2> QED
    BY <2>1 DEF OwedInv, TagsKnown
<1>10. Promise'
  <2>1. HasRows' <=> HasRows
    BY <1>1 DEF HasRows, Explored, RowsOf
  <2>2. ASSUME NEW k \in Savers, Owner(k), ToIndex(k), ~HasRows PROVE ToIndex(k)'
    <3>1. CASE k = j
      <4>1. Indexed(j) # {}
        BY <1>1, <2>2, <3>1, OwnerHasIndexed DEF Snapshot, HasRows
      <4> QED
        BY <1>4, <3>1, <4>1 DEF ToIndex
    <3>2. CASE k # j
      BY <1>1, <1>4, <2>2, <3>2 DEF ToIndex, At
    <3> QED
      BY <3>1, <3>2
  <2> QED
    BY <1>5, <2>1, <2>2 DEF OwedInv, Promise
<1> QED
  BY <1>7, <1>8, <1>9, <1>10 DEF OwedInv

\* What is inserted is everything, and what is refused is not the owner's, unless
\* somebody is replacing the explores.
LEMMA InsertRowsOwed ==
  ASSUME TInv, OwedInv, NEW j \in Savers, InsertRows(j)
  PROVE  OwedInv'
<1>1. /\ index[j].phase = "insert" /\ Proceed(j, "readForTags")
      /\ UNCHANGED <<tagUuid, explores, run>>
  BY DEF InsertRows
<1>2. \A k \in Savers : /\ index'[k].phase = IF k = j THEN "readForTags" ELSE index[k].phase
                        /\ index'[k].explores = index[k].explores
                        /\ index'[k].yaml = index[k].yaml
  BY <1>1, TableFacts DEF Proceed, Indexings
<1>3. \A k : /\ Owner(k)' <=> Owner(k)
             /\ NotSaved(k)' <=> NotSaved(k)
             /\ Saving(k)' <=> Saving(k)
  BY <1>1 DEF Owner, NotSaved, Saving
<1>4. \A k \in Savers : Snapshot(k)' => Snapshot(k)
  BY <1>2 DEF Snapshot
<1>5. OneOwner' /\ Unsaved' /\ Snapshots'
  BY <1>1, <1>2, <1>3, <1>4 DEF OwedInv, OneOwner, Unsaved, Snapshots
<1>6. SomethingIndexed'
  BY <1>2 DEF OwedInv, SomethingIndexed, Indexed
<1>7. TagsKnown'
  <2> SUFFICES ASSUME NEW k \in Savers, Owner(k), index'[k].phase \in {"delete", "insert"},
                      ~\E l \in Savers : Saving(l)
               PROVE  \A p \in index[k].yaml : p[2] = tagUuid[p[1]]
    BY <1>1, <1>2, <1>3 DEF TagsKnown
  <2>1. index[k].phase \in {"delete", "insert"}
    BY <1>2
  <2> QED
    BY <2>1 DEF OwedInv, TagsKnown
<1>8. Promise'
  <2>1. CASE ReferencesHold(j)
    <3>1. \A i \in Indexed(j) : explores.uuid[i] = index[j].explores.uuid[i]
      BY <2>1 DEF ReferencesHold
    <3>2. Snapshot(j) /\ Indexed(j) # {}
      BY <1>1 DEF OwedInv, SomethingIndexed, Snapshot
    <3>3. index[j].explores = explores
      BY <3>1, <3>2 DEF OwedInv, Snapshots, Indexed
    <3>4. Indexed(j) \X {j} \subseteq catalog'.rows
      <4> DEFINE kept == WithoutRows(index[j].rows)
      <4>1. catalog' = [kept EXCEPT !.rows = @ \cup Indexed(j) \X {j},
                                    !.yaml = @ \cup YamlMarks(j)]
        BY <2>1 DEF InsertRows
      <4>2. kept \in CatalogTables
        BY WithoutRowsFacts, TableFacts
      <4> HIDE DEF kept
      <4> QED
        BY <4>1, <4>2 DEF CatalogTables
    <3>5. ASSUME NEW i \in Explored PROVE RowsOf(i)' # {}
      <4>1. <<i, j>> \in catalog'.rows
        BY <3>3, <3>4, <3>5 DEF Indexed, Explored
      <4> QED
        BY <4>1 DEF RowsOf
    <3>6. HasRows'
      BY <1>1, <3>5 DEF HasRows, Explored
    <3> QED
      BY <3>6 DEF Promise
  <2>2. CASE ~ReferencesHold(j)
    <3>1. UNCHANGED catalog
      BY <2>2 DEF InsertRows
    <3>2. HasRows' <=> HasRows
      BY <1>1, <3>1 DEF HasRows, Explored, RowsOf
    <3>3. ASSUME Owner(j) PROVE \E k \in Savers : Saving(k)
      <4> SUFFICES ASSUME \A p \in index[j].yaml : p[2] = tagUuid[p[1]] PROVE FALSE
        BY <1>1, <3>3 DEF OwedInv, TagsKnown
      <4>1. index[j].explores = explores
        BY <1>1, <3>3, OwnerHasIndexed DEF Snapshot
      <4>2. ASSUME NEW m \in YamlMarks(j) PROVE <<m[2], tagUuid[m[2]]>> \in index[j].yaml
        <5>1. PICK u \in Uuids : <<m[2], u>> \in index[j].yaml
          BY DEF YamlMarks
        <5>2. u = tagUuid[m[2]]
          BY <5>1
        <5> QED
          BY <5>1, <5>2
      <4> QED
        BY <2>2, <4>1, <4>2 DEF ReferencesHold, Indexed
    <3>4. \A k \in Savers : k # j /\ ToIndex(k) => ToIndex(k)'
      BY <1>1, <1>2 DEF ToIndex, At
    <3> QED
      BY <1>3, <3>2, <3>3, <3>4 DEF OwedInv, Promise
  <2> QED
    BY <2>1, <2>2
<1> QED
  BY <1>5, <1>6, <1>7, <1>8 DEF OwedInv

LEMMA IndexStepOwed ==
  ASSUME TInv, OwedInv, NEW j \in Savers, IndexStep(j)
  PROVE  OwedInv'
<1> DEFINE Migrating == {"readForTags", "migrateTags", "readForIcons", "migrateIcons",
                         "readForEdges", "migrateEdges", "ended", "failed"}
<1>1. ASSUME NEW p \in Migrating, Proceed(j, p), index[j].phase \in Migrating,
             catalog'.rows = catalog.rows, UNCHANGED <<tagUuid, explores, run>>
      PROVE  OwedInv'
  <2>1. \A k \in Savers : /\ index'[k].explores = index[k].explores
                          /\ index'[k].yaml = index[k].yaml
                          /\ index'[k].phase = IF k = j THEN p ELSE index[k].phase
    BY <1>1, TableFacts DEF Proceed, Indexings
  <2> QED
    BY <1>1, <2>1, MigrationOwed
<1>2. CASE ReadRows(j)
  <2>1. PICK p \in {<<"readForTags", "migrateTags">>, <<"readForIcons", "migrateIcons">>,
                    <<"readForEdges", "migrateEdges">>} :
          /\ index[j].phase = p[1]
          /\ index' = [index EXCEPT ![j].phase = p[2], ![j].rows = catalog.rows]
          /\ UNCHANGED <<project, run>>
    BY <1>2 DEF ReadRows
  <2>2. p[1] \in Migrating /\ p[2] \in Migrating
    OBVIOUS
  <2> DEFINE new == [index[j] EXCEPT !.phase = p[2], !.rows = catalog.rows]
  <2>3. new.phase = p[2] /\ new.explores = index[j].explores /\ new.yaml = index[j].yaml
    BY TableFacts DEF Indexings
  <2>4. index' = [index EXCEPT ![j] = new]
    BY <2>1, TableFacts DEF Indexings
  <2> HIDE DEF new
  <2>5. \A k \in Savers : /\ index'[k].explores = index[k].explores
                          /\ index'[k].yaml = index[k].yaml
                          /\ index'[k].phase = IF k = j THEN p[2] ELSE index[k].phase
    BY <2>3, <2>4, TableFacts
  <2> QED
    BY <2>1, <2>2, <2>5, MigrationOwed DEF project
<1>3. CASE MigrateCatalogItemTags(j)
  <2>1. catalog'.rows = catalog.rows
    BY <1>3, TableFacts DEF MigrateCatalogItemTags, CatalogTables
  <2> QED
    BY <1>1, <1>3, <2>1 DEF MigrateCatalogItemTags
<1>4. CASE MigrateCatalogItemIcons(j)
  <2>1. catalog'.rows = catalog.rows
    BY <1>4, TableFacts DEF MigrateCatalogItemIcons, CatalogTables
  <2> QED
    BY <1>1, <1>4, <2>1 DEF MigrateCatalogItemIcons
<1>5. CASE MigrateMetricsTreeEdges(j)
  <2>1. catalog'.rows = catalog.rows
    BY <1>5, TableFacts DEF MigrateMetricsTreeEdges, CatalogTables
  <2> QED
    BY <1>1, <1>5, <2>1 DEF MigrateMetricsTreeEdges
<1> QED
  BY <1>2, <1>3, <1>4, <1>5, ReadExploresOwed, ReadYamlTagsOwed, DeleteRowsOwed,
     InsertRowsOwed DEF IndexStep

-----------------------------------------------------------------------------
(* The specification. *)

\* As long as nothing fails and nobody edits, all steps are those of savers and jobs.
LEMMA Undisturbed ==
  ASSUME TInv, Next, Untroubled'
  PROVE  /\ Untroubled
         /\ ~EditStep
         /\ \A j \in Savers : ~Throws(j) /\ ~Crash(j)
<1>1. faults \in Nat /\ edits \in Nat
  BY TableFacts, SaverFacts
<1>2. ASSUME EditStep PROVE FALSE
  <2>1. edits' = edits + 1
    BY <1>2 DEF EditStep, TagCatalogItem, UntagCatalogItem, UpdateCatalogItemIcon,
                CreateMetricsTreeEdge, DeleteMetricsTreeEdge, CreateVirtualView,
                DeleteVirtualView, EditCatalog, Edit
  <2> QED
    BY <1>1, <2>1 DEF Untroubled
<1>3. ASSUME NEW j \in Savers, Throws(j) \/ Crash(j) PROVE FALSE
  <2>1. faults' = faults + 1
    BY <1>3 DEF Throws, Crash
  <2> QED
    BY <1>1, <2>1 DEF Untroubled
<1>4. ASSUME NEW j \in Savers, RunStep(j) PROVE UNCHANGED counters
  <2>1. CASE SaveStep(j)
    BY <2>1 DEF SaveStep, ReplaceYamlTags, ReplaceProjectParameters, ReadTags, ReadIcons,
                ReadEdges, SaveExploresToCache, QueueIndexCatalog
  <2>2. CASE CompileStep(j)
    BY <2>2 DEF CompileStep, MarkRunning, StartJobStep, CompileAllExplores, JobStepDone,
                Finish, JobStepFailed, FinishFailed
  <2> QED
    BY <1>4, <2>1, <2>2 DEF RunStep, TryAcquireProjectLock, TestAndCompileProject,
                            TestProjectAdapter, AddCompileJob
<1>5. ASSUME NEW j \in Savers, IndexStep(j) PROVE UNCHANGED counters
  BY <1>5 DEF IndexStep, ReadExplores, ReadYamlTags, DeleteRows, InsertRows, ReadRows,
              MigrateCatalogItemTags, MigrateCatalogItemIcons, MigrateMetricsTreeEdges
<1>6. ASSUME \/ \E r \in Refreshes : ScheduleCompileProject(r)
             \/ \E u \in Updates, toDbt \in BOOLEAN : UpdateAndScheduleAsyncWork(u, toDbt)
             \/ \E d \in Deploys : Deploy(d)
      PROVE  UNCHANGED counters
  BY <1>6 DEF ScheduleCompileProject, UpdateAndScheduleAsyncWork, Deploy
<1>7. UNCHANGED counters
  BY <1>2, <1>3, <1>4, <1>5, <1>6 DEF Next
<1> QED
  BY <1>2, <1>3, <1>7 DEF Untroubled, counters

LEMMA NextOwed ==
  ASSUME TInv, Untroubled => OwedInv, [Next]_vars
  PROVE  Untroubled' => OwedInv'
<1> SUFFICES ASSUME Untroubled' PROVE OwedInv'
  OBVIOUS
<1>1. CASE Next
  <2>1. Untroubled /\ OwedInv
    BY <1>1, Undisturbed
  <2>2. ASSUME NEW j \in Savers, RunStep(j) PROVE OwedInv'
    BY <2>1, <2>2, StartOwed, CompileStepOwed, SaveStepOwed, SaverFacts DEF RunStep
  <2> QED
    BY <1>1, <2>1, <2>2, Undisturbed, ScheduleOwed, IndexStepOwed DEF Next
<1>2. CASE UNCHANGED vars
  <2>1. Untroubled /\ OwedInv
    BY <1>2 DEF vars, Untroubled
  <2>2. \A k \in Savers : /\ Snapshot(k)' => index'[k].phase = index[k].phase
                          /\ ToIndex(k) => ToIndex(k)'
                          /\ NotSaved(k)' => NotSaved(k)
                          /\ Saving(k) => Saving(k)'
    BY <1>2 DEF vars, Snapshot, ToIndex, NotSaved, Saving, At
  <2> QED
    BY <1>2, <2>1, <2>2, OwedKept DEF vars
<1> QED
  BY <1>1, <1>2

\* An explore without catalog rows is owed some by a saver or an index job that is
\* still on its way, however refreshes, updates, deployments and index jobs overlap.
THEOREM CatalogIsNotForgotten == Spec => []CatalogIsOwed
<1>1. Init => (Untroubled => OwedInv)
  BY InitOwed
<1>2. TInv /\ (Untroubled => OwedInv) /\ [Next]_vars => (Untroubled => OwedInv)'
  <2> SUFFICES ASSUME TInv, Untroubled => OwedInv, [Next]_vars
               PROVE  Untroubled' => OwedInv'
    OBVIOUS
  <2> QED
    BY NextOwed
<1>3. (Untroubled => OwedInv) => CatalogIsOwed
  BY DEF Untroubled, OwedInv, Promise, HasRows, CatalogIsOwed
<1> QED
  BY Typing, <1>1, <1>2, <1>3, PTL DEF Spec
=============================================================================
