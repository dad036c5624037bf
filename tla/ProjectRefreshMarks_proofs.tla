--------------------- MODULE ProjectRefreshMarks_proofs ---------------------
(***************************************************************************)
(* Proofs about the tags, icons and metrics tree that users make in the    *)
(* catalog: they survive a refresh, an update or a deployment when these   *)
(* come one at a time, for any number of them and any configurations.      *)
(***************************************************************************)
EXTENDS ProjectRefresh_proofs

USE JobsAssumption, ConfigsAssumption, BoundsAssumption

-----------------------------------------------------------------------------
(* What the marks of users rest on while a saver works. *)

\* Rows are those of explores that compiled, and the tags of the configuration its own.
TablesRight ==
    /\ \A r \in catalog.rows : r[1] \in Explored
    /\ \A m \in catalog.tags : m[2] \notin YamlTags
    /\ \A m \in catalog.yaml : m[2] \in YamlTags
    /\ yamlDefined \subseteq YamlTags

OneBusy == \A j, k \in Savers : Busy(j) /\ Busy(k) => j = k

\* What was read for the marks of users is what is there when it is deleted.
Prepared(j) ==
    LET p == run[j].phase
        prev == run[j].prev
    IN  /\ p \in {"readIcons", "readEdges", "save"} =>
             prev.tags = {<<m[1], m[2], tagUuid[m[2]]>> : m \in catalog.tags}
        /\ p \in {"readEdges", "save"} => prev.icons = catalog.icons
        /\ p = "save" => prev.edges = catalog.edges

\* What is carried over: tags of users, that still exist.
Carried(j) ==
    Carries(j, {}) =>
      \A m \in run[j].prev.tags : m[2] \notin YamlTags /\ tagUuid[m[2]] = m[3]

BeforeInsert == {"queued", "readYamlTags", "delete", "insert"}
AfterInsert == {"readForTags", "migrateTags", "readForIcons", "migrateIcons",
                "readForEdges", "migrateEdges"}

\* What an index job has read is still true, and the catalog is as it left it.
IndexRight(j) ==
    LET p == index[j].phase
    IN  /\ At(j, "queueIndex") \/ p \in BeforeInsert => catalog.rows = {}
        /\ p \in {"readYamlTags", "delete", "insert"} => index[j].explores = explores
        /\ p \in {"delete", "insert"} =>
             index[j].yaml = {<<t, tagUuid[t]>> : t \in yamlDefined}
        /\ p \in AfterInsert => catalog.rows = Explored \X {j} /\ catalog.edges = {}
        /\ p \in {"migrateTags", "migrateIcons", "migrateEdges"} =>
             index[j].rows = catalog.rows
        /\ p \in {"readForTags", "migrateTags"} => catalog.tags = {}
        /\ p \in AfterInsert \ {"readForEdges", "migrateEdges"} => catalog.icons = {}

JobRight(j) == Prepared(j) /\ Carried(j) /\ IndexRight(j)

MarkInv == OneBusy /\ TablesRight /\ \A j \in Savers : JobRight(j)

\* Unless something failed.
MInv == faults = 0 => MarkInv

-----------------------------------------------------------------------------
(* Who is busy. *)

SavePhases == {"replaceTags", "replaceParameters", "readTags", "readIcons", "readEdges",
               "save", "queueIndex"}

LEMMA BusyFacts ==
  ASSUME NEW j
  PROVE  /\ Busy(j) <=> run[j].phase \in SavePhases \/ Indexing(j)
         /\ Busy(j)' <=> run'[j].phase \in SavePhases \/ Indexing(j)'
         /\ Indexing(j) <=> index[j].phase \notin {"none", "ended", "failed"}
         /\ Indexing(j)' <=> index'[j].phase \notin {"none", "ended", "failed"}
         /\ \A M : Carries(j, M) <=> \/ run[j].phase = "queueIndex"
                                     \/ Indexing(j) /\ index[j].phase \notin M
         /\ \A M : Carries(j, M)' <=> \/ run'[j].phase = "queueIndex"
                                      \/ Indexing(j)' /\ index'[j].phase \notin M
         /\ \A M : Carries(j, M) => Carries(j, {}) /\ Busy(j)
         /\ \A M : Carries(j, M)' => Carries(j, {})' /\ Busy(j)'
  BY DEF Busy, SavePhases, Indexing, Carries, At

\* A saver that is not at work says nothing about the catalog.
LEMMA IdleRight ==
  ASSUME NEW j, ~Busy(j)'
  PROVE  JobRight(j)'
<1>1. /\ run'[j].phase \notin SavePhases
      /\ index'[j].phase \in {"none", "ended", "failed"}
      /\ ~Carries(j, {})'
  BY BusyFacts
<1> QED
  BY <1>1 DEF JobRight, Prepared, Carried, IndexRight, SavePhases, BeforeInsert, AfterInsert, At

\* One step makes at most one saver busy, and that when nobody else is.
LEMMA OneBusyStep ==
  ASSUME OneBusy, OneAtATime, NEW j \in Savers,
         \A k \in Savers \ {j} : run'[k] = run[k] /\ index'[k] = index[k]
  PROVE  OneBusy' /\ \A k \in Savers \ {j} : Busy(k)' <=> Busy(k)
<1>1. \A k \in Savers \ {j} : Busy(k)' <=> Busy(k)
  BY BusyFacts
<1>2. Busy(j)' /\ ~Busy(j) => \A k \in Savers : ~Busy(k)
  BY DEF OneAtATime, Quiet
<1> QED
  BY <1>1, <1>2 DEF OneBusy

\* A step of the one saver that is at work.
LEMMA OwnStep ==
  ASSUME MarkInv, OneAtATime, NEW j \in Savers, Busy(j),
         \A k \in Savers \ {j} : run'[k] = run[k] /\ index'[k] = index[k],
         TablesRight', JobRight(j)'
  PROVE  MarkInv'
<1>1. OneBusy' /\ \A k \in Savers \ {j} : ~Busy(k)'
  BY OneBusyStep DEF MarkInv, OneBusy
<1>2. \A k \in Savers \ {j} : JobRight(k)'
  BY <1>1, IdleRight
<1> QED
  BY <1>1, <1>2 DEF MarkInv

LEMMA RightKept ==
  ASSUME NEW k, JobRight(k), run'[k] = run[k], index'[k] = index[k],
         UNCHANGED <<tagUuid, yamlDefined, explores, catalog>>
  PROVE  JobRight(k)'
<1>1. Prepared(k)'
  BY DEF JobRight, Prepared
<1>2. Carries(k, {})' <=> Carries(k, {})
  BY DEF Carries, Indexing, At
<1>3. Carried(k)'
  BY <1>2 DEF JobRight, Carried
<1>4. IndexRight(k)'
  BY DEF JobRight, IndexRight, At, Explored
<1> QED
  BY <1>1, <1>3, <1>4 DEF JobRight

\* A step of a run that neither reads nor writes what marks depend on, whoever is at
\* work.
LEMMA AsideStep ==
  ASSUME MarkInv, OneAtATime, NEW j \in Savers,
         UNCHANGED <<tagUuid, yamlDefined, explores, catalog, index>>,
         \A k \in Savers \ {j} : run'[k] = run[k],
         run'[j].prev = run[j].prev,
         run[j].phase # "queueIndex",
         run'[j].phase \notin {"readIcons", "readEdges", "save", "queueIndex"}
  PROVE  MarkInv'
<1>1. OneBusy'
  BY OneBusyStep DEF MarkInv
<1>2. TablesRight'
  BY DEF MarkInv, TablesRight, Explored
<1>3. ASSUME NEW k \in Savers PROVE JobRight(k)'
  <2>1. CASE k # j
    BY <2>1, RightKept DEF MarkInv
  <2>2. CASE k = j
    <3>1. Carries(j, {})' <=> Carries(j, {})
      BY BusyFacts
    <3>2. Carried(j)'
      BY <3>1 DEF MarkInv, JobRight, Carried
    <3>3. Prepared(j)'
      BY DEF Prepared
    <3>4. IndexRight(j)'
      BY DEF MarkInv, JobRight, IndexRight, At, Explored
    <3> QED
      BY <2>2, <3>2, <3>3, <3>4 DEF JobRight
  <2> QED
    BY <2>1, <2>2
<1> QED
  BY <1>1, <1>2, <1>3 DEF MarkInv

-----------------------------------------------------------------------------
(* What both properties ask of a step. *)

TagsSurvive ==
    /\ UserTags' \subseteq UserTags
    /\ \A m \in Tagged : Metric(m[1]) \in Metrics(Explored)' =>
         \E n \in Tagged :
           /\ Metric(n[1]) = Metric(m[1])
           /\ \A t \in Tags : <<n[1], t>> \in Tagged /\ tagUuid'[t] # None =>
                <<Metric(m[1]), t>> \in UserTags'

IconsSurvive == UserIcons' = UserIcons \cap Metrics(Explored)'

EdgesSurvive ==
    \/ UserEdges' = UserEdges \cap (Metrics(Explored)' \X Metrics(Explored)')
    \/ UserEdges' = {} /\ \E e, f \in Edges : e # f /\ Between(e) = Between(f)

Survive == TagsSurvive /\ IconsSurvive /\ EdgesSurvive

\* Marks that stay where they are, on metrics that were explored.
LEMMA SameTags ==
  ASSUME Tagged' = Tagged,
         \A m \in Tagged : Metric(m[1]) \in Metrics(Explored)' => Metric(m[1]) \in Metrics(Explored)
  PROVE  TagsSurvive
<1>1. UserTags' = {<<Metric(m[1]), m[2]>> : m \in Tagged} \cap (Metrics(Explored)' \X Tags)
  BY DEF UserTags, Metric
<1>2. ASSUME NEW x \in UserTags' PROVE x \in UserTags
  <2>1. PICK m \in Tagged : x = <<Metric(m[1]), m[2]>>
    BY <1>1
  <2>2. Metric(m[1]) \in Metrics(Explored)' /\ m[2] \in Tags
    BY <1>1, <2>1
  <2> QED
    BY <2>1, <2>2 DEF UserTags
<1>3. ASSUME NEW m \in Tagged, Metric(m[1]) \in Metrics(Explored)',
             NEW t \in Tags, <<m[1], t>> \in Tagged
      PROVE  <<Metric(m[1]), t>> \in UserTags'
  <2>1. <<Metric(m[1]), t>> \in {<<Metric(n[1]), n[2]>> : n \in Tagged}
    BY <1>3
  <2> QED
    BY <1>1, <1>3, <2>1
<1> QED
  BY <1>2, <1>3 DEF TagsSurvive

LEMMA SameIcons ==
  ASSUME Icons' = Icons,
         \A r \in Icons : Metric(r) \in Metrics(Explored)' => Metric(r) \in Metrics(Explored)
  PROVE  IconsSurvive
<1>1. UserIcons' = {Metric(r) : r \in Icons} \cap Metrics(Explored)'
  BY DEF UserIcons, Metric
<1> QED
  BY <1>1 DEF UserIcons, IconsSurvive

LEMMA SameEdges ==
  ASSUME Edges' = Edges,
         \A e \in Edges : Between(e) \in Metrics(Explored)' \X Metrics(Explored)' =>
                           Between(e) \in Metrics(Explored) \X Metrics(Explored)
  PROVE  EdgesSurvive
<1>1. UserEdges' = {Between(e) : e \in Edges} \cap (Metrics(Explored)' \X Metrics(Explored)')
  BY DEF UserEdges, Between, Metric
<1> QED
  BY <1>1 DEF UserEdges, EdgesSurvive

\* The tags that were read, without their uuids.
Read(j) == {<<m[1], m[2]>> : m \in run[j].prev.tags}

\* All marks are those in the catalog and those that the one saver at work carries over.
LEMMA OwnMarks ==
  ASSUME NEW j \in Savers, \A k \in Savers \ {j} : ~Busy(k) /\ ~Busy(k)'
  PROVE  /\ Carries(j, MigratedTags) => Tagged = catalog.tags \cup Read(j)
         /\ ~Carries(j, MigratedTags) => Tagged = catalog.tags
         /\ Carries(j, MigratedIcons) => Icons = catalog.icons \cup run[j].prev.icons
         /\ ~Carries(j, MigratedIcons) => Icons = catalog.icons
         /\ Carries(j, {}) => Edges = catalog.edges \cup run[j].prev.edges
         /\ ~Carries(j, {}) => Edges = catalog.edges
         /\ Carries(j, MigratedTags)' => Tagged' = catalog'.tags \cup Read(j)'
         /\ ~Carries(j, MigratedTags)' => Tagged' = catalog'.tags
         /\ Carries(j, MigratedIcons)' => Icons' = catalog'.icons \cup run'[j].prev.icons
         /\ ~Carries(j, MigratedIcons)' => Icons' = catalog'.icons
         /\ Carries(j, {})' => Edges' = catalog'.edges \cup run'[j].prev.edges
         /\ ~Carries(j, {})' => Edges' = catalog'.edges
<1>1. ASSUME NEW M
      PROVE  /\ {k \in Savers : Carries(k, M)} = IF Carries(j, M) THEN {j} ELSE {}
             /\ {k \in Savers : Carries(k, M)'} = IF Carries(j, M)' THEN {j} ELSE {}
  BY BusyFacts
<1>2. /\ Carries(j, MigratedTags) => Tagged = catalog.tags \cup Read(j)
      /\ ~Carries(j, MigratedTags) => Tagged = catalog.tags
  BY <1>1 DEF Tagged, Read
<1>3. /\ Carries(j, MigratedIcons) => Icons = catalog.icons \cup run[j].prev.icons
      /\ ~Carries(j, MigratedIcons) => Icons = catalog.icons
  BY <1>1 DEF Icons
<1>4. /\ Carries(j, {}) => Edges = catalog.edges \cup run[j].prev.edges
      /\ ~Carries(j, {}) => Edges = catalog.edges
  BY <1>1 DEF Edges
<1>5. /\ Carries(j, MigratedTags)' => Tagged' = catalog'.tags \cup Read(j)'
      /\ ~Carries(j, MigratedTags)' => Tagged' = catalog'.tags
  BY <1>1 DEF Tagged, Read
<1>6. /\ Carries(j, MigratedIcons)' => Icons' = catalog'.icons \cup run'[j].prev.icons
      /\ ~Carries(j, MigratedIcons)' => Icons' = catalog'.icons
  BY <1>1 DEF Icons
<1>7. /\ Carries(j, {})' => Edges' = catalog'.edges \cup run'[j].prev.edges
      /\ ~Carries(j, {})' => Edges' = catalog'.edges
  BY <1>1 DEF Edges
<1> QED
  BY <1>2, <1>3, <1>4, <1>5, <1>6, <1>7

\* A step that leaves the marks in the catalog, and those that are carried over, alone.
LEMMA SurviveAside ==
  ASSUME UNCHANGED explores,
         catalog'.tags = catalog.tags, catalog'.icons = catalog.icons,
         catalog'.edges = catalog.edges,
         \A k \in Savers : /\ Carries(k, MigratedTags)' <=> Carries(k, MigratedTags)
                           /\ Carries(k, MigratedIcons)' <=> Carries(k, MigratedIcons)
                           /\ Carries(k, {})' <=> Carries(k, {})
                           /\ Carries(k, {}) => run'[k].prev = run[k].prev
  PROVE  Survive
<1>1. Explored' = Explored
  BY DEF Explored
<1>2. \A k \in Savers : Carries(k, MigratedTags) \/ Carries(k, MigratedIcons)
                          => run'[k].prev = run[k].prev
  BY BusyFacts
<1>3. Tagged' = Tagged
  <2>1. {k \in Savers : Carries(k, MigratedTags)}' = {k \in Savers : Carries(k, MigratedTags)}
    OBVIOUS
  <2>2. \A k \in {i \in Savers : Carries(i, MigratedTags)} : run'[k].prev.tags = run[k].prev.tags
    BY <1>2
  <2> QED
    BY <2>1, <2>2 DEF Tagged
<1>4. Icons' = Icons
  <2>1. {k \in Savers : Carries(k, MigratedIcons)}' = {k \in Savers : Carries(k, MigratedIcons)}
    OBVIOUS
  <2>2. \A k \in {i \in Savers : Carries(i, MigratedIcons)} : run'[k].prev.icons = run[k].prev.icons
    BY <1>2
  <2> QED
    BY <2>1, <2>2 DEF Icons
<1>5. Edges' = Edges
  <2>1. {k \in Savers : Carries(k, {})}' = {k \in Savers : Carries(k, {})}
    OBVIOUS
  <2>2. \A k \in {i \in Savers : Carries(i, {})} : run'[k].prev.edges = run[k].prev.edges
    OBVIOUS
  <2> QED
    BY <2>1, <2>2 DEF Edges
<1> HIDE DEF Explored, Tagged, Icons, Edges
<1>6. Metrics(Explored)' = Metrics(Explored)
  BY <1>1 DEF Metrics
<1> QED
  BY <1>3, <1>4, <1>5, <1>6, SameTags, SameIcons, SameEdges DEF Survive

-----------------------------------------------------------------------------
(* Steps aside from saving and indexing. *)

Reserved == {"readIcons", "readEdges", "save", "queueIndex"}

Aside(j) ==
    /\ UNCHANGED <<tagUuid, yamlDefined, explores, catalog, index>>
    /\ \A k \in Savers \ {j} : run'[k] = run[k]
    /\ run'[j].prev = run[j].prev
    /\ run[j].phase # "queueIndex"
    /\ run'[j].phase \notin Reserved

LEMMA AsideSurvives ==
  ASSUME TInv, MarkInv, OneAtATime, NEW j \in Savers, Aside(j)
  PROVE  MarkInv' /\ Survive
<1>1. MarkInv'
  BY AsideStep DEF Aside, Reserved
<1>2. ASSUME NEW k \in Savers, NEW M PROVE Carries(k, M)' <=> Carries(k, M)
  <2>1. index'[k].phase = index[k].phase
    BY DEF Aside
  <2>2. run'[k].phase = "queueIndex" <=> run[k].phase = "queueIndex"
    BY DEF Aside, Reserved
  <2> QED
    BY <2>1, <2>2, BusyFacts
<1>3. \A k \in Savers : run'[k].prev = run[k].prev
  BY DEF Aside
<1>4. Survive
  BY <1>2, <1>3, SurviveAside DEF Aside
<1> QED
  BY <1>1, <1>4

LEMMA GotoAside ==
  ASSUME TInv, NEW j \in Savers, NEW p \in RunPhases \ Reserved, Goto(j, p),
         run[j].phase # "queueIndex",
         UNCHANGED <<tagUuid, yamlDefined, explores, catalog, index>>
  PROVE  Aside(j)
  BY GotoType, TableFacts DEF Aside

\* A run that takes note of something else on its way.
LEMMA NoteAside ==
  ASSUME TInv, NEW j \in Savers, NEW p \in RunPhases \ Reserved,
         run[j].phase # "queueIndex",
         \/ \E st \in {"test", "compile"} : run' = [run EXCEPT ![j].phase = p, ![j].step = st]
         \/ \E d \in BOOLEAN : run' = [run EXCEPT ![j].phase = p, ![j].dbt = d]
         \/ \E c \in Configs : run' = [run EXCEPT ![j].phase = p, ![j].config = c],
         UNCHANGED <<tagUuid, yamlDefined, explores, catalog, index>>
  PROVE  Aside(j)
  BY TableFacts DEF Aside, Runs

LEMMA JobsAside ==
  ASSUME TInv, NEW j \in Jobs,
         \/ j \in Refreshes /\ ScheduleCompileProject(j)
         \/ j \in Updates /\ \E toDbt \in BOOLEAN : UpdateAndScheduleAsyncWork(j, toDbt)
         \/ j \in Refreshes /\ TryAcquireProjectLock(j)
         \/ j \in Updates /\ (TestAndCompileProject(j) \/ TestProjectAdapter(j))
         \/ AddCompileJob(j) \/ CompileStep(j)
  PROVE  Aside(j)
<1>0. j \in Savers /\ dbt \in BOOLEAN
  BY SaverFacts
<1>1. ASSUME NEW p \in RunPhases \ Reserved, Goto(j, p), run[j].phase # "queueIndex",
             UNCHANGED <<project, index>>
      PROVE  Aside(j)
  BY <1>0, <1>1, GotoAside DEF project
<1>2. CASE ScheduleCompileProject(j)
  BY <1>1, <1>2 DEF ScheduleCompileProject, At, RunPhases, Reserved
<1>3. ASSUME NEW toDbt \in BOOLEAN, UpdateAndScheduleAsyncWork(j, toDbt) PROVE Aside(j)
  BY <1>1, <1>3 DEF UpdateAndScheduleAsyncWork, At, RunPhases, Reserved
<1>4. CASE TryAcquireProjectLock(j)
  BY <1>1, <1>4 DEF TryAcquireProjectLock, At, RunPhases, Reserved
<1>5. CASE TestAndCompileProject(j)
  <2>1. /\ run[j].phase = "queued" /\ run' = [run EXCEPT ![j].phase = "mark", ![j].dbt = dbt]
        /\ UNCHANGED <<project, index>>
    BY <1>5 DEF TestAndCompileProject, At
  <2>2. "mark" \in RunPhases \ Reserved
    BY DEF RunPhases, Reserved
  <2> QED
    BY <1>0, <2>1, <2>2, NoteAside DEF project
<1>6. CASE TestProjectAdapter(j)
  BY <1>1, <1>6 DEF TestProjectAdapter, At, RunPhases, Reserved
<1>7. CASE AddCompileJob(j)
  BY <1>1, <1>7 DEF AddCompileJob, At, RunPhases, Reserved
<1>8. CASE MarkRunning(j)
  <2>1. /\ run[j].phase = "mark" /\ UNCHANGED <<project, index>>
        /\ \E st \in {"test", "compile"} : run' = [run EXCEPT ![j].phase = "step", ![j].step = st]
    BY <1>8 DEF MarkRunning, At
  <2>2. "step" \in RunPhases \ Reserved
    BY DEF RunPhases, Reserved
  <2> QED
    BY <1>0, <2>1, <2>2, NoteAside DEF project
<1>9. CASE StartJobStep(j)
  BY <1>1, <1>9 DEF StartJobStep, At, RunPhases, Reserved
<1>10. CASE CompileAllExplores(j)
  <2>1. run[j].phase = "compiling" /\ UNCHANGED <<project, index>>
    BY <1>10 DEF CompileAllExplores, At
  <2>2. {"stepFailed", "replaceTags"} \subseteq RunPhases \ Reserved
    BY DEF RunPhases, Reserved
  <2>3. CASE Goto(j, "stepFailed")
    BY <1>1, <2>1, <2>2, <2>3
  <2>4. CASE \E c \in Configs : run' = [run EXCEPT ![j].phase = "replaceTags", ![j].config = c]
    BY <1>0, <2>1, <2>2, <2>4, NoteAside DEF project
  <2> QED
    BY <1>10, <2>3, <2>4 DEF CompileAllExplores
<1>11. CASE JobStepDone(j)
  <2>1. /\ run[j].phase = "stepDone" /\ UNCHANGED <<project, index>>
        /\ \E p \in {"step", "finish"} :
             run' = [run EXCEPT ![j].phase = p, ![j].step = "compile"]
    BY <1>11 DEF JobStepDone, At
  <2>2. {"step", "finish"} \subseteq RunPhases \ Reserved
    BY DEF RunPhases, Reserved
  <2> QED
    BY <1>0, <2>1, <2>2, NoteAside DEF project
<1>12. CASE Finish(j)
  BY <1>1, <1>12 DEF Finish, At, RunPhases, Reserved
<1>13. CASE JobStepFailed(j)
  BY <1>1, <1>13 DEF JobStepFailed, At, RunPhases, Reserved
<1>14. CASE FinishFailed(j)
  BY <1>1, <1>14 DEF FinishFailed, At, RunPhases, Reserved
<1> QED
  BY <1>2, <1>3, <1>4, <1>5, <1>6, <1>7, <1>8, <1>9, <1>10, <1>11, <1>12, <1>13, <1>14
  DEF CompileStep

LEMMA DeployAside ==
  ASSUME TInv, NEW d \in Deploys, Deploy(d)
  PROVE  Aside(d)
<1>1. /\ run[d].phase = "idle" /\ UNCHANGED <<project, index>>
      /\ \E c \in Configs : run' = [run EXCEPT ![d].phase = "replaceTags", ![d].config = c]
  BY DEF Deploy, At
<1>2. "replaceTags" \in RunPhases \ Reserved /\ d \in Savers
  BY SaverFacts DEF RunPhases, Reserved
<1> QED
  BY <1>1, <1>2, NoteAside DEF project

\* Parameters are of no interest to marks.
LEMMA ParametersAside ==
  ASSUME TInv, NEW j \in Savers, ReplaceProjectParameters(j)
  PROVE  Aside(j)
  BY GotoAside DEF ReplaceProjectParameters, At, RunPhases, Reserved

-----------------------------------------------------------------------------
(* Steps of a saver. *)

\* Tags of the configuration come and go, those of users stay.
LEMMA ReplaceYamlTagsMarks ==
  ASSUME TInv, MarkInv, OneAtATime, NEW j \in Savers, ReplaceYamlTags(j)
  PROVE  MarkInv' /\ Survive
<1> DEFINE wanted == run[j].config.defined
           gone == yamlDefined \ wanted
<1>1. /\ run[j].phase = "replaceTags"
      /\ tagUuid' = [t \in Tags |-> IF t \in gone THEN None
                                     ELSE IF t \in wanted \ yamlDefined THEN j
                                     ELSE tagUuid[t]]
      /\ yamlDefined' = wanted
      /\ catalog' = WithoutTags(gone)
      /\ Goto(j, "replaceParameters")
      /\ UNCHANGED <<explores, index>>
  BY DEF ReplaceYamlTags, At
<1>2. wanted \subseteq YamlTags
  <2>1. run[j].config \in Configs
    BY SaverFacts DEF Runs
  <2> QED
    BY <2>1 DEF YamlTags
<1>3. gone \subseteq YamlTags
  BY DEF MarkInv, TablesRight
<1> HIDE DEF wanted, gone
<1>4. /\ catalog'.rows = catalog.rows
      /\ catalog'.tags = catalog.tags
      /\ catalog'.yaml \subseteq catalog.yaml
      /\ catalog'.icons = catalog.icons /\ catalog'.edges = catalog.edges
  <2>1. \A m \in catalog.tags : m[2] \notin gone
    BY <1>3 DEF MarkInv, TablesRight
  <2>2. /\ catalog'.rows = catalog.rows
        /\ catalog'.tags = {m \in catalog.tags : m[2] \notin gone}
        /\ catalog'.yaml = {m \in catalog.yaml : m[2] \notin gone}
        /\ catalog'.icons = catalog.icons /\ catalog'.edges = catalog.edges
    BY <1>1, WithoutTagsFacts, TableFacts
  <2> QED
    BY <2>1, <2>2
<1>5. TablesRight'
  BY <1>1, <1>2, <1>4 DEF MarkInv, TablesRight, Explored
<1>6. /\ \A k \in Savers \ {j} : run'[k] = run[k] /\ index'[k] = index[k]
      /\ run'[j].phase = "replaceParameters"
  <2>1. Goto(j, "replaceParameters") /\ "replaceParameters" \in RunPhases /\ index' = index
    BY <1>1 DEF RunPhases
  <2> QED
    BY <2>1, GotoType, TableFacts
<1>7. index[j].phase = "none" /\ index'[j].phase = "none"
  BY <1>1, TableFacts DEF IndexedOnce, BeforeIndex
<1>8. ~Carries(j, {}) /\ ~Carries(j, {})' /\ Busy(j)
  BY <1>1, <1>6, <1>7, BusyFacts DEF SavePhases
<1>9. JobRight(j)'
  BY <1>6, <1>7, <1>8 DEF JobRight, Prepared, Carried, IndexRight, At, BeforeInsert, AfterInsert
<1>10. MarkInv'
  BY <1>5, <1>6, <1>8, <1>9, OwnStep
<1>11. \A k \in Savers : \A M : Carries(k, M)' <=> Carries(k, M)
  BY <1>6, <1>8, BusyFacts
<1>12. \A k \in Savers : Carries(k, {}) => run'[k].prev = run[k].prev
  BY <1>6, <1>8
<1>13. Survive
  BY <1>1, <1>4, <1>11, <1>12, SurviveAside
<1> QED
  BY <1>10, <1>13

\* A saver reads, one table after the other; nobody changes them meanwhile.
LEMMA ReadMarks ==
  ASSUME TInv, MarkInv, OneAtATime, NEW j \in Savers,
         run[j].phase \in {"readTags", "readIcons", "readEdges"},
         run'[j].phase \in {"readIcons", "readEdges", "save"},
         \A k \in Savers \ {j} : run'[k] = run[k],
         UNCHANGED <<tagUuid, yamlDefined, explores, catalog, index>>,
         Prepared(j)'
  PROVE  MarkInv' /\ Survive
<1>1. index[j].phase = "none" /\ index'[j].phase = "none"
  BY TableFacts DEF IndexedOnce, BeforeIndex
<1>2. ~Carries(j, {}) /\ ~Carries(j, {})' /\ Busy(j)
  BY <1>1, BusyFacts DEF SavePhases
<1>3. JobRight(j)'
  BY <1>1, <1>2 DEF JobRight, Carried, IndexRight, At, BeforeInsert, AfterInsert
<1>4. TablesRight'
  BY DEF MarkInv, TablesRight, Explored
<1>5. MarkInv'
  BY <1>2, <1>3, <1>4, OwnStep
<1>6. \A k \in Savers : \A M : Carries(k, M)' <=> Carries(k, M)
  <2>1. \A M : ~Carries(j, M) /\ ~Carries(j, M)'
    BY <1>2, BusyFacts
  <2>2. \A k \in Savers \ {j} : \A M : Carries(k, M)' <=> Carries(k, M)
    BY BusyFacts
  <2> QED
    BY <2>1, <2>2
<1>7. Survive
  BY <1>2, <1>6, SurviveAside
<1> QED
  BY <1>5, <1>7

LEMMA ReadsMarks ==
  ASSUME TInv, MarkInv, OneAtATime, NEW j \in Savers,
         ReadTags(j) \/ ReadIcons(j) \/ ReadEdges(j)
  PROVE  MarkInv' /\ Survive
<1>1. /\ UNCHANGED <<tagUuid, yamlDefined, explores, catalog, index>>
      /\ run[j].phase \in {"readTags", "readIcons", "readEdges"}
  BY DEF ReadTags, ReadIcons, ReadEdges, At, project
<1>2. JobRight(j) /\ run[j] \in Runs /\ run[j].prev \in Payloads
  BY SaverFacts DEF MarkInv, Runs
<1>3. CASE ReadTags(j)
  <2> DEFINE read == {<<m[1], m[2], tagUuid[m[2]]>> : m \in catalog.tags}
  <2>1. run' = [run EXCEPT ![j].phase = "readIcons", ![j].prev = [@ EXCEPT !.tags = read]]
    BY <1>3 DEF ReadTags
  <2>2. read' = read
    BY <1>1
  <2> HIDE DEF read
  <2>3. /\ run'[j].phase = "readIcons"
        /\ run'[j].prev.tags = read
        /\ \A k \in Savers \ {j} : run'[k] = run[k]
    BY <1>2, <2>1, TableFacts DEF Runs, Payloads
  <2>4. Prepared(j)'
    BY <2>2, <2>3 DEF Prepared, read
  <2> QED
    BY <1>1, <2>3, <2>4, ReadMarks
<1>4. CASE ReadIcons(j)
  <2>1. run' = [run EXCEPT ![j].phase = "readEdges", ![j].prev = [@ EXCEPT !.icons = catalog.icons]]
    BY <1>4 DEF ReadIcons
  <2>2. /\ run'[j].phase = "readEdges"
        /\ run'[j].prev.icons = catalog.icons
        /\ run'[j].prev.tags = run[j].prev.tags
        /\ \A k \in Savers \ {j} : run'[k] = run[k]
    BY <1>2, <2>1, TableFacts DEF Runs, Payloads
  <2>3. run[j].prev.tags = {<<m[1], m[2], tagUuid[m[2]]>> : m \in catalog.tags}
    BY <1>2, <1>4 DEF ReadIcons, At, JobRight, Prepared
  <2>4. Prepared(j)'
    BY <1>1, <2>2, <2>3 DEF Prepared
  <2> QED
    BY <1>1, <2>2, <2>4, ReadMarks
<1>5. CASE ReadEdges(j)
  <2>1. run' = [run EXCEPT ![j].phase = "save", ![j].prev = [@ EXCEPT !.edges = catalog.edges]]
    BY <1>5 DEF ReadEdges
  <2>2. /\ run'[j].phase = "save"
        /\ run'[j].prev.edges = catalog.edges
        /\ run'[j].prev.icons = run[j].prev.icons
        /\ run'[j].prev.tags = run[j].prev.tags
        /\ \A k \in Savers \ {j} : run'[k] = run[k]
    BY <1>2, <2>1, TableFacts DEF Runs, Payloads
  <2>3. /\ run[j].prev.tags = {<<m[1], m[2], tagUuid[m[2]]>> : m \in catalog.tags}
        /\ run[j].prev.icons = catalog.icons
    BY <1>2, <1>5 DEF ReadEdges, At, JobRight, Prepared
  <2>4. Prepared(j)'
    BY <1>1, <2>2, <2>3 DEF Prepared
  <2> QED
    BY <1>1, <2>2, <2>4, ReadMarks
<1> QED
  BY <1>3, <1>4, <1>5

\* The catalog goes, and all that it said of items that are kept has been read.
LEMMA SaveMarks ==
  ASSUME TInv, MarkInv, OneAtATime, NEW j \in Savers, SaveExploresToCache(j)
  PROVE  MarkInv' /\ Survive
<1> DEFINE saved == run[j].config.items \cup run[j].config.broken \cup CreatedViews
<1>1. run[j].phase = "save" /\ UNCHANGED <<tagUuid, yamlDefined, index>>
  BY DEF SaveExploresToCache, At
<1>2. CASE saved = {}
  <2>1. Fail(j) /\ UNCHANGED <<explores, catalog>>
    BY <1>2 DEF SaveExploresToCache
  <2>2. \E p \in RunPhases \ Reserved : Goto(j, p)
    BY <2>1 DEF Fail, RunPhases, Reserved
  <2>3. Aside(j)
    BY <1>1, <2>1, <2>2, GotoAside
  <2> QED
    BY <2>3, AsideSurvives
<1>3. CASE saved # {}
  <2>1. /\ explores' = [uuid |-> [i \in Items |-> IF i \in saved THEN j ELSE None],
                        config |-> run[j].config]
        /\ catalog' = WithoutRows(catalog.rows)
        /\ Goto(j, "queueIndex")
    BY <1>3 DEF SaveExploresToCache
  <2>2. /\ catalog'.rows = {} /\ catalog'.tags = {} /\ catalog'.yaml = {}
        /\ catalog'.icons = {} /\ catalog'.edges = {}
    BY <2>1, WithoutRowsFacts, TableFacts
  <2>3. /\ \A k \in Savers \ {j} : run'[k] = run[k] /\ index'[k] = index[k]
        /\ run'[j].phase = "queueIndex" /\ run'[j].prev = run[j].prev
    <3>1. "queueIndex" \in RunPhases
      BY DEF RunPhases
    <3> QED
      BY <1>1, <2>1, <3>1, GotoType, TableFacts
  <2>4. index[j].phase = "none" /\ index'[j].phase = "none"
    BY <1>1, TableFacts DEF IndexedOnce, BeforeIndex
  <2>5. Busy(j) /\ ~Carries(j, {}) /\ \A M : Carries(j, M)'
    BY <1>1, <2>3, <2>4, BusyFacts DEF SavePhases
  <2>6. /\ run[j].prev.tags = {<<m[1], m[2], tagUuid[m[2]]>> : m \in catalog.tags}
        /\ run[j].prev.icons = catalog.icons
        /\ run[j].prev.edges = catalog.edges
    BY <1>1 DEF MarkInv, JobRight, Prepared
  <2>7. TablesRight'
    BY <1>1, <2>2 DEF MarkInv, TablesRight
  <2>8. \A m \in run[j].prev.tags : m[2] \notin YamlTags /\ tagUuid[m[2]] = m[3]
    BY <2>6, TableFacts DEF MarkInv, TablesRight, References
  <2>9. Carried(j)'
    BY <1>1, <2>3, <2>8 DEF Carried
  <2>10. JobRight(j)'
    BY <2>2, <2>3, <2>4, <2>9 DEF JobRight, Prepared, IndexRight, BeforeInsert, AfterInsert
  <2>11. MarkInv'
    BY <2>3, <2>5, <2>7, <2>10, OwnStep
  <2>12. \A k \in Savers \ {j} : ~Busy(k) /\ ~Busy(k)'
    BY <2>3, <2>5, BusyFacts DEF MarkInv, OneBusy
  <2>13. \A M : ~Carries(j, M)
    BY <2>5, BusyFacts
  <2>14. Read(j)' = catalog.tags /\ Read(j)' = Read(j)
    <3>1. Read(j)' = Read(j)
      BY <2>3 DEF Read
    <3>2. catalog.tags \subseteq Rows \X Tags
      BY TableFacts DEF CatalogTables
    <3>3. \A m \in catalog.tags : m = <<m[1], m[2]>>
      BY <3>2
    <3>4. Read(j) \subseteq catalog.tags
      BY <2>6, <3>3 DEF Read
    <3>5. ASSUME NEW m \in catalog.tags PROVE m \in Read(j)
      <4>1. <<m[1], m[2], tagUuid[m[2]]>> \in run[j].prev.tags
        BY <2>6
      <4> QED
        BY <3>3, <4>1 DEF Read
    <3> QED
      BY <3>1, <3>4, <3>5
  <2>15. /\ Tagged = catalog.tags /\ Icons = catalog.icons /\ Edges = catalog.edges
         /\ Tagged' = Tagged /\ Icons' = Icons /\ Edges' = Edges
    <3>1. Carries(j, MigratedTags)' /\ Carries(j, MigratedIcons)' /\ Carries(j, {})'
      BY <2>5
    <3>2. ~Carries(j, MigratedTags) /\ ~Carries(j, MigratedIcons) /\ ~Carries(j, {})
      BY <2>13
    <3> QED
      BY <2>2, <2>3, <2>6, <2>12, <2>14, <3>1, <3>2, OwnMarks
  <2>16. \A r \in catalog.rows : Metric(r) \in Metrics(Explored)
    BY DEF MarkInv, TablesRight, Metric, Metrics
  <2>17. /\ \A m \in Tagged : Metric(m[1]) \in Metrics(Explored)
         /\ \A r \in Icons : Metric(r) \in Metrics(Explored)
         /\ \A e \in Edges : Between(e) \in Metrics(Explored) \X Metrics(Explored)
    BY <2>15, <2>16, TableFacts DEF References, Between
  <2>18. Survive
    BY <2>15, <2>17, SameTags, SameIcons, SameEdges DEF Survive
  <2> QED
    BY <2>11, <2>18
<1> QED
  BY <1>2, <1>3

\* What is carried over goes from the saver to its index job.
LEMMA QueueIndexMarks ==
  ASSUME TInv, MarkInv, OneAtATime, NEW j \in Savers, QueueIndexCatalog(j)
  PROVE  MarkInv' /\ Survive
<1>1. /\ run[j].phase = "queueIndex"
      /\ index' = [index EXCEPT ![j].phase = "queued"]
      /\ UNCHANGED <<tagUuid, yamlDefined, explores, catalog>>
  BY DEF QueueIndexCatalog, At, project
<1>2. PICK p \in {"ended", "stepDone"} : Goto(j, p)
  BY DEF QueueIndexCatalog
<1>3. /\ \A k \in Savers \ {j} : run'[k] = run[k]
      /\ run'[j].phase = p /\ run'[j].prev = run[j].prev
  <2>1. p \in RunPhases
    BY DEF RunPhases
  <2> QED
    BY <1>2, <2>1, GotoType, TableFacts
<1>4. /\ \A k \in Savers \ {j} : index'[k] = index[k]
      /\ index'[j].phase = "queued"
  BY <1>1, TableFacts DEF Indexings
<1>5. Busy(j) /\ \A M : Carries(j, M)
  BY <1>1, BusyFacts DEF SavePhases
<1>6. \A M : Carries(j, M)' <=> "queued" \notin M
  BY <1>3, <1>4, BusyFacts
<1>7. JobRight(j)'
  <2>1. Carried(j) /\ catalog.rows = {}
    BY <1>1 DEF MarkInv, JobRight, IndexRight, At
  <2>2. Carried(j)'
    BY <1>1, <1>3, <1>5, <2>1 DEF Carried
  <2>3. Prepared(j)'
    BY <1>3 DEF Prepared
  <2>4. IndexRight(j)'
    BY <1>1, <1>4, <2>1 DEF IndexRight, AfterInsert
  <2> QED
    BY <2>2, <2>3, <2>4 DEF JobRight
<1>8. TablesRight'
  BY <1>1 DEF MarkInv, TablesRight, Explored
<1>9. MarkInv'
  BY <1>3, <1>4, <1>5, <1>7, <1>8, OwnStep
<1>10. \A k \in Savers : /\ Carries(k, MigratedTags)' <=> Carries(k, MigratedTags)
                         /\ Carries(k, MigratedIcons)' <=> Carries(k, MigratedIcons)
                         /\ Carries(k, {})' <=> Carries(k, {})
  <2>1. \A k \in Savers \ {j} : \A M : Carries(k, M)' <=> Carries(k, M)
    BY <1>3, <1>4, BusyFacts
  <2> QED
    BY <1>5, <1>6, <2>1 DEF MigratedTags, MigratedIcons
<1>11. Survive
  BY <1>1, <1>3, <1>10, SurviveAside
<1> QED
  BY <1>9, <1>11

-----------------------------------------------------------------------------
(* Steps of an index job. *)

LEMMA AtWork ==
  ASSUME TInv, MarkInv, NEW j \in Savers, Indexing(j)
  PROVE  /\ Busy(j) /\ run[j].phase \notin SavePhases
         /\ index[j] \in Indexings
         /\ IndexRight(j)
         /\ \A M : Carries(j, M) <=> index[j].phase \notin M
         /\ run[j].prev \in Payloads
         /\ \A m \in run[j].prev.tags : m[2] \notin YamlTags /\ tagUuid[m[2]] = m[3]
<1>1. run[j].phase \notin SavePhases
  BY TableFacts DEF IndexedOnce, BeforeIndex, SavePhases, Indexing
<1>2. Busy(j) /\ \A M : Carries(j, M) <=> index[j].phase \notin M
  BY <1>1, BusyFacts DEF SavePhases
<1>3. IndexRight(j) /\ Carried(j)
  BY DEF MarkInv, JobRight
<1>4. Carries(j, {})
  BY <1>2
<1>5. index[j] \in Indexings /\ run[j].prev \in Payloads
  BY TableFacts DEF Runs
<1> QED
  BY <1>1, <1>2, <1>3, <1>4, <1>5 DEF Carried

\* Its step is right if the catalog is.
LEMMA IndexOwn ==
  ASSUME TInv, MarkInv, OneAtATime, NEW j \in Savers, Indexing(j),
         UNCHANGED <<tagUuid, yamlDefined, explores, run>>,
         \A k \in Savers \ {j} : index'[k] = index[k],
         TablesRight', IndexRight(j)',
         index'[j].phase # "none"
  PROVE  /\ MarkInv'
         /\ \A k \in Savers \ {j} : ~Busy(k) /\ ~Busy(k)'
         /\ \A M : /\ Carries(j, M) <=> index[j].phase \notin M
                   /\ Carries(j, M)' <=> index'[j].phase \notin M \cup {"ended", "failed"}
<1>1. /\ Busy(j) /\ run[j].phase \notin SavePhases
      /\ \A M : Carries(j, M) <=> index[j].phase \notin M
      /\ Carried(j)
  BY AtWork DEF MarkInv, JobRight
<1>2. \A M : Carries(j, M)' <=> index'[j].phase \notin M \cup {"ended", "failed"}
  BY <1>1, BusyFacts DEF SavePhases
<1>3. Carries(j, {})
  BY <1>1
<1>4. Carried(j)'
  BY <1>1, <1>3 DEF Carried
<1>5. Prepared(j)'
  BY <1>1 DEF Prepared, SavePhases
<1>6. MarkInv'
  BY <1>1, <1>4, <1>5, OwnStep DEF JobRight
<1>7. \A k \in Savers \ {j} : ~Busy(k) /\ ~Busy(k)'
  BY <1>1, BusyFacts DEF MarkInv, OneBusy
<1> QED
  BY <1>1, <1>2, <1>6, <1>7

\* A step of an index job that migrates nothing.
LEMMA IndexAside ==
  ASSUME TInv, MarkInv, OneAtATime, NEW j \in Savers, Indexing(j),
         UNCHANGED <<tagUuid, yamlDefined, explores, run>>,
         catalog'.tags = catalog.tags, catalog'.icons = catalog.icons,
         catalog'.edges = catalog.edges,
         \A k \in Savers \ {j} : index'[k] = index[k],
         TablesRight', IndexRight(j)',
         index'[j].phase \notin {"none", "ended", "failed"},
         index'[j].phase \in MigratedTags <=> index[j].phase \in MigratedTags,
         index'[j].phase \in MigratedIcons <=> index[j].phase \in MigratedIcons
  PROVE  MarkInv' /\ Survive
<1>1. /\ MarkInv'
      /\ \A k \in Savers \ {j} : ~Busy(k) /\ ~Busy(k)'
      /\ \A M : /\ Carries(j, M) <=> index[j].phase \notin M
                /\ Carries(j, M)' <=> index'[j].phase \notin M \cup {"ended", "failed"}
  BY IndexOwn
<1>2. ASSUME NEW k \in Savers
      PROVE  /\ Carries(k, MigratedTags)' <=> Carries(k, MigratedTags)
             /\ Carries(k, MigratedIcons)' <=> Carries(k, MigratedIcons)
             /\ Carries(k, {})' <=> Carries(k, {})
  <2>1. CASE k = j
    BY <1>1, <2>1
  <2>2. CASE k # j
    BY <1>1, <2>2, BusyFacts
  <2> QED
    BY <2>1, <2>2
<1> QED
  BY <1>1, <1>2, SurviveAside

\* Index jobs read, too.
LEMMA IndexReads ==
  ASSUME TInv, MarkInv, OneAtATime, NEW j \in Savers, Indexing(j),
         UNCHANGED <<tagUuid, yamlDefined, explores, catalog, run>>,
         \A k \in Savers \ {j} : index'[k] = index[k],
         IndexRight(j)',
         index'[j].phase \notin {"none", "ended", "failed"},
         index'[j].phase \in MigratedTags <=> index[j].phase \in MigratedTags,
         index'[j].phase \in MigratedIcons <=> index[j].phase \in MigratedIcons
  PROVE  MarkInv' /\ Survive
<1>1. TablesRight'
  BY DEF MarkInv, TablesRight, Explored
<1> QED
  BY <1>1, IndexAside

LEMMA ReadExploresMarks ==
  ASSUME TInv, MarkInv, OneAtATime, NEW j \in Savers, ReadExplores(j)
  PROVE  MarkInv' /\ Survive
<1>1. /\ index[j].phase = "queued"
      /\ index' = [index EXCEPT ![j].phase = "readYamlTags", ![j].explores = explores]
      /\ UNCHANGED <<tagUuid, yamlDefined, explores, catalog, run>>
  BY DEF ReadExplores, project
<1>2. Indexing(j)
  BY <1>1 DEF Indexing
<1>3. /\ index'[j].phase = "readYamlTags" /\ index'[j].explores = explores
      /\ \A k \in Savers \ {j} : index'[k] = index[k]
  BY <1>1, TableFacts DEF Indexings
<1>4. IndexRight(j)'
  <2>1. catalog.rows = {} /\ run[j].phase \notin SavePhases
    BY <1>1, <1>2, AtWork DEF IndexRight, BeforeInsert
  <2> QED
    BY <1>1, <1>3, <2>1 DEF IndexRight, BeforeInsert, AfterInsert, At, SavePhases
<1> QED
  BY <1>1, <1>2, <1>3, <1>4, IndexReads DEF MigratedTags, MigratedIcons

LEMMA ReadYamlTagsMarks ==
  ASSUME TInv, MarkInv, OneAtATime, NEW j \in Savers, ReadYamlTags(j)
  PROVE  MarkInv' /\ Survive
<1> DEFINE read == {<<t, tagUuid[t]>> : t \in yamlDefined}
<1>1. /\ index[j].phase = "readYamlTags"
      /\ index' = [index EXCEPT ![j].phase = "delete", ![j].yaml = read]
      /\ UNCHANGED <<tagUuid, yamlDefined, explores, catalog, run>>
  BY DEF ReadYamlTags, project
<1>2. Indexing(j)
  BY <1>1 DEF Indexing
<1>3. read' = read
  BY <1>1
<1>4. /\ index'[j].phase = "delete" /\ index'[j].yaml = read
      /\ index'[j].explores = index[j].explores
      /\ \A k \in Savers \ {j} : index'[k] = index[k]
  <2> HIDE DEF read
  <2> QED
    BY <1>1, TableFacts DEF Indexings
<1>5. IndexRight(j)'
  <2>1. catalog.rows = {} /\ run[j].phase \notin SavePhases /\ index[j].explores = explores
    BY <1>1, <1>2, AtWork DEF IndexRight, BeforeInsert
  <2> QED
    BY <1>1, <1>3, <1>4, <2>1 DEF IndexRight, BeforeInsert, AfterInsert, At, SavePhases
<1> HIDE DEF read
<1> QED
  BY <1>1, <1>2, <1>4, <1>5, IndexReads DEF MigratedTags, MigratedIcons

\* Without rows there are no marks.
LEMMA NoRowsNoMarks ==
  ASSUME TInv, catalog.rows = {}
  PROVE  catalog.tags = {} /\ catalog.yaml = {} /\ catalog.icons = {} /\ catalog.edges = {}
<1>1. /\ catalog.tags \cup catalog.yaml \subseteq catalog.rows \X Tags
      /\ catalog.icons \subseteq catalog.rows
      /\ catalog.edges \subseteq catalog.rows \X catalog.rows
  BY TableFacts DEF References
<1> QED
  BY <1>1

\* The catalog is empty already; without explores it stays so.
LEMMA DeleteRowsMarks ==
  ASSUME TInv, MarkInv, OneAtATime, NEW j \in Savers, DeleteRows(j)
  PROVE  MarkInv' /\ Survive
<1>1. PICK p \in {"insert", "readForTags"} :
        /\ index[j].phase = "delete"
        /\ index' = [index EXCEPT ![j].phase = p, ![j].rows = catalog.rows]
        /\ p = IF Indexed(j) = {} THEN "readForTags" ELSE "insert"
        /\ UNCHANGED <<tagUuid, yamlDefined, explores, catalog, run>>
  BY DEF DeleteRows, project
<1>2. Indexing(j) /\ p \in IndexPhases
  BY <1>1 DEF Indexing, IndexPhases
<1>3. /\ index'[j].phase = p
      /\ index'[j].explores = index[j].explores /\ index'[j].yaml = index[j].yaml
      /\ \A k \in Savers \ {j} : index'[k] = index[k]
  BY <1>1, TableFacts DEF Indexings
<1>4. /\ catalog.rows = {} /\ run[j].phase \notin SavePhases
      /\ index[j].explores = explores
      /\ index[j].yaml = {<<t, tagUuid[t]>> : t \in yamlDefined}
  BY <1>1, <1>2, AtWork DEF IndexRight, BeforeInsert
<1>5. catalog.tags = {} /\ catalog.icons = {} /\ catalog.edges = {}
  BY <1>4, NoRowsNoMarks
<1>6. p = "readForTags" => catalog.rows = Explored \X {j}
  BY <1>1, <1>4 DEF Indexed, Explored
<1>7. Explored' = Explored
  BY <1>1 DEF Explored
<1>8. IndexRight(j)'
  <2>1. CASE p = "insert"
    BY <1>1, <1>3, <1>4, <2>1 DEF IndexRight, BeforeInsert, AfterInsert, At, SavePhases
  <2>2. CASE p = "readForTags"
    BY <1>1, <1>3, <1>4, <1>5, <1>6, <1>7, <2>2
       DEF IndexRight, BeforeInsert, AfterInsert, At, SavePhases
  <2> QED
    BY <2>1, <2>2
<1> QED
  BY <1>1, <1>2, <1>3, <1>8, IndexReads DEF MigratedTags, MigratedIcons

\* What was read is still true: every explore gets its row.
LEMMA InsertRowsMarks ==
  ASSUME TInv, MarkInv, OneAtATime, NEW j \in Savers, InsertRows(j)
  PROVE  MarkInv' /\ Survive
<1>1. /\ index[j].phase = "insert"
      /\ Proceed(j, "readForTags")
      /\ UNCHANGED <<tagUuid, yamlDefined, explores, run>>
  BY DEF InsertRows
<1>2. Indexing(j) /\ "readForTags" \in IndexPhases
  BY <1>1 DEF Indexing, IndexPhases
<1>3. /\ index'[j].phase = "readForTags"
      /\ \A k \in Savers \ {j} : index'[k] = index[k]
  BY <1>1, <1>2, ProceedType, TableFacts DEF Proceed
<1>4. /\ catalog.rows = {} /\ run[j].phase \notin SavePhases
      /\ index[j].explores = explores
      /\ index[j].yaml = {<<t, tagUuid[t]>> : t \in yamlDefined}
  BY <1>1, <1>2, AtWork DEF IndexRight, BeforeInsert
<1>5. catalog.tags = {} /\ catalog.yaml = {} /\ catalog.icons = {} /\ catalog.edges = {}
  BY <1>4, NoRowsNoMarks
<1>6. Indexed(j) = Explored /\ Explored \subseteq Items
  BY <1>4 DEF Indexed, Explored
<1>7. \A m \in YamlMarks(j) : m[2] \in YamlTags /\ <<m[2], tagUuid[m[2]]>> \in index[j].yaml
  <2>2. \A d, u : <<d, u>> \in index[j].yaml => d \in yamlDefined /\ u = tagUuid[d]
    BY <1>4
  <2>3. yamlDefined \subseteq YamlTags
    BY DEF MarkInv, TablesRight
  <2> QED
    BY <2>2, <2>3 DEF YamlMarks
<1>8. ReferencesHold(j)
  BY <1>4, <1>7 DEF ReferencesHold
<1> DEFINE kept == WithoutRows(index[j].rows)
<1>9. catalog' = [kept EXCEPT !.rows = @ \cup Indexed(j) \X {j}, !.yaml = @ \cup YamlMarks(j)]
  BY <1>8 DEF InsertRows
<1>10. /\ kept \in CatalogTables
       /\ kept.rows = {} /\ kept.tags = {} /\ kept.yaml = {}
       /\ kept.icons = {} /\ kept.edges = {}
  BY <1>4, <1>5, WithoutRowsFacts, TableFacts
<1> HIDE DEF kept
<1>11. /\ catalog'.rows = Explored \X {j}
       /\ catalog'.tags = {} /\ catalog'.icons = {} /\ catalog'.edges = {}
       /\ catalog'.yaml = YamlMarks(j)
  BY <1>6, <1>9, <1>10 DEF CatalogTables
<1>12. Explored' = Explored
  BY <1>1 DEF Explored
<1>13. TablesRight'
  <2>1. yamlDefined \subseteq YamlTags
    BY DEF MarkInv, TablesRight
  <2> HIDE DEF Explored
  <2> QED
    BY <1>1, <1>7, <1>11, <1>12, <2>1 DEF TablesRight
<1>14. IndexRight(j)'
  BY <1>1, <1>3, <1>4, <1>11, <1>12 DEF IndexRight, BeforeInsert, AfterInsert, At, SavePhases
<1> QED
  BY <1>1, <1>2, <1>3, <1>5, <1>11, <1>13, <1>14, IndexAside DEF MigratedTags, MigratedIcons

LEMMA ReadRowsMarks ==
  ASSUME TInv, MarkInv, OneAtATime, NEW j \in Savers, ReadRows(j)
  PROVE  MarkInv' /\ Survive
<1>1. PICK p \in {<<"readForTags", "migrateTags">>, <<"readForIcons", "migrateIcons">>,
                  <<"readForEdges", "migrateEdges">>} :
        /\ index[j].phase = p[1]
        /\ index' = [index EXCEPT ![j].phase = p[2], ![j].rows = catalog.rows]
        /\ UNCHANGED <<tagUuid, yamlDefined, explores, catalog, run>>
  BY DEF ReadRows, project
<1>2. Indexing(j)
  BY <1>1 DEF Indexing
<1>3. /\ index'[j].phase = p[2] /\ index'[j].rows = catalog.rows
      /\ \A k \in Savers \ {j} : index'[k] = index[k]
  BY <1>1, TableFacts DEF Indexings
<1>4. run[j].phase \notin SavePhases /\ IndexRight(j)
  BY <1>2, AtWork
<1>5. Explored' = Explored
  BY <1>1 DEF Explored
<1>6. IndexRight(j)'
  BY <1>1, <1>3, <1>4, <1>5 DEF IndexRight, BeforeInsert, AfterInsert, At, SavePhases
<1>7. /\ p[2] \notin {"none", "ended", "failed"}
      /\ p[2] \in MigratedTags <=> p[1] \in MigratedTags
      /\ p[2] \in MigratedIcons <=> p[1] \in MigratedIcons
  BY DEF MigratedTags, MigratedIcons
<1> QED
  BY <1>1, <1>2, <1>3, <1>6, <1>7, IndexReads

LEMMA FirstsFacts ==
  ASSUME NEW rows, NEW first \in Firsts(rows)
  PROVE  /\ DOMAIN first = {Metric(r) : r \in rows}
         /\ \A x \in DOMAIN first : first[x] \in rows /\ Metric(first[x]) = x
<1>1. /\ first \in [{Metric(r) : r \in rows} -> rows]
      /\ \A x \in DOMAIN first : Metric(first[x]) = x
  BY DEF Firsts
<1> QED
  BY <1>1

\* Every row of a metric gets what the first that was tagged had, and nothing fails.
LEMMA MigrateCatalogItemTagsMarks ==
  ASSUME TInv, MarkInv, OneAtATime, NEW j \in Savers, MigrateCatalogItemTags(j)
  PROVE  MarkInv' /\ Survive
<1> DEFINE tagged == {m[1] : m \in run[j].prev.tags}
           news(first) == {n \in index[j].rows \X run[j].prev.tags :
                             Metric(n[1]) \in DOMAIN first /\ n[2][1] = first[Metric(n[1])]}
           marks(first) == {<<n[1], n[2][2]>> : n \in news(first)}
<1>1. /\ index[j].phase = "migrateTags"
      /\ UNCHANGED <<tagUuid, yamlDefined, explores, run>>
  BY DEF MigrateCatalogItemTags
<1>2. PICK first \in Firsts(tagged) :
        IF /\ \A n \in news(first) : n[1] \in catalog.rows /\ tagUuid[n[2][2]] = n[2][3]
           /\ marks(first) \cap (catalog.tags \cup catalog.yaml) = {}
        THEN /\ catalog' = [catalog EXCEPT !.tags = @ \cup marks(first)]
             /\ Proceed(j, "readForIcons")
        ELSE UNCHANGED catalog /\ Proceed(j, "failed")
  BY DEF MigrateCatalogItemTags
<1>3. Indexing(j) /\ "readForIcons" \in IndexPhases
  BY <1>1 DEF Indexing, IndexPhases
<1>4. /\ run[j].phase \notin SavePhases
      /\ index[j].rows = catalog.rows /\ catalog.rows = Explored \X {j}
      /\ catalog.tags = {} /\ catalog.icons = {} /\ catalog.edges = {}
      /\ \A m \in run[j].prev.tags : m[2] \notin YamlTags /\ tagUuid[m[2]] = m[3]
  BY <1>1, <1>3, AtWork DEF IndexRight, AfterInsert
<1>5. run[j].prev.tags \subseteq Marked
  BY SaverFacts DEF Runs, Payloads
<1>6. /\ DOMAIN first = {Metric(r) : r \in tagged}
      /\ \A x \in DOMAIN first : first[x] \in tagged /\ Metric(first[x]) = x
  BY <1>2, FirstsFacts
<1>7. /\ \A n \in news(first) : n[1] \in catalog.rows /\ tagUuid[n[2][2]] = n[2][3]
      /\ \A m \in marks(first) : /\ m \in catalog.rows \X Tags
                                 /\ m[2] \notin YamlTags
  BY <1>4, <1>5 DEF Marked
<1>8. marks(first) \cap (catalog.tags \cup catalog.yaml) = {}
  BY <1>4, <1>7 DEF MarkInv, TablesRight
<1>9. /\ catalog' = [catalog EXCEPT !.tags = @ \cup marks(first)]
      /\ Proceed(j, "readForIcons")
  BY <1>2, <1>7, <1>8
<1>10. ASSUME NEW m \in marks(first)
       PROVE  \E n \in Read(j) : Metric(n[1]) = Metric(m[1]) /\ n[2] = m[2]
  <2>1. PICK n \in news(first) : m = <<n[1], n[2][2]>>
    OBVIOUS
  <2>2. n[2] \in run[j].prev.tags /\ n[2][1] = first[Metric(n[1])] /\ Metric(n[1]) \in DOMAIN first
    OBVIOUS
  <2>3. <<n[2][1], n[2][2]>> \in Read(j)
    BY <2>2 DEF Read
  <2>4. Metric(n[2][1]) = Metric(m[1])
    BY <1>6, <2>1, <2>2
  <2> QED
    BY <2>1, <2>3, <2>4
<1>11. ASSUME NEW m \in Read(j), Metric(m[1]) \in Metrics(Explored)
       PROVE  \E n \in Read(j) :
                /\ Metric(n[1]) = Metric(m[1])
                /\ \A t \in Tags : <<n[1], t>> \in Read(j) =>
                     \E k \in marks(first) : Metric(k[1]) = Metric(m[1]) /\ k[2] = t
  <2>1. PICK d \in run[j].prev.tags : m = <<d[1], d[2]>>
    BY DEF Read
  <2>2. d[1] \in tagged /\ Metric(m[1]) \in DOMAIN first
    BY <1>6, <2>1
  <2>3. /\ first[Metric(m[1])] \in tagged
        /\ Metric(first[Metric(m[1])]) = Metric(m[1])
    BY <1>6, <2>2
  <2>4. PICK g \in run[j].prev.tags : g[1] = first[Metric(m[1])]
    BY <2>3
  <2>5. <<g[1], g[2]>> \in Read(j) /\ Metric(g[1]) = Metric(m[1])
    BY <2>3, <2>4 DEF Read
  <2>6. PICK i \in Explored : MetricOf[i] = Metric(m[1])
    BY <1>11 DEF Metrics
  <2>7. <<i, j>> \in index[j].rows /\ Metric(<<i, j>>) = Metric(m[1])
    BY <1>4, <2>6 DEF Metric
  <2>8. ASSUME NEW t \in Tags, <<g[1], t>> \in Read(j)
        PROVE  \E k \in marks(first) : Metric(k[1]) = Metric(m[1]) /\ k[2] = t
    <3>1. PICK h \in run[j].prev.tags : h[1] = g[1] /\ h[2] = t
      BY <2>8 DEF Read
    <3>2. <<<<i, j>>, h>> \in news(first)
      BY <2>2, <2>4, <2>7, <3>1
    <3>3. <<<<i, j>>, t>> \in marks(first)
      BY <3>1, <3>2
    <3> QED
      BY <2>7, <3>3
  <2> QED
    BY <2>5, <2>8
<1> HIDE DEF tagged, news, marks
<1>12. /\ catalog'.rows = catalog.rows /\ catalog'.yaml = catalog.yaml
       /\ catalog'.icons = catalog.icons /\ catalog'.edges = catalog.edges
       /\ catalog'.tags = marks(first)
  BY <1>4, <1>9, TableFacts DEF CatalogTables
<1>13. /\ index'[j].phase = "readForIcons"
       /\ \A k \in Savers \ {j} : index'[k] = index[k]
  BY <1>3, <1>9, ProceedType, TableFacts DEF Proceed
<1>14. Explored' = Explored
  BY <1>1 DEF Explored
<1>15. TablesRight'
  BY <1>1, <1>7, <1>12, <1>14 DEF MarkInv, TablesRight
<1>16. IndexRight(j)'
  BY <1>1, <1>4, <1>12, <1>13, <1>14
  DEF IndexRight, BeforeInsert, AfterInsert, At, SavePhases
<1>17. /\ MarkInv'
       /\ \A k \in Savers \ {j} : ~Busy(k) /\ ~Busy(k)'
       /\ \A M : /\ Carries(j, M) <=> index[j].phase \notin M
                 /\ Carries(j, M)' <=> index'[j].phase \notin M \cup {"ended", "failed"}
  BY <1>1, <1>3, <1>13, <1>15, <1>16, IndexOwn
<1>18. /\ Tagged = Read(j) /\ Tagged' = marks(first)
       /\ Icons' = Icons /\ Edges' = Edges
  <2>1. /\ Carries(j, MigratedTags) /\ Carries(j, MigratedIcons) /\ Carries(j, {})
        /\ ~Carries(j, MigratedTags)' /\ Carries(j, MigratedIcons)' /\ Carries(j, {})'
    BY <1>1, <1>13, <1>17 DEF MigratedTags, MigratedIcons
  <2> QED
    BY <1>1, <1>4, <1>12, <1>17, <2>1, OwnMarks
<1> HIDE DEF Explored, Tagged, Icons, Edges, Metric
<1>19. Metrics(Explored)' = Metrics(Explored)
  BY <1>14 DEF Metrics
<1>20. UserTags' = {<<Metric(m[1]), m[2]>> : m \in marks(first)} \cap (Metrics(Explored) \X Tags)
  BY <1>18, <1>19 DEF UserTags, Metric
<1>21. ASSUME NEW x \in UserTags' PROVE x \in UserTags
  <2>1. PICK m \in marks(first) : x = <<Metric(m[1]), m[2]>>
    BY <1>20
  <2>2. PICK n \in Read(j) : Metric(n[1]) = Metric(m[1]) /\ n[2] = m[2]
    BY <1>10
  <2>3. x \in {<<Metric(k[1]), k[2]>> : k \in Read(j)}
    BY <2>1, <2>2
  <2> QED
    BY <1>18, <1>20, <2>3 DEF UserTags
<1>22. ASSUME NEW m \in Tagged, Metric(m[1]) \in Metrics(Explored)'
       PROVE  \E n \in Tagged :
                /\ Metric(n[1]) = Metric(m[1])
                /\ \A t \in Tags : <<n[1], t>> \in Tagged /\ tagUuid'[t] # None =>
                     <<Metric(m[1]), t>> \in UserTags'
  <2>1. PICK n \in Read(j) :
          /\ Metric(n[1]) = Metric(m[1])
          /\ \A t \in Tags : <<n[1], t>> \in Read(j) =>
               \E k \in marks(first) : Metric(k[1]) = Metric(m[1]) /\ k[2] = t
    BY <1>11, <1>18, <1>19, <1>22
  <2>2. ASSUME NEW t \in Tags, <<n[1], t>> \in Read(j) PROVE <<Metric(m[1]), t>> \in UserTags'
    <3>1. PICK k \in marks(first) : Metric(k[1]) = Metric(m[1]) /\ k[2] = t
      BY <2>1, <2>2
    <3>2. <<Metric(m[1]), t>> \in {<<Metric(i[1]), i[2]>> : i \in marks(first)}
      BY <3>1
    <3> QED
      BY <1>19, <1>20, <1>22, <3>2
  <2> QED
    BY <1>18, <2>1, <2>2
<1>23. TagsSurvive
  BY <1>21, <1>22 DEF TagsSurvive
<1> QED
  BY <1>17, <1>18, <1>19, <1>23, SameIcons, SameEdges DEF Survive

\* The rows of a metric get the icon that any of its rows had.
LEMMA MigrateCatalogItemIconsMarks ==
  ASSUME TInv, MarkInv, OneAtATime, NEW j \in Savers, MigrateCatalogItemIcons(j)
  PROVE  MarkInv' /\ Survive
<1> DEFINE icons == {r \in index[j].rows \cap catalog.rows :
                       \E q \in run[j].prev.icons : Metric(q) = Metric(r)}
<1>1. /\ index[j].phase = "migrateIcons"
      /\ catalog' = [catalog EXCEPT !.icons = @ \cup icons]
      /\ Proceed(j, "readForEdges")
      /\ UNCHANGED <<tagUuid, yamlDefined, explores, run>>
  BY DEF MigrateCatalogItemIcons
<1>2. Indexing(j) /\ "readForEdges" \in IndexPhases
  BY <1>1 DEF Indexing, IndexPhases
<1>3. /\ run[j].phase \notin SavePhases
      /\ index[j].rows = catalog.rows /\ catalog.rows = Explored \X {j}
      /\ catalog.icons = {} /\ catalog.edges = {}
  BY <1>1, <1>2, AtWork DEF IndexRight, AfterInsert
<1>4. {Metric(r) : r \in icons} = {Metric(q) : q \in run[j].prev.icons} \cap Metrics(Explored)
  <2>1. ASSUME NEW r \in icons
        PROVE  Metric(r) \in {Metric(q) : q \in run[j].prev.icons} \cap Metrics(Explored)
    <3>1. r[1] \in Explored /\ \E q \in run[j].prev.icons : Metric(q) = Metric(r)
      BY <1>3
    <3> QED
      BY <3>1 DEF Metrics, Metric
  <2>2. ASSUME NEW q \in run[j].prev.icons, Metric(q) \in Metrics(Explored)
        PROVE  \E r \in icons : Metric(r) = Metric(q)
    <3>1. PICK i \in Explored : MetricOf[i] = Metric(q)
      BY <2>2 DEF Metrics
    <3>2. <<i, j>> \in catalog.rows /\ Metric(<<i, j>>) = Metric(q)
      BY <1>3, <3>1 DEF Metric
    <3>3. <<i, j>> \in icons
      BY <1>3, <3>2
    <3> QED
      BY <3>2, <3>3
  <2> QED
    BY <2>1, <2>2
<1> HIDE DEF icons
<1>5. /\ catalog'.rows = catalog.rows /\ catalog'.yaml = catalog.yaml
      /\ catalog'.tags = catalog.tags /\ catalog'.edges = catalog.edges
      /\ catalog'.icons = icons
  BY <1>1, <1>3, TableFacts DEF CatalogTables
<1>6. /\ index'[j].phase = "readForEdges"
      /\ \A k \in Savers \ {j} : index'[k] = index[k]
  BY <1>1, <1>2, ProceedType, TableFacts DEF Proceed
<1>7. Explored' = Explored
  BY <1>1 DEF Explored
<1>8. TablesRight'
  BY <1>1, <1>5, <1>7 DEF MarkInv, TablesRight
<1>9. IndexRight(j)'
  BY <1>1, <1>3, <1>5, <1>6, <1>7 DEF IndexRight, BeforeInsert, AfterInsert, At, SavePhases
<1>10. /\ MarkInv'
       /\ \A k \in Savers \ {j} : ~Busy(k) /\ ~Busy(k)'
       /\ \A M : /\ Carries(j, M) <=> index[j].phase \notin M
                 /\ Carries(j, M)' <=> index'[j].phase \notin M \cup {"ended", "failed"}
  BY <1>1, <1>2, <1>6, <1>8, <1>9, IndexOwn
<1>11. /\ ~Carries(j, MigratedTags) /\ Carries(j, MigratedIcons) /\ Carries(j, {})
       /\ ~Carries(j, MigratedTags)' /\ ~Carries(j, MigratedIcons)' /\ Carries(j, {})'
  BY <1>1, <1>6, <1>10 DEF MigratedTags, MigratedIcons
<1>12. /\ Tagged' = Tagged /\ Edges' = Edges
       /\ Icons = run[j].prev.icons /\ Icons' = icons
  <2>1. /\ Tagged = catalog.tags /\ Tagged' = catalog'.tags
        /\ Icons = catalog.icons \cup run[j].prev.icons /\ Icons' = catalog'.icons
        /\ Edges = catalog.edges \cup run[j].prev.edges
        /\ Edges' = catalog'.edges \cup run'[j].prev.edges
    BY <1>10, <1>11, OwnMarks
  <2> QED
    BY <1>1, <1>3, <1>5, <2>1
<1> HIDE DEF Explored, Tagged, Icons, Edges
<1>13. Metrics(Explored)' = Metrics(Explored)
  BY <1>7 DEF Metrics
<1>14. UserIcons' = {Metric(r) : r \in icons} \cap Metrics(Explored)
  BY <1>12, <1>13 DEF UserIcons, Metric
<1>15. UserIcons = {Metric(q) : q \in run[j].prev.icons} \cap Metrics(Explored)
  BY <1>12 DEF UserIcons
<1>16. IconsSurvive
  BY <1>4, <1>13, <1>14, <1>15 DEF IconsSurvive
<1> QED
  BY <1>10, <1>12, <1>13, <1>16, SameTags, SameEdges DEF Survive

\* Each edge comes to join the first rows of its metrics; only two that join the same
\* metrics get into each other's way.
LEMMA MigrateMetricsTreeEdgesMarks ==
  ASSUME TInv, MarkInv, OneAtATime, NEW j \in Savers, MigrateMetricsTreeEdges(j)
  PROVE  MarkInv' /\ Survive
<1> DEFINE prev(first) ==
             {e \in run[j].prev.edges : {Metric(e[1]), Metric(e[2])} \subseteq DOMAIN first}
           new(first, e) == <<first[Metric(e[1])], first[Metric(e[2])]>>
           edges(first) == {new(first, e) : e \in prev(first)}
<1>1. /\ index[j].phase = "migrateEdges"
      /\ UNCHANGED <<tagUuid, yamlDefined, explores, run>>
  BY DEF MigrateMetricsTreeEdges
<1>2. PICK first \in Firsts(index[j].rows) :
        IF /\ \A e, f \in prev(first) : new(first, e) = new(first, f) => e = f
           /\ edges(first) \subseteq catalog.rows \X catalog.rows
           /\ edges(first) \cap catalog.edges = {}
        THEN /\ catalog' = [catalog EXCEPT !.edges = @ \cup edges(first)]
             /\ Proceed(j, "ended")
        ELSE UNCHANGED catalog /\ Proceed(j, "failed")
  BY DEF MigrateMetricsTreeEdges
<1>3. Indexing(j) /\ {"ended", "failed"} \subseteq IndexPhases
  BY <1>1 DEF Indexing, IndexPhases
<1>4. /\ run[j].phase \notin SavePhases
      /\ index[j].rows = catalog.rows /\ catalog.rows = Explored \X {j}
      /\ catalog.edges = {}
  BY <1>1, <1>3, AtWork DEF IndexRight, AfterInsert
<1>5. {Metric(r) : r \in Explored \X {j}} = Metrics(Explored)
  <2>1. ASSUME NEW r \in Explored \X {j} PROVE Metric(r) \in Metrics(Explored)
    BY DEF Metrics, Metric
  <2>2. ASSUME NEW i \in Explored PROVE \E r \in Explored \X {j} : Metric(r) = MetricOf[i]
    <3>1. <<i, j>> \in Explored \X {j} /\ Metric(<<i, j>>) = MetricOf[i]
      BY DEF Metric
    <3> QED
      BY <3>1
  <2>3. \A x : x \in Metrics(Explored) <=> \E i \in Explored : x = MetricOf[i]
    BY DEF Metrics
  <2> QED
    BY <2>1, <2>2, <2>3
<1>6. /\ DOMAIN first = Metrics(Explored)
      /\ \A x \in DOMAIN first : first[x] \in catalog.rows /\ Metric(first[x]) = x
  <2>1. /\ DOMAIN first = {Metric(r) : r \in index[j].rows}
        /\ \A x \in DOMAIN first : first[x] \in index[j].rows /\ Metric(first[x]) = x
    BY <1>2, FirstsFacts
  <2> QED
    BY <1>4, <1>5, <2>1
<1>7. \A e \in prev(first) : /\ e \in run[j].prev.edges
                             /\ Between(e) \in Metrics(Explored) \X Metrics(Explored)
                             /\ new(first, e) \in catalog.rows \X catalog.rows
                             /\ Between(new(first, e)) = Between(e)
  BY <1>6 DEF Between
<1>8. edges(first) \subseteq catalog.rows \X catalog.rows /\ edges(first) \cap catalog.edges = {}
  BY <1>4, <1>7
<1>9. \/ /\ catalog' = [catalog EXCEPT !.edges = @ \cup edges(first)]
         /\ Proceed(j, "ended")
      \/ /\ UNCHANGED catalog /\ Proceed(j, "failed")
         /\ \E e, f \in prev(first) : new(first, e) = new(first, f) /\ e # f
  BY <1>2, <1>8
<1>10. {Between(e) : e \in edges(first)} =
         {Between(e) : e \in run[j].prev.edges} \cap (Metrics(Explored) \X Metrics(Explored))
  <2>1. ASSUME NEW e \in edges(first)
        PROVE  Between(e) \in {Between(d) : d \in run[j].prev.edges}
                                \cap (Metrics(Explored) \X Metrics(Explored))
    <3>1. PICK d \in prev(first) : e = new(first, d)
      OBVIOUS
    <3> QED
      BY <1>7, <3>1
  <2>2. ASSUME NEW d \in run[j].prev.edges,
               Between(d) \in Metrics(Explored) \X Metrics(Explored)
        PROVE  \E e \in edges(first) : Between(e) = Between(d)
    <3>1. d \in prev(first)
      BY <1>6, <2>2 DEF Between
    <3>2. new(first, d) \in edges(first)
      BY <3>1
    <3> QED
      BY <1>7, <3>1, <3>2
  <2> QED
    BY <2>1, <2>2
<1>11. (\E e, f \in prev(first) : new(first, e) = new(first, f) /\ e # f) =>
         \E e, f \in run[j].prev.edges : e # f /\ Between(e) = Between(f)
  <2> SUFFICES ASSUME NEW e \in prev(first), NEW f \in prev(first),
                      new(first, e) = new(first, f), e # f
               PROVE  Between(e) = Between(f)
    BY <1>7
  <2> QED
    BY <1>7
<1> HIDE DEF prev, new, edges
<1>12. /\ catalog'.rows = catalog.rows /\ catalog'.yaml = catalog.yaml
       /\ catalog'.icons = catalog.icons /\ catalog'.tags = catalog.tags
       /\ index'[j].phase \in {"ended", "failed"}
       /\ \A k \in Savers \ {j} : index'[k] = index[k]
       /\ \/ catalog'.edges = edges(first)
          \/ /\ catalog'.edges = {}
             /\ \E e, f \in run[j].prev.edges : e # f /\ Between(e) = Between(f)
  <2>1. CASE catalog' = [catalog EXCEPT !.edges = @ \cup edges(first)] /\ Proceed(j, "ended")
    BY <1>3, <1>4, <2>1, ProceedType, TableFacts DEF Proceed, CatalogTables
  <2>2. CASE /\ UNCHANGED catalog /\ Proceed(j, "failed")
             /\ \E e, f \in run[j].prev.edges : e # f /\ Between(e) = Between(f)
    BY <1>3, <1>4, <2>2, ProceedType, TableFacts DEF Proceed
  <2> QED
    BY <1>9, <1>11, <2>1, <2>2
<1>13. Explored' = Explored
  BY <1>1 DEF Explored
<1>14. TablesRight'
  BY <1>1, <1>12, <1>13 DEF MarkInv, TablesRight
<1>15. IndexRight(j)'
  BY <1>1, <1>4, <1>12 DEF IndexRight, BeforeInsert, AfterInsert, At, SavePhases
<1>16. /\ MarkInv'
       /\ \A k \in Savers \ {j} : ~Busy(k) /\ ~Busy(k)'
       /\ \A M : /\ Carries(j, M) <=> index[j].phase \notin M
                 /\ Carries(j, M)' <=> index'[j].phase \notin M \cup {"ended", "failed"}
  BY <1>1, <1>3, <1>12, <1>14, <1>15, IndexOwn
<1>17. /\ ~Carries(j, MigratedTags) /\ ~Carries(j, MigratedIcons) /\ Carries(j, {})
       /\ ~Carries(j, MigratedTags)' /\ ~Carries(j, MigratedIcons)' /\ ~Carries(j, {})'
  BY <1>1, <1>12, <1>16 DEF MigratedTags, MigratedIcons
<1>18. /\ Tagged' = Tagged /\ Icons' = Icons
       /\ Edges = run[j].prev.edges /\ Edges' = catalog'.edges
  BY <1>4, <1>12, <1>16, <1>17, OwnMarks
<1> HIDE DEF Explored, Tagged, Icons, Edges
<1>19. Metrics(Explored)' = Metrics(Explored)
  BY <1>13 DEF Metrics
<1>20. UserEdges' = {Between(e) : e \in catalog'.edges} \cap (Metrics(Explored) \X Metrics(Explored))
  BY <1>18, <1>19 DEF UserEdges, Between, Metric
<1>21. UserEdges =
         {Between(e) : e \in run[j].prev.edges} \cap (Metrics(Explored) \X Metrics(Explored))
  BY <1>18 DEF UserEdges
<1>22. EdgesSurvive
  <2>1. CASE catalog'.edges = edges(first)
    BY <1>10, <1>19, <1>20, <1>21, <2>1 DEF EdgesSurvive
  <2>2. CASE /\ catalog'.edges = {}
             /\ \E e, f \in run[j].prev.edges : e # f /\ Between(e) = Between(f)
    <3>1. UserEdges' = {}
      BY <1>20, <2>2
    <3> QED
      BY <1>18, <2>2, <3>1 DEF EdgesSurvive
  <2> QED
    BY <1>12, <2>1, <2>2
<1> QED
  BY <1>16, <1>18, <1>19, <1>22, SameTags, SameIcons DEF Survive

LEMMA IndexStepMarks ==
  ASSUME TInv, MarkInv, OneAtATime, NEW j \in Savers, IndexStep(j)
  PROVE  MarkInv' /\ Survive
BY ReadExploresMarks, ReadYamlTagsMarks, DeleteRowsMarks, InsertRowsMarks, ReadRowsMarks,
   MigrateCatalogItemTagsMarks, MigrateCatalogItemIconsMarks, MigrateMetricsTreeEdgesMarks
DEF IndexStep

-----------------------------------------------------------------------------
(* Users, and what nobody does.                                            *)

\* Deleting a virtual view takes its rows with it.
LEMMA DeleteViewTables ==
  ASSUME TInv, NEW v \in Views, DeleteVirtualView(v), \A r \in catalog.rows : r[1] \in Explored
  PROVE  /\ catalog'.rows \subseteq catalog.rows
         /\ catalog'.yaml \subseteq catalog.yaml
         /\ \A r \in catalog'.rows : r[1] \in Explored'
<1>1. /\ explores' = [explores EXCEPT !.uuid[v] = None]
      /\ catalog' = WithoutRows(RowsOf(v))
  BY DEF DeleteVirtualView
<1>2. /\ explores'.config = explores.config
      /\ \A i \in Items \ {v} : explores'.uuid[i] = explores.uuid[i]
  BY <1>1, TableFacts DEF Explores
<1>3. /\ catalog'.rows = catalog.rows \ RowsOf(v)
      /\ catalog'.yaml \subseteq catalog.yaml
  BY <1>1, WithoutRowsFacts, TableFacts
<1>4. Explored \ {v} \subseteq Explored'
  BY <1>2 DEF Explored
<1>5. \A r \in catalog'.rows : r \in catalog.rows /\ r[1] # v
  BY <1>3 DEF RowsOf
<1> QED
  BY <1>3, <1>4, <1>5

LEMMA EditTables ==
  ASSUME TInv, EditStep, \A r \in catalog.rows : r[1] \in Explored
  PROVE  /\ Edit /\ UNCHANGED yamlDefined
         /\ catalog'.yaml \subseteq catalog.yaml
         /\ \A r \in catalog'.rows : r[1] \in Explored'
<1>1. catalog \in CatalogTables /\ References
  BY TableFacts
<1>2. UNCHANGED explores => Explored' = Explored
  BY DEF Explored
<1>3. ASSUME NEW r \in catalog.rows, NEW t \in Tags, TagCatalogItem(r, t) \/ UntagCatalogItem(r, t)
      PROVE  /\ Edit /\ UNCHANGED <<yamlDefined, explores>>
             /\ catalog'.rows = catalog.rows
             /\ catalog'.yaml \subseteq catalog.yaml
  BY <1>1, <1>3 DEF TagCatalogItem, UntagCatalogItem, EditCatalog, CatalogTables
<1>4. ASSUME NEW r \in catalog.rows, UpdateCatalogItemIcon(r)
      PROVE  /\ Edit /\ UNCHANGED <<yamlDefined, explores>>
             /\ catalog'.rows = catalog.rows
             /\ catalog'.yaml = catalog.yaml
  BY <1>1, <1>4 DEF UpdateCatalogItemIcon, EditCatalog, CatalogTables
<1>5. ASSUME NEW r \in catalog.rows, NEW q \in catalog.rows,
             CreateMetricsTreeEdge(r, q) \/ DeleteMetricsTreeEdge(r, q)
      PROVE  /\ Edit /\ UNCHANGED <<yamlDefined, explores>>
             /\ catalog'.rows = catalog.rows
             /\ catalog'.yaml = catalog.yaml
  BY <1>1, <1>5 DEF CreateMetricsTreeEdge, DeleteMetricsTreeEdge, EditCatalog, CatalogTables
<1>6. ASSUME NEW v \in Views, CreateVirtualView(v)
      PROVE  Edit /\ UNCHANGED <<yamlDefined, catalog>> /\ Explored \subseteq Explored'
  <2>1. /\ Edit /\ UNCHANGED <<yamlDefined, catalog>>
        /\ explores' = [explores EXCEPT !.uuid[v] = edits + 1]
    BY <1>6 DEF CreateVirtualView
  <2>2. edits + 1 # None
    BY <2>1, TableFacts DEF Edit, Uuids
  <2>3. /\ explores'.config = explores.config
        /\ \A i \in Items : explores'.uuid[i] = IF i = v THEN edits + 1 ELSE explores.uuid[i]
    BY <2>1, TableFacts DEF Explores
  <2> QED
    BY <2>1, <2>2, <2>3 DEF Explored
<1>7. ASSUME NEW v \in Views, DeleteVirtualView(v)
      PROVE  Edit /\ UNCHANGED yamlDefined
  BY <1>7 DEF DeleteVirtualView
<1> HIDE DEF Explored
<1> QED
  BY <1>2, <1>3, <1>4, <1>5, <1>6, <1>7, DeleteViewTables DEF EditStep

\* Users edit while nobody works, and leave rows to explores only.
LEMMA EditMarks ==
  ASSUME TInv, MarkInv, OneAtATime, OwnTags, EditStep
  PROVE  MarkInv' /\ Edited
<1>1. /\ Edit /\ UNCHANGED <<yamlDefined, run, index>>
      /\ \A r \in catalog'.rows : r[1] \in Explored'
      /\ catalog'.yaml \subseteq catalog.yaml
  BY EditTables DEF Edit, MarkInv, TablesRight
<1>2. Edited
  BY <1>1, TableFacts DEF Edit, Edited
<1>3. \A k \in Savers : ~Busy(k)'
  <2>1. \A k \in Savers : ~Busy(k)
    BY <1>2 DEF OneAtATime, Quiet
  <2> QED
    BY <1>1, <2>1, BusyFacts
<1>4. \A m \in catalog'.tags : m[2] \notin YamlTags
  BY <1>2 DEF OwnTags, MarkInv, TablesRight
<1>5. TablesRight'
  BY <1>1, <1>4 DEF MarkInv, TablesRight
<1>6. OneBusy' /\ \A k \in Savers : JobRight(k)'
  BY <1>3, IdleRight DEF OneBusy
<1> QED
  BY <1>2, <1>5, <1>6 DEF MarkInv

LEMMA StutterMarks ==
  ASSUME MarkInv, UNCHANGED vars
  PROVE  MarkInv'
<1>1. UNCHANGED <<tagUuid, yamlDefined, explores, catalog, run, index>>
  BY DEF vars
<1>2. OneBusy'
  <2>1. \A k : Busy(k)' <=> Busy(k)
    BY <1>1, BusyFacts
  <2> QED
    BY <2>1 DEF MarkInv, OneBusy
<1>3. TablesRight'
  BY <1>1 DEF MarkInv, TablesRight, Explored
<1>4. \A k \in Savers : JobRight(k)'
  BY <1>1, RightKept DEF MarkInv
<1> QED
  BY <1>2, <1>3, <1>4 DEF MarkInv

\* Nobody works in the beginning.
LEMMA InitMarks == Init => MInv
<1> SUFFICES ASSUME Init PROVE MarkInv
  BY DEF MInv
<1>1. \A k \in Savers : run[k].phase = "idle" /\ index[k].phase = "none"
  BY DEF Init
<1>2. \A k \in Savers : ~Busy(k) /\ ~Carries(k, {})
  BY <1>1, BusyFacts DEF SavePhases
<1>3. \A k \in Savers : JobRight(k)
  BY <1>1, <1>2
  DEF JobRight, Prepared, Carried, IndexRight, BeforeInsert, AfterInsert, At
<1>4. PICK views \in SUBSET Views, marked \in SUBSET InitConfig.items :
         LET items == InitConfig.items \cup views
             rows == marked \X {Initial}
         IN  /\ explores = [uuid |-> [i \in Items |-> IF i \in items \cup InitConfig.broken
                                                     THEN Initial ELSE None],
                            config |-> InitConfig]
             /\ catalog = [rows  |-> items \X {Initial},
                           tags  |-> rows \X (Tags \ YamlTags),
                           yaml  |-> {m \in (items \X {Initial}) \X Tags :
                                        <<MetricOf[m[1][1]], m[2]>> \in InitConfig.categories},
                           icons |-> rows,
                           edges |-> {e \in rows \X rows :
                                        MetricOf[e[1][1]] # MetricOf[e[2][1]]}]
  BY DEF Init
<1> DEFINE items == InitConfig.items \cup views
           rows == marked \X {Initial}
<1>5. /\ catalog.rows = items \X {Initial}
      /\ catalog.tags = rows \X (Tags \ YamlTags)
      /\ catalog.yaml = {m \in (items \X {Initial}) \X Tags :
                           <<MetricOf[m[1][1]], m[2]>> \in InitConfig.categories}
      /\ explores.config = InitConfig
      /\ \A i \in Items : i \in items => explores.uuid[i] = Initial
  BY <1>4
<1>6. /\ InitConfig.items \subseteq Items \ Views /\ InitConfig.broken \subseteq Items \ Views
      /\ InitConfig.items \cap InitConfig.broken = {}
      /\ \A d, t : <<d, t>> \in InitConfig.categories => t \in InitConfig.defined
  BY MetricsAssumption DEF ConfigType
<1>7. InitConfig.defined \subseteq YamlTags
  BY DEF YamlTags
<1>8. Initial # None
  BY DEF Uuids
<1>9. items \subseteq Explored
  BY <1>5, <1>6, <1>8 DEF Explored
<1> HIDE DEF items, rows
<1>10. \A r \in catalog.rows : r[1] \in Explored
  BY <1>5, <1>9
<1>11. \A m \in catalog.tags : m[2] \notin YamlTags
  BY <1>5
<1>12. \A m \in catalog.yaml : m[2] \in YamlTags
  BY <1>5, <1>6, <1>7
<1>13. yamlDefined \subseteq YamlTags
  BY <1>7 DEF Init
<1>14. TablesRight
  BY <1>10, <1>11, <1>12, <1>13 DEF TablesRight
<1> QED
  BY <1>2, <1>3, <1>14 DEF MarkInv, OneBusy

-----------------------------------------------------------------------------
(* Every step. *)

LEMMA RunStepMarks ==
  ASSUME TInv, MarkInv, OneAtATime, NEW j \in Savers, RunStep(j)
  PROVE  MarkInv' /\ Survive
<1>1. CASE SaveStep(j)
  BY <1>1, ReplaceYamlTagsMarks, ParametersAside, AsideSurvives, ReadsMarks, SaveMarks,
     QueueIndexMarks DEF SaveStep
<1>2. CASE ~SaveStep(j)
  <2>1. j \in Jobs
    BY <1>2, SaverFacts DEF RunStep
  <2>2. Aside(j)
    BY <1>2, <2>1, JobsAside DEF RunStep
  <2> QED
    BY <2>2, AsideSurvives
<1> QED
  BY <1>1, <1>2

LEMMA CarefulStep ==
  ASSUME TInv, MInv, [Next /\ OneAtATime /\ OwnTags]_vars
  PROVE  MInv' /\ (UNCHANGED vars \/ Edited \/ faults' > 0 \/ Survive)
<1>1. faults \in Nat /\ (faults' = faults \/ faults' = faults + 1)
  BY FaultsGrow
<1>2. CASE UNCHANGED vars
  <2>1. faults' = faults
    BY <1>2 DEF vars
  <2> QED
    BY <1>2, <2>1, StutterMarks DEF MInv
<1>3. CASE faults' # 0
  BY <1>1, <1>3 DEF MInv
<1>4. CASE Next /\ OneAtATime /\ OwnTags /\ faults' = 0
  <2>1. faults = 0 /\ MarkInv
    BY <1>1, <1>4 DEF MInv
  <2>2. ASSUME NEW j \in Savers, Aside(j) PROVE MarkInv' /\ Survive
    BY <1>4, <2>1, <2>2, AsideSurvives
  <2>3. ASSUME NEW r \in Refreshes, ScheduleCompileProject(r) PROVE MarkInv' /\ Survive
    BY <2>2, <2>3, JobsAside, SaverFacts
  <2>4. ASSUME NEW u \in Updates, NEW toDbt \in BOOLEAN, UpdateAndScheduleAsyncWork(u, toDbt)
        PROVE  MarkInv' /\ Survive
    BY <2>2, <2>4, JobsAside, SaverFacts
  <2>5. ASSUME NEW d \in Deploys, Deploy(d) PROVE MarkInv' /\ Survive
    BY <2>2, <2>5, DeployAside, SaverFacts
  <2>6. ASSUME NEW j \in Savers, RunStep(j) PROVE MarkInv' /\ Survive
    BY <1>4, <2>1, <2>6, RunStepMarks
  <2>7. ASSUME NEW j \in Savers, IndexStep(j) PROVE MarkInv' /\ Survive
    BY <1>4, <2>1, <2>7, IndexStepMarks
  <2>8. ASSUME NEW j \in Savers, Throws(j) \/ Crash(j) PROVE FALSE
    BY <1>1, <1>4, <2>8 DEF Throws, Crash
  <2>9. ASSUME EditStep PROVE MarkInv' /\ Edited
    BY <1>4, <2>1, <2>9, EditMarks
  <2> QED
    BY <1>4, <2>3, <2>4, <2>5, <2>6, <2>7, <2>8, <2>9 DEF Next, MInv
<1> QED
  BY <1>2, <1>3, <1>4

LEMMA CarefulTyping == CarefulSpec => [](TInv /\ MInv)
<1>1. Init => TInv /\ MInv
  BY InitType, InitMarks
<1>2. TInv /\ MInv /\ [Next /\ OneAtATime /\ OwnTags]_vars => (TInv /\ MInv)'
  BY NextType, CarefulStep
<1> QED
  BY <1>1, <1>2, PTL DEF CarefulSpec

\* Where savers and users wait for each other and users leave the tags of
\* lightdash.config.yml alone, a refresh, update or deployment gives no metric a tag
\* that none of its explores had, leaves it those of one of them, and keeps the icons
\* of the metrics it keeps, unless something failed.
THEOREM TagsAndIconsAreKept == CarefulSpec => TagsAndIconsSurvive
<1>1. TInv /\ MInv /\ [Next /\ OneAtATime /\ OwnTags]_vars =>
        [Edited \/ faults' > 0 \/
           /\ UserTags' \subseteq UserTags
           /\ \A m \in Tagged : Metric(m[1]) \in Metrics(Explored)' =>
                \E n \in Tagged :
                  /\ Metric(n[1]) = Metric(m[1])
                  /\ \A t \in Tags : <<n[1], t>> \in Tagged /\ tagUuid'[t] # None =>
                       <<Metric(m[1]), t>> \in UserTags'
           /\ UserIcons' = UserIcons \cap Metrics(Explored)']_vars
  BY CarefulStep DEF Survive, TagsSurvive, IconsSurvive
<1> QED
  BY CarefulTyping, <1>1, PTL DEF CarefulSpec, TagsAndIconsSurvive

\* Under the same conditions no edge between metrics is added, lost or turned round,
\* but where two edges join the same metrics all may be lost.
THEOREM MetricsTreeIsKept == CarefulSpec => MetricsTreeSurvives
<1>1. TInv /\ MInv /\ [Next /\ OneAtATime /\ OwnTags]_vars =>
        [Edited \/ faults' > 0 \/
           \/ UserEdges' = UserEdges \cap (Metrics(Explored)' \X Metrics(Explored)')
           \/ UserEdges' = {} /\ \E e, f \in Edges : e # f /\ Between(e) = Between(f)]_vars
  BY CarefulStep DEF Survive, EdgesSurvive
<1> QED
  BY CarefulTyping, <1>1, PTL DEF CarefulSpec, MetricsTreeSurvives
=============================================================================
