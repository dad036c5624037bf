---------------------------- MODULE ResultsPages ----------------------------
(***************************************************************************)
(* Reading the results of queries page by page (useInfiniteQueryResults).  *)
(* The hook keeps the pages it has fetched; the cache of the query client  *)
(* keeps what the server answered, by query and page, and polls a query    *)
(* that is pending.  Rendering is a step of its own: effects see the state *)
(* of the render, and what they set is seen by the next one.               *)
(***************************************************************************)
EXTENDS QueryRows, SequencesExt

CONSTANTS
    PageSize,    \* DEFAULT_RESULTS_PAGE_SIZE
    MaxChanges,  \* bound: changes of the query on the screen, and cancellations
    MaxFaults,   \* bound: requests that fail
    NoQuery

ASSUME PagesAssumption ==
    /\ PageSize \in Nat \ {0}
    /\ MaxChanges \in Nat /\ MaxFaults \in Nat
    /\ NoQuery \notin Queries

VARIABLES
    chart,       \* a chart, which wants all rows; or a table, which is scrolled
    queryUuid,   \* the query on the screen
    fetchArgs,   \* the page that is fetched
    pages,       \* fetchedPages
    fetchAll,
    shown,       \* what the last render was made of
    cached,      \* the query client's cache
    changes,
    faults

hookVars == <<chart, queryUuid, fetchArgs, pages, fetchAll, shown, cached>>
bounds == <<changes, faults>>
vars == <<rowVars, hookVars, bounds>>

Pages == 1 .. MaxRows

\* The queries that a screen with pages is for.
Shown == {q \in Queries : kind[q] = "plain"} \cup {NoQuery}

Keys == [query : Queries \cup {NoQuery}, page : Pages]
Entry == [data : {"none", "pending", "ready"},
          invalid : BOOLEAN,
          fetching : BOOLEAN,
          timer : BOOLEAN,       \* a sleep before the page is invalidated
          failed : BOOLEAN]

NoEntry == [data |-> "none", invalid |-> FALSE, fetching |-> FALSE,
            timer |-> FALSE, failed |-> FALSE]
NoKey == [query |-> NoQuery, page |-> 1]

TypeOK ==
    /\ RowsTypeOK
    /\ chart \in BOOLEAN
    /\ queryUuid \in Queries \cup {NoQuery}
    /\ fetchArgs \in Keys
    /\ pages \in Seq(Keys)
    /\ fetchAll \in BOOLEAN
    /\ shown \in [query : Queries \cup {NoQuery}, args : Keys, pages : Seq(Keys),
                  fetchAll : BOOLEAN, data : {"none", "pending", "ready"}]
    /\ cached \in [Queries -> [Pages -> Entry]]
    /\ changes \in 0 .. MaxChanges /\ faults \in 0 .. MaxFaults

Init ==
    /\ RowsInit
    /\ chart \in BOOLEAN
    /\ queryUuid \in Shown
    /\ fetchArgs = NoKey
    /\ pages = <<>>
    /\ fetchAll = FALSE
    /\ shown = [query |-> NoQuery, args |-> NoKey, pages |-> <<>>,
                fetchAll |-> FALSE, data |-> "none"]
    /\ cached = [q \in Queries |-> [p \in Pages |-> NoEntry]]
    /\ changes = 0 /\ faults = 0

-----------------------------------------------------------------------------
(* A page as the server cuts it. *)

PageCount(q) == (answer[q].total + PageSize - 1) \div PageSize

\* validatePagination: without rows any page is valid.
ValidPage(q, p) == answer[q].total = 0 \/ p <= PageCount(q)

\* Lines startLine (inclusive) to endLine of the file.
LinesOfPage(q, p) ==
    LET file == stream[q].file
        start == (p - 1) * PageSize
        end == start + PageSize
    IN  SubSeq(file, start + 1, IF end < Len(file) THEN end ELSE Len(file))

\* Mutant: there is a page after the last one.
HasNextPageAlways(q, p) == ~(p > PageCount(q) \/ PageCount(q) = 0)

\* Mutant: the last page is compared for equality, an empty result has page after page.
HasNextPageUnlessLast(q, p) == p # PageCount(q)

HasNextPage(q, p) == ~(p >= PageCount(q) \/ PageCount(q) = 0)

-----------------------------------------------------------------------------
(* The query client. *)

Data(key) == IF key.query = NoQuery THEN "none" ELSE cached[key.query][key.page].data

\* A key that comes on the screen is fetched when it has no data or stale ones.
Observed(key) ==
    IF key = shown.args \/ key.query = NoQuery THEN cached
    ELSE [cached EXCEPT ![key.query][key.page].fetching =
              @ \/ Data(key) = "none" \/ cached[key.query][key.page].invalid]

\* The answer of the server: a page, not yet, or an error.
Answered(q, p) ==
    /\ cached[q][p].fetching
    /\ LET Settled(data, timer) ==
               cached' = [cached EXCEPT ![q][p] = [data |-> data, invalid |-> FALSE,
                              fetching |-> FALSE, timer |-> timer, failed |-> FALSE]]
       IN  \/ answer[q].status = "pending" /\ Settled("pending", TRUE)
           \/ answer[q].status = "ready" /\ ValidPage(q, p) /\ Settled("ready", FALSE)
           \/ /\ \/ answer[q].status \in {"error", "cancelled"}
                 \/ answer[q].status = "ready" /\ ~ValidPage(q, p)
              /\ cached' = [cached EXCEPT ![q][p].fetching = FALSE, ![q][p].failed = TRUE]
    /\ UNCHANGED <<rowVars, chart, queryUuid, fetchArgs, pages, fetchAll, shown, bounds>>

\* The request fails; it is not tried again.
RequestFails(q, p) ==
    /\ cached[q][p].fetching
    /\ faults < MaxFaults
    /\ faults' = faults + 1
    /\ cached' = [cached EXCEPT ![q][p].fetching = FALSE, ![q][p].failed = TRUE]
    /\ UNCHANGED <<rowVars, chart, queryUuid, fetchArgs, pages, fetchAll, shown, changes>>

\* Mutant: refetch, which does nothing for a page that is not on the screen.
PollAgainIfShown(q, p) ==
    /\ cached[q][p].timer
    /\ cached' = [cached EXCEPT ![q][p].timer = FALSE,
                                ![q][p].fetching = @ \/ shown.args = [query |-> q, page |-> p]]
    /\ UNCHANGED <<rowVars, chart, queryUuid, fetchArgs, pages, fetchAll, shown, bounds>>

\* After the sleep, the page is invalidated, and fetched again if it is shown.
PollAgain(q, p) ==
    /\ cached[q][p].timer
    /\ cached' = [cached EXCEPT ![q][p].timer = FALSE,
                                ![q][p].invalid = TRUE,
                                ![q][p].fetching = @ \/ shown.args = [query |-> q, page |-> p]]
    /\ UNCHANGED <<rowVars, chart, queryUuid, fetchArgs, pages, fetchAll, shown, bounds>>

\* A page that has not been on the screen for five minutes is dropped.
Forget(q, p) ==
    /\ shown.args # [query |-> q, page |-> p]
    /\ ~cached[q][p].fetching /\ ~cached[q][p].timer
    /\ cached[q][p] # NoEntry
    /\ cached' = [cached EXCEPT ![q][p] = NoEntry]
    /\ UNCHANGED <<rowVars, chart, queryUuid, fetchArgs, pages, fetchAll, shown, bounds>>

-----------------------------------------------------------------------------
(* The hook. *)

ChangeQuery(q) ==
    /\ changes < MaxChanges
    /\ q # queryUuid
    /\ queryUuid' = q
    /\ changes' = changes + 1
    /\ UNCHANGED <<rowVars, chart, fetchArgs, pages, fetchAll, shown, cached, faults>>

\* fetchMoreRows of a render with these pages and this query.
\* Mutant: without comparing the query.
MoreRowsOfAny(args, fetched, query) ==
    LET last == fetched[Len(fetched)]
    IN  IF fetched # <<>> /\ HasNextPage(last.query, last.page)
        THEN [args EXCEPT !.page = last.page + 1]
        ELSE args

MoreRows(args, fetched, query) ==
    LET last == fetched[Len(fetched)]
    IN  IF fetched # <<>> /\ HasNextPage(last.query, last.page) /\ last.query = query
        THEN [args EXCEPT !.page = last.page + 1]
        ELSE args

\* The end of a table is near.
ScrollToEnd ==
    /\ ~chart
    /\ fetchArgs' = MoreRows(fetchArgs, shown.pages, shown.query)
    /\ fetchArgs' # fetchArgs
    /\ UNCHANGED <<rowVars, chart, queryUuid, pages, fetchAll, shown, cached, bounds>>

Current == [query |-> queryUuid, args |-> fetchArgs, pages |-> pages,
            fetchAll |-> fetchAll, data |-> Data(fetchArgs)]

\* Mutant: a page is appended in every render.
RenderAppendingAgain ==
    LET changed == queryUuid # shown.query
        args == IF changed THEN [query |-> queryUuid, page |-> 1] ELSE fetchArgs
        appended == IF Current.data = "ready" THEN Append(pages, fetchArgs) ELSE pages
    IN  /\ Current # shown
        /\ shown' = Current
        /\ cached' = Observed(fetchArgs)
        /\ pages' = IF changed THEN <<>> ELSE appended
        /\ fetchAll' = IF changed THEN FALSE ELSE chart \/ fetchAll
        /\ fetchArgs' = IF fetchAll THEN MoreRows(args, pages, queryUuid) ELSE args
        /\ UNCHANGED <<rowVars, chart, queryUuid, bounds>>

\* A render and its effects in order: the chart asks for all rows; new data are
\* appended; another query resets everything; and, when all rows are wanted, the
\* next page is asked for.
Render ==
    LET new == Current.args # shown.args \/ Current.data # shown.data
        changed == queryUuid # shown.query
        args == IF changed THEN [query |-> queryUuid, page |-> 1] ELSE fetchArgs
        appended == IF new /\ Current.data = "ready" THEN Append(pages, fetchArgs) ELSE pages
    IN  /\ Current # shown
        /\ shown' = Current
        /\ cached' = Observed(fetchArgs)
        /\ pages' = IF changed THEN <<>> ELSE appended
        /\ fetchAll' = IF changed THEN FALSE ELSE chart \/ fetchAll
        /\ fetchArgs' = IF fetchAll THEN MoreRows(args, pages, queryUuid) ELSE args
        /\ UNCHANGED <<rowVars, chart, queryUuid, bounds>>

-----------------------------------------------------------------------------
ServerStep(q) ==
    /\ QueryStep(q)
    /\ UNCHANGED <<hookVars, bounds>>

\* A query is cancelled as it leaves the screen, or while it is there.
Cancel(q) ==
    /\ changes < MaxChanges
    /\ CancelQuery(q)
    /\ changes' = changes + 1
    /\ UNCHANGED <<hookVars, faults>>

Next ==
    \/ \E q \in Queries : ServerStep(q) \/ Cancel(q)
    \/ \E q \in Queries, p \in Pages :
         Answered(q, p) \/ RequestFails(q, p) \/ PollAgain(q, p) \/ Forget(q, p)
    \/ \E q \in Shown : ChangeQuery(q)
    \/ ScrollToEnd
    \/ Render

Spec == Init /\ [][Next]_vars

\* The warehouse answers or fails, requests are answered, sleeps end, and state that
\* was set is rendered; users need not do anything.
FairSpec ==
    /\ Spec
    /\ \A q \in Queries : WF_vars(ServerStep(q))
    /\ \A q \in Queries, p \in Pages : WF_vars(Answered(q, p)) /\ WF_vars(PollAgain(q, p))
    /\ WF_vars(Render)

-----------------------------------------------------------------------------
(* Correctness of what is on the screen. *)

\* The rows are those of the query that the last render was for, from the first
\* line on, none left out and none twice: the n-th page is the n-th piece of the
\* file, through every change of the query and with every page from the cache.
RowsAreAPrefix ==
    \A n \in DOMAIN pages :
        LET q == shown.query
            start == (n - 1) * PageSize
        IN  /\ pages[n].query = q
            /\ \A i \in 1 .. PageSize :
                 LET lines == LinesOfPage(q, pages[n].page)
                 IN  IF start + i <= Len(stream[q].file)
                     THEN i <= Len(lines) /\ lines[i] = stream[q].file[start + i]
                     ELSE i > Len(lines)

FetchedRows == FlattenSeq([n \in DOMAIN pages |-> LinesOfPage(pages[n].query, pages[n].page)])

HasFetchedAllRows == pages # <<>> /\ Len(FetchedRows) >= answer[pages[1].query].total

\* When the hook says that it has all rows, it has.
AllRowsAreThere == HasFetchedAllRows => FetchedRows = stream[shown.query].file

\* The hook asks for no page that the server rejects.
OnlyPagesThatExist ==
    \A q \in Queries, p \in Pages :
        cached[q][p].fetching /\ answer[q].status = "ready" => ValidPage(q, p)

Failed == fetchArgs.query # NoQuery /\ cached[fetchArgs.query][fetchArgs.page].failed

\* The page that is fetched is on its way, or a sleep before it is asked for again.
Waiting ==
    /\ fetchArgs.query # NoQuery
    /\ LET e == cached[fetchArgs.query][fetchArgs.page] IN e.fetching \/ e.timer

\* With everything rendered that was set, and nothing on its way, the rows are there,
\* in a chart all of them, unless the page failed: the hook never waits for a page
\* that nobody has asked for, nor forgets the next one.
ScreenIsNotStuck ==
    queryUuid # NoQuery /\ Current = shown /\ ~Waiting =>
        Failed \/ (pages # <<>> /\ (chart => HasFetchedAllRows))

\* The rows of a query that stays on the screen come, in a chart all of them, unless
\* a request or the query fails: no change of the query in between stops the polling
\* or makes the hook forget that all rows are wanted.
RowsCome ==
    \A q \in Queries :
        <>[](queryUuid = q) =>
            <>[](Failed \/ (pages # <<>> /\ (chart => HasFetchedAllRows)))
=============================================================================
