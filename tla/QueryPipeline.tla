---------------------------- MODULE QueryPipeline ----------------------------
(***************************************************************************)
(* Queries in flight on one SQLiteConnection: the jobs of the thread pool  *)
(* that prepare, bind, step and finalize, the event loop on which the      *)
(* future-based query() calls onRow and completes its promise, the async   *)
(* query() that calls onRow on the pool thread itself, and the shutdown of *)
(* the pool.                                                               *)
(*                                                                         *)
(* The pool and the event loop are NIO's: jobs are started in the order    *)
(* they were submitted, the tasks of a loop run one at a time and in order.*)
(* A row is its number in the result of its query.                         *)
(***************************************************************************)
EXTENDS Naturals, Sequences

CONSTANTS
    Queries,      \* the calls of query()
    ByFuture,     \* those of the variant that returns an EventLoopFuture
    PoolThreads,  \* the threads of the NIOThreadPool
    MaxRows,      \* bound: rows in one result
    NoQuery       \* what an idle thread works on

ASSUME QueriesAssumption ==
    /\ ByFuture \subseteq Queries
    /\ NoQuery \notin Queries
    /\ MaxRows \in Nat

VARIABLES
    pool,       \* "active", then "shutdown"
    waiting,    \* the queries submitted to the pool and not started
    job,        \* the query each pool thread works on
    stage,      \* where each query is on its way through the pool
    stmt,       \* its statement: "none", "prepared" or "finalized"
    stepped,    \* the number of rows it has stepped to
    loop,       \* the tasks submitted to the event loop
    delivered,  \* the rows its onRow was called with
    answer      \* its outcome as its caller sees it, "pending" before

vars == <<pool, waiting, job, stage, stmt, stepped, loop, delivered, answer>>

(* Errors of libsqlite3 (a bind or step that fails also finalizes), of the   *)
(* decoding of a column (which does not), and of a pool that is shut down.   *)
Errors == {"sqliteError", "decodeError", "inactive"}
Answers == {"rows"} \cup Errors
Stages == {"new", "waiting", "prepare", "columns", "bind", "step", "over"}
Task == [of : Queries, row : 0..MaxRows, answers : Answers \cup {"pending"}]

RowTask(q, n) == [of |-> q, row |-> n, answers |-> "pending"]
AnswerTask(q, a) == [of |-> q, row |-> 0, answers |-> a]

TypeOK ==
    /\ pool \in {"active", "shutdown"}
    /\ waiting \in Seq(Queries)
    /\ job \in [PoolThreads -> Queries \cup {NoQuery}]
    /\ stage \in [Queries -> Stages]
    /\ stmt \in [Queries -> {"none", "prepared", "finalized"}]
    /\ stepped \in [Queries -> 0..MaxRows]
    /\ loop \in Seq(Task)
    /\ delivered \in [Queries -> Seq(1..MaxRows)]
    /\ answer \in [Queries -> Answers \cup {"pending"}]

Init ==
    /\ pool = "active"
    /\ waiting = <<>>
    /\ job = [t \in PoolThreads |-> NoQuery]
    /\ stage = [q \in Queries |-> "new"]
    /\ stmt = [q \in Queries |-> "none"]
    /\ stepped = [q \in Queries |-> 0]
    /\ loop = <<>>
    /\ delivered = [q \in Queries |-> <<>>]
    /\ answer = [q \in Queries |-> "pending"]

Enters(q, s) == stage' = [stage EXCEPT ![q] = s]
Statement(q, s) == stmt' = [stmt EXCEPT ![q] = s]

(* Mutant of Resolve: the promise is completed without a task of the loop. *)
ResolveAtOnce(q, a) == answer' = [answer EXCEPT ![q] = a] /\ UNCHANGED loop

(* promise.fail and andAllSucceed, off the loop, do their work in a task of  *)
(* it; an async query returns or throws to its caller.                       *)
Resolve(q, a) ==
    IF q \in ByFuture
    THEN loop' = Append(loop, AnswerTask(q, a)) /\ UNCHANGED answer
    ELSE answer' = [answer EXCEPT ![q] = a] /\ UNCHANGED loop

(* Mutants of OnRow: a row may overtake those before it, as in a task of its *)
(* own; the row before is handed over.                                       *)
OnRowUnordered(q, n) ==
    IF q \in ByFuture
    THEN loop' = <<RowTask(q, n)>> \o loop /\ UNCHANGED delivered
    ELSE delivered' = [delivered EXCEPT ![q] = Append(@, n)] /\ UNCHANGED loop
OnRowBefore(q, n) ==
    delivered' = [delivered EXCEPT ![q] = Append(@, n - 1)] /\ UNCHANGED loop

(* A row goes to onRow in a task of the event loop, or right here. *)
OnRow(q, n) ==
    IF q \in ByFuture
    THEN loop' = Append(loop, RowTask(q, n)) /\ UNCHANGED delivered
    ELSE delivered' = [delivered EXCEPT ![q] = Append(@, n)] /\ UNCHANGED loop

(* The end of a job: its thread is idle again. *)
JobEnds(t, a) ==
    /\ Enters(job[t], "over")
    /\ job' = [job EXCEPT ![t] = NoQuery]
    /\ Resolve(job[t], a)

Working(t, s) == job[t] # NoQuery /\ stage[job[t]] = s

-----------------------------------------------------------------------------
(* The thread pool: jobs are started in order, and not any more after its    *)
(* shutdown, which fails those that wait and those that come later.          *)

Submit(q) ==
    /\ stage[q] = "new"
    /\ IF pool = "active"
       THEN waiting' = Append(waiting, q) /\ Enters(q, "waiting") /\ UNCHANGED <<loop, answer>>
       ELSE Enters(q, "over") /\ Resolve(q, "inactive") /\ UNCHANGED waiting
    /\ UNCHANGED <<pool, job, stmt, stepped, delivered>>

Start(t) ==
    /\ pool = "active" /\ waiting # <<>> /\ job[t] = NoQuery
    /\ waiting' = Tail(waiting)
    /\ job' = [job EXCEPT ![t] = Head(waiting)]
    /\ Enters(Head(waiting), "prepare")
    /\ UNCHANGED <<pool, stmt, stepped, loop, delivered, answer>>

Shutdown ==
    /\ pool = "active"
    /\ pool' = "shutdown"
    /\ UNCHANGED <<waiting, job, stage, stmt, stepped, loop, delivered, answer>>

(* Mutant of CancelWaiting: the job is dropped, its promise with it. *)
CancelSilently ==
    /\ pool = "shutdown" /\ waiting # <<>>
    /\ waiting' = Tail(waiting)
    /\ Enters(Head(waiting), "over")
    /\ UNCHANGED <<pool, job, stmt, stepped, loop, delivered, answer>>

CancelWaiting ==
    /\ pool = "shutdown" /\ waiting # <<>>
    /\ waiting' = Tail(waiting)
    /\ Enters(Head(waiting), "over")
    /\ Resolve(Head(waiting), "inactive")
    /\ UNCHANGED <<pool, job, stmt, stepped, delivered>>

-----------------------------------------------------------------------------
(* The job. *)

Prepare(t) ==
    /\ Working(t, "prepare")
    /\ Enters(job[t], "columns")
    /\ Statement(job[t], "prepared")
    /\ UNCHANGED <<pool, waiting, job, stepped, loop, delivered, answer>>

(* Nothing to finalize yet. *)
PrepareFails(t) ==
    /\ Working(t, "prepare")
    /\ JobEnds(t, "sqliteError")
    /\ UNCHANGED <<pool, waiting, stmt, stepped, delivered>>

Columns(t) ==
    /\ Working(t, "columns")
    /\ Enters(job[t], "bind")
    /\ UNCHANGED <<pool, waiting, job, stmt, stepped, loop, delivered, answer>>

Bind(t) ==
    /\ Working(t, "bind")
    /\ Enters(job[t], "step")
    /\ UNCHANGED <<pool, waiting, job, stmt, stepped, loop, delivered, answer>>

(* Mutant of CheckFails: the error is thrown before the statement is finalized. *)
CheckThrows(t) ==
    /\ Working(t, "bind") \/ Working(t, "step")
    /\ JobEnds(t, "sqliteError")
    /\ UNCHANGED <<pool, waiting, stmt, stepped, delivered>>

(* check(): a bind or step that fails. *)
CheckFails(t) ==
    /\ Working(t, "bind") \/ Working(t, "step")
    /\ Statement(job[t], "finalized")
    /\ JobEnds(t, "sqliteError")
    /\ UNCHANGED <<pool, waiting, stepped, delivered>>

(* SQLITE_ROW. *)
Row(t) ==
    LET q == job[t]
        n == stepped[q] + 1
    IN  /\ Working(t, "step") /\ n <= MaxRows
        /\ stepped' = [stepped EXCEPT ![q] = n]
        /\ OnRow(q, n)
        /\ UNCHANGED <<pool, waiting, job, stage, stmt, answer>>

(* A column name or value that cannot be read: nothing finalizes. *)
DecodeFails(t) ==
    /\ Working(t, "columns") \/ Working(t, "step")
    /\ JobEnds(t, "decodeError")
    /\ UNCHANGED <<pool, waiting, stmt, stepped, delivered>>

(* SQLITE_DONE finalizes; the promise waits for the rows. *)
Done(t) ==
    /\ Working(t, "step")
    /\ Statement(job[t], "finalized")
    /\ JobEnds(t, "rows")
    /\ UNCHANGED <<pool, waiting, stepped, delivered>>

-----------------------------------------------------------------------------
(* The event loop runs its next task. *)

RunRow ==
    /\ loop # <<>> /\ Head(loop).answers = "pending"
    /\ loop' = Tail(loop)
    /\ delivered' = [delivered EXCEPT ![Head(loop).of] = Append(@, Head(loop).row)]
    /\ UNCHANGED <<pool, waiting, job, stage, stmt, stepped, answer>>

RunAnswer ==
    /\ loop # <<>> /\ Head(loop).answers # "pending"
    /\ loop' = Tail(loop)
    /\ answer' = [answer EXCEPT ![Head(loop).of] = Head(loop).answers]
    /\ UNCHANGED <<pool, waiting, job, stage, stmt, stepped, delivered>>

Works(t) ==
    \/ Start(t) \/ Prepare(t) \/ PrepareFails(t) \/ Columns(t) \/ Bind(t)
    \/ CheckFails(t) \/ Row(t) \/ DecodeFails(t) \/ Done(t)
Loop == RunRow \/ RunAnswer

Next ==
    \/ \E q \in Queries : Submit(q)
    \/ \E t \in PoolThreads : Works(t)
    \/ Shutdown \/ CancelWaiting
    \/ Loop

Spec == Init /\ [][Next]_vars

(* Pool threads and the loop are scheduled, and results are finite.  Whether *)
(* the client submits anything or shuts the pool down is its own affair.     *)
Fairness ==
    /\ \A t \in PoolThreads : WF_vars(Works(t))
    /\ WF_vars(CancelWaiting) /\ WF_vars(Loop)
FairSpec == Spec /\ Fairness

-----------------------------------------------------------------------------
(* The rows a caller has been given are the first of the result, in order    *)
(* and without gaps, however jobs and loop tasks interleave (onRow).         *)
RowsInOrder ==
    \A q \in Queries :
        /\ Len(delivered[q]) <= stepped[q]
        /\ \A i \in 1..Len(delivered[q]) : delivered[q][i] = i

(* A query that succeeds has delivered every row of its result, so what      *)
(* query(_:_:) collects and returns is the whole result.                     *)
SuccessIsComplete ==
    \A q \in Queries : answer[q] = "rows" => Len(delivered[q]) = stepped[q]

(* When a caller learns the outcome of its query, nothing of that query is   *)
(* left in the pool, the loop or libsqlite3, but for the statement of a row  *)
(* that could not be decoded: so a client that awaits its queries can close. *)
AnswerComesLast ==
    \A q \in Queries : answer[q] # "pending" =>
        /\ stage[q] = "over"
        /\ \A i \in 1..Len(loop) : loop[i].of # q
        /\ stmt[q] = "prepared" => answer[q] = "decodeError"

(* An outcome is final, and onRow is not called after it, not even for the   *)
(* rows of a query that failed half way.                                     *)
AnswerIsFinal ==
    [][\A q \in Queries : answer[q] # "pending" =>
           answer'[q] = answer[q] /\ delivered'[q] = delivered[q]]_vars

(* Every query that is submitted is answered, also when the pool is shut     *)
(* down before it starts: no promise is leaked.                              *)
EveryQueryIsAnswered ==
    \A q \in Queries : stage[q] # "new" ~> answer[q] # "pending"
=============================================================================
