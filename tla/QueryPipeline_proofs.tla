------------------------- MODULE QueryPipeline_proofs -------------------------
(***************************************************************************)
(* The proofs about QueryPipeline, for any queries, threads and numbers of *)
(* rows.  The rows of a query are followed through the loop by their       *)
(* numbers: those of its result that its caller has not been given are in  *)
(* the loop, in order, and before the task that answers it.                *)
(***************************************************************************)
EXTENDS QueryPipeline, SequenceTheorems, TLAPS

InPool == {"prepare", "columns", "bind", "step"}

(* A query waits once, then is the job of one thread. *)
JobInv ==
    /\ \A i \in 1..Len(waiting) : stage[waiting[i]] = "waiting"
    /\ \A i, j \in 1..Len(waiting) : waiting[i] = waiting[j] => i = j
    /\ \A t \in PoolThreads : job[t] # NoQuery =>
          /\ stage[job[t]] \in InPool
          /\ \A u \in PoolThreads : job[u] = job[t] => u = t
    /\ \A q \in Queries : stage[q] \in {"new", "waiting", "prepare"} => stmt[q] = "none"

IsRow(i, q) == loop[i].of = q /\ loop[i].answers = "pending"
IsAnswer(i, q) == loop[i].of = q /\ loop[i].answers # "pending"

(* The rows that the caller of q has not been given are those in the loop. *)
RowsOk(q) ==
    /\ Len(delivered[q]) <= stepped[q]
    /\ \A i \in 1..Len(delivered[q]) : delivered[q][i] = i
    /\ \A n \in (Len(delivered[q]) + 1)..stepped[q] :
          \E i \in 1..Len(loop) : IsRow(i, q) /\ loop[i].row = n
    /\ \A i \in 1..Len(loop) : IsRow(i, q) =>
          /\ loop[i].row \in (Len(delivered[q]) + 1)..stepped[q]
          /\ \A j \in 1..Len(loop) : IsRow(j, q) /\ i < j => loop[i].row < loop[j].row

(* The answer comes after them. *)
AnswerOk(q) ==
    /\ \A i \in 1..Len(loop) : loop[i].of = q => q \in ByFuture /\ answer[q] = "pending"
    /\ \A i \in 1..Len(loop) : IsAnswer(i, q) =>
          /\ stage[q] = "over"
          /\ stmt[q] = "prepared" => loop[i].answers = "decodeError"
          /\ \A j \in 1..Len(loop) : i < j => loop[j].of # q
    /\ answer[q] # "pending" =>
          /\ stage[q] = "over"
          /\ stmt[q] = "prepared" => answer[q] = "decodeError"

LoopInv == \A q \in Queries : RowsOk(q) /\ AnswerOk(q)
Inv == TypeOK /\ JobInv /\ LoopInv

-----------------------------------------------------------------------------
(* What a task put last, or the first one run, does to the loop. *)
LEMMA LoopAppend ==
    ASSUME TypeOK, NEW e \in Task, loop' = Append(loop, e)
    PROVE  /\ loop' \in Seq(Task) /\ Len(loop') = Len(loop) + 1 /\ Len(loop) \in Nat
           /\ \A i \in 1..Len(loop) : loop'[i] = loop[i]
           /\ loop'[Len(loop) + 1] = e
<1>1. loop \in Seq(Task)
  BY DEF TypeOK
<1> QED BY <1>1, AppendProperties, LenProperties

LEMMA LoopTail ==
    ASSUME TypeOK, loop # <<>>, loop' = Tail(loop)
    PROVE  /\ loop' \in Seq(Task) /\ Len(loop') = Len(loop) - 1 /\ Len(loop) \in Nat \ {0}
           /\ \A i \in 1..Len(loop') : loop'[i] = loop[i + 1]
           /\ Head(loop) = loop[1] /\ loop[1] \in Task
<1>1. loop \in Seq(Task)
  BY DEF TypeOK
<1>2. Len(loop) \in Nat \ {0} /\ Head(loop) = loop[1]
  BY <1>1, EmptySeq
<1>3. loop[1] \in Task
  BY <1>1, <1>2, ElementOfSeq
<1> QED BY <1>1, <1>2, <1>3, HeadTailProperties

(* The tasks after the first move up. *)
LEMMA TailShifts ==
    ASSUME TypeOK, loop # <<>>, loop' = Tail(loop), NEW r
    PROVE  /\ \A i \in 1..Len(loop') : i + 1 \in 1..Len(loop) /\ 1 < i + 1
           /\ \A i \in 1..Len(loop') : loop'[i] = loop[i + 1]
           /\ \A i \in 1..Len(loop') : IsRow(i, r)' <=> IsRow(i + 1, r)
           /\ \A i \in 1..Len(loop') : IsAnswer(i, r)' <=> IsAnswer(i + 1, r)
           /\ \A i, j \in 1..Len(loop') : i < j => i + 1 < j + 1
           /\ \A i \in 1..Len(loop) : i # 1 => i - 1 \in 1..Len(loop') /\ loop'[i - 1] = loop[i]
           /\ \A i \in 1..Len(loop) : i # 1 /\ IsRow(i, r) => IsRow(i - 1, r)'
           /\ 1 \in 1..Len(loop)
<1>1. /\ Len(loop') = Len(loop) - 1 /\ Len(loop) \in Nat \ {0}
      /\ \A i \in 1..Len(loop') : loop'[i] = loop[i + 1]
  BY LoopTail
<1>2. \A i \in 1..Len(loop') : i + 1 \in 1..Len(loop) /\ 1 < i + 1
  BY <1>1
<1>3. \A i \in 1..Len(loop') : IsRow(i, r)' <=> IsRow(i + 1, r)
  BY <1>1 DEF IsRow
<1>4. \A i \in 1..Len(loop') : IsAnswer(i, r)' <=> IsAnswer(i + 1, r)
  BY <1>1 DEF IsAnswer
<1>5. ASSUME NEW i \in 1..Len(loop), i # 1
      PROVE  i - 1 \in 1..Len(loop') /\ loop'[i - 1] = loop[i]
  <2>1. i - 1 \in 1..Len(loop') /\ (i - 1) + 1 = i
    BY <1>1, <1>5
  <2> QED BY <1>1, <2>1
<1>6. \A i \in 1..Len(loop) : i # 1 /\ IsRow(i, r) => IsRow(i - 1, r)'
  BY <1>5 DEF IsRow
<1> QED BY <1>1, <1>2, <1>3, <1>4, <1>5, <1>6

LEMMA WaitingTail ==
    ASSUME TypeOK, waiting # <<>>, waiting' = Tail(waiting)
    PROVE  /\ waiting' \in Seq(Queries) /\ Len(waiting') = Len(waiting) - 1
           /\ Len(waiting) \in Nat \ {0}
           /\ \A i \in 1..Len(waiting') : waiting'[i] = waiting[i + 1]
           /\ Head(waiting) = waiting[1] /\ waiting[1] \in Queries
<1>1. waiting \in Seq(Queries)
  BY DEF TypeOK
<1>2. Len(waiting) \in Nat \ {0} /\ Head(waiting) = waiting[1]
  BY <1>1, EmptySeq
<1>3. waiting[1] \in Queries
  BY <1>1, <1>2, ElementOfSeq
<1> QED BY <1>1, <1>2, <1>3, HeadTailProperties

LEMMA TaskFields ==
    /\ \A e \in Task : e.of \in Queries /\ e.row \in 0..MaxRows /\ e.answers \in Answers \cup {"pending"}
    /\ \A q \in Queries, n \in 0..MaxRows :
          /\ RowTask(q, n) \in Task
          /\ RowTask(q, n).of = q /\ RowTask(q, n).row = n /\ RowTask(q, n).answers = "pending"
    /\ \A q \in Queries, a \in Answers :
          /\ AnswerTask(q, a) \in Task
          /\ AnswerTask(q, a).of = q /\ AnswerTask(q, a).answers = a /\ a # "pending"
BY QueriesAssumption DEF Task, RowTask, AnswerTask, Answers, Errors

(* A query is answered: what the end of a job, of a job that never starts,   *)
(* and of a call that comes too late have in common.                         *)
LEMMA Resolves ==
    ASSUME TypeOK, LoopInv, NEW q \in Queries, NEW a \in Answers,
           Resolve(q, a), stage[q] # "over", stage' = [stage EXCEPT ![q] = "over"],
           stepped' = stepped, delivered' = delivered,
           \A r \in Queries \ {q} : stmt'[r] = stmt[r],
           stmt'[q] = "prepared" => a = "decodeError"
    PROVE  LoopInv' /\ loop' \in Seq(Task) /\ answer' \in [Queries -> Answers \cup {"pending"}]
<1>1. CASE q \in ByFuture
  <2>1. loop' = Append(loop, AnswerTask(q, a)) /\ answer' = answer
    BY <1>1 DEF Resolve
  <2>2. /\ loop' \in Seq(Task) /\ Len(loop') = Len(loop) + 1 /\ Len(loop) \in Nat
        /\ \A i \in 1..Len(loop) : loop'[i] = loop[i]
        /\ loop'[Len(loop) + 1].of = q /\ loop'[Len(loop) + 1].answers = a /\ a # "pending"
    BY <2>1, LoopAppend, TaskFields
  <2>3. ASSUME NEW r \in Queries PROVE RowsOk(r)' /\ AnswerOk(r)'
    <3>1. RowsOk(r) /\ AnswerOk(r) /\ RowsOk(q) /\ AnswerOk(q)
      BY DEF LoopInv
    <3>2. RowsOk(r)'
      <4>1. /\ \A i \in 1..Len(loop') : IsRow(i, r)' <=> i \in 1..Len(loop) /\ IsRow(i, r)
            /\ \A i \in 1..Len(loop) : i \in 1..Len(loop') /\ loop'[i] = loop[i]
        BY <2>2 DEF IsRow
      <4> QED BY <3>1, <4>1 DEF RowsOk
    <3>3. stage'[q] = "over" /\ (r # q => stage'[r] = stage[r])
      BY DEF TypeOK
    <3>4. AnswerOk(r)'
      <4>1. CASE r = q
        BY <1>1, <2>1, <2>2, <3>1, <3>3, <4>1 DEF AnswerOk, IsAnswer
      <4>2. CASE r # q
        BY <2>1, <2>2, <3>1, <3>3, <4>2 DEF AnswerOk, IsAnswer
      <4> QED BY <4>1, <4>2
    <3> QED BY <3>2, <3>4
  <2> QED BY <2>1, <2>2, <2>3 DEF LoopInv, TypeOK
<1>2. CASE q \notin ByFuture
  <2>1. loop' = loop /\ answer' = [answer EXCEPT ![q] = a]
    BY <1>2 DEF Resolve
  <2>2. ASSUME NEW r \in Queries PROVE RowsOk(r)' /\ AnswerOk(r)'
    <3>1. RowsOk(r) /\ AnswerOk(r)
      BY DEF LoopInv
    <3>2. RowsOk(r)'
      BY <2>1, <3>1 DEF RowsOk, IsRow
    <3>3. AnswerOk(r)'
      BY <1>2, <2>1, <3>1 DEF TypeOK, AnswerOk, IsAnswer
    <3> QED BY <3>2, <3>3
  <2> QED BY <2>1, <2>2 DEF LoopInv, TypeOK
<1> QED BY <1>1, <1>2

(* A step of a query that hands over nothing. *)
LEMMA Proceeds ==
    ASSUME TypeOK, LoopInv, NEW q \in Queries, NEW s \in Stages \ {"over"},
           stage[q] # "over", stage' = [stage EXCEPT ![q] = s],
           \A r \in Queries \ {q} : stmt'[r] = stmt[r],
           stepped' = stepped, delivered' = delivered, loop' = loop, answer' = answer
    PROVE  LoopInv'
<1> SUFFICES ASSUME NEW r \in Queries PROVE RowsOk(r)' /\ AnswerOk(r)'
  BY DEF LoopInv
<1>1. RowsOk(r) /\ AnswerOk(r)
  BY DEF LoopInv
<1>2. RowsOk(r)'
  BY <1>1 DEF RowsOk, IsRow
<1>3. AnswerOk(r)'
  BY <1>1 DEF TypeOK, AnswerOk, IsAnswer
<1> QED BY <1>2, <1>3

-----------------------------------------------------------------------------
LEMMA SubmitKeeps == ASSUME Inv, NEW q \in Queries, Submit(q) PROVE Inv'
<1>1. TypeOK /\ JobInv /\ LoopInv /\ stage[q] = "new"
  BY DEF Inv, Submit
<1>2. CASE pool = "active"
  <2>1. /\ waiting' = Append(waiting, q) /\ stage' = [stage EXCEPT ![q] = "waiting"]
        /\ UNCHANGED <<pool, job, stmt, stepped, delivered, loop, answer>>
    BY <1>2 DEF Submit, Enters
  <2>2. /\ waiting' \in Seq(Queries) /\ Len(waiting') = Len(waiting) + 1 /\ Len(waiting) \in Nat
        /\ \A i \in 1..Len(waiting) : waiting'[i] = waiting[i] /\ waiting[i] \in Queries
        /\ waiting'[Len(waiting) + 1] = q
    BY <1>1, <2>1, AppendProperties, LenProperties, ElementOfSeq DEF TypeOK
  <2>3. LoopInv'
    BY <1>1, <2>1, Proceeds DEF Stages
  <2>4. JobInv'
    BY <1>1, <2>1, <2>2 DEF TypeOK, JobInv, InPool
  <2> QED BY <1>1, <2>1, <2>2, <2>3, <2>4 DEF Inv, TypeOK, Stages
<1>3. CASE pool # "active"
  <2>1. /\ stage' = [stage EXCEPT ![q] = "over"] /\ Resolve(q, "inactive") /\ waiting' = waiting
        /\ UNCHANGED <<pool, job, stmt, stepped, delivered>>
    BY <1>3 DEF Submit, Enters
  <2>2. LoopInv' /\ loop' \in Seq(Task) /\ answer' \in [Queries -> Answers \cup {"pending"}]
    BY <1>1, <2>1, Resolves DEF JobInv, Answers, Errors
  <2>3. \A i \in 1..Len(waiting) : waiting[i] \in Queries
    BY <1>1, ElementOfSeq DEF TypeOK
  <2>4. JobInv'
    BY <1>1, <2>1, <2>3 DEF TypeOK, JobInv, InPool
  <2> QED BY <1>1, <2>1, <2>2, <2>4 DEF Inv, TypeOK, Stages
<1> QED BY <1>2, <1>3

(* The first of the waiting queries leaves them, for a thread or for good. *)
LEMMA LeavesQueue ==
    ASSUME TypeOK, JobInv, waiting # <<>>, waiting' = Tail(waiting)
    PROVE  /\ Head(waiting) \in Queries /\ stage[Head(waiting)] = "waiting"
           /\ stmt[Head(waiting)] = "none"
           /\ \A i \in 1..Len(waiting') :
                 /\ waiting'[i] \in Queries \ {Head(waiting)} /\ stage[waiting'[i]] = "waiting"
                 /\ \A j \in 1..Len(waiting') : waiting'[i] = waiting'[j] => i = j
           /\ \A t \in PoolThreads : job[t] # Head(waiting)
           /\ waiting' \in Seq(Queries)
<1>1. /\ waiting' \in Seq(Queries) /\ Len(waiting') = Len(waiting) - 1
      /\ Len(waiting) \in Nat \ {0}
      /\ \A i \in 1..Len(waiting') : waiting'[i] = waiting[i + 1]
      /\ Head(waiting) = waiting[1] /\ waiting[1] \in Queries
  BY WaitingTail
<1>2. \A i \in 1..Len(waiting') : waiting'[i] \in Queries /\ i + 1 \in 1..Len(waiting) /\ i + 1 # 1
  BY <1>1, ElementOfSeq
<1>3. 1 \in 1..Len(waiting)
  BY <1>1
<1>4. stage[waiting[1]] = "waiting" /\ stmt[waiting[1]] = "none"
  BY <1>1, <1>3 DEF JobInv
<1>5. \A t \in PoolThreads : job[t] # waiting[1]
  BY <1>1, <1>4, QueriesAssumption DEF JobInv, InPool
<1>6. ASSUME NEW i \in 1..Len(waiting')
      PROVE  /\ waiting'[i] # waiting[1] /\ stage[waiting'[i]] = "waiting"
             /\ \A j \in 1..Len(waiting') : waiting'[i] = waiting'[j] => i = j
  <2>1. waiting'[i] = waiting[i + 1] /\ i + 1 \in 1..Len(waiting)
    BY <1>1, <1>2
  <2>2. ASSUME NEW j \in 1..Len(waiting'), waiting'[i] = waiting'[j] PROVE i = j
    <3>1. waiting[i + 1] = waiting[j + 1] /\ j + 1 \in 1..Len(waiting)
      BY <1>1, <1>2, <2>2
    <3>2. i + 1 = j + 1
      BY <2>1, <3>1 DEF JobInv
    <3> QED BY <3>2, <1>1
  <2> QED BY <1>2, <1>3, <2>1, <2>2 DEF JobInv
<1> QED BY <1>1, <1>2, <1>4, <1>5, <1>6

LEMMA StartKeeps == ASSUME Inv, NEW t \in PoolThreads, Start(t) PROVE Inv'
<1> DEFINE q == Head(waiting)
<1>1. TypeOK /\ JobInv /\ LoopInv
  BY DEF Inv
<1>2. /\ waiting' = Tail(waiting) /\ waiting # <<>> /\ job[t] = NoQuery
      /\ job' = [job EXCEPT ![t] = q] /\ stage' = [stage EXCEPT ![q] = "prepare"]
      /\ UNCHANGED <<pool, stmt, stepped, loop, delivered, answer>>
  BY DEF Start, Enters
<1>3. /\ q \in Queries /\ stage[q] = "waiting" /\ stmt[q] = "none"
      /\ \A i \in 1..Len(waiting') :
            /\ waiting'[i] \in Queries \ {q} /\ stage[waiting'[i]] = "waiting"
            /\ \A j \in 1..Len(waiting') : waiting'[i] = waiting'[j] => i = j
      /\ \A u \in PoolThreads : job[u] # q
      /\ waiting' \in Seq(Queries)
  BY <1>1, <1>2, LeavesQueue
<1> HIDE DEF q
<1>4. LoopInv'
  BY <1>1, <1>2, <1>3, Proceeds DEF Stages
<1>5. JobInv'
  BY <1>1, <1>2, <1>3 DEF TypeOK, JobInv, InPool
<1> QED BY <1>1, <1>2, <1>3, <1>4, <1>5 DEF Inv, TypeOK, Stages

LEMMA CancelWaitingKeeps == ASSUME Inv, CancelWaiting PROVE Inv'
<1> DEFINE q == Head(waiting)
<1>1. TypeOK /\ JobInv /\ LoopInv
  BY DEF Inv
<1>2. /\ waiting' = Tail(waiting) /\ waiting # <<>>
      /\ stage' = [stage EXCEPT ![q] = "over"] /\ Resolve(q, "inactive")
      /\ UNCHANGED <<pool, job, stmt, stepped, delivered>>
  BY DEF CancelWaiting, Enters
<1>3. /\ q \in Queries /\ stage[q] = "waiting" /\ stmt[q] = "none"
      /\ \A i \in 1..Len(waiting') :
            /\ waiting'[i] \in Queries \ {q} /\ stage[waiting'[i]] = "waiting"
            /\ \A j \in 1..Len(waiting') : waiting'[i] = waiting'[j] => i = j
      /\ \A u \in PoolThreads : job[u] # q
      /\ waiting' \in Seq(Queries)
  BY <1>1, <1>2, LeavesQueue
<1> HIDE DEF q
<1>4. LoopInv' /\ loop' \in Seq(Task) /\ answer' \in [Queries -> Answers \cup {"pending"}]
  BY <1>1, <1>2, <1>3, Resolves DEF Answers, Errors
<1>5. JobInv'
  BY <1>1, <1>2, <1>3 DEF TypeOK, JobInv, InPool
<1> QED BY <1>1, <1>2, <1>3, <1>4, <1>5 DEF Inv, TypeOK, Stages

(* A thread's job goes on... *)
LEMMA JobProceeds ==
    ASSUME Inv, NEW t \in PoolThreads, job[t] # NoQuery, NEW s \in InPool \ {"prepare"},
           Enters(job[t], s), stmt' = stmt \/ Statement(job[t], "prepared"),
           UNCHANGED <<pool, waiting, job, stepped, loop, delivered, answer>>
    PROVE  Inv'
<1>1. TypeOK /\ JobInv /\ LoopInv
  BY DEF Inv
<1>2. job[t] \in Queries /\ stage[job[t]] \in InPool
  BY <1>1 DEF TypeOK, JobInv
<1>3. stage' = [stage EXCEPT ![job[t]] = s] /\ \A r \in Queries \ {job[t]} : stmt'[r] = stmt[r]
  BY <1>1, <1>2 DEF Enters, Statement, TypeOK
<1>4. LoopInv'
  BY <1>1, <1>2, <1>3, Proceeds DEF Stages, InPool
<1>5. \A i \in 1..Len(waiting) : waiting[i] \in Queries
  BY <1>1, ElementOfSeq DEF TypeOK
<1>6. JobInv'
  BY <1>1, <1>2, <1>3, <1>5 DEF TypeOK, JobInv, InPool
<1> QED BY <1>1, <1>2, <1>3, <1>4, <1>6 DEF Inv, TypeOK, Stages, InPool, Statement

(* ...or ends. *)
LEMMA JobOver ==
    ASSUME Inv, NEW t \in PoolThreads, job[t] # NoQuery, NEW a \in Answers, JobEnds(t, a),
           \/ stmt' = stmt /\ (stage[job[t]] = "prepare" \/ a = "decodeError")
           \/ Statement(job[t], "finalized"),
           UNCHANGED <<pool, waiting, stepped, delivered>>
    PROVE  Inv'
<1>1. TypeOK /\ JobInv /\ LoopInv
  BY DEF Inv
<1>2. job[t] \in Queries /\ stage[job[t]] \in InPool
  BY <1>1 DEF TypeOK, JobInv
<1>3. /\ stage' = [stage EXCEPT ![job[t]] = "over"] /\ job' = [job EXCEPT ![t] = NoQuery]
      /\ Resolve(job[t], a)
      /\ \A r \in Queries \ {job[t]} : stmt'[r] = stmt[r]
      /\ stmt'[job[t]] = "prepared" => a = "decodeError"
  BY <1>1, <1>2 DEF JobEnds, Enters, Statement, TypeOK, JobInv
<1>4. LoopInv' /\ loop' \in Seq(Task) /\ answer' \in [Queries -> Answers \cup {"pending"}]
  BY <1>1, <1>2, <1>3, Resolves DEF InPool
<1>5. \A i \in 1..Len(waiting) : waiting[i] \in Queries
  BY <1>1, ElementOfSeq DEF TypeOK
<1>6. JobInv'
  BY <1>1, <1>2, <1>3, <1>5 DEF TypeOK, JobInv, InPool
<1> QED BY <1>1, <1>2, <1>3, <1>4, <1>6 DEF Inv, TypeOK, Stages, Statement

(* A row is handed over, to the loop or to the caller. *)
LEMMA RowKeeps == ASSUME Inv, NEW t \in PoolThreads, Row(t) PROVE Inv'
<1> DEFINE q == job[t]
           n == stepped[q] + 1
<1>1. TypeOK /\ JobInv /\ LoopInv
  BY DEF Inv
<1>2. /\ q \in Queries /\ stage[q] = "step" /\ n \in 1..MaxRows
      /\ stepped' = [stepped EXCEPT ![q] = n] /\ OnRow(q, n)
      /\ UNCHANGED <<pool, waiting, job, stage, stmt, answer>>
  BY <1>1, QueriesAssumption DEF Row, Working, TypeOK
<1>3. JobInv'
  BY <1>1, <1>2 DEF JobInv
<1>4. CASE q \in ByFuture
  <2>1. loop' = Append(loop, RowTask(q, n)) /\ delivered' = delivered
    BY <1>2, <1>4 DEF OnRow
  <2>2. /\ loop' \in Seq(Task) /\ Len(loop') = Len(loop) + 1 /\ Len(loop) \in Nat
        /\ \A i \in 1..Len(loop) : loop'[i] = loop[i]
        /\ loop'[Len(loop) + 1].of = q /\ loop'[Len(loop) + 1].answers = "pending"
        /\ loop'[Len(loop) + 1].row = n
    <3>1. n \in 0..MaxRows
      BY <1>2
    <3> QED BY <1>1, <1>2, <2>1, <3>1, LoopAppend, TaskFields
  <2> HIDE DEF q, n
  <2>3. ASSUME NEW r \in Queries PROVE RowsOk(r)' /\ AnswerOk(r)'
    <3>1. RowsOk(r) /\ AnswerOk(r) /\ AnswerOk(q)
      BY <1>1, <1>2 DEF LoopInv
    <3>2. /\ stepped[r] \in Nat /\ Len(delivered[r]) \in Nat
          /\ stepped'[r] = IF r = q THEN stepped[r] + 1 ELSE stepped[r]
          /\ q = r => n = stepped[r] + 1
      BY <1>1, <1>2, LenProperties DEF TypeOK, n
    <3>3. /\ \A i \in 1..Len(loop') : IsRow(i, r)' <=>
                 \/ i \in 1..Len(loop) /\ IsRow(i, r)
                 \/ i = Len(loop) + 1 /\ r = q
          /\ \A i \in 1..Len(loop) : i \in 1..Len(loop') /\ loop'[i] = loop[i]
          /\ Len(loop) + 1 \in 1..Len(loop')
      BY <2>2 DEF IsRow
    <3>4. RowsOk(r)'
      <4>1. Len(delivered'[r]) <= stepped'[r] /\ \A i \in 1..Len(delivered'[r]) : delivered'[r][i] = i
        BY <2>1, <3>1, <3>2 DEF RowsOk
      <4>2. ASSUME NEW m \in (Len(delivered'[r]) + 1)..stepped'[r]
            PROVE  \E i \in 1..Len(loop') : IsRow(i, r)' /\ loop'[i].row = m
        <5>1. CASE m \in (Len(delivered[r]) + 1)..stepped[r]
          BY <3>1, <3>3, <5>1 DEF RowsOk
        <5>2. CASE m \notin (Len(delivered[r]) + 1)..stepped[r]
          BY <2>1, <2>2, <3>2, <3>3, <5>2
        <5> QED BY <5>1, <5>2
      <4>3. ASSUME NEW i \in 1..Len(loop'), IsRow(i, r)'
            PROVE  /\ loop'[i].row \in (Len(delivered'[r]) + 1)..stepped'[r]
                   /\ \A j \in 1..Len(loop') : IsRow(j, r)' /\ i < j => loop'[i].row < loop'[j].row
        <5>1. CASE i \in 1..Len(loop)
          <6>1. IsRow(i, r) /\ loop'[i] = loop[i] /\ loop[i].row \in (Len(delivered[r]) + 1)..stepped[r]
            BY <2>2, <3>1, <3>3, <4>3, <5>1 DEF RowsOk
          <6>2. ASSUME NEW j \in 1..Len(loop'), IsRow(j, r)', i < j PROVE loop'[i].row < loop'[j].row
            <7>1. CASE j \in 1..Len(loop)
              BY <2>2, <3>1, <3>3, <6>1, <6>2, <7>1 DEF RowsOk
            <7>2. CASE j \notin 1..Len(loop)
              BY <2>2, <3>2, <3>3, <6>1, <6>2, <7>2
            <7> QED BY <7>1, <7>2
          <6>3. loop[i].row \in (Len(delivered'[r]) + 1)..stepped'[r]
            BY <2>1, <3>2, <6>1
          <6> QED BY <6>1, <6>2, <6>3
        <5>2. CASE i \notin 1..Len(loop)
          <6>1. i = Len(loop) + 1 /\ r = q /\ loop'[i].row = stepped[r] + 1
            BY <2>2, <3>2, <3>3, <4>3, <5>2
          <6>2. stepped[r] + 1 \in (Len(delivered'[r]) + 1)..stepped'[r]
            BY <2>1, <3>1, <3>2, <6>1 DEF RowsOk
          <6> QED BY <2>2, <6>1, <6>2
        <5> QED BY <5>1, <5>2
      <4> QED BY <4>1, <4>2, <4>3 DEF RowsOk
    <3>5. AnswerOk(r)'
      <4>1. r = q => answer[q] = "pending" /\ \A i \in 1..Len(loop) : ~IsAnswer(i, q)
        BY <1>2, <3>1 DEF AnswerOk
      <4> QED BY <1>2, <1>4, <2>2, <3>1, <4>1 DEF AnswerOk, IsAnswer
    <3> QED BY <3>4, <3>5
  <2>4. TypeOK'
    BY <1>1, <1>2, <2>1, <2>2 DEF TypeOK
  <2> QED BY <1>3, <2>3, <2>4 DEF Inv, LoopInv
<1>5. CASE q \notin ByFuture
  <2>1. delivered' = [delivered EXCEPT ![q] = Append(@, n)] /\ loop' = loop
    BY <1>2, <1>5 DEF OnRow
  <2>2. RowsOk(q) /\ AnswerOk(q)
    BY <1>1, <1>2 DEF LoopInv
  <2>3. \A i \in 1..Len(loop) : loop[i].of # q
    BY <1>5, <2>2 DEF AnswerOk
  <2>4. delivered[q] \in Seq(1..MaxRows) /\ Len(delivered[q]) \in Nat /\ stepped[q] \in Nat
    BY <1>1, <1>2, LenProperties DEF TypeOK
  <2>5. Len(delivered[q]) = stepped[q]
    BY <2>2, <2>3, <2>4 DEF RowsOk, IsRow
  <2>6. /\ delivered'[q] \in Seq(1..MaxRows) /\ Len(delivered'[q]) = Len(delivered[q]) + 1
        /\ \A i \in 1..Len(delivered[q]) : delivered'[q][i] = delivered[q][i]
        /\ delivered'[q][Len(delivered[q]) + 1] = n
    <3>1. delivered'[q] = Append(delivered[q], n)
      BY <1>1, <1>2, <2>1 DEF TypeOK
    <3> HIDE DEF n
    <3> QED BY <1>2, <2>4, <3>1, AppendProperties
  <2>7. stepped'[q] = n /\ n = stepped[q] + 1
    BY <1>1, <1>2 DEF TypeOK
  <2>8. \A r \in Queries \ {q} : delivered'[r] = delivered[r] /\ stepped'[r] = stepped[r]
    BY <1>1, <1>2, <2>1 DEF TypeOK
  <2>9. delivered' \in [Queries -> Seq(1..MaxRows)] /\ stepped' \in [Queries -> 0..MaxRows]
    <3>1. /\ delivered' = [r \in Queries |-> delivered'[r]]
          /\ \A r \in Queries : delivered'[r] \in Seq(1..MaxRows)
      BY <1>1, <2>1, <2>6, <2>8 DEF TypeOK
    <3>2. stepped' \in [Queries -> 0..MaxRows]
      <4>1. n \in 0..MaxRows /\ stepped' = [stepped EXCEPT ![q] = n]
        BY <1>2
      <4> HIDE DEF n
      <4> QED BY <1>1, <4>1 DEF TypeOK
    <3> QED BY <3>1, <3>2
  <2> HIDE DEF q, n
  <2>10. ASSUME NEW r \in Queries PROVE RowsOk(r)' /\ AnswerOk(r)'
    <3>1. RowsOk(r) /\ AnswerOk(r)
      BY <1>1 DEF LoopInv
    <3>2. AnswerOk(r)'
      BY <1>2, <2>1, <3>1 DEF AnswerOk, IsAnswer
    <3>3. CASE r = q
      <4>1. \A i \in 1..Len(delivered'[q]) : delivered'[q][i] = i
        BY <2>2, <2>4, <2>5, <2>6, <2>7 DEF RowsOk
      <4>2. Len(delivered'[q]) = stepped'[q] /\ stepped'[q] \in Nat
        BY <2>4, <2>5, <2>6, <2>7
      <4>3. \A i \in 1..Len(loop') : ~IsRow(i, r)'
        BY <2>1, <2>3, <3>3 DEF IsRow
      <4> QED BY <3>2, <3>3, <4>1, <4>2, <4>3 DEF RowsOk
    <3>4. CASE r # q
      BY <2>1, <2>8, <3>1, <3>2, <3>4 DEF RowsOk, IsRow
    <3> QED BY <3>3, <3>4
  <2> QED BY <1>1, <1>2, <1>3, <2>1, <2>9, <2>10 DEF Inv, LoopInv, TypeOK
<1> QED BY <1>4, <1>5

(* The loop runs its first task: the next row of its query... *)
LEMMA RunRowKeeps == ASSUME Inv, RunRow PROVE Inv'
<1>1. TypeOK /\ JobInv /\ LoopInv
  BY DEF Inv
<1>2. /\ loop' \in Seq(Task) /\ Len(loop') = Len(loop) - 1 /\ Len(loop) \in Nat \ {0}
      /\ \A i \in 1..Len(loop') : loop'[i] = loop[i + 1]
      /\ Head(loop) = loop[1] /\ loop[1] \in Task
  BY <1>1, LoopTail DEF RunRow
<1>3. PICK q \in Queries : q = loop[1].of
  BY <1>2, TaskFields
<1>4. PICK n : n = loop[1].row
  OBVIOUS
<1>5. /\ IsRow(1, q) /\ delivered' = [delivered EXCEPT ![q] = Append(delivered[q], n)]
      /\ UNCHANGED <<pool, waiting, job, stage, stmt, stepped, answer>>
  BY <1>2, <1>3, <1>4 DEF RunRow, IsRow
<1>6. \A r \in Queries : /\ delivered[r] \in Seq(1..MaxRows) /\ Len(delivered[r]) \in Nat
                          /\ stepped[r] \in 0..MaxRows
  BY <1>1, LenProperties DEF TypeOK
<1>7. n = Len(delivered[q]) + 1 /\ n <= stepped[q]
  <2>1. RowsOk(q)
    BY <1>1 DEF LoopInv
  <2>2. n \in (Len(delivered[q]) + 1)..stepped[q]
    BY <1>2, <1>4, <1>5, <2>1 DEF RowsOk
  <2>3. PICK i \in 1..Len(loop) : IsRow(i, q) /\ loop[i].row = Len(delivered[q]) + 1
    <3>1. Len(delivered[q]) + 1 \in (Len(delivered[q]) + 1)..stepped[q]
      BY <1>6, <2>2
    <3> QED BY <2>1, <3>1 DEF RowsOk
  <2>4. 1 < i => n < loop[i].row
    BY <1>2, <1>4, <1>5, <2>1, <2>3 DEF RowsOk
  <2> QED BY <1>2, <1>4, <1>6, <2>2, <2>3, <2>4
<1>8. /\ delivered'[q] \in Seq(1..MaxRows) /\ Len(delivered'[q]) = Len(delivered[q]) + 1
      /\ \A i \in 1..Len(delivered[q]) : delivered'[q][i] = delivered[q][i]
      /\ delivered'[q][Len(delivered[q]) + 1] = n
  <2>1. n \in 1..MaxRows
    BY <1>6, <1>7, QueriesAssumption
  <2>2. delivered'[q] = Append(delivered[q], n)
    BY <1>1, <1>5 DEF TypeOK
  <2> QED BY <1>6, <2>1, <2>2, AppendProperties
<1>9. \A r \in Queries \ {q} : delivered'[r] = delivered[r]
  BY <1>1, <1>5 DEF TypeOK
<1>10. TypeOK'
  <2>1. /\ delivered' = [r \in Queries |-> delivered'[r]]
        /\ \A r \in Queries : delivered'[r] \in Seq(1..MaxRows)
    BY <1>1, <1>5, <1>8, <1>9 DEF TypeOK
  <2>2. delivered' \in [Queries -> Seq(1..MaxRows)]
    BY <2>1
  <2> QED BY <1>1, <1>2, <1>5, <2>2 DEF TypeOK
<1>11. ASSUME NEW r \in Queries PROVE RowsOk(r)' /\ AnswerOk(r)'
  <2>1. RowsOk(r) /\ AnswerOk(r)
    BY <1>1 DEF LoopInv
  <2>2. /\ \A i \in 1..Len(loop') : i + 1 \in 1..Len(loop) /\ 1 < i + 1
        /\ \A i \in 1..Len(loop') : loop'[i] = loop[i + 1]
        /\ \A i \in 1..Len(loop') : IsRow(i, r)' <=> IsRow(i + 1, r)
        /\ \A i \in 1..Len(loop') : IsAnswer(i, r)' <=> IsAnswer(i + 1, r)
        /\ \A i, j \in 1..Len(loop') : i < j => i + 1 < j + 1
        /\ 1 \in 1..Len(loop)
    BY <1>1, TailShifts DEF RunRow
  <2>3. /\ \A i \in 1..Len(loop) : i # 1 => i - 1 \in 1..Len(loop') /\ loop'[i - 1] = loop[i]
        /\ \A i \in 1..Len(loop) : i # 1 /\ IsRow(i, r) => IsRow(i - 1, r)'
    BY <1>1, TailShifts DEF RunRow
  <2>4. AnswerOk(r)'
    <3>1. \A i \in 1..Len(loop') : loop'[i].of = r => r \in ByFuture /\ answer[r] = "pending"
      BY <2>1, <2>2 DEF AnswerOk
    <3>2. ASSUME NEW i \in 1..Len(loop'), IsAnswer(i, r)'
          PROVE  /\ stage[r] = "over"
                 /\ stmt[r] = "prepared" => loop'[i].answers = "decodeError"
                 /\ \A j \in 1..Len(loop') : i < j => loop'[j].of # r
      BY <1>2, <2>1, <2>2, <3>2 DEF AnswerOk
    <3> QED BY <1>5, <2>1, <3>1, <3>2 DEF AnswerOk
  <2>5. RowsOk(r)'
    <3>1. /\ Len(delivered'[r]) <= stepped[r] /\ Len(delivered'[r]) \in Nat
          /\ \A i \in 1..Len(delivered'[r]) : delivered'[r][i] = i
      <4>1. CASE r = q
        <5>1. Len(delivered'[q]) = n /\ n \in Nat /\ n <= stepped[q] /\ Len(delivered[q]) \in Nat
          BY <1>6, <1>7, <1>8
        <5>2. \A i \in 1..Len(delivered[q]) : delivered'[q][i] = i
          BY <1>8, <2>1, <4>1 DEF RowsOk
        <5>3. \A i \in 1..n : i \in 1..Len(delivered[q]) \/ i = Len(delivered[q]) + 1
          BY <1>7, <5>1
        <5> QED BY <1>7, <1>8, <4>1, <5>1, <5>2, <5>3
      <4> QED BY <1>6, <1>9, <2>1, <4>1 DEF RowsOk
    <3>2. ASSUME NEW m \in (Len(delivered'[r]) + 1)..stepped[r]
          PROVE  \E i \in 1..Len(loop') : IsRow(i, r)' /\ loop'[i].row = m
      <4>1. m \in (Len(delivered[r]) + 1)..stepped[r] /\ (r = q => m # n)
        BY <1>6, <1>7, <1>8, <1>9
      <4>2. PICK i \in 1..Len(loop) : IsRow(i, r) /\ loop[i].row = m
        BY <2>1, <4>1 DEF RowsOk
      <4>3. i # 1
        BY <1>3, <1>4, <4>1, <4>2 DEF IsRow
      <4> QED BY <2>3, <4>2, <4>3
    <3>3. ASSUME NEW i \in 1..Len(loop'), IsRow(i, r)'
          PROVE  /\ loop'[i].row \in (Len(delivered'[r]) + 1)..stepped[r]
                 /\ \A j \in 1..Len(loop') : IsRow(j, r)' /\ i < j => loop'[i].row < loop'[j].row
      <4>1. /\ i + 1 \in 1..Len(loop) /\ IsRow(i + 1, r) /\ loop'[i] = loop[i + 1]
            /\ loop[i + 1].row \in (Len(delivered[r]) + 1)..stepped[r]
        BY <2>1, <2>2, <3>3 DEF RowsOk
      <4>2. r = q => n < loop[i + 1].row
        BY <1>2, <1>4, <1>5, <2>1, <4>1 DEF RowsOk
      <4>3. loop'[i].row \in (Len(delivered'[r]) + 1)..stepped[r]
        BY <1>6, <1>7, <1>8, <1>9, <4>1, <4>2
      <4>4. ASSUME NEW j \in 1..Len(loop'), IsRow(j, r)', i < j PROVE loop'[i].row < loop'[j].row
        <5>1. j + 1 \in 1..Len(loop) /\ IsRow(j + 1, r) /\ loop'[j] = loop[j + 1] /\ i + 1 < j + 1
          BY <2>2, <4>4
        <5> QED BY <2>1, <4>1, <5>1 DEF RowsOk
      <4> QED BY <4>3, <4>4
    <3> QED BY <1>5, <3>1, <3>2, <3>3 DEF RowsOk
  <2> QED BY <2>4, <2>5
<1> QED BY <1>1, <1>5, <1>10, <1>11 DEF Inv, LoopInv, JobInv

(* ...or its answer, which is the last. *)
LEMMA RunAnswerKeeps == ASSUME Inv, RunAnswer PROVE Inv'
<1>1. TypeOK /\ JobInv /\ LoopInv
  BY DEF Inv
<1>2. /\ loop' \in Seq(Task) /\ Len(loop') = Len(loop) - 1 /\ Len(loop) \in Nat \ {0}
      /\ \A i \in 1..Len(loop') : loop'[i] = loop[i + 1]
      /\ Head(loop) = loop[1] /\ loop[1] \in Task
  BY <1>1, LoopTail DEF RunAnswer
<1>3. PICK q \in Queries : q = loop[1].of
  BY <1>2, TaskFields
<1>4. PICK a \in Answers : a = loop[1].answers
  BY <1>2, TaskFields DEF RunAnswer
<1>5. /\ IsAnswer(1, q) /\ answer' = [answer EXCEPT ![q] = a]
      /\ UNCHANGED <<pool, waiting, job, stage, stmt, stepped, delivered>>
  BY <1>2, <1>3, <1>4 DEF RunAnswer, IsAnswer
<1>6. TypeOK'
  BY <1>1, <1>2, <1>5 DEF TypeOK
<1>7. ASSUME NEW r \in Queries PROVE RowsOk(r)' /\ AnswerOk(r)'
  <2>1. RowsOk(r) /\ AnswerOk(r)
    BY <1>1 DEF LoopInv
  <2>2. /\ \A i \in 1..Len(loop') : i + 1 \in 1..Len(loop) /\ 1 < i + 1
        /\ \A i \in 1..Len(loop') : loop'[i] = loop[i + 1]
        /\ \A i \in 1..Len(loop') : IsRow(i, r)' <=> IsRow(i + 1, r)
        /\ \A i \in 1..Len(loop') : IsAnswer(i, r)' <=> IsAnswer(i + 1, r)
        /\ \A i, j \in 1..Len(loop') : i < j => i + 1 < j + 1
        /\ 1 \in 1..Len(loop)
    BY <1>1, TailShifts DEF RunAnswer
  <2>3. /\ \A i \in 1..Len(loop) : i # 1 => i - 1 \in 1..Len(loop') /\ loop'[i - 1] = loop[i]
        /\ \A i \in 1..Len(loop) : i # 1 /\ IsRow(i, r) => IsRow(i - 1, r)'
    BY <1>1, TailShifts DEF RunAnswer
  <2>4. ~IsRow(1, r)
    BY <1>3, <1>5 DEF IsRow, IsAnswer
  <2>5. AnswerOk(r)'
    <3>1. r = q => /\ stage[q] = "over" /\ (stmt[q] = "prepared" => a = "decodeError")
                   /\ \A i \in 1..Len(loop') : loop'[i].of # q
      BY <1>2, <1>4, <1>5, <2>1, <2>2 DEF AnswerOk
    <3>2. \A i \in 1..Len(loop') : loop'[i].of = r => r \in ByFuture /\ answer'[r] = "pending"
      BY <1>1, <1>5, <2>1, <2>2, <3>1 DEF AnswerOk, TypeOK
    <3>3. ASSUME NEW i \in 1..Len(loop'), IsAnswer(i, r)'
          PROVE  /\ stage[r] = "over"
                 /\ stmt[r] = "prepared" => loop'[i].answers = "decodeError"
                 /\ \A j \in 1..Len(loop') : i < j => loop'[j].of # r
      BY <1>2, <2>1, <2>2, <3>3 DEF AnswerOk
    <3>4. answer'[r] # "pending" =>
              stage[r] = "over" /\ (stmt[r] = "prepared" => answer'[r] = "decodeError")
      BY <1>1, <1>5, <2>1, <3>1 DEF AnswerOk, TypeOK
    <3> QED BY <1>5, <3>2, <3>3, <3>4 DEF AnswerOk
  <2>6. RowsOk(r)'
    <3>1. ASSUME NEW m \in (Len(delivered[r]) + 1)..stepped[r]
          PROVE  \E i \in 1..Len(loop') : IsRow(i, r)' /\ loop'[i].row = m
      <4>1. PICK i \in 1..Len(loop) : IsRow(i, r) /\ loop[i].row = m
        BY <2>1 DEF RowsOk
      <4> QED BY <2>3, <2>4, <4>1
    <3>2. ASSUME NEW i \in 1..Len(loop'), IsRow(i, r)'
          PROVE  /\ loop'[i].row \in (Len(delivered[r]) + 1)..stepped[r]
                 /\ \A j \in 1..Len(loop') : IsRow(j, r)' /\ i < j => loop'[i].row < loop'[j].row
      <4>1. i + 1 \in 1..Len(loop) /\ IsRow(i + 1, r) /\ loop'[i] = loop[i + 1]
        BY <2>2, <3>2
      <4>2. ASSUME NEW j \in 1..Len(loop'), IsRow(j, r)', i < j PROVE loop'[i].row < loop'[j].row
        <5>1. j + 1 \in 1..Len(loop) /\ IsRow(j + 1, r) /\ loop'[j] = loop[j + 1] /\ i + 1 < j + 1
          BY <2>2, <4>2
        <5> QED BY <2>1, <4>1, <5>1 DEF RowsOk
      <4> QED BY <2>1, <4>1, <4>2 DEF RowsOk
    <3> QED BY <1>5, <2>1, <3>1, <3>2 DEF RowsOk
  <2> QED BY <2>5, <2>6
<1> QED BY <1>1, <1>5, <1>6, <1>7 DEF Inv, LoopInv, JobInv

-----------------------------------------------------------------------------
LEMMA WorksKeeps == ASSUME Inv, NEW t \in PoolThreads, Works(t) PROVE Inv'
<1>1. CASE Start(t) \/ Row(t)
  BY <1>1, StartKeeps, RowKeeps
<1>2. CASE Prepare(t) \/ Columns(t) \/ Bind(t)
  BY <1>2, JobProceeds DEF Prepare, Columns, Bind, Working, InPool
<1>3. CASE PrepareFails(t) \/ DecodeFails(t)
  BY <1>3, JobOver DEF PrepareFails, DecodeFails, Working, Answers, Errors
<1>4. CASE CheckFails(t) \/ Done(t)
  BY <1>4, JobOver DEF CheckFails, Done, Working, Answers, Errors
<1> QED BY <1>1, <1>2, <1>3, <1>4 DEF Works

(* Every reachable state: what is left of a query is in one place. *)
THEOREM PipelineInvariant == Spec => []Inv
<1>1. Init => Inv
  <2> SUFFICES ASSUME Init PROVE Inv
    OBVIOUS
  <2>1. TypeOK
    BY EmptySeq, QueriesAssumption DEF Init, TypeOK, Stages
  <2>2. JobInv /\ LoopInv
    BY EmptySeq DEF Init, JobInv, LoopInv, RowsOk, AnswerOk
  <2> QED BY <2>1, <2>2 DEF Inv
<1>2. Inv /\ [Next]_vars => Inv'
  <2> SUFFICES ASSUME Inv, [Next]_vars PROVE Inv'
    OBVIOUS
  <2>1. CASE Shutdown \/ UNCHANGED vars
    <3>1. /\ UNCHANGED <<waiting, job, stage, stmt, stepped, loop, delivered, answer>>
          /\ pool' = "shutdown" \/ pool' = pool
      BY <2>1 DEF Shutdown, vars
    <3>2. TypeOK' /\ JobInv'
      BY <3>1 DEF Inv, TypeOK, JobInv
    <3>3. ASSUME NEW q \in Queries PROVE RowsOk(q)' /\ AnswerOk(q)'
      BY <3>1 DEF Inv, LoopInv, RowsOk, AnswerOk, IsRow, IsAnswer
    <3> QED BY <3>2, <3>3 DEF Inv, LoopInv
  <2> QED BY <2>1, SubmitKeeps, WorksKeeps, CancelWaitingKeeps, RunRowKeeps, RunAnswerKeeps DEF Next, Loop
<1> QED BY <1>1, <1>2, PTL DEF Spec

(* Every reachable state is well typed: a thread works on a query, a task is *)
(* a row that exists or an answer.                                           *)
THEOREM PipelineTyped == Spec => []TypeOK
<1>1. Inv => TypeOK
  BY DEF Inv
<1> QED BY <1>1, PipelineInvariant, PTL

(* onRow is given the rows of a result in order and without gaps. *)
THEOREM RowsComeInOrder == Spec => []RowsInOrder
<1>1. Inv => RowsInOrder
  BY DEF Inv, LoopInv, RowsOk, RowsInOrder
<1> QED BY <1>1, PipelineInvariant, PTL

(* A query that has succeeded has delivered its whole result. *)
THEOREM SuccessDeliversAll == Spec => []SuccessIsComplete
<1>1. ASSUME Inv, NEW q \in Queries, answer[q] = "rows" PROVE Len(delivered[q]) = stepped[q]
  <2>1. TypeOK /\ RowsOk(q) /\ AnswerOk(q)
    BY <1>1 DEF Inv, LoopInv
  <2>2. Len(delivered[q]) \in Nat /\ stepped[q] \in Nat
    BY <2>1, LenProperties DEF TypeOK
  <2>3. \A i \in 1..Len(loop) : ~IsRow(i, q)
    BY <1>1, <2>1 DEF AnswerOk, IsRow
  <2> QED BY <2>1, <2>2, <2>3 DEF RowsOk
<1>2. Inv => SuccessIsComplete
  BY <1>1 DEF SuccessIsComplete
<1> QED BY <1>2, PipelineInvariant, PTL

(* An outcome is the last thing its caller hears of a query, and nothing of  *)
(* it is in use any more.                                                    *)
THEOREM AnswersComeLast == Spec => []AnswerComesLast
<1>1. Inv => AnswerComesLast
  BY DEF Inv, LoopInv, AnswerOk, AnswerComesLast
<1> QED BY <1>1, PipelineInvariant, PTL

(* Once its caller knows the outcome of a query, no step changes it, and     *)
(* onRow is not called again.                                                *)
THEOREM AnswersAreFinal == Spec => AnswerIsFinal
<1>1. ASSUME Inv, [Next]_vars, NEW q \in Queries, answer[q] # "pending"
      PROVE  answer'[q] = answer[q] /\ delivered'[q] = delivered[q]
  <2>1. /\ TypeOK /\ JobInv /\ stage[q] = "over"
        /\ \A i \in 1..Len(loop) : loop[i].of # q
    BY <1>1 DEF Inv, LoopInv, AnswerOk
  <2>2. ASSUME NEW r \in Queries \ {q}, NEW a, Resolve(r, a) PROVE answer'[q] = answer[q]
    BY <2>1, <2>2 DEF Resolve, TypeOK
  <2>3. CASE \E r \in Queries : Submit(r)
    BY <2>1, <2>2, <2>3 DEF Submit
  <2>4. ASSUME NEW t \in PoolThreads, Works(t)
        PROVE  answer'[q] = answer[q] /\ delivered'[q] = delivered[q]
    <3>1. job[t] # NoQuery => job[t] \in Queries \ {q}
      <4>1. job[t] \in Queries \cup {NoQuery} /\ (job[t] # NoQuery => stage[job[t]] \in InPool)
        BY <2>1 DEF TypeOK, JobInv
      <4> QED BY <2>1, <4>1 DEF InPool
    <3>2. CASE Start(t) \/ Prepare(t) \/ Columns(t) \/ Bind(t)
      BY <3>2 DEF Start, Prepare, Columns, Bind
    <3>3. CASE PrepareFails(t) \/ CheckFails(t) \/ DecodeFails(t) \/ Done(t)
      BY <2>2, <3>1, <3>3 DEF PrepareFails, CheckFails, DecodeFails, Done, JobEnds, Working
    <3>4. CASE Row(t)
      <4>1. job[t] \in Queries \ {q} /\ OnRow(job[t], stepped[job[t]] + 1) /\ answer' = answer
        BY <3>1, <3>4 DEF Row, Working
      <4> QED BY <2>1, <4>1 DEF OnRow, TypeOK
    <3> QED BY <2>4, <3>2, <3>3, <3>4 DEF Works
  <2>5. CASE CancelWaiting
    <3>1. Head(waiting) \in Queries \ {q}
      BY <2>1, <2>5, LeavesQueue DEF CancelWaiting
    <3> QED BY <2>2, <2>5, <3>1 DEF CancelWaiting
  <2>6. CASE Loop
    <3>1. loop # <<>> /\ loop' = Tail(loop)
      BY <2>6 DEF Loop, RunRow, RunAnswer
    <3>2. Head(loop).of # q
      BY <2>1, <3>1, LoopTail
    <3> QED BY <2>1, <2>6, <3>2 DEF Loop, RunRow, RunAnswer, TypeOK
  <2>7. CASE Shutdown \/ UNCHANGED vars
    BY <2>7 DEF Shutdown, vars
  <2> QED BY <1>1, <2>3, <2>4, <2>5, <2>6, <2>7 DEF Next
<1>2. Inv /\ [Next]_vars =>
          [\A q \in Queries : answer[q] # "pending" =>
               answer'[q] = answer[q] /\ delivered'[q] = delivered[q]]_vars
  BY <1>1
<1> QED BY <1>2, PipelineInvariant, PTL DEF Spec, AnswerIsFinal
=============================================================================
