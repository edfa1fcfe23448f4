-------------------------- MODULE ProbePoolProofs --------------------------
(***************************************************************************)
(* Proofs about ProbePool, for any number of workers and jobs.  The        *)
(* invariant says where a job can be: not yet fed, in the hands of exactly *)
(* one worker, reported, or, once the context is cancelled, dropped.  That *)
(* the pool ends has two parts that need no fairness: its goroutines never *)
(* all wait for each other, and there is a number that each of their steps *)
(* makes smaller.                                                          *)
(***************************************************************************)
EXTENDS ProbePool, SumProofs

Busy(w) == pc[w] \in {"token", "probe", "send"}

\* A busy worker holds a job that was fed to it alone and is not reported yet.
Places ==
    /\ \A w \in Workers : Busy(w) =>
            job[w] \in Jobs /\ job[w] < next /\ reported[job[w]] = 0
    /\ \A v \in Workers, w \in Workers : v # w /\ Busy(v) /\ Busy(w) => job[v] # job[w]
    /\ \A j \in Jobs : reported[j] <= 1 /\ (reported[j] > 0 => j < next)

\* What is reported, and what is about to be, is what the network answered.
Truth ==
    /\ \A j \in Jobs : reported[j] > 0 => j \in answers
    /\ \A w \in Workers : pc[w] = "send" /\ found[w] => job[w] \in answers
    /\ ~cancelled => \A w \in Workers : pc[w] = "send" /\ ~found[w] => job[w] \notin answers

\* The order in which the goroutines end.
Closing ==
    /\ resultsClosed => \A w \in Workers : pc[w] = "done"
    /\ returned => resultsClosed
    /\ ~cancelled => (jobsClosed => next > NumJobs)
    /\ ~cancelled => \A w \in Workers : pc[w] = "done" => jobsClosed

\* Unless it is cancelled, the pool drops no job that the network answers.
NothingDropped ==
    ~cancelled => \A j \in answers :
        j < next => reported[j] > 0 \/ \E w \in Workers : Busy(w) /\ job[w] = j

PoolInv == TypeOK /\ Places /\ Truth /\ Closing /\ NothingDropped

-----------------------------------------------------------------------------
(* The invariant is inductive: one lemma for each group of actions *)

LEMMA PoolInvInit == Init => PoolInv
<1> SUFFICES ASSUME Init PROVE PoolInv
    OBVIOUS
<1>1. TypeOK
    <2>1. next \in 1..(NumJobs + 1)
        BY PoolAssumption DEF Init
    <2>2. /\ pc \in [Workers -> PCs]
          /\ job \in [Workers -> Jobs \cup {NoJob}]
          /\ found \in [Workers -> BOOLEAN]
        BY DEF Init, PCs
    <2>3. reported \in [Jobs -> Nat]
        BY DEF Init
    <2>4. QED
        BY <2>1, <2>2, <2>3 DEF Init, TypeOK
<1>2. Places
    BY DEF Init, Places, Busy
<1>3. Truth
    BY DEF Init, Truth
<1>4. Closing
    BY DEF Init, Closing
<1>5. NothingDropped
    BY <1>1 DEF Init, NothingDropped, TypeOK, Jobs
<1>6. QED
    BY <1>1, <1>2, <1>3, <1>4, <1>5 DEF PoolInv

\* A job that is fed is fed to one worker, and no worker had it before.
LEMMA FeedKeepsInv ==
    ASSUME PoolInv, NEW w \in Workers, Feed(w)
    PROVE  PoolInv'
<1> USE DEF PoolInv
<1>1. /\ next \in Jobs /\ next' = next + 1
      /\ pc[w] = "idle"
      /\ pc' = [pc EXCEPT ![w] = "token"] /\ job' = [job EXCEPT ![w] = next]
      /\ UNCHANGED <<kind, answers, cancelled, jobsClosed, found, resultsClosed,
                     reported, returned>>
    BY PoolAssumption DEF Feed, TypeOK, Jobs, network, caller
<1>2. TypeOK'
    BY <1>1, PoolAssumption DEF TypeOK, PCs, Jobs
<1>3. Places'
    <2>1. \A v \in Workers : Busy(v)' =>
            job'[v] \in Jobs /\ job'[v] < next' /\ reported'[job'[v]] = 0
        <3>1. reported[next] = 0
            BY <1>1, PoolAssumption DEF TypeOK, Places, Jobs
        <3>2. QED
            BY <1>1, <3>1, PoolAssumption DEF TypeOK, Places, Busy, Jobs
    <2>2. \A u \in Workers, v \in Workers :
            u # v /\ Busy(u)' /\ Busy(v)' => job'[u] # job'[v]
        BY <1>1, PoolAssumption DEF TypeOK, Places, Busy, Jobs
    <2>3. \A j \in Jobs : reported'[j] <= 1 /\ (reported'[j] > 0 => j < next')
        BY <1>1, PoolAssumption DEF TypeOK, Places, Jobs
    <2>4. QED
        BY <2>1, <2>2, <2>3 DEF Places
<1>4. Truth'
    BY <1>1 DEF TypeOK, Truth
<1>5. Closing'
    <2>1. ~resultsClosed
        BY <1>1 DEF Closing
    <2>2. ~cancelled => ~jobsClosed
        BY <1>1, PoolAssumption DEF Closing, TypeOK, Jobs
    <2>3. QED
        BY <1>1, <2>1, <2>2 DEF Closing, TypeOK
<1>6. NothingDropped'
    <2> SUFFICES ASSUME ~cancelled, NEW j \in answers, j < next + 1
                 PROVE  reported[j] > 0 \/ \E v \in Workers : Busy(v)' /\ job'[v] = j
        BY <1>1 DEF NothingDropped
    <2>1. CASE j = next
        BY <1>1, <2>1 DEF Busy, TypeOK
    <2>2. CASE j < next
        BY <1>1, <2>2 DEF NothingDropped, Busy, TypeOK
    <2>3. QED
        BY <1>1, <2>1, <2>2, PoolAssumption DEF TypeOK, Jobs
<1>7. QED
    BY <1>2, <1>3, <1>4, <1>5, <1>6

\* The feeder closes its channel after the last job, or early if cancelled.
LEMMA CloseJobsKeepsInv ==
    ASSUME PoolInv, CloseJobs
    PROVE  PoolInv'
<1> USE DEF PoolInv
<1>1. TypeOK'
    BY DEF CloseJobs, TypeOK, network, worker, caller
<1>2. Places'
    BY DEF CloseJobs, Places, Busy, network, worker, caller
<1>3. Truth'
    BY DEF CloseJobs, Truth, network, worker, caller
<1>4. Closing'
    BY DEF CloseJobs, Closing, network, worker, caller
<1>5. NothingDropped'
    BY DEF CloseJobs, NothingDropped, Busy, network, worker, caller
<1>6. QED
    BY <1>1, <1>2, <1>3, <1>4, <1>5

\* A worker ends only when there is nothing left to do, or when cancelled.
LEMMA QuitKeepsInv ==
    ASSUME PoolInv, NEW w \in Workers, Quit(w)
    PROVE  PoolInv'
<1> USE DEF PoolInv
<1>1. /\ pc[w] = "idle" /\ (cancelled \/ jobsClosed)
      /\ pc' = [pc EXCEPT ![w] = "done"]
      /\ UNCHANGED <<kind, answers, cancelled, next, jobsClosed, job, found,
                     resultsClosed, reported, returned>>
    BY DEF Quit, Goto, network, feeder, caller
<1>2. TypeOK'
    BY <1>1 DEF TypeOK, PCs
<1>3. Places'
    BY <1>1 DEF TypeOK, Places, Busy
<1>4. Truth'
    BY <1>1 DEF TypeOK, Truth
<1>5. Closing'
    BY <1>1 DEF TypeOK, Closing
<1>6. NothingDropped'
    BY <1>1 DEF TypeOK, NothingDropped, Busy
<1>7. QED
    BY <1>2, <1>3, <1>4, <1>5, <1>6

\* A worker that waits for the limiter keeps its job; one that loses its token,
\* or its result, drops the job, but only when cancelled.
LEMMA TakeTokenKeepsInv ==
    ASSUME PoolInv, NEW w \in Workers, TakeToken(w)
    PROVE  PoolInv'
<1> USE DEF PoolInv
<1>1. /\ pc[w] = "token"
      /\ pc' = [pc EXCEPT ![w] = "probe"]
      /\ UNCHANGED <<kind, answers, cancelled, next, jobsClosed, job, found,
                     resultsClosed, reported, returned>>
    BY DEF TakeToken, Goto, network, feeder, caller
<1>2. TypeOK'
    BY <1>1 DEF TypeOK, PCs
<1>3. Places'
    BY <1>1 DEF TypeOK, Places, Busy
<1>4. Truth'
    BY <1>1 DEF TypeOK, Truth
<1>5. Closing'
    BY <1>1 DEF TypeOK, Closing
<1>6. NothingDropped'
    BY <1>1 DEF TypeOK, NothingDropped, Busy
<1>7. QED
    BY <1>2, <1>3, <1>4, <1>5, <1>6

LEMMA DropKeepsInv ==
    ASSUME PoolInv, NEW w \in Workers, LoseToken(w) \/ Abandon(w)
    PROVE  PoolInv'
<1> USE DEF PoolInv
<1>1. PICK label \in {"idle", "done"} :
        /\ pc[w] \in {"token", "send"} /\ cancelled
        /\ pc' = [pc EXCEPT ![w] = label]
        /\ UNCHANGED <<kind, answers, cancelled, next, jobsClosed, job, found,
                       resultsClosed, reported, returned>>
    BY DEF LoseToken, Abandon, Goto, network, feeder, caller
<1>2. TypeOK'
    BY <1>1 DEF TypeOK, PCs
<1>3. Places'
    BY <1>1 DEF TypeOK, Places, Busy
<1>4. Truth'
    BY <1>1 DEF TypeOK, Truth
<1>5. Closing'
    BY <1>1 DEF TypeOK, Closing
<1>6. NothingDropped'
    BY <1>1 DEF NothingDropped
<1>7. QED
    BY <1>2, <1>3, <1>4, <1>5, <1>6

\* The outcome of a probe is never a false answer, and unless cancelled it is
\* what the network answers; only then does the ICMP pool forget a job.
LEMMA ProbeKeepsInv ==
    ASSUME PoolInv, NEW w \in Workers, Probe(w)
    PROVE  PoolInv'
<1> USE DEF PoolInv
<1>1. PICK outcome \in Outcomes(job[w]) :
        /\ pc[w] = "probe"
        /\ found' = [found EXCEPT ![w] = outcome]
        /\ pc' = [pc EXCEPT ![w] = IF kind = "icmp" /\ ~outcome THEN "idle" ELSE "send"]
        /\ UNCHANGED <<kind, answers, cancelled, next, jobsClosed, job,
                       resultsClosed, reported, returned>>
    BY DEF Probe, Goto, network, feeder, caller
<1>2. /\ outcome \in BOOLEAN
      /\ outcome => job[w] \in answers
      /\ ~cancelled /\ ~outcome => job[w] \notin answers
    BY DEF Outcomes
<1>3. PICK label \in {"idle", "send"} :
        /\ pc' = [pc EXCEPT ![w] = label]
        /\ label = "idle" => ~outcome
    BY <1>1
<1>4. TypeOK'
    BY <1>1, <1>2, <1>3 DEF TypeOK, PCs
<1>5. Places'
    BY <1>1, <1>3 DEF TypeOK, Places, Busy
<1>6. Truth'
    <2>1. ASSUME NEW v \in Workers, pc'[v] = "send"
          PROVE  /\ found'[v] => job[v] \in answers
                 /\ ~cancelled /\ ~found'[v] => job[v] \notin answers
        <3>1. CASE v = w
            BY <1>1, <1>2, <3>1 DEF TypeOK
        <3>2. CASE v # w
            BY <1>1, <1>3, <2>1, <3>2 DEF TypeOK, Truth
        <3>3. QED
            BY <3>1, <3>2
    <2>2. QED
        BY <1>1, <2>1 DEF Truth
<1>7. Closing'
    BY <1>1, <1>3 DEF TypeOK, Closing
<1>8. NothingDropped'
    <2> SUFFICES ASSUME ~cancelled, NEW j \in answers, j < next
                 PROVE  reported[j] > 0 \/ \E v \in Workers : Busy(v)' /\ job[v] = j
        BY <1>1 DEF NothingDropped
    <2>1. CASE reported[j] > 0
        BY <2>1
    <2>2. CASE \E v \in Workers : Busy(v) /\ job[v] = j
        <3>1. PICK v \in Workers : Busy(v) /\ job[v] = j
            BY <2>2
        <3>2. v = w => label = "send"
            BY <1>2, <1>3, <3>1
        <3>3. Busy(v)'
            BY <1>3, <3>1, <3>2 DEF Busy, TypeOK
        <3>4. QED
            BY <3>1, <3>3
    <2>3. QED
        BY <2>1, <2>2 DEF NothingDropped
<1>9. QED
    BY <1>4, <1>5, <1>6, <1>7, <1>8

\* A delivered result was not reported before, since its worker alone had the job.
LEMMA DeliverKeepsInv ==
    ASSUME PoolInv, NEW w \in Workers, Deliver(w)
    PROVE  PoolInv'
<1> USE DEF PoolInv
<1>1. /\ pc[w] = "send" /\ ~resultsClosed
      /\ reported' = IF found[w] THEN [reported EXCEPT ![job[w]] = @ + 1] ELSE reported
      /\ pc' = [pc EXCEPT ![w] = "idle"]
      /\ UNCHANGED <<kind, answers, cancelled, next, jobsClosed, job, found,
                     resultsClosed, returned>>
    BY DEF Deliver, Goto, network, feeder
<1>2. Busy(w) /\ job[w] \in Jobs /\ job[w] < next /\ reported[job[w]] = 0
    BY <1>1 DEF Busy, Places
<1>3. /\ reported' \in [Jobs -> Nat]
      /\ \A j \in Jobs : j # job[w] => reported'[j] = reported[j]
      /\ reported'[job[w]] = IF found[w] THEN 1 ELSE 0
    BY <1>1, <1>2 DEF TypeOK
<1>4. TypeOK'
    BY <1>1, <1>3 DEF TypeOK, PCs
<1>5. Places'
    <2>1. \A v \in Workers : Busy(v)' =>
            job'[v] \in Jobs /\ job'[v] < next' /\ reported'[job'[v]] = 0
        <3> SUFFICES ASSUME NEW v \in Workers, Busy(v)'
                     PROVE  job[v] \in Jobs /\ job[v] < next /\ reported'[job[v]] = 0
            BY <1>1
        <3>1. v # w /\ Busy(v)
            BY <1>1 DEF Busy, TypeOK
        <3>2. job[v] # job[w]
            BY <1>2, <3>1 DEF Places
        <3>3. QED
            BY <1>3, <3>1, <3>2 DEF Places
    <2>2. \A u \in Workers, v \in Workers :
            u # v /\ Busy(u)' /\ Busy(v)' => job'[u] # job'[v]
        BY <1>1 DEF TypeOK, Places, Busy
    <2>3. \A j \in Jobs : reported'[j] <= 1 /\ (reported'[j] > 0 => j < next')
        BY <1>1, <1>2, <1>3 DEF Places
    <2>4. QED
        BY <2>1, <2>2, <2>3 DEF Places
<1>6. Truth'
    <2>1. \A j \in Jobs : reported'[j] > 0 => j \in answers
        BY <1>1, <1>3 DEF Truth
    <2>2. QED
        BY <1>1, <2>1 DEF Truth, TypeOK
<1>7. Closing'
    BY <1>1 DEF TypeOK, Closing
<1>8. NothingDropped'
    <2> SUFFICES ASSUME ~cancelled, NEW j \in answers, j < next
                 PROVE  reported'[j] > 0 \/ \E v \in Workers : Busy(v)' /\ job[v] = j
        BY <1>1 DEF NothingDropped
    <2>1. j \in Jobs
        BY DEF TypeOK
    <2>2. CASE j = job[w]
        <3>1. found[w]
            BY <1>1, <2>2 DEF Truth
        <3>2. QED
            BY <1>3, <2>2, <3>1
    <2>3. CASE j # job[w] /\ reported[j] > 0
        BY <1>3, <2>1, <2>3
    <2>4. CASE j # job[w] /\ \E v \in Workers : Busy(v) /\ job[v] = j
        <3>1. PICK v \in Workers : Busy(v) /\ job[v] = j
            BY <2>4
        <3>2. Busy(v)'
            BY <1>1, <2>4, <3>1 DEF Busy, TypeOK
        <3>3. QED
            BY <3>1, <3>2
    <2>5. QED
        BY <2>2, <2>3, <2>4 DEF NothingDropped
<1>9. QED
    BY <1>4, <1>5, <1>6, <1>7, <1>8

\* The closer, the caller and the signal handler touch one flag each.
LEMMA EndingKeepsInv ==
    ASSUME PoolInv, CloseResults \/ Return \/ Cancel
    PROVE  PoolInv'
<1> USE DEF PoolInv
<1>1. /\ UNCHANGED <<kind, answers, next, jobsClosed, pc, job, found, reported>>
      /\ cancelled => cancelled'
      /\ cancelled' \in BOOLEAN /\ resultsClosed' \in BOOLEAN /\ returned' \in BOOLEAN
      /\ resultsClosed' => \A w \in Workers : pc[w] = "done"
      /\ returned' => resultsClosed'
    <2>1. CASE CloseResults
        BY <2>1 DEF CloseResults, TypeOK, Closing, network, feeder, worker
    <2>2. CASE Return
        BY <2>2 DEF Return, TypeOK, Closing, network, feeder, worker
    <2>3. CASE Cancel
        BY <2>3 DEF Cancel, TypeOK, Closing, network, feeder, worker, caller
    <2>4. QED
        BY <2>1, <2>2, <2>3
<1>2. TypeOK'
    BY <1>1 DEF TypeOK
<1>3. Places'
    BY <1>1 DEF Places, Busy
<1>4. Truth'
    BY <1>1 DEF Truth
<1>5. Closing'
    BY <1>1 DEF Closing
<1>6. NothingDropped'
    BY <1>1 DEF NothingDropped, Busy
<1>7. QED
    BY <1>2, <1>3, <1>4, <1>5, <1>6

LEMMA PoolInvInductive == PoolInv /\ [Next]_vars => PoolInv'
<1> SUFFICES ASSUME PoolInv, [Next]_vars PROVE PoolInv'
    OBVIOUS
<1>1. CASE \E w \in Workers : Feed(w)
    BY <1>1, FeedKeepsInv
<1>2. CASE \E w \in Workers : WorkerStep(w)
    BY <1>2, QuitKeepsInv, TakeTokenKeepsInv, DropKeepsInv, ProbeKeepsInv, DeliverKeepsInv
       DEF WorkerStep
<1>3. CASE CloseJobs
    BY <1>3, CloseJobsKeepsInv
<1>4. CASE CloseResults \/ Return \/ Cancel
    BY <1>4, EndingKeepsInv
<1>5. CASE Rest \/ UNCHANGED vars
    <2>1. UNCHANGED <<kind, answers, cancelled, next, jobsClosed, pc, job, found,
                      resultsClosed, reported, returned>>
        BY <1>5 DEF Rest, vars, network, feeder, worker, caller
    <2>2. QED
        BY <2>1 DEF PoolInv, TypeOK, Places, Truth, Closing, NothingDropped, Busy
<1>6. QED
    BY <1>1, <1>2, <1>3, <1>4, <1>5 DEF Next

LEMMA PoolInvariant == Spec => []PoolInv
BY PoolInvInit, PoolInvInductive, PTL DEF Spec

-----------------------------------------------------------------------------
(* The theorems *)

\* Every goroutine is in one of its states and holds a job or none.
THEOREM PoolTypeCorrect == Spec => []TypeOK
<1>1. PoolInv => TypeOK
    BY DEF PoolInv
<1>2. QED
    BY <1>1, PoolInvariant, PTL

\* A pool that nobody cancelled returns a positive result for exactly the jobs
\* the network answers: it returned, so every worker is done, so the feeder had
\* fed its last job, and no job was dropped on the way.
THEOREM AlwaysCompleteUnlessCancelled == Spec => []CompleteUnlessCancelled
<1>1. PoolInv => CompleteUnlessCancelled
    <2> SUFFICES ASSUME PoolInv, returned, ~cancelled, NEW j \in Jobs
                 PROVE  (reported[j] > 0) <=> (j \in answers)
        BY DEF CompleteUnlessCancelled
    <2>1. \A w \in Workers : pc[w] = "done"
        BY DEF PoolInv, Closing
    <2>2. jobsClosed
        BY <2>1, PoolAssumption DEF PoolInv, Closing
    <2>3. j < next
        BY <2>2, PoolAssumption DEF PoolInv, Closing, TypeOK, Jobs
    <2>4. j \in answers => reported[j] > 0
        BY <2>1, <2>3 DEF PoolInv, NothingDropped, Busy
    <2>5. reported[j] > 0 => j \in answers
        BY DEF PoolInv, Truth
    <2>6. QED
        BY <2>4, <2>5
<1>2. QED
    BY <1>1, PoolInvariant, PTL

\* No job is reported twice, and none that the network did not answer.
THEOREM AlwaysReportedOnceAndTruly == Spec => []ReportedOnceAndTruly
<1>1. PoolInv => ReportedOnceAndTruly
    BY DEF PoolInv, TypeOK, Places, Truth, ReportedOnceAndTruly
<1>2. QED
    BY <1>1, PoolInvariant, PTL

\* No worker sends on the closed channel, and no two workers hold one job.
THEOREM NeverSendOnClosed == Spec => []NoSendOnClosed
<1>1. PoolInv => NoSendOnClosed
    BY DEF PoolInv, Places, Closing, Busy, NoSendOnClosed
<1>2. QED
    BY <1>1, PoolInvariant, PTL

-----------------------------------------------------------------------------
(* The pool implements the call *)

\* Initially nothing is collected.
LEMMA CallInitRefined == Init => Call!CallInit
BY DEF Init, Call!CallInit

\* A positive result is one answer more; a negative one changes nothing.
LEMMA DeliverRefined ==
    ASSUME PoolInv, NEW w \in Workers, Deliver(w)
    PROVE  [Call!CallNext]_(Call!callVars)
<1> DEFINE before == {j \in Jobs : reported[j] > 0}
           after  == {j \in Jobs : reported'[j] > 0}
<1>1. /\ pc[w] = "send" /\ ~resultsClosed
      /\ reported' = IF found[w] THEN [reported EXCEPT ![job[w]] = @ + 1] ELSE reported
      /\ answers' = answers /\ cancelled' = cancelled /\ returned' = returned
    BY DEF Deliver, network
<1>2. CASE ~found[w]
    <2>1. reported' = reported
        BY <1>1, <1>2
    <2>2. after = before
        BY <2>1
    <2>3. QED
        BY <1>1, <2>2 DEF Call!callVars
<1>3. CASE found[w]
    <2>1. /\ job[w] \in Jobs /\ reported[job[w]] = 0
          /\ job[w] \in answers
        BY <1>1, <1>3 DEF PoolInv, TypeOK, Places, Truth, Busy
    <2>2. reported \in [Jobs -> Nat]
        BY DEF PoolInv, TypeOK
    <2>3. after = before \cup {job[w]} /\ job[w] \notin before
        BY <1>1, <1>3, <2>1, <2>2
    <2>4. ~returned
        BY <1>1 DEF PoolInv, Closing
    <2>5. \E j \in Jobs : Call!Collect(j)
        BY <1>1, <2>1, <2>3, <2>4 DEF Call!Collect
    <2>6. QED
        BY <2>5 DEF Call!CallNext
<1>4. QED
    BY <1>2, <1>3

\* A return without cancellation is one with every answer.
LEMMA ReturnRefined ==
    ASSUME PoolInv, Return
    PROVE  Call!ReturnAnswers
<1>1. /\ resultsClosed /\ ~returned /\ returned'
      /\ answers' = answers /\ cancelled' = cancelled /\ reported' = reported
    BY DEF Return, network
<1>2. ASSUME ~cancelled
      PROVE  {j \in Jobs : reported[j] > 0} = answers
    <2>1. \A w \in Workers : pc[w] = "done"
        BY <1>1 DEF PoolInv, Closing
    <2>2. \A j \in Jobs : j < next
        BY <1>2, <2>1, PoolAssumption DEF PoolInv, Closing, TypeOK, Jobs
    <2>3. \A j \in answers : reported[j] > 0
        BY <1>2, <2>1, <2>2 DEF PoolInv, TypeOK, NothingDropped, Busy
    <2>4. \A j \in Jobs : reported[j] > 0 => j \in answers
        BY DEF PoolInv, Truth
    <2>5. QED
        BY <2>3, <2>4 DEF PoolInv, TypeOK
<1>3. QED
    BY <1>1, <1>2 DEF Call!ReturnAnswers

\* Every other step of a goroutine is unseen by the caller.
LEMMA PoolStepRefines ==
    PoolInv /\ [Next]_vars => [Call!CallNext]_(Call!callVars)
<1> SUFFICES ASSUME PoolInv, [Next]_vars
             PROVE  [Call!CallNext]_(Call!callVars)
    OBVIOUS
<1>1. ASSUME NEW w \in Workers, Feed(w) \/ Quit(w) \/ TakeToken(w) \/ LoseToken(w)
                                \/ Probe(w) \/ Abandon(w)
      PROVE  UNCHANGED Call!callVars
    BY <1>1 DEF Feed, Quit, TakeToken, LoseToken, Probe, Abandon, network, caller,
                Call!callVars
<1>2. CASE CloseJobs \/ CloseResults \/ Rest \/ UNCHANGED vars
    BY <1>2 DEF CloseJobs, CloseResults, Rest, vars, network, caller, worker, Call!callVars
<1>3. CASE Cancel
    <2>1. Call!CancelCall
        BY <1>3 DEF Cancel, network, caller, Call!CancelCall
    <2>2. QED
        BY <2>1 DEF Call!CallNext
<1>4. CASE Return
    BY <1>4, ReturnRefined DEF Call!CallNext
<1>5. QED
    BY <1>1, <1>2, <1>3, <1>4, DeliverRefined DEF Next, WorkerStep

\* Scan, Discover, DiscoverICMP and Enrich are the call their users see: true
\* answers one at a time, and all of them unless the context is cancelled, for
\* any number of workers and jobs and whatever the interleaving.
THEOREM PoolImplementsCall == Spec => ImplementsProbeCall
BY CallInitRefined, PoolStepRefines, PoolInvariant, PTL
   DEF Spec, ImplementsProbeCall, Call!CallSpec

-----------------------------------------------------------------------------
(* The pool ends *)

\* A goroutine can go on: the feeder has a worker to send to or reason to return, a
\* worker is in a call that returns, or has somebody to receive from or to send to,
\* the closer or the collector has what it waits for.  Nobody cancels the context.
SomebodyCanGoOn ==
    \/ ~jobsClosed /\ (next > NumJobs \/ cancelled)
    \/ ~jobsClosed /\ next <= NumJobs /\ \E w \in Workers : pc[w] = "idle"
    \/ (jobsClosed \/ cancelled) /\ \E w \in Workers : pc[w] = "idle"
    \/ \E w \in Workers : pc[w] \in {"token", "probe"}
    \/ ~resultsClosed /\ \E w \in Workers : pc[w] = "send"
    \/ ~resultsClosed /\ \A w \in Workers : pc[w] = "done"
    \/ resultsClosed /\ ~returned

\* The steps a worker may still make with what it holds, the one that ends it included.
Left == [idle |-> 1, token |-> 4, probe |-> 3, send |-> 2, done |-> 0]

WorkLeft == [w \in Workers |-> Left[pc[w]]]

Once(flag) == IF flag THEN 0 ELSE 1

\* The steps the pool may still make: at most four for each job not yet fed, those of
\* the workers, and one each of the feeder, the closer, the collector and the signal.
StepsLeft ==
    4 * (NumJobs + 1 - next) + SumFunction(WorkLeft)
        + Once(jobsClosed) + Once(resultsClosed) + Once(returned) + Once(cancelled)

LEMMA LeftType ==
    /\ \A label \in PCs : Left[label] \in 0..4
    /\ /\ Left["idle"] = 1 /\ Left["token"] = 4 /\ Left["probe"] = 3
       /\ Left["send"] = 2 /\ Left["done"] = 0
BY DEF Left, PCs

\* When one worker moves, its own part of the sum changes.
LEMMA WorkerMoves ==
    ASSUME pc \in [Workers -> PCs], NEW w \in Workers, NEW label \in PCs,
           pc' = [pc EXCEPT ![w] = label]
    PROVE  /\ SumFunction(WorkLeft) \in Nat /\ SumFunction(WorkLeft') \in Nat
           /\ SumFunction(WorkLeft') = SumFunction(WorkLeft) - Left[pc[w]] + Left[label]
<1>1. PICK f, g : f = WorkLeft /\ g = WorkLeft'
    OBVIOUS
<1>2. /\ f \in [Workers -> Nat] /\ g \in [Workers -> Nat]
      /\ f[w] = Left[pc[w]] /\ g[w] = Left[label]
      /\ \A v \in Workers \ {w} : g[v] = f[v]
    BY <1>1, LeftType DEF WorkLeft
<1>3. IsFiniteSet(Workers)
    BY PoolAssumption DEF PoolAssumption
<1>4. /\ SumFunction(f) \in Nat /\ SumFunction(g) \in Nat
      /\ SumFunction(g) = SumFunction(f) - f[w] + g[w]
    <2>1. f \in [Workers -> Nat]
        BY <1>2
    <2>2. g \in [Workers -> Nat]
        BY <1>2
    <2>3. \A v \in Workers \ {w} : g[v] = f[v]
        BY <1>2
    <2>4. QED
        BY <1>3, <2>1, <2>2, <2>3, SumDiffersAt
<1>5. QED
    BY <1>1, <1>2, <1>4

\* What a worker does takes it at least one step nearer to its end.
LEMMA WorkerStepIsOneLess ==
    ASSUME TypeOK, NEW w \in Workers, WorkerStep(w)
    PROVE  SumFunction(WorkLeft') < SumFunction(WorkLeft)
<1>1. ASSUME NEW label \in PCs, pc' = [pc EXCEPT ![w] = label], Left[label] < Left[pc[w]]
      PROVE  SumFunction(WorkLeft') < SumFunction(WorkLeft)
    <2>1. pc \in [Workers -> PCs] /\ pc[w] \in PCs
        BY DEF TypeOK
    <2>2. /\ SumFunction(WorkLeft) \in Nat
          /\ SumFunction(WorkLeft') = SumFunction(WorkLeft) - Left[pc[w]] + Left[label]
        BY <1>1, <2>1, WorkerMoves
    <2>3. Left[pc[w]] \in Nat /\ Left[label] \in Nat
        BY <2>1, LeftType
    <2>4. QED
        BY <1>1, <2>2, <2>3
<1>2. CASE Quit(w) \/ LoseToken(w)
    BY <1>1, <1>2, LeftType DEF Quit, LoseToken, Goto, PCs
<1>3. CASE TakeToken(w)
    BY <1>1, <1>3, LeftType DEF TakeToken, Goto, PCs
<1>4. CASE Probe(w)
    <2>1. PICK label \in {"idle", "send"} : pc' = [pc EXCEPT ![w] = label]
        BY <1>4 DEF Probe, Goto
    <2>2. pc[w] = "probe"
        BY <1>4 DEF Probe
    <2>3. label \in PCs /\ Left[label] \in {1, 2} /\ Left[pc[w]] = 3
        BY <2>2, LeftType DEF PCs
    <2>4. label \in PCs /\ Left[label] < Left[pc[w]]
        BY <2>3
    <2>5. QED
        BY <1>1, <2>1, <2>4
<1>5. CASE Deliver(w)
    BY <1>1, <1>5, LeftType DEF Deliver, Goto, PCs
<1>6. CASE Abandon(w)
    <2>1. PICK label \in {"idle", "done"} : pc' = [pc EXCEPT ![w] = label]
        BY <1>6 DEF Abandon, Goto
    <2>2. pc[w] = "send"
        BY <1>6 DEF Abandon
    <2>3. label \in PCs /\ Left[label] \in {1, 0} /\ Left[pc[w]] = 2
        BY <2>2, LeftType DEF PCs
    <2>4. label \in PCs /\ Left[label] < Left[pc[w]]
        BY <2>3
    <2>5. QED
        BY <1>1, <2>1, <2>4
<1>7. QED
    BY <1>2, <1>3, <1>4, <1>5, <1>6 DEF WorkerStep

\* A job that is fed costs the worker three steps more and the feeder's four.
LEMMA FeedIsOneLess ==
    ASSUME TypeOK, NEW w \in Workers, Feed(w)
    PROVE  StepsLeft' < StepsLeft
<1>1. /\ pc \in [Workers -> PCs] /\ pc[w] = "idle" /\ pc' = [pc EXCEPT ![w] = "token"]
      /\ next \in Nat /\ next' = next + 1
      /\ UNCHANGED <<jobsClosed, resultsClosed, returned, cancelled>>
    BY DEF Feed, TypeOK, caller
<1>2. /\ SumFunction(WorkLeft) \in Nat
      /\ SumFunction(WorkLeft') = SumFunction(WorkLeft) + 3
    <2>1. "token" \in PCs
        BY DEF PCs
    <2>2. /\ SumFunction(WorkLeft) \in Nat
          /\ SumFunction(WorkLeft') = SumFunction(WorkLeft) - Left[pc[w]] + Left["token"]
        BY <1>1, <2>1, WorkerMoves
    <2>3. QED
        BY <1>1, <2>2, LeftType
<1>3. \A flag : Once(flag) \in {0, 1}
    BY DEF Once
<1>4. QED
    BY <1>1, <1>2, <1>3, PoolAssumption DEF StepsLeft, PoolAssumption

LEMMA WorkLeftIsNat ==
    ASSUME NEW labels \in [Workers -> PCs]
    PROVE  SumFunction([w \in Workers |-> Left[labels[w]]]) \in Nat
<1> DEFINE f == [w \in Workers |-> Left[labels[w]]]
<1>1. f \in [Workers -> Nat]
    BY LeftType
<1> HIDE DEF f
<1>2. SumFunction(f) \in Nat
    BY <1>1, PoolAssumption, SumIsNat DEF PoolAssumption
<1>3. QED
    BY <1>2 DEF f

LEMMA StepsLeftIsNat ==
    ASSUME TypeOK
    PROVE  StepsLeft \in Nat
<1>1. SumFunction(WorkLeft) \in Nat
    BY WorkLeftIsNat DEF WorkLeft, TypeOK
<1>2. \A flag : Once(flag) \in {0, 1}
    BY DEF Once
<1>3. 4 * (NumJobs + 1 - next) \in Nat
    BY PoolAssumption DEF PoolAssumption, TypeOK
<1>4. QED
    BY <1>1, <1>2, <1>3 DEF StepsLeft

LEMMA StepIsOneLess == PoolInv /\ [Next]_vars => [StepsLeft' < StepsLeft]_vars
<1> SUFFICES ASSUME PoolInv, Next, vars' # vars PROVE StepsLeft' < StepsLeft
    OBVIOUS
<1>1. TypeOK /\ TypeOK'
    BY PoolInvInductive DEF PoolInv
<1>2. \A flag : Once(flag) \in {0, 1}
    BY DEF Once
<1>3. /\ SumFunction(WorkLeft) \in Nat /\ SumFunction(WorkLeft') \in Nat
      /\ 4 * (NumJobs + 1 - next) \in Nat
    <2>1. SumFunction(WorkLeft) \in Nat
        BY <1>1, WorkLeftIsNat DEF WorkLeft, TypeOK
    <2>2. SumFunction(WorkLeft') \in Nat
        BY <1>1, WorkLeftIsNat DEF WorkLeft, TypeOK
    <2>3. 4 * (NumJobs + 1 - next) \in Nat
        BY <1>1, PoolAssumption DEF PoolAssumption, TypeOK
    <2>4. QED
        BY <2>1, <2>2, <2>3
<1>4. ASSUME NEW w \in Workers, WorkerStep(w) PROVE StepsLeft' < StepsLeft
    <2>1. SumFunction(WorkLeft') < SumFunction(WorkLeft)
        BY <1>1, <1>4, WorkerStepIsOneLess
    <2>2. UNCHANGED <<next, jobsClosed, resultsClosed, returned, cancelled>>
        BY <1>4 DEF WorkerStep, Quit, TakeToken, LoseToken, Probe, Deliver, Abandon, feeder,
                    caller
    <2>3. QED
        BY <1>2, <1>3, <2>1, <2>2 DEF StepsLeft
<1>5. ASSUME UNCHANGED <<next, pc>>,
             \/ /\ ~jobsClosed /\ jobsClosed'
                /\ UNCHANGED <<resultsClosed, returned, cancelled>>
             \/ /\ ~resultsClosed /\ resultsClosed'
                /\ UNCHANGED <<jobsClosed, returned, cancelled>>
             \/ /\ ~returned /\ returned'
                /\ UNCHANGED <<jobsClosed, resultsClosed, cancelled>>
             \/ /\ ~cancelled /\ cancelled'
                /\ UNCHANGED <<jobsClosed, resultsClosed, returned>>
      PROVE  StepsLeft' < StepsLeft
    <2>1. WorkLeft' = WorkLeft
        BY <1>5 DEF WorkLeft
    <2>2. QED
        BY <1>2, <1>3, <1>5, <2>1 DEF StepsLeft, Once
<1>6. CASE CloseJobs \/ CloseResults \/ Return \/ Cancel
    BY <1>5, <1>6 DEF CloseJobs, CloseResults, Return, Cancel, feeder, worker, caller
<1>7. CASE Rest
    BY <1>7 DEF Rest
<1>8. QED
    BY <1>1, <1>4, <1>6, <1>7, FeedIsOneLess DEF Next

\* Each step of the pool makes StepsLeft, a natural number, smaller: no goroutine loops,
\* and no pool takes more than four steps for each job, one for each worker and four.
THEOREM PoolStepsRunOut ==
    Spec => /\ StepsLeft \in Nat
            /\ [][StepsLeft' \in Nat /\ StepsLeft' < StepsLeft]_vars
<1>1. PoolInv => StepsLeft \in Nat
    BY StepsLeftIsNat DEF PoolInv
<1>2. PoolInv /\ PoolInv' /\ [Next]_vars => [StepsLeft' \in Nat /\ StepsLeft' < StepsLeft]_vars
    <2>1. PoolInv' => (StepsLeft \in Nat)'
        BY <1>1, PTL
    <2>2. QED
        BY <2>1, StepIsOneLess
<1>3. QED
    BY <1>1, <1>2, PoolInvInit, PoolInvariant, PTL DEF Spec

\* The goroutines never wait for each other in a circle: until all have returned, one of
\* them can go on, and for that nobody need cancel the context.
THEOREM PoolNeverDeadlocks == Spec => [](AllDone \/ SomebodyCanGoOn)
<1>1. PoolInv => AllDone \/ SomebodyCanGoOn
    <2> SUFFICES ASSUME PoolInv, ~SomebodyCanGoOn PROVE AllDone
        OBVIOUS
    <2>1. \A w \in Workers : pc[w] \in PCs
        BY DEF PoolInv, TypeOK
    <2>2. \A w \in Workers : pc[w] \in {"idle", "done"}
        BY <2>1 DEF SomebodyCanGoOn, PoolInv, Closing, PCs
    <2>3. next > NumJobs \/ next <= NumJobs
        BY PoolAssumption DEF PoolInv, TypeOK, PoolAssumption
    <2>4. jobsClosed
        <3>1. CASE \A w \in Workers : pc[w] = "done"
            BY <2>3, <3>1, PoolAssumption DEF SomebodyCanGoOn, PoolInv, Closing, PoolAssumption
        <3>2. CASE \E w \in Workers : pc[w] = "idle"
            BY <2>3, <3>2 DEF SomebodyCanGoOn
        <3>3. QED
            BY <2>2, <3>1, <3>2
    <2>5. \A w \in Workers : pc[w] = "done"
        BY <2>2, <2>4 DEF SomebodyCanGoOn
    <2>6. QED
        BY <2>4, <2>5 DEF SomebodyCanGoOn, AllDone
<1>2. QED
    BY <1>1, PoolInvariant, PTL
=============================================================================
