------------------------------ MODULE ProbePool ------------------------------
(***************************************************************************)
(* The bounded worker pool that TCP discovery, ICMP discovery, the service *)
(* scan and HTTP enrichment are each built as: a feeder goroutine sends    *)
(* jobs on an unbuffered channel and closes it, workers probe and send     *)
(* results on another, a closer goroutine waits for the workers and closes *)
(* the results, and the caller collects until then.  A send on an          *)
(* unbuffered channel is one step of sender and receiver together.  The    *)
(* four pools differ in a few lines, told apart by kind.                   *)
(***************************************************************************)
EXTENDS Integers, FiniteSets

CONSTANTS
    Workers,    \* the worker goroutines
    NumJobs     \* the jobs: address and port pairs, or addresses, in feeding order

ASSUME PoolAssumption == IsFiniteSet(Workers) /\ Workers # {} /\ NumJobs \in Nat

Jobs == 1..NumJobs
NoJob == 0

Kinds == {"discover", "icmp", "scan", "enrich"}

VARIABLES
    kind,           \* which of the four pools this is
    answers,        \* the jobs whose probe is positive on this network
    cancelled,      \* the caller's context is done
    next,           \* the job the feeder sends next
    jobsClosed,     \* the feeder has returned
    pc,             \* worker -> what it is about to do
    job,            \* worker -> the job it holds
    found,          \* worker -> the outcome it holds
    resultsClosed,  \* the closer has returned
    reported,       \* job -> positive results the collector took for it
    returned        \* the caller has its answer

network == <<kind, answers>>
feeder  == <<next, jobsClosed>>
worker  == <<pc, job, found>>
caller  == <<resultsClosed, reported, returned>>
vars    == <<network, cancelled, feeder, worker, caller>>

PCs == {"idle", "token", "probe", "send", "done"}

TypeOK ==
    /\ kind \in Kinds
    /\ answers \in SUBSET Jobs
    /\ cancelled \in BOOLEAN
    /\ next \in 1..(NumJobs + 1)
    /\ jobsClosed \in BOOLEAN
    /\ pc \in [Workers -> PCs]
    /\ job \in [Workers -> Jobs \cup {NoJob}]
    /\ found \in [Workers -> BOOLEAN]
    /\ resultsClosed \in BOOLEAN
    /\ reported \in [Jobs -> Nat]
    /\ returned \in BOOLEAN

Init ==
    /\ kind \in Kinds
    /\ answers \in SUBSET Jobs
    /\ cancelled = FALSE
    /\ next = 1
    /\ jobsClosed = FALSE
    /\ pc = [w \in Workers |-> "idle"]
    /\ job = [w \in Workers |-> NoJob]
    /\ found = [w \in Workers |-> FALSE]
    /\ resultsClosed = FALSE
    /\ reported = [j \in Jobs |-> 0]
    /\ returned = FALSE

-----------------------------------------------------------------------------
(* The feeder *)

\* Mutation of Feed: the loop runs past its last job.
FeedPastEnd(w) ==
    /\ ~jobsClosed
    /\ pc[w] = "idle"
    /\ next' = next + 1
    /\ pc' = [pc EXCEPT ![w] = "token"]
    /\ job' = [job EXCEPT ![w] = next]
    /\ UNCHANGED <<network, cancelled, jobsClosed, found, caller>>

\* case jobs <- job: a worker waiting in its select takes the job.
Feed(w) ==
    /\ ~jobsClosed /\ next <= NumJobs
    /\ pc[w] = "idle"
    /\ next' = next + 1
    /\ pc' = [pc EXCEPT ![w] = "token"]
    /\ job' = [job EXCEPT ![w] = next]
    /\ UNCHANGED <<network, cancelled, jobsClosed, found, caller>>

\* Mutation of CloseJobs: the feeder sends without watching ctx.Done().
CloseJobsAtEnd ==
    /\ ~jobsClosed
    /\ next > NumJobs
    /\ jobsClosed' = TRUE
    /\ UNCHANGED <<network, cancelled, next, worker, caller>>

\* The loops end, or ctx.Done() is chosen: return, and the deferred close(jobs).
CloseJobs ==
    /\ ~jobsClosed
    /\ next > NumJobs \/ cancelled
    /\ jobsClosed' = TRUE
    /\ UNCHANGED <<network, cancelled, next, worker, caller>>

-----------------------------------------------------------------------------
(* A worker *)

Goto(w, label) == pc' = [pc EXCEPT ![w] = label]

\* case <-ctx.Done(), or a receive from the closed and drained jobs channel.
Quit(w) ==
    /\ pc[w] = "idle"
    /\ cancelled \/ jobsClosed
    /\ Goto(w, "done")
    /\ UNCHANGED <<network, cancelled, feeder, job, found, caller>>

\* limiter.Wait grants a token.  Enrichment has no limiter: its step is empty.
TakeToken(w) ==
    /\ pc[w] = "token"
    /\ Goto(w, "probe")
    /\ UNCHANGED <<network, cancelled, feeder, job, found, caller>>

\* Mutation of LoseToken: the limiter's burst is smaller than one probe needs.
LoseTokenAnytime(w) ==
    /\ pc[w] = "token" /\ kind # "enrich"
    /\ Goto(w, "done")
    /\ UNCHANGED <<network, cancelled, feeder, job, found, caller>>

\* limiter.Wait fails, which it does only when the context is done: return.
LoseToken(w) ==
    /\ pc[w] = "token" /\ cancelled /\ kind # "enrich"
    /\ Goto(w, "done")
    /\ UNCHANGED <<network, cancelled, feeder, job, found, caller>>

\* Mutation of Outcomes: an error counts as an answer.
OutcomesTrusting(j) == {TRUE}

\* What a probe may find: what the network answers, or, when the context ends
\* during it, an error that counts as no answer.
Outcomes(j) == {j \in answers} \cup (IF cancelled THEN {FALSE} ELSE {})

\* Dial, ping or GET.  All but the ICMP pool send negative outcomes too.
Probe(w) ==
    /\ pc[w] = "probe"
    /\ \E outcome \in Outcomes(job[w]) :
        /\ found' = [found EXCEPT ![w] = outcome]
        /\ Goto(w, IF kind = "icmp" /\ ~outcome THEN "idle" ELSE "send")
    /\ UNCHANGED <<network, cancelled, feeder, job, caller>>

\* case results <- result: the collector takes it and keeps it if positive.
Deliver(w) ==
    /\ pc[w] = "send" /\ ~resultsClosed
    /\ reported' = IF found[w] THEN [reported EXCEPT ![job[w]] = @ + 1] ELSE reported
    /\ Goto(w, "idle")
    /\ UNCHANGED <<network, cancelled, feeder, job, found, resultsClosed, returned>>

\* case <-ctx.Done() instead: return, except that the service scan goes back to
\* its loop when the result it drops is a closed port.
Abandon(w) ==
    /\ pc[w] = "send" /\ cancelled
    /\ Goto(w, IF kind = "scan" /\ ~found[w] THEN "idle" ELSE "done")
    /\ UNCHANGED <<network, cancelled, feeder, job, found, caller>>

-----------------------------------------------------------------------------
(* The closer and the caller *)

\* Mutation of CloseResults: the first worker to end closes the channel.
CloseResultsEarly ==
    /\ ~resultsClosed
    /\ \E w \in Workers : pc[w] = "done"
    /\ resultsClosed' = TRUE
    /\ UNCHANGED <<network, cancelled, feeder, worker, reported, returned>>

\* wg.Wait() and close(results).
CloseResults ==
    /\ ~resultsClosed
    /\ \A w \in Workers : pc[w] = "done"
    /\ resultsClosed' = TRUE
    /\ UNCHANGED <<network, cancelled, feeder, worker, reported, returned>>

\* Mutation of Return: the range over results ends with the jobs, not with results.
ReturnWithJobs ==
    /\ jobsClosed /\ ~returned
    /\ returned' = TRUE
    /\ UNCHANGED <<network, cancelled, feeder, worker, resultsClosed, reported>>

\* The range over results ends.  The error returned is nil even if the context
\* was cancelled: Scan lets only other context errors through, the rest none.
Return ==
    /\ resultsClosed /\ ~returned
    /\ returned' = TRUE
    /\ UNCHANGED <<network, cancelled, feeder, worker, resultsClosed, reported>>

\* The signal handler cancels the context.
Cancel ==
    /\ ~cancelled /\ ~returned
    /\ cancelled' = TRUE
    /\ UNCHANGED <<network, feeder, worker, caller>>

\* Every goroutine has returned.
AllDone == returned /\ jobsClosed /\ \A w \in Workers : pc[w] = "done"
Rest == AllDone /\ UNCHANGED vars

WorkerStep(w) ==
    \/ Quit(w)
    \/ TakeToken(w)
    \/ LoseToken(w)
    \/ Probe(w)
    \/ Deliver(w)
    \/ Abandon(w)

Next ==
    \/ \E w \in Workers : Feed(w)
    \/ \E w \in Workers : WorkerStep(w)
    \/ CloseJobs
    \/ CloseResults
    \/ Return
    \/ Cancel
    \/ Rest

\* Every goroutine is scheduled again and again; nobody is obliged to interrupt.
Fairness ==
    /\ WF_vars(\E w \in Workers : Feed(w))
    /\ \A w \in Workers : WF_vars(WorkerStep(w))
    /\ WF_vars(CloseJobs)
    /\ WF_vars(CloseResults)
    /\ WF_vars(Return)

Spec == Init /\ [][Next]_vars
FairSpec == Spec /\ Fairness

-----------------------------------------------------------------------------
(* Properties *)

\* A run that nobody interrupted misses nothing: when the caller returns, it has
\* a positive result for exactly the jobs whose probe is positive.
CompleteUnlessCancelled ==
    returned /\ ~cancelled => \A j \in Jobs : (reported[j] > 0) <=> (j \in answers)

\* Interrupted or not, no job is reported twice and none is reported that the
\* network did not answer: a port is listed at most once, and only if open.
ReportedOnceAndTruly ==
    \A j \in Jobs : reported[j] <= 1 /\ (reported[j] = 1 => j \in answers)

\* No worker can still send when the results channel is closed (a panic), and
\* none holds a job whose slot another worker fills.
NoSendOnClosed ==
    /\ resultsClosed => \A w \in Workers : pc[w] = "done"
    /\ \A v, w \in Workers :
        v # w /\ {pc[v], pc[w]} \subseteq {"token", "probe", "send"} => job[v] # job[w]

\* The pool implements the call its users see: whatever the goroutines do, the
\* caller is given true answers one by one and returns with all of them, or its
\* context is done.
Call == INSTANCE ProbeCall WITH
    Probes <- Jobs, collected <- {j \in Jobs : reported[j] > 0}
ImplementsProbeCall == Call!CallSpec

\* Interrupted at any moment or never, the pool returns and leaks no goroutine:
\* feeder, workers and closer all end.
EverythingReturns == <>[]AllDone
=============================================================================
