----------------------------- MODULE ProbeCall -----------------------------
(***************************************************************************)
(* What the caller of Scan, Discover, DiscoverICMP or Enrich may rely on,  *)
(* without goroutines or channels: answers are collected one by one, each  *)
(* of them true, and the call returns all of them unless its context is    *)
(* cancelled first.  ProbePool implements this.                            *)
(***************************************************************************)
CONSTANT Probes         \* what the caller asks for: addresses, or addresses and ports

VARIABLES
    answers,            \* the probes the network answers
    cancelled,          \* the caller's context is done
    collected,          \* the probes collected so far
    returned            \* the call has returned

callVars == <<answers, cancelled, collected, returned>>

CallInit ==
    /\ answers \in SUBSET Probes
    /\ cancelled = FALSE
    /\ collected = {}
    /\ returned = FALSE

Collect(j) ==
    /\ ~returned
    /\ j \in answers \ collected
    /\ collected' = collected \cup {j}
    /\ UNCHANGED <<answers, cancelled, returned>>

\* No error is returned with a partial answer: cancellation is all that excuses it.
ReturnAnswers ==
    /\ ~returned
    /\ cancelled \/ collected = answers
    /\ returned' = TRUE
    /\ UNCHANGED <<answers, cancelled, collected>>

CancelCall ==
    /\ ~cancelled /\ ~returned
    /\ cancelled' = TRUE
    /\ UNCHANGED <<answers, collected, returned>>

CallNext ==
    \/ \E j \in Probes : Collect(j)
    \/ ReturnAnswers
    \/ CancelCall

CallSpec == CallInit /\ [][CallNext]_callVars
=============================================================================
