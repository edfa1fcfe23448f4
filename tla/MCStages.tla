------------------------------ MODULE MCStages ------------------------------
(***************************************************************************)
(* The two sequential loops of a scan on their own inputs: the expansion   *)
(* of its target before anything is probed, and the inspection of a web    *)
(* service at its end.  The initial state chooses which of the two runs;   *)
(* the other one has returned.  Addresses have four bits, so that every    *)
(* prefix of every address is tried; three addresses redirect to each      *)
(* other in every way.                                                     *)
(***************************************************************************)
EXTENDS TargetExpand, Inspect

CONSTANTS plain, secure, elsewhere

VARIABLE stage

MCUrls == {plain, secure, elsewhere}
MCSecureUrls == {secure, elsewhere}

\* Expired a day ago, an hour less, ending now, in almost 31 days, in 31 days.
MCHours == {-24, -23, 0, 743, 744}

MCCert(hours) == [hours |-> hours, version |-> "legacy", selfSigned |-> TRUE]

MCPages ==
    {[to |-> NotRead, login |-> login, hsts |-> FALSE, nosniff |-> FALSE,
      cert |-> MCCert(hours)] :
        login \in {{}, {"login-text"}, {"password-field", "login-text"}, {"challenge"}},
        hours \in MCHours}

MCRedirects ==
    {[to |-> u, login |-> {}, hsts |-> TRUE, nosniff |-> TRUE, cert |-> MCCert(0)] :
        u \in MCUrls}

MCResponses == MCPages \cup MCRedirects

stagesVars == <<stage, expandVars, inspectVars>>

ExpandOver ==
    /\ input = [form |-> "address", addr |-> 0, ones |-> 0]
    /\ step = "expanded" /\ current = 0 /\ hosts = <<0>>

InspectOver ==
    /\ site = [u \in Urls |-> NoAnswer]
    /\ start = plain /\ url = plain /\ made = 1
    /\ phase = "returned" /\ metadata = Unread

MCInit ==
    \/ stage = "expand" /\ ExpandInit /\ InspectOver
    \/ stage = "inspect" /\ ExpandOver /\ InspectInit

MCNext ==
    \/ stage = "expand" /\ ExpandNext /\ UNCHANGED <<stage, inspectVars>>
    \/ stage = "inspect" /\ InspectNext /\ UNCHANGED <<stage, expandVars>>

MCSpec == MCInit /\ [][MCNext]_stagesVars /\ WF_stagesVars(MCNext)
=============================================================================
