----------------------------- MODULE MCConsole -----------------------------
(***************************************************************************)
(* Three clients and a dashboard: two watches of the shown target, both of *)
(* which notify, and a scan of another target.  The network is one address *)
(* with one web service: a page with a login form on a known card, a page  *)
(* nothing was read of on an unknown card, or nobody.                      *)
(***************************************************************************)
EXTENDS Console

CONSTANTS first, second, other, mac

VARIABLE cast

MCShown == "lan"
MCOther == "office"
MCTargets == {MCShown, MCOther}
MCIPs == {1}
MCPorts == {80}

LoginForm == [scheme |-> "http", login |-> {"password-field"}, hsts |-> FALSE,
              nosniff |-> FALSE]
LoginPage == [http |-> LoginForm, tls |-> NotRead]
Nothing == [http |-> NotRead, tls |-> NotRead]
MCPrints == {LoginPage, Nothing}
MCStoredPrint == [p \in MCPrints |-> p]

MCMACs == {mac}
MCNames == {}
MCNameClass == [n \in MCNames |-> Unknown]
MCChangeLists == {{}}
MCNone == {}

MCHost == {[mac |-> mac, name |-> NoName, svc |-> [p \in MCPorts |-> LoginPage]],
           [mac |-> NoMAC, name |-> NoName, svc |-> [p \in MCPorts |-> Nothing]]}

MCWatches == {first, second}
MCNotifying == MCWatches
MCClients == MCWatches \cup {other}
MCTargetOf == [c \in MCClients |-> IF c = other THEN MCOther ELSE MCShown]
MCTimes == 1..MaxScans

\* Snapshots are stamped in the order they are saved, which nothing here reads.
Saved == SumFunction([t \in Targets |-> Len(scans[t])])
StampsInOrder ==
    \A t \in Targets :
        Len(scans'[t]) > Len(scans[t]) => Last(scans'[t]).at = Saved + 1

\* Who takes part: two watches of one target, both of which notify, and no page;
\* or the page, a watch, and a scan of another target that is over before.  There
\* are three scans in all; while there is a page, at most two are of its target.
MCInit == ConsoleInit /\ cast \in {MCWatches} \cup {{c, other} : c \in MCWatches}

\* The two watches differ in nothing.
MCSymmetry == Permutations(MCWatches)

PageLimits ==
    /\ Len(scans'[MCShown]) <= 2 /\ Len(scans'[MCOther]) <= 1
    /\ stage'[other] # stage[other] =>
            monitoring[MCShown] = NoRow /\ refresh.made = 0
    /\ stage'[other] # "off" =>
            /\ \A c \in MCWatches : stage'[c] = "off"
            /\ refresh'.made = 0

\* The lists are fetched in the order they are drawn and after the summary, which
\* no property tells apart: a list is compared with another answer only when
\* nothing was committed in between.
FetchOrder == SummaryReads \o Lists

FetchedInOrder ==
    \A m, n \in DOMAIN FetchOrder :
        m < n /\ refresh'.phase = "reading" /\ refresh'.answers[FetchOrder[n]] # Waiting =>
            refresh'.answers[FetchOrder[m]] # Waiting

\* Nobody writes while the lists are fetched: what they say is compared with the
\* summary only when nothing was committed, and depends on nothing else.
ListsUndisturbed ==
    (refresh.phase = "reading" /\ \A r \in Range(SummaryReads) : refresh.answers[r] # Waiting)
        => UNCHANGED monitorVars

\* With the last refresh the run is over.
Over == refresh.made = MaxRefreshes /\ refresh.phase # "reading"

MCNext ==
    /\ ~Over
    /\ ConsoleNext /\ UNCHANGED cast /\ StampsInOrder /\ FetchedInOrder /\ ListsUndisturbed
    /\ \A c \in MCClients \ cast : stage'[c] = "off"
    /\ IF other \in cast THEN PageLimits ELSE UNCHANGED refresh

MCSpec == MCInit /\ [][MCNext]_<<consoleVars, cast>>
=============================================================================
