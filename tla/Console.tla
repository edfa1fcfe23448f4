------------------------------ MODULE Console ------------------------------
(***************************************************************************)
(* What a person sees while scan and watch run: the dashboard, whose page  *)
(* fetches five answers side by side and draws them (internal/dashboard),  *)
(* and the notifications of a watch (internal/notify).  Both read what the *)
(* writers of Monitor commit, each read by itself and with no transaction  *)
(* around them.                                                            *)
(***************************************************************************)
EXTENDS Monitor, Analysis

CONSTANTS
    shownTarget,    \* the target the dashboard was given
    Notifying,      \* the watches started with --notify
    notifyLevel,    \* their --notify-level
    CardLimit,      \* findings and events a card counts at most (1000)
    FindingRows,    \* findings the page lists at most (100)
    EventRows,      \* events it lists at most (200)
    Waiting,        \* an answer that has not arrived
    MaxRefreshes    \* bound of the model: refreshes of the page

ASSUME ConsoleAssumption ==
    /\ shownTarget \in Targets
    /\ Notifying \subseteq Watches
    /\ notifyLevel \in Severities
    /\ CardLimit \in Nat
    /\ FindingRows \in 1..CardLimit /\ EventRows \in 1..CardLimit
    /\ Prints \subseteq Metadata
    /\ IsFiniteSet(Targets) /\ IsFiniteSet(Ports)

VARIABLES
    pending,        \* client -> the events it still has to consider
    toasts,         \* the notifications shown: a bag, for one may be shown again
    refresh,        \* the refresh of the page under way
    page            \* what the page shows

consoleVars == <<monitorVars, pending, toasts, refresh, page>>

\* Mutation of SummaryReads: the snapshot is loaded first.
SummaryReadsSwapped == <<"snapshot", "assets", "findings", "events", "monitoring">>

\* The reads of DashboardSummary, in its order, and the four lists, in the order
\* the page draws them.
SummaryReads == <<"assets", "snapshot", "findings", "events", "monitoring">>

Lists == <<"assetRows", "eventRows", "findingRows", "webRows">>

Reads == Range(SummaryReads) \cup Range(Lists)

NoAnswers == [r \in Reads |-> Waiting]

ConsoleInit ==
    /\ MonitorInit
    /\ pending = [c \in Clients |-> {}]
    /\ toasts = EmptyBag
    /\ refresh = [phase |-> "idle", made |-> 0, answers |-> NoAnswers, began |-> <<>>]
    /\ page = [text |-> "loading", shown |-> NoAnswers]

-----------------------------------------------------------------------------
(* Notifications *)

Severity(change) == EventSeverity(change.type, change.port)

\* The events made of a snapshot's changes.
Notices(c) == [at : {work[c].at}, change : work[c].changes]

\* Mutation of Considered: the events are shown before they are saved.
ConsideredEarly(c) ==
    pending' = [pending EXCEPT ![c] =
        IF c \in Notifying /\ stage[c] = "status" /\ stage'[c] = "events"
        THEN Notices(c) ELSE {}]

\* Mutation of Considered: the watch goes through the recorded events, not through
\* those of its cycle.
ConsideredRecorded(c) ==
    pending' = [pending EXCEPT ![c] =
        IF c \in Notifying /\ stage[c] = "events" /\ stage'[c] = "wait"
        THEN UNION {[at : {batch.at}, change : batch.changes] :
                        batch \in Range(events'[targetOf[c]])}
        ELSE {}]

\* Once SaveEvents has returned, a watch that notifies goes through its events.
Considered(c) ==
    pending' = [pending EXCEPT ![c] =
        IF c \in Notifying /\ stage[c] = "events" /\ stage'[c] = "wait"
        THEN Notices(c) ELSE {}]

\* A client goes on when it has gone through its events; dying leaves the rest.
ClientStep(c) ==
    /\ \/ pending[c] = {} /\ MonitorStep(c)
       \/ pending[c] # {} /\ Crash(c)
    /\ Considered(c)
    /\ UNCHANGED <<toasts, refresh, page>>

ToastBag == INSTANCE BagsExt

\* One turn of the loop over the events; showing one may fail, and the loop goes
\* on.  The order of the events is that of a map.
Consider(c) ==
    /\ \E n \in pending[c] :
        /\ pending' = [pending EXCEPT ![c] = @ \ {n}]
        /\ \/ /\ ShouldNotify(Severity(n.change), notifyLevel)
              /\ toasts' = ToastBag!BagAdd(toasts, [by |-> c, at |-> n.at, change |-> n.change])
           \/ UNCHANGED toasts
    /\ UNCHANGED <<monitorVars, refresh, page>>

-----------------------------------------------------------------------------
(* What the queries return: of a list, its length. *)

Least(n, limit) == IF n < limit THEN n ELSE limit

\* Assets of the target, and those DashboardSummary counts as active.
KnownRows(t) == {k \in Identities : assets[t][k] # NoRow}
ActiveRows(t) == {k \in KnownRows(t) : assets[t][k].state \in {"ACTIVE", "NEW"}}

\* The services and web interfaces of the hosts of a snapshot.
ServicesOf(hosts) ==
    UNION {{<<ip, p>> : p \in OpenPorts(hosts[ip].svc)} :
            ip \in {j \in IPs : hosts[j] # Absent}}
WebOf(hosts) == {s \in ServicesOf(hosts) : IsWeb(s[2])}

\* Snapshot.Findings, as performScanCycle fills it.
FindingsOf(hosts) ==
    UNION {{<<s, f>> : f \in AuthExposure(s[2])
                             \cup FingerprintFindings(hosts[s[1]].svc[s[2]])} :
            s \in ServicesOf(hosts)}

\* The findings of the scans of one target.
StoredFindings(log) ==
    SumFunction([n \in DOMAIN log |-> Cardinality(FindingsOf(log[n].hosts))])

\* RecentFindings has no target.
RecentFindings(limit) ==
    Least(SumFunction([t \in Targets |-> StoredFindings(scans[t])]), limit)

Recorded(t) ==
    SumFunction([n \in DOMAIN events[t] |-> Cardinality(events[t][n].changes)])

RecentEvents(t, limit) == Least(Recorded(t), limit)

\* Mutation of LatestWebInterfaces: the rows are not those of one scan.
AllWebInterfaces(t) ==
    SumFunction([n \in DOMAIN scans[t] |-> Cardinality(WebOf(scans[t][n].hosts))])

LatestWebInterfaces(t) ==
    IF ~HasSnapshot(t) THEN 0 ELSE Cardinality(WebOf(LatestSnapshot(t).hosts))

NoSnapshot == [at |-> 0, services |-> 0]

Answer(r) ==
    LET t == shownTarget
    IN  CASE r = "assets" ->
                [all |-> Cardinality(KnownRows(t)), active |-> Cardinality(ActiveRows(t))]
          [] r = "snapshot" ->
                IF ~HasSnapshot(t) THEN NoSnapshot
                ELSE [at |-> LatestSnapshot(t).at,
                      services |-> Cardinality(ServicesOf(LatestSnapshot(t).hosts))]
          [] r = "findings"    -> RecentFindings(CardLimit)
          [] r = "events"      -> RecentEvents(t, CardLimit)
          [] r = "monitoring"  -> monitoring[t]
          [] r = "assetRows"   -> Cardinality(KnownRows(t))
          [] r = "findingRows" -> Least(RecentFindings(2 * FindingRows), FindingRows)
          [] r = "eventRows"   -> RecentEvents(t, EventRows)
          [] r = "webRows"     -> LatestWebInterfaces(t)

-----------------------------------------------------------------------------
(* A refresh of the page *)

\* How much of the database there is: it only grows.
Version == <<[t \in Targets |-> Len(scans[t])], Len(events[shownTarget])>>

StartRefresh ==
    /\ refresh.phase # "reading" /\ refresh.made < MaxRefreshes
    /\ refresh' = [phase |-> "reading", made |-> refresh.made + 1,
                   answers |-> NoAnswers, began |-> Version]
    /\ UNCHANGED <<monitorVars, pending, toasts, page>>

\* The reads of the summary are made one after the other; a list by itself.
ReadBefore(r, s) ==
    \E m, n \in DOMAIN SummaryReads :
        m < n /\ SummaryReads[m] = s /\ SummaryReads[n] = r

Read ==
    /\ refresh.phase = "reading"
    /\ \E r \in Reads :
        /\ refresh.answers[r] = Waiting
        /\ \A s \in Reads : ReadBefore(r, s) => refresh.answers[s] # Waiting
        /\ refresh' = [refresh EXCEPT !.answers[r] = Answer(r)]
    /\ UNCHANGED <<monitorVars, pending, toasts, page>>

\* Opening the store or a read fails: Promise.all rejects and nothing is drawn.
FailRequest ==
    /\ refresh.phase = "reading"
    /\ \E r \in Reads : refresh.answers[r] = Waiting
    /\ refresh' = [refresh EXCEPT !.phase = "failed", !.answers = NoAnswers]
    /\ page' = [page EXCEPT !.text = "error"]
    /\ UNCHANGED <<monitorVars, pending, toasts>>

\* A list without rows is the JSON null, whose map, slice or length throws: the
\* cards and the monitoring text are drawn by then, that list and those after it
\* are not.
Drawn(answers, r) ==
    \/ r \in Range(SummaryReads)
    \/ \E n \in DOMAIN Lists :
        Lists[n] = r /\ \A m \in 1..n : answers[Lists[m]] > 0

Draw ==
    /\ refresh.phase = "reading"
    /\ \A r \in Reads : refresh.answers[r] # Waiting
    /\ refresh' = [refresh EXCEPT !.phase = "drawn", !.answers = NoAnswers]
    /\ page' = [text  |-> IF \A r \in Reads : Drawn(refresh.answers, r)
                          THEN "monitoring" ELSE "error",
                shown |-> [r \in Reads |-> IF Drawn(refresh.answers, r)
                                           THEN refresh.answers[r] ELSE page.shown[r]]]
    /\ UNCHANGED <<monitorVars, pending, toasts>>

ConsoleNext ==
    \/ \E c \in Clients : ClientStep(c) \/ Consider(c)
    \/ StartRefresh
    \/ Read
    \/ FailRequest
    \/ Draw

ConsoleSpec == ConsoleInit /\ [][ConsoleNext]_consoleVars

-----------------------------------------------------------------------------
(* Properties *)

\* The hosts of the n-th scan of the shown target; before the first there are none.
HostsAt(n) ==
    IF n = 0 THEN [ip \in IPs |-> Absent] ELSE scans[shownTarget][n].hosts

SightedBy(n) ==
    {k \in Identities : \E m \in 0..n : Holders(HostsAt(m), k) # {}}

\* DashboardSummary reads the assets first and the snapshot later: the cards may
\* be of two scans, but each is of one that was the latest during the refresh,
\* and the services and the time shown are never of an earlier scan than the
\* assets.
SummaryIsOfConsecutiveScans ==
    refresh.phase = "drawn" =>
        \E n \in refresh.began[1][shownTarget] .. Len(scans[shownTarget]) :
        \E m \in refresh.began[1][shownTarget] .. n :
            LET shown == page.shown
            IN  /\ shown.assets =
                    [all    |-> Cardinality(SightedBy(m)),
                     active |-> Cardinality({k \in Identities : Holders(HostsAt(m), k) # {}})]
                /\ shown.snapshot =
                    [at       |-> IF n = 0 THEN 0 ELSE scans[shownTarget][n].at,
                     services |-> Cardinality(ServicesOf(HostsAt(n)))]

\* When nothing was committed while the page was fetched, what it draws agrees
\* with itself and with the scans, though nine reads made it: rows and cards count
\* the same up to their limits, and no event is counted that no scan saved.
QuietPageAgrees ==
    (refresh.phase = "drawn" /\ page.text = "monitoring" /\ refresh.began = Version) =>
        LET shown  == page.shown
            log    == scans[shownTarget]
            latest == Last(log)
        IN  /\ shown.assetRows = shown.assets.all
            /\ shown.findingRows = Least(shown.findings, FindingRows)
            /\ shown.findings >= Least(Cardinality(FindingsOf(latest.hosts)), CardLimit)
            /\ shown.eventRows = Least(shown.events, EventRows)
            /\ shown.events <=
                    SumFunction([n \in DOMAIN log |-> Cardinality(log[n].changes)])
            /\ shown.webRows \in 1..shown.snapshot.services
            /\ shown.snapshot.at = latest.at

\* Every notification is of an event that is in the database already and is at
\* least as severe as asked for: none is of the differences a baseline drops, of
\* a cycle whose events were not saved, or of a scan.
ToastsAreRecordedEvents ==
    \A n \in DOMAIN toasts :
        /\ \E batch \in Range(events[targetOf[n.by]]) :
                batch.at = n.at /\ n.change \in batch.changes
        /\ SeverityRank[Severity(n.change)] <= SeverityRank[notifyLevel]

\* No event is shown twice, neither by the watch that recorded it nor by another of
\* the same target, though they compare with each other's snapshots, die and start
\* again with nothing that says what was shown.
ToastsShownOnce ==
    /\ \A n \in DOMAIN toasts : toasts[n] = 1
    /\ \A m, n \in DOMAIN toasts :
        targetOf[m.by] = targetOf[n.by] /\ m.at = n.at /\ m.change = n.change => m = n

\* The page says "Dashboard error" only when a request failed: of a target without
\* events it says "No events recorded." (server.go).
ErrorsAreFailedRequests == page.text = "error" => refresh.phase # "drawn"
=============================================================================
