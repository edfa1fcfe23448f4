------------------------------ MODULE Monitor ------------------------------
(***************************************************************************)
(* What the database sees of scan and watch, and what another reader of it *)
(* may rely on: the rows a cycle commits and the order in which it does,   *)
(* without the network, the probing and the reads in between.  ScanCycle   *)
(* is checked to implement this, and Console puts readers beside it.       *)
(***************************************************************************)
EXTENDS AssetStore, SequencesExt

CONSTANTS
    Clients,        \* processes that run scan or watch
    Watches,        \* those that run watch
    targetOf        \* the target each was given

ASSUME MonitorAssumption ==
    /\ Watches \subseteq Clients /\ IsFiniteSet(Clients)
    /\ targetOf \in [Clients -> Targets]
    /\ Times \subseteq Nat \ {0}

VARIABLES
    events,         \* target -> the batches SaveEvents committed for it, in order
    monitoring,     \* target -> its row of table monitoring_status
    stage,          \* client -> the write it makes next
    work            \* client -> what it carries from one write to the next

monitorVars == <<storeVars, events, monitoring, stage, work>>

MonitorStages == {"off", "cycle", "status", "events", "wait", "deactivate"}

\* baselined: the watch has its baseline; at and changes: of the saved snapshot.
Work == [baselined : BOOLEAN, at : Times \cup {0}, changes : SUBSET Change]

Idle(baselined) == [baselined |-> baselined, at |-> 0, changes |-> {}]

Batch == [at : Times, changes : SUBSET Change]

MonitorRow == [active : BOOLEAN, last : Times \cup {0}]
ASSUME MonitorRowAssumption == NoRow \notin MonitorRow

MonitorTypeOK ==
    /\ TypeOK
    /\ events \in [Targets -> Seq(Batch)]
    /\ monitoring \in [Targets -> MonitorRow \cup {NoRow}]
    /\ stage \in [Clients -> MonitorStages]
    /\ work \in [Clients -> Work]

MonitorInit ==
    /\ StoreInit
    /\ events = [t \in Targets |-> <<>>]
    /\ monitoring = [t \in Targets |-> NoRow]
    /\ stage = [c \in Clients |-> "off"]
    /\ work = [c \in Clients |-> Idle(FALSE)]

Move(c, label) == stage' = [stage EXCEPT ![c] = label]

\* The upsert of SetMonitoringStatus: an empty last_scan_at keeps the old one.
WriteStatus(t, active, last) ==
    monitoring' = [monitoring EXCEPT ![t] =
        [active |-> active, last |-> IF last = 0 /\ @ # NoRow THEN @.last ELSE last]]

\* A command starts; a watch marks its target as monitored.
Begin(c) ==
    /\ stage[c] = "off"
    /\ Move(c, "cycle")
    /\ IF c \in Watches THEN WriteStatus(targetOf[c], TRUE, 0) ELSE UNCHANGED monitoring
    /\ UNCHANGED <<storeVars, events, work>>

\* The stamps of all snapshots saved.
Stamps(t) == {scans[t][n].at : n \in DOMAIN scans[t]}

\* The change lists a cycle may save: none when it found no snapshot at its start,
\* else the differences from one that was the latest at that time.
PossibleChanges(t, hosts) ==
    {{}} \cup {Compare(View(scans[t][n].hosts), View(hosts)) : n \in DOMAIN scans[t]}

\* A cycle ends with its snapshot: any hosts, stamped with a time of its own.
Commit(c) ==
    /\ stage[c] = "cycle"
    /\ Move(c, IF c \in Watches THEN "status" ELSE "events")
    /\ Len(scans[targetOf[c]]) < MaxScans
    /\ \E at \in Times \ UNION {Stamps(t) : t \in Targets}, hosts \in Inventories :
        \E changes \in PossibleChanges(targetOf[c], hosts) :
            /\ SaveSnapshot(targetOf[c], hosts, at, changes)
            /\ work' = [work EXCEPT ![c].at = at, ![c].changes = changes]
    /\ UNCHANGED <<events, monitoring>>

\* Mutation of Status: the row is marked inactive between two cycles.
StatusInactive(c) ==
    /\ stage[c] = "status"
    /\ WriteStatus(targetOf[c], work[c].baselined, work[c].at)
    /\ Move(c, IF work[c].baselined THEN "events" ELSE "wait")
    /\ work' = IF work[c].baselined THEN work ELSE [work EXCEPT ![c] = Idle(TRUE)]
    /\ UNCHANGED <<storeVars, events>>

\* The row of a watch names the snapshot just saved; the changes of the first are
\* dropped.
Status(c) ==
    /\ stage[c] = "status"
    /\ WriteStatus(targetOf[c], TRUE, work[c].at)
    /\ Move(c, IF work[c].baselined THEN "events" ELSE "wait")
    /\ work' = IF work[c].baselined THEN work ELSE [work EXCEPT ![c] = Idle(TRUE)]
    /\ UNCHANGED <<storeVars, events>>

\* SaveEvents: one batch, or nothing when nothing changed.
Record(c) ==
    /\ stage[c] = "events"
    /\ events' = IF work[c].changes = {} THEN events
                 ELSE [events EXCEPT ![targetOf[c]] =
                        Append(@, [at |-> work[c].at, changes |-> work[c].changes])]
    /\ Move(c, IF c \in Watches THEN "wait" ELSE "off")
    /\ work' = [work EXCEPT ![c] = Idle(c \in Watches)]
    /\ UNCHANGED <<storeVars, monitoring>>

Again(c) ==
    /\ stage[c] = "wait"
    /\ Move(c, "cycle")
    /\ UNCHANGED <<storeVars, events, monitoring, work>>

\* A signal in the wait, or a failing call before: a watch still has its deferred
\* update to make, a scan is gone.
Stop(c) ==
    /\ \/ stage[c] = "wait"
       \/ stage[c] \in {"cycle", "status", "events"}
    /\ Move(c, IF c \in Watches THEN "deactivate" ELSE "off")
    /\ work' = [work EXCEPT ![c] = Idle(FALSE)]
    /\ UNCHANGED <<storeVars, events, monitoring>>

\* The deferred update, whose error is ignored.
Deactivate(c) ==
    /\ stage[c] = "deactivate"
    /\ WriteStatus(targetOf[c], FALSE, 0) \/ UNCHANGED monitoring
    /\ Move(c, "off")
    /\ UNCHANGED <<storeVars, events, work>>

\* The process dies.
Crash(c) ==
    /\ stage[c] # "off"
    /\ Move(c, "off")
    /\ work' = [work EXCEPT ![c] = Idle(FALSE)]
    /\ UNCHANGED <<storeVars, events, monitoring>>

MonitorStep(c) ==
    \/ Begin(c)
    \/ Commit(c)
    \/ Status(c)
    \/ Record(c)
    \/ Again(c)
    \/ Stop(c)
    \/ Deactivate(c)
    \/ Crash(c)

MonitorNext == \E c \in Clients : MonitorStep(c)

MonitorSpec == MonitorInit /\ [][MonitorNext]_monitorVars

-----------------------------------------------------------------------------
(* Properties *)

\* Two watches of one target share its row.  A watch that waits between two
\* cycles while its row says nobody watches is possible only because another
\* watch of the same target has ended since, and the row is the only thing wrong:
\* it names a saved snapshot all the same.
IdleRowMeansAnotherEnded ==
    \A c \in Watches :
        LET t == targetOf[c]
        IN  stage[c] = "wait" =>
            /\ monitoring[t] # NoRow /\ monitoring[t].last \in Stamps(t)
            /\ ~monitoring[t].active =>
                \E d \in Watches \ {c} : targetOf[d] = t /\ stage[d] = "off"
=============================================================================
