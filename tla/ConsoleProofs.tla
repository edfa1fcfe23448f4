--------------------------- MODULE ConsoleProofs ---------------------------
(***************************************************************************)
(* Proofs about Monitor and Console, for any number of scans and watches   *)
(* of any targets.  About the writers: their types, that the asset table   *)
(* digests the log whoever writes, and what the monitoring row that        *)
(* watches of one target share may still be relied on for.  About the      *)
(* readers beside them: which notifications there are, and what of one     *)
(* page belongs together.                                                  *)
(***************************************************************************)
EXTENDS Console, AssetStoreProofs

\* A snapshot enters the log with hosts of the schema, changes of the schema that the
\* log may cause, and a stamp that is a time and no other snapshot has; the others stay.
LEMMA CommitEffect ==
    ASSUME TypeOK, NEW c \in Clients, Commit(c)
    PROVE  /\ \E hosts \in Hosts, at \in Times, changes \in SUBSET Change :
                /\ SaveSnapshot(targetOf[c], hosts, at, changes)
                /\ work' = [work EXCEPT ![c].at = at, ![c].changes = changes]
                /\ \A t \in Targets : at \notin Stamps(t)
                /\ changes \in PossibleChanges(targetOf[c], hosts)
           /\ stage' = [stage EXCEPT ![c] = IF c \in Watches THEN "status" ELSE "events"]
           /\ UNCHANGED <<events, monitoring>>
<1>1. targetOf[c] \in Targets
    BY MonitorAssumption DEF MonitorAssumption
<1>2. PICK at \in Times, hosts \in Inventories :
        /\ \A t \in Targets : at \notin Stamps(t)
        /\ \E changes \in PossibleChanges(targetOf[c], hosts) :
            /\ SaveSnapshot(targetOf[c], hosts, at, changes)
            /\ work' = [work EXCEPT ![c].at = at, ![c].changes = changes]
    BY DEF Commit
<1>3. hosts \in Hosts
    BY InventoriesAreHosts
<1>4. ASSUME NEW n \in DOMAIN scans[targetOf[c]]
      PROVE  Compare(View(scans[targetOf[c]][n].hosts), View(hosts)) \in SUBSET Change
    <2>1. scans[targetOf[c]][n] \in Scan
        BY <1>1, <1>4 DEF TypeOK
    <2>2. scans[targetOf[c]][n].hosts \in Hosts
        BY <2>1 DEF Scan, Hosts
    <2>3. QED
        BY <1>3, <2>2, ViewType, CompareType
<1>5. PossibleChanges(targetOf[c], hosts) \subseteq SUBSET Change
    BY <1>4 DEF PossibleChanges
<1>6. QED
    BY <1>2, <1>3, <1>5 DEF Commit, Move

-----------------------------------------------------------------------------
(* The tables *)

\* No other step writes the tables of a snapshot.
LEMMA OnlyCommitSaves ==
    ASSUME NEW c \in Clients, MonitorStep(c)
    PROVE  Commit(c) \/ UNCHANGED storeVars
BY DEF MonitorStep, Begin, Status, Record, Again, Stop, Deactivate, Crash

\* Whatever a step of a client does to the tables is to save a snapshot.
LEMMA MonitorStepSaves == TypeOK /\ [MonitorNext]_monitorVars => [AnySave]_storeVars
<1> SUFFICES ASSUME TypeOK, [MonitorNext]_monitorVars PROVE [AnySave]_storeVars
    OBVIOUS
<1>1. ASSUME NEW c \in Clients, Commit(c) PROVE AnySave
    <2>1. targetOf[c] \in Targets
        BY MonitorAssumption DEF MonitorAssumption
    <2>2. QED
        BY <1>1, <2>1, CommitEffect DEF AnySave
<1>2. QED
    BY <1>1, OnlyCommitSaves DEF MonitorNext, monitorVars

LEMMA MonitorDigestInductive ==
    DigestInv /\ [MonitorNext]_monitorVars => DigestInv'
BY MonitorStepSaves, DigestInvInductive DEF DigestInv

LEMMA MonitorTables == MonitorSpec => []TablesInv
<1>1. MonitorInit => TablesInv
    BY TablesInvInit DEF MonitorInit
<1>2. TablesInv => TypeOK /\ DigestInv
    BY DEF TablesInv, DigestInv
<1>3. QED
    BY <1>1, <1>2, MonitorStepSaves, TablesInvInductive, PTL DEF MonitorSpec

\* Whoever saves, and whatever other processes do in between, the asset table is
\* the digest of the log.
THEOREM MonitorKeepsDigest == MonitorSpec => []AssetsDigestLog
<1>1. TablesInv => AssetsDigestLog
    BY DEF TablesInv, DigestInv
<1>2. QED
    BY <1>1, MonitorTables, PTL

\* And so are its counts, names and device types, and the service history.
THEOREM MonitorKeepsTables ==
    MonitorSpec => [](/\ CountAndNewAgreeWithLog
                      /\ NameAndTypeDigestLog
                      /\ HistoryTellsLatestScan)
BY MonitorTables, TablesInvTells, PTL

-----------------------------------------------------------------------------
(* The row that watches share *)

RowTypes ==
    /\ monitoring \in [Targets -> MonitorRow \cup {NoRow}]
    /\ stage \in [Clients -> MonitorStages]
    /\ work \in [Clients -> Work]

\* What is carried from the commit to the row and the events is of a saved snapshot.
CarriedIsSaved ==
    \A c \in Clients : stage[c] \in {"status", "events"} =>
        work[c].at \in Stamps(targetOf[c]) /\ work[c].at # 0

\* A watch that has written its row since it began finds a saved snapshot in it,
\* its own or that of another watch.
RowNamesSaved ==
    \A c \in Watches : stage[c] \in {"events", "wait"} =>
        /\ monitoring[targetOf[c]] # NoRow
        /\ monitoring[targetOf[c]].last \in Stamps(targetOf[c])

\* A row that says nobody watches was written last by a watch that has not begun
\* again: each that begins says the opposite.
IdleHasEnded ==
    \A t \in Targets : monitoring[t] # NoRow /\ ~monitoring[t].active =>
        \E d \in Watches : targetOf[d] = t /\ stage[d] = "off"

OnlyWatchesDeactivate == \A c \in Clients : stage[c] = "deactivate" => c \in Watches

RowInv ==
    /\ DigestInv /\ RowTypes /\ CarriedIsSaved /\ RowNamesSaved /\ IdleHasEnded
    /\ OnlyWatchesDeactivate

\* What an update of the row writes: an empty time keeps the one that is there.
LEMMA WriteStatusEffect ==
    ASSUME RowTypes, NEW t \in Targets, NEW active \in BOOLEAN,
           NEW last \in Times \cup {0}, WriteStatus(t, active, last)
    PROVE  /\ monitoring' \in [Targets -> MonitorRow \cup {NoRow}]
           /\ monitoring'[t] # NoRow /\ monitoring'[t].active = active
           /\ last # 0 => monitoring'[t].last = last
           /\ last = 0 /\ monitoring[t] # NoRow => monitoring'[t].last = monitoring[t].last
           /\ \A u \in Targets : u # t => monitoring'[u] = monitoring[u]
<1> DEFINE row == [active |-> active,
                   last   |-> IF last = 0 /\ monitoring[t] # NoRow
                              THEN monitoring[t].last ELSE last]
<1>1. monitoring[t] \in MonitorRow \cup {NoRow}
    BY DEF RowTypes
<1>2. row \in MonitorRow
    BY <1>1 DEF MonitorRow
<1>3. monitoring' = [monitoring EXCEPT ![t] = row]
    BY DEF WriteStatus
<1>4. /\ row.active = active
      /\ last # 0 => row.last = last
      /\ last = 0 /\ monitoring[t] # NoRow => row.last = monitoring[t].last
    OBVIOUS
<1> HIDE DEF row
<1>5. monitoring'[t] = row /\ \A u \in Targets : u # t => monitoring'[u] = monitoring[u]
    BY <1>3 DEF RowTypes
<1>6. monitoring' \in [Targets -> MonitorRow \cup {NoRow}]
    BY <1>2, <1>3 DEF RowTypes
<1>7. QED
    BY <1>2, <1>4, <1>5, <1>6, MonitorRowAssumption DEF MonitorRowAssumption

\* The stamps of a target: a commit adds one to its own, no step takes one away.
LEMMA CommitStamps ==
    ASSUME TypeOK, NEW t \in Targets, NEW hosts \in Hosts, NEW at \in Times,
           NEW changes \in SUBSET Change, SaveSnapshot(t, hosts, at, changes)
    PROVE  /\ at \in Stamps(t)'
           /\ \A u \in Targets : Stamps(u) \subseteq Stamps(u)'
<1> DEFINE scan == [at |-> at, hosts |-> Stored(hosts), changes |-> changes]
<1>1. /\ scan \in Scan /\ scan.at = at
      /\ scans'[t] = Append(scans[t], scan)
      /\ \A u \in Targets \ {t} : scans'[u] = scans[u]
    BY SaveSnapshotEffect
<1> HIDE DEF scan
<1>2. scans[t] \in Seq(Scan)
    BY DEF TypeOK
<1>3. /\ Len(scans[t]) \in Nat /\ DOMAIN scans[t] = 1..Len(scans[t])
      /\ DOMAIN scans'[t] = 1..(Len(scans[t]) + 1)
      /\ scans'[t][Len(scans[t]) + 1] = scan
      /\ \A n \in 1..Len(scans[t]) : scans'[t][n] = scans[t][n]
    BY <1>1, <1>2
<1>4. at \in Stamps(t)' /\ Stamps(t) \subseteq Stamps(t)'
    BY <1>1, <1>3 DEF Stamps
<1>5. QED
    BY <1>1, <1>4 DEF Stamps

RowParts ==
    /\ RowTypes /\ CarriedIsSaved /\ RowNamesSaved /\ IdleHasEnded
    /\ OnlyWatchesDeactivate

LEMMA CommitKeepsRow ==
    ASSUME RowInv, NEW c \in Clients, Commit(c)
    PROVE  RowParts'
<1> DEFINE t == targetOf[c]
<1>1. t \in Targets /\ Watches \subseteq Clients /\ targetOf \in [Clients -> Targets]
    BY MonitorAssumption DEF MonitorAssumption
<1>2. PICK hosts \in Hosts, at \in Times, changes \in SUBSET Change :
        /\ SaveSnapshot(t, hosts, at, changes)
        /\ work' = [work EXCEPT ![c].at = at, ![c].changes = changes]
        /\ \A u \in Targets : at \notin Stamps(u)
        /\ changes \in PossibleChanges(t, hosts)
    BY CommitEffect DEF RowInv, DigestInv
<1>3. /\ stage' = [stage EXCEPT ![c] = IF c \in Watches THEN "status" ELSE "events"]
      /\ UNCHANGED monitoring
      /\ stage[c] = "cycle"
    BY CommitEffect DEF RowInv, DigestInv, Commit
<1>4. at \in Stamps(t)' /\ \A u \in Targets : Stamps(u) \subseteq Stamps(u)'
    BY <1>1, <1>2, CommitStamps DEF RowInv, DigestInv
<1>5. /\ work'[c].at = at /\ work' \in [Clients -> Work]
      /\ \A d \in Clients : d # c => work'[d] = work[d]
    BY <1>2 DEF RowInv, RowTypes, Work
<1>6. /\ stage' \in [Clients -> MonitorStages]
      /\ stage'[c] = IF c \in Watches THEN "status" ELSE "events"
      /\ \A d \in Clients : d # c => stage'[d] = stage[d]
    BY <1>3 DEF RowInv, RowTypes, MonitorStages
<1>7. RowTypes'
    BY <1>3, <1>5, <1>6 DEF RowInv, RowTypes
<1>8. CarriedIsSaved'
    <2>1. at # 0
        BY MonitorAssumption DEF MonitorAssumption
    <2>2. QED
        BY <1>1, <1>4, <1>5, <1>6, <2>1 DEF RowInv, CarriedIsSaved
<1>9. RowNamesSaved'
    BY <1>1, <1>3, <1>4, <1>6 DEF RowInv, RowNamesSaved
<1>10. IdleHasEnded'
    BY <1>1, <1>3, <1>6 DEF RowInv, IdleHasEnded
<1>11. OnlyWatchesDeactivate'
    BY <1>6 DEF RowInv, OnlyWatchesDeactivate
<1>12. QED
    BY <1>7, <1>8, <1>9, <1>10, <1>11 DEF RowParts

\* A step that writes a row: the beginning of a watch, the row after a snapshot,
\* the deferred update.
LEMMA RowWriteKeepsRow ==
    ASSUME RowInv, NEW c \in Clients, Begin(c) \/ Status(c) \/ Deactivate(c)
    PROVE  RowParts'
<1> DEFINE t == targetOf[c]
<1>1. t \in Targets /\ Watches \subseteq Clients /\ targetOf \in [Clients -> Targets]
    BY MonitorAssumption DEF MonitorAssumption
<1>2. \A u : Stamps(u)' = Stamps(u)
    BY DEF Begin, Status, Deactivate, storeVars, Stamps
<1>3. CASE Begin(c)
    <2>1. /\ stage' \in [Clients -> MonitorStages]
          /\ stage[c] = "off" /\ stage'[c] = "cycle"
          /\ \A d \in Clients : d # c => stage'[d] = stage[d]
          /\ work' = work
        BY <1>3 DEF Begin, Move, RowInv, RowTypes, MonitorStages
    <2>2. CASE c \notin Watches
        <3>1. monitoring' = monitoring
            BY <1>3, <2>2 DEF Begin
        <3>2. QED
            BY <1>1, <1>2, <2>1, <2>2, <3>1
               DEF RowInv, RowParts, RowTypes, CarriedIsSaved, RowNamesSaved,
                   IdleHasEnded, OnlyWatchesDeactivate
    <2>3. CASE c \in Watches
        <3>1. WriteStatus(t, TRUE, 0)
            BY <1>3, <2>3 DEF Begin
        <3>2. /\ monitoring' \in [Targets -> MonitorRow \cup {NoRow}]
              /\ monitoring'[t] # NoRow /\ monitoring'[t].active
              /\ monitoring[t] # NoRow => monitoring'[t].last = monitoring[t].last
              /\ \A u \in Targets : u # t => monitoring'[u] = monitoring[u]
            BY <1>1, <3>1, WriteStatusEffect DEF RowInv
        <3>3. RowTypes' /\ CarriedIsSaved' /\ OnlyWatchesDeactivate'
            BY <1>1, <1>2, <2>1, <3>2
               DEF RowInv, RowTypes, CarriedIsSaved, OnlyWatchesDeactivate
        <3>4. RowNamesSaved'
            BY <1>1, <1>2, <2>1, <3>2 DEF RowInv, RowNamesSaved
        <3>5. IdleHasEnded'
            BY <1>1, <2>1, <3>2 DEF RowInv, IdleHasEnded
        <3>6. QED
            BY <3>3, <3>4, <3>5 DEF RowParts
    <2>4. QED
        BY <2>2, <2>3
<1>4. CASE Status(c)
    <2>1. work[c] \in Work /\ stage[c] = "status"
        BY <1>4 DEF Status, RowInv, RowTypes
    <2>2. work[c].at \in Stamps(t) /\ work[c].at # 0 /\ work[c].at \in Times \cup {0}
        BY <2>1 DEF RowInv, CarriedIsSaved, Work
    <2>3. WriteStatus(t, TRUE, work[c].at)
        BY <1>4 DEF Status
    <2>4. /\ monitoring' \in [Targets -> MonitorRow \cup {NoRow}]
          /\ monitoring'[t] # NoRow /\ monitoring'[t].active
          /\ monitoring'[t].last = work[c].at
          /\ \A u \in Targets : u # t => monitoring'[u] = monitoring[u]
        BY <1>1, <2>2, <2>3, WriteStatusEffect DEF RowInv
    <2>5. /\ stage' \in [Clients -> MonitorStages]
          /\ stage'[c] \in {"events", "wait"}
          /\ stage'[c] = "events" => work' = work
          /\ \A d \in Clients : d # c => stage'[d] = stage[d]
        BY <1>4 DEF Status, Move, RowInv, RowTypes, MonitorStages
    <2>6. Idle(TRUE) \in Work
        BY DEF Idle, Work
    <2>7. work' \in [Clients -> Work] /\ \A d \in Clients : d # c => work'[d] = work[d]
        BY <1>4, <2>6 DEF Status, RowInv, RowTypes
    <2>8. RowTypes' /\ CarriedIsSaved' /\ OnlyWatchesDeactivate'
        BY <1>1, <1>2, <2>2, <2>4, <2>5, <2>7
           DEF RowInv, RowTypes, CarriedIsSaved, OnlyWatchesDeactivate
    <2>9. RowNamesSaved'
        BY <1>1, <1>2, <2>2, <2>4, <2>5 DEF RowInv, RowNamesSaved
    <2>10. IdleHasEnded'
        BY <1>1, <2>1, <2>4, <2>5 DEF RowInv, IdleHasEnded
    <2>11. QED
        BY <2>8, <2>9, <2>10 DEF RowParts
<1>5. CASE Deactivate(c)
    <2>1. /\ stage' \in [Clients -> MonitorStages]
          /\ stage[c] = "deactivate" /\ stage'[c] = "off" /\ c \in Watches
          /\ \A d \in Clients : d # c => stage'[d] = stage[d]
          /\ work' = work
        BY <1>5 DEF Deactivate, Move, RowInv, RowTypes, MonitorStages, OnlyWatchesDeactivate
    <2>2. /\ monitoring' \in [Targets -> MonitorRow \cup {NoRow}]
          /\ monitoring[t] # NoRow => /\ monitoring'[t] # NoRow
                                     /\ monitoring'[t].last = monitoring[t].last
          /\ \A u \in Targets : u # t => monitoring'[u] = monitoring[u]
        <3>1. WriteStatus(t, FALSE, 0) \/ UNCHANGED monitoring
            BY <1>5 DEF Deactivate
        <3>2. CASE WriteStatus(t, FALSE, 0)
            BY <1>1, <3>2, WriteStatusEffect DEF RowInv
        <3>3. CASE UNCHANGED monitoring
            BY <3>3 DEF RowInv, RowTypes
        <3>4. QED
            BY <3>1, <3>2, <3>3
    <2>3. RowTypes' /\ CarriedIsSaved' /\ OnlyWatchesDeactivate'
        BY <1>1, <1>2, <2>1, <2>2
           DEF RowInv, RowTypes, CarriedIsSaved, OnlyWatchesDeactivate
    <2>4. RowNamesSaved'
        BY <1>1, <1>2, <2>1, <2>2 DEF RowInv, RowNamesSaved
    <2>5. IdleHasEnded'
        BY <1>1, <2>1, <2>2 DEF RowInv, IdleHasEnded
    <2>6. QED
        BY <2>3, <2>4, <2>5 DEF RowParts
<1>6. QED
    BY <1>3, <1>4, <1>5

\* The steps that leave the row and the log alone.
LEMMA OtherStepKeepsRow ==
    ASSUME RowInv, NEW c \in Clients, Record(c) \/ Again(c) \/ Stop(c) \/ Crash(c)
    PROVE  RowParts'
<1>1. Watches \subseteq Clients /\ targetOf \in [Clients -> Targets]
    BY MonitorAssumption DEF MonitorAssumption
<1>2. monitoring' = monitoring /\ \A u : Stamps(u)' = Stamps(u)
    BY DEF Record, Again, Stop, Crash, storeVars, Stamps
<1>3. /\ stage' \in [Clients -> MonitorStages]
      /\ stage'[c] \in {"wait", "cycle", "off", "deactivate"}
      /\ stage'[c] = "wait" => stage[c] = "events"
      /\ stage'[c] = "deactivate" => c \in Watches
      /\ stage[c] # "off"
      /\ \A d \in Clients : d # c => stage'[d] = stage[d]
    BY DEF Record, Again, Stop, Crash, Move, RowInv, RowTypes, MonitorStages
<1>4. work' \in [Clients -> Work] /\ \A d \in Clients : d # c => work'[d] = work[d]
    <2>1. Idle(FALSE) \in Work /\ Idle(c \in Watches) \in Work
        BY DEF Idle, Work
    <2>2. \/ work' = work
          \/ work' = [work EXCEPT ![c] = Idle(FALSE)]
          \/ work' = [work EXCEPT ![c] = Idle(c \in Watches)]
        BY DEF Record, Again, Stop, Crash
    <2>3. QED
        BY <2>1, <2>2 DEF RowInv, RowTypes
<1>5. RowTypes' /\ CarriedIsSaved' /\ OnlyWatchesDeactivate'
    BY <1>1, <1>2, <1>3, <1>4
       DEF RowInv, RowTypes, CarriedIsSaved, OnlyWatchesDeactivate
<1>6. RowNamesSaved'
    BY <1>1, <1>2, <1>3 DEF RowInv, RowNamesSaved
<1>7. IdleHasEnded'
    BY <1>1, <1>2, <1>3 DEF RowInv, IdleHasEnded
<1>8. QED
    BY <1>5, <1>6, <1>7 DEF RowParts

LEMMA RowInvInductive == RowInv /\ [MonitorNext]_monitorVars => RowInv'
<1> SUFFICES ASSUME RowInv, [MonitorNext]_monitorVars PROVE RowInv'
    OBVIOUS
<1>1. DigestInv'
    BY MonitorDigestInductive DEF RowInv
<1>2. CASE MonitorNext
    <2>1. PICK c \in Clients : MonitorStep(c)
        BY <1>2 DEF MonitorNext
    <2>2. RowParts'
        BY <2>1, CommitKeepsRow, RowWriteKeepsRow, OtherStepKeepsRow DEF MonitorStep
    <2>3. QED
        BY <1>1, <2>2 DEF RowInv, RowParts
<1>3. CASE UNCHANGED monitorVars
    <2>1. RowParts'
        BY <1>3 DEF monitorVars, storeVars, RowInv, RowParts, RowTypes, CarriedIsSaved,
                    RowNamesSaved, IdleHasEnded, OnlyWatchesDeactivate, Stamps
    <2>2. QED
        BY <1>1, <2>1 DEF RowInv, RowParts
<1>4. QED
    BY <1>2, <1>3

\* Of any number of watches of one target: one that waits while the shared row says
\* nobody watches has another one to thank, which has ended and not begun again;
\* and the row still names a saved snapshot.
THEOREM IdleRowAlwaysMeansAnotherEnded == MonitorSpec => []IdleRowMeansAnotherEnded
<1>1. MonitorInit => RowInv
    <2>1. MonitorInit => DigestInv
        BY DigestInvInit DEF MonitorInit
    <2>2. MonitorInit => RowParts
        BY MonitorAssumption
           DEF MonitorAssumption, MonitorInit, RowParts, RowTypes, CarriedIsSaved,
               RowNamesSaved, IdleHasEnded, OnlyWatchesDeactivate, MonitorStages, Idle, Work
    <2>3. QED
        BY <2>1, <2>2 DEF RowInv, RowParts
<1>2. RowInv => IdleRowMeansAnotherEnded
    BY MonitorAssumption
       DEF MonitorAssumption, RowInv, RowNamesSaved, IdleHasEnded, IdleRowMeansAnotherEnded
<1>3. QED
    BY <1>1, <1>2, RowInvInductive, PTL DEF MonitorSpec

-----------------------------------------------------------------------------
(* The readers change nothing of what the writers rely on *)

LEMMA ConsoleStepsAreMonitorSteps == [ConsoleNext]_consoleVars => [MonitorNext]_monitorVars
<1> SUFFICES ASSUME [ConsoleNext]_consoleVars PROVE [MonitorNext]_monitorVars
    OBVIOUS
<1>1. ASSUME NEW c \in Clients, ClientStep(c) PROVE MonitorNext
    BY <1>1 DEF ClientStep, MonitorStep, MonitorNext
<1>2. ASSUME NEW c \in Clients, Consider(c) PROVE UNCHANGED monitorVars
    BY <1>2 DEF Consider
<1>3. CASE StartRefresh \/ Read \/ FailRequest \/ Draw
    BY <1>3 DEF StartRefresh, Read, FailRequest, Draw
<1>4. CASE UNCHANGED consoleVars
    BY <1>4 DEF consoleVars
<1>5. QED
    BY <1>1, <1>2, <1>3, <1>4 DEF ConsoleNext

\* A dashboard that reads and a watch that goes through its events leave the writers
\* what they are without them: what holds of Monitor holds beside any reader.
THEOREM ReadersKeepMonitor == ConsoleSpec => MonitorSpec
<1>1. ConsoleInit => MonitorInit
    BY DEF ConsoleInit
<1>2. QED
    BY <1>1, ConsoleStepsAreMonitorSteps, PTL DEF ConsoleSpec, MonitorSpec

-----------------------------------------------------------------------------
(* Events *)

EventsType == events \in [Targets -> Seq(Batch)]

\* What a client carries when it comes to record its events is a batch.
LEMMA CarriedIsBatch ==
    ASSUME RowInv, NEW c \in Clients, stage[c] = "events"
    PROVE  [at |-> work[c].at, changes |-> work[c].changes] \in Batch
<1>1. work[c] \in Work /\ work[c].at # 0
    BY DEF RowInv, RowTypes, CarriedIsSaved
<1>2. QED
    BY <1>1 DEF Work, Batch

\* What a step does to the events: one client may append one batch, which is what it
\* carries.
LEMMA EventsStep ==
    ASSUME RowInv, EventsType, NEW c \in Clients, MonitorStep(c)
    PROVE  LET batch == [at |-> work[c].at, changes |-> work[c].changes]
           IN  \/ UNCHANGED events
               \/ /\ stage[c] = "events" /\ work[c].changes # {}
                  /\ Record(c) /\ batch \in Batch
                  /\ events' = [events EXCEPT ![targetOf[c]] = Append(@, batch)]
<1>1. CASE Record(c)
    BY <1>1, CarriedIsBatch DEF Record
<1>2. CASE ~Record(c)
    BY <1>2 DEF MonitorStep, Begin, Commit, Status, Again, Stop, Deactivate, Crash
<1>3. QED
    BY <1>1, <1>2

\* The events of a target are kept, and their type.
LEMMA EventsGrow ==
    ASSUME RowInv, EventsType, [MonitorNext]_monitorVars
    PROVE  /\ EventsType'
           /\ \A t \in Targets :
                /\ Len(events[t]) <= Len(events'[t])
                /\ Range(events[t]) \subseteq Range(events'[t])
<1>1. CASE UNCHANGED events
    <2>1. \A t \in Targets : Len(events[t]) \in Nat
        BY DEF EventsType
    <2>2. QED
        BY <1>1, <2>1 DEF EventsType
<1>2. ASSUME NEW c \in Clients, NEW batch \in Batch,
             events' = [events EXCEPT ![targetOf[c]] = Append(@, batch)]
      PROVE  /\ EventsType'
             /\ \A t \in Targets :
                  /\ Len(events[t]) <= Len(events'[t])
                  /\ Range(events[t]) \subseteq Range(events'[t])
    <2>1. targetOf[c] \in Targets
        BY MonitorAssumption DEF MonitorAssumption
    <2>2. EventsType'
        BY <1>2, <2>1, AppendProperties DEF EventsType
    <2>3. ASSUME NEW t \in Targets
          PROVE  /\ Len(events[t]) <= Len(events'[t])
                 /\ Range(events[t]) \subseteq Range(events'[t])
        <3>1. events[t] \in Seq(Batch) /\ Len(events[t]) \in Nat
            BY DEF EventsType
        <3>2. events'[t] = IF t = targetOf[c] THEN Append(events[t], batch) ELSE events[t]
            BY <1>2, <2>1 DEF EventsType
        <3>3. CASE events'[t] = events[t]
            BY <3>1, <3>3
        <3>4. CASE events'[t] = Append(events[t], batch)
            <4>1. /\ DOMAIN events[t] = 1..Len(events[t])
                  /\ DOMAIN events'[t] = 1..(Len(events[t]) + 1)
                  /\ Len(events'[t]) = Len(events[t]) + 1
                  /\ \A n \in 1..Len(events[t]) : events'[t][n] = events[t][n]
                BY <3>1, <3>4, AppendProperties, LenProperties
            <4>2. DOMAIN events[t] \subseteq DOMAIN events'[t]
                BY <3>1, <4>1
            <4>3. QED
                BY <3>1, <4>1, <4>2 DEF Range
        <3>5. QED
            BY <3>2, <3>3, <3>4
    <2>4. QED
        BY <2>2, <2>3
<1>3. CASE MonitorNext
    <2>1. PICK c \in Clients : MonitorStep(c)
        BY <1>3 DEF MonitorNext
    <2>2. QED
        BY <1>1, <1>2, <2>1, EventsStep
<1>4. CASE UNCHANGED monitorVars
    BY <1>1, <1>4 DEF monitorVars
<1>5. QED
    BY <1>3, <1>4

-----------------------------------------------------------------------------
(* Notifications *)

\* An event that is in the database.
IsRecorded(c, n) ==
    \E batch \in Range(events[targetOf[c]]) : batch.at = n.at /\ n.change \in batch.changes

\* What a watch still has to consider is recorded already, and so is what was shown,
\* which was severe enough.
ToastInv ==
    /\ RowInv /\ EventsType
    /\ DOMAIN pending = Clients
    /\ \A c \in Clients : \A n \in pending[c] : IsRecorded(c, n)
    /\ \A n \in DOMAIN toasts :
        /\ n.by \in Clients /\ IsRecorded(n.by, n)
        /\ SeverityRank[Severity(n.change)] <= SeverityRank[notifyLevel]

\* Once recorded, always recorded.
LEMMA RecordedStays ==
    ASSUME ToastInv, [MonitorNext]_monitorVars, NEW c \in Clients, NEW n, IsRecorded(c, n)
    PROVE  IsRecorded(c, n)'
<1>1. targetOf[c] \in Targets
    BY MonitorAssumption DEF MonitorAssumption
<1>2. Range(events[targetOf[c]]) \subseteq Range(events'[targetOf[c]])
    BY <1>1, EventsGrow DEF ToastInv
<1>3. QED
    BY <1>2 DEF IsRecorded

\* The events a watch goes through are those it has just recorded.
LEMMA NoticesAreRecorded ==
    ASSUME ToastInv, NEW c \in Clients, MonitorStep(c),
           stage[c] = "events", stage'[c] = "wait", NEW n \in Notices(c)
    PROVE  IsRecorded(c, n)'
<1> DEFINE t     == targetOf[c]
           batch == [at |-> work[c].at, changes |-> work[c].changes]
<1>1. t \in Targets /\ stage \in [Clients -> MonitorStages] /\ events[t] \in Seq(Batch)
    BY MonitorAssumption DEF MonitorAssumption, ToastInv, RowInv, RowTypes, EventsType
<1>2. n.at = work[c].at /\ n.change \in work[c].changes
    BY DEF Notices
<1>3. Record(c)
    <2>1. ~Begin(c) /\ ~Commit(c) /\ ~Status(c) /\ ~Again(c) /\ ~Deactivate(c)
        BY DEF Begin, Commit, Status, Again, Deactivate
    <2>2. ~Stop(c) /\ ~Crash(c)
        BY <1>1 DEF Stop, Crash, Move
    <2>3. QED
        BY <2>1, <2>2 DEF MonitorStep
<1>4. batch \in Batch /\ events' = [events EXCEPT ![t] = Append(@, batch)]
    <2>1. batch \in Batch
        BY CarriedIsBatch DEF ToastInv
    <2>2. work[c].changes # {}
        BY <1>2
    <2>3. QED
        BY <1>3, <2>1, <2>2 DEF Record
<1>5. batch.at = n.at /\ n.change \in batch.changes
    BY <1>2
<1> HIDE DEF batch
<1>6. events'[t] = Append(events[t], batch)
    BY <1>1, <1>4 DEF ToastInv, EventsType
<1>7. batch \in Range(events'[t])
    <2>1. /\ Len(events[t]) + 1 \in DOMAIN events'[t]
          /\ events'[t][Len(events[t]) + 1] = batch
        BY <1>1, <1>4, <1>6, AppendProperties, LenProperties
    <2>2. QED
        BY <2>1 DEF Range
<1>8. QED
    BY <1>5, <1>7 DEF IsRecorded

\* One notification more is in the bag once more, every other as often as before.
LEMMA OneMoreToast ==
    ASSUME NEW B, NEW x
    PROVE  /\ DOMAIN ToastBag!BagAdd(B, x) = DOMAIN B \cup {x}
           /\ x \notin DOMAIN B => ToastBag!BagAdd(B, x)[x] = 1
           /\ \A y \in DOMAIN B \ {x} : ToastBag!BagAdd(B, x)[y] = B[y]
BY DEF ToastBag!BagAdd

LEMMA ToastInvInductive == ToastInv /\ [ConsoleNext]_consoleVars => ToastInv'
<1> SUFFICES ASSUME ToastInv, [ConsoleNext]_consoleVars PROVE ToastInv'
    OBVIOUS
<1>1. [MonitorNext]_monitorVars
    BY ConsoleStepsAreMonitorSteps
<1>2. RowInv' /\ EventsType'
    BY <1>1, RowInvInductive, EventsGrow DEF ToastInv
<1>3. \A c \in Clients : \A n : IsRecorded(c, n) => IsRecorded(c, n)'
    BY <1>1, RecordedStays
<1>4. ASSUME UNCHANGED <<pending, toasts>> PROVE ToastInv'
    BY <1>2, <1>3, <1>4 DEF ToastInv
<1>5. ASSUME NEW c \in Clients, ClientStep(c) PROVE ToastInv'
    <2>1. toasts' = toasts /\ DOMAIN pending' = Clients
        BY <1>5 DEF ClientStep, Considered, ToastInv
    <2>2. ASSUME NEW d \in Clients, NEW n \in pending'[d] PROVE IsRecorded(d, n)'
        <3>1. CASE d # c
            <4>1. pending'[d] = pending[d]
                BY <1>5, <3>1 DEF ClientStep, Considered, ToastInv
            <4>2. QED
                BY <1>3, <2>2, <4>1 DEF ToastInv
        <3>2. CASE d = c
            <4>1. n \in Notices(c) /\ stage[c] = "events" /\ stage'[c] = "wait"
                BY <1>5, <2>2, <3>2 DEF ClientStep, Considered, ToastInv
            <4>2. MonitorStep(c)
                BY <1>5 DEF ClientStep, MonitorStep
            <4>3. QED
                BY <3>2, <4>1, <4>2, NoticesAreRecorded
        <3>3. QED
            BY <3>1, <3>2
    <2>3. QED
        BY <1>2, <1>3, <2>1, <2>2 DEF ToastInv
<1>6. ASSUME NEW c \in Clients, Consider(c) PROVE ToastInv'
    <2>1. PICK n \in pending[c] :
            /\ pending' = [pending EXCEPT ![c] = @ \ {n}]
            /\ \/ /\ ShouldNotify(Severity(n.change), notifyLevel)
                  /\ toasts' = ToastBag!BagAdd(toasts, [by |-> c, at |-> n.at, change |-> n.change])
               \/ UNCHANGED toasts
        BY <1>6 DEF Consider
    <2>2. /\ DOMAIN pending' = Clients
          /\ \A d \in Clients : pending'[d] \subseteq pending[d]
        BY <2>1 DEF ToastInv
    <2> DEFINE toast == [by |-> c, at |-> n.at, change |-> n.change]
    <2>3. /\ toast.by = c /\ toast.at = n.at /\ toast.change = n.change
        OBVIOUS
    <2>4. IsRecorded(c, n)'
        BY <1>3 DEF ToastInv
    <2> HIDE DEF toast
    <2>5. IsRecorded(c, toast)'
        BY <2>3, <2>4 DEF IsRecorded
    <2>6. ASSUME NEW x \in DOMAIN toasts'
          PROVE  /\ x.by \in Clients /\ IsRecorded(x.by, x)'
                 /\ SeverityRank[Severity(x.change)] <= SeverityRank[notifyLevel]
        <3>1. CASE x \in DOMAIN toasts
            BY <1>3, <3>1 DEF ToastInv
        <3>2. CASE x \notin DOMAIN toasts
            <4>1. /\ ShouldNotify(Severity(n.change), notifyLevel)
                  /\ toasts' = ToastBag!BagAdd(toasts, toast)
                BY <2>1, <2>6, <3>2 DEF toast
            <4>2. DOMAIN toasts' = DOMAIN toasts \cup {toast}
                BY <4>1, OneMoreToast
            <4>3. x = toast
                BY <2>6, <3>2, <4>2
            <4>4. QED
                BY <2>3, <2>5, <4>1, <4>3 DEF ShouldNotify
        <3>3. QED
            BY <3>1, <3>2
    <2>7. QED
        BY <1>2, <1>3, <2>2, <2>6 DEF ToastInv
<1>7. CASE StartRefresh \/ Read \/ FailRequest \/ Draw \/ UNCHANGED consoleVars
    BY <1>4, <1>7 DEF StartRefresh, Read, FailRequest, Draw, consoleVars
<1>8. QED
    BY <1>5, <1>6, <1>7 DEF ConsoleNext

LEMMA MonitorInitRow == MonitorInit => RowInv /\ EventsType
<1> SUFFICES ASSUME MonitorInit PROVE RowInv /\ EventsType
    OBVIOUS
<1>1. DigestInv
    BY DigestInvInit DEF MonitorInit
<1>2. RowParts
    BY MonitorAssumption
       DEF MonitorAssumption, MonitorInit, RowParts, RowTypes, CarriedIsSaved,
           RowNamesSaved, IdleHasEnded, OnlyWatchesDeactivate, MonitorStages, Idle, Work
<1>3. <<>> \in Seq(Batch)
    OBVIOUS
<1>4. EventsType
    BY <1>3 DEF MonitorInit, EventsType
<1>5. QED
    BY <1>1, <1>2, <1>4 DEF RowInv, RowParts

LEMMA NoToasts == DOMAIN EmptyBag = {}
BY DEF EmptyBag, SetToBag

\* Every notification, whoever shows it and whatever else is written meanwhile, is of
\* an event that is in the database: none of the differences of a baseline, of a
\* snapshot whose events were never saved, or of a scan; and each is severe enough.
THEOREM ToastsAlwaysAreRecordedEvents == ConsoleSpec => []ToastsAreRecordedEvents
<1>1. ConsoleInit => ToastInv
    BY MonitorInitRow, NoToasts DEF ConsoleInit, ToastInv
<1>2. ToastInv => ToastsAreRecordedEvents
    BY DEF ToastInv, IsRecorded, ToastsAreRecordedEvents
<1>3. QED
    BY <1>1, <1>2, ToastInvInductive, PTL DEF ConsoleSpec

-----------------------------------------------------------------------------
(* The cards of the page *)

ShownLog == scans[shownTarget]

\* What the two reads of the summary return when the n-th scan is the latest.
AssetsAnswer(n) ==
    [all    |-> Cardinality(SightedBy(n)),
     active |-> Cardinality({k \in Identities : Holders(HostsAt(n), k) # {}})]
SnapshotAnswer(n) ==
    [at       |-> IF n = 0 THEN 0 ELSE scans[shownTarget][n].at,
     services |-> Cardinality(ServicesOf(HostsAt(n)))]

\* The log of the shown target is a sequence of scans.
LEMMA ShownLogType ==
    ASSUME TypeOK
    PROVE  /\ shownTarget \in Targets
           /\ ShownLog \in Seq(Scan) /\ Len(ShownLog) \in Nat
           /\ DOMAIN ShownLog = 1..Len(ShownLog)
BY ConsoleAssumption DEF ConsoleAssumption, ShownLog, TypeOK

\* Nobody is at home before the first scan.
LEMMA NobodyAtZero ==
    ASSUME NEW k
    PROVE  Holders(HostsAt(0), k) = {} /\ ServicesOf(HostsAt(0)) = {}
BY DEF HostsAt, Holders, ServicesOf

\* The two counts of assets that the first read makes are those of the latest scan:
\* the rows of the table tell the log, and their states the latest scan.
LEMMA AssetsAnswerIsLatest ==
    ASSUME DigestInv
    PROVE  Answer("assets") = AssetsAnswer(Len(ShownLog))
<1> DEFINE t == shownTarget
           length == Len(ShownLog)
<1>1. t \in Targets /\ length \in Nat
    BY ShownLogType DEF DigestInv
<1>2. ASSUME NEW k \in Identities
      PROVE  /\ (assets[t][k] # NoRow) <=> \E m \in 0..length : Holders(HostsAt(m), k) # {}
             /\ (assets[t][k] # NoRow /\ assets[t][k].state \in {"ACTIVE", "NEW"})
                    <=> Holders(HostsAt(length), k) # {}
    <2>1. (assets[t][k] = NoRow) <=> (Sightings(t, k) = {})
        BY <1>1 DEF DigestInv, AssetsDigestLog
    <2>2. assets[t][k] # NoRow =>
            ((assets[t][k].state \in {"NEW", "ACTIVE"}) <=> (length \in Sightings(t, k)))
        BY <1>1, DigestTellsState DEF StateTellsRecentSightings, ShownLog
    <2>3. \A m \in 0..length : (m \in Sightings(t, k)) <=> (Holders(HostsAt(m), k) # {})
        <3>1. Sightings(t, k) = {n \in 1..length : Holders(scans[t][n].hosts, k) # {}}
            BY DEF Sightings, ShownLog
        <3>2. 0 \notin Sightings(t, k) /\ Holders(HostsAt(0), k) = {}
            BY <3>1, NobodyAtZero
        <3>3. ASSUME NEW m \in 1..length
              PROVE  (m \in Sightings(t, k)) <=> (Holders(HostsAt(m), k) # {})
            <4>1. m # 0
                BY <1>1
            <4>2. HostsAt(m) = scans[t][m].hosts
                BY <4>1 DEF HostsAt
            <4>3. QED
                BY <3>1, <4>2
        <3>4. \A m \in 0..length : m = 0 \/ m \in 1..length
            BY <1>1
        <3>5. QED
            BY <3>2, <3>3, <3>4
    <2>4. Sightings(t, k) \subseteq 0..length
        BY <1>1 DEF Sightings, ShownLog
    <2>5. length \in 0..length
        BY <1>1
    <2>6. QED
        BY <2>1, <2>2, <2>3, <2>4, <2>5
<1>3. KnownRows(t) = SightedBy(length)
    BY <1>2 DEF KnownRows, SightedBy
<1>4. ActiveRows(t) = {k \in Identities : Holders(HostsAt(length), k) # {}}
    BY <1>2 DEF KnownRows, ActiveRows
<1>5. Answer("assets") = [all |-> Cardinality(KnownRows(t)), active |-> Cardinality(ActiveRows(t))]
    BY DEF Answer
<1>6. QED
    BY <1>3, <1>4, <1>5 DEF AssetsAnswer

\* The snapshot the second read loads is the latest.
LEMMA SnapshotAnswerIsLatest ==
    ASSUME TypeOK
    PROVE  Answer("snapshot") = SnapshotAnswer(Len(ShownLog))
<1> DEFINE t == shownTarget
           length == Len(ShownLog)
<1>1. /\ t \in Targets /\ length \in Nat
      /\ HasSnapshot(t) <=> length # 0
    BY ShownLogType DEF HasSnapshot, ShownLog
<1>2. Answer("snapshot") = IF ~HasSnapshot(t) THEN NoSnapshot
                           ELSE [at |-> LatestSnapshot(t).at,
                                 services |-> Cardinality(ServicesOf(LatestSnapshot(t).hosts))]
    BY DEF Answer
<1>3. CASE length = 0
    <2>1. Cardinality(ServicesOf(HostsAt(0))) = 0
        BY NobodyAtZero, FS_EmptySet
    <2>2. QED
        BY <1>1, <1>2, <1>3, <2>1 DEF NoSnapshot, SnapshotAnswer
<1>4. CASE length # 0
    <2>1. HostsAt(length) = LatestSnapshot(t).hosts /\ scans[t][length] = LatestSnapshot(t)
        BY <1>4 DEF HostsAt, LatestSnapshot, ShownLog
    <2>2. QED
        BY <1>1, <1>2, <1>4, <2>1 DEF SnapshotAnswer
<1>5. QED
    BY <1>3, <1>4

\* The log only grows.
LEMMA LogGrows ==
    ASSUME TypeOK, [MonitorNext]_monitorVars, NEW t \in Targets
    PROVE  /\ Len(scans[t]) \in Nat /\ Len(scans'[t]) \in Nat
           /\ Len(scans[t]) <= Len(scans'[t])
           /\ \A n \in 1..Len(scans[t]) : scans'[t][n] = scans[t][n]
<1>1. scans[t] \in Seq(Scan) /\ Len(scans[t]) \in Nat
    BY DEF TypeOK
<1>2. CASE scans'[t] = scans[t]
    BY <1>1, <1>2
<1>3. ASSUME NEW c \in Clients, Commit(c)
      PROVE  /\ Len(scans'[t]) \in Nat
             /\ Len(scans[t]) <= Len(scans'[t])
             /\ \A n \in 1..Len(scans[t]) : scans'[t][n] = scans[t][n]
    <2>1. targetOf[c] \in Targets
        BY MonitorAssumption DEF MonitorAssumption
    <2>2. PICK hosts \in Hosts, at \in Times, changes \in SUBSET Change :
            SaveSnapshot(targetOf[c], hosts, at, changes)
        BY <1>3, CommitEffect
    <2>3. CASE t # targetOf[c]
        BY <1>2, <1>1, <2>1, <2>2, <2>3, SaveSnapshotEffect
    <2>4. CASE t = targetOf[c]
        <3>1. SaveSnapshot(t, hosts, at, changes)
            BY <2>2, <2>4
        <3>2. /\ Len(scans'[t]) = Len(scans[t]) + 1
              /\ \A n \in 1..Len(scans[t]) : scans'[t][n] = scans[t][n]
            BY <3>1, LogStep
        <3>3. QED
            BY <1>1, <3>2
    <2>5. QED
        BY <2>3, <2>4
<1>4. CASE UNCHANGED storeVars
    BY <1>2, <1>1, <1>4 DEF storeVars
<1>5. QED
    BY <1>1, <1>3, <1>4, OnlyCommitSaves DEF MonitorNext, monitorVars

\* What a read would have returned of an earlier scan does not change.
LEMMA AnswersStay ==
    ASSUME TypeOK, [MonitorNext]_monitorVars, NEW n \in 0..Len(ShownLog)
    PROVE  AssetsAnswer(n)' = AssetsAnswer(n) /\ SnapshotAnswer(n)' = SnapshotAnswer(n)
<1>1. /\ shownTarget \in Targets /\ Len(ShownLog) \in Nat
      /\ \A m \in 1..Len(ShownLog) : scans'[shownTarget][m] = scans[shownTarget][m]
    BY ShownLogType, LogGrows DEF ShownLog
<1>2. \A m \in 0..n : HostsAt(m)' = HostsAt(m)
    <2>1. \A m \in 0..n : m = 0 \/ m \in 1..Len(ShownLog)
        BY <1>1
    <2>2. QED
        BY <1>1, <2>1 DEF HostsAt
<1>3. n \in 0..n /\ (n = 0 \/ n \in 1..Len(ShownLog))
    BY <1>1
<1>4. SightedBy(n)' = SightedBy(n)
    BY <1>2 DEF SightedBy
<1>5. AssetsAnswer(n)' = AssetsAnswer(n)
    BY <1>2, <1>3, <1>4 DEF AssetsAnswer
<1>6. SnapshotAnswer(n)' = SnapshotAnswer(n)
    BY <1>1, <1>2, <1>3 DEF SnapshotAnswer
<1>7. QED
    BY <1>5, <1>6

\* Two answers the summary may hold when its refresh began at the b-th scan.
AssetsRead(answer, b) ==
    \E m \in b .. Len(ShownLog) : answer = AssetsAnswer(m)
CardsRead(first, second, b) ==
    \E n \in b .. Len(ShownLog) : \E m \in b .. n :
        first = AssetsAnswer(m) /\ second = SnapshotAnswer(n)

RefreshShape ==
    /\ DOMAIN refresh = {"phase", "made", "answers", "began"}
    /\ DOMAIN refresh.answers = Reads

\* While the page is fetched the summary holds the assets of a scan that was the
\* latest since the refresh began, and a snapshot no older than those assets; once it
\* is drawn the page holds the two.
SummaryInv ==
    LET began   == refresh.began[1][shownTarget]
        answers == refresh.answers
    IN  /\ DigestInv /\ RefreshShape
        /\ refresh.phase \in {"reading", "drawn"} => began \in 0..Len(ShownLog)
        /\ refresh.phase = "reading" =>
            /\ answers["assets"] # Waiting => AssetsRead(answers["assets"], began)
            /\ answers["snapshot"] # Waiting =>
                /\ answers["assets"] # Waiting
                /\ CardsRead(answers["assets"], answers["snapshot"], began)
        /\ refresh.phase = "drawn" =>
            CardsRead(page.shown["assets"], page.shown["snapshot"], began)

LEMMA SummaryReadsAre ==
    /\ DOMAIN SummaryReads = 1..5
    /\ SummaryReads[1] = "assets" /\ SummaryReads[2] = "snapshot"
    /\ "assets" \in Range(SummaryReads) /\ "snapshot" \in Range(SummaryReads)
    /\ "assets" \in Reads /\ "snapshot" \in Reads
    /\ ReadBefore("snapshot", "assets")
<1>1. /\ DOMAIN SummaryReads = 1..5
      /\ SummaryReads[1] = "assets" /\ SummaryReads[2] = "snapshot"
    BY DEF SummaryReads
<1>2. 1 \in DOMAIN SummaryReads /\ 2 \in DOMAIN SummaryReads
    BY <1>1
<1>3. "assets" \in Range(SummaryReads) /\ "snapshot" \in Range(SummaryReads)
    BY <1>1, <1>2 DEF Range
<1>4. ReadBefore("snapshot", "assets")
    BY <1>1, <1>2 DEF ReadBefore
<1>5. QED
    BY <1>1, <1>3, <1>4 DEF Reads

\* What was read stays true of the log while the log grows.
LEMMA ReadStays ==
    ASSUME TypeOK, [MonitorNext]_monitorVars, NEW b \in 0..Len(ShownLog), NEW x, NEW y
    PROVE  /\ b \in 0..Len(ShownLog)'
           /\ AssetsRead(x, b) => AssetsRead(x, b)'
           /\ CardsRead(x, y, b) => CardsRead(x, y, b)'
<1>1. /\ Len(ShownLog) \in Nat /\ Len(ShownLog)' \in Nat
      /\ Len(ShownLog) <= Len(ShownLog)'
    BY ShownLogType, LogGrows DEF ShownLog
<1>2. \A n \in b..Len(ShownLog) : n \in b..Len(ShownLog)' /\ n \in 0..Len(ShownLog)
    BY <1>1
<1>3. \A n \in b..Len(ShownLog) : \A m \in b..n : m \in b..Len(ShownLog)
    BY <1>1
<1>4. AssetsRead(x, b) => AssetsRead(x, b)'
    BY <1>2, AnswersStay DEF AssetsRead
<1>5. CardsRead(x, y, b) => CardsRead(x, y, b)'
    BY <1>2, <1>3, AnswersStay DEF CardsRead
<1>6. QED
    BY <1>1, <1>4, <1>5

\* A read of either card.
LEMMA ReadKeepsSummary ==
    ASSUME SummaryInv, Read
    PROVE  SummaryInv'
<1> DEFINE b == refresh.began[1][shownTarget]
           length == Len(ShownLog)
<1>1. PICK r \in Reads :
        /\ refresh.answers[r] = Waiting
        /\ \A s \in Reads : ReadBefore(r, s) => refresh.answers[s] # Waiting
        /\ refresh' = [refresh EXCEPT !.answers[r] = Answer(r)]
    BY DEF Read
<1>2. /\ UNCHANGED <<monitorVars, page>> /\ refresh.phase = "reading"
      /\ DigestInv /\ RefreshShape /\ b \in 0..length
    BY DEF Read, SummaryInv
<1>3. DigestInv' /\ UNCHANGED <<scans, assets>>
    <2>1. [MonitorNext]_monitorVars
        BY <1>2
    <2>2. QED
        BY <1>2, <2>1, MonitorDigestInductive DEF monitorVars, storeVars
<1>4. /\ RefreshShape' /\ refresh'.phase = "reading" /\ refresh'.began = refresh.began
      /\ refresh'.answers = [refresh.answers EXCEPT ![r] = Answer(r)]
    BY <1>1, <1>2 DEF RefreshShape
<1>5. \A s \in Reads : refresh'.answers[s] = IF s = r THEN Answer(r) ELSE refresh.answers[s]
    BY <1>1, <1>2, <1>4 DEF RefreshShape
<1>6. ASSUME NEW x, NEW y, NEW b0,
             b0 = b, x = refresh'.answers["assets"], y = refresh'.answers["snapshot"],
             x # Waiting => AssetsRead(x, b0),
             y # Waiting => x # Waiting /\ CardsRead(x, y, b0)
      PROVE  SummaryInv'
    <2>1. /\ x # Waiting => AssetsRead(x, b0)'
          /\ y # Waiting => x # Waiting /\ CardsRead(x, y, b0)'
        <3>1. (AssetsRead(x, b0) <=> AssetsRead(x, b0)')
            BY <1>3 DEF AssetsRead, AssetsAnswer, SightedBy, HostsAt, ShownLog
        <3>2. (CardsRead(x, y, b0) <=> CardsRead(x, y, b0)')
            BY <1>3 DEF CardsRead, AssetsAnswer, SnapshotAnswer, SightedBy, HostsAt, ShownLog
        <3>3. QED
            BY <1>6, <3>1, <3>2
    <2>2. b0 = refresh'.began[1][shownTarget]
        BY <1>4, <1>6
    <2>3. b0 \in 0..Len(ShownLog)'
        BY <1>2, <1>3, <1>6 DEF ShownLog
    <2>4. QED
        BY <1>3, <1>4, <1>6, <2>1, <2>2, <2>3 DEF SummaryInv
<1>7. length \in Nat /\ length \in b..length
    BY <1>2, ShownLogType DEF DigestInv
<1>8. CASE r = "assets"
    <2>1. AssetsRead(Answer("assets"), b)
        BY <1>2, <1>7, AssetsAnswerIsLatest DEF AssetsRead
    <2>2. refresh.answers["snapshot"] = Waiting
        BY <1>1, <1>2, <1>8 DEF SummaryInv
    <2>3. refresh'.answers["snapshot"] = Waiting /\ refresh'.answers["assets"] = Answer("assets")
        BY <1>5, <1>8, <2>2, SummaryReadsAre
    <2>4. QED
        BY <1>6, <2>1, <2>3
<1>9. CASE r = "snapshot"
    <2>1. refresh.answers["assets"] # Waiting
        BY <1>1, <1>9, SummaryReadsAre
    <2>2. /\ refresh'.answers["assets"] = refresh.answers["assets"]
          /\ refresh'.answers["snapshot"] = Answer("snapshot")
        BY <1>5, <1>9, SummaryReadsAre
    <2>3. PICK m \in b..length : refresh.answers["assets"] = AssetsAnswer(m)
        BY <1>2, <2>1 DEF SummaryInv, AssetsRead
    <2>4. Answer("snapshot") = SnapshotAnswer(length)
        BY <1>2, SnapshotAnswerIsLatest DEF DigestInv
    <2>5. CardsRead(refresh'.answers["assets"], refresh'.answers["snapshot"], b)
        BY <1>7, <2>2, <2>3, <2>4 DEF CardsRead
    <2>6. AssetsRead(refresh'.answers["assets"], b)
        BY <2>2, <2>3 DEF AssetsRead
    <2>7. QED
        BY <1>6, <2>1, <2>2, <2>5, <2>6
<1>10. CASE r # "assets" /\ r # "snapshot"
    <2>1. /\ refresh'.answers["assets"] = refresh.answers["assets"]
          /\ refresh'.answers["snapshot"] = refresh.answers["snapshot"]
        BY <1>5, <1>10, SummaryReadsAre
    <2>2. QED
        BY <1>2, <1>6, <2>1 DEF SummaryInv
<1>11. QED
    BY <1>8, <1>9, <1>10

LEMMA SummaryInvInductive == SummaryInv /\ [ConsoleNext]_consoleVars => SummaryInv'
<1> SUFFICES ASSUME SummaryInv, [ConsoleNext]_consoleVars PROVE SummaryInv'
    OBVIOUS
<1>1. [MonitorNext]_monitorVars /\ TypeOK
    BY ConsoleStepsAreMonitorSteps DEF SummaryInv, DigestInv
<1>2. DigestInv'
    BY <1>1, MonitorDigestInductive DEF SummaryInv
<1>3. ASSUME UNCHANGED <<refresh, page>> PROVE SummaryInv'
    <2>1. PICK b, x, y, shownX, shownY :
            /\ b = refresh.began[1][shownTarget]
            /\ x = refresh.answers["assets"] /\ y = refresh.answers["snapshot"]
            /\ shownX = page.shown["assets"] /\ shownY = page.shown["snapshot"]
        OBVIOUS
    <2>2. /\ RefreshShape' /\ refresh' = refresh
          /\ b = refresh'.began[1][shownTarget]
          /\ x = refresh'.answers["assets"] /\ y = refresh'.answers["snapshot"]
          /\ shownX = page'.shown["assets"] /\ shownY = page'.shown["snapshot"]
        BY <1>3, <2>1 DEF SummaryInv, RefreshShape
    <2>3. b \in 0..Len(ShownLog) =>
            /\ b \in 0..Len(ShownLog)'
            /\ AssetsRead(x, b) => AssetsRead(x, b)'
            /\ CardsRead(x, y, b) => CardsRead(x, y, b)'
            /\ CardsRead(shownX, shownY, b) => CardsRead(shownX, shownY, b)'
        BY <1>1, ReadStays
    <2>4. /\ refresh.phase \in {"reading", "drawn"} => b \in 0..Len(ShownLog)
          /\ refresh.phase = "reading" =>
                /\ x # Waiting => AssetsRead(x, b)
                /\ y # Waiting => x # Waiting /\ CardsRead(x, y, b)
          /\ refresh.phase = "drawn" => CardsRead(shownX, shownY, b)
        BY <2>1 DEF SummaryInv
    <2>5. /\ refresh'.phase \in {"reading", "drawn"} => b \in 0..Len(ShownLog)'
          /\ refresh'.phase = "reading" =>
                /\ x # Waiting => AssetsRead(x, b)'
                /\ y # Waiting => x # Waiting /\ CardsRead(x, y, b)'
          /\ refresh'.phase = "drawn" => CardsRead(shownX, shownY, b)'
        BY <2>2, <2>3, <2>4
    <2>6. QED
        BY <1>2, <2>2, <2>5 DEF SummaryInv
<1>4. ASSUME NEW c \in Clients, ClientStep(c) \/ Consider(c) PROVE SummaryInv'
    BY <1>3, <1>4 DEF ClientStep, Consider
<1>5. CASE StartRefresh
    <2>1. /\ refresh' = [phase |-> "reading", made |-> refresh.made + 1,
                         answers |-> NoAnswers, began |-> Version]
          /\ UNCHANGED monitorVars
        BY <1>5 DEF StartRefresh
    <2>2. DOMAIN NoAnswers = Reads
        BY DEF NoAnswers
    <2>3. /\ refresh'.phase = "reading" /\ refresh'.answers = NoAnswers
          /\ refresh'.began[1] = [t \in Targets |-> Len(scans[t])]
          /\ RefreshShape'
        BY <2>1, <2>2 DEF RefreshShape, Version
    <2>4. refresh'.answers["assets"] = Waiting /\ refresh'.answers["snapshot"] = Waiting
        BY <2>3, SummaryReadsAre DEF NoAnswers
    <2>5. Len(ShownLog)' = Len(ShownLog) /\ refresh'.began[1][shownTarget] = Len(ShownLog)
        BY <1>1, <2>1, <2>3, ShownLogType DEF ShownLog, monitorVars, storeVars
    <2>6. refresh'.began[1][shownTarget] \in 0..Len(ShownLog)'
        BY <1>1, <2>5, ShownLogType
    <2>7. QED
        BY <1>2, <2>3, <2>4, <2>6 DEF SummaryInv
<1>6. CASE Read
    BY <1>6, ReadKeepsSummary
<1>7. CASE FailRequest
    <2>1. refresh'.phase = "failed" /\ RefreshShape'
        BY <1>7 DEF FailRequest, SummaryInv, RefreshShape, NoAnswers
    <2>2. QED
        BY <1>2, <2>1 DEF SummaryInv
<1>8. CASE Draw
    <2>1. /\ refresh.phase = "reading" /\ \A r \in Reads : refresh.answers[r] # Waiting
          /\ refresh' = [refresh EXCEPT !.phase = "drawn", !.answers = NoAnswers]
          /\ UNCHANGED monitorVars
        BY <1>8 DEF Draw
    <2>2. \A r \in Reads : page'.shown[r] = IF Drawn(refresh.answers, r)
                                           THEN refresh.answers[r] ELSE page.shown[r]
        BY <1>8 DEF Draw
    <2>3. /\ page'.shown["assets"] = refresh.answers["assets"]
          /\ page'.shown["snapshot"] = refresh.answers["snapshot"]
        BY <2>2, SummaryReadsAre DEF Drawn
    <2>4. /\ refresh'.phase = "drawn" /\ refresh'.began = refresh.began /\ RefreshShape'
        BY <2>1 DEF SummaryInv, RefreshShape, NoAnswers
    <2>5. PICK b, x, y :
            /\ b = refresh.began[1][shownTarget]
            /\ x = refresh.answers["assets"] /\ y = refresh.answers["snapshot"]
        OBVIOUS
    <2>6. b \in 0..Len(ShownLog) /\ CardsRead(x, y, b)
        BY <2>1, <2>5, SummaryReadsAre DEF SummaryInv
    <2>7. b \in 0..Len(ShownLog)' /\ CardsRead(x, y, b)'
        BY <1>1, <2>6, ReadStays
    <2>8. /\ b = refresh'.began[1][shownTarget]
          /\ x = page'.shown["assets"] /\ y = page'.shown["snapshot"]
        BY <2>3, <2>4, <2>5
    <2>9. QED
        BY <1>2, <2>4, <2>7, <2>8 DEF SummaryInv
<1>9. CASE UNCHANGED consoleVars
    BY <1>3, <1>9 DEF consoleVars
<1>10. QED
    BY <1>4, <1>5, <1>6, <1>7, <1>8, <1>9 DEF ConsoleNext

\* However the reads of the page fall between the commits of any number of scans and
\* watches, each card is of a scan that was the latest during the refresh, and the
\* services and the time shown are never of an earlier scan than the assets.
THEOREM SummaryAlwaysIsOfConsecutiveScans == ConsoleSpec => []SummaryIsOfConsecutiveScans
<1>1. ConsoleInit => SummaryInv
    BY MonitorInitRow DEF ConsoleInit, RowInv, SummaryInv, RefreshShape, NoAnswers
<1>2. SummaryInv => SummaryIsOfConsecutiveScans
    BY DEF SummaryInv, CardsRead, AssetsAnswer, SnapshotAnswer, ShownLog,
           SummaryIsOfConsecutiveScans
<1>3. QED
    BY <1>1, <1>2, SummaryInvInductive, PTL DEF ConsoleSpec

-----------------------------------------------------------------------------
(* What there is of each kind is finite *)

\* The changes of one address, and those of a comparison.
LEMMA CompareIsFinite ==
    ASSUME IsFiniteSet(Ports), NEW a, NEW b
    PROVE  IsFiniteSet(Compare(a, b))
<1> DEFINE Changed(ip, before, after, P) ==
                {FingerprintChange(ip, p, before[p], after[p]) : p \in P}
<1>1. \A P \in SUBSET Ports : IsFiniteSet(P)
    BY FS_Subset
<1>2. ASSUME NEW type, NEW ip, NEW P \in SUBSET Ports
      PROVE  IsFiniteSet({ServiceChange(type, ip, p) : p \in P})
    <2> DEFINE f == [p \in P |-> ServiceChange(type, ip, p)]
    <2>1. IsFiniteSet(DOMAIN f)
        BY <1>1
    <2>2. IsFiniteSet({f[p] : p \in DOMAIN f})
        BY <2>1, FiniteImage
    <2>3. {f[p] : p \in DOMAIN f} = {ServiceChange(type, ip, p) : p \in P}
        OBVIOUS
    <2>4. QED
        BY <2>2, <2>3
<1>3. ASSUME NEW ip, NEW before, NEW after, NEW P \in SUBSET Ports
      PROVE  IsFiniteSet(Changed(ip, before, after, P))
    <2> DEFINE f == [p \in P |-> FingerprintChange(ip, p, before[p], after[p])]
    <2>1. IsFiniteSet(DOMAIN f)
        BY <1>1
    <2>2. IsFiniteSet({f[p] : p \in DOMAIN f})
        BY <2>1, FiniteImage
    <2>3. {f[p] : p \in DOMAIN f} = Changed(ip, before, after, P)
        OBVIOUS
    <2>4. QED
        BY <2>2, <2>3
<1>4. ASSUME NEW ip, NEW before, NEW after
      PROVE  IsFiniteSet(CompareHost(ip, before, after))
    <2>1. \A svc : OpenPorts(svc) \in SUBSET Ports
        BY DEF OpenPorts
    <2>2. \A type : IsFiniteSet({HostChange(type, ip)})
        BY FS_Singleton
    <2>3. IsFiniteSet(CompareServices(ip, before, after))
        <3> DEFINE A == {ServiceChange("SERVICE_ADDED", ip, p) :
                            p \in OpenPorts(after) \ OpenPorts(before)}
                   B == {ServiceChange("SERVICE_REMOVED", ip, p) :
                            p \in OpenPorts(before) \ OpenPorts(after)}
                   P == {q \in OpenPorts(before) \cap OpenPorts(after) : before[q] # after[q]}
                   C == Changed(ip, before, after, P)
        <3>1. IsFiniteSet(A) /\ IsFiniteSet(B)
            <4>1. OpenPorts(after) \ OpenPorts(before) \in SUBSET Ports
                BY <2>1
            <4>2. OpenPorts(before) \ OpenPorts(after) \in SUBSET Ports
                BY <2>1
            <4>3. QED
                BY <4>1, <4>2, <1>2
        <3>2. IsFiniteSet(C)
            <4>1. P \in SUBSET Ports
                BY <2>1
            <4> HIDE DEF P, Changed
            <4>2. QED
                BY <4>1, <1>3
        <3>3. CompareServices(ip, before, after) = A \cup B \cup C
            BY DEF CompareServices
        <3> HIDE DEF A, B, C
        <3>4. QED
            BY <3>1, <3>2, <3>3, FS_Union
    <2>4. CASE before = Absent /\ after = Absent
        BY <2>4, FS_EmptySet DEF CompareHost
    <2>5. CASE before = Absent /\ after # Absent
        <3> DEFINE A == {ServiceChange("SERVICE_ADDED", ip, p) : p \in OpenPorts(after)}
        <3>1. CompareHost(ip, before, after) = {HostChange("HOST_ADDED", ip)} \cup A
            BY <2>5 DEF CompareHost
        <3>2. IsFiniteSet(A)
            BY <1>2, <2>1
        <3> HIDE DEF A
        <3>3. QED
            BY <2>2, <3>1, <3>2, FS_Union
    <2>6. CASE before # Absent /\ after = Absent
        <3> DEFINE A == {ServiceChange("SERVICE_REMOVED", ip, p) : p \in OpenPorts(before)}
        <3>1. CompareHost(ip, before, after) = {HostChange("HOST_REMOVED", ip)} \cup A
            BY <2>6 DEF CompareHost
        <3>2. IsFiniteSet(A)
            BY <1>2, <2>1
        <3> HIDE DEF A
        <3>3. QED
            BY <2>2, <3>1, <3>2, FS_Union
    <2>7. CASE before # Absent /\ after # Absent
        <3>1. CompareHost(ip, before, after) = CompareServices(ip, before, after)
            BY <2>7 DEF CompareHost
        <3>2. QED
            BY <2>3, <3>1
    <2>8. QED
        BY <2>4, <2>5, <2>6, <2>7
<1>5. QED
    <2> DEFINE f == [ip \in IPs |-> CompareHost(ip, a[ip], b[ip])]
               all == {f[ip] : ip \in DOMAIN f}
    <2>1. IsFiniteSet(all)
        <3>1. IsFiniteSet(DOMAIN f)
            BY AddressAssumption DEF AddressAssumption
        <3>2. QED
            BY <3>1, FiniteImage
    <2>2. \A T \in all : IsFiniteSet(T)
        BY <1>4
    <2>3. Compare(a, b) = UNION all
        BY DEF Compare
    <2> HIDE DEF all
    <2>4. QED
        BY <2>1, <2>2, <2>3, FS_UNION

\* The services of a snapshot.
LEMMA ServicesAreFinite ==
    ASSUME NEW hosts
    PROVE  /\ IsFiniteSet(ServicesOf(hosts)) /\ IsFiniteSet(WebOf(hosts))
           /\ Cardinality(WebOf(hosts)) <= Cardinality(ServicesOf(hosts))
           /\ Cardinality(WebOf(hosts)) \in Nat /\ Cardinality(ServicesOf(hosts)) \in Nat
<1>1. IsFiniteSet(IPs \X Ports)
    BY AddressAssumption, ConsoleAssumption, FS_Product
       DEF AddressAssumption, ConsoleAssumption
<1>2. ServicesOf(hosts) \in SUBSET (IPs \X Ports)
    BY DEF ServicesOf, OpenPorts
<1>3. IsFiniteSet(ServicesOf(hosts))
    BY <1>1, <1>2, FS_Subset
<1>4. WebOf(hosts) \in SUBSET ServicesOf(hosts)
    BY DEF WebOf
<1>5. IsFiniteSet(WebOf(hosts)) /\ Cardinality(WebOf(hosts)) <= Cardinality(ServicesOf(hosts))
    BY <1>3, <1>4, FS_Subset
<1>6. QED
    BY <1>3, <1>5, FS_CardinalityType

\* The findings of a service.
LEMMA FindingsAreFinite ==
    ASSUME NEW port, NEW metadata
    PROVE  IsFiniteSet(AuthExposure(port) \cup FingerprintFindings(metadata))
<1>1. IsFiniteSet({}) /\ \A f : IsFiniteSet({f})
    BY FS_EmptySet, FS_Singleton
<1>2. IsFiniteSet(AuthExposure(port))
    BY <1>1 DEF AuthExposure
<1>3. \A fp : IsFiniteSet(LoginFindings(fp))
    BY <1>1 DEF LoginFindings
<1>4. \A days : IsFiniteSet(ExpiryFindings(days))
    BY <1>1 DEF ExpiryFindings
<1>5. \A c, f : IsFiniteSet(IF c THEN {f} ELSE {})
    BY <1>1
<1>6. \A fp : IsFiniteSet(HTTPFindings(fp))
    BY <1>3, <1>5, FS_Union DEF HTTPFindings
<1>7. \A fp : IsFiniteSet(TLSFindings(fp))
    BY <1>4, <1>5, FS_Union DEF TLSFindings
<1>8. IsFiniteSet(FingerprintFindings(metadata))
    <2>1. IsFiniteSet(IF metadata.http = NotRead THEN {} ELSE HTTPFindings(metadata.http))
        BY <1>1, <1>6
    <2>2. IsFiniteSet(IF metadata.tls = NotRead THEN {} ELSE TLSFindings(metadata.tls))
        BY <1>1, <1>7
    <2>3. QED
        BY <2>1, <2>2, FS_Union DEF FingerprintFindings
<1>9. QED
    BY <1>2, <1>8, FS_Union

\* The findings of a snapshot.
LEMMA FindingsOfAreFinite ==
    ASSUME NEW hosts
    PROVE  IsFiniteSet(FindingsOf(hosts)) /\ Cardinality(FindingsOf(hosts)) \in Nat
<1> DEFINE F(s) == AuthExposure(s[2]) \cup FingerprintFindings(hosts[s[1]].svc[s[2]])
           h    == [s \in ServicesOf(hosts) |-> {<<s, f>> : f \in F(s)}]
           all  == {h[s] : s \in DOMAIN h}
<1>1. IsFiniteSet(all)
    BY ServicesAreFinite, FiniteImage
<1>2. ASSUME NEW s \in ServicesOf(hosts) PROVE IsFiniteSet(h[s])
    <2> DEFINE g == [f \in F(s) |-> <<s, f>>]
    <2>1. IsFiniteSet(DOMAIN g)
        BY FindingsAreFinite
    <2>2. IsFiniteSet({g[f] : f \in DOMAIN g})
        BY <2>1, FiniteImage
    <2>3. h[s] = {g[f] : f \in DOMAIN g}
        OBVIOUS
    <2>4. QED
        BY <2>2, <2>3
<1>3. \A T \in all : IsFiniteSet(T)
    BY <1>2
<1>4. FindingsOf(hosts) = UNION all
    BY DEF FindingsOf
<1> HIDE DEF all
<1>5. IsFiniteSet(FindingsOf(hosts))
    BY <1>1, <1>3, <1>4, FS_UNION
<1>6. QED
    BY <1>5, FS_CardinalityType

-----------------------------------------------------------------------------
(* What the events have of the log *)

Carrying == {c \in Clients : stage[c] \in {"status", "events"}}

\* A batch, or what is to become one, is of a scan in the log.
IsOfScan(t, batch) ==
    \E n \in DOMAIN scans[t] :
        scans[t][n].at = batch.at /\ scans[t][n].changes = batch.changes

\* What is carried is of a scan whose changes are not recorded, and which nobody else
\* carries.
CarriedIsOfScan == \A c \in Carrying : IsOfScan(targetOf[c], work[c])

CarriedIsNew ==
    \A c \in Carrying : \A n \in DOMAIN events[targetOf[c]] :
        events[targetOf[c]][n].at # work[c].at

CarriedByOne ==
    \A c, d \in Carrying :
        c # d /\ targetOf[d] = targetOf[c] => work[d].at # work[c].at

BatchesAreOfScans ==
    \A t \in Targets : \A n \in DOMAIN events[t] : IsOfScan(t, events[t][n])

RecordedOnce ==
    \A t \in Targets : \A m, n \in DOMAIN events[t] :
        events[t][m].at = events[t][n].at => m = n

ChangesAreFinite ==
    \A t \in Targets : \A n \in DOMAIN scans[t] : IsFiniteSet(scans[t][n].changes)

RecordParts ==
    /\ CarriedIsOfScan /\ CarriedIsNew /\ CarriedByOne /\ BatchesAreOfScans
    /\ RecordedOnce /\ ChangesAreFinite

RecordInv == RowInv /\ EventsType /\ RecordParts

LEMMA PossibleChangesAreFinite ==
    ASSUME NEW t, NEW hosts, NEW changes \in PossibleChanges(t, hosts)
    PROVE  IsFiniteSet(changes)
<1>1. IsFiniteSet({})
    BY FS_EmptySet
<1>2. \A a, b : IsFiniteSet(Compare(a, b))
    BY ConsoleAssumption, CompareIsFinite DEF ConsoleAssumption
<1>3. changes = {} \/ \E n \in DOMAIN scans[t] :
        changes = Compare(View(scans[t][n].hosts), View(hosts))
    BY DEF PossibleChanges
<1>4. QED
    BY <1>1, <1>2, <1>3

\* What a commit adds to the log.
LEMMA CommitLog ==
    ASSUME RecordInv, NEW c \in Clients, Commit(c)
    PROVE  LET t == targetOf[c]
           IN  \E scan \in Scan :
                /\ scans'[t] = Append(scans[t], scan)
                /\ \A u \in Targets \ {t} : scans'[u] = scans[u]
                /\ work'[c].at = scan.at /\ work'[c].changes = scan.changes
                /\ \A d \in Clients \ {c} : work'[d] = work[d]
                /\ \A u \in Targets : scan.at \notin Stamps(u)
                /\ IsFiniteSet(scan.changes)
<1> DEFINE t == targetOf[c]
<1>1. t \in Targets
    BY MonitorAssumption DEF MonitorAssumption
<1>2. TypeOK
    BY DEF RecordInv, RowInv, DigestInv
<1>3. PICK hosts \in Hosts, at \in Times, changes \in SUBSET Change :
        /\ SaveSnapshot(t, hosts, at, changes)
        /\ work' = [work EXCEPT ![c].at = at, ![c].changes = changes]
        /\ \A u \in Targets : at \notin Stamps(u)
        /\ changes \in PossibleChanges(t, hosts)
    BY <1>2, CommitEffect
<1> DEFINE scan == [at |-> at, hosts |-> Stored(hosts), changes |-> changes]
<1>4. /\ scan \in Scan /\ scan.at = at /\ scan.changes = changes
      /\ scans'[t] = Append(scans[t], scan)
      /\ \A u \in Targets \ {t} : scans'[u] = scans[u]
    BY <1>1, <1>2, <1>3, SaveSnapshotEffect
<1>5. /\ work'[c].at = at /\ work'[c].changes = changes
      /\ \A d \in Clients \ {c} : work'[d] = work[d]
    BY <1>3 DEF RecordInv, RowInv, RowTypes, Work
<1>6. IsFiniteSet(changes)
    BY <1>3, PossibleChangesAreFinite
<1> HIDE DEF scan
<1>7. QED
    BY <1>3, <1>4, <1>5, <1>6

\* A scan of the log stays in it, and the one appended is in it.
LEMMA OfScanStays ==
    ASSUME TypeOK, NEW t \in Targets, NEW scan \in Scan,
           scans'[t] = Append(scans[t], scan),
           \A u \in Targets \ {t} : scans'[u] = scans[u]
    PROVE  /\ \A u \in Targets : \A at, changes :
                (\E n \in DOMAIN scans[u] :
                    scans[u][n].at = at /\ scans[u][n].changes = changes)
                => \E n \in DOMAIN scans'[u] :
                    scans'[u][n].at = at /\ scans'[u][n].changes = changes
           /\ \E n \in DOMAIN scans'[t] :
                scans'[t][n].at = scan.at /\ scans'[t][n].changes = scan.changes
           /\ \A n \in DOMAIN scans'[t] :
                \/ n \in DOMAIN scans[t] /\ scans'[t][n] = scans[t][n]
                \/ scans'[t][n] = scan
<1>1. scans[t] \in Seq(Scan) /\ Len(scans[t]) \in Nat
    BY DEF TypeOK
<1>2. /\ DOMAIN scans[t] = 1..Len(scans[t])
      /\ DOMAIN scans'[t] = 1..(Len(scans[t]) + 1)
      /\ scans'[t][Len(scans[t]) + 1] = scan
      /\ \A n \in 1..Len(scans[t]) : scans'[t][n] = scans[t][n]
    BY <1>1, AppendProperties, LenProperties
<1>3. /\ Len(scans[t]) + 1 \in DOMAIN scans'[t]
      /\ \A n \in DOMAIN scans[t] : n \in DOMAIN scans'[t] /\ scans'[t][n] = scans[t][n]
      /\ \A n \in DOMAIN scans'[t] : n \in DOMAIN scans[t] \/ n = Len(scans[t]) + 1
    BY <1>1, <1>2
<1>4. QED
    BY <1>2, <1>3

\* The stamps of batches are stamps of the log.
LEMMA BatchStamps ==
    ASSUME NEW t, NEW batch, IsOfScan(t, batch)
    PROVE  batch.at \in Stamps(t)
BY DEF IsOfScan, Stamps

LEMMA CommitKeepsRecord ==
    ASSUME RecordInv, NEW c \in Clients, Commit(c)
    PROVE  RecordParts'
<1> DEFINE t == targetOf[c]
<1>1. t \in Targets /\ targetOf \in [Clients -> Targets] /\ TypeOK
    BY MonitorAssumption DEF MonitorAssumption, RecordInv, RowInv, DigestInv
<1>2. PICK scan \in Scan :
        /\ scans'[t] = Append(scans[t], scan)
        /\ \A u \in Targets \ {t} : scans'[u] = scans[u]
        /\ work'[c].at = scan.at /\ work'[c].changes = scan.changes
        /\ \A d \in Clients \ {c} : work'[d] = work[d]
        /\ \A u \in Targets : scan.at \notin Stamps(u)
        /\ IsFiniteSet(scan.changes)
    BY CommitLog
<1>3. UNCHANGED events /\ c \notin Carrying /\ Carrying' = Carrying \cup {c}
    <2>1. /\ stage[c] = "cycle" /\ UNCHANGED events
          /\ stage' = [stage EXCEPT ![c] = IF c \in Watches THEN "status" ELSE "events"]
        BY DEF Commit, Move
    <2>2. stage \in [Clients -> MonitorStages]
        BY DEF RecordInv, RowInv, RowTypes
    <2>3. /\ stage'[c] \in {"status", "events"}
          /\ \A d \in Clients : d # c => stage'[d] = stage[d]
        BY <2>1, <2>2
    <2>4. QED
        BY <2>1, <2>3 DEF Carrying
<1>4. /\ \A u \in Targets : \A at, changes :
            (\E n \in DOMAIN scans[u] :
                scans[u][n].at = at /\ scans[u][n].changes = changes)
            => \E n \in DOMAIN scans'[u] :
                scans'[u][n].at = at /\ scans'[u][n].changes = changes
      /\ \E n \in DOMAIN scans'[t] :
            scans'[t][n].at = scan.at /\ scans'[t][n].changes = scan.changes
    BY <1>1, <1>2, OfScanStays
<1>5. CarriedIsOfScan'
    <2>1. ASSUME NEW d \in Carrying'
          PROVE  \E n \in DOMAIN scans'[targetOf[d]] :
                    /\ scans'[targetOf[d]][n].at = work'[d].at
                    /\ scans'[targetOf[d]][n].changes = work'[d].changes
        <3>1. CASE d = c
            BY <1>2, <1>4, <3>1
        <3>2. CASE d # c
            <4>1. d \in Carrying /\ d \in Clients /\ work'[d] = work[d]
                BY <1>2, <1>3, <2>1, <3>2 DEF Carrying
            <4>2. \E n \in DOMAIN scans[targetOf[d]] :
                    /\ scans[targetOf[d]][n].at = work[d].at
                    /\ scans[targetOf[d]][n].changes = work[d].changes
                BY <4>1 DEF RecordInv, RecordParts, CarriedIsOfScan, IsOfScan
            <4>3. targetOf[d] \in Targets
                BY <1>1, <4>1
            <4>4. QED
                BY <1>4, <4>1, <4>2, <4>3
        <3>3. QED
            BY <3>1, <3>2
    <2>2. QED
        BY <2>1 DEF CarriedIsOfScan, IsOfScan
<1>6. BatchesAreOfScans'
    BY <1>3, <1>4 DEF RecordInv, RecordParts, BatchesAreOfScans, IsOfScan
<1>7. \A u \in Targets : \A n \in DOMAIN events[u] : events[u][n].at # scan.at
    BY <1>2, BatchStamps DEF RecordInv, RecordParts, BatchesAreOfScans
<1>8. \A d \in Carrying : work[d].at # scan.at
    BY <1>1, <1>2, BatchStamps DEF RecordInv, RecordParts, CarriedIsOfScan, Carrying
<1>9. CarriedIsNew'
    <2>1. ASSUME NEW d \in Carrying', NEW n \in DOMAIN events[targetOf[d]]
          PROVE  events[targetOf[d]][n].at # work'[d].at
        <3>1. CASE d = c
            BY <1>1, <1>2, <1>7, <2>1, <3>1
        <3>2. CASE d # c
            BY <1>2, <1>3, <2>1, <3>2 DEF RecordInv, RecordParts, CarriedIsNew, Carrying
        <3>3. QED
            BY <3>1, <3>2
    <2>2. QED
        BY <1>3, <2>1 DEF CarriedIsNew
<1>10. CarriedByOne'
    BY <1>2, <1>3, <1>8 DEF RecordInv, RecordParts, CarriedByOne, Carrying
<1>11. RecordedOnce'
    BY <1>3 DEF RecordInv, RecordParts, RecordedOnce
<1>12. ChangesAreFinite'
    <2>1. ASSUME NEW u \in Targets, NEW n \in DOMAIN scans'[u]
          PROVE  IsFiniteSet(scans'[u][n].changes)
        <3>1. CASE u # t
            BY <1>2, <2>1, <3>1 DEF RecordInv, RecordParts, ChangesAreFinite
        <3>2. CASE u = t
            <4>1. \/ n \in DOMAIN scans[t] /\ scans'[t][n] = scans[t][n]
                  \/ scans'[t][n] = scan
                BY <1>1, <1>2, <2>1, <3>2, OfScanStays
            <4>2. QED
                BY <1>1, <1>2, <3>2, <4>1 DEF RecordInv, RecordParts, ChangesAreFinite
        <3>3. QED
            BY <3>1, <3>2
    <2>2. QED
        BY <2>1 DEF ChangesAreFinite
<1>13. QED
    BY <1>5, <1>6, <1>9, <1>10, <1>11, <1>12 DEF RecordParts

\* Nothing is written and who carries something carries the same.
LEMMA ShrinkingKeepsRecord ==
    ASSUME RecordInv, UNCHANGED <<scans, events>>, Carrying' \subseteq Carrying,
           \A d \in Carrying' : work'[d] = work[d]
    PROVE  RecordParts'
<1>1. CarriedIsOfScan'
    BY DEF RecordInv, RecordParts, CarriedIsOfScan, IsOfScan
<1>2. CarriedIsNew'
    BY DEF RecordInv, RecordParts, CarriedIsNew
<1>3. CarriedByOne'
    BY DEF RecordInv, RecordParts, CarriedByOne
<1>4. BatchesAreOfScans'
    BY DEF RecordInv, RecordParts, BatchesAreOfScans, IsOfScan
<1>5. RecordedOnce' /\ ChangesAreFinite'
    BY DEF RecordInv, RecordParts, RecordedOnce, ChangesAreFinite
<1>6. QED
    BY <1>1, <1>2, <1>3, <1>4, <1>5 DEF RecordParts

\* A client hands what it carries to the events.
LEMMA RecordKeepsRecord ==
    ASSUME RecordInv, NEW c \in Clients, Record(c)
    PROVE  RecordParts'
<1> DEFINE t     == targetOf[c]
           batch == [at |-> work[c].at, changes |-> work[c].changes]
<1>1. t \in Targets /\ targetOf \in [Clients -> Targets]
    BY MonitorAssumption DEF MonitorAssumption
<1>2. /\ scans' = scans /\ c \in Carrying /\ c \notin Carrying'
      /\ Carrying' \subseteq Carrying
      /\ \A d \in Carrying' : work'[d] = work[d]
    <2>1. /\ stage[c] = "events" /\ UNCHANGED scans
          /\ stage' = [stage EXCEPT ![c] = IF c \in Watches THEN "wait" ELSE "off"]
          /\ work' = [work EXCEPT ![c] = Idle(c \in Watches)]
        BY DEF Record, Move, storeVars
    <2>2. stage \in [Clients -> MonitorStages] /\ work \in [Clients -> Work]
        BY DEF RecordInv, RowInv, RowTypes
    <2>3. /\ stage'[c] \in {"wait", "off"}
          /\ \A d \in Clients : d # c => stage'[d] = stage[d] /\ work'[d] = work[d]
        BY <2>1, <2>2
    <2>4. QED
        BY <2>1, <2>3 DEF Carrying
<1>3. CASE work[c].changes = {}
    <2>1. UNCHANGED events
        BY <1>3 DEF Record
    <2>2. QED
        BY <1>2, <2>1, ShrinkingKeepsRecord
<1>4. CASE work[c].changes # {}
    <2>1. /\ batch \in Batch /\ batch.at = work[c].at /\ batch.changes = work[c].changes
          /\ events' = [events EXCEPT ![t] = Append(@, batch)]
        <3>1. stage[c] = "events"
            BY DEF Record
        <3>2. batch \in Batch
            BY <3>1, CarriedIsBatch DEF RecordInv
        <3>3. QED
            BY <1>4, <3>2 DEF Record
    <2> HIDE DEF batch
    <2>2. /\ events'[t] = Append(events[t], batch)
          /\ \A u \in Targets : u # t => events'[u] = events[u]
          /\ events[t] \in Seq(Batch) /\ Len(events[t]) \in Nat
        BY <1>1, <2>1 DEF RecordInv, EventsType
    <2> DEFINE length == Len(events[t])
    <2>3. /\ DOMAIN events[t] = 1..length /\ DOMAIN events'[t] = 1..(length + 1)
          /\ events'[t][length + 1] = batch
          /\ \A n \in 1..length : events'[t][n] = events[t][n]
        BY <2>1, <2>2, AppendProperties, LenProperties
    <2>4. length \in Nat
        BY <2>2
    <2> HIDE DEF length
    <2>5. \A n \in DOMAIN events'[t] :
            \/ n \in DOMAIN events[t] /\ events'[t][n] = events[t][n]
            \/ n = length + 1 /\ n \notin DOMAIN events[t] /\ events'[t][n] = batch
        BY <2>3, <2>4
    <2>6. CarriedIsOfScan'
        BY <1>2 DEF RecordInv, RecordParts, CarriedIsOfScan, IsOfScan
    <2>7. \A d \in Carrying' : d \in Clients /\ d # c /\ d \in Carrying
        BY <1>2 DEF Carrying
    <2>8. CarriedIsNew'
        <3>1. ASSUME NEW d \in Carrying', NEW n \in DOMAIN events'[targetOf[d]]
              PROVE  events'[targetOf[d]][n].at # work'[d].at
            <4>1. /\ d \in Carrying /\ d # c /\ targetOf[d] \in Targets
                  /\ work'[d] = work[d]
                BY <1>1, <1>2, <2>7
            <4>2. CASE targetOf[d] # t
                BY <2>2, <3>1, <4>1, <4>2 DEF RecordInv, RecordParts, CarriedIsNew
            <4>3. CASE targetOf[d] = t
                <5>1. work[d].at # batch.at
                    BY <1>2, <2>1, <4>1, <4>3 DEF RecordInv, RecordParts, CarriedByOne
                <5>2. n \in DOMAIN events[t] => events[t][n].at # work[d].at
                    BY <4>1, <4>3 DEF RecordInv, RecordParts, CarriedIsNew
                <5>3. QED
                    BY <2>5, <3>1, <4>1, <4>3, <5>1, <5>2
            <4>4. QED
                BY <4>2, <4>3
        <3>2. QED
            BY <3>1 DEF CarriedIsNew
    <2>9. CarriedByOne'
        BY <1>2 DEF RecordInv, RecordParts, CarriedByOne
    <2>10. BatchesAreOfScans'
        <3>1. ASSUME NEW u \in Targets, NEW n \in DOMAIN events'[u]
              PROVE  IsOfScan(u, events'[u][n])
            <4>1. CASE u # t
                BY <2>2, <3>1, <4>1 DEF RecordInv, RecordParts, BatchesAreOfScans
            <4>2. CASE u = t
                <5>1. IsOfScan(t, work[c])
                    BY <1>2 DEF RecordInv, RecordParts, CarriedIsOfScan
                <5>2. IsOfScan(t, batch)
                    BY <2>1, <5>1 DEF IsOfScan
                <5>3. n \in DOMAIN events[t] => IsOfScan(t, events[t][n])
                    BY <1>1 DEF RecordInv, RecordParts, BatchesAreOfScans
                <5>4. QED
                    BY <2>5, <3>1, <4>2, <5>2, <5>3
            <4>3. QED
                BY <4>1, <4>2
        <3>2. QED
            BY <1>2, <3>1 DEF BatchesAreOfScans, IsOfScan
    <2>11. RecordedOnce'
        <3>1. ASSUME NEW u \in Targets, NEW m \in DOMAIN events'[u],
                     NEW n \in DOMAIN events'[u], events'[u][m].at = events'[u][n].at
              PROVE  m = n
            <4>1. CASE u # t
                BY <2>2, <3>1, <4>1 DEF RecordInv, RecordParts, RecordedOnce
            <4>2. CASE u = t
                <5>1. \A i \in DOMAIN events[t] : events[t][i].at # batch.at
                    BY <1>2, <2>1 DEF RecordInv, RecordParts, CarriedIsNew
                <5>2. \A i, j \in DOMAIN events[t] :
                        events[t][i].at = events[t][j].at => i = j
                    BY <1>1 DEF RecordInv, RecordParts, RecordedOnce
                <5>3. QED
                    BY <2>5, <3>1, <4>2, <5>1, <5>2
            <4>3. QED
                BY <4>1, <4>2
        <3>2. QED
            BY <3>1 DEF RecordedOnce
    <2>12. ChangesAreFinite'
        BY <1>2 DEF RecordInv, RecordParts, ChangesAreFinite
    <2>13. QED
        BY <2>6, <2>8, <2>9, <2>10, <2>11, <2>12 DEF RecordParts
<1>5. QED
    BY <1>3, <1>4

LEMMA RecordInvInductive == RecordInv /\ [MonitorNext]_monitorVars => RecordInv'
<1> SUFFICES ASSUME RecordInv, [MonitorNext]_monitorVars PROVE RecordInv'
    OBVIOUS
<1>1. RowInv' /\ EventsType'
    BY RowInvInductive, EventsGrow DEF RecordInv
<1>2. ASSUME NEW c \in Clients,
             Begin(c) \/ Status(c) \/ Again(c) \/ Stop(c) \/ Deactivate(c) \/ Crash(c)
      PROVE  RecordParts'
    <2>1. UNCHANGED <<scans, events>>
        BY <1>2 DEF Begin, Status, Again, Stop, Deactivate, Crash, storeVars
    <2>2. stage \in [Clients -> MonitorStages] /\ work \in [Clients -> Work]
        BY DEF RecordInv, RowInv, RowTypes
    <2>3. /\ \A d \in Clients : d # c => stage'[d] = stage[d] /\ work'[d] = work[d]
          /\ stage'[c] \in {"status", "events"} =>
                stage[c] = "status" /\ work'[c] = work[c]
        BY <1>2, <2>2 DEF Begin, Status, Again, Stop, Deactivate, Crash, Move
    <2>4. QED
        BY <2>1, <2>3, ShrinkingKeepsRecord DEF Carrying
<1>3. ASSUME UNCHANGED monitorVars PROVE RecordParts'
    BY <1>3, ShrinkingKeepsRecord DEF monitorVars, storeVars, Carrying
<1>4. RecordParts'
    BY <1>2, <1>3, CommitKeepsRecord, RecordKeepsRecord DEF MonitorNext, MonitorStep
<1>5. QED
    BY <1>1, <1>4 DEF RecordInv

\* Before anyone has begun, nothing is recorded and nobody carries anything.
LEMMA InitiallyNothingRecorded == MonitorInit => RecordInv
<1> SUFFICES ASSUME MonitorInit PROVE RecordInv
    OBVIOUS
<1>1. RowInv /\ EventsType
    BY MonitorInitRow
<1>2. /\ \A t \in Targets : scans[t] = <<>> /\ events[t] = <<>>
      /\ \A c \in Clients : stage[c] = "off"
    BY DEF MonitorInit, StoreInit
<1>3. Carrying = {}
    BY <1>2 DEF Carrying
<1>4. RecordParts
    BY <1>2, <1>3 DEF RecordParts, CarriedIsOfScan, CarriedIsNew, CarriedByOne,
                      BatchesAreOfScans, RecordedOnce, ChangesAreFinite
<1>5. QED
    BY <1>1, <1>4 DEF RecordInv

\* The events of a target count no change that the log does not.
LEMMA RecordedAtMostSaved ==
    ASSUME RecordInv, NEW t \in Targets
    PROVE  LET saved == SumFunction([n \in DOMAIN scans[t] |->
                                        Cardinality(scans[t][n].changes)])
           IN  Recorded(t) \in Nat /\ saved \in Nat /\ Recorded(t) <= saved
<1> DEFINE S == DOMAIN events[t]
           T == DOMAIN scans[t]
           f == [n \in S |-> Cardinality(events[t][n].changes)]
           g == [n \in T |-> Cardinality(scans[t][n].changes)]
           place == [n \in S |-> CHOOSE m \in T :
                        /\ scans[t][m].at = events[t][n].at
                        /\ scans[t][m].changes = events[t][n].changes]
<1>1. IsFiniteSet(S) /\ IsFiniteSet(T)
    <2>1. events[t] \in Seq(Batch) /\ scans[t] \in Seq(Scan)
        BY DEF RecordInv, EventsType, RowInv, DigestInv, TypeOK
    <2>2. /\ Len(events[t]) \in Nat /\ S = 1..Len(events[t])
          /\ Len(scans[t]) \in Nat /\ T = 1..Len(scans[t])
        BY <2>1
    <2>3. QED
        BY <2>2, FS_Interval
<1>2. \A m \in T : Cardinality(scans[t][m].changes) \in Nat
    BY FS_CardinalityType DEF RecordInv, RecordParts, ChangesAreFinite
<1>3. \A n \in S : /\ place[n] \in T
                   /\ scans[t][place[n]].at = events[t][n].at
                   /\ scans[t][place[n]].changes = events[t][n].changes
    BY DEF RecordInv, RecordParts, BatchesAreOfScans, IsOfScan
<1>4. place \in [S -> T]
    BY <1>3
<1>5. ASSUME NEW x \in S, NEW y \in S, place[x] = place[y] PROVE x = y
    <2>1. events[t][x].at = events[t][y].at
        BY <1>3, <1>5
    <2>2. QED
        BY <2>1 DEF RecordInv, RecordParts, RecordedOnce
<1>6. g \in [T -> Nat]
    BY <1>2
<1>7. \A n \in S : f[n] = g[place[n]]
    BY <1>3
<1>8. f \in [S -> Nat]
    BY <1>2, <1>3
<1>9. Recorded(t) = SumFunction(f)
    BY DEF Recorded
<1> HIDE DEF f, g, place
<1>10. /\ SumFunction(f) \in Nat /\ SumFunction(g) \in Nat
       /\ SumFunction(f) <= SumFunction(g)
    BY <1>1, <1>4, <1>5, <1>6, <1>7, <1>8, SumIsNat, SumOfSome
<1>11. QED
    BY <1>9, <1>10 DEF g

-----------------------------------------------------------------------------
(* No notification twice *)

\* Two notices of one event, made by the clients c and d.
SameEvent(c, m, d, n) ==
    targetOf[c] = targetOf[d] /\ m.at = n.at /\ m.change = n.change

\* What a watch has still to consider nobody has shown, and no other watch has to
\* consider it too.
StillUntold ==
    /\ \A c \in Clients : \A n \in pending[c] : \A m \in DOMAIN toasts :
        ~SameEvent(m.by, m, c, n)
    /\ \A c, d \in Clients : \A m \in pending[c], n \in pending[d] :
        c # d => ~SameEvent(c, m, d, n)

PendingAreNotices ==
    \A c \in Clients : \A n \in pending[c] : n = [at |-> n.at, change |-> n.change]

OnceParts == ToastsShownOnce /\ StillUntold /\ PendingAreNotices

OnceInv == RecordInv /\ ToastInv /\ OnceParts

\* What a watch is about to record has a time that no recorded event of the target
\* has.
LEMMA NoticesAreNew ==
    ASSUME RecordInv, NEW c \in Clients, stage[c] = "events", NEW n \in Notices(c),
           NEW d \in Clients, NEW m, IsRecorded(d, m)
    PROVE  ~SameEvent(d, m, c, n)
<1>1. c \in Carrying /\ n.at = work[c].at
    BY DEF Carrying, Notices
<1>2. \A i \in DOMAIN events[targetOf[c]] : events[targetOf[c]][i].at # work[c].at
    BY <1>1 DEF RecordInv, RecordParts, CarriedIsNew
<1>3. QED
    BY <1>1, <1>2 DEF SameEvent, IsRecorded, Range

\* A watch comes to events of its own: none is recorded yet, so none is shown and
\* none is to be considered by another.
LEMMA ComingToNotices ==
    ASSUME OnceInv, NEW c \in Clients, ClientStep(c)
    PROVE  OnceParts'
<1>1. /\ toasts' = toasts /\ DOMAIN pending = Clients
      /\ \A d \in Clients : d # c => pending'[d] = pending[d]
      /\ \A n \in pending'[c] : n \in Notices(c) /\ stage[c] = "events"
    BY DEF ClientStep, Considered, OnceInv, ToastInv
<1>2. ToastsShownOnce'
    BY <1>1 DEF OnceInv, OnceParts, ToastsShownOnce
<1>3. ASSUME NEW n \in pending'[c], NEW m \in DOMAIN toasts
      PROVE  ~SameEvent(m.by, m, c, n)
    <2>1. m.by \in Clients /\ IsRecorded(m.by, m)
        BY DEF OnceInv, ToastInv
    <2>2. QED
        BY <1>1, <1>3, <2>1, NoticesAreNew DEF OnceInv
<1>4. ASSUME NEW n \in pending'[c], NEW d \in Clients \ {c}, NEW m \in pending[d]
      PROVE  ~SameEvent(d, m, c, n) /\ ~SameEvent(c, n, d, m)
    <2>1. IsRecorded(d, m)
        BY DEF OnceInv, ToastInv
    <2>2. ~SameEvent(d, m, c, n)
        BY <1>1, <1>4, <2>1, NoticesAreNew DEF OnceInv
    <2>3. QED
        BY <2>2 DEF SameEvent
<1>5. ASSUME NEW d \in Clients, NEW n \in pending'[d], NEW m \in DOMAIN toasts'
      PROVE  ~SameEvent(m.by, m, d, n)
    <2>1. CASE d = c
        BY <1>1, <1>3, <1>5, <2>1
    <2>2. CASE d # c
        BY <1>1, <1>5, <2>2 DEF OnceInv, OnceParts, StillUntold
    <2>3. QED
        BY <2>1, <2>2
<1>6. ASSUME NEW d \in Clients, NEW e \in Clients, d # e,
             NEW m \in pending'[d], NEW n \in pending'[e]
      PROVE  ~SameEvent(d, m, e, n)
    <2>1. CASE d = c
        BY <1>1, <1>4, <1>6, <2>1
    <2>2. CASE e = c
        BY <1>1, <1>4, <1>6, <2>2
    <2>3. CASE d # c /\ e # c
        BY <1>1, <1>6, <2>3 DEF OnceInv, OnceParts, StillUntold
    <2>4. QED
        BY <2>1, <2>2, <2>3
<1>7. StillUntold'
    BY <1>5, <1>6 DEF StillUntold, SameEvent
<1>8. PendingAreNotices'
    <2>1. \A n \in Notices(c) : n = [at |-> n.at, change |-> n.change]
        BY DEF Notices
    <2>2. ASSUME NEW d \in Clients, NEW n \in pending'[d]
          PROVE  n = [at |-> n.at, change |-> n.change]
        <3>1. CASE d = c
            BY <1>1, <2>1, <2>2, <3>1
        <3>2. CASE d # c
            BY <1>1, <2>2, <3>2 DEF OnceInv, OnceParts, PendingAreNotices
        <3>3. QED
            BY <3>1, <3>2
    <2>3. QED
        BY <2>2 DEF PendingAreNotices
<1>9. QED
    BY <1>2, <1>7, <1>8 DEF OnceParts

\* A watch is done with one of its events, which was not shown before.
LEMMA ConsideringOne ==
    ASSUME OnceInv, NEW c \in Clients, Consider(c)
    PROVE  OnceParts'
<1>1. PICK n \in pending[c] :
        /\ pending' = [pending EXCEPT ![c] = @ \ {n}]
        /\ \/ toasts' = ToastBag!BagAdd(toasts, [by |-> c, at |-> n.at, change |-> n.change])
           \/ UNCHANGED toasts
    BY DEF Consider
<1>2. /\ \A d \in Clients : pending'[d] \subseteq pending[d]
      /\ n \notin pending'[c]
    BY <1>1 DEF OnceInv, ToastInv
<1>3. PendingAreNotices'
    BY <1>2 DEF OnceInv, OnceParts, PendingAreNotices
<1>4. CASE UNCHANGED toasts
    <2>1. ToastsShownOnce'
        BY <1>4 DEF OnceInv, OnceParts, ToastsShownOnce
    <2>2. StillUntold'
        BY <1>2, <1>4 DEF OnceInv, OnceParts, StillUntold, SameEvent
    <2>3. QED
        BY <1>3, <2>1, <2>2 DEF OnceParts
<1> DEFINE toast == [by |-> c, at |-> n.at, change |-> n.change]
<1>5. CASE toasts' = ToastBag!BagAdd(toasts, toast)
    <2>1. toast.by = c /\ toast.at = n.at /\ toast.change = n.change
        OBVIOUS
    <2> HIDE DEF toast
    <2>2. \A m \in DOMAIN toasts : ~SameEvent(m.by, m, c, toast)
        BY <2>1 DEF OnceInv, OnceParts, StillUntold, SameEvent
    <2>3. toast \notin DOMAIN toasts
        BY <2>1, <2>2 DEF SameEvent
    <2>4. /\ DOMAIN toasts' = DOMAIN toasts \cup {toast} /\ toasts'[toast] = 1
          /\ \A m \in DOMAIN toasts : toasts'[m] = toasts[m]
        <3>1. /\ DOMAIN toasts' = DOMAIN toasts \cup {toast}
              /\ toast \notin DOMAIN toasts => toasts'[toast] = 1
              /\ \A m \in DOMAIN toasts \ {toast} : toasts'[m] = toasts[m]
            BY <1>5, OneMoreToast
        <3>2. QED
            BY <2>3, <3>1
    <2>5. ToastsShownOnce'
        BY <2>1, <2>2, <2>4 DEF OnceInv, OnceParts, ToastsShownOnce, SameEvent
    <2>6. ASSUME NEW d \in Clients, NEW m \in pending'[d] PROVE ~SameEvent(c, toast, d, m)
        <3>1. CASE d # c
            BY <1>2, <2>1, <2>6, <3>1 DEF OnceInv, OnceParts, StillUntold, SameEvent
        <3>2. CASE d = c
            <4>1. m \in pending[c] /\ m # n
                BY <1>2, <2>6, <3>2
            <4>2. m.at = n.at /\ m.change = n.change => m = n
                BY <4>1 DEF OnceInv, OnceParts, PendingAreNotices
            <4>3. QED
                BY <2>1, <3>2, <4>1, <4>2 DEF SameEvent
        <3>3. QED
            BY <3>1, <3>2
    <2>7. StillUntold'
        BY <1>2, <2>1, <2>4, <2>6 DEF OnceInv, OnceParts, StillUntold, SameEvent
    <2>8. QED
        BY <1>3, <2>5, <2>7 DEF OnceParts
<1>6. QED
    BY <1>1, <1>4, <1>5

LEMMA OnceInvInductive == OnceInv /\ [ConsoleNext]_consoleVars => OnceInv'
<1> SUFFICES ASSUME OnceInv, [ConsoleNext]_consoleVars PROVE OnceInv'
    OBVIOUS
<1>1. RecordInv' /\ ToastInv'
    BY ConsoleStepsAreMonitorSteps, RecordInvInductive, ToastInvInductive DEF OnceInv
<1>2. ASSUME UNCHANGED <<pending, toasts>> PROVE OnceParts'
    BY <1>2 DEF OnceInv, OnceParts, ToastsShownOnce, StillUntold, SameEvent,
                PendingAreNotices
<1>3. ASSUME StartRefresh \/ Read \/ FailRequest \/ Draw \/ UNCHANGED consoleVars
      PROVE  OnceParts'
    BY <1>2, <1>3 DEF StartRefresh, Read, FailRequest, Draw, consoleVars
<1>4. ASSUME NEW c \in Clients, ClientStep(c) \/ Consider(c) PROVE OnceParts'
    BY <1>4, ComingToNotices, ConsideringOne
<1>5. OnceParts'
    BY <1>3, <1>4 DEF ConsoleNext
<1>6. QED
    BY <1>1, <1>5 DEF OnceInv

\* For any number of watches of any targets, through failures, deaths and restarts:
\* no event is shown twice, by whomever.
THEOREM ToastsAlwaysShownOnce == ConsoleSpec => []ToastsShownOnce
<1>1. ConsoleInit => OnceInv
    <2> SUFFICES ASSUME ConsoleInit PROVE OnceInv
        OBVIOUS
    <2>1. RecordInv
        BY InitiallyNothingRecorded DEF ConsoleInit
    <2>2. /\ DOMAIN toasts = {} /\ DOMAIN pending = Clients
          /\ \A c \in Clients : pending[c] = {}
        BY NoToasts DEF ConsoleInit
    <2>3. ToastInv
        BY <2>1, <2>2 DEF ToastInv, RecordInv
    <2>4. OnceParts
        BY <2>2 DEF OnceParts, ToastsShownOnce, StillUntold, PendingAreNotices
    <2>5. QED
        BY <2>1, <2>3, <2>4 DEF OnceInv
<1>2. OnceInv => ToastsShownOnce
    BY DEF OnceInv, OnceParts
<1>3. QED
    BY <1>1, <1>2, OnceInvInductive, PTL DEF ConsoleSpec

-----------------------------------------------------------------------------
(* A page while nothing is committed *)

\* No read but that of the monitoring row sees more than the log, the assets and the
\* events of the shown target.
LEMMA AnswersAreOfTables ==
    ASSUME UNCHANGED <<scans, assets>>, events'[shownTarget] = events[shownTarget],
           NEW r, r # "monitoring"
    PROVE  Answer(r)' = Answer(r)
<1> DEFINE t == shownTarget
<1>1. KnownRows(t)' = KnownRows(t)
    BY DEF KnownRows
<1>2. ActiveRows(t)' = ActiveRows(t)
    BY <1>1 DEF ActiveRows
<1>3. HasSnapshot(t)' = HasSnapshot(t) /\ LatestSnapshot(t)' = LatestSnapshot(t)
    BY DEF HasSnapshot, LatestSnapshot
<1>4. \A limit : RecentFindings(limit)' = RecentFindings(limit)
    BY DEF RecentFindings
<1>5. \A limit : RecentEvents(t, limit)' = RecentEvents(t, limit)
    BY DEF RecentEvents, Recorded
<1>6. LatestWebInterfaces(t)' = LatestWebInterfaces(t)
    BY <1>3 DEF LatestWebInterfaces
<1>7. QED
    BY <1>1, <1>2, <1>3, <1>4, <1>5, <1>6 DEF Answer

\* All findings there are, and that those of the latest scan are among them.
LEMMA FindingsOfAll ==
    ASSUME TypeOK, NEW t \in Targets, NEW n \in DOMAIN scans[t]
    PROVE  LET all == SumFunction([u \in Targets |-> StoredFindings(scans[u])])
           IN  all \in Nat /\ Cardinality(FindingsOf(scans[t][n].hosts)) <= all
<1>1. ASSUME NEW u \in Targets
      PROVE  /\ StoredFindings(scans[u]) \in Nat
             /\ \A m \in DOMAIN scans[u] :
                    Cardinality(FindingsOf(scans[u][m].hosts)) <= StoredFindings(scans[u])
    <2> DEFINE S == DOMAIN scans[u]
               f == [m \in S |-> Cardinality(FindingsOf(scans[u][m].hosts))]
    <2>1. IsFiniteSet(S)
        <3>1. scans[u] \in Seq(Scan)
            BY DEF TypeOK
        <3>2. Len(scans[u]) \in Nat /\ S = 1..Len(scans[u])
            BY <3>1
        <3>3. QED
            BY <3>2, FS_Interval
    <2>2. f \in [S -> Nat] /\ \A m \in S : f[m] = Cardinality(FindingsOf(scans[u][m].hosts))
        BY FindingsOfAreFinite
    <2>3. StoredFindings(scans[u]) = SumFunction(f)
        BY DEF StoredFindings
    <2> HIDE DEF f
    <2>4. SumFunction(f) \in Nat /\ \A m \in S : f[m] <= SumFunction(f)
        BY <2>1, <2>2, SumIsNat, SumAtLeastEach
    <2>5. QED
        BY <2>2, <2>3, <2>4
<1> DEFINE g == [u \in Targets |-> StoredFindings(scans[u])]
<1>2. g \in [Targets -> Nat] /\ g[t] = StoredFindings(scans[t])
    BY <1>1
<1>3. IsFiniteSet(Targets)
    BY ConsoleAssumption DEF ConsoleAssumption
<1> HIDE DEF g
<1>4. SumFunction(g) \in Nat /\ g[t] <= SumFunction(g)
    BY <1>2, <1>3, SumIsNat, SumAtLeastEach
<1>5. Cardinality(FindingsOf(scans[t][n].hosts)) <= g[t]
    BY <1>1, <1>2
<1>6. Cardinality(FindingsOf(scans[t][n].hosts)) \in Nat /\ g[t] \in Nat
    BY <1>2, FindingsOfAreFinite
<1>7. Cardinality(FindingsOf(scans[t][n].hosts)) <= SumFunction(g)
    BY <1>4, <1>5, <1>6
<1>8. QED
    BY <1>4, <1>7 DEF g

LEMMA ReadNames ==
    /\ Reads = {"assets", "snapshot", "findings", "events", "monitoring",
                "assetRows", "eventRows", "findingRows", "webRows"}
    /\ Lists[4] = "webRows" /\ 4 \in DOMAIN Lists
    /\ "webRows" \notin Range(SummaryReads)
<1>1. /\ Range(SummaryReads) =
            {"assets", "snapshot", "findings", "events", "monitoring"}
      /\ Range(Lists) = {"assetRows", "eventRows", "findingRows", "webRows"}
    BY DEF SummaryReads, Lists, Range
<1>2. Lists[4] = "webRows" /\ 4 \in DOMAIN Lists
    BY DEF Lists
<1>3. QED
    BY <1>1, <1>2 DEF Reads

\* Answers of one moment agree with each other and with the log.
LEMMA AnswersAgree ==
    ASSUME RecordInv, NEW shown,
           \A r \in Reads : r # "monitoring" => shown[r] = Answer(r),
           shown["webRows"] > 0
    PROVE  LET log    == scans[shownTarget]
               latest == Last(log)
           IN  /\ shown.assetRows = shown.assets.all
               /\ shown.findingRows = Least(shown.findings, FindingRows)
               /\ shown.findings >= Least(Cardinality(FindingsOf(latest.hosts)), CardLimit)
               /\ shown.eventRows = Least(shown.events, EventRows)
               /\ shown.events <=
                    SumFunction([n \in DOMAIN log |-> Cardinality(log[n].changes)])
               /\ shown.webRows \in 1..shown.snapshot.services
               /\ shown.snapshot.at = latest.at
<1> DEFINE t   == shownTarget
           log == scans[t]
           all == SumFunction([u \in Targets |-> StoredFindings(scans[u])])
           saved == SumFunction([n \in DOMAIN log |-> Cardinality(log[n].changes)])
<1>1. TypeOK /\ t \in Targets
    BY ConsoleAssumption DEF ConsoleAssumption, RecordInv, RowInv, DigestInv
<1>2. /\ shown["assets"] = Answer("assets") /\ shown["snapshot"] = Answer("snapshot")
      /\ shown["findings"] = Answer("findings") /\ shown["events"] = Answer("events")
      /\ shown["assetRows"] = Answer("assetRows")
      /\ shown["findingRows"] = Answer("findingRows")
      /\ shown["eventRows"] = Answer("eventRows")
      /\ shown["webRows"] = Answer("webRows")
    BY ReadNames
<1>3. /\ Answer("assetRows") = Cardinality(KnownRows(t))
      /\ Answer("assets").all = Cardinality(KnownRows(t))
    BY DEF Answer
<1>4. /\ Answer("findings") = RecentFindings(CardLimit)
      /\ Answer("findingRows") = Least(RecentFindings(2 * FindingRows), FindingRows)
    BY DEF Answer
<1>5. /\ Answer("events") = RecentEvents(t, CardLimit)
      /\ Answer("eventRows") = RecentEvents(t, EventRows)
    BY DEF Answer
<1>6. Answer("webRows") = LatestWebInterfaces(t)
    BY DEF Answer
<1>7. HasSnapshot(t)
    BY <1>2, <1>6 DEF LatestWebInterfaces
<1>8. /\ Answer("snapshot").at = LatestSnapshot(t).at
      /\ Answer("snapshot").services = Cardinality(ServicesOf(LatestSnapshot(t).hosts))
      /\ Answer("webRows") = Cardinality(WebOf(LatestSnapshot(t).hosts))
    BY <1>6, <1>7 DEF Answer, LatestWebInterfaces
<1>9. Last(log) = LatestSnapshot(t) /\ Len(log) \in DOMAIN log /\ LatestSnapshot(t) = log[Len(log)]
    BY <1>1, <1>7, ShownLogType DEF HasSnapshot, LatestSnapshot, Last, ShownLog
<1>10. CardLimit \in Nat /\ FindingRows \in 1..CardLimit /\ EventRows \in 1..CardLimit
    BY ConsoleAssumption DEF ConsoleAssumption
<1>11. all \in Nat /\ Cardinality(FindingsOf(Last(log).hosts)) <= all
    BY <1>1, <1>9, FindingsOfAll
<1>12. Recorded(t) \in Nat /\ saved \in Nat /\ Recorded(t) <= saved
    BY <1>1, RecordedAtMostSaved
<1>13. RecentFindings(CardLimit) = Least(all, CardLimit)
       /\ RecentFindings(2 * FindingRows) = Least(all, 2 * FindingRows)
    BY DEF RecentFindings
<1>14. Cardinality(FindingsOf(Last(log).hosts)) \in Nat
    BY FindingsOfAreFinite
<1> HIDE DEF all, saved
<1>15. shown.findingRows = Least(shown.findings, FindingRows)
    <2>1. 2 * FindingRows \in Nat /\ FindingRows <= 2 * FindingRows /\ FindingRows <= CardLimit
          /\ FindingRows \in Nat
        BY <1>10
    <2>2. Least(Least(all, 2 * FindingRows), FindingRows) = Least(Least(all, CardLimit), FindingRows)
        BY <1>10, <1>11, <2>1 DEF Least
    <2>3. QED
        BY <1>2, <1>4, <1>13, <2>2
<1>16. shown.findings >= Least(Cardinality(FindingsOf(Last(log).hosts)), CardLimit)
    BY <1>2, <1>4, <1>10, <1>11, <1>13, <1>14 DEF Least
<1>17. shown.eventRows = Least(shown.events, EventRows)
    <2>1. EventRows \in Nat /\ EventRows <= CardLimit
        BY <1>10
    <2>2. Least(Recorded(t), EventRows) = Least(Least(Recorded(t), CardLimit), EventRows)
        BY <1>10, <1>12, <2>1 DEF Least
    <2>3. QED
        BY <1>2, <1>5, <2>2 DEF RecentEvents
<1>18. shown.events <= saved
    BY <1>2, <1>5, <1>10, <1>12 DEF RecentEvents, Least
<1>19. shown.webRows \in 1..shown.snapshot.services
    BY <1>2, <1>8, ServicesAreFinite
<1>20. QED
    BY <1>2, <1>3, <1>8, <1>9, <1>15, <1>16, <1>17, <1>18, <1>19 DEF saved

\* The page is fetched from a past that is not ahead of the database.
Past ==
    /\ \A t \in Targets : refresh.began[1][t] \in 0..Len(scans[t])
    /\ refresh.began[2] \in 0..Len(events[shownTarget])

\* While nothing was committed since the refresh began, what was read is what a read
\* would return now, and so is what was drawn.
QuietInv ==
    /\ RecordInv /\ RefreshShape
    /\ refresh.phase \in {"reading", "drawn"} => Past
    /\ refresh.phase = "reading" /\ refresh.began = Version =>
        \A r \in Reads : r # "monitoring" /\ refresh.answers[r] # Waiting =>
            refresh.answers[r] = Answer(r)
    /\ refresh.phase = "drawn" /\ refresh.began = Version /\ page.text = "monitoring" =>
        /\ \A r \in Reads : r # "monitoring" => page.shown[r] = Answer(r)
        /\ page.shown["webRows"] > 0

\* The database only grows: one that is as it was when the refresh began was so all
\* the time.
LEMMA SameVersion ==
    ASSUME RecordInv, [MonitorNext]_monitorVars, NEW began, began = Version',
           \A t \in Targets : began[1][t] \in 0..Len(scans[t]),
           began[2] \in 0..Len(events[shownTarget])
    PROVE  /\ began = Version
           /\ UNCHANGED <<scans, assets>> /\ events'[shownTarget] = events[shownTarget]
<1>1. /\ TypeOK /\ shownTarget \in Targets
      /\ \A c \in Clients : targetOf[c] \in Targets
    BY ConsoleAssumption, MonitorAssumption
       DEF ConsoleAssumption, MonitorAssumption, RecordInv, RowInv, DigestInv
<1>2. /\ began[1] = [t \in Targets |-> Len(scans'[t])]
      /\ began[2] = Len(events'[shownTarget])
    BY DEF Version
<1>3. /\ \A t \in Targets : Len(scans'[t]) <= Len(scans[t])
      /\ Len(events'[shownTarget]) <= Len(events[shownTarget])
    BY <1>2
<1>4. ASSUME NEW c \in Clients, Commit(c) PROVE FALSE
    <2>1. PICK hosts \in Hosts, at \in Times, changes \in SUBSET Change :
            /\ SaveSnapshot(targetOf[c], hosts, at, changes)
            /\ work' = [work EXCEPT ![c].at = at, ![c].changes = changes]
            /\ \A t \in Targets : at \notin Stamps(t)
            /\ changes \in PossibleChanges(targetOf[c], hosts)
        BY <1>1, <1>4, CommitEffect
    <2>2. Len(scans'[targetOf[c]]) = Len(scans[targetOf[c]]) + 1
        BY <1>1, <2>1, LogStep
    <2>3. Len(scans[targetOf[c]]) \in Nat
        BY <1>1 DEF TypeOK
    <2>4. QED
        BY <1>1, <1>3, <2>2, <2>3
<1>5. UNCHANGED <<scans, assets>>
    BY <1>4, OnlyCommitSaves DEF MonitorNext, monitorVars, storeVars
<1>6. events'[shownTarget] = events[shownTarget]
    <2>1. ASSUME NEW c \in Clients, NEW batch \in Batch,
                 events' = [events EXCEPT ![targetOf[c]] = Append(@, batch)]
          PROVE  events'[shownTarget] = events[shownTarget]
        <3>1. events[shownTarget] \in Seq(Batch) /\ Len(events[shownTarget]) \in Nat
            BY <1>1 DEF RecordInv, EventsType
        <3>2. CASE targetOf[c] = shownTarget
            <4>1. events'[shownTarget] = Append(events[shownTarget], batch)
                BY <1>1, <2>1, <3>2 DEF RecordInv, EventsType
            <4>2. Len(events'[shownTarget]) = Len(events[shownTarget]) + 1
                BY <3>1, <4>1
            <4>3. QED
                BY <1>3, <3>1, <4>2
        <3>3. CASE targetOf[c] # shownTarget
            BY <1>1, <2>1, <3>3 DEF RecordInv, EventsType
        <3>4. QED
            BY <3>2, <3>3
    <2>2. ASSUME NEW c \in Clients, MonitorStep(c)
          PROVE  events'[shownTarget] = events[shownTarget]
        BY <2>1, <2>2, EventsStep DEF RecordInv
    <2>3. QED
        BY <2>2 DEF MonitorNext, monitorVars
<1>7. began = Version
    <2>1. Version' = Version
        BY <1>5, <1>6 DEF Version
    <2>2. QED
        BY <2>1
<1>8. QED
    BY <1>5, <1>6, <1>7

\* So far as the refresh goes back, it still does after any step.
LEMMA PastStays ==
    ASSUME RecordInv, [MonitorNext]_monitorVars, NEW began,
           \A t \in Targets : began[1][t] \in 0..Len(scans[t]),
           began[2] \in 0..Len(events[shownTarget])
    PROVE  /\ \A t \in Targets : began[1][t] \in 0..Len(scans'[t])
           /\ began[2] \in 0..Len(events'[shownTarget])
<1>1. TypeOK /\ shownTarget \in Targets
    BY ConsoleAssumption DEF ConsoleAssumption, RecordInv, RowInv, DigestInv
<1>2. \A t \in Targets : /\ Len(scans[t]) \in Nat /\ Len(scans'[t]) \in Nat
                         /\ Len(scans[t]) <= Len(scans'[t])
    BY <1>1, LogGrows
<1>3. /\ Len(events[shownTarget]) \in Nat /\ Len(events'[shownTarget]) \in Nat
      /\ Len(events[shownTarget]) <= Len(events'[shownTarget])
    <2>1. EventsType /\ EventsType'
        BY EventsGrow DEF RecordInv
    <2>2. events[shownTarget] \in Seq(Batch) /\ events'[shownTarget] \in Seq(Batch)
        BY <1>1, <2>1 DEF EventsType
    <2>3. QED
        BY <1>1, <2>2, EventsGrow DEF RecordInv
<1>4. QED
    BY <1>2, <1>3

LEMMA QuietInvInductive == QuietInv /\ [ConsoleNext]_consoleVars => QuietInv'
<1> SUFFICES ASSUME QuietInv, [ConsoleNext]_consoleVars PROVE QuietInv'
    OBVIOUS
<1>1. [MonitorNext]_monitorVars
    BY ConsoleStepsAreMonitorSteps
<1>2. RecordInv' /\ RecordInv
    BY <1>1, RecordInvInductive DEF QuietInv
<1>3. Past => /\ refresh'.began = refresh.began => Past'
              /\ refresh.began = Version' =>
                    /\ refresh.began = Version
                    /\ \A r \in Reads : r # "monitoring" => Answer(r)' = Answer(r)
    <2>1. PICK began : began = refresh.began
        OBVIOUS
    <2>2. SUFFICES ASSUME Past
                   PROVE  /\ refresh'.began = began => Past'
                          /\ began = Version' =>
                                /\ began = Version
                                /\ \A r \in Reads : r # "monitoring" => Answer(r)' = Answer(r)
        BY <2>1
    <2>3. /\ \A t \in Targets : began[1][t] \in 0..Len(scans[t])
          /\ began[2] \in 0..Len(events[shownTarget])
        BY <2>1, <2>2 DEF Past
    <2>4. refresh'.began = began => Past'
        BY <1>1, <1>2, <2>3, PastStays DEF Past
    <2>5. ASSUME began = Version'
          PROVE  /\ began = Version
                 /\ \A r \in Reads : r # "monitoring" => Answer(r)' = Answer(r)
        <3>1. /\ began = Version
              /\ UNCHANGED <<scans, assets>> /\ events'[shownTarget] = events[shownTarget]
            BY <1>1, <1>2, <2>3, <2>5, SameVersion
        <3>2. QED
            BY <3>1, AnswersAreOfTables
    <2>6. QED
        BY <2>4, <2>5
<1>4. ASSUME UNCHANGED <<refresh, page>> PROVE QuietInv'
    BY <1>2, <1>3, <1>4 DEF QuietInv, RefreshShape
<1>5. ASSUME NEW c \in Clients, ClientStep(c) \/ Consider(c) PROVE QuietInv'
    BY <1>4, <1>5 DEF ClientStep, Consider
<1>6. CASE StartRefresh
    <2>1. /\ refresh' = [phase |-> "reading", made |-> refresh.made + 1,
                         answers |-> NoAnswers, began |-> Version]
          /\ UNCHANGED monitorVars
        BY <1>6 DEF StartRefresh
    <2>2. DOMAIN NoAnswers = Reads /\ \A r \in Reads : NoAnswers[r] = Waiting
        BY DEF NoAnswers
    <2>3. /\ refresh'.phase = "reading" /\ refresh'.answers = NoAnswers
          /\ refresh'.began = Version /\ RefreshShape'
        BY <2>1, <2>2 DEF RefreshShape
    <2>4. Past'
        <3>1. /\ Version[1] = [t \in Targets |-> Len(scans[t])]
              /\ Version[2] = Len(events[shownTarget])
            BY DEF Version
        <3>2. /\ \A t \in Targets : Len(scans[t]) \in Nat
              /\ Len(events[shownTarget]) \in Nat
            BY <1>2, ConsoleAssumption
               DEF ConsoleAssumption, RecordInv, RowInv, DigestInv, TypeOK, EventsType
        <3>3. scans' = scans /\ events' = events
            BY <2>1 DEF monitorVars, storeVars
        <3>4. QED
            BY <2>3, <3>1, <3>2, <3>3 DEF Past
    <2>5. QED
        BY <1>2, <2>2, <2>3, <2>4 DEF QuietInv
<1>7. CASE Read
    <2>1. PICK r \in Reads : refresh' = [refresh EXCEPT !.answers[r] = Answer(r)]
        BY <1>7 DEF Read
    <2>2. refresh.phase = "reading" /\ RefreshShape /\ Past
        BY <1>7 DEF Read, QuietInv
    <2>3. /\ RefreshShape' /\ refresh'.phase = "reading" /\ refresh'.began = refresh.began
          /\ refresh'.answers = [refresh.answers EXCEPT ![r] = Answer(r)]
        BY <2>1, <2>2 DEF RefreshShape
    <2>4. \A s \in Reads :
            refresh'.answers[s] = IF s = r THEN Answer(r) ELSE refresh.answers[s]
        BY <2>2, <2>3 DEF RefreshShape
    <2>5. Past'
        BY <1>3, <2>2, <2>3
    <2>6. ASSUME refresh.began = Version', NEW s \in Reads,
                 s # "monitoring", refresh'.answers[s] # Waiting
          PROVE  refresh'.answers[s] = Answer(s)'
        <3>1. Answer(s)' = Answer(s) /\ refresh.began = Version
            BY <1>3, <2>2, <2>6
        <3>2. refresh.answers[s] # Waiting => refresh.answers[s] = Answer(s)
            BY <2>2, <2>6, <3>1 DEF QuietInv
        <3>3. QED
            BY <2>4, <2>6, <3>1, <3>2
    <2>7. QED
        BY <1>2, <2>3, <2>5, <2>6 DEF QuietInv
<1>8. CASE FailRequest
    <2>1. refresh'.phase = "failed" /\ RefreshShape'
        BY <1>8 DEF FailRequest, QuietInv, RefreshShape, NoAnswers
    <2>2. QED
        BY <1>2, <2>1 DEF QuietInv
<1>9. CASE Draw
    <2>1. /\ refresh.phase = "reading" /\ RefreshShape /\ Past
          /\ \A r \in Reads : refresh.answers[r] # Waiting
          /\ refresh' = [refresh EXCEPT !.phase = "drawn", !.answers = NoAnswers]
        BY <1>9 DEF Draw, QuietInv
    <2>2. /\ \A r \in Reads : page'.shown[r] = IF Drawn(refresh.answers, r)
                                               THEN refresh.answers[r] ELSE page.shown[r]
          /\ page'.text = IF \A r \in Reads : Drawn(refresh.answers, r)
                          THEN "monitoring" ELSE "error"
        BY <1>9 DEF Draw
    <2>3. refresh'.phase = "drawn" /\ refresh'.began = refresh.began /\ RefreshShape'
        BY <2>1 DEF RefreshShape, NoAnswers
    <2>4. Past'
        BY <1>3, <2>1, <2>3
    <2>5. ASSUME refresh.began = Version', page'.text = "monitoring"
          PROVE  /\ \A r \in Reads : r # "monitoring" => page'.shown[r] = Answer(r)'
                 /\ page'.shown["webRows"] > 0
        <3>1. \A r \in Reads : Drawn(refresh.answers, r)
            BY <2>2, <2>5
        <3>2. \A r \in Reads : page'.shown[r] = refresh.answers[r]
            BY <2>2, <3>1
        <3>3. /\ refresh.began = Version
              /\ \A r \in Reads : r # "monitoring" => Answer(r)' = Answer(r)
            BY <1>3, <2>1, <2>5
        <3>4. \A r \in Reads : r # "monitoring" => refresh.answers[r] = Answer(r)
            BY <2>1, <3>3 DEF QuietInv
        <3>5. refresh.answers["webRows"] > 0
            <4>1. Drawn(refresh.answers, "webRows")
                BY <3>1, ReadNames
            <4>2. PICK n \in DOMAIN Lists :
                    Lists[n] = "webRows" /\ \A m \in 1..n : refresh.answers[Lists[m]] > 0
                BY <4>1, ReadNames DEF Drawn
            <4>3. n \in 1..n
                BY DEF Lists
            <4>4. QED
                BY <4>2, <4>3
        <3>6. QED
            BY <3>2, <3>3, <3>4, <3>5, ReadNames
    <2>6. QED
        BY <1>2, <2>3, <2>4, <2>5 DEF QuietInv
<1>10. CASE UNCHANGED consoleVars
    BY <1>4, <1>10 DEF consoleVars
<1>11. QED
    BY <1>5, <1>6, <1>7, <1>8, <1>9, <1>10 DEF ConsoleNext

\* A page that is fetched while nothing is committed agrees with itself and with the
\* log, though nine reads made it and no transaction spans two of them: lists and
\* cards count the same, and the events counted are of changes that scans saved.
THEOREM QuietPageAlwaysAgrees == ConsoleSpec => []QuietPageAgrees
<1>1. ConsoleInit => QuietInv
    <2> SUFFICES ASSUME ConsoleInit PROVE QuietInv
        OBVIOUS
    <2>1. RecordInv
        BY InitiallyNothingRecorded DEF ConsoleInit
    <2>2. RefreshShape /\ refresh.phase = "idle"
        BY DEF ConsoleInit, RefreshShape, NoAnswers
    <2>3. QED
        BY <2>1, <2>2 DEF QuietInv
<1>2. QuietInv => QuietPageAgrees
    <2> SUFFICES ASSUME QuietInv, refresh.phase = "drawn", page.text = "monitoring",
                        refresh.began = Version
                 PROVE  QuietPageAgrees
        BY DEF QuietPageAgrees
    <2>1. /\ RecordInv /\ page.shown["webRows"] > 0
          /\ \A r \in Reads : r # "monitoring" => page.shown[r] = Answer(r)
        BY DEF QuietInv
    <2>2. PICK shown : shown = page.shown
        OBVIOUS
    <2>3. QED
        BY <2>1, <2>2, AnswersAgree DEF QuietPageAgrees
<1>3. QED
    BY <1>1, <1>2, QuietInvInductive, PTL DEF ConsoleSpec
=============================================================================
