------------------------- MODULE ScanCycleRefinement -------------------------
(***************************************************************************)
(* Proof that the processes of ScanCycle implement Monitor: whatever the   *)
(* network does and whatever fails, the database sees no more of any       *)
(* number of scans and watches than Monitor says.                          *)
(***************************************************************************)
EXTENDS ScanCycleProofs

-----------------------------------------------------------------------------
(* The operators of the two modules are the same *)

LEMMA SameCardinality == \A S : DatabaseView!Cardinality(S) = Cardinality(S)
BY DEF DatabaseView!Cardinality, Cardinality, DatabaseView!IsFiniteSet, IsFiniteSet

LEMMA SameHolders ==
    /\ \A ip, host : DatabaseView!IdentityKey(ip, host) = IdentityKey(ip, host)
    /\ \A hosts, k : DatabaseView!Holders(hosts, k) = Holders(hosts, k)
    /\ \A hosts, k, p : DatabaseView!PortHolders(hosts, k, p) = PortHolders(hosts, k, p)
    /\ \A S : DatabaseView!LastOf(S) = LastOf(S)
    /\ \A hosts, S, old : DatabaseView!NameAfter(hosts, S, old) = NameAfter(hosts, S, old)
    /\ \A name, svc : DatabaseView!Classify(name, svc) = Classify(name, svc)
BY DEF DatabaseView!Holders, DatabaseView!PortHolders, DatabaseView!LastOf,
       DatabaseView!IdentityKey, DatabaseView!Classify, DatabaseView!OpenPorts,
       DatabaseView!NameAfter,
       Holders, PortHolders, LastOf, IdentityKey, Classify, OpenPorts, NameAfter

LEMMA SameRows ==
    /\ \A row : DatabaseView!Missed(row) = Missed(row)
    /\ \A hosts, S, at : DatabaseView!Inserted(hosts, S, at) = Inserted(hosts, S, at)
    /\ \A row, hosts, S, at : DatabaseView!Updated(row, hosts, S, at) = Updated(row, hosts, S, at)
BY SameHolders, SameCardinality DEF DatabaseView!Missed, Missed, DatabaseView!offlineAfterMisses, offlineAfterMisses,
   DatabaseView!Inserted, Inserted, DatabaseView!Updated, Updated

LEMMA SameAfter ==
    ASSUME NEW hosts, NEW k, NEW p, NEW at, NEW row
    PROVE  /\ DatabaseView!AssetAfter(row, hosts, k, at) = AssetAfter(row, hosts, k, at)
           /\ DatabaseView!HistoryAfter(row, hosts, k, p, at) = HistoryAfter(row, hosts, k, p, at)
           /\ DatabaseView!Stored(hosts) = Stored(hosts)
<1>1. /\ DatabaseView!Holders(hosts, k) = Holders(hosts, k)
      /\ DatabaseView!PortHolders(hosts, k, p) = PortHolders(hosts, k, p)
      /\ DatabaseView!Missed(row) = Missed(row)
      /\ DatabaseView!Inserted(hosts, Holders(hosts, k), at)
            = Inserted(hosts, Holders(hosts, k), at)
      /\ DatabaseView!Updated(row, hosts, Holders(hosts, k), at)
            = Updated(row, hosts, Holders(hosts, k), at)
      /\ DatabaseView!LastOf(PortHolders(hosts, k, p)) = LastOf(PortHolders(hosts, k, p))
      /\ DatabaseView!Cardinality(PortHolders(hosts, k, p)) = Cardinality(PortHolders(hosts, k, p))
    BY SameHolders, SameRows, SameCardinality
<1>2. DatabaseView!AssetAfter(row, hosts, k, at) = AssetAfter(row, hosts, k, at)
    BY <1>1 DEF DatabaseView!AssetAfter, AssetAfter
<1>3. DatabaseView!HistoryAfter(row, hosts, k, p, at) = HistoryAfter(row, hosts, k, p, at)
    BY <1>1 DEF DatabaseView!HistoryAfter, HistoryAfter
<1>4. DatabaseView!Stored(hosts) = Stored(hosts)
    BY DEF DatabaseView!Stored, Stored, DatabaseView!Persisted, Persisted
<1>5. QED
    BY <1>2, <1>3, <1>4

LEMMA SameSave ==
    ASSUME NEW t, NEW hosts, NEW at, NEW changes
    PROVE  DatabaseView!SaveSnapshot(t, hosts, at, changes)
           <=> SaveSnapshot(t, hosts, at, changes)
<1>1. DatabaseView!Identities = Identities
    BY DEF DatabaseView!Identities, Identities
<1>2. DatabaseView!Stored(hosts) = Stored(hosts)
    BY SameAfter
<1>3. [k \in Identities |-> DatabaseView!AssetAfter(assets[t][k], hosts, k, at)]
      = [k \in Identities |-> AssetAfter(assets[t][k], hosts, k, at)]
    BY SameAfter
<1>4. [k \in Identities |-> [p \in Ports |->
            DatabaseView!HistoryAfter(history[t][k][p], hosts, k, p, at)]]
      = [k \in Identities |-> [p \in Ports |->
            HistoryAfter(history[t][k][p], hosts, k, p, at)]]
    BY SameAfter
<1>5. QED
    BY <1>1, <1>2, <1>3, <1>4 DEF DatabaseView!SaveSnapshot, SaveSnapshot

LEMMA SameCompare ==
    ASSUME NEW a, NEW b
    PROVE  DatabaseView!Compare(DatabaseView!View(a), DatabaseView!View(b))
           = Compare(View(a), View(b))
BY DEF DatabaseView!Compare, DatabaseView!CompareHost, DatabaseView!CompareServices,
       DatabaseView!HostChange, DatabaseView!ServiceChange, DatabaseView!FingerprintChange,
       DatabaseView!OpenPorts, DatabaseView!View,
       Compare, CompareHost, CompareServices, HostChange, ServiceChange, FingerprintChange,
       OpenPorts, View

-----------------------------------------------------------------------------
(* What the refinement needs beside the invariants *)

\* A process that is not in a cycle carries nothing, and no other target has a scan.
Rested ==
    /\ \A p \in Procs : pc[p] \in {"off", "activate"} => local[p] = Fresh
    /\ \A t \in Targets \ {target} : scans[t] = <<>>

LEMMA RestedPreserved ==
    ASSUME CycleTypeOK, Budget, Control, Rested, NEW p \in Procs, ProcessStep(p)
    PROVE  Rested'
<1>1. ASSUME NEW q \in Procs, pc'[q] \in {"off", "activate"} PROVE local'[q] = Fresh
    <2>1. CASE q # p
        BY <1>1, <2>1, OthersKept DEF Rested
    <2>2. CASE q = p
        BY <1>1, <2>2, Whereabouts DEF Rested
    <2>3. QED
        BY <2>1, <2>2
<1>2. ASSUME NEW t \in Targets \ {target} PROVE scans'[t] = <<>>
    <2>1. CASE Save(p)
        <3>1. scans'[t] = scans[t]
            BY <2>1, SaveTypes, SaveSnapshotEffect DEF CycleTypeOK
        <3>2. QED
            BY <3>1 DEF Rested
    <2>2. CASE ~Save(p)
        BY <2>2, TablesKept DEF storeVars, Rested
    <2>3. QED
        BY <2>1, <2>2
<1>3. QED
    BY <1>1, <1>2 DEF Rested

LEMMA RestedInvariant == CycleSpec => []Rested
<1>1. CycleInit => Rested
    BY DEF CycleInit, StoreInit, Rested
<1>2. CycleInv /\ Rested /\ [CycleNext]_cycleVars => Rested'
    <2> SUFFICES ASSUME CycleInv, Rested, [CycleNext]_cycleVars PROVE Rested'
        OBVIOUS
    <2>1. CycleTypeOK /\ Control /\ Budget
        BY DEF CycleInv
    <2>2. ASSUME UNCHANGED <<storeVars, clock, events, monitoring, pc, ctxDone, local>>
          PROVE  Rested'
        BY <2>2 DEF Rested, storeVars
    <2>3. QED
        BY <2>1, <2>2, RestedPreserved, CycleStepCases
<1>3. QED
    BY <1>1, <1>2, CycleInvariant, PTL DEF CycleSpec

-----------------------------------------------------------------------------
(* The mapped variables *)

MappedStage == [p \in Procs |-> Seen(p)]
MappedWork == [p \in Procs |-> Carried(p)]
MappedTarget == [p \in Procs |-> target]
MappedRows == [t \in Targets |-> IF t = target THEN monitoring ELSE NoRow]
MappedEvents == [t \in Targets |-> IF t = target THEN events ELSE <<>>]

\* A step of p changes what is seen of p alone.
LEMMA StepSeen ==
    ASSUME CycleTypeOK, Budget, Control, NEW p \in Procs, ProcessStep(p)
    PROVE  /\ MappedStage' = [MappedStage EXCEPT ![p] = Seen(p)']
           /\ MappedWork' = [MappedWork EXCEPT ![p] = Carried(p)']
<1>1. ASSUME NEW q \in Procs \ {p}
      PROVE  Seen(q)' = Seen(q) /\ Carried(q)' = Carried(q)
    <2>1. pc'[q] = pc[q] /\ local'[q] = local[q]
        BY OthersKept
    <2>2. Seen(q)' = Seen(q)
        BY <2>1 DEF Seen
    <2>3. QED
        BY <2>1, <2>2 DEF Carried
<1>2. QED
    BY <1>1 DEF MappedStage, MappedWork

\* A write of the monitoring row is one of the row of its target.
LEMMA RowSeen ==
    /\ MappedRows[target] = monitoring
    /\ MappedRows' = [MappedRows EXCEPT ![target] = monitoring']
BY CycleAssumption DEF CycleAssumption, MappedRows

\* What is unchanged is unchanged in the mapping.
LEMMA MappedKept ==
    /\ UNCHANGED monitoring => UNCHANGED MappedRows
    /\ UNCHANGED events => UNCHANGED MappedEvents
BY DEF MappedRows, MappedEvents

\* What is seen of a process, by where it is.
LEMMA SeenAt ==
    ASSUME NEW p \in Procs
    PROVE  /\ pc[p] \in {"off", "activate"} =>
                Seen(p) = "off" /\ Carried(p) = DatabaseView!Idle(FALSE)
           /\ pc[p] = "deactivate" =>
                Seen(p) = "deactivate" /\ Carried(p) = DatabaseView!Idle(FALSE)
           /\ pc[p] \in {"previous", "known", "discover", "scan", "assemble", "save"} =>
                Seen(p) = "cycle" /\ Carried(p) = DatabaseView!Idle(local[p].baseline # 0)
           /\ pc[p] = "wait" =>
                Seen(p) = "wait" /\ Carried(p) = DatabaseView!Idle(local[p].baseline # 0)
           /\ pc[p] \in {"status", "events"} =>
                /\ Seen(p) = pc[p]
                /\ Carried(p).baselined <=> local[p].baseline # 0
                /\ Carried(p).at = local[p].at /\ Carried(p).changes = local[p].changes
                /\ Carried(p) = [baselined |-> local[p].baseline # 0, at |-> local[p].at,
                                 changes |-> local[p].changes]
BY DEF Seen, Carried, DatabaseView!Idle

LEMMA SeenAfter ==
    ASSUME NEW p \in Procs
    PROVE  /\ pc'[p] \in {"off", "activate"} =>
                Seen(p)' = "off" /\ Carried(p)' = DatabaseView!Idle(FALSE)
           /\ pc'[p] = "deactivate" =>
                Seen(p)' = "deactivate" /\ Carried(p)' = DatabaseView!Idle(FALSE)
           /\ pc'[p] \in {"previous", "known", "discover", "scan", "assemble", "save"} =>
                Seen(p)' = "cycle" /\ Carried(p)' = DatabaseView!Idle(local'[p].baseline # 0)
           /\ pc'[p] = "wait" =>
                Seen(p)' = "wait" /\ Carried(p)' = DatabaseView!Idle(local'[p].baseline # 0)
           /\ pc'[p] \in {"status", "events"} =>
                /\ Seen(p)' = pc'[p]
                /\ Carried(p)' = [baselined |-> local'[p].baseline # 0, at |-> local'[p].at,
                                  changes |-> local'[p].changes]
BY DEF Seen, Carried, DatabaseView!Idle

\* The parts of the mapping, as a step of Monitor names them.
LEMMA Mapped ==
    ASSUME NEW p \in Procs
    PROVE  /\ MappedStage[p] = Seen(p) /\ MappedWork[p] = Carried(p)
           /\ MappedStage = [MappedStage EXCEPT ![p] = Seen(p)]
           /\ MappedWork = [MappedWork EXCEPT ![p] = Carried(p)]
           /\ MappedTarget[p] = target
BY DEF MappedStage, MappedWork, MappedTarget

LEMMA StoreTimes == Times \subseteq Nat /\ 0 \notin Times
BY CycleAssumption, StoreAssumption DEF CycleAssumption, StoreAssumption

-----------------------------------------------------------------------------
(* One lemma for each kind of step *)

\* A step that writes nothing and leaves what is seen of its process alone.
LEMMA Unseen ==
    ASSUME CycleTypeOK, Budget, Control, NEW p \in Procs, ProcessStep(p),
           Seen(p)' = Seen(p), Carried(p)' = Carried(p),
           UNCHANGED <<storeVars, events, monitoring>>
    PROVE  UNCHANGED DatabaseView!monitorVars
<1>1. UNCHANGED MappedStage /\ UNCHANGED MappedWork
    BY StepSeen, Mapped
<1>2. UNCHANGED MappedRows /\ UNCHANGED MappedEvents
    BY MappedKept
<1>3. QED
    BY <1>1, <1>2 DEF MappedStage, MappedWork, MappedRows, MappedEvents, storeVars,
                      DatabaseView!monitorVars, DatabaseView!storeVars

\* The reads and the probing of a cycle, and a signal.
LEMMA StagesUnseen ==
    ASSUME CycleTypeOK, Budget, Control, NEW p \in Procs, ProcessStep(p),
           \/ ReadPrevious(p) \/ ReadKnown(p) \/ Discover(p) \/ ScanServices(p)
           \/ Assemble(p) \/ Interrupt(p)
    PROVE  UNCHANGED DatabaseView!monitorVars
<1>1. UNCHANGED <<storeVars, events, monitoring>>
    BY DEF ReadPrevious, ReadKnown, Discover, ScanServices, Assemble, Interrupt
<1>2. CASE Interrupt(p)
    <2>1. pc' = pc /\ local' = local
        BY <1>2 DEF Interrupt
    <2>2. Seen(p)' = Seen(p)
        BY <2>1 DEF Seen
    <2>3. Carried(p)' = Carried(p)
        BY <2>1, <2>2 DEF Carried
    <2>4. QED
        BY <1>1, <2>2, <2>3, Unseen
<1>3. CASE ~Interrupt(p)
    <2>1. /\ pc[p] \in {"previous", "known", "discover", "scan", "assemble"}
          /\ ~Save(p) /\ ~UpdateStatus(p) /\ ~SaveEvents(p)
        BY <1>3 DEF ReadPrevious, ReadKnown, Discover, ScanServices, Assemble, Save,
                    UpdateStatus, SaveEvents
    <2>2. pc'[p] \in {"known", "discover", "scan", "assemble", "save"}
        BY <1>3, LocalType DEF ReadPrevious, ReadKnown, Discover, ScanServices, Assemble,
                               Goto, CycleTypeOK
    <2>3. local'[p].baseline = local[p].baseline
        BY <2>1, <2>2, CarriedOver, WorkAfter DEF SameWork
    <2>4. QED
        BY <1>1, <2>1, <2>2, <2>3, SeenAt, SeenAfter, Unseen
<1>4. QED
    BY <1>2, <1>3

LEMMA StartSeen ==
    ASSUME CycleTypeOK, Budget, Control, Rested, NEW p \in Procs, Start(p)
    PROVE  DatabaseView!Begin(p) \/ UNCHANGED DatabaseView!monitorVars
<1>1. ProcessStep(p)
    BY DEF ProcessStep
<1>2. /\ pc[p] = "off" /\ local' = local /\ UNCHANGED <<storeVars, events, monitoring>>
      /\ pc'[p] = IF p \in Watchers THEN "activate" ELSE "previous"
    BY LocalType DEF Start, Goto, CycleTypeOK
<1>3. Seen(p) = "off" /\ Carried(p) = DatabaseView!Idle(FALSE)
    BY <1>2, SeenAt
<1>4. CASE p \in Watchers
    <2>1. Seen(p)' = "off" /\ Carried(p)' = DatabaseView!Idle(FALSE)
        BY <1>2, <1>4, SeenAfter
    <2>2. QED
        BY <1>1, <1>2, <1>3, <2>1, Unseen
<1>5. CASE p \notin Watchers
    <2>1. local'[p].baseline = 0
        BY <1>2, <1>5 DEF Control
    <2>2. Seen(p)' = "cycle" /\ Carried(p)' = DatabaseView!Idle(FALSE)
        BY <1>2, <1>5, <2>1, SeenAfter
    <2>3. /\ MappedStage[p] = "off" /\ MappedStage' = [MappedStage EXCEPT ![p] = "cycle"]
          /\ UNCHANGED MappedWork
        <3>1. Carried(p)' = Carried(p) /\ Seen(p) = "off" /\ Seen(p)' = "cycle"
            BY <1>3, <2>2
        <3>2. QED
            BY <1>1, <3>1, StepSeen, Mapped
    <2>4. UNCHANGED MappedRows /\ UNCHANGED MappedEvents
        BY <1>2, MappedKept
    <2>5. DatabaseView!Begin(p)
        BY <1>2, <1>5, <2>3, <2>4
           DEF DatabaseView!Begin, DatabaseView!Move, DatabaseView!storeVars, storeVars,
               MappedStage, MappedWork, MappedRows, MappedEvents
    <2>6. QED
        BY <2>5
<1>6. QED
    BY <1>4, <1>5

LEMMA ActivateSeen ==
    ASSUME CycleTypeOK, Budget, Control, Rested, NEW p \in Procs, Activate(p)
    PROVE  DatabaseView!Begin(p)
<1>1. ProcessStep(p)
    BY DEF ProcessStep, Advance
<1>2. /\ pc[p] = "activate" /\ pc'[p] = "previous" /\ local' = local
      /\ UNCHANGED <<storeVars, events>> /\ SetMonitoringStatus(TRUE, 0)
    BY LocalType DEF Activate, Goto, CycleTypeOK
<1>3. p \in Watchers /\ local'[p].baseline = 0
    BY <1>2 DEF Control, Rested, Fresh
<1>4. /\ Seen(p) = "off" /\ Carried(p) = DatabaseView!Idle(FALSE)
      /\ Seen(p)' = "cycle" /\ Carried(p)' = DatabaseView!Idle(FALSE)
    BY <1>2, <1>3, SeenAt, SeenAfter
<1>5. /\ MappedStage[p] = "off" /\ MappedStage' = [MappedStage EXCEPT ![p] = "cycle"]
      /\ UNCHANGED MappedWork
    <2>1. Carried(p)' = Carried(p) /\ Seen(p) = "off" /\ Seen(p)' = "cycle"
        BY <1>4
    <2>2. QED
        BY <1>1, <2>1, StepSeen, Mapped
<1>6. MappedRows' = [MappedRows EXCEPT ![MappedTarget[p]] =
            [active |-> TRUE, last |-> IF 0 = 0 /\ @ # NoRow THEN @.last ELSE 0]]
    BY <1>2, RowSeen, Mapped DEF SetMonitoringStatus
<1>7. UNCHANGED MappedEvents
    BY <1>2, MappedKept
<1>8. QED
    BY <1>2, <1>3, <1>5, <1>6, <1>7
       DEF DatabaseView!Begin, DatabaseView!Move, DatabaseView!WriteStatus,
           DatabaseView!storeVars, storeVars,
           MappedTarget, MappedStage, MappedWork, MappedRows, MappedEvents

LEMMA StatusStepSeen ==
    ASSUME CycleTypeOK, Budget, Control, NEW p \in Procs, UpdateStatus(p)
    PROVE  DatabaseView!Status(p)
<1>1. ProcessStep(p)
    BY DEF ProcessStep, Advance
<1>2. /\ pc[p] = "status" /\ UNCHANGED <<storeVars, events>>
      /\ SetMonitoringStatus(TRUE, local[p].at)
    BY DEF UpdateStatus
<1>3. local[p].at \in Times /\ local[p].at # 0
    BY <1>2, StoreTimes DEF Control
<1>4. Seen(p) = "status" /\ Carried(p).at = local[p].at
    BY <1>2, SeenAt
<1>5. MappedRows' = [MappedRows EXCEPT ![MappedTarget[p]] =
            [active |-> TRUE, last |-> IF MappedWork[p].at = 0 /\ @ # NoRow
                                       THEN @.last ELSE MappedWork[p].at]]
    <2>1. MappedTarget[p] = target /\ MappedWork[p].at = local[p].at
        BY <1>4, Mapped
    <2>2. QED
        BY <1>2, <2>1, RowSeen DEF SetMonitoringStatus
<1>6. UNCHANGED MappedEvents
    BY <1>2, MappedKept
<1>7. CASE local[p].baseline = 0
    <2>1. pc'[p] = "wait" /\ local'[p].baseline = local[p].at
        BY <1>7, WorkAfter
    <2>2. Seen(p)' = "wait" /\ Carried(p)' = DatabaseView!Idle(TRUE)
        BY <1>3, <2>1, SeenAfter
    <2>3. /\ MappedStage[p] = "status" /\ MappedStage' = [MappedStage EXCEPT ![p] = "wait"]
          /\ MappedWork' = [MappedWork EXCEPT ![p] = DatabaseView!Idle(TRUE)]
        BY <1>1, <1>4, <2>2, StepSeen, Mapped
    <2>4. ~MappedWork[p].baselined
        BY <1>7 DEF MappedWork, Carried
    <2>5. QED
        BY <1>2, <1>5, <1>6, <2>3, <2>4
           DEF DatabaseView!Status, DatabaseView!Move, DatabaseView!WriteStatus,
               DatabaseView!storeVars, storeVars,
               MappedTarget, MappedStage, MappedWork, MappedRows, MappedEvents
<1>8. CASE local[p].baseline # 0
    <2>1. pc'[p] = "events" /\ local' = local
        BY <1>8, WorkAfter
    <2>2. Seen(p)' = "events" /\ Carried(p)' = Carried(p)
        BY <1>2, <2>1, SeenAt, SeenAfter
    <2>3. /\ MappedStage[p] = "status" /\ MappedStage' = [MappedStage EXCEPT ![p] = "events"]
          /\ UNCHANGED MappedWork
        <3>1. Carried(p)' = Carried(p) /\ Seen(p) = "status" /\ Seen(p)' = "events"
            BY <1>4, <2>2
        <3>2. QED
            BY <1>1, <3>1, StepSeen, Mapped
    <2>4. MappedWork[p].baselined
        BY <1>2, <1>8 DEF MappedWork, Carried, Seen
    <2>5. QED
        BY <1>2, <1>5, <1>6, <2>3, <2>4
           DEF DatabaseView!Status, DatabaseView!Move, DatabaseView!WriteStatus,
               DatabaseView!storeVars, storeVars,
               MappedTarget, MappedStage, MappedWork, MappedRows, MappedEvents
<1>9. QED
    BY <1>7, <1>8

LEMMA RecordSeen ==
    ASSUME CycleTypeOK, Budget, Control, NEW p \in Procs, SaveEvents(p)
    PROVE  DatabaseView!Record(p)
<1>1. ProcessStep(p)
    BY DEF ProcessStep, Advance
<1>2. /\ pc[p] = "events" /\ UNCHANGED <<storeVars, monitoring>>
      /\ events' = IF local[p].changes = {} THEN events
                   ELSE Append(events, [at |-> local[p].at, changes |-> local[p].changes])
    BY DEF SaveEvents, EventsFromChanges
<1>3. /\ Seen(p) = "events"
      /\ Carried(p).at = local[p].at /\ Carried(p).changes = local[p].changes
    BY <1>2, SeenAt
<1>4. MappedEvents' = IF MappedWork[p].changes = {} THEN MappedEvents
        ELSE [MappedEvents EXCEPT ![MappedTarget[p]] =
                Append(@, [at |-> MappedWork[p].at, changes |-> MappedWork[p].changes])]
    <2>1. target \in Targets /\ MappedEvents[target] = events
        BY CycleAssumption DEF CycleAssumption, MappedEvents
    <2>2. MappedEvents' = [MappedEvents EXCEPT ![target] = events']
        BY <2>1 DEF MappedEvents
    <2>3. QED
        BY <1>2, <1>3, <2>1, <2>2, Mapped, MappedKept
<1>5. UNCHANGED MappedRows
    BY <1>2, MappedKept
<1>6. /\ Seen(p)' = IF p \in Watchers THEN "wait" ELSE "off"
      /\ Carried(p)' = DatabaseView!Idle(p \in Watchers)
    <2>1. CASE p \in Watchers
        <3>1. pc'[p] = "wait" /\ local'[p].baseline # 0
            BY <1>2, <2>1, WorkAfter DEF Control
        <3>2. Seen(p)' = "wait" /\ Carried(p)' = DatabaseView!Idle(TRUE)
            BY <3>1, SeenAfter
        <3>3. DatabaseView!Idle(p \in Watchers) = DatabaseView!Idle(TRUE)
            BY <2>1 DEF DatabaseView!Idle
        <3>4. QED
            BY <2>1, <3>2, <3>3
    <2>2. CASE p \notin Watchers
        <3>1. pc'[p] = "off"
            BY <2>2, WorkAfter
        <3>2. Seen(p)' = "off" /\ Carried(p)' = DatabaseView!Idle(FALSE)
            BY <3>1, SeenAfter
        <3>3. DatabaseView!Idle(p \in Watchers) = DatabaseView!Idle(FALSE)
            <4>1. (p \in Watchers) = FALSE
                BY <2>2
            <4>2. QED
                BY <4>1 DEF DatabaseView!Idle
        <3>4. QED
            BY <2>2, <3>2, <3>3
    <2>3. QED
        BY <2>1, <2>2
<1>7. /\ MappedStage[p] = "events"
      /\ MappedStage' = [MappedStage EXCEPT ![p] = IF p \in Watchers THEN "wait" ELSE "off"]
      /\ MappedWork' = [MappedWork EXCEPT ![p] = DatabaseView!Idle(p \in Watchers)]
    BY <1>1, <1>3, <1>6, StepSeen, Mapped
<1>8. QED
    BY <1>2, <1>4, <1>5, <1>7
       DEF DatabaseView!Record, DatabaseView!Move, DatabaseView!storeVars, storeVars,
           MappedTarget, MappedStage, MappedWork, MappedRows, MappedEvents

LEMMA AgainSeen ==
    ASSUME CycleTypeOK, Budget, Control, NEW p \in Procs, Timer(p)
    PROVE  DatabaseView!Again(p)
<1>1. ProcessStep(p)
    BY DEF ProcessStep
<1>2. /\ pc[p] = "wait" /\ pc'[p] = "previous" /\ local' = local
      /\ UNCHANGED <<storeVars, events, monitoring>>
    BY LocalType DEF Timer, Goto, CycleTypeOK
<1>3. Seen(p) = "wait" /\ Seen(p)' = "cycle" /\ Carried(p)' = Carried(p)
    BY <1>2, SeenAt, SeenAfter
<1>4. /\ MappedStage[p] = "wait" /\ MappedStage' = [MappedStage EXCEPT ![p] = "cycle"]
      /\ UNCHANGED MappedWork
    BY <1>1, <1>3, StepSeen, Mapped
<1>5. UNCHANGED MappedRows /\ UNCHANGED MappedEvents
    BY <1>2, MappedKept
<1>6. QED
    BY <1>2, <1>4, <1>5
       DEF DatabaseView!Again, DatabaseView!Move, DatabaseView!storeVars, storeVars,
           MappedStage, MappedWork, MappedRows, MappedEvents

LEMMA StopSeen ==
    ASSUME CycleTypeOK, Budget, Control, Rested, NEW p \in Procs, Stop(p) \/ DatabaseError(p)
    PROVE  DatabaseView!Stop(p) \/ UNCHANGED DatabaseView!monitorVars
<1>1. ProcessStep(p)
    BY DEF ProcessStep, Advance
<1>2. UNCHANGED <<storeVars, events, monitoring>>
    BY DEF Stop, DatabaseError
<1>3. CASE pc[p] = "activate"
    <2>1. pc'[p] = "off"
        BY <1>3, LocalType DEF Stop, DatabaseError, Exit, Goto, CycleTypeOK
    <2>2. QED
        BY <1>1, <1>2, <1>3, <2>1, SeenAt, SeenAfter, Unseen
<1>4. CASE pc[p] # "activate"
    <2>1. /\ pc[p] \in {"previous", "known", "save", "status", "events", "wait"}
          /\ pc'[p] = IF p \in Watchers THEN "deactivate" ELSE "off"
        BY <1>4, LocalType DEF Stop, DatabaseError, Exit, Goto, CycleTypeOK, Control
    <2>2. Seen(p) \in {"wait", "cycle", "status", "events"}
        BY <2>1, SeenAt
    <2>3. /\ Seen(p)' = IF p \in Watchers THEN "deactivate" ELSE "off"
          /\ Carried(p)' = DatabaseView!Idle(FALSE)
        BY <2>1, SeenAfter
    <2>4. /\ MappedStage[p] \in {"wait", "cycle", "status", "events"}
          /\ MappedStage' = [MappedStage EXCEPT ![p] =
                                IF p \in Watchers THEN "deactivate" ELSE "off"]
          /\ MappedWork' = [MappedWork EXCEPT ![p] = DatabaseView!Idle(FALSE)]
        BY <1>1, <2>2, <2>3, StepSeen, Mapped
    <2>5. UNCHANGED MappedRows /\ UNCHANGED MappedEvents
        BY <1>2, MappedKept
    <2>6. DatabaseView!Stop(p)
        BY <1>2, <2>4, <2>5
           DEF DatabaseView!Stop, DatabaseView!Move, DatabaseView!storeVars, storeVars,
               MappedStage, MappedWork, MappedRows, MappedEvents
    <2>7. QED
        BY <2>6
<1>5. QED
    BY <1>3, <1>4

\* The record of a cycle without a snapshot, filled in with one.
LEMMA FilledIn ==
    ASSUME NEW b, NEW at, NEW changes
    PROVE  [[baselined |-> b, at |-> 0, changes |-> {}] EXCEPT !.at = at, !.changes = changes]
           = [baselined |-> b, at |-> at, changes |-> changes]
<1> DEFINE empty == [baselined |-> b, at |-> 0, changes |-> {}]
           dated == [baselined |-> b, at |-> at, changes |-> {}]
<1>1. [empty EXCEPT !.at = at] = dated
    OBVIOUS
<1>2. [dated EXCEPT !.changes = changes] = [baselined |-> b, at |-> at, changes |-> changes]
    OBVIOUS
<1>3. [empty EXCEPT !.at = at, !.changes = changes]
      = [[empty EXCEPT !.at = at] EXCEPT !.changes = changes]
    OBVIOUS
<1> HIDE DEF empty, dated
<1>4. [empty EXCEPT !.at = at, !.changes = changes]
      = [baselined |-> b, at |-> at, changes |-> changes]
    BY <1>1, <1>2, <1>3
<1>5. QED
    BY <1>4 DEF empty

\* The snapshot of a cycle is one Monitor may commit: its time is free, there is
\* room for it, and its changes are from a snapshot of the log.
LEMMA SaveSeen ==
    ASSUME CycleTypeOK, Budget, Control, StampInv, OriginInv, Rested,
           NEW p \in Procs, Save(p)
    PROVE  DatabaseView!Commit(p)
<1> DEFINE at      == local[p].at
           hosts   == local[p].hosts
           changes == local[p].changes
<1>1. ProcessStep(p)
    BY DEF ProcessStep, Advance
<1>2. pc[p] = "save" /\ UNCHANGED <<events, monitoring>> /\ target \in Targets
    BY SaveTypes DEF Save
<1>3. Len(scans[target]) < MaxScans
    <2>1. Cardinality({}) + 1 <= Cardinality(Saving) /\ Cardinality(Saving) \in Nat
        <3>1. Saving \in SUBSET Procs /\ p \in Saving
            BY <1>2 DEF Saving
        <3>2. QED
            BY <3>1, CountOne
    <2>2. Cardinality({}) = 0
        BY FS_EmptySet
    <2>3. clock \in 1..(MaxScans + 1) /\ MaxScans \in Nat /\ Len(Log) \in Nat
        BY LocalType, StoreAssumption DEF CycleTypeOK, StoreAssumption
    <2>4. Len(Log) + Cardinality(Saving) < clock
        BY DEF Budget
    <2>5. QED
        BY <2>1, <2>2, <2>3, <2>4 DEF Log
<1>4. at \in Times \ UNION {DatabaseView!Stamps(t) : t \in Targets}
    <2>1. at \in Times
        BY SaveTypes
    <2>2. ASSUME NEW t \in Targets PROVE at \notin DatabaseView!Stamps(t)
        <3>1. CASE t = target
            <4>1. \A n \in DOMAIN Log : Log[n].at # at
                BY <1>2 DEF StampInv, StampedCycle, Stamped
            <4>2. QED
                BY <3>1, <4>1 DEF DatabaseView!Stamps, Log
        <3>2. CASE t # target
            <4>1. scans[t] = <<>>
                BY <3>2 DEF Rested
            <4>2. QED
                BY <4>1 DEF DatabaseView!Stamps
        <3>3. QED
            BY <3>1, <3>2
    <2>3. QED
        BY <2>1, <2>2
<1>5. hosts \in DatabaseView!Inventories
    BY SaveTypes, CycleAssumption DEF CycleAssumption, Hosts, DatabaseView!Inventories
<1>6. changes \in DatabaseView!PossibleChanges(target, hosts)
    <2>1. CASE changes = {}
        BY <2>1 DEF DatabaseView!PossibleChanges
    <2>2. CASE changes # {}
        <3>1. PICK n \in DOMAIN Log : changes = Compare(View(Log[n].hosts), View(hosts))
            BY <1>2, <2>2 DEF OriginInv, Origin
        <3>2. changes = DatabaseView!Compare(DatabaseView!View(scans[target][n].hosts),
                                             DatabaseView!View(hosts))
            BY <3>1, SameCompare DEF Log
        <3>3. QED
            BY <3>2 DEF DatabaseView!PossibleChanges, Log
    <2>3. QED
        BY <2>1, <2>2
<1>7. DatabaseView!SaveSnapshot(target, hosts, at, changes)
    BY SaveTypes, SameSave
<1>8. MappedWork' = [MappedWork EXCEPT ![p].at = at, ![p].changes = changes]
    <2>1. Carried(p) = DatabaseView!Idle(local[p].baseline # 0)
        BY <1>2, SeenAt
    <2>2. Carried(p)' = [baselined |-> local[p].baseline # 0, at |-> at, changes |-> changes]
        <3>1. pc'[p] \in {"status", "events"}
            BY WorkAfter
        <3>2. /\ local'[p].baseline = local[p].baseline
              /\ local'[p].at = at /\ local'[p].changes = changes
            BY WorkAfter
        <3>3. QED
            BY <3>1, <3>2, SeenAfter
    <2>3. Carried(p)' = [Carried(p) EXCEPT !.at = at, !.changes = changes]
        <3>1. \A b : [DatabaseView!Idle(b) EXCEPT !.at = at, !.changes = changes]
                     = [baselined |-> b, at |-> at, changes |-> changes]
            BY FilledIn DEF DatabaseView!Idle
        <3>2. [DatabaseView!Idle(local[p].baseline # 0) EXCEPT !.at = at, !.changes = changes]
              = [baselined |-> local[p].baseline # 0, at |-> at, changes |-> changes]
            BY ONLY <3>1, Zenon
        <3>3. QED
            BY ONLY <2>1, <2>2, <3>2, Zenon
    <2>4. QED
        BY <1>1, <2>3, StepSeen, Mapped DEF MappedWork
<1>9. /\ MappedStage[p] = "cycle"
      /\ MappedStage' = [MappedStage EXCEPT ![p] = IF p \in Watchers THEN "status" ELSE "events"]
    <2>1. Seen(p) = "cycle"
        BY <1>2, SeenAt
    <2>2. Seen(p)' = IF p \in Watchers THEN "status" ELSE "events"
        BY WorkAfter, SeenAfter
    <2>3. QED
        BY <1>1, <2>1, <2>2, StepSeen, Mapped
<1>10. UNCHANGED MappedRows /\ UNCHANGED MappedEvents
    BY <1>2, MappedKept
<1>11. MappedTarget[p] = target
    BY Mapped
<1> HIDE DEF at, hosts, changes
<1>12. \E t2 \in Times \ UNION {DatabaseView!Stamps(t) : t \in Targets},
          hosts2 \in DatabaseView!Inventories :
            \E changes2 \in DatabaseView!PossibleChanges(MappedTarget[p], hosts2) :
                /\ DatabaseView!SaveSnapshot(MappedTarget[p], hosts2, t2, changes2)
                /\ MappedWork' = [MappedWork EXCEPT ![p].at = t2, ![p].changes = changes2]
    BY ONLY <1>4, <1>5, <1>6, <1>7, <1>8, <1>11, Zenon
<1>13. QED
    BY <1>3, <1>9, <1>10, <1>11, <1>12
       DEF DatabaseView!Commit, DatabaseView!Move,
           MappedTarget, MappedStage, MappedWork, MappedRows, MappedEvents

LEMMA DeactivateSeen ==
    ASSUME CycleTypeOK, Budget, Control, NEW p \in Procs, Deactivate(p)
    PROVE  DatabaseView!Deactivate(p)
<1>1. ProcessStep(p)
    BY DEF ProcessStep, Advance
<1>2. /\ pc[p] = "deactivate" /\ pc'[p] = "off" /\ UNCHANGED <<storeVars, events>>
      /\ SetMonitoringStatus(FALSE, 0) \/ UNCHANGED monitoring
    BY LocalType DEF Deactivate, Exit, Goto, CycleTypeOK
<1>3. /\ Seen(p) = "deactivate" /\ Carried(p) = DatabaseView!Idle(FALSE)
      /\ Seen(p)' = "off" /\ Carried(p)' = DatabaseView!Idle(FALSE)
    BY <1>2, SeenAt, SeenAfter
<1>4. /\ MappedStage[p] = "deactivate" /\ MappedStage' = [MappedStage EXCEPT ![p] = "off"]
      /\ UNCHANGED MappedWork
    <2>1. Carried(p)' = Carried(p) /\ Seen(p) = "deactivate" /\ Seen(p)' = "off"
        BY <1>3
    <2>2. QED
        BY <1>1, <2>1, StepSeen, Mapped
<1>5. \/ MappedRows' = [MappedRows EXCEPT ![MappedTarget[p]] =
            [active |-> FALSE, last |-> IF 0 = 0 /\ @ # NoRow THEN @.last ELSE 0]]
      \/ UNCHANGED MappedRows
    BY <1>2, RowSeen, Mapped, MappedKept DEF SetMonitoringStatus
<1>6. UNCHANGED MappedEvents
    BY <1>2, MappedKept
<1>7. QED
    BY <1>2, <1>4, <1>5, <1>6
       DEF DatabaseView!Deactivate, DatabaseView!Move, DatabaseView!WriteStatus,
           DatabaseView!storeVars, storeVars,
           MappedTarget, MappedStage, MappedWork, MappedRows, MappedEvents

LEMMA CrashSeen ==
    ASSUME CycleTypeOK, Budget, Control, NEW p \in Procs, Crash(p)
    PROVE  DatabaseView!Crash(p) \/ UNCHANGED DatabaseView!monitorVars
<1>1. ProcessStep(p)
    BY DEF ProcessStep
<1>2. pc[p] # "off" /\ pc'[p] = "off" /\ UNCHANGED <<storeVars, events, monitoring>>
    BY LocalType DEF Crash, Exit, Goto, CycleTypeOK
<1>3. Seen(p)' = "off" /\ Carried(p)' = DatabaseView!Idle(FALSE)
    BY <1>2, SeenAfter
<1>4. CASE pc[p] = "activate"
    BY <1>1, <1>2, <1>3, <1>4, SeenAt, Unseen
<1>5. CASE pc[p] # "activate"
    <2>1. Seen(p) # "off"
        BY <1>2, <1>5 DEF Seen
    <2>2. /\ MappedStage[p] # "off" /\ MappedStage' = [MappedStage EXCEPT ![p] = "off"]
          /\ MappedWork' = [MappedWork EXCEPT ![p] = DatabaseView!Idle(FALSE)]
        BY <1>1, <1>3, <2>1, StepSeen, Mapped
    <2>3. UNCHANGED MappedRows /\ UNCHANGED MappedEvents
        BY <1>2, MappedKept
    <2>4. DatabaseView!Crash(p)
        BY <1>2, <2>2, <2>3
           DEF DatabaseView!Crash, DatabaseView!Move, DatabaseView!storeVars, storeVars,
               MappedStage, MappedWork, MappedRows, MappedEvents
    <2>5. QED
        BY <2>4
<1>6. QED
    BY <1>4, <1>5

-----------------------------------------------------------------------------
(* The refinement *)

LEMMA MonitorStepCases ==
    ASSUME CycleInv, StampInv, OriginInv, Rested, [CycleNext]_cycleVars
    PROVE  [DatabaseView!MonitorNext]_(DatabaseView!monitorVars)
<1>1. CycleTypeOK /\ Control /\ Budget
    BY DEF CycleInv
<1>2. ASSUME NEW p \in Procs, ProcessStep(p)
      PROVE  DatabaseView!MonitorStep(p) \/ UNCHANGED DatabaseView!monitorVars
    <2>1. CASE Start(p) \/ Activate(p)
        BY <1>1, <2>1, StartSeen, ActivateSeen DEF DatabaseView!MonitorStep
    <2>2. CASE Save(p)
        BY <1>1, <2>2, SaveSeen DEF DatabaseView!MonitorStep
    <2>3. CASE UpdateStatus(p) \/ SaveEvents(p) \/ Timer(p)
        BY <1>1, <2>3, StatusStepSeen, RecordSeen, AgainSeen DEF DatabaseView!MonitorStep
    <2>4. CASE Stop(p) \/ DatabaseError(p)
        BY <1>1, <2>4, StopSeen DEF DatabaseView!MonitorStep
    <2>5. CASE Deactivate(p) \/ Crash(p)
        BY <1>1, <2>5, DeactivateSeen, CrashSeen DEF DatabaseView!MonitorStep
    <2>6. CASE ReadPrevious(p) \/ ReadKnown(p) \/ Discover(p) \/ ScanServices(p)
               \/ Assemble(p) \/ Interrupt(p)
        BY <1>1, <1>2, <2>6, StagesUnseen
    <2>7. QED
        BY <1>2, <2>1, <2>2, <2>3, <2>4, <2>5, <2>6 DEF ProcessStep, Advance
<1>3. ASSUME UNCHANGED <<storeVars, clock, events, monitoring, pc, ctxDone, local>>
      PROVE  UNCHANGED DatabaseView!monitorVars
    <2>1. ASSUME NEW p \in Procs PROVE Seen(p)' = Seen(p) /\ Carried(p)' = Carried(p)
        <3>1. Seen(p)' = Seen(p)
            BY <1>3 DEF Seen
        <3>2. QED
            BY <1>3, <3>1 DEF Carried
    <2>2. UNCHANGED MappedStage /\ UNCHANGED MappedWork
        BY <2>1 DEF MappedStage, MappedWork
    <2>3. UNCHANGED MappedRows /\ UNCHANGED MappedEvents
        BY <1>3, MappedKept
    <2>4. QED
        BY <1>3, <2>2, <2>3
           DEF MappedStage, MappedWork, MappedRows, MappedEvents, storeVars,
               DatabaseView!monitorVars, DatabaseView!storeVars
<1>4. QED
    BY <1>1, <1>2, <1>3, CycleStepCases DEF DatabaseView!MonitorNext

LEMMA MonitorInitSeen == CycleInit => DatabaseView!MonitorInit
<1> SUFFICES ASSUME CycleInit PROVE DatabaseView!MonitorInit
    OBVIOUS
<1>1. ASSUME NEW p \in Procs
      PROVE  Seen(p) = "off" /\ Carried(p) = DatabaseView!Idle(FALSE)
    BY SeenAt DEF CycleInit
<1>2. /\ MappedStage = [p \in Procs |-> "off"]
      /\ MappedWork = [p \in Procs |-> DatabaseView!Idle(FALSE)]
    BY <1>1 DEF MappedStage, MappedWork
<1>3. /\ MappedRows = [t \in Targets |-> NoRow]
      /\ MappedEvents = [t \in Targets |-> <<>>]
    BY DEF CycleInit, MappedRows, MappedEvents
<1>4. DatabaseView!StoreInit
    BY DEF CycleInit, StoreInit, Identities, DatabaseView!StoreInit, DatabaseView!Identities
<1>5. QED
    BY <1>2, <1>3, <1>4
       DEF DatabaseView!MonitorInit, MappedStage, MappedWork, MappedRows, MappedEvents

\* Any number of scans and watches of a target, over any network and through any
\* sequence of failing calls, signals, crashes and restarts, write to the database
\* what Monitor says and in the order it says: what is shown of a reader beside
\* Monitor is shown of a reader beside the processes.
THEOREM ProcessesImplementMonitor == CycleSpec => ImplementsMonitor
<1>1. CycleInv /\ StampInv /\ OriginInv /\ Rested /\ [CycleNext]_cycleVars
        => [DatabaseView!MonitorNext]_(DatabaseView!monitorVars)
    BY MonitorStepCases
<1>2. QED
    BY <1>1, MonitorInitSeen, CycleInvariant, StampInvariant, OriginInvariant,
       RestedInvariant, PTL
       DEF CycleSpec, ImplementsMonitor, DatabaseView!MonitorSpec
=============================================================================
