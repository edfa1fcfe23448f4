-------------------------- MODULE ScanCycleProofs --------------------------
(***************************************************************************)
(* Proofs about ScanCycle, for any number of processes, addresses, ports   *)
(* and snapshots and under every fault the model has: its types, that the  *)
(* tables digest the log under every interleaving, where the changes of a  *)
(* snapshot come from, and that events report committed changes.  About    *)
(* one process alone: the events explain the network as it was last seen.  *)
(* Without failing calls: owed events and interruptions are not forgotten. *)
(***************************************************************************)
EXTENDS ScanCycle, AssetStoreProofs

-----------------------------------------------------------------------------
(* What the probing stages return *)

\* What the network has at an address.
LEMMA DeviceAt ==
    ASSUME net \in [IPs -> Devices \cup {Absent}], NEW ip \in Present
    PROVE  /\ ip \in IPs
           /\ net[ip].mac \in MACs \cup {NoMAC}
           /\ net[ip].name \in Names \cup {NoName}
           /\ net[ip].svc \in Services
BY CycleAssumption DEF CycleAssumption, Present, Device

\* Every host a cycle assembles is one the tables can hold.
LEMMA InventoryType ==
    ASSUME net \in [IPs -> Devices \cup {Absent}], NEW p \in Procs,
           local[p].sight \in Sights,
           NEW named \in SUBSET Present, NEW inspected \in SUBSET Present
    PROVE  [ip \in IPs |-> InventoryHost(p, ip, named, inspected)] \in Hosts
<1> SUFFICES ASSUME NEW ip \in IPs
             PROVE  InventoryHost(p, ip, named, inspected) \in Host \cup {Absent}
    BY DEF Hosts
<1>1. CASE local[p].sight[ip] = Absent
    BY <1>1 DEF InventoryHost
<1>2. CASE local[p].sight[ip] # Absent
    <2>1. local[p].sight[ip] \in MACs \cup {NoMAC}
        BY <1>2 DEF Sights
    <2>2. NameRead(ip, named) \in Names \cup {NoName}
        BY DeviceAt DEF NameRead
    <2>3. ASSUME NEW port \in Ports PROVE PrintRead(ip, port, inspected) \in Prints
        <3>1. Bare \in Prints
            BY CycleAssumption DEF CycleAssumption
        <3>2. QED
            BY <3>1, DeviceAt DEF PrintRead, Services
    <2>4. [port \in Ports |-> IF port \in local[p].open[ip]
                              THEN PrintRead(ip, port, inspected) ELSE Closed] \in Services
        BY <2>3 DEF Services
    <2>5. QED
        BY <1>2, <2>1, <2>2, <2>4 DEF InventoryHost, Host
<1>3. QED
    BY <1>1, <1>2

-----------------------------------------------------------------------------
(* Types *)

Locals == [baseline : Times \cup {0}, previous : Scan \cup {NoScan},
           known : SUBSET IPs, sight : Sights, open : [IPs -> SUBSET Ports],
           hosts : Hosts, at : Times \cup {0}, changes : SUBSET Change]

\* Where a process can be: only a watch has a row to keep and a timer; a cycle
\* that has its time keeps it until its events are recorded; a watch records
\* events once it has a baseline.
Control ==
    \A p \in Procs :
        /\ pc[p] \in {"activate", "status", "wait", "deactivate"} => p \in Watchers
        /\ p \notin Watchers => local[p].baseline = 0
        /\ pc[p] \in {"save", "status", "events"} => local[p].at \in Times
        /\ pc[p] = "wait" => local[p].baseline # 0
        /\ pc[p] = "events" /\ p \in Watchers => local[p].baseline # 0

Unstamped == {p \in Procs : pc[p] \in Stamping}
Saving == {p \in Procs : pc[p] = "save"}

\* The times still free suffice for the cycles under way, and every saved snapshot
\* and every one about to be saved has used one up.
Budget ==
    /\ clock + Cardinality(Unstamped) <= MaxScans + 1
    /\ Len(Log) + Cardinality(Saving) < clock

CycleInv == CycleTypeOK /\ DigestInv /\ Control /\ Budget

\* The locals a cycle starts from, and those it keeps when it has saved.
LEMMA FreshType ==
    /\ Fresh \in Locals /\ Fresh.baseline = 0 /\ Fresh.at = 0 /\ Fresh.changes = {}
    /\ \A b \in Times \cup {0} :
        /\ [Fresh EXCEPT !.baseline = b] \in Locals
        /\ [Fresh EXCEPT !.baseline = b].baseline = b
        /\ [Fresh EXCEPT !.baseline = b].at = 0
        /\ [Fresh EXCEPT !.baseline = b].changes = {}
    /\ \A b \in Times \cup {0}, at \in Times \cup {0}, changes \in SUBSET Change :
        LET kept == [Fresh EXCEPT !.baseline = b, !.at = at, !.changes = changes]
        IN  kept \in Locals /\ kept.baseline = b /\ kept.at = at /\ kept.changes = changes
<1>1. Nothing \in Sights /\ Nothing \in Hosts
    BY DEF Nothing, Sights, Hosts
<1>2. [ip \in IPs |-> {}] \in [IPs -> SUBSET Ports]
    OBVIOUS
<1>3. Fresh \in Locals
    BY <1>1, <1>2 DEF Fresh, Locals
<1>4. QED
    BY <1>3 DEF Fresh, Locals

\* A variable of a cycle takes a new value, the others stay.
LEMMA FieldType ==
    ASSUME NEW l \in Locals
    PROVE  /\ \A v \in Scan \cup {NoScan} : [l EXCEPT !.previous = v] \in Locals
           /\ \A v \in SUBSET IPs : [l EXCEPT !.known = v] \in Locals
           /\ \A v \in Sights : [l EXCEPT !.sight = v] \in Locals
           /\ \A v \in [IPs -> SUBSET Ports] : [l EXCEPT !.open = v] \in Locals
           /\ \A hosts \in Hosts, at \in Times, changes \in SUBSET Change :
                [l EXCEPT !.hosts = hosts, !.at = at, !.changes = changes] \in Locals
BY DEF Locals

\* One process gets a new value, the others keep theirs.
LEMMA Replaced ==
    ASSUME NEW S, NEW f \in [Procs -> S], NEW p \in Procs, NEW v \in S
    PROVE  /\ [f EXCEPT ![p] = v] \in [Procs -> S]
           /\ [f EXCEPT ![p] = v][p] = v
           /\ \A q \in Procs \ {p} : [f EXCEPT ![p] = v][q] = f[q]
OBVIOUS

\* Everything a process reads of its own or of the tables has its type.
LEMMA LocalType ==
    ASSUME CycleTypeOK, NEW p \in Procs
    PROVE  /\ local[p] \in Locals /\ pc[p] \in PCs
           /\ target \in Targets /\ clock \in Nat
           /\ Log \in Seq(Scan) /\ Len(Log) \in Nat
BY CycleAssumption DEF CycleAssumption, CycleTypeOK, Locals, Hosts, TypeOK, Log,
                       StoreAssumption

\* A cycle that is not stamped yet finds a time.
LEMMA ClockFree ==
    ASSUME CycleTypeOK, Budget, NEW p \in Procs, pc[p] \in Stamping
    PROVE  clock \in Times /\ clock # 0 /\ clock + Cardinality(Unstamped \ {p}) <= MaxScans
<1>1. IsFiniteSet(Unstamped) /\ p \in Unstamped
    BY CycleAssumption, FS_Subset DEF CycleAssumption, Unstamped
<1>2. Cardinality(Unstamped \ {p}) = Cardinality(Unstamped) - 1
      /\ Cardinality(Unstamped) \in Nat /\ Cardinality(Unstamped \ {p}) \in Nat
    BY <1>1, FS_RemoveElement, FS_CardinalityType
<1>3. clock \in 1..(MaxScans + 1) /\ MaxScans \in Nat /\ Times = 1..MaxScans
    BY CycleAssumption, StoreAssumption DEF CycleAssumption, StoreAssumption, CycleTypeOK
<1>4. clock + Cardinality(Unstamped) <= MaxScans + 1
    BY DEF Budget
<1> HIDE DEF Unstamped
<1>5. QED
    BY <1>2, <1>3, <1>4

\* The steps of one process.
ProcessStep(p) ==
    \/ Start(p) \/ Advance(p) \/ Timer(p)
    \/ DatabaseError(p) \/ Interrupt(p) \/ Crash(p)

\* The rest is the network's: it leaves the tables and the processes alone.
LEMMA CycleStepCases ==
    ASSUME CycleTypeOK, [CycleNext]_cycleVars
    PROVE  \/ \E p \in Procs : ProcessStep(p)
           \/ /\ net' \in [IPs -> Devices \cup {Absent}]
              /\ UNCHANGED <<storeVars, clock, events, monitoring, pc, ctxDone, local>>
<1>1. CASE Drift
    BY <1>1 DEF Drift, CycleTypeOK
<1>2. CASE UNCHANGED cycleVars
    BY <1>2 DEF cycleVars, CycleTypeOK
<1>3. QED
    BY <1>1, <1>2 DEF CycleNext, ProcessStep

\* What a cycle has when it is assembled: hosts the tables can hold, a time, and
\* the changes since the snapshot it had loaded.
LEMMA AssembledHosts ==
    ASSUME CycleTypeOK, Budget, NEW p \in Procs, Assemble(p)
    PROVE  \E hosts \in Hosts, changes \in SUBSET Change :
            /\ local' = [local EXCEPT ![p] =
                    [local[p] EXCEPT !.hosts = hosts, !.at = clock, !.changes = changes]]
            /\ clock \in Times
            /\ changes = IF local[p].previous = NoScan THEN {}
                         ELSE Compare(View(local[p].previous.hosts), View(hosts))
            /\ \E named \in SUBSET Present, inspected \in SUBSET Present :
                    hosts = [ip \in IPs |-> InventoryHost(p, ip, named, inspected)]
<1>1. PICK named \in SUBSET Present, inspected \in SUBSET Present :
        LET hosts    == [ip \in IPs |-> InventoryHost(p, ip, named, inspected)]
            previous == local[p].previous
        IN  local' = [local EXCEPT ![p] =
                [@ EXCEPT !.hosts   = hosts,
                          !.at      = clock,
                          !.changes = IF previous = NoScan THEN {}
                                      ELSE Compare(View(previous.hosts), View(hosts))]]
    BY DEF Assemble
<1> DEFINE hosts    == [ip \in IPs |-> InventoryHost(p, ip, named, inspected)]
           previous == local[p].previous
           changes  == IF previous = NoScan THEN {}
                       ELSE Compare(View(previous.hosts), View(hosts))
<1>2. local[p] \in Locals
    BY LocalType
<1>3. hosts \in Hosts
    <2>1. local[p].sight \in Sights /\ net \in [IPs -> Devices \cup {Absent}]
        BY <1>2 DEF Locals, CycleTypeOK
    <2>2. QED
        BY <2>1, InventoryType
<1>4. changes \in SUBSET Change
    <2>1. CASE previous = NoScan
        BY <2>1
    <2>2. CASE previous # NoScan
        <3>1. previous.hosts \in Hosts
            BY <1>2, <2>2 DEF Locals, Scan, Hosts
        <3>2. Compare(View(previous.hosts), View(hosts)) \in SUBSET Change
            BY <1>3, <3>1, ViewType, CompareType
        <3>3. QED
            BY <2>2, <3>2
    <2>3. QED
        BY <2>1, <2>2
<1>5. clock \in Times
    BY ClockFree DEF Assemble, Stamping
<1>6. local' = [local EXCEPT ![p] = [local[p] EXCEPT !.hosts = hosts, !.at = clock,
                                                     !.changes = changes]]
    <2>1. local \in [Procs -> Locals]
        BY DEF CycleTypeOK, Locals, Hosts
    <2>2. QED
        BY <1>1, <2>1
<1> HIDE DEF changes
<1>7. QED
    BY <1>3, <1>4, <1>5, <1>6 DEF changes

\* A step of p gives p, and no other process, a new place, context and locals.
LEMMA OwnStep ==
    ASSUME CycleTypeOK, Budget, Control, NEW p \in Procs, ProcessStep(p)
    PROVE  /\ \E l \in PCs : pc' = [pc EXCEPT ![p] = l]
           /\ \E l \in BOOLEAN : ctxDone' = [ctxDone EXCEPT ![p] = l]
           /\ \E l \in Locals : local' = [local EXCEPT ![p] = l]
           /\ net' = net
<1>1. /\ local \in [Procs -> Locals] /\ pc \in [Procs -> PCs]
      /\ ctxDone \in [Procs -> BOOLEAN]
    BY DEF CycleTypeOK, Locals, Hosts
<1>2. /\ local[p] \in Locals /\ local = [local EXCEPT ![p] = local[p]]
      /\ pc[p] \in PCs /\ pc = [pc EXCEPT ![p] = pc[p]]
      /\ ctxDone[p] \in BOOLEAN /\ ctxDone = [ctxDone EXCEPT ![p] = ctxDone[p]]
    BY <1>1
<1>3. net' = net
    BY DEF ProcessStep, Advance, Start, Timer, Crash, Deactivate, DatabaseError, Interrupt,
           Activate, Stop, UpdateStatus, ReadPrevious, ReadKnown, Discover, ScanServices,
           Assemble, Save, SaveEvents
<1>4. \E l \in PCs : pc' = [pc EXCEPT ![p] = l]
    <2>1. pc' = pc \/ \E l \in PCs : pc' = [pc EXCEPT ![p] = l]
        BY DEF ProcessStep, Advance, Start, Timer, Crash, Deactivate, DatabaseError, Interrupt,
               Activate, Stop, UpdateStatus, ReadPrevious, ReadKnown, Discover, ScanServices,
               Assemble, Save, SaveEvents, Goto, Exit, PCs
    <2>2. QED
        BY <1>2, <2>1
<1>5. \E l \in BOOLEAN : ctxDone' = [ctxDone EXCEPT ![p] = l]
    <2>1. ctxDone' = ctxDone \/ \E l \in BOOLEAN : ctxDone' = [ctxDone EXCEPT ![p] = l]
        BY DEF ProcessStep, Advance, Start, Timer, Crash, Deactivate, DatabaseError, Interrupt,
               Activate, Stop, UpdateStatus, ReadPrevious, ReadKnown, Discover, ScanServices,
               Assemble, Save, SaveEvents, Exit
    <2>2. QED
        BY <1>2, <2>1
<1>6. \E l \in Locals : local' = [local EXCEPT ![p] = l]
    <2>1. CASE local' = local
        BY <1>2, <2>1
    <2>2. CASE Exit(p)
        BY <2>2, FreshType DEF Exit
    <2>3. CASE UpdateStatus(p) \/ SaveEvents(p)
        <3>1. local[p].at \in Times \cup {0} /\ local[p].baseline \in Times \cup {0}
            BY <1>2 DEF Locals
        <3>2. \/ local' = local \/ Exit(p)
              \/ \E b \in Times \cup {0} :
                    local' = [local EXCEPT ![p] = [Fresh EXCEPT !.baseline = b]]
            BY <2>3, <3>1 DEF UpdateStatus, SaveEvents
        <3>3. QED
            BY <2>1, <2>2, <3>2, FreshType
    <2>4. CASE Save(p)
        <3>1. /\ local[p].baseline \in Times \cup {0} /\ local[p].at \in Times \cup {0}
              /\ local[p].changes \in SUBSET Change
            BY <1>2 DEF Locals
        <3>2. QED
            BY <2>4, <3>1, FreshType DEF Save
    <2>5. CASE ReadPrevious(p)
        <3> DEFINE new == IF HasSnapshot(target) THEN LatestSnapshot(target) ELSE NoScan
        <3>1. new \in Scan \cup {NoScan}
            BY LocalType DEF HasSnapshot, LatestSnapshot, Log
        <3>2. local' = [local EXCEPT ![p] = [local[p] EXCEPT !.previous = new]]
            BY <2>5 DEF ReadPrevious
        <3> HIDE DEF new
        <3>3. QED
            BY <1>2, <3>1, <3>2, FieldType
    <2>6. CASE ReadKnown(p)
        <3>1. KnownAssetIPs(target) \in SUBSET IPs
            BY LocalType DEF KnownAssetIPs, CycleTypeOK, TypeOK, AssetRow
        <3>2. local' = [local EXCEPT ![p] = [local[p] EXCEPT !.known = KnownAssetIPs(target)]]
            BY <2>6 DEF ReadKnown
        <3>3. QED
            BY <1>2, <3>1, <3>2, FieldType
    <2>7. CASE Discover(p)
        <3>1. PICK sight \in Sights : local' = [local EXCEPT ![p] = [local[p] EXCEPT !.sight = sight]]
            BY <2>7 DEF Discover
        <3>2. QED
            BY <1>2, <3>1, FieldType
    <2>8. CASE ScanServices(p)
        <3>1. PICK open \in [IPs -> SUBSET Ports] :
                local' = [local EXCEPT ![p] = [local[p] EXCEPT !.open = open]]
            BY <2>8 DEF ScanServices
        <3>2. QED
            BY <1>2, <3>1, FieldType
    <2>9. CASE Assemble(p)
        BY <2>9, <1>2, AssembledHosts, FieldType
    <2>10. QED
        BY <2>1, <2>2, <2>3, <2>4, <2>5, <2>6, <2>7, <2>8, <2>9
           DEF ProcessStep, Advance, Start, Timer, Crash, Deactivate, DatabaseError, Interrupt,
               Activate, Stop
<1>7. QED
    BY <1>3, <1>4, <1>5, <1>6

\* The tables of the store change only when a snapshot is saved, and what is
\* saved then is what they can hold.
LEMMA SaveTypes ==
    ASSUME CycleTypeOK, Control, NEW p \in Procs, Save(p)
    PROVE  /\ SaveSnapshot(target, local[p].hosts, local[p].at, local[p].changes)
           /\ target \in Targets /\ local[p].hosts \in Hosts
           /\ local[p].at \in Times /\ local[p].changes \in SUBSET Change
BY LocalType DEF Save, Control, Locals

LEMMA TablesKept ==
    ASSUME NEW p \in Procs, ProcessStep(p), ~Save(p)
    PROVE  UNCHANGED storeVars
BY DEF ProcessStep, Advance, Start, Timer, Crash, Deactivate, DatabaseError, Interrupt,
       Activate, Stop, UpdateStatus, ReadPrevious, ReadKnown, Discover, ScanServices,
       Assemble, SaveEvents

LEMMA ClockKept ==
    ASSUME NEW p \in Procs, ProcessStep(p), ~Assemble(p)
    PROVE  clock' = clock
BY DEF ProcessStep, Advance, Start, Timer, Crash, Deactivate, DatabaseError, Interrupt,
       Activate, Stop, UpdateStatus, ReadPrevious, ReadKnown, Discover, ScanServices,
       Save, SaveEvents

LEMMA EventsKept ==
    ASSUME NEW p \in Procs, ProcessStep(p), ~SaveEvents(p)
    PROVE  events' = events
BY DEF ProcessStep, Advance, Start, Timer, Crash, Deactivate, DatabaseError, Interrupt,
       Activate, Stop, UpdateStatus, ReadPrevious, ReadKnown, Discover, ScanServices,
       Assemble, Save

LEMMA MonitoringKept ==
    ASSUME NEW p \in Procs, ProcessStep(p), ~Activate(p), ~UpdateStatus(p), ~Deactivate(p)
    PROVE  monitoring' = monitoring
BY DEF ProcessStep, Advance, Start, Timer, Crash, DatabaseError, Interrupt,
       Stop, ReadPrevious, ReadKnown, Discover, ScanServices, Assemble, Save, SaveEvents

MonitoringRow == [active : BOOLEAN, last : Times \cup {0}]

LEMMA CycleTypePreserved ==
    ASSUME CycleTypeOK, Budget, Control, NEW p \in Procs, ProcessStep(p)
    PROVE  CycleTypeOK'
<1>1. TypeOK'
    <2>1. CASE Save(p)
        BY <2>1, SaveTypes, SaveSnapshotType DEF CycleTypeOK
    <2>2. CASE ~Save(p)
        BY <2>2, TablesKept DEF storeVars, CycleTypeOK, TypeOK
    <2>3. QED
        BY <2>1, <2>2
<1>2. clock' \in 1..(MaxScans + 1)
    <2>1. CASE Assemble(p)
        <3>1. clock \in Times /\ clock' = clock + 1
            BY <2>1, ClockFree DEF Assemble, Stamping
        <3>2. QED
            BY <3>1, CycleAssumption, StoreAssumption DEF CycleAssumption, StoreAssumption
    <2>2. CASE ~Assemble(p)
        BY <2>2, ClockKept DEF CycleTypeOK
    <2>3. QED
        BY <2>1, <2>2
<1>3. events' \in Seq([at : Times, changes : SUBSET Change])
    <2>1. CASE SaveEvents(p)
        <3>1. EventsFromChanges(local[p].at, local[p].changes)
                \in [at : Times, changes : SUBSET Change]
            BY <2>1, LocalType DEF SaveEvents, EventsFromChanges, Control, Locals
        <3>2. \/ events' = events
              \/ events' = Append(events, EventsFromChanges(local[p].at, local[p].changes))
            BY <2>1 DEF SaveEvents
        <3> DEFINE Batches == [at : Times, changes : SUBSET Change]
        <3>3. events \in Seq(Batches)
            BY DEF CycleTypeOK
        <3> HIDE DEF Batches
        <3>4. events' \in Seq(Batches)
            <4>1. EventsFromChanges(local[p].at, local[p].changes) \in Batches
                BY <3>1 DEF Batches
            <4>2. QED
                BY <3>2, <3>3, <4>1, AppendProperties
        <3>5. QED
            BY <3>4 DEF Batches
    <2>2. CASE ~SaveEvents(p)
        BY <2>2, EventsKept DEF CycleTypeOK
    <2>3. QED
        BY <2>1, <2>2
<1>4. monitoring' \in MonitoringRow \cup {NoRow}
    <2>1. monitoring \in MonitoringRow \cup {NoRow}
        BY DEF CycleTypeOK, MonitoringRow
    <2>2. ASSUME NEW active \in BOOLEAN, NEW last \in Times \cup {0},
                 SetMonitoringStatus(active, last)
          PROVE  monitoring' \in MonitoringRow
        BY <2>1, <2>2 DEF SetMonitoringStatus, MonitoringRow
    <2>3. local[p].at \in Times \cup {0}
        BY LocalType DEF Locals
    <2>4. CASE Activate(p)
        BY <2>2, <2>4 DEF Activate
    <2>5. CASE UpdateStatus(p)
        BY <2>2, <2>3, <2>5 DEF UpdateStatus
    <2>6. CASE Deactivate(p)
        BY <2>1, <2>2, <2>6 DEF Deactivate
    <2>7. QED
        BY <2>1, <2>4, <2>5, <2>6, MonitoringKept
<1>5. /\ net' \in [IPs -> Devices \cup {Absent}]
      /\ pc' \in [Procs -> PCs] /\ ctxDone' \in [Procs -> BOOLEAN]
      /\ local' \in [Procs -> Locals]
    <2>1. /\ local \in [Procs -> Locals] /\ pc \in [Procs -> PCs]
          /\ ctxDone \in [Procs -> BOOLEAN] /\ net \in [IPs -> Devices \cup {Absent}]
        BY DEF CycleTypeOK, Locals, Hosts
    <2>2. QED
        BY <2>1, OwnStep, Replaced
<1>6. QED
    BY <1>1, <1>2, <1>3, <1>4, <1>5 DEF CycleTypeOK, Locals, Hosts, MonitoringRow

\* What the other processes are and have is not touched.
LEMMA OthersKept ==
    ASSUME CycleTypeOK, Budget, Control, NEW p \in Procs, ProcessStep(p),
           NEW q \in Procs \ {p}
    PROVE  pc'[q] = pc[q] /\ local'[q] = local[q]
<1>1. /\ local \in [Procs -> Locals] /\ pc \in [Procs -> PCs]
    BY DEF CycleTypeOK, Locals, Hosts
<1>2. QED
    BY <1>1, OwnStep, Replaced

\* Where p is after its step, and what of its cycle it still has.
LEMMA Whereabouts ==
    ASSUME CycleTypeOK, Budget, Control, NEW p \in Procs, ProcessStep(p)
    PROVE  \/ /\ pc'[p] = "off" /\ local'[p] = Fresh
           \/ /\ Start(p) /\ pc[p] = "off" /\ local' = local
              /\ pc'[p] = IF p \in Watchers THEN "activate" ELSE "previous"
           \/ /\ Interrupt(p) /\ pc' = pc /\ local' = local
           \/ /\ DatabaseError(p) /\ p \in Watchers /\ pc'[p] = "deactivate" /\ local' = local
           \/ /\ Activate(p) /\ pc[p] = "activate" /\ pc'[p] = "previous" /\ local' = local
           \/ /\ ReadPrevious(p) /\ pc[p] = "previous" /\ pc'[p] = "known"
              /\ local'[p] = [local[p] EXCEPT !.previous =
                    IF HasSnapshot(target) THEN LatestSnapshot(target) ELSE NoScan]
           \/ /\ ReadKnown(p) /\ pc[p] = "known" /\ pc'[p] = "discover"
              /\ local'[p] = [local[p] EXCEPT !.known = KnownAssetIPs(target)]
           \/ /\ Discover(p) /\ pc[p] = "discover" /\ pc'[p] = "scan"
              /\ \E sight \in Sights : local'[p] = [local[p] EXCEPT !.sight = sight]
           \/ /\ ScanServices(p) /\ pc[p] = "scan" /\ pc'[p] = "assemble"
              /\ \E open \in [IPs -> SUBSET Ports] : local'[p] = [local[p] EXCEPT !.open = open]
           \/ /\ Assemble(p) /\ pc[p] = "assemble" /\ pc'[p] = "save"
           \/ /\ Save(p) /\ pc[p] = "save"
              /\ pc'[p] = IF p \in Watchers THEN "status" ELSE "events"
              /\ local'[p] = [Fresh EXCEPT !.baseline = local[p].baseline,
                                           !.at       = local[p].at,
                                           !.changes  = local[p].changes]
           \/ /\ UpdateStatus(p) /\ pc[p] = "status" /\ local[p].baseline = 0
              /\ pc'[p] = "wait" /\ local'[p] = [Fresh EXCEPT !.baseline = local[p].at]
           \/ /\ UpdateStatus(p) /\ pc[p] = "status" /\ local[p].baseline # 0
              /\ pc'[p] = "events" /\ local' = local
           \/ /\ SaveEvents(p) /\ pc[p] = "events" /\ p \in Watchers
              /\ pc'[p] = "wait" /\ local'[p] = [Fresh EXCEPT !.baseline = local[p].baseline]
           \/ /\ Timer(p) /\ pc[p] = "wait" /\ pc'[p] = "previous" /\ local' = local
           \/ /\ Stop(p) /\ pc[p] = "wait" /\ pc'[p] = "deactivate" /\ local' = local
<1>1. /\ local \in [Procs -> Locals] /\ pc \in [Procs -> PCs]
    BY DEF CycleTypeOK, Locals, Hosts
<1>2. CASE Exit(p)
    BY <1>1, <1>2 DEF Exit, Goto
<1>3. CASE Crash(p) \/ Deactivate(p)
    BY <1>2, <1>3 DEF Crash, Deactivate
<1>4. CASE Start(p) \/ Timer(p) \/ Stop(p) \/ Activate(p)
    BY <1>1, <1>4 DEF Start, Timer, Stop, Activate, Goto
<1>5. CASE DatabaseError(p)
    BY <1>1, <1>2, <1>5 DEF DatabaseError, Goto
<1>6. CASE Interrupt(p)
    BY <1>6 DEF Interrupt
<1>7. CASE ReadPrevious(p) \/ ReadKnown(p)
    BY <1>1, <1>7 DEF ReadPrevious, ReadKnown, Goto
<1>8. CASE Discover(p)
    BY <1>1, <1>8 DEF Discover, Goto
<1>9. CASE ScanServices(p)
    BY <1>1, <1>9 DEF ScanServices, Goto
<1>10. CASE Assemble(p)
    BY <1>1, <1>10 DEF Assemble, Goto
<1>11. CASE Save(p)
    BY <1>1, <1>11 DEF Save, Goto
<1>12. CASE UpdateStatus(p)
    BY <1>1, <1>12 DEF UpdateStatus, Goto
<1>13. CASE SaveEvents(p)
    BY <1>1, <1>2, <1>13 DEF SaveEvents, Goto
<1>14. QED
    BY <1>3, <1>4, <1>5, <1>6, <1>7, <1>8, <1>9, <1>10, <1>11, <1>12, <1>13
       DEF ProcessStep, Advance

\* The variables of a cycle that its writes are made of.
SameWork(l, m) ==
    m.baseline = l.baseline /\ m.at = l.at /\ m.changes = l.changes /\ m.hosts = l.hosts

LEMMA OtherFields ==
    ASSUME NEW l \in Locals
    PROVE  /\ \A v : SameWork(l, [l EXCEPT !.previous = v])
           /\ \A v : SameWork(l, [l EXCEPT !.known = v])
           /\ \A v : SameWork(l, [l EXCEPT !.sight = v])
           /\ \A v : SameWork(l, [l EXCEPT !.open = v])
<1>1. l = [baseline |-> l.baseline, previous |-> l.previous, known |-> l.known,
           sight |-> l.sight, open |-> l.open, hosts |-> l.hosts, at |-> l.at,
           changes |-> l.changes]
    BY DEF Locals
<1>2. QED
    BY <1>1 DEF SameWork

\* The writes of a cycle are made of what was assembled, saved or reset; every
\* other step leaves that alone.
LEMMA CarriedOver ==
    ASSUME CycleTypeOK, Budget, Control, NEW p \in Procs, ProcessStep(p)
    PROVE  \/ pc'[p] = "off" /\ local'[p] = Fresh
           \/ Assemble(p) \/ Save(p) \/ UpdateStatus(p) \/ SaveEvents(p)
           \/ SameWork(local[p], local'[p])
<1>1. local[p] \in Locals
    BY LocalType
<1>2. SameWork(local[p], local[p])
    BY DEF SameWork
<1>3. CASE local' = local
    BY <1>2, <1>3
<1>4. ASSUME NEW v, local'[p] = [local[p] EXCEPT !.previous = v]
      PROVE  SameWork(local[p], local'[p])
    BY <1>1, <1>4, OtherFields
<1>5. ASSUME NEW v, local'[p] = [local[p] EXCEPT !.known = v]
      PROVE  SameWork(local[p], local'[p])
    BY <1>1, <1>5, OtherFields
<1>6. ASSUME NEW v, local'[p] = [local[p] EXCEPT !.sight = v]
      PROVE  SameWork(local[p], local'[p])
    BY <1>1, <1>6, OtherFields
<1>7. ASSUME NEW v, local'[p] = [local[p] EXCEPT !.open = v]
      PROVE  SameWork(local[p], local'[p])
    BY <1>1, <1>7, OtherFields
<1>8. QED
    BY <1>3, <1>4, <1>5, <1>6, <1>7, Whereabouts

\* What a cycle carries after it was assembled, saved, noted and recorded.
LEMMA WorkAfter ==
    ASSUME CycleTypeOK, Budget, Control, NEW p \in Procs
    PROVE  /\ Assemble(p) =>
                /\ pc'[p] = "save"
                /\ local'[p].baseline = local[p].baseline
                /\ local'[p].at = clock /\ clock \in Times
                /\ local'[p].hosts \in Hosts
                /\ local'[p].changes = IF local[p].previous = NoScan THEN {}
                      ELSE Compare(View(local[p].previous.hosts), View(local'[p].hosts))
                /\ \E named \in SUBSET Present, inspected \in SUBSET Present :
                      local'[p].hosts = [ip \in IPs |-> InventoryHost(p, ip, named, inspected)]
           /\ Save(p) =>
                /\ pc'[p] = IF p \in Watchers THEN "status" ELSE "events"
                /\ local'[p].baseline = local[p].baseline
                /\ local'[p].at = local[p].at /\ local'[p].changes = local[p].changes
           /\ UpdateStatus(p) /\ local[p].baseline = 0 =>
                /\ pc'[p] = "wait" /\ local'[p].baseline = local[p].at
           /\ UpdateStatus(p) /\ local[p].baseline # 0 =>
                /\ pc'[p] = "events" /\ local' = local
           /\ SaveEvents(p) /\ p \in Watchers =>
                /\ pc'[p] = "wait" /\ local'[p].baseline = local[p].baseline
           /\ SaveEvents(p) /\ p \notin Watchers =>
                /\ pc'[p] = "off" /\ local'[p] = Fresh
<1>1. /\ local \in [Procs -> Locals] /\ local[p] \in Locals
      /\ pc \in [Procs -> PCs]
    BY LocalType DEF CycleTypeOK, Locals, Hosts
<1>2. /\ local[p].baseline \in Times \cup {0} /\ local[p].at \in Times \cup {0}
      /\ local[p].changes \in SUBSET Change
    BY <1>1 DEF Locals
<1>3. ASSUME Assemble(p)
      PROVE  /\ pc'[p] = "save"
             /\ local'[p].baseline = local[p].baseline
             /\ local'[p].at = clock /\ clock \in Times
             /\ local'[p].hosts \in Hosts
             /\ local'[p].changes = IF local[p].previous = NoScan THEN {}
                   ELSE Compare(View(local[p].previous.hosts), View(local'[p].hosts))
             /\ \E named \in SUBSET Present, inspected \in SUBSET Present :
                   local'[p].hosts = [ip \in IPs |-> InventoryHost(p, ip, named, inspected)]
    <2>1. PICK hosts \in Hosts, changes \in SUBSET Change :
            /\ local' = [local EXCEPT ![p] =
                    [local[p] EXCEPT !.hosts = hosts, !.at = clock, !.changes = changes]]
            /\ clock \in Times
            /\ changes = IF local[p].previous = NoScan THEN {}
                         ELSE Compare(View(local[p].previous.hosts), View(hosts))
            /\ \E named \in SUBSET Present, inspected \in SUBSET Present :
                    hosts = [ip \in IPs |-> InventoryHost(p, ip, named, inspected)]
        BY <1>3, AssembledHosts
    <2> DEFINE l == local[p]
               m == [l EXCEPT !.hosts = hosts, !.at = clock, !.changes = changes]
    <2>2. local'[p] = m
        BY <1>1, <2>1
    <2>3. m.baseline = l.baseline /\ m.at = clock /\ m.hosts = hosts /\ m.changes = changes
        <3>1. l \in Locals
            BY <1>1
        <3> HIDE DEF l
        <3>2. l = [baseline |-> l.baseline, previous |-> l.previous, known |-> l.known,
                   sight |-> l.sight, open |-> l.open, hosts |-> l.hosts, at |-> l.at,
                   changes |-> l.changes]
            BY <3>1 DEF Locals
        <3>3. QED
            BY <3>2
    <2>4. pc'[p] = "save"
        BY <1>1, <1>3 DEF Assemble, Goto
    <2> HIDE DEF m
    <2>5. QED
        BY <2>1, <2>2, <2>3, <2>4
<1>4. ASSUME Save(p)
      PROVE  /\ pc'[p] = IF p \in Watchers THEN "status" ELSE "events"
             /\ local'[p].baseline = local[p].baseline
             /\ local'[p].at = local[p].at /\ local'[p].changes = local[p].changes
    <2>1. local'[p] = [Fresh EXCEPT !.baseline = local[p].baseline, !.at = local[p].at,
                                    !.changes = local[p].changes]
        BY <1>1, <1>4 DEF Save
    <2>2. /\ local'[p].baseline = local[p].baseline
          /\ local'[p].at = local[p].at /\ local'[p].changes = local[p].changes
        BY <2>1 DEF Fresh
    <2>3. QED
        BY <1>1, <1>4, <2>2 DEF Save, Goto
<1>5. ASSUME UpdateStatus(p), local[p].baseline = 0
      PROVE  pc'[p] = "wait" /\ local'[p].baseline = local[p].at
    <2>1. local'[p] = [Fresh EXCEPT !.baseline = local[p].at] /\ pc'[p] = "wait"
        BY <1>1, <1>5 DEF UpdateStatus, Goto
    <2>2. QED
        BY <2>1 DEF Fresh
<1>6. ASSUME UpdateStatus(p), local[p].baseline # 0
      PROVE  pc'[p] = "events" /\ local' = local
    BY <1>1, <1>6 DEF UpdateStatus, Goto
<1>7. ASSUME SaveEvents(p), p \in Watchers
      PROVE  pc'[p] = "wait" /\ local'[p].baseline = local[p].baseline
    <2>1. local'[p] = [Fresh EXCEPT !.baseline = local[p].baseline] /\ pc'[p] = "wait"
        BY <1>1, <1>7 DEF SaveEvents, Goto
    <2>2. QED
        BY <2>1 DEF Fresh
<1>8. ASSUME SaveEvents(p), p \notin Watchers
      PROVE  pc'[p] = "off" /\ local'[p] = Fresh
    BY <1>1, <1>8 DEF SaveEvents, Exit, Goto
<1>9. QED
    BY <1>3, <1>4, <1>5, <1>6, <1>7, <1>8

\* No step leads a process where it may not be.
LEMMA ControlPreserved ==
    ASSUME CycleTypeOK, Budget, Control, NEW p \in Procs, ProcessStep(p)
    PROVE  Control'
<1> SUFFICES ASSUME NEW q \in Procs
             PROVE  /\ pc'[q] \in {"activate", "status", "wait", "deactivate"} => q \in Watchers
                    /\ q \notin Watchers => local'[q].baseline = 0
                    /\ pc'[q] \in {"save", "status", "events"} => local'[q].at \in Times
                    /\ pc'[q] = "wait" => local'[q].baseline # 0
                    /\ pc'[q] = "events" /\ q \in Watchers => local'[q].baseline # 0
    BY DEF Control
<1>1. CASE q # p
    BY <1>1, OthersKept DEF Control
<1>2. CASE q = p
    <2>1. 0 \notin Times
        BY CycleAssumption, StoreAssumption DEF CycleAssumption, StoreAssumption
    <2>2. CASE Assemble(p)
        BY <1>2, <2>2, WorkAfter DEF Control
    <2>3. CASE Save(p)
        BY <1>2, <2>3, WorkAfter DEF Control, Save
    <2>4. CASE UpdateStatus(p)
        BY <1>2, <2>1, <2>4, WorkAfter DEF Control, UpdateStatus
    <2>5. CASE SaveEvents(p)
        BY <1>2, <2>5, WorkAfter, FreshType DEF Control, SaveEvents
    <2>6. CASE pc'[p] = "off" /\ local'[p] = Fresh
        BY <1>2, <2>6, FreshType
    <2>7. CASE ~Assemble(p) /\ ~Save(p) /\ ~UpdateStatus(p) /\ ~SaveEvents(p)
               /\ ~(pc'[p] = "off" /\ local'[p] = Fresh)
        <3>1. local'[p].baseline = local[p].baseline /\ local'[p].at = local[p].at
            BY <2>7, CarriedOver DEF SameWork
        <3>2. \/ pc'[p] = pc[p]
              \/ pc'[p] \in {"previous", "known", "discover", "scan", "assemble"}
              \/ pc'[p] \in {"activate", "deactivate"} /\ p \in Watchers
            <4>1. pc[p] = "wait" => p \in Watchers
                BY DEF Control
            <4>2. QED
                BY <2>7, <4>1, Whereabouts
        <3>3. QED
            BY <1>2, <3>1, <3>2 DEF Control
    <2>8. QED
        BY <2>2, <2>3, <2>4, <2>5, <2>6, <2>7
<1>3. QED
    BY <1>1, <1>2

\* A set of processes that gains or loses one.
LEMMA CountOne ==
    ASSUME NEW S \in SUBSET Procs, NEW T \in SUBSET Procs, NEW p \in Procs,
           T \subseteq S \cup {p}
    PROVE  /\ Cardinality(S) \in Nat /\ Cardinality(T) \in Nat
           /\ Cardinality(T) <= Cardinality(S) + 1
           /\ T \subseteq S => Cardinality(T) <= Cardinality(S)
           /\ p \in S /\ T \subseteq S \ {p} => Cardinality(T) + 1 <= Cardinality(S)
<1>1. IsFiniteSet(S) /\ IsFiniteSet(T) /\ IsFiniteSet(S \cup {p}) /\ IsFiniteSet(S \ {p})
    BY CycleAssumption, FS_Subset, FS_AddElement, FS_RemoveElement DEF CycleAssumption
<1>2. /\ Cardinality(S) \in Nat /\ Cardinality(T) \in Nat
      /\ Cardinality(S \cup {p}) \in Nat /\ Cardinality(S \ {p}) \in Nat
    BY <1>1, FS_CardinalityType
<1>3. Cardinality(S \cup {p}) <= Cardinality(S) + 1
    BY <1>1, <1>2, FS_AddElement
<1>4. Cardinality(T) <= Cardinality(S \cup {p})
    BY <1>1, FS_Subset
<1>5. T \subseteq S => Cardinality(T) <= Cardinality(S)
    BY <1>1, FS_Subset
<1>6. ASSUME p \in S, T \subseteq S \ {p} PROVE Cardinality(T) + 1 <= Cardinality(S)
    <2>1. Cardinality(S \ {p}) = Cardinality(S) - 1
        BY <1>1, <1>6, FS_RemoveElement
    <2>2. Cardinality(T) <= Cardinality(S \ {p})
        BY <1>1, <1>6, FS_Subset
    <2>3. QED
        BY <1>2, <2>1, <2>2
<1>7. QED
    BY <1>2, <1>3, <1>4, <1>5, <1>6

\* A saved snapshot is one more in the log.
LEMMA SaveAppends ==
    ASSUME CycleTypeOK, Control, NEW p \in Procs, Save(p)
    PROVE  /\ Log' = Append(Log, [at |-> local[p].at, hosts |-> Stored(local[p].hosts),
                                  changes |-> local[p].changes])
           /\ Len(Log) \in Nat /\ Len(Log') = Len(Log) + 1
           /\ DOMAIN Log = 1..Len(Log) /\ DOMAIN Log' = 1..(Len(Log) + 1)
           /\ \A n \in 1..Len(Log) : Log'[n] = Log[n]
           /\ Log'[Len(Log) + 1] = [at |-> local[p].at, hosts |-> Stored(local[p].hosts),
                                    changes |-> local[p].changes]
<1> DEFINE scan == [at |-> local[p].at, hosts |-> Stored(local[p].hosts),
                    changes |-> local[p].changes]
<1>1. scan \in Scan /\ Log' = Append(Log, scan)
    BY SaveTypes, SaveSnapshotEffect DEF CycleTypeOK, Log
<1>2. Log \in Seq(Scan)
    BY LocalType
<1> HIDE DEF scan
<1>3. Log' \in Seq(Scan) /\ Len(Log) \in Nat /\ Len(Log') = Len(Log) + 1
      /\ \A n \in 1..Len(Log) : Log'[n] = Log[n]
      /\ Log'[Len(Log) + 1] = scan
    BY <1>1, <1>2, AppendProperties, LenProperties
<1>4. DOMAIN Log = 1..Len(Log) /\ DOMAIN Log' = 1..Len(Log')
    BY <1>2, <1>3, LenProperties
<1>5. QED
    BY <1>1, <1>3, <1>4 DEF scan

LEMMA LogKept ==
    ASSUME NEW p \in Procs, ProcessStep(p), ~Save(p)
    PROVE  Log' = Log
BY TablesKept DEF storeVars, Log

LEMMA BudgetPreserved ==
    ASSUME CycleTypeOK, Budget, Control, NEW p \in Procs, ProcessStep(p)
    PROVE  Budget'
<1> DEFINE early  == Unstamped
           early2 == Unstamped'
           late   == Saving
           late2  == Saving'
<1>1. /\ early \subseteq Procs /\ early2 \subseteq Procs
      /\ late \subseteq Procs /\ late2 \subseteq Procs
      /\ early2 \subseteq early \cup {p} /\ late2 \subseteq late \cup {p}
      /\ pc'[p] \notin Stamping => early2 \subseteq early \ {p}
      /\ pc[p] \in Stamping => p \in early /\ early2 \subseteq early
      /\ pc'[p] # "save" => late2 \subseteq late \ {p}
      /\ pc[p] = "save" => p \in late /\ late2 \subseteq late
    BY OthersKept DEF Unstamped, Saving
<1>2. /\ clock + Cardinality(early) <= MaxScans + 1
      /\ Len(Log) + Cardinality(late) < clock
      /\ clock \in Nat /\ MaxScans \in Nat /\ Len(Log) \in Nat
    BY LocalType, StoreAssumption DEF Budget, StoreAssumption
<1>3. (Budget' <=> /\ clock' + Cardinality(early2) <= MaxScans + 1
                  /\ Len(Log') + Cardinality(late2) < clock')
    BY DEF Budget
<1>4. CASE Assemble(p)
    <2>1. /\ pc[p] \in Stamping /\ pc'[p] \notin Stamping
          /\ clock' = clock + 1 /\ Len(Log') = Len(Log)
        BY <1>4, WorkAfter, LogKept DEF Assemble, Stamping, Log, storeVars
    <2> HIDE DEF early, early2, late, late2
    <2>2. Cardinality(early2) + 1 <= Cardinality(early)
          /\ Cardinality(early) \in Nat /\ Cardinality(early2) \in Nat
        BY <1>1, <2>1, CountOne
    <2>3. Cardinality(late2) <= Cardinality(late) + 1
          /\ Cardinality(late) \in Nat /\ Cardinality(late2) \in Nat
        BY <1>1, CountOne
    <2>4. QED
        BY <1>2, <1>3, <2>1, <2>2, <2>3
<1>5. CASE Save(p)
    <2>1. /\ pc[p] = "save" /\ pc'[p] # "save" /\ pc'[p] \notin Stamping
          /\ clock' = clock /\ Len(Log') = Len(Log) + 1
        BY <1>5, WorkAfter, SaveAppends DEF Save, Stamping
    <2> HIDE DEF early, early2, late, late2
    <2>2. Cardinality(early2) <= Cardinality(early)
          /\ Cardinality(early) \in Nat /\ Cardinality(early2) \in Nat
        BY <1>1, <2>1, CountOne
    <2>3. Cardinality(late2) + 1 <= Cardinality(late)
          /\ Cardinality(late) \in Nat /\ Cardinality(late2) \in Nat
        BY <1>1, <2>1, CountOne
    <2>4. QED
        BY <1>2, <1>3, <2>1, <2>2, <2>3
<1>6. CASE Start(p) \/ Timer(p)
    <2>1. /\ clock + Cardinality(early) <= MaxScans
          /\ pc'[p] # "save" /\ clock' = clock /\ Len(Log') = Len(Log)
        BY <1>6 DEF Start, Timer, CycleAllowed, Unstamped, Goto, CycleTypeOK, storeVars, Log
    <2> HIDE DEF early, early2, late, late2
    <2>2. Cardinality(early2) <= Cardinality(early) + 1
          /\ Cardinality(early) \in Nat /\ Cardinality(early2) \in Nat
        BY <1>1, CountOne
    <2>3. Cardinality(late2) <= Cardinality(late)
          /\ Cardinality(late) \in Nat /\ Cardinality(late2) \in Nat
        BY <1>1, <2>1, CountOne
    <2>4. QED
        BY <1>2, <1>3, <2>1, <2>2, <2>3
<1>7. CASE ~Assemble(p) /\ ~Save(p) /\ ~Start(p) /\ ~Timer(p)
    <2>1. clock' = clock /\ Len(Log') = Len(Log)
        BY <1>7, ClockKept, LogKept
    <2>2. early2 \subseteq early /\ late2 \subseteq late
        <3>1. (pc'[p] \in Stamping => pc[p] \in Stamping)
              /\ (pc'[p] = "save" => pc[p] = "save")
            BY <1>7, Whereabouts DEF Stamping
        <3>2. QED
            BY <1>1, <3>1
    <2> HIDE DEF early, early2, late, late2
    <2>3. /\ Cardinality(early2) <= Cardinality(early)
          /\ Cardinality(early) \in Nat /\ Cardinality(early2) \in Nat
          /\ Cardinality(late2) <= Cardinality(late)
          /\ Cardinality(late) \in Nat /\ Cardinality(late2) \in Nat
        BY <1>1, <2>2, CountOne
    <2>4. QED
        BY <1>2, <1>3, <2>1, <2>3
<1>8. QED
    BY <1>4, <1>5, <1>6, <1>7

LEMMA CycleInvInit == CycleInit => CycleInv
<1> SUFFICES ASSUME CycleInit PROVE CycleInv
    OBVIOUS
<1>1. DigestInv
    BY DigestInvInit DEF CycleInit
<1>2. MaxScans \in Nat /\ target \in Targets
    BY CycleAssumption, StoreAssumption DEF CycleAssumption, StoreAssumption
<1>3. CycleTypeOK
    <2>1. local \in [Procs -> Locals]
        BY FreshType DEF CycleInit
    <2>2. events \in Seq([at : Times, changes : SUBSET Change])
        BY EmptySeq DEF CycleInit
    <2>3. QED
        BY <1>1, <1>2, <2>1, <2>2
           DEF DigestInv, CycleInit, CycleTypeOK, Locals, Hosts, PCs
<1>4. Control
    BY FreshType DEF CycleInit, Control
<1>5. Budget
    <2>1. Unstamped = {} /\ Saving = {}
        BY DEF CycleInit, Unstamped, Saving, Stamping
    <2>2. Log = <<>> /\ clock = 1
        BY <1>2 DEF CycleInit, StoreInit, Log
    <2>3. Cardinality(Unstamped) = 0 /\ Cardinality(Saving) = 0 /\ Len(Log) = 0
        BY <2>1, <2>2, FS_EmptySet
    <2>4. QED
        BY <1>2, <2>2, <2>3 DEF Budget
<1>6. QED
    BY <1>1, <1>3, <1>4, <1>5 DEF CycleInv

LEMMA CycleInvInductive == CycleInv /\ [CycleNext]_cycleVars => CycleInv'
<1> SUFFICES ASSUME CycleInv, [CycleNext]_cycleVars PROVE CycleInv'
    OBVIOUS
<1>1. CycleTypeOK /\ DigestInv /\ Control /\ Budget
    BY DEF CycleInv
<1>2. ASSUME NEW p \in Procs, ProcessStep(p) PROVE CycleInv'
    <2>1. DigestInv'
        <3>1. CASE Save(p)
            BY <1>1, <3>1, SaveTypes, DigestInvSave
        <3>2. CASE ~Save(p)
            BY <1>1, <1>2, <3>2, TablesKept, DigestInvUnchanged
        <3>3. QED
            BY <3>1, <3>2
    <2>2. CycleTypeOK' /\ Control' /\ Budget'
        BY <1>1, <1>2, CycleTypePreserved, ControlPreserved, BudgetPreserved
    <2>3. QED
        BY <2>1, <2>2 DEF CycleInv
<1>3. ASSUME net' \in [IPs -> Devices \cup {Absent}],
             UNCHANGED <<storeVars, clock, events, monitoring, pc, ctxDone, local>>
      PROVE  CycleInv'
    <2>1. DigestInv'
        BY <1>1, <1>3, DigestInvUnchanged
    <2>2. CycleTypeOK'
        BY <1>1, <1>3, <2>1 DEF CycleTypeOK, DigestInv
    <2>3. Control' /\ Budget'
        BY <1>1, <1>3 DEF Control, Budget, Unstamped, Saving, Log, storeVars
    <2>4. QED
        BY <2>1, <2>2, <2>3 DEF CycleInv
<1>4. QED
    BY <1>1, <1>2, <1>3, CycleStepCases

LEMMA CycleInvariant == CycleSpec => []CycleInv
BY CycleInvInit, CycleInvInductive, PTL DEF CycleSpec

\* The variables of the processes and of the database keep their types, whatever
\* fails: nothing a cycle assembles is out of range, and no snapshot lacks a time.
THEOREM CycleTypeCorrect == CycleSpec => []CycleTypeOK
<1>1. CycleInv => CycleTypeOK
    BY DEF CycleInv
<1>2. QED
    BY <1>1, CycleInvariant, PTL

\* The asset table is a digest of the log under every interleaving of any number
\* of scans and watches, and through every error, interruption and crash.
THEOREM CycleKeepsDigest == CycleSpec => []AssetsDigestLog
<1>1. CycleInv => AssetsDigestLog
    BY DEF CycleInv, DigestInv
<1>2. QED
    BY <1>1, CycleInvariant, PTL

\* So is the state of an asset: one missed scan never makes it OFFLINE.
THEOREM CycleTellsRecentSightings == CycleSpec => []StateTellsRecentSightings
<1>1. CycleInv => StateTellsRecentSightings
    BY DigestTellsState DEF CycleInv
<1>2. QED
    BY <1>1, CycleInvariant, PTL

\* Whatever a step of the processes does to the tables is to save a snapshot.
LEMMA CycleStepSaves == CycleInv /\ [CycleNext]_cycleVars => [AnySave]_storeVars
<1> SUFFICES ASSUME CycleInv, [CycleNext]_cycleVars PROVE [AnySave]_storeVars
    OBVIOUS
<1>1. CycleTypeOK /\ DigestInv /\ Control /\ Budget
    BY DEF CycleInv
<1>2. ASSUME NEW p \in Procs, ProcessStep(p) PROVE AnySave \/ UNCHANGED storeVars
    BY <1>1, <1>2, SaveTypes, TablesKept DEF AnySave
<1>3. (\E p \in Procs : ProcessStep(p)) \/ UNCHANGED storeVars
    BY <1>1, CycleStepCases
<1>4. QED
    BY <1>2, <1>3

\* So are the counts, names and device types of the rows and the service history: the
\* snapshots of overlapping cycles may be old when they are saved, but the tables never
\* say anything but what the log of saved snapshots says.
THEOREM CycleKeepsTables ==
    CycleSpec => [](/\ CountAndNewAgreeWithLog
                    /\ NameAndTypeDigestLog
                    /\ HistoryTellsLatestScan)
<1>1. CycleInit => TablesInv
    BY TablesInvInit DEF CycleInit
<1>2. QED
    BY <1>1, CycleStepSaves, CycleInvariant, TablesInvInductive, TablesInvTells, PTL
       DEF CycleSpec

-----------------------------------------------------------------------------
(* Every snapshot has a time of its own *)

Stamped == {"save", "status", "events"}

\* What is known of a cycle that has its time: nothing else has that time before
\* the snapshot is saved, and afterwards only the snapshot has, until the events
\* are recorded.
StampedCycle(p) ==
    pc[p] \in Stamped =>
        /\ local[p].at < clock
        /\ \A e \in DOMAIN events : events[e].at # local[p].at
        /\ pc[p] = "save" => \A n \in DOMAIN Log : Log[n].at # local[p].at
        /\ pc[p] # "save" => \E n \in DOMAIN Log : /\ Log[n].at = local[p].at
                                                  /\ Log[n].changes = local[p].changes

LogStamps ==
    /\ \A n \in DOMAIN Log : Log[n].at < clock
    /\ \A m, n \in DOMAIN Log : Log[m].at = Log[n].at => m = n

DistinctStamps ==
    \A p, q \in Procs : p # q /\ pc[p] \in Stamped /\ pc[q] \in Stamped =>
        local[p].at # local[q].at

StampInv ==
    /\ LogStamps /\ DistinctStamps /\ (\A p \in Procs : StampedCycle(p))
    /\ EventsReportCommittedChanges

\* Times are numbers, and the tables are sequences.
LEMMA StampTypes ==
    ASSUME CycleTypeOK, Control
    PROVE  /\ clock \in Nat
           /\ \A p \in Procs : pc[p] \in Stamped => local[p].at \in Nat
           /\ \A n \in DOMAIN Log : Log[n].at \in Nat
           /\ Len(Log) \in Nat /\ DOMAIN Log = 1..Len(Log)
           /\ Len(events) \in Nat /\ DOMAIN events = 1..Len(events)
<1>1. Times \subseteq Nat
    BY CycleAssumption, StoreAssumption DEF CycleAssumption, StoreAssumption
<1>2. Log \in Seq(Scan) /\ events \in Seq([at : Times, changes : SUBSET Change])
    BY CycleAssumption DEF CycleAssumption, CycleTypeOK, TypeOK, Log
<1>3. /\ Len(Log) \in Nat /\ DOMAIN Log = 1..Len(Log)
      /\ \A n \in DOMAIN Log : Log[n] \in Scan
    BY <1>2, ElementOfSeq, LenProperties
<1>4. \A n \in DOMAIN Log : Log[n].at \in Times
    BY <1>3 DEF Scan
<1>5. Len(events) \in Nat /\ DOMAIN events = 1..Len(events)
    BY <1>2, LenProperties
<1>6. \A p \in Procs : pc[p] \in Stamped => local[p].at \in Times
    BY DEF Control, Stamped
<1>7. clock \in Nat
    BY DEF CycleTypeOK
<1>8. QED
    BY <1>1, <1>3, <1>4, <1>5, <1>6, <1>7

LEMMA StampsAfterAssemble ==
    ASSUME CycleTypeOK, Budget, Control, StampInv, NEW p \in Procs, Assemble(p)
    PROVE  StampInv'
<1>1. ProcessStep(p)
    BY DEF ProcessStep, Advance
<1>2. /\ clock' = clock + 1 /\ Log' = Log /\ events' = events
      /\ pc'[p] = "save" /\ local'[p].at = clock
    BY WorkAfter DEF Assemble, Log, storeVars
<1>3. \A q \in Procs \ {p} : pc'[q] = pc[q] /\ local'[q] = local[q]
    BY <1>1, OthersKept
<1>4. LogStamps'
    BY <1>2, StampTypes DEF StampInv, LogStamps
<1>5. EventsReportCommittedChanges'
    BY <1>2 DEF StampInv, EventsReportCommittedChanges
<1>6. \A n \in DOMAIN Log : Log[n].at < clock
    BY DEF StampInv, LogStamps
<1>7. StampedCycle(p)'
    <2>1. \A n \in DOMAIN Log : Log[n].at # clock
        BY <1>6, StampTypes
    <2>2. \A e \in DOMAIN events : events[e].at # clock
        BY <2>1 DEF StampInv, EventsReportCommittedChanges
    <2>3. QED
        BY <1>2, <2>1, <2>2, StampTypes DEF StampedCycle
<1>8. ASSUME NEW q \in Procs \ {p} PROVE StampedCycle(q)'
    <2>1. StampedCycle(q)
        BY DEF StampInv
    <2>2. QED
        BY <1>2, <1>3, <2>1, StampTypes DEF StampedCycle
<1>9. DistinctStamps'
    <2>1. \A q \in Procs \ {p} : pc[q] \in Stamped => local[q].at # clock
        BY StampTypes DEF StampInv, StampedCycle
    <2>2. QED
        BY <1>2, <1>3, <2>1 DEF StampInv, DistinctStamps
<1>10. QED
    BY <1>4, <1>5, <1>7, <1>8, <1>9 DEF StampInv

LEMMA StampsAfterSave ==
    ASSUME CycleTypeOK, Budget, Control, StampInv, NEW p \in Procs, Save(p)
    PROVE  StampInv'
<1> DEFINE scan == [at |-> local[p].at, hosts |-> Stored(local[p].hosts),
                    changes |-> local[p].changes]
           last == Len(Log) + 1
<1>1. ProcessStep(p) /\ pc[p] = "save"
    BY DEF ProcessStep, Advance, Save
<1>2. /\ clock' = clock /\ events' = events
      /\ pc'[p] \in Stamped /\ pc'[p] # "save"
      /\ local'[p].at = local[p].at /\ local'[p].changes = local[p].changes
    BY WorkAfter DEF Save, Stamped
<1>3. \A q \in Procs \ {p} : pc'[q] = pc[q] /\ local'[q] = local[q]
    BY <1>1, OthersKept
<1>4. /\ Len(Log) \in Nat /\ DOMAIN Log = 1..Len(Log) /\ DOMAIN Log' = 1..last
      /\ \A n \in DOMAIN Log : Log'[n] = Log[n]
      /\ Log'[last].at = local[p].at /\ Log'[last].changes = local[p].changes
    <2>1. scan.at = local[p].at /\ scan.changes = local[p].changes
        OBVIOUS
    <2>2. Log'[last] = scan
        BY SaveAppends
    <2> HIDE DEF scan
    <2>3. QED
        BY <2>1, <2>2, SaveAppends
<1>5. /\ local[p].at < clock
      /\ \A n \in DOMAIN Log : Log[n].at # local[p].at
      /\ \A e \in DOMAIN events : events[e].at # local[p].at
    BY <1>1 DEF StampInv, StampedCycle, Stamped
<1>6. DOMAIN Log' = DOMAIN Log \cup {last} /\ last \notin DOMAIN Log
    BY <1>4
<1> HIDE DEF last
<1>7. LogStamps'
    BY <1>2, <1>4, <1>5, <1>6 DEF StampInv, LogStamps
<1>8. EventsReportCommittedChanges'
    <2>1. \A d, e \in DOMAIN events : events[d].at = events[e].at => d = e
        BY DEF StampInv, EventsReportCommittedChanges
    <2>2. ASSUME NEW e \in DOMAIN events
          PROVE  \E n \in DOMAIN Log' : /\ Log'[n].at = events[e].at
                                        /\ Log'[n].changes = events[e].changes
        <3>1. PICK n \in DOMAIN Log : Log[n].at = events[e].at /\ Log[n].changes = events[e].changes
            BY DEF StampInv, EventsReportCommittedChanges
        <3>2. n \in DOMAIN Log' /\ Log'[n] = Log[n]
            BY <1>4, <1>6
        <3>3. QED
            BY <3>1, <3>2
    <2>3. QED
        BY <1>2, <2>1, <2>2 DEF EventsReportCommittedChanges
<1>9. StampedCycle(p)'
    BY <1>2, <1>4, <1>5, <1>6 DEF StampedCycle
<1>10. ASSUME NEW q \in Procs \ {p} PROVE StampedCycle(q)'
    <2>1. StampedCycle(q) /\ (pc[q] \in Stamped => local[q].at # local[p].at)
        BY <1>1 DEF StampInv, DistinctStamps, Stamped
    <2>2. CASE pc[q] = "save"
        <3>1. /\ local[q].at < clock /\ local[q].at # local[p].at
              /\ \A e \in DOMAIN events : events[e].at # local[q].at
              /\ \A n \in DOMAIN Log : Log[n].at # local[q].at
            BY <2>1, <2>2 DEF StampedCycle, Stamped
        <3>2. \A n \in DOMAIN Log' : Log'[n].at # local[q].at
            BY <1>4, <1>6, <3>1
        <3>3. QED
            BY <1>2, <1>3, <2>2, <3>1, <3>2 DEF StampedCycle
    <2>3. CASE pc[q] \in Stamped /\ pc[q] # "save"
        <3>1. PICK n \in DOMAIN Log : Log[n].at = local[q].at /\ Log[n].changes = local[q].changes
            BY <2>1, <2>3 DEF StampedCycle
        <3>2. n \in DOMAIN Log' /\ Log'[n] = Log[n]
            BY <1>4, <1>6
        <3>3. \E m \in DOMAIN Log' : /\ Log'[m].at = local[q].at
                                     /\ Log'[m].changes = local[q].changes
            BY <3>1, <3>2
        <3>4. QED
            BY <1>2, <1>3, <2>1, <2>3, <3>3 DEF StampedCycle
    <2>4. QED
        BY <1>3, <2>2, <2>3 DEF StampedCycle
<1>11. DistinctStamps'
    BY <1>1, <1>2, <1>3 DEF StampInv, DistinctStamps, Stamped
<1>12. QED
    BY <1>7, <1>8, <1>9, <1>10, <1>11 DEF StampInv

LEMMA StampsAfterSaveEvents ==
    ASSUME CycleTypeOK, Budget, Control, StampInv, NEW p \in Procs, SaveEvents(p)
    PROVE  StampInv'
<1> DEFINE batch == EventsFromChanges(local[p].at, local[p].changes)
           last  == Len(events) + 1
<1>1. ProcessStep(p) /\ pc[p] = "events"
    BY DEF ProcessStep, Advance, SaveEvents
<1>2. /\ clock' = clock /\ Log' = Log
      /\ pc'[p] \notin Stamped
    BY WorkAfter DEF SaveEvents, Stamped, Log, storeVars
<1>3. \A q \in Procs \ {p} : pc'[q] = pc[q] /\ local'[q] = local[q]
    BY <1>1, OthersKept
<1>4. LogStamps' /\ DistinctStamps' /\ StampedCycle(p)'
    BY <1>2, <1>3 DEF StampInv, LogStamps, DistinctStamps, StampedCycle
<1>5. PICK n \in DOMAIN Log : Log[n].at = local[p].at /\ Log[n].changes = local[p].changes
    BY <1>1 DEF StampInv, StampedCycle, Stamped
<1>6. \A e \in DOMAIN events : events[e].at # local[p].at
    BY <1>1 DEF StampInv, StampedCycle, Stamped
<1>7. CASE events' = events
    BY <1>2, <1>3, <1>4, <1>7 DEF StampInv, EventsReportCommittedChanges, StampedCycle
<1>8. CASE events' = Append(events, batch)
    <2>1. batch.at = local[p].at /\ batch.changes = local[p].changes
        BY DEF EventsFromChanges
    <2>2. events \in Seq([at : Times, changes : SUBSET Change])
          /\ batch \in [at : Times, changes : SUBSET Change]
        BY <1>1, LocalType DEF CycleTypeOK, EventsFromChanges, Control, Locals
    <2> DEFINE Batches == [at : Times, changes : SUBSET Change]
    <2>3. events \in Seq(Batches) /\ batch \in Batches
        BY <2>2
    <2> HIDE DEF batch, Batches
    <2>4. /\ DOMAIN events = 1..Len(events) /\ DOMAIN events' = 1..last /\ Len(events) \in Nat
          /\ \A e \in DOMAIN events : events'[e] = events[e]
          /\ events'[last] = batch
        BY <1>8, <2>3, AppendProperties, LenProperties
    <2>5. DOMAIN events' = DOMAIN events \cup {last} /\ last \notin DOMAIN events
        BY <2>4
    <2> HIDE DEF last
    <2>6. EventsReportCommittedChanges'
        <3>1. \A d, e \in DOMAIN events' : events'[d].at = events'[e].at => d = e
            BY <1>6, <2>1, <2>4, <2>5 DEF StampInv, EventsReportCommittedChanges
        <3>2. \A e \in DOMAIN events : \E m \in DOMAIN Log :
                Log[m].at = events[e].at /\ Log[m].changes = events[e].changes
            BY DEF StampInv, EventsReportCommittedChanges
        <3>3. \A e \in DOMAIN events' : \E m \in DOMAIN Log :
                Log[m].at = events'[e].at /\ Log[m].changes = events'[e].changes
            BY <1>5, <2>1, <2>4, <2>5, <3>2
        <3>4. QED
            BY <1>2, <3>1, <3>3 DEF EventsReportCommittedChanges
    <2>7. ASSUME NEW q \in Procs \ {p} PROVE StampedCycle(q)'
        <3>1. StampedCycle(q) /\ (pc[q] \in Stamped => local[q].at # local[p].at)
            BY <1>1 DEF StampInv, DistinctStamps, Stamped
        <3>2. QED
            BY <1>2, <1>3, <2>1, <2>4, <2>5, <3>1 DEF StampedCycle
    <2>8. QED
        BY <1>4, <2>6, <2>7 DEF StampInv
<1>9. QED
    BY <1>7, <1>8 DEF SaveEvents

LEMMA StampsAfterOther ==
    ASSUME CycleTypeOK, Budget, Control, StampInv, NEW p \in Procs, ProcessStep(p),
           ~Assemble(p), ~Save(p), ~SaveEvents(p)
    PROVE  StampInv'
<1>1. clock' = clock /\ Log' = Log /\ events' = events
    BY ClockKept, LogKept, EventsKept
<1>2. \A q \in Procs \ {p} : pc'[q] = pc[q] /\ local'[q] = local[q]
    BY OthersKept
<1>3. pc'[p] \in Stamped =>
        /\ local'[p] = local[p] /\ pc[p] \in Stamped
        /\ (pc'[p] = "save" <=> pc[p] = "save")
    BY Whereabouts DEF Stamped
<1>4. LogStamps' /\ EventsReportCommittedChanges'
    BY <1>1 DEF StampInv, LogStamps, EventsReportCommittedChanges
<1>5. DistinctStamps'
    BY <1>2, <1>3 DEF StampInv, DistinctStamps
<1>6. \A q \in Procs : StampedCycle(q)'
    BY <1>1, <1>2, <1>3 DEF StampInv, StampedCycle
<1>7. QED
    BY <1>4, <1>5, <1>6 DEF StampInv

LEMMA StampInvInductive == CycleInv /\ StampInv /\ [CycleNext]_cycleVars => StampInv'
<1> SUFFICES ASSUME CycleInv, StampInv, [CycleNext]_cycleVars PROVE StampInv'
    OBVIOUS
<1>1. CycleTypeOK /\ Control /\ Budget
    BY DEF CycleInv
<1>2. ASSUME NEW p \in Procs, ProcessStep(p) PROVE StampInv'
    BY <1>1, <1>2, StampsAfterAssemble, StampsAfterSave, StampsAfterSaveEvents,
       StampsAfterOther
<1>3. ASSUME UNCHANGED <<storeVars, clock, events, monitoring, pc, ctxDone, local>>
      PROVE  StampInv'
    BY <1>3 DEF StampInv, LogStamps, DistinctStamps, StampedCycle,
                EventsReportCommittedChanges, Log, storeVars
<1>4. QED
    BY <1>1, <1>2, <1>3, CycleStepCases

LEMMA StampInvInit == CycleInit => StampInv
<1> SUFFICES ASSUME CycleInit PROVE StampInv
    OBVIOUS
<1>1. Log = <<>> /\ events = <<>> /\ \A p \in Procs : pc[p] = "off"
    BY CycleAssumption DEF CycleAssumption, CycleInit, StoreInit, Log
<1>2. QED
    BY <1>1 DEF StampInv, LogStamps, DistinctStamps, StampedCycle, Stamped,
                EventsReportCommittedChanges

LEMMA StampInvariant == CycleSpec => []StampInv
BY CycleInvariant, StampInvInit, StampInvInductive, PTL DEF CycleSpec

\* For any number of processes and through every fault: no event without a
\* committed change, and no change reported twice.
THEOREM EventsAlwaysReportCommittedChanges == CycleSpec => []EventsReportCommittedChanges
<1>1. StampInv => EventsReportCommittedChanges
    BY DEF StampInv
<1>2. QED
    BY <1>1, StampInvariant, PTL

-----------------------------------------------------------------------------
(* Where the changes of a snapshot come from *)

\* The snapshot a cycle has loaded is one of the log; the changes it is about to
\* save are none, or what it assembled compared with one of the log.
Origin(p) ==
    /\ local[p].previous # NoScan => \E n \in DOMAIN Log : local[p].previous = Log[n]
    /\ pc[p] = "save" =>
        \/ local[p].changes = {}
        \/ \E n \in DOMAIN Log :
            local[p].changes = Compare(View(Log[n].hosts), View(local[p].hosts))

OriginInv == \A p \in Procs : Origin(p)

\* The log only grows: what is in it stays there.
LEMMA LogGrows ==
    ASSUME CycleTypeOK, Control, NEW p \in Procs, ProcessStep(p)
    PROVE  \A n \in DOMAIN Log : n \in DOMAIN Log' /\ Log'[n] = Log[n]
<1>1. CASE Save(p)
    <2>1. /\ Len(Log) \in Nat /\ DOMAIN Log = 1..Len(Log) /\ DOMAIN Log' = 1..(Len(Log) + 1)
          /\ \A n \in 1..Len(Log) : Log'[n] = Log[n]
        BY <1>1, SaveAppends
    <2>2. DOMAIN Log \subseteq DOMAIN Log'
        BY <2>1
    <2>3. QED
        BY <2>1, <2>2
<1>2. CASE ~Save(p)
    BY <1>2, LogKept
<1>3. QED
    BY <1>1, <1>2

\* What a cycle has loaded, after any step of its process.
LEMMA PreviousAfter ==
    ASSUME CycleTypeOK, Budget, Control, NEW p \in Procs, ProcessStep(p)
    PROVE  \/ /\ local'[p].previous = NoScan
              /\ ReadPrevious(p) \/ pc'[p] \in {"off", "status", "events", "wait"}
           \/ local'[p].previous = local[p].previous
           \/ /\ ReadPrevious(p) /\ HasSnapshot(target)
              /\ local'[p].previous = LatestSnapshot(target)
<1>1. local[p] \in Locals /\ local \in [Procs -> Locals] /\ pc \in [Procs -> PCs]
    BY LocalType DEF CycleTypeOK, Locals, Hosts
<1>2. Fresh.previous = NoScan
    BY DEF Fresh
<1>3. ASSUME ReadPrevious(p)
      PROVE  local'[p].previous = IF HasSnapshot(target) THEN LatestSnapshot(target) ELSE NoScan
    <2> DEFINE new == IF HasSnapshot(target) THEN LatestSnapshot(target) ELSE NoScan
    <2>1. local'[p] = [local[p] EXCEPT !.previous = new]
        BY <1>1, <1>3 DEF ReadPrevious
    <2> HIDE DEF new
    <2>2. local'[p].previous = new
        BY <1>1, <2>1 DEF Locals
    <2>3. QED
        BY <2>2 DEF new
<1>4. CASE Assemble(p)
    <2>1. PICK hosts, changes : local' = [local EXCEPT ![p] =
            [local[p] EXCEPT !.hosts = hosts, !.at = clock, !.changes = changes]]
        BY <1>4, AssembledHosts
    <2>2. local'[p] = [local[p] EXCEPT !.hosts = hosts, !.at = clock, !.changes = changes]
        BY <1>1, <2>1
    <2>3. local'[p].previous = local[p].previous
        BY <1>1, <2>2 DEF Locals
    <2>4. QED
        BY <2>3
<1>5. CASE Save(p) \/ SaveEvents(p) \/ UpdateStatus(p)
    <2>1. pc'[p] \in {"off", "status", "events", "wait"}
        BY <1>5, WorkAfter
    <2>2. ASSUME NEW b, local'[p] = [Fresh EXCEPT !.baseline = b]
          PROVE  local'[p].previous = NoScan
        BY <2>2 DEF Fresh
    <2>3. CASE Save(p)
        <3>1. local'[p] = [Fresh EXCEPT !.baseline = local[p].baseline, !.at = local[p].at,
                                        !.changes = local[p].changes]
            BY <1>1, <2>3 DEF Save
        <3>2. local'[p].previous = NoScan
            BY <3>1 DEF Fresh
        <3>3. QED
            BY <2>1, <3>2
    <2>4. CASE SaveEvents(p)
        <3>1. \/ local'[p] = Fresh
              \/ local'[p] = [Fresh EXCEPT !.baseline = local[p].baseline]
            BY <1>1, <2>4 DEF SaveEvents, Exit
        <3>2. QED
            BY <1>2, <2>1, <2>2, <3>1
    <2>5. CASE UpdateStatus(p)
        <3>1. local' = local \/ local'[p] = [Fresh EXCEPT !.baseline = local[p].at]
            BY <1>1, <2>5 DEF UpdateStatus
        <3>2. QED
            BY <2>1, <2>2, <3>1
    <2>6. QED
        BY <1>5, <2>1, <2>3, <2>4, <2>5
<1>6. CASE ReadKnown(p) \/ Discover(p) \/ ScanServices(p)
    <2>1. \/ \E v : local'[p] = [local[p] EXCEPT !.known = v]
          \/ \E v : local'[p] = [local[p] EXCEPT !.sight = v]
          \/ \E v : local'[p] = [local[p] EXCEPT !.open = v]
        BY <1>1, <1>6 DEF ReadKnown, Discover, ScanServices
    <2>2. QED
        BY <1>1, <2>1 DEF Locals
<1>7. QED
    BY <1>1, <1>2, <1>3, <1>4, <1>5, <1>6, Whereabouts

LEMMA OriginPreserved ==
    ASSUME CycleTypeOK, Budget, Control, OriginInv, NEW p \in Procs, ProcessStep(p)
    PROVE  OriginInv'
<1>1. \A n \in DOMAIN Log : n \in DOMAIN Log' /\ Log'[n] = Log[n]
    BY LogGrows
<1>2. ASSUME NEW q \in Procs \ {p} PROVE Origin(q)'
    <2>1. Origin(q) /\ pc'[q] = pc[q] /\ local'[q] = local[q]
        BY OthersKept DEF OriginInv
    <2>2. QED
        BY <1>1, <2>1 DEF Origin
<1>3. Origin(p)
    BY DEF OriginInv
<1>4. ASSUME local'[p].previous # NoScan
      PROVE  \E n \in DOMAIN Log' : local'[p].previous = Log'[n]
    <2>1. CASE local'[p].previous = local[p].previous
        BY <1>1, <1>3, <1>4, <2>1 DEF Origin
    <2>2. CASE HasSnapshot(target) /\ local'[p].previous = LatestSnapshot(target)
        <3>1. Len(Log) \in DOMAIN Log
            <4>1. Log \in Seq(Scan) /\ Log # <<>>
                BY <2>2, LocalType DEF HasSnapshot, Log
            <4>2. QED
                BY <4>1, EmptySeq, LenProperties
        <3>2. local'[p].previous = Log[Len(Log)]
            BY <2>2 DEF LatestSnapshot, Log
        <3>3. QED
            BY <1>1, <3>1, <3>2
    <2>3. QED
        BY <1>4, <2>1, <2>2, PreviousAfter
<1>5. ASSUME pc'[p] = "save"
      PROVE  \/ local'[p].changes = {}
             \/ \E n \in DOMAIN Log' :
                 local'[p].changes = Compare(View(Log'[n].hosts), View(local'[p].hosts))
    <2>1. CASE Assemble(p)
        <3>1. CASE local[p].previous = NoScan
            BY <2>1, <3>1, WorkAfter
        <3>2. CASE local[p].previous # NoScan
            <4>1. PICK n \in DOMAIN Log : local[p].previous = Log[n]
                BY <1>3, <3>2 DEF Origin
            <4>2. local'[p].changes = Compare(View(Log[n].hosts), View(local'[p].hosts))
                BY <2>1, <3>2, <4>1, WorkAfter
            <4>3. QED
                BY <1>1, <4>2
        <3>3. QED
            BY <3>1, <3>2
    <2>2. CASE ~Assemble(p)
        <3>1. pc[p] = "save" /\ local' = local
            BY <1>5, <2>2, Whereabouts
        <3>2. QED
            BY <1>1, <1>3, <3>1 DEF Origin
    <2>3. QED
        BY <2>1, <2>2
<1>6. QED
    BY <1>2, <1>4, <1>5 DEF OriginInv, Origin

LEMMA OriginInvariant == CycleSpec => []OriginInv
<1>1. CycleInit => OriginInv
    <2>1. Fresh.previous = NoScan
        BY DEF Fresh
    <2>2. QED
        BY <2>1 DEF CycleInit, OriginInv, Origin
<1>2. CycleInv /\ OriginInv /\ [CycleNext]_cycleVars => OriginInv'
    <2> SUFFICES ASSUME CycleInv, OriginInv, [CycleNext]_cycleVars PROVE OriginInv'
        OBVIOUS
    <2>1. CycleTypeOK /\ Control /\ Budget
        BY DEF CycleInv
    <2>2. ASSUME UNCHANGED <<storeVars, clock, events, monitoring, pc, ctxDone, local>>
          PROVE  OriginInv'
        BY <2>2 DEF OriginInv, Origin, Log, storeVars
    <2>3. QED
        BY <2>1, <2>2, OriginPreserved, CycleStepCases
<1>3. QED
    BY <1>1, <1>2, CycleInvariant, PTL DEF CycleSpec

\* Every fingerprint the network gives survives the database, which a title cut
\* inside a character does not.
FaithfulPrints ==
    /\ StoredPrint[Bare] = Bare
    /\ \A device \in Devices, port \in Ports :
        device.svc[port] # Closed => StoredPrint[device.svc[port]] = device.svc[port]

\* What is about to be saved comes back from the tables as it is.
FaithfulHosts ==
    \A p \in Procs : pc[p] = "save" => Stored(local[p].hosts) = local[p].hosts

LEMMA AssembledIsFaithful ==
    ASSUME FaithfulPrints, CycleTypeOK, Budget, Control, NEW p \in Procs, Assemble(p)
    PROVE  Stored(local'[p].hosts) = local'[p].hosts
<1>1. PICK named \in SUBSET Present, inspected \in SUBSET Present :
        local'[p].hosts = [ip \in IPs |-> InventoryHost(p, ip, named, inspected)]
    BY WorkAfter
<1> DEFINE hosts == local'[p].hosts
<1>2. hosts \in Hosts
    BY WorkAfter
<1>3. ASSUME NEW ip \in IPs, hosts[ip] # Absent
      PROVE  Persisted(hosts[ip].svc) = hosts[ip].svc
    <2> DEFINE svc == [port \in Ports |-> IF port \in local[p].open[ip]
                                         THEN PrintRead(ip, port, inspected) ELSE Closed]
    <2>1. hosts[ip] = InventoryHost(p, ip, named, inspected)
        BY <1>1
    <2>2. hosts[ip].svc = svc
        BY <1>3, <2>1 DEF InventoryHost
    <2>3. ASSUME NEW port \in Ports, svc[port] # Closed PROVE StoredPrint[svc[port]] = svc[port]
        <3>1. svc[port] = PrintRead(ip, port, inspected)
            BY <2>3
        <3>2. StoredPrint[PrintRead(ip, port, inspected)] = PrintRead(ip, port, inspected)
            <4>1. CASE ip \in inspected /\ net[ip].svc[port] # Closed
                <5>1. net[ip] \in Devices
                    BY <4>1 DEF Present, CycleTypeOK
                <5>2. QED
                    BY <4>1, <5>1 DEF FaithfulPrints, PrintRead
            <4>2. CASE ~(ip \in inspected /\ net[ip].svc[port] # Closed)
                BY <4>2 DEF FaithfulPrints, PrintRead
            <4>3. QED
                BY <4>1, <4>2
        <3>3. QED
            BY <3>1, <3>2
    <2>4. svc = [port \in Ports |-> svc[port]]
        OBVIOUS
    <2> HIDE DEF svc
    <2>5. Persisted(svc) = svc
        BY <2>3, <2>4 DEF Persisted
    <2>6. QED
        BY <2>2, <2>5
<1>4. ASSUME NEW ip \in IPs PROVE Stored(hosts)[ip] = hosts[ip]
    <2>1. CASE hosts[ip] = Absent
        BY <2>1 DEF Stored
    <2>2. CASE hosts[ip] # Absent
        <3> DEFINE host == hosts[ip]
        <3>1. host \in Host
            BY <1>2, <2>2 DEF Hosts
        <3>2. Stored(hosts)[ip] = [host EXCEPT !.svc = Persisted(host.svc)]
            BY <2>2 DEF Stored
        <3>3. Persisted(host.svc) = host.svc
            BY <1>3, <2>2
        <3> HIDE DEF host
        <3>4. [host EXCEPT !.svc = host.svc] = host
            BY <3>1 DEF Host
        <3>5. QED
            BY <3>2, <3>3, <3>4 DEF host
    <2>3. QED
        BY <2>1, <2>2
<1>5. hosts = [ip \in IPs |-> hosts[ip]] /\ Stored(hosts) = [ip \in IPs |-> Stored(hosts)[ip]]
    BY <1>2 DEF Hosts, Stored
<1> HIDE DEF hosts
<1>6. Stored(hosts) = hosts
    BY <1>4, <1>5
<1>7. QED
    BY <1>6 DEF hosts

LEMMA FaithfulPreserved ==
    ASSUME FaithfulPrints, CycleTypeOK, Budget, Control, FaithfulHosts,
           NEW p \in Procs, ProcessStep(p)
    PROVE  FaithfulHosts'
<1> SUFFICES ASSUME NEW q \in Procs, pc'[q] = "save"
             PROVE  Stored(local'[q].hosts) = local'[q].hosts
    BY DEF FaithfulHosts, Stored
<1>1. CASE q # p
    BY <1>1, OthersKept DEF FaithfulHosts
<1>2. CASE q = p /\ Assemble(p)
    BY <1>2, AssembledIsFaithful
<1>3. CASE q = p /\ ~Assemble(p)
    <2>1. pc[p] = "save" /\ local' = local
        BY <1>3, Whereabouts
    <2>2. QED
        BY <1>3, <2>1 DEF FaithfulHosts
<1>4. QED
    BY <1>1, <1>2, <1>3

LEMMA FaithfulInvariant ==
    ASSUME FaithfulPrints
    PROVE  CycleSpec => []FaithfulHosts
<1>1. CycleInit => FaithfulHosts
    BY DEF CycleInit, FaithfulHosts
<1>2. CycleInv /\ FaithfulHosts /\ [CycleNext]_cycleVars => FaithfulHosts'
    <2> SUFFICES ASSUME CycleInv, FaithfulHosts, [CycleNext]_cycleVars PROVE FaithfulHosts'
        OBVIOUS
    <2>1. CycleTypeOK /\ Control /\ Budget
        BY DEF CycleInv
    <2>2. ASSUME UNCHANGED <<storeVars, clock, events, monitoring, pc, ctxDone, local>>
          PROVE  FaithfulHosts'
        BY <2>2 DEF FaithfulHosts, Stored
    <2>3. QED
        BY <2>1, <2>2, FaithfulPreserved, CycleStepCases
<1>3. QED
    BY <1>1, <1>2, CycleInvariant, PTL DEF CycleSpec

LEMMA SomeEarlierScanPreserved ==
    ASSUME CycleInv, OriginInv, FaithfulHosts, ChangesAreFromSomeEarlierScan,
           [CycleNext]_cycleVars
    PROVE  ChangesAreFromSomeEarlierScan'
<1>1. CycleTypeOK /\ Control /\ Budget
    BY DEF CycleInv
<1>2. ASSUME NEW p \in Procs, ProcessStep(p) PROVE ChangesAreFromSomeEarlierScan'
    <2>1. CASE Save(p)
        <3> DEFINE last == Len(Log) + 1
                   scan == [at |-> local[p].at, hosts |-> Stored(local[p].hosts),
                            changes |-> local[p].changes]
        <3>1. /\ Len(Log) \in Nat /\ DOMAIN Log = 1..Len(Log) /\ DOMAIN Log' = 1..last
              /\ \A n \in 1..Len(Log) : Log'[n] = Log[n]
              /\ Log'[last] = scan
            BY <1>1, <2>1, SaveAppends
        <3>2. scan.hosts = local[p].hosts /\ scan.changes = local[p].changes
            BY <2>1 DEF FaithfulHosts, Save
        <3>3. \/ scan.changes = {}
              \/ \E m \in DOMAIN Log :
                    scan.changes = Compare(View(Log[m].hosts), View(scan.hosts))
            BY <2>1, <3>2 DEF OriginInv, Origin, Save
        <3> HIDE DEF scan
        <3>4. \/ Log'[last].changes = {}
              \/ \E m \in 1..(last - 1) :
                    Log'[last].changes = Compare(View(Log'[m].hosts), View(Log'[last].hosts))
            BY <3>1, <3>3
        <3>5. ASSUME NEW n \in 1..Len(Log)
              PROVE  \/ Log'[n].changes = {}
                     \/ \E m \in 1..(n - 1) :
                            Log'[n].changes = Compare(View(Log'[m].hosts), View(Log'[n].hosts))
            <4>1. \A m \in 1..(n - 1) : m \in 1..Len(Log)
                BY <3>1
            <4>2. QED
                BY <3>1, <4>1 DEF ChangesAreFromSomeEarlierScan
        <3>6. \A n \in DOMAIN Log' : n \in 1..Len(Log) \/ n = last
            BY <3>1
        <3> HIDE DEF last
        <3>7. ASSUME NEW n \in DOMAIN Log'
              PROVE  \/ Log'[n].changes = {}
                     \/ \E m \in 1..(n - 1) :
                            Log'[n].changes = Compare(View(Log'[m].hosts), View(Log'[n].hosts))
            <4>1. CASE n = last
                BY <3>4, <4>1
            <4>2. CASE n \in 1..Len(Log)
                BY <3>5, <4>2
            <4>3. QED
                BY <3>6, <4>1, <4>2
        <3>8. QED
            BY <3>7 DEF ChangesAreFromSomeEarlierScan, View
    <2>2. CASE ~Save(p)
        <3>1. Log' = Log
            BY <1>2, <2>2, LogKept
        <3>2. QED
            BY <3>1 DEF ChangesAreFromSomeEarlierScan, View
    <2>3. QED
        BY <2>1, <2>2
<1>3. ASSUME UNCHANGED <<storeVars, clock, events, monitoring, pc, ctxDone, local>>
      PROVE  ChangesAreFromSomeEarlierScan'
    BY <1>3 DEF ChangesAreFromSomeEarlierScan, View, Log, storeVars
<1>4. QED
    BY <1>1, <1>2, <1>3, CycleStepCases

\* For any number of processes, whatever their interleaving and whatever fails:
\* the changes saved with a snapshot are its differences from some snapshot saved
\* earlier, or none, provided fingerprints survive the database.
THEOREM ChangesAlwaysFromSomeEarlierScan ==
    ASSUME FaithfulPrints
    PROVE  CycleSpec => []ChangesAreFromSomeEarlierScan
<1>1. CycleInit => ChangesAreFromSomeEarlierScan
    <2> SUFFICES ASSUME CycleInit PROVE ChangesAreFromSomeEarlierScan
        OBVIOUS
    <2>1. Log = <<>>
        BY CycleAssumption DEF CycleAssumption, CycleInit, StoreInit, Log
    <2>2. QED
        BY <2>1 DEF ChangesAreFromSomeEarlierScan
<1>2. QED
    BY <1>1, CycleInvariant, OriginInvariant, FaithfulInvariant, SomeEarlierScanPreserved,
       PTL DEF CycleSpec

\* A cycle that has loaded the previous snapshot and is not stamped yet.
Probing == {"known", "discover", "scan", "assemble"}

\* A watch whose baseline is the b-th scan has loaded that one or a later one, and
\* what it is about to save, or has saved, is the comparison with it.
ComparesSince(p, b) ==
    /\ Log[b].at = local[p].baseline
    /\ pc[p] \in Probing => \E m \in DOMAIN Log : b <= m /\ local[p].previous = Log[m]
    /\ pc[p] = "save" =>
        \E m \in DOMAIN Log :
            b <= m /\ local[p].changes = Compare(View(Log[m].hosts), View(local[p].hosts))
    /\ pc[p] \in {"status", "events"} =>
        \E m, n \in DOMAIN Log :
            /\ b <= m /\ m < n /\ Log[n].at = local[p].at
            /\ local[p].changes = Compare(View(Log[m].hosts), View(Log[n].hosts))

SinceInv ==
    \A p \in Procs : local[p].baseline # 0 => \E b \in DOMAIN Log : ComparesSince(p, b)

\* What is in the log stays there, so a process that does nothing loses nothing.
LEMMA SinceStays ==
    ASSUME NEW p \in Procs, NEW b \in DOMAIN Log, ComparesSince(p, b),
           \A n \in DOMAIN Log : n \in DOMAIN Log' /\ Log'[n] = Log[n],
           local'[p].baseline = local[p].baseline,
           pc'[p] \in Probing =>
                pc[p] \in Probing /\ local'[p].previous = local[p].previous,
           pc'[p] \in Stamped =>
                /\ local'[p] = local[p] /\ pc[p] \in Stamped
                /\ (pc'[p] = "save" <=> pc[p] = "save")
    PROVE  ComparesSince(p, b)'
<1>1. Log'[b].at = local'[p].baseline
    BY DEF ComparesSince
<1>2. ASSUME pc'[p] \in Probing
      PROVE  \E m \in DOMAIN Log' : b <= m /\ local'[p].previous = Log'[m]
    <2>1. PICK m \in DOMAIN Log : b <= m /\ local[p].previous = Log[m]
        BY <1>2 DEF ComparesSince
    <2>2. QED
        BY <1>2, <2>1
<1>3. ASSUME pc'[p] = "save"
      PROVE  \E m \in DOMAIN Log' :
                /\ b <= m
                /\ local'[p].changes = Compare(View(Log'[m].hosts), View(local'[p].hosts))
    <2>1. pc[p] = "save" /\ local'[p] = local[p]
        BY <1>3 DEF Stamped
    <2>2. PICK m \in DOMAIN Log :
            b <= m /\ local[p].changes = Compare(View(Log[m].hosts), View(local[p].hosts))
        BY <2>1 DEF ComparesSince
    <2>3. QED
        BY <2>1, <2>2
<1>4. ASSUME pc'[p] \in {"status", "events"}
      PROVE  \E m, n \in DOMAIN Log' :
                /\ b <= m /\ m < n /\ Log'[n].at = local'[p].at
                /\ local'[p].changes = Compare(View(Log'[m].hosts), View(Log'[n].hosts))
    <2>1. pc[p] \in {"status", "events"} /\ local'[p] = local[p]
        BY <1>4 DEF Stamped
    <2>2. PICK m \in DOMAIN Log, n \in DOMAIN Log :
            /\ b <= m /\ m < n /\ Log[n].at = local[p].at
            /\ local[p].changes = Compare(View(Log[m].hosts), View(Log[n].hosts))
        BY <2>1 DEF ComparesSince
    <2>3. m \in DOMAIN Log' /\ n \in DOMAIN Log' /\ Log'[m] = Log[m] /\ Log'[n] = Log[n]
        OBVIOUS
    <2>4. QED
        BY <2>1, <2>2, <2>3
<1>5. QED
    BY <1>1, <1>2, <1>3, <1>4 DEF ComparesSince, View

\* The watch loads the latest snapshot, which is its baseline or was saved later.
LEMMA SinceAfterRead ==
    ASSUME CycleTypeOK, Budget, Control, NEW p \in Procs, ReadPrevious(p),
           NEW b \in DOMAIN Log, ComparesSince(p, b)
    PROVE  ComparesSince(p, b)'
<1>1. /\ ProcessStep(p) /\ Log' = Log /\ pc'[p] = "known"
      /\ local[p] \in Locals /\ local \in [Procs -> Locals] /\ pc \in [Procs -> PCs]
    BY LocalType DEF ProcessStep, Advance, ReadPrevious, Goto, Log, storeVars, CycleTypeOK,
                     Locals, Hosts
<1>2. Log \in Seq(Scan) /\ Len(Log) \in Nat /\ DOMAIN Log = 1..Len(Log)
    BY LocalType, LenProperties
<1>3. b <= Len(Log) /\ Len(Log) \in DOMAIN Log
    BY <1>2
<1>4. HasSnapshot(target)
    <2>1. Log # <<>>
        BY <1>2, <1>3, EmptySeq
    <2>2. QED
        BY <2>1 DEF HasSnapshot, Log
<1>5. local'[p] = [local[p] EXCEPT !.previous = Log[Len(Log)]]
    BY <1>1, <1>4 DEF ReadPrevious, LatestSnapshot, Log
<1>6. local'[p].baseline = local[p].baseline /\ local'[p].previous = Log[Len(Log)]
    BY <1>1, <1>5 DEF Locals
<1>7. QED
    BY <1>1, <1>3, <1>6 DEF ComparesSince, Probing

\* It compares what it found with the snapshot it loaded.
LEMMA SinceAfterAssemble ==
    ASSUME CycleTypeOK, Budget, Control, NEW p \in Procs, Assemble(p),
           NEW b \in DOMAIN Log, ComparesSince(p, b)
    PROVE  ComparesSince(p, b)'
<1>1. /\ Log' = Log /\ pc[p] = "assemble" /\ pc'[p] = "save"
      /\ local'[p].baseline = local[p].baseline
    BY WorkAfter DEF Assemble, Log, storeVars
<1>2. PICK m \in DOMAIN Log : b <= m /\ local[p].previous = Log[m]
    BY <1>1 DEF ComparesSince, Probing
<1>3. local[p].previous # NoScan
    <2>1. Log[m] \in Scan
        BY LocalType, ElementOfSeq, LenProperties
    <2>2. QED
        BY <1>2, <2>1, CycleAssumption DEF CycleAssumption
<1>4. local'[p].changes = Compare(View(Log[m].hosts), View(local'[p].hosts))
    BY <1>2, <1>3, WorkAfter
<1>5. QED
    BY <1>1, <1>2, <1>4 DEF ComparesSince, Probing, View

\* The snapshot it saves is behind the one it compared with.
LEMMA SinceAfterSave ==
    ASSUME CycleTypeOK, Budget, Control, FaithfulHosts, NEW p \in Procs, Save(p),
           NEW b \in DOMAIN Log, ComparesSince(p, b)
    PROVE  ComparesSince(p, b)'
<1> DEFINE last == Len(Log) + 1
           scan == [at |-> local[p].at, hosts |-> Stored(local[p].hosts),
                    changes |-> local[p].changes]
<1>1. /\ pc[p] = "save" /\ pc'[p] \in {"status", "events"}
      /\ local'[p].baseline = local[p].baseline
      /\ local'[p].at = local[p].at /\ local'[p].changes = local[p].changes
    BY WorkAfter DEF Save
<1>2. /\ Len(Log) \in Nat /\ DOMAIN Log = 1..Len(Log) /\ DOMAIN Log' = 1..last
      /\ \A n \in 1..Len(Log) : Log'[n] = Log[n]
      /\ Log'[last] = scan
    BY SaveAppends
<1>3. scan.at = local[p].at /\ scan.hosts = local[p].hosts
    BY <1>1 DEF FaithfulHosts
<1> HIDE DEF scan
<1>4. PICK m \in DOMAIN Log :
        b <= m /\ local[p].changes = Compare(View(Log[m].hosts), View(local[p].hosts))
    BY <1>1 DEF ComparesSince
<1>5. /\ m \in DOMAIN Log' /\ last \in DOMAIN Log' /\ m < last
      /\ Log'[m] = Log[m] /\ Log'[b] = Log[b]
    BY <1>2
<1>6. /\ Log'[last].at = local'[p].at
      /\ local'[p].changes = Compare(View(Log'[m].hosts), View(Log'[last].hosts))
    BY <1>1, <1>2, <1>3, <1>4, <1>5
<1> HIDE DEF last
<1>7. \E i, n \in DOMAIN Log' :
        /\ b <= i /\ i < n /\ Log'[n].at = local'[p].at
        /\ local'[p].changes = Compare(View(Log'[i].hosts), View(Log'[n].hosts))
    BY <1>4, <1>5, <1>6
<1>8. Log'[b].at = local'[p].baseline /\ pc'[p] \notin Probing /\ pc'[p] # "save"
    BY <1>1, <1>5 DEF ComparesSince, Probing
<1>9. QED
    BY <1>7, <1>8 DEF ComparesSince, View

\* The first snapshot of a watch is its baseline; any other step keeps it.
LEMMA SincePreserved ==
    ASSUME CycleTypeOK, Budget, Control, StampInv, FaithfulHosts, SinceInv,
           NEW p \in Procs, ProcessStep(p)
    PROVE  SinceInv'
<1>1. \A n \in DOMAIN Log : n \in DOMAIN Log' /\ Log'[n] = Log[n]
    BY LogGrows
<1>2. ASSUME NEW q \in Procs \ {p}, local'[q].baseline # 0
      PROVE  \E b \in DOMAIN Log' : ComparesSince(q, b)'
    <2>1. pc'[q] = pc[q] /\ local'[q] = local[q]
        BY OthersKept
    <2>2. PICK b \in DOMAIN Log : ComparesSince(q, b)
        BY <1>2, <2>1 DEF SinceInv
    <2>3. ComparesSince(q, b)'
        BY <1>1, <2>1, <2>2, SinceStays
    <2>4. QED
        BY <1>1, <2>3
<1>3. ASSUME local'[p].baseline # 0
      PROVE  \E b \in DOMAIN Log' : ComparesSince(p, b)'
    <2>1. ~(pc'[p] = "off" /\ local'[p] = Fresh)
        BY <1>3, FreshType
    <2>2. CASE UpdateStatus(p) /\ local[p].baseline = 0
        <3>1. pc[p] = "status" /\ pc'[p] = "wait" /\ local'[p].baseline = local[p].at
            BY <2>2, WorkAfter DEF UpdateStatus
        <3>2. PICK b \in DOMAIN Log : Log[b].at = local[p].at
            BY <3>1 DEF StampInv, StampedCycle, Stamped
        <3>3. ComparesSince(p, b)'
            BY <1>1, <3>1, <3>2 DEF ComparesSince, Probing
        <3>4. QED
            BY <1>1, <3>3
    <2>3. CASE ~(UpdateStatus(p) /\ local[p].baseline = 0)
        <3>1. local'[p].baseline = local[p].baseline
            <4>1. SaveEvents(p) => p \in Watchers
                BY <2>1, WorkAfter
            <4>2. QED
                BY <2>1, <2>3, <4>1, CarriedOver, WorkAfter DEF SameWork
        <3>2. PICK b \in DOMAIN Log : ComparesSince(p, b)
            BY <1>3, <3>1 DEF SinceInv
        <3>3. CASE ReadPrevious(p)
            BY <1>1, <3>2, <3>3, SinceAfterRead
        <3>4. CASE Assemble(p)
            BY <1>1, <3>2, <3>4, SinceAfterAssemble
        <3>5. CASE Save(p)
            BY <1>1, <3>2, <3>5, SinceAfterSave
        <3>6. CASE ~ReadPrevious(p) /\ ~Assemble(p) /\ ~Save(p)
            <4>1. pc'[p] \in Probing => pc[p] \in Probing
                BY <3>6, Whereabouts DEF Probing
            <4>2. pc'[p] \in Probing => local'[p].previous = local[p].previous
                BY <3>6, PreviousAfter DEF Probing
            <4>3. pc'[p] \in Stamped =>
                    /\ local'[p] = local[p] /\ pc[p] \in Stamped
                    /\ (pc'[p] = "save" <=> pc[p] = "save")
                BY <3>6, Whereabouts DEF Stamped
            <4>4. ComparesSince(p, b)'
                BY <1>1, <3>1, <3>2, <4>1, <4>2, <4>3, SinceStays
            <4>5. QED
                BY <1>1, <4>4
        <3>7. QED
            BY <3>3, <3>4, <3>5, <3>6
    <2>4. QED
        BY <2>2, <2>3
<1>4. QED
    BY <1>2, <1>3 DEF SinceInv

\* For any number of processes, whatever their interleaving and whatever fails: a
\* watch that has its baseline saves the differences from that one or a later one,
\* provided fingerprints survive the database.
THEOREM WatchAlwaysComparesSinceBaseline ==
    ASSUME FaithfulPrints
    PROVE  CycleSpec => []WatchComparesSinceBaseline
<1>1. CycleInit => SinceInv
    <2> SUFFICES ASSUME CycleInit PROVE SinceInv
        OBVIOUS
    <2>1. ASSUME NEW p \in Procs
          PROVE  local[p].baseline = 0
        <3>1. local[p] = Fresh
            BY <2>1 DEF CycleInit
        <3>2. QED
            BY <3>1, FreshType
    <2>2. QED
        BY <2>1 DEF SinceInv
<1>2. CycleInv /\ StampInv /\ FaithfulHosts /\ SinceInv /\ [CycleNext]_cycleVars => SinceInv'
    <2> SUFFICES ASSUME CycleInv, StampInv, FaithfulHosts, SinceInv, [CycleNext]_cycleVars
                 PROVE  SinceInv'
        OBVIOUS
    <2>1. CycleTypeOK /\ Control /\ Budget
        BY DEF CycleInv
    <2>2. ASSUME UNCHANGED <<storeVars, clock, events, monitoring, pc, ctxDone, local>>
          PROVE  SinceInv'
        <3>1. Log' = Log /\ pc' = pc /\ local' = local
            BY <2>2 DEF Log, storeVars
        <3>2. ASSUME NEW p \in Procs, NEW b \in DOMAIN Log
              PROVE  ComparesSince(p, b)' <=> ComparesSince(p, b)
            BY <3>1 DEF ComparesSince, View
        <3>3. QED
            BY <3>1, <3>2 DEF SinceInv
    <2>3. QED
        BY <2>1, <2>2, SincePreserved, CycleStepCases
<1>3. SinceInv => WatchComparesSinceBaseline
    <2> SUFFICES ASSUME SinceInv, NEW p \in Watchers, pc[p] \in {"status", "events"},
                        local[p].baseline # 0
                 PROVE  \E b, m, n \in DOMAIN Log :
                            /\ Log[b].at = local[p].baseline /\ b <= m /\ m < n
                            /\ Log[n].at = local[p].at
                            /\ local[p].changes =
                                    Compare(View(Log[m].hosts), View(Log[n].hosts))
        BY DEF WatchComparesSinceBaseline
    <2>1. PICK b \in DOMAIN Log : ComparesSince(p, b)
        BY CycleAssumption DEF CycleAssumption, SinceInv
    <2>2. PICK m \in DOMAIN Log, n \in DOMAIN Log :
            /\ b <= m /\ m < n /\ Log[n].at = local[p].at
            /\ local[p].changes = Compare(View(Log[m].hosts), View(Log[n].hosts))
        BY <2>1 DEF ComparesSince
    <2>3. Log[b].at = local[p].baseline
        BY <2>1 DEF ComparesSince
    <2>4. QED
        BY <2>2, <2>3
<1>4. QED
    BY <1>1, <1>2, <1>3, CycleInvariant, StampInvariant, FaithfulInvariant, PTL DEF CycleSpec

-----------------------------------------------------------------------------
(* One process *)

\* No other process uses the database.
Alone == \A p, q \in Procs : p = q

Latest == Log[Len(Log)]

\* What one process knows of the log: nobody saves a snapshot behind its back.
AloneOf(p) ==
    /\ pc[p] \in {"known", "discover", "scan", "assemble"} =>
        local[p].previous = IF Log = <<>> THEN NoScan ELSE Latest
    /\ pc[p] = "save" =>
        local[p].changes = IF Log = <<>> THEN {}
                           ELSE Compare(View(Latest.hosts), View(local[p].hosts))
    /\ pc[p] \in {"status", "events"} => Log # <<>> /\ local[p].at = Latest.at
    /\ p \in Watchers /\ pc[p] \in {"events", "wait"} =>
        /\ Log # <<>>
        /\ monitoring = [active |-> TRUE, last |-> Latest.at]

AloneInv == \A p \in Procs : AloneOf(p)

\* The row never names a scan that is not saved.
RowNamesScan ==
    monitoring # NoRow /\ monitoring.last # 0 =>
        \E n \in DOMAIN Log : Log[n].at = monitoring.last

LEMMA LatestType ==
    ASSUME CycleTypeOK, Log # <<>>
    PROVE  /\ Len(Log) \in DOMAIN Log /\ Latest \in Scan /\ Latest # NoScan
           /\ LatestSnapshot(target) = Latest
<1>1. Log \in Seq(Scan)
    BY CycleAssumption DEF CycleAssumption, CycleTypeOK, TypeOK, Log
<1>2. Len(Log) \in DOMAIN Log /\ Log[Len(Log)] \in Scan
    BY <1>1, EmptySeq, LenProperties, ElementOfSeq
<1>3. QED
    BY <1>2, CycleAssumption DEF CycleAssumption, Latest, LatestSnapshot, Log

LEMMA AloneAfterSave ==
    ASSUME Alone, CycleTypeOK, Budget, Control, AloneInv, NEW p \in Procs, Save(p)
    PROVE  AloneOf(p)'
<1> DEFINE last == Len(Log) + 1
           scan == [at |-> local[p].at, hosts |-> Stored(local[p].hosts),
                    changes |-> local[p].changes]
<1>1. Len(Log') = last /\ Len(Log) \in Nat /\ Log'[last] = scan
    BY SaveAppends
<1>2. Log' # <<>>
    <2>1. Log' = <<>> => Len(Log') = 0
        BY EmptySeq
    <2>2. QED
        BY <1>1, <2>1
<1>3. Latest' = scan
    BY <1>1 DEF Latest
<1>4. scan.at = local[p].at
    OBVIOUS
<1> HIDE DEF scan, last
<1>5. /\ pc'[p] = IF p \in Watchers THEN "status" ELSE "events"
      /\ local'[p].at = local[p].at
    BY WorkAfter
<1>6. QED
    BY <1>2, <1>3, <1>4, <1>5 DEF AloneOf

LEMMA AloneAfterOther ==
    ASSUME Alone, CycleTypeOK, Budget, Control, AloneInv, NEW p \in Procs, ProcessStep(p),
           ~Save(p)
    PROVE  AloneOf(p)'
<1>1. Log' = Log /\ Latest' = Latest
    BY LogKept DEF Latest
<1>2. AloneOf(p)
    BY DEF AloneInv
<1>3. CASE ReadPrevious(p)
    <2>1. pc'[p] = "known" /\ local'[p].previous = IF Log = <<>> THEN NoScan ELSE Latest
        <3>1. pc'[p] = "known"
            BY <1>3 DEF ReadPrevious, Goto, CycleTypeOK
        <3>2. HasSnapshot(target) <=> Log # <<>>
            BY DEF HasSnapshot, Log
        <3>3. local'[p] = [local[p] EXCEPT !.previous =
                    IF HasSnapshot(target) THEN LatestSnapshot(target) ELSE NoScan]
            BY <1>3, Whereabouts, LocalType
               DEF ReadPrevious, CycleTypeOK
        <3>4. local'[p].previous = IF HasSnapshot(target) THEN LatestSnapshot(target) ELSE NoScan
            BY <3>3, LocalType DEF Locals
        <3>5. QED
            BY <3>1, <3>2, <3>4, LatestType
    <2>2. QED
        BY <1>1, <2>1 DEF AloneOf
<1>4. CASE Assemble(p)
    <2>1. local[p].previous = IF Log = <<>> THEN NoScan ELSE Latest
        BY <1>2, <1>4 DEF AloneOf, Assemble
    <2>2. pc'[p] = "save"
          /\ local'[p].changes = IF Log = <<>> THEN {}
                                 ELSE Compare(View(Latest.hosts), View(local'[p].hosts))
        BY <1>4, <2>1, WorkAfter, LatestType
    <2>3. QED
        BY <1>1, <2>2 DEF AloneOf, View
<1>5. CASE UpdateStatus(p)
    <2>1. local[p].at = Latest.at /\ Log # <<>> /\ 0 \notin Times /\ local[p].at \in Times
        BY <1>2, <1>5, CycleAssumption, StoreAssumption
           DEF AloneOf, UpdateStatus, Control, CycleAssumption, StoreAssumption
    <2>2. monitoring' = [active |-> TRUE, last |-> local[p].at]
        BY <1>5, <2>1 DEF UpdateStatus, SetMonitoringStatus
    <2>3. pc'[p] = "wait" \/ (pc'[p] = "events" /\ local' = local)
        BY <1>5, WorkAfter
    <2>4. QED
        BY <1>1, <2>1, <2>2, <2>3 DEF AloneOf
<1>6. CASE SaveEvents(p)
    <2>1. monitoring' = monitoring /\ pc[p] = "events"
        BY <1>6 DEF SaveEvents
    <2>2. pc'[p] = "off" \/ (p \in Watchers /\ pc'[p] = "wait")
        BY <1>6, WorkAfter
    <2>3. QED
        BY <1>1, <1>2, <2>1, <2>2 DEF AloneOf
<1>7. CASE ~ReadPrevious(p) /\ ~Assemble(p) /\ ~UpdateStatus(p) /\ ~SaveEvents(p)
    <2>1. CASE pc'[p] \in {"off", "activate", "previous", "deactivate"}
        BY <2>1 DEF AloneOf
    <2>2. CASE pc'[p] \notin {"off", "activate", "previous", "deactivate"}
        <3>1. \/ pc'[p] = pc[p] /\ local' = local
              \/ /\ pc[p] \in {"known", "discover", "scan"}
                 /\ pc'[p] \in {"known", "discover", "scan", "assemble"}
            BY <1>7, <2>2, Whereabouts
        <3>2. CASE pc'[p] = pc[p] /\ local' = local
            <4>1. monitoring' = monitoring
                <5>1. ~Activate(p) /\ ~Deactivate(p)
                    BY <2>2, <3>2 DEF Activate, Deactivate, Goto, Exit, CycleTypeOK
                <5>2. QED
                    BY <1>7, <5>1, MonitoringKept
            <4>2. QED
                BY <1>1, <1>2, <3>2, <4>1 DEF AloneOf, View
        <3>3. CASE /\ pc[p] \in {"known", "discover", "scan"}
                   /\ pc'[p] \in {"known", "discover", "scan", "assemble"}
            <4>1. local[p].previous = IF Log = <<>> THEN NoScan ELSE Latest
                BY <1>2, <3>3 DEF AloneOf
            <4>2. local'[p].previous = local[p].previous
                BY <1>7, <3>3, PreviousAfter
            <4>3. QED
                BY <1>1, <3>3, <4>1, <4>2 DEF AloneOf
        <3>4. QED
            BY <3>1, <3>2, <3>3
    <2>3. QED
        BY <2>1, <2>2
<1>8. QED
    BY <1>3, <1>4, <1>5, <1>6, <1>7

LEMMA AloneInvariant ==
    ASSUME Alone
    PROVE  CycleSpec => []AloneInv
<1>1. CycleInit => AloneInv
    BY DEF CycleInit, AloneInv, AloneOf
<1>2. CycleInv /\ AloneInv /\ [CycleNext]_cycleVars => AloneInv'
    <2> SUFFICES ASSUME CycleInv, AloneInv, [CycleNext]_cycleVars PROVE AloneInv'
        OBVIOUS
    <2>1. CycleTypeOK /\ Control /\ Budget
        BY DEF CycleInv
    <2>2. ASSUME NEW p \in Procs, ProcessStep(p) PROVE AloneInv'
        <3>1. AloneOf(p)'
            BY <2>1, <2>2, AloneAfterSave, AloneAfterOther
        <3>2. \A q \in Procs : q = p
            BY DEF Alone
        <3>3. QED
            BY <3>1, <3>2 DEF AloneInv
    <2>3. ASSUME UNCHANGED <<storeVars, clock, events, monitoring, pc, ctxDone, local>>
          PROVE  AloneInv'
        BY <2>3 DEF AloneInv, AloneOf, Latest, View, Log, storeVars
    <2>4. QED
        BY <2>1, <2>2, <2>3, CycleStepCases
<1>3. QED
    BY <1>1, <1>2, CycleInvariant, PTL DEF CycleSpec

LEMMA PredecessorPreserved ==
    ASSUME CycleInv, AloneInv, FaithfulHosts, ChangesAreFromPredecessor,
           [CycleNext]_cycleVars
    PROVE  ChangesAreFromPredecessor'
<1>1. CycleTypeOK /\ Control /\ Budget
    BY DEF CycleInv
<1>2. ASSUME NEW p \in Procs, ProcessStep(p) PROVE ChangesAreFromPredecessor'
    <2>1. CASE Save(p)
        <3> DEFINE length == Len(Log)
                   scan == [at |-> local[p].at, hosts |-> Stored(local[p].hosts),
                            changes |-> local[p].changes]
        <3>1. /\ length \in Nat /\ DOMAIN Log = 1..length /\ DOMAIN Log' = 1..(length + 1)
              /\ \A n \in 1..length : Log'[n] = Log[n]
              /\ Log'[length + 1] = scan
            BY <1>1, <2>1, SaveAppends
        <3>2. scan.hosts = local[p].hosts /\ scan.changes = local[p].changes
            BY <2>1 DEF FaithfulHosts, Save
        <3>3. Log = <<>> <=> length = 0
            BY <1>1, LocalType, EmptySeq
        <3>4. scan.changes = IF length = 0 THEN {}
                             ELSE Compare(View(Log[length].hosts), View(scan.hosts))
            BY <2>1, <3>2, <3>3 DEF AloneInv, AloneOf, Save, Latest
        <3> HIDE DEF scan, length
        <3>5. ASSUME NEW n \in 1..(length + 1)
              PROVE  Log'[n].changes = IF n = 1 THEN {}
                        ELSE Compare(View(Log'[n - 1].hosts), View(Log'[n].hosts))
            <4>1. CASE n \in 1..length
                <5>1. n # 1 => n - 1 \in 1..length
                    BY <3>1, <4>1
                <5>2. QED
                    BY <3>1, <4>1, <5>1 DEF ChangesAreFromPredecessor
            <4>2. CASE n = length + 1
                <5>1. (n = 1 <=> length = 0) /\ n - 1 = length /\ Log'[n] = scan
                      /\ (n # 1 => Log'[n - 1] = Log[length])
                    BY <3>1, <4>2
                <5>2. QED
                    BY <3>4, <5>1
            <4>3. QED
                BY <3>1, <4>1, <4>2
        <3>6. QED
            BY <3>1, <3>5 DEF ChangesAreFromPredecessor, View
    <2>2. CASE ~Save(p)
        <3>1. Log' = Log
            BY <1>2, <2>2, LogKept
        <3>2. QED
            BY <3>1 DEF ChangesAreFromPredecessor, View
    <2>3. QED
        BY <2>1, <2>2
<1>3. ASSUME UNCHANGED <<storeVars, clock, events, monitoring, pc, ctxDone, local>>
      PROVE  ChangesAreFromPredecessor'
    BY <1>3 DEF ChangesAreFromPredecessor, View, Log, storeVars
<1>4. QED
    BY <1>1, <1>2, <1>3, CycleStepCases

\* One process by itself, restarted as often as may be and through every failure:
\* the changes saved with a snapshot are exactly its differences from the one
\* saved before it, provided fingerprints survive the database.
THEOREM ChangesAlwaysFromPredecessor ==
    ASSUME Alone, FaithfulPrints
    PROVE  CycleSpec => []ChangesAreFromPredecessor
<1>1. CycleInit => ChangesAreFromPredecessor
    <2> SUFFICES ASSUME CycleInit PROVE ChangesAreFromPredecessor
        OBVIOUS
    <2>1. Log = <<>>
        BY CycleAssumption DEF CycleAssumption, CycleInit, StoreInit, Log
    <2>2. QED
        BY <2>1 DEF ChangesAreFromPredecessor
<1>2. QED
    BY <1>1, CycleInvariant, AloneInvariant, FaithfulInvariant, PredecessorPreserved,
       PTL DEF CycleSpec

LEMMA RowNamesScanPreserved ==
    ASSUME CycleInv, StampInv, RowNamesScan, [CycleNext]_cycleVars
    PROVE  RowNamesScan'
<1>1. CycleTypeOK /\ Control /\ Budget
    BY DEF CycleInv
<1>2. ASSUME NEW p \in Procs, ProcessStep(p) PROVE RowNamesScan'
    <2>1. \A n \in DOMAIN Log : n \in DOMAIN Log' /\ Log'[n] = Log[n]
        BY <1>1, <1>2, LogGrows
    <2>2. \/ monitoring' = monitoring
          \/ monitoring'.last = 0
          \/ monitoring # NoRow /\ monitoring'.last = monitoring.last
          \/ UpdateStatus(p) /\ monitoring'.last = local[p].at
        <3>1. ASSUME NEW active, NEW last, SetMonitoringStatus(active, last)
              PROVE  \/ monitoring # NoRow /\ monitoring'.last = monitoring.last
                     \/ monitoring' = [active |-> active, last |-> last]
            BY <3>1 DEF SetMonitoringStatus
        <3>2. CASE Activate(p) \/ Deactivate(p)
            <4>1. \/ monitoring' = monitoring
                  \/ monitoring # NoRow /\ monitoring'.last = monitoring.last
                  \/ monitoring' = [active |-> TRUE, last |-> 0]
                  \/ monitoring' = [active |-> FALSE, last |-> 0]
                BY <3>1, <3>2 DEF Activate, Deactivate
            <4>2. CASE monitoring' = [active |-> TRUE, last |-> 0]
                       \/ monitoring' = [active |-> FALSE, last |-> 0]
                BY <4>2
            <4>3. QED
                BY <4>1, <4>2
        <3>3. CASE UpdateStatus(p)
            <4>1. SetMonitoringStatus(TRUE, local[p].at)
                BY <3>3 DEF UpdateStatus
            <4>2. CASE monitoring' = [active |-> TRUE, last |-> local[p].at]
                <5>1. monitoring'.last = local[p].at
                    BY <4>2
                <5>2. QED
                    BY <3>3, <5>1
            <4>3. QED
                BY <3>1, <4>1, <4>2
        <3>4. QED
            BY <1>2, <3>2, <3>3, MonitoringKept
    <2>3. CASE UpdateStatus(p) /\ monitoring'.last = local[p].at
        <3>1. PICK n \in DOMAIN Log : Log[n].at = local[p].at
            BY <2>3 DEF StampInv, StampedCycle, Stamped, UpdateStatus
        <3>2. QED
            BY <2>1, <2>3, <3>1 DEF RowNamesScan
    <2>4. QED
        BY <2>1, <2>2, <2>3 DEF RowNamesScan
<1>3. ASSUME UNCHANGED <<storeVars, clock, events, monitoring, pc, ctxDone, local>>
      PROVE  RowNamesScan'
    BY <1>3 DEF RowNamesScan, Log, storeVars
<1>4. QED
    BY <1>1, <1>2, <1>3, CycleStepCases

\* While a watch that has the database to itself waits, its row says it is active
\* and names the latest snapshot.
THEOREM MonitoringRowAlwaysTellsWatch ==
    ASSUME Alone
    PROVE  CycleSpec => []MonitoringRowTellsWatch
<1>1. CycleInit => RowNamesScan
    BY DEF CycleInit, RowNamesScan
<1>2. CycleInv /\ AloneInv /\ RowNamesScan => MonitoringRowTellsWatch
    <2> SUFFICES ASSUME CycleInv, AloneInv, NEW p \in Watchers, pc[p] = "wait"
                 PROVE  monitoring = [active |-> TRUE, last |-> LatestSnapshot(target).at]
        BY DEF MonitoringRowTellsWatch, RowNamesScan
    <2>1. p \in Procs
        BY CycleAssumption DEF CycleAssumption
    <2>2. Log # <<>> /\ monitoring = [active |-> TRUE, last |-> Latest.at]
        BY <2>1 DEF AloneInv, AloneOf
    <2>3. QED
        BY <2>2, LatestType DEF CycleInv
<1>3. QED
    BY <1>1, <1>2, CycleInvariant, StampInvariant, AloneInvariant, RowNamesScanPreserved,
       PTL DEF CycleSpec

\* A cycle about to be saved has hosts only where discovery sighted something, and
\* its time is later than any in the log.
Ready(p) ==
    pc[p] = "save" =>
        /\ \A ip \in IPs : local[p].hosts[ip] # Absent => local[p].sight[ip] # Absent
        /\ \A n \in DOMAIN Log : Log[n].at < local[p].at

ReadyInv == \A p \in Procs : Ready(p)

LEMMA ReadyPreserved ==
    ASSUME Alone, CycleInv, StampInv, ReadyInv, [CycleNext]_cycleVars
    PROVE  ReadyInv'
<1>1. CycleTypeOK /\ Control /\ Budget
    BY DEF CycleInv
<1>2. ASSUME NEW p \in Procs, ProcessStep(p) PROVE ReadyInv'
    <2>1. CASE Assemble(p)
        <3>1. local'[p].at = clock
            BY <1>1, <2>1, WorkAfter
        <3>2. local'[p].sight = local[p].sight
              /\ \A ip \in IPs : local'[p].hosts[ip] # Absent => local[p].sight[ip] # Absent
            <4>1. PICK hosts \in Hosts, changes \in SUBSET Change :
                    /\ local' = [local EXCEPT ![p] = [local[p] EXCEPT
                                    !.hosts = hosts, !.at = clock, !.changes = changes]]
                    /\ \E named \in SUBSET Present, inspected \in SUBSET Present :
                        hosts = [ip \in IPs |-> InventoryHost(p, ip, named, inspected)]
                BY <1>1, <2>1, AssembledHosts
            <4>2. local'[p] = [local[p] EXCEPT !.hosts = hosts, !.at = clock,
                                               !.changes = changes]
                BY <1>1, <4>1, LocalType DEF CycleTypeOK
            <4>3. local'[p].sight = local[p].sight /\ local'[p].hosts = hosts
                BY <1>1, <4>2, LocalType DEF Locals
            <4>4. \A ip \in IPs : hosts[ip] # Absent => local[p].sight[ip] # Absent
                BY <4>1 DEF InventoryHost
            <4>5. QED
                BY <4>3, <4>4
        <3>3. Log' = Log
            BY <2>1, <1>2, LogKept DEF Assemble, Save
        <3>4. \A n \in DOMAIN Log : Log[n].at < clock
            BY DEF StampInv, LogStamps
        <3>5. Ready(p)'
            BY <3>1, <3>2, <3>3, <3>4 DEF Ready
        <3>6. QED
            BY <3>5 DEF ReadyInv, Alone
    <2>2. CASE ~Assemble(p) /\ pc'[p] = "save"
        <3>1. ~Save(p) /\ pc[p] = "save" /\ local' = local
            <4>1. ~Save(p)
                BY <1>1, <2>2, WorkAfter
            <4>2. pc[p] = "save" /\ local' = local
                <5>1. ~UpdateStatus(p) /\ ~SaveEvents(p)
                    BY <1>1, <2>2, WorkAfter
                <5>2. QED
                    BY <1>1, <1>2, <2>2, <4>1, <5>1, Whereabouts
            <4>3. QED
                BY <4>1, <4>2
        <3>2. Log' = Log
            BY <1>2, <3>1, LogKept
        <3>3. Ready(p)'
            BY <3>1, <3>2 DEF ReadyInv, Ready
        <3>4. QED
            BY <3>3 DEF ReadyInv, Alone
    <2>3. CASE pc'[p] # "save"
        BY <2>3 DEF ReadyInv, Ready, Alone
    <2>4. QED
        BY <2>1, <2>2, <2>3
<1>3. ASSUME UNCHANGED <<storeVars, clock, events, monitoring, pc, ctxDone, local>>
      PROVE  ReadyInv'
    BY <1>3 DEF ReadyInv, Ready, Log, storeVars
<1>4. QED
    BY <1>1, <1>2, <1>3, CycleStepCases

\* What a snapshot does to the last_seen of an asset, the step of
\* LastSeenNeedsSighting.
LastSeenMoves(k) ==
    LET was == assets[target][k]
        now == assets'[target][k]
    IN  now # NoRow /\ (was = NoRow \/ was.last # now.last) =>
        /\ \E p \in Procs : pc[p] = "save" /\ local[p].sight[now.ip] # Absent
        /\ was # NoRow => was.last < now.last

LEMMA SaveMovesLastSeen ==
    ASSUME CycleInv, ReadyInv, NEW p \in Procs, Save(p), NEW k \in Identities
    PROVE  LastSeenMoves(k)
<1> DEFINE hosts   == local[p].hosts
           at      == local[p].at
           holders == Holders(hosts, k)
           was     == assets[target][k]
           now     == assets'[target][k]
<1>1. CycleTypeOK /\ Control /\ DigestInv
    BY DEF CycleInv
<1>2. /\ TypeOK /\ target \in Targets
      /\ now = AssetAfter(was, hosts, k, at)
      /\ was \in AssetRow \cup {NoRow}
    BY <1>1, SaveTypes, SaveSnapshotEffect DEF CycleTypeOK, TypeOK
<1>3. CASE holders = {}
    <2>1. was = NoRow => now = NoRow
        BY <1>2, <1>3 DEF AssetAfter
    <2>2. was # NoRow => now = Missed(was)
        BY <1>2, <1>3 DEF AssetAfter
    <2>3. was # NoRow => Missed(was).last = was.last
        BY <1>2 DEF Missed, AssetRow
    <2>4. QED
        BY <2>1, <2>2, <2>3 DEF LastSeenMoves
<1>4. CASE holders # {}
    <2>1. now.ip = LastOf(holders) /\ now.last = at
        <3>1. CASE was = NoRow
            BY <1>2, <1>4, <3>1 DEF AssetAfter, Inserted
        <3>2. CASE was # NoRow
            BY <1>2, <1>4, <3>2 DEF AssetAfter, Updated
        <3>3. QED
            BY <3>1, <3>2
    <2>2. LastOf(holders) \in holders
        <3>1. holders \in SUBSET IPs
            BY DEF Holders
        <3>2. QED
            BY <1>4, <3>1, LastOfHolders DEF IsLast
    <2>3. pc[p] = "save" /\ local[p].sight[now.ip] # Absent
        BY <2>1, <2>2 DEF Save, ReadyInv, Ready, Holders
    <2>4. ASSUME was # NoRow PROVE was.last < now.last
        <3> DEFINE seen == Sightings(target, k)
        <3>1. Digest(target, k)
            BY <1>1, <1>2 DEF DigestInv, AssetsDigestLog, Digest
        <3>2. Len(Log) \in Nat /\ DOMAIN Log = 1..Len(Log) /\ Log = scans[target]
            BY <1>1, SaveAppends DEF Log
        <3>3. seen \subseteq 1..Len(Log) /\ seen # {}
            BY <2>4, <3>1, <3>2 DEF Digest, Sightings
        <3>4. PICK n \in seen : \A m \in seen : m <= n
            <4>1. seen \in SUBSET Nat /\ IsFiniteSet(seen)
                <5>1. IsFiniteSet(1..Len(Log)) /\ 1..Len(Log) \subseteq Nat
                    BY <3>2, FS_Interval
                <5>2. QED
                    BY <3>3, <5>1, FS_Subset
            <4>2. QED
                BY <3>3, <4>1, FiniteSetHasMax
        <3>5. was.last = Log[n].at
            BY <3>1, <3>2, <3>4 DEF Digest, IsLastSighting
        <3>6. Log[n].at < at
            BY <3>2, <3>3, <3>4 DEF Save, ReadyInv, Ready
        <3>7. QED
            BY <2>1, <3>5, <3>6
    <2>5. QED
        BY <2>3, <2>4 DEF LastSeenMoves
<1>5. QED
    BY <1>3, <1>4

\* One process by itself: last_seen of an asset moves only with a scan whose
\* discovery sighted the address the row then has, and only forward.
THEOREM LastSeenAlwaysNeedsSighting ==
    ASSUME Alone
    PROVE  CycleSpec => LastSeenNeedsSighting
<1>1. CycleInit => ReadyInv
    BY DEF CycleInit, ReadyInv, Ready
<1>2. CycleInv /\ ReadyInv /\ [CycleNext]_cycleVars
        => [\A k \in Identities : LastSeenMoves(k)]_cycleVars
    <2> SUFFICES ASSUME CycleInv, ReadyInv, [CycleNext]_cycleVars, NEW k \in Identities
                 PROVE  LastSeenMoves(k)
        OBVIOUS
    <2>1. ASSUME assets' = assets PROVE LastSeenMoves(k)
        BY <2>1 DEF LastSeenMoves
    <2>2. ASSUME NEW p \in Procs, ProcessStep(p) PROVE LastSeenMoves(k)
        BY <2>1, <2>2, SaveMovesLastSeen, TablesKept DEF storeVars
    <2>3. QED
        BY <2>1, <2>2, CycleStepCases DEF storeVars, CycleInv
<1>3. LastSeenNeedsSighting <=> [][\A k \in Identities : LastSeenMoves(k)]_cycleVars
    BY DEF LastSeenNeedsSighting, LastSeenMoves
<1>4. QED
    BY <1>1, <1>2, <1>3, CycleInvariant, StampInvariant, ReadyPreserved,
       PTL DEF CycleSpec

-----------------------------------------------------------------------------
(* What a reader of the events rebuilds *)

\* What one batch does to the exposure a reader has so far.
ReadBatch(batch, baseline, told) ==
    IF batch.at > baseline THEN Replay(told, batch.changes) ELSE told

\* h tells, after each of the first N batches of s, what the reader has.
Telling(h, s, N, baseline, exposure) ==
    h = [n \in 0..N |-> IF n = 0 THEN exposure ELSE ReadBatch(s[n], baseline, h[n - 1])]

LEMMA TellingExists ==
    ASSUME NEW N \in Nat, NEW s, NEW b, NEW e
    PROVE  \E h : Telling(h, s, N, b, e)
<1> DEFINE W == {n \in 0..N : \E h : Telling(h, s, n, b, e)}
<1>1. 0 \in W
    <2>1. Telling([n \in 0..0 |-> e], s, 0, b, e)
        BY DEF Telling
    <2>2. QED
        BY <2>1
<1>2. ASSUME NEW m \in W, m < N PROVE m + 1 \in W
    <2>1. PICK h : Telling(h, s, m, b, e)
        OBVIOUS
    <2> DEFINE next == ReadBatch(s[m + 1], b, h[m])
               g == [n \in 0..(m + 1) |-> IF n = m + 1 THEN next ELSE h[n]]
    <2>2. m \in Nat /\ m + 1 \in 0..N /\ \A n \in 0..(m + 1) : n # m + 1 => n \in 0..m
        <3>1. m \in 0..N
            OBVIOUS
        <3> HIDE DEF W
        <3>2. QED
            BY <1>2, <3>1
    <2>3. \A n \in 0..m : h[n] = IF n = 0 THEN e ELSE ReadBatch(s[n], b, h[n - 1])
        BY <2>1 DEF Telling
    <2>4. ASSUME NEW n \in 0..(m + 1)
          PROVE  g[n] = IF n = 0 THEN e ELSE ReadBatch(s[n], b, g[n - 1])
        <3>1. CASE n = m + 1
            <4>1. n # 0 /\ n - 1 = m /\ m \in 0..(m + 1) /\ m # m + 1
                BY <2>2, <3>1
            <4>2. g[n] = next /\ g[n - 1] = h[m]
                BY <3>1, <4>1
            <4>3. QED
                BY <3>1, <4>1, <4>2
        <3>2. CASE n # m + 1
            <4>1. n \in 0..m /\ (n # 0 => n - 1 \in 0..(m + 1) /\ n - 1 # m + 1)
                BY <2>2, <3>2
            <4>2. g[n] = h[n] /\ (n # 0 => g[n - 1] = h[n - 1])
                BY <3>2, <4>1
            <4>3. QED
                BY <2>3, <4>1, <4>2
        <3>3. QED
            BY <3>1, <3>2
    <2>5. g = [n \in 0..(m + 1) |-> g[n]]
        OBVIOUS
    <2> HIDE DEF g
    <2>6. Telling(g, s, m + 1, b, e)
        BY <2>4, <2>5 DEF Telling
    <2>7. QED
        BY <2>2, <2>6
<1> HIDE DEF W
<1>3. N \in W
    <2>1. W \in SUBSET (0..N)
        BY DEF W
    <2>2. QED
        BY <1>1, <1>2, <2>1, CountUp
<1>4. QED
    BY <1>3 DEF W

\* Two readers of batches that agree, one by one, are told the same.
LEMMA TellingsAgree ==
    ASSUME NEW N \in Nat, NEW M \in Nat, NEW s, NEW r, NEW b, NEW e, NEW h, NEW g,
           Telling(h, s, N, b, e), Telling(g, r, M, b, e), N <= M,
           \A n \in 1..N : s[n] = r[n]
    PROVE  h[N] = g[N]
<1> DEFINE W == {n \in 0..N : h[n] = g[n]}
<1>1. /\ \A n \in 0..N : h[n] = IF n = 0 THEN e ELSE ReadBatch(s[n], b, h[n - 1])
      /\ \A n \in 0..M : g[n] = IF n = 0 THEN e ELSE ReadBatch(r[n], b, g[n - 1])
    BY DEF Telling
<1>2. 0 \in W
    BY <1>1
<1>3. ASSUME NEW m \in W, m < N PROVE m + 1 \in W
    <2>1. /\ m + 1 \in 0..N /\ m + 1 \in 0..M /\ m + 1 \in 1..N /\ m + 1 # 0
          /\ (m + 1) - 1 = m
        BY <1>3
    <2>2. h[m + 1] = ReadBatch(s[m + 1], b, h[m])
        BY <1>1, <2>1
    <2>3. g[m + 1] = ReadBatch(r[m + 1], b, g[m])
        BY <1>1, <2>1
    <2>4. h[m] = g[m] /\ s[m + 1] = r[m + 1]
        BY <2>1
    <2>5. QED
        BY <2>1, <2>2, <2>3, <2>4
<1> HIDE DEF W
<1>4. N \in W
    <2>1. W \in SUBSET (0..N)
        BY DEF W
    <2>2. QED
        BY <1>2, <1>3, <2>1, CountUp
<1>5. QED
    BY <1>4 DEF W

\* What a reader of the first N batches of s has in the end.
Told(s, N, baseline, exposure) == (CHOOSE h : Telling(h, s, N, baseline, exposure))[N]

LEMMA ToldIs ==
    ASSUME NEW N \in Nat, NEW s, NEW b, NEW e
    PROVE  \E h : Telling(h, s, N, b, e) /\ Told(s, N, b, e) = h[N]
BY TellingExists DEF Told

LEMMA RebuiltIsTold ==
    ASSUME NEW b, NEW e
    PROVE  /\ Rebuilt(b, e) = Told(events, Len(events), b, e)
           /\ Rebuilt(b, e)' = Told(events', Len(events'), b, e)
<1> DEFINE Eq(h, s) == h = [n \in 0..Len(s) |->
                IF n = 0 THEN e
                ELSE IF s[n].at > b THEN Replay(h[n - 1], s[n].changes)
                ELSE h[n - 1]]
<1>1. \A h, s : Eq(h, s) <=> Telling(h, s, Len(s), b, e)
    BY DEF Telling, ReadBatch
<1>2. /\ Rebuilt(b, e) = (CHOOSE h : Eq(h, events))[Len(events)]
      /\ Rebuilt(b, e)' = (CHOOSE h : Eq(h, events'))[Len(events')]
    BY DEF Rebuilt
<1> HIDE DEF Eq
<1>3. \A s : (CHOOSE h : Eq(h, s)) = CHOOSE h : Telling(h, s, Len(s), b, e)
    BY <1>1
<1>4. QED
    BY <1>2, <1>3 DEF Told

\* One more batch is one more step of the reader.
LEMMA ToldOneMore ==
    ASSUME NEW N \in Nat, NEW s, NEW r, NEW b, NEW e, \A n \in 1..N : s[n] = r[n]
    PROVE  Told(r, N + 1, b, e) = ReadBatch(r[N + 1], b, Told(s, N, b, e))
<1>1. PICK h : Telling(h, s, N, b, e) /\ Told(s, N, b, e) = h[N]
    BY ToldIs
<1>2. N + 1 \in Nat /\ N <= N + 1 /\ N + 1 \in 0..(N + 1) /\ N + 1 # 0 /\ (N + 1) - 1 = N
    OBVIOUS
<1>3. PICK g : Telling(g, r, N + 1, b, e) /\ Told(r, N + 1, b, e) = g[N + 1]
    BY <1>2, ToldIs
<1>4. h[N] = g[N]
    BY <1>1, <1>2, <1>3, TellingsAgree
<1>5. g[N + 1] = ReadBatch(r[N + 1], b, g[N])
    BY <1>2, <1>3 DEF Telling
<1>6. QED
    BY <1>1, <1>3, <1>4, <1>5

\* Batches no later than the baseline tell the reader nothing.
LEMMA ToldNothing ==
    ASSUME NEW N \in Nat, NEW s, NEW b, NEW e, \A n \in 1..N : ~(s[n].at > b)
    PROVE  Told(s, N, b, e) = e
<1>1. PICK h : Telling(h, s, N, b, e) /\ Told(s, N, b, e) = h[N]
    BY ToldIs
<1> DEFINE W == {n \in 0..N : h[n] = e}
<1>2. \A n \in 0..N : h[n] = IF n = 0 THEN e ELSE ReadBatch(s[n], b, h[n - 1])
    BY <1>1 DEF Telling
<1>3. 0 \in W
    BY <1>2
<1>4. ASSUME NEW m \in W, m < N PROVE m + 1 \in W
    <2>1. m + 1 \in 0..N /\ m + 1 \in 1..N /\ m + 1 # 0 /\ (m + 1) - 1 = m
        BY <1>4
    <2>2. h[m + 1] = ReadBatch(s[m + 1], b, h[m])
        BY <1>2, <2>1
    <2>3. ReadBatch(s[m + 1], b, h[m]) = h[m]
        BY <2>1 DEF ReadBatch
    <2>4. QED
        BY <2>1, <2>2, <2>3
<1> HIDE DEF W
<1>5. N \in W
    <2>1. W \in SUBSET (0..N)
        BY DEF W
    <2>2. QED
        BY <1>3, <1>4, <2>1, CountUp
<1>6. QED
    BY <1>1, <1>5 DEF W

-----------------------------------------------------------------------------
(* The event log explains the network as it was last seen *)

\* Which hosts a snapshot has and which of their ports are open.
Shown(hosts) == Exposure(View(hosts))

LatestIsLast == \A n \in DOMAIN Log : Log[n].at <= Latest.at

\* What a watch knows of the event log: until its cycle is saved, the log explains
\* the latest snapshot; from then on it does with the changes about to be recorded.
Explained(p) ==
    LET baseline == local[p].baseline
    IN  /\ pc[p] \in {"off", "activate"} => baseline = 0
        /\ pc[p] \notin {"off", "activate", "deactivate"} /\ baseline # 0 =>
            \E b \in DOMAIN Log :
                /\ Log[b].at = baseline
                /\ pc[p] \notin {"status", "events"} =>
                    Rebuilt(baseline, Shown(Log[b].hosts)) = Shown(Latest.hosts)
                /\ pc[p] \in {"status", "events"} =>
                    /\ local[p].at > baseline
                    /\ Replay(Rebuilt(baseline, Shown(Log[b].hosts)), local[p].changes)
                        = Shown(Latest.hosts)
                    /\ local[p].changes = {} =>
                        Rebuilt(baseline, Shown(Log[b].hosts)) = Shown(Latest.hosts)

ExplainInv == LatestIsLast /\ \A p \in Watchers : Explained(p)

\* The database changes fingerprints, never which ports are open.
LEMMA StoredShowsSame ==
    ASSUME NEW hosts \in Hosts
    PROVE  Shown(Stored(hosts)) = Shown(hosts)
<1> SUFFICES ASSUME NEW ip \in IPs
             PROVE  Shown(Stored(hosts))[ip] = Shown(hosts)[ip]
    BY DEF Shown, Exposure
<1>1. /\ Shown(hosts)[ip] = IF View(hosts)[ip] = Absent THEN Absent
                             ELSE OpenPorts(View(hosts)[ip])
      /\ Shown(Stored(hosts))[ip] = IF View(Stored(hosts))[ip] = Absent THEN Absent
                                     ELSE OpenPorts(View(Stored(hosts))[ip])
    BY DEF Shown, Exposure
<1>2. CASE hosts[ip] = Absent
    <2>1. Stored(hosts)[ip] = Absent
        BY <1>2 DEF Stored
    <2>2. View(hosts)[ip] = Absent /\ View(Stored(hosts))[ip] = Absent
        BY <1>2, <2>1 DEF View
    <2>3. QED
        BY <1>1, <2>2
<1>3. CASE hosts[ip] # Absent
    <2> DEFINE host == hosts[ip]
    <2>1. host \in Host /\ host.svc \in Services
        BY <1>3 DEF Hosts, Host
    <2>2. Stored(hosts)[ip] = [host EXCEPT !.svc = Persisted(host.svc)]
        BY <1>3 DEF Stored
    <2> HIDE DEF host
    <2>3. /\ [host EXCEPT !.svc = Persisted(host.svc)] \in Host
          /\ [host EXCEPT !.svc = Persisted(host.svc)].svc = Persisted(host.svc)
          /\ Persisted(host.svc) \in Services
        BY <2>1, PrintAssumption DEF Host, Persisted, Services, PrintAssumption
    <2>4. View(hosts)[ip] = host.svc /\ View(Stored(hosts))[ip] = Persisted(host.svc)
        BY <1>3, <2>2, <2>3, StoreAssumption DEF View, StoreAssumption, host
    <2>5. OpenPorts(Persisted(host.svc)) = OpenPorts(host.svc)
        BY <2>1, PrintAssumption DEF OpenPorts, Persisted, Services, PrintAssumption
    <2>6. host.svc # Absent /\ Persisted(host.svc) # Absent
        BY <2>1, <2>3, AbsentAssumption
    <2>7. QED
        BY <1>1, <2>4, <2>5, <2>6
<1>4. QED
    BY <1>2, <1>3

\* With no change between two snapshots a reader need not be told anything.
LEMMA ChangesTellShown ==
    ASSUME NEW was \in Hosts, NEW now \in Hosts
    PROVE  /\ Replay(Shown(was), Compare(View(was), View(now))) = Shown(now)
           /\ Compare(View(was), View(now)) = {} => Shown(was) = Shown(now)
<1>1. View(was) \in Views /\ View(now) \in Views
    BY ViewType
<1>2. QED
    BY <1>1, ReplayRebuildsExposure, NoChangeMeansSameView DEF Shown

\* What is rebuilt depends on the table of events alone.
LEMMA RebuiltKept ==
    ASSUME events' = events, NEW b, NEW e
    PROVE  Rebuilt(b, e)' = Rebuilt(b, e)
BY DEF Rebuilt

\* One more batch of events is one more step of the reader.
LEMMA RebuiltOneMore ==
    ASSUME CycleTypeOK, NEW batch \in [at : Times, changes : SUBSET Change],
           events' = Append(events, batch), NEW b, NEW e
    PROVE  Rebuilt(b, e)' = ReadBatch(batch, b, Rebuilt(b, e))
<1> DEFINE Batches == [at : Times, changes : SUBSET Change]
<1>1. events \in Seq(Batches) /\ batch \in Batches
    BY DEF CycleTypeOK
<1> HIDE DEF Batches
<1>2. PICK s : s = events
    OBVIOUS
<1>3. PICK r : r = events'
    OBVIOUS
<1>4. /\ Len(s) \in Nat /\ Len(r) = Len(s) + 1
      /\ \A n \in 1..Len(s) : s[n] = r[n]
      /\ r[Len(s) + 1] = batch
    BY <1>1, <1>2, <1>3, AppendProperties, LenProperties
<1>5. Rebuilt(b, e) = Told(s, Len(s), b, e)
    BY <1>2, RebuiltIsTold
<1>6. Rebuilt(b, e)' = Told(r, Len(r), b, e)
    <2>1. Rebuilt(b, e)' = Told(events', Len(events'), b, e)
        BY RebuiltIsTold
    <2>2. QED
        BY <1>3, <2>1
<1>7. Told(r, Len(s) + 1, b, e) = ReadBatch(r[Len(s) + 1], b, Told(s, Len(s), b, e))
    BY <1>4, ToldOneMore
<1>8. QED
    BY <1>4, <1>5, <1>6, <1>7

\* Events no later than the baseline tell its reader nothing.
LEMMA RebuiltNothing ==
    ASSUME CycleTypeOK, NEW b, NEW e, \A n \in DOMAIN events : ~(events[n].at > b)
    PROVE  Rebuilt(b, e) = e
<1>1. events \in Seq([at : Times, changes : SUBSET Change])
    BY DEF CycleTypeOK
<1>2. Len(events) \in Nat /\ DOMAIN events = 1..Len(events)
    BY <1>1, LenProperties
<1>3. PICK s : s = events
    OBVIOUS
<1>4. Told(s, Len(s), b, e) = e
    BY <1>2, <1>3, ToldNothing
<1>5. QED
    BY <1>3, <1>4, RebuiltIsTold

\* The log, its times and its hosts.
LEMMA LatestHosts ==
    ASSUME CycleTypeOK
    PROVE  /\ Log \in Seq(Scan) /\ Len(Log) \in Nat /\ DOMAIN Log = 1..Len(Log)
           /\ \A n \in DOMAIN Log : Log[n].at \in Times /\ Log[n].hosts \in Hosts
           /\ Times \subseteq Nat /\ 0 \notin Times
<1>1. Log \in Seq(Scan)
    BY CycleAssumption DEF CycleAssumption, CycleTypeOK, TypeOK, Log
<1>2. Len(Log) \in Nat /\ DOMAIN Log = 1..Len(Log) /\ \A n \in DOMAIN Log : Log[n] \in Scan
    BY <1>1, ElementOfSeq, LenProperties
<1>3. \A n \in DOMAIN Log : Log[n].at \in Times /\ Log[n].hosts \in Hosts
    BY <1>2 DEF Scan, Hosts
<1>4. Times \subseteq Nat /\ 0 \notin Times
    BY CycleAssumption, StoreAssumption DEF CycleAssumption, StoreAssumption
<1>5. QED
    BY <1>1, <1>2, <1>3, <1>4

\* A snapshot saved by the only process there is: what its cycle compared it with is
\* the snapshot the events explained so far.
LEMMA ExplainAfterSave ==
    ASSUME CycleTypeOK, Budget, Control, AloneInv, ReadyInv, ExplainInv,
           NEW p \in Procs, Save(p)
    PROVE  LatestIsLast' /\ (p \in Watchers => Explained(p)')
<1> DEFINE last == Len(Log) + 1
           scan == [at |-> local[p].at, hosts |-> Stored(local[p].hosts),
                    changes |-> local[p].changes]
<1>1. /\ Len(Log) \in Nat /\ Len(Log') = last /\ DOMAIN Log = 1..Len(Log)
      /\ DOMAIN Log' = 1..last
      /\ \A n \in 1..Len(Log) : Log'[n] = Log[n]
      /\ Log'[last] = scan
    BY SaveAppends
<1>2. scan.at = local[p].at /\ scan.hosts = Stored(local[p].hosts)
    OBVIOUS
<1> HIDE DEF scan
<1>3. Latest'.at = local[p].at /\ Latest'.hosts = Stored(local[p].hosts)
    BY <1>1, <1>2 DEF Latest
<1>4. pc[p] = "save" /\ local[p].hosts \in Hosts
      /\ \A n \in DOMAIN Log : Log[n].at < local[p].at
    BY SaveTypes DEF Save, ReadyInv, Ready
<1>5. LatestIsLast'
    <2>1. ASSUME NEW n \in DOMAIN Log' PROVE Log'[n].at <= local[p].at
        <3>1. CASE n = last
            <4>1. local[p].at \in Times
                BY SaveTypes
            <4>2. QED
                BY <1>1, <1>2, <3>1, <4>1, LatestHosts
        <3>2. CASE n # last
            <4>1. n \in DOMAIN Log /\ Log'[n] = Log[n]
                BY <1>1, <3>2
            <4>2. Log[n].at < local[p].at /\ Log[n].at \in Nat /\ local[p].at \in Nat
                BY <1>4, <4>1, LatestHosts, SaveTypes
            <4>3. QED
                BY <4>1, <4>2
        <3>3. QED
            BY <3>1, <3>2
    <2>2. QED
        BY <1>3, <2>1 DEF LatestIsLast
<1>6. ASSUME p \in Watchers PROVE Explained(p)'
    <2>1. /\ pc'[p] = "status" /\ local'[p].baseline = local[p].baseline
          /\ local'[p].at = local[p].at /\ local'[p].changes = local[p].changes
        BY <1>6, WorkAfter
    <2>2. SUFFICES ASSUME local[p].baseline # 0
                   PROVE  \E b \in DOMAIN Log' :
                            /\ Log'[b].at = local'[p].baseline
                            /\ local'[p].at > local'[p].baseline
                            /\ Replay(Rebuilt(local[p].baseline, Shown(Log[b].hosts))',
                                      local'[p].changes) = Shown(Latest.hosts)'
                            /\ local'[p].changes = {} =>
                                Rebuilt(local[p].baseline, Shown(Log[b].hosts))'
                                    = Shown(Latest.hosts)'
        BY <2>1 DEF Explained
    <2>3. PICK b \in DOMAIN Log :
            /\ Log[b].at = local[p].baseline
            /\ Rebuilt(local[p].baseline, Shown(Log[b].hosts)) = Shown(Latest.hosts)
        BY <1>4, <1>6, <2>2 DEF ExplainInv, Explained
    <2>4. Log # <<>> /\ Latest.hosts \in Hosts
        BY <1>1, <2>3, LatestHosts, LatestType, EmptySeq DEF Latest
    <2>5. local[p].changes = Compare(View(Latest.hosts), View(local[p].hosts))
        BY <1>4, <2>4 DEF AloneInv, AloneOf
    <2>6. Shown(Latest.hosts)' = Shown(local[p].hosts)
        <3>1. Shown(Latest.hosts)' = Shown(Stored(local[p].hosts))
            BY <1>3 DEF Shown, View, Exposure
        <3>2. QED
            BY <1>4, <3>1, StoredShowsSame
    <2>7. /\ Replay(Shown(Latest.hosts), local[p].changes) = Shown(Latest.hosts)'
          /\ local[p].changes = {} => Shown(Latest.hosts) = Shown(Latest.hosts)'
        BY <1>4, <2>4, <2>5, <2>6, ChangesTellShown
    <2>8. Rebuilt(local[p].baseline, Shown(Log[b].hosts))' = Shown(Latest.hosts)
        <3>1. PICK base : base = local[p].baseline
            OBVIOUS
        <3>2. PICK shown : shown = Shown(Log[b].hosts)
            OBVIOUS
        <3>3. local'[p].baseline = base /\ shown = Shown(Log[b].hosts)'
            BY <1>1, <2>1, <3>1, <3>2 DEF Shown, View, Exposure
        <3>4. Rebuilt(base, shown)' = Rebuilt(base, shown)
            BY RebuiltKept DEF Save
        <3>5. Rebuilt(base, shown) = Rebuilt(local[p].baseline, Shown(Log[b].hosts))
            BY <3>1, <3>2
        <3>6. Rebuilt(base, shown)' = Rebuilt(local[p].baseline, Shown(Log[b].hosts))'
            BY <3>3 DEF Rebuilt
        <3>7. QED
            BY <2>3, <3>4, <3>5, <3>6
    <2>9. b \in DOMAIN Log' /\ Log'[b] = Log[b]
        BY <1>1, <2>3
    <2>10. local[p].at > local[p].baseline
        BY <1>4, <2>3, LatestHosts, SaveTypes
    <2>11. QED
        BY <2>1, <2>3, <2>7, <2>8, <2>9, <2>10
<1>7. QED
    BY <1>5, <1>6

\* The first cycle of a watch: what it saved is its baseline, and no event is later.
LEMMA ExplainAfterBaseline ==
    ASSUME CycleTypeOK, Budget, Control, StampInv, AloneInv, ExplainInv,
           NEW p \in Watchers, UpdateStatus(p), local[p].baseline = 0
    PROVE  Explained(p)'
<1>1. p \in Procs /\ ProcessStep(p) /\ pc[p] = "status"
    BY CycleAssumption DEF CycleAssumption, ProcessStep, Advance, UpdateStatus
<1>2. pc'[p] = "wait" /\ local'[p].baseline = local[p].at
    BY <1>1, WorkAfter
<1>3. Log' = Log /\ events' = events /\ Latest' = Latest
    BY DEF UpdateStatus, storeVars, Log, Latest
<1>4. Log # <<>> /\ local[p].at = Latest.at
    BY <1>1 DEF AloneInv, AloneOf
<1>5. Len(Log) \in DOMAIN Log /\ Latest = Log[Len(Log)]
    BY <1>4, LatestType DEF Latest
<1>6. PICK base : base = local[p].at
    OBVIOUS
<1>7. PICK shown : shown = Shown(Latest.hosts)
    OBVIOUS
<1>8. Rebuilt(base, shown) = shown
    <2>1. ASSUME NEW e \in DOMAIN events PROVE ~(events[e].at > base)
        <3>1. PICK n \in DOMAIN Log : Log[n].at = events[e].at
            BY DEF StampInv, EventsReportCommittedChanges
        <3>2. Log[n].at <= Latest.at /\ Log[n].at \in Nat /\ Latest.at \in Nat
            BY <1>5, LatestHosts DEF ExplainInv, LatestIsLast
        <3>3. QED
            BY <1>4, <1>6, <3>1, <3>2
    <2>2. QED
        BY <2>1, RebuiltNothing
<1>9. Rebuilt(base, shown)' = shown
    BY <1>3, <1>8, RebuiltKept
<1>10. Log'[Len(Log)].at = local'[p].baseline /\ Len(Log) \in DOMAIN Log'
    BY <1>2, <1>3, <1>4, <1>5
<1>11. Rebuilt(local[p].baseline, Shown(Log[Len(Log)].hosts))' = Shown(Latest.hosts)'
    <2>1. local'[p].baseline = base
        BY <1>2, <1>6
    <2>2. shown = Shown(Latest.hosts)' /\ Log'[Len(Log')] = Latest'
        BY <1>3, <1>5, <1>7 DEF Shown, View, Exposure
    <2>3. Shown(Log[Len(Log)].hosts)' = shown
        BY <2>2 DEF Shown, View, Exposure
    <2>4. QED
        BY <1>9, <2>1, <2>2, <2>3 DEF Rebuilt
<1>12. QED
    BY <1>2, <1>3, <1>10, <1>11 DEF Explained

\* The changes of a later cycle become one batch of events, or there are none.
LEMMA ExplainAfterEvents ==
    ASSUME CycleTypeOK, Budget, Control, ExplainInv,
           NEW p \in Watchers, SaveEvents(p)
    PROVE  Explained(p)'
<1>1. p \in Procs /\ ProcessStep(p) /\ pc[p] = "events"
    BY CycleAssumption DEF CycleAssumption, ProcessStep, Advance, SaveEvents
<1>2. /\ pc'[p] = "wait" /\ local'[p].baseline = local[p].baseline
      /\ Log' = Log /\ Latest' = Latest
    BY <1>1, WorkAfter DEF SaveEvents, storeVars, Log, Latest
<1>3. local[p].baseline # 0
    BY <1>1 DEF Control
<1>4. PICK b \in DOMAIN Log :
        /\ Log[b].at = local[p].baseline
        /\ local[p].at > local[p].baseline
        /\ Replay(Rebuilt(local[p].baseline, Shown(Log[b].hosts)), local[p].changes)
            = Shown(Latest.hosts)
        /\ local[p].changes = {} =>
            Rebuilt(local[p].baseline, Shown(Log[b].hosts)) = Shown(Latest.hosts)
    BY <1>1, <1>3 DEF ExplainInv, Explained
<1>5. PICK base : base = local[p].baseline
    OBVIOUS
<1>6. PICK shown : shown = Shown(Log[b].hosts)
    OBVIOUS
<1>7. Rebuilt(base, shown)' = Shown(Latest.hosts)
    <2>1. /\ Replay(Rebuilt(base, shown), local[p].changes) = Shown(Latest.hosts)
          /\ local[p].changes = {} => Rebuilt(base, shown) = Shown(Latest.hosts)
        BY <1>4, <1>5, <1>6
    <2>2. CASE local[p].changes = {}
        <3>1. events' = events
            BY <2>2 DEF SaveEvents
        <3>2. QED
            BY <2>1, <2>2, <3>1, RebuiltKept
    <2>3. CASE local[p].changes # {}
        <3>1. PICK batch : batch = EventsFromChanges(local[p].at, local[p].changes)
            OBVIOUS
        <3>2. batch \in [at : Times, changes : SUBSET Change]
              /\ batch.at = local[p].at /\ batch.changes = local[p].changes
            BY <1>1, <3>1, LocalType DEF EventsFromChanges, Control, Locals
        <3>3. events' = Append(events, batch)
            BY <2>3, <3>1 DEF SaveEvents
        <3>4. Rebuilt(base, shown)' = ReadBatch(batch, base, Rebuilt(base, shown))
            BY <3>2, <3>3, RebuiltOneMore
        <3>5. batch.at > base
            BY <1>4, <1>5, <3>2
        <3>6. QED
            BY <2>1, <3>2, <3>4, <3>5 DEF ReadBatch
    <2>4. QED
        BY <2>2, <2>3
<1>8. Rebuilt(local[p].baseline, Shown(Log[b].hosts))' = Shown(Latest.hosts)'
    <2>1. local'[p].baseline = base
        BY <1>2, <1>5
    <2>2. Shown(Log[b].hosts)' = shown /\ Shown(Latest.hosts)' = Shown(Latest.hosts)
        BY <1>2, <1>6 DEF Shown, View, Exposure
    <2>3. QED
        BY <1>7, <2>1, <2>2 DEF Rebuilt
<1>9. b \in DOMAIN Log' /\ Log'[b].at = local'[p].baseline
    BY <1>2, <1>4
<1>10. QED
    BY <1>2, <1>8, <1>9 DEF Explained

\* Every other step keeps what the log explains, or leaves it behind.
LEMMA ExplainAfterOther ==
    ASSUME CycleTypeOK, Budget, Control, ExplainInv,
           NEW p \in Watchers, ProcessStep(p), ~Save(p), ~SaveEvents(p),
           ~(UpdateStatus(p) /\ local[p].baseline = 0)
    PROVE  Explained(p)'
<1>1. p \in Procs
    BY CycleAssumption DEF CycleAssumption
<1>2. Log' = Log /\ events' = events /\ Latest' = Latest
    BY <1>1, LogKept, EventsKept DEF Latest
<1>3. CASE pc'[p] = "off" /\ local'[p] = Fresh
    BY <1>3, FreshType DEF Explained
<1>4. CASE ~(pc'[p] = "off" /\ local'[p] = Fresh)
    <2>1. local'[p].baseline = local[p].baseline
        <3>1. CASE Assemble(p) \/ UpdateStatus(p)
            BY <1>1, <3>1, WorkAfter
        <3>2. CASE ~Assemble(p) /\ ~UpdateStatus(p)
            BY <1>1, <1>4, <3>2, CarriedOver DEF SameWork
        <3>3. QED
            BY <3>1, <3>2
    <2>2. pc'[p] \in {"off", "activate"} => pc[p] \in {"off", "activate"}
        BY <1>1, <1>4, Whereabouts
    <2>3. CASE pc'[p] \in {"off", "activate"}
        BY <2>1, <2>2, <2>3 DEF ExplainInv, Explained
    <2>4. CASE pc'[p] \notin {"off", "activate"}
        <3> SUFFICES ASSUME pc'[p] # "deactivate", local[p].baseline # 0
                     PROVE  Explained(p)'
            BY <2>1, <2>4 DEF Explained
        <3>1. Explained(p) /\ pc[p] \notin {"off", "activate"}
            BY DEF ExplainInv, Explained
        <3>2. pc[p] # "deactivate"
            BY <1>1, <1>4, <2>4, Whereabouts
        <3>3. pc'[p] \in {"status", "events"} =>
                local' = local /\ pc[p] \in {"status", "events"}
            BY <1>1, Whereabouts
        <3>4. pc'[p] \notin {"status", "events"} => pc[p] \notin {"status", "events"}
            BY <1>1, <1>4, <2>4, Whereabouts
        <3>5. PICK b \in DOMAIN Log :
                /\ Log[b].at = local[p].baseline
                /\ pc[p] \notin {"status", "events"} =>
                    Rebuilt(local[p].baseline, Shown(Log[b].hosts)) = Shown(Latest.hosts)
                /\ pc[p] \in {"status", "events"} =>
                    /\ local[p].at > local[p].baseline
                    /\ Replay(Rebuilt(local[p].baseline, Shown(Log[b].hosts)), local[p].changes)
                        = Shown(Latest.hosts)
                    /\ local[p].changes = {} =>
                        Rebuilt(local[p].baseline, Shown(Log[b].hosts)) = Shown(Latest.hosts)
            BY <3>1, <3>2 DEF Explained
        <3>6. /\ Rebuilt(local[p].baseline, Shown(Log[b].hosts))'
                    = Rebuilt(local[p].baseline, Shown(Log[b].hosts))
              /\ Shown(Latest.hosts)' = Shown(Latest.hosts)
            BY <1>2, <2>1 DEF Rebuilt, Shown, View, Exposure
        <3>7. b \in DOMAIN Log' /\ Log'[b].at = local'[p].baseline
            BY <1>2, <2>1, <3>5
        <3>8. CASE pc'[p] \in {"status", "events"}
            BY <3>3, <3>5, <3>6, <3>7, <3>8 DEF Explained
        <3>9. CASE pc'[p] \notin {"status", "events"}
            <4>1. Rebuilt(local[p].baseline, Shown(Log[b].hosts))' = Shown(Latest.hosts)'
                BY <3>4, <3>5, <3>6, <3>9
            <4>2. QED
                BY <2>4, <3>7, <3>9, <4>1 DEF Explained
        <3>10. QED
            BY <3>8, <3>9
    <2>5. QED
        BY <2>3, <2>4
<1>5. QED
    BY <1>3, <1>4

LEMMA ExplainInvInductive ==
    ASSUME Alone, CycleInv, StampInv, AloneInv, ReadyInv, ExplainInv, [CycleNext]_cycleVars
    PROVE  ExplainInv'
<1>1. CycleTypeOK /\ Control /\ Budget
    BY DEF CycleInv
<1>2. ASSUME NEW p \in Procs, ProcessStep(p) PROVE ExplainInv'
    <2>1. LatestIsLast'
        <3>1. CASE Save(p)
            BY <1>1, <3>1, ExplainAfterSave
        <3>2. CASE ~Save(p)
            <4>1. Log' = Log
                BY <1>2, <3>2, LogKept
            <4>2. QED
                BY <4>1 DEF ExplainInv, LatestIsLast, Latest
        <3>3. QED
            BY <3>1, <3>2
    <2>2. p \in Watchers => Explained(p)'
        BY <1>1, <1>2, ExplainAfterSave, ExplainAfterBaseline, ExplainAfterEvents,
           ExplainAfterOther
    <2>3. \A q \in Watchers : q = p
        BY CycleAssumption DEF CycleAssumption, Alone
    <2>4. QED
        BY <2>1, <2>2, <2>3 DEF ExplainInv
<1>3. ASSUME UNCHANGED <<storeVars, clock, events, monitoring, pc, ctxDone, local>>
      PROVE  ExplainInv'
    <2>1. Log' = Log /\ Latest' = Latest /\ LatestIsLast'
        BY <1>3 DEF ExplainInv, LatestIsLast, Latest, Log, storeVars
    <2>2. ASSUME NEW q \in Watchers PROVE Explained(q)'
        <3>1. \A b : Rebuilt(local[q].baseline, Shown(Log[b].hosts))'
                        = Rebuilt(local[q].baseline, Shown(Log[b].hosts))
            BY <1>3, <2>1 DEF Rebuilt, Shown, View, Exposure
        <3>2. Shown(Latest.hosts)' = Shown(Latest.hosts)
            BY <2>1 DEF Shown, View, Exposure
        <3>3. Explained(q)
            BY DEF ExplainInv
        <3>4. QED
            BY <1>3, <2>1, <3>1, <3>2, <3>3 DEF Explained
    <2>3. QED
        BY <2>1, <2>2 DEF ExplainInv
<1>4. QED
    BY <1>1, <1>2, <1>3, CycleStepCases

\* A watch that has the database to itself: whenever it waits, the events recorded
\* since its baseline, applied to what the baseline shows, give what the latest
\* snapshot shows, whatever failed, was interrupted or crashed before.
THEOREM EventsAlwaysExplainLatestSnapshot ==
    ASSUME Alone
    PROVE  CycleSpec => []EventsExplainLatestSnapshot
<1>1. CycleInit => ExplainInv /\ ReadyInv
    <2> SUFFICES ASSUME CycleInit PROVE ExplainInv /\ ReadyInv
        OBVIOUS
    <2>1. Log = <<>>
        BY CycleAssumption DEF CycleAssumption, CycleInit, StoreInit, Log
    <2>2. ASSUME NEW p \in Watchers PROVE Explained(p)
        <3>1. p \in Procs
            BY CycleAssumption DEF CycleAssumption
        <3>2. pc[p] = "off" /\ local[p].baseline = 0
            BY <3>1, FreshType DEF CycleInit
        <3>3. QED
            BY <3>2 DEF Explained
    <2>3. QED
        BY <2>1, <2>2 DEF ExplainInv, LatestIsLast, ReadyInv, Ready, CycleInit
<1>2. CycleInv /\ ExplainInv => EventsExplainLatestSnapshot
    <2> SUFFICES ASSUME CycleInv, ExplainInv, NEW p \in Watchers, pc[p] = "wait"
                 PROVE  \E b \in DOMAIN Log :
                            /\ Log[b].at = local[p].baseline
                            /\ Rebuilt(local[p].baseline, Exposure(View(Log[b].hosts)))
                                = Exposure(View(LatestSnapshot(target).hosts))
        BY DEF EventsExplainLatestSnapshot
    <2>1. p \in Procs /\ local[p].baseline # 0
        BY CycleAssumption DEF CycleAssumption, CycleInv, Control
    <2>2. PICK b \in DOMAIN Log :
            /\ Log[b].at = local[p].baseline
            /\ Rebuilt(local[p].baseline, Shown(Log[b].hosts)) = Shown(Latest.hosts)
        BY <2>1 DEF ExplainInv, Explained
    <2>3. LatestSnapshot(target) = Latest
        BY <2>2 DEF LatestSnapshot, Latest, Log
    <2>4. QED
        BY <2>2, <2>3 DEF Shown
<1>3. QED
    BY <1>1, <1>2, CycleInvariant, StampInvariant, AloneInvariant, ReadyPreserved,
       ExplainInvInductive, PTL DEF CycleSpec

-----------------------------------------------------------------------------
(* What a step never undoes: the safety side of what must happen *)

\* How many steps of its own a process has before it, at most.
Ahead == [off |-> 0, deactivate |-> 1, wait |-> 2, events |-> 3, status |-> 4,
          save |-> 5, assemble |-> 6, scan |-> 7, discover |-> 8, known |-> 9,
          previous |-> 10, activate |-> 11]

\* Nothing sends a process back, and a step of its own takes it on.
GoesOn(p) ==
    /\ Ahead[pc'[p]] <= Ahead[pc[p]]
    /\ Advance(p) => Ahead[pc'[p]] < Ahead[pc[p]]

\* No call fails and no process dies.
NoLoss == "database" \notin Faults /\ "crash" \notin Faults

LEMMA AheadOf ==
    /\ Ahead["off"] = 0 /\ Ahead["deactivate"] = 1 /\ Ahead["wait"] = 2
    /\ Ahead["events"] = 3 /\ Ahead["status"] = 4 /\ Ahead["save"] = 5
    /\ Ahead["assemble"] = 6 /\ Ahead["scan"] = 7 /\ Ahead["discover"] = 8
    /\ Ahead["known"] = 9 /\ Ahead["previous"] = 10 /\ Ahead["activate"] = 11
    /\ \A l \in PCs : Ahead[l] \in Nat
BY DEF Ahead, PCs

\* Where a step of its own takes a process.
LEMMA AdvanceMoves ==
    ASSUME CycleTypeOK, NEW p \in Procs, Advance(p)
    PROVE  \/ pc[p] = "activate" /\ pc'[p] = "previous"
           \/ pc[p] = "previous" /\ pc'[p] = "known"
           \/ pc[p] = "known" /\ pc'[p] = "discover"
           \/ pc[p] = "discover" /\ pc'[p] = "scan"
           \/ pc[p] = "scan" /\ pc'[p] = "assemble"
           \/ pc[p] = "assemble" /\ pc'[p] = "save"
           \/ pc[p] = "save" /\ pc'[p] \in {"status", "events"}
           \/ pc[p] = "status" /\ pc'[p] \in {"events", "wait"}
           \/ pc[p] = "events" /\ pc'[p] \in {"wait", "off"}
           \/ pc[p] = "wait" /\ pc'[p] = "deactivate"
           \/ pc[p] = "deactivate" /\ pc'[p] = "off"
<1>1. pc \in [Procs -> PCs]
    BY DEF CycleTypeOK
<1>2. \A l : Goto(p, l) => pc'[p] = l
    BY <1>1 DEF Goto
<1>3. Exit(p) => pc'[p] = "off"
    BY <1>2 DEF Exit
<1>4. CASE Activate(p) \/ ReadPrevious(p) \/ ReadKnown(p)
    BY <1>2, <1>4 DEF Activate, ReadPrevious, ReadKnown
<1>5. CASE Discover(p) \/ ScanServices(p)
    BY <1>2, <1>5 DEF Discover, ScanServices
<1>6. CASE Assemble(p)
    BY <1>2, <1>6 DEF Assemble
<1>7. CASE Save(p)
    BY <1>2, <1>7 DEF Save
<1>8. CASE UpdateStatus(p)
    BY <1>2, <1>8 DEF UpdateStatus
<1>9. CASE SaveEvents(p)
    BY <1>2, <1>3, <1>9 DEF SaveEvents
<1>10. CASE Stop(p) \/ Deactivate(p)
    BY <1>2, <1>3, <1>10 DEF Stop, Deactivate
<1>11. QED
    BY <1>4, <1>5, <1>6, <1>7, <1>8, <1>9, <1>10 DEF Advance

LEMMA AdvanceGoesOn ==
    ASSUME CycleTypeOK, NEW p \in Procs, Advance(p)
    PROVE  Ahead[pc'[p]] < Ahead[pc[p]]
BY AdvanceMoves, AheadOf

\* A process that stays where it is took no step of its own.
LEMMA StaysPut ==
    ASSUME CycleTypeOK, NEW p \in Procs, pc'[p] = pc[p]
    PROVE  GoesOn(p)
<1>1. Ahead[pc[p]] \in Nat
    BY AheadOf DEF CycleTypeOK
<1>2. ~Advance(p)
    BY <1>1, AdvanceGoesOn
<1>3. QED
    BY <1>1, <1>2 DEF GoesOn

LEMMA AdvanceOn ==
    ASSUME CycleTypeOK, CycleTypeOK', NEW p \in Procs, Advance(p)
    PROVE  GoesOn(p)
<1>1. Ahead[pc[p]] \in Nat /\ Ahead[pc'[p]] \in Nat
    BY AheadOf DEF CycleTypeOK
<1>2. QED
    BY <1>1, AdvanceGoesOn DEF GoesOn

\* What p still has to record: the changes of the snapshot it has saved, unless it
\* is a watch without a baseline.  (The premise of ChangesBecomeEvents.)
Owed(p, n) ==
    /\ pc[p] \in {"status", "events"}
    /\ p \in Watchers => local[p].baseline # 0
    /\ n \in DOMAIN Log /\ local[p].at = Log[n].at /\ Log[n].changes # {}

Recorded(n) == n \in DOMAIN Log /\ \E e \in DOMAIN events : events[e].at = Log[n].at

OwedStep(p, n) == Owed(p, n) => Recorded(n)' \/ (Owed(p, n)' /\ GoesOn(p))

\* Recording the events of a snapshot leaves a batch with its time.
LEMMA EventsRecorded ==
    ASSUME CycleTypeOK, Budget, Control, StampInv, NEW p \in Procs, SaveEvents(p),
           NEW n \in DOMAIN Log, Owed(p, n)
    PROVE  Recorded(n)'
<1> DEFINE batch == EventsFromChanges(local[p].at, local[p].changes)
           Batches == [at : Times, changes : SUBSET Change]
<1>1. ProcessStep(p) /\ pc[p] = "events"
    BY DEF ProcessStep, Advance, SaveEvents
<1>2. PICK m \in DOMAIN Log : Log[m].at = local[p].at /\ Log[m].changes = local[p].changes
    BY <1>1 DEF StampInv, StampedCycle, Stamped
<1>3. m = n
    BY <1>2 DEF StampInv, LogStamps, Owed
<1>4. local[p].changes # {}
    BY <1>2, <1>3 DEF Owed
<1>5. events' = Append(events, batch)
    BY <1>4 DEF SaveEvents
<1>6. batch.at = local[p].at
    BY DEF EventsFromChanges
<1>7. events \in Seq(Batches) /\ batch \in Batches
    BY <1>1, LocalType DEF CycleTypeOK, EventsFromChanges, Control, Locals
<1> HIDE DEF batch, Batches
<1>8. Len(events) + 1 \in DOMAIN events' /\ events'[Len(events) + 1] = batch
    BY <1>5, <1>7, AppendProperties
<1>9. n \in DOMAIN Log' /\ Log'[n] = Log[n]
    BY <1>1, LogGrows
<1>10. events'[Len(events) + 1].at = Log'[n].at
    BY <1>6, <1>8, <1>9 DEF Owed
<1>11. QED
    BY <1>8, <1>9, <1>10 DEF Recorded

\* What a step of another process leaves p with.
LEMMA OwedByOthers ==
    ASSUME CycleTypeOK, Budget, Control, NEW q \in Procs, ProcessStep(q),
           NEW p \in Procs, pc'[p] = pc[p], local'[p] = local[p],
           NEW n \in DOMAIN Log, Owed(p, n)
    PROVE  Owed(p, n)' /\ GoesOn(p)
<1>1. n \in DOMAIN Log' /\ Log'[n] = Log[n]
    BY LogGrows
<1>2. Owed(p, n)'
    BY <1>1 DEF Owed
<1>3. GoesOn(p)
    BY StaysPut
<1>4. QED
    BY <1>2, <1>3

LEMMA OwedKept ==
    ASSUME NoLoss, CycleTypeOK, CycleTypeOK', Budget, Control, StampInv,
           NEW q \in Procs, ProcessStep(q), NEW p \in Procs, NEW n \in DOMAIN Log
    PROVE  OwedStep(p, n)
<1> SUFFICES ASSUME Owed(p, n) PROVE Recorded(n)' \/ (Owed(p, n)' /\ GoesOn(p))
    BY DEF OwedStep
<1>1. CASE pc'[p] = pc[p] /\ local'[p] = local[p]
    BY <1>1, OwedByOthers
<1>2. CASE q # p
    BY <1>1, <1>2, OthersKept
<1>3. CASE q = p /\ SaveEvents(p)
    BY <1>3, EventsRecorded
<1>4. CASE q = p /\ UpdateStatus(p)
    <2>1. pc[p] = "status"
        BY <1>4 DEF UpdateStatus
    <2>2. local[p].baseline # 0
        BY <2>1 DEF Control, Owed
    <2>3. pc'[p] = "events" /\ local' = local
        BY <1>4, <2>2, WorkAfter
    <2>4. n \in DOMAIN Log' /\ Log'[n] = Log[n]
        BY LogGrows
    <2>5. Owed(p, n)'
        BY <2>3, <2>4 DEF Owed
    <2>6. GoesOn(p)
        BY <1>4, AdvanceOn DEF Advance
    <2>7. QED
        BY <2>5, <2>6
<1>5. CASE q = p /\ Interrupt(p)
    BY <1>1, <1>5 DEF Interrupt
<1>6. QED
    <2>1. pc[p] \in {"status", "events"}
        BY DEF Owed
    <2>2. ASSUME q = p PROVE SaveEvents(p) \/ UpdateStatus(p) \/ Interrupt(p)
        <3>1. ProcessStep(p)
            BY <2>2
        <3>2. ~Start(p) /\ ~Timer(p) /\ ~Stop(p) /\ ~Deactivate(p)
            BY <2>1 DEF Start, Timer, Stop, Deactivate
        <3>3. ~Activate(p) /\ ~ReadPrevious(p) /\ ~ReadKnown(p) /\ ~Discover(p)
            BY <2>1 DEF Activate, ReadPrevious, ReadKnown, Discover
        <3>4. ~ScanServices(p) /\ ~Save(p)
            BY <2>1 DEF ScanServices, Save
        <3>5. Assemble(p) => pc[p] = "assemble"
            BY DEF Assemble
        <3>6. ~Assemble(p)
            BY <2>1, <3>5
        <3>7. ~DatabaseError(p) /\ ~Crash(p)
            BY DEF DatabaseError, Crash, NoLoss
        <3>8. QED
            BY <3>1, <3>2, <3>3, <3>4, <3>6, <3>7 DEF ProcessStep, Advance
    <2>3. QED
        BY <1>2, <1>3, <1>4, <1>5, <2>2

\* The safety side of ChangesBecomeEvents, for any number of processes: as long as
\* no call fails and no process dies, a process that owes the events of a snapshot
\* owes them until they are recorded, whatever the others do and whoever interrupts
\* it.  Nothing sends it back, and each step of its own takes it nearer, so it owes
\* them forever only if it stops taking steps.
THEOREM OwedEventsAreNeverDropped ==
    ASSUME NoLoss
    PROVE  CycleSpec => [][\A p \in Procs, n \in Nat :
                                Owed(p, n) => Recorded(n)' \/ (Owed(p, n)' /\ GoesOn(p))]_cycleVars
<1>1. CycleInv /\ CycleInv' /\ StampInv /\ [CycleNext]_cycleVars
        => [\A p \in Procs, n \in Nat : OwedStep(p, n)]_cycleVars
    <2> SUFFICES ASSUME CycleInv, CycleInv', StampInv, [CycleNext]_cycleVars,
                        NEW p \in Procs, NEW n \in Nat, Owed(p, n)
                 PROVE  OwedStep(p, n)
        BY DEF OwedStep
    <2>1. CycleTypeOK /\ CycleTypeOK' /\ Budget /\ Control /\ n \in DOMAIN Log
        BY DEF CycleInv, Owed
    <2>2. ASSUME NEW q \in Procs, ProcessStep(q) PROVE OwedStep(p, n)
        BY <2>1, <2>2, OwedKept
    <2>3. ASSUME UNCHANGED <<storeVars, clock, events, monitoring, pc, ctxDone, local>>
          PROVE  OwedStep(p, n)
        <3>1. Log' = Log
            BY <2>3 DEF storeVars, Log
        <3>2. Owed(p, n)'
            BY <2>3, <3>1 DEF Owed
        <3>3. GoesOn(p)
            BY <2>1, <2>3, StaysPut
        <3>4. QED
            BY <3>2, <3>3 DEF OwedStep
    <2>4. QED
        BY <2>1, <2>2, <2>3, CycleStepCases
<1>2. ([][\A p \in Procs, n \in Nat :
                Owed(p, n) => Recorded(n)' \/ (Owed(p, n)' /\ GoesOn(p))]_cycleVars)
        <=> [][\A p \in Procs, n \in Nat : OwedStep(p, n)]_cycleVars
    BY DEF OwedStep
<1>3. QED
    BY <1>1, <1>2, CycleInvariant, StampInvariant, PTL DEF CycleSpec

\* The end an interruption asks for: the process has returned, and the row of a
\* watch says it is not active.
Ended(p) ==
    /\ pc[p] = "off"
    /\ p \in Watchers => \E last \in Times \cup {0} : monitoring = [active |-> FALSE, last |-> last]

InterruptedStep(p) == ctxDone[p] => Ended(p)' \/ (ctxDone'[p] /\ GoesOn(p))

\* The context of a process that is not running is not cancelled.
ContextLive == \A p \in Procs : ctxDone[p] => pc[p] # "off"

LEMMA ContextOfOthers ==
    ASSUME CycleTypeOK, Budget, Control, NEW p \in Procs, ProcessStep(p),
           NEW q \in Procs \ {p}
    PROVE  ctxDone'[q] = ctxDone[q]
<1>1. ctxDone \in [Procs -> BOOLEAN]
    BY DEF CycleTypeOK
<1>2. PICK l \in BOOLEAN : ctxDone' = [ctxDone EXCEPT ![p] = l]
    BY OwnStep
<1>3. QED
    BY <1>1, <1>2

\* A process returns by Exit, which drops its context, or is somewhere else.
LEMMA ExitOrOn ==
    ASSUME CycleTypeOK, NEW p \in Procs, ProcessStep(p)
    PROVE  \/ Exit(p) /\ pc'[p] = "off" /\ ~ctxDone'[p]
           \/ pc'[p] # "off"
<1>1. pc \in [Procs -> PCs] /\ ctxDone \in [Procs -> BOOLEAN]
    BY DEF CycleTypeOK
<1>2. \A l : Goto(p, l) => pc'[p] = l
    BY <1>1 DEF Goto
<1>3. Exit(p) => pc'[p] = "off" /\ ~ctxDone'[p]
    BY <1>1, <1>2 DEF Exit
<1>4. CASE Start(p)
    BY <1>2, <1>4 DEF Start
<1>5. CASE Timer(p) \/ Stop(p)
    BY <1>2, <1>5 DEF Timer, Stop
<1>6. CASE DatabaseError(p)
    BY <1>2, <1>3, <1>6 DEF DatabaseError
<1>7. CASE Interrupt(p)
    BY <1>7 DEF Interrupt
<1>8. CASE Crash(p)
    BY <1>3, <1>8 DEF Crash
<1>9. CASE Deactivate(p)
    BY <1>3, <1>9 DEF Deactivate
<1>10. CASE SaveEvents(p)
    BY <1>2, <1>3, <1>10 DEF SaveEvents
<1>11. CASE Activate(p) \/ ReadPrevious(p) \/ ReadKnown(p) \/ Discover(p) \/ ScanServices(p)
    BY <1>2, <1>11 DEF Activate, ReadPrevious, ReadKnown, Discover, ScanServices
<1>12. CASE Assemble(p)
    BY <1>2, <1>12 DEF Assemble
<1>13. CASE Save(p) \/ UpdateStatus(p)
    BY <1>2, <1>13 DEF Save, UpdateStatus
<1>14. QED
    BY <1>3, <1>4, <1>5, <1>6, <1>7, <1>8, <1>9, <1>10, <1>11, <1>12, <1>13
       DEF ProcessStep, Advance

LEMMA ContextLivePreserved == CycleInv /\ ContextLive /\ [CycleNext]_cycleVars => ContextLive'
<1> SUFFICES ASSUME CycleInv, ContextLive, [CycleNext]_cycleVars, NEW p \in Procs
             PROVE  ctxDone'[p] => pc'[p] # "off"
    BY DEF ContextLive
<1>1. CycleTypeOK /\ Budget /\ Control
    BY DEF CycleInv
<1>2. ASSUME NEW q \in Procs, ProcessStep(q), q # p PROVE ctxDone'[p] => pc'[p] # "off"
    <2>1. ctxDone'[p] = ctxDone[p] /\ pc'[p] = pc[p]
        BY <1>1, <1>2, ContextOfOthers, OthersKept
    <2>2. QED
        BY <2>1 DEF ContextLive
<1>3. ASSUME ProcessStep(p) PROVE ctxDone'[p] => pc'[p] # "off"
    BY <1>1, <1>3, ExitOrOn
<1>4. ASSUME UNCHANGED <<storeVars, clock, events, monitoring, pc, ctxDone, local>>
      PROVE  ctxDone'[p] => pc'[p] # "off"
    BY <1>4 DEF ContextLive
<1>5. QED
    BY <1>1, <1>2, <1>3, <1>4, CycleStepCases

LEMMA ContextLiveInvariant == CycleSpec => []ContextLive
<1>1. CycleInit => ContextLive
    BY DEF CycleInit, ContextLive
<1>2. QED
    BY <1>1, ContextLivePreserved, CycleInvariant, PTL DEF CycleSpec

\* A step of its own either ends an interrupted process or leaves it interrupted.
LEMMA InterruptedAdvance ==
    ASSUME NoLoss, CycleTypeOK, CycleTypeOK', Control, NEW p \in Procs, Advance(p)
    PROVE  InterruptedStep(p)
<1>1. GoesOn(p)
    BY AdvanceOn
<1>2. pc \in [Procs -> PCs]
    BY DEF CycleTypeOK
<1>3. Exit(p) => pc'[p] = "off"
    BY <1>2 DEF Exit, Goto
<1>4. CASE ctxDone' = ctxDone
    BY <1>1, <1>4 DEF InterruptedStep
<1>5. CASE SaveEvents(p)
    <2>1. CASE p \in Watchers
        BY <1>4, <1>5, <2>1 DEF SaveEvents
    <2>2. CASE p \notin Watchers
        BY <1>3, <1>5, <2>2 DEF SaveEvents, InterruptedStep, Ended
    <2>3. QED
        BY <2>1, <2>2
<1>6. CASE Deactivate(p)
    <2>1. pc'[p] = "off" /\ SetMonitoringStatus(FALSE, 0)
        BY <1>3, <1>6 DEF Deactivate, NoLoss
    <2> DEFINE kept == IF 0 = 0 /\ monitoring # NoRow THEN monitoring.last ELSE 0
    <2>2. monitoring' = [active |-> FALSE, last |-> kept]
        BY <2>1 DEF SetMonitoringStatus
    <2>3. kept \in Times \cup {0}
        BY DEF CycleTypeOK
    <2> HIDE DEF kept
    <2>4. QED
        BY <2>1, <2>2, <2>3 DEF InterruptedStep, Ended
<1>7. CASE Activate(p) \/ ReadPrevious(p) \/ ReadKnown(p) \/ Discover(p) \/ ScanServices(p)
    BY <1>4, <1>7 DEF Activate, ReadPrevious, ReadKnown, Discover, ScanServices
<1>8. CASE Assemble(p)
    BY <1>4, <1>8 DEF Assemble
<1>9. CASE Save(p) \/ UpdateStatus(p) \/ Stop(p)
    BY <1>4, <1>9 DEF Save, UpdateStatus, Stop
<1>10. QED
    BY <1>5, <1>6, <1>7, <1>8, <1>9 DEF Advance

\* The safety side of InterruptEndsWatch, for any number of processes: as long as no
\* call fails and no process dies, a process whose context is cancelled stays so until
\* it has returned, a watch with its row left inactive by that very step.  It starts no
\* further cycle: nothing sends it back, and it has at most eleven steps to go.
THEOREM InterruptedGoesToItsEnd ==
    ASSUME NoLoss
    PROVE  CycleSpec => [][\A p \in Procs :
                                ctxDone[p] => Ended(p)' \/ (ctxDone'[p] /\ GoesOn(p))]_cycleVars
<1>1. CycleInv /\ CycleInv' /\ ContextLive /\ [CycleNext]_cycleVars
        => [\A p \in Procs : InterruptedStep(p)]_cycleVars
    <2> SUFFICES ASSUME CycleInv, CycleInv', ContextLive, [CycleNext]_cycleVars,
                        NEW p \in Procs, ctxDone[p]
                 PROVE  InterruptedStep(p)
        BY DEF InterruptedStep
    <2>1. CycleTypeOK /\ CycleTypeOK' /\ Budget /\ Control /\ pc[p] # "off"
        BY DEF CycleInv, ContextLive
    <2>2. ASSUME pc'[p] = pc[p], ctxDone'[p] = ctxDone[p] PROVE InterruptedStep(p)
        BY <2>1, <2>2, StaysPut DEF InterruptedStep
    <2>3. ASSUME NEW q \in Procs, ProcessStep(q), q # p PROVE InterruptedStep(p)
        BY <2>1, <2>2, <2>3, ContextOfOthers, OthersKept
    <2>4. ASSUME ProcessStep(p) PROVE InterruptedStep(p)
        <3>1. ~Start(p) /\ ~Timer(p) /\ ~Interrupt(p)
            BY <2>1 DEF Start, Timer, Interrupt
        <3>2. ~DatabaseError(p) /\ ~Crash(p)
            BY DEF DatabaseError, Crash, NoLoss
        <3>3. Advance(p)
            BY <2>4, <3>1, <3>2 DEF ProcessStep
        <3>4. QED
            BY <2>1, <3>3, InterruptedAdvance
    <2>5. ASSUME UNCHANGED <<storeVars, clock, events, monitoring, pc, ctxDone, local>>
          PROVE  InterruptedStep(p)
        BY <2>2, <2>5
    <2>6. QED
        BY <2>1, <2>3, <2>4, <2>5, CycleStepCases
<1>2. ([][\A p \in Procs :
                ctxDone[p] => Ended(p)' \/ (ctxDone'[p] /\ GoesOn(p))]_cycleVars)
        <=> [][\A p \in Procs : InterruptedStep(p)]_cycleVars
    BY DEF InterruptedStep
<1>3. QED
    BY <1>1, <1>2, CycleInvariant, ContextLiveInvariant, PTL DEF CycleSpec
=============================================================================
