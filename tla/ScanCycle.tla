------------------------------ MODULE ScanCycle ------------------------------
(***************************************************************************)
(* sentinel scan and sentinel watch (internal/cli): processes that observe *)
(* one target and share one database.  A cycle reads the previous snapshot *)
(* and the known assets, probes the network stage by stage, compares and   *)
(* saves; a watch then updates its monitoring row, records the changes as  *)
(* events and waits.  Each database call and each probing stage is a step  *)
(* of its own, so the network may change and other processes may run in    *)
(* between; a call may fail, a signal may cancel the context, and a        *)
(* process may die, all at any step.                                       *)
(***************************************************************************)
EXTENDS AssetStore, SequencesExt

CONSTANTS
    Procs,          \* processes
    Watchers,       \* those that run watch; the others run scan
    target,         \* the target they were all given
    Devices,        \* what may stand at an address of the network
    Bare,           \* the fingerprint of a service nothing was read from
    NoScan,         \* no snapshot was loaded
    Faults          \* which of "drift", "arp", "loss", "database", "interrupt", "crash" occur

\* A device: what a full observation of it reads, and whether it is quiet, that
\* is, answers neither the discovery ports nor a ping.
Device == [mac : MACs \cup {NoMAC}, name : Names \cup {NoName},
           svc : Services, quiet : BOOLEAN]

ASSUME CycleAssumption ==
    /\ Watchers \subseteq Procs /\ IsFiniteSet(Procs)
    /\ target \in Targets
    /\ Devices \subseteq Device /\ Absent \notin Device
    /\ Absent \notin MACs /\ Absent # NoMAC
    /\ Bare \in Prints
    /\ Observations = Host
    /\ Times = 1..MaxScans
    /\ NoScan \notin Scan

VARIABLES
    net,            \* the network: address -> device
    clock,          \* the time the next snapshot is stamped with
    events,         \* table events: the batches SaveEvents committed, in order
    monitoring,     \* the target's row of table monitoring_status
    pc,             \* process -> its next step
    ctxDone,        \* process -> its context is cancelled
    local           \* process -> the variables of its current cycle

cycleVars == <<storeVars, net, clock, events, monitoring, pc, ctxDone, local>>

PCs == {"off", "activate", "previous", "known", "discover", "scan", "assemble",
        "save", "status", "events", "wait", "deactivate"}

\* Steps before the snapshot is stamped.
Stamping == {"activate", "previous", "known", "discover", "scan", "assemble"}

\* sight: the addresses discovery found, with the hardware address ARP gave.
Sights == [IPs -> MACs \cup {NoMAC, Absent}]

Nothing == [ip \in IPs |-> Absent]
Fresh == [baseline |-> 0, previous |-> NoScan, known |-> {}, sight |-> Nothing,
          open |-> [ip \in IPs |-> {}], hosts |-> Nothing, at |-> 0, changes |-> {}]

CycleTypeOK ==
    /\ TypeOK
    /\ net \in [IPs -> Devices \cup {Absent}]
    /\ clock \in 1..(MaxScans + 1)
    /\ events \in Seq([at : Times, changes : SUBSET Change])
    /\ monitoring \in [active : BOOLEAN, last : Times \cup {0}] \cup {NoRow}
    /\ pc \in [Procs -> PCs]
    /\ ctxDone \in [Procs -> BOOLEAN]
    /\ local \in [Procs -> [baseline : Times \cup {0}, previous : Scan \cup {NoScan},
                            known : SUBSET IPs, sight : Sights, open : [IPs -> SUBSET Ports],
                            hosts : [IPs -> Host \cup {Absent}],
                            at : Times \cup {0}, changes : SUBSET Change]]

CycleInit ==
    /\ StoreInit
    /\ net \in [IPs -> Devices \cup {Absent}]
    /\ clock = 1
    /\ events = <<>>
    /\ monitoring = NoRow
    /\ pc = [p \in Procs |-> "off"]
    /\ ctxDone = [p \in Procs |-> FALSE]
    /\ local = [p \in Procs |-> Fresh]

-----------------------------------------------------------------------------
(* Control *)

Goto(p, label) == pc' = [pc EXCEPT ![p] = label]

\* The process returns: its locals and its context are gone.
Exit(p) ==
    /\ Goto(p, "off")
    /\ ctxDone' = [ctxDone EXCEPT ![p] = FALSE]
    /\ local' = [local EXCEPT ![p] = Fresh]

\* The model's budget: every cycle under way may still be stamped.
CycleAllowed ==
    clock + Cardinality({p \in Procs : pc[p] \in Stamping}) <= MaxScans

Start(p) ==
    /\ pc[p] = "off"
    /\ CycleAllowed
    /\ Goto(p, IF p \in Watchers THEN "activate" ELSE "previous")
    /\ UNCHANGED <<storeVars, net, clock, events, monitoring, ctxDone, local>>

-----------------------------------------------------------------------------
(* The monitoring row *)

\* Mutation of SetMonitoringStatus: ON CONFLICT DO NOTHING.
InsertMonitoringStatus(active, last) ==
    monitoring' = IF monitoring = NoRow THEN [active |-> active, last |-> last]
                  ELSE monitoring

\* The upsert of SetMonitoringStatus: an empty last_scan_at keeps the old one.
SetMonitoringStatus(active, last) ==
    monitoring' = [active |-> active,
                   last   |-> IF last = 0 /\ monitoring # NoRow
                              THEN monitoring.last ELSE last]

Activate(p) ==
    /\ pc[p] = "activate"
    /\ SetMonitoringStatus(TRUE, 0)
    /\ Goto(p, "previous")
    /\ UNCHANGED <<storeVars, net, clock, events, ctxDone, local>>

\* The status update after a cycle.  The first cycle of a watch is its baseline:
\* its changes are dropped, the snapshot stays in the variable baseline.
UpdateStatus(p) ==
    /\ pc[p] = "status"
    /\ SetMonitoringStatus(TRUE, local[p].at)
    /\ IF local[p].baseline = 0
       THEN /\ local' = [local EXCEPT ![p] = [Fresh EXCEPT !.baseline = local[p].at]]
            /\ Goto(p, "wait")
       ELSE /\ Goto(p, "events")
            /\ UNCHANGED local
    /\ UNCHANGED <<storeVars, net, clock, events, ctxDone>>

\* Mutation of Deactivate: the deferred update is missing.
DeactivateNothing(p) ==
    /\ pc[p] = "deactivate"
    /\ Exit(p)
    /\ UNCHANGED <<storeVars, net, clock, events, monitoring>>

\* The deferred update; its error is ignored.
Deactivate(p) ==
    /\ pc[p] = "deactivate"
    /\ \/ SetMonitoringStatus(FALSE, 0)
       \/ "database" \in Faults /\ UNCHANGED monitoring
    /\ Exit(p)
    /\ UNCHANGED <<storeVars, net, clock, events>>

-----------------------------------------------------------------------------
(* performScanCycle *)

ReadPrevious(p) ==
    /\ pc[p] = "previous"
    /\ local' = [local EXCEPT ![p].previous =
                    IF HasSnapshot(target) THEN LatestSnapshot(target) ELSE NoScan]
    /\ Goto(p, "known")
    /\ UNCHANGED <<storeVars, net, clock, events, monitoring, ctxDone>>

ReadKnown(p) ==
    /\ pc[p] = "known"
    /\ local' = [local EXCEPT ![p].known = KnownAssetIPs(target)]
    /\ Goto(p, "discover")
    /\ UNCHANGED <<storeVars, net, clock, events, monitoring, ctxDone>>

\* A probe may find less than there is: its packets are lost or late, or the
\* context is done, which ends the pools early without an error.
Lossy(p) == ctxDone[p] \/ "loss" \in Faults

Present == {ip \in IPs : net[ip] # Absent}

\* A device that answers a discovery port or a ping.
Visible(ip) == ip \in Present /\ ~net[ip].quiet

\* What the ARP table shows for an address.  It is a cache: it may lack a device
\* that nobody has spoken to yet, or still name one that is gone.
Cached(ip) ==
    IF "arp" \in Faults THEN MACs \cup {NoMAC}
    ELSE {IF Visible(ip) THEN net[ip].mac ELSE NoMAC}

\* NeighborTable, Discover and DiscoverICMP: an address is found if it answers or
\* the table has it.  With the context done the table may come back empty too.
Sighted(p, ip) ==
    LET answered == {Visible(ip)} \cup (IF Lossy(p) THEN {FALSE} ELSE {})
        entries  == Cached(ip) \cup (IF ctxDone[p] THEN {NoMAC} ELSE {})
    IN  {IF m # NoMAC \/ found THEN m ELSE Absent : m \in entries, found \in answered}

Discover(p) ==
    /\ pc[p] = "discover"
    /\ \E sight \in Sights :
        /\ \A ip \in IPs : sight[ip] \in Sighted(p, ip)
        /\ local' = [local EXCEPT ![p].sight = sight]
    /\ Goto(p, "scan")
    /\ UNCHANGED <<storeVars, net, clock, events, monitoring, ctxDone>>

\* mergeHostIPs: everything discovered and every asset that is not OFFLINE.
MergeHostIPs(p) == {ip \in IPs : local[p].sight[ip] # Absent} \cup local[p].known

\* scanner.Scan over the merged addresses; see ProbePool for what the pool
\* returns: every port that answers, or any part of them when the context is done.
ScannedPorts(p, ip) ==
    IF ip \notin MergeHostIPs(p) \cap Present THEN {{}}
    ELSE IF Lossy(p) THEN SUBSET OpenPorts(net[ip].svc)
    ELSE {OpenPorts(net[ip].svc)}

ScanServices(p) ==
    /\ pc[p] = "scan"
    /\ \E open \in [IPs -> SUBSET Ports] :
        /\ \A ip \in IPs : open[ip] \in ScannedPorts(p, ip)
        /\ local' = [local EXCEPT ![p].open = open]
    /\ Goto(p, "assemble")
    /\ UNCHANGED <<storeVars, net, clock, events, monitoring, ctxDone>>

\* Name and fingerprints are read now, from the devices that still answer.
NameRead(ip, named) == IF ip \in named THEN net[ip].name ELSE NoName
PrintRead(ip, port, inspected) ==
    IF ip \in inspected /\ net[ip].svc[port] # Closed THEN net[ip].svc[port] ELSE Bare

\* Mutation of InventoryHost: an address that only its ports gave away is kept.
InventoryHostOfPorts(p, ip, named, inspected) ==
    IF local[p].sight[ip] = Absent /\ local[p].open[ip] = {} THEN Absent
    ELSE [mac  |-> IF local[p].sight[ip] = Absent THEN NoMAC ELSE local[p].sight[ip],
          name |-> NameRead(ip, named),
          svc  |-> [port \in Ports |->
                        IF port \in local[p].open[ip]
                        THEN PrintRead(ip, port, inspected) ELSE Closed]]

\* buildInventoryHosts and Enrich: an address that only the asset table knows is
\* dropped, whatever its ports answered.
InventoryHost(p, ip, named, inspected) ==
    IF local[p].sight[ip] = Absent THEN Absent
    ELSE [mac  |-> local[p].sight[ip],
          name |-> NameRead(ip, named),
          svc  |-> [port \in Ports |->
                        IF port \in local[p].open[ip]
                        THEN PrintRead(ip, port, inspected) ELSE Closed]]

\* The inventory, the timestamp and the comparison with the snapshot loaded at
\* the start of the cycle.
Assemble(p) ==
    /\ pc[p] = "assemble"
    /\ \E named \in SUBSET Present, inspected \in SUBSET Present :
        /\ Lossy(p) \/ (named = Present /\ inspected = Present)
        /\ LET hosts    == [ip \in IPs |-> InventoryHost(p, ip, named, inspected)]
               previous == local[p].previous
           IN  local' = [local EXCEPT ![p] =
                    [@ EXCEPT !.hosts   = hosts,
                              !.at      = clock,
                              !.changes = IF previous = NoScan THEN {}
                                          ELSE Compare(View(previous.hosts), View(hosts))]]
    /\ clock' = clock + 1
    /\ Goto(p, "save")
    /\ UNCHANGED <<storeVars, net, events, monitoring, ctxDone>>

Save(p) ==
    /\ pc[p] = "save"
    /\ SaveSnapshot(target, local[p].hosts, local[p].at, local[p].changes)
    /\ local' = [local EXCEPT ![p] = [Fresh EXCEPT !.baseline = local[p].baseline,
                                                   !.at       = local[p].at,
                                                   !.changes  = local[p].changes]]
    /\ Goto(p, IF p \in Watchers THEN "status" ELSE "events")
    /\ UNCHANGED <<net, clock, events, monitoring, ctxDone>>

-----------------------------------------------------------------------------
(* Events and the watch loop *)

\* Mutation of EventsFromChanges: services that went away are passed over.
EventsWithoutRemovals(at, changes) ==
    [at |-> at, changes |-> {c \in changes : c.type # "SERVICE_REMOVED"}]

\* One event per change, stamped with the time the change was detected at.
EventsFromChanges(at, changes) == [at |-> at, changes |-> changes]

\* Mutation of SaveEvents: a cancelled context skips the database call.
SaveEventsUnlessDone(p) ==
    /\ pc[p] = "events"
    /\ events' = IF local[p].changes = {} \/ ctxDone[p] THEN events
                 ELSE Append(events, EventsFromChanges(local[p].at, local[p].changes))
    /\ Goto(p, "wait")
    /\ UNCHANGED <<storeVars, net, clock, monitoring, ctxDone, local>>

\* SaveEvents writes nothing for an empty list, else one transaction.  A scan
\* then reports and exits, a watch notifies, prints and waits.
SaveEvents(p) ==
    /\ pc[p] = "events"
    /\ events' = IF local[p].changes = {} THEN events
                 ELSE Append(events, EventsFromChanges(local[p].at, local[p].changes))
    /\ IF p \in Watchers
       THEN /\ Goto(p, "wait")
            /\ local' = [local EXCEPT ![p] = [Fresh EXCEPT !.baseline = local[p].baseline]]
            /\ UNCHANGED ctxDone
       ELSE Exit(p)
    /\ UNCHANGED <<storeVars, net, clock, monitoring>>

Timer(p) ==
    /\ pc[p] = "wait" /\ ~ctxDone[p]
    /\ CycleAllowed
    /\ Goto(p, "previous")
    /\ UNCHANGED <<storeVars, net, clock, events, monitoring, ctxDone, local>>

Stop(p) ==
    /\ pc[p] = "wait" /\ ctxDone[p]
    /\ Goto(p, "deactivate")
    /\ UNCHANGED <<storeVars, net, clock, events, monitoring, ctxDone, local>>

-----------------------------------------------------------------------------
(* What goes wrong *)

\* A database call returns an error ("database is locked" when another process
\* is writing): the command returns, a watch through its deferred update, which
\* is not yet registered when the first status update fails.
DatabaseError(p) ==
    /\ "database" \in Faults
    /\ pc[p] \in {"activate", "previous", "known", "save", "status", "events"}
    /\ IF p \in Watchers /\ pc[p] # "activate"
       THEN Goto(p, "deactivate") /\ UNCHANGED <<ctxDone, local>>
       ELSE Exit(p)
    /\ UNCHANGED <<storeVars, net, clock, events, monitoring>>

Interrupt(p) ==
    /\ "interrupt" \in Faults
    /\ pc[p] # "off" /\ ~ctxDone[p]
    /\ ctxDone' = [ctxDone EXCEPT ![p] = TRUE]
    /\ UNCHANGED <<storeVars, net, clock, events, monitoring, pc, local>>

Crash(p) ==
    /\ "crash" \in Faults
    /\ pc[p] # "off"
    /\ Exit(p)
    /\ UNCHANGED <<storeVars, net, clock, events, monitoring>>

\* The network changes under the processes.
Drift ==
    /\ "drift" \in Faults
    /\ \E ip \in IPs, device \in Devices \cup {Absent} :
        net' = [net EXCEPT ![ip] = device]
    /\ UNCHANGED <<storeVars, clock, events, monitoring, pc, ctxDone, local>>

-----------------------------------------------------------------------------
\* The steps a process takes by itself once it is running.
Advance(p) ==
    \/ Activate(p)
    \/ ReadPrevious(p)
    \/ ReadKnown(p)
    \/ Discover(p)
    \/ ScanServices(p)
    \/ Assemble(p)
    \/ Save(p)
    \/ UpdateStatus(p)
    \/ SaveEvents(p)
    \/ Stop(p)
    \/ Deactivate(p)

CycleNext ==
    \/ \E p \in Procs : Start(p)
    \/ \E p \in Procs : Advance(p)
    \/ \E p \in Procs : Timer(p)
    \/ \E p \in Procs : DatabaseError(p)
    \/ \E p \in Procs : Interrupt(p)
    \/ \E p \in Procs : Crash(p)
    \/ Drift

CycleSpec == CycleInit /\ [][CycleNext]_cycleVars

\* A running process goes on: its probes time out and its database calls return.
\* Nothing obliges anyone to start a command, a timer to fire within the budget
\* of the model, or a fault to happen.
CycleFairSpec == CycleSpec /\ \A p \in Procs : WF_cycleVars(Advance(p))

-----------------------------------------------------------------------------
(* Properties *)

Log == scans[target]

\* With one process, the changes saved with a snapshot are exactly its
\* differences from the snapshot saved before it, whatever fails in between:
\* no difference is skipped by an error, an interruption or a restart.
ChangesAreFromPredecessor ==
    \A n \in DOMAIN Log :
        Log[n].changes = IF n = 1 THEN {}
                         ELSE Compare(View(Log[n - 1].hosts), View(Log[n].hosts))

\* With several, they are the differences from some earlier snapshot, or none at
\* all when the cycle began before any snapshot was saved.
ChangesAreFromSomeEarlierScan ==
    \A n \in DOMAIN Log :
        \/ Log[n].changes = {}
        \/ \E m \in 1..(n - 1) :
            Log[n].changes = Compare(View(Log[m].hosts), View(Log[n].hosts))

\* A watch compares with nothing older than its baseline, whoever else saves in
\* between and whatever the stamps say: once it has a baseline, the changes it
\* saved are the differences of its snapshot from the baseline or from one saved
\* after it, never from an older one and never none for want of a predecessor.
WatchComparesSinceBaseline ==
    \A p \in Watchers :
        (pc[p] \in {"status", "events"} /\ local[p].baseline # 0) =>
            \E b, m, n \in DOMAIN Log :
                /\ Log[b].at = local[p].baseline /\ b <= m /\ m < n
                /\ Log[n].at = local[p].at
                /\ local[p].changes = Compare(View(Log[m].hosts), View(Log[n].hosts))

\* No event without a change and none twice: every batch of events was saved
\* after the snapshot whose changes it reports, under that snapshot's time, and
\* no two batches report the same snapshot.
EventsReportCommittedChanges ==
    /\ \A e \in DOMAIN events :
        \E n \in DOMAIN Log : Log[n].at = events[e].at /\ Log[n].changes = events[e].changes
    /\ \A d, e \in DOMAIN events : events[d].at = events[e].at => d = e

\* What a reader who knows the exposure at a baseline rebuilds from the batches of
\* events recorded since.
Rebuilt(baseline, exposure) ==
    LET seen[n \in 0..Len(events)] ==
            IF n = 0 THEN exposure
            ELSE IF events[n].at > baseline THEN Replay(seen[n - 1], events[n].changes)
            ELSE seen[n - 1]
    IN  seen[Len(events)]

\* Between two cycles of a watch, the events recorded since its baseline, applied
\* to the exposure of the baseline, give the exposure of the latest snapshot: the
\* event log explains how the network came to be as it was last seen.
EventsExplainLatestSnapshot ==
    \A p \in Watchers :
        pc[p] = "wait" =>
            \E b \in DOMAIN Log :
                /\ Log[b].at = local[p].baseline
                /\ Rebuilt(local[p].baseline, Exposure(View(Log[b].hosts)))
                    = Exposure(View(LatestSnapshot(target).hosts))

\* The last_seen of an asset moves only when discovery itself sighted the address
\* the row then has: an asset that answers the service scan alone, at an address
\* probed because the asset table knows it, is missed and ages.  With one process
\* it never moves back.
LastSeenNeedsSighting ==
    [][ \A k \in Identities :
            LET was == assets[target][k]
                now == assets'[target][k]
            IN  now # NoRow /\ (was = NoRow \/ was.last # now.last) =>
                /\ \E p \in Procs : pc[p] = "save" /\ local[p].sight[now.ip] # Absent
                /\ was # NoRow => was.last < now.last ]_cycleVars

\* While a watch waits, its target's row says it is active and names the latest
\* snapshot; the row never names a scan that is not saved.
MonitoringRowTellsWatch ==
    /\ \A p \in Watchers : pc[p] = "wait" =>
            monitoring = [active |-> TRUE, last |-> LatestSnapshot(target).at]
    /\ monitoring # NoRow /\ monitoring.last # 0 =>
            \E n \in DOMAIN Log : Log[n].at = monitoring.last

\* What the database sees of the processes is Monitor: the network, the probing and
\* the reads are steps it does not see, and faults are steps it allows for.
Seen(p) ==
    CASE pc[p] \in {"off", "activate"} -> "off"
      [] pc[p] \in {"previous", "known", "discover", "scan", "assemble", "save"} -> "cycle"
      [] OTHER -> pc[p]
Carried(p) ==
    [baselined |-> Seen(p) \notin {"off", "deactivate"} /\ local[p].baseline # 0,
     at        |-> IF pc[p] \in {"status", "events"} THEN local[p].at ELSE 0,
     changes   |-> IF pc[p] \in {"status", "events"} THEN local[p].changes ELSE {}]

DatabaseView == INSTANCE Monitor WITH
    Clients    <- Procs,
    Watches    <- Watchers,
    targetOf   <- [p \in Procs |-> target],
    events     <- [t \in Targets |-> IF t = target THEN events ELSE <<>>],
    monitoring <- [t \in Targets |-> IF t = target THEN monitoring ELSE NoRow],
    stage      <- [p \in Procs |-> Seen(p)],
    work       <- [p \in Procs |-> Carried(p)]

\* The processes implement it, call by call, through faults, crashes and restarts.
ImplementsMonitor == DatabaseView!MonitorSpec

\* Every change a watch has committed after its baseline becomes an event, and so
\* does every change of a scan, as long as no call fails and no process dies; an
\* interruption does not prevent it.
ChangesBecomeEvents ==
    \A n \in 1..MaxScans : \A p \in Procs :
        ( /\ pc[p] \in {"status", "events"}
          /\ p \in Watchers => local[p].baseline # 0
          /\ n \in DOMAIN Log /\ local[p].at = Log[n].at /\ Log[n].changes # {} )
        ~> (n \in DOMAIN Log /\ \E e \in DOMAIN events : events[e].at = Log[n].at)

\* An interrupted process ends, and an interrupted watch leaves its row inactive.
InterruptEndsWatch ==
    \A p \in Procs :
        ctxDone[p] ~> (pc[p] = "off" /\ (p \in Watchers => monitoring # NoRow /\ ~monitoring.active))

\* report.Scan says COMPLETE of every snapshot it prints: over a network that
\* does not change, every snapshot saved holds every visible device as it is.
SavedScansAreComplete ==
    \A n \in DOMAIN Log : \A ip \in IPs :
        View(Log[n].hosts)[ip] = IF Visible(ip) THEN Persisted(net[ip].svc) ELSE Absent

\* The README's promise for a finished command: no snapshot replaced another
\* without its changes being recorded as events.
NoSilentReplacement ==
    (\A p \in Procs : pc[p] = "off") =>
        \A n \in DOMAIN Log : Log[n].changes # {} =>
            \E e \in DOMAIN events : events[e].at = Log[n].at

\* Over a network that does not change, and with no fault, the second and every
\* later snapshot has no change to report.
SteadyNetworkIsQuiet == \A n \in DOMAIN Log : Log[n].changes = {}
=============================================================================
