----------------------------- MODULE AssetStore -----------------------------
(***************************************************************************)
(* What the database promises (internal/store): SaveSnapshot appends a     *)
(* scan to the log of its target and, in the same transaction, brings the  *)
(* asset and service history tables up to date.  Here the transaction is   *)
(* one step and its effect on a row is stated in closed form; SnapshotTx   *)
(* executes it statement by statement and is checked to implement this.    *)
(***************************************************************************)
EXTENDS Diff, Sequences, FiniteSetsExt

CONSTANTS
    Targets,        \* the strings given to scan and watch
    MACs, NoMAC,    \* hardware addresses; NoMAC is the empty string
    Names, NoName,  \* host names; NoName is the empty string
    NameClass,      \* what Classify makes of a name, Unknown if it says nothing
    WindowsPorts,   \* ports whose service is RDP, SMB, MSRPC or NetBIOS
    Unknown,        \* the device type UNKNOWN
    Workstation,    \* the device type WORKSTATION
    Observations,   \* the host observations a snapshot may hold
    ChangeLists,    \* the change lists that may be saved with a snapshot
    Times,          \* timestamps
    MaxScans,       \* bound of the model: scans saved per target
    NoRow           \* the table has no such row

Host == [mac : MACs \cup {NoMAC}, name : Names \cup {NoName}, svc : Services]

\* The key of a row: "mac:" or "ip:" and an address.
Identities == ({"mac"} \X MACs) \cup ({"ip"} \X IPs)

DeviceTypes == {NameClass[n] : n \in Names} \cup {Unknown, Workstation}

States == {"NEW", "ACTIVE", "STALE", "OFFLINE"}

offlineAfterMisses == 3

Inventories == [IPs -> Observations \cup {Absent}]

ASSUME StoreAssumption ==
    /\ Observations \subseteq Host
    /\ Absent \notin Host
    /\ NoMAC \notin MACs /\ NoName \notin Names
    /\ DOMAIN NameClass = Names
    /\ WindowsPorts \subseteq Ports
    /\ ChangeLists \subseteq SUBSET Change
    /\ MaxScans \in Nat

AssetRow == [ip : IPs, name : Names \cup {NoName}, device : DeviceTypes,
             state : States, missed : Nat, count : Nat \ {0},
             first : Times, last : Times]
ASSUME AssetRowAssumption == NoRow \notin AssetRow

HistoryRow == [ip : IPs, present : BOOLEAN, count : Nat \ {0},
               first : Times, last : Times]
ASSUME HistoryRowAssumption == NoRow \notin HistoryRow

Scan == [at : Times, hosts : [IPs -> Host \cup {Absent}], changes : SUBSET Change]

VARIABLES
    scans,      \* target -> the scans, hosts, services and changes saved for it
    assets,     \* target -> identity -> row of table assets
    history     \* target -> identity -> port -> row of table service_history

storeVars == <<scans, assets, history>>

TypeOK ==
    /\ scans \in [Targets -> Seq(Scan)]
    /\ assets \in [Targets -> [Identities -> AssetRow \cup {NoRow}]]
    /\ history \in [Targets -> [Identities -> [Ports -> HistoryRow \cup {NoRow}]]]

-----------------------------------------------------------------------------
(* Identity and classification *)

\* assets.IdentityKey: the hardware address if it was observed.
IdentityKey(ip, host) ==
    IF host.mac # NoMAC THEN <<"mac", host.mac>> ELSE <<"ip", ip>>

\* assets.Classify: the name first, then the services.
Classify(name, svc) ==
    IF name # NoName /\ NameClass[name] # Unknown THEN NameClass[name]
    ELSE IF OpenPorts(svc) \cap WindowsPorts # {} THEN Workstation
    ELSE Unknown

\* The addresses of a snapshot whose host has identity k: none, one, or, when
\* several addresses answer with one hardware address, more.
Holders(hosts, k) ==
    {ip \in IPs : hosts[ip] # Absent /\ IdentityKey(ip, hosts[ip]) = k}

PortHolders(hosts, k, p) == {ip \in Holders(hosts, k) : hosts[ip].svc[p] # Closed}

\* The loop of updateAssetIntelligence visits hosts in address order: the last
\* of a set of holders is the one that leaves its address in the row.
IsLast(ip, holders) == ip \in holders /\ \A j \in holders : j <= ip
LastOf(holders) == CHOOSE ip \in holders : \A j \in holders : j <= ip

\* The name a row has after the loop: CASE WHEN ? <> '' THEN ? ELSE hostname.
NameAfter(hosts, holders, old) ==
    LET named == {ip \in holders : hosts[ip].name # NoName}
    IN  IF named = {} THEN old ELSE hosts[LastOf(named)].name

-----------------------------------------------------------------------------
(* SaveSnapshot *)

\* Mutation of Missed: the third missed scan is not enough.
MissedOffByOne(row) ==
    [row EXCEPT !.missed = @ + 1,
                !.state  = IF row.missed >= offlineAfterMisses
                           THEN "OFFLINE" ELSE "STALE"]

\* A row of this target that no host of the snapshot refreshes.
Missed(row) ==
    [row EXCEPT !.missed = @ + 1,
                !.state  = IF row.missed + 1 >= offlineAfterMisses
                           THEN "OFFLINE" ELSE "STALE"]

\* Mutation of Inserted: observation_count starts at zero.
InsertedUncounted(hosts, holders, at) ==
    [ip |-> LastOf(holders), name |-> NoName, device |-> Unknown, state |-> "NEW",
     missed |-> 0, count |-> 0, first |-> at, last |-> at]

\* The row of an identity seen for the first time.  The second of two hosts
\* with one identity finds the row of the first: it is an update already.
Inserted(hosts, holders, at) ==
    LET last == LastOf(holders)
    IN  [ip     |-> last,
         name   |-> NameAfter(hosts, holders, NoName),
         device |-> Classify(hosts[last].name, hosts[last].svc),
         state  |-> IF Cardinality(holders) = 1 THEN "NEW" ELSE "ACTIVE",
         missed |-> 0,
         count  |-> Cardinality(holders),
         first  |-> at,
         last   |-> at]

\* Mutation of Updated: missed_scans is not reset.
UpdatedKeepsMisses(row, hosts, holders, at) ==
    [row EXCEPT !.ip = LastOf(holders), !.state = "ACTIVE",
                !.count = @ + Cardinality(holders), !.last = at]

\* Mutation of Updated: one observation per scan, not per host.
UpdatedOnce(row, hosts, holders, at) ==
    [row EXCEPT !.ip = LastOf(holders), !.missed = 0, !.state = "ACTIVE",
                !.count = @ + 1, !.last = at]

\* The row of a known identity: the name sticks, the device type does not.
Updated(row, hosts, holders, at) ==
    LET last == LastOf(holders)
    IN  [ip     |-> last,
         name   |-> NameAfter(hosts, holders, row.name),
         device |-> Classify(hosts[last].name, hosts[last].svc),
         state  |-> "ACTIVE",
         missed |-> 0,
         count  |-> row.count + Cardinality(holders),
         first  |-> row.first,
         last   |-> at]

AssetAfter(row, hosts, k, at) ==
    LET holders == Holders(hosts, k)
    IN  CASE holders = {} /\ row = NoRow -> NoRow
          [] holders = {} /\ row # NoRow -> Missed(row)
          [] holders # {} /\ row = NoRow -> Inserted(hosts, holders, at)
          [] OTHER                       -> Updated(row, hosts, holders, at)

\* Mutation of HistoryAfter: present is not cleared before the hosts are visited.
HistoryAfterUncleared(row, hosts, k, p, at) ==
    LET holders == PortHolders(hosts, k, p)
    IN  IF holders = {} THEN row
        ELSE [ip |-> LastOf(holders), present |-> TRUE, count |-> Cardinality(holders),
              first |-> at, last |-> at]

\* A row of service_history: cleared first, present again if a host has the port.
HistoryAfter(row, hosts, k, p, at) ==
    LET holders == PortHolders(hosts, k, p)
    IN  CASE holders = {} /\ row = NoRow -> NoRow
          [] holders = {} /\ row # NoRow -> [row EXCEPT !.present = FALSE]
          [] OTHER -> [ip      |-> LastOf(holders),
                       present |-> TRUE,
                       count   |-> (IF row = NoRow THEN 0 ELSE row.count)
                                   + Cardinality(holders),
                       first   |-> IF row = NoRow THEN at ELSE row.first,
                       last    |-> at]

\* Mutation of Stored: the services are not written.
StoredWithoutServices(hosts) ==
    [ip \in IPs |-> IF hosts[ip] = Absent THEN Absent
                    ELSE [hosts[ip] EXCEPT !.svc = [p \in Ports |-> Closed]]]

\* The hosts as the hosts and services tables give them back.
Stored(hosts) ==
    [ip \in IPs |-> IF hosts[ip] = Absent THEN Absent
                    ELSE [hosts[ip] EXCEPT !.svc = Persisted(@)]]

SaveSnapshot(t, hosts, at, changes) ==
    /\ scans' = [scans EXCEPT ![t] =
                    Append(@, [at |-> at, hosts |-> Stored(hosts), changes |-> changes])]
    /\ assets' = [assets EXCEPT ![t] =
                    [k \in Identities |-> AssetAfter(assets[t][k], hosts, k, at)]]
    /\ history' = [history EXCEPT ![t] =
                    [k \in Identities |-> [p \in Ports |->
                        HistoryAfter(history[t][k][p], hosts, k, p, at)]]]

-----------------------------------------------------------------------------
(* Reads *)

\* LatestSnapshot: the scan with the highest id.
HasSnapshot(t) == scans[t] # <<>>

\* Mutation of LatestSnapshot: ORDER BY id without DESC.
OldestSnapshot(t) == scans[t][1]

\* Mutation of LatestSnapshot: ORDER BY created_at DESC.
LatestStamped(t) ==
    LET log == scans[t]
    IN  log[CHOOSE n \in DOMAIN log : \A m \in DOMAIN log : log[m].at <= log[n].at]

LatestSnapshot(t) == scans[t][Len(scans[t])]

\* KnownAssetIPs: current addresses of the assets that are not OFFLINE.
KnownAssetIPs(t) ==
    {assets[t][k].ip : k \in {j \in Identities :
        assets[t][j] # NoRow /\ assets[t][j].state # "OFFLINE"}}

\* The services and open ports of a snapshot, as diff.Compare sees them.
View(hosts) == [ip \in IPs |-> IF hosts[ip] = Absent THEN Absent ELSE hosts[ip].svc]

-----------------------------------------------------------------------------
StoreInit ==
    /\ scans = [t \in Targets |-> <<>>]
    /\ assets = [t \in Targets |-> [k \in Identities |-> NoRow]]
    /\ history = [t \in Targets |-> [k \in Identities |-> [p \in Ports |-> NoRow]]]

StoreNext ==
    \E t \in Targets, hosts \in Inventories, at \in Times, changes \in ChangeLists :
        /\ Len(scans[t]) < MaxScans
        /\ SaveSnapshot(t, hosts, at, changes)

StoreSpec == StoreInit /\ [][StoreNext]_storeVars

-----------------------------------------------------------------------------
(* Properties *)

\* The scans of target t in which identity k was observed.
Sightings(t, k) ==
    {n \in 1..Len(scans[t]) : Holders(scans[t][n].hosts, k) # {}}

IsFirstSighting(n, t, k) ==
    n \in Sightings(t, k) /\ \A m \in Sightings(t, k) : n <= m
IsLastSighting(n, t, k) ==
    n \in Sightings(t, k) /\ \A m \in Sightings(t, k) : m <= n

\* The asset table is a digest of the scan log: an identity has a row exactly
\* when some saved scan observed it, first_seen and last_seen are the times of
\* the first and the last scan that did, current_ip is an address it had in
\* that last scan, and missed_scans counts the scans saved since.
AssetsDigestLog ==
    \A t \in Targets, k \in Identities :
        /\ (assets[t][k] = NoRow) <=> (Sightings(t, k) = {})
        /\ \A n \in Sightings(t, k) :
            /\ IsFirstSighting(n, t, k) => assets[t][k].first = scans[t][n].at
            /\ IsLastSighting(n, t, k) =>
                /\ assets[t][k].last = scans[t][n].at
                /\ assets[t][k].missed = Len(scans[t]) - n
                /\ IsLast(assets[t][k].ip, Holders(scans[t][n].hosts, k))

\* An asset is OFFLINE exactly when the last three scans of its target all
\* missed it, STALE when the last one or two did, and NEW or ACTIVE when the
\* latest scan observed it: one missed observation never turns it OFFLINE.
StateTellsRecentSightings ==
    \A t \in Targets, k \in Identities :
        assets[t][k] # NoRow =>
            LET length == Len(scans[t])
                row    == assets[t][k]
            IN  /\ (row.state = "OFFLINE") <=>
                        \A n \in Sightings(t, k) : n + offlineAfterMisses <= length
                /\ (row.state \in {"NEW", "ACTIVE"}) <=> (length \in Sightings(t, k))

\* NEW is said of an asset in the scan that first observed it and never again,
\* and observation_count counts the addresses it was observed at, scan by scan.
CountAndNewAgreeWithLog ==
    \A t \in Targets, k \in Identities :
        assets[t][k] # NoRow =>
            /\ assets[t][k].count =
                    SumFunction([n \in DOMAIN scans[t] |->
                                    Cardinality(Holders(scans[t][n].hosts, k))])
            /\ assets[t][k].state = "NEW" => Sightings(t, k) = {Len(scans[t])}

\* A service is marked present exactly when the latest scan of the target found
\* it on its asset, and it has a history row when any scan did, even after the
\* asset moved to another address.
HistoryTellsLatestScan ==
    \A t \in Targets, k \in Identities, p \in Ports :
        LET row   == history[t][k][p]
            found == {n \in 1..Len(scans[t]) : PortHolders(scans[t][n].hosts, k, p) # {}}
        IN  /\ (row # NoRow) <=> (found # {})
            /\ row # NoRow =>
                /\ row.present <=> (Len(scans[t]) \in found)
                /\ \E n \in found : row.last = scans[t][n].at
                                    /\ \A m \in found : m <= n

\* A row mixes two observations: its name is the last one that was not empty, its
\* device type what the last observation alone says, name or no name.  A scan
\* whose reverse lookup fails leaves the name and takes back what it said of the
\* type; the two agree again only when a name is read again.
NameAndTypeDigestLog ==
    \A t \in Targets, k \in Identities :
        LET row       == assets[t][k]
            hosts(n)  == scans[t][n].hosts
            named(n)  == {ip \in Holders(hosts(n), k) : hosts(n)[ip].name # NoName}
            everNamed == {n \in Sightings(t, k) : named(n) # {}}
        IN  row # NoRow =>
            /\ \A n \in Sightings(t, k) : IsLastSighting(n, t, k) =>
                LET host == hosts(n)[LastOf(Holders(hosts(n), k))]
                IN  row.device = Classify(host.name, host.svc)
            /\ row.name = NoName <=> everNamed = {}
            /\ \A n \in everNamed : (\A m \in everNamed : m <= n) =>
                row.name = hosts(n)[LastOf(named(n))].name
=============================================================================
