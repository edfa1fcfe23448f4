-------------------------- MODULE AssetStoreProofs --------------------------
(***************************************************************************)
(* Proofs about Diff and AssetStore, for every set of targets, addresses,  *)
(* hardware addresses and ports, and for any number of scans: a change     *)
(* list lets a reader rebuild the exposure of the later snapshot from that *)
(* of the earlier; the tables keep their types; and the asset table, its   *)
(* counts, names and states and the service history are digests of the     *)
(* scan log, whoever saves.                                                *)
(***************************************************************************)
EXTENDS AssetStore, SumProofs, SequenceTheorems

-----------------------------------------------------------------------------
(* The comparison of snapshots *)

\* The fields of the records, so that the records need not be opened below.
LEMMA ChangeFields ==
    /\ \A type, ip : HostChange(type, ip).type = type /\ HostChange(type, ip).host = ip
    /\ \A type, ip, p : /\ ServiceChange(type, ip, p).type = type
                        /\ ServiceChange(type, ip, p).host = ip
                        /\ ServiceChange(type, ip, p).port = p
    /\ \A ip, p, was, now : /\ FingerprintChange(ip, p, was, now).type = "SERVICE_CHANGED"
                            /\ FingerprintChange(ip, p, was, now).host = ip
BY DEF HostChange, ServiceChange, FingerprintChange

\* The changes between two views are change records.
LEMMA CompareType ==
    ASSUME NEW a \in Views, NEW b \in Views
    PROVE  Compare(a, b) \in SUBSET Change
<1>1. ASSUME NEW ip \in IPs, NEW type \in ChangeTypes, NEW p \in Ports
      PROVE  ServiceChange(type, ip, p) \in Change
    BY DEF ServiceChange, Change
<1>2. ASSUME NEW ip \in IPs, NEW p \in Ports, NEW was \in Prints, NEW now \in Prints
      PROVE  FingerprintChange(ip, p, was, now) \in Change
    BY DEF FingerprintChange, Change, ChangeTypes
<1>3. {"HOST_ADDED", "HOST_REMOVED", "SERVICE_ADDED", "SERVICE_REMOVED"} \subseteq ChangeTypes
    BY DEF ChangeTypes
<1>4. ASSUME NEW ip \in IPs, NEW before \in Services, NEW after \in Services
      PROVE  CompareServices(ip, before, after) \subseteq Change
    <2>1. \A p \in OpenPorts(before) : p \in Ports /\ before[p] \in Prints
        BY DEF OpenPorts, Services
    <2>2. \A p \in OpenPorts(after) : p \in Ports /\ after[p] \in Prints
        BY DEF OpenPorts, Services
    <2>3. QED
        BY <1>1, <1>2, <1>3, <2>1, <2>2 DEF CompareServices
<1>5. ASSUME NEW ip \in IPs
      PROVE  CompareHost(ip, a[ip], b[ip]) \subseteq Change
    <2>1. a[ip] \in Services \cup {Absent} /\ b[ip] \in Services \cup {Absent}
        BY DEF Views
    <2>2. \A svc : OpenPorts(svc) \subseteq Ports
        BY DEF OpenPorts
    <2>3. \A p \in Ports : ServiceChange("SERVICE_ADDED", ip, p) \in Change
                          /\ ServiceChange("SERVICE_REMOVED", ip, p) \in Change
        BY <1>1, <1>3
    <2>4. CASE a[ip] # Absent /\ b[ip] # Absent
        BY <1>4, <2>1, <2>4 DEF CompareHost
    <2>5. CASE a[ip] = Absent /\ b[ip] # Absent
        <3>1. HostChange("HOST_ADDED", ip) \in Change
            BY <1>3 DEF HostChange, Change
        <3>2. QED
            BY <2>2, <2>3, <2>5, <3>1 DEF CompareHost
    <2>6. CASE a[ip] # Absent /\ b[ip] = Absent
        <3>1. HostChange("HOST_REMOVED", ip) \in Change
            BY <1>3 DEF HostChange, Change
        <3>2. QED
            BY <2>2, <2>3, <2>6, <3>1 DEF CompareHost
    <2>7. CASE a[ip] = Absent /\ b[ip] = Absent
        BY <2>7 DEF CompareHost
    <2>8. QED
        BY <2>4, <2>5, <2>6, <2>7
<1>6. QED
    BY <1>5 DEF Compare

\* A change names the host it was found at.
LEMMA CompareHostNamesHost ==
    ASSUME NEW ip, NEW before, NEW after, NEW c \in CompareHost(ip, before, after)
    PROVE  c.host = ip
BY ChangeFields DEF CompareHost, CompareServices

\* What a change list says of a host is what comparing that host said.
LEMMA ChangesOfHost ==
    ASSUME NEW a, NEW b, NEW ip \in IPs, NEW c
    PROVE  (c \in Compare(a, b) /\ c.host = ip) <=> c \in CompareHost(ip, a[ip], b[ip])
BY CompareHostNamesHost DEF Compare

\* The types and ports of the changes of one host, by what the host was before.
LEMMA HostAdded ==
    ASSUME NEW ip, NEW after \in Services
    PROVE  LET changes == CompareHost(ip, Absent, after)
           IN  /\ \E c \in changes : c.type = "HOST_ADDED"
               /\ \A c \in changes : c.type # "HOST_REMOVED" /\ c.type # "SERVICE_REMOVED"
               /\ \A p \in Ports : (\E c \in changes : c.type = "SERVICE_ADDED" /\ c.port = p)
                                   <=> p \in OpenPorts(after)
<1>1. after # Absent
    BY AbsentAssumption
<1>2. CompareHost(ip, Absent, after) =
        {HostChange("HOST_ADDED", ip)}
        \cup {ServiceChange("SERVICE_ADDED", ip, p) : p \in OpenPorts(after)}
    BY <1>1 DEF CompareHost
<1> DEFINE host  == {HostChange("HOST_ADDED", ip)}
           added == {ServiceChange("SERVICE_ADDED", ip, p) : p \in OpenPorts(after)}
<1>3. /\ \A c \in host : c.type = "HOST_ADDED"
      /\ \A c \in added : c.type = "SERVICE_ADDED"
      /\ \E c \in host : c.type = "HOST_ADDED"
    BY ChangeFields
<1>4. ASSUME NEW p PROVE (\E c \in added : c.port = p) <=> p \in OpenPorts(after)
    <2>1. p \in OpenPorts(after) => ServiceChange("SERVICE_ADDED", ip, p) \in added
        OBVIOUS
    <2>2. QED
        BY <2>1, ChangeFields
<1>5. CompareHost(ip, Absent, after) = host \cup added
    BY <1>2
<1> HIDE DEF host, added
<1>6. QED
    BY <1>3, <1>4, <1>5

LEMMA HostRemoved ==
    ASSUME NEW ip, NEW before \in Services
    PROVE  \E c \in CompareHost(ip, before, Absent) : c.type = "HOST_REMOVED"
<1>1. before # Absent
    BY AbsentAssumption
<1>2. HostChange("HOST_REMOVED", ip) \in CompareHost(ip, before, Absent)
    BY <1>1 DEF CompareHost
<1>3. HostChange("HOST_REMOVED", ip).type = "HOST_REMOVED"
    BY DEF HostChange
<1>4. QED
    BY <1>2, <1>3

LEMMA HostKept ==
    ASSUME NEW ip, NEW before \in Services, NEW after \in Services
    PROVE  LET changes == CompareHost(ip, before, after)
           IN  /\ \A c \in changes : c.type # "HOST_REMOVED" /\ c.type # "HOST_ADDED"
               /\ \A p \in Ports : (\E c \in changes : c.type = "SERVICE_ADDED" /\ c.port = p)
                                   <=> p \in OpenPorts(after) \ OpenPorts(before)
               /\ \A p \in Ports : (\E c \in changes : c.type = "SERVICE_REMOVED" /\ c.port = p)
                                   <=> p \in OpenPorts(before) \ OpenPorts(after)
<1>1. before # Absent /\ after # Absent
    BY AbsentAssumption
<1>2. CompareHost(ip, before, after) = CompareServices(ip, before, after)
    BY <1>1 DEF CompareHost
<1> DEFINE added   == {ServiceChange("SERVICE_ADDED", ip, p) :
                        p \in OpenPorts(after) \ OpenPorts(before)}
           removed == {ServiceChange("SERVICE_REMOVED", ip, p) :
                        p \in OpenPorts(before) \ OpenPorts(after)}
           changed == {FingerprintChange(ip, p, before[p], after[p]) :
                        p \in {q \in OpenPorts(before) \cap OpenPorts(after) :
                                before[q] # after[q]}}
<1>3. CompareHost(ip, before, after) = added \cup removed \cup changed
    BY <1>2 DEF CompareServices
<1>4. /\ \A c \in added : c.type = "SERVICE_ADDED"
      /\ \A c \in removed : c.type = "SERVICE_REMOVED"
      /\ \A c \in changed : c.type = "SERVICE_CHANGED"
    BY ChangeFields
<1>5. ASSUME NEW p
      PROVE  (\E c \in added : c.port = p) <=> p \in OpenPorts(after) \ OpenPorts(before)
    <2>1. p \in OpenPorts(after) \ OpenPorts(before) =>
            ServiceChange("SERVICE_ADDED", ip, p) \in added
        OBVIOUS
    <2>2. QED
        BY <2>1, ChangeFields
<1>6. ASSUME NEW p
      PROVE  (\E c \in removed : c.port = p) <=> p \in OpenPorts(before) \ OpenPorts(after)
    <2>1. p \in OpenPorts(before) \ OpenPorts(after) =>
            ServiceChange("SERVICE_REMOVED", ip, p) \in removed
        OBVIOUS
    <2>2. QED
        BY <2>1, ChangeFields
<1> HIDE DEF added, removed, changed
<1>7. QED
    BY <1>3, <1>4, <1>5, <1>6

\* Replaying the changes between two snapshots on the exposure of the first gives
\* the exposure of the second: no host or service that came or went is missing
\* from the change list, and none is in it that did not.
THEOREM ReplayRebuildsExposure ==
    ASSUME NEW a \in Views, NEW b \in Views
    PROVE  Replay(Exposure(a), Compare(a, b)) = Exposure(b)
<1> DEFINE changes == Compare(a, b)
           said(ip, type) == \E c \in changes : c.type = type /\ c.host = ip
           ports(ip, type) == {p \in Ports : \E c \in changes :
                                c.type = type /\ c.host = ip /\ c.port = p}
           before(ip) == Exposure(a)[ip]
           known(ip) == IF before(ip) = Absent THEN {} ELSE before(ip)
<1>1. Replay(Exposure(a), changes) =
        [ip \in IPs |->
            IF said(ip, "HOST_REMOVED") \/ (before(ip) = Absent /\ ~said(ip, "HOST_ADDED"))
            THEN Absent
            ELSE (known(ip) \ ports(ip, "SERVICE_REMOVED")) \cup ports(ip, "SERVICE_ADDED")]
    BY DEF Replay
<1>2. ASSUME NEW ip \in IPs
      PROVE  Exposure(b)[ip] =
                IF said(ip, "HOST_REMOVED") \/ (before(ip) = Absent /\ ~said(ip, "HOST_ADDED"))
                THEN Absent
                ELSE (known(ip) \ ports(ip, "SERVICE_REMOVED")) \cup ports(ip, "SERVICE_ADDED")
    <2> DEFINE mine == CompareHost(ip, a[ip], b[ip])
    <2>1. \A c : (c \in changes /\ c.host = ip) <=> c \in mine
        BY ChangesOfHost
    <2>2. /\ \A type : said(ip, type) <=> \E c \in mine : c.type = type
          /\ \A type : ports(ip, type) =
                {p \in Ports : \E c \in mine : c.type = type /\ c.port = p}
        BY <2>1
    <2>3. /\ before(ip) = IF a[ip] = Absent THEN Absent ELSE OpenPorts(a[ip])
          /\ Exposure(b)[ip] = IF b[ip] = Absent THEN Absent ELSE OpenPorts(b[ip])
        BY DEF Exposure
    <2>4. a[ip] \in Services \cup {Absent} /\ b[ip] \in Services \cup {Absent}
        BY DEF Views
    <2>5. \A svc : OpenPorts(svc) \subseteq Ports /\ OpenPorts(svc) # Absent
        BY AbsentAssumption DEF OpenPorts
    <2>6. CASE a[ip] = Absent /\ b[ip] = Absent
        <3>1. mine = {}
            BY <2>6 DEF CompareHost
        <3>2. QED
            BY <2>2, <2>3, <2>6, <3>1
    <2>7. CASE a[ip] = Absent /\ b[ip] # Absent
        <3>1. b[ip] \in Services
            BY <2>4, <2>7
        <3>2. /\ said(ip, "HOST_ADDED") /\ ~said(ip, "HOST_REMOVED")
              /\ ports(ip, "SERVICE_REMOVED") = {}
              /\ ports(ip, "SERVICE_ADDED") = OpenPorts(b[ip])
            <4> HIDE DEF said, ports
            <4>1. QED
                BY <2>2, <2>5, <2>7, <3>1, HostAdded
        <3> HIDE DEF said, ports
        <3>3. QED
            BY <2>3, <2>7, <3>2
    <2>8. CASE a[ip] # Absent /\ b[ip] = Absent
        <3>1. said(ip, "HOST_REMOVED")
            BY <2>2, <2>4, <2>8, HostRemoved
        <3>2. QED
            BY <2>3, <2>8, <3>1
    <2>9. CASE a[ip] # Absent /\ b[ip] # Absent
        <3>1. a[ip] \in Services /\ b[ip] \in Services
            BY <2>4, <2>9
        <3>2. /\ ~said(ip, "HOST_REMOVED")
              /\ ports(ip, "SERVICE_ADDED") = OpenPorts(b[ip]) \ OpenPorts(a[ip])
              /\ ports(ip, "SERVICE_REMOVED") = OpenPorts(a[ip]) \ OpenPorts(b[ip])
            <4>1. /\ \A c \in mine : c.type # "HOST_REMOVED"
                  /\ \A p \in Ports : (\E c \in mine : c.type = "SERVICE_ADDED" /\ c.port = p)
                                      <=> p \in OpenPorts(b[ip]) \ OpenPorts(a[ip])
                  /\ \A p \in Ports : (\E c \in mine : c.type = "SERVICE_REMOVED" /\ c.port = p)
                                      <=> p \in OpenPorts(a[ip]) \ OpenPorts(b[ip])
                BY <3>1, HostKept
            <4> HIDE DEF said, ports, mine
            <4>2. QED
                BY <2>2, <2>5, <4>1
        <3> HIDE DEF said, ports
        <3>3. QED
            BY <2>3, <2>5, <2>9, <3>2
    <2>10. QED
        BY <2>6, <2>7, <2>8, <2>9
<1> HIDE DEF said, ports, before, known, changes
<1>3. QED
    BY <1>1, <1>2 DEF Exposure, changes

\* No change is reported exactly when the two snapshots have the same hosts with
\* the same services and fingerprints.
THEOREM NoChangeMeansSameView ==
    ASSUME NEW a \in Views, NEW b \in Views
    PROVE  Compare(a, b) = {} <=> a = b
<1>1. ASSUME NEW ip \in IPs
      PROVE  CompareHost(ip, a[ip], b[ip]) = {} <=> a[ip] = b[ip]
    <2>1. a[ip] \in Services \cup {Absent} /\ b[ip] \in Services \cup {Absent}
        BY DEF Views
    <2>2. CASE a[ip] = Absent \/ b[ip] = Absent
        BY <2>2 DEF CompareHost
    <2>3. CASE a[ip] # Absent /\ b[ip] # Absent
        <3>1. a[ip] \in Services /\ b[ip] \in Services
            BY <2>1, <2>3
        <3>2. CompareHost(ip, a[ip], b[ip]) = CompareServices(ip, a[ip], b[ip])
            BY <2>3 DEF CompareHost
        <3>3. CompareServices(ip, a[ip], b[ip]) = {} <=>
                /\ OpenPorts(b[ip]) \subseteq OpenPorts(a[ip])
                /\ OpenPorts(a[ip]) \subseteq OpenPorts(b[ip])
                /\ \A p \in OpenPorts(a[ip]) \cap OpenPorts(b[ip]) : a[ip][p] = b[ip][p]
            BY DEF CompareServices
        <3>4. a[ip] = b[ip] <=> \A p \in Ports : a[ip][p] = b[ip][p]
            BY <3>1 DEF Services
        <3>5. QED
            BY <3>2, <3>3, <3>4 DEF OpenPorts
    <2>4. QED
        BY <2>2, <2>3
<1>2. Compare(a, b) = {} <=> \A ip \in IPs : CompareHost(ip, a[ip], b[ip]) = {}
    BY DEF Compare
<1>3. a = b <=> \A ip \in IPs : a[ip] = b[ip]
    BY DEF Views
<1>4. QED
    BY <1>1, <1>2, <1>3

-----------------------------------------------------------------------------
(* Types *)

\* The holders of an identity, when there are any, have a last one.
LEMMA LastOfHolders ==
    ASSUME NEW holders \in SUBSET IPs, holders # {}
    PROVE  /\ IsLast(LastOf(holders), holders)
           /\ LastOf(holders) \in IPs
           /\ Cardinality(holders) \in Nat \ {0}
<1>1. holders \subseteq Nat /\ IsFiniteSet(holders)
    BY AddressAssumption, FS_Subset DEF AddressAssumption
<1>2. \E ip \in holders : \A j \in holders : j <= ip
    BY <1>1, FiniteSetHasMax
<1>3. IsLast(LastOf(holders), holders)
    BY <1>2 DEF IsLast, LastOf
<1>4. Cardinality(holders) \in Nat /\ Cardinality(holders) # 0
    BY <1>1, FS_CardinalityType, FS_EmptySet
<1>5. QED
    BY <1>3, <1>4 DEF IsLast

Hosts == [IPs -> Host \cup {Absent}]

LEMMA HoldersType ==
    ASSUME NEW hosts \in Hosts, NEW k, NEW ip \in Holders(hosts, k)
    PROVE  ip \in IPs /\ hosts[ip] \in Host
BY DEF Hosts, Holders

LEMMA InventoriesAreHosts == Inventories \subseteq Hosts
BY StoreAssumption DEF StoreAssumption, Inventories, Hosts

LEMMA NameAfterType ==
    ASSUME NEW hosts \in Hosts, NEW k, NEW old \in Names \cup {NoName}
    PROVE  NameAfter(hosts, Holders(hosts, k), old) \in Names \cup {NoName}
<1> DEFINE named == {ip \in Holders(hosts, k) : hosts[ip].name # NoName}
<1>1. CASE named = {}
    BY <1>1 DEF NameAfter
<1>2. CASE named # {}
    <2>1. named \subseteq IPs
        BY DEF Holders
    <2>2. LastOf(named) \in Holders(hosts, k)
        BY <1>2, <2>1, LastOfHolders DEF IsLast
    <2>3. hosts[LastOf(named)].name \in Names \cup {NoName}
        BY <2>2, HoldersType DEF Host
    <2>4. NameAfter(hosts, Holders(hosts, k), old) = hosts[LastOf(named)].name
        BY <1>2 DEF NameAfter
    <2>5. QED
        BY <2>3, <2>4
<1>3. QED
    BY <1>1, <1>2

LEMMA ClassifyType ==
    ASSUME NEW host \in Host
    PROVE  Classify(host.name, host.svc) \in DeviceTypes
BY DEF Classify, DeviceTypes, Host

\* What SaveSnapshot makes of a row is a row, and only an identity that was
\* neither known nor observed stays without one.
LEMMA AssetAfterType ==
    ASSUME NEW hosts \in Hosts, NEW k, NEW at \in Times,
           NEW row \in AssetRow \cup {NoRow}
    PROVE  /\ AssetAfter(row, hosts, k, at) \in AssetRow \cup {NoRow}
           /\ (AssetAfter(row, hosts, k, at) = NoRow)
                <=> (row = NoRow /\ Holders(hosts, k) = {})
<1> DEFINE holders == Holders(hosts, k)
<1> DEFINE last == LastOf(holders)
<1>1. CASE holders = {} /\ row = NoRow
    BY <1>1 DEF AssetAfter
<1>2. CASE holders = {} /\ row # NoRow
    <2>1. AssetAfter(row, hosts, k, at) = Missed(row)
        BY <1>2 DEF AssetAfter
    <2>2. Missed(row) \in AssetRow
        <3> DEFINE state == IF row.missed + 1 >= offlineAfterMisses
                            THEN "OFFLINE" ELSE "STALE"
        <3>1. row \in AssetRow /\ row.missed + 1 \in Nat
            BY <1>2 DEF AssetRow
        <3>2. state \in States
            BY DEF States
        <3> HIDE DEF state
        <3>3. [row EXCEPT !.missed = row.missed + 1, !.state = state] \in AssetRow
            BY <3>1, <3>2 DEF AssetRow
        <3>4. QED
            BY <3>3 DEF Missed, state
    <2>3. QED
        BY <1>2, <2>1, <2>2, AssetRowAssumption DEF AssetRowAssumption
<1>3. ASSUME holders # {}
      PROVE  /\ last \in IPs
             /\ Classify(hosts[last].name, hosts[last].svc) \in DeviceTypes
             /\ Cardinality(holders) \in Nat \ {0}
    <2>1. holders \subseteq IPs
        BY DEF Holders
    <2>2. last \in holders /\ Cardinality(holders) \in Nat \ {0}
        BY <1>3, <2>1, LastOfHolders DEF IsLast
    <2>3. hosts[last] \in Host
        BY <2>2, HoldersType
    <2>4. QED
        BY <2>1, <2>2, <2>3, ClassifyType
<1>4. CASE holders # {} /\ row = NoRow
    <2>1. AssetAfter(row, hosts, k, at) = Inserted(hosts, holders, at)
        BY <1>4 DEF AssetAfter
    <2>2. NameAfter(hosts, holders, NoName) \in Names \cup {NoName}
        BY NameAfterType
    <2>3. Inserted(hosts, holders, at) \in AssetRow
        BY <1>3, <1>4, <2>2 DEF Inserted, AssetRow, States
    <2>4. QED
        BY <1>4, <2>1, <2>3, AssetRowAssumption DEF AssetRowAssumption
<1>5. CASE holders # {} /\ row # NoRow
    <2>1. AssetAfter(row, hosts, k, at) = Updated(row, hosts, holders, at)
        BY <1>5 DEF AssetAfter
    <2>2. NameAfter(hosts, holders, row.name) \in Names \cup {NoName}
        BY <1>5, NameAfterType DEF AssetRow
    <2>3. Updated(row, hosts, holders, at) \in AssetRow
        BY <1>3, <1>5, <2>2 DEF Updated, AssetRow, States
    <2>4. QED
        BY <1>5, <2>1, <2>3, AssetRowAssumption DEF AssetRowAssumption
<1>6. QED
    BY <1>1, <1>2, <1>4, <1>5

LEMMA HistoryAfterType ==
    ASSUME NEW hosts \in Hosts, NEW k, NEW p \in Ports, NEW at \in Times,
           NEW row \in HistoryRow \cup {NoRow}
    PROVE  /\ HistoryAfter(row, hosts, k, p, at) \in HistoryRow \cup {NoRow}
           /\ (HistoryAfter(row, hosts, k, p, at) = NoRow)
                <=> (row = NoRow /\ PortHolders(hosts, k, p) = {})
<1> DEFINE holders == PortHolders(hosts, k, p)
<1>1. CASE holders = {} /\ row = NoRow
    BY <1>1 DEF HistoryAfter
<1>2. CASE holders = {} /\ row # NoRow
    <2>1. HistoryAfter(row, hosts, k, p, at) = [row EXCEPT !.present = FALSE]
        BY <1>2 DEF HistoryAfter
    <2>2. [row EXCEPT !.present = FALSE] \in HistoryRow
        BY <1>2 DEF HistoryRow
    <2>3. QED
        BY <1>2, <2>1, <2>2, HistoryRowAssumption DEF HistoryRowAssumption
<1>3. CASE holders # {}
    <2> DEFINE new == [ip      |-> LastOf(holders),
                       present |-> TRUE,
                       count   |-> (IF row = NoRow THEN 0 ELSE row.count)
                                   + Cardinality(holders),
                       first   |-> IF row = NoRow THEN at ELSE row.first,
                       last    |-> at]
    <2>1. HistoryAfter(row, hosts, k, p, at) = new
        BY <1>3 DEF HistoryAfter
    <2>2. LastOf(holders) \in IPs /\ Cardinality(holders) \in Nat \ {0}
        <3>1. holders \subseteq IPs
            BY DEF PortHolders, Holders
        <3>2. QED
            BY <1>3, <3>1, LastOfHolders
    <2>3. CASE row = NoRow
        <3>1. new \in HistoryRow
            BY <2>2, <2>3 DEF HistoryRow
        <3>2. QED
            BY <1>3, <2>1, <3>1, HistoryRowAssumption DEF HistoryRowAssumption
    <2>4. CASE row # NoRow
        <3>1. new \in HistoryRow
            BY <2>2, <2>4 DEF HistoryRow
        <3>2. QED
            BY <1>3, <2>1, <3>1, HistoryRowAssumption DEF HistoryRowAssumption
    <2>5. QED
        BY <2>3, <2>4
<1>4. QED
    BY <1>1, <1>2, <1>3

\* The database gives back hosts with the same addresses, identities and open
\* ports: only fingerprints change.
LEMMA StoredKeepsIdentities ==
    ASSUME NEW hosts \in Hosts
    PROVE  /\ Stored(hosts) \in Hosts
           /\ \A k : Holders(Stored(hosts), k) = Holders(hosts, k)
           /\ \A k : \A p \in Ports :
                PortHolders(Stored(hosts), k, p) = PortHolders(hosts, k, p)
<1>1. ASSUME NEW ip \in IPs, hosts[ip] # Absent
      PROVE  /\ Stored(hosts)[ip] \in Host
             /\ Stored(hosts)[ip] # Absent
             /\ Stored(hosts)[ip].mac = hosts[ip].mac
             /\ \A p \in Ports : (Stored(hosts)[ip].svc[p] = Closed)
                                   <=> (hosts[ip].svc[p] = Closed)
    <2> DEFINE host == hosts[ip]
    <2>1. host \in Host
        BY <1>1 DEF Hosts
    <2>2. Persisted(host.svc) \in Services
        BY <2>1, PrintAssumption DEF Persisted, Services, Host, PrintAssumption
    <2>3. Stored(hosts)[ip] = [host EXCEPT !.svc = Persisted(host.svc)]
        BY <1>1 DEF Stored
    <2>4. \A p \in Ports : (Persisted(host.svc)[p] = Closed) <=> (host.svc[p] = Closed)
        BY <2>1, PrintAssumption DEF Persisted, Services, Host, PrintAssumption
    <2>5. [host EXCEPT !.svc = Persisted(host.svc)] \in Host
        BY <2>1, <2>2 DEF Host
    <2>6. Absent \notin Host
        BY StoreAssumption DEF StoreAssumption
    <2>7. /\ Stored(hosts)[ip].mac = host.mac
          /\ Stored(hosts)[ip].svc = Persisted(host.svc)
        BY <2>1, <2>3 DEF Host
    <2>8. QED
        BY <2>3, <2>4, <2>5, <2>6, <2>7
<1>2. \A ip \in IPs : hosts[ip] = Absent => Stored(hosts)[ip] = Absent
    BY DEF Stored
<1>3. Stored(hosts) \in Hosts
    <2>1. \A ip \in IPs : Stored(hosts)[ip] \in Host \cup {Absent}
        BY <1>1, <1>2
    <2>2. Stored(hosts) = [ip \in IPs |-> Stored(hosts)[ip]]
        BY DEF Stored
    <2>3. QED
        BY <2>1, <2>2 DEF Hosts
<1>4. ASSUME NEW k PROVE Holders(Stored(hosts), k) = Holders(hosts, k)
    BY <1>1, <1>2 DEF Holders, IdentityKey
<1>5. ASSUME NEW k, NEW p \in Ports
      PROVE  PortHolders(Stored(hosts), k, p) = PortHolders(hosts, k, p)
    <2>1. \A ip \in Holders(hosts, k) : ip \in IPs /\ hosts[ip] # Absent
        BY DEF Holders
    <2>2. QED
        BY <1>1, <1>4, <2>1 DEF PortHolders
<1>6. QED
    BY <1>3, <1>4, <1>5

\* What Compare sees of hosts is a view.
LEMMA ViewType ==
    ASSUME NEW hosts \in Hosts
    PROVE  View(hosts) \in Views
<1>1. \A ip \in IPs : hosts[ip] # Absent => hosts[ip].svc \in Services
    BY DEF Hosts, Host
<1>2. QED
    BY <1>1 DEF View, Views

\* What one transaction does, as facts about each table.
LEMMA SaveSnapshotEffect ==
    ASSUME TypeOK, NEW t \in Targets, NEW hosts \in Hosts, NEW at \in Times,
           NEW changes \in SUBSET Change, SaveSnapshot(t, hosts, at, changes)
    PROVE  LET scan == [at |-> at, hosts |-> Stored(hosts), changes |-> changes]
           IN  /\ scan \in Scan
               /\ scans'[t] = Append(scans[t], scan)
               /\ \A k \in Identities :
                    assets'[t][k] = AssetAfter(assets[t][k], hosts, k, at)
               /\ \A k \in Identities, p \in Ports :
                    history'[t][k][p] = HistoryAfter(history[t][k][p], hosts, k, p, at)
               /\ \A u \in Targets \ {t} :
                    /\ scans'[u] = scans[u]
                    /\ assets'[u] = assets[u]
                    /\ history'[u] = history[u]
<1>1. [at |-> at, hosts |-> Stored(hosts), changes |-> changes] \in Scan
    BY StoredKeepsIdentities DEF Scan, Hosts
<1>2. QED
    BY <1>1 DEF TypeOK, SaveSnapshot

\* SaveSnapshot writes only rows of the schema.
LEMMA SaveSnapshotType ==
    ASSUME TypeOK, NEW t \in Targets, NEW hosts \in Hosts, NEW at \in Times,
           NEW changes \in SUBSET Change, SaveSnapshot(t, hosts, at, changes)
    PROVE  TypeOK'
<1>1. scans' \in [Targets -> Seq(Scan)]
    <2>1. [at |-> at, hosts |-> Stored(hosts), changes |-> changes] \in Scan
        BY SaveSnapshotEffect
    <2>2. QED
        BY <2>1, AppendProperties DEF TypeOK, SaveSnapshot
<1>2. assets' \in [Targets -> [Identities -> AssetRow \cup {NoRow}]]
    <2>1. ASSUME NEW k \in Identities
          PROVE  AssetAfter(assets[t][k], hosts, k, at) \in AssetRow \cup {NoRow}
        <3>1. assets[t][k] \in AssetRow \cup {NoRow}
            BY DEF TypeOK
        <3>2. QED
            BY <3>1, AssetAfterType
    <2>2. QED
        BY <2>1 DEF TypeOK, SaveSnapshot
<1>3. history' \in [Targets -> [Identities -> [Ports -> HistoryRow \cup {NoRow}]]]
    <2>1. ASSUME NEW k \in Identities, NEW p \in Ports
          PROVE  HistoryAfter(history[t][k][p], hosts, k, p, at)
                    \in HistoryRow \cup {NoRow}
        <3>1. history[t][k][p] \in HistoryRow \cup {NoRow}
            BY DEF TypeOK
        <3>2. QED
            BY <3>1, HistoryAfterType
    <2>2. QED
        BY <2>1 DEF TypeOK, SaveSnapshot
<1>4. QED
    BY <1>1, <1>2, <1>3 DEF TypeOK

\* A transaction that saves any snapshot of the schema for any target.
AnySave ==
    \E t \in Targets, hosts \in Hosts, at \in Times, changes \in SUBSET Change :
        SaveSnapshot(t, hosts, at, changes)

LEMMA StoreStepSaves == [StoreNext]_storeVars => [AnySave]_storeVars
BY InventoriesAreHosts, StoreAssumption DEF StoreNext, AnySave, StoreAssumption

\* A step of the store writes only rows of the schema.
LEMMA TypePreserved == TypeOK /\ [StoreNext]_storeVars => TypeOK'
<1>1. CASE StoreNext
    BY <1>1, InventoriesAreHosts, StoreAssumption, SaveSnapshotType
       DEF StoreNext, StoreAssumption
<1>2. CASE UNCHANGED storeVars
    BY <1>2 DEF TypeOK, storeVars
<1>3. QED
    BY <1>1, <1>2

\* The tables keep their types: SaveSnapshot writes only rows of the schema.
THEOREM TypeCorrect == StoreSpec => []TypeOK
<1>1. StoreInit => TypeOK
    BY DEF StoreInit, TypeOK
<1>2. QED
    BY <1>1, TypePreserved, PTL DEF StoreSpec

-----------------------------------------------------------------------------
(* The asset table is a digest of the log *)

\* state is a function of missed_scans, but for NEW and ACTIVE.
StateFollowsMisses ==
    \A t \in Targets, k \in Identities :
        assets[t][k] # NoRow =>
            /\ (assets[t][k].state = "OFFLINE") <=> (assets[t][k].missed >= 3)
            /\ (assets[t][k].state \in {"NEW", "ACTIVE"}) <=> (assets[t][k].missed = 0)

DigestInv == TypeOK /\ AssetsDigestLog /\ StateFollowsMisses

\* The log after a transaction: one more scan, which observed an identity if and
\* only if the snapshot held it.
LEMMA LogStep ==
    ASSUME TypeOK, NEW t \in Targets, NEW hosts \in Hosts, NEW at \in Times,
           NEW changes \in SUBSET Change, SaveSnapshot(t, hosts, at, changes),
           NEW k
    PROVE  LET length == Len(scans[t])
           IN  /\ length \in Nat
               /\ Len(scans'[t]) = length + 1
               /\ \A n \in 1..length : scans'[t][n] = scans[t][n]
               /\ scans'[t][length + 1].at = at
               /\ Holders(scans'[t][length + 1].hosts, k) = Holders(hosts, k)
               /\ Sightings(t, k)' = IF Holders(hosts, k) = {} THEN Sightings(t, k)
                                     ELSE Sightings(t, k) \cup {length + 1}
<1> DEFINE scan == [at |-> at, hosts |-> Stored(hosts), changes |-> changes]
<1> DEFINE length == Len(scans[t])
<1>1. scan \in Scan /\ scans'[t] = Append(scans[t], scan)
    BY SaveSnapshotEffect
<1>2. scans[t] \in Seq(Scan)
    BY DEF TypeOK
<1>3. /\ length \in Nat
      /\ Len(scans'[t]) = length + 1
      /\ \A n \in 1..length : scans'[t][n] = scans[t][n]
      /\ scans'[t][length + 1] = scan
    BY <1>1, <1>2, AppendProperties, LenProperties
<1>4. scan.at = at /\ Holders(scan.hosts, k) = Holders(hosts, k)
    BY StoredKeepsIdentities
<1> HIDE DEF scan
<1>5. Sightings(t, k)' =
        {n \in 1..(length + 1) : Holders(scans'[t][n].hosts, k) # {}}
    BY <1>3 DEF Sightings
<1>6. Sightings(t, k) = {n \in 1..length : Holders(scans[t][n].hosts, k) # {}}
    BY DEF Sightings
<1>7. 1..(length + 1) = (1..length) \cup {length + 1}
    BY <1>3
<1>8. QED
    BY <1>3, <1>4, <1>5, <1>6, <1>7

\* The digest of one identity, the body of AssetsDigestLog.
Digest(t, k) ==
    /\ (assets[t][k] = NoRow) <=> (Sightings(t, k) = {})
    /\ \A n \in Sightings(t, k) :
        /\ IsFirstSighting(n, t, k) => assets[t][k].first = scans[t][n].at
        /\ IsLastSighting(n, t, k) =>
            /\ assets[t][k].last = scans[t][n].at
            /\ assets[t][k].missed = Len(scans[t]) - n
            /\ IsLast(assets[t][k].ip, Holders(scans[t][n].hosts, k))

LEMMA DigestStep ==
    ASSUME TypeOK, NEW t \in Targets, NEW hosts \in Hosts, NEW at \in Times,
           NEW changes \in SUBSET Change, SaveSnapshot(t, hosts, at, changes),
           NEW k \in Identities, Digest(t, k)
    PROVE  Digest(t, k)'
<1> DEFINE length  == Len(scans[t])
           holders == Holders(hosts, k)
           row     == assets[t][k]
<1>1. /\ length \in Nat
      /\ Len(scans'[t]) = length + 1
      /\ \A n \in 1..length : scans'[t][n] = scans[t][n]
      /\ scans'[t][length + 1].at = at
      /\ Holders(scans'[t][length + 1].hosts, k) = holders
      /\ Sightings(t, k)' = IF holders = {} THEN Sightings(t, k)
                            ELSE Sightings(t, k) \cup {length + 1}
    BY LogStep
<1>2. assets'[t][k] = AssetAfter(row, hosts, k, at)
    BY SaveSnapshotEffect
<1>3. row \in AssetRow \cup {NoRow}
    BY DEF TypeOK
<1>4. (assets'[t][k] = NoRow) <=> (row = NoRow /\ holders = {})
    <2>1. (AssetAfter(row, hosts, k, at) = NoRow) <=> (row = NoRow /\ holders = {})
        BY <1>3, AssetAfterType
    <2>2. QED
        BY <1>2, <2>1
<1>5. Sightings(t, k) \subseteq 1..length
    BY DEF Sightings
<1>6. CASE holders = {} /\ row = NoRow
    BY <1>1, <1>4, <1>6 DEF Digest
<1>7. CASE holders = {} /\ row # NoRow
    <2>1. assets'[t][k] = Missed(row)
        BY <1>2, <1>7 DEF AssetAfter
    <2>2. /\ assets'[t][k].first = row.first
          /\ assets'[t][k].last = row.last
          /\ assets'[t][k].missed = row.missed + 1
          /\ assets'[t][k].ip = row.ip
          /\ row.missed \in Nat
        BY <1>3, <1>7, <2>1 DEF Missed, AssetRow
    <2>3. Sightings(t, k)' = Sightings(t, k)
        BY <1>1, <1>7
    <2>4. ASSUME NEW n \in Sightings(t, k)
          PROVE  /\ scans'[t][n] = scans[t][n]
                 /\ IsFirstSighting(n, t, k)' <=> IsFirstSighting(n, t, k)
                 /\ IsLastSighting(n, t, k)' <=> IsLastSighting(n, t, k)
                 /\ n \in Nat
        BY <1>1, <1>5, <2>3 DEF IsFirstSighting, IsLastSighting
    <2>5. ASSUME NEW n \in Sightings(t, k), IsFirstSighting(n, t, k)'
          PROVE  assets'[t][k].first = scans'[t][n].at
        BY <2>2, <2>4, <2>5 DEF Digest
    <2>6. ASSUME NEW n \in Sightings(t, k), IsLastSighting(n, t, k)'
          PROVE  /\ assets'[t][k].last = scans'[t][n].at
                 /\ assets'[t][k].missed = Len(scans'[t]) - n
                 /\ IsLast(assets'[t][k].ip, Holders(scans'[t][n].hosts, k))
        <3>1. /\ row.last = scans[t][n].at
              /\ row.missed = length - n
              /\ IsLast(row.ip, Holders(scans[t][n].hosts, k))
            BY <2>4, <2>6 DEF Digest
        <3>2. row.missed + 1 = (length + 1) - n
            BY <1>1, <2>4, <3>1
        <3>3. QED
            BY <1>1, <2>2, <2>4, <3>1, <3>2
    <2>7. Sightings(t, k) # {} /\ assets'[t][k] # NoRow
        BY <1>4, <1>7 DEF Digest
    <2>8. QED
        BY <2>3, <2>5, <2>6, <2>7 DEF Digest
<1>8. CASE holders # {}
    <2>1. Sightings(t, k)' = Sightings(t, k) \cup {length + 1}
        BY <1>1, <1>8
    <2>2. /\ assets'[t][k].last = at
          /\ assets'[t][k].missed = 0
          /\ assets'[t][k].ip = LastOf(holders)
          /\ assets'[t][k].first = IF row = NoRow THEN at ELSE row.first
        <3>1. CASE row = NoRow
            BY <1>2, <1>8, <3>1 DEF AssetAfter, Inserted
        <3>2. CASE row # NoRow
            BY <1>2, <1>8, <3>2 DEF AssetAfter, Updated
        <3>3. QED
            BY <3>1, <3>2
    <2>3. IsLast(LastOf(holders), holders)
        <3>1. holders \subseteq IPs
            BY DEF Holders
        <3>2. QED
            BY <1>8, <3>1, LastOfHolders
    <2>4. ASSUME NEW n \in Sightings(t, k)', IsLastSighting(n, t, k)'
          PROVE  n = length + 1
        <3>1. length + 1 <= n
            BY <2>1, <2>4 DEF IsLastSighting
        <3>2. n \in 1..length \/ n = length + 1
            BY <1>5, <2>1
        <3>3. QED
            BY <1>1, <3>1, <3>2
    <2>5. ASSUME NEW n \in Sightings(t, k)', IsFirstSighting(n, t, k)'
          PROVE  assets'[t][k].first = scans'[t][n].at
        <3>1. CASE row = NoRow
            <4>1. Sightings(t, k) = {}
                BY <3>1 DEF Digest
            <4>2. n = length + 1
                BY <2>1, <4>1
            <4>3. QED
                BY <1>1, <2>2, <3>1, <4>2
        <3>2. CASE row # NoRow
            <4>1. PICK m \in Sightings(t, k) : TRUE
                BY <3>2 DEF Digest
            <4>2. n <= m
                BY <2>1, <2>5, <4>1 DEF IsFirstSighting
            <4>3. n \in Sightings(t, k)
                BY <1>1, <1>5, <2>1, <4>1, <4>2
            <4>4. IsFirstSighting(n, t, k)
                BY <2>1, <2>5, <4>3 DEF IsFirstSighting
            <4>5. row.first = scans[t][n].at
                BY <4>3, <4>4 DEF Digest
            <4>6. QED
                BY <1>1, <1>5, <2>2, <3>2, <4>3, <4>5
        <3>3. QED
            BY <3>1, <3>2
    <2>6. assets'[t][k] # NoRow /\ Sightings(t, k)' # {}
        BY <1>4, <1>8, <2>1
    <2>7. ASSUME NEW n \in Sightings(t, k)', IsLastSighting(n, t, k)'
          PROVE  /\ assets'[t][k].last = scans'[t][n].at
                 /\ assets'[t][k].missed = Len(scans'[t]) - n
                 /\ IsLast(assets'[t][k].ip, Holders(scans'[t][n].hosts, k))
        <3>1. n = length + 1
            BY <2>4, <2>7
        <3>2. QED
            BY <1>1, <2>2, <2>3, <3>1
    <2>8. QED
        BY <2>5, <2>6, <2>7 DEF Digest
<1>9. QED
    BY <1>6, <1>7, <1>8

\* The state of one row, the body of StateFollowsMisses.
StateOf(t, k) ==
    assets[t][k] # NoRow =>
        /\ (assets[t][k].state = "OFFLINE") <=> (assets[t][k].missed >= 3)
        /\ (assets[t][k].state \in {"NEW", "ACTIVE"}) <=> (assets[t][k].missed = 0)

LEMMA StateStep ==
    ASSUME TypeOK, NEW t \in Targets, NEW hosts \in Hosts, NEW at \in Times,
           NEW changes \in SUBSET Change, SaveSnapshot(t, hosts, at, changes),
           NEW k \in Identities, StateOf(t, k)
    PROVE  StateOf(t, k)'
<1> DEFINE holders == Holders(hosts, k)
           row     == assets[t][k]
<1>1. assets'[t][k] = AssetAfter(row, hosts, k, at)
    BY SaveSnapshotEffect
<1>2. row \in AssetRow \cup {NoRow}
    BY DEF TypeOK
<1>3. CASE holders = {} /\ row = NoRow
    BY <1>1, <1>3 DEF AssetAfter, StateOf
<1>4. CASE holders = {} /\ row # NoRow
    <2>1. assets'[t][k] = Missed(row)
        BY <1>1, <1>4 DEF AssetAfter
    <2>2. /\ row.missed \in Nat
          /\ assets'[t][k].missed = row.missed + 1
          /\ assets'[t][k].state = IF row.missed + 1 >= 3 THEN "OFFLINE" ELSE "STALE"
        BY <1>2, <1>4, <2>1 DEF Missed, AssetRow, offlineAfterMisses
    <2>3. QED
        BY <2>2 DEF StateOf
<1>5. CASE holders # {}
    <2>1. assets'[t][k].missed = 0 /\ assets'[t][k].state \in {"NEW", "ACTIVE"}
        <3>1. CASE row = NoRow
            BY <1>1, <1>5, <3>1 DEF AssetAfter, Inserted
        <3>2. CASE row # NoRow
            BY <1>1, <1>5, <3>2 DEF AssetAfter, Updated
        <3>3. QED
            BY <3>1, <3>2
    <2>2. QED
        BY <2>1 DEF StateOf
<1>6. QED
    BY <1>3, <1>4, <1>5

\* A saved snapshot preserves DigestInv, for the rows of its own target and,
\* untouched, for those of the others.
LEMMA DigestInvSave ==
    ASSUME DigestInv, NEW t \in Targets, NEW hosts \in Hosts, NEW at \in Times,
           NEW changes \in SUBSET Change, SaveSnapshot(t, hosts, at, changes)
    PROVE  DigestInv'
<1>1. (AssetsDigestLog <=> \A u \in Targets, k \in Identities : Digest(u, k))
      /\ (StateFollowsMisses <=> \A u \in Targets, k \in Identities : StateOf(u, k))
    BY DEF AssetsDigestLog, Digest, StateFollowsMisses, StateOf
<1>2. (AssetsDigestLog' <=> \A u \in Targets, k \in Identities : Digest(u, k)')
      /\ (StateFollowsMisses' <=> \A u \in Targets, k \in Identities : StateOf(u, k)')
    BY DEF AssetsDigestLog, Digest, StateFollowsMisses, StateOf
<1>3. TypeOK'
    BY SaveSnapshotType DEF DigestInv
<1> SUFFICES ASSUME NEW u \in Targets, NEW k \in Identities
             PROVE  Digest(u, k)' /\ StateOf(u, k)'
    BY <1>2, <1>3 DEF DigestInv
<1>4. TypeOK /\ Digest(u, k) /\ StateOf(u, k)
    BY <1>1 DEF DigestInv
<1>5. CASE u = t
    BY <1>4, <1>5, DigestStep, StateStep
<1>6. CASE u # t
    <2>1. scans'[u] = scans[u] /\ assets'[u] = assets[u]
        BY <1>4, <1>6, SaveSnapshotEffect
    <2>2. QED
        BY <1>4, <2>1 DEF Digest, StateOf, Sightings, IsFirstSighting, IsLastSighting
<1>7. QED
    BY <1>5, <1>6

LEMMA DigestInvUnchanged == DigestInv /\ UNCHANGED storeVars => DigestInv'
<1> SUFFICES ASSUME DigestInv, UNCHANGED storeVars PROVE DigestInv'
    OBVIOUS
<1>1. scans' = scans /\ assets' = assets /\ history' = history
    BY DEF storeVars
<1>2. TypeOK' /\ StateFollowsMisses'
    BY <1>1 DEF DigestInv, TypeOK, StateFollowsMisses
<1>3. ASSUME NEW t, NEW k PROVE Sightings(t, k)' = Sightings(t, k)
    BY <1>1 DEF Sightings
<1>4. AssetsDigestLog'
    BY <1>1, <1>3 DEF DigestInv, AssetsDigestLog, IsFirstSighting, IsLastSighting
<1>5. QED
    BY <1>2, <1>4 DEF DigestInv

\* DigestInv is inductive.
LEMMA DigestInvInductive == DigestInv /\ [AnySave]_storeVars => DigestInv'
BY DigestInvSave, DigestInvUnchanged DEF AnySave

LEMMA DigestInvInit == StoreInit => DigestInv
<1> SUFFICES ASSUME StoreInit PROVE DigestInv
    OBVIOUS
<1>1. TypeOK
    BY DEF StoreInit, TypeOK
<1>2. \A t \in Targets, k \in Identities : Sightings(t, k) = {} /\ assets[t][k] = NoRow
    BY DEF StoreInit, Sightings
<1>3. QED
    BY <1>1, <1>2 DEF DigestInv, AssetsDigestLog, StateFollowsMisses

LEMMA DigestInvariant == StoreSpec => []DigestInv
BY DigestInvInit, DigestInvInductive, StoreStepSaves, PTL DEF StoreSpec

\* The asset table never disagrees with the log of saved scans: who has a row,
\* since when, last seen when and where, and missed how often since.
THEOREM AssetsAlwaysDigestLog == StoreSpec => []AssetsDigestLog
<1>1. DigestInv => AssetsDigestLog
    BY DEF DigestInv
<1>2. QED
    BY <1>1, DigestInvariant, PTL

\* The state of a row follows from its misses, and those from the log.
LEMMA DigestTellsState == DigestInv => StateTellsRecentSightings
<1> SUFFICES ASSUME DigestInv, NEW t \in Targets, NEW k \in Identities,
                    assets[t][k] # NoRow
             PROVE  LET length == Len(scans[t])
                        row    == assets[t][k]
                    IN  /\ (row.state = "OFFLINE") <=>
                              \A n \in Sightings(t, k) : n + offlineAfterMisses <= length
                        /\ (row.state \in {"NEW", "ACTIVE"}) <=> (length \in Sightings(t, k))
    BY DEF StateTellsRecentSightings
<1> DEFINE length == Len(scans[t])
<1>1. length \in Nat
    <2>1. scans[t] \in Seq(Scan)
        BY DEF DigestInv, TypeOK
    <2>2. QED
        BY <2>1, LenProperties
<1>2. Sightings(t, k) # {} /\ Sightings(t, k) \subseteq 1..length
    BY DEF DigestInv, AssetsDigestLog, Sightings
<1>3. PICK m \in Sightings(t, k) : \A n \in Sightings(t, k) : n <= m
    <2> DEFINE seen == Sightings(t, k)
    <2>1. IsFiniteSet(1..length)
        <3>1. 1 \in Int /\ length \in Int
            BY <1>1
        <3> HIDE DEF length
        <3>2. QED
            BY <3>1, FS_Interval
    <2>2. seen \subseteq 1..length /\ seen # {}
        BY <1>2
    <2>3. seen \subseteq Nat
        BY <1>1, <2>2
    <2> HIDE DEF seen, length
    <2>4. IsFiniteSet(seen)
        BY <2>1, <2>2, FS_Subset
    <2>5. \E m \in seen : \A n \in seen : n <= m
        BY <2>2, <2>3, <2>4, FiniteSetHasMax
    <2>6. QED
        BY <2>5 DEF seen
<1>4. assets[t][k].missed = length - m
    BY <1>3 DEF DigestInv, AssetsDigestLog, IsLastSighting
<1>5. /\ (assets[t][k].state = "OFFLINE") <=> (length - m >= 3)
      /\ (assets[t][k].state \in {"NEW", "ACTIVE"}) <=> (length - m = 0)
    BY <1>4 DEF DigestInv, StateFollowsMisses
<1>6. m \in 1..length /\ \A n \in Sightings(t, k) : n \in 1..length
    BY <1>2, <1>3
<1>7. (length - m >= 3) <=> \A n \in Sightings(t, k) : n + 3 <= length
    BY <1>1, <1>3, <1>6
<1>8. (length - m = 0) <=> (length \in Sightings(t, k))
    <2>1. CASE length - m = 0
        <3>1. m = length
            BY <1>1, <1>6, <2>1
        <3>2. QED
            BY <1>3, <2>1, <3>1
    <2>2. CASE length \in Sightings(t, k)
        <3>1. length <= m
            BY <1>3, <2>2
        <3>2. QED
            BY <1>1, <1>6, <2>2, <3>1
    <2>3. QED
        BY <2>1, <2>2
<1>9. QED
    BY <1>5, <1>7, <1>8 DEF offlineAfterMisses

\* OFFLINE is said exactly of the assets the last three scans missed, NEW and
\* ACTIVE exactly of those the latest observed.
THEOREM StateAlwaysTellsRecentSightings == StoreSpec => []StateTellsRecentSightings
BY DigestTellsState, DigestInvariant, PTL

-----------------------------------------------------------------------------
(* Service history *)

\* The scans of t that found port p on identity k.
Found(t, k, p) == {n \in 1..Len(scans[t]) : PortHolders(scans[t][n].hosts, k, p) # {}}

LEMMA FoundStep ==
    ASSUME TypeOK, NEW t \in Targets, NEW hosts \in Hosts, NEW at \in Times,
           NEW changes \in SUBSET Change, SaveSnapshot(t, hosts, at, changes),
           NEW k, NEW p \in Ports
    PROVE  LET length == Len(scans[t])
           IN  /\ length \in Nat
               /\ Len(scans'[t]) = length + 1
               /\ \A n \in 1..length : scans'[t][n] = scans[t][n]
               /\ scans'[t][length + 1].at = at
               /\ Found(t, k, p) \subseteq 1..length
               /\ Found(t, k, p)' = IF PortHolders(hosts, k, p) = {} THEN Found(t, k, p)
                                    ELSE Found(t, k, p) \cup {length + 1}
<1> DEFINE scan == [at |-> at, hosts |-> Stored(hosts), changes |-> changes]
<1> DEFINE length == Len(scans[t])
<1>1. scan \in Scan /\ scans'[t] = Append(scans[t], scan)
    BY SaveSnapshotEffect
<1>2. scans[t] \in Seq(Scan)
    BY DEF TypeOK
<1>3. /\ length \in Nat
      /\ Len(scans'[t]) = length + 1
      /\ \A n \in 1..length : scans'[t][n] = scans[t][n]
      /\ scans'[t][length + 1] = scan
    BY <1>1, <1>2, AppendProperties, LenProperties
<1>4. scan.at = at /\ PortHolders(scan.hosts, k, p) = PortHolders(hosts, k, p)
    BY StoredKeepsIdentities
<1> HIDE DEF scan
<1>5. Found(t, k, p)' =
        {n \in 1..(length + 1) : PortHolders(scans'[t][n].hosts, k, p) # {}}
    BY <1>3 DEF Found
<1>6. Found(t, k, p) = {n \in 1..length : PortHolders(scans[t][n].hosts, k, p) # {}}
    BY DEF Found
<1>7. 1..(length + 1) = (1..length) \cup {length + 1}
    BY <1>3
<1>8. QED
    BY <1>3, <1>4, <1>5, <1>6, <1>7

\* The history of one service, the body of HistoryTellsLatestScan.
HistoryOf(t, k, p) ==
    LET row == history[t][k][p]
    IN  /\ (row # NoRow) <=> (Found(t, k, p) # {})
        /\ row # NoRow =>
            /\ row.present <=> (Len(scans[t]) \in Found(t, k, p))
            /\ \E n \in Found(t, k, p) : row.last = scans[t][n].at
                                         /\ \A m \in Found(t, k, p) : m <= n

LEMMA HistoryStep ==
    ASSUME TypeOK, NEW t \in Targets, NEW hosts \in Hosts, NEW at \in Times,
           NEW changes \in SUBSET Change, SaveSnapshot(t, hosts, at, changes),
           NEW k \in Identities, NEW p \in Ports, HistoryOf(t, k, p)
    PROVE  HistoryOf(t, k, p)'
<1> DEFINE length  == Len(scans[t])
           holders == PortHolders(hosts, k, p)
           found   == Found(t, k, p)
           row     == history[t][k][p]
<1>1. /\ length \in Nat
      /\ Len(scans'[t]) = length + 1
      /\ \A n \in 1..length : scans'[t][n] = scans[t][n]
      /\ scans'[t][length + 1].at = at
      /\ found \subseteq 1..length
      /\ Found(t, k, p)' = IF holders = {} THEN found ELSE found \cup {length + 1}
    BY FoundStep
<1>2. history'[t][k][p] = HistoryAfter(row, hosts, k, p, at)
    BY SaveSnapshotEffect
<1>3. row \in HistoryRow \cup {NoRow}
    BY DEF TypeOK
<1>4. (history'[t][k][p] = NoRow) <=> (row = NoRow /\ holders = {})
    <2>1. (HistoryAfter(row, hosts, k, p, at) = NoRow) <=> (row = NoRow /\ holders = {})
        BY <1>3, HistoryAfterType
    <2>2. QED
        BY <1>2, <2>1
<1>5. CASE holders = {} /\ row = NoRow
    BY <1>1, <1>4, <1>5 DEF HistoryOf
<1>6. CASE holders = {} /\ row # NoRow
    <2>1. history'[t][k][p] = [row EXCEPT !.present = FALSE]
        BY <1>2, <1>6 DEF HistoryAfter
    <2>2. history'[t][k][p].last = row.last
        BY <1>3, <1>6, <2>1 DEF HistoryRow
    <2>3. ~history'[t][k][p].present
        BY <1>3, <1>6, <2>1 DEF HistoryRow
    <2>4. length + 1 \notin found
        BY <1>1
    <2>5. PICK n \in found : row.last = scans[t][n].at /\ \A m \in found : m <= n
        BY <1>6 DEF HistoryOf
    <2>6. scans'[t][n] = scans[t][n]
        BY <1>1, <2>5
    <2>7. Found(t, k, p)' = found /\ found # {}
        BY <1>1, <1>6, <2>5
    <2>8. QED
        BY <1>1, <1>4, <1>6, <2>2, <2>3, <2>4, <2>5, <2>6, <2>7 DEF HistoryOf
<1>7. CASE holders # {}
    <2>1. history'[t][k][p].last = at
        BY <1>2, <1>7 DEF HistoryAfter
    <2>2. history'[t][k][p].present
        BY <1>2, <1>7 DEF HistoryAfter
    <2>3. Found(t, k, p)' = found \cup {length + 1}
        BY <1>1, <1>7
    <2>4. \A m \in found \cup {length + 1} : m <= length + 1
        BY <1>1
    <2>5. QED
        BY <1>1, <1>4, <1>7, <2>1, <2>2, <2>3, <2>4 DEF HistoryOf
<1>8. QED
    BY <1>5, <1>6, <1>7

LEMMA HistoryInductive ==
    TypeOK /\ HistoryTellsLatestScan /\ [AnySave]_storeVars => HistoryTellsLatestScan'
<1> SUFFICES ASSUME TypeOK, HistoryTellsLatestScan, [AnySave]_storeVars
             PROVE  HistoryTellsLatestScan'
    OBVIOUS
<1>1. HistoryTellsLatestScan <=> \A u \in Targets, k \in Identities, p \in Ports : HistoryOf(u, k, p)
    BY DEF HistoryTellsLatestScan, HistoryOf, Found
<1>2. HistoryTellsLatestScan' <=> \A u \in Targets, k \in Identities, p \in Ports : HistoryOf(u, k, p)'
    BY DEF HistoryTellsLatestScan, HistoryOf, Found
<1> SUFFICES ASSUME NEW u \in Targets, NEW k \in Identities, NEW p \in Ports
             PROVE  HistoryOf(u, k, p)'
    BY <1>2
<1>3. HistoryOf(u, k, p)
    BY <1>1
<1>4. ASSUME scans'[u] = scans[u], history'[u] = history[u] PROVE HistoryOf(u, k, p)'
    BY <1>3, <1>4 DEF HistoryOf, Found
<1>5. CASE AnySave
    <2>1. PICK t \in Targets, hosts \in Hosts, at \in Times, changes \in SUBSET Change :
            SaveSnapshot(t, hosts, at, changes)
        BY <1>5 DEF AnySave
    <2>2. CASE u = t
        BY <1>3, <2>1, <2>2, HistoryStep
    <2>3. CASE u # t
        BY <1>4, <2>1, <2>3, SaveSnapshotEffect
    <2>4. QED
        BY <2>2, <2>3
<1>6. CASE UNCHANGED storeVars
    BY <1>4, <1>6 DEF storeVars
<1>7. QED
    BY <1>5, <1>6

\* The service history never disagrees with the log: present is said exactly of the
\* services the latest scan found on their asset, wherever the asset was, and
\* last_seen is the time of the last scan that found the service.
THEOREM HistoryAlwaysTellsLatestScan == StoreSpec => []HistoryTellsLatestScan
<1>1. StoreInit => HistoryTellsLatestScan
    BY DEF StoreInit, HistoryTellsLatestScan
<1>2. QED
    BY <1>1, HistoryInductive, StoreStepSaves, TypeCorrect, PTL DEF StoreSpec

-----------------------------------------------------------------------------
(* Names and device types *)

\* The holders of an identity that have a name.
Named(hosts, k) == {ip \in Holders(hosts, k) : hosts[ip].name # NoName}

\* The database gives names and open ports back as they were.
LEMMA StoredKeepsNames ==
    ASSUME NEW hosts \in Hosts, NEW k
    PROVE  /\ \A ip \in Holders(hosts, k) :
                /\ Stored(hosts)[ip].name = hosts[ip].name
                /\ Classify(Stored(hosts)[ip].name, Stored(hosts)[ip].svc)
                   = Classify(hosts[ip].name, hosts[ip].svc)
           /\ Named(Stored(hosts), k) = Named(hosts, k)
<1>1. ASSUME NEW ip \in Holders(hosts, k)
      PROVE  /\ Stored(hosts)[ip].name = hosts[ip].name
             /\ Classify(Stored(hosts)[ip].name, Stored(hosts)[ip].svc)
                = Classify(hosts[ip].name, hosts[ip].svc)
    <2> DEFINE host == hosts[ip]
    <2>1. host \in Host /\ Stored(hosts)[ip] = [host EXCEPT !.svc = Persisted(host.svc)]
        BY HoldersType DEF Holders, Stored
    <2>2. /\ Stored(hosts)[ip].name = host.name
          /\ Stored(hosts)[ip].svc = Persisted(host.svc)
        BY <2>1 DEF Host
    <2>3. OpenPorts(Persisted(host.svc)) = OpenPorts(host.svc)
        BY <2>1, PrintAssumption DEF PrintAssumption, Persisted, OpenPorts, Host, Services
    <2>4. QED
        BY <2>2, <2>3 DEF Classify
<1>2. Holders(Stored(hosts), k) = Holders(hosts, k)
    BY StoredKeepsIdentities
<1>3. QED
    BY <1>1, <1>2 DEF Named

\* The scans in which an identity was observed with a name.
EverNamed(t, k) == {n \in Sightings(t, k) : Named(scans[t][n].hosts, k) # {}}

\* What a row says of its last sighting and of its last name, the body of
\* NameAndTypeDigestLog.
TypeOf(t, k) ==
    \A n \in Sightings(t, k) : IsLastSighting(n, t, k) =>
        LET host == scans[t][n].hosts[LastOf(Holders(scans[t][n].hosts, k))]
        IN  assets[t][k].device = Classify(host.name, host.svc)

NameOf(t, k) ==
    /\ assets[t][k].name = NoName <=> EverNamed(t, k) = {}
    /\ \A n \in EverNamed(t, k) : (\A m \in EverNamed(t, k) : m <= n) =>
        assets[t][k].name = scans[t][n].hosts[LastOf(Named(scans[t][n].hosts, k))].name

LEMMA NameAndTypeStep ==
    ASSUME TypeOK, NEW t \in Targets, NEW hosts \in Hosts, NEW at \in Times,
           NEW changes \in SUBSET Change, SaveSnapshot(t, hosts, at, changes),
           NEW k \in Identities, Digest(t, k),
           assets[t][k] # NoRow => TypeOf(t, k) /\ NameOf(t, k)
    PROVE  assets'[t][k] # NoRow => TypeOf(t, k)' /\ NameOf(t, k)'
<1> DEFINE length  == Len(scans[t])
           holders == Holders(hosts, k)
           named   == Named(hosts, k)
           row     == assets[t][k]
           saved   == scans'[t][length + 1].hosts
<1>1. /\ length \in Nat
      /\ \A n \in 1..length : scans'[t][n] = scans[t][n]
      /\ Holders(saved, k) = holders
      /\ Sightings(t, k)' = IF holders = {} THEN Sightings(t, k)
                            ELSE Sightings(t, k) \cup {length + 1}
      /\ Sightings(t, k) \subseteq 1..length
    <2>1. Sightings(t, k) \subseteq 1..length
        BY DEF Sightings
    <2>2. QED
        BY <2>1, LogStep
<1>2. assets'[t][k] = AssetAfter(row, hosts, k, at)
    BY SaveSnapshotEffect
<1>3. row \in AssetRow \cup {NoRow}
    BY DEF TypeOK
<1>4. saved = Stored(hosts)
    <2> DEFINE scan == [at |-> at, hosts |-> Stored(hosts), changes |-> changes]
    <2>1. scan \in Scan /\ scans'[t] = Append(scans[t], scan) /\ scans[t] \in Seq(Scan)
        BY SaveSnapshotEffect DEF TypeOK
    <2>2. scan.hosts = Stored(hosts)
        OBVIOUS
    <2> HIDE DEF scan
    <2>3. scans'[t][length + 1] = scan
        BY <2>1, AppendProperties, LenProperties
    <2>4. QED
        BY <2>2, <2>3
<1>5. Named(saved, k) = named
    BY <1>4, StoredKeepsNames
<1>6. EverNamed(t, k)' = IF named = {} THEN EverNamed(t, k)
                         ELSE EverNamed(t, k) \cup {length + 1}
    <2>1. named \subseteq holders
        BY DEF Named
    <2>2. EverNamed(t, k)' = {n \in Sightings(t, k)' : Named(scans'[t][n].hosts, k) # {}}
        BY DEF EverNamed, Named
    <2>3. \A n \in Sightings(t, k) : scans'[t][n] = scans[t][n]
        BY <1>1
    <2>4. QED
        BY <1>1, <1>5, <2>1, <2>2, <2>3 DEF EverNamed
<1>7. EverNamed(t, k) \subseteq 1..length
    BY <1>1 DEF EverNamed
<1>8. ASSUME NameOf(t, k), EverNamed(t, k)' = EverNamed(t, k),
                assets'[t][k].name = row.name
         PROVE  NameOf(t, k)'
    <2>1. assets'[t][k].name = NoName <=> EverNamed(t, k)' = {}
        BY <1>8 DEF NameOf
    <2>2. ASSUME NEW n \in EverNamed(t, k)', \A m \in EverNamed(t, k)' : m <= n
          PROVE  assets'[t][k].name
                 = scans'[t][n].hosts[LastOf(Named(scans'[t][n].hosts, k))].name
        <3>1. n \in EverNamed(t, k) /\ \A m \in EverNamed(t, k) : m <= n
            BY <1>8, <2>2
        <3>2. scans'[t][n] = scans[t][n]
            BY <1>1, <1>7, <3>1
        <3>3. row.name = scans[t][n].hosts[LastOf(Named(scans[t][n].hosts, k))].name
            BY <1>8, <3>1 DEF NameOf
        <3>4. QED
            BY <1>8, <3>2, <3>3
    <2>3. QED
        BY <2>1, <2>2 DEF NameOf
<1>9. CASE holders = {} /\ row = NoRow
    BY <1>2, <1>9 DEF AssetAfter
<1>10. CASE holders = {} /\ row # NoRow
    <2>1. assets'[t][k] = Missed(row)
        BY <1>2, <1>10 DEF AssetAfter
    <2>2. assets'[t][k].name = row.name /\ assets'[t][k].device = row.device
        BY <1>3, <1>10, <2>1 DEF Missed, AssetRow
    <2>3. Sightings(t, k)' = Sightings(t, k) /\ EverNamed(t, k)' = EverNamed(t, k)
        BY <1>1, <1>6, <1>10 DEF Named
    <2>4. \A n \in Sightings(t, k) : scans'[t][n] = scans[t][n]
        BY <1>1
    <2>5. TypeOf(t, k) /\ NameOf(t, k)
        BY <1>10
    <2>6. TypeOf(t, k)'
        BY <2>2, <2>3, <2>4, <2>5 DEF TypeOf, IsLastSighting
    <2>7. NameOf(t, k)'
        BY <1>8, <2>2, <2>3, <2>5
    <2>8. QED
        BY <2>6, <2>7
<1>11. CASE holders # {}
    <2> DEFINE last == LastOf(holders)
               old  == IF row = NoRow THEN NoName ELSE row.name
    <2>1. /\ assets'[t][k].device = Classify(hosts[last].name, hosts[last].svc)
          /\ assets'[t][k].name = NameAfter(hosts, holders, old)
        <3>1. CASE row = NoRow
            BY <1>2, <1>11, <3>1 DEF AssetAfter, Inserted
        <3>2. CASE row # NoRow
            BY <1>2, <1>11, <3>2 DEF AssetAfter, Updated
        <3>3. QED
            BY <3>1, <3>2
    <2>2. last \in holders
        <3>1. holders \in SUBSET IPs
            BY DEF Holders
        <3>2. QED
            BY <1>11, <3>1, LastOfHolders DEF IsLast
    <2>3. TypeOf(t, k)'
        <3>1. ASSUME NEW n \in Sightings(t, k)', IsLastSighting(n, t, k)'
              PROVE  n = length + 1
            <4>1. Sightings(t, k)' = Sightings(t, k) \cup {length + 1}
                BY <1>1, <1>11
            <4>2. length + 1 <= n
                BY <3>1, <4>1 DEF IsLastSighting
            <4>3. n \in 1..length \/ n = length + 1
                BY <1>1, <4>1
            <4>4. QED
                BY <1>1, <4>2, <4>3
        <3>2. Classify(saved[last].name, saved[last].svc)
              = Classify(hosts[last].name, hosts[last].svc)
            BY <1>4, <2>2, StoredKeepsNames
        <3>3. QED
            BY <1>1, <2>1, <3>1, <3>2 DEF TypeOf
    <2>4. CASE named = {}
        <3>1. assets'[t][k].name = old /\ EverNamed(t, k)' = EverNamed(t, k)
            BY <1>6, <2>1, <2>4 DEF NameAfter, Named
        <3>2. CASE row = NoRow
            <4>1. EverNamed(t, k) = {}
                BY <3>2 DEF Digest, EverNamed
            <4>2. QED
                BY <2>3, <3>1, <3>2, <4>1 DEF NameOf
        <3>3. CASE row # NoRow
            <4>1. NameOf(t, k)'
                BY <1>8, <3>1, <3>3
            <4>2. QED
                BY <2>3, <4>1
        <3>4. QED
            BY <3>2, <3>3
    <2>5. CASE named # {}
        <3>1. assets'[t][k].name = hosts[LastOf(named)].name
            BY <2>1, <2>5 DEF NameAfter, Named
        <3>2. LastOf(named) \in named
            <4>1. named \in SUBSET IPs
                BY DEF Named, Holders
            <4>2. QED
                BY <2>5, <4>1, LastOfHolders DEF IsLast
        <3>3. hosts[LastOf(named)].name # NoName
              /\ saved[LastOf(named)].name = hosts[LastOf(named)].name
            BY <1>4, <3>2, StoredKeepsNames DEF Named
        <3>4. EverNamed(t, k)' = EverNamed(t, k) \cup {length + 1}
            BY <1>6, <2>5
        <3>5. ASSUME NEW n \in EverNamed(t, k)', \A m \in EverNamed(t, k)' : m <= n
              PROVE  n = length + 1
            <4>1. length + 1 <= n /\ (n \in 1..length \/ n = length + 1)
                BY <1>7, <3>4, <3>5
            <4>2. QED
                BY <1>1, <4>1
        <3>6. NameOf(t, k)'
            BY <1>5, <3>1, <3>3, <3>4, <3>5 DEF NameOf, Named
        <3>7. QED
            BY <2>3, <3>6
    <2>6. QED
        BY <2>4, <2>5
<1>12. QED
    BY <1>9, <1>10, <1>11

NameAndTypeInv == \A u \in Targets, k \in Identities :
    assets[u][k] # NoRow => TypeOf(u, k) /\ NameOf(u, k)

LEMMA NameAndTypeInductive ==
    DigestInv /\ NameAndTypeInv /\ [AnySave]_storeVars => NameAndTypeInv'
<1> SUFFICES ASSUME DigestInv, NameAndTypeInv, [AnySave]_storeVars,
                    NEW u \in Targets, NEW k \in Identities
             PROVE  assets'[u][k] # NoRow => TypeOf(u, k)' /\ NameOf(u, k)'
    BY DEF NameAndTypeInv
<1>1. assets[u][k] # NoRow => TypeOf(u, k) /\ NameOf(u, k)
    BY DEF NameAndTypeInv
<1>2. TypeOK /\ Digest(u, k)
    BY DEF DigestInv, AssetsDigestLog, Digest
<1>3. ASSUME scans'[u] = scans[u], assets'[u] = assets[u]
      PROVE  assets'[u][k] # NoRow => TypeOf(u, k)' /\ NameOf(u, k)'
    <2>1. Sightings(u, k)' = Sightings(u, k) /\ EverNamed(u, k)' = EverNamed(u, k)
        BY <1>3 DEF EverNamed, Sightings
    <2>2. TypeOf(u, k) => TypeOf(u, k)'
        BY <1>3, <2>1 DEF TypeOf, IsLastSighting
    <2>3. NameOf(u, k) => NameOf(u, k)'
        BY <1>3, <2>1 DEF NameOf
    <2>4. QED
        BY <1>1, <1>3, <2>2, <2>3
<1>4. CASE AnySave
    <2>1. PICK t \in Targets, hosts \in Hosts, at \in Times, changes \in SUBSET Change :
            SaveSnapshot(t, hosts, at, changes)
        BY <1>4 DEF AnySave
    <2>2. CASE u = t
        <3>1. SaveSnapshot(u, hosts, at, changes)
            BY <2>1, <2>2
        <3>2. QED
            BY <1>1, <1>2, <3>1, NameAndTypeStep
    <2>3. CASE u # t
        BY <1>2, <1>3, <2>1, <2>3, SaveSnapshotEffect
    <2>4. QED
        BY <2>2, <2>3
<1>5. CASE UNCHANGED storeVars
    BY <1>3, <1>5 DEF storeVars
<1>6. QED
    BY <1>4, <1>5

\* However scans with and without names follow each other, the name of a row is the
\* last one that was read and its device type what the last observation says.
THEOREM NameAndTypeAlwaysDigestLog == StoreSpec => []NameAndTypeDigestLog
<1>1. StoreInit => NameAndTypeInv
    BY DEF StoreInit, NameAndTypeInv
<1>2. NameAndTypeInv => NameAndTypeDigestLog
    BY DEF NameAndTypeInv, NameAndTypeDigestLog, TypeOf, NameOf, EverNamed, Named
<1>3. QED
    BY <1>1, <1>2, NameAndTypeInductive, StoreStepSaves, DigestInvariant, PTL DEF StoreSpec

-----------------------------------------------------------------------------
(* observation_count and NEW *)

\* How often an identity was observed in a log, address by address.
Observed(log, k) == SumFunction([n \in DOMAIN log |-> Cardinality(Holders(log[n].hosts, k))])

\* One more scan adds the holders it has.
LEMMA ObservedAppend ==
    ASSUME NEW log \in Seq(Scan), NEW scan \in Scan, NEW k
    PROVE  /\ Observed(log, k) \in Nat
           /\ Observed(Append(log, scan), k) = Observed(log, k) + Cardinality(Holders(scan.hosts, k))
<1> DEFINE length == Len(log)
           more   == Append(log, scan)
           f      == [n \in 1..length |-> Cardinality(Holders(log[n].hosts, k))]
           g      == [n \in 1..(length + 1) |-> Cardinality(Holders(more[n].hosts, k))]
<1>1. /\ length \in Nat /\ DOMAIN log = 1..length
      /\ DOMAIN more = 1..(length + 1)
      /\ more[length + 1] = scan
      /\ \A n \in 1..length : more[n] = log[n]
    BY AppendProperties, LenProperties
<1>2. \A s : Cardinality(Holders(s.hosts, k)) \in Nat
    <2>1. ASSUME NEW s PROVE Cardinality(Holders(s.hosts, k)) \in Nat
        <3>1. Holders(s.hosts, k) \in SUBSET IPs
            BY DEF Holders
        <3>2. IsFiniteSet(Holders(s.hosts, k))
            BY <3>1, AddressAssumption, FS_Subset DEF AddressAssumption
        <3>3. QED
            BY <3>2, FS_CardinalityType
    <2>2. QED
        BY <2>1
<1>3. f \in [1..length -> Nat] /\ g \in [1..(length + 1) -> Nat]
    BY <1>2
<1>4. Observed(log, k) = SumFunction(f) /\ Observed(more, k) = SumFunction(g)
    BY <1>1 DEF Observed
<1>5. g[length + 1] = Cardinality(Holders(scan.hosts, k))
    BY <1>1
<1>6. [n \in (1..(length + 1)) \ {length + 1} |-> g[n]] = f
    <2>1. (1..(length + 1)) \ {length + 1} = 1..length
        BY <1>1
    <2>2. \A n \in 1..length : g[n] = f[n]
        BY <1>1
    <2>3. QED
        BY <2>1, <2>2
<1>7. IsFiniteSet(1..length) /\ IsFiniteSet(1..(length + 1))
    BY <1>1, FS_Interval
<1>8. length + 1 \in 1..(length + 1)
    BY <1>1
<1> HIDE DEF f, g, more, length
<1>9. SumFunction(f) \in Nat
    BY <1>3, <1>7, SumIsNat
<1>10. SumFunction(g) = g[length + 1] + SumFunction([n \in (1..(length + 1)) \ {length + 1} |-> g[n]])
    BY <1>3, <1>7, <1>8, SumWithout
<1>11. SumFunction(g) = SumFunction(f) + Cardinality(Holders(scan.hosts, k))
    <2>1. Cardinality(Holders(scan.hosts, k)) \in Nat
        BY <1>2
    <2>2. QED
        BY <1>5, <1>6, <1>9, <1>10, <2>1
<1>12. QED
    BY <1>4, <1>9, <1>11 DEF more

\* What the row of an identity says of how often it was observed.  An identity
\* without a row has been observed zero times: the row that is inserted starts the
\* count, and must not have missed any.
CountOf(t, k) ==
    /\ Observed(scans[t], k) = IF assets[t][k] = NoRow THEN 0 ELSE assets[t][k].count
    /\ assets[t][k] # NoRow /\ assets[t][k].state = "NEW" =>
            Sightings(t, k) = {Len(scans[t])}

LEMMA CountStep ==
    ASSUME TypeOK, NEW t \in Targets, NEW hosts \in Hosts, NEW at \in Times,
           NEW changes \in SUBSET Change, SaveSnapshot(t, hosts, at, changes),
           NEW k \in Identities, Digest(t, k), CountOf(t, k)
    PROVE  CountOf(t, k)'
<1> DEFINE scan    == [at |-> at, hosts |-> Stored(hosts), changes |-> changes]
           length  == Len(scans[t])
           holders == Holders(hosts, k)
           row     == assets[t][k]
<1>1. /\ length \in Nat /\ Len(scans'[t]) = length + 1
      /\ Sightings(t, k)' = IF holders = {} THEN Sightings(t, k)
                            ELSE Sightings(t, k) \cup {length + 1}
    BY LogStep
<1>2. assets'[t][k] = AssetAfter(row, hosts, k, at)
    BY SaveSnapshotEffect
<1>3. row \in AssetRow \cup {NoRow} /\ scans[t] \in Seq(Scan)
    BY DEF TypeOK
<1>4. /\ Observed(scans[t], k) \in Nat
      /\ Observed(scans'[t], k) = Observed(scans[t], k) + Cardinality(holders)
    <2>1. scan \in Scan /\ scans'[t] = Append(scans[t], scan)
        BY SaveSnapshotEffect
    <2>2. Holders(scan.hosts, k) = holders
        BY StoredKeepsIdentities
    <2> HIDE DEF scan
    <2>3. QED
        BY <1>3, <2>1, <2>2, ObservedAppend
<1>5. (assets'[t][k] = NoRow) <=> (row = NoRow /\ holders = {})
    <2>1. (AssetAfter(row, hosts, k, at) = NoRow) <=> (row = NoRow /\ holders = {})
        BY <1>3, AssetAfterType
    <2>2. QED
        BY <1>2, <2>1
<1>6. Cardinality({}) = 0 /\ Cardinality(holders) \in Nat
    <2>1. holders \in SUBSET IPs
        BY DEF Holders
    <2>2. QED
        BY <2>1, FS_EmptySet, LastOfHolders
<1>7. CASE holders = {} /\ row = NoRow
    <2>1. Observed(scans[t], k) = 0 /\ Cardinality(holders) = 0
        BY <1>6, <1>7 DEF CountOf
    <2>2. Observed(scans'[t], k) = 0 /\ assets'[t][k] = NoRow
        BY <1>4, <1>5, <1>7, <2>1
    <2>3. QED
        BY <2>2 DEF CountOf
<1>8. CASE holders = {} /\ row # NoRow
    <2>1. assets'[t][k] = Missed(row)
        BY <1>2, <1>8 DEF AssetAfter
    <2>2. assets'[t][k].count = row.count /\ assets'[t][k].state \in {"STALE", "OFFLINE"}
        BY <1>3, <1>8, <2>1 DEF Missed, AssetRow
    <2>3. assets'[t][k].state # "NEW"
        BY <2>2, Zenon
    <2>4. QED
        BY <1>4, <1>5, <1>6, <1>8, <2>2, <2>3 DEF CountOf
<1>9. CASE holders # {} /\ row = NoRow
    <2>1. assets'[t][k] = Inserted(hosts, holders, at)
        BY <1>2, <1>9 DEF AssetAfter
    <2>2. assets'[t][k].count = Cardinality(holders)
        BY <2>1 DEF Inserted
    <2>3. Sightings(t, k)' = {length + 1}
        BY <1>1, <1>9 DEF Digest
    <2>4. QED
        BY <1>1, <1>4, <1>5, <1>6, <1>9, <2>2, <2>3 DEF CountOf
<1>10. CASE holders # {} /\ row # NoRow
    <2>1. assets'[t][k] = Updated(row, hosts, holders, at)
        BY <1>2, <1>10 DEF AssetAfter
    <2>2. assets'[t][k].count = row.count + Cardinality(holders) /\ assets'[t][k].state = "ACTIVE"
        BY <2>1 DEF Updated
    <2>3. assets'[t][k].state # "NEW"
        BY <2>2, Zenon
    <2>4. QED
        BY <1>4, <1>5, <1>10, <2>2, <2>3 DEF CountOf
<1>11. QED
    BY <1>7, <1>8, <1>9, <1>10

CountInv == \A t \in Targets, k \in Identities : CountOf(t, k)

LEMMA CountInductive == DigestInv /\ CountInv /\ [AnySave]_storeVars => CountInv'
<1> SUFFICES ASSUME DigestInv, CountInv, [AnySave]_storeVars,
                    NEW u \in Targets, NEW k \in Identities
             PROVE  CountOf(u, k)'
    BY DEF CountInv
<1>1. CountOf(u, k) /\ TypeOK /\ Digest(u, k)
    BY DEF CountInv, DigestInv, AssetsDigestLog, Digest
<1>2. ASSUME scans'[u] = scans[u], assets'[u] = assets[u] PROVE CountOf(u, k)'
    BY <1>1, <1>2 DEF CountOf, Sightings
<1>3. CASE AnySave
    <2>1. PICK t \in Targets, hosts \in Hosts, at \in Times, changes \in SUBSET Change :
            SaveSnapshot(t, hosts, at, changes)
        BY <1>3 DEF AnySave
    <2>2. CASE u = t
        <3>1. SaveSnapshot(u, hosts, at, changes)
            BY <2>1, <2>2
        <3>2. QED
            BY <1>1, <3>1, CountStep
    <2>3. CASE u # t
        BY <1>1, <1>2, <2>1, <2>3, SaveSnapshotEffect
    <2>4. QED
        BY <2>2, <2>3
<1>4. CASE UNCHANGED storeVars
    BY <1>2, <1>4 DEF storeVars
<1>5. QED
    BY <1>3, <1>4

LEMMA CountInvInit == StoreInit => CountInv
<1> SUFFICES ASSUME StoreInit, NEW t \in Targets, NEW k \in Identities
             PROVE  CountOf(t, k)
    BY DEF CountInv
<1>1. scans[t] = <<>> /\ assets[t][k] = NoRow
    BY DEF StoreInit
<1> DEFINE f == [n \in DOMAIN << >> |-> Cardinality(Holders((<<>>)[n].hosts, k))]
<1>2. f \in [{} -> Nat]
    OBVIOUS
<1>3. Observed(scans[t], k) = SumFunction(f)
    BY <1>1 DEF Observed
<1> HIDE DEF f
<1>4. QED
    BY <1>1, <1>2, <1>3, SumOfNothing DEF CountOf

LEMMA CountInvTells == CountInv => CountAndNewAgreeWithLog
BY DEF CountInv, CountOf, CountAndNewAgreeWithLog, Observed

\* observation_count never loses or doubles an observation, through misses, moves and
\* hosts that share an identity, and NEW is said in the scan of the first sighting
\* only.
THEOREM CountAndNewAlwaysAgreeWithLog == StoreSpec => []CountAndNewAgreeWithLog
BY CountInvInit, CountInvTells, CountInductive, StoreStepSaves, DigestInvariant, PTL DEF StoreSpec

-----------------------------------------------------------------------------
(* Whoever saves *)

\* All that the tables say of the log.
TablesInv == DigestInv /\ HistoryTellsLatestScan /\ NameAndTypeInv /\ CountInv

LEMMA TablesInvInit == StoreInit => TablesInv
<1>1. StoreInit => HistoryTellsLatestScan
    BY DEF StoreInit, HistoryTellsLatestScan
<1>2. StoreInit => NameAndTypeInv
    BY DEF StoreInit, NameAndTypeInv
<1>3. QED
    BY <1>1, <1>2, DigestInvInit, CountInvInit DEF TablesInv

LEMMA TablesInvInductive == TablesInv /\ [AnySave]_storeVars => TablesInv'
<1> SUFFICES ASSUME TablesInv, [AnySave]_storeVars PROVE TablesInv'
    OBVIOUS
<1>1. DigestInv /\ HistoryTellsLatestScan /\ NameAndTypeInv /\ CountInv /\ TypeOK
    BY DEF TablesInv, DigestInv
<1>2. DigestInv' /\ HistoryTellsLatestScan' /\ NameAndTypeInv' /\ CountInv'
    BY <1>1, DigestInvInductive, HistoryInductive, NameAndTypeInductive, CountInductive
<1>3. QED
    BY <1>2 DEF TablesInv

LEMMA TablesInvTells ==
    TablesInv => /\ HistoryTellsLatestScan
                 /\ NameAndTypeDigestLog
                 /\ CountAndNewAgreeWithLog
BY CountInvTells DEF TablesInv, NameAndTypeInv, NameAndTypeDigestLog, TypeOf, NameOf,
    EverNamed, Named
=============================================================================
