--------------------------- MODULE SnapshotTxProofs ---------------------------
(***************************************************************************)
(* Proofs about SnapshotTx: the loop of updateAssetIntelligence computes,  *)
(* host by host, what AssetAfter and HistoryAfter say in closed form, and  *)
(* the transaction therefore implements the atomic SaveSnapshot.           *)
(***************************************************************************)
EXTENDS SnapshotTx, AssetStoreProofs

-----------------------------------------------------------------------------
(* The hosts visited so far *)

PresentHosts(hosts) == {ip \in IPs : hosts[ip] # Absent}

Visited(hosts, left) == [ip \in IPs |-> IF ip \in left THEN Absent ELSE hosts[ip]]

\* A row after the snapshot depends on the holders of its identity alone.
LEMMA AssetAfterSame ==
    ASSUME NEW v \in Hosts, NEW w \in Hosts, NEW k, NEW row, NEW at,
           Holders(w, k) = Holders(v, k),
           \A ip \in Holders(v, k) : w[ip] = v[ip]
    PROVE  AssetAfter(row, w, k, at) = AssetAfter(row, v, k, at)
<1> DEFINE holders == Holders(v, k)
<1>1. CASE holders = {}
    BY <1>1 DEF AssetAfter
<1>2. CASE holders # {}
    <2>1. holders \subseteq IPs
        BY DEF Holders
    <2>2. w[LastOf(holders)] = v[LastOf(holders)]
        BY <1>2, <2>1, LastOfHolders DEF IsLast
    <2>3. ASSUME NEW old PROVE NameAfter(w, holders, old) = NameAfter(v, holders, old)
        <3> DEFINE named == {ip \in holders : v[ip].name # NoName}
        <3>1. named = {ip \in holders : w[ip].name # NoName}
            OBVIOUS
        <3>2. CASE named = {}
            BY <3>1, <3>2 DEF NameAfter
        <3>3. CASE named # {}
            <4>1. LastOf(named) \in named
                BY <2>1, <3>3, LastOfHolders DEF IsLast
            <4>2. w[LastOf(named)] = v[LastOf(named)]
                BY <4>1
            <4>3. QED
                BY <3>1, <3>3, <4>2 DEF NameAfter
        <3>4. QED
            BY <3>2, <3>3
    <2>4. Inserted(w, holders, at) = Inserted(v, holders, at)
        BY <2>2, <2>3 DEF Inserted
    <2>5. Updated(row, w, holders, at) = Updated(row, v, holders, at)
        BY <2>2, <2>3 DEF Updated
    <2>6. QED
        BY <1>2, <2>4, <2>5 DEF AssetAfter
<1>3. QED
    BY <1>1, <1>2

\* The last of a set of addresses is the one that is not smaller than another.
LEMMA LastOfUnique ==
    ASSUME NEW holders \in SUBSET IPs, NEW ip \in holders, \A j \in holders : j <= ip
    PROVE  LastOf(holders) = ip
<1>1. IsLast(LastOf(holders), holders)
    BY LastOfHolders
<1>2. LastOf(holders) <= ip /\ ip <= LastOf(holders)
    BY <1>1 DEF IsLast
<1>3. LastOf(holders) \in Nat /\ ip \in Nat
    BY <1>1, AddressAssumption DEF IsLast, AddressAssumption
<1>4. QED
    BY <1>2, <1>3

\* One round of the loop: the next host joins the holders of its identity as
\* their last, and those of the other identities stay as they are.
JoinsLast(hosts, left, ip) ==
    LET v   == Visited(hosts, left)
        w   == Visited(hosts, left \ {ip})
        own == IdentityKey(ip, hosts[ip])
    IN  /\ v \in Hosts /\ w \in Hosts
        /\ w[ip] = hosts[ip]
        /\ \A j \in IPs \ {ip} : w[j] = v[j]
        /\ ip \notin Holders(v, own)
        /\ \A j \in Holders(v, own) : j < ip
        /\ Holders(w, own) = Holders(v, own) \cup {ip}
        /\ \A k \in Identities : k # own => Holders(w, k) = Holders(v, k)

LEMMA VisitNext ==
    ASSUME NEW hosts \in Hosts, NEW left \in SUBSET PresentHosts(hosts), NEW ip \in left,
           \A j \in left : ip <= j,
           \A j \in PresentHosts(hosts) \ left : j < ip
    PROVE  JoinsLast(hosts, left, ip)
<1> DEFINE v   == Visited(hosts, left)
           w   == Visited(hosts, left \ {ip})
           own == IdentityKey(ip, hosts[ip])
<1>1. v \in Hosts /\ w \in Hosts
    BY DEF Visited, Hosts
<1>2. ip \in IPs /\ hosts[ip] # Absent
    BY DEF PresentHosts
<1>3. w[ip] = hosts[ip] /\ v[ip] = Absent
    BY <1>2 DEF Visited
<1>4. \A j \in IPs \ {ip} : w[j] = v[j]
    BY DEF Visited
<1>5. \A k : ip \notin Holders(v, k)
    BY <1>3 DEF Holders
<1>6. \A j \in Holders(v, own) : j < ip
    BY DEF Holders, Visited, PresentHosts
<1>7. ASSUME NEW k, NEW j \in IPs \ {ip}
      PROVE  j \in Holders(w, k) <=> j \in Holders(v, k)
    BY <1>4 DEF Holders
<1>8. ASSUME NEW k PROVE ip \in Holders(w, k) <=> k = own
    BY <1>2, <1>3 DEF Holders
<1>9. ASSUME NEW k PROVE Holders(w, k) \subseteq IPs /\ Holders(v, k) \subseteq IPs
    BY DEF Holders
<1>10. Holders(w, own) = Holders(v, own) \cup {ip}
    BY <1>5, <1>7, <1>8, <1>9
<1>11. ASSUME NEW k, k # own PROVE Holders(w, k) = Holders(v, k)
    <2>1. own # k
        BY <1>11
    <2>2. \A j : j \in Holders(w, k) <=> j \in Holders(v, k)
        BY <1>5, <1>7, <1>8, <1>9, <2>1
    <2>3. QED
        BY <1>9, <2>2
<1>12. QED
    BY <1>1, <1>3, <1>4, <1>5, <1>6, <1>10, <1>11 DEF JoinsLast

-----------------------------------------------------------------------------
(* One round of the loop, in closed form *)

\* The name left by a host that comes last: its own, or the one found before.
LEMMA NameAfterVisit ==
    ASSUME NEW v \in Hosts, NEW w \in Hosts, NEW holders \in SUBSET IPs, NEW ip \in IPs,
           \A j \in holders : j < ip,
           \A j \in holders : w[j] = v[j],
           NEW old
    PROVE  NameAfter(w, holders \cup {ip}, old) =
                IF w[ip].name # NoName THEN w[ip].name ELSE NameAfter(v, holders, old)
<1> DEFINE all   == {j \in holders \cup {ip} : w[j].name # NoName}
           named == {j \in holders : v[j].name # NoName}
<1>1. ip \in Nat /\ \A j \in holders : j \in Nat
    BY AddressAssumption DEF AddressAssumption
<1>2. CASE w[ip].name # NoName
    <2>1. all \in SUBSET IPs /\ ip \in all
        BY <1>2
    <2>2. \A j \in all : j <= ip
        BY <1>1
    <2> HIDE DEF all
    <2>3. LastOf(all) = ip
        BY <2>1, <2>2, LastOfUnique
    <2>4. all # {}
        BY <2>1
    <2>5. QED
        BY <1>2, <2>3, <2>4 DEF NameAfter, all
<1>3. CASE w[ip].name = NoName
    <2>1. all = named
        BY <1>3
    <2>2. CASE named = {}
        BY <1>3, <2>1, <2>2 DEF NameAfter
    <2>3. CASE named # {}
        <3>1. LastOf(named) \in named
            BY <2>3, LastOfHolders DEF IsLast
        <3>2. w[LastOf(named)] = v[LastOf(named)]
            BY <3>1
        <3>3. QED
            BY <1>3, <2>1, <2>3, <3>2 DEF NameAfter
    <2>4. QED
        BY <2>2, <2>3
<1>4. QED
    BY <1>2, <1>3

\* Another holder, later than the others: the last one and the count.
LEMMA OneMoreHolder ==
    ASSUME NEW holders \in SUBSET IPs, NEW ip \in IPs, \A j \in holders : j < ip,
           ip \notin holders
    PROVE  /\ holders \cup {ip} # {}
           /\ LastOf(holders \cup {ip}) = ip
           /\ Cardinality(holders) \in Nat
           /\ Cardinality(holders \cup {ip}) = Cardinality(holders) + 1
           /\ Cardinality(holders) = 0 <=> holders = {}
<1>1. IsFiniteSet(holders) /\ ip \in Nat /\ \A j \in holders : j \in Nat
    BY AddressAssumption, FS_Subset DEF AddressAssumption
<1>2. holders \cup {ip} \in SUBSET IPs /\ \A j \in holders \cup {ip} : j <= ip
    BY <1>1
<1>3. LastOf(holders \cup {ip}) = ip
    BY <1>2, LastOfUnique
<1>4. QED
    BY <1>1, <1>3, FS_AddElement, FS_CardinalityType, FS_EmptySet

\* UpsertAsset is one round of AssetAfter: an INSERT for the first host of an
\* identity that has no row, an UPDATE of the aged row for the first host of one
\* that has, an UPDATE of what the loop itself wrote for every further host.
LEMMA UpsertAssetStep ==
    ASSUME NEW v \in Hosts, NEW w \in Hosts, NEW ip \in IPs, NEW k,
           ip \notin Holders(v, k), \A j \in Holders(v, k) : j < ip,
           Holders(w, k) = Holders(v, k) \cup {ip},
           \A j \in IPs \ {ip} : w[j] = v[j],
           NEW row \in AssetRow \cup {NoRow}, NEW at \in Times
    PROVE  AssetAfter(row, w, k, at) =
                UpsertAsset(AssetAfter(row, v, k, at), ip, w[ip], at)
<1> DEFINE holders == Holders(v, k)
           more    == Holders(w, k)
           before  == AssetAfter(row, v, k, at)
           host    == w[ip]
<1>1. holders \in SUBSET IPs
    BY DEF Holders
<1>2. /\ more # {} /\ LastOf(more) = ip
      /\ Cardinality(holders) \in Nat
      /\ Cardinality(more) = Cardinality(holders) + 1
      /\ Cardinality(holders) = 0 <=> holders = {}
    BY <1>1, OneMoreHolder
<1>3. \A j \in holders : w[j] = v[j]
    BY <1>1
<1>4. \A old : NameAfter(w, more, old) =
            IF host.name # NoName THEN host.name ELSE NameAfter(v, holders, old)
    BY <1>1, <1>3, NameAfterVisit
<1>5. before \in AssetRow \cup {NoRow} /\ (before = NoRow <=> row = NoRow /\ holders = {})
    BY AssetAfterType
<1>6. holders = {} => \A old : NameAfter(v, holders, old) = old
    BY DEF NameAfter
<1>7. CASE row = NoRow
    <2>1. AssetAfter(row, w, k, at) = Inserted(w, more, at)
        BY <1>2, <1>7 DEF AssetAfter
    <2>2. CASE holders = {}
        <3>1. Cardinality(more) = 1 /\ before = NoRow
            BY <1>2, <1>5, <1>7, <2>2
        <3>2. NameAfter(w, more, NoName) = host.name
            BY <1>4, <1>6, <2>2
        <3> HIDE DEF holders, more, before, host
        <3>3. Inserted(w, more, at) = UpsertAsset(before, ip, host, at)
            BY <1>2, <3>1, <3>2 DEF Inserted, UpsertAsset, host
        <3>4. QED
            BY <2>1, <3>3 DEF before, host
    <2>3. CASE holders # {}
        <3>1. before = Inserted(v, holders, at) /\ before # NoRow
            BY <1>5, <1>7, <2>3 DEF AssetAfter
        <3>2. Cardinality(more) # 1 /\ Cardinality(more) = Cardinality(holders) + 1
            BY <1>2, <2>3
        <3>3. NameAfter(w, more, NoName) =
                IF host.name # NoName THEN host.name ELSE NameAfter(v, holders, NoName)
            BY <1>4
        <3> HIDE DEF holders, more, before, host
        <3>4. Inserted(w, more, at) = UpsertAsset(before, ip, host, at)
            BY <1>2, <3>1, <3>2, <3>3 DEF Inserted, UpsertAsset, host
        <3>5. QED
            BY <2>1, <3>4 DEF before, host
    <2>4. QED
        BY <2>2, <2>3
<1>8. CASE row # NoRow
    <2>1. AssetAfter(row, w, k, at) = Updated(row, w, more, at)
        BY <1>2, <1>8 DEF AssetAfter
    <2>2. before # NoRow /\ row \in AssetRow
        BY <1>5, <1>8
    <2>3. CASE holders = {}
        <3>1. before = Missed(row)
            BY <1>8, <2>3 DEF AssetAfter
        <3>2. Cardinality(more) = 1
            BY <1>2, <2>3
        <3>3. NameAfter(w, more, row.name) =
                IF host.name # NoName THEN host.name ELSE row.name
            BY <1>4, <1>6, <2>3
        <3> HIDE DEF holders, more, before, host
        <3>4. Updated(row, w, more, at) = UpsertAsset(before, ip, host, at)
            BY <1>2, <2>2, <3>1, <3>2, <3>3 DEF Updated, UpsertAsset, Missed, AssetRow, host
        <3>5. QED
            BY <2>1, <3>4 DEF before, host
    <2>4. CASE holders # {}
        <3>1. before = Updated(row, v, holders, at)
            BY <1>8, <2>4 DEF AssetAfter
        <3>2. row.count + Cardinality(more) = (row.count + Cardinality(holders)) + 1
            BY <1>2, <2>2 DEF AssetRow
        <3>3. NameAfter(w, more, row.name) =
                IF host.name # NoName THEN host.name ELSE NameAfter(v, holders, row.name)
            BY <1>4
        <3> HIDE DEF holders, more, before, host
        <3>4. Updated(row, w, more, at) = UpsertAsset(before, ip, host, at)
            BY <1>2, <2>2, <3>1, <3>2, <3>3 DEF Updated, UpsertAsset, host
        <3>5. QED
            BY <2>1, <3>4 DEF before, host
    <2>5. QED
        BY <2>3, <2>4
<1>9. QED
    BY <1>7, <1>8

\* The row of service_history before the loop sees a holder: present is cleared.
Cleared(row) == IF row = NoRow THEN NoRow ELSE [row EXCEPT !.present = FALSE]

\* UpsertService is one round of HistoryAfter, for a port the host has open; for
\* the others the row stays what it was.
LEMMA UpsertServiceStep ==
    ASSUME NEW v \in Hosts, NEW w \in Hosts, NEW ip \in IPs, NEW k, NEW p \in Ports,
           ip \notin Holders(v, k), \A j \in Holders(v, k) : j < ip,
           Holders(w, k) = Holders(v, k) \cup {ip},
           \A j \in IPs \ {ip} : w[j] = v[j],
           NEW row \in HistoryRow \cup {NoRow}, NEW at \in Times
    PROVE  HistoryAfter(row, w, k, p, at) =
                IF w[ip].svc[p] = Closed THEN HistoryAfter(row, v, k, p, at)
                ELSE UpsertService(HistoryAfter(row, v, k, p, at), ip, at)
<1> DEFINE holders == PortHolders(v, k, p)
           more    == PortHolders(w, k, p)
           before  == HistoryAfter(row, v, k, p, at)
<1>1. holders \in SUBSET IPs /\ ip \notin holders /\ \A j \in holders : j < ip
    BY DEF PortHolders, Holders
<1>2. \A j \in Holders(v, k) : w[j] = v[j]
    BY DEF Holders
<1>3. more = IF w[ip].svc[p] = Closed THEN holders ELSE holders \cup {ip}
    BY <1>2 DEF PortHolders
<1>4. CASE w[ip].svc[p] = Closed
    <2>1. more = holders
        BY <1>3, <1>4
    <2>2. QED
        BY <1>4, <2>1 DEF HistoryAfter
<1>5. CASE w[ip].svc[p] # Closed
    <2>1. more = holders \cup {ip}
        BY <1>3, <1>5
    <2> HIDE DEF holders, more
    <2>2. /\ more # {} /\ LastOf(more) = ip
          /\ Cardinality(holders) \in Nat
          /\ Cardinality(more) = Cardinality(holders) + 1
          /\ Cardinality(holders) = 0 <=> holders = {}
        BY <1>1, <2>1, OneMoreHolder
    <2>3. before = NoRow <=> row = NoRow /\ holders = {}
        BY HistoryAfterType DEF holders
    <2> DEFINE after == [ip      |-> ip,
                         present |-> TRUE,
                         count   |-> (IF row = NoRow THEN 0 ELSE row.count)
                                     + Cardinality(more),
                         first   |-> IF row = NoRow THEN at ELSE row.first,
                         last    |-> at]
    <2>4. HistoryAfter(row, w, k, p, at) = after
        BY <2>2 DEF HistoryAfter, more
    <2>5. CASE before = NoRow
        <3>1. row = NoRow /\ Cardinality(more) = 1
            BY <2>2, <2>3, <2>5
        <3> HIDE DEF before
        <3>2. after = UpsertService(before, ip, at)
            BY <2>5, <3>1 DEF UpsertService
        <3>3. QED
            BY <1>5, <2>4, <3>2 DEF before
    <2>6. CASE before # NoRow /\ holders = {}
        <3>1. before = [row EXCEPT !.present = FALSE] /\ row # NoRow /\ row \in HistoryRow
            BY <2>3, <2>6 DEF HistoryAfter, holders
        <3>2. Cardinality(more) = 1
            BY <2>2, <2>6
        <3> HIDE DEF before
        <3>3. after = UpsertService(before, ip, at)
            BY <2>6, <3>1, <3>2 DEF UpsertService, HistoryRow
        <3>4. QED
            BY <1>5, <2>4, <3>3 DEF before
    <2>7. CASE before # NoRow /\ holders # {}
        <3>1. before = [ip      |-> LastOf(holders),
                        present |-> TRUE,
                        count   |-> (IF row = NoRow THEN 0 ELSE row.count)
                                    + Cardinality(holders),
                        first   |-> IF row = NoRow THEN at ELSE row.first,
                        last    |-> at]
            BY <2>7 DEF HistoryAfter, holders
        <3>2. (IF row = NoRow THEN 0 ELSE row.count) \in Nat
            BY DEF HistoryRow
        <3> DEFINE old == IF row = NoRow THEN 0 ELSE row.count
        <3>3. (old + Cardinality(holders)) + 1 = old + Cardinality(more)
            BY <2>2, <3>2
        <3> HIDE DEF before, old
        <3>4. UpsertService(before, ip, at) =
                [before EXCEPT !.ip = ip, !.present = TRUE,
                               !.count = @ + 1, !.last = at]
            BY <2>7 DEF UpsertService
        <3>5. before = [ip      |-> LastOf(holders),
                        present |-> TRUE,
                        count   |-> old + Cardinality(holders),
                        first   |-> IF row = NoRow THEN at ELSE row.first,
                        last    |-> at]
            BY <3>1 DEF old
        <3>6. after = [ip      |-> ip,
                       present |-> TRUE,
                       count   |-> (old + Cardinality(holders)) + 1,
                       first   |-> IF row = NoRow THEN at ELSE row.first,
                       last    |-> at]
            BY <3>3 DEF old
        <3> HIDE DEF after
        <3>7. UpsertService(before, ip, at) = after
            BY <3>4, <3>5, <3>6
        <3>8. QED
            BY <1>5, <2>4, <3>7 DEF before
    <2>8. QED
        BY <2>5, <2>6, <2>7
<1>6. QED
    BY <1>4, <1>5

-----------------------------------------------------------------------------
(* The inductive invariant *)

Aged(row) == IF row = NoRow THEN NoRow ELSE Missed(row)

\* The bound on scans still holds when the transaction commits.
RoomForScan == tx # NoTx => Len(scans[tx.target]) < MaxScans

\* The loop goes through the hosts in address order: those visited come before
\* those left, and none has been visited before the loop starts.
LoopOrder ==
    tx # NoTx =>
        /\ tx.left \subseteq PresentHosts(tx.hosts)
        /\ \A j \in PresentHosts(tx.hosts) \ tx.left, ip \in tx.left : j < ip
        /\ tx.stage # "upserting" => tx.left = PresentHosts(tx.hosts)

\* Before the loop, the working rows are the committed ones, then the aged ones.
BeforeLoop ==
    tx # NoTx /\ tx.stage # "upserting" =>
        /\ \A k \in Identities : tx.assets[k] =
                IF tx.stage = "opened" THEN assets[tx.target][k]
                ELSE Aged(assets[tx.target][k])
        /\ tx.history = history[tx.target]

\* In the loop, for one identity: the body of LoopInvariant.
RowsOf(k) ==
    /\ tx.assets[k] =
            AssetAfter(assets[tx.target][k], Visited(tx.hosts, tx.left), k, tx.at)
    /\ \A p \in Ports : tx.history[k][p] =
            HistoryAfter(history[tx.target][k][p], Visited(tx.hosts, tx.left), k, p, tx.at)

TxInv == TxTypeOK /\ RoomForScan /\ LoopOrder /\ BeforeLoop /\ LoopInvariant

LEMMA LoopInvariantRows ==
    LoopInvariant <=>
        (tx # NoTx /\ tx.stage = "upserting" => \A k \in Identities : RowsOf(k))
BY DEF LoopInvariant, RowsOf, Visited

LEMMA LoopInvariantRowsNext ==
    LoopInvariant' <=>
        (tx' # NoTx /\ tx'.stage = "upserting" => \A k \in Identities : RowsOf(k)')
BY DEF LoopInvariant, RowsOf, Visited

\* What the type invariant says of an open transaction.
LEMMA OpenTxType ==
    ASSUME TxTypeOK, tx # NoTx
    PROVE  /\ tx \in Tx
           /\ tx.target \in Targets /\ tx.hosts \in Inventories /\ tx.hosts \in Hosts
           /\ tx.at \in Times /\ tx.changes \in ChangeLists /\ tx.changes \in SUBSET Change
           /\ \A k \in Identities :
                /\ tx.assets[k] \in AssetRow \cup {NoRow}
                /\ assets[tx.target][k] \in AssetRow \cup {NoRow}
                /\ \A p \in Ports :
                    /\ tx.history[k][p] \in HistoryRow \cup {NoRow}
                    /\ history[tx.target][k][p] \in HistoryRow \cup {NoRow}
<1>1. tx \in Tx
    BY DEF TxTypeOK
<1>2. tx.hosts \in Hosts /\ tx.changes \in SUBSET Change
    BY <1>1, InventoriesAreHosts, StoreAssumption DEF Tx, StoreAssumption
<1>3. QED
    BY <1>1, <1>2 DEF TxTypeOK, TypeOK, Tx

LEMMA MissedType ==
    ASSUME NEW row \in AssetRow
    PROVE  Missed(row) \in AssetRow
<1> DEFINE state == IF row.missed + 1 >= offlineAfterMisses THEN "OFFLINE" ELSE "STALE"
<1>1. row.missed + 1 \in Nat /\ state \in States
    BY DEF AssetRow, States
<1> HIDE DEF state
<1>2. [row EXCEPT !.missed = row.missed + 1, !.state = state] \in AssetRow
    BY <1>1 DEF AssetRow
<1>3. QED
    BY <1>2 DEF Missed, state

-----------------------------------------------------------------------------
(* The statements *)

LEMMA OpenTxPreserves ==
    ASSUME TxInv, NEW t \in Targets, NEW hosts \in Inventories, NEW at \in Times,
           NEW changes \in ChangeLists, OpenTx(t, hosts, at, changes)
    PROVE  TxInv'
<1> DEFINE new == [stage |-> "opened", target |-> t, hosts |-> hosts, at |-> at,
                   changes |-> changes, left |-> {ip \in IPs : hosts[ip] # Absent},
                   assets |-> assets[t], history |-> history[t]]
<1>1. tx' = new /\ UNCHANGED storeVars /\ Len(scans[t]) < MaxScans
    BY DEF OpenTx
<1>2. TypeOK'
    BY <1>1 DEF TxInv, TxTypeOK, TypeOK, storeVars
<1>3. new \in Tx
    BY DEF TxInv, TxTypeOK, TypeOK, Tx, Stages
<1>4. /\ tx'.stage = "opened" /\ tx'.target = t /\ tx'.hosts = hosts
      /\ tx'.left = PresentHosts(hosts)
      /\ tx'.assets = assets[t] /\ tx'.history = history[t]
    BY <1>1 DEF PresentHosts
<1>5. LoopOrder'
    BY <1>4 DEF LoopOrder, PresentHosts
<1>6. BeforeLoop'
    BY <1>1, <1>4 DEF BeforeLoop, storeVars
<1>7. RoomForScan'
    BY <1>1, <1>4 DEF RoomForScan, storeVars
<1>8. LoopInvariant'
    BY <1>4 DEF LoopInvariant
<1>9. QED
    BY <1>1, <1>2, <1>3, <1>5, <1>6, <1>7, <1>8 DEF TxInv, TxTypeOK

LEMMA AgeAssetsPreserves ==
    ASSUME TxInv, AgeAssets
    PROVE  TxInv'
<1> DEFINE rows == [k \in Identities |->
                        IF tx.assets[k] = NoRow THEN NoRow ELSE Missed(tx.assets[k])]
<1>1. tx # NoTx /\ tx.stage = "opened" /\ UNCHANGED storeVars /\ TxTypeOK
    BY DEF AgeAssets, TxInv
<1>2. tx \in Tx
    BY <1>1, OpenTxType
<1>3. tx' = [tx EXCEPT !.stage = "aged", !.assets = rows]
    BY DEF AgeAssets
<1>4. rows \in [Identities -> AssetRow \cup {NoRow}]
    BY <1>1, OpenTxType, MissedType
<1>5. /\ tx'.stage = "aged" /\ tx'.target = tx.target /\ tx'.hosts = tx.hosts
      /\ tx'.left = tx.left /\ tx'.assets = rows /\ tx'.history = tx.history
    BY <1>2, <1>3 DEF Tx
<1>6. TxTypeOK'
    <2>1. tx' \in Tx
        <3> HIDE DEF rows
        <3>1. QED
            BY <1>2, <1>3, <1>4 DEF Tx, Stages
    <2>2. TypeOK'
        BY <1>1 DEF TxTypeOK, TypeOK, storeVars
    <2>3. QED
        BY <2>1, <2>2 DEF TxTypeOK
<1>7. LoopOrder'
    BY <1>1, <1>5 DEF TxInv, LoopOrder
<1>8. BeforeLoop'
    BY <1>1, <1>5 DEF TxInv, BeforeLoop, Aged, storeVars
<1>9. RoomForScan' /\ LoopInvariant'
    BY <1>1, <1>5 DEF TxInv, RoomForScan, LoopInvariant, storeVars
<1>10. QED
    BY <1>6, <1>7, <1>8, <1>9 DEF TxInv

\* No host is visited yet: the closed form of no holder is ageing and clearing.
LEMMA ClearPresencePreserves ==
    ASSUME TxInv, ClearPresence
    PROVE  TxInv'
<1> DEFINE rows == [k \in Identities |-> [p \in Ports |->
                        IF tx.history[k][p] = NoRow THEN NoRow
                        ELSE [tx.history[k][p] EXCEPT !.present = FALSE]]]
           none == Visited(tx.hosts, tx.left)
<1>1. tx # NoTx /\ tx.stage = "aged" /\ UNCHANGED storeVars /\ TxTypeOK
    BY DEF ClearPresence, TxInv
<1>2. tx \in Tx
    BY <1>1, OpenTxType
<1>3. tx' = [tx EXCEPT !.stage = "upserting", !.history = rows]
    BY DEF ClearPresence
<1>4. rows \in [Identities -> [Ports -> HistoryRow \cup {NoRow}]]
    <2>1. ASSUME NEW k \in Identities, NEW p \in Ports
          PROVE  rows[k][p] \in HistoryRow \cup {NoRow}
        <3>1. tx.history[k][p] \in HistoryRow \cup {NoRow}
            BY <1>1, OpenTxType
        <3>2. QED
            BY <3>1 DEF HistoryRow
    <2>2. QED
        BY <2>1
<1>5. /\ tx'.stage = "upserting" /\ tx'.target = tx.target /\ tx'.hosts = tx.hosts
      /\ tx'.left = tx.left /\ tx'.assets = tx.assets /\ tx'.history = rows
      /\ tx'.at = tx.at
    BY <1>2, <1>3 DEF Tx
<1>6. TxTypeOK'
    <2>1. tx' \in Tx
        <3> HIDE DEF rows
        <3>1. QED
            BY <1>2, <1>3, <1>4 DEF Tx, Stages
    <2>2. TypeOK'
        BY <1>1 DEF TxTypeOK, TypeOK, storeVars
    <2>3. QED
        BY <2>1, <2>2 DEF TxTypeOK
<1>7. LoopOrder'
    BY <1>1, <1>5 DEF TxInv, LoopOrder
<1>8. BeforeLoop' /\ RoomForScan'
    BY <1>1, <1>5 DEF TxInv, BeforeLoop, RoomForScan, storeVars
<1>9. \A ip \in IPs : none[ip] = Absent
    BY <1>1 DEF TxInv, LoopOrder, Visited, PresentHosts
<1>10. ASSUME NEW k \in Identities PROVE RowsOf(k)'
    <2>1. Holders(none, k) = {} /\ \A p \in Ports : PortHolders(none, k, p) = {}
        BY <1>9 DEF Holders, PortHolders
    <2>2. tx.assets[k] = Aged(assets[tx.target][k])
        BY <1>1 DEF TxInv, BeforeLoop
    <2>3. tx.assets[k] = AssetAfter(assets[tx.target][k], none, k, tx.at)
        BY <2>1, <2>2 DEF Aged, AssetAfter
    <2>4. \A p \in Ports : rows[k][p] =
                HistoryAfter(history[tx.target][k][p], none, k, p, tx.at)
        BY <1>1, <2>1 DEF TxInv, BeforeLoop, HistoryAfter
    <2>5. QED
        BY <1>1, <1>5, <2>3, <2>4 DEF RowsOf, storeVars
<1>11. QED
    BY <1>6, <1>7, <1>8, <1>10, LoopInvariantRowsNext DEF TxInv

LEMMA UpsertHostPreserves ==
    ASSUME TxInv, UpsertHost
    PROVE  TxInv'
<1>1. tx # NoTx /\ tx.stage = "upserting" /\ UNCHANGED storeVars /\ TxTypeOK
    BY DEF UpsertHost, TxInv
<1>2. tx \in Tx /\ tx.hosts \in Hosts /\ tx.at \in Times
    BY <1>1, OpenTxType
<1>3. PICK ip \in tx.left :
        /\ \A j \in tx.left : ip <= j
        /\ LET host == tx.hosts[ip]
               k    == IdentityKey(ip, host)
           IN  tx' = [tx EXCEPT
                        !.left       = @ \ {ip},
                        !.assets[k]  = UpsertAsset(@, ip, host, tx.at),
                        !.history[k] = [p \in Ports |->
                            IF host.svc[p] = Closed THEN @[p]
                            ELSE UpsertService(@[p], ip, tx.at)]]
    BY DEF UpsertHost
<1> DEFINE host    == tx.hosts[ip]
           own     == IdentityKey(ip, host)
           v       == Visited(tx.hosts, tx.left)
           w       == Visited(tx.hosts, tx.left \ {ip})
           row     == UpsertAsset(tx.assets[own], ip, host, tx.at)
           service == [p \in Ports |-> IF host.svc[p] = Closed THEN tx.history[own][p]
                                       ELSE UpsertService(tx.history[own][p], ip, tx.at)]
<1>4. ip \in IPs /\ host \in Host /\ own \in Identities
    <2>1. ip \in IPs /\ host # Absent
        BY <1>1 DEF TxInv, LoopOrder, PresentHosts
    <2>2. host \in Host
        BY <1>2, <2>1 DEF Hosts
    <2>3. QED
        BY <2>1, <2>2 DEF Identities, IdentityKey, Host
<1>5. /\ tx'.stage = "upserting" /\ tx'.target = tx.target /\ tx'.hosts = tx.hosts
      /\ tx'.at = tx.at /\ tx'.changes = tx.changes
      /\ tx'.left = tx.left \ {ip}
      /\ tx'.assets = [tx.assets EXCEPT ![own] = row]
      /\ tx'.history = [tx.history EXCEPT ![own] = service]
    BY <1>1, <1>2, <1>3 DEF Tx
<1>6. /\ v \in Hosts /\ w \in Hosts /\ w[ip] = host
      /\ \A j \in IPs \ {ip} : w[j] = v[j]
      /\ ip \notin Holders(v, own)
      /\ \A j \in Holders(v, own) : j < ip
      /\ Holders(w, own) = Holders(v, own) \cup {ip}
      /\ \A k \in Identities : k # own => Holders(w, k) = Holders(v, k)
    <2>1. /\ tx.left \in SUBSET PresentHosts(tx.hosts)
          /\ \A j \in PresentHosts(tx.hosts) \ tx.left : j < ip
        BY <1>1 DEF TxInv, LoopOrder
    <2>2. ip \in tx.left /\ \A j \in tx.left : ip <= j
        BY <1>3
    <2>3. JoinsLast(tx.hosts, tx.left, ip)
        BY <1>2, <2>1, <2>2, VisitNext
    <2>4. QED
        BY <2>3 DEF JoinsLast
<1>7. ASSUME NEW k \in Identities PROVE RowsOf(k)
    BY <1>1, <1>7, LoopInvariantRows DEF TxInv
<1>8. ASSUME NEW k \in Identities
      PROVE  /\ tx'.assets[k] = AssetAfter(assets[tx.target][k], w, k, tx.at)
             /\ \A p \in Ports : tx'.history[k][p] =
                    HistoryAfter(history[tx.target][k][p], w, k, p, tx.at)
    <2> HIDE DEF host, v, w
    <2>1. /\ tx.assets[k] = AssetAfter(assets[tx.target][k], v, k, tx.at)
          /\ \A p \in Ports : tx.history[k][p] =
                    HistoryAfter(history[tx.target][k][p], v, k, p, tx.at)
        BY <1>7 DEF RowsOf, v
    <2>2. /\ assets[tx.target][k] \in AssetRow \cup {NoRow}
          /\ \A p \in Ports : history[tx.target][k][p] \in HistoryRow \cup {NoRow}
          /\ k \in DOMAIN tx.assets /\ k \in DOMAIN tx.history
        BY <1>1, <1>2, OpenTxType DEF Tx
    <2>3. CASE k = own
        <3>1. tx'.assets[k] = row /\ tx'.history[k] = service
            BY <1>5, <2>2, <2>3
        <3>2. AssetAfter(assets[tx.target][k], w, k, tx.at) = row
            <4>1. /\ ip \notin Holders(v, k) /\ \A j \in Holders(v, k) : j < ip
                  /\ Holders(w, k) = Holders(v, k) \cup {ip}
                BY <1>6, <2>3
            <4>2. AssetAfter(assets[tx.target][k], w, k, tx.at) =
                    UpsertAsset(AssetAfter(assets[tx.target][k], v, k, tx.at), ip,
                                w[ip], tx.at)
                BY <1>2, <1>4, <1>6, <2>2, <4>1, UpsertAssetStep
            <4>3. QED
                BY <1>6, <2>1, <2>3, <4>2
        <3>3. ASSUME NEW p \in Ports
              PROVE  HistoryAfter(history[tx.target][k][p], w, k, p, tx.at) = service[p]
            <4>1. HistoryAfter(history[tx.target][k][p], w, k, p, tx.at) =
                    IF host.svc[p] = Closed THEN tx.history[k][p]
                    ELSE UpsertService(tx.history[k][p], ip, tx.at)
                BY <1>2, <1>4, <1>6, <2>1, <2>2, <2>3, UpsertServiceStep
            <4>2. QED
                BY <2>3, <4>1
        <3>4. QED
            BY <3>1, <3>2, <3>3
    <2>4. CASE k # own
        <3>1. tx'.assets[k] = tx.assets[k] /\ tx'.history[k] = tx.history[k]
            BY <1>5, <2>2, <2>4
        <3>2. Holders(w, k) = Holders(v, k) /\ \A j \in Holders(v, k) : w[j] = v[j]
            BY <1>6, <2>4 DEF Holders
        <3>3. \A p \in Ports : PortHolders(w, k, p) = PortHolders(v, k, p)
            BY <3>2 DEF PortHolders
        <3>4. AssetAfter(assets[tx.target][k], w, k, tx.at) = tx.assets[k]
            BY <1>6, <2>1, <3>2, AssetAfterSame
        <3>5. \A p \in Ports : HistoryAfter(history[tx.target][k][p], w, k, p, tx.at) =
                    tx.history[k][p]
            BY <2>1, <3>3 DEF HistoryAfter
        <3>6. QED
            BY <3>1, <3>4, <3>5
    <2>5. QED
        BY <2>3, <2>4
<1>9. LoopInvariant'
    <2>1. ASSUME NEW k \in Identities PROVE RowsOf(k)'
        <3>1. assets' = assets /\ history' = history
            BY <1>1 DEF storeVars
        <3>2. Visited(tx.hosts, tx.left)' = w
            BY <1>5 DEF Visited
        <3> HIDE DEF w, host, own
        <3>3. /\ tx'.assets[k] = AssetAfter(assets[tx.target][k], w, k, tx.at)
              /\ \A p \in Ports : tx'.history[k][p] =
                    HistoryAfter(history[tx.target][k][p], w, k, p, tx.at)
            BY <1>8
        <3>4. tx'.target = tx.target /\ tx'.at = tx.at
            BY <1>5
        <3>5. QED
            BY <3>1, <3>2, <3>3, <3>4 DEF RowsOf
    <2>2. QED
        BY <2>1, LoopInvariantRowsNext
<1>10. TxTypeOK'
    <2>1. ASSUME NEW k \in Identities
          PROVE  /\ tx'.assets[k] \in AssetRow \cup {NoRow}
                 /\ \A p \in Ports : tx'.history[k][p] \in HistoryRow \cup {NoRow}
        <3>1. /\ assets[tx.target][k] \in AssetRow \cup {NoRow}
              /\ \A p \in Ports : history[tx.target][k][p] \in HistoryRow \cup {NoRow}
            BY <1>1, OpenTxType
        <3> HIDE DEF w
        <3>2. AssetAfter(assets[tx.target][k], w, k, tx.at) \in AssetRow \cup {NoRow}
            BY <1>2, <1>6, <3>1, AssetAfterType
        <3>3. ASSUME NEW p \in Ports
              PROVE  HistoryAfter(history[tx.target][k][p], w, k, p, tx.at)
                        \in HistoryRow \cup {NoRow}
            BY <1>2, <1>6, <3>1, HistoryAfterType
        <3>4. QED
            BY <1>8, <3>2, <3>3
    <2>2. /\ tx.assets \in [Identities -> AssetRow \cup {NoRow}]
          /\ tx.history \in [Identities -> [Ports -> HistoryRow \cup {NoRow}]]
          /\ tx.left \in SUBSET IPs
        BY <1>2 DEF Tx
    <2>3. tx'.assets \in [Identities -> AssetRow \cup {NoRow}]
        <3>1. row \in AssetRow \cup {NoRow}
            BY <1>4, <1>5, <2>1, <2>2
        <3> HIDE DEF row
        <3>2. QED
            BY <1>5, <2>2, <3>1
    <2>4. tx'.history \in [Identities -> [Ports -> HistoryRow \cup {NoRow}]]
        <3>1. tx'.history[own] = service
            BY <1>4, <1>5, <2>2
        <3>2. \A p \in Ports : service[p] \in HistoryRow \cup {NoRow}
            BY <1>4, <2>1, <3>1
        <3>3. service \in [Ports -> HistoryRow \cup {NoRow}]
            BY <3>2
        <3> HIDE DEF service
        <3>4. QED
            BY <1>5, <2>2, <3>3
    <2>5. tx' \in Tx
        <3>1. tx' = [tx EXCEPT !.left = tx'.left, !.assets = tx'.assets,
                               !.history = tx'.history]
            BY <1>2, <1>3, <1>5 DEF Tx
        <3>2. tx'.left \in SUBSET IPs
            BY <1>5, <2>2
        <3>3. QED
            BY <1>2, <2>3, <2>4, <3>1, <3>2 DEF Tx
    <2>6. TypeOK'
        BY <1>1 DEF TxTypeOK, TypeOK, storeVars
    <2>7. QED
        BY <2>5, <2>6 DEF TxTypeOK
<1>11. LoopOrder'
    <2> DEFINE present == PresentHosts(tx.hosts)
    <2>1. tx.left \subseteq present /\ ip \in Nat /\ \A j \in tx.left : j \in Nat
        BY <1>1, AddressAssumption DEF TxInv, LoopOrder, PresentHosts, AddressAssumption
    <2>2. \A j \in present \ tx.left, i \in tx.left : j < i
        BY <1>1 DEF TxInv, LoopOrder
    <2>3. \A i \in tx.left \ {ip} : ip < i
        BY <1>3, <2>1
    <2>4. \A j \in present \ (tx.left \ {ip}), i \in tx.left \ {ip} : j < i
        BY <2>2, <2>3
    <2>5. QED
        BY <1>5, <2>1, <2>4 DEF LoopOrder
<1>12. BeforeLoop' /\ RoomForScan'
    BY <1>1, <1>5 DEF TxInv, BeforeLoop, RoomForScan, storeVars
<1>13. QED
    BY <1>9, <1>10, <1>11, <1>12 DEF TxInv

\* The commit publishes what the loop computed: with no host left, the working
\* rows are the closed form for the whole snapshot.
LEMMA CommitTxSaves ==
    ASSUME TxInv, CommitTx
    PROVE  /\ tx.target \in Targets /\ tx.hosts \in Inventories /\ tx.at \in Times
           /\ tx.changes \in ChangeLists
           /\ Len(scans[tx.target]) < MaxScans
           /\ SaveSnapshot(tx.target, tx.hosts, tx.at, tx.changes)
<1>1. tx # NoTx /\ tx.stage = "upserting" /\ tx.left = {} /\ TxTypeOK
    BY DEF CommitTx, TxInv
<1>2. tx \in Tx /\ tx.hosts \in Hosts
    BY <1>1, OpenTxType
<1>3. Visited(tx.hosts, tx.left) = tx.hosts
    BY <1>1, <1>2 DEF Visited, Hosts
<1>4. \A k \in Identities :
        /\ tx.assets[k] = AssetAfter(assets[tx.target][k], tx.hosts, k, tx.at)
        /\ \A p \in Ports : tx.history[k][p] =
                HistoryAfter(history[tx.target][k][p], tx.hosts, k, p, tx.at)
    BY <1>1, <1>3, LoopInvariantRows DEF TxInv, RowsOf
<1>5. tx.assets = [k \in Identities |->
                    AssetAfter(assets[tx.target][k], tx.hosts, k, tx.at)]
    BY <1>2, <1>4 DEF Tx
<1>6. tx.history = [k \in Identities |-> [p \in Ports |->
                    HistoryAfter(history[tx.target][k][p], tx.hosts, k, p, tx.at)]]
    <2>1. ASSUME NEW k \in Identities
          PROVE  tx.history[k] = [p \in Ports |->
                    HistoryAfter(history[tx.target][k][p], tx.hosts, k, p, tx.at)]
        BY <1>2, <1>4 DEF Tx
    <2>2. QED
        BY <1>2, <2>1 DEF Tx
<1>7. QED
    BY <1>1, <1>2, <1>5, <1>6 DEF CommitTx, SaveSnapshot, TxInv, RoomForScan, Tx

LEMMA TxInvInit == TxInit => TxInv
BY DEF TxInit, StoreInit, TxInv, TxTypeOK, TypeOK, RoomForScan, LoopOrder, BeforeLoop,
       LoopInvariant

LEMMA TxInvInductive == TxInv /\ TypeOK' /\ [TxNext]_txVars => TxInv'
<1> SUFFICES ASSUME TxInv, TypeOK', [TxNext]_txVars PROVE TxInv'
    OBVIOUS
<1>1. ASSUME tx' = NoTx PROVE TxInv'
    BY <1>1 DEF TxInv, TxTypeOK, RoomForScan, LoopOrder, BeforeLoop, LoopInvariant
<1>2. ASSUME NEW t \in Targets, NEW hosts \in Inventories, NEW at \in Times,
             NEW changes \in ChangeLists, OpenTx(t, hosts, at, changes)
      PROVE  TxInv'
    BY <1>2, OpenTxPreserves
<1>3. CASE AgeAssets
    BY <1>3, AgeAssetsPreserves
<1>4. CASE ClearPresence
    BY <1>4, ClearPresencePreserves
<1>5. CASE UpsertHost
    BY <1>5, UpsertHostPreserves
<1>6. CASE CommitTx
    BY <1>1, <1>6 DEF CommitTx
<1>7. CASE RollbackTx
    BY <1>1, <1>7 DEF RollbackTx
<1>8. CASE UNCHANGED txVars
    <2>1. /\ TypeOK' /\ tx' = tx
          /\ scans' = scans /\ assets' = assets /\ history' = history
        BY <1>8 DEF txVars
    <2>2. TxTypeOK' /\ RoomForScan' /\ LoopOrder' /\ BeforeLoop' /\ LoopInvariant'
        BY <2>1 DEF TxInv, TxTypeOK, RoomForScan, LoopOrder, BeforeLoop, LoopInvariant
    <2>3. QED
        BY <2>2 DEF TxInv
<1>9. QED
    BY <1>2, <1>3, <1>4, <1>5, <1>6, <1>7, <1>8 DEF TxNext

-----------------------------------------------------------------------------
(* Theorems *)

\* Every step of the transaction is one whole SaveSnapshot or changes nothing that
\* another connection can read.
LEMMA TxStepRefines == TxInv /\ [TxNext]_txVars => [StoreNext]_storeVars
<1> SUFFICES ASSUME TxInv, [TxNext]_txVars PROVE [StoreNext]_storeVars
    OBVIOUS
<1>1. CASE CommitTx
    BY <1>1, CommitTxSaves DEF StoreNext
<1>2. CASE ~CommitTx
    BY <1>2 DEF TxNext, OpenTx, AgeAssets, ClearPresence, UpsertHost, RollbackTx, txVars,
                storeVars
<1>3. QED
    BY <1>1, <1>2

LEMMA TxInvariant == TxSpec => []TxInv
<1>1. TxInv /\ [TxNext]_txVars => TxInv'
    <2>1. TxInv => TypeOK
        BY DEF TxInv, TxTypeOK
    <2>2. QED
        BY <2>1, TxStepRefines, TypePreserved, TxInvInductive
<1>2. QED
    BY <1>1, TxInvInit, PTL DEF TxSpec

\* In the loop of updateAssetIntelligence the rows written so far are always those
\* of the closed form for the hosts visited, for any number of hosts that share a
\* hardware address.
THEOREM AlwaysLoopInvariant == TxSpec => []LoopInvariant
<1>1. TxInv => LoopInvariant
    BY DEF TxInv
<1>2. QED
    BY <1>1, TxInvariant, PTL

\* The statements of SaveSnapshot, with every failure and crash between them,
\* implement its atomic form: another connection sees all of it or nothing.
THEOREM TransactionImplementsStore == TxSpec => ImplementsStore
<1>1. TxInit => StoreInit
    BY DEF TxInit
<1>2. QED
    BY <1>1, TxStepRefines, TxInvariant, PTL DEF TxSpec, StoreSpec, ImplementsStore

\* So the asset table digests the log under the transaction too.
THEOREM TransactionKeepsDigest == TxSpec => []AssetsDigestLog
BY TransactionImplementsStore, AssetsAlwaysDigestLog, PTL DEF ImplementsStore

\* And names and device types are those the log tells.
THEOREM TransactionKeepsNames == TxSpec => []NameAndTypeDigestLog
BY TransactionImplementsStore, NameAndTypeAlwaysDigestLog, PTL DEF ImplementsStore

\* And what the rows count, and what the service history says, are the log's.
THEOREM TransactionKeepsCounts ==
    TxSpec => [](CountAndNewAgreeWithLog /\ HistoryTellsLatestScan)
BY TransactionImplementsStore, CountAndNewAlwaysAgreeWithLog, HistoryAlwaysTellsLatestScan, PTL
   DEF ImplementsStore

\* Every statement leaves the tables it is writing with rows of the schema, those
\* that a failing statement or a crash abandons included.
THEOREM TransactionTypeCorrect == TxSpec => []TxTypeOK
<1>1. TxInv => TxTypeOK
    BY DEF TxInv
<1>2. QED
    BY <1>1, TxInvariant, PTL
=============================================================================
