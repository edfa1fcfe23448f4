----------------------------- MODULE SnapshotTx -----------------------------
(***************************************************************************)
(* SaveSnapshot as the code runs it (store.go): one SQL transaction of     *)
(* many statements, the asset and service rows of the target rewritten     *)
(* host by host in a loop, any statement able to fail, the process able to *)
(* die before the commit.  The committed tables are the variables of       *)
(* AssetStore, and the specification implements StoreSpec: what another    *)
(* connection can read only ever changes by one whole SaveSnapshot.        *)
(*                                                                         *)
(* The first statement takes SQLite's write lock.  A second writer gets    *)
(* SQLITE_BUSY for its first statement and returns the error with nothing  *)
(* written, which no variable shows, so one open transaction is enough.    *)
(***************************************************************************)
EXTENDS AssetStore

CONSTANT NoTx           \* no transaction is open

VARIABLE tx             \* the open transaction: its input and its working rows

txVars == <<tx, scans, assets, history>>

Stages == {"opened", "aged", "upserting"}

Tx == [stage : Stages, target : Targets, hosts : Inventories, at : Times,
       changes : ChangeLists,
       left : SUBSET IPs,                     \* hosts the loop has yet to visit
       assets : [Identities -> AssetRow \cup {NoRow}],
       history : [Identities -> [Ports -> HistoryRow \cup {NoRow}]]]

TxTypeOK == TypeOK /\ tx \in Tx \cup {NoTx}

TxInit == StoreInit /\ tx = NoTx

\* Begin and the INSERTs into scans, hosts, services, changes and findings.
OpenTx(t, hosts, at, changes) ==
    /\ tx = NoTx
    /\ Len(scans[t]) < MaxScans
    /\ tx' = [stage |-> "opened", target |-> t, hosts |-> hosts, at |-> at,
              changes |-> changes, left |-> {ip \in IPs : hosts[ip] # Absent},
              assets |-> assets[t], history |-> history[t]]
    /\ UNCHANGED storeVars

\* UPDATE assets SET missed_scans = missed_scans + 1, state = CASE ...
AgeAssets ==
    /\ tx # NoTx /\ tx.stage = "opened"
    /\ tx' = [tx EXCEPT !.stage = "aged",
                        !.assets = [k \in Identities |->
                            IF tx.assets[k] = NoRow THEN NoRow ELSE Missed(tx.assets[k])]]
    /\ UNCHANGED storeVars

\* UPDATE service_history SET present = 0
ClearPresence ==
    /\ tx # NoTx /\ tx.stage = "aged"
    /\ tx' = [tx EXCEPT !.stage = "upserting",
                        !.history = [k \in Identities |-> [p \in Ports |->
                            IF tx.history[k][p] = NoRow THEN NoRow
                            ELSE [tx.history[k][p] EXCEPT !.present = FALSE]]]]
    /\ UNCHANGED storeVars

\* Mutation of UpsertAsset: no SELECT COUNT(1), every host is inserted.
InsertAlways(row, ip, host, at) ==
    [ip |-> ip, name |-> host.name, device |-> Classify(host.name, host.svc),
     state |-> "NEW", missed |-> 0, count |-> 1, first |-> at, last |-> at]

\* Mutation of UpsertAsset: hostname is assigned like every other column.
UpsertAssetName(row, ip, host, at) ==
    IF row = NoRow
    THEN [ip |-> ip, name |-> host.name, device |-> Classify(host.name, host.svc),
          state |-> "NEW", missed |-> 0, count |-> 1, first |-> at, last |-> at]
    ELSE [row EXCEPT !.ip = ip, !.name = host.name,
                     !.device = Classify(host.name, host.svc), !.state = "ACTIVE",
                     !.last = at, !.count = @ + 1, !.missed = 0]

\* INSERT or UPDATE of the asset row of one host.
UpsertAsset(row, ip, host, at) ==
    IF row = NoRow
    THEN [ip |-> ip, name |-> host.name, device |-> Classify(host.name, host.svc),
          state |-> "NEW", missed |-> 0, count |-> 1, first |-> at, last |-> at]
    ELSE [row EXCEPT !.ip     = ip,
                     !.name   = IF host.name # NoName THEN host.name ELSE @,
                     !.device = Classify(host.name, host.svc),
                     !.state  = "ACTIVE",
                     !.last   = at,
                     !.count  = @ + 1,
                     !.missed = 0]

\* Mutation of UpsertService: observation_count starts at zero.
UpsertServiceUncounted(row, ip, at) ==
    [ip |-> ip, present |-> TRUE, count |-> IF row = NoRow THEN 0 ELSE row.count + 1,
     first |-> at, last |-> at]

\* INSERT ... ON CONFLICT DO UPDATE of one service row.
UpsertService(row, ip, at) ==
    IF row = NoRow
    THEN [ip |-> ip, present |-> TRUE, count |-> 1, first |-> at, last |-> at]
    ELSE [row EXCEPT !.ip = ip, !.present = TRUE, !.count = @ + 1, !.last = at]

\* One round of the loop: the next host in address order and its services.
UpsertHost ==
    /\ tx # NoTx /\ tx.stage = "upserting"
    /\ \E ip \in tx.left :
        /\ \A j \in tx.left : ip <= j
        /\ LET host == tx.hosts[ip]
               k    == IdentityKey(ip, host)
           IN  tx' = [tx EXCEPT
                        !.left       = @ \ {ip},
                        !.assets[k]  = UpsertAsset(@, ip, host, tx.at),
                        !.history[k] = [p \in Ports |->
                            IF host.svc[p] = Closed THEN @[p]
                            ELSE UpsertService(@[p], ip, tx.at)]]
    /\ UNCHANGED storeVars

\* Mutation of CommitTx: the transaction is committed while hosts are left.
CommitEarly ==
    /\ tx # NoTx /\ tx.stage = "upserting"
    /\ scans' = [scans EXCEPT ![tx.target] =
                    Append(@, [at |-> tx.at, hosts |-> Stored(tx.hosts),
                               changes |-> tx.changes])]
    /\ assets' = [assets EXCEPT ![tx.target] = tx.assets]
    /\ history' = [history EXCEPT ![tx.target] = tx.history]
    /\ tx' = NoTx

\* tx.Commit after the last host: all the working rows become visible at once.
CommitTx ==
    /\ tx # NoTx /\ tx.stage = "upserting" /\ tx.left = {}
    /\ scans' = [scans EXCEPT ![tx.target] =
                    Append(@, [at |-> tx.at, hosts |-> Stored(tx.hosts),
                               changes |-> tx.changes])]
    /\ assets' = [assets EXCEPT ![tx.target] = tx.assets]
    /\ history' = [history EXCEPT ![tx.target] = tx.history]
    /\ tx' = NoTx

\* A statement or the commit fails and the deferred Rollback runs, or the
\* process dies and SQLite discards the uncommitted pages when it is next opened.
RollbackTx ==
    /\ tx # NoTx
    /\ tx' = NoTx
    /\ UNCHANGED storeVars

TxNext ==
    \/ \E t \in Targets, hosts \in Inventories, at \in Times, changes \in ChangeLists :
            OpenTx(t, hosts, at, changes)
    \/ AgeAssets
    \/ ClearPresence
    \/ UpsertHost
    \/ CommitTx
    \/ RollbackTx

TxSpec == TxInit /\ [][TxNext]_txVars

-----------------------------------------------------------------------------
(* Properties *)

\* The transaction implements the atomic SaveSnapshot: whatever fails or
\* crashes, the committed tables move only by the closed form of AssetStore,
\* hosts that share a hardware address included.
ImplementsStore == StoreSpec

\* Inside the loop the working rows are those the closed form gives for the
\* hosts visited so far, every other row of the target aged and cleared: the
\* invariant that carries the refinement.
LoopInvariant ==
    tx # NoTx /\ tx.stage = "upserting" =>
        LET visited == [ip \in IPs |-> IF ip \in tx.left THEN Absent ELSE tx.hosts[ip]]
        IN  \A k \in Identities :
            /\ tx.assets[k] = AssetAfter(assets[tx.target][k], visited, k, tx.at)
            /\ \A p \in Ports : tx.history[k][p] =
                    HistoryAfter(history[tx.target][k][p], visited, k, p, tx.at)
=============================================================================
