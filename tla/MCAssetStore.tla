---------------------------- MODULE MCAssetStore ----------------------------
(***************************************************************************)
(* A small database for TLC: one target, two addresses, one hardware       *)
(* address that both may show.  The clock advances with every scan, so     *)
(* that a timestamp names the scan it was taken from.                      *)
(***************************************************************************)
EXTENDS AssetStore

CONSTANTS port, page, mac, pc, target

MCIPs == {1, 2}
MCPorts == {port}
MCPrints == {page}
MCStoredPrint == [p \in MCPrints |-> p]
MCMACs == {mac}
MCNames == {pc}
MCNameClass == [n \in MCNames |-> Workstation]
MCTargets == {target}
MCChangeLists == {{}}
MCTimes == 1..5

\* A host with a hardware address, named and with the port open; the same with no
\* name read and the port closed; and a host known by its address only.
Serving == [mac |-> mac, name |-> pc, svc |-> [p \in MCPorts |-> page]]
Closing == [mac |-> mac, name |-> NoName, svc |-> [p \in MCPorts |-> Closed]]
Unnamed == [mac |-> NoMAC, name |-> NoName, svc |-> [p \in MCPorts |-> page]]

MCObservations == {Serving, Closing, Unnamed}

\* The port is seen closed at the first address only.
MCNext ==
    \E t \in Targets, hosts \in Inventories, changes \in ChangeLists :
        /\ Len(scans[t]) < MaxScans
        /\ hosts[2] # Closing
        /\ SaveSnapshot(t, hosts, Len(scans[t]) + 1, changes)

MCSpec == StoreInit /\ [][MCNext]_storeVars
=============================================================================
