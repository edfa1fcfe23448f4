---------------------------- MODULE MCSnapshotTx ----------------------------
(***************************************************************************)
(* The transaction on a small database: one target, two addresses that may *)
(* show one hardware address, a name that comes and goes.                  *)
(***************************************************************************)
EXTENDS SnapshotTx

CONSTANTS port, page, mac, pc, tv, target

MCIPs == {1, 2}
MCPorts == {port}
MCPrints == {page}
MCStoredPrint == [p \in MCPrints |-> p]
MCMACs == {mac}
MCNames == {pc, tv}
MCNameClass == [n \in MCNames |-> IF n = pc THEN Workstation ELSE Unknown]
MCTargets == {target}
MCChangeLists == {{}}
MCTimes == {1, 2}

Open == [p \in MCPorts |-> page]
Shut == [p \in MCPorts |-> Closed]

MCObservations ==
    {[mac |-> mac,   name |-> pc,     svc |-> Shut],
     [mac |-> mac,   name |-> NoName, svc |-> Open],
     [mac |-> NoMAC, name |-> tv,     svc |-> Open]}
=============================================================================
