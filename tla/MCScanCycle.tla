---------------------------- MODULE MCScanCycle ----------------------------
(***************************************************************************)
(* Small networks for the scan cycle: one port that serves a page, one     *)
(* hardware address, no names.                                             *)
(***************************************************************************)
EXTENDS ScanCycle

CONSTANTS port, page, bare, cut, mended, mac, watch, sweep

MCTarget == "lan"
MCTargets == {MCTarget}
MCIPs == {1}
MCTwoIPs == {1, 2}
MCPorts == {port}
MCPrints == {page, bare, cut, mended}
\* A title cut inside a character comes back from the database mended.
MCStoredPrint == [p \in MCPrints |-> IF p = cut THEN mended ELSE p]
MCMACs == {mac}
MCNames == {}
MCNameClass == [n \in MCNames |-> Unknown]
MCChangeLists == {{}}
MCTimes == 1..MaxScans
MCWatch == {watch}
MCSweep == {sweep}
MCBoth == {watch, sweep}
MCNone == {}

Open == [p \in MCPorts |-> page]
Shut == [p \in MCPorts |-> Closed]

MCHost == [mac : {mac, NoMAC}, name : {NoName}, svc : [MCPorts -> MCPrints \cup {Closed}]]

Server == [mac |-> NoMAC, name |-> NoName, svc |-> Open, quiet |-> FALSE]
Laptop == [mac |-> mac, name |-> NoName, svc |-> Shut, quiet |-> FALSE]
LongTitle == [mac |-> NoMAC, name |-> NoName, svc |-> [p \in MCPorts |-> cut],
              quiet |-> FALSE]

\* It answers the service scan but neither discovery port nor ping.
Quiet == [Server EXCEPT !.quiet = TRUE]

MCDevices == {Server, Laptop}
MCQuietDevices == {Server, Laptop, Quiet}
MCLongTitle == {LongTitle}
=============================================================================
