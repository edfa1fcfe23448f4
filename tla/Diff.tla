-------------------------------- MODULE Diff --------------------------------
(***************************************************************************)
(* The comparison of two snapshots (internal/diff) and the form in which a *)
(* snapshot comes back from the database.                                  *)
(*                                                                         *)
(* A view of the network maps every address to Absent, when the snapshot   *)
(* has no host there, or to the host's services: for each port the         *)
(* fingerprint of the service that answered, or Closed.  The protocol is   *)
(* always "tcp" and the service name is a function of the port, so a port  *)
(* is the key serviceIndex builds.                                         *)
(***************************************************************************)
EXTENDS Integers, FiniteSets

CONSTANTS
    IPs,            \* addresses, as numbers in the order compareIPv4 sorts them
    Ports,          \* the ports a cycle probes
    Prints,         \* what serviceFingerprint renders of a service
    StoredPrint,    \* a fingerprint after json.Marshal, the database and Unmarshal
    Closed,         \* the port did not answer
    Absent          \* no host at this address

ASSUME AddressAssumption == IPs \subseteq Nat /\ IsFiniteSet(IPs)
ASSUME PrintAssumption ==
    /\ StoredPrint \in [Prints -> Prints]
    /\ \A p \in Prints : StoredPrint[StoredPrint[p]] = StoredPrint[p]
    /\ Closed \notin Prints
    /\ 0 \notin Ports

Services == [Ports -> Prints \cup {Closed}]
ASSUME AbsentAssumption ==
    /\ Absent \notin Services
    /\ \A open \in SUBSET Ports : Absent # open

Views == [IPs -> Services \cup {Absent}]

\* The open ports of a host.
OpenPorts(svc) == {p \in Ports : svc[p] # Closed}

\* What the services of a host become in the database: json.Marshal writes
\* U+FFFD for every byte that is not UTF-8, as the tail of a title cut at byte
\* 120 in the middle of a character is not.
Persisted(svc) ==
    [p \in Ports |-> IF svc[p] = Closed THEN Closed ELSE StoredPrint[svc[p]]]

(***************************************************************************)
(* Change records.  A change list is a set: Compare ranges over Go maps,   *)
(* whose order is random, and no two of its records agree on type, host    *)
(* and port.  Fields the code leaves empty are Absent, a missing port is 0.*)
(* DetectedAt is the snapshot's own timestamp and is not repeated.         *)
(***************************************************************************)
ChangeTypes == {"HOST_ADDED", "HOST_REMOVED",
                "SERVICE_ADDED", "SERVICE_REMOVED", "SERVICE_CHANGED"}

Change == [type : ChangeTypes, host : IPs, port : Ports \cup {0},
           was : Prints \cup {Absent}, now : Prints \cup {Absent}]

HostChange(type, ip) ==
    [type |-> type, host |-> ip, port |-> 0, was |-> Absent, now |-> Absent]

\* serviceChange keeps the port and drops the fingerprints.
ServiceChange(type, ip, port) ==
    [type |-> type, host |-> ip, port |-> port, was |-> Absent, now |-> Absent]

FingerprintChange(ip, port, was, now) ==
    [type |-> "SERVICE_CHANGED", host |-> ip, port |-> port, was |-> was, now |-> now]

\* Mutation of CompareServices: the loop over the earlier services is missing.
CompareServicesForward(ip, before, after) ==
    {ServiceChange("SERVICE_ADDED", ip, p) : p \in OpenPorts(after) \ OpenPorts(before)}

\* compareServices: the changes of one host that both snapshots have.
CompareServices(ip, before, after) ==
    {ServiceChange("SERVICE_ADDED", ip, p) : p \in OpenPorts(after) \ OpenPorts(before)}
    \cup
    {ServiceChange("SERVICE_REMOVED", ip, p) : p \in OpenPorts(before) \ OpenPorts(after)}
    \cup
    {FingerprintChange(ip, p, before[p], after[p]) :
        p \in {q \in OpenPorts(before) \cap OpenPorts(after) : before[q] # after[q]}}

\* The changes of one address.
CompareHost(ip, before, after) ==
    CASE before = Absent /\ after = Absent -> {}
      [] before = Absent /\ after # Absent ->
            {HostChange("HOST_ADDED", ip)}
            \cup {ServiceChange("SERVICE_ADDED", ip, p) : p \in OpenPorts(after)}
      [] before # Absent /\ after = Absent ->
            {HostChange("HOST_REMOVED", ip)}
            \cup {ServiceChange("SERVICE_REMOVED", ip, p) : p \in OpenPorts(before)}
      [] OTHER -> CompareServices(ip, before, after)

Compare(previous, current) ==
    UNION {CompareHost(ip, previous[ip], current[ip]) : ip \in IPs}

(***************************************************************************)
(* What a reader of the change log can rebuild.  The log names hosts and   *)
(* ports, so what it determines is the exposure of the network: which      *)
(* hosts there are and which of their ports are open.                      *)
(***************************************************************************)
Exposure(view) ==
    [ip \in IPs |-> IF view[ip] = Absent THEN Absent ELSE OpenPorts(view[ip])]

\* A reader's reconstruction: apply a set of change records to an exposure.
Replay(exposure, changes) ==
    [ip \in IPs |->
        LET said(type)  == \E c \in changes : c.type = type /\ c.host = ip
            ports(type) == {p \in Ports : \E c \in changes :
                                c.type = type /\ c.host = ip /\ c.port = p}
            known       == IF exposure[ip] = Absent THEN {} ELSE exposure[ip]
        IN  IF said("HOST_REMOVED") \/ (exposure[ip] = Absent /\ ~said("HOST_ADDED"))
            THEN Absent
            ELSE (known \ ports("SERVICE_REMOVED")) \cup ports("SERVICE_ADDED")]
=============================================================================
