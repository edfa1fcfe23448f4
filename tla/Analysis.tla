------------------------------ MODULE Analysis ------------------------------
(***************************************************************************)
(* What Sentinel says about what it saw: the findings of a service         *)
(* (internal/analysis), the severity of an event (internal/monitor) and    *)
(* which events are worth a notification (internal/notify).                *)
(***************************************************************************)
EXTENDS Integers, FiniteSets

CONSTANT NotRead        \* no HTTP or no TLS metadata was read from a service

\* What detectLoginIndicators finds in a response; "challenge" stands for a
\* status 401 and for a WWW-Authenticate header, which are treated alike.
Indicators == {"password-field", "login-text", "challenge"}

HTTPFingerprint == [scheme : {"http", "https"}, login : SUBSET Indicators,
                    hsts : BOOLEAN, nosniff : BOOLEAN]

\* days is DaysRemaining; "legacy" stands for TLS 1.0 and 1.1.
TLSFingerprint == [days : Int, version : {"legacy", "current"}, selfSigned : BOOLEAN]

ASSUME AnalysisAssumption == NotRead \notin HTTPFingerprint \cup TLSFingerprint

Metadata == [http : HTTPFingerprint \cup {NotRead}, tls : TLSFingerprint \cup {NotRead}]

Severities == {"CRITICAL", "HIGH", "MEDIUM", "LOW", "INFO"}

Finding(severity, title) == [severity |-> severity, title |-> title]

-----------------------------------------------------------------------------
(* Findings *)

\* The names of ServiceName that a rule is about.
ServiceName(port) ==
    CASE port = 21   -> "FTP"
      [] port = 23   -> "TELNET"
      [] port \in {80, 3000, 8000, 8080, 8888} -> "HTTP"
      [] port \in {443, 8443} -> "HTTPS"
      [] port = 445  -> "SMB"
      [] port = 2375 -> "DOCKER"
      [] port = 3389 -> "RDP"
      [] port = 5900 -> "VNC"
      [] OTHER       -> "OTHER"

IsWeb(port) == ServiceName(port) \in {"HTTP", "HTTPS"}

\* AuthExposure: an open port is a finding by its name alone.
AuthExposure(port) ==
    LET name == ServiceName(port)
    IN  CASE name = "TELNET"         -> {Finding("HIGH", "CLEAR-TEXT AUTH PROTOCOL")}
          [] name = "FTP"            -> {Finding("HIGH", "CLEAR-TEXT CREDENTIAL RISK")}
          [] name = "HTTP"           -> {Finding("LOW", "UNENCRYPTED WEB SERVICE")}
          [] name = "SMB"            -> {Finding("INFO", "SMB AUTHENTICATION SURFACE")}
          [] name = "RDP"            -> {Finding("INFO", "REMOTE LOGIN SURFACE")}
          [] name = "VNC"            -> {Finding("MEDIUM", "REMOTE DESKTOP AUTH SURFACE")}
          [] name = "DOCKER"         -> {Finding("HIGH", "DOCKER API EXPOSURE")}
          [] OTHER                   -> {}

\* Mutation of LoginFindings: text that speaks of a login is a login form.
LoginFindingsOfText(fp) ==
    IF fp.scheme = "http" /\ fp.login # {}
    THEN {Finding("HIGH", "LOGIN SURFACE OVER HTTP")} ELSE {}

LoginFindings(fp) ==
    CASE fp.scheme = "http" /\ fp.login \cap {"password-field", "challenge"} # {} ->
            {Finding("HIGH", "LOGIN SURFACE OVER HTTP")}
      [] fp.scheme = "http" /\ fp.login = {"login-text"} ->
            {Finding("MEDIUM", "POSSIBLE LOGIN SURFACE OVER HTTP")}
      [] OTHER -> {}

HTTPFindings(fp) ==
    LoginFindings(fp)
    \cup (IF fp.scheme = "https" /\ ~fp.hsts
          THEN {Finding("LOW", "HSTS NOT OBSERVED")} ELSE {})
    \cup (IF ~fp.nosniff
          THEN {Finding("INFO", "X-CONTENT-TYPE-OPTIONS NOT OBSERVED")} ELSE {})

\* Mutation of ExpiryFindings: both comparisons are strict.
ExpiryFindingsStrict(days) ==
    CASE days < 0               -> {Finding("HIGH", "TLS CERTIFICATE EXPIRED")}
      [] days > 0 /\ days < 30  -> {Finding("MEDIUM", "TLS CERTIFICATE EXPIRING SOON")}
      [] OTHER                  -> {}

ExpiryFindings(days) ==
    CASE days < 0     -> {Finding("HIGH", "TLS CERTIFICATE EXPIRED")}
      [] days \in 0..30 -> {Finding("MEDIUM", "TLS CERTIFICATE EXPIRING SOON")}
      [] OTHER        -> {}

TLSFindings(fp) ==
    ExpiryFindings(fp.days)
    \cup (IF fp.version = "legacy" THEN {Finding("HIGH", "LEGACY TLS VERSION")} ELSE {})
    \cup (IF fp.selfSigned THEN {Finding("INFO", "SELF-SIGNED TLS CERTIFICATE")} ELSE {})

FingerprintFindings(metadata) ==
    (IF metadata.http = NotRead THEN {} ELSE HTTPFindings(metadata.http))
    \cup (IF metadata.tls = NotRead THEN {} ELSE TLSFindings(metadata.tls))

-----------------------------------------------------------------------------
(* Events and notifications *)

ServiceAddedSeverity(port) ==
    CASE port \in {21, 23, 2375}                      -> "HIGH"
      [] port \in {80, 8080, 8888}                    -> "MEDIUM"
      [] port \in {135, 139, 445, 3389, 5900}         -> "MEDIUM"
      [] OTHER                                        -> "LOW"

\* The severity EventsFromChanges gives the event of a change.
EventSeverity(type, port) ==
    CASE type = "HOST_ADDED"      -> "MEDIUM"
      [] type = "HOST_REMOVED"    -> "LOW"
      [] type = "SERVICE_ADDED"   -> ServiceAddedSeverity(port)
      [] type = "SERVICE_CHANGED" -> "LOW"
      [] OTHER                    -> "INFO"

SeverityRank ==
    [CRITICAL |-> 0, HIGH |-> 1, MEDIUM |-> 2, LOW |-> 3, INFO |-> 4]

ShouldNotify(severity, minimum) == SeverityRank[severity] <= SeverityRank[minimum]
=============================================================================
