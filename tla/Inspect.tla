------------------------------ MODULE Inspect ------------------------------
(***************************************************************************)
(* The inspection of one web service (internal/fingerprint InspectHTTP):   *)
(* a GET that follows redirects wherever they lead, and what is kept of    *)
(* the last response.  The scheme that is kept is that of the port, not    *)
(* that of the page a redirect led to, and the findings of Analysis are    *)
(* drawn from what is kept.                                                *)
(***************************************************************************)
EXTENDS Analysis

CONSTANTS
    Urls,           \* the addresses a response may lead to
    SecureUrls,     \* those among them that begin with https
    Responses,      \* what a server may answer
    NoAnswer        \* no connection, no TLS handshake, or no response in time

\* The certificate of a server: its remaining lifetime in hours, negative once it
\* has expired, and what TLSFindings looks at.
Certificate == [hours : Int, version : {"legacy", "current"}, selfSigned : BOOLEAN]

\* A response: where it redirects to, if it does, and what is read of it.
Response == [to : Urls \cup {NotRead}, login : SUBSET Indicators,
             hsts : BOOLEAN, nosniff : BOOLEAN, cert : Certificate]

ASSUME InspectAssumption ==
    /\ SecureUrls \subseteq Urls /\ NotRead \notin Urls
    /\ Responses \subseteq Response /\ NoAnswer \notin Responses

\* CheckRedirect stops at the third request made.
maxRequests == 3

VARIABLES
    site,           \* what each server answers; it does not change in between
    start,          \* the address of the port that is inspected
    url,            \* the request that is made next
    made,           \* requests made: len(via) of CheckRedirect, with the last
    phase,          \* "request", "returned"
    metadata        \* what InspectHTTP returns: svc.HTTP and svc.TLS

inspectVars == <<site, start, url, made, phase, metadata>>

Unread == [http |-> NotRead, tls |-> NotRead]

InspectInit ==
    /\ site \in [Urls -> Responses \cup {NoAnswer}]
    /\ start \in Urls
    /\ url = start
    /\ made = 0
    /\ phase = "request"
    /\ metadata = Unread

Scheme(u) == IF u \in SecureUrls THEN "https" ELSE "http"

\* int(hours / 24): the conversion cuts toward zero, so the first day after the
\* end of a certificate is still day 0.
DaysRemaining(hours) == IF hours >= 0 THEN hours \div 24 ELSE -((-hours) \div 24)

\* The fingerprints of the last response.  Its connection has a certificate if
\* the address that was finally asked is an https one.
Fingerprints(response) ==
    [http |-> [scheme  |-> Scheme(start), login   |-> response.login,
               hsts    |-> response.hsts, nosniff |-> response.nosniff],
     tls  |-> IF start \in SecureUrls /\ url \in SecureUrls
              THEN [days       |-> DaysRemaining(response.cert.hours),
                    version    |-> response.cert.version,
                    selfSigned |-> response.cert.selfSigned]
              ELSE NotRead]

\* Mutation of Follow: CheckRedirect counts the request under way as well.
FollowOneMore ==
    /\ phase = "request" /\ site[url] # NoAnswer
    /\ site[url].to # NotRead /\ made <= maxRequests
    /\ url' = site[url].to
    /\ made' = made + 1
    /\ UNCHANGED <<site, start, phase, metadata>>

\* Mutation of Follow: the limit on redirects is missing.
FollowForever ==
    /\ phase = "request" /\ site[url] # NoAnswer
    /\ site[url].to # NotRead
    /\ url' = site[url].to
    /\ made' = IF made < maxRequests THEN made + 1 ELSE made
    /\ UNCHANGED <<site, start, phase, metadata>>

\* A redirect, and fewer than three requests made with this one.
Follow ==
    /\ phase = "request" /\ site[url] # NoAnswer
    /\ site[url].to # NotRead /\ made + 1 < maxRequests
    /\ url' = site[url].to
    /\ made' = made + 1
    /\ UNCHANGED <<site, start, phase, metadata>>

\* The last response: a page, or a redirect that is one too many.
Read ==
    /\ phase = "request" /\ site[url] # NoAnswer
    /\ site[url].to = NotRead \/ made + 1 >= maxRequests
    /\ metadata' = Fingerprints(site[url])
    /\ made' = made + 1
    /\ phase' = "returned"
    /\ UNCHANGED <<site, start, url>>

\* client.Do fails, at whichever request: nil, nil.
Unanswered ==
    /\ phase = "request" /\ site[url] = NoAnswer
    /\ made' = made + 1
    /\ phase' = "returned"
    /\ UNCHANGED <<site, start, url, metadata>>

InspectNext == Follow \/ Read \/ Unanswered

InspectSpec == InspectInit /\ [][InspectNext]_inspectVars

\* Every request is answered or times out.
InspectFairSpec == InspectSpec /\ WF_inspectVars(InspectNext)

-----------------------------------------------------------------------------
(* Properties *)

Said(title) == \E f \in FingerprintFindings(metadata) : f.title = title

LastResponse == site[url]

\* A login form or challenge is reported as a login over HTTP exactly when the
\* inspected port is a plain one and the last response asks for credentials:
\* the redirects in between do not count, neither those that lead to an https
\* page, which is reported, nor those that lead away from one, which is not.
LoginFindingTellsPort ==
    phase = "returned" =>
        ( Said("LOGIN SURFACE OVER HTTP") <=>
            /\ start \notin SecureUrls
            /\ metadata.http # NotRead
            /\ LastResponse.login \cap {"password-field", "challenge"} # {} )

\* A certificate that was shown and is not valid for another month is reported,
\* across the rounding to days: as expired from the end of its first day after
\* expiry, as expiring in the 31 days and one day around its end, else not.
CertificateEndIsReported ==
    phase = "returned" /\ metadata.tls # NotRead =>
        LET hours == LastResponse.cert.hours
        IN  /\ Said("TLS CERTIFICATE EXPIRED") <=> hours <= -24
            /\ Said("TLS CERTIFICATE EXPIRING SOON") <=> hours > -24 /\ hours < 31 * 24

\* Redirects that lead in a circle end after three requests, and nothing is said
\* of a service whose last request was not answered, whatever was read before.
InspectionIsBounded ==
    /\ made <= maxRequests
    /\ phase = "returned" => (metadata = Unread <=> LastResponse = NoAnswer)

\* The inspection returns.
InspectionReturns == <>(phase = "returned")
=============================================================================
