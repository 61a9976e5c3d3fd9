------------------------------- MODULE Lifecycle -------------------------------
(***************************************************************************)
(* Starting and stopping the local server: Start, Stop, IsRunning and      *)
(* LastError of echdoh/echdoh.go, and the goroutine that serves.           *)
(*                                                                         *)
(* The application calls from several threads.  All of it shares mu; the   *)
(* listening socket does not: it is bound by the serving goroutine after   *)
(* Start has returned, and closed by Stop after mu has been released.      *)
(***************************************************************************)
EXTENDS Naturals

CONSTANTS
    Apps,           \* threads of the application
    NoApp,          \* mu is free
    MaxServers,     \* bound: servers created in a behaviour
    Certificates    \* whether the certificates handed to Start parse

ASSUME AppAssumption == NoApp \notin Apps
ASSUME ServerAssumption == MaxServers \in Nat
ASSUME CertificateAssumption == Certificates \subseteq BOOLEAN

VARIABLES
    pc,             \* where each thread is
    closing,        \* the server a Stop has detached and not yet closed
    stopped,        \* history: a Stop came after the last Start
    mu,             \* who is blocked holding mu
    srv, running, lastErr,
    server          \* server[s]: what became of the s-th http.Server

vars == <<pc, closing, stopped, mu, srv, running, lastErr, server>>

Servers  == 1 .. MaxServers
NoServer == 0

\* A server is made, binds its port, serves; a bind or accept error leaves its
\* goroutine with an error to report; Close makes it return quietly.
States == {"none", "made", "listening", "failed", "reported", "closed"}

TypeOK ==
    /\ pc \in [Apps -> {"idle", "relock", "close"}]
    /\ closing \in [Apps -> Servers \cup {NoServer}]
    /\ stopped \in BOOLEAN
    /\ mu \in Apps \cup {NoApp}
    /\ srv \in Servers \cup {NoServer}
    /\ running \in BOOLEAN
    /\ lastErr \in {"", "cert", "serve"}
    /\ server \in [Servers -> States]

Init ==
    /\ pc = [a \in Apps |-> "idle"]
    /\ closing = [a \in Apps |-> NoServer]
    /\ stopped = TRUE
    /\ mu = NoApp
    /\ srv = NoServer
    /\ running = FALSE
    /\ lastErr = ""
    /\ server = [s \in Servers |-> "none"]

Unused == {s \in Servers : server[s] = "none"}

-----------------------------------------------------------------------------
\* Start holds mu from its first line to its return.

StartRunning(a) ==
    /\ pc[a] = "idle" /\ mu = NoApp
    /\ running
    /\ stopped' = FALSE
    /\ UNCHANGED <<pc, closing, mu, srv, running, lastErr, server>>

StartServer(a) ==
    /\ pc[a] = "idle" /\ mu = NoApp
    /\ ~ running
    /\ TRUE \in Certificates
    /\ \E s \in Unused :
         /\ \A t \in Unused : s <= t
         /\ srv' = s
         /\ server' = [server EXCEPT ![s] = "made"]
    /\ running' = TRUE
    /\ lastErr' = ""
    /\ stopped' = FALSE
    /\ UNCHANGED <<pc, closing, mu>>

\* To record the error Start locks mu, which it holds since its first line:
\* the thread stays there, with mu, for good.  No action leaves "relock".
StartBadCertificate(a) ==
    /\ pc[a] = "idle" /\ mu = NoApp
    /\ ~ running
    /\ FALSE \in Certificates
    /\ mu' = a
    /\ pc' = [pc EXCEPT ![a] = "relock"]
    /\ UNCHANGED <<closing, stopped, srv, running, lastErr, server>>

\* Mutant: running is left set.
StopDetachRunning(a) ==
    /\ pc[a] = "idle" /\ mu = NoApp
    /\ closing' = [closing EXCEPT ![a] = srv]
    /\ pc' = [pc EXCEPT ![a] = "close"]
    /\ srv' = NoServer
    /\ stopped' = TRUE
    /\ UNCHANGED <<mu, running, lastErr, server>>

\* Mutant: srv is left set, for a second Stop to find.
StopDetachKeeps(a) ==
    /\ pc[a] = "idle" /\ mu = NoApp
    /\ closing' = [closing EXCEPT ![a] = srv]
    /\ pc' = [pc EXCEPT ![a] = "close"]
    /\ running' = FALSE
    /\ stopped' = TRUE
    /\ UNCHANGED <<mu, srv, lastErr, server>>

\* Stop detaches the server under mu ...
StopDetach(a) ==
    /\ pc[a] = "idle" /\ mu = NoApp
    /\ closing' = [closing EXCEPT ![a] = srv]
    /\ pc' = [pc EXCEPT ![a] = "close"]
    /\ srv' = NoServer
    /\ running' = FALSE
    /\ stopped' = TRUE
    /\ UNCHANGED <<mu, lastErr, server>>

\* Mutant: the server is dropped without being closed.
StopDrops(a) ==
    /\ pc[a] = "close"
    /\ closing' = [closing EXCEPT ![a] = NoServer]
    /\ pc' = [pc EXCEPT ![a] = "idle"]
    /\ UNCHANGED <<stopped, mu, srv, running, lastErr, server>>

\* ... and closes it, if there was one, outside.  Closing a server whose
\* goroutine has failed changes nothing more.
StopClose(a) ==
    LET s == closing[a]
    IN  /\ pc[a] = "close"
        /\ server' = IF s # NoServer /\ server[s] \in {"made", "listening"}
                     THEN [server EXCEPT ![s] = "closed"] ELSE server
        /\ closing' = [closing EXCEPT ![a] = NoServer]
        /\ pc' = [pc EXCEPT ![a] = "idle"]
        /\ UNCHANGED <<stopped, mu, srv, running, lastErr>>

-----------------------------------------------------------------------------
\* The serving goroutine of server s.

PortTaken == \E t \in Servers : server[t] = "listening"

Bind(s) ==
    /\ server[s] = "made"
    /\ ~ PortTaken
    /\ server' = [server EXCEPT ![s] = "listening"]
    /\ UNCHANGED <<pc, closing, stopped, mu, srv, running, lastErr>>

\* The port is in use, by an older server or by another program.
BindFails(s) ==
    /\ server[s] = "made"
    /\ server' = [server EXCEPT ![s] = "failed"]
    /\ UNCHANGED <<pc, closing, stopped, mu, srv, running, lastErr>>

AcceptFails(s) ==
    /\ server[s] = "listening"
    /\ server' = [server EXCEPT ![s] = "failed"]
    /\ UNCHANGED <<pc, closing, stopped, mu, srv, running, lastErr>>

\* Mutant: the return of a closed server is reported as an error.
ServeReportsClose(s) ==
    /\ server[s] \in {"failed", "closed"} /\ mu = NoApp
    /\ server' = [server EXCEPT ![s] = "reported"]
    /\ lastErr' = IF server[s] = "closed" THEN "closed" ELSE "serve"
    /\ running' = FALSE
    /\ UNCHANGED <<pc, closing, stopped, mu, srv>>

\* Mutant: only a first error is reported.
ServeReportsFirst(s) ==
    /\ server[s] = "failed" /\ mu = NoApp /\ lastErr = ""
    /\ server' = [server EXCEPT ![s] = "reported"]
    /\ lastErr' = "serve"
    /\ running' = FALSE
    /\ UNCHANGED <<pc, closing, stopped, mu, srv>>

\* It reports under mu, whichever server srv is by then.
ServeReports(s) ==
    /\ server[s] = "failed" /\ mu = NoApp
    /\ server' = [server EXCEPT ![s] = "reported"]
    /\ lastErr' = "serve"
    /\ running' = FALSE
    /\ UNCHANGED <<pc, closing, stopped, mu, srv>>

Serve(s) == Bind(s) \/ BindFails(s) \/ ServeReports(s)

Start(a) == StartRunning(a) \/ StartServer(a) \/ StartBadCertificate(a)

Next ==
    \/ \E a \in Apps : Start(a) \/ StopDetach(a) \/ StopClose(a)
    \/ \E s \in Servers : Serve(s) \/ AcceptFails(s)

Spec == Init /\ [][Next]_vars

\* Threads and goroutines run; nobody is obliged to call Start or Stop, and
\* accepting need not fail.
FairSpec ==
    /\ Spec
    /\ \A a \in Apps : WF_vars(StopClose(a))
    /\ \A s \in Servers : WF_vars(Serve(s))

-----------------------------------------------------------------------------
(* Properties.                                                             *)

\* running is only ever said of a current server nobody has closed and whose
\* failure nobody has reported, although three parties clear it.
RunningHasServer ==
    running => srv # NoServer /\ server[srv] \in {"made", "listening", "failed"}

\* Stop may be called from several threads at once (line 282): a server is
\* detached by one of them only, and never closed while it is current.
ClosedOnce ==
    /\ \A a, b \in Apps : closing[a] = closing[b] /\ closing[a] # NoServer => a = b
    /\ \A a \in Apps : closing[a] # NoServer => closing[a] # srv
    /\ srv # NoServer => server[srv] # "closed"

\* A server that could not serve does not stay "failed" unseen: its error
\* reaches LastError, unless a Start is stuck on the lock the report needs.
FailureSurfaces ==
    \A s \in Servers :
        server[s] = "failed" ~> server[s] = "reported" \/ \E a \in Apps : pc[a] = "relock"

\* What a Stop detaches is released in the end, its port included.
StopReleases ==
    \A s \in Servers :
        (\E a \in Apps : closing[a] = s) ~> server[s] \notin {"made", "listening"}

\* What line 282 says of Stop: after it, and until a Start, no server listens
\* except one that a Stop in progress is about to close.
StopCloses ==
    stopped => \A s \in Servers : server[s] = "listening" =>
                 \E a \in Apps : closing[a] = s
=============================================================================
