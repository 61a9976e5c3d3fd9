----------------------------- MODULE LifecycleProofs -----------------------------
(***************************************************************************)
(* Proofs about Lifecycle: for any number of application threads and       *)
(* servers, running is only said of a current, unreported server, and a    *)
(* server is detached once and never closed while it is current.           *)
(*                                                                         *)
(* Neither is inductive: a Start might pick a server somebody is closing.  *)
(* InUse says that a server which is current or being closed was created,  *)
(* so the unused one a Start takes is neither.                             *)
(*                                                                         *)
(* Nor does Stop close every server, as run life_stop shows; what it does  *)
(* close, as long as no goroutine has reported an error, comes last.       *)
(***************************************************************************)
EXTENDS Lifecycle, TLAPS

InUse ==
    /\ srv # NoServer => server[srv] # "none"
    /\ \A a \in Apps : closing[a] # NoServer => server[closing[a]] # "none"

IInv == TypeOK /\ RunningHasServer /\ ClosedOnce /\ InUse

\* A thread that is not a server number and a server number are told apart by
\* arithmetic only.
LEMMA NoServerIsNone == NoServer \notin Servers /\ Servers \subseteq Nat
  BY ServerAssumption DEF NoServer, Servers

\* The first state.
LEMMA InitIInv == Init => IInv
  BY NoServerIsNone DEF Init, IInv, TypeOK, RunningHasServer, ClosedOnce, InUse, States

\* Start.
LEMMA StartIInv ==
    ASSUME IInv, NEW a \in Apps, Start(a)
    PROVE  IInv'
<1> USE NoServerIsNone DEF IInv, TypeOK, RunningHasServer, ClosedOnce, InUse
<1>1. CASE StartRunning(a)
  BY <1>1 DEF StartRunning
<1>2. CASE StartServer(a)
  <2>1. PICK s \in Unused : srv' = s /\ server' = [server EXCEPT ![s] = "made"]
    BY <1>2 DEF StartServer
  <2>2. s \in Servers /\ server[s] = "none"
    BY <2>1 DEF Unused
  <2>3. server' \in [Servers -> States] /\ server'[s] = "made"
    BY <2>1, <2>2 DEF States
  <2>4. \A b \in Apps : closing[b] # NoServer =>
          closing[b] # s /\ server'[closing[b]] = server[closing[b]]
    BY <2>1, <2>2
  <2>5. TypeOK'
    BY <1>2, <2>1, <2>2, <2>3 DEF StartServer
  <2>6. RunningHasServer'
    BY <2>1, <2>2, <2>3
  <2>7. ClosedOnce'
    BY <1>2, <2>1, <2>2, <2>3, <2>4 DEF StartServer
  <2>8. InUse'
    BY <1>2, <2>1, <2>2, <2>3, <2>4 DEF StartServer
  <2> QED
    BY <2>5, <2>6, <2>7, <2>8
<1>3. CASE StartBadCertificate(a)
  BY <1>3 DEF StartBadCertificate
<1> QED
  BY <1>1, <1>2, <1>3 DEF Start

\* Stop: whoever detaches the server leaves none to detach, and what it closes
\* afterwards is not current.
LEMMA StopIInv ==
    ASSUME IInv, NEW a \in Apps, StopDetach(a) \/ StopClose(a)
    PROVE  IInv'
<1> USE NoServerIsNone DEF IInv, TypeOK, RunningHasServer, ClosedOnce, InUse
<1>1. CASE StopDetach(a)
  <2>1. TypeOK'
    BY <1>1 DEF StopDetach
  <2>2. \A b \in Apps : closing'[b] = IF b = a THEN srv ELSE closing[b]
    BY <1>1 DEF StopDetach
  <2>3. RunningHasServer'
    BY <1>1 DEF StopDetach
  <2>4. ClosedOnce'
    BY <1>1, <2>2 DEF StopDetach
  <2>5. InUse'
    BY <1>1, <2>2 DEF StopDetach
  <2> QED
    BY <2>1, <2>3, <2>4, <2>5
<1>2. CASE StopClose(a)
  <2>1. \A b \in Apps : closing'[b] = IF b = a THEN NoServer ELSE closing[b]
    BY <1>2 DEF StopClose
  <2>2. server' \in [Servers -> States]
    BY <1>2 DEF StopClose, States
  <2>3. \A s \in Servers : /\ s # closing[a] => server'[s] = server[s]
                           /\ server'[s] # server[s] => server'[s] = "closed"
    BY <1>2 DEF StopClose
  <2>4. TypeOK'
    BY <1>2, <2>2 DEF StopClose
  <2>5. UNCHANGED <<srv, running>>
    BY <1>2 DEF StopClose
  <2>6. srv # NoServer => server'[srv] = server[srv] \/ closing[a] = srv
    BY <2>3
  <2>7. RunningHasServer'
    BY <2>3, <2>5, <2>6
  <2>8. ClosedOnce'
    BY <2>1, <2>5, <2>6
  <2>9. InUse'
    <3>1. \A t \in Servers : server[t] # "none" => server'[t] # "none"
      BY <2>3
    <3>2. srv \in Servers \cup {NoServer} /\ closing \in [Apps -> Servers \cup {NoServer}]
      OBVIOUS
    <3>3. srv' # NoServer => server'[srv'] # "none"
      BY <3>1, <3>2, <2>5
    <3>4. ASSUME NEW b \in Apps, closing'[b] # NoServer PROVE server'[closing'[b]] # "none"
      <4>1. closing'[b] = closing[b] /\ closing[b] \in Servers
        BY <2>1, <3>2, <3>4
      <4> QED
        BY <3>1, <4>1, <3>4
    <3> QED
      BY <3>3, <3>4
  <2> QED
    BY <2>4, <2>7, <2>8, <2>9
<1> QED
  BY <1>1, <1>2

\* The serving goroutine only takes its own server on, and never to "closed".
LEMMA ServeIInv ==
    ASSUME IInv, NEW s \in Servers, Serve(s) \/ AcceptFails(s)
    PROVE  IInv'
<1> USE NoServerIsNone DEF IInv, TypeOK, RunningHasServer, ClosedOnce, InUse
<1>1. CASE Bind(s)
  BY <1>1 DEF Bind, States
<1>2. CASE BindFails(s)
  BY <1>2 DEF BindFails, States
<1>3. CASE AcceptFails(s)
  BY <1>3 DEF AcceptFails, States
<1>4. CASE ServeReports(s)
  BY <1>4 DEF ServeReports, States
<1> QED
  BY <1>1, <1>2, <1>3, <1>4 DEF Serve

\* The inductive invariant holds throughout.
THEOREM LifecycleInvariant == Spec => []IInv
<1>1. IInv /\ [Next]_vars => IInv'
  <2> SUFFICES ASSUME IInv, [Next]_vars PROVE IInv'
    OBVIOUS
  <2>1. CASE UNCHANGED vars
    BY <2>1 DEF vars, IInv, TypeOK, RunningHasServer, ClosedOnce, InUse
  <2>2. CASE Next
    BY <2>2, StartIInv, StopIInv, ServeIInv DEF Next
  <2> QED
    BY <2>1, <2>2
<1> QED
  BY InitIInv, <1>1, PTL DEF Spec

\* Every variable of the lifecycle keeps its type.
THEOREM LifecycleTypeCorrect == Spec => []TypeOK
<1>1. IInv => TypeOK
  BY DEF IInv
<1> QED
  BY LifecycleInvariant, <1>1, PTL

\* Whatever Start, Stop and late reports interleave, running is said of a current
\* server that is neither closed nor reported.
THEOREM RunningIsTrue == Spec => []RunningHasServer
<1>1. IInv => RunningHasServer
  BY DEF IInv
<1> QED
  BY LifecycleInvariant, <1>1, PTL

\* Any number of concurrent Stops: one of them detaches the server, and none
\* closes the current one.
THEOREM OneClose == Spec => []ClosedOnce
<1>1. IInv => ClosedOnce
  BY DEF IInv
<1> QED
  BY LifecycleInvariant, <1>1, PTL
-----------------------------------------------------------------------------
(* What Stop closes, as long as no goroutine has reported.                 *)

Unreported == \A s \in Servers : server[s] # "reported"

\* A server that may hold the port is current or is being closed.
Accounted ==
    \A s \in Servers : server[s] \in {"made", "listening"} =>
        s = srv \/ \E a \in Apps : closing[a] = s

StopInv ==
    /\ stopped => srv = NoServer
    /\ \A a \in Apps : pc[a] # "close" => closing[a] = NoServer
    /\ Unreported => (~ running => srv = NoServer) /\ Accounted

LEMMA InitStopInv == Init => StopInv
BY NoServerIsNone DEF Init, StopInv, Accounted

\* Start overwrites srv only where running is not set, hence where srv is empty.
LEMMA StartStopInv ==
    ASSUME IInv, StopInv, NEW a \in Apps, Start(a)
    PROVE  StopInv'
<1> USE DEF StopInv
<1>1. CASE StartRunning(a)
  BY <1>1 DEF StartRunning, Unreported, Accounted, IInv, RunningHasServer
<1>2. CASE StartServer(a)
  <2>1. PICK s \in Unused : srv' = s /\ server' = [server EXCEPT ![s] = "made"]
    BY <1>2 DEF StartServer
  <2>2. s \in Servers /\ server \in [Servers -> States]
    BY <2>1 DEF Unused, IInv, TypeOK
  <2>3. \A t \in Servers : server'[t] = IF t = s THEN "made" ELSE server[t]
    BY <2>1, <2>2
  <2>4. UNCHANGED <<pc, closing>> /\ running' = TRUE /\ stopped' = FALSE /\ ~ running
    BY <1>2 DEF StartServer
  <2>5. server[s] = "none"
    BY <2>1 DEF Unused
  <2>6. Unreported' => Unreported
    BY <2>3, <2>5 DEF Unreported
  <2>7. Unreported' => Accounted'
    <3> SUFFICES ASSUME Unreported', NEW t \in Servers, server'[t] \in {"made", "listening"}, t # s
                 PROVE  \E b \in Apps : closing'[b] = t
      BY <2>1 DEF Accounted
    <3>1. srv = NoServer /\ Accounted
      BY <2>4, <2>6
    <3> QED
      BY <2>3, <2>4, <3>1, NoServerIsNone DEF Accounted
  <2> QED
    BY <2>4, <2>7
<1>3. CASE StartBadCertificate(a)
  <2>1. UNCHANGED <<closing, stopped, srv, running, server>> /\ pc' = [pc EXCEPT ![a] = "relock"]
        /\ pc[a] = "idle"
    BY <1>3 DEF StartBadCertificate
  <2>2. \A b \in Apps : pc'[b] # "close" => pc[b] # "close"
    BY <2>1 DEF IInv, TypeOK
  <2> QED
    BY <2>1, <2>2 DEF Unreported, Accounted
<1> QED
  BY <1>1, <1>2, <1>3 DEF Start

\* What Stop takes out of srv it has in closing, until it has closed it.
LEMMA StopStopInv ==
    ASSUME IInv, StopInv, NEW a \in Apps, StopDetach(a) \/ StopClose(a)
    PROVE  StopInv'
<1> USE DEF StopInv
<1>1. CASE StopDetach(a)
  <2>1. /\ pc[a] = "idle" /\ srv' = NoServer /\ UNCHANGED server
        /\ \A b \in Apps : /\ closing'[b] = IF b = a THEN srv ELSE closing[b]
                           /\ pc'[b] = IF b = a THEN "close" ELSE pc[b]
    BY <1>1 DEF StopDetach, IInv, TypeOK
  <2>2. Unreported' => Unreported
    BY <2>1 DEF Unreported
  <2>3. Accounted => Accounted'
    <3> SUFFICES ASSUME Accounted, NEW t \in Servers, server[t] \in {"made", "listening"}
                 PROVE  \E b \in Apps : closing'[b] = t
      BY <2>1 DEF Accounted
    <3>1. CASE t = srv
      BY <2>1, <3>1
    <3>2. CASE \E b \in Apps : closing[b] = t
      <4>1. PICK b \in Apps : closing[b] = t
        BY <3>2
      <4>2. b # a
        BY <2>1, <4>1, NoServerIsNone
      <4> QED
        BY <2>1, <4>1, <4>2
    <3> QED
      BY <3>1, <3>2 DEF Accounted
  <2> QED
    BY <2>1, <2>2, <2>3
<1>2. CASE StopClose(a)
  <2>1. /\ UNCHANGED <<stopped, srv, running>>
        /\ \A b \in Apps : /\ closing'[b] = IF b = a THEN NoServer ELSE closing[b]
                           /\ pc'[b] = IF b = a THEN "idle" ELSE pc[b]
    BY <1>2 DEF StopClose, IInv, TypeOK
  <2>2. \A t \in Servers : server'[t] = IF t = closing[a] /\ server[t] \in {"made", "listening"}
                                        THEN "closed" ELSE server[t]
    BY <1>2, NoServerIsNone DEF StopClose, IInv, TypeOK
  <2>3. Unreported' => Unreported
    BY <2>2 DEF Unreported
  <2>4. Accounted => Accounted'
    <3> SUFFICES ASSUME Accounted, NEW t \in Servers, server'[t] \in {"made", "listening"}, t # srv
                 PROVE  \E b \in Apps : closing'[b] = t
      BY <2>1 DEF Accounted
    <3>1. t # closing[a] /\ server[t] \in {"made", "listening"}
      BY <2>2
    <3>2. PICK b \in Apps : closing[b] = t
      BY <3>1 DEF Accounted
    <3> QED
      BY <2>1, <3>1, <3>2
  <2> QED
    BY <2>1, <2>3, <2>4
<1> QED
  BY <1>1, <1>2

\* A goroutine gives the port up by failing, and running only by reporting.
LEMMA ServeStopInv ==
    ASSUME IInv, StopInv, NEW s \in Servers, Serve(s) \/ AcceptFails(s)
    PROVE  StopInv'
<1> USE DEF StopInv
<1>1. CASE Bind(s) \/ BindFails(s) \/ AcceptFails(s)
  <2>1. UNCHANGED <<pc, closing, stopped, srv, running>>
    BY <1>1 DEF Bind, BindFails, AcceptFails
  <2>2. server[s] \in {"made", "listening"} /\ server'[s] # "reported"
    BY <1>1 DEF Bind, BindFails, AcceptFails, IInv, TypeOK
  <2>3. \A t \in Servers \ {s} : server'[t] = server[t]
    BY <1>1 DEF Bind, BindFails, AcceptFails, IInv, TypeOK
  <2>4. Unreported' => Unreported
    BY <2>2, <2>3 DEF Unreported
  <2>5. Accounted => Accounted'
    BY <2>1, <2>2, <2>3 DEF Accounted
  <2> QED
    BY <2>1, <2>4, <2>5
<1>2. CASE ServeReports(s)
  <2>1. server'[s] = "reported" /\ UNCHANGED <<pc, closing, stopped, srv>>
    BY <1>2 DEF ServeReports, IInv, TypeOK
  <2>2. ~ Unreported'
    BY <2>1 DEF Unreported
  <2> QED
    BY <2>1, <2>2
<1> QED
  BY <1>1, <1>2 DEF Serve

\* What line 282 says of Stop is kept as long as no serving goroutine has reported
\* an error: every server that listens after it is one a Stop in progress is about
\* to close.  Only after such a report can it be broken, as run life_stop does.
THEOREM StopsUnlessReported == Spec => [](Unreported => StopCloses)
<1>1. IInv /\ StopInv /\ [Next]_vars => StopInv'
  <2> SUFFICES ASSUME IInv, StopInv, [Next]_vars PROVE StopInv'
    OBVIOUS
  <2>1. CASE UNCHANGED vars
    BY <2>1 DEF vars, StopInv, Unreported, Accounted
  <2>2. CASE Next
    BY <2>2, StartStopInv, StopStopInv, ServeStopInv DEF Next
  <2> QED
    BY <2>1, <2>2
<1>2. StopInv => (Unreported => StopCloses)
  BY NoServerIsNone DEF StopInv, Accounted, StopCloses
<1> QED
  BY InitStopInv, LifecycleInvariant, <1>1, <1>2, PTL DEF Spec
=============================================================================
