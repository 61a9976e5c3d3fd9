-------------------------------- MODULE LockOrder --------------------------------
(***************************************************************************)
(* Goroutines that run operations over mutexes and shared variables.       *)
(*                                                                         *)
(* An operation is a script: a sequence of steps that lock or unlock a     *)
(* mutex, or read or write a variable.  Go's sync.Mutex is not reentrant:  *)
(* who locks what it holds blocks for good.  PackageLocks gives the        *)
(* scripts of the package echdoh.                                          *)
(***************************************************************************)
EXTENDS Naturals, Sequences

CONSTANTS
    Goroutines,
    Nobody,             \* owner of a free mutex
    Locks,
    Variables,
    Operations,         \* names of the operations
    Script,             \* Script[o]: the steps of o
    Depth,              \* Depth[l]: what may be locked under l lies deeper, at a
                        \* smaller number
    Guard               \* Guard[v]: the mutex that protects v, or Nobody

Steps == ({"lock", "unlock"} \X Locks) \cup ({"read", "write"} \X Variables)

\* What o holds before its i-th step.
HeldAt(o, i) ==
    {l \in Locks : \E j \in 1 .. i - 1 :
        /\ Script[o][j] = <<"lock", l>>
        /\ \A k \in j .. i - 1 : Script[o][k] # <<"unlock", l>>}

\* o locks at j what it holds.
RelocksAt(o, j) == \E l \in HeldAt(o, j) : Script[o][j] = <<"lock", l>>

\* No step before the i-th does: the i-th can be reached.
Reachable(o, i) == \A j \in 1 .. i - 1 : ~ RelocksAt(o, j)

ASSUME NobodyAssumption == Nobody \notin Goroutines \cup Locks
ASSUME ScriptAssumption ==
    /\ Script \in [Operations -> Seq(Steps)]
    /\ Depth \in [Locks -> Nat]
    /\ Guard \in [Variables -> Locks \cup {Nobody}]

VARIABLES
    op,                 \* the operation of each goroutine
    at,                 \* its next step; 0 when it has none
    owner               \* who holds each mutex

vars == <<op, at, owner>>

TypeOK ==
    /\ op \in [Goroutines -> Operations]
    /\ at \in [Goroutines -> Nat]
    /\ \A g \in Goroutines : at[g] \in 0 .. Len(Script[op[g]])
    /\ owner \in [Locks -> Goroutines \cup {Nobody}]

Init ==
    /\ op \in [Goroutines -> Operations]
    /\ at = [g \in Goroutines |-> 0]
    /\ owner = [l \in Locks |-> Nobody]

Running(g) == at[g] # 0
Pending(g) == Script[op[g]][at[g]]
Subject(g) == Pending(g)[2]
About(g, kinds) == Running(g) /\ Pending(g)[1] \in kinds

Advance(g) == at' = [at EXCEPT ![g] = IF @ = Len(Script[op[g]]) THEN 0 ELSE @ + 1]

Begin(g, o) ==
    /\ ~ Running(g)
    /\ Script[o] # <<>>
    /\ op' = [op EXCEPT ![g] = o]
    /\ at' = [at EXCEPT ![g] = 1]
    /\ UNCHANGED owner

Lock(g) ==
    /\ About(g, {"lock"})
    /\ owner[Subject(g)] = Nobody
    /\ owner' = [owner EXCEPT ![Subject(g)] = g]
    /\ Advance(g)
    /\ UNCHANGED op

Unlock(g) ==
    /\ About(g, {"unlock"})
    /\ owner' = [owner EXCEPT ![Subject(g)] = Nobody]
    /\ Advance(g)
    /\ UNCHANGED op

Access(g) ==
    /\ About(g, {"read", "write"})
    /\ Advance(g)
    /\ UNCHANGED <<op, owner>>

Step(g) == Lock(g) \/ Unlock(g) \/ Access(g)

Next == \E g \in Goroutines : Step(g) \/ \E o \in Operations : Begin(g, o)

Spec == Init /\ [][Next]_vars

\* A mutex in starvation mode is handed to its waiters in turn.
FairSpec == Spec /\ \A g \in Goroutines : SF_vars(Step(g))

-----------------------------------------------------------------------------
(* The discipline that the properties follow from (LockOrderProofs).       *)

\* The i-th step of o locks what lies deeper than all it holds, or what it
\* holds; unlocks what it holds; touches a guarded variable under its guard;
\* and leaves nothing locked if it is the last.
DisciplinedAt(o, i) ==
    LET kind == Script[o][i][1]
        x == Script[o][i][2]
    IN  /\ kind = "lock" => \A l \in HeldAt(o, i) : Depth[x] < Depth[l] \/ l = x
        /\ kind = "unlock" => x \in HeldAt(o, i)
        /\ kind \in {"read", "write"} => Guard[x] \in HeldAt(o, i) \cup {Nobody}
        /\ i = Len(Script[o]) => HeldAt(o, i + 1) = {}

Disciplined ==
    \A o \in Operations : \A i \in DOMAIN Script[o] :
        Reachable(o, i) => DisciplinedAt(o, i)

-----------------------------------------------------------------------------
(* Properties.                                                             *)

\* Disciplined, where the goroutines come: the order of acquisition and the
\* guards that the package keeps without writing them down.
InDiscipline == \A g \in Goroutines : Running(g) => DisciplinedAt(op[g], at[g])

\* g is at a lock that h holds.
WaitsFor(g, h) == About(g, {"lock"}) /\ owner[Subject(g)] = h

Relocks(g) == WaitsFor(g, g)

\* Whenever some goroutines wait for each other for good, one of them locks
\* what it holds itself: no two operations of the package take their mutexes
\* in opposite orders (all the Lock calls of src/echdoh).
HangIsRelock ==
    \A blocked \in SUBSET Goroutines :
        /\ blocked # {}
        /\ \A g \in blocked : \E h \in blocked : WaitsFor(g, h)
        => \E g \in blocked : Relocks(g)

\* A variable with a guard is never written while another goroutine reads or
\* writes it (the var blocks of src/echdoh, each next to its mutex).
RaceFree ==
    \A g, h \in Goroutines :
        /\ g # h
        /\ About(g, {"write"})
        /\ About(h, {"read", "write"})
        /\ Subject(g) = Subject(h)
        => Guard[Subject(g)] = Nobody

\* Every operation ends, unless some goroutine locks what it holds: nobody
\* waits for ever behind goroutines that come and go (all the Lock calls).
OperationsEnd ==
    \A g \in Goroutines :
        Running(g) ~> ~ Running(g) \/ \E h \in Goroutines : Relocks(h)

\* A visit to the page of admin.go ends ("直接打开即后台", admin.go:2).
PageShown ==
    \A g \in Goroutines : Running(g) /\ op[g] = "handleAdmin" ~> ~ Running(g)
=============================================================================
