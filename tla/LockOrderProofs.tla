----------------------------- MODULE LockOrderProofs -----------------------------
(***************************************************************************)
(* Whatever the goroutines, the mutexes and the scripts: if the scripts    *)
(* are Disciplined, guarded variables are free of races and goroutines     *)
(* that block each other for good are blocked behind one that locks what   *)
(* it holds.                                                               *)
(*                                                                         *)
(* The inductive invariant ties the owners of the mutexes to the scripts:  *)
(* a goroutine owns exactly what HeldAt says of its place.                 *)
(***************************************************************************)
EXTENDS LockOrder, TLAPS, WellFoundedInduction

OwnersHold ==
    \A l \in Locks, g \in Goroutines :
        owner[l] = g <=> Running(g) /\ l \in HeldAt(op[g], at[g])

NobodyRelocked == \A g \in Goroutines : Running(g) => Reachable(op[g], at[g])

IInv == TypeOK /\ OwnersHold /\ NobodyRelocked

-----------------------------------------------------------------------------
(* Scripts.                                                                *)

\* A step is a pair of its kind and its subject (Steps).
LEMMA StepKinds ==
    ASSUME NEW o \in Operations, NEW i \in DOMAIN Script[o]
    PROVE  /\ i \in Nat /\ i # 0
           /\ Script[o][i] = <<Script[o][i][1], Script[o][i][2]>>
           /\ \/ Script[o][i][1] \in {"lock", "unlock"} /\ Script[o][i][2] \in Locks
              \/ Script[o][i][1] \in {"read", "write"} /\ Script[o][i][2] \in Variables
<1>1. Script[o] \in Seq(Steps)
  BY ScriptAssumption
<1>2. Script[o][i] \in Steps /\ i \in Nat /\ i # 0
  BY <1>1
<1>3. CASE Script[o][i] \in {"lock", "unlock"} \X Locks
  BY <1>2, <1>3
<1>4. CASE Script[o][i] \in {"read", "write"} \X Variables
  BY <1>2, <1>4
<1> QED  BY <1>2, <1>3, <1>4 DEF Steps

\* Nothing is held at the start, and everything before it was reached.
LEMMA AtFirst ==
    ASSUME NEW o \in Operations
    PROVE  HeldAt(o, 1) = {} /\ Reachable(o, 1)
BY DEF HeldAt, Reachable

\* What a step does to what is held.
LEMMA HeldNext ==
    ASSUME NEW o \in Operations, NEW i \in DOMAIN Script[o], NEW l \in Locks
    PROVE  l \in HeldAt(o, i + 1) <=>
              \/ Script[o][i] = <<"lock", l>>
              \/ l \in HeldAt(o, i) /\ Script[o][i] # <<"unlock", l>>
<1>1. i \in Nat /\ i # 0
  BY StepKinds
<1>2. CASE Script[o][i] = <<"lock", l>>
  <2>1. i \in 1 .. (i + 1) - 1
    BY <1>1
  <2>2. \A k \in i .. (i + 1) - 1 : Script[o][k] # <<"unlock", l>>
    BY <1>1, <1>2
  <2> QED  BY <1>2, <2>1, <2>2 DEF HeldAt
<1>3. CASE Script[o][i] # <<"lock", l>>
  <2>1. ASSUME l \in HeldAt(o, i + 1)
        PROVE  l \in HeldAt(o, i) /\ Script[o][i] # <<"unlock", l>>
    <3>1. PICK j \in 1 .. (i + 1) - 1 :
              /\ Script[o][j] = <<"lock", l>>
              /\ \A k \in j .. (i + 1) - 1 : Script[o][k] # <<"unlock", l>>
      BY <2>1 DEF HeldAt
    <3>2. j \in 1 .. i - 1
      BY <1>1, <1>3, <3>1
    <3>3. \A k \in j .. i - 1 : k \in j .. (i + 1) - 1
      BY <1>1
    <3>4. i \in j .. (i + 1) - 1
      BY <1>1, <3>2
    <3> QED  BY <3>1, <3>2, <3>3, <3>4 DEF HeldAt
  <2>2. ASSUME l \in HeldAt(o, i), Script[o][i] # <<"unlock", l>>
        PROVE  l \in HeldAt(o, i + 1)
    <3>1. PICK j \in 1 .. i - 1 :
              /\ Script[o][j] = <<"lock", l>>
              /\ \A k \in j .. i - 1 : Script[o][k] # <<"unlock", l>>
      BY <2>2 DEF HeldAt
    <3>2. j \in 1 .. (i + 1) - 1
      BY <1>1, <3>1
    <3>3. \A k \in j .. (i + 1) - 1 : k \in j .. i - 1 \/ k = i
      BY <1>1
    <3> QED  BY <2>2, <3>1, <3>2, <3>3 DEF HeldAt
  <2> QED  BY <1>3, <2>1, <2>2
<1> QED  BY <1>2, <1>3

\* A step that does not relock is passed.
LEMMA ReachNext ==
    ASSUME NEW o \in Operations, NEW i \in DOMAIN Script[o],
           Reachable(o, i), ~ RelocksAt(o, i)
    PROVE  Reachable(o, i + 1)
<1>1. i \in Nat
  BY StepKinds
<1>2. \A j \in 1 .. (i + 1) - 1 : j \in 1 .. i - 1 \/ j = i
  BY <1>1
<1> QED  BY <1>2 DEF Reachable

-----------------------------------------------------------------------------
(* Types.                                                                  *)

\* A running goroutine is at a step of its script.
LEMMA InScript ==
    ASSUME TypeOK, NEW g \in Goroutines, Running(g)
    PROVE  /\ op[g] \in Operations
           /\ at[g] \in DOMAIN Script[op[g]]
           /\ at[g] \in Nat
           /\ DOMAIN Script[op[g]] = 1 .. Len(Script[op[g]])
           /\ Len(Script[op[g]]) \in Nat
<1>1. op[g] \in Operations /\ at[g] \in 0 .. Len(Script[op[g]]) /\ at[g] # 0
  BY DEF TypeOK, Running
<1>2. Script[op[g]] \in Seq(Steps)
  BY <1>1, ScriptAssumption
<1>3. DOMAIN Script[op[g]] = 1 .. Len(Script[op[g]]) /\ Len(Script[op[g]]) \in Nat
  BY <1>2
<1> QED  BY <1>1, <1>3

\* A goroutine that advances stays in its script or leaves it.
LEMMA AdvanceTyped ==
    ASSUME TypeOK, NEW g \in Goroutines, Running(g), Advance(g), UNCHANGED op
    PROVE  /\ at' \in [Goroutines -> Nat]
           /\ \A h \in Goroutines : at'[h] \in 0 .. Len(Script[op'[h]])
           /\ at'[g] = IF at[g] = Len(Script[op[g]]) THEN 0 ELSE at[g] + 1
           /\ \A h \in Goroutines : h # g => at'[h] = at[h]
<1>1. at \in [Goroutines -> Nat] /\ \A h \in Goroutines : at[h] \in 0 .. Len(Script[op[h]])
  BY DEF TypeOK
<1>2. at[g] \in Nat /\ at[g] \in 1 .. Len(Script[op[g]]) /\ Len(Script[op[g]]) \in Nat
  BY InScript
<1>3. at'[g] = IF at[g] = Len(Script[op[g]]) THEN 0 ELSE at[g] + 1
  BY <1>1 DEF Advance
<1>4. \A h \in Goroutines : h # g => at'[h] = at[h]
  BY <1>1 DEF Advance
<1>5. at'[g] \in 0 .. Len(Script[op[g]])
  BY <1>2, <1>3
<1>6. at' \in [Goroutines -> Nat]
  BY <1>1, <1>2 DEF Advance
<1> QED  BY <1>1, <1>3, <1>4, <1>5, <1>6

-----------------------------------------------------------------------------
(* The invariant.                                                          *)

\* Where g is: disciplined, and past no relock.
LEMMA AtStep ==
    ASSUME IInv, Disciplined, NEW g \in Goroutines, Running(g)
    PROVE  DisciplinedAt(op[g], at[g]) /\ Reachable(op[g], at[g])
<1>1. Reachable(op[g], at[g])
  BY DEF IInv, NobodyRelocked
<1>2. op[g] \in Operations /\ at[g] \in DOMAIN Script[op[g]]
  BY InScript DEF IInv
<1> QED  BY <1>1, <1>2 DEF Disciplined

\* What g holds after it advanced past a step that is no relock.
LEMMA HeldAfter ==
    ASSUME IInv, Disciplined, NEW g \in Goroutines, Running(g), Advance(g),
           UNCHANGED op, ~ RelocksAt(op[g], at[g])
    PROVE  /\ NobodyRelocked'
           /\ \A l \in Locks :
                (Running(g) /\ l \in HeldAt(op[g], at[g]))' <=> l \in HeldAt(op[g], at[g] + 1)
           /\ \A h \in Goroutines : h # g => at'[h] = at[h] /\ op'[h] = op[h]
<1>1. TypeOK
  BY DEF IInv
<1>2. /\ at'[g] = IF at[g] = Len(Script[op[g]]) THEN 0 ELSE at[g] + 1
      /\ \A h \in Goroutines : h # g => at'[h] = at[h]
  BY <1>1, AdvanceTyped
<1>3. op[g] \in Operations /\ at[g] \in DOMAIN Script[op[g]] /\ at[g] \in Nat
  BY <1>1, InScript
<1>4. DisciplinedAt(op[g], at[g]) /\ Reachable(op[g], at[g])
  BY AtStep
<1>5. Reachable(op[g], at[g] + 1)
  BY <1>3, <1>4, ReachNext
<1>6. NobodyRelocked'
  <2>1. \A h \in Goroutines : h # g => (Running(h)' => Reachable(op[h], at[h])')
    <3>1. \A h \in Goroutines : Running(h) => Reachable(op[h], at[h])
      BY DEF IInv, NobodyRelocked
    <3>2. \A h \in Goroutines : h # g => at'[h] = at[h] /\ op'[h] = op[h]
      BY <1>2
    <3> QED  BY <3>1, <3>2 DEF Running, Reachable, RelocksAt, HeldAt
  <2>2. Running(g)' => Reachable(op[g], at[g])'
    <3>1. Running(g)' => at'[g] = at[g] + 1
      BY <1>2 DEF Running
    <3> QED  BY <1>5, <3>1 DEF Reachable, RelocksAt, HeldAt
  <2> QED  BY <2>1, <2>2 DEF NobodyRelocked
<1>7. ASSUME NEW l \in Locks
      PROVE  (Running(g) /\ l \in HeldAt(op[g], at[g]))' <=> l \in HeldAt(op[g], at[g] + 1)
  <2>1. CASE at[g] = Len(Script[op[g]])
    <3>1. HeldAt(op[g], at[g] + 1) = {}
      BY <1>4, <2>1 DEF DisciplinedAt
    <3>2. ~ Running(g)'
      BY <1>2, <2>1 DEF Running
    <3> QED  BY <3>1, <3>2
  <2>2. CASE at[g] # Len(Script[op[g]])
    <3>1. at'[g] = at[g] + 1 /\ Running(g)'
      BY <1>2, <1>3, <2>2 DEF Running
    <3> QED  BY <3>1 DEF HeldAt
  <2> QED  BY <2>1, <2>2
<1> QED  BY <1>2, <1>6, <1>7

LEMMA InitIInv == Init => IInv
<1> SUFFICES ASSUME Init PROVE IInv
  OBVIOUS
<1>1. \A o \in Operations : Len(Script[o]) \in Nat
  BY ScriptAssumption
<1>2. TypeOK
  BY <1>1 DEF Init, TypeOK
<1>3. OwnersHold
  BY NobodyAssumption DEF Init, OwnersHold, Running
<1>4. NobodyRelocked
  BY DEF Init, NobodyRelocked, Running
<1> QED  BY <1>2, <1>3, <1>4 DEF IInv

\* A step leaves a goroutine's place alone: it owes what it owed.
LEMMA SamePlace ==
    ASSUME NEW h \in Goroutines, op'[h] = op[h], at'[h] = at[h]
    PROVE  /\ Running(h)' <=> Running(h)
           /\ \A l : (Running(h) /\ l \in HeldAt(op[h], at[h]))'
                        <=> Running(h) /\ l \in HeldAt(op[h], at[h])
<1>1. Running(h)' <=> Running(h)
  BY DEF Running
<1>2. HeldAt(op[h], at[h])' = HeldAt(op'[h], at'[h])
  BY DEF HeldAt
<1>3. HeldAt(op'[h], at'[h]) = HeldAt(op[h], at[h])
  OBVIOUS
<1>4. HeldAt(op[h], at[h])' = HeldAt(op[h], at[h])
  BY <1>2, <1>3
<1> QED
  BY <1>1, <1>4

LEMMA BeginIInv ==
    ASSUME IInv, NEW g \in Goroutines, NEW o \in Operations, Begin(g, o)
    PROVE  IInv'
<1>1. TypeOK /\ ~ Running(g) /\ Script[o] # <<>> /\ owner' = owner
  BY DEF IInv, Begin
<1>2. op \in [Goroutines -> Operations] /\ at \in [Goroutines -> Nat]
  BY <1>1 DEF TypeOK
<1>3. op'[g] = o /\ at'[g] = 1
  BY <1>2 DEF Begin
<1>4. \A h \in Goroutines : h # g => op'[h] = op[h] /\ at'[h] = at[h]
  BY <1>2 DEF Begin
<1>5. TypeOK'
  <2>1. Script[o] \in Seq(Steps)
    BY ScriptAssumption
  <2>2. Len(Script[o]) \in Nat /\ Len(Script[o]) # 0
    BY <1>1, <2>1
  <2>3. 1 \in 0 .. Len(Script[o])
    BY <2>2
  <2>4. op' \in [Goroutines -> Operations] /\ at' \in [Goroutines -> Nat]
    BY <1>2 DEF Begin
  <2>5. \A h \in Goroutines : at'[h] \in 0 .. Len(Script[op'[h]])
    BY <1>1, <1>3, <1>4, <2>3 DEF TypeOK
  <2> QED  BY <1>1, <2>4, <2>5 DEF TypeOK
<1>6. OwnersHold'
  <2>1. ASSUME NEW l \in Locks, NEW h \in Goroutines
        PROVE  (owner[l] = h <=> Running(h) /\ l \in HeldAt(op[h], at[h]))'
    <3>1. owner[l] = h <=> Running(h) /\ l \in HeldAt(op[h], at[h])
      BY DEF IInv, OwnersHold
    <3>2. CASE h = g
      <4>1. HeldAt(op[g], at[g])' = HeldAt(op'[g], at'[g])
        BY DEF HeldAt
      <4>2. HeldAt(op[g], at[g])' = {}
        BY <1>3, <4>1, AtFirst
      <4>3. owner[l] # g
        BY <1>1, <3>1, <3>2
      <4> QED  BY <1>1, <3>2, <4>2, <4>3
    <3>3. CASE h # g
      <4>1. (Running(h) /\ l \in HeldAt(op[h], at[h]))' <=> Running(h) /\ l \in HeldAt(op[h], at[h])
        BY <1>4, <3>3, SamePlace
      <4> QED  BY <1>1, <3>1, <4>1
    <3> QED  BY <3>2, <3>3
  <2> QED  BY <2>1 DEF OwnersHold
<1>7. NobodyRelocked'
  <2>1. ASSUME NEW h \in Goroutines, Running(h)'
        PROVE  Reachable(op'[h], at'[h])
    <3>1. CASE h = g
      BY <1>3, <3>1, AtFirst
    <3>2. CASE h # g
      BY <1>4, <2>1, <3>2 DEF IInv, NobodyRelocked, Running
    <3> QED  BY <3>1, <3>2
  <2> QED  BY <2>1 DEF NobodyRelocked, Reachable, RelocksAt, HeldAt
<1> QED  BY <1>5, <1>6, <1>7 DEF IInv

LEMMA LockIInv ==
    ASSUME IInv, Disciplined, NEW g \in Goroutines, Lock(g)
    PROVE  IInv'
<1> DEFINE x == Subject(g)
<1>1. /\ TypeOK /\ Running(g) /\ Pending(g)[1] = "lock" /\ owner[x] = Nobody
      /\ owner' = [owner EXCEPT ![x] = g] /\ Advance(g) /\ UNCHANGED op
  BY DEF IInv, Lock, About
<1>2. op[g] \in Operations /\ at[g] \in DOMAIN Script[op[g]]
  BY <1>1, InScript
<1>3. Script[op[g]][at[g]] = <<"lock", x>> /\ x \in Locks
  BY <1>1, <1>2, StepKinds DEF Pending, Subject
<1>4. x \notin HeldAt(op[g], at[g])
  BY <1>1, <1>3, NobodyAssumption DEF IInv, OwnersHold
<1>5. ~ RelocksAt(op[g], at[g])
  BY <1>3, <1>4 DEF RelocksAt
<1>6. /\ NobodyRelocked'
      /\ \A l \in Locks :
           (Running(g) /\ l \in HeldAt(op[g], at[g]))' <=> l \in HeldAt(op[g], at[g] + 1)
      /\ \A h \in Goroutines : h # g => at'[h] = at[h] /\ op'[h] = op[h]
  BY <1>1, <1>5, HeldAfter
<1>7. owner \in [Locks -> Goroutines \cup {Nobody}]
  BY <1>1 DEF TypeOK
<1>8. TypeOK'
  <2>1. owner' \in [Locks -> Goroutines \cup {Nobody}]
    BY <1>1, <1>7
  <2>2. /\ at' \in [Goroutines -> Nat]
        /\ \A h \in Goroutines : at'[h] \in 0 .. Len(Script[op'[h]])
    BY <1>1, AdvanceTyped
  <2>3. op' \in [Goroutines -> Operations]
    BY <1>1 DEF TypeOK
  <2> QED  BY <2>1, <2>2, <2>3 DEF TypeOK
<1>9. OwnersHold'
  <2>1. ASSUME NEW l \in Locks, NEW h \in Goroutines
        PROVE  (owner[l] = h <=> Running(h) /\ l \in HeldAt(op[h], at[h]))'
    <3>1. owner[l] = h <=> Running(h) /\ l \in HeldAt(op[h], at[h])
      BY DEF IInv, OwnersHold
    <3>2. owner'[l] = IF l = x THEN g ELSE owner[l]
      BY <1>1, <1>7
    <3>3. CASE h = g
      <4>1. l \in HeldAt(op[g], at[g] + 1) <=> l = x \/ l \in HeldAt(op[g], at[g])
        BY <1>2, <1>3, HeldNext
      <4> QED  BY <1>1, <1>6, <3>1, <3>2, <3>3, <4>1
    <3>4. CASE h # g
      <4>1. (Running(h) /\ l \in HeldAt(op[h], at[h]))' <=> Running(h) /\ l \in HeldAt(op[h], at[h])
        BY <1>6, <3>4, SamePlace
      <4>2. owner'[l] = h <=> owner[l] = h
        BY <1>1, <3>2, <3>4, NobodyAssumption
      <4> QED  BY <3>1, <4>1, <4>2
    <3> QED  BY <3>3, <3>4
  <2> QED  BY <2>1 DEF OwnersHold
<1> QED  BY <1>6, <1>8, <1>9 DEF IInv

LEMMA UnlockIInv ==
    ASSUME IInv, Disciplined, NEW g \in Goroutines, Unlock(g)
    PROVE  IInv'
<1> DEFINE x == Subject(g)
<1>1. /\ TypeOK /\ Running(g) /\ Pending(g)[1] = "unlock"
      /\ owner' = [owner EXCEPT ![x] = Nobody] /\ Advance(g) /\ UNCHANGED op
  BY DEF IInv, Unlock, About
<1>2. op[g] \in Operations /\ at[g] \in DOMAIN Script[op[g]]
  BY <1>1, InScript
<1>3. Script[op[g]][at[g]] = <<"unlock", x>> /\ x \in Locks
  BY <1>1, <1>2, StepKinds DEF Pending, Subject
<1>4. x \in HeldAt(op[g], at[g])
  BY <1>1, AtStep DEF DisciplinedAt, Pending, Subject
<1>5. owner[x] = g
  BY <1>1, <1>3, <1>4 DEF IInv, OwnersHold
<1>6. ~ RelocksAt(op[g], at[g])
  BY <1>3 DEF RelocksAt
<1>7. /\ NobodyRelocked'
      /\ \A l \in Locks :
           (Running(g) /\ l \in HeldAt(op[g], at[g]))' <=> l \in HeldAt(op[g], at[g] + 1)
      /\ \A h \in Goroutines : h # g => at'[h] = at[h] /\ op'[h] = op[h]
  BY <1>1, <1>6, HeldAfter
<1>8. owner \in [Locks -> Goroutines \cup {Nobody}]
  BY <1>1 DEF TypeOK
<1>9. TypeOK'
  <2>1. owner' \in [Locks -> Goroutines \cup {Nobody}]
    BY <1>1, <1>8
  <2>2. /\ at' \in [Goroutines -> Nat]
        /\ \A h \in Goroutines : at'[h] \in 0 .. Len(Script[op'[h]])
    BY <1>1, AdvanceTyped
  <2>3. op' \in [Goroutines -> Operations]
    BY <1>1 DEF TypeOK
  <2> QED  BY <2>1, <2>2, <2>3 DEF TypeOK
<1>10. OwnersHold'
  <2>1. ASSUME NEW l \in Locks, NEW h \in Goroutines
        PROVE  (owner[l] = h <=> Running(h) /\ l \in HeldAt(op[h], at[h]))'
    <3>1. owner[l] = h <=> Running(h) /\ l \in HeldAt(op[h], at[h])
      BY DEF IInv, OwnersHold
    <3>2. owner'[l] = IF l = x THEN Nobody ELSE owner[l]
      BY <1>1, <1>8
    <3>3. CASE h = g
      <4>1. l \in HeldAt(op[g], at[g] + 1) <=> l # x /\ l \in HeldAt(op[g], at[g])
        BY <1>2, <1>3, HeldNext
      <4> QED  BY <1>1, <1>7, <3>1, <3>2, <3>3, <4>1, NobodyAssumption
    <3>4. CASE h # g
      <4>1. (Running(h) /\ l \in HeldAt(op[h], at[h]))' <=> Running(h) /\ l \in HeldAt(op[h], at[h])
        BY <1>7, <3>4, SamePlace
      <4>2. owner'[l] = h <=> owner[l] = h
        BY <1>5, <3>2, <3>4, NobodyAssumption
      <4> QED  BY <3>1, <4>1, <4>2
    <3> QED  BY <3>3, <3>4
  <2> QED  BY <2>1 DEF OwnersHold
<1> QED  BY <1>7, <1>9, <1>10 DEF IInv

LEMMA AccessIInv ==
    ASSUME IInv, Disciplined, NEW g \in Goroutines, Access(g)
    PROVE  IInv'
<1>1. /\ TypeOK /\ Running(g) /\ Pending(g)[1] \in {"read", "write"}
      /\ Advance(g) /\ UNCHANGED <<op, owner>>
  BY DEF IInv, Access, About
<1>2. op[g] \in Operations /\ at[g] \in DOMAIN Script[op[g]]
  BY <1>1, InScript
<1>3. \A l \in Locks : Script[op[g]][at[g]] \notin {<<"lock", l>>, <<"unlock", l>>}
  BY <1>1 DEF Pending
<1>4. ~ RelocksAt(op[g], at[g])
  BY <1>3 DEF RelocksAt, HeldAt
<1>5. /\ NobodyRelocked'
      /\ \A l \in Locks :
           (Running(g) /\ l \in HeldAt(op[g], at[g]))' <=> l \in HeldAt(op[g], at[g] + 1)
      /\ \A h \in Goroutines : h # g => at'[h] = at[h] /\ op'[h] = op[h]
  BY <1>1, <1>4, HeldAfter
<1>6. TypeOK'
  <2>1. /\ at' \in [Goroutines -> Nat]
        /\ \A h \in Goroutines : at'[h] \in 0 .. Len(Script[op'[h]])
    BY <1>1, AdvanceTyped
  <2>2. op' \in [Goroutines -> Operations] /\ owner' \in [Locks -> Goroutines \cup {Nobody}]
    BY <1>1 DEF TypeOK
  <2> QED  BY <2>1, <2>2 DEF TypeOK
<1>7. OwnersHold'
  <2>1. ASSUME NEW l \in Locks, NEW h \in Goroutines
        PROVE  (owner[l] = h <=> Running(h) /\ l \in HeldAt(op[h], at[h]))'
    <3>1. owner[l] = h <=> Running(h) /\ l \in HeldAt(op[h], at[h])
      BY DEF IInv, OwnersHold
    <3>2. CASE h = g
      <4>1. l \in HeldAt(op[g], at[g] + 1) <=> l \in HeldAt(op[g], at[g])
        BY <1>2, <1>3, HeldNext
      <4> QED  BY <1>1, <1>5, <3>1, <3>2, <4>1
    <3>3. CASE h # g
      <4>1. (Running(h) /\ l \in HeldAt(op[h], at[h]))' <=> Running(h) /\ l \in HeldAt(op[h], at[h])
        BY <1>5, <3>3, SamePlace
      <4> QED  BY <1>1, <3>1, <4>1
    <3> QED  BY <3>2, <3>3
  <2> QED  BY <2>1 DEF OwnersHold
<1> QED  BY <1>5, <1>6, <1>7 DEF IInv

LEMMA NextIInv ==
    ASSUME Disciplined, IInv, [Next]_vars
    PROVE  IInv'
<1>1. CASE UNCHANGED vars
  <2>1. op' = op /\ at' = at /\ owner' = owner
    BY <1>1 DEF vars
  <2>2. TypeOK'
    BY <2>1 DEF IInv, TypeOK
  <2>3. OwnersHold'
    <3>1. OwnersHold
      BY DEF IInv
    <3>2. ASSUME NEW g \in Goroutines
          PROVE  Running(g)' = Running(g) /\ HeldAt(op[g], at[g])' = HeldAt(op[g], at[g])
      BY <2>1 DEF Running, HeldAt
    <3> QED  BY <2>1, <3>1, <3>2 DEF OwnersHold
  <2>4. NobodyRelocked'
    BY <2>1 DEF IInv, NobodyRelocked, Running, HeldAt, Reachable, RelocksAt
  <2> QED  BY <2>2, <2>3, <2>4 DEF IInv
<1>2. ASSUME NEW g \in Goroutines, Step(g)
      PROVE  IInv'
  BY <1>2, LockIInv, UnlockIInv, AccessIInv DEF Step
<1>3. ASSUME NEW g \in Goroutines, NEW o \in Operations, Begin(g, o)
      PROVE  IInv'
  BY <1>3, BeginIInv
<1> QED  BY <1>1, <1>2, <1>3 DEF Next

\* The owners of the mutexes are those the scripts say.
THEOREM OwnersFollowScripts ==
    ASSUME Disciplined
    PROVE  Spec => []IInv
<1>1. Init => IInv
  BY InitIInv
<1>2. IInv /\ [Next]_vars => IInv'
  BY NextIInv
<1> QED  BY <1>1, <1>2, PTL DEF Spec

-----------------------------------------------------------------------------
(* The properties.                                                         *)

\* A guarded variable is touched by its guard's owner only.
LEMMA NoRace == ASSUME IInv, Disciplined PROVE RaceFree
<1> SUFFICES ASSUME NEW g \in Goroutines, NEW h \in Goroutines, g # h,
                    About(g, {"write"}), About(h, {"read", "write"}),
                    Subject(g) = Subject(h), Guard[Subject(g)] # Nobody
             PROVE  FALSE
  BY DEF RaceFree
<1> DEFINE v == Subject(g)
<1>1. Running(g) /\ Pending(g)[1] = "write" /\ Running(h) /\ Pending(h)[1] \in {"read", "write"}
  BY DEF About
<1>2. Guard[v] \in HeldAt(op[g], at[g])
  BY <1>1, AtStep DEF DisciplinedAt, Pending, Subject
<1>3. Guard[v] \in HeldAt(op[h], at[h])
  BY <1>1, AtStep DEF DisciplinedAt, Pending, Subject
<1>4. Guard[v] \in Locks
  BY <1>2 DEF HeldAt
<1> QED  BY <1>1, <1>2, <1>3, <1>4 DEF IInv, OwnersHold

\* Variables with a guard are free of races, whatever the goroutines.
THEOREM NoRaces ==
    ASSUME Disciplined
    PROVE  Spec => []RaceFree
<1>1. IInv => RaceFree
  BY NoRace
<1>2. Spec => []IInv
  BY OwnersFollowScripts
<1> QED  BY <1>1, <1>2, PTL

\* Who is waited for and waits, but not for a mutex of its own, waits for a
\* deeper one.
LEMMA WaitsDeeper ==
    ASSUME IInv, Disciplined,
           NEW g \in Goroutines, NEW h \in Goroutines, NEW k \in Goroutines,
           WaitsFor(g, h), WaitsFor(h, k), ~ Relocks(h)
    PROVE  /\ Subject(g) \in Locks /\ Subject(h) \in Locks
           /\ Depth[Subject(h)] < Depth[Subject(g)]
<1>1. /\ Running(g) /\ Pending(g)[1] = "lock" /\ owner[Subject(g)] = h
      /\ Running(h) /\ Pending(h)[1] = "lock" /\ owner[Subject(h)] # h
  BY DEF WaitsFor, Relocks, About
<1>2. Subject(g) \in Locks /\ Subject(h) \in Locks
  <2>1. op[g] \in Operations /\ at[g] \in DOMAIN Script[op[g]]
    BY <1>1, InScript DEF IInv
  <2>2. op[h] \in Operations /\ at[h] \in DOMAIN Script[op[h]]
    BY <1>1, InScript DEF IInv
  <2>3. Subject(g) \in Locks
    BY <1>1, <2>1, StepKinds DEF Pending, Subject
  <2>4. Subject(h) \in Locks
    BY <1>1, <2>2, StepKinds DEF Pending, Subject
  <2> QED  BY <2>3, <2>4
<1>3. Subject(g) \in HeldAt(op[h], at[h])
  BY <1>1, <1>2 DEF IInv, OwnersHold
<1>4. \A l \in HeldAt(op[h], at[h]) : Depth[Subject(h)] < Depth[l] \/ l = Subject(h)
  BY <1>1, AtStep DEF DisciplinedAt, Pending, Subject
<1> QED  BY <1>1, <1>2, <1>3, <1>4

\* A set of goroutines that block each other has one that waits for the
\* deepest mutex of all they wait for; its owner waits for a deeper one.
LEMMA NoCycle == ASSUME IInv, Disciplined PROVE HangIsRelock
<1> SUFFICES ASSUME NEW blocked \in SUBSET Goroutines, blocked # {},
                    \A g \in blocked : \E h \in blocked : WaitsFor(g, h),
                    \A g \in blocked : ~ Relocks(g)
             PROVE  FALSE
  BY DEF HangIsRelock
<1> DEFINE Depths == {Depth[Subject(g)] : g \in blocked}
<1>1. \A g \in blocked : \E h \in blocked :
         Subject(g) \in Locks /\ Subject(h) \in Locks /\ Depth[Subject(h)] < Depth[Subject(g)]
  <2>1. ASSUME NEW g \in blocked
        PROVE  \E h \in blocked :
                 Subject(g) \in Locks /\ Subject(h) \in Locks /\ Depth[Subject(h)] < Depth[Subject(g)]
    <3>1. PICK h \in blocked : WaitsFor(g, h)
      OBVIOUS
    <3>2. PICK k \in blocked : WaitsFor(h, k)
      OBVIOUS
    <3> QED  BY <3>1, <3>2, WaitsDeeper
  <2> QED  BY <2>1
<1>2. Depths \subseteq Nat /\ Depths # {}
  BY <1>1, ScriptAssumption
<1>3. PICK d \in Depths : \A e \in Depths : <<e, d>> \notin OpToRel(<, Nat)
  BY <1>2, NatLessThanWellFounded, WFMin
<1>4. PICK g \in blocked : d = Depth[Subject(g)]
  BY <1>3
<1>5. PICK h \in blocked : Depth[Subject(h)] < Depth[Subject(g)]
  BY <1>1
<1>6. Depth[Subject(h)] \in Depths
  OBVIOUS
<1> QED  BY <1>2, <1>3, <1>4, <1>5, <1>6 DEF OpToRel

\* No goroutines, however many, block each other for good unless one of them
\* locks what it holds.
THEOREM HangsAreRelocks ==
    ASSUME Disciplined
    PROVE  Spec => []HangIsRelock
<1>1. IInv => HangIsRelock
  BY NoCycle
<1>2. Spec => []IInv
  BY OwnersFollowScripts
<1> QED  BY <1>1, <1>2, PTL
-----------------------------------------------------------------------------
(* The discipline itself, and what it says of Unlock.                      *)

\* What is checked of each script by itself holds of the goroutines as they come:
\* none reaches a step behind a relock, where nothing has been checked.
THEOREM DisciplineReached ==
    ASSUME Disciplined
    PROVE  Spec => []InDiscipline
<1>1. IInv => InDiscipline
  BY AtStep DEF InDiscipline
<1>2. Spec => []IInv
  BY OwnersFollowScripts
<1> QED  BY <1>1, <1>2, PTL

\* Who is about to unlock a mutex owns it: no Unlock of src/echdoh hits a mutex
\* that is free, which ends the program, or one that another goroutine holds.
UnlocksOwn == \A g \in Goroutines : About(g, {"unlock"}) => owner[Subject(g)] = g

THEOREM OwnersUnlock ==
    ASSUME Disciplined
    PROVE  Spec => []UnlocksOwn
<1>1. ASSUME IInv, NEW g \in Goroutines, About(g, {"unlock"})
      PROVE  owner[Subject(g)] = g
  <2>1. Running(g) /\ Pending(g)[1] = "unlock"
    BY <1>1 DEF About
  <2>2. op[g] \in Operations /\ at[g] \in DOMAIN Script[op[g]]
    BY <1>1, <2>1, InScript DEF IInv
  <2>3. Subject(g) \in Locks
    BY <2>1, <2>2, StepKinds DEF Pending, Subject
  <2>4. Subject(g) \in HeldAt(op[g], at[g])
    BY <1>1, <2>1, AtStep DEF DisciplinedAt, Pending, Subject
  <2> QED  BY <1>1, <2>1, <2>3, <2>4 DEF IInv, OwnersHold
<1>2. IInv => UnlocksOwn
  BY <1>1 DEF UnlocksOwn
<1>3. Spec => []IInv
  BY OwnersFollowScripts
<1> QED  BY <1>2, <1>3, PTL
=============================================================================
