--------------------------- MODULE LockPoolProofs ---------------------------
(* What DB.mu and the pool guarantee for any number of calls, any pool and   *)
(* any length of the operations; then that operations are atomic, whatever   *)
(* the data file holds.                                                      *)
EXTENDS Operations, FiniteSetTheorems, TLAPS

\* readers and writer are the calls that are inside, and a writer is inside
\* alone.
LockInv ==
  /\ \A c \in Call : pc[c] \in {"lock", "drain"} => kind[c] = "write"
  /\ \A c \in Call : pc[c] = "rlock" => kind[c] # "write"
  /\ \A c \in Call : c \in readers <=> Inside(c) /\ kind[c] # "write"
  /\ \A c \in Call :
       writer = c <=> pc[c] = "drain" \/ (Inside(c) /\ kind[c] = "write")
  /\ \A c \in Call : Inside(c) /\ kind[c] = "write" => readers = {}
  /\ \A c \in Call : pc[c] \in {"nested", "inner"} => todo[c] > 0

Inv == TypeOK /\ LockInv /\ Accounted

\* The calls with a connection are finitely many, and a call joins or leaves
\* them one at a time.
LEMMA Counting ==
  ASSUME NEW S \in SUBSET Call, NEW c \in Call
  PROVE  /\ Cardinality(S) \in Nat
         /\ c \notin S => Cardinality(S \union {c}) = Cardinality(S) + 1
         /\ c \in S => Cardinality(S \ {c}) = Cardinality(S) - 1
<1>1. IsFiniteSet(Call)
  BY LockPoolAssumption
<1>2. IsFiniteSet(S)
  BY <1>1, FS_Subset
<1> QED BY <1>2, FS_CardinalityType, FS_AddElement, FS_RemoveElement

\* Nobody has a connection, or waits for the lock, to begin with.
LEMMA InitInv == Init => Inv
<1> SUFFICES ASSUME Init PROVE Inv
  OBVIOUS
<1>1. TypeOK
  BY LockPoolAssumption DEF Init, TypeOK, Places, Kinds
<1>2. LockInv
  BY LockPoolAssumption DEF Init, LockInv, Inside
<1>3. Holding = {} /\ At("inner") = {}
  BY DEF Init, Holding, At
<1>4. Accounted
  BY <1>3, FS_EmptySet DEF Init, Accounted
<1> QED BY <1>1, <1>2, <1>4 DEF Inv

\* Every step keeps the types and the bookkeeping of the lock.
LEMMA LockStep == Inv /\ [Next]_vars => LockInv'
<1> SUFFICES ASSUME Inv, [Next]_vars PROVE LockInv'
  OBVIOUS
<1> USE LockPoolAssumption DEF Inv, TypeOK, LockInv, Inside, Goto, Places, Kinds
<1>1. ASSUME NEW c \in Call, RLock(c) PROVE LockInv'
  BY <1>1 DEF RLock
<1>2. ASSUME NEW c \in Call, Lock(c) PROVE LockInv'
  BY <1>2 DEF Lock
<1>3. ASSUME NEW c \in Call, Announce(c) PROVE LockInv'
  BY <1>3 DEF Announce
<1>4. ASSUME NEW c \in Call, Locked(c) PROVE LockInv'
  BY <1>4 DEF Locked
<1>5. ASSUME NEW c \in Call, Acquire(c) \/ NextRow(c) \/ AcquireNested(c)
                             \/ EndNested(c) \/ NextStatement(c)
      PROVE LockInv'
  BY <1>5 DEF Acquire, NextRow, AcquireNested, EndNested, NextStatement
<1>6. ASSUME NEW c \in Call, RUnlock(c) PROVE LockInv'
  BY <1>6 DEF RUnlock, Done
<1>7. ASSUME NEW c \in Call, Unlock(c) PROVE LockInv'
  BY <1>7 DEF Unlock, Done, At
<1>8. CASE UNCHANGED vars
  BY <1>8 DEF vars
<1> QED BY <1>1, <1>2, <1>3, <1>4, <1>5, <1>6, <1>7, <1>8 DEF Next, Start, Run

\* Taking a connection adds one to the calls that hold one or to those that
\* hold two, and giving it back removes one: the count follows.
LEMMA AccountStep == Inv /\ [Next]_vars => Accounted'
<1> SUFFICES ASSUME Inv, [Next]_vars PROVE Accounted'
  OBVIOUS
<1> DEFINE H == Holding
           I == At("inner")
<1>0. H \in SUBSET Call /\ I \in SUBSET Call
  BY DEF Holding, At
<1>1. inUse = Cardinality(H) + Cardinality(I)
  BY DEF Inv, Accounted
<1> HIDE DEF H, I
<1>2. Cardinality(H) \in Nat /\ Cardinality(I) \in Nat
  BY <1>0, Counting, ZenonT(40)
<1>3. ASSUME H' = H, I' = I, UNCHANGED inUse PROVE Accounted'
  BY <1>1, <1>3 DEF Accounted, H, I
<1>4. ASSUME NEW c \in Call, RLock(c) \/ Lock(c) \/ Announce(c) \/ Locked(c) \/ NextRow(c)
      PROVE  Accounted'
  <2>1. UNCHANGED inUse
    BY <1>4 DEF RLock, Lock, Announce, Locked, NextRow
  <2>2. H' = H /\ I' = I
    BY <1>4 DEF RLock, Lock, Announce, Locked, NextRow, Goto, H, I, Holding, At, Inv, TypeOK
  <2> QED BY <2>1, <2>2, <1>3
<1>5. ASSUME NEW c \in Call, Acquire(c) PROVE Accounted'
  <2>1. c \notin H /\ H' = H \union {c} /\ I' = I /\ inUse' = inUse + 1
    BY <1>5 DEF Acquire, Goto, H, I, Holding, At, Inv, TypeOK
  <2>2. Cardinality(H') = Cardinality(H) + 1
    BY <2>1, <1>0, Counting
  <2> QED BY <2>1, <2>2, <1>1, <1>2 DEF Accounted, H, I
<1>6. ASSUME NEW c \in Call, AcquireNested(c) PROVE Accounted'
  <2>1. c \notin I /\ I' = I \union {c} /\ H' = H /\ inUse' = inUse + 1
    BY <1>6 DEF AcquireNested, Goto, H, I, Holding, At, Inv, TypeOK
  <2>2. Cardinality(I') = Cardinality(I) + 1
    BY <2>1, <1>0, Counting
  <2> QED BY <2>1, <2>2, <1>1, <1>2 DEF Accounted, H, I
<1>7. ASSUME NEW c \in Call, EndNested(c) PROVE Accounted'
  <2>1. c \in I /\ I' = I \ {c} /\ H' = H /\ inUse' = inUse - 1
    BY <1>7 DEF EndNested, Goto, H, I, Holding, At, Inv, TypeOK
  <2>2. Cardinality(I') = Cardinality(I) - 1
    BY <2>1, <1>0, Counting
  <2> QED BY <2>1, <2>2, <1>1, <1>2 DEF Accounted, H, I
<1>8. ASSUME NEW c \in Call, NextStatement(c) \/ RUnlock(c) \/ Unlock(c) PROVE Accounted'
  <2>1. c \in H /\ inUse' = inUse - 1
    BY <1>8 DEF NextStatement, RUnlock, Unlock, Done, H, Holding, At
  <2>2. H' = H \ {c} /\ I' = I
    BY <1>8 DEF NextStatement, RUnlock, Unlock, Done, Goto, H, I, Holding, At, Inv, TypeOK
  <2>3. Cardinality(H') = Cardinality(H) - 1
    BY <2>1, <2>2, <1>0, Counting
  <2> QED BY <2>1, <2>2, <2>3, <1>1, <1>2 DEF Accounted, H, I
<1>9. CASE UNCHANGED vars
  BY <1>9, <1>3 DEF vars, H, I, Holding, At
<1> QED BY <1>4, <1>5, <1>6, <1>7, <1>8, <1>9 DEF Next, Start, Run

\* A call that gives a connection back is counted, so the count stays at or
\* above zero; one that takes a connection found the pool below its limit.
LEMMA TypeStep == Inv /\ [Next]_vars => TypeOK'
<1> SUFFICES ASSUME Inv, [Next]_vars PROVE TypeOK'
  OBVIOUS
<1> USE LockPoolAssumption DEF TypeOK, Goto, Places, Kinds
<1>0. TypeOK
  BY DEF Inv
<1>1. ASSUME NEW c \in Call, pc[c] \in {"rows", "inner"} PROVE inUse >= 1
  <2>1. c \in Holding /\ Holding \in SUBSET Call /\ At("inner") \in SUBSET Call
    BY <1>1 DEF Holding, At
  <2>2. Cardinality(Holding \ {c}) = Cardinality(Holding) - 1
        /\ Cardinality(Holding \ {c}) \in Nat /\ Cardinality(Holding) \in Nat
        /\ Cardinality(At("inner")) \in Nat
    <3>1. Holding \ {c} \in SUBSET Call
      BY <2>1
    <3> QED BY <2>1, <3>1, Counting
  <2> QED BY <2>2 DEF Inv, Accounted
<1>2. ASSUME NEW c \in Call, RLock(c) PROVE TypeOK'
  BY <1>0, <1>2 DEF RLock
<1>3. ASSUME NEW c \in Call, Lock(c) PROVE TypeOK'
  BY <1>0, <1>3 DEF Lock
<1>4. ASSUME NEW c \in Call, Announce(c) \/ Locked(c) \/ NextRow(c) PROVE TypeOK'
  BY <1>0, <1>4 DEF Announce, Locked, NextRow
<1>5. ASSUME NEW c \in Call, Acquire(c) \/ AcquireNested(c) PROVE TypeOK'
  BY <1>0, <1>5 DEF Acquire, AcquireNested, HasFree
<1>6. ASSUME NEW c \in Call, EndNested(c) PROVE TypeOK'
  <2>1. todo[c] > 0
    BY <1>6 DEF EndNested, Inv, LockInv
  <2> QED BY <1>0, <1>1, <1>6, <2>1 DEF EndNested
<1>7. ASSUME NEW c \in Call, NextStatement(c) PROVE TypeOK'
  BY <1>0, <1>1, <1>7 DEF NextStatement
<1>8. ASSUME NEW c \in Call, RUnlock(c) PROVE TypeOK'
  BY <1>0, <1>1, <1>8 DEF RUnlock, Done
<1>9. ASSUME NEW c \in Call, Unlock(c) PROVE TypeOK'
  BY <1>0, <1>1, <1>9 DEF Unlock, Done, At
<1>10. CASE UNCHANGED vars
  BY <1>0, <1>10 DEF vars
<1> QED BY <1>2, <1>3, <1>4, <1>5, <1>6, <1>7, <1>8, <1>9, <1>10 DEF Next, Start, Run

\* The inductive invariant.
LEMMA Invariance == Spec => []Inv
<1>1. Inv /\ [Next]_vars => Inv'
  BY LockStep, AccountStep, TypeStep DEF Inv
<1> QED BY <1>1, InitInv, PTL DEF Spec

\* The pool never hands out more connections than it has, and each call is at
\* one of its places.
THEOREM TypeCorrect == Spec => []TypeOK
<1>1. Inv => TypeOK
  BY DEF Inv
<1> QED BY <1>1, Invariance, PTL

\* Two operations are never inside DB.mu at the same time if one of them
\* writes: this is what lets the other models take an operation for one step.
THEOREM MutualExclusion == Spec => []Exclusive
<1>1. Inv => Exclusive
  BY DEF Inv, LockInv, Exclusive, TypeOK
<1> QED BY <1>1, Invariance, PTL

\* The pool counts exactly the connections that are in use: none is lost, and
\* none is given back twice.
THEOREM PoolAccounting == Spec => []Accounted
<1>1. Inv => Accounted
  BY DEF Inv
<1> QED BY <1>1, Invariance, PTL

\* With fewer calls at a time than the pool has connections, the calls never
\* all wait for each other.  (With as many calls they can: five requests for
\* the due cards stop the server.)
THEOREM NoDeadlockBelowPool ==
  ASSUME Cardinality(Call) < Pool
  PROVE  Spec => []NoPoolDeadlock
<1>1. Inv => NoPoolDeadlock
  <2> SUFFICES ASSUME Inv, \A c \in Call : pc[c] \notin {"rows", "inner"}
               PROVE  HasFree
    BY DEF NoPoolDeadlock
  <2>1. At("inner") = {} /\ Holding \in SUBSET Call
    BY DEF At, Holding
  <2>2. Cardinality(At("inner")) = 0
    BY <2>1, FS_EmptySet
  <2>3. Cardinality(Holding) <= Cardinality(Call) /\ Cardinality(Holding) \in Nat
        /\ Cardinality(Call) \in Nat
    BY <2>1, LockPoolAssumption, FS_Subset, FS_CardinalityType
  <2> QED BY <2>2, <2>3, LockPoolAssumption DEF Inv, Accounted, HasFree
<1> QED BY <1>1, Invariance, PTL

----------------------------------------------------------------------------
(* The operations are atomic.                                               *)

\* An operation that is under way has seen nothing but what the file holds,
\* and with its first connection it has seen that.
FileInv ==
  /\ content \in Data
  /\ seen \in [Call -> SUBSET Data]
  /\ \A c \in Call : pc[c] \in {"rlock", "lock", "drain"} => seen[c] = {}
  /\ \A c \in Call : Inside(c) => seen[c] \subseteq {content}
  /\ \A c \in Call : pc[c] \in {"rows", "nested", "inner"} => content \in seen[c]

\* What the statements read and write leaves the locks alone.
LEMMA OpsUnderLocks == OpSpec => []Inv
<1>1. OpInit => Inv
  BY InitInv DEF OpInit
<1>2. Inv /\ [OpNext]_opVars => Inv'
  <2>1. [OpNext]_opVars => [Next]_vars
    BY DEF OpNext, opVars, Next, Run, Begin, See, Write, Advance
  <2> QED BY <2>1, LockStep, AccountStep, TypeStep DEF Inv
<1> QED BY <1>1, <1>2, PTL DEF OpSpec

\* Nobody is under way to begin with.
LEMMA InitFile == OpInit => FileInv
BY DEF OpInit, Init, FileInv, Inside

\* Only a write changes the file, and then nobody else is inside who has seen
\* the old state; those it lets in have seen nothing yet.
LEMMA FileStep == Inv /\ FileInv /\ [OpNext]_opVars => FileInv'
<1> SUFFICES ASSUME Inv, FileInv, [OpNext]_opVars PROVE FileInv'
  OBVIOUS
<1> USE DEF Inv, TypeOK, FileInv, Inside, Goto
<1>1. ASSUME NEW c \in Call, Begin(c) PROVE FileInv'
  BY <1>1 DEF Begin, Start, RLock, Lock
<1>2. ASSUME NEW c \in Call, See(c) PROVE FileInv'
  BY <1>2 DEF See, Acquire, AcquireNested
<1>3. ASSUME NEW c \in Call, Write(c) PROVE FileInv'
  <2>1. \A b \in Call : Inside(b) => b = c
    BY <1>3 DEF Write, Unlock, Done, LockInv
  <2> QED BY <1>3, <2>1 DEF Write, Unlock, Done, At
<1>4. ASSUME NEW c \in Call, Advance(c) PROVE FileInv'
  BY <1>4 DEF Advance, Announce, Locked, NextRow, EndNested, NextStatement, RUnlock, Done
<1>5. CASE UNCHANGED opVars
  BY <1>5 DEF opVars, vars
<1> QED BY <1>1, <1>2, <1>3, <1>4, <1>5 DEF OpNext

\* A call asks when it begins; it gets its answer when it returns, from the one
\* state its statements have seen; in between, the caller notices nothing.
LEMMA AtomicStep == Inv /\ FileInv /\ [OpNext]_opVars => [Atomic!Next]_(Atomic!vars)
<1> SUFFICES ASSUME Inv, FileInv, [OpNext]_opVars PROVE [Atomic!Next]_(Atomic!vars)
  OBVIOUS
<1> DEFINE Same == UNCHANGED <<askedFor, content, basis>>
<1>0. Same => UNCHANGED Atomic!vars
  BY DEF Atomic!vars
<1> USE DEF Inv, TypeOK, Goto, askedFor, basis
<1>1. ASSUME NEW c \in Call, Begin(c)
      PROVE  Atomic!Ask(c, "read") \/ Atomic!Ask(c, "write")
  <2>1. CASE RLock(c)
    <3>1. PICK k \in {"read", "cards"} : kind' = [kind EXCEPT ![c] = k]
      BY <2>1 DEF RLock
    <3>2. PICK p \in {"query", "rlock"} : pc' = [pc EXCEPT ![c] = p]
      BY <2>1 DEF RLock
    <3>3. pc[c] = "idle" /\ content' = content /\ seen' = [seen EXCEPT ![c] = {}]
      BY <1>1, <2>1 DEF Begin, RLock
    <3>4. askedFor' = [askedFor EXCEPT ![c] = "read"]
      BY <3>1, <3>2, <3>3
    <3>5. basis' = [basis EXCEPT ![c] = {}]
      BY <3>2, <3>3 DEF FileInv
    <3> QED BY <3>3, <3>4, <3>5 DEF Atomic!Ask
  <2>2. CASE Lock(c)
    BY <1>1, <2>2 DEF FileInv, Begin, Lock, Atomic!Ask
  <2> QED BY <1>1, <2>1, <2>2 DEF Begin, Start
<1>2. ASSUME NEW c \in Call, See(c) PROVE Same
  BY <1>2 DEF FileInv, See, Acquire, AcquireNested
<1>3. ASSUME NEW c \in Call, Done(c) PROVE seen[c] = {content}
  BY <1>3 DEF Done, FileInv, Inside
<1>4. ASSUME NEW c \in Call, Write(c) PROVE Atomic!Write(c)
  BY <1>3, <1>4 DEF Write, Unlock, Done, At, FileInv, Atomic!Write, Atomic!Perform
<1>5. ASSUME NEW c \in Call, Advance(c) PROVE Same \/ Atomic!Read(c)
  <2>1. CASE Announce(c) \/ Locked(c) \/ NextRow(c) \/ EndNested(c) \/ NextStatement(c)
    BY <1>5, <2>1 DEF Advance, Announce, Locked, NextRow, EndNested, NextStatement
  <2>2. CASE RUnlock(c)
    BY <1>3, <1>5, <2>2 DEF Advance, RUnlock, Done, FileInv, Atomic!Read, Atomic!Perform
  <2> QED BY <1>5, <2>1, <2>2 DEF Advance
<1>6. CASE UNCHANGED opVars
  BY <1>0, <1>6 DEF opVars, vars
<1> QED BY <1>0, <1>1, <1>2, <1>4, <1>5, <1>6 DEF OpNext, Atomic!Next

\* Every operation of internal/db happens in one step, for any number of calls,
\* statements and connections and whatever the file can hold: DB.mu implements
\* the atomic operations that the other models start from.
THEOREM OperationsAreAtomic == OpSpec => ImplementsAtomicOps
<1>1. OpInit => FileInv /\ Atomic!Init
  BY InitFile DEF OpInit, Init, askedFor, basis, Atomic!Init
<1>2. OpSpec => [](Inv /\ FileInv)
  BY <1>1, OpsUnderLocks, FileStep, PTL DEF OpSpec
<1>3. Inv /\ FileInv /\ [OpNext]_opVars => [Atomic!Next]_(Atomic!vars)
  BY AtomicStep
<1> QED BY <1>1, <1>2, <1>3, PTL DEF OpSpec, ImplementsAtomicOps, Atomic!Spec
=============================================================================
