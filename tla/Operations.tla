----------------------------- MODULE Operations -----------------------------
(***************************************************************************)
(* What the statements of the operations of internal/db read and write     *)
(* under LockPool's locks and connections.  An operation that writes does  *)
(* so in its last statement or transaction, but from what it has read in   *)
(* statements of their own before (UpdateRem saves the whole row it got    *)
(* from getRemInternal, ReviewCard schedules the card it got), and one     *)
(* that reads has no transaction at all (GetTree, the six counts of        *)
(* GetCardStats).  SQLite makes each statement atomic; DB.mu alone makes   *)
(* the operation so, among the calls of one process.  An operation is what *)
(* runs under the lock once: DeletePDF is two of them (see PdfStore), and  *)
(* ImportMarkdown as many as it has lines (see Import).                    *)
(***************************************************************************)
EXTENDS LockPool

CONSTANT Data   \* what the data file can hold

VARIABLES
  content,   \* what the data file holds
  seen       \* what the statements of the operation of each call have seen

opVars == <<vars, content, seen>>

OpInit ==
  /\ Init
  /\ content \in Data
  /\ seen = [c \in Call |-> {}]

Begin(c) ==
  /\ Start(c)
  /\ seen' = [seen EXCEPT ![c] = {}]
  /\ UNCHANGED content

\* A statement sees the file as it is when the statement gets its connection.
See(c) ==
  /\ Acquire(c) \/ AcquireNested(c)
  /\ seen' = [seen EXCEPT ![c] = @ \union {content}]
  /\ UNCHANGED content

\* The last statement of an operation that writes, or the commit of its
\* transaction, and the return.  One that fails leaves the file as it was.
Write(c) ==
  /\ Unlock(c)
  /\ content' \in Data
  /\ UNCHANGED seen

\* The other steps neither read nor write.
Advance(c) ==
  /\ \/ Announce(c) \/ Locked(c) \/ NextRow(c) \/ EndNested(c)
     \/ NextStatement(c) \/ RUnlock(c)
  /\ UNCHANGED <<content, seen>>

OpNext == \E c \in Call : Begin(c) \/ See(c) \/ Write(c) \/ Advance(c)

OpSpec == OpInit /\ [][OpNext]_opVars
OpFairSpec == OpSpec /\ Fairness

----------------------------------------------------------------------------
\* What a call has asked for and not got yet.
askedFor == [c \in Call |-> IF pc[c] = "idle" THEN "nothing"
                            ELSE IF kind[c] = "write" THEN "write" ELSE "read"]

\* What the last answer of a call was computed from.
basis == [c \in Call |-> IF pc[c] = "idle" THEN seen[c] ELSE {}]

Atomic == INSTANCE AtomicOps
            WITH asked <- askedFor, data <- content, answer <- basis

\* However the requests to one process interleave, each operation answers from
\* one state of the file, the one at the step where it takes effect: no answer
\* is put together from before and after a write, and no write is computed from
\* a state that another one has replaced meanwhile.  The other models rest on
\* this when they take an operation for one step.
ImplementsAtomicOps == Atomic!Spec
=============================================================================
