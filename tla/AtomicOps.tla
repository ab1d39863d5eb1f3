----------------------------- MODULE AtomicOps -----------------------------
(***************************************************************************)
(* What internal/db promises to those who call it at the same time: each   *)
(* operation happens in one step, somewhere between its call and its       *)
(* return.  There are no locks here, no connections and no statements.     *)
(* Operations implements this.                                             *)
(***************************************************************************)
CONSTANTS
  Call,   \* goroutines that serve requests
  Data    \* what the data file can hold

VARIABLES
  asked,   \* the operation each call waits for
  data,    \* what the data file holds
  answer   \* what the last operation of each call was computed from

vars == <<asked, data, answer>>

Init ==
  /\ asked = [c \in Call |-> "nothing"]
  /\ data \in Data
  /\ answer = [c \in Call |-> {}]

Ask(c, op) ==
  /\ asked[c] = "nothing"
  /\ asked' = [asked EXCEPT ![c] = op]
  /\ answer' = [answer EXCEPT ![c] = {}]
  /\ UNCHANGED data

\* The whole operation sees one state.
Perform(c, op) ==
  /\ asked[c] = op
  /\ asked' = [asked EXCEPT ![c] = "nothing"]
  /\ answer' = [answer EXCEPT ![c] = {data}]

Read(c) == Perform(c, "read") /\ UNCHANGED data

\* What a write leaves follows the state it has seen: no other write came
\* between, so none is lost.
Write(c) == Perform(c, "write") /\ data' \in Data

Next == \E c \in Call : Ask(c, "read") \/ Ask(c, "write") \/ Read(c) \/ Write(c)

Spec == Init /\ [][Next]_vars
=============================================================================
