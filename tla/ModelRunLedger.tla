--------------------------- MODULE ModelRunLedger ---------------------------
(***************************************************************************)
(* What one agent execution promises to whoever reads its rows (the usage  *)
(* accounting, the operator's view): its AgentRun and the ModelRuns that   *)
(* account for its calls to the provider.                                  *)
(*   - A call is accounted for before it is made, by a row that is opened  *)
(*     while the AgentRun is RUNNING and while no other call is open.      *)
(*   - The first row is the INITIAL attempt; it may be followed by one     *)
(*     extra attempt (to recover a truncated answer or to repair an        *)
(*     invalid one, never both) and by one continuation with tool evidence.*)
(*   - The AgentRun leaves RUNNING only when every row is closed, and no   *)
(*     row is opened after that.                                           *)
(* AgentExecution.tla, the handler itself, is shown to implement this.     *)
(***************************************************************************)

VARIABLES
    run,    \* AgentRun.status, "NONE" before the row exists
    open,   \* the attempts whose ModelRun is RUNNING
    spent   \* the attempts that have a ModelRun

vars == <<run, open, spent>>

Extra   == {"TRUNCATION", "CONTRACT_REPAIR"}
Attempt == {"INITIAL", "TOOL_CONTINUATION"} \union Extra
Settled == {"SUCCEEDED", "FAILED", "CANCELLED", "WAITING_FOR_APPROVAL"}

Init == run = "NONE" /\ open = {} /\ spent = {}

Create == /\ run = "NONE"
          /\ run' = "CREATED"
          /\ UNCHANGED <<open, spent>>

Start == /\ run = "CREATED"
         /\ run' = "RUNNING"
         /\ UNCHANGED <<open, spent>>

\* Which attempt may follow those already made.
MayFollow(a) ==
    CASE a = "INITIAL"           -> spent = {}
      [] a \in Extra             -> spent = {"INITIAL"}
      [] a = "TOOL_CONTINUATION" -> "INITIAL" \in spent /\ a \notin spent

Open(a) == /\ run = "RUNNING"
           /\ open = {}
           /\ MayFollow(a)
           /\ open' = {a}
           /\ spent' = spent \union {a}
           /\ UNCHANGED run

Close == /\ open # {}
         /\ open' = {}
         /\ UNCHANGED <<run, spent>>

Settle == /\ run = "RUNNING"
          /\ open = {}
          /\ run' \in Settled
          /\ UNCHANGED <<open, spent>>

Next == \/ Create
        \/ Start
        \/ \E a \in Attempt : Open(a)
        \/ Close
        \/ Settle

Spec == Init /\ [][Next]_vars
=============================================================================
