--------------------------- MODULE CommandHistory ---------------------------
(***************************************************************************)
(* A history variable beside Database, and what can only be said with it:  *)
(* the locks that a suspended transaction really waits for, whatever       *)
(* required_locks says of it by now.  It constrains no step of Database.   *)
(***************************************************************************)
EXTENDS DatabaseProperties

VARIABLE awaited    \* the locks that suspended t, until t is at work again or ends

historyVars == <<vars, awaited>>

\* pc while a transaction edits or queries.
Working == {"edit", "edit_tuples", "next", "pulled", "visit"}

\* A refusal ends the work of a transaction; no command but its resumption
\* changes what it waits for.
RememberWaits ==
    awaited' = [t \in Tid |->
        CASE state'[t] \notin Executing  -> {}
          [] pc \in Working /\ cur = t   -> required'[t]
          [] OTHER                       -> awaited[t]]

HistoryInit == Init /\ awaited = [t \in Tid |-> {}]
HistoryNext == Next /\ RememberWaits
HistorySpec == HistoryInit /\ [][HistoryNext]_historyVars

-----------------------------------------------------------------------------

\* t cannot go on as long as u holds what it holds.
Awaits(t, u) == \E l \in awaited[t] : u \in holders[l] \ {t}

\* The transactions of S are suspended and all wait on one another.
Stuck(S) ==
    S # {} /\ \A t \in S : state[t] \in Executing /\ \E u \in S : Awaits(t, u)

\* Whenever the client has control, no set of suspended transactions waits on
\* itself: on_control has found every deadlock the last command created, those
\* included that it creates for a transaction that was suspended long before.
NoUndetectedDeadlock == pc = "idle" => \A S \in SUBSET Tid : ~Stuck(S)
=============================================================================
