----------------------------- MODULE AgentThread -----------------------------
(***************************************************************************)
(* What the session cache promises of one agent thread                     *)
(* (packages/analyzer/src/server/acpSessionCache.ts, its header): at most  *)
(* one process is ever on a thread, a process never comes back, at most    *)
(* one turn at a time drives it, and a turn starts only on a running       *)
(* process.  Nothing is promised once the server is shut.                  *)
(***************************************************************************)
CONSTANTS Turn, Key, Process, None

VARIABLES
  agent,  \* the process on each thread
  user,   \* the turn driving it
  spent,  \* processes that have been started
  shut    \* the server has closed

vars == <<agent, user, spent, shut>>

Init ==
  /\ agent = [k \in Key |-> None]
  /\ user = [k \in Key |-> None]
  /\ spent = {}
  /\ shut = FALSE

Start(k, p) ==
  /\ agent[k] = None /\ p \notin spent
  /\ agent' = [agent EXCEPT ![k] = p]
  /\ spent' = spent \cup {p}
  /\ UNCHANGED <<user, shut>>

Exit(k) ==
  /\ agent[k] # None
  /\ agent' = [agent EXCEPT ![k] = None]
  /\ user' = [user EXCEPT ![k] = None]
  /\ UNCHANGED <<spent, shut>>

Begin(k, t) ==
  /\ agent[k] # None /\ user[k] = None
  /\ user' = [user EXCEPT ![k] = t]
  /\ UNCHANGED <<agent, spent, shut>>

End(k) ==
  /\ user[k] # None
  /\ user' = [user EXCEPT ![k] = None]
  /\ UNCHANGED <<agent, spent, shut>>

Close ==
  /\ shut' = TRUE
  /\ agent' = [k \in Key |-> None]
  /\ user' = [k \in Key |-> None]
  /\ spent' = {}

Next ==
  \/ /\ ~shut
     /\ \E k \in Key :
          \/ \E p \in Process : Start(k, p)
          \/ \E t \in Turn : Begin(k, t)
          \/ Exit(k) \/ End(k)
  \/ ~shut /\ Close

Spec == Init /\ [][Next]_vars
=============================================================================
