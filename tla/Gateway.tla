------------------------------- MODULE Gateway -------------------------------
(***************************************************************************)
(* The gateway in front of the funded model (packages/gateway/src/         *)
(* gateway.ts) and its count of what a month has cost (store.ts), kept in  *)
(* memory and in a file.  One call costs one; the backstop is in calls.    *)
(* The limit on requests a minute and the contents are left out; a client  *)
(* that leaves or asks again is another request and cancels none.          *)
(***************************************************************************)
EXTENDS Naturals, FiniteSets

CONSTANTS
  Request,
  Backstop,            \* what a month may cost
  MaxMonth, MaxFaults  \* bounds of the model: turns of the month, restarts and failed saves

ASSUME GatewayAssumption ==
  /\ IsFiniteSet(Request)
  /\ Backstop \in Nat \ {0} /\ MaxMonth \in Nat /\ MaxFaults \in Nat

VARIABLES
  month,    \* the UTC month
  request,  \* where each request stands, and the month it is charged to
  spend,    \* the count of each month in memory
  saved     \* and in the file

VARIABLES
  bill,       \* history: answers of the model in each month
  resets,     \* history: how often the count of each month was lost with the file
  uncounted,  \* history: those the count misses
  peak,       \* history: the most requests of a month that were at the model at once
  faults      \* crashes and failed saves so far

gatewayVars == <<month, request, spend, saved, bill, resets, uncounted, peak, faults>>

Month == 0..MaxMonth
Zero == [m \in Month |-> 0]

GatewayInit ==
  /\ month = 0
  /\ request = [r \in Request |-> [pc |-> "unsent", month |-> 0]]
  /\ spend = Zero /\ saved = Zero
  /\ bill = Zero /\ resets = Zero /\ uncounted = Zero /\ peak = Zero
  /\ faults = 0

AtModel(m) == {r \in Request : request[r].pc = "upstream" /\ request[r].month = m}

Stands(r, where) == request[r].pc = where
Becomes(r, where) == request' = [request EXCEPT ![r].pc = where]
More(f, m) == [f EXCEPT ![m] = @ + 1]

-----------------------------------------------------------------------------
(* handleChat *)

\* The body is read; anything may happen meanwhile.
Arrives(r) ==
  /\ Stands(r, "unsent") /\ Becomes(r, "reading")
  /\ UNCHANGED <<month, spend, saved, bill, resets, uncounted, peak, faults>>

\* Too large, not JSON, or without messages.
Rejects(r) ==
  /\ Stands(r, "reading") /\ Becomes(r, "refused")
  /\ UNCHANGED <<month, spend, saved, bill, resets, uncounted, peak, faults>>

Exhausted(r) ==
  /\ Stands(r, "reading") /\ spend[month] >= Backstop
  /\ Becomes(r, "refused")
  /\ UNCHANGED <<month, spend, saved, bill, resets, uncounted, peak, faults>>

\* Broken variant: a request goes through at the backstop.
ForwardsAtBackstop(r) ==
  /\ Stands(r, "reading") /\ spend[month] <= Backstop
  /\ request' = [request EXCEPT ![r] = [pc |-> "upstream", month |-> month]]
  /\ LET together == Cardinality(AtModel(month) \cup {r})
     IN peak' = [peak EXCEPT ![month] = IF @ < together THEN together ELSE @]
  /\ UNCHANGED <<month, spend, saved, bill, resets, uncounted, faults>>

Forwards(r) ==
  /\ Stands(r, "reading") /\ spend[month] < Backstop
  /\ request' = [request EXCEPT ![r] = [pc |-> "upstream", month |-> month]]
  /\ LET together == Cardinality(AtModel(month) \cup {r})
     IN peak' = [peak EXCEPT ![month] = IF @ < together THEN together ELSE @]
  /\ UNCHANGED <<month, spend, saved, bill, resets, uncounted, faults>>

\* The network or the model fails: nothing is charged.
UpstreamFails(r) ==
  /\ Stands(r, "upstream") /\ Becomes(r, "failed")
  /\ UNCHANGED <<month, spend, saved, bill, resets, uncounted, peak, faults>>

\* An answer too large to pass on, or cut off, is not counted.
AnswerLost(r) ==
  /\ Stands(r, "upstream") /\ Becomes(r, "failed")
  /\ bill' = More(bill, request[r].month)
  /\ uncounted' = More(uncounted, request[r].month)
  /\ UNCHANGED <<month, spend, saved, resets, peak, faults>>

\* The month is the one the request was admitted in.
Add(r) == spend' = More(spend, request[r].month)

Serves(r) ==
  /\ Stands(r, "upstream") /\ Becomes(r, "served")
  /\ bill' = More(bill, request[r].month)
  /\ Add(r) /\ saved' = spend'
  /\ UNCHANGED <<month, resets, uncounted, peak, faults>>

\* A save that throws leaves the count in memory ahead of the file.
AddUnsaved(r) ==
  /\ Stands(r, "upstream") /\ faults < MaxFaults /\ faults' = faults + 1
  /\ Becomes(r, "failed")
  /\ bill' = More(bill, request[r].month)
  /\ Add(r)
  /\ UNCHANGED <<month, saved, resets, uncounted, peak>>

-----------------------------------------------------------------------------
(* Time and crashes *)

MonthTurns ==
  /\ month < MaxMonth /\ month' = month + 1
  /\ UNCHANGED <<request, spend, saved, bill, resets, uncounted, peak, faults>>

(* The server dies and is started again.  What the model still answers,    *)
(* and what was not saved, is counted nowhere.  A file that is gone (a     *)
(* redeploy on an ephemeral disk) or cannot be parsed is an empty count,   *)
(* and stays one for later starts until something is added.                *)
Restarts ==
  /\ faults < MaxFaults /\ faults' = faults + 1
  /\ request' = [r \in Request |-> IF request[r].pc \in {"reading", "upstream"}
                                   THEN [request[r] EXCEPT !.pc = "failed"] ELSE request[r]]
  /\ \E read \in {saved, Zero} :
       /\ spend' = read /\ saved' = read
       /\ resets' = [m \in Month |-> IF read[m] # saved[m] THEN resets[m] + 1 ELSE resets[m]]
  /\ \E answered \in SUBSET {r \in Request : Stands(r, "upstream")} :
       LET Late(m) == Cardinality({r \in answered : request[r].month = m})
       IN /\ bill' = [m \in Month |-> bill[m] + Late(m)]
          /\ uncounted' = [m \in Month |-> uncounted[m] + Late(m) + (spend[m] - saved[m])]
  /\ UNCHANGED <<month, peak>>

GatewayNext ==
  \/ \E r \in Request :
       \/ Arrives(r) \/ Rejects(r) \/ Exhausted(r) \/ Forwards(r)
       \/ UpstreamFails(r) \/ AnswerLost(r) \/ Serves(r) \/ AddUnsaved(r)
  \/ MonthTurns \/ Restarts

GatewaySpec == GatewayInit /\ [][GatewayNext]_gatewayVars

-----------------------------------------------------------------------------
(* Correctness *)

\* The types of the variables.
GatewayTypeOK ==
  /\ month \in Month
  /\ request \in [Request -> [pc : {"unsent", "reading", "upstream", "served", "refused", "failed"},
                              month : Month]]
  /\ \A f \in {spend, saved, bill, resets, uncounted, peak} : f \in [Month -> Nat]
  /\ faults \in 0..MaxFaults

\* "Global spend backstop (authoritative)" (gateway.ts, line 187): the check comes
\* before the model is asked and the count after, so between two losses of its count
\* ("a redeploy resets the counter", store.ts, line 11) a month costs more than the
\* backstop by less than the requests that were at the model at once; what no count
\* knows of (unsaved, cut off, answered after a crash) comes on top.
SpendIsBounded ==
  \A m \in Month : bill[m] <= (resets[m] + 1) * (Backstop + peak[m] - 1) + uncounted[m]
=============================================================================
