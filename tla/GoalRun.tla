------------------------------- MODULE GoalRun -------------------------------
(***************************************************************************)
(* The goal run (packages/analyzer/src/server/goalRunner.ts): a loop that  *)
(* takes one agent turn per step of a plan on disk until the plan is       *)
(* worked down or a named thing stops it.  What the windows, the loop and  *)
(* a restarted server share is two things on disk, the run row and the     *)
(* plan.  A loop whose run was stopped still waits for its turn, and a new *)
(* run may start meanwhile: each loop is known by the start stamp of its   *)
(* run.                                                                    *)
(*                                                                         *)
(* Between two awaits the loop runs without interruption: while it is at   *)
(* its top nothing else moves (see Settled).                               *)
(***************************************************************************)
EXTENDS Naturals, FiniteSets

CONSTANTS
  MaxRuns,            \* runs ever started; bounds the model
  MaxStep,            \* step ids ever used; bounds the model
  Caps,               \* turn caps a run can be started with; GOAL_RUN_TURN_CAP unless one is given
  Strikes,            \* GOAL_RUN_STRIKES
  ParksInARow,        \* GOAL_RUN_PARKS_IN_A_ROW
  HollowTurns,        \* GOAL_RUN_HOLLOW_TURNS
  NarrationTurns,     \* GOAL_RUN_NARRATION_TURNS
  ProviderFailures,   \* GOAL_RUN_PROVIDER_FAILURES
  PlanTurns,          \* GOAL_RUN_PLAN_TURNS
  NoProgressTurns     \* GOAL_RUN_NO_PROGRESS_TURNS

ASSUME LimitsAssumption ==
  /\ \A n \in {MaxRuns, MaxStep, Strikes, ParksInARow, HollowTurns, NarrationTurns,
               ProviderFailures, PlanTurns, NoProgressTurns} : n \in Nat \ {0}
  /\ Caps \subseteq Nat \ {0}

Run == 1..MaxRuns    \* a run, its start stamp and its loop
Step == 1..MaxStep   \* plan steps, in plan order
NoRun == 0
NoStep == 0

VARIABLES
  row,       \* goal-run.json
  plan,      \* the session's plan on disk
  pc,        \* where the loop of each run stands
  engine,    \* who takes a run's turns: the built-in model or a coding agent
  turn,      \* the turn in flight of each loop
  count,     \* the counters of each loop
  strikes,   \* its strikes per step
  lease,     \* the agent run whose tick key the goal tool accepts (goalLeases)
  aborted,   \* leases whose abort signal has fired
  attempts   \* history: real attempts a loop made on a step since it last parked it

vars == <<row, plan, pc, engine, turn, count, strikes, lease, aborted, attempts>>
loopVars == <<turn, count, strikes, attempts>>
leaseVars == <<lease, aborted>>

Status == {"absent", "open", "done", "parked"}
Plan == [Step -> Status]
NoPlan == [s \in Step |-> "absent"]
InFlight == {"planning", "working", "auditing"}
Reason == {"none", "stopped_by_hand", "engine_restarted", "turn_cap", "turn_failed",
           "provider_failed", "no_plan_written", "no_progress", "plan_worked_down",
           "the_model_stopped_answering", "the_model_only_narrated",
           "the_plan_could_not_be_worked", "nothing_could_be_worked",
           "parked_more_than_it_did", "audited"}

(* A turn: the step aimed at; the plan as it was when the turn began, which *)
(* the built-in model goes on to edit; whether the model called a plan     *)
(* tool; and, for an audit, the reason earned before it.                   *)
IdleTurn == [aim |-> NoStep, plan |-> NoPlan, acted |-> FALSE, before |-> "none"]
NoCount == [hollow |-> 0, stalled |-> 0, narrated |-> 0, failures |-> 0,
            parkedInARow |-> 0, planTurns |-> 0]
NoStrikes == [s \in Step |-> 0]

Row == [running : BOOLEAN, turns : Nat, cap : Caps \cup {0}, owner : Run \cup {NoRun}, reason : Reason]
Turn == [aim : Step \cup {NoStep}, plan : Plan, acted : BOOLEAN, before : Reason]

\* A loop that goes on has every counter below its ceiling.
Count == [hollow : 0..(HollowTurns - 1), stalled : 0..(NoProgressTurns - 1),
          narrated : 0..(NarrationTurns - 1), failures : 0..(ProviderFailures - 1),
          parkedInARow : 0..(ParksInARow - 1), planTurns : 0..PlanTurns]

TypeOK ==
  /\ row \in Row
  /\ plan \in Plan
  /\ pc \in [Run -> {"unused", "top", "ended"} \cup InFlight]
  /\ engine \in [Run -> {"model", "agent"}]
  /\ turn \in [Run -> Turn]
  /\ count \in [Run -> Count]
  /\ strikes \in [Run -> [Step -> 0..(Strikes - 1)]]
  /\ lease \in Run \cup {NoRun}
  /\ aborted \subseteq Run
  /\ attempts \in [Run -> [Step -> Nat]]
  /\ \A r \in Run : pc[r] = "working" => turn[r].aim \in Step

Init ==
  /\ row = [running |-> FALSE, turns |-> 0, cap |-> 0, owner |-> NoRun, reason |-> "none"]
  /\ plan \in {NoPlan} \cup {[s \in Step |-> IF s <= n THEN "open" ELSE "absent"] : n \in Step}
  /\ pc = [r \in Run |-> "unused"]
  /\ engine = [r \in Run |-> "model"]
  /\ turn = [r \in Run |-> IdleTurn]
  /\ count = [r \in Run |-> NoCount]
  /\ strikes = [r \in Run |-> NoStrikes]
  /\ lease = NoRun
  /\ aborted = {}
  /\ attempts = [r \in Run |-> NoStrikes]

-----------------------------------------------------------------------------
(* The plan (goalPlan.ts) *)

With(p, st) == {s \in Step : p[s] = st}
Open(p) == With(p, "open")
FirstOpen(p) == CHOOSE s \in Open(p) : \A u \in Open(p) : s <= u

\* markStepDone: any open step can be named, not only the one aimed at.
Ticked(p) == {[p EXCEPT ![s] = "done"] : s \in Open(p)}

(* writePlan: the open steps are replaced by new ones with higher ids; the *)
(* ticked and the parked ones stay.                                        *)
Rewritten(p) ==
  {[s \in Step |-> IF s \in fresh THEN "open" ELSE IF p[s] = "open" THEN "absent" ELSE p[s]] :
     fresh \in {(n + 1)..m : n \in {CHOOSE k \in 0..MaxStep :
                                      /\ \A s \in Step : s > k => p[s] = "absent"
                                      /\ k = 0 \/ p[k] # "absent"},
                             m \in Step} \ {{}}}

-----------------------------------------------------------------------------
(* Shared pieces of the loop *)

\* Broken variant: any running row is this loop's.
AnyRow(r) == row.running \/ row.owner = r

\* `mine`: the row still carries the stamp this loop started with.
Mine(r) == row.owner = r

(* No loop is between two awaits.  The abort of an agent's turn comes back *)
(* to its loop before the next request is handled.                         *)
Settled == \A r \in Run : pc[r] # "top" /\ (pc[r] \in InFlight => r \notin aborted)

\* Broken variant: a turn counts on whatever row is there.
CountedAnyway(r) == [row EXCEPT !.turns = @ + 1]

\* The row after a turn: one more, while it is this run's.
Counted(r) == IF Mine(r) THEN [row EXCEPT !.turns = @ + 1] ELSE row

\* Broken variant: the end of any run takes the lease with it.
ExitDropsLease(r) ==
  /\ pc' = [pc EXCEPT ![r] = "ended"]
  /\ turn' = [turn EXCEPT ![r] = IdleTurn]
  /\ count' = [count EXCEPT ![r] = NoCount]
  /\ strikes' = [strikes EXCEPT ![r] = NoStrikes]
  /\ attempts' = [attempts EXCEPT ![r] = NoStrikes]
  /\ lease' = NoRun
  /\ aborted' = aborted \ {r}
  /\ engine' = [engine EXCEPT ![r] = "model"]

(* The loop returns; its closure is gone and `done.finally` drops the      *)
(* lease, unless a later run has taken it over.                            *)
Exit(r) ==
  /\ pc' = [pc EXCEPT ![r] = "ended"]
  /\ turn' = [turn EXCEPT ![r] = IdleTurn]
  /\ count' = [count EXCEPT ![r] = NoCount]
  /\ strikes' = [strikes EXCEPT ![r] = NoStrikes]
  /\ attempts' = [attempts EXCEPT ![r] = NoStrikes]
  /\ lease' = IF lease = r THEN NoRun ELSE lease
  /\ aborted' = aborted \ {r}
  /\ engine' = [engine EXCEPT ![r] = "model"]

\* finish(): write the ending on the given row if it is this run's.
Finish(r, w, reason) ==
  /\ row' = IF Mine(r) THEN [w EXCEPT !.running = FALSE, !.reason = reason] ELSE w
  /\ Exit(r)

\* `continue`: count the turn, keep the counters in c, go to the top.
Continue(r, c) ==
  /\ row' = Counted(r)
  /\ pc' = [pc EXCEPT ![r] = "top"]
  /\ turn' = [turn EXCEPT ![r] = IdleTurn]
  /\ count' = [count EXCEPT ![r] = c]
  /\ UNCHANGED <<engine, leaseVars>>

\* A turn begins, with the plan as it is on disk.
Take(r, kind, aim, before) ==
  /\ pc' = [pc EXCEPT ![r] = kind]
  /\ turn' = [turn EXCEPT ![r] = [aim |-> aim, plan |-> plan, acted |-> FALSE, before |-> before]]
  /\ UNCHANGED <<row, plan, engine, strikes, attempts, leaseVars>>

Audit(r, before) == Take(r, "auditing", NoStep, before) /\ UNCHANGED count

-----------------------------------------------------------------------------
(* The top of the loop: what the next turn is, or how the run ends *)

AtTop(r) == pc[r] = "top" /\ Mine(r) /\ row.running

\* 1. Somebody else's Stop, or another run's row.
SeeStop(r) ==
  /\ pc[r] = "top" /\ ~(Mine(r) /\ row.running)
  /\ Exit(r)
  /\ UNCHANGED <<row, plan>>

\* 2. The cap, checked before the turn.
HitCap(r) ==
  /\ AtTop(r) /\ row.turns >= row.cap
  /\ Finish(r, row, "turn_cap")
  /\ UNCHANGED plan

LastTurnIsAudit == row.turns = row.cap - 1 /\ row.turns > 0 /\ Open(plan) # {}

\* 2a. The last allowed turn is the audit when a step is still open.
AuditAtCap(r) ==
  /\ AtTop(r) /\ LastTurnIsAudit
  /\ Audit(r, "turn_cap")

GoesOn(r) == AtTop(r) /\ row.turns < row.cap /\ ~LastTurnIsAudit

\* 3a. No plan yet: a plan turn, at most PlanTurns of them.
AskForPlan(r) ==
  /\ GoesOn(r) /\ plan = NoPlan
  /\ count[r].planTurns < PlanTurns
  /\ count' = [count EXCEPT ![r].planTurns = @ + 1]
  /\ Take(r, "planning", NoStep, "none")

\* 3b. The harness writes the last plan itself, when the goal names files.
WriteSkeleton(r) ==
  /\ GoesOn(r) /\ plan = NoPlan
  /\ count[r].planTurns = PlanTurns - 1
  /\ count' = [count EXCEPT ![r].planTurns = @ + 1]
  /\ plan' \in Rewritten(NoPlan)
  /\ UNCHANGED <<row, pc, engine, turn, strikes, attempts, leaseVars>>

GiveUpPlanning(r) ==
  /\ GoesOn(r) /\ plan = NoPlan
  /\ count[r].planTurns = PlanTurns
  /\ Finish(r, row, "no_plan_written")
  /\ UNCHANGED plan

\* 3. Nothing left to do: four endings, two of them audited.
WorkedDown(r) ==
  LET done == Cardinality(With(plan, "done"))
      parked == Cardinality(With(plan, "parked")) IN
  /\ GoesOn(r) /\ plan # NoPlan /\ Open(plan) = {}
  /\ \/ parked <= done /\ Audit(r, "plan_worked_down")
     \/ /\ parked > done
        /\ Finish(r, row, IF done = 0 THEN "nothing_could_be_worked" ELSE "parked_more_than_it_did")
        /\ UNCHANGED plan

\* 4. One turn, aimed at the first open step.
AimAtStep(r) ==
  /\ GoesOn(r) /\ Open(plan) # {}
  /\ Take(r, "working", FirstOpen(plan), "none")
  /\ UNCHANGED count

Top(r) ==
  \/ SeeStop(r) \/ HitCap(r) \/ AuditAtCap(r) \/ AskForPlan(r) \/ WriteSkeleton(r)
  \/ GiveUpPlanning(r) \/ WorkedDown(r) \/ AimAtStep(r)

-----------------------------------------------------------------------------
(* While a turn is in flight *)

(* The built-in model ticks and rewrites the plan it was given, and each   *)
(* call replaces the plan on disk with it.                                 *)
ModelTool(r) ==
  /\ Settled
  /\ pc[r] \in InFlight /\ engine[r] = "model"
  /\ plan' \in Ticked(turn[r].plan) \cup Rewritten(turn[r].plan)
  /\ turn' = [turn EXCEPT ![r].plan = plan', ![r].acted = TRUE]
  /\ UNCHANGED <<row, pc, engine, count, strikes, attempts, leaseVars>>

(* The agent's `goal` tool changes the plan on disk, with the key of the   *)
(* lease and only while a run is live.                                     *)
AgentTool(r) ==
  /\ Settled
  /\ pc[r] \in InFlight /\ engine[r] = "agent"
  /\ lease = r /\ row.running
  /\ plan' \in Ticked(plan) \cup Rewritten(plan)
  /\ UNCHANGED <<row, pc, engine, loopVars, leaseVars>>

-----------------------------------------------------------------------------
(* A turn returns *)

Returns(r, kinds) == pc[r] \in kinds /\ (Settled \/ r \in aborted)

\* 5. The pipeline threw (an agent's failure is never a throw).
TurnThrows(r) ==
  /\ Returns(r, {"planning", "working"}) /\ engine[r] = "model"
  /\ Finish(r, Counted(r), "turn_failed")
  /\ UNCHANGED plan

(* 6. The connection failed, or the agent's turn was cancelled by Stop: no *)
(* strike.                                                                 *)
ConnectionFails(r) ==
  LET n == count[r].failures + 1 IN
  /\ Returns(r, {"planning", "working"})
  /\ IF n >= ProviderFailures
     THEN Finish(r, Counted(r), "provider_failed")
     ELSE Continue(r, [count[r] EXCEPT !.failures = n]) /\ UNCHANGED <<strikes, attempts>>
  /\ UNCHANGED plan

(* What an agent's turn leaves on disk: the plan, or, when nothing on it   *)
(* moved, what a checklist in the closing text says of the step aimed at   *)
(* (planFromText).                                                         *)
FromText(r) ==
  IF plan # turn[r].plan THEN {}
  ELSE IF plan = NoPlan THEN Rewritten(NoPlan)
  ELSE {[plan EXCEPT ![s] = "done"] : s \in {turn[r].aim} \cap Open(plan)}

\* A plan turn that ran.
PlanTurnReturns(r) ==
  /\ Returns(r, {"planning"}) /\ r \notin aborted
  /\ Continue(r, [count[r] EXCEPT !.failures = 0])
  /\ plan' \in {plan} \cup (IF engine[r] = "agent" THEN FromText(r) ELSE {})
  /\ UNCHANGED <<strikes, attempts>>

(* What a work turn that ran reports: the plan as it left it, whether it   *)
(* said anything, whether it called a tool, and, for an agent, that it     *)
(* moved nothing on the plan.                                              *)
Outcomes(r) ==
  IF engine[r] = "model"
  THEN {o \in [plan : {turn[r].plan}, text : BOOLEAN, calls : BOOLEAN, stuck : {FALSE}] :
          turn[r].acted => o.calls}
  ELSE IF plan # turn[r].plan
  THEN [plan : {plan}, text : BOOLEAN, calls : {TRUE}, stuck : {FALSE}]
  ELSE [plan : FromText(r), text : {TRUE}, calls : {TRUE}, stuck : {FALSE}]
       \cup {o \in [plan : {plan}, text : BOOLEAN, calls : BOOLEAN, stuck : {TRUE}] : o.calls = o.text}

StillOpen(r, o) == o.plan[turn[r].aim] = "open"
Kept(r, o) == plan' = IF engine[r] = "agent" THEN o.plan ELSE plan

\* 6b. An agent turn that moved nothing on the plan: no strike.
Stuck(r, o) ==
  LET n == count[r].stalled + 1 IN
  /\ o.stuck /\ o.text
  /\ IF n >= NoProgressTurns
     THEN Finish(r, Counted(r), "no_progress")
     ELSE Continue(r, [count[r] EXCEPT !.failures = 0, !.stalled = n]) /\ UNCHANGED <<strikes, attempts>>
  /\ Kept(r, o)

\* 7. Nothing came back at all: no strike.
Hollow(r, o) ==
  LET n == count[r].hollow + 1 IN
  /\ ~o.text /\ ~o.calls
  /\ IF n >= HollowTurns
     THEN Finish(r, Counted(r), "the_model_stopped_answering")
     ELSE /\ Continue(r, [count[r] EXCEPT !.failures = 0, !.stalled = 0, !.hollow = n])
          /\ UNCHANGED <<strikes, attempts>>
  /\ Kept(r, o)

Moved(r) == [count[r] EXCEPT !.failures = 0, !.stalled = 0, !.hollow = 0]

\* Broken variant: a turn that only talked costs the step a strike.
NarratedStrikes(r, o) ==
  LET n == strikes[r][turn[r].aim] + 1 IN
  /\ o.text /\ ~o.calls /\ ~o.stuck /\ StillOpen(r, o)
  /\ Continue(r, Moved(r))
  /\ strikes' = [strikes EXCEPT ![r][turn[r].aim] = IF n >= Strikes THEN 0 ELSE n]
  /\ plan' = IF n >= Strikes THEN [o.plan EXCEPT ![turn[r].aim] = "parked"] ELSE plan
  /\ UNCHANGED attempts

\* 8. It talked and called nothing: no strike.
Narrated(r, o) ==
  LET n == count[r].narrated + 1 IN
  /\ o.text /\ ~o.calls /\ ~o.stuck /\ StillOpen(r, o)
  /\ IF n >= NarrationTurns
     THEN Finish(r, Counted(r), "the_model_only_narrated")
     ELSE Continue(r, [Moved(r) EXCEPT !.narrated = n]) /\ UNCHANGED <<strikes, attempts>>
  /\ Kept(r, o)

\* Broken variant: the strikes of a parked step are kept.
StruckKeepsStrikes(r, o) ==
  LET s == turn[r].aim
      n == strikes[r][s] + 1
      tried == [Moved(r) EXCEPT !.narrated = 0]
      parks == count[r].parkedInARow + 1
  IN
  /\ o.calls /\ StillOpen(r, o)
  /\ \/ /\ n < Strikes
        /\ Continue(r, tried)
        /\ attempts' = [attempts EXCEPT ![r][s] = @ + 1]
        /\ Kept(r, o)
     \/ /\ n >= Strikes
        /\ plan' = [o.plan EXCEPT ![s] = "parked"]
        /\ Continue(r, [tried EXCEPT !.parkedInARow = IF parks >= ParksInARow THEN 0 ELSE parks])
        /\ attempts' = [attempts EXCEPT ![r][s] = 0]
  /\ strikes' = [strikes EXCEPT ![r][s] = n]

(* 9. A real attempt that did not close the step: a strike, and the step   *)
(* is parked at the last one, over the plan as the turn left it.           *)
Struck(r, o) ==
  LET s == turn[r].aim
      n == strikes[r][s] + 1
      tried == [Moved(r) EXCEPT !.narrated = 0]
      parks == count[r].parkedInARow + 1
  IN
  /\ o.calls /\ StillOpen(r, o)
  /\ \/ /\ n < Strikes
        /\ Continue(r, tried)
        /\ strikes' = [strikes EXCEPT ![r][s] = n]
        /\ attempts' = [attempts EXCEPT ![r][s] = @ + 1]
        /\ Kept(r, o)
     \/ /\ n >= Strikes
        /\ plan' = [o.plan EXCEPT ![s] = "parked"]
        /\ IF parks >= ParksInARow
           THEN Finish(r, Counted(r), "the_plan_could_not_be_worked")
           ELSE /\ Continue(r, [tried EXCEPT !.parkedInARow = parks])
                /\ strikes' = [strikes EXCEPT ![r][s] = 0]
                /\ attempts' = [attempts EXCEPT ![r][s] = 0]

\* 10. The step closed: what counted against it resets.
Closed(r, o) ==
  /\ o.calls /\ ~StillOpen(r, o)
  /\ Continue(r, [Moved(r) EXCEPT !.narrated = 0, !.parkedInARow = 0])
  /\ strikes' = [strikes EXCEPT ![r][turn[r].aim] = 0]
  /\ Kept(r, o)
  /\ UNCHANGED attempts

WorkTurnReturns(r) ==
  /\ Returns(r, {"working"}) /\ r \notin aborted
  /\ \E o \in Outcomes(r) :
       Stuck(r, o) \/ Hollow(r, o) \/ Narrated(r, o) \/ Struck(r, o) \/ Closed(r, o)

\* Broken variant: the audit's ending is written whatever happened meanwhile.
AuditReturnsAnyway(r) ==
  /\ Returns(r, {"auditing"})
  /\ \E reason \in {"audited", turn[r].before} : Finish(r, Counted(r), reason)
  /\ UNCHANGED plan

\* Broken variant: an audit without a verdict ends the loop, not the run.
AuditReturnsUnread(r) ==
  /\ Returns(r, {"auditing"})
  /\ \/ Exit(r) /\ row' = Counted(r)
     \/ Mine(r) /\ row.running /\ Finish(r, Counted(r), "audited")
  /\ UNCHANGED plan

(* The audit ends the run on its verdict, or, when it did not run or gave  *)
(* none, on the reason the run had earned before it; a run stopped         *)
(* meanwhile stays stopped.                                                *)
AuditReturns(r) ==
  /\ Returns(r, {"auditing"})
  /\ \/ /\ ~(Mine(r) /\ row.running)
        /\ row' = Counted(r)
        /\ Exit(r)
     \/ /\ Mine(r) /\ row.running
        /\ \E reason \in {"audited", turn[r].before} : Finish(r, Counted(r), reason)
  /\ UNCHANGED plan

TurnReturns(r) ==
  \/ TurnThrows(r) \/ ConnectionFails(r) \/ PlanTurnReturns(r)
  \/ WorkTurnReturns(r) \/ AuditReturns(r)

-----------------------------------------------------------------------------
(* The windows and the server *)

(* startGoalRun in Build mode: refused while a run is on, or when every    *)
(* step is ticked or parked.                                               *)
Start(r) ==
  /\ Settled
  /\ pc[r] = "unused" /\ \A q \in Run : q < r => pc[q] # "unused"
  /\ ~row.running
  /\ plan = NoPlan \/ Open(plan) # {}
  /\ \E c \in Caps : row' = [running |-> TRUE, turns |-> 0, cap |-> c, owner |-> r, reason |-> "none"]
  /\ pc' = [pc EXCEPT ![r] = "top"]
  /\ \E e \in {"model", "agent"} :
       /\ engine' = [engine EXCEPT ![r] = e]
       /\ lease' = IF e = "agent" THEN r ELSE lease
  /\ UNCHANGED <<plan, loopVars, aborted>>

(* Stop, from any window: the row is written at once; an agent's turn is   *)
(* cancelled, a model's is left to finish.                                 *)
Stop ==
  /\ Settled
  /\ row.running
  /\ row' = [row EXCEPT !.running = FALSE, !.reason = "stopped_by_hand"]
  /\ aborted' = aborted \cup ({lease} \ {NoRun})
  /\ UNCHANGED <<plan, pc, engine, loopVars, lease>>

\* The person puts a parked step back on the list.
Unpark(s) ==
  /\ Settled
  /\ plan[s] = "parked"
  /\ plan' = [plan EXCEPT ![s] = "open"]
  /\ UNCHANGED <<row, pc, engine, loopVars, leaseVars>>

\* Broken variant: a restart leaves the row as it found it.
KeepPhantom == row

\* reapGoalRuns: a row still running when the process starts is orphaned.
Reaped == IF row.running THEN [row EXCEPT !.running = FALSE, !.reason = "engine_restarted"] ELSE row

(* The server dies with its loops and turns and is started again; it reaps *)
(* before it answers anything about a run.                                 *)
Restart ==
  /\ Settled
  /\ \E r \in Run : pc[r] \in InFlight
  /\ row' = Reaped
  /\ pc' = [r \in Run |-> IF pc[r] = "unused" THEN "unused" ELSE "ended"]
  /\ turn' = [r \in Run |-> IdleTurn]
  /\ count' = [r \in Run |-> NoCount]
  /\ strikes' = [r \in Run |-> NoStrikes]
  /\ attempts' = [r \in Run |-> NoStrikes]
  /\ lease' = NoRun
  /\ aborted' = {}
  /\ engine' = [r \in Run |-> "model"]
  /\ UNCHANGED plan

Next ==
  \/ \E r \in Run : Start(r) \/ Top(r) \/ ModelTool(r) \/ AgentTool(r) \/ TurnReturns(r)
  \/ \E s \in Step : Unpark(s)
  \/ Stop
  \/ Restart

(* The loop's own code runs.  A turn need not return: a call of a provider *)
(* has a deadline only if one is configured (provider.ts, line 221), and   *)
(* the watchdog watches an agent's turn only once the agent's session is   *)
(* open (runNodeRoutes.ts, lines 1027-1043).                               *)
Fairness == \A r \in Run : WF_vars(Top(r))

Spec == Init /\ [][Next]_vars
FairSpec == Spec /\ Fairness

-----------------------------------------------------------------------------
(* Safety *)

(* A cap of N is N turns (lines 772-784), audit included, whatever a       *)
(* stopped loop's last turn does to the row of a later run.                *)
CapHolds == row.turns <= row.cap

(* No phantom run (header, lines 50-52): a row that says running has a     *)
(* live loop with its stamp; Stop and the 409 on start mean something.     *)
NoPhantomRun == row.running => pc[row.owner] \in InFlight \cup {"top"}

(* One worker (lines 702-706): a loop takes a turn only for the run whose  *)
(* row it reads, while that run is on: never a second worker on a later    *)
(* run, never after a Stop.                                                *)
TurnsOnlyForItsRun ==
  [][\A r \in Run : (pc[r] \notin InFlight /\ pc'[r] \in InFlight)
                      => row.running /\ row.owner = r]_vars

(* Rule two (lines 33-38): a loop parks a step only after Strikes real     *)
(* attempts on it; dead connections, empty replies and turns that called   *)
(* no tool in between do not count.                                        *)
ParkedOnlyAfterAttempts ==
  [][\A r \in Run, s \in Step :
       (pc[r] = "working" /\ pc'[r] # "working" /\ turn[r].aim = s
         /\ plan[s] # "parked" /\ plan'[s] = "parked")
       => attempts[r][s] + 1 >= Strikes]_vars

(* A Stop pressed while the audit runs stays a Stop (line 747).            *)
StopSurvivesAudit ==
  [][\A r \in Run : (pc[r] = "auditing" /\ row.reason = "stopped_by_hand" /\ pc'[r] = "ended")
       => row'.reason = "stopped_by_hand"]_vars

(* The goal tool of a live agent run answers to that run's key, whichever  *)
(* earlier run ends meanwhile.                                             *)
LiveAgentHasLease ==
  (row.running /\ engine[row.owner] = "agent") => (lease = row.owner /\ row.owner \notin aborted)

(* "every read and write below belongs to this loop only while the row     *)
(* still carries the stamp this loop started with" (lines 705-706), and    *)
(* "the done and parked rows are history; history is append-only here"     *)
(* (goalPlan.ts:303): a ticked step stays ticked.                          *)
TickedStaysTicked == [][\A s \in Step : plan[s] = "done" => plan'[s] = "done"]_vars

-----------------------------------------------------------------------------
(* Liveness *)

\* The run whose row it is waits for a turn; between two turns it passes its top.
AwaitsTurn(r) == row.owner = r /\ pc[r] \in InFlight

(* A run ends by itself, unless one of its turns never returns: every way  *)
(* of not moving has a ceiling.  (A later run starts only from a row that  *)
(* is not running.)                                                        *)
EveryRunEnds == row.running ~> (~row.running \/ \E r \in Run : []AwaitsTurn(r))
=============================================================================
