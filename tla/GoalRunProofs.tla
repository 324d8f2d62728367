---------------------------- MODULE GoalRunProofs ----------------------------
(***************************************************************************)
(* Proofs about the goal run, for every number of runs and steps and every *)
(* value of its limits.                                                    *)
(***************************************************************************)
EXTENDS GoalRun, WellFoundedInduction, TLAPS

LEMMA Limits ==
  /\ MaxRuns \in Nat \ {0} /\ MaxStep \in Nat \ {0} /\ Caps \subseteq Nat \ {0}
  /\ Strikes \in Nat \ {0} /\ ParksInARow \in Nat \ {0} /\ HollowTurns \in Nat \ {0}
  /\ NarrationTurns \in Nat \ {0} /\ ProviderFailures \in Nat \ {0}
  /\ PlanTurns \in Nat \ {0} /\ NoProgressTurns \in Nat \ {0}
BY LimitsAssumption

-----------------------------------------------------------------------------
(* Types *)

\* The types of what belongs to the loops.
LoopsOK ==
  /\ pc \in [Run -> {"unused", "top", "ended"} \cup InFlight]
  /\ engine \in [Run -> {"model", "agent"}]
  /\ turn \in [Run -> Turn]
  /\ count \in [Run -> Count]
  /\ strikes \in [Run -> [Step -> 0..(Strikes - 1)]]
  /\ lease \in Run \cup {NoRun}
  /\ aborted \subseteq Run
  /\ attempts \in [Run -> [Step -> Nat]]
  /\ \A r \in Run : pc[r] = "working" => turn[r].aim \in Step

LEMMA TypeParts == TypeOK <=> (row \in Row /\ plan \in Plan /\ LoopsOK)
BY DEF TypeOK, LoopsOK

LEMMA TypePartsNext ==
  ASSUME row' \in Row, plan' \in Plan, LoopsOK'
  PROVE  TypeOK'
BY DEF TypeOK, LoopsOK

\* What a fresh loop starts from is well typed.
LEMMA FreshTypes ==
  /\ NoPlan \in Plan
  /\ IdleTurn \in Turn
  /\ NoCount \in Count
  /\ NoStrikes \in [Step -> 0..(Strikes - 1)]
  /\ NoStrikes \in [Step -> Nat]
<1>1. NoPlan \in Plan
  BY DEF NoPlan, Plan, Status
<1>2. IdleTurn \in Turn
  BY <1>1 DEF IdleTurn, Turn, Reason
<1>3. NoCount \in Count
  BY Limits DEF NoCount, Count
<1>4. NoStrikes \in [Step -> 0..(Strikes - 1)] /\ NoStrikes \in [Step -> Nat]
  BY Limits DEF NoStrikes
<1> QED BY <1>1, <1>2, <1>3, <1>4

\* Ticking and rewriting a plan give plans.
LEMMA PlanTypes ==
  ASSUME NEW p \in Plan
  PROVE  Ticked(p) \subseteq Plan /\ Rewritten(p) \subseteq Plan
<1>1. Ticked(p) \subseteq Plan
  BY DEF Ticked, Plan, Status, Open, With
<1>2. Rewritten(p) \subseteq Plan
  BY DEF Rewritten, Plan, Status
<1> QED BY <1>1, <1>2

LEMMA CountedType == ASSUME row \in Row, NEW r \in Run PROVE Counted(r) \in Row
BY DEF Counted, Row, Mine

LEMMA ExitType ==
  ASSUME LoopsOK, NEW r \in Run, Exit(r)
  PROVE  LoopsOK'
BY FreshTypes DEF LoopsOK, Exit, InFlight

LEMMA FinishType ==
  ASSUME LoopsOK, NEW r \in Run, NEW w \in Row, NEW reason \in Reason, Finish(r, w, reason)
  PROVE  row' \in Row /\ LoopsOK'
<1>1. row' \in Row
  BY DEF Finish, Row
<1> QED BY <1>1, ExitType DEF Finish

LEMMA ContinueType ==
  ASSUME row \in Row, LoopsOK, NEW r \in Run, NEW c \in Count, Continue(r, c),
         strikes' \in [Run -> [Step -> 0..(Strikes - 1)]],
         attempts' \in [Run -> [Step -> Nat]]
  PROVE  row' \in Row /\ LoopsOK'
BY CountedType, FreshTypes DEF Continue, LoopsOK, leaseVars, InFlight

(* The ways a turn ends, with what is on disk. *)
LEMMA FinishStep ==
  ASSUME TypeOK, NEW r \in Run, NEW w \in Row, NEW reason \in Reason, Finish(r, w, reason),
         plan' \in Plan
  PROVE  TypeOK'
<1>1. row' \in Row /\ LoopsOK'
  BY TypeParts, FinishType
<1> QED BY <1>1, TypePartsNext

LEMMA ContinueStep ==
  ASSUME TypeOK, NEW r \in Run, NEW c \in Count, Continue(r, c), plan' \in Plan,
         strikes' \in [Run -> [Step -> 0..(Strikes - 1)]],
         attempts' \in [Run -> [Step -> Nat]]
  PROVE  TypeOK'
<1>1. row' \in Row /\ LoopsOK'
  BY TypeParts, ContinueType
<1> QED BY <1>1, TypePartsNext

LEMMA TakeType ==
  ASSUME LoopsOK, plan \in Plan, NEW r \in Run, NEW kind \in InFlight, NEW aim \in Step \cup {NoStep},
         NEW before \in Reason, Take(r, kind, aim, before), count' \in [Run -> Count],
         kind = "working" => aim \in Step
  PROVE  LoopsOK'
<1>1. [aim |-> aim, plan |-> plan, acted |-> FALSE, before |-> before] \in Turn
  BY DEF Turn
<1>2. turn' \in [Run -> Turn] /\ pc' \in [Run -> {"unused", "top", "ended"} \cup InFlight]
  BY <1>1 DEF Take, LoopsOK
<1>3. \A q \in Run : pc'[q] = "working" => turn'[q].aim \in Step
  BY <1>1 DEF Take, LoopsOK
<1> QED BY <1>2, <1>3 DEF Take, LoopsOK, leaseVars

LEMMA FirstOpenType ==
  ASSUME NEW p \in Plan, Open(p) # {}
  PROVE  FirstOpen(p) \in Open(p)
<1>1. Open(p) \subseteq Nat /\ \E s \in Open(p) : TRUE
  BY Limits DEF Open, With, Step
<1>2. PICK s \in Open(p) : \A u \in Open(p) : <<u, s>> \notin OpToRel(<, Nat)
  BY <1>1, NatLessThanWellFounded, WFMin
<1>3. ASSUME NEW u \in Open(p) PROVE s <= u
  <2>1. u \in Nat /\ s \in Nat
    BY <1>1
  <2>2. CASE u < s
    <3>1. <<u, s>> \in Nat \X Nat /\ <<u, s>>[1] < <<u, s>>[2]
      BY <2>1, <2>2
    <3>2. <<u, s>> \in OpToRel(<, Nat)
      BY <3>1, Zenon DEF OpToRel
    <3> QED BY <1>2, <3>2
  <2>3. CASE ~(u < s)
    BY <2>1, <2>3
  <2> QED BY <2>2, <2>3
<1> QED BY <1>3 DEF FirstOpen

LEMMA FromTextType ==
  ASSUME TypeOK, NEW r \in Run
  PROVE  FromText(r) \subseteq Plan
<1>1. Rewritten(NoPlan) \subseteq Plan
  BY FreshTypes, PlanTypes
<1>2. {[plan EXCEPT ![s] = "done"] : s \in {turn[r].aim} \cap Open(plan)} \subseteq Plan
  BY DEF TypeOK, Plan, Status
<1> QED BY <1>1, <1>2 DEF FromText

\* What a turn reports leaves a plan on disk, and its step parked leaves one too.
LEMMA OutcomeType ==
  ASSUME TypeOK, NEW r \in Run, NEW o \in Outcomes(r)
  PROVE  /\ o.plan \in Plan
         /\ [o.plan EXCEPT ![turn[r].aim] = "parked"] \in Plan
         /\ Kept(r, o) => plan' \in Plan
<1>1. turn[r].plan \in Plan
  BY DEF TypeOK, Turn
<1>2. o.plan \in Plan
  BY <1>1, FromTextType DEF Outcomes, TypeOK
<1> QED BY <1>2 DEF Kept, TypeOK, Plan, Status

\* One more on each counter that stays below its ceiling is a counter still.
LEMMA CountTypes ==
  ASSUME TypeOK, NEW r \in Run
  PROVE  /\ count[r] \in Count /\ Moved(r) \in Count
         /\ [count[r] EXCEPT !.failures = 0] \in Count
         /\ \A n \in Nat : n < ProviderFailures => [count[r] EXCEPT !.failures = n] \in Count
         /\ \A n \in Nat : n < NoProgressTurns => [count[r] EXCEPT !.failures = 0, !.stalled = n] \in Count
         /\ \A n \in Nat : n < HollowTurns => [count[r] EXCEPT !.failures = 0, !.stalled = 0, !.hollow = n] \in Count
         /\ \A n \in Nat : n < NarrationTurns => [Moved(r) EXCEPT !.narrated = n] \in Count
         /\ \A n \in Nat : n < ParksInARow =>
              [[Moved(r) EXCEPT !.narrated = 0] EXCEPT !.parkedInARow = n] \in Count
         /\ [Moved(r) EXCEPT !.narrated = 0] \in Count
         /\ [Moved(r) EXCEPT !.narrated = 0, !.parkedInARow = 0] \in Count
         /\ count[r].failures + 1 \in Nat /\ count[r].stalled + 1 \in Nat
         /\ count[r].hollow + 1 \in Nat /\ count[r].narrated + 1 \in Nat
         /\ count[r].parkedInARow + 1 \in Nat
<1> DEFINE c == count[r]
           f == [c EXCEPT !.failures = 0]
           t == [f EXCEPT !.stalled = 0]
           v == [Moved(r) EXCEPT !.narrated = 0]
<1> HIDE DEF c, f, t, v
<1>1. /\ 0 \in 0..(HollowTurns - 1) /\ 0 \in 0..(NoProgressTurns - 1) /\ 0 \in 0..(NarrationTurns - 1)
      /\ 0 \in 0..(ProviderFailures - 1) /\ 0 \in 0..(ParksInARow - 1)
  BY Limits
<1>2. c \in Count
  BY DEF TypeOK, c
<1>3. f \in Count
  BY <1>1, <1>2 DEF Count, f
<1>4. t \in Count
  BY <1>1, <1>3 DEF Count, t
<1>5. Moved(r) \in Count
  <2>1. Moved(r) = [t EXCEPT !.hollow = 0]
    BY DEF Moved, c, f, t
  <2>2. [t EXCEPT !.hollow = 0] \in Count
    BY <1>1, <1>4 DEF Count
  <2> QED BY <2>1, <2>2
<1>6. ASSUME NEW n \in Nat, n < ProviderFailures PROVE [c EXCEPT !.failures = n] \in Count
  BY <1>2, <1>6, Limits DEF Count
<1>7. ASSUME NEW n \in Nat, n < NoProgressTurns
      PROVE  [c EXCEPT !.failures = 0, !.stalled = n] \in Count
  <2>1. [f EXCEPT !.stalled = n] \in Count
    BY <1>3, <1>7, Limits DEF Count
  <2> QED BY <2>1 DEF f
<1>8. ASSUME NEW n \in Nat, n < HollowTurns
      PROVE  [c EXCEPT !.failures = 0, !.stalled = 0, !.hollow = n] \in Count
  <2>1. [t EXCEPT !.hollow = n] \in Count
    BY <1>4, <1>8, Limits DEF Count
  <2> QED BY <2>1 DEF f, t
<1>9. ASSUME NEW n \in Nat, n < NarrationTurns PROVE [Moved(r) EXCEPT !.narrated = n] \in Count
  BY <1>5, <1>9, Limits DEF Count
<1>10. v \in Count
  BY <1>1, <1>5 DEF Count, v
<1>11. ASSUME NEW n \in Nat, n < ParksInARow PROVE [v EXCEPT !.parkedInARow = n] \in Count
  BY <1>10, <1>11, Limits DEF Count
<1>12. [Moved(r) EXCEPT !.narrated = 0, !.parkedInARow = 0] \in Count
  <2>1. [v EXCEPT !.parkedInARow = 0] \in Count
    BY <1>11, Limits
  <2> QED BY <2>1 DEF v
<1>13. /\ c.failures + 1 \in Nat /\ c.stalled + 1 \in Nat
       /\ c.hollow + 1 \in Nat /\ c.narrated + 1 \in Nat
       /\ c.parkedInARow + 1 \in Nat
  BY <1>2, Limits DEF Count
<1> QED BY <1>2, <1>3, <1>5, <1>6, <1>7, <1>8, <1>9, <1>10, <1>11, <1>12, <1>13 DEF c, f, t, v

\* A work turn's verdict keeps the types.
LEMMA WorkTurnType ==
  ASSUME TypeOK, NEW r \in Run, WorkTurnReturns(r)
  PROVE  TypeOK'
<1> PICK o \in Outcomes(r) :
      Stuck(r, o) \/ Hollow(r, o) \/ Narrated(r, o) \/ Struck(r, o) \/ Closed(r, o)
  BY DEF WorkTurnReturns
<1>0. /\ LoopsOK /\ row \in Row /\ turn[r].aim \in Step /\ Counted(r) \in Row
      /\ strikes[r][turn[r].aim] \in 0..(Strikes - 1) /\ attempts[r][turn[r].aim] \in Nat
  BY TypeParts, CountedType DEF WorkTurnReturns, Returns, TypeOK
<1>p. o.plan \in Plan /\ [o.plan EXCEPT ![turn[r].aim] = "parked"] \in Plan /\ (Kept(r, o) => plan' \in Plan)
  BY OutcomeType
<1>n. /\ count[r].stalled + 1 \in Nat /\ count[r].hollow + 1 \in Nat
      /\ count[r].narrated + 1 \in Nat /\ count[r].parkedInARow + 1 \in Nat
  BY CountTypes
<1>1. CASE Stuck(r, o)
  <2>1. CASE Finish(r, Counted(r), "no_progress") /\ Kept(r, o)
    BY <1>0, <1>p, <2>1, FinishStep DEF Reason
  <2>2. CASE /\ count[r].stalled + 1 < NoProgressTurns
             /\ Continue(r, [count[r] EXCEPT !.failures = 0, !.stalled = count[r].stalled + 1])
             /\ UNCHANGED <<strikes, attempts>> /\ Kept(r, o)
    BY <1>0, <1>p, <2>2, CountTypes, ContinueStep DEF TypeOK
  <2> QED BY <1>n, <1>1, <2>1, <2>2, Limits DEF Stuck
<1>2. CASE Hollow(r, o)
  <2>1. CASE Finish(r, Counted(r), "the_model_stopped_answering") /\ Kept(r, o)
    BY <1>0, <1>p, <2>1, FinishStep DEF Reason
  <2>2. CASE /\ count[r].hollow + 1 < HollowTurns
             /\ Continue(r, [count[r] EXCEPT !.failures = 0, !.stalled = 0, !.hollow = count[r].hollow + 1])
             /\ UNCHANGED <<strikes, attempts>> /\ Kept(r, o)
    BY <1>0, <1>p, <2>2, CountTypes, ContinueStep DEF TypeOK
  <2> QED BY <1>n, <1>2, <2>1, <2>2, Limits DEF Hollow
<1>3. CASE Narrated(r, o)
  <2>1. CASE Finish(r, Counted(r), "the_model_only_narrated") /\ Kept(r, o)
    BY <1>0, <1>p, <2>1, FinishStep DEF Reason
  <2>2. CASE /\ count[r].narrated + 1 < NarrationTurns
             /\ Continue(r, [Moved(r) EXCEPT !.narrated = count[r].narrated + 1])
             /\ UNCHANGED <<strikes, attempts>> /\ Kept(r, o)
    BY <1>0, <1>p, <2>2, CountTypes, ContinueStep DEF TypeOK
  <2> QED BY <1>n, <1>3, <2>1, <2>2, Limits DEF Narrated
<1>4. CASE Struck(r, o)
  <2> DEFINE s == turn[r].aim
             n == strikes[r][s] + 1
             tried == [Moved(r) EXCEPT !.narrated = 0]
             parks == count[r].parkedInARow + 1
  <2>1. CASE /\ n < Strikes /\ Continue(r, tried) /\ Kept(r, o)
             /\ strikes' = [strikes EXCEPT ![r][s] = n]
             /\ attempts' = [attempts EXCEPT ![r][s] = @ + 1]
    <3>1. strikes' \in [Run -> [Step -> 0..(Strikes - 1)]] /\ attempts' \in [Run -> [Step -> Nat]]
      BY <1>0, <1>p, <2>1, Limits DEF TypeOK
    <3> QED BY <1>0, <1>p, <2>1, <3>1, CountTypes, ContinueStep
  <2>2. CASE Finish(r, Counted(r), "the_plan_could_not_be_worked") /\ plan' = [o.plan EXCEPT ![s] = "parked"]
    BY <1>0, <1>p, <2>2, FinishStep DEF Reason
  <2>3. CASE /\ parks < ParksInARow /\ Continue(r, [tried EXCEPT !.parkedInARow = parks])
             /\ plan' = [o.plan EXCEPT ![s] = "parked"]
             /\ strikes' = [strikes EXCEPT ![r][s] = 0]
             /\ attempts' = [attempts EXCEPT ![r][s] = 0]
    <3>1. strikes' \in [Run -> [Step -> 0..(Strikes - 1)]] /\ attempts' \in [Run -> [Step -> Nat]]
      BY <1>0, <1>p, <2>3, Limits DEF TypeOK
    <3> QED BY <1>0, <1>p, <2>3, <3>1, <1>n, CountTypes, ContinueStep
  <2> QED BY <1>0, <1>n, <1>4, <2>1, <2>2, <2>3, Limits DEF Struck
<1>5. CASE Closed(r, o)
  <2>1. strikes' \in [Run -> [Step -> 0..(Strikes - 1)]] /\ attempts' \in [Run -> [Step -> Nat]]
    BY <1>0, <1>5, Limits DEF Closed, TypeOK
  <2> QED BY <1>0, <1>p, <1>5, <2>1, CountTypes, ContinueStep DEF Closed
<1> QED BY <1>1, <1>2, <1>3, <1>4, <1>5

LEMMA TypeStep == TypeOK /\ [Next]_vars => TypeOK'
<1> SUFFICES ASSUME TypeOK, [Next]_vars PROVE TypeOK'
  OBVIOUS
<1>0. row \in Row /\ plan \in Plan /\ LoopsOK /\ \A r \in Run : Counted(r) \in Row
  BY TypeParts, CountedType
<1>1. ASSUME NEW r \in Run, Start(r) PROVE TypeOK'
  <2>1. row' \in Row
    BY <1>1 DEF Start, Row, Reason
  <2> QED BY <1>1, <2>1 DEF Start, TypeOK, loopVars, InFlight
<1>2. ASSUME NEW r \in Run, SeeStop(r) PROVE TypeOK'
  BY <1>0, <1>2, ExitType, TypePartsNext DEF SeeStop
<1>3. ASSUME NEW r \in Run, HitCap(r) PROVE TypeOK'
  BY <1>0, <1>3, FinishStep DEF HitCap, Reason
<1>4. ASSUME NEW r \in Run, AuditAtCap(r) PROVE TypeOK'
  <2>1. LoopsOK'
    BY <1>0, <1>4, TakeType DEF AuditAtCap, Audit, InFlight, Reason, LoopsOK
  <2> QED BY <1>0, <1>4, <2>1, TypePartsNext DEF AuditAtCap, Audit, Take
<1>5. ASSUME NEW r \in Run, AskForPlan(r) PROVE TypeOK'
  <2>0. count[r] \in Count /\ count[r].planTurns + 1 \in 0..PlanTurns
    BY <1>5, Limits DEF AskForPlan, TypeOK, Count
  <2>1. count' \in [Run -> Count]
    BY <1>5, <2>0 DEF AskForPlan, TypeOK, Count
  <2>2. LoopsOK'
    BY <1>0, <1>5, <2>1, TakeType DEF AskForPlan, InFlight, Reason
  <2> QED BY <1>0, <1>5, <2>2, TypePartsNext DEF AskForPlan, Take
<1>6. ASSUME NEW r \in Run, WriteSkeleton(r) PROVE TypeOK'
  <2>0. count[r] \in Count /\ count[r].planTurns + 1 \in 0..PlanTurns
    BY <1>6, Limits DEF WriteSkeleton, TypeOK, Count
  <2>1. count' \in [Run -> Count]
    BY <1>6, <2>0 DEF WriteSkeleton, TypeOK, Count
  <2>2. plan' \in Plan
    BY <1>6, FreshTypes, PlanTypes DEF WriteSkeleton
  <2> QED BY <1>6, <2>1, <2>2 DEF WriteSkeleton, TypeOK, leaseVars
<1>7. ASSUME NEW r \in Run, GiveUpPlanning(r) PROVE TypeOK'
  BY <1>0, <1>7, FinishStep DEF GiveUpPlanning, Reason
<1>8. ASSUME NEW r \in Run, WorkedDown(r) PROVE TypeOK'
  <2>1. CASE Audit(r, "plan_worked_down")
    <3>1. LoopsOK'
      BY <1>0, <2>1, TakeType DEF Audit, InFlight, Reason, LoopsOK
    <3> QED BY <1>0, <2>1, <3>1, TypePartsNext DEF Audit, Take
  <2>2. ASSUME NEW reason \in {"nothing_could_be_worked", "parked_more_than_it_did"},
               Finish(r, row, reason), UNCHANGED plan
        PROVE  TypeOK'
    BY <1>0, <2>2, FinishStep DEF Reason
  <2> QED BY <1>8, <2>1, <2>2 DEF WorkedDown
<1>9. ASSUME NEW r \in Run, AimAtStep(r) PROVE TypeOK'
  <2>1. FirstOpen(plan) \in Step
    BY <1>0, <1>9, FirstOpenType DEF AimAtStep, Open, With
  <2>2. LoopsOK'
    BY <1>0, <1>9, <2>1, TakeType DEF AimAtStep, InFlight, Reason, LoopsOK
  <2> QED BY <1>0, <1>9, <2>2, TypePartsNext DEF AimAtStep, Take
<1>10. ASSUME NEW r \in Run, ModelTool(r) PROVE TypeOK'
  <2>1. turn[r].plan \in Plan /\ turn[r] \in Turn
    BY DEF TypeOK, Turn
  <2>2. plan' \in Plan
    BY <1>10, <2>1, PlanTypes DEF ModelTool
  <2>3. turn' \in [Run -> Turn] /\ \A q \in Run : turn'[q].aim = turn[q].aim
    BY <1>10, <2>1, <2>2 DEF ModelTool, TypeOK, Turn
  <2> QED BY <1>10, <2>2, <2>3 DEF ModelTool, TypeOK, leaseVars
<1>11. ASSUME NEW r \in Run, AgentTool(r) PROVE TypeOK'
  <2>1. plan' \in Plan
    BY <1>0, <1>11, PlanTypes DEF AgentTool
  <2> QED BY <1>11, <2>1 DEF AgentTool, TypeOK, loopVars, leaseVars
<1>12. ASSUME NEW r \in Run, TurnThrows(r) PROVE TypeOK'
  BY <1>0, <1>12, FinishStep DEF TurnThrows, Reason
<1>13. ASSUME NEW r \in Run, ConnectionFails(r) PROVE TypeOK'
  <2>1. CASE Finish(r, Counted(r), "provider_failed") /\ UNCHANGED plan
    BY <1>0, <2>1, FinishStep DEF Reason
  <2>2. CASE /\ count[r].failures + 1 < ProviderFailures
             /\ Continue(r, [count[r] EXCEPT !.failures = count[r].failures + 1])
             /\ UNCHANGED <<strikes, attempts, plan>>
    BY <1>0, <2>2, CountTypes, ContinueStep DEF LoopsOK
  <2>3. count[r].failures + 1 \in Nat
    BY CountTypes
  <2> QED BY <1>13, <2>1, <2>2, <2>3, Limits DEF ConnectionFails
<1>14. ASSUME NEW r \in Run, PlanTurnReturns(r) PROVE TypeOK'
  <2>1. plan' \in Plan
    BY <1>0, <1>14, FromTextType DEF PlanTurnReturns
  <2> QED BY <1>0, <1>14, <2>1, CountTypes, ContinueStep DEF PlanTurnReturns, LoopsOK
<1>15. ASSUME NEW r \in Run, WorkTurnReturns(r) PROVE TypeOK'
  BY <1>15, WorkTurnType
<1>16. ASSUME NEW r \in Run, AuditReturns(r) PROVE TypeOK'
  <2>1. turn[r].before \in Reason /\ "audited" \in Reason
    BY DEF TypeOK, Turn, Reason
  <2>2. CASE row' = Counted(r) /\ Exit(r) /\ UNCHANGED plan
    BY <1>0, <2>2, ExitType, TypePartsNext
  <2>3. ASSUME NEW reason \in Reason, Finish(r, Counted(r), reason), UNCHANGED plan PROVE TypeOK'
    BY <1>0, <2>3, FinishStep
  <2> QED BY <1>16, <2>1, <2>2, <2>3 DEF AuditReturns
<1>17. ASSUME NEW s \in Step, Unpark(s) PROVE TypeOK'
  BY <1>17 DEF Unpark, TypeOK, Plan, Status, loopVars, leaseVars
<1>18. CASE Stop
  BY <1>18 DEF Stop, TypeOK, Row, Reason, loopVars
<1>19. CASE Restart
  <2>1. row' \in Row
    BY <1>19 DEF Restart, Reaped, TypeOK, Row, Reason
  <2>2. pc' \in [Run -> {"unused", "top", "ended"} \cup InFlight] /\ \A r \in Run : pc'[r] # "working"
    BY <1>19 DEF Restart, InFlight
  <2> QED BY <1>19, <2>1, <2>2, FreshTypes DEF Restart, TypeOK
<1>20. CASE UNCHANGED vars
  BY <1>20 DEF vars, TypeOK
<1> QED
  BY <1>1, <1>2, <1>3, <1>4, <1>5, <1>6, <1>7, <1>8, <1>9, <1>10, <1>11, <1>12, <1>13, <1>14,
     <1>15, <1>16, <1>17, <1>18, <1>19, <1>20
  DEF Next, Top, TurnReturns

\* Every counter of a loop stays below its ceiling, and every variable keeps its type.
THEOREM TypeCorrect == Spec => []TypeOK
<1>1. Init => TypeOK
  BY FreshTypes DEF Init, TypeOK, Row, Reason, Plan, Status, InFlight
<1> QED BY <1>1, TypeStep, PTL DEF Spec

-----------------------------------------------------------------------------
(* The inductive invariant *)

(* What the row says of the loop that owns it: a running row has a loop    *)
(* and no ending yet, and a turn in flight for it is still to be counted.  *)
RowInv ==
  /\ row.running => /\ row.owner \in Run /\ pc[row.owner] \in InFlight \cup {"top"}
                    /\ row.reason = "none"
  /\ row.turns <= row.cap
  /\ \A r \in Run : (row.owner = r /\ pc[r] \in InFlight) => row.turns < row.cap

(* Only a loop that was started holds the lease or is being cancelled.     *)
LeaseInv ==
  /\ \A r \in Run : pc[r] = "unused" => r \notin aborted /\ lease # r
  /\ LiveAgentHasLease

\* A step's strikes are all real attempts.
StrikeInv == \A r \in Run, s \in Step : strikes[r][s] <= attempts[r][s]

IInv == TypeOK /\ RowInv /\ LeaseInv /\ StrikeInv

LEMMA InvNext ==
  ASSUME TypeOK', RowInv', LeaseInv', StrikeInv'
  PROVE  IInv'
BY DEF IInv

\* Values of the row and of the row after a turn.
LEMMA RowFacts ==
  ASSUME row \in Row
  PROVE  /\ row.turns \in Nat /\ row.cap \in Nat
         /\ \A r \in Run : /\ Counted(r).running = row.running
                           /\ Counted(r).owner = row.owner
                           /\ Counted(r).reason = row.reason
                           /\ Counted(r).cap = row.cap
                           /\ Counted(r).turns = IF row.owner = r THEN row.turns + 1 ELSE row.turns
BY Limits DEF Row, Counted, Mine

\* The loop returns, with the row already somebody else's or not running.
LEMMA ExitInv ==
  ASSUME IInv, NEW r \in Run, pc[r] # "unused", Exit(r),
         row'.running = row.running, row'.owner = row.owner, row'.reason = row.reason,
         row'.turns \in Nat, row'.turns <= row.cap, row'.cap = row.cap,
         row'.turns = row.turns \/ row.owner = r,
         row.running => row.owner # r
  PROVE  RowInv' /\ LeaseInv' /\ StrikeInv'
<1>1. RowInv'
  BY Limits DEF IInv, TypeOK, RowInv, Exit, InFlight
<1>2. LeaseInv'
  BY DEF IInv, TypeOK, RowInv, LeaseInv, LiveAgentHasLease, Exit, InFlight, Run, NoRun
<1>3. StrikeInv'
  BY Limits DEF IInv, TypeOK, StrikeInv, Exit, NoStrikes
<1> QED BY <1>1, <1>2, <1>3

\* An ending is written, or the row is another run's.
LEMMA FinishInv ==
  ASSUME IInv, NEW r \in Run, pc[r] # "unused", NEW w \in Row, NEW reason \in Reason,
         Finish(r, w, reason),
         w.running = row.running, w.owner = row.owner, w.reason = row.reason, w.cap = row.cap, w.turns <= row.cap,
         w.turns = row.turns \/ row.owner = r
  PROVE  RowInv' /\ LeaseInv' /\ StrikeInv'
<1>1. CASE Mine(r)
  <2>1. /\ row'.running = FALSE /\ row'.owner = row.owner /\ row'.turns = w.turns
        /\ row'.cap = row.cap /\ row'.turns \in Nat /\ row.owner = r
    BY <1>1 DEF Finish, Row, Mine
  <2>2. RowInv'
    BY <2>1, Limits DEF IInv, TypeOK, RowInv, Finish, Exit, InFlight
  <2>3. LeaseInv'
    BY <2>1 DEF IInv, TypeOK, RowInv, LeaseInv, LiveAgentHasLease, Finish, Exit, InFlight, Run, NoRun
  <2>4. StrikeInv'
    BY Limits DEF IInv, TypeOK, StrikeInv, Finish, Exit, NoStrikes
  <2> QED BY <2>2, <2>3, <2>4
<1>2. CASE ~Mine(r)
  <2>1. row' = w /\ w.turns \in Nat /\ Exit(r) /\ row.owner # r
    BY <1>2 DEF Finish, Row, Mine
  <2> QED BY <2>1, ExitInv
<1> QED BY <1>1, <1>2

\* The ending after a turn, and the ending at the top of the loop.
LEMMA FinishCounted ==
  ASSUME IInv, NEW r \in Run, pc[r] \in InFlight, NEW reason \in Reason, Finish(r, Counted(r), reason)
  PROVE  RowInv' /\ LeaseInv' /\ StrikeInv'
<1>1. Counted(r) \in Row /\ row \in Row
  BY CountedType DEF IInv, TypeOK
<1>2. Counted(r).turns <= row.cap
  BY <1>1, RowFacts DEF IInv, RowInv
<1>3. pc[r] # "unused"
  BY DEF InFlight
<1> QED BY <1>1, <1>2, <1>3, RowFacts, FinishInv

LEMMA FinishAtTop ==
  ASSUME IInv, NEW r \in Run, AtTop(r), NEW reason \in Reason, Finish(r, row, reason)
  PROVE  RowInv' /\ LeaseInv' /\ StrikeInv'
<1>1. row \in Row /\ row.turns <= row.cap /\ pc[r] # "unused"
  BY DEF IInv, TypeOK, RowInv, AtTop
<1> QED BY <1>1, FinishInv

LEMMA ContinueInv ==
  ASSUME IInv, NEW r \in Run, pc[r] \in InFlight, NEW c, Continue(r, c), StrikeInv'
  PROVE  RowInv' /\ LeaseInv' /\ StrikeInv'
<1>1. row \in Row /\ row' = Counted(r)
  BY DEF IInv, TypeOK, Continue
<1>2. RowInv'
  BY <1>1, RowFacts DEF IInv, TypeOK, RowInv, Continue, InFlight
<1>3. LeaseInv'
  BY <1>1, RowFacts DEF IInv, TypeOK, LeaseInv, LiveAgentHasLease, Continue, leaseVars, InFlight
<1> QED BY <1>2, <1>3

LEMMA TakeInv ==
  ASSUME IInv, NEW r \in Run, AtTop(r), row.turns < row.cap, NEW kind \in InFlight, NEW aim, NEW before,
         Take(r, kind, aim, before)
  PROVE  RowInv' /\ LeaseInv' /\ StrikeInv'
<1>1. RowInv'
  BY DEF IInv, TypeOK, RowInv, Take, AtTop, Mine, InFlight
<1>2. LeaseInv'
  BY DEF IInv, TypeOK, LeaseInv, LiveAgentHasLease, Take, leaseVars, InFlight, AtTop
<1>3. StrikeInv'
  BY DEF IInv, StrikeInv, Take
<1> QED BY <1>1, <1>2, <1>3

\* A step that leaves the loops, the row and the leases alone.
LEMMA QuietInv ==
  ASSUME IInv, UNCHANGED <<row, pc, engine, strikes, attempts, lease, aborted>>
  PROVE  RowInv' /\ LeaseInv' /\ StrikeInv'
BY DEF IInv, RowInv, LeaseInv, LiveAgentHasLease, StrikeInv

\* Every verdict on a work turn keeps the invariant.
LEMMA WorkTurnInv ==
  ASSUME IInv, NEW r \in Run, WorkTurnReturns(r)
  PROVE  RowInv' /\ LeaseInv' /\ StrikeInv'
<1> PICK o \in Outcomes(r) :
      Stuck(r, o) \/ Hollow(r, o) \/ Narrated(r, o) \/ Struck(r, o) \/ Closed(r, o)
  BY DEF WorkTurnReturns
<1>0. /\ pc[r] \in InFlight /\ turn[r].aim \in Step
      /\ strikes \in [Run -> [Step -> 0..(Strikes - 1)]] /\ attempts \in [Run -> [Step -> Nat]]
  BY DEF WorkTurnReturns, Returns, InFlight, IInv, TypeOK
<1>1. ASSUME NEW reason \in Reason, Finish(r, Counted(r), reason)
      PROVE  RowInv' /\ LeaseInv' /\ StrikeInv'
  BY <1>0, <1>1, FinishCounted
<1>2. ASSUME NEW c, Continue(r, c), StrikeInv'
      PROVE  RowInv' /\ LeaseInv' /\ StrikeInv'
  BY <1>0, <1>2, ContinueInv
<1>3. ASSUME UNCHANGED <<strikes, attempts>> PROVE StrikeInv'
  BY <1>3 DEF IInv, StrikeInv
<1>4. /\ "no_progress" \in Reason /\ "the_model_stopped_answering" \in Reason
      /\ "the_model_only_narrated" \in Reason /\ "the_plan_could_not_be_worked" \in Reason
  BY DEF Reason
<1>5. CASE Stuck(r, o)
  BY <1>1, <1>2, <1>3, <1>4, <1>5, Zenon DEF Stuck
<1>6. CASE Hollow(r, o)
  BY <1>1, <1>2, <1>3, <1>4, <1>6, Zenon DEF Hollow
<1>7. CASE Narrated(r, o)
  BY <1>1, <1>2, <1>3, <1>4, <1>7, Zenon DEF Narrated
<1>8. CASE Struck(r, o)
  <2> DEFINE s == turn[r].aim
             n == strikes[r][s] + 1
             tried == [Moved(r) EXCEPT !.narrated = 0]
             parks == count[r].parkedInARow + 1
  <2>1. CASE /\ Continue(r, tried)
             /\ strikes' = [strikes EXCEPT ![r][s] = n]
             /\ attempts' = [attempts EXCEPT ![r][s] = @ + 1]
    <3>1. StrikeInv'
      BY <1>0, <2>1, Limits DEF IInv, StrikeInv
    <3> QED BY <1>2, <2>1, <3>1
  <2>2. CASE Finish(r, Counted(r), "the_plan_could_not_be_worked")
    BY <1>1, <1>4, <2>2
  <2>3. CASE /\ Continue(r, [tried EXCEPT !.parkedInARow = parks])
             /\ strikes' = [strikes EXCEPT ![r][s] = 0]
             /\ attempts' = [attempts EXCEPT ![r][s] = 0]
    <3>1. StrikeInv'
      BY <1>0, <2>3, Limits DEF IInv, StrikeInv
    <3> QED BY <1>2, <2>3, <3>1
  <2> QED BY <1>8, <2>1, <2>2, <2>3, Zenon DEF Struck
<1>9. CASE Closed(r, o)
  <2>1. StrikeInv'
    BY <1>0, <1>9, Limits DEF Closed, IInv, StrikeInv
  <2> QED BY <1>2, <1>9, <2>1 DEF Closed
<1> QED BY <1>5, <1>6, <1>7, <1>8, <1>9

\* Every ending and every turn chosen at the top of the loop keeps the invariant.
LEMMA TopInv ==
  ASSUME IInv, NEW r \in Run, Top(r)
  PROVE  RowInv' /\ LeaseInv' /\ StrikeInv'
<1> USE DEF InFlight
<1>0. row.turns \in Nat /\ row.cap \in Nat /\ row \in Row
  BY RowFacts DEF IInv, TypeOK
<1>1. CASE SeeStop(r)
  BY <1>0, <1>1, ExitInv DEF SeeStop, Mine, IInv, RowInv
<1>2. CASE HitCap(r)
  BY <1>2, FinishAtTop DEF HitCap, Reason
<1>3. CASE AuditAtCap(r)
  BY <1>0, <1>3, TakeInv DEF AuditAtCap, Audit, LastTurnIsAudit
<1>4. CASE AskForPlan(r)
  BY <1>4, TakeInv DEF AskForPlan, GoesOn
<1>5. CASE WriteSkeleton(r)
  BY <1>5, QuietInv DEF WriteSkeleton, leaseVars
<1>6. CASE GiveUpPlanning(r)
  BY <1>6, FinishAtTop DEF GiveUpPlanning, GoesOn, Reason
<1>7. CASE WorkedDown(r)
  <2>1. CASE Audit(r, "plan_worked_down")
    BY <1>7, <2>1, TakeInv DEF WorkedDown, GoesOn, Audit
  <2>2. ASSUME NEW reason \in {"nothing_could_be_worked", "parked_more_than_it_did"},
               Finish(r, row, reason)
        PROVE  RowInv' /\ LeaseInv' /\ StrikeInv'
    BY <1>7, <2>2, FinishAtTop DEF WorkedDown, GoesOn, Reason
  <2> QED BY <1>7, <2>1, <2>2 DEF WorkedDown
<1>8. CASE AimAtStep(r)
  BY <1>8, TakeInv DEF AimAtStep, GoesOn
<1> QED BY <1>1, <1>2, <1>3, <1>4, <1>5, <1>6, <1>7, <1>8 DEF Top

LEMMA InvStep == IInv /\ [Next]_vars => IInv'
<1> SUFFICES ASSUME IInv, [Next]_vars PROVE RowInv' /\ LeaseInv' /\ StrikeInv'
  BY TypeStep, InvNext DEF IInv
<1>1. ASSUME NEW r \in Run, Start(r) PROVE RowInv' /\ LeaseInv' /\ StrikeInv'
  <2>1. RowInv'
    BY <1>1, Limits DEF Start, IInv, TypeOK, RowInv, InFlight
  <2>2. LeaseInv'
    BY <1>1 DEF Start, IInv, TypeOK, LeaseInv, LiveAgentHasLease
  <2>3. StrikeInv'
    BY <1>1 DEF Start, IInv, StrikeInv, loopVars
  <2> QED BY <2>1, <2>2, <2>3
<1>2. ASSUME NEW r \in Run, Top(r) PROVE RowInv' /\ LeaseInv' /\ StrikeInv'
  BY <1>2, TopInv
<1>3. ASSUME NEW r \in Run, ModelTool(r) \/ AgentTool(r) PROVE RowInv' /\ LeaseInv' /\ StrikeInv'
  BY <1>3, QuietInv DEF ModelTool, AgentTool, leaseVars, loopVars
<1>4. ASSUME NEW r \in Run, TurnThrows(r) PROVE RowInv' /\ LeaseInv' /\ StrikeInv'
  BY <1>4, FinishCounted DEF TurnThrows, Returns, InFlight, Reason
<1>5. ASSUME NEW r \in Run, ConnectionFails(r) PROVE RowInv' /\ LeaseInv' /\ StrikeInv'
  <2>1. pc[r] \in InFlight
    BY <1>5 DEF ConnectionFails, Returns, InFlight
  <2>2. CASE Finish(r, Counted(r), "provider_failed")
    BY <2>1, <2>2, FinishCounted DEF Reason
  <2>3. ASSUME NEW c, Continue(r, c), UNCHANGED <<strikes, attempts>>
        PROVE  RowInv' /\ LeaseInv' /\ StrikeInv'
    <3>1. StrikeInv'
      BY <2>3 DEF IInv, StrikeInv
    <3> QED BY <2>1, <2>3, <3>1, ContinueInv
  <2> QED BY <1>5, <2>2, <2>3, Zenon DEF ConnectionFails
<1>6. ASSUME NEW r \in Run, PlanTurnReturns(r) PROVE RowInv' /\ LeaseInv' /\ StrikeInv'
  <2>1. StrikeInv'
    BY <1>6 DEF PlanTurnReturns, IInv, StrikeInv
  <2> QED BY <1>6, <2>1, ContinueInv DEF PlanTurnReturns, Returns, InFlight
<1>7. ASSUME NEW r \in Run, WorkTurnReturns(r) PROVE RowInv' /\ LeaseInv' /\ StrikeInv'
  BY <1>7, WorkTurnInv
<1>8. ASSUME NEW r \in Run, AuditReturns(r) PROVE RowInv' /\ LeaseInv' /\ StrikeInv'
  <2>1. pc[r] \in InFlight /\ pc[r] # "unused" /\ turn[r].before \in Reason /\ "audited" \in Reason
        /\ row \in Row
    BY <1>8 DEF AuditReturns, Returns, InFlight, IInv, TypeOK, Turn, Reason
  <2>2. CASE ~(Mine(r) /\ row.running) /\ row' = Counted(r) /\ Exit(r)
    <3>1. row'.turns \in Nat /\ row'.turns <= row.cap /\ row'.cap = row.cap
      BY <2>1, <2>2, RowFacts DEF IInv, RowInv
    <3> QED BY <2>1, <2>2, <3>1, RowFacts, ExitInv DEF Mine
  <2>3. ASSUME NEW reason \in Reason, Finish(r, Counted(r), reason)
        PROVE  RowInv' /\ LeaseInv' /\ StrikeInv'
    BY <2>1, <2>3, FinishCounted
  <2> QED BY <1>8, <2>1, <2>2, <2>3 DEF AuditReturns
<1>9. ASSUME NEW s \in Step, Unpark(s) PROVE RowInv' /\ LeaseInv' /\ StrikeInv'
  BY <1>9, QuietInv DEF Unpark, loopVars, leaseVars
<1>10. CASE Stop
  <2>1. RowInv'
    BY <1>10 DEF Stop, IInv, TypeOK, Row, RowInv
  <2>2. LeaseInv'
    BY <1>10 DEF Stop, IInv, TypeOK, Row, LeaseInv, LiveAgentHasLease
  <2>3. StrikeInv'
    BY <1>10 DEF Stop, IInv, StrikeInv, loopVars
  <2> QED BY <2>1, <2>2, <2>3
<1>11. CASE Restart
  <2>1. row'.running = FALSE /\ row'.turns = row.turns /\ row'.cap = row.cap
    BY <1>11 DEF Restart, Reaped, IInv, TypeOK, Row
  <2>2. RowInv'
    BY <1>11, <2>1 DEF Restart, IInv, TypeOK, RowInv, InFlight
  <2>3. LeaseInv'
    BY <1>11, <2>1 DEF Restart, LeaseInv, LiveAgentHasLease, Run, NoRun
  <2>4. StrikeInv'
    BY <1>11 DEF Restart, StrikeInv, NoStrikes
  <2> QED BY <2>2, <2>3, <2>4
<1>12. CASE UNCHANGED vars
  BY <1>12, QuietInv DEF vars
<1> QED
  BY <1>1, <1>2, <1>3, <1>4, <1>5, <1>6, <1>7, <1>8, <1>9, <1>10, <1>11, <1>12
  DEF Next, TurnReturns

\* The row, the loops, the leases and the strikes agree in every reachable state.
THEOREM Invariance == Spec => []IInv
<1>1. Init => IInv
  <2>1. Init => TypeOK
    BY FreshTypes DEF Init, TypeOK, Row, Reason, Plan, Status, InFlight
  <2>2. Init => RowInv /\ LeaseInv /\ StrikeInv
    BY Limits DEF Init, RowInv, LeaseInv, LiveAgentHasLease, StrikeInv, NoStrikes, InFlight, Run, NoRun
  <2> QED BY <2>1, <2>2 DEF IInv
<1> QED BY <1>1, InvStep, PTL DEF Spec

-----------------------------------------------------------------------------
(* What the run promises *)

(* The turn cap is a cap on turns, audit included, whatever a stopped      *)
(* loop's last turn does to the row of a later run.                        *)
THEOREM TurnCap == Spec => []CapHolds
<1>1. IInv => CapHolds
  BY DEF IInv, RowInv, CapHolds
<1> QED BY <1>1, Invariance, PTL

(* A row that says running has a live loop that carries its stamp.         *)
THEOREM RunningHasItsLoop == Spec => []NoPhantomRun
<1>1. IInv => NoPhantomRun
  BY DEF IInv, RowInv, NoPhantomRun
<1> QED BY <1>1, Invariance, PTL

(* The agent of the run on the row holds the lease, and nobody is          *)
(* cancelling it, whichever earlier run ends meanwhile.                    *)
THEOREM LeaseFollowsRun == Spec => []LiveAgentHasLease
<1>1. IInv => LiveAgentHasLease
  BY DEF IInv, LeaseInv
<1> QED BY <1>1, Invariance, PTL

\* Only the top of a loop begins a turn.
LEMMA TurnsBegin ==
  ASSUME IInv, NEW r \in Run, [Next]_vars, pc[r] \notin InFlight, pc'[r] \in InFlight
  PROVE  Top(r) /\ AtTop(r)
<1> USE DEF InFlight
<1>0. pc \in [Run -> {"unused", "top", "ended"} \cup InFlight]
  BY DEF IInv, TypeOK
<1>1. ASSUME NEW q \in Run, Start(q) PROVE FALSE
  BY <1>0, <1>1 DEF Start
<1>2. ASSUME NEW q \in Run, Top(q) PROVE q = r /\ AtTop(q)
  BY <1>0, <1>2 DEF Top, SeeStop, HitCap, AuditAtCap, AskForPlan, WriteSkeleton, GiveUpPlanning,
     WorkedDown, AimAtStep, Audit, Take, Finish, Exit, GoesOn
<1>3. ASSUME NEW q \in Run, ModelTool(q) \/ AgentTool(q) PROVE FALSE
  BY <1>3 DEF ModelTool, AgentTool
<1>4. ASSUME NEW q \in Run, TurnReturns(q) PROVE FALSE
  <2>1. CASE TurnThrows(q) \/ AuditReturns(q)
    BY <1>0, <2>1 DEF TurnThrows, AuditReturns, Finish, Exit
  <2>2. CASE ConnectionFails(q) \/ PlanTurnReturns(q)
    BY <1>0, <2>2 DEF ConnectionFails, PlanTurnReturns, Finish, Exit, Continue
  <2>3. CASE WorkTurnReturns(q)
    BY <1>0, <2>3 DEF WorkTurnReturns, Stuck, Hollow, Narrated, Struck, Closed, Finish, Exit, Continue
  <2> QED BY <1>4, <2>1, <2>2, <2>3 DEF TurnReturns
<1>5. ASSUME NEW s \in Step, Unpark(s) PROVE FALSE
  BY <1>5 DEF Unpark
<1>6. CASE Stop
  BY <1>6 DEF Stop
<1>7. CASE Restart
  BY <1>7 DEF Restart
<1>8. CASE UNCHANGED vars
  BY <1>8 DEF vars
<1> QED BY <1>1, <1>2, <1>3, <1>4, <1>5, <1>6, <1>7, <1>8 DEF Next

(* One worker: a loop begins a turn only for the run whose row it reads,   *)
(* while that run is on.                                                   *)
THEOREM OneWorker == Spec => TurnsOnlyForItsRun
<1>1. IInv /\ [Next]_vars =>
        [\A r \in Run : (pc[r] \notin InFlight /\ pc'[r] \in InFlight)
                          => row.running /\ row.owner = r]_vars
  BY TurnsBegin DEF AtTop, Mine
<1> QED BY <1>1, Invariance, PTL DEF Spec, TurnsOnlyForItsRun

\* The only thing that parks a step is the strike that was its last.
LEMMA ParkIsLastStrike ==
  ASSUME IInv, NEW r \in Run, NEW s \in Step, WorkTurnReturns(r), turn[r].aim = s,
         plan[s] # "parked", plan'[s] = "parked"
  PROVE  strikes[r][s] + 1 >= Strikes
<1> PICK o \in Outcomes(r) :
      Stuck(r, o) \/ Hollow(r, o) \/ Narrated(r, o) \/ Struck(r, o) \/ Closed(r, o)
  BY DEF WorkTurnReturns
<1>1. plan \in Plan
  BY DEF IInv, TypeOK
<1>2. engine[r] # "model" => o.plan[s] # "parked"
  <2>1. CASE plan # turn[r].plan
    BY <2>1 DEF Outcomes
  <2>2. CASE plan = turn[r].plan
    <3>1. \A p \in Rewritten(NoPlan) : p[s] # "parked"
      BY DEF Rewritten, NoPlan
    <3>2. \A p \in FromText(r) : p[s] # "parked"
      BY <3>1, <1>1 DEF FromText, Plan
    <3> QED BY <2>2, <3>2 DEF Outcomes
  <2> QED BY <2>1, <2>2
<1>3. Kept(r, o) => plan'[s] # "parked"
  BY <1>2 DEF Kept
<1>4. CASE Stuck(r, o) \/ Hollow(r, o) \/ Narrated(r, o) \/ Closed(r, o)
  BY <1>3, <1>4 DEF Stuck, Hollow, Narrated, Closed
<1>5. CASE Struck(r, o)
  BY <1>3, <1>5 DEF Struck
<1> QED BY <1>4, <1>5

(* Rule two: a loop parks a step only after Strikes real attempts on it.   *)
THEOREM ParkingIsEarned == Spec => ParkedOnlyAfterAttempts
<1> DEFINE Parks(r, s) == /\ pc[r] = "working" /\ pc'[r] # "working" /\ turn[r].aim = s
                          /\ plan[s] # "parked" /\ plan'[s] = "parked"
<1>1. ASSUME IInv, Next, NEW r \in Run, NEW s \in Step, Parks(r, s)
      PROVE  WorkTurnReturns(r)
  <2>0. pc \in [Run -> {"unused", "top", "ended"} \cup InFlight] /\ plan \in Plan
    BY <1>1 DEF IInv, TypeOK
  <2>1. plan' # plan /\ pc' # pc
    BY <1>1
  <2>2. ASSUME NEW q \in Run, Start(q) \/ ModelTool(q) \/ AgentTool(q) PROVE FALSE
    BY <2>1, <2>2 DEF Start, ModelTool, AgentTool
  <2>3. ASSUME NEW q \in Run, Top(q) PROVE FALSE
    BY <2>1, <2>3 DEF Top, SeeStop, HitCap, AuditAtCap, AskForPlan, WriteSkeleton, GiveUpPlanning,
       WorkedDown, AimAtStep, Audit, Take
  <2>4. ASSUME NEW q \in Run, TurnThrows(q) \/ ConnectionFails(q) \/ AuditReturns(q) PROVE FALSE
    BY <2>1, <2>4 DEF TurnThrows, ConnectionFails, AuditReturns
  <2>5. ASSUME NEW q \in Run, PlanTurnReturns(q) PROVE FALSE
    <3>1. pc[q] = "planning"
      BY <2>5 DEF PlanTurnReturns, Returns
    <3>2. pc'[r] = pc[r]
      BY <1>1, <2>0, <2>5, <3>1 DEF PlanTurnReturns, Continue
    <3> QED BY <1>1, <3>2
  <2>6. ASSUME NEW q \in Run, WorkTurnReturns(q) PROVE q = r
    BY <1>1, <2>0, <2>6 DEF WorkTurnReturns, Stuck, Hollow, Narrated, Struck, Closed,
       Finish, Exit, Continue
  <2>7. ASSUME NEW u \in Step, Unpark(u) PROVE FALSE
    BY <2>1, <2>7 DEF Unpark
  <2>8. ~Stop /\ ~Restart
    BY <2>1 DEF Stop, Restart
  <2> QED BY <1>1, <2>2, <2>3, <2>4, <2>5, <2>6, <2>7, <2>8 DEF Next, TurnReturns
<1>2. ASSUME IInv, [Next]_vars, NEW r \in Run, NEW s \in Step, Parks(r, s)
      PROVE  attempts[r][s] + 1 >= Strikes
  <2>1. Next
    BY <1>2 DEF vars
  <2>2. strikes[r][s] + 1 >= Strikes
    BY <1>1, <1>2, <2>1, ParkIsLastStrike
  <2>3. strikes[r][s] \in Nat /\ attempts[r][s] \in Nat /\ strikes[r][s] <= attempts[r][s]
    BY <1>2, Limits DEF IInv, TypeOK, StrikeInv
  <2> QED BY <2>2, <2>3, Limits
<1>3. IInv /\ [Next]_vars =>
        [\A r \in Run, s \in Step :
           (pc[r] = "working" /\ pc'[r] # "working" /\ turn[r].aim = s
             /\ plan[s] # "parked" /\ plan'[s] = "parked")
           => attempts[r][s] + 1 >= Strikes]_vars
  BY <1>2
<1> QED BY <1>3, Invariance, PTL DEF Spec, ParkedOnlyAfterAttempts

(* A Stop pressed while the audit runs stays a Stop.                       *)
THEOREM StopIsKept == Spec => StopSurvivesAudit
<1>1. ASSUME IInv, Next, NEW r \in Run, pc[r] = "auditing", row.reason = "stopped_by_hand",
             pc'[r] = "ended"
      PROVE  row'.reason = "stopped_by_hand"
  <2>0. /\ pc \in [Run -> {"unused", "top", "ended"} \cup InFlight] /\ row \in Row
        /\ ~row.running
    BY <1>1 DEF IInv, TypeOK, RowInv
  <2>1. ASSUME NEW q \in Run, Start(q) \/ ModelTool(q) \/ AgentTool(q) PROVE FALSE
    BY <1>1, <2>0, <2>1 DEF Start, ModelTool, AgentTool
  <2>2. ASSUME NEW q \in Run, Top(q) PROVE FALSE
    BY <1>1, <2>0, <2>2 DEF Top, SeeStop, HitCap, AuditAtCap, AskForPlan, WriteSkeleton,
       GiveUpPlanning, WorkedDown, AimAtStep, Audit, Take, Finish, Exit, GoesOn, AtTop
  <2>3. ASSUME NEW q \in Run, TurnThrows(q) \/ ConnectionFails(q) \/ PlanTurnReturns(q) PROVE FALSE
    BY <1>1, <2>0, <2>3 DEF TurnThrows, ConnectionFails, PlanTurnReturns, Returns, Finish, Exit, Continue
  <2>4. ASSUME NEW q \in Run, WorkTurnReturns(q) PROVE FALSE
    BY <1>1, <2>0, <2>4 DEF WorkTurnReturns, Returns, Stuck, Hollow, Narrated, Struck, Closed,
       Finish, Exit, Continue
  <2>5. ASSUME NEW q \in Run, AuditReturns(q) PROVE row'.reason = "stopped_by_hand"
    BY <1>1, <2>0, <2>5, RowFacts DEF AuditReturns
  <2>6. ASSUME NEW u \in Step, Unpark(u) PROVE FALSE
    BY <1>1, <2>6 DEF Unpark
  <2>7. ~Stop
    BY <2>0 DEF Stop
  <2>8. CASE Restart
    BY <1>1, <2>0, <2>8 DEF Restart, Reaped
  <2> QED BY <1>1, <2>1, <2>2, <2>3, <2>4, <2>5, <2>6, <2>7, <2>8 DEF Next, TurnReturns
<1>2. IInv /\ [Next]_vars =>
        [\A r \in Run :
           (pc[r] = "auditing" /\ row.reason = "stopped_by_hand" /\ pc'[r] = "ended")
           => row'.reason = "stopped_by_hand"]_vars
  BY <1>1
<1> QED BY <1>2, Invariance, PTL DEF Spec, StopSurvivesAudit
=============================================================================
