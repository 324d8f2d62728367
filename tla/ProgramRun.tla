----------------------------- MODULE ProgramRun -----------------------------
(***************************************************************************)
(* One program run on the server (server/programRunner.ts): the scheduler  *)
(* driven with the record on disk, the doors that cancel, pause, resume    *)
(* and retry it, and the process that may die under it.                    *)
(***************************************************************************)
EXTENDS Scheduler

CONSTANT MaxRestarts  \* resumes and retries; bounds the model

ASSUME MaxRestartsAssumption == MaxRestarts \in Nat

VARIABLES
  live,      \* the run is executing in this process
  over,      \* runProgram has returned
  status,    \* record.status on disk
  restarts,  \* resumes and retries so far
  earned,    \* history: nodes whose last call was answered, until retried
  errored    \* history: an executor or a checker failed

runVars == <<live, over, status, restarts, earned, errored>>
vars == <<schedulerVars, runVars>>

Status == {"running", "completed", "completed-with-violations", "failed", "stopped", "paused"}

TypeOK ==
  /\ SchedulerTypeOK
  /\ live \in BOOLEAN /\ over \in BOOLEAN
  /\ status \in Status
  /\ restarts \in 0..MaxRestarts
  /\ earned \subseteq Node
  /\ errored \in BOOLEAN

\* start(): the record is written and the driver begun.
Init ==
  /\ prog \in Programs
  /\ policy \in Policies
  /\ walker = [t \in {Root} |-> Walk(StartNode(prog), None, <<>>)]
  /\ visited = {} /\ epoch = 0 /\ skip = {}
  /\ results = NoResults /\ steps = 0 /\ saved = None
  /\ failed = FALSE /\ halted = FALSE /\ reason = "none"
  /\ aborted = FALSE /\ pausing = FALSE /\ late = FALSE
  /\ live = TRUE /\ over = FALSE /\ status = "running" /\ restarts = 0
  /\ earned = {} /\ errored = FALSE

-----------------------------------------------------------------------------

WalkStep(t) ==
  /\ live
  /\ Step(t)
  /\ earned' = IF t \in DOMAIN walker' /\ walker'[t].phase = "exec" THEN earned \ {At(t)} ELSE earned
  /\ UNCHANGED <<live, over, status, restarts, errored>>

AnswerStep(t) ==
  /\ live
  /\ Answers(t)
  /\ earned' = earned \cup {At(t)}
  /\ UNCHANGED <<live, over, status, restarts, errored>>

ErrorStep(t) ==
  /\ live
  /\ Fails(t) \/ CheckFails(t)
  /\ errored' = TRUE
  /\ UNCHANGED <<live, over, status, restarts, earned>>

CutStep(t) == live /\ (Abandoned(t) \/ TimesOut(t)) /\ UNCHANGED runVars

DeadlinePasses == live /\ Deadline /\ UNCHANGED runVars

\* The variables of the call of runProgram are gone; only the record stays.
Gone ==
  /\ walker' = << >> /\ visited' = {} /\ epoch' = 0 /\ skip' = {}
  /\ results' = NoResults /\ steps' = 0
  /\ failed' = FALSE /\ halted' = FALSE /\ reason' = "none"
  /\ aborted' = FALSE /\ pausing' = FALSE /\ late' = FALSE
  /\ over' = FALSE /\ live' = FALSE
  /\ UNCHANGED <<prog, policy, saved, restarts, earned, errored>>

\* The executors cannot be made: the run fails before its walk begins.
DriveFails ==
  /\ live /\ visited = {} /\ DOMAIN walker # {}
  /\ status' = "failed"
  /\ Gone

\* runProgram returns, with a last checkpoint.
WalkEnds ==
  /\ live /\ ~over /\ DOMAIN walker = {}
  /\ over' = TRUE
  /\ saved' = [results |-> results, steps |-> steps]
  /\ UNCHANGED <<prog, policy, walkVars, haltVars, signalVars, results, steps,
                 live, status, restarts, earned, errored>>

(* The executors are disposed and the tree measured, which takes time: the *)
(* outcome is committed, and the run is no longer live.  A completed run   *)
(* whose state holds a rejection is renamed.                               *)
RunEnds ==
  /\ live /\ over
  /\ status' \in IF Outcome = "completed" THEN {"completed", "completed-with-violations"} ELSE {Outcome}
  /\ Gone

\* Nothing is left that runs before the next answer, timer or request.
Settled == \A t \in DOMAIN walker : ~Ready(t)

Cancel ==
  /\ live /\ Settled /\ ~aborted
  /\ aborted' = TRUE
  /\ UNCHANGED <<prog, policy, walkVars, haltVars, recordVars, pausing, late, runVars>>

Pause ==
  /\ live /\ Settled /\ ~pausing
  /\ pausing' = TRUE
  /\ UNCHANGED <<prog, policy, walkVars, haltVars, recordVars, aborted, late, runVars>>

\* The process dies with its driver; the record stays as it was.
Crash == live /\ Gone /\ UNCHANGED status

\* reconcile(): a record that says running without a driver is interrupted.
Effective == IF status = "running" THEN "interrupted" ELSE status
Resumable == {"paused", "stopped", "interrupted"}

\* restart(): the checkpoint is picked up, the nodes of again are run anew.
Restart(again) ==
  LET res == [n \in Node |-> IF n \in again THEN "none" ELSE saved.results[n]] IN
  /\ ~live /\ restarts < MaxRestarts
  /\ saved # None
  /\ Begin(prog, res, saved.steps, {n \in Node : saved.results[n] = "done"} \ again)
  /\ live' = TRUE /\ status' = "running" /\ restarts' = restarts + 1
  /\ earned' = earned \ again
  /\ UNCHANGED <<prog, policy, saved, over, errored>>

Resume == Effective \in Resumable /\ Restart({})
Retry ==
  /\ Effective \in Resumable \cup {"failed"}
  /\ \E n \in {m \in Node : prog.kind[m] # "unused"} : Restart({n})

Next ==
  \/ \E t \in DOMAIN walker : WalkStep(t) \/ AnswerStep(t) \/ ErrorStep(t) \/ CutStep(t)
  \/ DeadlinePasses \/ DriveFails \/ WalkEnds \/ RunEnds
  \/ Cancel \/ Pause \/ Crash \/ Resume \/ Retry

(* The event loop runs what is due, and an abort or a timer that is due    *)
(* settles the race.  An executor need never answer, and nobody need stop  *)
(* or resume the run.                                                      *)
Fairness ==
  /\ WF_vars(\E t \in DOMAIN walker : WalkStep(t) \/ (~In(t, "exec") /\ ErrorStep(t)))
  /\ WF_vars(\E t \in DOMAIN walker : CutStep(t))
  /\ WF_vars(WalkEnds \/ RunEnds)

Spec == Init /\ [][Next]_vars
FairSpec == Spec /\ Fairness

-----------------------------------------------------------------------------
(* The graph *)

Succ(p, n) == ({p.next[n][e] : e \in EdgeKind} \cup p.fan[n]) \ {None}

\* The nodes walked from the nodes of from without passing stop.
Reach(p, from, stop) ==
  LET r[k \in Nat] == IF k = 0 THEN from \ {stop, None}
                      ELSE r[k - 1] \cup (UNION {Succ(p, n) : n \in r[k - 1]} \ {stop})
  IN r[Cardinality(Node)]

InLoop == [p \in Programs |->
  UNION {Reach(p, {p.next[h]["body"]}, h) : h \in {n \in Node : p.kind[n] = "loop"}}]

-----------------------------------------------------------------------------
(* Safety *)

\* The nodes whose executor is called in this step.
LaunchedNow(n) ==
  \E t \in DOMAIN walker \cap DOMAIN walker' :
    walker[t].at = n /\ walker[t].phase = "enter" /\ walker'[t].phase = "exec"

(* Single execution (scheduler.ts 36-42) and resume (540-545): a node that *)
(* is done is not executed again, whichever branches reconverge on it and  *)
(* whichever crash or resume lies in between; loop bodies are excepted.    *)
NoSecondRun == [][\A n \in Node \ InLoop[prog] : LaunchedNow(n) => results[n] # "done"]_vars

(* "Stop" stops spend (scheduler.ts 30-34), and the first error halts      *)
(* everything (174): from then on no executor is called, whichever         *)
(* branches are in flight.                                                 *)
StopStopsSpend == [][halted \/ aborted => \A n \in Node : ~LaunchedNow(n)]_vars

(* "keeping sibling successes" (scheduler.ts 118-123): an answer that was  *)
(* paid for is in the checkpoint, whatever failed, stopped or died since.  *)
PaidIsSaved == \A n \in earned : saved # None /\ saved.results[n] = "done"

Completed == status \in {"completed", "completed-with-violations"}

(* "completed = ... no errors" (scheduler.ts 224): the record of a         *)
(* completed run holds no error, of this segment or an earlier one.        *)
CompletedClean == Completed => \A n \in Node : saved.results[n] # "error"

(* "completed = walked to natural end" (scheduler.ts 224): an end node of  *)
(* a completed run is done.                                                *)
CompletedAtEnd == Completed => \E n \in Node : prog.kind[n] = "end" /\ saved.results[n] = "done"

(* "failed = a node errored" (scheduler.ts 224), and a node cut off by a   *)
(* stop or the deadline does not count as one (444-445): when runProgram   *)
(* returns failed, an executor or a checker has failed.                    *)
FailedHasError == live /\ over /\ Outcome = "failed" => errored

-----------------------------------------------------------------------------
(* Liveness *)

(* "NO HANG, FOR REAL" (scheduler.ts 21-34): once Stop is pressed or the   *)
(* time is up, the run ends, although no executor ever answers.            *)
NoHang == live /\ (aborted \/ late) ~> ~live
=============================================================================
