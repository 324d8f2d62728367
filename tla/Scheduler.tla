------------------------------ MODULE Scheduler ------------------------------
(***************************************************************************)
(* The program scheduler (packages/schema/src/scheduler.ts, runProgram): a *)
(* walk of a control-flow graph whose agent and command nodes call         *)
(* injected executors.  The recursion of execFrom is a set of walkers: the *)
(* first call, and one for each branch a parallel node awaits.  A walker   *)
(* keeps its position, the node it stops at (stopAt) and the loops whose   *)
(* body it is in.  The values in the shared state are abstracted: a        *)
(* condition may hold or not each time it is evaluated.                    *)
(***************************************************************************)
EXTENDS Naturals, Sequences, FiniteSets

CONSTANTS
  Node,      \* node ids
  None,      \* no node
  Programs,  \* validated programs
  MaxSteps,  \* opts.maxSteps
  Policies   \* the values of opts.onError

Kind == {"unused", "start", "state", "end", "agent", "checker", "parallel", "branch", "loop"}
EdgeKind == {"seq", "true", "false", "body"}

(* A program: the kinds of its nodes (a command is an agent), the first    *)
(* edge of each kind out of a node, the targets of its parallel edges, and *)
(* the caps of its loops.                                                  *)
Program == [kind : [Node -> Kind], next : [Node -> [EdgeKind -> Node \cup {None}]],
            fan : [Node -> SUBSET Node], max : [Node -> Nat]]

ASSUME NoneAssumption == None \notin Node
ASSUME ProgramsAssumption ==
  /\ Programs \subseteq Program /\ Programs # {}
  /\ \A p \in Programs : \E n \in Node : p.kind[n] = "start"
ASSUME MaxStepsAssumption == MaxSteps \in Nat
ASSUME PoliciesAssumption == Policies \subseteq {"stop-run", "continue-siblings"}

VARIABLES
  prog,      \* the program
  policy,    \* opts.onError
  walker,    \* the walkers, known by the branches they are in
  visited,   \* <<epoch, node>>, visited in this pass
  epoch,     \* visitEpoch
  skip,      \* skipDone: finished before the resume, not walked yet
  results,   \* nodeResults
  steps,     \* node visits, over all segments
  failed,
  halted,
  reason,    \* stopReason
  saved,     \* the last checkpoint
  aborted,   \* the abort signal has fired
  pausing,   \* shouldPause() returns true
  late       \* the deadline has passed

walkVars == <<walker, visited, epoch, skip>>
haltVars == <<failed, halted, reason>>
signalVars == <<aborted, pausing, late>>
recordVars == <<results, steps, saved>>
schedulerVars == <<prog, policy, walkVars, haltVars, signalVars, recordVars>>

Result == {"none", "done", "error"}
Checkpoint == [results : [Node -> Result], steps : 0..MaxSteps]
ASSUME CheckpointAssumption == None \notin Checkpoint
Frame == [head : Node, i : Nat, stop : Node \cup {None}]
Walker == [at : Node \cup {None}, phase : {"enter", "exec", "join", "rejoin", "loop"},
           stop : Node \cup {None}, loops : Seq(Frame)]

SchedulerTypeOK ==
  /\ prog \in Programs
  /\ policy \in Policies
  /\ DOMAIN walker \subseteq Seq(Node) /\ \A t \in DOMAIN walker : walker[t] \in Walker
  /\ visited \subseteq Nat \X Node
  /\ epoch \in Nat
  /\ skip \subseteq Node
  /\ results \in [Node -> Result]
  /\ steps \in 0..MaxSteps
  /\ failed \in BOOLEAN /\ halted \in BOOLEAN
  /\ reason \in {"none", "aborted", "paused", "budget", "time"}
  /\ saved \in Checkpoint \cup {None}
  /\ aborted \in BOOLEAN /\ pausing \in BOOLEAN /\ late \in BOOLEAN
  /\ \A t \in DOMAIN walker : walker[t].phase # "enter" => walker[t].at \in Node

Root == <<>>
StartNode(p) == CHOOSE n \in Node : p.kind[n] = "start"
Walk(n, stop, loops) == [at |-> n, phase |-> "enter", stop |-> stop, loops |-> loops]
NoResults == [n \in Node |-> "none"]

\* runProgram begins from results res, with the nodes of done to skip.
Begin(p, res, n, done) ==
  /\ walker' = [t \in {Root} |-> Walk(StartNode(p), None, <<>>)]
  /\ visited' = {} /\ epoch' = 0 /\ skip' = done
  /\ results' = res /\ steps' = n
  /\ failed' = (\E m \in Node : res[m] = "error")
  /\ halted' = FALSE /\ reason' = "none"
  /\ aborted' = FALSE /\ pausing' = FALSE /\ late' = FALSE

-----------------------------------------------------------------------------
(* Shared pieces of the walk *)

At(t) == walker[t].at
KindAt(t) == prog.kind[At(t)]
Next1(n, e) == prog.next[n][e]
In(t, phase) == t \in DOMAIN walker /\ walker[t].phase = phase
Put(t, w) == walker' = [walker EXCEPT ![t] = w]

\* The call of t goes on, in tail position, with execFrom(n).
Follow(t, n) == Put(t, [walker[t] EXCEPT !.at = n, !.phase = "enter"])

(* The call returns to the loop whose body it was, or to the parallel node *)
(* (or the caller of runProgram) that awaits it.                           *)
BackTo(t, stop, loops) ==
  IF loops = <<>>
  THEN walker' = [u \in DOMAIN walker \ {t} |-> walker[u]]
  ELSE Put(t, [at |-> loops[1].head, phase |-> "loop", stop |-> stop,
               loops |-> <<[loops[1] EXCEPT !.i = @ + 1]>> \o Tail(loops)])
Back(t) == BackTo(t, walker[t].stop, walker[t].loops)

\* Broken variant: steps are not counted against the budget.
TrippedUncapped == halted \/ aborted \/ pausing \/ late

\* Broken variant: the abort signal is not looked at.
TrippedDeaf == halted \/ pausing \/ steps >= MaxSteps \/ late

\* guardTripped(): halted already, or one of the brakes bites.
Tripped == halted \/ aborted \/ pausing \/ steps >= MaxSteps \/ late
TripReason ==
  IF halted THEN reason
  ELSE IF aborted THEN "aborted"
  ELSE IF pausing THEN "paused"
  ELSE IF steps >= MaxSteps THEN "budget" ELSE "time"
Trip == halted' = TRUE /\ reason' = TripReason /\ UNCHANGED failed

\* snapshot(): the checkpoint of the results and steps as they are now.
Snapshot == saved' = [results |-> results', steps |-> steps']

\* Broken variant: done, without a checkpoint.
MarkDoneUnsaved(n) == results' = [results EXCEPT ![n] = "done"] /\ UNCHANGED saved

MarkDone(n) == results' = [results EXCEPT ![n] = "done"] /\ Snapshot

\* Broken variant: only an error that halts the run fails it.
RecordErrorKindly(n) ==
  /\ results' = [results EXCEPT ![n] = "error"] /\ Snapshot
  /\ failed' = (failed \/ policy = "stop-run")
  /\ halted' = (halted \/ policy = "stop-run")
  /\ UNCHANGED reason

RecordError(n) ==
  /\ results' = [results EXCEPT ![n] = "error"] /\ Snapshot
  /\ failed' = TRUE
  /\ halted' = (halted \/ policy = "stop-run")
  /\ UNCHANGED reason

RecordStopped(n, why) ==
  /\ results' = [results EXCEPT ![n] = "error"] /\ Snapshot
  /\ halted' = TRUE /\ reason' = why
  /\ UNCHANGED failed

-----------------------------------------------------------------------------
(* execFrom: the steps a walker takes without waiting *)

\* A call on no node, on stopAt, or after the halt returns at once.
Blocked(t) ==
  /\ In(t, "enter") /\ (halted \/ At(t) \in {None, walker[t].stop})
  /\ Back(t)
  /\ UNCHANGED <<visited, epoch, skip, haltVars, recordVars>>

Enters(t) == In(t, "enter") /\ ~halted /\ At(t) \notin {None, walker[t].stop}

Braked(t) ==
  /\ Enters(t) /\ Tripped
  /\ Trip /\ Back(t)
  /\ UNCHANGED <<visited, epoch, skip, recordVars>>

AlreadyVisited(t) ==
  /\ Enters(t) /\ ~Tripped /\ <<epoch, At(t)>> \in visited
  /\ Back(t)
  /\ UNCHANGED <<visited, epoch, skip, haltVars, recordVars>>

\* Broken variant: the visit is not claimed.
ClaimsUnmarked(t) ==
  /\ Enters(t) /\ ~Tripped /\ <<epoch, At(t)>> \notin visited
  /\ UNCHANGED <<visited, epoch>>

\* The visit is claimed before anything is awaited.
Claims(t) ==
  /\ Enters(t) /\ ~Tripped /\ <<epoch, At(t)>> \notin visited
  /\ visited' = visited \cup {<<epoch, At(t)>>}
  /\ UNCHANGED epoch

Runs(t) == Claims(t) /\ At(t) \notin skip /\ steps' = steps + 1 /\ UNCHANGED skip

\* Each branch of a parallel node is walked up to the join.
FanOut(t, phase) ==
  LET n == At(t)
      child(b) == Append(t, b)
      children == {child(b) : b \in prog.fan[n]}
  IN walker' = [u \in DOMAIN walker \cup children |->
       IF u = t THEN [walker[t] EXCEPT !.phase = phase]
       ELSE IF u \in children THEN Walk(u[Len(u)], Next1(n, "seq"), <<>>) ELSE walker[u]]

Start(t) ==
  /\ Runs(t) /\ KindAt(t) \in {"start", "state"}
  /\ MarkDone(At(t)) /\ Follow(t, Next1(At(t), "seq"))
  /\ UNCHANGED haltVars

End(t) ==
  /\ Runs(t) /\ KindAt(t) = "end"
  /\ MarkDone(At(t)) /\ Back(t)
  /\ UNCHANGED haltVars

\* An agent or command node: its executor is called and awaited.
Launch(t) ==
  /\ Runs(t) /\ KindAt(t) = "agent"
  /\ Put(t, [walker[t] EXCEPT !.phase = "exec"])
  /\ UNCHANGED <<haltVars, results, saved>>

\* A checker's verdict goes into the state, whatever it is.
Check(t) ==
  /\ Runs(t) /\ KindAt(t) = "checker"
  /\ MarkDone(At(t)) /\ Follow(t, Next1(At(t), "seq"))
  /\ UNCHANGED haltVars

Fork(t) ==
  /\ Runs(t) /\ KindAt(t) = "parallel"
  /\ FanOut(t, "join")
  /\ UNCHANGED <<haltVars, results, saved>>

Branch(t) ==
  /\ Runs(t) /\ KindAt(t) = "branch"
  /\ MarkDone(At(t))
  /\ \E e \in {"true", "false"} : Follow(t, Next1(At(t), e))
  /\ UNCHANGED haltVars

Loop(t) ==
  /\ Runs(t) /\ KindAt(t) = "loop"
  /\ Put(t, [walker[t] EXCEPT !.phase = "loop",
               !.loops = <<[head |-> At(t), i |-> 0, stop |-> walker[t].stop]>> \o @])
  /\ UNCHANGED <<haltVars, results, saved>>

(* A node done before the resume is not executed again: its edges are      *)
(* followed.  A branch is evaluated again; a finished loop is left.        *)
FollowCompleted(t) ==
  /\ Claims(t) /\ At(t) \in skip
  /\ skip' = skip \ {At(t)}
  /\ \/ KindAt(t) \in {"start", "state", "agent", "checker", "loop"} /\ Follow(t, Next1(At(t), "seq"))
     \/ KindAt(t) = "end" /\ Back(t)
     \/ KindAt(t) = "parallel" /\ FanOut(t, "rejoin")
     \/ KindAt(t) = "branch" /\ \E e \in {"true", "false"} : Follow(t, Next1(At(t), e))
  /\ UNCHANGED <<haltVars, recordVars>>

\* Promise.all: no branch of t is being walked.
Joined(t) == \A b \in prog.fan[At(t)] : Append(t, b) \notin DOMAIN walker

Join(t) ==
  /\ t \in DOMAIN walker /\ walker[t].phase \in {"join", "rejoin"} /\ Joined(t)
  /\ UNCHANGED <<visited, epoch, skip, steps, haltVars>>
  /\ \/ halted /\ Back(t) /\ UNCHANGED <<results, saved>>
     \/ /\ ~halted /\ Follow(t, Next1(At(t), "seq"))
        /\ IF In(t, "join") THEN MarkDone(At(t)) ELSE UNCHANGED <<results, saved>>

\* The head of the innermost loop: another iteration, in a fresh epoch.
Iterate(t) ==
  LET f == walker[t].loops[1] IN
  /\ In(t, "loop") /\ f.i < prog.max[At(t)] /\ ~Tripped
  /\ epoch' = epoch + 1
  /\ Put(t, [walker[t] EXCEPT !.at = Next1(At(t), "body"), !.phase = "enter", !.stop = f.head])
  /\ UNCHANGED <<visited, skip, haltVars, recordVars>>

\* The loop is left: by its condition or cap, or, halted, without its done.
LeaveLoop(t) ==
  LET f == walker[t].loops[1] IN
  /\ In(t, "loop")
  /\ UNCHANGED <<visited, epoch, skip, steps>>
  /\ \/ /\ ~halted
        /\ MarkDone(At(t))
        /\ Put(t, Walk(Next1(At(t), "seq"), f.stop, Tail(walker[t].loops)))
        /\ UNCHANGED haltVars
     \/ /\ halted \/ (f.i < prog.max[At(t)] /\ Tripped)
        /\ IF halted THEN UNCHANGED haltVars ELSE Trip
        /\ BackTo(t, f.stop, Tail(walker[t].loops))
        /\ UNCHANGED <<results, saved>>

Step(t) ==
  /\ \/ Blocked(t) \/ Braked(t) \/ AlreadyVisited(t) \/ FollowCompleted(t)
     \/ Start(t) \/ End(t) \/ Launch(t) \/ Check(t) \/ Fork(t) \/ Branch(t) \/ Loop(t)
     \/ Join(t) \/ Iterate(t) \/ LeaveLoop(t)
  /\ UNCHANGED <<prog, policy, signalVars>>

\* Without a grounded graph a checker is an error.
CheckFails(t) ==
  /\ Runs(t) /\ KindAt(t) = "checker"
  /\ RecordError(At(t)) /\ Back(t)
  /\ UNCHANGED <<prog, policy, signalVars>>

Ready(t) ==
  \/ In(t, "enter") \/ In(t, "loop")
  \/ t \in DOMAIN walker /\ walker[t].phase \in {"join", "rejoin"} /\ Joined(t)

-----------------------------------------------------------------------------
(* An executor is awaited, raced against the abort signal and the deadline *)

Answers(t) ==
  /\ In(t, "exec")
  /\ UNCHANGED <<prog, policy, visited, epoch, skip, steps, haltVars, signalVars>>
  /\ MarkDone(At(t)) /\ Follow(t, Next1(At(t), "seq"))

\* It resolves { ok: false }, or throws.
Fails(t) ==
  /\ In(t, "exec")
  /\ UNCHANGED <<prog, policy, visited, epoch, skip, steps, signalVars>>
  /\ RecordError(At(t)) /\ Back(t)

\* The abort signal wins the race.
Abandoned(t) ==
  /\ In(t, "exec") /\ aborted
  /\ UNCHANGED <<prog, policy, visited, epoch, skip, steps, signalVars>>
  /\ RecordStopped(At(t), "aborted") /\ Back(t)

\* Broken variant: after a halt nobody watches the clock.
TimesOutUnhalted(t) ==
  /\ In(t, "exec") /\ late /\ ~halted
  /\ UNCHANGED <<prog, policy, visited, epoch, skip, steps, signalVars>>
  /\ RecordStopped(At(t), "time") /\ Back(t)

\* The remaining time budget runs out.
TimesOut(t) ==
  /\ In(t, "exec") /\ late
  /\ UNCHANGED <<prog, policy, visited, epoch, skip, steps, signalVars>>
  /\ RecordStopped(At(t), "time") /\ Back(t)

Deadline ==
  /\ ~late
  /\ late' = TRUE
  /\ UNCHANGED <<prog, policy, walkVars, haltVars, recordVars, aborted, pausing>>

\* The status runProgram returns.
Outcome ==
  IF reason = "paused" THEN "paused"
  ELSE IF reason # "none" THEN "stopped"
  ELSE IF failed THEN "failed" ELSE "completed"
=============================================================================
