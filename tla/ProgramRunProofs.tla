-------------------------- MODULE ProgramRunProofs --------------------------
(***************************************************************************)
(* What holds of a program run for every program, budget and number of     *)
(* restarts: the types, the step budget over all segments, that nothing is *)
(* launched after Stop or a halt, and that a completed run holds no error; *)
(* and, where no loop opens a pass for branches in flight, that what was   *)
(* paid for is kept and that no node runs twice.                           *)
(***************************************************************************)
EXTENDS ProgramRun, TLAPS

\* A walker at the head of a loop is inside that loop.
LoopInv == \A t \in DOMAIN walker : walker[t].phase = "loop" => walker[t].loops # <<>>

\* An error among the results of the call fails it, or something stopped it.
ErrorInv == live => ((\E n \in Node : results[n] = "error") => failed \/ reason # "none")

\* A call that has returned walks nothing, and its checkpoint is its result.
OverInv == over => live /\ DOMAIN walker = {} /\ saved = [results |-> results, steps |-> steps]

\* The record of a live run says running; that of a completed one is clean.
RecordInv ==
  /\ live => status = "running"
  /\ CompletedClean

IInv == TypeOK /\ LoopInv /\ ErrorInv /\ OverInv /\ RecordInv

-----------------------------------------------------------------------------
(* The parts of the invariant the lemmas speak of *)

WalkerOK(w) ==
  /\ w \in Walker
  /\ w.phase # "enter" => w.at \in Node
  /\ w.phase = "loop" => w.loops # <<>>

WalkersOK ==
  /\ DOMAIN walker \subseteq Seq(Node)
  /\ \A t \in DOMAIN walker : WalkerOK(walker[t])

DataOK ==
  /\ prog \in Programs
  /\ policy \in Policies
  /\ visited \subseteq Nat \X Node
  /\ epoch \in Nat
  /\ skip \subseteq Node
  /\ results \in [Node -> Result]
  /\ steps \in 0..MaxSteps
  /\ failed \in BOOLEAN /\ halted \in BOOLEAN
  /\ reason \in {"none", "aborted", "paused", "budget", "time"}
  /\ saved \in Checkpoint \cup {None}
  /\ aborted \in BOOLEAN /\ pausing \in BOOLEAN /\ late \in BOOLEAN

RunOK ==
  /\ live \in BOOLEAN /\ over \in BOOLEAN
  /\ status \in Status
  /\ restarts \in 0..MaxRestarts
  /\ earned \subseteq Node
  /\ errored \in BOOLEAN

LEMMA Parts == TypeOK /\ LoopInv <=> WalkersOK /\ DataOK /\ RunOK
  BY DEF TypeOK, LoopInv, WalkersOK, WalkerOK, DataOK, RunOK, SchedulerTypeOK

ErrorFact == (\E n \in Node : results[n] = "error") => failed \/ reason # "none"
NoLaunch == \A n \in Node : ~LaunchedNow(n)

-----------------------------------------------------------------------------
(* The walkers *)

\* Replacing one walker by a good one keeps all good.
LEMMA PutKeeps ==
  ASSUME WalkersOK, NEW t \in DOMAIN walker, NEW w, WalkerOK(w), Put(t, w)
  PROVE  WalkersOK' /\ (w.phase # "exec" => NoLaunch)
<1>1. DOMAIN walker' = DOMAIN walker
  BY DEF Put
<1>2. \A u \in DOMAIN walker : walker'[u] = IF u = t THEN w ELSE walker[u]
  BY DEF Put
<1>3. WalkersOK'
  BY <1>1, <1>2 DEF WalkersOK
<1>4. ASSUME w.phase # "exec" PROVE NoLaunch
  BY <1>1, <1>2, <1>4 DEF NoLaunch, LaunchedNow
<1> QED BY <1>3, <1>4

\* A walker that goes on with execFrom(n).
LEMMA FollowKeeps ==
  ASSUME WalkersOK, NEW t \in DOMAIN walker, NEW n \in Node \cup {None}, Follow(t, n)
  PROVE  WalkersOK' /\ NoLaunch
<1> DEFINE w == [walker[t] EXCEPT !.at = n, !.phase = "enter"]
<1>1. walker[t] \in Walker
  BY DEF WalkersOK, WalkerOK
<1>2. w \in Walker /\ w.phase = "enter"
  BY <1>1 DEF Walker
<1>3. WalkerOK(w)
  BY <1>2 DEF WalkerOK
<1>4. Put(t, w)
  BY DEF Follow
<1> HIDE DEF w
<1> QED BY <1>2, <1>3, <1>4, PutKeeps

\* A call that returns.
LEMMA BackToKeeps ==
  ASSUME WalkersOK, NEW t \in DOMAIN walker, NEW stop \in Node \cup {None},
         NEW loops \in Seq(Frame), BackTo(t, stop, loops)
  PROVE  WalkersOK' /\ NoLaunch
<1>1. CASE loops = <<>>
  <2>1. walker' = [u \in DOMAIN walker \ {t} |-> walker[u]]
    BY <1>1 DEF BackTo
  <2>2. WalkersOK'
    BY <2>1 DEF WalkersOK
  <2>3. NoLaunch
    BY <2>1 DEF NoLaunch, LaunchedNow
  <2> QED BY <2>2, <2>3
<1>2. CASE loops # <<>>
  <2> DEFINE f == [loops[1] EXCEPT !.i = @ + 1]
             w == [at |-> loops[1].head, phase |-> "loop", stop |-> stop,
                   loops |-> <<f>> \o Tail(loops)]
  <2>1. loops[1] \in Frame /\ Tail(loops) \in Seq(Frame)
    BY <1>2
  <2>2. f \in Frame
    BY <2>1 DEF Frame
  <2>3. <<f>> \o Tail(loops) \in Seq(Frame) /\ <<f>> \o Tail(loops) # <<>>
    BY <2>1, <2>2
  <2>4. loops[1].head \in Node
    BY <2>1 DEF Frame
  <2>5. w \in Walker /\ w.phase = "loop" /\ w.at \in Node /\ w.loops # <<>>
    BY <2>3, <2>4 DEF Walker
  <2>6. WalkerOK(w)
    BY <2>5 DEF WalkerOK
  <2>7. Put(t, w)
    BY <1>2 DEF BackTo
  <2> HIDE DEF w
  <2> QED BY <2>5, <2>6, <2>7, PutKeeps
<1> QED BY <1>1, <1>2

LEMMA BackKeeps ==
  ASSUME WalkersOK, NEW t \in DOMAIN walker, Back(t)
  PROVE  WalkersOK' /\ NoLaunch
<1>1. walker[t].stop \in Node \cup {None} /\ walker[t].loops \in Seq(Frame)
  BY DEF WalkersOK, WalkerOK, Walker
<1>2. BackTo(t, walker[t].stop, walker[t].loops)
  BY DEF Back
<1> QED BY <1>1, <1>2, BackToKeeps

\* The edges of a program.
LEMMA Edges ==
  ASSUME prog \in Programs, NEW n \in Node
  PROVE  /\ \A e \in EdgeKind : Next1(n, e) \in Node \cup {None}
         /\ prog.fan[n] \subseteq Node
         /\ prog.max[n] \in Nat
  BY ProgramsAssumption DEF Program, Next1

\* A parallel node's branches start their walks.
LEMMA FanOutKeeps ==
  ASSUME WalkersOK, prog \in Programs, NEW t \in DOMAIN walker, At(t) \in Node,
         NEW phase \in {"join", "rejoin"}, FanOut(t, phase)
  PROVE  WalkersOK' /\ NoLaunch
<1> DEFINE n == At(t)
           children == {Append(t, b) : b \in prog.fan[n]}
           parent == [walker[t] EXCEPT !.phase = phase]
           child(u) == Walk(u[Len(u)], Next1(n, "seq"), <<>>)
<1>1. walker' = [u \in DOMAIN walker \cup children |->
                   IF u = t THEN parent ELSE IF u \in children THEN child(u) ELSE walker[u]]
  BY DEF FanOut
<1>2. n \in Node /\ prog.fan[n] \subseteq Node /\ Next1(n, "seq") \in Node \cup {None}
  BY Edges DEF EdgeKind
<1>3. t \in Seq(Node)
  BY DEF WalkersOK
<1>4. \A u \in children : u \in Seq(Node) /\ u[Len(u)] \in Node
  <2> SUFFICES ASSUME NEW b \in prog.fan[n]
               PROVE  Append(t, b) \in Seq(Node) /\ Append(t, b)[Len(Append(t, b))] \in Node
    OBVIOUS
  <2>1. b \in Node
    BY <1>2
  <2>2. Append(t, b) \in Seq(Node) /\ Len(Append(t, b)) = Len(t) + 1
    BY <1>3, <2>1
  <2>3. Append(t, b)[Len(t) + 1] = b
    BY <1>3, <2>1
  <2> QED BY <2>1, <2>2, <2>3
<1>5. WalkerOK(parent) /\ parent.phase # "exec"
  <2>1. walker[t] \in Walker /\ walker[t].at \in Node
    BY <1>2 DEF WalkersOK, WalkerOK, At
  <2>2. parent \in Walker /\ parent.at = walker[t].at /\ parent.phase = phase
    BY <2>1 DEF Walker
  <2> QED BY <2>1, <2>2 DEF WalkerOK
<1>6. \A u \in children : WalkerOK(child(u)) /\ child(u).phase # "exec"
  <2> SUFFICES ASSUME NEW u \in children
               PROVE  WalkerOK(child(u)) /\ child(u).phase # "exec"
    OBVIOUS
  <2>1. u[Len(u)] \in Node
    BY <1>4
  <2>2. <<>> \in Seq(Frame)
    OBVIOUS
  <2> QED BY <1>2, <2>1, <2>2 DEF WalkerOK, Walk, Walker
<1> HIDE DEF n, children, parent, child
<1>7. DOMAIN walker' = DOMAIN walker \cup children
  BY <1>1
<1>8. WalkersOK'
  BY <1>1, <1>4, <1>5, <1>6 DEF WalkersOK
<1>9. NoLaunch
  <2> SUFFICES ASSUME NEW m \in Node, NEW u \in DOMAIN walker \cap DOMAIN walker',
                      walker[u].phase = "enter", walker'[u].phase = "exec"
               PROVE  FALSE
    BY DEF NoLaunch, LaunchedNow
  <2> QED BY <1>1, <1>5, <1>6
<1> QED BY <1>8, <1>9

-----------------------------------------------------------------------------
(* The record *)

RecordOK ==
  /\ results \in [Node -> Result]
  /\ saved \in Checkpoint \cup {None}
  /\ failed \in BOOLEAN /\ halted \in BOOLEAN
  /\ reason \in {"none", "aborted", "paused", "budget", "time"}

LEMMA SnapshotOK ==
  ASSUME results' \in [Node -> Result], steps' \in 0..MaxSteps, Snapshot
  PROVE  saved' \in Checkpoint \cup {None}
  BY DEF Snapshot, Checkpoint

LEMMA MarkDoneKeeps ==
  ASSUME RecordOK, ErrorFact, steps' \in 0..MaxSteps, NEW n, MarkDone(n), UNCHANGED haltVars
  PROVE  RecordOK' /\ ErrorFact'
<1>1. results' \in [Node -> Result]
  BY DEF MarkDone, RecordOK, Result
<1>2. \A m \in Node : results'[m] = "error" => results[m] = "error"
  BY DEF MarkDone, RecordOK
<1>3. saved' \in Checkpoint \cup {None}
  BY <1>1, SnapshotOK DEF MarkDone
<1> QED BY <1>1, <1>2, <1>3 DEF RecordOK, ErrorFact, haltVars

LEMMA RecordErrorKeeps ==
  ASSUME RecordOK, steps' \in 0..MaxSteps, NEW n, RecordError(n)
  PROVE  RecordOK' /\ ErrorFact'
<1>1. results' \in [Node -> Result]
  BY DEF RecordError, RecordOK, Result
<1>2. saved' \in Checkpoint \cup {None}
  BY <1>1, SnapshotOK DEF RecordError
<1>3. failed' = TRUE /\ halted' \in BOOLEAN /\ reason' = reason
  BY DEF RecordError, RecordOK
<1> QED BY <1>1, <1>2, <1>3 DEF RecordOK, ErrorFact

LEMMA RecordStoppedKeeps ==
  ASSUME RecordOK, steps' \in 0..MaxSteps, NEW n, NEW why \in {"aborted", "time"},
         RecordStopped(n, why)
  PROVE  RecordOK' /\ ErrorFact'
<1>1. results' \in [Node -> Result]
  BY DEF RecordStopped, RecordOK, Result
<1>2. saved' \in Checkpoint \cup {None}
  BY <1>1, SnapshotOK DEF RecordStopped
<1> QED BY <1>1, <1>2 DEF RecordStopped, RecordOK, ErrorFact

LEMMA TripKeeps ==
  ASSUME RecordOK, ErrorFact, Trip, UNCHANGED <<results, saved>>
  PROVE  RecordOK' /\ ErrorFact'
<1>1. reason # "none" => TripReason # "none" \/ ~halted
  BY DEF TripReason
<1>2. TripReason \in {"none", "aborted", "paused", "budget", "time"}
  BY DEF TripReason, RecordOK
<1>3. reason # "none" => TripReason # "none"
  BY DEF TripReason
<1> QED BY <1>2, <1>3 DEF Trip, RecordOK, ErrorFact

LEMMA StayKeeps ==
  ASSUME RecordOK, ErrorFact, UNCHANGED <<haltVars, results, saved>>
  PROVE  RecordOK' /\ ErrorFact'
  BY DEF RecordOK, ErrorFact, haltVars

-----------------------------------------------------------------------------
(* The walk *)

\* What a step that enters no node may do to the bookkeeping of the walk.
BooksOK ==
  /\ visited \subseteq Nat \X Node
  /\ epoch \in Nat
  /\ skip \subseteq Node
  /\ steps \in 0..MaxSteps

LEMMA DataParts ==
  DataOK <=> /\ RecordOK /\ BooksOK
             /\ prog \in Programs /\ policy \in Policies
             /\ aborted \in BOOLEAN /\ pausing \in BOOLEAN /\ late \in BOOLEAN
  BY DEF DataOK, RecordOK, BooksOK

\* A node that is entered and claimed.
LEMMA ClaimsKeeps ==
  ASSUME WalkersOK, DataOK, NEW t \in DOMAIN walker, Claims(t)
  PROVE  /\ At(t) \in Node /\ ~halted /\ ~aborted /\ steps < MaxSteps
         /\ visited' \subseteq Nat \X Node /\ epoch' \in Nat
<1>1. walker[t].at \in Node
  BY DEF WalkersOK, WalkerOK, Walker, Claims, Enters, At
<1>2. steps < MaxSteps /\ ~halted /\ ~aborted
  BY MaxStepsAssumption DEF Claims, Tripped, DataOK
<1> QED BY <1>1, <1>2 DEF Claims, At, DataOK

LEMMA RunsKeeps ==
  ASSUME WalkersOK, DataOK, NEW t \in DOMAIN walker, Runs(t)
  PROVE  At(t) \in Node /\ ~halted /\ ~aborted /\ BooksOK'
<1>1. Claims(t) /\ steps' = steps + 1 /\ skip' = skip
  BY DEF Runs
<1>2. /\ At(t) \in Node /\ ~halted /\ ~aborted /\ steps < MaxSteps
      /\ visited' \subseteq Nat \X Node /\ epoch' \in Nat
  BY <1>1, ClaimsKeeps
<1>3. steps' \in 0..MaxSteps
  BY <1>1, <1>2, MaxStepsAssumption DEF DataOK
<1> QED BY <1>1, <1>2, <1>3 DEF BooksOK, DataOK

\* What every step of a walk keeps.
Kept == WalkersOK' /\ BooksOK' /\ RecordOK' /\ ErrorFact'
SpendFree == NoLaunch \/ (~halted /\ ~aborted)

\* The innermost loop of a walker.
LEMMA Innermost ==
  ASSUME NEW loops \in Seq(Frame), loops # <<>>
  PROVE  /\ loops[1] \in Frame /\ Tail(loops) \in Seq(Frame)
         /\ loops[1].head \in Node /\ loops[1].stop \in Node \cup {None}
<1>1. loops[1] \in Frame /\ Tail(loops) \in Seq(Frame)
  OBVIOUS
<1> QED BY <1>1 DEF Frame

LEMMA StepKeeps ==
  ASSUME WalkersOK, DataOK, ErrorFact, NEW t \in DOMAIN walker, Step(t)
  PROVE  Kept /\ SpendFree
<1> USE DEF Kept, SpendFree
<1>0. RecordOK /\ BooksOK /\ prog \in Programs
  BY DataParts
<1>w. walker[t] \in Walker /\ walker[t].stop \in Node \cup {None} /\ walker[t].loops \in Seq(Frame)
  BY DEF WalkersOK, WalkerOK, Walker
<1>s. {"seq", "true", "false", "body"} = EdgeKind
  BY DEF EdgeKind
<1>1. CASE Blocked(t)
  <2>1. WalkersOK' /\ NoLaunch
    BY <1>1, BackKeeps DEF Blocked
  <2>2. BooksOK' /\ RecordOK' /\ ErrorFact'
    BY <1>0, <1>1, StayKeeps DEF Blocked, BooksOK, recordVars
  <2> QED BY <2>1, <2>2
<1>2. CASE Braked(t)
  <2>1. WalkersOK' /\ NoLaunch
    BY <1>2, BackKeeps DEF Braked
  <2>2. BooksOK' /\ RecordOK' /\ ErrorFact'
    BY <1>0, <1>2, TripKeeps DEF Braked, BooksOK, recordVars
  <2> QED BY <2>1, <2>2
<1>3. CASE AlreadyVisited(t)
  <2>1. WalkersOK' /\ NoLaunch
    BY <1>3, BackKeeps DEF AlreadyVisited
  <2>2. BooksOK' /\ RecordOK' /\ ErrorFact'
    BY <1>0, <1>3, StayKeeps DEF AlreadyVisited, BooksOK, recordVars
  <2> QED BY <2>1, <2>2
<1>4. CASE FollowCompleted(t)
  <2>1. At(t) \in Node /\ visited' \subseteq Nat \X Node /\ epoch' \in Nat
    BY <1>4, ClaimsKeeps DEF FollowCompleted
  <2>2. BooksOK' /\ RecordOK' /\ ErrorFact'
    BY <1>0, <1>4, <2>1, StayKeeps DEF FollowCompleted, BooksOK, recordVars
  <2>3. \A e \in EdgeKind : Next1(At(t), e) \in Node \cup {None}
    BY <1>0, <2>1, Edges
  <2>4. WalkersOK' /\ NoLaunch
    BY <1>0, <1>4, <1>s, <2>1, <2>3, FollowKeeps, BackKeeps, FanOutKeeps DEF FollowCompleted
  <2> QED BY <2>2, <2>4
<1>5. CASE Start(t)
  <2>1. At(t) \in Node /\ BooksOK'
    BY <1>5, RunsKeeps DEF Start
  <2>2. RecordOK' /\ ErrorFact'
    BY <1>0, <1>5, <2>1, MarkDoneKeeps DEF Start, BooksOK
  <2>3. WalkersOK' /\ NoLaunch
    BY <1>0, <1>5, <1>s, <2>1, Edges, FollowKeeps DEF Start
  <2> QED BY <2>1, <2>2, <2>3
<1>6. CASE End(t)
  <2>1. BooksOK'
    BY <1>6, RunsKeeps DEF End
  <2>2. RecordOK' /\ ErrorFact'
    BY <1>0, <1>6, <2>1, MarkDoneKeeps DEF End, BooksOK
  <2>3. WalkersOK' /\ NoLaunch
    BY <1>6, BackKeeps DEF End
  <2> QED BY <2>1, <2>2, <2>3
<1>7. CASE Launch(t)
  <2> DEFINE w == [walker[t] EXCEPT !.phase = "exec"]
  <2>1. At(t) \in Node /\ ~halted /\ ~aborted /\ BooksOK'
    BY <1>7, RunsKeeps DEF Launch
  <2>2. RecordOK' /\ ErrorFact'
    BY <1>0, <1>7, StayKeeps DEF Launch
  <2>3. w \in Walker /\ w.at \in Node /\ w.phase = "exec"
    BY <1>w, <2>1 DEF Walker, At
  <2>4. WalkerOK(w) /\ Put(t, w)
    BY <1>7, <2>3 DEF WalkerOK, Launch
  <2> HIDE DEF w
  <2>5. WalkersOK'
    BY <2>4, PutKeeps
  <2> QED BY <2>1, <2>2, <2>5
<1>8. CASE Check(t)
  <2>1. At(t) \in Node /\ BooksOK'
    BY <1>8, RunsKeeps DEF Check
  <2>2. RecordOK' /\ ErrorFact'
    BY <1>0, <1>8, <2>1, MarkDoneKeeps DEF Check, BooksOK
  <2>3. WalkersOK' /\ NoLaunch
    BY <1>0, <1>8, <1>s, <2>1, Edges, FollowKeeps DEF Check
  <2> QED BY <2>1, <2>2, <2>3
<1>9. CASE Fork(t)
  <2>1. At(t) \in Node /\ BooksOK'
    BY <1>9, RunsKeeps DEF Fork
  <2>2. RecordOK' /\ ErrorFact'
    BY <1>0, <1>9, StayKeeps DEF Fork
  <2>3. WalkersOK' /\ NoLaunch
    BY <1>0, <1>9, <2>1, FanOutKeeps DEF Fork
  <2> QED BY <2>1, <2>2, <2>3
<1>10. CASE Branch(t)
  <2>1. At(t) \in Node /\ BooksOK'
    BY <1>10, RunsKeeps DEF Branch
  <2>2. RecordOK' /\ ErrorFact'
    BY <1>0, <1>10, <2>1, MarkDoneKeeps DEF Branch, BooksOK
  <2>3. WalkersOK' /\ NoLaunch
    BY <1>0, <1>10, <1>s, <2>1, Edges, FollowKeeps DEF Branch
  <2> QED BY <2>1, <2>2, <2>3
<1>11. CASE Loop(t)
  <2> DEFINE f == [head |-> At(t), i |-> 0, stop |-> walker[t].stop]
             w == [walker[t] EXCEPT !.phase = "loop", !.loops = <<f>> \o @]
  <2>1. At(t) \in Node /\ BooksOK'
    BY <1>11, RunsKeeps DEF Loop
  <2>2. RecordOK' /\ ErrorFact'
    BY <1>0, <1>11, StayKeeps DEF Loop
  <2>3. f \in Frame
    BY <1>w, <2>1 DEF Frame
  <2>4. <<f>> \o walker[t].loops \in Seq(Frame) /\ <<f>> \o walker[t].loops # <<>>
    BY <1>w, <2>3
  <2>5. w \in Walker /\ w.at \in Node /\ w.phase = "loop" /\ w.loops # <<>>
    BY <1>w, <2>1, <2>4 DEF Walker, At
  <2>6. WalkerOK(w) /\ Put(t, w)
    BY <1>11, <2>5 DEF WalkerOK, Loop
  <2> HIDE DEF w
  <2>7. WalkersOK' /\ NoLaunch
    BY <2>5, <2>6, PutKeeps
  <2> QED BY <2>1, <2>2, <2>7
<1>12. CASE Join(t)
  <2>1. At(t) \in Node
    BY <1>12 DEF Join, WalkersOK, WalkerOK, At
  <2>2. BooksOK' /\ UNCHANGED haltVars
    BY <1>0, <1>12 DEF Join, BooksOK
  <2>3. RecordOK' /\ ErrorFact'
    BY <1>0, <1>12, <2>2, MarkDoneKeeps, StayKeeps DEF Join, BooksOK
  <2>4. WalkersOK' /\ NoLaunch
    BY <1>0, <1>12, <1>s, <2>1, Edges, FollowKeeps, BackKeeps DEF Join
  <2> QED BY <2>2, <2>3, <2>4
<1>13. CASE Iterate(t)
  <2> DEFINE w == [walker[t] EXCEPT !.at = Next1(At(t), "body"), !.phase = "enter",
                                    !.stop = walker[t].loops[1].head]
  <2>1. At(t) \in Node /\ walker[t].loops # <<>>
    BY <1>13 DEF Iterate, In, WalkersOK, WalkerOK, At
  <2>2. BooksOK'
    BY <1>0, <1>13 DEF Iterate, BooksOK, recordVars
  <2>3. RecordOK' /\ ErrorFact'
    BY <1>0, <1>13, StayKeeps DEF Iterate, recordVars
  <2>4. walker[t].loops[1].head \in Node
    BY <1>w, <2>1, Innermost
  <2>5. Next1(At(t), "body") \in Node \cup {None}
    BY <1>0, <1>s, <2>1, Edges
  <2>6. w \in Walker /\ w.phase = "enter"
    BY <1>w, <2>4, <2>5 DEF Walker
  <2>7. WalkerOK(w) /\ Put(t, w)
    BY <1>13, <2>6 DEF WalkerOK, Iterate
  <2> HIDE DEF w
  <2>8. WalkersOK' /\ NoLaunch
    BY <2>6, <2>7, PutKeeps
  <2> QED BY <2>2, <2>3, <2>8
<1>14. CASE LeaveLoop(t)
  <2> DEFINE f == walker[t].loops[1]
             rest == Tail(walker[t].loops)
             w == Walk(Next1(At(t), "seq"), f.stop, rest)
  <2>1. At(t) \in Node /\ walker[t].loops # <<>>
    BY <1>14 DEF LeaveLoop, In, WalkersOK, WalkerOK, At
  <2>2. f \in Frame /\ rest \in Seq(Frame) /\ f.stop \in Node \cup {None}
    BY <1>w, <2>1, Innermost
  <2>3. BooksOK'
    BY <1>0, <1>14 DEF LeaveLoop, BooksOK
  <2>4. CASE ~halted /\ MarkDone(At(t)) /\ Put(t, w) /\ UNCHANGED haltVars
    <3>1. RecordOK' /\ ErrorFact'
      BY <1>0, <2>3, <2>4, MarkDoneKeeps DEF BooksOK
    <3>2. Next1(At(t), "seq") \in Node \cup {None}
      BY <1>0, <1>s, <2>1, Edges
    <3>3. WalkerOK(w) /\ w.phase = "enter"
      BY <2>2, <3>2 DEF WalkerOK, Walk, Walker
    <3> HIDE DEF w
    <3>4. WalkersOK' /\ NoLaunch
      BY <2>4, <3>3, PutKeeps
    <3> QED BY <2>3, <3>1, <3>4
  <2>5. CASE /\ halted \/ Tripped
             /\ IF halted THEN UNCHANGED haltVars ELSE Trip
             /\ BackTo(t, f.stop, rest)
             /\ UNCHANGED <<results, saved>>
    <3>1. RecordOK' /\ ErrorFact'
      BY <1>0, <2>5, TripKeeps, StayKeeps
    <3>2. WalkersOK' /\ NoLaunch
      BY <2>2, <2>5, BackToKeeps
    <3> QED BY <2>3, <3>1, <3>2
  <2> QED BY <1>14, <2>4, <2>5 DEF LeaveLoop
<1> QED BY <1>1, <1>2, <1>3, <1>4, <1>5, <1>6, <1>7, <1>8, <1>9, <1>10, <1>11, <1>12, <1>13, <1>14 DEF Step
\* An executor that answers, fails or is cut off, or a checker that fails.
LEMMA CallKeeps ==
  ASSUME WalkersOK, DataOK, ErrorFact, NEW t \in DOMAIN walker,
         Answers(t) \/ Fails(t) \/ CheckFails(t) \/ Abandoned(t) \/ TimesOut(t)
  PROVE  Kept /\ SpendFree
<1> USE DEF Kept, SpendFree
<1>0. RecordOK /\ BooksOK /\ prog \in Programs
  BY DataParts
<1>1. CASE Answers(t)
  <2>1. At(t) \in Node
    BY <1>1 DEF Answers, In, WalkersOK, WalkerOK, At
  <2>2. BooksOK' /\ RecordOK' /\ ErrorFact'
    BY <1>0, <1>1, MarkDoneKeeps DEF Answers, BooksOK
  <2>3. Next1(At(t), "seq") \in Node \cup {None}
    BY <1>0, <2>1, Edges DEF EdgeKind
  <2>4. WalkersOK' /\ NoLaunch
    BY <1>1, <2>3, FollowKeeps DEF Answers
  <2> QED BY <2>2, <2>4
<1>2. CASE Fails(t)
  <2>1. BooksOK' /\ RecordOK' /\ ErrorFact'
    BY <1>0, <1>2, RecordErrorKeeps DEF Fails, BooksOK
  <2>2. WalkersOK' /\ NoLaunch
    BY <1>2, BackKeeps DEF Fails
  <2> QED BY <2>1, <2>2
<1>3. CASE CheckFails(t)
  <2>1. BooksOK'
    BY <1>3, RunsKeeps DEF CheckFails
  <2>2. RecordOK' /\ ErrorFact'
    BY <1>0, <1>3, <2>1, RecordErrorKeeps DEF CheckFails, BooksOK
  <2>3. WalkersOK' /\ NoLaunch
    BY <1>3, BackKeeps DEF CheckFails
  <2> QED BY <2>1, <2>2, <2>3
<1>4. CASE Abandoned(t)
  <2>1. BooksOK' /\ RecordOK' /\ ErrorFact'
    BY <1>0, <1>4, RecordStoppedKeeps DEF Abandoned, BooksOK
  <2>2. WalkersOK' /\ NoLaunch
    BY <1>4, BackKeeps DEF Abandoned
  <2> QED BY <2>1, <2>2
<1>5. CASE TimesOut(t)
  <2>1. BooksOK' /\ RecordOK' /\ ErrorFact'
    BY <1>0, <1>5, RecordStoppedKeeps DEF TimesOut, BooksOK
  <2>2. WalkersOK' /\ NoLaunch
    BY <1>5, BackKeeps DEF TimesOut
  <2> QED BY <2>1, <2>2
<1> QED BY <1>1, <1>2, <1>3, <1>4, <1>5

-----------------------------------------------------------------------------
(* The run *)

\* A walk begins, or begins again, with its start node.
LEMMA BeginOK ==
  ASSUME NEW p \in Programs,
         walker' = [t \in {Root} |-> Walk(StartNode(p), None, <<>>)]
  PROVE  WalkersOK' /\ DOMAIN walker' = {Root}
<1>1. StartNode(p) \in Node
  BY ProgramsAssumption DEF StartNode
<1>2. <<>> \in Seq(Frame) /\ Root \in Seq(Node)
  BY DEF Root
<1>3. WalkerOK(Walk(StartNode(p), None, <<>>))
  BY <1>1, <1>2 DEF WalkerOK, Walk, Walker
<1>4. \A t \in {Root} : walker'[t] = Walk(StartNode(p), None, <<>>)
  OBVIOUS
<1> QED BY <1>2, <1>3, <1>4 DEF WalkersOK

LEMMA GoneKeeps ==
  ASSUME WalkersOK, DataOK, Gone
  PROVE  WalkersOK' /\ DataOK' /\ ~live' /\ ~over'
<1>1. DOMAIN walker' = {}
  BY DEF Gone
<1>2. WalkersOK'
  BY <1>1 DEF WalkersOK
<1>3. NoResults \in [Node -> Result]
  BY DEF NoResults, Result
<1>4. 0 \in 0..MaxSteps
  BY MaxStepsAssumption
<1> QED BY <1>2, <1>3, <1>4 DEF Gone, DataOK

\* The invariant in the parts the lemmas speak of.
LEMMA Shape ==
  IInv <=> WalkersOK /\ DataOK /\ RunOK /\ ErrorInv /\ OverInv /\ RecordInv
  BY Parts DEF IInv

LEMMA ShapeAfter ==
  WalkersOK' /\ DataOK' /\ RunOK' /\ ErrorInv' /\ OverInv' /\ RecordInv' => IInv'
  BY Shape, PTL

LEMMA InitHolds == Init => IInv
<1> SUFFICES ASSUME Init PROVE IInv
  OBVIOUS
<1>1. WalkersOK
  <2>1. StartNode(prog) \in Node
    BY ProgramsAssumption DEF StartNode, Init
  <2>2. <<>> \in Seq(Frame) /\ Root \in Seq(Node)
    BY DEF Root
  <2>3. WalkerOK(Walk(StartNode(prog), None, <<>>))
    BY <2>1, <2>2 DEF WalkerOK, Walk, Walker
  <2>4. DOMAIN walker = {Root} /\ walker[Root] = Walk(StartNode(prog), None, <<>>)
    BY DEF Init
  <2> QED BY <2>2, <2>3, <2>4 DEF WalkersOK
<1>2. NoResults \in [Node -> Result] /\ \A n \in Node : NoResults[n] = "none"
  BY DEF NoResults, Result
<1>3. 0 \in 0..MaxSteps /\ 0 \in 0..MaxRestarts
  BY MaxStepsAssumption, MaxRestartsAssumption
<1>4. DataOK
  BY <1>2, <1>3 DEF Init, DataOK
<1>5. RunOK
  BY <1>3 DEF Init, RunOK, Status
<1>6. ErrorInv /\ OverInv /\ RecordInv
  BY <1>2 DEF Init, ErrorInv, OverInv, RecordInv, CompletedClean, Completed
<1> QED BY <1>1, <1>4, <1>5, <1>6, Shape

\* What a step of a live walk must show to keep the invariant.
LEMMA WalkKeeps ==
  ASSUME IInv, live, Kept, DOMAIN walker # {},
         UNCHANGED <<prog, policy, signalVars, live, over, status, restarts>>,
         earned' \subseteq Node, errored' \in BOOLEAN
  PROVE  IInv'
<1>1. DataOK /\ RunOK /\ ErrorInv /\ OverInv /\ RecordInv
  BY Shape
<1>2. DataOK'
  BY <1>1, DataParts DEF Kept, DataOK, RecordOK, BooksOK, signalVars
<1>3. RunOK'
  BY <1>1 DEF RunOK
<1>4. ErrorInv'
  BY DEF Kept, ErrorFact, ErrorInv
<1>5. OverInv'
  BY <1>1 DEF OverInv
<1>6. RecordInv'
  BY <1>1 DEF RecordInv, CompletedClean, Completed
<1>7. WalkersOK'
  BY DEF Kept
<1> QED BY <1>2, <1>3, <1>4, <1>5, <1>6, <1>7, ShapeAfter

\* Nothing is launched where nothing enters and nothing waits anew.
LEMMA StillWalkers ==
  ASSUME UNCHANGED walker \/ DOMAIN walker = {} \/ DOMAIN walker' = {}
  PROVE  NoLaunch
<1> SUFFICES ASSUME NEW n \in Node, NEW t \in DOMAIN walker \cap DOMAIN walker',
                    walker[t].phase = "enter", walker'[t].phase = "exec"
             PROVE  FALSE
  BY DEF NoLaunch, LaunchedNow
<1> QED OBVIOUS

LEMMA WalkerStepHolds ==
  ASSUME IInv, NEW t \in DOMAIN walker,
         WalkStep(t) \/ AnswerStep(t) \/ ErrorStep(t) \/ CutStep(t)
  PROVE  IInv' /\ SpendFree
<1>1. WalkersOK /\ DataOK /\ RunOK /\ ErrorInv
  BY Shape
<1>2. live /\ ErrorFact
  BY <1>1 DEF WalkStep, AnswerStep, ErrorStep, CutStep, ErrorInv, ErrorFact
<1>3. /\ UNCHANGED <<prog, policy, signalVars, live, over, status, restarts>>
      /\ errored' \in BOOLEAN
  BY <1>1 DEF WalkStep, AnswerStep, ErrorStep, CutStep, RunOK, runVars, Step,
              Answers, Fails, CheckFails, Abandoned, TimesOut
<1>4. earned' \subseteq Node
  <2>1. earned \subseteq Node
    BY <1>1 DEF RunOK
  <2>2. AnswerStep(t) => At(t) \in Node
    BY <1>1 DEF AnswerStep, Answers, In, WalkersOK, WalkerOK, At
  <2> QED BY <2>1, <2>2 DEF WalkStep, AnswerStep, ErrorStep, CutStep, runVars
<1>5. Kept /\ SpendFree
  <2>1. CASE WalkStep(t)
    BY <1>1, <1>2, <2>1, StepKeeps DEF WalkStep
  <2>2. CASE AnswerStep(t) \/ ErrorStep(t) \/ CutStep(t)
    BY <1>1, <1>2, <2>2, CallKeeps DEF AnswerStep, ErrorStep, CutStep
  <2> QED BY <2>1, <2>2
<1>6. DOMAIN walker # {}
  OBVIOUS
<1> QED BY <1>2, <1>3, <1>4, <1>5, <1>6, WalkKeeps

\* A signal, a cancel or a pause touches nothing else.
LEMMA SignalHolds ==
  ASSUME IInv, DeadlinePasses \/ Cancel \/ Pause
  PROVE  IInv' /\ SpendFree
<1>1. WalkersOK /\ DataOK /\ RunOK /\ ErrorInv /\ OverInv /\ RecordInv
  BY Shape
<1>2. /\ UNCHANGED <<prog, policy, walkVars, haltVars, recordVars, runVars>>
      /\ aborted' \in BOOLEAN /\ pausing' \in BOOLEAN /\ late' \in BOOLEAN
  BY <1>1 DEF DeadlinePasses, Deadline, Cancel, Pause, DataOK
<1>3. WalkersOK' /\ DataOK' /\ RunOK'
  BY <1>1, <1>2 DEF WalkersOK, DataOK, RunOK, walkVars, haltVars, recordVars, runVars
<1>4. ErrorInv' /\ OverInv' /\ RecordInv'
  BY <1>1, <1>2 DEF ErrorInv, OverInv, RecordInv, Completed, CompletedClean,
                    walkVars, haltVars, recordVars, runVars
<1>5. NoLaunch
  BY <1>2 DEF NoLaunch, LaunchedNow, walkVars
<1> QED BY <1>3, <1>4, <1>5, ShapeAfter DEF SpendFree

\* The call of runProgram returns.
LEMMA WalkEndsHolds ==
  ASSUME IInv, WalkEnds
  PROVE  IInv' /\ SpendFree
<1>1. WalkersOK /\ DataOK /\ RunOK /\ ErrorInv /\ OverInv /\ RecordInv
  BY Shape
<1>2. /\ UNCHANGED <<prog, policy, walkVars, haltVars, signalVars, results, steps,
                     live, status, restarts, earned, errored>>
      /\ saved' = [results |-> results, steps |-> steps]
      /\ live /\ over' = TRUE /\ DOMAIN walker = {}
  BY DEF WalkEnds
<1>3. saved' \in Checkpoint
  BY <1>1, <1>2 DEF DataOK, Checkpoint
<1>4. WalkersOK' /\ DataOK' /\ RunOK'
  BY <1>1, <1>2, <1>3 DEF WalkersOK, DataOK, RunOK, walkVars, haltVars, signalVars
<1>5. ErrorInv' /\ OverInv' /\ RecordInv'
  BY <1>1, <1>2 DEF ErrorInv, OverInv, RecordInv, CompletedClean, Completed, walkVars, haltVars
<1>6. NoLaunch
  BY <1>2 DEF NoLaunch, LaunchedNow
<1> QED BY <1>4, <1>5, <1>6, ShapeAfter DEF SpendFree

\* The driver ends, fails to begin, or dies.
LEMMA GoneHolds ==
  ASSUME IInv, RunEnds \/ DriveFails \/ Crash
  PROVE  IInv' /\ SpendFree
<1>1. WalkersOK /\ DataOK /\ RunOK /\ ErrorInv /\ OverInv /\ RecordInv
  BY Shape
<1>2. Gone /\ live
  BY DEF RunEnds, DriveFails, Crash
<1>3. WalkersOK' /\ DataOK' /\ ~live' /\ ~over'
  BY <1>1, <1>2, GoneKeeps
<1>4. saved' = saved /\ restarts' = restarts /\ earned' = earned /\ errored' = errored
  BY <1>2 DEF Gone
<1>5. status = "running" /\ ~Completed
  BY <1>1, <1>2 DEF RecordInv, CompletedClean, Completed
<1>6. status' \in Status /\ (Completed' => RunEnds)
  BY <1>5 DEF RunEnds, DriveFails, Crash, Status, Completed, Outcome
<1>7. RunOK'
  <2>1. live' = FALSE /\ over' = FALSE
    BY <1>2 DEF Gone
  <2> QED BY <1>1, <1>4, <1>6, <2>1 DEF RunOK
<1>8. ErrorInv' /\ OverInv'
  BY <1>3 DEF ErrorInv, OverInv
<1>9. RecordInv'
  <2> SUFFICES ASSUME Completed' PROVE \A n \in Node : saved'.results[n] # "error"
    BY <1>3 DEF RecordInv, CompletedClean
  <2>1. over /\ Outcome = "completed"
    BY <1>6 DEF RunEnds, Completed, Outcome
  <2>2. reason = "none" /\ ~failed
    BY <1>1, <2>1 DEF Outcome
  <2>3. \A n \in Node : results[n] # "error"
    BY <1>1, <1>2, <2>2 DEF ErrorInv
  <2>4. saved = [results |-> results, steps |-> steps]
    BY <1>1, <2>1 DEF OverInv
  <2> QED BY <1>4, <2>3, <2>4
<1>10. NoLaunch
  BY <1>2, StillWalkers DEF Gone
<1> QED BY <1>3, <1>7, <1>8, <1>9, <1>10, ShapeAfter DEF SpendFree

\* A resume or a retry.
LEMMA RestartHolds ==
  ASSUME IInv, Resume \/ Retry
  PROVE  IInv' /\ SpendFree
<1>1. WalkersOK /\ DataOK /\ RunOK /\ ErrorInv /\ OverInv /\ RecordInv
  BY Shape
<1>2. PICK again \in SUBSET Node : Restart(again)
  BY DEF Resume, Retry
<1> DEFINE res == [n \in Node |-> IF n \in again THEN "none" ELSE saved.results[n]]
           done == {n \in Node : saved.results[n] = "done"} \ again
<1>3. /\ ~live /\ restarts < MaxRestarts /\ saved # None
      /\ Begin(prog, res, saved.steps, done)
      /\ live' = TRUE /\ status' = "running" /\ restarts' = restarts + 1
      /\ earned' = earned \ again
      /\ UNCHANGED <<prog, policy, saved, over, errored>>
  BY <1>2 DEF Restart
<1>4. saved.results \in [Node -> Result] /\ saved.steps \in 0..MaxSteps
  BY <1>1, <1>3 DEF DataOK, Checkpoint
<1>5. res \in [Node -> Result] /\ done \subseteq Node
  BY <1>4 DEF Result
<1> HIDE DEF res, done
<1>6. WalkersOK'
  BY <1>1, <1>3, BeginOK DEF Begin, DataOK
<1>7. DataOK'
  BY <1>1, <1>3, <1>4, <1>5 DEF Begin, DataOK
<1>8. RunOK'
  BY <1>1, <1>3, MaxRestartsAssumption DEF RunOK, Status
<1>9. ErrorInv'
  BY <1>3, <1>5 DEF Begin, ErrorInv
<1>10. ~over
  BY <1>1, <1>3 DEF OverInv
<1>11. OverInv' /\ RecordInv'
  BY <1>3, <1>10 DEF OverInv, RecordInv, CompletedClean, Completed
<1>12. SpendFree
  <2> SUFFICES ASSUME NEW n \in Node, NEW t \in DOMAIN walker \cap DOMAIN walker',
                      walker'[t].phase = "exec"
               PROVE  FALSE
    BY DEF SpendFree, NoLaunch, LaunchedNow
  <2>1. DOMAIN walker' = {Root} /\ walker'[Root] = Walk(StartNode(prog), None, <<>>)
    BY <1>3 DEF Begin
  <2> QED BY <2>1 DEF Walk
<1> QED BY <1>6, <1>7, <1>8, <1>9, <1>11, <1>12, ShapeAfter

LEMMA NextHolds == ASSUME IInv, Next PROVE IInv' /\ SpendFree
<1>1. CASE \E t \in DOMAIN walker : WalkStep(t) \/ AnswerStep(t) \/ ErrorStep(t) \/ CutStep(t)
  BY <1>1, WalkerStepHolds
<1>2. CASE DeadlinePasses \/ Cancel \/ Pause
  BY <1>2, SignalHolds
<1>3. CASE WalkEnds
  BY <1>3, WalkEndsHolds
<1>4. CASE RunEnds \/ DriveFails \/ Crash
  BY <1>4, GoneHolds
<1>5. CASE Resume \/ Retry
  BY <1>5, RestartHolds
<1> QED BY <1>1, <1>2, <1>3, <1>4, <1>5 DEF Next

LEMMA StutterHolds == ASSUME IInv, UNCHANGED vars PROVE IInv'
<1>1. WalkersOK /\ DataOK /\ RunOK /\ ErrorInv /\ OverInv /\ RecordInv
  BY Shape
<1> USE DEF vars, schedulerVars, walkVars, haltVars, signalVars, recordVars, runVars
<1>2. WalkersOK' /\ DataOK' /\ RunOK'
  BY <1>1 DEF WalkersOK, DataOK, RunOK
<1>3. ErrorInv' /\ OverInv' /\ RecordInv'
  BY <1>1 DEF ErrorInv, OverInv, RecordInv, Completed, CompletedClean
<1> QED BY <1>2, <1>3, ShapeAfter

-----------------------------------------------------------------------------
(* What was paid for                                                       *)
(*                                                                         *)
(* A loop that starts an iteration opens a new pass for every branch in    *)
(* flight, and two of them may then call the executor of one node at once: *)
(* what the first was answered, the failure of the second takes back.      *)
(* Either without loops or without branches that cannot happen.            *)

LoopFree == \A n \in Node : prog.kind[n] # "loop"
Unforked == \A n \in Node : prog.kind[n] # "parallel"

Awaits(t) == walker[t].phase = "exec"

\* What was earned is in the results and in the checkpoint; the executor
\* awaited at a node, one at most, is to earn it anew.
EarnedInv ==
  \A n \in earned : /\ prog.kind[n] = "agent"
                    /\ saved # None /\ saved.results[n] = "done"
                    /\ live => results[n] = "done"
AwaitInv ==
  /\ \A t \in DOMAIN walker : Awaits(t) => prog.kind[At(t)] = "agent" /\ At(t) \notin earned
  /\ \A t, u \in DOMAIN walker : Awaits(t) /\ Awaits(u) /\ At(t) = At(u) => t = u

\* Without parallel nodes there is one walker; without loops a walker past
\* the entry of its node has visited it in the only pass, and so was
\* every node that is done, or it will be skipped.
AloneInv == Unforked => DOMAIN walker \subseteq {Root}
FramesInv == \A t \in DOMAIN walker : walker[t].phase # "loop" /\ walker[t].loops = <<>>
ClaimedInv == \A t \in DOMAIN walker : walker[t].phase # "enter" => <<epoch, At(t)>> \in visited
DoneInv == live => \A n \in Node : results[n] = "done" => <<epoch, n>> \in visited \/ n \in skip
OnceInv == LoopFree => FramesInv /\ ClaimedInv /\ DoneInv

PaidInv == (LoopFree \/ Unforked) /\ EarnedInv /\ AwaitInv /\ AloneInv /\ OnceInv

\* A step of t leaves the other walkers as they are, or they only begin.
Others(t) ==
  \A u \in DOMAIN walker' \ {t} :
    \/ u \in DOMAIN walker /\ walker'[u] = walker[u]
    \/ walker'[u].phase = "enter" /\ walker'[u].loops = <<>>

LEMMA PutOthers ==
  ASSUME NEW t \in DOMAIN walker, NEW w, Put(t, w)
  PROVE  Others(t) /\ DOMAIN walker' = DOMAIN walker /\ walker'[t] = w
  BY DEF Put, Others

LEMMA FollowOthers ==
  ASSUME WalkersOK, NEW t \in DOMAIN walker, NEW n, Follow(t, n)
  PROVE  /\ Others(t) /\ DOMAIN walker' = DOMAIN walker
         /\ walker'[t].phase = "enter" /\ walker'[t].loops = walker[t].loops
<1> DEFINE w == [walker[t] EXCEPT !.at = n, !.phase = "enter"]
<1>1. walker[t] \in Walker
  BY DEF WalkersOK, WalkerOK
<1>2. w.phase = "enter" /\ w.loops = walker[t].loops
  BY <1>1 DEF Walker
<1>3. Put(t, w)
  BY DEF Follow
<1> HIDE DEF w
<1> QED BY <1>2, <1>3, PutOthers

LEMMA BackToOthers ==
  ASSUME NEW t \in DOMAIN walker, NEW stop, NEW loops, BackTo(t, stop, loops)
  PROVE  /\ Others(t) /\ DOMAIN walker' \subseteq DOMAIN walker
         /\ t \in DOMAIN walker' => loops # <<>> /\ walker'[t].phase = "loop"
<1>1. CASE loops = <<>>
  BY <1>1 DEF BackTo, Others
<1>2. CASE loops # <<>>
  <2> DEFINE w == [at |-> loops[1].head, phase |-> "loop", stop |-> stop,
                   loops |-> <<[loops[1] EXCEPT !.i = @ + 1]>> \o Tail(loops)]
  <2>1. w.phase = "loop"
    OBVIOUS
  <2>2. Put(t, w)
    BY <1>2 DEF BackTo
  <2> HIDE DEF w
  <2> QED BY <1>2, <2>1, <2>2, PutOthers
<1> QED BY <1>1, <1>2

LEMMA FanOutOthers ==
  ASSUME WalkersOK, NEW t \in DOMAIN walker, NEW phase \in {"join", "rejoin"}, FanOut(t, phase)
  PROVE  /\ Others(t)
         /\ walker'[t].phase = phase /\ walker'[t].at = At(t) /\ walker'[t].loops = walker[t].loops
<1> DEFINE children == {Append(t, b) : b \in prog.fan[At(t)]}
           parent == [walker[t] EXCEPT !.phase = phase]
           child(u) == Walk(u[Len(u)], Next1(At(t), "seq"), <<>>)
<1>1. walker' = [u \in DOMAIN walker \cup children |->
                   IF u = t THEN parent ELSE IF u \in children THEN child(u) ELSE walker[u]]
  BY DEF FanOut
<1>2. parent.phase = phase /\ parent.at = At(t) /\ parent.loops = walker[t].loops
  <2>1. walker[t] \in Walker
    BY DEF WalkersOK, WalkerOK
  <2> QED BY <2>1 DEF Walker, At
<1>3. \A u : child(u).phase = "enter" /\ child(u).loops = <<>>
  BY DEF Walk
<1> HIDE DEF children, parent, child
<1> QED BY <1>1, <1>2, <1>3 DEF Others

\* Step t, which calls no executor.
Steady(t) ==
  /\ Others(t)
  /\ Unforked => DOMAIN walker' \subseteq DOMAIN walker
  /\ t \in DOMAIN walker' => walker'[t].phase # "exec"
  /\ LoopFree /\ t \in DOMAIN walker' =>
       /\ walker'[t].phase # "loop" /\ walker'[t].loops = <<>>
       /\ walker'[t].phase # "enter" => walker'[t].at = At(t) /\ <<epoch, At(t)>> \in visited'

Booked ==
  LoopFree => /\ epoch' = epoch /\ visited \subseteq visited'
              /\ \A n \in Node : n \in skip => n \in skip' \/ <<epoch, n>> \in visited'

Marked(t) ==
  \/ UNCHANGED <<results, saved>>
  \/ MarkDone(At(t)) /\ (LoopFree => <<epoch, At(t)>> \in visited')

LEMMA BackSteady ==
  ASSUME WalkersOK, LoopFree => FramesInv, NEW t \in DOMAIN walker, Back(t)
  PROVE  Steady(t)
<1>1. BackTo(t, walker[t].stop, walker[t].loops)
  BY DEF Back
<1>2. /\ Others(t) /\ DOMAIN walker' \subseteq DOMAIN walker
      /\ t \in DOMAIN walker' => walker[t].loops # <<>> /\ walker'[t].phase = "loop"
  BY <1>1, BackToOthers
<1> QED BY <1>2 DEF Steady, FramesInv

LEMMA FollowSteady ==
  ASSUME WalkersOK, LoopFree => FramesInv, NEW t \in DOMAIN walker, NEW n, Follow(t, n)
  PROVE  Steady(t)
  BY FollowOthers DEF Steady, FramesInv

LEMMA ForkSteady ==
  ASSUME WalkersOK, LoopFree => FramesInv, prog \in Programs, NEW t \in DOMAIN walker,
         NEW phase \in {"join", "rejoin"}, FanOut(t, phase),
         At(t) \in Node, KindAt(t) = "parallel", <<epoch, At(t)>> \in visited'
  PROVE  Steady(t)
<1>1. ~Unforked
  BY DEF Unforked, KindAt
<1> QED BY <1>1, FanOutOthers DEF Steady, FramesInv

LEMMA ClaimBooks ==
  ASSUME NEW t \in DOMAIN walker, Claims(t)
  PROVE  epoch' = epoch /\ visited \subseteq visited' /\ <<epoch, At(t)>> \in visited'
  BY DEF Claims

\* Every step of the walk but the call of an executor.
LEMMA StepSteady ==
  ASSUME WalkersOK, DataOK, LoopFree => FramesInv /\ ClaimedInv,
         NEW t \in DOMAIN walker, Step(t), ~Launch(t)
  PROVE  Steady(t) /\ Booked /\ Marked(t)
<1>p. prog \in Programs
  BY DEF DataOK
<1>f. LoopFree => FramesInv
  OBVIOUS
<1>1. CASE Blocked(t) \/ Braked(t) \/ AlreadyVisited(t)
  <2>1. Back(t) /\ UNCHANGED <<visited, epoch, skip, results, saved>>
    BY <1>1 DEF Blocked, Braked, AlreadyVisited, recordVars
  <2>2. Steady(t)
    BY <2>1, <1>f, BackSteady
  <2> QED BY <2>1, <2>2 DEF Booked, Marked
<1>2. CASE FollowCompleted(t)
  <2>1. /\ Claims(t) /\ At(t) \in Node /\ skip' = skip \ {At(t)}
        /\ UNCHANGED <<results, saved>>
    BY <1>2, ClaimsKeeps DEF FollowCompleted, recordVars
  <2>2. epoch' = epoch /\ visited \subseteq visited' /\ <<epoch, At(t)>> \in visited'
    BY <2>1, ClaimBooks
  <2>3. Steady(t)
    <3>1. CASE \E n : Follow(t, n)
      BY <3>1, <1>f, FollowSteady
    <3>2. CASE Back(t)
      BY <3>2, <1>f, BackSteady
    <3>3. CASE KindAt(t) = "parallel" /\ FanOut(t, "rejoin")
      BY <3>3, <1>f, <1>p, <2>1, <2>2, ForkSteady
    <3> QED BY <1>2, <3>1, <3>2, <3>3 DEF FollowCompleted
  <2> QED BY <2>1, <2>2, <2>3 DEF Booked, Marked
<1>3. CASE Start(t) \/ Check(t) \/ Branch(t) \/ End(t) \/ Fork(t) \/ Loop(t)
  <2>1. Runs(t)
    BY <1>3 DEF Start, Check, Branch, End, Fork, Loop
  <2>2. At(t) \in Node /\ Claims(t) /\ skip' = skip
    BY <2>1, RunsKeeps DEF Runs
  <2>3. epoch' = epoch /\ visited \subseteq visited' /\ <<epoch, At(t)>> \in visited'
    BY <2>2, ClaimBooks
  <2>4. Marked(t)
    BY <1>3, <2>3 DEF Start, Check, Branch, End, Fork, Loop, Marked
  <2>5. Steady(t)
    <3>1. CASE Start(t) \/ Check(t) \/ Branch(t)
      <4>1. PICK n : Follow(t, n)
        BY <3>1 DEF Start, Check, Branch
      <4> QED BY <4>1, <1>f, FollowSteady
    <3>2. CASE End(t)
      BY <3>2, <1>f, BackSteady DEF End
    <3>3. CASE Fork(t)
      BY <3>3, <1>f, <1>p, <2>2, <2>3, ForkSteady DEF Fork
    <3>4. CASE Loop(t)
      <4>1. ~LoopFree
        BY <3>4, <2>2 DEF Loop, LoopFree, KindAt
      <4> DEFINE w == [walker[t] EXCEPT !.phase = "loop",
                         !.loops = <<[head |-> At(t), i |-> 0, stop |-> walker[t].stop]>> \o @]
      <4>2. walker[t] \in Walker
        BY DEF WalkersOK, WalkerOK
      <4>3. w.phase = "loop"
        BY <4>2 DEF Walker
      <4>4. Put(t, w)
        BY <3>4 DEF Loop
      <4> HIDE DEF w
      <4>5. Others(t) /\ DOMAIN walker' = DOMAIN walker /\ walker'[t] = w
        BY <4>4, PutOthers
      <4> QED BY <4>1, <4>3, <4>5 DEF Steady
    <3> QED BY <1>3, <3>1, <3>2, <3>3, <3>4
  <2> QED BY <2>2, <2>3, <2>4, <2>5 DEF Booked
<1>4. CASE Join(t)
  <2>1. UNCHANGED <<visited, epoch, skip>> /\ walker[t].phase \in {"join", "rejoin"}
    BY <1>4 DEF Join
  <2>2. LoopFree => <<epoch, At(t)>> \in visited'
    BY <2>1 DEF ClaimedInv
  <2>3. Marked(t)
    BY <1>4, <2>2 DEF Join, Marked
  <2>4. Steady(t)
    <3>1. Back(t) \/ Follow(t, Next1(At(t), "seq"))
      BY <1>4 DEF Join
    <3> QED BY <3>1, <1>f, BackSteady, FollowSteady
  <2> QED BY <2>1, <2>3, <2>4 DEF Booked
<1>5. CASE Iterate(t) \/ LeaveLoop(t)
  <2>1. walker[t].phase = "loop"
    BY <1>5 DEF Iterate, LeaveLoop, In
  <2>2. ~LoopFree
    BY <2>1 DEF FramesInv
  <2>3. Marked(t)
    BY <1>5, <2>2 DEF Iterate, LeaveLoop, Marked, recordVars
  <2>4. /\ Others(t) /\ DOMAIN walker' \subseteq DOMAIN walker
        /\ t \in DOMAIN walker' => walker'[t].phase # "exec"
    <3>1. CASE Iterate(t)
      <4> DEFINE w == [walker[t] EXCEPT !.at = Next1(At(t), "body"), !.phase = "enter",
                                        !.stop = walker[t].loops[1].head]
      <4>1. walker[t] \in Walker
        BY DEF WalkersOK, WalkerOK
      <4>2. w.phase = "enter"
        BY <4>1 DEF Walker
      <4>3. Put(t, w)
        BY <3>1 DEF Iterate
      <4> HIDE DEF w
      <4> QED BY <4>2, <4>3, PutOthers
    <3>2. CASE LeaveLoop(t)
      <4> DEFINE f == walker[t].loops[1]
                 rest == Tail(walker[t].loops)
                 w == Walk(Next1(At(t), "seq"), f.stop, rest)
      <4>1. Put(t, w) \/ BackTo(t, f.stop, rest)
        BY <3>2 DEF LeaveLoop
      <4>2. w.phase = "enter"
        BY DEF Walk
      <4> HIDE DEF f, rest, w
      <4> QED BY <4>1, <4>2, PutOthers, BackToOthers
    <3> QED BY <1>5, <3>1, <3>2
  <2> QED BY <2>2, <2>3, <2>4 DEF Steady, Booked
<1> QED BY <1>1, <1>2, <1>3, <1>4, <1>5 DEF Step

\* The checkpoint taken in this step.
LEMMA SnapshotHas ==
  ASSUME DataOK', Snapshot
  PROVE  saved' # None /\ saved'.results = results'
<1>1. saved' = [results |-> results', steps |-> steps']
  BY DEF Snapshot
<1>2. results' \in [Node -> Result] /\ steps' \in 0..MaxSteps
  BY DEF DataOK
<1>3. saved' \in Checkpoint
  BY <1>1, <1>2 DEF Checkpoint
<1> QED BY <1>1, <1>3, CheckpointAssumption

LEMMA MarkDoneHas ==
  ASSUME DataOK, DataOK', NEW n, MarkDone(n)
  PROVE  /\ \A m \in Node : results[m] = "done" => results'[m] = "done"
         /\ \A m \in Node \ {n} : results'[m] = results[m]
         /\ n \in Node => results'[n] = "done"
         /\ saved' # None /\ saved'.results = results'
<1>1. results' = [results EXCEPT ![n] = "done"] /\ Snapshot
  BY DEF MarkDone
<1>2. results \in [Node -> Result]
  BY DEF DataOK
<1> QED BY <1>1, <1>2, SnapshotHas

\* A node is recorded as an error, because it failed or was cut off.
Spoiled(n) == results' = [results EXCEPT ![n] = "error"] /\ Snapshot

LEMMA SpoiledHas ==
  ASSUME DataOK, DataOK', NEW n, Spoiled(n)
  PROVE  /\ \A m \in Node \ {n} : results'[m] = results[m]
         /\ \A m \in Node : results'[m] = "done" => results[m] = "done"
         /\ saved' # None /\ saved'.results = results'
<1>1. results \in [Node -> Result]
  BY DEF DataOK
<1> QED BY <1>1, SnapshotHas DEF Spoiled

\* A step that calls no executor awaits no more than was awaited.
LEMMA SteadyAwaits ==
  ASSUME NEW t \in DOMAIN walker, Steady(t), NEW u \in DOMAIN walker', Awaits(u)'
  PROVE  u # t /\ u \in DOMAIN walker /\ walker'[u] = walker[u] /\ Awaits(u) /\ At(u)' = At(u)
<1>1. walker'[u].phase = "exec"
  BY DEF Awaits
<1>2. u # t
  BY <1>1 DEF Steady
<1>3. u \in DOMAIN walker /\ walker'[u] = walker[u]
  BY <1>1, <1>2 DEF Steady, Others
<1> QED BY <1>1, <1>2, <1>3 DEF Awaits, At

LEMMA SteadyAlone ==
  ASSUME AloneInv, NEW t \in DOMAIN walker, Steady(t), prog' = prog
  PROVE  AloneInv'
<1>1. Unforked' = Unforked
  BY DEF Unforked
<1> QED BY <1>1 DEF Steady, AloneInv

LEMMA SteadyFrames ==
  ASSUME LoopFree, FramesInv, ClaimedInv, NEW t \in DOMAIN walker, Steady(t), Booked
  PROVE  FramesInv' /\ ClaimedInv'
<1> SUFFICES ASSUME NEW u \in DOMAIN walker'
             PROVE  /\ walker'[u].phase # "loop" /\ walker'[u].loops = <<>>
                    /\ walker'[u].phase # "enter" => <<epoch', walker'[u].at>> \in visited'
  BY DEF FramesInv, ClaimedInv, At
<1>1. CASE u = t
  BY <1>1 DEF Steady, Booked
<1>2. CASE u # t
  <2>1. CASE u \in DOMAIN walker /\ walker'[u] = walker[u]
    BY <2>1 DEF FramesInv, ClaimedInv, Booked, At
  <2>2. CASE walker'[u].phase = "enter" /\ walker'[u].loops = <<>>
    BY <2>2
  <2> QED BY <1>2, <2>1, <2>2 DEF Steady, Others
<1> QED BY <1>1, <1>2

LEMMA BookedDone ==
  ASSUME LoopFree, DoneInv, live, DataOK, NEW t \in DOMAIN walker, Booked,
         \A n \in Node : results'[n] = "done" => results[n] = "done" \/ <<epoch', n>> \in visited'
  PROVE  DoneInv'
<1> SUFFICES ASSUME NEW n \in Node, results'[n] = "done"
             PROVE  <<epoch', n>> \in visited' \/ n \in skip'
  BY DEF DoneInv
<1> QED BY DEF DoneInv, Booked

\* The part that is about a program without loops.
LEMMA OnceKeeps ==
  ASSUME OnceInv, live, DataOK, prog' = prog, NEW t \in DOMAIN walker, Steady(t), Booked,
         LoopFree => \A n \in Node : results'[n] = "done" => results[n] = "done" \/ <<epoch', n>> \in visited'
  PROVE  OnceInv'
<1>1. LoopFree' = LoopFree
  BY DEF LoopFree
<1>2. ASSUME LoopFree PROVE FramesInv' /\ ClaimedInv' /\ DoneInv'
  <2>1. FramesInv /\ ClaimedInv /\ DoneInv
    BY <1>2 DEF OnceInv
  <2>2. FramesInv' /\ ClaimedInv'
    BY <1>2, <2>1, SteadyFrames
  <2>3. \A n \in Node : results'[n] = "done" => results[n] = "done" \/ <<epoch', n>> \in visited'
    BY <1>2
  <2>4. DoneInv'
    BY <1>2, <2>1, <2>3, BookedDone
  <2> QED BY <2>2, <2>4
<1> QED BY <1>1, <1>2 DEF OnceInv

LEMMA PlainStays ==
  ASSUME LoopFree \/ Unforked, prog' = prog
  PROVE  (LoopFree \/ Unforked)'
  BY DEF LoopFree, Unforked

LEMMA WalkPays ==
  ASSUME IInv, IInv', PaidInv, NEW t \in DOMAIN walker, WalkStep(t), ~Launch(t)
  PROVE  PaidInv'
<1>1. WalkersOK /\ DataOK /\ RunOK /\ DataOK'
  <2>1. (WalkersOK /\ DataOK /\ RunOK /\ ErrorInv /\ OverInv /\ RecordInv)'
    BY Shape, PTL
  <2> QED BY <2>1, Shape
<1>2. live /\ live' = live /\ Step(t) /\ prog' = prog
  BY DEF WalkStep, Step
<1>3. LoopFree => FramesInv /\ ClaimedInv
  BY DEF PaidInv, OnceInv
<1>4. Steady(t) /\ Booked /\ Marked(t)
  BY <1>1, <1>2, <1>3, StepSteady
<1>5. earned' = earned
  BY <1>4 DEF WalkStep, Steady
<1>6. /\ \A m \in Node : results[m] = "done" => results'[m] = "done"
      /\ (saved' = saved /\ results' = results) \/ (saved' # None /\ saved'.results = results')
      /\ LoopFree => \A n \in Node : results'[n] = "done" => results[n] = "done" \/ <<epoch', n>> \in visited'
  <2>1. CASE UNCHANGED <<results, saved>>
    BY <2>1
  <2>2. CASE MarkDone(At(t)) /\ (LoopFree => <<epoch, At(t)>> \in visited')
    <3>1. /\ \A m \in Node : results[m] = "done" => results'[m] = "done"
          /\ \A m \in Node \ {At(t)} : results'[m] = results[m]
          /\ saved' # None /\ saved'.results = results'
      BY <1>1, <2>2, MarkDoneHas
    <3>2. LoopFree => epoch' = epoch
      BY <1>4 DEF Booked
    <3> QED BY <2>2, <3>1, <3>2
  <2> QED BY <1>4, <2>1, <2>2 DEF Marked
<1>7. EarnedInv'
  <2>1. earned \subseteq Node
    BY <1>1 DEF RunOK
  <2> QED BY <1>2, <1>5, <1>6, <2>1 DEF PaidInv, EarnedInv
<1>8. AwaitInv'
  BY <1>2, <1>4, <1>5, SteadyAwaits DEF PaidInv, AwaitInv
<1>9. AloneInv'
  BY <1>2, <1>4, SteadyAlone DEF PaidInv
<1>10. OnceInv'
  BY <1>1, <1>2, <1>4, <1>6, OnceKeeps DEF PaidInv
<1> QED BY <1>2, <1>7, <1>8, <1>9, <1>10, PlainStays DEF PaidInv

\* An executor is called: the walkers and the books after it.
LEMMA LaunchDoes ==
  ASSUME WalkersOK, DataOK, NEW t \in DOMAIN walker, Launch(t)
  PROVE  /\ Others(t) /\ DOMAIN walker' = DOMAIN walker /\ walker'[t] = [walker[t] EXCEPT !.phase = "exec"]
         /\ walker'[t].phase = "exec" /\ walker'[t].at = At(t) /\ walker'[t].loops = walker[t].loops
         /\ walker[t].phase = "enter" /\ At(t) \in Node /\ KindAt(t) = "agent" /\ At(t) \notin skip
         /\ <<epoch, At(t)>> \notin visited /\ <<epoch, At(t)>> \in visited'
         /\ epoch' = epoch /\ visited \subseteq visited' /\ skip' = skip
         /\ UNCHANGED <<results, saved>>
<1> DEFINE w == [walker[t] EXCEPT !.phase = "exec"]
<1>1. Runs(t) /\ KindAt(t) = "agent" /\ Put(t, w) /\ UNCHANGED <<results, saved>>
  BY DEF Launch
<1>2. Claims(t) /\ At(t) \notin skip /\ skip' = skip
  BY <1>1 DEF Runs
<1>3. At(t) \in Node
  BY <1>2, ClaimsKeeps
<1>4. walker[t].phase = "enter" /\ <<epoch, At(t)>> \notin visited
  BY <1>2 DEF Claims, Enters, In
<1>5. epoch' = epoch /\ visited \subseteq visited' /\ <<epoch, At(t)>> \in visited'
  BY <1>2, ClaimBooks
<1>6. w.phase = "exec" /\ w.at = At(t) /\ w.loops = walker[t].loops
  <2>1. walker[t] \in Walker
    BY DEF WalkersOK, WalkerOK
  <2> QED BY <2>1 DEF Walker, At
<1>7. Others(t) /\ DOMAIN walker' = DOMAIN walker /\ walker'[t] = w
  BY <1>1, PutOthers
<1> HIDE DEF w
<1>8. w = [walker[t] EXCEPT !.phase = "exec"]
  BY DEF w
<1> QED BY <1>1, <1>2, <1>3, <1>4, <1>5, <1>6, <1>7, <1>8

\* Nobody awaits the node whose executor is called.
LEMMA NobodyAwaits ==
  ASSUME WalkersOK, DataOK, PaidInv, NEW t \in DOMAIN walker, Launch(t),
         NEW u \in DOMAIN walker, Awaits(u)
  PROVE  At(u) # At(t)
<1>1. walker[t].phase = "enter" /\ <<epoch, At(t)>> \notin visited
  BY LaunchDoes
<1>2. CASE LoopFree
  BY <1>1, <1>2 DEF PaidInv, OnceInv, ClaimedInv, Awaits
<1>3. CASE Unforked
  <2>1. u = t
    BY <1>3 DEF PaidInv, AloneInv
  <2> QED BY <1>1, <2>1 DEF Awaits
<1> QED BY <1>2, <1>3 DEF PaidInv

LEMMA LaunchPays ==
  ASSUME IInv, IInv', PaidInv, NEW t \in DOMAIN walker, WalkStep(t), Launch(t)
  PROVE  PaidInv'
<1>1. WalkersOK /\ DataOK /\ RunOK
  BY Shape
<1>2. live /\ live' = live /\ prog' = prog
  BY DEF WalkStep, Step
<1>3. /\ Others(t) /\ DOMAIN walker' = DOMAIN walker
      /\ walker'[t].phase = "exec" /\ walker'[t].at = At(t) /\ walker'[t].loops = walker[t].loops
      /\ walker[t].phase = "enter" /\ At(t) \in Node /\ KindAt(t) = "agent"
      /\ <<epoch, At(t)>> \in visited'
      /\ epoch' = epoch /\ visited \subseteq visited' /\ skip' = skip
      /\ UNCHANGED <<results, saved>>
  BY <1>1, LaunchDoes
<1>4. earned' = earned \ {At(t)}
  BY <1>3 DEF WalkStep
<1>5. EarnedInv'
  BY <1>2, <1>3, <1>4 DEF PaidInv, EarnedInv
<1>6. \A u \in DOMAIN walker' : Awaits(u)' =>
        u = t \/ (u \in DOMAIN walker /\ Awaits(u) /\ At(u)' = At(u) /\ At(u) # At(t))
  <2> SUFFICES ASSUME NEW u \in DOMAIN walker', Awaits(u)', u # t
               PROVE  u \in DOMAIN walker /\ Awaits(u) /\ At(u)' = At(u) /\ At(u) # At(t)
    OBVIOUS
  <2>1. u \in DOMAIN walker /\ walker'[u] = walker[u]
    BY <1>3 DEF Others, Awaits
  <2>2. Awaits(u) /\ At(u)' = At(u)
    BY <2>1 DEF Awaits, At
  <2> QED BY <1>1, <2>1, <2>2, NobodyAwaits
<1>7. AwaitInv'
  <2>1. At(t)' = At(t) /\ prog.kind[At(t)] = "agent"
    BY <1>3 DEF At, KindAt
  <2> QED BY <1>2, <1>4, <1>6, <2>1 DEF PaidInv, AwaitInv
<1>8. AloneInv'
  <2>1. Unforked' = Unforked
    BY <1>2 DEF Unforked
  <2> QED BY <1>3, <2>1 DEF PaidInv, AloneInv
<1>9. OnceInv'
  <2>1. LoopFree' = LoopFree
    BY <1>2 DEF LoopFree
  <2>2. ASSUME LoopFree PROVE FramesInv' /\ ClaimedInv'
    <3>1. FramesInv /\ ClaimedInv
      BY <2>2 DEF PaidInv, OnceInv
    <3> SUFFICES ASSUME NEW u \in DOMAIN walker'
                 PROVE  /\ walker'[u].phase # "loop" /\ walker'[u].loops = <<>>
                        /\ walker'[u].phase # "enter" => <<epoch', walker'[u].at>> \in visited'
      BY DEF FramesInv, ClaimedInv, At
    <3>2. CASE u = t
      BY <1>3, <3>1, <3>2 DEF FramesInv
    <3>3. CASE u # t
      BY <1>3, <3>1, <3>3 DEF Others, FramesInv, ClaimedInv, At
    <3> QED BY <3>2, <3>3
  <2>3. ASSUME LoopFree PROVE DoneInv'
    BY <1>2, <1>3, <2>3 DEF PaidInv, OnceInv, DoneInv
  <2> QED BY <2>1, <2>2, <2>3 DEF OnceInv
<1> QED BY <1>2, <1>5, <1>7, <1>8, <1>9, PlainStays DEF PaidInv

\* An answer is earned, recorded and saved in one step.
LEMMA AnswerPays ==
  ASSUME IInv, IInv', PaidInv, NEW t \in DOMAIN walker, AnswerStep(t)
  PROVE  PaidInv'
<1>1. WalkersOK /\ DataOK /\ RunOK /\ DataOK'
  <2>1. (WalkersOK /\ DataOK /\ RunOK /\ ErrorInv /\ OverInv /\ RecordInv)'
    BY Shape, PTL
  <2> QED BY <2>1, Shape
<1>2. /\ live /\ live' = live /\ prog' = prog /\ Awaits(t) /\ earned' = earned \cup {At(t)}
      /\ MarkDone(At(t)) /\ Follow(t, Next1(At(t), "seq")) /\ UNCHANGED <<visited, epoch, skip>>
  BY DEF AnswerStep, Answers, In, Awaits
<1>3. At(t) \in Node
  BY <1>1, <1>2 DEF WalkersOK, WalkerOK, At, Awaits
<1>4. LoopFree => FramesInv /\ ClaimedInv
  BY DEF PaidInv, OnceInv
<1>5. Steady(t) /\ Booked
  BY <1>1, <1>2, <1>4, FollowSteady DEF Booked
<1>6. /\ \A m \in Node : results[m] = "done" => results'[m] = "done"
      /\ \A m \in Node \ {At(t)} : results'[m] = results[m]
      /\ results'[At(t)] = "done"
      /\ saved' # None /\ saved'.results = results'
  BY <1>1, <1>2, <1>3, MarkDoneHas
<1>7. prog.kind[At(t)] = "agent"
  BY <1>2 DEF PaidInv, AwaitInv
<1>8. EarnedInv'
  <2>1. earned \subseteq Node
    BY <1>1 DEF RunOK
  <2> QED BY <1>2, <1>6, <1>7, <2>1 DEF PaidInv, EarnedInv
<1>9. AwaitInv'
  <2>1. \A u \in DOMAIN walker' : Awaits(u)' =>
          u # t /\ u \in DOMAIN walker /\ Awaits(u) /\ At(u)' = At(u)
    BY <1>5, SteadyAwaits
  <2>2. \A u \in DOMAIN walker : Awaits(u) /\ u # t => At(u) # At(t)
    BY <1>2 DEF PaidInv, AwaitInv
  <2> QED BY <1>2, <2>1, <2>2 DEF PaidInv, AwaitInv
<1>10. AloneInv'
  BY <1>2, <1>5, SteadyAlone DEF PaidInv
<1>11. LoopFree => \A n \in Node : results'[n] = "done" => results[n] = "done" \/ <<epoch', n>> \in visited'
  BY <1>2, <1>4, <1>6 DEF ClaimedInv, Awaits
<1>12. OnceInv'
  BY <1>1, <1>2, <1>5, <1>11, OnceKeeps DEF PaidInv
<1> QED BY <1>2, <1>8, <1>9, <1>10, <1>12, PlainStays DEF PaidInv

\* A failure and a cut spoil a node that was not earned.
LEMMA SpoilPays ==
  ASSUME IInv, IInv', PaidInv, NEW t \in DOMAIN walker, ErrorStep(t) \/ CutStep(t)
  PROVE  PaidInv'
<1>1. WalkersOK /\ DataOK /\ RunOK /\ DataOK'
  <2>1. (WalkersOK /\ DataOK /\ RunOK /\ ErrorInv /\ OverInv /\ RecordInv)'
    BY Shape, PTL
  <2> QED BY <2>1, Shape
<1>2. /\ live /\ live' = live /\ prog' = prog /\ earned' = earned
      /\ Fails(t) \/ CheckFails(t) \/ Abandoned(t) \/ TimesOut(t)
  BY DEF ErrorStep, CutStep, Fails, CheckFails, Abandoned, TimesOut, runVars
<1>3. Back(t) /\ Spoiled(At(t))
  BY <1>2 DEF Fails, CheckFails, Abandoned, TimesOut, RecordError, RecordStopped, Spoiled
<1>4. At(t) \notin earned /\ epoch' = epoch /\ visited \subseteq visited' /\ skip' = skip
  <2>1. CASE CheckFails(t)
    <3>1. Claims(t) /\ skip' = skip /\ prog.kind[At(t)] = "checker"
      BY <2>1 DEF CheckFails, Runs, KindAt
    <3>2. epoch' = epoch /\ visited \subseteq visited'
      BY <3>1, ClaimBooks
    <3> QED BY <3>1, <3>2 DEF PaidInv, EarnedInv
  <2>2. CASE Fails(t) \/ Abandoned(t) \/ TimesOut(t)
    <3>1. Awaits(t) /\ UNCHANGED <<visited, epoch, skip>>
      BY <2>2 DEF Fails, Abandoned, TimesOut, In, Awaits
    <3> QED BY <3>1 DEF PaidInv, AwaitInv
  <2> QED BY <1>2, <2>1, <2>2
<1>5. LoopFree => FramesInv
  BY DEF PaidInv, OnceInv
<1>6. Steady(t) /\ Booked
  BY <1>1, <1>3, <1>4, <1>5, BackSteady DEF Booked
<1>7. /\ \A m \in Node \ {At(t)} : results'[m] = results[m]
      /\ \A m \in Node : results'[m] = "done" => results[m] = "done"
      /\ saved' # None /\ saved'.results = results'
  BY <1>1, <1>3, SpoiledHas
<1>8. EarnedInv'
  <2>1. earned \subseteq Node
    BY <1>1 DEF RunOK
  <2> QED BY <1>2, <1>4, <1>7, <2>1 DEF PaidInv, EarnedInv
<1>9. AwaitInv'
  BY <1>2, <1>6, SteadyAwaits DEF PaidInv, AwaitInv
<1>10. AloneInv'
  BY <1>2, <1>6, SteadyAlone DEF PaidInv
<1>11. OnceInv'
  BY <1>1, <1>2, <1>6, <1>7, OnceKeeps DEF PaidInv
<1> QED BY <1>2, <1>8, <1>9, <1>10, <1>11, PlainStays DEF PaidInv

\* What leaves the walkers and their books alone.
LEMMA StillPays ==
  ASSUME PaidInv, UNCHANGED <<prog, walkVars, results, live, earned>>,
         saved' = saved \/ (live /\ saved' # None /\ saved'.results = results)
  PROVE  PaidInv'
<1> USE DEF walkVars
<1>1. EarnedInv'
  BY DEF PaidInv, EarnedInv
<1>2. AwaitInv'
  BY DEF PaidInv, AwaitInv, Awaits, At
<1>3. AloneInv'
  BY DEF PaidInv, AloneInv, Unforked
<1>4. FramesInv' = FramesInv /\ ClaimedInv' = ClaimedInv /\ DoneInv' = DoneInv /\ LoopFree' = LoopFree
  BY DEF FramesInv, ClaimedInv, DoneInv, LoopFree, At
<1>5. OnceInv'
  BY <1>4 DEF PaidInv, OnceInv
<1> QED BY <1>1, <1>2, <1>3, <1>5, PlainStays DEF PaidInv

LEMMA GonePays == ASSUME PaidInv, Gone PROVE PaidInv'
<1>1. /\ DOMAIN walker' = {} /\ ~live' /\ prog' = prog /\ saved' = saved /\ earned' = earned
  BY DEF Gone
<1>2. EarnedInv' /\ AwaitInv' /\ AloneInv'
  BY <1>1 DEF PaidInv, EarnedInv, AwaitInv, AloneInv
<1>3. OnceInv'
  BY <1>1 DEF OnceInv, FramesInv, ClaimedInv, DoneInv
<1> QED BY <1>1, <1>2, <1>3, PlainStays DEF PaidInv

LEMMA RestartPays == ASSUME IInv, PaidInv, Resume \/ Retry PROVE PaidInv'
<1>1. DataOK /\ RunOK
  BY Shape
<1>2. PICK again \in SUBSET Node : Restart(again)
  BY DEF Resume, Retry
<1> DEFINE res == [n \in Node |-> IF n \in again THEN "none" ELSE saved.results[n]]
           done == {n \in Node : saved.results[n] = "done"} \ again
<1>3. /\ saved # None /\ Begin(prog, res, saved.steps, done)
      /\ earned' = earned \ again /\ UNCHANGED <<prog, saved>>
  BY <1>2 DEF Restart
<1>4. /\ DOMAIN walker' = {Root} /\ walker'[Root] = Walk(StartNode(prog), None, <<>>)
      /\ skip' = done /\ results' = res
  BY <1>3 DEF Begin
<1>5. walker'[Root].phase = "enter" /\ walker'[Root].loops = <<>>
  BY <1>4 DEF Walk
<1>6. EarnedInv'
  <2>1. earned \subseteq Node
    BY <1>1 DEF RunOK
  <2>2. \A n \in earned' : n \in Node /\ n \in earned /\ res[n] = saved.results[n]
    BY <1>3, <2>1
  <2> HIDE DEF res
  <2> QED BY <1>3, <1>4, <2>2 DEF PaidInv, EarnedInv
<1>7. AwaitInv' /\ AloneInv'
  BY <1>4, <1>5 DEF AwaitInv, AloneInv, Awaits
<1>8. \A n \in Node : res[n] = "done" => n \in done
  OBVIOUS
<1> HIDE DEF res, done
<1>9. OnceInv'
  BY <1>4, <1>5, <1>8 DEF OnceInv, FramesInv, ClaimedInv, DoneInv
<1> QED BY <1>3, <1>6, <1>7, <1>9, PlainStays DEF PaidInv

LEMMA PaidInit == ASSUME Init, LoopFree \/ Unforked PROVE PaidInv
<1>1. earned = {} /\ DOMAIN walker = {Root} /\ walker[Root] = Walk(StartNode(prog), None, <<>>)
  BY DEF Init
<1>2. walker[Root].phase = "enter" /\ walker[Root].loops = <<>>
  BY <1>1 DEF Walk
<1>3. \A n \in Node : results[n] = "none"
  BY DEF Init, NoResults
<1> QED BY <1>1, <1>2, <1>3 DEF PaidInv, EarnedInv, AwaitInv, AloneInv, OnceInv,
                               FramesInv, ClaimedInv, DoneInv, Awaits

LEMMA PaidNext == ASSUME IInv, IInv', PaidInv, [Next]_vars PROVE PaidInv'
<1>1. ASSUME NEW t \in DOMAIN walker, WalkStep(t) PROVE PaidInv'
  BY <1>1, WalkPays, LaunchPays
<1>2. ASSUME NEW t \in DOMAIN walker, AnswerStep(t) PROVE PaidInv'
  BY <1>2, AnswerPays
<1>3. ASSUME NEW t \in DOMAIN walker, ErrorStep(t) \/ CutStep(t) PROVE PaidInv'
  BY <1>3, SpoilPays
<1>4. CASE DeadlinePasses \/ Cancel \/ Pause \/ UNCHANGED vars
  <2>1. UNCHANGED <<prog, walkVars, results, live, earned, saved>>
    BY <1>4 DEF DeadlinePasses, Deadline, Cancel, Pause, vars, schedulerVars, runVars,
                walkVars, recordVars
  <2> QED BY <2>1, StillPays
<1>5. CASE WalkEnds
  <2>1. /\ UNCHANGED <<prog, walkVars, results, live, earned>> /\ live
        /\ saved' = [results |-> results, steps |-> steps]
    BY <1>5 DEF WalkEnds
  <2>2. saved' # None /\ saved'.results = results
    <3>1. DataOK
      BY Shape
    <3>2. saved' \in Checkpoint
      BY <2>1, <3>1 DEF DataOK, Checkpoint
    <3> QED BY <2>1, <3>2, CheckpointAssumption
  <2> QED BY <2>1, <2>2, StillPays
<1>6. CASE RunEnds \/ DriveFails \/ Crash
  <2>1. Gone
    BY <1>6 DEF RunEnds, DriveFails, Crash
  <2> QED BY <2>1, GonePays
<1>7. CASE Resume \/ Retry
  BY <1>7, RestartPays
<1> QED BY <1>1, <1>2, <1>3, <1>4, <1>5, <1>6, <1>7 DEF Next

\* Without loops only a node that is not done has its executor called.
LEMMA LaunchesOpen ==
  ASSUME IInv, PaidInv, LoopFree, Next, NEW n \in Node, LaunchedNow(n)
  PROVE  results[n] # "done"
<1>1. WalkersOK /\ DataOK
  BY Shape
<1>2. PICK u \in DOMAIN walker \cap DOMAIN walker' :
        walker[u].at = n /\ walker[u].phase = "enter" /\ walker'[u].phase = "exec"
  BY DEF LaunchedNow
<1>3. PICK t \in DOMAIN walker : WalkStep(t) /\ Launch(t)
  <2>1. \A t \in DOMAIN walker : WalkStep(t) /\ ~Launch(t) => FALSE
    <3> SUFFICES ASSUME NEW t \in DOMAIN walker, WalkStep(t), ~Launch(t) PROVE FALSE
      OBVIOUS
    <3>1. Steady(t)
      BY <1>1, StepSteady DEF WalkStep, PaidInv, OnceInv
    <3>2. Awaits(u)'
      BY <1>2 DEF Awaits
    <3>3. walker'[u] = walker[u]
      BY <1>2, <3>1, <3>2, SteadyAwaits
    <3> QED BY <1>2, <3>3
  <2>2. ~NoLaunch
    BY DEF NoLaunch
  <2>3. \A t \in DOMAIN walker : ~AnswerStep(t) /\ ~ErrorStep(t) /\ ~CutStep(t)
    <3> SUFFICES ASSUME NEW t \in DOMAIN walker, AnswerStep(t) \/ ErrorStep(t) \/ CutStep(t)
                 PROVE  FALSE
      OBVIOUS
    <3>1. Follow(t, Next1(At(t), "seq")) \/ Back(t)
      BY DEF AnswerStep, ErrorStep, CutStep, Answers, Fails, CheckFails, Abandoned, TimesOut
    <3>2. Steady(t)
      BY <1>1, <3>1, FollowSteady, BackSteady DEF PaidInv, OnceInv
    <3>3. walker'[u] = walker[u]
      BY <1>2, <3>2, SteadyAwaits DEF Awaits
    <3> QED BY <1>2, <3>3
  <2>4. CASE DeadlinePasses \/ Cancel \/ Pause \/ WalkEnds \/ RunEnds \/ DriveFails \/ Crash
    <3>1. UNCHANGED walker \/ DOMAIN walker' = {}
      BY <2>4 DEF DeadlinePasses, Deadline, Cancel, Pause, WalkEnds, RunEnds, DriveFails, Crash,
                  Gone, walkVars
    <3> QED BY <2>2, <3>1, StillWalkers
  <2>5. CASE Resume \/ Retry
    <3>1. walker' = [t \in {Root} |-> Walk(StartNode(prog), None, <<>>)]
      BY <2>5 DEF Resume, Retry, Restart, Begin
    <3>2. walker'[u] = Walk(StartNode(prog), None, <<>>)
      BY <1>2, <3>1
    <3> QED BY <1>2, <3>2 DEF Walk
  <2> QED BY <2>1, <2>3, <2>4, <2>5 DEF Next
<1>4. /\ Others(t) /\ At(t) \notin skip /\ <<epoch, At(t)>> \notin visited
  BY <1>1, <1>3, LaunchDoes
<1>5. u = t
  BY <1>2, <1>4 DEF Others
<1>6. live /\ At(t) = n
  BY <1>2, <1>3, <1>5 DEF WalkStep, At
<1> QED BY <1>4, <1>6 DEF PaidInv, OnceInv, DoneInv

\* The program of a run stays.
LEMMA ProgStays == [Next]_vars => prog' = prog
  BY DEF Next, vars, schedulerVars, WalkStep, Step, AnswerStep, Answers, ErrorStep, Fails, CheckFails,
         CutStep, Abandoned, TimesOut, DeadlinePasses, Deadline, DriveFails, WalkEnds, RunEnds, Gone,
         Cancel, Pause, Crash, Resume, Retry, Restart

-----------------------------------------------------------------------------
(* Theorems *)

(* The inductive invariant of a run (programRunner.ts with scheduler.ts):  *)
(* the types and the step budget over all segments, that an error among    *)
(* the results makes the call fail unless something stopped it, that a     *)
(* call that has returned left its results in the checkpoint, and that the *)
(* record of a live run says running.                                      *)
THEOREM Invariance == Spec => []IInv
<1>1. IInv /\ [Next]_vars => IInv'
  BY NextHolds, StutterHolds
<1> QED BY InitHolds, <1>1, PTL DEF Spec

(* The types, the step budget (MaxSteps is never exceeded, whatever was    *)
(* resumed or retried) among them.                                         *)
THEOREM TypeCorrect == Spec => []TypeOK
<1>1. IInv => TypeOK
  BY DEF IInv
<1> QED BY Invariance, <1>1, PTL

(* "completed = ... no errors" (scheduler.ts 224): a record that says      *)
(* completed holds no error, of its last segment or of an earlier one.     *)
THEOREM CompletedWithoutError == Spec => []CompletedClean
<1>1. IInv => CompletedClean
  BY DEF IInv, RecordInv, CompletedClean
<1> QED BY Invariance, <1>1, PTL

(* "Stop" stops spend (scheduler.ts 30-34): once the run is stopped or     *)
(* halted no executor is called, however many branches are in flight.      *)
THEOREM SpendStops == Spec => StopStopsSpend
<1>1. IInv /\ [Next]_vars => [halted \/ aborted => \A n \in Node : ~LaunchedNow(n)]_vars
  BY NextHolds DEF SpendFree, NoLaunch
<1> QED BY Invariance, <1>1, PTL DEF Spec, StopStopsSpend

(* "keeping sibling successes" (scheduler.ts 118-123): in a program that   *)
(* has no loop, or no parallel node, an answer that was paid for is in the *)
(* checkpoint, whatever failed, stopped, died or was resumed since.        *)
THEOREM PlainRunsKeepAnswers == Spec /\ (LoopFree \/ Unforked) => []PaidIsSaved
<1>1. Init /\ (LoopFree \/ Unforked) => PaidInv
  BY PaidInit
<1>2. IInv /\ IInv' /\ PaidInv /\ [Next]_vars => PaidInv'
  BY PaidNext
<1>3. PaidInv => PaidIsSaved
  BY DEF PaidInv, EarnedInv, PaidIsSaved
<1> QED BY <1>1, <1>2, <1>3, Invariance, PTL DEF Spec

(* Single execution (scheduler.ts 36-42) and resume (540-545): in a        *)
(* program without loops no node that is done is executed again, whichever *)
(* branches reconverge on it and whichever crash or resume comes between.  *)
THEOREM LoopFreeRunsOnce == Spec /\ LoopFree => NoSecondRun
<1>1. Init /\ LoopFree => PaidInv /\ LoopFree
  BY PaidInit
<1>2. IInv /\ IInv' /\ PaidInv /\ [Next]_vars => PaidInv'
  BY PaidNext
<1>3. LoopFree /\ [Next]_vars => LoopFree'
  BY ProgStays DEF LoopFree
<1>4. IInv /\ PaidInv /\ LoopFree /\ [Next]_vars =>
        [\A n \in Node \ InLoop[prog] : LaunchedNow(n) => results[n] # "done"]_vars
  BY LaunchesOpen
<1> QED BY <1>1, <1>2, <1>3, <1>4, Invariance, PTL DEF Spec, NoSecondRun
=============================================================================
