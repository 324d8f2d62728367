--------------------------- MODULE AgentTurnProofs ---------------------------
(***************************************************************************)
(* Proofs about the turns of one chat, for every set of turns, processes   *)
(* and questions, every idle limit and every bound on the pages.           *)
(***************************************************************************)
EXTENDS AgentTurn, FiniteSetTheorems, TLAPS

USE AgentTurnAssumption

TurnState == [phase : {"new", "queued", "live", "ending", "over"}, aborted : BOOLEAN,
              stop : {"off", "set", "fired"}, wrote : BOOLEAN,
              answered : {"no", "queued", "live", "ending"},
              watch : {"none", "running", "paused", "hung", "stopped"}, pauses : Nat, age : 0..IdleTicks]

\* A turn with one of its fields set.
LEMMA FieldTypes ==
  ASSUME NEW r \in TurnState
  PROVE  /\ \A v \in {"new", "queued", "live", "ending", "over"} : [r EXCEPT !.phase = v] \in TurnState
         /\ \A v \in BOOLEAN : [r EXCEPT !.aborted = v] \in TurnState /\ [r EXCEPT !.wrote = v] \in TurnState
         /\ \A v \in {"no", "queued", "live", "ending"} : [r EXCEPT !.answered = v] \in TurnState
         /\ \A v \in {"none", "running", "paused", "hung", "stopped"} : [r EXCEPT !.watch = v] \in TurnState
         /\ \A v \in Nat : [r EXCEPT !.pauses = v] \in TurnState
         /\ \A v \in 0..IdleTicks : [r EXCEPT !.age = v] \in TurnState
BY DEF TurnState

\* A pause that is released was counted.
PausedIsCounted == \A t \in Turn : turn[t].watch = "paused" => turn[t].pauses > 0

\* What a stop does to the state of a turn.
LEMMA StoppedKeeps ==
  ASSUME NEW r \in TurnState
  PROVE  /\ Stopped(r) \in TurnState
         /\ Stopped(r).aborted
         /\ Stopped(r).phase = r.phase /\ Stopped(r).watch = r.watch
         /\ Stopped(r).pauses = r.pauses /\ Stopped(r).age = r.age
         /\ Stopped(r).answered = r.answered
         /\ Stopped(r).stop = IF r.phase = "live" /\ r.stop = "off" THEN "set" ELSE r.stop
BY DEF Stopped, TurnState

\* What the release of a pause does to it.
LEMMA ReleasedKeeps ==
  ASSUME NEW r \in TurnState, r.watch = "paused" => r.pauses > 0
  PROVE  /\ Released(r) \in TurnState
         /\ Released(r).aborted = r.aborted /\ Released(r).stop = r.stop
         /\ Released(r).phase = r.phase /\ Released(r).answered = r.answered
         /\ r.watch # "paused" => Released(r) = r
         /\ r.watch = "paused" /\ r.pauses = 1 =>
              Released(r).watch = "running" /\ Released(r).pauses = 0 /\ Released(r).age = 0
         /\ r.watch = "paused" /\ r.pauses # 1 =>
              Released(r).watch = "paused" /\ Released(r).pauses = r.pauses - 1
<1>1. r.pauses \in Nat /\ (r.watch = "paused" /\ r.pauses # 1 => r.pauses - 1 \in Nat)
  BY DEF TurnState
<1>2. 0 \in 0..IdleTicks /\ 0 \in Nat
  OBVIOUS
<1> QED BY <1>1, <1>2 DEF Released, TurnState

LEMMA UnsentType == Unsent \in TurnState /\ [Unsent EXCEPT !.phase = "queued"] \in TurnState
                    /\ [Unsent EXCEPT !.phase = "over"] \in TurnState
<1>1. 0 \in 0..IdleTicks /\ 0 \in Nat
  OBVIOUS
<1> QED BY <1>1 DEF Unsent, TurnState

-----------------------------------------------------------------------------
(* Types *)

\* The types a step that leaves the agent's thread alone keeps.
ThreadOK ==
  /\ agent \in [{Chat} -> Process \cup {None}] /\ user \in [{Chat} -> Turn \cup {None}]
  /\ spent \subseteq Process /\ shut = FALSE

ChannelOK == channel \in [Turn -> [pages : 0..MaxPages, grace : BOOLEAN, abandoned : BOOLEAN]]

QuestionOK == question \in [Question -> [phase : {"new", "open", "over"}, of : Turn \cup {None},
                                         via : Turn \cup {None}, holds : BOOLEAN]]

LEMMA TurnTypeParts ==
  TurnTypeOK <=>
    /\ ThreadOK /\ turn \in [Turn -> TurnState] /\ ChannelOK /\ QuestionOK
    /\ sink \in Turn \cup {None} /\ previous \in [Turn -> Turn \cup {None}]
    /\ doomed \in BOOLEAN /\ still \in [Turn -> 0..IdleTicks] /\ crossed \subseteq Turn
BY DEF TurnTypeOK, ThreadOK, TurnState, ChannelOK, QuestionOK

LEMMA TypePartsNext ==
  TurnTypeOK' <=>
    /\ ThreadOK' /\ turn' \in [Turn -> TurnState] /\ ChannelOK' /\ QuestionOK'
    /\ sink' \in Turn \cup {None} /\ previous' \in [Turn -> Turn \cup {None}]
    /\ doomed' \in BOOLEAN /\ still' \in [Turn -> 0..IdleTicks] /\ crossed' \subseteq Turn
BY DEF TurnTypeOK, ThreadOK, TurnState, ChannelOK, QuestionOK

\* What the steps of the agent's thread do to its types.
LEMMA ThreadSteps ==
  ASSUME ThreadOK
  PROVE  /\ UNCHANGED threadVars => ThreadOK'
         /\ \A p \in Process : Agent!Start(Chat, p) => ThreadOK'
         /\ Agent!Exit(Chat) => ThreadOK'
         /\ \A t \in Turn : Agent!Begin(Chat, t) => ThreadOK'
         /\ Agent!End(Chat) => ThreadOK'
BY DEF ThreadOK, threadVars, Agent!Start, Agent!Exit, Agent!Begin, Agent!End

LEMMA TypeStep ==
  ASSUME TurnTypeOK, PausedIsCounted, [TurnNext]_turnVars
  PROVE  TurnTypeOK'
<1>0. /\ ThreadOK /\ turn \in [Turn -> TurnState] /\ ChannelOK /\ QuestionOK
      /\ sink \in Turn \cup {None} /\ previous \in [Turn -> Turn \cup {None}]
      /\ doomed \in BOOLEAN /\ still \in [Turn -> 0..IdleTicks] /\ crossed \subseteq Turn
  BY TurnTypeParts
<1>n. 0 \in 0..IdleTicks /\ IdleTicks \in 0..IdleTicks /\ \A i \in 0..IdleTicks : i < IdleTicks => i + 1 \in 0..IdleTicks
  OBVIOUS
<1>1. ASSUME NEW t \in Turn, Send(t) PROVE TurnTypeOK'
  <2>1. turn' \in [Turn -> TurnState]
    BY <1>0, <1>1, UnsentType, StoppedKeeps DEF Send
  <2> QED BY <1>0, <1>1, <2>1, ThreadSteps, TypePartsNext DEF Send, ChannelOK, QuestionOK
<1>2. ASSUME NEW t \in Turn, TurnStarts(t) PROVE TurnTypeOK'
  <2>1. turn' \in [Turn -> TurnState]
    BY <1>0, <1>2 DEF TurnStarts, TurnState
  <2> QED BY <1>0, <1>2, <2>1, ThreadSteps, TypePartsNext DEF TurnStarts, ChannelOK, QuestionOK
<1>3. ASSUME NEW t \in Turn, TurnWatched(t) PROVE TurnTypeOK'
  <2>0. turn' = [turn EXCEPT ![t] = [[turn[t] EXCEPT !.watch = "running"] EXCEPT !.age = 0]]
    BY <1>0, <1>3 DEF TurnWatched
  <2>a. turn[t] \in TurnState
    BY <1>0
  <2>b. [[turn[t] EXCEPT !.watch = "running"] EXCEPT !.age = 0] \in TurnState
    BY <1>n, <2>a, FieldTypes
  <2>1. turn' \in [Turn -> TurnState]
    BY <1>0, <2>0, <2>b
  <2> QED BY <1>0, <1>n, <1>3, <2>1, ThreadSteps, TypePartsNext DEF TurnWatched, ChannelOK, QuestionOK
<1>4. ASSUME NEW t \in Turn, Progresses(t) PROVE TurnTypeOK'
  <2>1. turn' \in [Turn -> TurnState]
    BY <1>0, <1>n, <1>4 DEF Progresses, TurnState
  <2> QED BY <1>0, <1>n, <1>4, <2>1, ThreadSteps, TypePartsNext DEF Progresses, ChannelOK, QuestionOK
<1>5. ASSUME NEW t \in Turn, Answered(t) PROVE TurnTypeOK'
  <2>1. [turn[t] EXCEPT !.answered = turn[t].phase, !.wrote = FALSE] \in TurnState
    <3>1. turn[t] \in TurnState /\ turn[t].phase \in {"no", "queued", "live", "ending"}
      BY <1>0, <1>5 DEF Answered, Waits
    <3>2. [[turn[t] EXCEPT !.answered = turn[t].phase] EXCEPT !.wrote = FALSE] \in TurnState
      BY <3>1, FieldTypes
    <3> QED BY <3>2
  <2>2. turn' \in [Turn -> TurnState]
    BY <1>0, <1>5, <2>1, StoppedKeeps DEF Answered
  <2> QED BY <1>0, <1>5, <2>2, ThreadSteps, TypePartsNext DEF Answered, ChannelOK, QuestionOK
<1>6. ASSUME NEW t \in Turn, Hangs(t) PROVE TurnTypeOK'
  <2>0. turn' = [turn EXCEPT ![t] = [[turn[t] EXCEPT !.watch = "hung"] EXCEPT !.aborted = TRUE]]
    BY <1>0, <1>6 DEF Hangs
  <2>a. turn[t] \in TurnState
    BY <1>0
  <2>b. [[turn[t] EXCEPT !.watch = "hung"] EXCEPT !.aborted = TRUE] \in TurnState
    BY <1>n, <2>a, FieldTypes
  <2>1. turn' \in [Turn -> TurnState]
    BY <1>0, <2>0, <2>b
  <2> QED BY <1>0, <1>6, <2>1, ThreadSteps, TypePartsNext DEF Hangs, ChannelOK, QuestionOK
<1>7. ASSUME NEW t \in Turn, PressesStop(t) PROVE TurnTypeOK'
  <2>1. turn' \in [Turn -> TurnState]
    BY <1>0, <1>7, StoppedKeeps DEF PressesStop
  <2> QED BY <1>0, <1>7, <2>1, ThreadSteps, TypePartsNext DEF PressesStop, ChannelOK, QuestionOK
<1>8. ASSUME NEW t \in Turn, GraceKills(t) PROVE TurnTypeOK'
  <2>1. turn' \in [Turn -> TurnState]
    BY <1>0, <1>8 DEF GraceKills, TurnState
  <2> QED BY <1>0, <1>8, <2>1, ThreadSteps, TypePartsNext DEF GraceKills, ChannelOK, QuestionOK
<1>9. ASSUME NEW t \in Turn, PromptEnds(t) PROVE TurnTypeOK'
  <2>0. turn' = [turn EXCEPT ![t] = [[turn[t] EXCEPT !.phase = "ending"] EXCEPT !.watch = IF turn[t].watch = "hung" THEN "hung" ELSE "stopped"]]
    BY <1>0, <1>9 DEF PromptEnds
  <2>a. turn[t] \in TurnState
    BY <1>0
  <2>b. [[turn[t] EXCEPT !.phase = "ending"] EXCEPT !.watch = IF turn[t].watch = "hung" THEN "hung" ELSE "stopped"] \in TurnState
    BY <1>n, <2>a, FieldTypes
  <2>1. turn' \in [Turn -> TurnState]
    BY <1>0, <2>0, <2>b
  <2> QED BY <1>0, <1>9, <2>1, ThreadSteps, TypePartsNext DEF PromptEnds, ChannelOK, QuestionOK
<1>10. ASSUME NEW t \in Turn, Finishes(t) PROVE TurnTypeOK'
  <2>1. turn' \in [Turn -> TurnState]
    BY <1>0, <1>10, UnsentType DEF Finishes
  <2>2. ChannelOK'
    <3>1. channel[t].abandoned \in BOOLEAN /\ 1 \in 0..MaxPages
      BY <1>0 DEF ChannelOK
    <3>2. [Watched EXCEPT !.abandoned = channel[t].abandoned] \in
            [pages : 0..MaxPages, grace : BOOLEAN, abandoned : BOOLEAN]
      BY <3>1 DEF Watched
    <3> QED BY <1>0, <1>10, <3>2 DEF Finishes, ChannelOK
  <2> QED BY <1>0, <1>n, <1>10, <2>1, <2>2, ThreadSteps, TypePartsNext DEF Finishes, QuestionOK
<1>11. ASSUME NEW t \in Turn, Leaves(t) \/ Attach(t) PROVE TurnTypeOK'
  <2>1. ChannelOK'
    BY <1>0, <1>11 DEF Leaves, Attach, ChannelOK
  <2> QED BY <1>0, <1>11, <2>1, ThreadSteps, TypePartsNext DEF Leaves, Attach, QuestionOK
<1>12. ASSUME NEW t \in Turn, Abandoned(t) PROVE TurnTypeOK'
  <2>1. /\ Stopped(turn[t]) \in TurnState
        /\ [Stopped(turn[t]) EXCEPT !.watch = "running", !.pauses = 0, !.age = 0] \in TurnState
    <3>1. turn[t] \in TurnState /\ Stopped(turn[t]) \in TurnState
      BY <1>0, StoppedKeeps
    <3>2. [[[Stopped(turn[t]) EXCEPT !.watch = "running"] EXCEPT !.pauses = 0] EXCEPT !.age = 0] \in TurnState
      BY <1>n, <3>1, FieldTypes
    <3> QED BY <3>1, <3>2
  <2>2. turn' \in [Turn -> TurnState]
    BY <1>0, <1>12, <2>1 DEF Abandoned
  <2>3. ChannelOK'
    BY <1>0, <1>12 DEF Abandoned, ChannelOK
  <2>4. QuestionOK'
    BY <1>0, <1>12 DEF Abandoned, QuestionOK, AskedAlready, Unasked
  <2>5. still' \in [Turn -> 0..IdleTicks]
    BY <1>0, <1>n, <1>12 DEF Abandoned
  <2> QED BY <1>0, <1>12, <2>2, <2>3, <2>4, <2>5, ThreadSteps, TypePartsNext DEF Abandoned
<1>13. ASSUME NEW t \in Turn, NEW q \in Question, Asks(t, q) PROVE TurnTypeOK'
  <2>1. turn' \in [Turn -> TurnState]
    BY <1>0, <1>13 DEF Asks, TurnState
  <2>2. QuestionOK'
    BY <1>0, <1>13 DEF Asks, QuestionOK
  <2> QED BY <1>0, <1>13, <2>1, <2>2, ThreadSteps, TypePartsNext DEF Asks, ChannelOK
<1>14. ASSUME NEW q \in Question, Settles(q) PROVE TurnTypeOK'
  <2>1. turn' \in [Turn -> TurnState]
    <3>1. \A v \in Turn : Released(turn[v]) \in TurnState
      BY <1>0, ReleasedKeeps DEF PausedIsCounted
    <3>2. turn' = turn \/ turn' = [turn EXCEPT ![question[q].via] = Released(turn[question[q].via])]
      BY <1>0, <1>14 DEF Settles
    <3> QED BY <1>0, <3>1, <3>2
  <2>2. QuestionOK'
    BY <1>0, <1>14 DEF Settles, QuestionOK, AskedAlready, Unasked
  <2>3. still' \in [Turn -> 0..IdleTicks]
    BY <1>0, <1>n, <1>14 DEF Settles
  <2> QED BY <1>0, <1>14, <2>1, <2>2, <2>3, ThreadSteps, TypePartsNext DEF Settles, ChannelOK
<1>15. ASSUME NEW p \in Process, AgentStarts(p) PROVE TurnTypeOK'
  BY <1>0, <1>15, ThreadSteps, TypePartsNext DEF AgentStarts, ChannelOK, QuestionOK
<1>16. CASE AgentExits
  BY <1>0, <1>16, ThreadSteps, TypePartsNext DEF AgentExits, ChannelOK, QuestionOK
<1>17. CASE Tick
  <2>1. turn' \in [Turn -> TurnState]
    BY <1>0, <1>n, <1>17 DEF Tick, TurnState
  <2>2. still' \in [Turn -> 0..IdleTicks]
    BY <1>0, <1>n, <1>17 DEF Tick
  <2> QED BY <1>0, <1>17, <2>1, <2>2, ThreadSteps, TypePartsNext DEF Tick, ChannelOK, QuestionOK
<1>18. CASE UNCHANGED turnVars
  BY <1>0, <1>18, ThreadSteps, TypePartsNext DEF turnVars, ChannelOK, QuestionOK
<1> QED
  BY <1>1, <1>2, <1>3, <1>4, <1>5, <1>6, <1>7, <1>8, <1>9, <1>10, <1>11, <1>12, <1>13, <1>14,
     <1>15, <1>16, <1>17, <1>18 DEF TurnNext

-----------------------------------------------------------------------------
(* The inductive invariant *)

\* Open questions that hold the watchdog of a turn.
Held(t) == {q \in Question : question[q].phase = "open" /\ question[q].via = t /\ question[q].holds}

\* The countdown of a turn stands still exactly while questions hold it, and
\* they are counted: no release is missing and none comes twice.
HoldInv ==
  \A t \in Turn : ~Is(t, "over") /\ turn[t].watch \in {"none", "running", "paused"} =>
    /\ IsFiniteSet(Held(t)) /\ turn[t].pauses = Cardinality(Held(t))
    /\ turn[t].watch = "paused" <=> Held(t) # {}

\* The watchdog of a turn goes with its phase; a turn not sent yet has its page.
PhaseInv ==
  \A t \in Turn :
    /\ turn[t].watch \in {"running", "paused"} => Is(t, "live")
    /\ Is(t, "over") => turn[t].watch = "none"
    /\ Is(t, "ending") => turn[t].watch \in {"hung", "stopped"}
    /\ Is(t, "new") => turn[t].watch = "none" /\ channel[t].pages > 0

\* A question of a turn that nobody else heard is shown by that turn and holds it.
AskInv ==
  \A q \in Question : question[q].phase = "open" =>
    /\ question[q].of \in Turn /\ question[q].via \in Turn
    /\ ~Is(question[q].of, "over") /\ question[q].of \notin crossed =>
         question[q].via = question[q].of /\ question[q].holds

\* The countdown is not ahead of the time the agent has been still.
AgeInv == \A t \in Turn \ crossed : turn[t].watch = "running" => turn[t].age <= still[t]

\* No turn drives a process that is gone, and only a stopped turn has a grace.
StopInv ==
  /\ agent[Chat] = None => user[Chat] = None
  /\ \A t \in Turn : turn[t].stop # "off" => turn[t].aborted

\* A turn in the queue was not answered while it ran.
AnswerInv == \A t \in Turn : Is(t, "queued") => turn[t].answered # "live"

\* The invariant without the types, which TypeStep keeps.
Rest == HoldInv /\ PhaseInv /\ AskInv /\ AgeInv /\ HungIsIdle /\ StopInv /\ AnswerInv /\ TurnsYield

TurnInv == TurnTypeOK /\ Rest

\* A turn that is not over and counts no pause is not held, and one that is paused is.
LEMMA Pauses ==
  ASSUME TurnInv, NEW t \in Turn
  PROVE  /\ turn[t].watch = "paused" => turn[t].pauses > 0
         /\ ~Is(t, "over") /\ turn[t].watch \in {"none", "running"} =>
              turn[t].pauses = 0 /\ Held(t) = {}
<1>1. ASSUME ~Is(t, "over"), turn[t].watch \in {"none", "running"} PROVE turn[t].pauses = 0 /\ Held(t) = {}
  BY <1>1, FS_EmptySet DEF TurnInv, Rest, HoldInv
<1>2. ASSUME turn[t].watch = "paused" PROVE turn[t].pauses > 0
  <2>1. IsFiniteSet(Held(t)) /\ turn[t].pauses = Cardinality(Held(t)) /\ Held(t) # {}
    BY <1>2 DEF TurnInv, Rest, HoldInv, PhaseInv, Is
  <2>2. Cardinality(Held(t)) \in Nat /\ Cardinality(Held(t)) # 0
    BY <2>1, FS_CardinalityType, FS_EmptySet
  <2> QED BY <2>1, <2>2
<1> QED BY <1>1, <1>2

\* Nobody is asked anything for a turn whose countdown runs and whom only its own page heard.
LEMMA RunningUnasked ==
  ASSUME TurnInv, NEW t \in Turn \ crossed, turn[t].watch = "running"
  PROVE  ~Asked(t)
<1>1. Is(t, "live") /\ Held(t) = {}
  BY Pauses DEF TurnInv, Rest, PhaseInv, Is
<1>2. ASSUME NEW q \in Question, question[q].phase = "open", question[q].of = t PROVE FALSE
  <2>1. q \in Held(t)
    BY <1>1, <1>2 DEF TurnInv, Rest, AskInv, Is, Held
  <2> QED BY <1>1, <2>1
<1> QED BY <1>2 DEF Asked

\* A step that leaves the questions alone, and no more of a turn's countdown
\* than to start, to end or to forget it.
LEMMA HoldQuiet ==
  ASSUME TurnInv, question' = question,
         \A u \in Turn :
           \/ turn'[u].phase = "over" \/ turn'[u].watch \in {"hung", "stopped"}
           \/ /\ ~Is(u, "over") /\ turn'[u].pauses = turn[u].pauses
              /\ \/ turn'[u].watch = turn[u].watch
                 \/ turn[u].watch = "none" /\ turn'[u].watch = "running"
  PROVE  HoldInv'
<1> SUFFICES ASSUME NEW u \in Turn, ~(Is(u, "over"))', turn'[u].watch \in {"none", "running", "paused"}
             PROVE  /\ IsFiniteSet(Held(u)) /\ turn'[u].pauses = Cardinality(Held(u))
                    /\ turn'[u].watch = "paused" <=> Held(u) # {}
  BY DEF HoldInv, Held
<1>1. ~Is(u, "over") /\ turn'[u].pauses = turn[u].pauses
  BY DEF Is
<1>2. CASE turn'[u].watch = turn[u].watch
  BY <1>1, <1>2 DEF TurnInv, Rest, HoldInv
<1>3. CASE turn[u].watch = "none" /\ turn'[u].watch = "running"
  BY <1>1, <1>3, Pauses, FS_EmptySet
<1> QED BY <1>1, <1>2, <1>3 DEF Is

\* A turn that is told to stop, or let alone.
LEMMA StopSame ==
  ASSUME TurnInv, NEW u \in Turn, turn'[u] = turn[u] \/ turn'[u] = Stopped(turn[u])
  PROVE  /\ turn'[u].phase = turn[u].phase /\ turn'[u].watch = turn[u].watch
         /\ turn'[u].pauses = turn[u].pauses /\ turn'[u].age = turn[u].age
         /\ turn'[u].answered = turn[u].answered
         /\ turn[u].aborted => turn'[u].aborted
         /\ turn'[u].stop # "off" => turn'[u].aborted
         /\ Is(u, "live") /\ turn'[u].aborted => turn'[u].stop = "set" \/ doomed \/ user[Chat] # u
<1>1. turn[u] \in TurnState
  BY TurnTypeParts DEF TurnInv, Rest
<1>2. turn[u].stop # "off" => turn[u].aborted
  BY DEF TurnInv, Rest, StopInv
<1>3. Is(u, "live") /\ turn[u].aborted => turn[u].stop = "set" \/ doomed \/ user[Chat] # u
  BY DEF TurnInv, Rest, TurnsYield, StopFrees
<1>4. CASE turn'[u] = turn[u]
  BY <1>2, <1>3, <1>4
<1>5. CASE turn'[u] = Stopped(turn[u])
  <2>1. /\ turn'[u].aborted /\ turn'[u].phase = turn[u].phase /\ turn'[u].watch = turn[u].watch
        /\ turn'[u].pauses = turn[u].pauses /\ turn'[u].age = turn[u].age
        /\ turn'[u].answered = turn[u].answered
        /\ turn'[u].stop = IF turn[u].phase = "live" /\ turn[u].stop = "off" THEN "set" ELSE turn[u].stop
    BY <1>1, <1>5, StoppedKeeps
  <2> QED BY <1>2, <1>3, <2>1 DEF Is
<1> QED BY <1>4, <1>5

\* The facts about the types that the steps below use.
LEMMA InvTypes ==
  ASSUME TurnInv
  PROVE  /\ turn \in [Turn -> TurnState] /\ still \in [Turn -> 0..IdleTicks]
         /\ ChannelOK /\ QuestionOK /\ ThreadOK /\ sink \in Turn \cup {None}
         /\ crossed \subseteq Turn /\ doomed \in BOOLEAN
         /\ \A u \in Turn : turn[u].pauses \in Nat /\ turn[u].age \in 0..IdleTicks /\ still[u] \in 0..IdleTicks
         /\ \A u \in Turn : channel[u].pages \in 0..MaxPages
         /\ user[Chat] \in Turn \cup {None}
BY TurnTypeParts DEF TurnInv, Rest, TurnState, ChannelOK, ThreadOK

LEMMA SendInv ==
  ASSUME TurnInv, NEW t \in Turn, Send(t)
  PROVE  Rest'
<1>1. /\ turn[t].phase = "new" /\ turn'[t] = [Unsent EXCEPT !.phase = "queued"]
      /\ \A u \in Turn \ {t} : /\ turn'[u] = turn[u] \/ turn'[u] = Stopped(turn[u])
                               /\ Is(u, "live") /\ turn[u].answered # "no" => turn'[u] = Stopped(turn[u])
  BY InvTypes DEF Send, Is
<1>2. /\ turn'[t].phase = "queued" /\ turn'[t].watch = "none" /\ turn'[t].pauses = 0
      /\ turn'[t].stop = "off" /\ turn'[t].aborted = FALSE /\ turn'[t].answered = "no"
  BY <1>1 DEF Unsent
<1>3. turn[t].watch = "none" /\ turn[t].pauses = 0 /\ channel[t].pages > 0
  BY <1>1, Pauses DEF TurnInv, Rest, PhaseInv, Is
<1>4. HoldInv'
  BY <1>1, <1>2, <1>3, StopSame, HoldQuiet DEF Send, Is
<1>5. PhaseInv'
  <2>1. channel' = channel
    BY DEF Send
  <2>2. \A u \in Turn \ {t} : turn'[u].watch = turn[u].watch /\ turn'[u].phase = turn[u].phase
    BY <1>1, StopSame
  <2> QED BY <1>2, <2>1, <2>2 DEF TurnInv, Rest, PhaseInv, Is
<1>6. AskInv'
  BY <1>1, <1>2, StopSame DEF Send, TurnInv, Rest, AskInv, Is
<1>7. AgeInv' /\ HungIsIdle'
  <2>1. still' = still /\ crossed' = crossed
    BY DEF Send
  <2>2. \A u \in Turn \ {t} : turn'[u].watch = turn[u].watch /\ turn'[u].age = turn[u].age
    BY <1>1, StopSame
  <2> QED BY <1>2, <2>1, <2>2 DEF TurnInv, Rest, AgeInv, HungIsIdle
<1>8. StopInv'
  BY <1>1, <1>2, StopSame DEF Send, TurnInv, Rest, StopInv, threadVars
<1>9. StopFrees'
  BY <1>1, <1>2, StopSame DEF Send, StopFrees, Is, threadVars
<1>a. AnswerInv'
  BY <1>1, <1>2, StopSame DEF TurnInv, Rest, AnswerInv, Is
<1>10. AnsweredYields'
  <2> SUFFICES ASSUME NEW u \in Turn, turn'[u].phase = "live", turn'[u].answered = "live"
               PROVE  turn'[u].aborted
    BY DEF AnsweredYields, Is
  <2>1. u # t
    BY <1>2
  <2>2. turn'[u] = Stopped(turn[u])
    BY <1>1, <2>1, StopSame DEF Is
  <2> QED BY <2>2, StoppedKeeps, InvTypes
<1>11. WatchedOrTimed'
  BY <1>1, <1>2, <1>3, StopSame, InvTypes DEF Send, TurnInv, Rest, TurnsYield, WatchedOrTimed, Waits
<1> QED BY <1>4, <1>5, <1>6, <1>7, <1>8, <1>9, <1>a, <1>10, <1>11 DEF Rest, TurnsYield

\* A step that leaves the questions alone and loses no mark of a turn that goes on.
LEMMA AskQuiet ==
  ASSUME TurnInv, question' = question,
         \A u \in Turn : \/ turn'[u].phase = "over"
                         \/ ~Is(u, "over") /\ (u \in crossed => u \in crossed')
  PROVE  AskInv'
BY DEF TurnInv, Rest, AskInv, Is

\* A step that leaves a turn's clocks alone, or starts them over together.
LEMMA ClockQuiet ==
  ASSUME TurnInv, TurnTypeOK',
         \A u \in Turn \ crossed' :
           \/ turn'[u].watch \in {"none", "paused", "stopped"}
           \/ turn'[u].watch = "running" /\ turn'[u].age = 0
           \/ /\ u \notin crossed /\ turn'[u].watch = turn[u].watch
              /\ turn'[u].age = turn[u].age /\ still'[u] = still[u]
  PROVE  AgeInv' /\ HungIsIdle'
<1>1. \A u \in Turn : still'[u] \in 0..IdleTicks
  BY TypePartsNext
<1>2. \A u \in Turn : 0 <= still'[u]
  BY <1>1
<1> QED BY <1>2 DEF TurnInv, Rest, AgeInv, HungIsIdle

\* A step that moves no turn between its phases.
LEMMA PhaseQuiet ==
  ASSUME TurnInv, channel' = channel,
         \A u \in Turn : turn'[u].phase = turn[u].phase /\ turn'[u].watch = turn[u].watch
  PROVE  PhaseInv'
BY DEF TurnInv, Rest, PhaseInv, Is

\* A step that leaves the agent's thread, the phases and the stops alone.
LEMMA StopsQuiet ==
  ASSUME TurnInv, UNCHANGED threadVars, doomed' = doomed,
         \A u \in Turn : \/ turn'[u].phase # "live" /\ turn'[u].stop = "off"
                         \/ /\ turn'[u].phase = turn[u].phase
                            /\ turn'[u].stop = turn[u].stop /\ turn'[u].aborted = turn[u].aborted
  PROVE  StopInv' /\ StopFrees'
BY DEF TurnInv, Rest, StopInv, TurnsYield, StopFrees, Is, threadVars

\* A step after which every turn waits that did, with the same watchers.
LEMMA YieldQuiet ==
  ASSUME TurnInv, channel' = channel,
         \A u \in Turn : /\ turn'[u].phase = turn[u].phase /\ turn'[u].answered = turn[u].answered
                         /\ turn[u].aborted => turn'[u].aborted
  PROVE  AnswerInv' /\ AnsweredYields' /\ WatchedOrTimed'
<1>0. AnswerInv'
  BY DEF TurnInv, Rest, AnswerInv, Is
<1>1. AnsweredYields'
  BY DEF TurnInv, Rest, TurnsYield, AnsweredYields, Is
<1>2. WatchedOrTimed'
  BY DEF TurnInv, Rest, TurnsYield, WatchedOrTimed, Waits
<1> QED BY <1>0, <1>1, <1>2

LEMMA TurnStartsInv ==
  ASSUME TurnInv, TurnTypeOK', NEW t \in Turn, TurnStarts(t)
  PROVE  Rest'
<1>1. /\ turn[t].phase = "queued" /\ ~turn[t].aborted /\ ~doomed
      /\ turn' = [turn EXCEPT ![t] = [turn[t] EXCEPT !.phase = "live"]]
      /\ channel' = channel /\ question' = question /\ crossed' = crossed /\ still' = still
      /\ doomed' = doomed
      /\ agent' = agent /\ agent[Chat] # None /\ user[Chat] = None /\ user'[Chat] = t
  BY InvTypes DEF TurnStarts, Is, Agent!Begin, ThreadOK
<1>2. /\ \A u \in Turn \ {t} : turn'[u] = turn[u]
      /\ turn'[t] = [turn[t] EXCEPT !.phase = "live"]
  BY <1>1, InvTypes
<1>3. /\ turn'[t].phase = "live" /\ turn'[t].watch = turn[t].watch /\ turn'[t].pauses = turn[t].pauses
      /\ turn'[t].age = turn[t].age /\ turn'[t].stop = turn[t].stop
      /\ turn'[t].answered = turn[t].answered /\ turn'[t].aborted = turn[t].aborted
  BY <1>2, InvTypes DEF TurnState
<1>4. HoldInv'
  BY <1>1, <1>2, <1>3, HoldQuiet DEF Is
<1>5. PhaseInv'
  BY <1>1, <1>2, <1>3 DEF TurnInv, Rest, PhaseInv, Is
<1>6. AskInv'
  BY <1>1, <1>2, <1>3, AskQuiet DEF Is
<1>7. AgeInv' /\ HungIsIdle'
  BY <1>1, <1>2, <1>3, ClockQuiet
<1>8. StopInv'
  BY <1>1, <1>2, <1>3 DEF TurnInv, Rest, StopInv
<1>9. StopFrees'
  BY <1>1, <1>2, <1>3 DEF TurnInv, Rest, TurnsYield, StopFrees, Is
<1>a. AnswerInv'
  BY <1>1, <1>2, <1>3 DEF TurnInv, Rest, AnswerInv, Is
<1>10. AnsweredYields'
  <2>1. turn[t].answered # "live"
    BY <1>1 DEF TurnInv, Rest, AnswerInv, Is
  <2> QED BY <1>1, <1>2, <1>3, <2>1 DEF TurnInv, Rest, TurnsYield, AnsweredYields, Is
<1>11. WatchedOrTimed'
  BY <1>1, <1>2, <1>3 DEF TurnInv, Rest, TurnsYield, WatchedOrTimed, Waits
<1> QED BY <1>4, <1>5, <1>6, <1>7, <1>8, <1>9, <1>a, <1>10, <1>11 DEF Rest, TurnsYield

LEMMA TurnWatchedInv ==
  ASSUME TurnInv, TurnTypeOK', NEW t \in Turn, TurnWatched(t)
  PROVE  Rest'
<1>1. /\ turn[t].phase = "live" /\ turn[t].watch = "none"
      /\ turn'[t] = [[turn[t] EXCEPT !.watch = "running"] EXCEPT !.age = 0]
      /\ \A u \in Turn \ {t} : turn'[u] = turn[u] /\ still'[u] = still[u]
      /\ channel' = channel /\ question' = question /\ crossed' = crossed /\ doomed' = doomed
      /\ UNCHANGED threadVars
  BY InvTypes DEF TurnWatched, Is
<1>2. /\ turn'[t].phase = "live" /\ turn'[t].watch = "running" /\ turn'[t].pauses = turn[t].pauses
      /\ turn'[t].age = 0 /\ turn'[t].stop = turn[t].stop
      /\ turn'[t].answered = turn[t].answered /\ turn'[t].aborted = turn[t].aborted
  <2>1. turn[t] \in TurnState
    BY InvTypes
  <2> QED BY <1>1, <2>1 DEF TurnState
<1>3. HoldInv'
  BY <1>1, <1>2, HoldQuiet DEF TurnInv, Rest, PhaseInv, Is
<1>4. PhaseInv'
  BY <1>1, <1>2 DEF TurnInv, Rest, PhaseInv, Is
<1>5. AskInv'
  BY <1>1, <1>2, AskQuiet DEF TurnInv, Rest, Is
<1>6. AgeInv' /\ HungIsIdle'
  BY <1>1, <1>2, ClockQuiet
<1>7. StopInv' /\ StopFrees'
  BY <1>1, <1>2, StopsQuiet
<1>8. AnswerInv' /\ AnsweredYields' /\ WatchedOrTimed'
  BY <1>1, <1>2, YieldQuiet
<1> QED BY <1>3, <1>4, <1>5, <1>6, <1>7, <1>8 DEF Rest, TurnsYield

LEMMA ProgressesInv ==
  ASSUME TurnInv, TurnTypeOK', NEW t \in Turn, Progresses(t)
  PROVE  Rest'
<1>1. /\ sink \in Turn
      /\ \A u \in Turn \ {sink} : turn'[u] = turn[u]
      /\ still' = [still EXCEPT ![t] = 0] /\ crossed' = crossed \cup ({t} \ {sink})
      /\ channel' = channel /\ question' = question /\ doomed' = doomed
      /\ UNCHANGED threadVars
      /\ turn[t].watch \in {"running", "paused"}
  BY InvTypes DEF Progresses
<1>2. /\ turn'[sink].phase = turn[sink].phase /\ turn'[sink].watch = turn[sink].watch
      /\ turn'[sink].pauses = turn[sink].pauses /\ turn'[sink].stop = turn[sink].stop
      /\ turn'[sink].answered = turn[sink].answered /\ turn'[sink].aborted = turn[sink].aborted
      /\ turn'[sink].age = IF turn[sink].watch = "running" THEN 0 ELSE turn[sink].age
  <2>1. turn[sink] \in TurnState
    BY <1>1, InvTypes
  <2>2. PICK text \in BOOLEAN :
          turn' = [turn EXCEPT
            ![sink].age = IF turn[sink].watch = "running" THEN 0 ELSE @,
            ![sink].wrote = IF turn[sink].aborted \/ turn[sink].answered # "no" \/ Is(sink, "over") THEN @ ELSE text]
    BY DEF Progresses
  <2> QED BY <1>1, <2>1, <2>2, InvTypes DEF TurnState
<1>3. \A u \in Turn :
        /\ turn'[u].phase = turn[u].phase /\ turn'[u].watch = turn[u].watch
        /\ turn'[u].pauses = turn[u].pauses /\ turn'[u].stop = turn[u].stop
        /\ turn'[u].answered = turn[u].answered /\ turn'[u].aborted = turn[u].aborted
  BY <1>1, <1>2
<1>4. HoldInv'
  <2>1. \A u \in Turn : turn[u].watch = "none" \/ turn'[u].phase # "over"
    BY <1>3 DEF TurnInv, Rest, PhaseInv, Is
  <2> QED BY <1>1, <1>3, HoldQuiet DEF Is
<1>5. PhaseInv'
  BY <1>1, <1>3, PhaseQuiet
<1>6. AskInv'
  BY <1>1, <1>3, AskQuiet DEF Is
<1>7. AgeInv' /\ HungIsIdle'
  <2>1. ASSUME NEW u \in Turn \ crossed'
        PROVE  \/ turn'[u].watch \in {"none", "paused", "stopped"}
               \/ turn'[u].watch = "running" /\ turn'[u].age = 0
               \/ /\ u \notin crossed /\ turn'[u].watch = turn[u].watch
                  /\ turn'[u].age = turn[u].age /\ still'[u] = still[u]
    <3>1. u \notin crossed /\ (u = t => t = sink)
      BY <1>1, <2>1
    <3>2. CASE u = t
      BY <1>1, <1>2, <3>1, <3>2
    <3>3. CASE u # t
      <4>1. still'[u] = still[u]
        BY <1>1, <3>3, InvTypes
      <4>2. turn[u].watch \in {"none", "running", "paused", "hung", "stopped"}
        BY InvTypes DEF TurnState
      <4> QED BY <1>1, <1>2, <3>1, <4>1, <4>2
    <3> QED BY <3>2, <3>3
  <2> QED BY <2>1, ClockQuiet
<1>8. StopInv' /\ StopFrees'
  BY <1>1, <1>3, StopsQuiet
<1>9. AnswerInv' /\ AnsweredYields' /\ WatchedOrTimed'
  BY <1>1, <1>3, YieldQuiet
<1> QED BY <1>4, <1>5, <1>6, <1>7, <1>8, <1>9 DEF Rest, TurnsYield

\* A step that only tells one turn to stop.
LEMMA StopOne ==
  ASSUME TurnInv, TurnTypeOK', UNCHANGED <<threadVars, channel, question, doomed, still, crossed>>,
         NEW t \in Turn, turn'[t] = Stopped(turn[t]), \A u \in Turn \ {t} : turn'[u] = turn[u]
  PROVE  Rest'
<1>1. /\ channel' = channel /\ question' = question /\ doomed' = doomed /\ still' = still
      /\ crossed' = crossed /\ UNCHANGED threadVars
  OBVIOUS
<1>2. \A u \in Turn :
        /\ turn'[u].phase = turn[u].phase /\ turn'[u].watch = turn[u].watch
        /\ turn'[u].pauses = turn[u].pauses /\ turn'[u].age = turn[u].age
        /\ turn'[u].answered = turn[u].answered
        /\ turn[u].aborted => turn'[u].aborted
        /\ turn'[u].stop # "off" => turn'[u].aborted
        /\ Is(u, "live") /\ turn'[u].aborted => turn'[u].stop = "set" \/ doomed \/ user[Chat] # u
  BY StopSame
<1>3. HoldInv'
  BY <1>1, <1>2, HoldQuiet DEF Is
<1>4. PhaseInv'
  BY <1>1, <1>2, PhaseQuiet
<1>5. AskInv'
  BY <1>1, <1>2, AskQuiet DEF Is
<1>6. AgeInv' /\ HungIsIdle'
  BY <1>1, <1>2, ClockQuiet
<1>7. StopInv'
  BY <1>1, <1>2 DEF TurnInv, Rest, StopInv, threadVars
<1>8. StopFrees'
  BY <1>1, <1>2 DEF StopFrees, Is, threadVars
<1>9. AnswerInv' /\ AnsweredYields' /\ WatchedOrTimed'
  BY <1>1, <1>2, YieldQuiet
<1> QED BY <1>3, <1>4, <1>5, <1>6, <1>7, <1>8, <1>9 DEF Rest, TurnsYield

LEMMA PressesStopInv ==
  ASSUME TurnInv, TurnTypeOK', NEW t \in Turn, PressesStop(t)
  PROVE  Rest'
<1>1. turn'[t] = Stopped(turn[t]) /\ \A u \in Turn \ {t} : turn'[u] = turn[u]
  BY InvTypes DEF PressesStop
<1> QED BY <1>1, StopOne DEF PressesStop

LEMMA AnsweredInv ==
  ASSUME TurnInv, TurnTypeOK', NEW t \in Turn, Answered(t)
  PROVE  Rest'
<1> DEFINE r == [[turn[t] EXCEPT !.answered = turn[t].phase] EXCEPT !.wrote = FALSE]
<1>1. /\ channel' = channel /\ question' = question /\ doomed' = doomed /\ still' = still
      /\ crossed' = crossed /\ UNCHANGED threadVars /\ Waits(t)
      /\ \A u \in Turn \ {t} : turn'[u] = turn[u]
      /\ turn'[t] = IF Pending # {t} THEN Stopped(r) ELSE r
  BY InvTypes DEF Answered
<1>2. /\ turn[t] \in TurnState /\ r \in TurnState
      /\ r.phase = turn[t].phase /\ r.watch = turn[t].watch /\ r.pauses = turn[t].pauses
      /\ r.age = turn[t].age /\ r.aborted = turn[t].aborted /\ r.stop = turn[t].stop
      /\ r.answered = turn[t].phase
  <2>1. turn[t] \in TurnState /\ turn[t].phase \in {"no", "queued", "live", "ending"}
    BY <1>1, InvTypes DEF Waits
  <2>2. r \in TurnState
    BY <2>1, FieldTypes
  <2> QED BY <2>1, <2>2 DEF TurnState
<1>3. turn[t].stop # "off" => turn[t].aborted
  BY DEF TurnInv, Rest, StopInv
<1>4. turn[t].phase = "live" /\ turn[t].aborted => turn[t].stop = "set" \/ doomed \/ user[Chat] # t
  BY DEF TurnInv, Rest, TurnsYield, StopFrees, Is
<1>5. /\ turn'[t].phase = turn[t].phase /\ turn'[t].watch = turn[t].watch
      /\ turn'[t].pauses = turn[t].pauses /\ turn'[t].age = turn[t].age
      /\ turn'[t].answered = turn[t].phase
      /\ turn[t].aborted => turn'[t].aborted
      /\ Pending # {t} => turn'[t].aborted
      /\ turn'[t].stop # "off" => turn'[t].aborted
      /\ turn'[t].phase = "live" /\ turn'[t].aborted => turn'[t].stop = "set" \/ doomed \/ user[Chat] # t
  <2>1. CASE Pending # {t}
    <3> HIDE DEF r
    <3>1. /\ Stopped(r).aborted /\ Stopped(r).phase = r.phase /\ Stopped(r).watch = r.watch
          /\ Stopped(r).pauses = r.pauses /\ Stopped(r).age = r.age /\ Stopped(r).answered = r.answered
          /\ Stopped(r).stop = IF r.phase = "live" /\ r.stop = "off" THEN "set" ELSE r.stop
      BY <1>2, StoppedKeeps
    <3> QED BY <1>1, <1>2, <1>3, <1>4, <2>1, <3>1
  <2>2. CASE Pending = {t}
    <3> HIDE DEF r
    <3> QED BY <1>1, <1>2, <1>3, <1>4, <2>2
  <2> QED BY <2>1, <2>2
<1> HIDE DEF r
<1>6. HoldInv'
  BY <1>1, <1>5, HoldQuiet DEF TurnInv, Rest, PhaseInv, Is
<1>7. PhaseInv'
  BY <1>1, <1>5, PhaseQuiet
<1>8. AskInv'
  BY <1>1, <1>5, AskQuiet DEF Is
<1>9. AgeInv' /\ HungIsIdle'
  BY <1>1, <1>5, ClockQuiet
<1>10. StopInv' /\ StopFrees'
  BY <1>1, <1>5 DEF TurnInv, Rest, StopInv, TurnsYield, StopFrees, Is, threadVars
<1>11. AnswerInv'
  BY <1>1, <1>5 DEF TurnInv, Rest, AnswerInv, Is
<1>12. AnsweredYields'
  <2>1. ASSUME NEW u \in Turn, turn'[t].phase = "live", turn'[u].phase = "queued" PROVE turn'[t].aborted
    <3>1. u # t /\ turn[u].phase = "queued"
      BY <1>1, <1>5, <2>1
    <3>2. u \in Pending
      BY <3>1 DEF Pending, Waits
    <3> QED BY <1>5, <3>1, <3>2
  <2> QED BY <1>1, <1>5, <2>1 DEF TurnInv, Rest, TurnsYield, AnsweredYields, Is
<1>13. WatchedOrTimed'
  BY <1>1, <1>5 DEF TurnInv, Rest, TurnsYield, WatchedOrTimed, Waits
<1> QED BY <1>6, <1>7, <1>8, <1>9, <1>10, <1>11, <1>12, <1>13 DEF Rest, TurnsYield

LEMMA HangsInv ==
  ASSUME TurnInv, TurnTypeOK', NEW t \in Turn, Hangs(t)
  PROVE  Rest'
<1>1. /\ turn'[t] = [[turn[t] EXCEPT !.watch = "hung"] EXCEPT !.aborted = TRUE]
      /\ \A u \in Turn \ {t} : turn'[u] = turn[u]
      /\ channel' = channel /\ question' = question /\ crossed' = crossed /\ still' = still
      /\ doomed' = (agent[Chat] # None) /\ UNCHANGED threadVars
      /\ turn[t].watch = "running" /\ turn[t].age = IdleTicks
  BY InvTypes DEF Hangs
<1>2. /\ turn'[t].phase = turn[t].phase /\ turn'[t].watch = "hung" /\ turn'[t].aborted
      /\ turn'[t].stop = turn[t].stop /\ turn'[t].answered = turn[t].answered
  <2>1. turn[t] \in TurnState
    BY InvTypes
  <2> QED BY <1>1, <2>1 DEF TurnState
<1>3. turn[t].phase = "live"
  BY <1>1 DEF TurnInv, Rest, PhaseInv, Is
<1>4. HoldInv'
  BY <1>1, <1>2, HoldQuiet DEF Is
<1>5. PhaseInv'
  BY <1>1, <1>2, <1>3 DEF TurnInv, Rest, PhaseInv, Is
<1>6. AskInv'
  BY <1>1, <1>2, <1>3, AskQuiet DEF Is
<1>7. AgeInv' /\ HungIsIdle'
  <2>1. t \notin crossed => IdleTicks <= still[t]
    BY <1>1 DEF TurnInv, Rest, AgeInv
  <2>2. still[t] \in 0..IdleTicks /\ IdleTicks \in Nat
    BY InvTypes
  <2>3. t \notin crossed => still[t] = IdleTicks
    BY <2>1, <2>2
  <2> QED BY <1>1, <1>2, <2>3 DEF TurnInv, Rest, AgeInv, HungIsIdle
<1>8. StopInv' /\ StopFrees'
  BY <1>1, <1>2, InvTypes DEF TurnInv, Rest, StopInv, TurnsYield, StopFrees, Is, threadVars
<1>9. AnswerInv' /\ AnsweredYields' /\ WatchedOrTimed'
  BY <1>1, <1>2, YieldQuiet
<1> QED BY <1>4, <1>5, <1>6, <1>7, <1>8, <1>9 DEF Rest, TurnsYield

LEMMA GraceKillsInv ==
  ASSUME TurnInv, TurnTypeOK', NEW t \in Turn, GraceKills(t)
  PROVE  Rest'
<1>1. /\ turn'[t] = [turn[t] EXCEPT !.stop = "fired"]
      /\ \A u \in Turn \ {t} : turn'[u] = turn[u]
      /\ channel' = channel /\ question' = question /\ crossed' = crossed /\ still' = still
      /\ doomed' = (agent[Chat] # None) /\ UNCHANGED threadVars
      /\ turn[t].stop = "set" /\ turn[t].phase = "live"
  BY InvTypes DEF GraceKills, Is
<1>2. /\ turn'[t].phase = turn[t].phase /\ turn'[t].watch = turn[t].watch
      /\ turn'[t].pauses = turn[t].pauses /\ turn'[t].age = turn[t].age
      /\ turn'[t].aborted = turn[t].aborted /\ turn'[t].answered = turn[t].answered
  <2>1. turn[t] \in TurnState
    BY InvTypes
  <2> QED BY <1>1, <2>1 DEF TurnState
<1>3. HoldInv'
  BY <1>1, <1>2, HoldQuiet DEF TurnInv, Rest, PhaseInv, Is
<1>4. PhaseInv'
  BY <1>1, <1>2, PhaseQuiet
<1>5. AskInv'
  BY <1>1, <1>2, AskQuiet DEF Is
<1>6. AgeInv' /\ HungIsIdle'
  BY <1>1, <1>2, ClockQuiet
<1>7. StopInv' /\ StopFrees'
  <2>1. turn[t].aborted /\ agent' = agent /\ user' = user /\ (agent[Chat] = None => user[Chat] = None)
    BY <1>1 DEF TurnInv, Rest, StopInv, threadVars
  <2>2. StopInv'
    BY <1>1, <1>2, <2>1 DEF TurnInv, Rest, StopInv
  <2>3. \A u \in Turn : doomed' \/ user'[Chat] # u
    BY <1>1, <2>1
  <2> QED BY <2>2, <2>3 DEF StopFrees
<1>8. AnswerInv' /\ AnsweredYields' /\ WatchedOrTimed'
  BY <1>1, <1>2, YieldQuiet
<1> QED BY <1>3, <1>4, <1>5, <1>6, <1>7, <1>8 DEF Rest, TurnsYield

LEMMA PromptEndsInv ==
  ASSUME TurnInv, TurnTypeOK', NEW t \in Turn, PromptEnds(t)
  PROVE  Rest'
<1>1. /\ turn'[t] = [[turn[t] EXCEPT !.phase = "ending"] EXCEPT !.watch = IF turn[t].watch = "hung" THEN "hung" ELSE "stopped"]
      /\ \A u \in Turn \ {t} : turn'[u] = turn[u]
      /\ channel' = channel /\ question' = question /\ crossed' = crossed /\ still' = still
      /\ turn[t].phase = "live" /\ doomed' \in {doomed, TRUE}
  BY InvTypes DEF PromptEnds, Is
<1>2. /\ turn'[t].phase = "ending" /\ turn'[t].watch = IF turn[t].watch = "hung" THEN "hung" ELSE "stopped"
      /\ turn'[t].age = turn[t].age /\ turn'[t].stop = turn[t].stop
      /\ turn'[t].aborted = turn[t].aborted /\ turn'[t].answered = turn[t].answered
  <2>1. turn[t] \in TurnState
    BY InvTypes
  <2> QED BY <1>1, <2>1 DEF TurnState
<1>3. /\ agent' = agent
      /\ user'[Chat] \in {user[Chat], None}
  BY InvTypes DEF PromptEnds, Agent!End, threadVars, ThreadOK
<1>4. HoldInv'
  BY <1>1, <1>2, HoldQuiet DEF TurnInv, Rest, PhaseInv, Is
<1>5. PhaseInv'
  BY <1>1, <1>2 DEF TurnInv, Rest, PhaseInv, Is
<1>6. AskInv'
  BY <1>1, <1>2, AskQuiet DEF TurnInv, Rest, PhaseInv, AskInv, Is
<1>7. AgeInv' /\ HungIsIdle'
  BY <1>1, <1>2, ClockQuiet
<1>8. StopInv' /\ StopFrees'
  <2>1. doomed => doomed'
    BY <1>1
  <2>2. \A u \in Turn : user'[Chat] = u => user[Chat] = u
    BY <1>3
  <2>3. StopInv'
    BY <1>1, <1>2, <1>3 DEF TurnInv, Rest, StopInv
  <2>4. StopFrees'
    BY <1>1, <1>2, <2>1, <2>2 DEF TurnInv, Rest, TurnsYield, StopFrees, Is
  <2> QED BY <2>3, <2>4
<1>9. AnswerInv' /\ AnsweredYields'
  <2>1. AnswerInv'
    BY <1>1, <1>2 DEF TurnInv, Rest, AnswerInv, Is
  <2>2. AnsweredYields'
    <3> SUFFICES ASSUME NEW v \in Turn, NEW u \in Turn, turn'[v].phase = "live",
                        turn'[v].answered = "live", turn'[u].phase = "queued"
                 PROVE  turn'[v].aborted
      BY DEF AnsweredYields, Is
    <3>1. v # t /\ u # t
      BY <1>2
    <3>2. turn'[v] = turn[v] /\ turn'[u] = turn[u]
      BY <1>1, <3>1
    <3> QED BY <3>2 DEF TurnInv, Rest, TurnsYield, AnsweredYields, Is
  <2> QED BY <2>1, <2>2
<1>10. WatchedOrTimed'
  BY <1>1, <1>2 DEF TurnInv, Rest, TurnsYield, WatchedOrTimed, Waits
<1> QED BY <1>4, <1>5, <1>6, <1>7, <1>8, <1>9, <1>10 DEF Rest, TurnsYield

LEMMA FinishesInv ==
  ASSUME TurnInv, TurnTypeOK', NEW t \in Turn, Finishes(t)
  PROVE  Rest'
<1>1. /\ turn'[t] = [Unsent EXCEPT !.phase = "over"]
      /\ \A u \in Turn \ {t} : turn'[u] = turn[u] /\ channel'[u] = channel[u] /\ still'[u] = still[u]
      /\ question' = question /\ crossed' = crossed \ {t} /\ doomed' = doomed
      /\ UNCHANGED threadVars
  BY InvTypes DEF Finishes, ChannelOK
<1>2. turn'[t].phase = "over" /\ turn'[t].watch = "none" /\ turn'[t].stop = "off"
  BY <1>1 DEF Unsent
<1>3. HoldInv'
  BY <1>1, <1>2, HoldQuiet DEF TurnInv, Rest, PhaseInv, Is
<1>4. PhaseInv'
  BY <1>1, <1>2 DEF TurnInv, Rest, PhaseInv, Is
<1>5. AskInv'
  BY <1>1, <1>2, AskQuiet DEF Is
<1>6. AgeInv' /\ HungIsIdle'
  BY <1>1, <1>2, ClockQuiet
<1>7. StopInv' /\ StopFrees'
  BY <1>1, <1>2, StopsQuiet
<1>8. AnswerInv'
  BY <1>1, <1>2 DEF TurnInv, Rest, AnswerInv, Is
<1>9. AnsweredYields'
  BY <1>1, <1>2 DEF TurnInv, Rest, TurnsYield, AnsweredYields, Is
<1>10. WatchedOrTimed'
  BY <1>1, <1>2 DEF TurnInv, Rest, TurnsYield, WatchedOrTimed, Waits
<1> QED BY <1>3, <1>4, <1>5, <1>6, <1>7, <1>8, <1>9, <1>10 DEF Rest, TurnsYield

\* A page that goes starts the grace if it was the last, and one that comes ends it.
LEMMA PagesInv ==
  ASSUME TurnInv, TurnTypeOK', NEW t \in Turn, Leaves(t) \/ Attach(t)
  PROVE  Rest'
<1>1. /\ turn' = turn /\ question' = question /\ crossed' = crossed /\ still' = still
      /\ doomed' = doomed /\ UNCHANGED threadVars /\ Waits(t)
      /\ \A u \in Turn \ {t} : channel'[u] = channel[u]
  BY InvTypes DEF Leaves, Attach, ChannelOK
<1>2. channel'[t].pages = 0 => channel'[t].grace
  <2>1. channel[t] \in [pages : 0..MaxPages, grace : BOOLEAN, abandoned : BOOLEAN]
    BY InvTypes DEF ChannelOK
  <2>2. CASE Leaves(t)
    BY <2>1, <2>2, InvTypes DEF Leaves, ChannelOK
  <2>3. CASE Attach(t)
    BY <2>1, <2>3, InvTypes DEF Attach, ChannelOK
  <2> QED BY <2>2, <2>3
<1>3. HoldInv'
  BY <1>1, HoldQuiet DEF TurnInv, Rest, PhaseInv, Is
<1>4. PhaseInv'
  BY <1>1 DEF TurnInv, Rest, PhaseInv, Is, Waits
<1>5. AskInv'
  BY <1>1 DEF TurnInv, Rest, AskInv, Is
<1>6. AgeInv' /\ HungIsIdle'
  BY <1>1, ClockQuiet
<1>7. StopInv' /\ StopFrees'
  BY <1>1, StopsQuiet
<1>8. AnswerInv' /\ AnsweredYields'
  BY <1>1 DEF TurnInv, Rest, AnswerInv, TurnsYield, AnsweredYields, Is
<1>9. WatchedOrTimed'
  BY <1>1, <1>2 DEF TurnInv, Rest, TurnsYield, WatchedOrTimed, Waits
<1> QED BY <1>3, <1>4, <1>5, <1>6, <1>7, <1>8, <1>9 DEF Rest, TurnsYield

\* The agent's process comes and goes between turns, or takes its turn with it.
LEMMA AgentStartsInv ==
  ASSUME TurnInv, TurnTypeOK', NEW p \in Process, AgentStarts(p)
  PROVE  Rest'
<1>1. /\ turn' = turn /\ question' = question /\ crossed' = crossed /\ still' = still
      /\ channel' = channel /\ user' = user /\ agent'[Chat] = p
      /\ agent[Chat] = None
  BY InvTypes DEF AgentStarts, Agent!Start, ThreadOK
<1>0. user[Chat] = None /\ None \notin Turn
  BY <1>1, AgentTurnAssumption DEF TurnInv, Rest, StopInv
<1>2. HoldInv' /\ PhaseInv' /\ AskInv'
  BY <1>1, HoldQuiet, PhaseQuiet DEF TurnInv, Rest, AskInv, PhaseInv, Is
<1>3. AgeInv' /\ HungIsIdle'
  BY <1>1, ClockQuiet
<1>4. StopInv' /\ StopFrees'
  <2>1. StopInv'
    BY <1>0, <1>1 DEF TurnInv, Rest, StopInv
  <2>2. StopFrees'
    BY <1>0, <1>1 DEF StopFrees
  <2> QED BY <2>1, <2>2
<1>5. AnswerInv' /\ AnsweredYields' /\ WatchedOrTimed'
  BY <1>1, YieldQuiet
<1> QED BY <1>2, <1>3, <1>4, <1>5 DEF Rest, TurnsYield

LEMMA AgentExitsInv ==
  ASSUME TurnInv, TurnTypeOK', AgentExits
  PROVE  Rest'
<1>1. /\ turn' = turn /\ question' = question /\ crossed' = crossed /\ still' = still
      /\ channel' = channel /\ user'[Chat] = None
  BY InvTypes DEF AgentExits, Agent!Exit, ThreadOK
<1>2. HoldInv' /\ PhaseInv' /\ AskInv'
  BY <1>1, HoldQuiet, PhaseQuiet DEF TurnInv, Rest, AskInv, PhaseInv, Is
<1>3. AgeInv' /\ HungIsIdle'
  BY <1>1, ClockQuiet
<1>4. StopInv' /\ StopFrees'
  BY <1>1 DEF TurnInv, Rest, StopInv, StopFrees, Is
<1>5. AnswerInv' /\ AnsweredYields' /\ WatchedOrTimed'
  BY <1>1, YieldQuiet
<1> QED BY <1>2, <1>3, <1>4, <1>5 DEF Rest, TurnsYield

LEMMA StutterInv ==
  ASSUME TurnInv, TurnTypeOK', UNCHANGED turnVars
  PROVE  Rest'
<1>1. /\ turn' = turn /\ question' = question /\ crossed' = crossed /\ still' = still
      /\ channel' = channel /\ doomed' = doomed /\ UNCHANGED threadVars
  BY DEF turnVars
<1>2. HoldInv' /\ PhaseInv' /\ AskInv'
  BY <1>1, HoldQuiet, PhaseQuiet DEF TurnInv, Rest, AskInv, PhaseInv, Is
<1>3. AgeInv' /\ HungIsIdle'
  BY <1>1, ClockQuiet
<1>4. StopInv' /\ StopFrees'
  BY <1>1, StopsQuiet
<1>5. AnswerInv' /\ AnsweredYields' /\ WatchedOrTimed'
  BY <1>1, YieldQuiet
<1> QED BY <1>2, <1>3, <1>4, <1>5 DEF Rest, TurnsYield

\* A tick of the clock: a countdown that runs is not asked for, so both clocks go on.
LEMMA TickInv ==
  ASSUME TurnInv, TurnTypeOK', Tick
  PROVE  Rest'
<1>1. /\ \A u \in Turn : turn'[u] = IF turn[u].watch = "running" THEN [turn[u] EXCEPT !.age = turn[u].age + 1]
                                    ELSE turn[u]
      /\ \A u \in Turn : still'[u] = IF turn[u].watch \in {"running", "paused"} /\ ~Asked(u) /\ still[u] < IdleTicks
                                     THEN still[u] + 1 ELSE still[u]
      /\ \A u \in Turn : turn[u].watch = "running" => turn[u].age < IdleTicks
      /\ question' = question /\ crossed' = crossed
      /\ channel' = channel /\ doomed' = doomed /\ UNCHANGED threadVars
  BY DEF Tick
<1>2. \A u \in Turn :
        /\ turn'[u].phase = turn[u].phase /\ turn'[u].watch = turn[u].watch
        /\ turn'[u].pauses = turn[u].pauses /\ turn'[u].stop = turn[u].stop
        /\ turn'[u].answered = turn[u].answered /\ turn'[u].aborted = turn[u].aborted
        /\ turn'[u].age = IF turn[u].watch = "running" THEN turn[u].age + 1 ELSE turn[u].age
  BY <1>1, InvTypes DEF TurnState
<1>3. HoldInv' /\ PhaseInv'
  BY <1>1, <1>2, HoldQuiet, PhaseQuiet DEF TurnInv, Rest, PhaseInv, Is
<1>4. AskInv'
  BY <1>1, <1>2 DEF TurnInv, Rest, AskInv, Is
<1>5. AgeInv'
  <2> SUFFICES ASSUME NEW u \in Turn \ crossed, turn[u].watch = "running"
               PROVE  turn'[u].age <= still'[u]
    BY <1>1, <1>2 DEF AgeInv
  <2>1. ~Asked(u) /\ turn[u].age < IdleTicks /\ turn[u].age <= still[u]
    BY <1>1, RunningUnasked DEF TurnInv, Rest, AgeInv
  <2>2. turn[u].age \in 0..IdleTicks /\ still[u] \in 0..IdleTicks
    BY InvTypes
  <2> QED BY <1>1, <1>2, <2>1, <2>2
<1>6. HungIsIdle'
  BY <1>1, <1>2 DEF TurnInv, Rest, HungIsIdle
<1>7. StopInv' /\ StopFrees'
  BY <1>1, <1>2, StopsQuiet
<1>8. AnswerInv' /\ AnsweredYields' /\ WatchedOrTimed'
  BY <1>1, <1>2, YieldQuiet
<1> QED BY <1>3, <1>4, <1>5, <1>6, <1>7, <1>8 DEF Rest, TurnsYield

\* A question pauses the countdown of the turn that shows it, and is counted there.
LEMMA AsksInv ==
  ASSUME TurnInv, TurnTypeOK', NEW t \in Turn, NEW q \in Question, Asks(t, q)
  PROVE  Rest'
<1> PICK s \in Turn : s = sink
  BY InvTypes DEF Asks
<1> DEFINE holds == turn[s].watch \in {"running", "paused"}
<1>1. /\ turn[t].watch \in {"running", "paused"} /\ question[q].phase = "new"
      /\ question' = [question EXCEPT ![q] = [phase |-> "open", of |-> t, via |-> s, holds |-> holds]]
      /\ holds => turn'[s] = [[turn[s] EXCEPT !.watch = "paused"] EXCEPT !.pauses = turn[s].pauses + 1]
      /\ ~holds => turn'[s] = turn[s]
      /\ \A u \in Turn \ {s} : turn'[u] = turn[u]
      /\ crossed' = crossed \cup ({t} \ {s}) /\ channel' = channel /\ doomed' = doomed /\ still' = still
      /\ UNCHANGED threadVars
  BY InvTypes DEF Asks
<1>2. /\ turn'[s].phase = turn[s].phase /\ turn'[s].stop = turn[s].stop
      /\ turn'[s].aborted = turn[s].aborted /\ turn'[s].answered = turn[s].answered
      /\ turn'[s].age = turn[s].age
      /\ holds => turn'[s].watch = "paused" /\ turn'[s].pauses = turn[s].pauses + 1
  <2>1. turn[s] \in TurnState
    BY <1>1, InvTypes
  <2>2. CASE holds
    BY <1>1, <2>1, <2>2 DEF TurnState
  <2>3. CASE ~holds
    BY <1>1, <2>3
  <2> QED BY <2>2, <2>3
<1>3. /\ question'[q].phase = "open" /\ question'[q].of = t /\ question'[q].via = s
      /\ holds => question'[q].holds
      /\ ~holds => ~question'[q].holds
      /\ \A r \in Question \ {q} : question'[r] = question[r]
  <2>1. question'[q] = [phase |-> "open", of |-> t, via |-> s, holds |-> holds]
        /\ \A r \in Question \ {q} : question'[r] = question[r]
    BY <1>1, InvTypes DEF QuestionOK
  <2>2. question'[q].holds = holds
    BY <2>1
  <2>3. (holds => question'[q].holds) /\ (~holds => ~question'[q].holds)
    BY <2>2, Zenon
  <2> QED BY <2>1, <2>3
<1>a. t \notin crossed' => s = t /\ holds
  BY <1>1
<1>b. holds => turn[s].watch \in {"running", "paused"}
  OBVIOUS
<1> HIDE DEF holds
<1>4. /\ q \notin Held(s) /\ \A u \in Turn \ {s} : Held(u)' = Held(u)
      /\ Held(s)' = IF holds THEN Held(s) \cup {q} ELSE Held(s)
  <2>1. q \notin Held(s)
    BY <1>1 DEF Held
  <2>2. ASSUME NEW u \in Turn, u # s PROVE Held(u)' = Held(u)
    BY <1>1, <1>3, <2>2 DEF Held
  <2>3. CASE holds
    <3>1. q \in Held(s)'
      BY <1>3, <2>3 DEF Held
    <3>2. \A x \in Question \ {q} : x \in Held(s)' <=> x \in Held(s)
      BY <1>3 DEF Held
    <3>3. Held(s)' \subseteq Question /\ Held(s) \subseteq Question
      BY DEF Held
    <3>4. Held(s)' = Held(s) \cup {q}
      BY <3>1, <3>2, <3>3
    <3> QED BY <2>1, <2>2, <2>3, <3>4
  <2>4. CASE ~holds
    <3>1. q \notin Held(s)'
      BY <1>3, <2>4 DEF Held
    <3>2. \A x \in Question \ {q} : x \in Held(s)' <=> x \in Held(s)
      BY <1>3 DEF Held
    <3>3. Held(s)' \subseteq Question /\ Held(s) \subseteq Question
      BY DEF Held
    <3>4. Held(s)' = Held(s)
      BY <2>1, <3>1, <3>2, <3>3
    <3> QED BY <2>1, <2>2, <2>4, <3>4
  <2> QED BY <2>1, <2>2, <2>3, <2>4
<1>5. \A u \in Turn : turn'[u].phase = turn[u].phase
  BY <1>1, <1>2
<1>6. HoldInv'
  <2>1. ASSUME holds
        PROVE  /\ IsFiniteSet(Held(s)') /\ turn'[s].pauses = Cardinality(Held(s)')
               /\ Held(s)' # {} /\ turn'[s].watch = "paused"
    <3>1. ~Is(s, "over") /\ turn[s].watch \in {"none", "running", "paused"}
      BY <1>1, <1>b, <2>1 DEF TurnInv, Rest, PhaseInv, Is
    <3>2. IsFiniteSet(Held(s)) /\ turn[s].pauses = Cardinality(Held(s))
      BY <1>1, <3>1 DEF TurnInv, Rest, HoldInv
    <3>3. /\ IsFiniteSet(Held(s) \cup {q})
          /\ Cardinality(Held(s) \cup {q}) = Cardinality(Held(s)) + 1
      BY <1>4, <3>2, FS_AddElement
    <3> QED BY <1>2, <1>4, <2>1, <3>2, <3>3
  <2>2. ASSUME NEW u \in Turn, u # s \/ ~holds
        PROVE  turn'[u] = turn[u] /\ Held(u)' = Held(u)
    BY <1>1, <1>4, <2>2
  <2> SUFFICES ASSUME NEW u \in Turn, turn'[u].phase # "over", turn'[u].watch \in {"none", "running", "paused"}
               PROVE  /\ IsFiniteSet(Held(u)') /\ turn'[u].pauses = Cardinality(Held(u)')
                      /\ turn'[u].watch = "paused" <=> Held(u)' # {}
    BY DEF HoldInv, Is
  <2>3. CASE u = s /\ holds
    BY <2>1, <2>3
  <2>4. CASE u # s \/ ~holds
    <3>1. turn'[u] = turn[u] /\ Held(u)' = Held(u)
      BY <2>2, <2>4
    <3> QED BY <3>1 DEF TurnInv, Rest, HoldInv, Is
  <2> QED BY <2>3, <2>4
<1>7. PhaseInv'
  BY <1>1, <1>2, <1>5, <1>b DEF TurnInv, Rest, PhaseInv, Is
<1>8. AskInv'
  <2> SUFFICES ASSUME NEW r \in Question, question'[r].phase = "open"
               PROVE  /\ question'[r].of \in Turn /\ question'[r].via \in Turn
                      /\ turn'[question'[r].of].phase # "over" /\ question'[r].of \notin crossed' =>
                           question'[r].via = question'[r].of /\ question'[r].holds
    BY DEF AskInv, Is
  <2>1. CASE r = q
    BY <1>1, <1>3, <1>a, <2>1
  <2>2. CASE r # q
    BY <1>1, <1>3, <1>5, <2>2 DEF TurnInv, Rest, AskInv, Is
  <2> QED BY <2>1, <2>2
<1>9. AgeInv' /\ HungIsIdle'
  <2>1. \A u \in Turn : turn'[u] = turn[u] \/ turn'[u].watch = "paused"
    BY <1>1, <1>2
  <2>2. \A u \in Turn \ crossed' :
           \/ turn'[u].watch \in {"none", "paused", "stopped"}
           \/ /\ u \notin crossed /\ turn'[u].watch = turn[u].watch
              /\ turn'[u].age = turn[u].age /\ still'[u] = still[u]
    BY <1>1, <2>1
  <2> QED BY <2>2, ClockQuiet
<1>10. \A u \in Turn : /\ turn'[u].stop = turn[u].stop /\ turn'[u].aborted = turn[u].aborted
                       /\ turn'[u].answered = turn[u].answered
  BY <1>1, <1>2
<1>11. StopInv' /\ StopFrees'
  BY <1>1, <1>5, <1>10, StopsQuiet
<1>12. AnswerInv' /\ AnsweredYields' /\ WatchedOrTimed'
  BY <1>1, <1>5, <1>10, YieldQuiet
<1> QED BY <1>6, <1>7, <1>8, <1>9, <1>11, <1>12 DEF Rest, TurnsYield

\* An answer releases one pause, and the last one starts the countdown over.
LEMMA SettlesInv ==
  ASSUME TurnInv, TurnTypeOK', NEW q \in Question, Settles(q)
  PROVE  Rest'
<1> PICK v \in Turn : v = question[q].via
  BY DEF Settles, TurnInv, Rest, AskInv
<1>1. /\ question[q].phase = "open" /\ question[q].of \in Turn
      /\ question' = [question EXCEPT ![q] = AskedAlready]
      /\ \/ question[q].holds /\ turn'[v] = Released(turn[v])
         \/ ~question[q].holds /\ turn'[v] = turn[v]
      /\ \A u \in Turn \ {v} : turn'[u] = turn[u]
      /\ \A u \in Turn : still'[u] = IF u = question[q].of /\ turn[u].watch # "hung" THEN 0 ELSE still[u]
      /\ crossed' = crossed /\ channel' = channel /\ doomed' = doomed
      /\ UNCHANGED threadVars
  BY InvTypes DEF Settles, TurnInv, Rest, AskInv
<1>2. /\ turn[v] \in TurnState
      /\ turn[v].watch = "paused" => turn[v].pauses > 0
      /\ turn[v].pauses \in Nat
  BY <1>1, InvTypes, Pauses
<1>3. /\ turn'[v].phase = turn[v].phase /\ turn'[v].stop = turn[v].stop
      /\ turn'[v].aborted = turn[v].aborted /\ turn'[v].answered = turn[v].answered
  <2>1. CASE turn'[v] = Released(turn[v])
    BY <1>2, <2>1, ReleasedKeeps
  <2>2. CASE turn'[v] = turn[v]
    BY <2>2
  <2> QED BY <1>1, <2>1, <2>2
<1>4. \/ turn'[v] = turn[v] /\ (turn[v].watch # "paused" \/ ~question[q].holds)
      \/ /\ question[q].holds /\ turn[v].watch = "paused" /\ turn[v].pauses = 1
         /\ turn'[v].watch = "running" /\ turn'[v].pauses = 0 /\ turn'[v].age = 0
      \/ /\ question[q].holds /\ turn[v].watch = "paused" /\ turn[v].pauses # 1
         /\ turn'[v].watch = "paused" /\ turn'[v].pauses = turn[v].pauses - 1
  <2>1. CASE question[q].holds /\ turn'[v] = Released(turn[v])
    <3>1. CASE turn[v].watch # "paused"
      BY <1>2, <2>1, <3>1, ReleasedKeeps
    <3>2. CASE turn[v].watch = "paused" /\ turn[v].pauses = 1
      <4>1. turn'[v].watch = "running" /\ turn'[v].pauses = 0 /\ turn'[v].age = 0
        BY <1>2, <2>1, <3>2, ReleasedKeeps
      <4> QED BY <2>1, <3>2, <4>1
    <3>3. CASE turn[v].watch = "paused" /\ turn[v].pauses # 1
      <4>1. turn'[v].watch = "paused" /\ turn'[v].pauses = turn[v].pauses - 1
        BY <1>2, <2>1, <3>3, ReleasedKeeps
      <4> QED BY <2>1, <3>3, <4>1
    <3> QED BY <3>1, <3>2, <3>3
  <2>2. CASE ~question[q].holds /\ turn'[v] = turn[v]
    BY <2>2
  <2> QED BY <1>1, <2>1, <2>2
<1>5. question'[q] = AskedAlready /\ \A r \in Question \ {q} : question'[r] = question[r]
  BY <1>1, InvTypes DEF QuestionOK
<1>6. /\ question'[q].phase = "over"
      /\ \A u \in Turn \ {v} : Held(u)' = Held(u)
      /\ question[q].holds => q \in Held(v) /\ Held(v)' = Held(v) \ {q}
      /\ ~question[q].holds => Held(v)' = Held(v)
  <2>1. question'[q].phase = "over"
    BY <1>5 DEF AskedAlready, Unasked
  <2>2. question[q].via = v
    OBVIOUS
  <2>3. \A u \in Turn \ {v} : q \notin Held(u)
    BY <2>2 DEF Held
  <2>4. \A u \in Turn : Held(u)' = Held(u) \ {q}
    <3> TAKE u \in Turn
    <3>1. q \notin Held(u)'
      BY <2>1 DEF Held
    <3>2. \A x \in Question \ {q} : x \in Held(u)' <=> x \in Held(u)
      BY <1>5 DEF Held
    <3>3. Held(u)' \subseteq Question /\ Held(u) \subseteq Question
      BY DEF Held
    <3> QED BY <3>1, <3>2, <3>3
  <2>5. question[q].holds => q \in Held(v)
    BY <1>1, <2>2 DEF Held
  <2>6. ~question[q].holds => q \notin Held(v)
    BY DEF Held
  <2>7. ASSUME NEW u \in Turn \ {v} PROVE Held(u)' = Held(u)
    <3>1. Held(u)' = Held(u) \ {q} /\ q \notin Held(u)
      BY <2>3, <2>4
    <3> QED BY <3>1
  <2>8. Held(v)' = Held(v) \ {q}
    BY <2>4
  <2>9. q \notin Held(v) => Held(v) \ {q} = Held(v)
    OBVIOUS
  <2> QED BY <2>1, <2>5, <2>6, <2>7, <2>8, <2>9
<1>7. \A u \in Turn : turn'[u].phase = turn[u].phase
  BY <1>1, <1>3
<1>8. HoldInv'
  <2> SUFFICES ASSUME NEW u \in Turn, turn'[u].phase # "over", turn'[u].watch \in {"none", "running", "paused"}
               PROVE  /\ IsFiniteSet(Held(u)') /\ turn'[u].pauses = Cardinality(Held(u)')
                      /\ turn'[u].watch = "paused" <=> Held(u)' # {}
    BY DEF HoldInv, Is
  <2>1. CASE u # v \/ ~question[q].holds
    <3>1. CASE u # v
      <4>1. turn'[u] = turn[u] /\ Held(u)' = Held(u)
        BY <1>1, <1>6, <3>1
      <4> QED BY <4>1 DEF TurnInv, Rest, HoldInv, Is
    <3>2. CASE u = v /\ ~question[q].holds
      <4>1. turn'[u] = turn[u] /\ Held(u)' = Held(u)
        BY <1>1, <1>6, <3>2
      <4> QED BY <4>1 DEF TurnInv, Rest, HoldInv, Is
    <3> QED BY <2>1, <3>1, <3>2
  <2>2. CASE u = v /\ question[q].holds
    <3>1. ~Is(v, "over") /\ turn[v].watch \in {"none", "running", "paused"}
      BY <1>4, <1>7, <2>2 DEF Is
    <3>2. /\ IsFiniteSet(Held(v)) /\ turn[v].pauses = Cardinality(Held(v))
          /\ turn[v].watch = "paused" <=> Held(v) # {}
      BY <1>1, <3>1 DEF TurnInv, Rest, HoldInv
    <3>3. turn[v].watch = "paused"
      BY <1>6, <2>2, <3>2
    <3>4. /\ IsFiniteSet(Held(v) \ {q})
          /\ Cardinality(Held(v) \ {q}) = Cardinality(Held(v)) - 1
      BY <1>6, <2>2, <3>2, FS_RemoveElement
    <3>5. CASE turn[v].pauses = 1
      <4>1. turn'[v].watch = "running" /\ turn'[v].pauses = 0
        BY <1>4, <2>2, <3>3, <3>5
      <4>2. Held(v)' = Held(v) \ {q} /\ Cardinality(Held(v) \ {q}) = 0
        BY <1>6, <2>2, <3>2, <3>4, <3>5
      <4>3. Held(v)' = {}
        BY <3>4, <4>2, FS_EmptySet
      <4> QED BY <2>2, <3>4, <4>1, <4>2, <4>3
    <3>6. CASE turn[v].pauses # 1
      <4>1. Cardinality(Held(v) \ {q}) # 0
        BY <1>2, <3>2, <3>4, <3>6
      <4>2. Held(v) \ {q} # {}
        BY <4>1, FS_EmptySet
      <4>3. turn'[v].watch = "paused" /\ turn'[v].pauses = turn[v].pauses - 1
        BY <1>4, <2>2, <3>3, <3>6
      <4>4. Held(v)' = Held(v) \ {q}
        BY <1>6, <2>2
      <4> QED BY <2>2, <3>2, <3>4, <4>2, <4>3, <4>4
    <3> QED BY <3>5, <3>6
  <2> QED BY <2>1, <2>2
<1>9. PhaseInv'
  BY <1>1, <1>4, <1>7 DEF TurnInv, Rest, PhaseInv, Is
<1>10. AskInv'
  <2> SUFFICES ASSUME NEW r \in Question, question'[r].phase = "open"
               PROVE  /\ question'[r].of \in Turn /\ question'[r].via \in Turn
                      /\ turn'[question'[r].of].phase # "over" /\ question'[r].of \notin crossed' =>
                           question'[r].via = question'[r].of /\ question'[r].holds
    BY DEF AskInv, Is
  <2>1. r # q
    BY <1>6
  <2>2. question'[r] = question[r]
    BY <1>5, <2>1
  <2>3. question[r].of \in Turn /\ question[r].via \in Turn
    BY <2>2 DEF TurnInv, Rest, AskInv
  <2>4. turn'[question[r].of].phase = turn[question[r].of].phase
    BY <1>7, <2>3
  <2> QED BY <1>1, <2>2, <2>3, <2>4 DEF TurnInv, Rest, AskInv, Is
<1>11. AgeInv' /\ HungIsIdle'
  <2>1. ASSUME NEW u \in Turn \ crossed'
        PROVE  \/ turn'[u].watch \in {"none", "paused", "stopped"}
               \/ turn'[u].watch = "running" /\ turn'[u].age = 0
               \/ /\ u \notin crossed /\ turn'[u].watch = turn[u].watch
                  /\ turn'[u].age = turn[u].age /\ still'[u] = still[u]
    <3>1. CASE turn'[u] # turn[u]
      BY <1>1, <1>4, <3>1
    <3>2. CASE turn'[u] = turn[u]
      <4>1. turn[u].watch = "running" => u # question[q].of
        BY <1>1, <2>1, RunningUnasked DEF Asked
      <4>2. turn[u].watch \in {"none", "running", "paused", "hung", "stopped"}
        BY InvTypes DEF TurnState
      <4> QED BY <1>1, <3>2, <4>1, <4>2
    <3> QED BY <3>1, <3>2
  <2> QED BY <2>1, ClockQuiet
<1>12. \A u \in Turn : /\ turn'[u].stop = turn[u].stop /\ turn'[u].aborted = turn[u].aborted
                       /\ turn'[u].answered = turn[u].answered
  BY <1>1, <1>3
<1>13. StopInv' /\ StopFrees'
  BY <1>1, <1>7, <1>12, StopsQuiet
<1>14. AnswerInv' /\ AnsweredYields' /\ WatchedOrTimed'
  BY <1>1, <1>7, <1>12, YieldQuiet
<1> QED BY <1>8, <1>9, <1>10, <1>11, <1>13, <1>14 DEF Rest, TurnsYield

\* Nobody came back: the questions the turn shows go with their pauses.
LEMMA AbandonedInv ==
  ASSUME TurnInv, TurnTypeOK', NEW t \in Turn, Abandoned(t)
  PROVE  Rest'
<1> DEFINE shown == {q \in Question : question[q].phase = "open" /\ question[q].via = t}
           S == Stopped(turn[t])
<1>1. /\ turn'[t] = IF S.watch = "paused"
                    THEN [[[S EXCEPT !.watch = "running"] EXCEPT !.pauses = 0] EXCEPT !.age = 0] ELSE S
      /\ \A u \in Turn \ {t} : turn'[u] = turn[u] /\ channel'[u] = channel[u]
      /\ \A q \in Question : question'[q] = IF q \in shown THEN AskedAlready ELSE question[q]
      /\ \A u \in Turn : still'[u] = IF (\E q \in shown : question[q].of = u) /\ turn[u].watch # "hung"
                                     THEN 0 ELSE still[u]
      /\ crossed' = crossed /\ doomed' = doomed /\ Waits(t)
      /\ UNCHANGED threadVars
  BY InvTypes DEF Abandoned, ChannelOK
<1>2. channel'[t].pages = channel[t].pages
  <2>1. channel[t] \in [pages : 0..MaxPages, grace : BOOLEAN, abandoned : BOOLEAN]
    BY InvTypes DEF ChannelOK
  <2> QED BY <2>1, InvTypes DEF Abandoned, ChannelOK
<1>3. /\ S \in TurnState /\ S.aborted
      /\ S.phase = turn[t].phase /\ S.watch = turn[t].watch
      /\ S.pauses = turn[t].pauses /\ S.age = turn[t].age
      /\ S.answered = turn[t].answered
      /\ S.stop = IF turn[t].phase = "live" /\ turn[t].stop = "off" THEN "set" ELSE turn[t].stop
  BY InvTypes, StoppedKeeps
<1> HIDE DEF S
<1>4. /\ turn'[t].phase = turn[t].phase /\ turn'[t].aborted /\ turn'[t].answered = turn[t].answered
      /\ turn'[t].stop = IF turn[t].phase = "live" /\ turn[t].stop = "off" THEN "set" ELSE turn[t].stop
      /\ \/ turn[t].watch = "paused" /\ turn'[t].watch = "running" /\ turn'[t].pauses = 0 /\ turn'[t].age = 0
         \/ /\ turn[t].watch # "paused" /\ turn'[t].watch = turn[t].watch
            /\ turn'[t].pauses = turn[t].pauses /\ turn'[t].age = turn[t].age
  <2>1. CASE S.watch = "paused"
    BY <1>1, <1>3, <2>1 DEF TurnState
  <2>2. CASE S.watch # "paused"
    BY <1>1, <1>3, <2>2
  <2> QED BY <2>1, <2>2
<1>5. \A u \in Turn : turn'[u].phase = turn[u].phase /\ turn'[u].answered = turn[u].answered
  BY <1>1, <1>4
<1>6. /\ Held(t)' = {}
      /\ \A u \in Turn \ {t} : Held(u)' = Held(u)
      /\ \A q \in Question : question'[q].phase = "open" => question'[q] = question[q]
  <2>1. AskedAlready.phase = "over"
    BY DEF AskedAlready, Unasked
  <2>2. \A q \in Question : question'[q].phase = "open" => q \notin shown /\ question'[q] = question[q]
    BY <1>1, <2>1
  <2>3. Held(t)' = {}
    BY <2>2 DEF Held
  <2>4. ASSUME NEW u \in Turn, u # t PROVE Held(u)' = Held(u)
    <3>1. \A q \in Held(u) : q \notin shown
      BY <2>4 DEF Held
    <3>2. \A q \in Question : q \in Held(u)' <=> q \in Held(u)
      BY <1>1, <2>2, <3>1 DEF Held
    <3>3. Held(u)' \subseteq Question /\ Held(u) \subseteq Question
      BY DEF Held
    <3> QED BY <3>2, <3>3
  <2> QED BY <2>2, <2>3, <2>4
<1>7. HoldInv'
  <2> SUFFICES ASSUME NEW u \in Turn, turn'[u].phase # "over", turn'[u].watch \in {"none", "running", "paused"}
               PROVE  /\ IsFiniteSet(Held(u)') /\ turn'[u].pauses = Cardinality(Held(u)')
                      /\ turn'[u].watch = "paused" <=> Held(u)' # {}
    BY DEF HoldInv, Is
  <2>1. CASE u # t
    <3>1. turn'[u] = turn[u] /\ Held(u)' = Held(u)
      BY <1>1, <1>6, <2>1
    <3> QED BY <3>1 DEF TurnInv, Rest, HoldInv, Is
  <2>2. CASE u = t
    <3>1. turn'[t].pauses = 0 /\ turn'[t].watch # "paused"
      <4>1. CASE turn[t].watch = "paused"
        BY <1>4, <4>1
      <4>2. CASE turn[t].watch # "paused"
        <5>1. ~Is(t, "over") /\ turn[t].watch \in {"none", "running"}
          BY <1>4, <2>2, <4>2 DEF Is
        <5> QED BY <1>4, <4>2, <5>1, Pauses
      <4> QED BY <4>1, <4>2
    <3> QED BY <1>6, <2>2, <3>1, FS_EmptySet
  <2> QED BY <2>1, <2>2
<1>8. PhaseInv'
  <2>1. \A u \in Turn : channel'[u].pages = channel[u].pages
    BY <1>1, <1>2
  <2>2. ASSUME NEW u \in Turn
        PROVE  \/ turn'[u].watch = turn[u].watch
               \/ turn[u].watch = "paused" /\ turn'[u].watch = "running"
    <3>1. CASE u = t
      BY <1>4, <3>1
    <3>2. CASE u # t
      <4>1. turn'[u] = turn[u]
        BY <1>1, <3>2
      <4> QED BY <4>1
    <3> QED BY <3>1, <3>2
  <2> QED BY <1>5, <2>1, <2>2 DEF TurnInv, Rest, PhaseInv, Is
<1>9. AskInv'
  BY <1>1, <1>5, <1>6 DEF TurnInv, Rest, AskInv, Is
<1>10. AgeInv' /\ HungIsIdle'
  <2>1. ASSUME NEW u \in Turn \ crossed'
        PROVE  \/ turn'[u].watch \in {"none", "paused", "stopped"}
               \/ turn'[u].watch = "running" /\ turn'[u].age = 0
               \/ /\ u \notin crossed /\ turn'[u].watch = turn[u].watch
                  /\ turn'[u].age = turn[u].age /\ still'[u] = still[u]
    <3>1. CASE u = t /\ turn[u].watch = "paused"
      BY <1>4, <3>1
    <3>2. CASE ~(u = t /\ turn[u].watch = "paused")
      <4>1. turn'[u].watch = turn[u].watch /\ turn'[u].age = turn[u].age
        BY <1>1, <1>4, <3>2
      <4>2. turn[u].watch = "running" => ~\E q \in shown : question[q].of = u
        BY <1>1, <2>1, RunningUnasked DEF Asked
      <4>3. turn[u].watch \in {"none", "running", "paused", "hung", "stopped"}
        BY InvTypes DEF TurnState
      <4> QED BY <1>1, <2>1, <4>1, <4>2, <4>3
    <3> QED BY <3>1, <3>2
  <2> QED BY <2>1, ClockQuiet
<1>11. StopInv'
  BY <1>1, <1>4 DEF TurnInv, Rest, StopInv, threadVars
<1>12. StopFrees'
  <2> SUFFICES ASSUME NEW u \in Turn, turn'[u].phase = "live", turn'[u].aborted
               PROVE  turn'[u].stop = "set" \/ doomed' \/ user'[Chat] # u
    BY DEF StopFrees, Is
  <2>1. doomed' = doomed /\ user' = user
    BY <1>1 DEF threadVars
  <2>2. CASE u # t
    <3>1. turn'[u] = turn[u]
      BY <1>1, <2>2
    <3> QED BY <2>1, <3>1 DEF TurnInv, Rest, TurnsYield, StopFrees, Is
  <2>3. CASE u = t
    <3>1. turn[t].phase = "live"
      BY <1>4, <2>3
    <3>2. CASE turn[t].stop = "off"
      BY <1>4, <2>3, <3>1, <3>2
    <3>3. CASE turn[t].stop # "off"
      <4>1. turn[t].aborted /\ turn'[t].stop = turn[t].stop
        BY <1>4, <3>3 DEF TurnInv, Rest, StopInv
      <4> QED BY <2>1, <2>3, <3>1, <4>1 DEF TurnInv, Rest, TurnsYield, StopFrees, Is
    <3> QED BY <3>2, <3>3
  <2> QED BY <2>2, <2>3
<1>13. AnswerInv'
  BY <1>5 DEF TurnInv, Rest, AnswerInv, Is
<1>14. AnsweredYields'
  <2> SUFFICES ASSUME NEW v \in Turn, NEW u \in Turn, turn'[v].phase = "live",
                      turn'[v].answered = "live", turn'[u].phase = "queued"
               PROVE  turn'[v].aborted
    BY DEF AnsweredYields, Is
  <2>1. turn[v].aborted
    BY <1>5 DEF TurnInv, Rest, TurnsYield, AnsweredYields, Is
  <2>2. v # t => turn'[v] = turn[v]
    BY <1>1
  <2> QED BY <1>4, <2>1, <2>2
<1>15. WatchedOrTimed'
  <2> SUFFICES ASSUME NEW u \in Turn, Waits(u)', channel'[u].pages = 0
               PROVE  channel'[u].grace \/ turn'[u].aborted
    BY DEF WatchedOrTimed
  <2>1. CASE u = t
    BY <1>4, <2>1
  <2>2. CASE u # t
    <3>1. turn'[u] = turn[u] /\ channel'[u] = channel[u]
      BY <1>1, <2>2
    <3> QED BY <3>1 DEF TurnInv, Rest, TurnsYield, WatchedOrTimed, Waits
  <2> QED BY <2>1, <2>2
<1> QED BY <1>7, <1>8, <1>9, <1>10, <1>11, <1>12, <1>13, <1>14, <1>15 DEF Rest, TurnsYield

-----------------------------------------------------------------------------
(* The theorems *)

LEMMA InvStep == TurnInv /\ [TurnNext]_turnVars => TurnInv'
<1> SUFFICES ASSUME TurnInv, [TurnNext]_turnVars PROVE TurnInv'
  OBVIOUS
<1>1. PausedIsCounted
  BY Pauses DEF PausedIsCounted
<1>2. TurnTypeOK'
  BY <1>1, TypeStep DEF TurnInv
<1>3. ASSUME NEW t \in Turn,
             \/ Send(t) \/ TurnStarts(t) \/ TurnWatched(t) \/ Progresses(t) \/ Answered(t)
             \/ Hangs(t) \/ PressesStop(t) \/ GraceKills(t) \/ PromptEnds(t) \/ Finishes(t)
             \/ Leaves(t) \/ Attach(t) \/ Abandoned(t)
             \/ \E q \in Question : Asks(t, q)
      PROVE  Rest'
  BY <1>2, <1>3, SendInv, TurnStartsInv, TurnWatchedInv, ProgressesInv, AnsweredInv, HangsInv,
     PressesStopInv, GraceKillsInv, PromptEndsInv, FinishesInv, PagesInv, AbandonedInv, AsksInv
<1>4. ASSUME NEW q \in Question, Settles(q) PROVE Rest'
  BY <1>2, <1>4, SettlesInv
<1>5. ASSUME NEW p \in Process, AgentStarts(p) PROVE Rest'
  BY <1>2, <1>5, AgentStartsInv
<1>6. ASSUME AgentExits PROVE Rest'
  BY <1>2, <1>6, AgentExitsInv
<1>7. ASSUME Tick PROVE Rest'
  BY <1>2, <1>7, TickInv
<1>8. ASSUME UNCHANGED turnVars PROVE Rest'
  BY <1>2, <1>8, StutterInv
<1>9. Rest'
  BY <1>3, <1>4, <1>5, <1>6, <1>7, <1>8 DEF TurnNext
<1> QED BY <1>2, <1>9 DEF TurnInv

LEMMA InvInit == TurnInit => TurnInv
<1> SUFFICES ASSUME TurnInit PROVE TurnInv
  OBVIOUS
<1>1. /\ turn = [t \in Turn |-> Unsent] /\ channel = [t \in Turn |-> Watched]
      /\ question = [q \in Question |-> Unasked] /\ crossed = {} /\ doomed = FALSE
      /\ agent = [k \in {Chat} |-> None] /\ user = [k \in {Chat} |-> None] /\ spent = {} /\ shut = FALSE
      /\ still = [t \in Turn |-> 0] /\ sink = None /\ previous = [t \in Turn |-> None]
  BY DEF TurnInit, Agent!Init
<1>2. /\ Unsent.phase = "new" /\ Unsent.watch = "none" /\ Unsent.pauses = 0 /\ Unsent.stop = "off"
      /\ Unasked.phase = "new" /\ Watched.pages = 1
  BY DEF Unsent, Unasked, Watched
<1>3. TurnTypeOK
  <2>1. turn \in [Turn -> TurnState]
    BY <1>1, UnsentType
  <2>2. ChannelOK
    BY <1>1 DEF ChannelOK, Watched
  <2>3. QuestionOK
    BY <1>1 DEF QuestionOK, Unasked
  <2>4. ThreadOK
    BY <1>1 DEF ThreadOK
  <2>5. 0 \in 0..IdleTicks
    OBVIOUS
  <2> QED BY <1>1, <2>1, <2>2, <2>3, <2>4, <2>5, TurnTypeParts
<1>4. HoldInv
  <2>1. \A t \in Turn : Held(t) = {}
    BY <1>1, <1>2 DEF Held
  <2> QED BY <1>1, <1>2, <2>1, FS_EmptySet DEF HoldInv
<1>5. PhaseInv /\ AskInv /\ AgeInv /\ HungIsIdle /\ StopInv /\ AnswerInv
  BY <1>1, <1>2 DEF PhaseInv, AskInv, AgeInv, HungIsIdle, StopInv, AnswerInv, Is
<1>6. TurnsYield
  BY <1>1, <1>2 DEF TurnsYield, StopFrees, AnsweredYields, WatchedOrTimed, Is, Waits
<1> QED BY <1>3, <1>4, <1>5, <1>6 DEF TurnInv, Rest

\* Turns, questions, clocks and the agent's thread agree in every reachable state.
THEOREM TurnInvAlways == TurnSpec => []TurnInv
BY InvInit, InvStep, PTL DEF TurnSpec

\* Every turn keeps a state the route gives it, and no release of a pause comes
\* without the pause: the count never goes below zero.
THEOREM TurnsTyped == TurnSpec => []TurnTypeOK
<1>1. TurnInv => TurnTypeOK
  BY DEF TurnInv
<1> QED BY <1>1, TurnInvAlways, PTL

(* Stop frees the chat, an answered turn makes way for the send behind it,  *)
(* and no agent works without a watcher, for any number of sends.           *)
THEOREM ChatIsFreed == TurnSpec => []TurnsYield
<1>1. TurnInv => TurnsYield
  BY DEF TurnInv, Rest
<1> QED BY <1>1, TurnInvAlways, PTL

(* The watchdog hangs up only on an agent that has been still, with nobody  *)
(* asked anything, for the whole idle limit.                                *)
THEOREM OnlyIdleIsHung == TurnSpec => []HungIsIdle
<1>1. TurnInv => HungIsIdle
  BY DEF TurnInv, Rest
<1> QED BY <1>1, TurnInvAlways, PTL
=============================================================================
