------------------------------ MODULE AgentTurn ------------------------------
(***************************************************************************)
(* The turns of one chat with its agent (server/runNodeRoutes.ts): each    *)
(* asks the session cache for the chat's agent, of which AgentThread is    *)
(* all that is assumed, and hears of it through one sink per chat.  Around *)
(* a turn stand its channel of watching pages (server/turnChannels.ts),    *)
(* its watchdog (acp/src/turnWatchdog.ts), the detector that calls it      *)
(* answered (acp/src/turnStatus.ts), and the questions put to the person.  *)
(* Turns are numbered in the order they are sent; every one is streamed.   *)
(***************************************************************************)
EXTENDS Naturals

CONSTANTS
  Turn,       \* numbers of turns
  Process,    \* numbers of agent processes
  Question,   \* approvals and questions the agents ask
  Chat,       \* the session key of the chat
  None,       \* no turn, process or question
  IdleTicks,  \* idleMs of the watchdog, in ticks of the clock
  MaxPages    \* bound on the pages that watch a turn

ASSUME AgentTurnAssumption ==
  /\ Turn \subseteq Nat \ {0} /\ Process \subseteq Nat \ {0} /\ None \notin Turn \cup Process
  /\ IdleTicks \in Nat \ {0} /\ MaxPages \in Nat \ {0}

VARIABLES
  agent, user, spent, shut,  \* the chat's agent thread
  turn,     \* the server's state of each turn
  channel,  \* who watches each turn
  sink,     \* the turn that hears what the agent says
  previous, \* the sink each turn found when it was sent
  question, \* each question: the turn that shows it, and if its watchdog is held
  doomed,   \* the agent process has been told to exit
  still,    \* history: ticks since the agent of each turn moved or was answered
  crossed   \* history: turns of which another one heard something

threadVars == <<agent, user, spent, shut>>
turnVars == <<threadVars, turn, channel, sink, previous, question, doomed, still, crossed>>

Agent == INSTANCE AgentThread WITH Key <- {Chat}

Unsent == [phase |-> "new", aborted |-> FALSE, stop |-> "off", wrote |-> FALSE, answered |-> "no",
           watch |-> "none", pauses |-> 0, age |-> 0]
\* Watched by the page that sent it.
Watched == [pages |-> 1, grace |-> FALSE, abandoned |-> FALSE]
Unasked == [phase |-> "new", of |-> None, via |-> None, holds |-> FALSE]

TurnTypeOK ==
  /\ agent \in [{Chat} -> Process \cup {None}] /\ user \in [{Chat} -> Turn \cup {None}]
  /\ spent \subseteq Process /\ shut = FALSE
  /\ turn \in [Turn -> [phase : {"new", "queued", "live", "ending", "over"}, aborted : BOOLEAN,
                        stop : {"off", "set", "fired"}, wrote : BOOLEAN,
                        answered : {"no", "queued", "live", "ending"},
                        watch : {"none", "running", "paused", "hung", "stopped"}, pauses : Nat, age : 0..IdleTicks]]
  /\ channel \in [Turn -> [pages : 0..MaxPages, grace : BOOLEAN, abandoned : BOOLEAN]]
  /\ sink \in Turn \cup {None} /\ previous \in [Turn -> Turn \cup {None}]
  /\ question \in [Question -> [phase : {"new", "open", "over"}, of : Turn \cup {None},
                                via : Turn \cup {None}, holds : BOOLEAN]]
  /\ doomed \in BOOLEAN /\ still \in [Turn -> 0..IdleTicks]
  /\ crossed \subseteq Turn

TurnInit ==
  /\ Agent!Init
  /\ turn = [t \in Turn |-> Unsent] /\ channel = [t \in Turn |-> Watched]
  /\ sink = None /\ previous = [t \in Turn |-> None]
  /\ question = [q \in Question |-> Unasked]
  /\ doomed = FALSE
  /\ still = [t \in Turn |-> 0] /\ crossed = {}

-----------------------------------------------------------------------------

Is(t, phase) == turn[t].phase = phase
Waits(t) == turn[t].phase \in {"queued", "live", "ending"}

\* acpSessions.pending: calls of run that have not returned.
Pending == {t \in Turn : Waits(t)}

Asked(t) == \E q \in Question : question[q].phase = "open" /\ question[q].of = t

\* Broken variant: the agent is asked to cancel, and nothing is set for later.
StoppedPolitely(r) == [r EXCEPT !.aborted = TRUE, !.wrote = FALSE]

\* onClientGone: the turn is aborted, and one that is live gets a grace.
Stopped(r) ==
  [r EXCEPT !.aborted = TRUE, !.wrote = FALSE,
            !.stop = IF r.phase = "live" /\ @ = "off" THEN "set" ELSE @]

\* A send cancels an answered turn that still holds the agent, takes the sink
\* and joins the queue.
Send(t) ==
  /\ Is(t, "new") /\ \A u \in Turn : u < t => ~Is(u, "new")
  /\ turn' = [u \in Turn |->
       IF u = t THEN [Unsent EXCEPT !.phase = "queued"]
       ELSE IF Is(u, "live") /\ turn[u].answered # "no" THEN Stopped(turn[u]) ELSE turn[u]]
  /\ previous' = [previous EXCEPT ![t] = sink]
  /\ sink' = t
  /\ UNCHANGED <<threadVars, channel, question, doomed, still, crossed>>

\* The cache starts an agent for a turn that asks for one, once the one before it
\* has exited: the turn that one left behind may still be live.
AgentStarts(p) ==
  /\ \E t \in Turn : Is(t, "queued")
  /\ p \notin spent /\ \A r \in Process : r < p => r \in spent
  /\ Agent!Start(Chat, p)
  /\ doomed' = FALSE
  /\ UNCHANGED <<turn, channel, sink, previous, question, still, crossed>>

AgentExits ==
  /\ Agent!Exit(Chat)
  /\ doomed' = FALSE
  /\ UNCHANGED <<turn, channel, sink, previous, question, still, crossed>>

\* run calls use: never for a turn aborted in the queue, never on a process
\* told to exit.
TurnStarts(t) ==
  /\ Is(t, "queued") /\ ~turn[t].aborted /\ ~doomed
  /\ Agent!Begin(Chat, t)
  /\ turn' = [turn EXCEPT ![t].phase = "live"]
  /\ UNCHANGED <<channel, sink, previous, question, doomed, still, crossed>>

\* The access mode is set and the watchdog starts.
TurnWatched(t) ==
  /\ Is(t, "live") /\ turn[t].watch = "none" /\ user[Chat] = t
  /\ turn' = [turn EXCEPT ![t].watch = "running", ![t].age = 0]
  /\ still' = [still EXCEPT ![t] = 0]
  /\ UNCHANGED <<threadVars, channel, sink, previous, question, doomed, crossed>>

-----------------------------------------------------------------------------
(* What the agent says goes to the sink *)

\* An update that is progress: the watchdog of the sink starts over, and its
\* detector takes note of text, or of work after it.
Progresses(t) ==
  /\ user[Chat] = t /\ turn[t].watch \in {"running", "paused"} /\ sink # None
  /\ \E text \in BOOLEAN :
       turn' = [turn EXCEPT
         ![sink].age = IF turn[sink].watch = "running" THEN 0 ELSE @,
         ![sink].wrote = IF turn[sink].aborted \/ turn[sink].answered # "no" \/ Is(sink, "over") THEN @ ELSE text]
  /\ still' = [still EXCEPT ![t] = 0]
  /\ crossed' = crossed \cup ({t} \ {sink})
  /\ UNCHANGED <<threadVars, channel, sink, previous, question, doomed>>

\* Text, and nothing more for a while, with no question open: answered, be it
\* in the queue.  If another send waits, the turn is cancelled.
Answered(t) ==
  /\ Waits(t) /\ turn[t].wrote
  /\ \A q \in Question : ~(question[q].phase = "open" /\ question[q].via = t)
  /\ turn' = [turn EXCEPT ![t] =
       LET r == [@ EXCEPT !.answered = turn[t].phase, !.wrote = FALSE]
       IN IF Pending # {t} THEN Stopped(r) ELSE r]
  /\ UNCHANGED <<threadVars, channel, sink, previous, question, doomed, still, crossed>>

\* The agent asks: shown by the sink, unless its pages are gone.
Asks(t, q) ==
  /\ user[Chat] = t /\ sink # None /\ turn[t].watch \in {"running", "paused"}
  /\ question[q].phase = "new" /\ ~channel[sink].abandoned
  /\ LET holds == turn[sink].watch \in {"running", "paused"}
     IN /\ question' = [question EXCEPT ![q] = [phase |-> "open", of |-> t, via |-> sink, holds |-> holds]]
        /\ turn' = IF holds THEN [turn EXCEPT ![sink].watch = "paused", ![sink].pauses = @ + 1] ELSE turn
  /\ crossed' = crossed \cup ({t} \ {sink})
  /\ UNCHANGED <<threadVars, channel, sink, previous, doomed, still>>

\* Broken variant: the countdown goes on where it was.
ReleasedOld(r) ==
  IF r.watch # "paused" THEN r
  ELSE IF r.pauses = 1 THEN [r EXCEPT !.pauses = 0, !.watch = "running"]
  ELSE [r EXCEPT !.pauses = @ - 1]

\* The release of one pause.
Released(r) ==
  IF r.watch # "paused" THEN r
  ELSE IF r.pauses = 1 THEN [r EXCEPT !.pauses = 0, !.watch = "running", !.age = 0]
  ELSE [r EXCEPT !.pauses = @ - 1]

AskedAlready == [Unasked EXCEPT !.phase = "over"]

\* An answer, or the timeout.
Settles(q) ==
  LET v == question[q].via IN
  /\ question[q].phase = "open"
  /\ question' = [question EXCEPT ![q] = AskedAlready]
  /\ turn' = IF question[q].holds THEN [turn EXCEPT ![v] = Released(@)] ELSE turn
  /\ still' = [t \in Turn |-> IF t = question[q].of /\ turn[t].watch # "hung" THEN 0 ELSE still[t]]
  /\ UNCHANGED <<threadVars, channel, sink, previous, doomed, crossed>>

-----------------------------------------------------------------------------
(* The watchdog *)

\* Broken variant: time passes a watchdog that is due.
TickPast ==
  /\ \E t \in Turn : Is(t, "live")
  /\ turn' = [t \in Turn |-> IF turn[t].watch = "running" THEN [turn[t] EXCEPT !.age = @ + 1] ELSE turn[t]]
  /\ UNCHANGED <<threadVars, channel, sink, previous, question, doomed, still, crossed>>

Tick ==
  /\ \E t \in Turn : Is(t, "live")
  /\ \A t \in Turn : turn[t].watch = "running" => turn[t].age < IdleTicks
  /\ turn' = [t \in Turn |-> IF turn[t].watch = "running" THEN [turn[t] EXCEPT !.age = @ + 1] ELSE turn[t]]
  /\ still' = [t \in Turn |-> IF turn[t].watch \in {"running", "paused"} /\ ~Asked(t) /\ still[t] < IdleTicks
                              THEN still[t] + 1 ELSE still[t]]
  /\ UNCHANGED <<threadVars, channel, sink, previous, question, doomed, crossed>>

\* No progress for idleMs: the turn is aborted and its agent told to exit.
Hangs(t) ==
  /\ turn[t].watch = "running" /\ turn[t].age = IdleTicks
  /\ turn' = [turn EXCEPT ![t].watch = "hung", ![t].aborted = TRUE]
  /\ doomed' = (agent[Chat] # None)
  /\ UNCHANGED <<threadVars, channel, sink, previous, question, still, crossed>>

-----------------------------------------------------------------------------
(* The person *)

PressesStop(t) ==
  /\ Waits(t)
  /\ turn' = [turn EXCEPT ![t] = Stopped(@)]
  /\ UNCHANGED <<threadVars, channel, sink, previous, question, doomed, still, crossed>>

\* The grace of a stop is over and the turn still live.
GraceKills(t) ==
  /\ Is(t, "live") /\ turn[t].stop = "set"
  /\ turn' = [turn EXCEPT ![t].stop = "fired"]
  /\ doomed' = (agent[Chat] # None)
  /\ UNCHANGED <<threadVars, channel, sink, previous, question, still, crossed>>

\* The page that sent the turn goes, or one that came back.
Leaves(t) ==
  /\ Waits(t) /\ channel[t].pages > 0
  /\ channel' = [channel EXCEPT ![t].pages = @ - 1, ![t].grace = (channel[t].pages = 1)]
  /\ UNCHANGED <<threadVars, turn, sink, previous, question, doomed, still, crossed>>

Attach(t) ==
  /\ Waits(t) /\ channel[t].pages < MaxPages
  /\ channel' = [channel EXCEPT ![t].pages = @ + 1, ![t].grace = FALSE]
  /\ UNCHANGED <<threadVars, turn, sink, previous, question, doomed, still, crossed>>

\* Nobody came back: the questions the turn shows are denied, and it is stopped.
Abandoned(t) ==
  LET shown == {q \in Question : question[q].phase = "open" /\ question[q].via = t} IN
  /\ Waits(t) /\ channel[t].grace
  /\ channel' = [channel EXCEPT ![t].grace = FALSE, ![t].abandoned = TRUE]
  /\ question' = [q \in Question |-> IF q \in shown THEN AskedAlready ELSE question[q]]
  /\ turn' = [turn EXCEPT ![t] =
       LET r == Stopped(@)
       IN IF r.watch = "paused" THEN [r EXCEPT !.watch = "running", !.pauses = 0, !.age = 0] ELSE r]
  /\ still' = [u \in Turn |-> IF (\E q \in shown : question[q].of = u) /\ turn[u].watch # "hung" THEN 0 ELSE still[u]]
  /\ UNCHANGED <<threadVars, sink, previous, doomed, crossed>>

-----------------------------------------------------------------------------
(* The end of a turn *)

\* The prompt returns, throws, or is given up: with the process if it is gone.
PromptEnds(t) ==
  /\ Is(t, "live")
  /\ IF user[Chat] = t THEN Agent!End(Chat) ELSE UNCHANGED threadVars
  /\ turn' = [turn EXCEPT ![t].phase = "ending", ![t].watch = IF @ = "hung" THEN @ ELSE "stopped"]
  \* A prompt that throws takes its agent with it; one that returns, be it as
  \* cancelled, leaves it.
  /\ doomed' \in IF user[Chat] = t THEN {doomed, TRUE} ELSE {doomed}
  /\ UNCHANGED <<channel, sink, previous, question, still, crossed>>

\* run has returned or thrown, in the queue too: the stream ends and the sink
\* is given back if it is still this turn's.
Finishes(t) ==
  /\ Is(t, "ending") \/ Is(t, "queued")
  /\ turn' = [turn EXCEPT ![t] = [Unsent EXCEPT !.phase = "over"]]
  /\ channel' = [channel EXCEPT ![t] = [Watched EXCEPT !.abandoned = channel[t].abandoned]]
  /\ sink' = IF sink = t THEN previous[t] ELSE sink
  /\ previous' = [previous EXCEPT ![t] = None]
  /\ still' = [still EXCEPT ![t] = 0]
  /\ crossed' = crossed \ {t}
  /\ UNCHANGED <<threadVars, question, doomed>>

TurnNext ==
  \/ \E t \in Turn :
       \/ Send(t) \/ TurnStarts(t) \/ TurnWatched(t) \/ Progresses(t) \/ Answered(t)
       \/ Hangs(t) \/ PressesStop(t) \/ GraceKills(t) \/ PromptEnds(t) \/ Finishes(t)
       \/ Leaves(t) \/ Attach(t) \/ Abandoned(t)
       \/ \E q \in Question : Asks(t, q)
  \/ \E q \in Question : Settles(q)
  \/ \E p \in Process : AgentStarts(p)
  \/ AgentExits \/ Tick

TurnSpec == TurnInit /\ [][TurnNext]_turnVars

-----------------------------------------------------------------------------
(* Correctness *)

\* Stop frees the chat: a live turn that was told to stop runs out its grace, or
\* its agent is gone or told to go.
StopFrees ==
  \A t \in Turn : Is(t, "live") /\ turn[t].aborted =>
    turn[t].stop = "set" \/ doomed \/ user[Chat] # t

\* A turn that was answered while it ran and still holds the agent is being
\* stopped as soon as another send waits behind it.  (One called answered in
\* the queue, for what the turn before it said, is not.)
AnsweredYields ==
  \A t, u \in Turn : Is(t, "live") /\ turn[t].answered = "live" /\ Is(u, "queued") => turn[t].aborted

\* No agent works for nobody: a turn without a watcher has its grace running, or
\* has been told to stop.
WatchedOrTimed ==
  \A t \in Turn : Waits(t) /\ channel[t].pages = 0 => channel[t].grace \/ turn[t].aborted

TurnsYield == StopFrees /\ AnsweredYields /\ WatchedOrTimed

\* A turn is called hung only when its agent has not moved for idleMs with
\* nobody being asked anything, unless another turn heard what it said.
HungIsIdle == \A t \in Turn \ crossed : turn[t].watch = "hung" => still[t] = IdleTicks
=============================================================================
