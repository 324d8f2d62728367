------------------------------ MODULE RunEvents ------------------------------
(***************************************************************************)
(* The event log of one program run (server/programRunStore.ts), the       *)
(* watchers told of each event after it is on disk (commit in              *)
(* server/programRunner.ts), and the clients that follow the run over      *)
(* streams that break and resume (server/programRoutes.ts).                *)
(*                                                                         *)
(* A line is an event and the seq the log gave it.  An append that was cut *)
(* short leaves a line with no end: a reader skips it, unless only its     *)
(* newline is missing, and the next line is written behind it on the same  *)
(* line, where no reader can parse the two.                                *)
(***************************************************************************)
EXTENDS Naturals, Sequences, FiniteSets

CONSTANTS Client, MaxEvents, MaxCuts

ASSUME RunEventsAssumption == MaxEvents \in Nat /\ MaxCuts \in Nat

VARIABLES
  file,      \* the lines that ended, in order, and the last one if "all" of it is there
  torn,      \* how much there is of a line with no end: "no", "part" or "all" of it
  going,     \* the run is live in this process
  nextSeq,   \* the counter of the open log
  told,      \* history: events committed so far
  glued,     \* history: an event was lost in a line that was written on
  cuts,      \* appends cut short, crashes and broken streams so far
  stream     \* of each client: its cursor, what it saw, what is on its way

eventVars == <<file, torn, going, nextSeq, told, glued, cuts, stream>>

Line == [event : 1..MaxEvents, seq : 1..(MaxEvents + MaxCuts), whole : BOOLEAN]
Closed == [cursor |-> 0, seen |-> << >>, wire |-> << >>, open |-> FALSE]

EventTypeOK ==
  /\ file \in Seq(Line) /\ torn \in {"no", "part", "all"} /\ going \in BOOLEAN
  /\ nextSeq \in 0..(MaxEvents + MaxCuts) /\ told \in 0..MaxEvents
  /\ glued \in BOOLEAN /\ cuts \in 0..MaxCuts
  /\ stream \in [Client -> [cursor : 0..(MaxEvents + MaxCuts), seen : Seq(1..MaxEvents),
                            wire : Seq(Line), open : BOOLEAN]]

EventInit ==
  /\ file = << >> /\ torn = "no" /\ going = FALSE /\ nextSeq = 0
  /\ told = 0 /\ glued = FALSE /\ cuts = 0
  /\ stream = [c \in Client |-> Closed]

-----------------------------------------------------------------------------

\* The lines of the file at the given places, in order (a SelectSeq of the file,
\* in a form that can be reasoned about).
LinesAt(places) ==
  LET place(n) == CHOOSE i \in places : Cardinality({j \in places : j < i}) = n - 1
  IN [n \in 1..Cardinality(places) |-> file[place(n)]]

\* readRunEvents: what cannot be parsed is skipped.
ReadRunEvents(since) == LinesAt({i \in DOMAIN file : file[i].whole /\ file[i].seq > since})

LastCommittedSeq ==
  LET events == ReadRunEvents(0) IN IF events = << >> THEN 0 ELSE events[Len(events)].seq

\* The last seq sent on a stream: what is on its way, or else its cursor.
LastSent(s) == IF s.wire = << >> THEN s.cursor ELSE s.wire[Len(s.wire)].seq

SendEvent(s, l) == IF l.seq <= LastSent(s) THEN s ELSE [s EXCEPT !.wire = Append(@, l)]

\* Broken variant: the counter starts over.
OpenLogAfresh ==
  /\ ~going
  /\ going' = TRUE
  /\ nextSeq' = 0
  /\ UNCHANGED <<file, torn, told, glued, cuts, stream>>

\* openRunLog, when a run starts, and when it is resumed or retried.
OpenRunLog ==
  /\ ~going
  /\ going' = TRUE
  /\ nextSeq' = LastCommittedSeq
  /\ UNCHANGED <<file, torn, told, glued, cuts, stream>>

NextLine == [event |-> told + 1, seq |-> nextSeq + 1, whole |-> torn = "no"]

\* What is written behind a line with no end belongs to that line, which cannot
\* be parsed any more.
Spoilt == [file EXCEPT ![Len(file)].whole = FALSE]

\* commit: the line is on disk before any watcher is told.  The last event of
\* a run ends it and its streams.
Commit(finished) ==
  /\ going /\ told < MaxEvents
  /\ told' = told + 1 /\ nextSeq' = nextSeq + 1
  /\ file' = IF torn = "all" THEN Spoilt ELSE Append(file, NextLine)
  /\ torn' = "no" /\ glued' = (glued \/ torn # "no")
  /\ going' = ~finished
  /\ stream' = [c \in Client |->
       IF stream[c].open THEN [SendEvent(stream[c], NextLine) EXCEPT !.open = ~finished] ELSE stream[c]]
  /\ UNCHANGED cuts

\* An append cut short leaves nothing of the line, a part, or all but its newline.
Tear ==
  \/ UNCHANGED <<file, torn, glued>>
  \/ /\ torn' = "part"
     /\ file' = IF torn = "all" THEN Spoilt ELSE file
     /\ glued' = (glued \/ torn = "all")
  \/ /\ torn = "no" /\ torn' = "all" /\ told < MaxEvents
     /\ file' = Append(file, NextLine)
     /\ UNCHANGED glued

\* The disk is full: the line is cut short and nobody is told; the run goes on,
\* or ends, its watchers with it, if its driver does not survive it.
AppendFails ==
  /\ going /\ cuts < MaxCuts /\ cuts' = cuts + 1
  /\ nextSeq' = nextSeq + 1
  /\ Tear
  /\ going' \in BOOLEAN
  /\ stream' = [c \in Client |-> [stream[c] EXCEPT !.open = @ /\ going']]
  /\ UNCHANGED told

\* The server dies, perhaps in the middle of an append; what was on its way is lost.
ServerDies ==
  /\ cuts < MaxCuts /\ cuts' = cuts + 1
  /\ IF going THEN Tear ELSE UNCHANGED <<file, torn, glued>>
  /\ going' = FALSE /\ nextSeq' = 0
  /\ stream' = [c \in Client |-> [stream[c] EXCEPT !.open = FALSE, !.wire = << >>]]
  /\ UNCHANGED told

-----------------------------------------------------------------------------

\* A client connects with its cursor: subscribe, then replay.
Connect(c) ==
  /\ ~stream[c].open /\ stream[c].wire = << >>
  /\ stream' = [stream EXCEPT ![c].wire = ReadRunEvents(stream[c].cursor), ![c].open = going]
  /\ UNCHANGED <<file, torn, going, nextSeq, told, glued, cuts>>

Receive(c) ==
  /\ stream[c].wire # << >>
  /\ LET l == Head(stream[c].wire)
     IN stream' = [stream EXCEPT ![c].cursor = l.seq, ![c].seen = Append(@, l.event), ![c].wire = Tail(@)]
  /\ UNCHANGED <<file, torn, going, nextSeq, told, glued, cuts>>

\* A disconnect drops the subscription and nothing else.
Disconnect(c) ==
  /\ stream[c].open \/ stream[c].wire # << >>
  /\ cuts < MaxCuts /\ cuts' = cuts + 1
  /\ stream' = [stream EXCEPT ![c].open = FALSE, ![c].wire = << >>]
  /\ UNCHANGED <<file, torn, going, nextSeq, told, glued>>

EventNext ==
  \/ OpenRunLog \/ AppendFails \/ ServerDies
  \/ \E finished \in BOOLEAN : Commit(finished)
  \/ \E c \in Client : Connect(c) \/ Receive(c) \/ Disconnect(c)

EventSpec == EventInit /\ [][EventNext]_eventVars

-----------------------------------------------------------------------------
(* Correctness *)

\* A client has seen, once and in order, exactly the events on disk up to its
\* cursor, however often its stream broke, the run was resumed or the server
\* died: it can be told of nothing that is not durable, and resuming from its
\* cursor misses nothing.  Excused once an event was lost in a line without an
\* end that was written on.
CursorMeansSeen ==
  \A c \in Client :
    LET passed == LinesAt({i \in DOMAIN file : file[i].whole /\ file[i].seq <= stream[c].cursor})
    IN glued \/ stream[c].seen = [i \in DOMAIN passed |-> passed[i].event]
=============================================================================
