---------------------------- MODULE TurnSnapshots ----------------------------
(***************************************************************************)
(* "Revert to here" of one chat (server/snapshot.ts): the tree is taken    *)
(* into a shadow index when a turn starts, beside the turn; a write the    *)
(* agent announces waits for it at the gate (server/turnSnapshotGate.ts)   *)
(* and is listed before it lands.  Everything that touches the shadow goes *)
(* through one queue.  Files that another process holds open can be        *)
(* neither read nor replaced.                                              *)
(*                                                                         *)
(* The tree is read, and put back, in one step: what is said below is said *)
(* of each file by itself, and a change to a file comes either before or   *)
(* after the moment it is read or put back.  A file git would have to read *)
(* and cannot is one somebody holds open.                                  *)
(***************************************************************************)
EXTENDS Naturals, Sequences

CONSTANTS
  Path,      \* the files of the tree
  Absent,    \* no such file
  Nothing,   \* no tree, no revert
  MaxTurns,  \* turns kept per session
  MaxSends, MaxWrites, MaxPresses, MaxHolds, MaxFailures  \* bound the model

Version == 0..MaxWrites \cup {Absent}
Tree == [Path -> Version]
TurnRecord ==
  [of: Nat \ {0}, tree: Tree \cup {Nothing}, files: SUBSET Path, skipped: SUBSET Path,
   start: Tree, others: SUBSET Path]
RevertState == [seq: Nat \ {0}, undo: Tree, files: SUBSET Path, skipped: SUBSET Path, strayed: SUBSET Path]
Call ==
  [op: {"begin"}, of: Nat \ {0}, start: Tree] \cup [op: {"track"}, of: Nat, path: Path]
    \cup [op: {"revert"}, seq: Nat \ {0}] \cup [op: {"undo"}]

ASSUME SnapshotsAssumption ==
  /\ MaxTurns \in Nat \ {0} /\ Absent \notin Nat \cup Path /\ Nothing \notin Tree \cup RevertState
  /\ {MaxSends, MaxWrites, MaxPresses, MaxHolds, MaxFailures} \subseteq Nat

\* History: start, what the files held when the turn started; others, the files
\* changed since but not by its agent; strayed, those that need not hold the
\* start of the turn reverted to.
VARIABLES
  disk,     \* what each file holds: the number of the write it comes from
  inUse,    \* files another process holds open
  index,    \* the shadow index
  turns,    \* the session's turns, by seq
  revert,   \* the active revert
  queue,    \* what waits for the shadow; the first is running
  stage,    \* how far the first has come, if it is a revert
  writer,   \* the agent, its turn, and the write it has announced
  used,     \* what the bounds count
  before,   \* history: the tree when the first of the active reverts began
  touched   \* history: files changed since, or given up by a revert

snapshotVars == <<disk, inUse, index, turns, revert, queue, stage, writer, used, before, touched>>

NotBegun == [phase |-> "start", files |-> {}, leave |-> {}, undo |-> Nothing]
Nowhere == [state |-> "off", turn |-> 0, path |-> Absent]

SnapshotTypeOK ==
  /\ disk \in Tree /\ index \in Tree /\ inUse \subseteq Path
  /\ DOMAIN turns \subseteq Nat \ {0}
  /\ DOMAIN turns # {} => \E first, last \in DOMAIN turns : DOMAIN turns = first..last /\ last < first + MaxTurns
  /\ turns \in [DOMAIN turns -> TurnRecord]
  /\ revert \in RevertState \cup {Nothing}
  /\ queue \in Seq(Call)
  /\ stage \in [phase: {"start", "looked", "ready"}, files: SUBSET Path, leave: SUBSET Path,
                undo: Tree \cup {Nothing}]
  /\ writer \in [state: {"off", "idle", "gated", "tracking", "cleared"}, turn: Nat, path: Path \cup {Absent}]
  /\ used \in [sends: Nat, writes: Nat, presses: Nat, holds: Nat, failures: Nat] /\ used.writes <= MaxWrites
  /\ before \in Tree \cup {Nothing} /\ touched \subseteq Path

SnapshotInit ==
  /\ disk \in [Path -> {0, Absent}] /\ index = [f \in Path |-> Absent]
  /\ inUse = {} /\ turns = << >> /\ revert = Nothing
  /\ queue = << >> /\ stage = NotBegun /\ writer = Nowhere
  /\ used = [sends |-> 0, writes |-> 0, presses |-> 0, holds |-> 0, failures |-> 0]
  /\ before = Nothing /\ touched = {}

-----------------------------------------------------------------------------

Queued(op) == \E i \in DOMAIN queue : queue[i].op = op
Runs(op) == queue # << >> /\ queue[1].op = op
UnderRevert == revert # Nothing \/ Queued("revert") \/ Queued("undo")

\* History: these files were changed, but not by the agent of a turn.  A turn
\* whose tree is still to be taken starts from what they hold now.
Marked(paths) == [s \in DOMAIN turns |-> [turns[s] EXCEPT !.others = @ \cup paths]]
StartsFrom(jobs, paths) ==
  [i \in DOMAIN jobs |-> IF jobs[i].op # "begin" THEN jobs[i]
     ELSE [jobs[i] EXCEPT !.start = [f \in Path |-> IF f \in paths THEN disk'[f] ELSE @[f]]]]

Strayed(paths) == IF revert = Nothing THEN Nothing ELSE [revert EXCEPT !.strayed = @ \cup paths]

\* snapshotTree: what is readable of the paths goes into the shadow index.
Reread(paths) == [f \in Path |-> IF f \in paths \ inUse THEN disk[f] ELSE index[f]]

\* restorePaths: checked out into the tree and the index, or removed.
PutBack(tree, paths) ==
  /\ disk' = [f \in Path |-> IF f \in paths THEN tree[f] ELSE disk[f]]
  /\ index' = [f \in Path |-> IF f \in paths /\ tree[f] # Absent THEN tree[f] ELSE index[f]]

FilesFrom(seq) == UNION {turns[s].files : s \in {u \in DOMAIN turns : u >= seq}}
Reverted == IF revert = Nothing THEN {} ELSE revert.files
LeftAlone == IF revert = Nothing THEN {} ELSE revert.skipped

-----------------------------------------------------------------------------
(* The agent *)

\* startTurn: the snapshot is queued and not awaited.
StartTurn ==
  /\ writer.state = "off" /\ used.sends < MaxSends
  /\ used' = [used EXCEPT !.sends = @ + 1]
  /\ writer' = [Nowhere EXCEPT !.state = "idle", !.turn = used.sends + 1]
  /\ queue' = Append(queue, [op |-> "begin", of |-> used.sends + 1, start |-> disk])
  /\ UNCHANGED <<disk, inUse, index, turns, revert, stage, before, touched>>

Announces(f) ==
  /\ writer.state = "idle"
  /\ writer' = [writer EXCEPT !.state = "gated", !.path = f]
  /\ UNCHANGED <<disk, inUse, index, turns, revert, queue, stage, used, before, touched>>

Track(id) == [op |-> "track", path |-> writer.path, of |-> id]

\* Broken variant: the agent is answered at once, and the listing is left to
\* the queue.
BeforeWriteAtOnce ==
  /\ writer.state = "gated"
  /\ \E id \in {0, writer.turn} : queue' = Append(queue, Track(id))
  /\ writer' = [writer EXCEPT !.state = "cleared"]
  /\ UNCHANGED <<disk, inUse, index, turns, revert, stage, used, before, touched>>

\* beforeWrite: once the snapshot of the turn is taken the paths are tracked,
\* under the turn's id if the agent has one (0 is none).
BeforeWrite ==
  /\ writer.state = "gated" /\ ~Queued("begin")
  /\ \E id \in {0, writer.turn} : queue' = Append(queue, Track(id))
  /\ writer' = [writer EXCEPT !.state = "tracking"]
  /\ UNCHANGED <<disk, inUse, index, turns, revert, stage, used, before, touched>>

\* One more version of f, or none.
Changed(f) ==
  /\ f \notin inUse /\ used.writes < MaxWrites
  /\ \E v \in {used.writes + 1, Absent} \ {disk[f]} : disk' = [disk EXCEPT ![f] = v]
  /\ used' = [used EXCEPT !.writes = @ + 1]
  /\ touched' = touched \cup {f} /\ revert' = Strayed({f})

\* The announced write lands.  (What a turn writes while it is being reverted,
\* or after, is the next turn's past: it is counted as somebody else's.)
Writes ==
  /\ writer.state = "cleared" /\ Changed(writer.path)
  /\ writer' = [writer EXCEPT !.state = "idle", !.path = Absent]
  /\ turns' = IF UnderRevert THEN Marked({writer.path}) ELSE turns
  /\ queue' = IF UnderRevert THEN StartsFrom(queue, {writer.path}) ELSE queue
  /\ UNCHANGED <<inUse, index, stage, before>>

\* The person, another program, or the agent unannounced.
SomebodyWrites(f) ==
  /\ Changed(f)
  /\ turns' = Marked({f}) /\ queue' = StartsFrom(queue, {f})
  /\ UNCHANGED <<inUse, index, stage, writer, before>>

TurnEnds ==
  /\ writer.state \in {"idle", "cleared"}
  /\ writer' = Nowhere
  /\ UNCHANGED <<disk, inUse, index, turns, revert, queue, stage, used, before, touched>>

\* Another process opens a file, or closes it.
HoldsOpen(f) ==
  /\ disk[f] # Absent /\ f \notin inUse /\ used.holds < MaxHolds
  /\ inUse' = inUse \cup {f} /\ used' = [used EXCEPT !.holds = @ + 1]
  /\ UNCHANGED <<disk, index, turns, revert, queue, stage, writer, before, touched>>

Closes(f) ==
  /\ f \in inUse /\ inUse' = inUse \ {f}
  /\ UNCHANGED <<disk, index, turns, revert, queue, stage, writer, used, before, touched>>

-----------------------------------------------------------------------------
(* What runs in the queue *)

Newest(seqs) == {s \in seqs : \A u \in seqs : u <= s}

\* beginTurn: the reverted turns are dropped, and the new one has its tree, if
\* one can be written.
BeginTurn ==
  /\ Runs("begin")
  /\ LET kept == {s \in DOMAIN turns : revert = Nothing \/ s < revert.seq}
         Recorded(tree, skipped) ==
           \E seq \in IF kept = {} THEN {1} ELSE {s + 1 : s \in Newest(kept)} :
             turns' = [s \in {u \in kept \cup {seq} : seq < u + MaxTurns} |->
               IF s # seq THEN turns[s]
               ELSE [of |-> Head(queue).of, tree |-> tree, files |-> {}, skipped |-> skipped,
                     start |-> Head(queue).start, others |-> {}]]
     IN \/ /\ index' = Reread(Path) /\ Recorded(Reread(Path), inUse)
           /\ used' = used
        \/ /\ used.failures < MaxFailures /\ used' = [used EXCEPT !.failures = @ + 1]
           /\ index' = index /\ Recorded(Nothing, {})
  /\ revert' = Nothing /\ before' = Nothing /\ touched' = {}
  /\ queue' = Tail(queue)
  /\ UNCHANGED <<disk, inUse, stage, writer>>

\* trackTurnWrites: on the turn named, or the newest.
TrackTurnWrites ==
  /\ Runs("track")
  /\ LET named == {s \in DOMAIN turns : turns[s].of = Head(queue).of}
         on == IF named = {} THEN Newest(DOMAIN turns) ELSE named
     IN turns' = [s \in DOMAIN turns |-> IF s \notin on THEN turns[s]
                                         ELSE [turns[s] EXCEPT !.files = @ \cup {Head(queue).path}]]
  /\ writer' = IF writer.state = "tracking" THEN [writer EXCEPT !.state = "cleared"] ELSE writer
  /\ queue' = Tail(queue)
  /\ UNCHANGED <<disk, inUse, index, revert, stage, used, before, touched>>

Queues(job) ==
  /\ used.presses < MaxPresses /\ used' = [used EXCEPT !.presses = @ + 1]
  /\ queue' = Append(queue, job)
  /\ UNCHANGED <<disk, inUse, index, turns, revert, stage, writer, before, touched>>

AsksRevert == \E s \in DOMAIN turns : Queues([op |-> "revert", seq |-> s])
AsksUndo == revert # Nothing /\ Queues([op |-> "undo"])

\* The turn to revert to.
GoalSeq == Head(queue).seq
Goal == turns[GoalSeq]
HasGoal == GoalSeq \in DOMAIN turns /\ Goal.tree # Nothing

Refused ==
  /\ \/ Runs("revert") /\ stage.phase = "start" /\ ~HasGoal
     \/ Runs("undo") /\ revert = Nothing
  /\ queue' = Tail(queue)
  /\ UNCHANGED <<disk, inUse, index, turns, revert, stage, writer, used, before, touched>>

\* revertToTurn, first part: the files to put back are those listed since, those
\* of the revert before it, and those that were made since.
Look ==
  /\ Runs("revert") /\ stage.phase = "start" /\ HasGoal
  /\ LET now == Reread(Path)
         leave == Goal.skipped \cup LeftAlone \cup inUse
         made == {f \in Path : Goal.tree[f] = Absent /\ now[f] # Absent}
     IN /\ index' = now
        /\ stage' = [stage EXCEPT !.phase = "looked", !.leave = leave,
                                  !.files = (FilesFrom(GoalSeq) \cup Reverted \cup made) \ leave]
  /\ before' = IF revert = Nothing THEN disk ELSE before
  /\ touched' = IF revert = Nothing THEN {} ELSE touched
  /\ UNCHANGED <<disk, inUse, turns, revert, queue, writer, used>>

\* Second part: the undo point, of the first revert for what it covered, and
\* of now for the rest (widenUndo).
TakeUndoPoint ==
  /\ Runs("revert") /\ stage.phase = "looked"
  /\ LET extra == stage.files \ Reverted
         undo == IF revert = Nothing THEN index'
                 ELSE [f \in Path |-> IF f \in extra \ inUse THEN index'[f] ELSE revert.undo[f]]
     IN /\ index' = Reread(extra)
        /\ stage' = [stage EXCEPT !.phase = "ready", !.leave = @ \cup (extra \cap inUse),
                                  !.files = @ \ (extra \cap inUse), !.undo = undo]
  /\ UNCHANGED <<disk, inUse, turns, revert, queue, writer, used, before, touched>>

\* Last part: everything is put back, and the revert recorded.
RevertToTurn ==
  /\ Runs("revert") /\ stage.phase = "ready" /\ stage.files \cap inUse = {}
  /\ PutBack(Goal.tree, stage.files)
  /\ revert' = [seq |-> GoalSeq, undo |-> stage.undo, files |-> stage.files, skipped |-> stage.leave,
                strayed |-> stage.leave \cup {f \in Goal.others \ stage.files :
                                               Goal.tree[f] # Absent \/ f \in touched}]
  /\ turns' = Marked(stage.leave)
  /\ queue' = StartsFrom(Tail(queue), stage.files) /\ stage' = NotBegun
  /\ touched' = touched \cup (Reverted \cap stage.leave)
  /\ UNCHANGED <<inUse, writer, used, before>>

UndoRevert ==
  /\ Runs("undo") /\ revert # Nothing /\ revert.files \cap inUse = {}
  /\ PutBack(revert.undo, revert.files)
  /\ revert' = Nothing
  /\ queue' = StartsFrom(Tail(queue), revert.files)
  /\ UNCHANGED <<inUse, turns, stage, writer, used, before, touched>>

\* git fails half way: a file is held open, or git is killed after its timeout;
\* or the server dies, and with it the queue and the agent.
GivesUp ==
  /\ used.failures < MaxFailures /\ used' = [used EXCEPT !.failures = @ + 1]
  /\ LET reverting == Runs("revert") /\ stage.phase = "ready"
         undoing == Runs("undo") /\ revert # Nothing
         files == (IF reverting THEN stage.files ELSE IF undoing THEN revert.files ELSE {}) \ inUse
     IN \E done \in SUBSET files :
          /\ PutBack(IF reverting THEN Goal.tree ELSE IF undoing THEN revert.undo ELSE disk, done)
          /\ turns' = Marked(done) /\ revert' = Strayed(done)
          /\ touched' = IF reverting THEN touched \cup done ELSE touched
          /\ \/ /\ Runs("revert") \/ Runs("undo")
                /\ queue' = StartsFrom(Tail(queue), done) /\ writer' = writer
             \/ queue' = << >> /\ writer' = Nowhere
  /\ stage' = NotBegun
  /\ UNCHANGED <<inUse, before>>

SnapshotNext ==
  \/ StartTurn \/ BeforeWrite \/ Writes \/ TurnEnds
  \/ \E f \in Path : Announces(f) \/ SomebodyWrites(f) \/ HoldsOpen(f) \/ Closes(f)
  \/ BeginTurn \/ TrackTurnWrites
  \/ AsksRevert \/ AsksUndo \/ Refused \/ Look \/ TakeUndoPoint \/ RevertToTurn \/ UndoRevert
  \/ GivesUp

SnapshotSpec == SnapshotInit /\ [][SnapshotNext]_snapshotVars

-----------------------------------------------------------------------------
(* Correctness *)

\* A revert gives every file what it held when the turn started, before the
\* agent's first write, and removes those made since, but for files that could
\* not be read and those that somebody else changed and the agent did not.
RevertIsExact ==
  revert # Nothing => \A f \in Path \ revert.strayed : disk[f] = turns[revert.seq].start[f]

\* Undo gives every file what it held before any of the active reverts, but for
\* files changed since.
UndoIsExact ==
  before # Nothing => \A f \in Path \ touched :
    (IF f \in Reverted THEN revert.undo[f] ELSE disk[f]) = before[f]

\* Neither direction of a rewind puts a file back to anything but what it held
\* (revertToTurn, undoRevert), in any order of sends, writes and presses.
RewindIsExact == RevertIsExact /\ UndoIsExact
=============================================================================
