------------------------- MODULE TurnSnapshotsProofs -------------------------
(***************************************************************************)
(* Proofs about the rewind of one chat, for every set of files, every      *)
(* number of turns kept, and every bound on sends, writes, presses, files  *)
(* held open and failures; and that every part of MCAgentParts keeps its   *)
(* types.                                                                  *)
(***************************************************************************)
EXTENDS ScanPoolProofs, AgentTurnProofs, MCAgentParts

USE SnapshotsAssumption

StageRecord ==
  [phase: {"start", "looked", "ready"}, files: SUBSET Path, leave: SUBSET Path, undo: Tree \cup {Nothing}]
WriterRecord ==
  [state: {"off", "idle", "gated", "tracking", "cleared"}, turn: Nat, path: Path \cup {Absent}]
UsedRecord == [sends: Nat, writes: Nat, presses: Nat, holds: Nat, failures: Nat]
Contiguous(seqs) ==
  /\ seqs \subseteq Nat \ {0}
  /\ seqs # {} => \E first, last \in seqs : seqs = first..last /\ last < first + MaxTurns

HasTree(s) == turns[s].tree # Nothing
FilesBetween(s, u) == UNION {turns[v].files : v \in {w \in DOMAIN turns : s <= w /\ w < u}}

\* The tree of a turn holds what the files held when it started.
TreeInv == \A s \in DOMAIN turns : HasTree(s) =>
  \A f \in Path : f \notin turns[s].skipped => turns[s].tree[f] = turns[s].start[f]

\* Until the tree of a turn is taken its agent writes nothing.
JobInv == \A i \in DOMAIN queue : queue[i].op = "begin" => queue[i].start = disk

\* A file not listed from a turn on, not put back and not changed by others
\* holds what it held when that turn started.
DiskInv == \A s \in DOMAIN turns : \A f \in Path :
  f \notin FilesFrom(s) /\ f \notin turns[s].others /\ f \notin Reverted => disk[f] = turns[s].start[f]

\* So does what Undo would give it,
UndoneInv == revert # Nothing => \A s \in DOMAIN turns : \A f \in Reverted :
  f \notin FilesFrom(s) /\ f \notin turns[s].others => revert.undo[f] = turns[s].start[f]

\* the disk, once the turns an active revert took back are dropped,
BackInv == revert # Nothing =>
  /\ revert.seq \in DOMAIN turns
  /\ \A s \in DOMAIN turns : s < revert.seq => \A f \in Path :
       f \notin FilesBetween(s, revert.seq) /\ f \notin turns[s].others => disk[f] = turns[s].start[f]

\* and the start of a later turn, if it is not listed in between.
PastInv == \A s, u \in DOMAIN turns : s < u => \A f \in Path :
  f \notin FilesBetween(s, u) /\ f \notin turns[s].others => turns[u].start[f] = turns[s].start[f]

\* What a revert under way has found out.
StageInv == stage.phase # "start" =>
  /\ Runs("revert") /\ HasGoal /\ before # Nothing
  /\ Goal.skipped \subseteq stage.leave
  /\ FilesFrom(GoalSeq) \cup Reverted \subseteq stage.files \cup stage.leave
  /\ \A f \in Path : f \notin stage.files /\ f \notin stage.leave /\ f \notin touched =>
       (Goal.tree[f] = Absent => disk[f] = Absent)

\* And its undo point.
ReadyInv == stage.phase = "ready" =>
  /\ stage.undo # Nothing
  /\ \A s \in DOMAIN turns : \A f \in stage.files :
       f \notin FilesFrom(s) /\ f \notin turns[s].others => stage.undo[f] = turns[s].start[f]
  /\ \A f \in stage.files : f \notin touched => stage.undo[f] = before[f]

RevertInv == revert # Nothing => before # Nothing

\* Where the agent stands, and what of its is in the queue.
NoBegin(q) == \A i \in DOMAIN q : q[i].op # "begin"
LastBegin(q, id) == \E i \in DOMAIN q :
  /\ q[i].op = "begin" /\ q[i].of = id
  /\ \A j \in DOMAIN q : q[j].op = "begin" => j <= i
NoTrack(q) == \A i \in DOMAIN q : q[i].op # "track"
OneTrack(q, w) == \A i \in DOMAIN q : q[i].op = "track" =>
  /\ w.state = "tracking" /\ q[i].path = w.path /\ q[i].of \in {0, w.turn}
  /\ \A j \in DOMAIN q : q[j].op = "track" => j = i
AgentInv ==
  /\ writer.state \in {"gated", "tracking", "cleared"} => writer.path \in Path
  /\ writer.state \in {"tracking", "cleared"} => NoBegin(queue)
  /\ writer.state = "cleared" => \E s \in Newest(DOMAIN turns) : writer.path \in turns[s].files
  /\ writer.state # "off" =>
       \/ LastBegin(queue, writer.turn)
       \/ NoBegin(queue) /\ \E s \in Newest(DOMAIN turns) : turns[s].of = writer.turn
  /\ OneTrack(queue, writer)

RewindInv ==
  /\ SnapshotTypeOK /\ TreeInv /\ JobInv /\ DiskInv /\ UndoneInv /\ BackInv /\ PastInv
  /\ StageInv /\ ReadyInv /\ RevertInv /\ AgentInv /\ RevertIsExact /\ UndoIsExact

-----------------------------------------------------------------------------
(* Types *)

LEMMA SnapshotTypeParts ==
  /\ SnapshotTypeOK <=>
       /\ disk \in Tree /\ index \in Tree /\ inUse \subseteq Path
       /\ Contiguous(DOMAIN turns) /\ turns \in [DOMAIN turns -> TurnRecord]
       /\ revert \in RevertState \cup {Nothing} /\ queue \in Seq(Call) /\ stage \in StageRecord
       /\ writer \in WriterRecord /\ used \in UsedRecord /\ used.writes <= MaxWrites
       /\ before \in Tree \cup {Nothing} /\ touched \subseteq Path
  /\ SnapshotTypeOK' <=>
       /\ disk' \in Tree /\ index' \in Tree /\ inUse' \subseteq Path
       /\ Contiguous(DOMAIN turns') /\ turns' \in [DOMAIN turns' -> TurnRecord]
       /\ revert' \in RevertState \cup {Nothing} /\ queue' \in Seq(Call) /\ stage' \in StageRecord
       /\ writer' \in WriterRecord /\ used' \in UsedRecord /\ used'.writes <= MaxWrites
       /\ before' \in Tree \cup {Nothing} /\ touched' \subseteq Path
BY DEF SnapshotTypeOK, Contiguous, StageRecord, WriterRecord, UsedRecord

LEMMA Calls ==
  ASSUME NEW c \in Call
  PROVE  /\ c.op \in {"begin", "track", "revert", "undo"}
         /\ c.op = "begin" => c \in [op: {"begin"}, of: Nat \ {0}, start: Tree]
         /\ c.op = "track" => c \in [op: {"track"}, of: Nat, path: Path]
         /\ c.op = "revert" => c \in [op: {"revert"}, seq: Nat \ {0}]
BY DEF Call

\* Files that are in the list of some turn.
LEMMA InFiles ==
  /\ \A s, f : f \in FilesFrom(s) <=> \E u \in DOMAIN turns : u >= s /\ f \in turns[u].files
  /\ \A s, u, f : f \in FilesBetween(s, u) <=> \E v \in DOMAIN turns : s <= v /\ v < u /\ f \in turns[v].files
  /\ \A s, f : f \in FilesFrom(s)' <=> \E u \in DOMAIN turns' : u >= s /\ f \in turns'[u].files
  /\ \A s, u, f : f \in FilesBetween(s, u)' <=> \E v \in DOMAIN turns' : s <= v /\ v < u /\ f \in turns'[v].files
BY DEF FilesFrom, FilesBetween

\* A turn with more files on one of its lists.
LEMMA Grown ==
  ASSUME NEW t \in TurnRecord, NEW paths \in SUBSET Path
  PROVE  /\ [t EXCEPT !.others = @ \cup paths] \in TurnRecord
         /\ [t EXCEPT !.others = @ \cup paths].others = t.others \cup paths
         /\ [t EXCEPT !.others = @ \cup paths].of = t.of
         /\ [t EXCEPT !.others = @ \cup paths].tree = t.tree
         /\ [t EXCEPT !.others = @ \cup paths].files = t.files
         /\ [t EXCEPT !.others = @ \cup paths].skipped = t.skipped
         /\ [t EXCEPT !.others = @ \cup paths].start = t.start
BY DEF TurnRecord

LEMMA MarkedIs ==
  ASSUME NEW paths \in SUBSET Path, turns \in [DOMAIN turns -> TurnRecord]
  PROVE  /\ DOMAIN Marked(paths) = DOMAIN turns
         /\ Marked(paths) \in [DOMAIN turns -> TurnRecord]
         /\ \A s \in DOMAIN turns :
              /\ Marked(paths)[s].others = turns[s].others \cup paths
              /\ Marked(paths)[s].of = turns[s].of /\ Marked(paths)[s].tree = turns[s].tree
              /\ Marked(paths)[s].files = turns[s].files /\ Marked(paths)[s].skipped = turns[s].skipped
              /\ Marked(paths)[s].start = turns[s].start
<1>1. \A s \in DOMAIN turns : turns[s] \in TurnRecord
  OBVIOUS
<1> QED BY <1>1, Grown DEF Marked

\* A queue whose calls differ at most in the start of their turns.
SameCalls(q, r) ==
  /\ q \in Seq(Call) /\ r \in Seq(Call) /\ Len(q) = Len(r) /\ DOMAIN q = DOMAIN r
  /\ \A i \in DOMAIN q :
       /\ q[i].op = r[i].op
       /\ q[i].op \in {"begin", "track"} => q[i].of = r[i].of
       /\ q[i].op = "track" => q[i].path = r[i].path
       /\ q[i].op = "revert" => q[i].seq = r[i].seq

LEMMA StartsFromIs ==
  ASSUME NEW jobs \in Seq(Call), NEW paths \in SUBSET Path, disk' \in Tree
  PROVE  /\ SameCalls(jobs, StartsFrom(jobs, paths))
         /\ \A i \in DOMAIN jobs : jobs[i].op = "begin" =>
              StartsFrom(jobs, paths)[i].start = [f \in Path |-> IF f \in paths THEN disk'[f] ELSE jobs[i].start[f]]
<1> DEFINE r == StartsFrom(jobs, paths)
           new(i) == [f \in Path |-> IF f \in paths THEN disk'[f] ELSE jobs[i].start[f]]
<1>1. Len(jobs) \in Nat /\ DOMAIN jobs = 1..Len(jobs) /\ \A i \in DOMAIN jobs : jobs[i] \in Call
  BY LenProperties, ElementOfSeq
<1>2. ASSUME NEW i \in DOMAIN jobs, jobs[i].op = "begin"
      PROVE  /\ new(i) \in Tree /\ [jobs[i] EXCEPT !.start = new(i)] \in Call
             /\ [jobs[i] EXCEPT !.start = new(i)].start = new(i)
             /\ [jobs[i] EXCEPT !.start = new(i)].op = "begin"
             /\ [jobs[i] EXCEPT !.start = new(i)].of = jobs[i].of
  <2>1. jobs[i] \in [op: {"begin"}, of: Nat \ {0}, start: Tree]
    BY <1>1, <1>2, Calls
  <2>2. new(i) \in Tree
    BY <2>1 DEF Tree
  <2>3. [jobs[i] EXCEPT !.start = new(i)] \in [op: {"begin"}, of: Nat \ {0}, start: Tree]
    BY <2>1, <2>2
  <2> QED BY <2>1, <2>2, <2>3 DEF Call
<1>3. DOMAIN r = DOMAIN jobs
  BY DEF StartsFrom
<1>4. \A i \in DOMAIN jobs : r[i] = IF jobs[i].op # "begin" THEN jobs[i] ELSE [jobs[i] EXCEPT !.start = new(i)]
  BY DEF StartsFrom
<1> HIDE DEF r, new
<1>5. \A i \in 1..Len(jobs) : r[i] \in Call
  BY <1>1, <1>2, <1>4
<1>6. r \in [1..Len(jobs) -> Call]
  <2>1. r = [i \in DOMAIN jobs |-> r[i]]
    BY <1>3 DEF StartsFrom, r
  <2> QED BY <1>1, <1>5, <2>1
<1>7. r \in Seq(Call)
  BY <1>1, <1>6, SeqDef
<1>8. Len(r) = Len(jobs)
  BY <1>1, <1>3, <1>7, LenProperties
<1>9. \A i \in DOMAIN jobs : jobs[i].op = "begin" => r[i].start = new(i) /\ r[i].op = "begin" /\ r[i].of = jobs[i].of
  BY <1>2, <1>4
<1>10. \A i \in DOMAIN jobs : jobs[i].op # "begin" => r[i] = jobs[i]
  BY <1>4
<1>11. SameCalls(jobs, r)
  BY <1>3, <1>7, <1>8, <1>9, <1>10 DEF SameCalls
<1> QED BY <1>9, <1>11 DEF r, new

LEMMA AppendIs ==
  ASSUME NEW q \in Seq(Call), NEW c \in Call
  PROVE  /\ Append(q, c) \in Seq(Call) /\ Len(Append(q, c)) = Len(q) + 1 /\ Append(q, c) # << >>
         /\ DOMAIN q = 1..Len(q) /\ DOMAIN Append(q, c) = 1..Len(q) + 1 /\ Len(q) \in Nat
         /\ \A i \in DOMAIN q : Append(q, c)[i] = q[i]
         /\ Append(q, c)[Len(q) + 1] = c
BY AppendProperties, LenProperties, EmptySeq

LEMMA TailIs ==
  ASSUME NEW q \in Seq(Call), q # << >>
  PROVE  /\ Tail(q) \in Seq(Call) /\ Head(q) \in Call /\ Head(q) = q[1] /\ 1 \in DOMAIN q
         /\ DOMAIN q = 1..Len(q) /\ DOMAIN Tail(q) = 1..Len(q) - 1 /\ Len(q) \in Nat \ {0}
         /\ \A i \in DOMAIN Tail(q) : i + 1 \in DOMAIN q /\ Tail(q)[i] = q[i + 1]
<1>1. Len(q) \in Nat \ {0} /\ DOMAIN q = 1..Len(q)
  BY LenProperties, EmptySeq
<1>2. Tail(q) \in Seq(Call) /\ Len(Tail(q)) = Len(q) - 1
  BY HeadTailProperties
<1>3. DOMAIN Tail(q) = 1..Len(q) - 1
  BY <1>2, LenProperties
<1> QED BY <1>1, <1>2, <1>3, HeadTailProperties

Typed ==
  /\ disk \in Tree /\ index \in Tree /\ inUse \subseteq Path
  /\ Contiguous(DOMAIN turns) /\ turns \in [DOMAIN turns -> TurnRecord]
  /\ revert \in RevertState \cup {Nothing} /\ queue \in Seq(Call) /\ stage \in StageRecord
  /\ writer \in WriterRecord /\ used \in UsedRecord /\ used.writes <= MaxWrites
  /\ before \in Tree \cup {Nothing} /\ touched \subseteq Path

LEMMA TypedIs == (SnapshotTypeOK <=> Typed) /\ (SnapshotTypeOK' <=> Typed')
BY SnapshotTypeParts DEF Typed

\* What runs is at the head of the queue.
LEMMA HeadRuns ==
  ASSUME NEW op, queue \in Seq(Call), Runs(op)
  PROVE  queue # << >> /\ Head(queue) \in Call /\ Head(queue).op = op /\ Head(queue) = queue[1]
BY TailIs DEF Runs

\* The turn a revert under way goes back to.
LEMMA GoalIs ==
  ASSUME Typed, Runs("revert"), HasGoal
  PROVE  /\ GoalSeq \in DOMAIN turns /\ GoalSeq \in Nat \ {0}
         /\ Goal \in TurnRecord /\ Goal.tree \in Tree /\ Goal.skipped \subseteq Path /\ Goal.others \subseteq Path
<1>1. GoalSeq \in Nat \ {0}
  BY HeadRuns, Calls DEF Typed, GoalSeq
<1>2. GoalSeq \in DOMAIN turns /\ Goal.tree # Nothing
  BY DEF HasGoal
<1>3. Goal \in TurnRecord
  BY <1>2 DEF Typed, Goal
<1> QED BY <1>1, <1>2, <1>3 DEF TurnRecord

LEMMA FilesAreFiles ==
  ASSUME Typed
  PROVE  /\ \A s : FilesFrom(s) \subseteq Path
         /\ Reverted \subseteq Path /\ LeftAlone \subseteq Path
<1>1. \A s \in DOMAIN turns : turns[s].files \subseteq Path
  BY DEF Typed, TurnRecord
<1>2. revert # Nothing => revert \in RevertState
  BY DEF Typed
<1> QED BY <1>1, <1>2, InFiles DEF Reverted, LeftAlone, RevertState

LEMMA RereadIs ==
  ASSUME Typed, NEW paths
  PROVE  /\ Reread(paths) \in Tree
         /\ \A f \in Path : f \in paths /\ f \notin inUse => Reread(paths)[f] = disk[f]
         /\ \A f \in Path : f \notin paths => Reread(paths)[f] = index[f]
BY DEF Typed, Reread, Tree

LEMMA PutBackIs ==
  ASSUME Typed, NEW tree \in Tree, NEW paths \in SUBSET Path, PutBack(tree, paths)
  PROVE  /\ disk' \in Tree /\ index' \in Tree
         /\ \A f \in Path : f \in paths => disk'[f] = tree[f]
         /\ \A f \in Path : f \notin paths => disk'[f] = disk[f]
BY DEF Typed, PutBack, Tree

LEMMA ChangedIs ==
  ASSUME Typed, NEW f \in Path, Changed(f)
  PROVE  /\ disk' \in Tree /\ used' \in UsedRecord /\ used'.writes <= MaxWrites
         /\ \A g \in Path : g # f => disk'[g] = disk[g]
         /\ touched' = touched \cup {f} /\ revert' = Strayed({f})
<1>1. used.writes \in Nat /\ used.writes + 1 \in 0..MaxWrites /\ used.writes + 1 <= MaxWrites
  BY DEF Changed, Typed, UsedRecord
<1>2. PICK v \in {used.writes + 1, Absent} \ {disk[f]} : disk' = [disk EXCEPT ![f] = v]
  BY DEF Changed
<1>3. v \in Version
  BY <1>1 DEF Version
<1>4. disk' \in Tree /\ \A g \in Path : g # f => disk'[g] = disk[g]
  BY <1>2, <1>3 DEF Typed, Tree
<1>5. used' \in UsedRecord /\ used'.writes = used.writes + 1
  BY <1>1 DEF Changed, Typed, UsedRecord
<1> QED BY <1>1, <1>4, <1>5 DEF Changed

LEMMA StrayedIs ==
  ASSUME Typed, NEW paths \in SUBSET Path
  PROVE  /\ Strayed(paths) \in RevertState \cup {Nothing}
         /\ Strayed(paths) = Nothing <=> revert = Nothing
         /\ revert # Nothing =>
              /\ Strayed(paths).strayed = revert.strayed \cup paths
              /\ Strayed(paths).seq = revert.seq /\ Strayed(paths).undo = revert.undo
              /\ Strayed(paths).files = revert.files /\ Strayed(paths).skipped = revert.skipped
<1>1. revert # Nothing => revert \in RevertState
  BY DEF Typed
<1>2. ASSUME revert # Nothing
      PROVE  [revert EXCEPT !.strayed = @ \cup paths] \in RevertState
  BY <1>1, <1>2 DEF RevertState
<1>3. \A r \in RevertState : r # Nothing
  OBVIOUS
<1> QED BY <1>1, <1>2, <1>3 DEF Strayed, RevertState

-----------------------------------------------------------------------------
(* The queue *)

LEMMA SameCallsKeep ==
  ASSUME NEW q, NEW r, SameCalls(q, r)
  PROVE  /\ NoBegin(q) => NoBegin(r)
         /\ NoTrack(q) => NoTrack(r)
         /\ \A id : LastBegin(q, id) => LastBegin(r, id)
         /\ \A w : OneTrack(q, w) => OneTrack(r, w)
BY DEF SameCalls, NoBegin, NoTrack, LastBegin, OneTrack

LEMMA AppendKeeps ==
  ASSUME NEW q \in Seq(Call), NEW c \in Call
  PROVE  /\ c.op # "begin" /\ NoBegin(q) => NoBegin(Append(q, c))
         /\ c.op # "track" /\ NoTrack(q) => NoTrack(Append(q, c))
         /\ \A id : c.op # "begin" /\ LastBegin(q, id) => LastBegin(Append(q, c), id)
         /\ \A w : c.op # "track" /\ OneTrack(q, w) => OneTrack(Append(q, c), w)
<1>1. /\ DOMAIN q = 1..Len(q) /\ DOMAIN Append(q, c) = 1..Len(q) + 1 /\ Len(q) \in Nat
      /\ \A i \in DOMAIN q : Append(q, c)[i] = q[i]
      /\ Append(q, c)[Len(q) + 1] = c
  BY AppendIs
<1> DEFINE r == Append(q, c)
<1>2. \A i \in DOMAIN r : i \in DOMAIN q \/ i = Len(q) + 1
  BY <1>1
<1> HIDE DEF r
<1>3. /\ DOMAIN q \subseteq DOMAIN r /\ \A i \in DOMAIN q : r[i] = q[i] /\ i <= Len(q)
      /\ r[Len(q) + 1] = c /\ Len(q) + 1 \in DOMAIN r
  BY <1>1 DEF r
<1>4. c.op # "begin" /\ NoBegin(q) => NoBegin(r)
  BY <1>2, <1>3 DEF NoBegin
<1>5. c.op # "track" /\ NoTrack(q) => NoTrack(r)
  BY <1>2, <1>3 DEF NoTrack
<1>6. ASSUME NEW id, c.op # "begin", LastBegin(q, id) PROVE LastBegin(r, id)
  BY <1>2, <1>3, <1>6 DEF LastBegin
<1>7. ASSUME NEW w, c.op # "track", OneTrack(q, w) PROVE OneTrack(r, w)
  BY <1>2, <1>3, <1>7 DEF OneTrack
<1> QED BY <1>4, <1>5, <1>6, <1>7 DEF r

LEMMA TailKeeps ==
  ASSUME NEW q \in Seq(Call), q # << >>
  PROVE  /\ NoBegin(q) => NoBegin(Tail(q))
         /\ NoTrack(q) => NoTrack(Tail(q))
         /\ \A id : q[1].op # "begin" /\ LastBegin(q, id) => LastBegin(Tail(q), id)
         /\ \A id : q[1].op = "begin" /\ LastBegin(q, id) =>
              LastBegin(Tail(q), id) \/ (NoBegin(Tail(q)) /\ q[1].of = id)
         /\ \A w : OneTrack(q, w) => OneTrack(Tail(q), w)
         /\ \A w : q[1].op = "track" /\ OneTrack(q, w) => NoTrack(Tail(q))
<1> DEFINE r == Tail(q)
           n == Len(q)
<1>1. /\ DOMAIN q = 1..n /\ DOMAIN r = 1..n - 1 /\ n \in Nat \ {0}
      /\ \A i \in DOMAIN r : i + 1 \in DOMAIN q /\ r[i] = q[i + 1]
  BY TailIs
<1> HIDE DEF r, n
<1>2. \A i \in DOMAIN q : i = 1 \/ (i - 1 \in DOMAIN r /\ r[i - 1] = q[i])
  <2>1. ASSUME NEW i \in 1..n, i # 1 PROVE i - 1 \in 1..n - 1 /\ (i - 1) + 1 = i
    BY <1>1, <2>1
  <2> QED BY <1>1, <2>1
<1>3. NoBegin(q) => NoBegin(r)
  BY <1>1 DEF NoBegin
<1>4. NoTrack(q) => NoTrack(r)
  BY <1>1 DEF NoTrack
<1>5. ASSUME NEW id, LastBegin(q, id)
      PROVE  LastBegin(r, id) \/ (NoBegin(r) /\ q[1].op = "begin" /\ q[1].of = id)
  <2>1. PICK i \in DOMAIN q : /\ q[i].op = "begin" /\ q[i].of = id
                              /\ \A j \in DOMAIN q : q[j].op = "begin" => j <= i
    BY <1>5 DEF LastBegin
  <2>2. CASE i = 1
    <3>1. ASSUME NEW j \in DOMAIN r, r[j].op = "begin" PROVE FALSE
      <4>1. j \in Nat \ {0} /\ j + 1 \in DOMAIN q /\ q[j + 1].op = "begin"
        BY <1>1, <3>1
      <4>2. j + 1 <= 1
        BY <2>1, <2>2, <4>1
      <4> QED BY <4>1, <4>2
    <3> QED BY <2>1, <2>2, <3>1 DEF NoBegin
  <2>3. CASE i # 1
    <3>1. i - 1 \in DOMAIN r /\ r[i - 1] = q[i]
      BY <1>2, <2>1, <2>3
    <3>2. ASSUME NEW j \in DOMAIN r, r[j].op = "begin" PROVE j <= i - 1
      <4>1. j \in Nat /\ j + 1 \in DOMAIN q /\ q[j + 1].op = "begin" /\ i \in Nat
        BY <1>1, <3>2
      <4>2. j + 1 <= i
        BY <2>1, <4>1
      <4> QED BY <4>1, <4>2
    <3> QED BY <2>1, <3>1, <3>2 DEF LastBegin
  <2> QED BY <2>2, <2>3
<1>6. ASSUME NEW w, OneTrack(q, w) PROVE OneTrack(r, w)
  <2>1. ASSUME NEW i \in DOMAIN r, r[i].op = "track"
        PROVE  /\ w.state = "tracking" /\ r[i].path = w.path /\ r[i].of \in {0, w.turn}
               /\ \A j \in DOMAIN r : r[j].op = "track" => j = i
    <3>1. i + 1 \in DOMAIN q /\ q[i + 1].op = "track" /\ r[i] = q[i + 1] /\ i \in Nat
      BY <1>1, <2>1
    <3>2. ASSUME NEW j \in DOMAIN r, r[j].op = "track" PROVE j = i
      <4>1. j + 1 \in DOMAIN q /\ q[j + 1].op = "track" /\ j \in Nat
        BY <1>1, <3>2
      <4>2. j + 1 = i + 1
        BY <1>6, <3>1, <4>1 DEF OneTrack
      <4> QED BY <3>1, <4>1, <4>2
    <3> QED BY <1>6, <3>1, <3>2 DEF OneTrack
  <2> QED BY <2>1 DEF OneTrack
<1>7. ASSUME NEW w, q[1].op = "track", OneTrack(q, w) PROVE NoTrack(r)
  <2>1. ASSUME NEW i \in DOMAIN r, r[i].op = "track" PROVE FALSE
    <3>1. i + 1 \in DOMAIN q /\ q[i + 1].op = "track" /\ i \in Nat \ {0} /\ 1 \in DOMAIN q
      BY <1>1, <2>1
    <3>2. i + 1 = 1
      BY <1>7, <3>1 DEF OneTrack
    <3> QED BY <3>1, <3>2
  <2> QED BY <2>1 DEF NoTrack
<1> QED BY <1>3, <1>4, <1>5, <1>6, <1>7 DEF r

-----------------------------------------------------------------------------
(* Steps that leave the turns and the disk alone *)

\* What an active revert has to say of.
Facts == TreeInv /\ DiskInv /\ UndoneInv /\ BackInv /\ PastInv /\ RevertInv /\ RevertIsExact /\ UndoIsExact

LEMMA FactsStay ==
  ASSUME Facts, UNCHANGED <<disk, turns, revert, before, touched>>
  PROVE  Facts'
<1>1. disk' = disk /\ turns' = turns /\ revert' = revert /\ before' = before /\ touched' = touched
  OBVIOUS
<1>2. /\ \A s : FilesFrom(s)' = FilesFrom(s)
      /\ \A s, u : FilesBetween(s, u)' = FilesBetween(s, u)
      /\ Reverted' = Reverted
  BY <1>1 DEF FilesFrom, FilesBetween, Reverted
<1>3. TreeInv' BY <1>1 DEF Facts, TreeInv, HasTree
<1>4. DiskInv' BY <1>1, <1>2 DEF Facts, DiskInv
<1>5. UndoneInv' BY <1>1, <1>2 DEF Facts, UndoneInv
<1>6. BackInv' BY <1>1, <1>2 DEF Facts, BackInv
<1>7. PastInv' BY <1>1, <1>2 DEF Facts, PastInv
<1>8. RevertInv' BY <1>1 DEF Facts, RevertInv
<1>9. RevertIsExact' BY <1>1 DEF Facts, RevertIsExact
<1>10. UndoIsExact' BY <1>1, <1>2 DEF Facts, UndoIsExact
<1> QED BY <1>3, <1>4, <1>5, <1>6, <1>7, <1>8, <1>9, <1>10 DEF Facts

LEMMA StageStays ==
  ASSUME StageInv, ReadyInv, UNCHANGED <<disk, turns, revert, stage, before, touched>>,
         stage.phase # "start" => queue' # << >> /\ queue'[1] = queue[1] /\ Head(queue') = Head(queue)
  PROVE  StageInv' /\ ReadyInv'
<1>1. /\ disk' = disk /\ turns' = turns /\ revert' = revert /\ stage' = stage /\ before' = before
      /\ touched' = touched
  OBVIOUS
<1>2. (\A s : FilesFrom(s)' = FilesFrom(s)) /\ Reverted' = Reverted
  BY <1>1 DEF FilesFrom, Reverted
<1>3. ReadyInv'
  BY <1>1, <1>2 DEF ReadyInv
<1>4. ASSUME stage.phase # "start" PROVE StageInv'
  <2>1. /\ Runs("revert")' /\ GoalSeq' = GoalSeq /\ Goal' = Goal /\ HasGoal'
    BY <1>1, <1>4 DEF StageInv, Runs, GoalSeq, Goal, HasGoal
  <2> QED BY <1>1, <1>2, <1>4, <2>1 DEF StageInv
<1> QED BY <1>1, <1>3, <1>4 DEF StageInv

LEMMA Parts ==
  /\ RewindInv <=> Typed /\ JobInv /\ StageInv /\ ReadyInv /\ AgentInv /\ Facts
  /\ RewindInv' <=> Typed' /\ JobInv' /\ StageInv' /\ ReadyInv' /\ AgentInv' /\ Facts'
BY TypedIs DEF RewindInv, Facts

\* What runs in the queue decides whether a revert can be under way.
LEMMA OneRuns ==
  ASSUME StageInv, NEW op, Runs(op), op # "revert"
  PROVE  stage.phase = "start"
BY DEF StageInv, Runs

LEMMA NotBoth == ASSUME NEW q, NEW id, LastBegin(q, id) PROVE ~NoBegin(q)
BY DEF LastBegin, NoBegin

LEMMA StartTurnKeeps == ASSUME RewindInv, StartTurn PROVE RewindInv'
<1> DEFINE c == [op |-> "begin", of |-> used.sends + 1, start |-> disk]
<1>1. Typed /\ JobInv /\ StageInv /\ ReadyInv /\ AgentInv /\ Facts
  BY Parts
<1>2. c \in Call /\ c.op = "begin" /\ c.of = used.sends + 1 /\ c.start = disk /\ queue \in Seq(Call)
  BY <1>1 DEF Typed, UsedRecord, Call
<1>3. queue' = Append(queue, c)
  BY DEF StartTurn
<1> HIDE DEF c
<1>4. /\ queue' \in Seq(Call) /\ queue' # << >> /\ DOMAIN queue = 1..Len(queue) /\ Len(queue) \in Nat
      /\ DOMAIN queue' = 1..Len(queue) + 1 /\ \A i \in DOMAIN queue : queue'[i] = queue[i]
      /\ queue'[Len(queue) + 1] = c
  BY <1>2, <1>3, AppendIs
<1>5. Typed'
  <2>1. used \in UsedRecord /\ used.writes <= MaxWrites
    BY <1>1 DEF Typed
  <2>2. used' \in UsedRecord /\ used'.writes <= MaxWrites /\ used.sends + 1 \in Nat
    BY <2>1 DEF StartTurn, UsedRecord
  <2>3. writer' \in WriterRecord
    BY <2>2 DEF StartTurn, Nowhere, WriterRecord
  <2> QED BY <1>1, <1>4, <2>2, <2>3 DEF StartTurn, Typed
<1>6. Facts'
  BY <1>1, FactsStay DEF StartTurn
<1>7. stage.phase # "start" => queue'[1] = queue[1] /\ Head(queue') = Head(queue)
  <2>1. ASSUME stage.phase # "start" PROVE queue # << >>
    BY <1>1, <2>1 DEF StageInv, Runs
  <2>2. ASSUME queue # << >> PROVE 1 \in DOMAIN queue /\ Head(queue) = queue[1]
    BY <1>2, <2>2, TailIs
  <2>3. Head(queue') = queue'[1]
    BY <1>4, TailIs
  <2> QED BY <1>4, <2>1, <2>2, <2>3
<1>8. StageInv' /\ ReadyInv'
  BY <1>1, <1>4, <1>7, StageStays DEF StartTurn
<1>9. JobInv'
  <2>1. \A i \in DOMAIN queue' : i \in DOMAIN queue \/ i = Len(queue) + 1
    BY <1>4
  <2> QED BY <1>1, <1>2, <1>4, <2>1 DEF JobInv, StartTurn
<1>10. AgentInv'
  <2>1. /\ writer'.state = "idle" /\ writer'.turn = used.sends + 1 /\ writer.state = "off"
    BY DEF StartTurn, Nowhere
  <2>2. \A i \in DOMAIN queue' : i \in DOMAIN queue \/ i = Len(queue) + 1
    BY <1>4
  <2>3. NoTrack(queue')
    BY <1>1, <1>2, <1>4, <2>1, <2>2 DEF AgentInv, OneTrack, NoTrack
  <2>4. LastBegin(queue', used.sends + 1)
    <3>1. Len(queue) + 1 \in DOMAIN queue' /\ \A j \in DOMAIN queue' : j <= Len(queue) + 1
      BY <1>4
    <3> QED BY <1>2, <1>4, <3>1 DEF LastBegin
  <2> QED BY <2>1, <2>3, <2>4 DEF AgentInv, NoTrack, OneTrack
<1> QED BY <1>5, <1>6, <1>8, <1>9, <1>10, Parts

\* Steps that only touch the agent, the bounds, or what is held open.
LEMMA AloneKeeps ==
  ASSUME RewindInv,
         UNCHANGED <<disk, index, turns, revert, queue, stage, before, touched>>, Typed', AgentInv'
  PROVE  RewindInv'
<1>1. Typed /\ JobInv /\ StageInv /\ ReadyInv /\ AgentInv /\ Facts
  BY Parts
<1>2. Facts'
  BY <1>1, FactsStay
<1>3. stage.phase # "start" => queue # << >>
  BY <1>1 DEF StageInv, Runs
<1>4. StageInv' /\ ReadyInv'
  BY <1>1, <1>3, StageStays
<1>5. JobInv'
  BY <1>1 DEF JobInv
<1> QED BY <1>2, <1>4, <1>5, Parts

LEMMA AnnouncesKeeps == ASSUME RewindInv, NEW f \in Path, Announces(f) PROVE RewindInv'
<1>1. Typed /\ AgentInv
  BY Parts
<1>2. writer'.state = "gated" /\ writer'.path = f /\ writer'.turn = writer.turn /\ writer.state = "idle"
  BY <1>1 DEF Announces, Typed, WriterRecord
<1>3. Typed'
  BY <1>1 DEF Announces, Typed, WriterRecord
<1>4. NoTrack(queue)
  BY <1>1, <1>2 DEF AgentInv, OneTrack, NoTrack
<1>5. AgentInv'
  BY <1>1, <1>2, <1>4 DEF Announces, AgentInv, NoTrack, OneTrack, Newest
<1> QED BY <1>3, <1>5, AloneKeeps DEF Announces

LEMMA TurnEndsKeeps == ASSUME RewindInv, TurnEnds PROVE RewindInv'
<1>1. Typed /\ AgentInv
  BY Parts
<1>2. writer'.state = "off" /\ writer.state \in {"idle", "cleared"}
  BY DEF TurnEnds, Nowhere
<1>3. Typed'
  BY <1>1 DEF TurnEnds, Typed, WriterRecord, Nowhere
<1>4. NoTrack(queue)
  BY <1>1, <1>2 DEF AgentInv, OneTrack, NoTrack
<1>5. AgentInv'
  BY <1>2, <1>4 DEF TurnEnds, AgentInv, NoTrack, OneTrack
<1> QED BY <1>3, <1>5, AloneKeeps DEF TurnEnds

LEMMA HoldsKeeps == ASSUME RewindInv, NEW f \in Path, HoldsOpen(f) \/ Closes(f) PROVE RewindInv'
<1>1. Typed /\ AgentInv
  BY Parts
<1>2. Typed'
  <2>1. CASE HoldsOpen(f)
    BY <1>1, <2>1 DEF HoldsOpen, Typed, UsedRecord
  <2>2. CASE Closes(f)
    BY <1>1, <2>2 DEF Closes, Typed
  <2> QED BY <2>1, <2>2
<1>3. UNCHANGED <<disk, index, turns, revert, queue, stage, writer, before, touched>>
  BY DEF HoldsOpen, Closes
<1>4. AgentInv'
  BY <1>1, <1>3 DEF AgentInv, Newest
<1> QED BY <1>2, <1>3, <1>4, AloneKeeps

LEMMA BeforeWriteKeeps == ASSUME RewindInv, BeforeWrite PROVE RewindInv'
<1>1. Typed /\ JobInv /\ StageInv /\ ReadyInv /\ AgentInv /\ Facts
  BY Parts
<1>2. /\ writer.state = "gated" /\ writer'.state = "tracking" /\ writer'.path = writer.path
      /\ writer'.turn = writer.turn /\ writer.path \in Path /\ writer.turn \in Nat /\ queue \in Seq(Call)
  BY <1>1 DEF BeforeWrite, Typed, WriterRecord, AgentInv
<1>3. PICK id \in {0, writer.turn} : queue' = Append(queue, Track(id))
  BY DEF BeforeWrite
<1>4. Track(id) \in Call /\ Track(id).op = "track" /\ Track(id).path = writer.path /\ Track(id).of = id
  BY <1>2, <1>3 DEF Track, Call
<1>5. /\ queue' \in Seq(Call) /\ queue' # << >> /\ DOMAIN queue = 1..Len(queue) /\ Len(queue) \in Nat
      /\ DOMAIN queue' = 1..Len(queue) + 1 /\ \A i \in DOMAIN queue : queue'[i] = queue[i]
      /\ queue'[Len(queue) + 1] = Track(id)
  BY <1>2, <1>3, <1>4, AppendIs
<1>6. Typed'
  BY <1>1, <1>2, <1>5 DEF BeforeWrite, Typed, WriterRecord
<1>7. Facts'
  BY <1>1, FactsStay DEF BeforeWrite
<1>8. stage.phase # "start" => queue'[1] = queue[1] /\ Head(queue') = Head(queue)
  <2>1. ASSUME stage.phase # "start" PROVE queue # << >>
    BY <1>1, <2>1 DEF StageInv, Runs
  <2>2. ASSUME queue # << >> PROVE 1 \in DOMAIN queue /\ Head(queue) = queue[1]
    BY <1>2, <2>2, TailIs
  <2>3. Head(queue') = queue'[1]
    BY <1>5, TailIs
  <2> QED BY <1>5, <2>1, <2>2, <2>3
<1>9. StageInv' /\ ReadyInv'
  BY <1>1, <1>5, <1>8, StageStays DEF BeforeWrite
<1>10. \A i \in DOMAIN queue' : i \in DOMAIN queue \/ i = Len(queue) + 1
  BY <1>5
<1>11. JobInv'
  BY <1>1, <1>4, <1>5, <1>10 DEF JobInv, BeforeWrite
<1>12. NoBegin(queue) /\ NoBegin(queue')
  <2>1. NoBegin(queue)
    BY DEF BeforeWrite, Queued, NoBegin
  <2> QED BY <1>4, <1>5, <1>10, <2>1 DEF NoBegin
<1>13. AgentInv'
  <2>1. \E s \in Newest(DOMAIN turns) : turns[s].of = writer.turn
    BY <1>1, <1>2, <1>12, NotBoth DEF AgentInv
  <2>2. \A i \in DOMAIN queue : queue[i].op # "track"
    BY <1>1, <1>2 DEF AgentInv, OneTrack
  <2>3. OneTrack(queue', writer')
    <3>1. ASSUME NEW i \in DOMAIN queue', queue'[i].op = "track" PROVE i = Len(queue) + 1
      BY <1>5, <1>10, <2>2, <3>1
    <3> QED BY <1>2, <1>3, <1>4, <1>5, <3>1 DEF OneTrack
  <2> QED BY <1>2, <1>12, <2>1, <2>3 DEF AgentInv, BeforeWrite, Newest
<1> QED BY <1>6, <1>7, <1>9, <1>11, <1>13, Parts

LEMMA QueuesKeeps ==
  ASSUME RewindInv, NEW job \in Call, job.op \in {"revert", "undo"}, Queues(job)
  PROVE  RewindInv'
<1>1. Typed /\ JobInv /\ StageInv /\ ReadyInv /\ AgentInv /\ Facts
  BY Parts
<1>2. queue \in Seq(Call) /\ queue' = Append(queue, job)
  BY <1>1 DEF Typed, Queues
<1>3. /\ queue' \in Seq(Call) /\ queue' # << >> /\ DOMAIN queue = 1..Len(queue) /\ Len(queue) \in Nat
      /\ DOMAIN queue' = 1..Len(queue) + 1 /\ \A i \in DOMAIN queue : queue'[i] = queue[i]
      /\ queue'[Len(queue) + 1] = job
  BY <1>2, AppendIs
<1>4. Typed'
  <2>1. used \in UsedRecord /\ used.writes <= MaxWrites
    BY <1>1 DEF Typed
  <2>2. used' \in UsedRecord /\ used'.writes <= MaxWrites
    BY <2>1 DEF Queues, UsedRecord
  <2> QED BY <1>1, <1>3, <2>2 DEF Queues, Typed
<1>5. Facts'
  BY <1>1, FactsStay DEF Queues
<1>6. stage.phase # "start" => queue'[1] = queue[1] /\ Head(queue') = Head(queue)
  <2>1. ASSUME stage.phase # "start" PROVE queue # << >>
    BY <1>1, <2>1 DEF StageInv, Runs
  <2>2. ASSUME queue # << >> PROVE 1 \in DOMAIN queue /\ Head(queue) = queue[1]
    BY <1>2, <2>2, TailIs
  <2>3. Head(queue') = queue'[1]
    BY <1>3, TailIs
  <2> QED BY <1>3, <2>1, <2>2, <2>3
<1>7. StageInv' /\ ReadyInv'
  BY <1>1, <1>3, <1>6, StageStays DEF Queues
<1>8. \A i \in DOMAIN queue' : i \in DOMAIN queue \/ i = Len(queue) + 1
  BY <1>3
<1>9. JobInv'
  BY <1>1, <1>3, <1>8 DEF JobInv, Queues
<1>10. /\ NoBegin(queue) => NoBegin(queue')
       /\ \A id : LastBegin(queue, id) => LastBegin(queue', id)
       /\ OneTrack(queue, writer) => OneTrack(queue', writer)
  BY <1>2, AppendKeeps
<1>11. AgentInv'
  BY <1>1, <1>10 DEF AgentInv, Queues, Newest
<1> QED BY <1>4, <1>5, <1>7, <1>9, <1>11, Parts

LEMMA AsksKeep == ASSUME RewindInv, AsksRevert \/ AsksUndo PROVE RewindInv'
<1>1. CASE AsksRevert
  <2>1. PICK s \in DOMAIN turns : Queues([op |-> "revert", seq |-> s])
    BY <1>1 DEF AsksRevert
  <2>2. s \in Nat \ {0}
    BY <2>1, Parts DEF Typed, Contiguous
  <2>3. [op |-> "revert", seq |-> s] \in Call
    BY <2>2 DEF Call
  <2> QED BY <2>1, <2>3, QueuesKeeps
<1>2. CASE AsksUndo
  <2>1. [op |-> "undo"] \in Call
    BY DEF Call
  <2> QED BY <1>2, <2>1, QueuesKeeps DEF AsksUndo
<1> QED BY <1>1, <1>2

LEMMA RefusedKeeps == ASSUME RewindInv, Refused PROVE RewindInv'
<1>1. Typed /\ JobInv /\ StageInv /\ ReadyInv /\ AgentInv /\ Facts
  BY Parts
<1>2. /\ queue \in Seq(Call) /\ queue # << >> /\ queue' = Tail(queue) /\ queue[1].op \in {"revert", "undo"}
  BY <1>1 DEF Typed, Refused, Runs
<1>3. stage.phase = "start"
  BY <1>1, OneRuns DEF Refused
<1>4. Typed'
  BY <1>1, <1>2, TailIs DEF Refused, Typed
<1>5. Facts'
  BY <1>1, FactsStay DEF Refused
<1>6. StageInv' /\ ReadyInv'
  BY <1>1, <1>3, StageStays DEF Refused
<1>7. JobInv'
  <2>1. \A i \in DOMAIN queue' : i + 1 \in DOMAIN queue /\ queue'[i] = queue[i + 1]
    BY <1>2, TailIs
  <2> QED BY <1>1, <2>1 DEF JobInv, Refused
<1>8. AgentInv'
  <2>1. /\ NoBegin(queue) => NoBegin(queue')
        /\ \A id : LastBegin(queue, id) => LastBegin(queue', id)
        /\ OneTrack(queue, writer) => OneTrack(queue', writer)
    BY <1>2, TailKeeps
  <2> QED BY <1>1, <2>1 DEF AgentInv, Refused, Newest
<1> QED BY <1>4, <1>5, <1>6, <1>7, <1>8, Parts

-----------------------------------------------------------------------------
(* Steps that change files *)

\* The turns stay, and are known to have been touched more.
Grows ==
  /\ DOMAIN turns' = DOMAIN turns
  /\ \A s \in DOMAIN turns :
       /\ turns'[s].tree = turns[s].tree /\ turns'[s].skipped = turns[s].skipped
       /\ turns'[s].start = turns[s].start /\ turns'[s].of = turns[s].of
       /\ turns[s].files \subseteq turns'[s].files /\ turns[s].others \subseteq turns'[s].others

\* So does the revert.
RevertStays ==
  /\ revert' = Nothing <=> revert = Nothing
  /\ revert # Nothing =>
       /\ revert'.seq = revert.seq /\ revert'.undo = revert.undo /\ revert'.files = revert.files
       /\ revert.strayed \subseteq revert'.strayed

LEMMA GrowsMore ==
  ASSUME Grows
  PROVE  /\ \A s : FilesFrom(s) \subseteq FilesFrom(s)'
         /\ \A s, u : FilesBetween(s, u) \subseteq FilesBetween(s, u)'
<1>1. ASSUME NEW s, NEW f \in FilesFrom(s) PROVE f \in FilesFrom(s)'
  BY <1>1, InFiles DEF Grows
<1>2. ASSUME NEW s, NEW u, NEW f \in FilesBetween(s, u) PROVE f \in FilesBetween(s, u)'
  BY <1>2, InFiles DEF Grows
<1> QED BY <1>1, <1>2

LEMMA FactsGrow ==
  ASSUME Facts, Grows, RevertStays, before' = before, touched \subseteq touched',
         \A f \in Path : disk'[f] # disk[f] =>
           /\ f \in touched' \/ f \in Reverted
           /\ revert # Nothing => f \in revert'.strayed
           /\ \A s \in DOMAIN turns : f \in turns'[s].others \/ (f \in FilesFrom(s) /\ revert = Nothing)
  PROVE  Facts'
<1>1. /\ \A s, f : f \in FilesFrom(s) => f \in FilesFrom(s)'
      /\ \A s, u, f : f \in FilesBetween(s, u) => f \in FilesBetween(s, u)'
  BY GrowsMore
<1>2. Reverted' = Reverted
  BY DEF RevertStays, Reverted
<1>3. TreeInv'
  BY DEF Facts, TreeInv, Grows, HasTree
<1>4. DiskInv'
  BY <1>1, <1>2 DEF Facts, DiskInv, Grows
<1>5. UndoneInv'
  BY <1>1, <1>2 DEF Facts, UndoneInv, Grows, RevertStays
<1>6. BackInv'
  BY <1>1 DEF Facts, BackInv, Grows, RevertStays
<1>7. PastInv'
  BY <1>1 DEF Facts, PastInv, Grows
<1>8. RevertInv'
  BY DEF Facts, RevertInv, RevertStays
<1>9. RevertIsExact'
  BY DEF Facts, RevertIsExact, BackInv, Grows, RevertStays
<1>10. UndoIsExact'
  <2>1. ASSUME before # Nothing, NEW f \in Path, f \notin touched'
        PROVE  (IF f \in Reverted THEN revert'.undo[f] ELSE disk'[f]) = before[f]
    <3>1. (IF f \in Reverted THEN revert.undo[f] ELSE disk[f]) = before[f]
      BY <2>1 DEF Facts, UndoIsExact
    <3>2. CASE f \in Reverted
      BY <3>1, <3>2 DEF RevertStays, Reverted
    <3>3. CASE f \notin Reverted
      BY <2>1, <3>1, <3>3
    <3> QED BY <3>2, <3>3
  <2> QED BY <1>2, <2>1 DEF UndoIsExact
<1> QED BY <1>3, <1>4, <1>5, <1>6, <1>7, <1>8, <1>9, <1>10 DEF Facts

LEMMA StageGrows ==
  ASSUME StageInv, ReadyInv, Grows, \A s \in DOMAIN turns : turns'[s].files = turns[s].files,
         RevertStays, before' = before, touched \subseteq touched', stage' = stage,
         \A f \in Path : f \notin touched' => disk'[f] = disk[f],
         stage.phase # "start" => Runs("revert")' /\ Head(queue').seq = Head(queue).seq
  PROVE  StageInv' /\ ReadyInv'
<1>1. \A s : FilesFrom(s)' = FilesFrom(s)
  <2>1. \A s, f : f \in FilesFrom(s)' <=> f \in FilesFrom(s)
    BY InFiles DEF Grows
  <2>2. ASSUME NEW s PROVE FilesFrom(s)' = FilesFrom(s)
    <3>1. \A f : f \in FilesFrom(s)' <=> f \in FilesFrom(s)
      BY <2>1
    <3> QED BY <3>1 DEF FilesFrom
  <2> QED BY <2>2
<1>2. Reverted' = Reverted
  BY DEF RevertStays, Reverted
<1>3. ReadyInv'
  BY <1>1 DEF ReadyInv, Grows
<1>4. ASSUME stage.phase # "start" PROVE StageInv'
  <2>1. /\ GoalSeq' = GoalSeq /\ GoalSeq \in DOMAIN turns /\ Runs("revert")' /\ Goal.tree # Nothing
    BY <1>4 DEF StageInv, GoalSeq, HasGoal
  <2>2. Goal'.tree = Goal.tree /\ Goal'.skipped = Goal.skipped /\ HasGoal'
    BY <2>1 DEF Goal, HasGoal, Grows
  <2> QED BY <1>1, <1>2, <1>4, <2>1, <2>2 DEF StageInv
<1> QED BY <1>3, <1>4 DEF StageInv

LEMMA MarkedGrows ==
  ASSUME Typed, NEW paths \in SUBSET Path, turns' = Marked(paths)
  PROVE  /\ Grows /\ DOMAIN turns' = DOMAIN turns /\ turns' \in [DOMAIN turns' -> TurnRecord]
         /\ \A s \in DOMAIN turns :
              /\ turns'[s].files = turns[s].files /\ turns'[s].of = turns[s].of
              /\ turns'[s].others = turns[s].others \cup paths
BY MarkedIs DEF Typed, Grows

\* The calls behind a rewind, or around a write, start from what is on disk now.
LEMMA JobsMove ==
  ASSUME Typed, NEW jobs \in Seq(Call), NEW paths \in SUBSET Path, disk' \in Tree,
         \A i \in DOMAIN jobs : jobs[i].op = "begin" => jobs[i].start = disk,
         \A f \in Path : f \notin paths => disk'[f] = disk[f],
         queue' = StartsFrom(jobs, paths)
  PROVE  JobInv' /\ SameCalls(jobs, queue') /\ queue' \in Seq(Call)
<1>1. SameCalls(jobs, queue')
  BY StartsFromIs
<1>2. ASSUME NEW i \in DOMAIN jobs, jobs[i].op = "begin" PROVE queue'[i].start = disk'
  <2>1. queue'[i].start = [f \in Path |-> IF f \in paths THEN disk'[f] ELSE jobs[i].start[f]]
    BY <1>2, StartsFromIs
  <2>2. disk' = [f \in Path |-> disk'[f]]
    BY DEF Tree
  <2>3. jobs[i].start = disk
    BY <1>2
  <2> QED BY <2>1, <2>2, <2>3
<1>3. JobInv'
  BY <1>1, <1>2 DEF JobInv, SameCalls
<1> QED BY <1>1, <1>3 DEF SameCalls

LEMMA HeadStays ==
  ASSUME NEW q, NEW r, SameCalls(q, r), q # << >>
  PROVE  /\ r # << >> /\ r[1].op = q[1].op /\ Head(q) = q[1] /\ Head(r) = r[1]
         /\ q[1].op = "revert" => Head(r).seq = Head(q).seq
<1>1. q \in Seq(Call) /\ r \in Seq(Call) /\ Len(r) = Len(q)
  BY DEF SameCalls
<1>2. r # << >>
  BY <1>1, EmptySeq
<1>3. 1 \in DOMAIN q /\ Head(q) = q[1] /\ Head(r) = r[1]
  BY <1>1, <1>2, TailIs
<1> QED BY <1>2, <1>3 DEF SameCalls

LEMMA SomebodyWritesKeeps == ASSUME RewindInv, NEW f \in Path, SomebodyWrites(f) PROVE RewindInv'
<1>1. Typed /\ JobInv /\ StageInv /\ ReadyInv /\ AgentInv /\ Facts
  BY Parts
<1>2. /\ Changed(f) /\ turns' = Marked({f}) /\ queue' = StartsFrom(queue, {f})
      /\ UNCHANGED <<inUse, index, stage, writer, before>>
  BY DEF SomebodyWrites
<1>3. /\ disk' \in Tree /\ used' \in UsedRecord /\ used'.writes <= MaxWrites
      /\ \A g \in Path : g # f => disk'[g] = disk[g]
      /\ touched' = touched \cup {f} /\ revert' = Strayed({f})
  BY <1>1, <1>2, ChangedIs
<1>4. /\ revert' \in RevertState \cup {Nothing} /\ RevertStays
      /\ revert # Nothing => f \in revert'.strayed
  BY <1>1, <1>3, StrayedIs DEF RevertStays
<1>5. /\ Grows /\ DOMAIN turns' = DOMAIN turns /\ turns' \in [DOMAIN turns' -> TurnRecord]
      /\ \A s \in DOMAIN turns :
           /\ turns'[s].files = turns[s].files /\ turns'[s].of = turns[s].of /\ f \in turns'[s].others
  <2>1. {f} \in SUBSET Path
    OBVIOUS
  <2>2. /\ Grows /\ DOMAIN turns' = DOMAIN turns /\ turns' \in [DOMAIN turns' -> TurnRecord]
        /\ \A s \in DOMAIN turns :
             /\ turns'[s].files = turns[s].files /\ turns'[s].of = turns[s].of
             /\ turns'[s].others = turns[s].others \cup {f}
    BY <1>1, <1>2, <2>1, MarkedGrows
  <2> QED BY <2>2
<1>6. JobInv' /\ SameCalls(queue, queue') /\ queue' \in Seq(Call)
  <2>1. {f} \in SUBSET Path /\ queue \in Seq(Call)
    BY <1>1 DEF Typed
  <2>2. \A i \in DOMAIN queue : queue[i].op = "begin" => queue[i].start = disk
    BY <1>1 DEF JobInv
  <2>3. \A g \in Path : g \notin {f} => disk'[g] = disk[g]
    BY <1>3
  <2> QED BY <1>1, <1>2, <1>3, <2>1, <2>2, <2>3, JobsMove
<1>7. Typed'
  BY <1>1, <1>2, <1>3, <1>4, <1>5, <1>6 DEF Typed
<1>8. Facts'
  BY <1>1, <1>2, <1>3, <1>4, <1>5, FactsGrow
<1>9. StageInv' /\ ReadyInv'
  <2>1. ASSUME stage.phase # "start" PROVE Runs("revert")' /\ Head(queue').seq = Head(queue).seq
    <3>1. queue # << >> /\ queue[1].op = "revert"
      BY <1>1, <2>1 DEF StageInv, Runs
    <3> QED BY <1>6, <3>1, HeadStays DEF Runs
  <2> QED BY <1>1, <1>2, <1>3, <1>4, <1>5, <2>1, StageGrows
<1>10. AgentInv'
  <2>1. /\ NoBegin(queue) => NoBegin(queue')
        /\ \A id : LastBegin(queue, id) => LastBegin(queue', id)
        /\ OneTrack(queue, writer) => OneTrack(queue', writer)
    BY <1>6, SameCallsKeep
  <2>2. Newest(DOMAIN turns') = Newest(DOMAIN turns) /\ \A s \in Newest(DOMAIN turns) : s \in DOMAIN turns
    BY <1>5 DEF Newest
  <2>3. writer' = writer
    BY <1>2
  <2> QED BY <1>1, <1>5, <2>1, <2>2, <2>3 DEF AgentInv
<1> QED BY <1>6, <1>7, <1>8, <1>9, <1>10, Parts

LEMMA WritesKeeps == ASSUME RewindInv, Writes PROVE RewindInv'
<1> DEFINE f == writer.path
<1>1. Typed /\ JobInv /\ StageInv /\ ReadyInv /\ AgentInv /\ Facts
  BY Parts
<1>2. /\ Changed(f) /\ writer.state = "cleared"
      /\ UNCHANGED <<inUse, index, stage, before>>
  BY DEF Writes
<1>3. f \in Path /\ NoBegin(queue) /\ NoTrack(queue)
  BY <1>1, <1>2 DEF AgentInv, OneTrack, NoTrack
<1>4. /\ disk' \in Tree /\ used' \in UsedRecord /\ used'.writes <= MaxWrites
      /\ \A g \in Path : g # f => disk'[g] = disk[g]
      /\ touched' = touched \cup {f} /\ revert' = Strayed({f})
  BY <1>1, <1>2, <1>3, ChangedIs
<1>5. /\ revert' \in RevertState \cup {Nothing} /\ RevertStays
      /\ revert # Nothing => f \in revert'.strayed
  BY <1>1, <1>3, <1>4, StrayedIs DEF RevertStays
<1>6. writer' \in WriterRecord /\ writer'.state = "idle" /\ writer'.turn = writer.turn
  BY <1>1 DEF Writes, Typed, WriterRecord
<1>7. \A s \in DOMAIN turns : f \in FilesFrom(s)
  <2>1. PICK n \in Newest(DOMAIN turns) : f \in turns[n].files
    BY <1>1, <1>2 DEF AgentInv
  <2> QED BY <2>1, InFiles DEF Newest
<1>8. /\ Grows /\ DOMAIN turns' = DOMAIN turns /\ turns' \in [DOMAIN turns' -> TurnRecord]
      /\ \A s \in DOMAIN turns :
           /\ turns'[s].files = turns[s].files /\ turns'[s].of = turns[s].of
           /\ f \in turns'[s].others \/ (f \in FilesFrom(s) /\ revert = Nothing)
  <2>1. CASE UnderRevert
    <3>1. turns' = Marked({f})
      BY <2>1 DEF Writes
    <3>2. {f} \in SUBSET Path
      BY <1>3
    <3>3. /\ Grows /\ DOMAIN turns' = DOMAIN turns /\ turns' \in [DOMAIN turns' -> TurnRecord]
          /\ \A s \in DOMAIN turns :
               /\ turns'[s].files = turns[s].files /\ turns'[s].of = turns[s].of
               /\ turns'[s].others = turns[s].others \cup {f}
      BY <1>1, <3>1, <3>2, MarkedGrows
    <3> QED BY <3>3
  <2>2. CASE ~UnderRevert
    <3>1. turns' = turns /\ revert = Nothing
      BY <2>2 DEF Writes, UnderRevert
    <3> QED BY <1>1, <1>7, <3>1 DEF Grows, Typed
  <2> QED BY <2>1, <2>2
<1>9. SameCalls(queue, queue') /\ queue' \in Seq(Call)
  <2>1. queue \in Seq(Call)
    BY <1>1 DEF Typed
  <2>2. CASE UnderRevert
    <3>1. queue' = StartsFrom(queue, {f})
      BY <2>2 DEF Writes
    <3>2. SameCalls(queue, queue')
      BY <1>3, <1>4, <2>1, <3>1, StartsFromIs
    <3> QED BY <3>2 DEF SameCalls
  <2>3. CASE ~UnderRevert
    BY <2>1, <2>3 DEF Writes, SameCalls
  <2> QED BY <2>2, <2>3
<1>10. NoBegin(queue') /\ NoTrack(queue')
  BY <1>3, <1>9, SameCallsKeep
<1>11. Typed'
  <2>1. touched' \subseteq Path
    BY <1>1, <1>3, <1>4 DEF Typed
  <2> HIDE DEF f
  <2> QED BY <1>1, <1>2, <1>4, <1>5, <1>6, <1>8, <1>9, <2>1 DEF Typed
<1>12. Facts'
  BY <1>1, <1>2, <1>4, <1>5, <1>8, FactsGrow
<1>13. StageInv' /\ ReadyInv'
  <2>1. ASSUME stage.phase # "start" PROVE Runs("revert")' /\ Head(queue').seq = Head(queue).seq
    <3>1. queue # << >> /\ queue[1].op = "revert"
      BY <1>1, <2>1 DEF StageInv, Runs
    <3> QED BY <1>9, <3>1, HeadStays DEF Runs
  <2> QED BY <1>1, <1>2, <1>4, <1>5, <1>8, <2>1, StageGrows
<1>14. JobInv'
  BY <1>10 DEF JobInv, NoBegin
<1>15. AgentInv'
  <2>1. \E s \in Newest(DOMAIN turns) : turns[s].of = writer.turn
    BY <1>1, <1>2, <1>3, NotBoth DEF AgentInv
  <2>2. \E s \in Newest(DOMAIN turns') : turns'[s].of = writer'.turn
    BY <1>6, <1>8, <2>1 DEF Newest
  <2>3. OneTrack(queue', writer')
    BY <1>10 DEF OneTrack, NoTrack
  <2> QED BY <1>6, <1>10, <2>2, <2>3 DEF AgentInv
<1> QED BY <1>11, <1>12, <1>13, <1>14, <1>15, Parts

-----------------------------------------------------------------------------
(* The calls *)

LEMMA TrackKeeps == ASSUME RewindInv, TrackTurnWrites PROVE RewindInv'
<1> DEFINE p == Head(queue).path
           named == {s \in DOMAIN turns : turns[s].of = Head(queue).of}
           on == IF named = {} THEN Newest(DOMAIN turns) ELSE named
<1>1. Typed /\ JobInv /\ StageInv /\ ReadyInv /\ AgentInv /\ Facts
  BY Parts
<1>2. /\ queue # << >> /\ queue \in Seq(Call) /\ Head(queue) \in Call /\ Head(queue).op = "track"
      /\ Head(queue) = queue[1] /\ 1 \in DOMAIN queue /\ queue[1].op = "track"
  BY <1>1, HeadRuns, TailIs DEF TrackTurnWrites, Typed
<1>3. p \in Path /\ Head(queue).of \in Nat
  BY <1>2, Calls
<1>4. writer.state = "tracking" /\ p = writer.path /\ Head(queue).of \in {0, writer.turn} /\ NoBegin(queue)
  BY <1>1, <1>2 DEF AgentInv, OneTrack
<1>5. stage.phase = "start"
  BY <1>1, OneRuns DEF TrackTurnWrites
<1>6. /\ turns' = [s \in DOMAIN turns |-> IF s \notin on THEN turns[s]
                                        ELSE [turns[s] EXCEPT !.files = @ \cup {p}]]
      /\ writer' = [writer EXCEPT !.state = "cleared"] /\ queue' = Tail(queue)
      /\ UNCHANGED <<disk, inUse, index, revert, stage, used, before, touched>>
  BY <1>4 DEF TrackTurnWrites
<1>7. \A s \in DOMAIN turns : turns[s] \in TurnRecord
  BY <1>1 DEF Typed
<1>8. PICK n \in Newest(DOMAIN turns) : turns[n].of = writer.turn
  BY <1>1, <1>4, NotBoth DEF AgentInv
<1>9. n \in DOMAIN turns
  BY <1>8 DEF Newest
<1>10. n \in on
  <2>1. CASE named = {}
    BY <1>8, <2>1
  <2>2. CASE named # {}
    <3>1. Head(queue).of # 0
      BY <1>7, <2>2 DEF TurnRecord
    <3> QED BY <1>4, <1>8, <1>9, <2>2, <3>1
  <2> QED BY <2>1, <2>2
<1> HIDE DEF p, named, on
<1>11. \A s \in DOMAIN turns : [turns[s] EXCEPT !.files = @ \cup {p}] \in TurnRecord
  <2>1. ASSUME NEW s \in DOMAIN turns PROVE [turns[s] EXCEPT !.files = @ \cup {p}] \in TurnRecord
    <3>1. turns[s] \in TurnRecord
      BY <1>7
    <3> QED BY <1>3, <3>1 DEF TurnRecord
  <2> QED BY <2>1
<1>12. /\ Grows /\ DOMAIN turns' = DOMAIN turns /\ turns' \in [DOMAIN turns' -> TurnRecord]
       /\ p \in turns'[n].files /\ \A s \in DOMAIN turns : turns'[s].of = turns[s].of
  <2>1. DOMAIN turns' = DOMAIN turns
    BY <1>6
  <2>2. \A s \in DOMAIN turns : turns'[s] \in TurnRecord
    BY <1>6, <1>7, <1>11
  <2>3. turns' \in [DOMAIN turns' -> TurnRecord]
    BY <1>6, <2>1, <2>2
  <2>4. \A s \in DOMAIN turns :
          /\ turns'[s].tree = turns[s].tree /\ turns'[s].skipped = turns[s].skipped
          /\ turns'[s].start = turns[s].start /\ turns'[s].of = turns[s].of
          /\ turns'[s].others = turns[s].others
          /\ turns'[s].files = IF s \in on THEN turns[s].files \cup {p} ELSE turns[s].files
    <3>1. ASSUME NEW s \in DOMAIN turns
          PROVE  /\ turns'[s].tree = turns[s].tree /\ turns'[s].skipped = turns[s].skipped
                 /\ turns'[s].start = turns[s].start /\ turns'[s].of = turns[s].of
                 /\ turns'[s].others = turns[s].others
                 /\ turns'[s].files = IF s \in on THEN turns[s].files \cup {p} ELSE turns[s].files
      <4>1. turns[s] \in TurnRecord /\ turns'[s] = IF s \notin on THEN turns[s] ELSE [turns[s] EXCEPT !.files = @ \cup {p}]
        BY <1>6, <1>7
      <4> QED BY <4>1 DEF TurnRecord
    <3> QED BY <3>1
  <2> QED BY <1>9, <1>10, <2>1, <2>3, <2>4 DEF Grows
<1>13. Typed'
  <2>1. writer' \in WriterRecord
    BY <1>1, <1>6 DEF Typed, WriterRecord
  <2>2. queue' \in Seq(Call)
    BY <1>2, <1>6, TailIs
  <2> QED BY <1>1, <1>6, <1>12, <2>1, <2>2 DEF Typed
<1>14. RevertStays
  BY <1>6 DEF RevertStays
<1>15. Facts'
  BY <1>1, <1>6, <1>12, <1>14, FactsGrow
<1>16. StageInv' /\ ReadyInv'
  BY <1>5, <1>6 DEF StageInv, ReadyInv
<1>17. JobInv'
  <2>1. \A i \in DOMAIN queue' : i + 1 \in DOMAIN queue /\ queue'[i] = queue[i + 1]
    BY <1>2, <1>6, TailIs
  <2> QED BY <1>1, <1>6, <2>1 DEF JobInv
<1>18. AgentInv'
  <2>1. writer'.state = "cleared" /\ writer'.path = p /\ writer'.turn = writer.turn
    BY <1>1, <1>4, <1>6 DEF Typed, WriterRecord
  <2>2. NoBegin(queue') /\ NoTrack(queue')
    BY <1>1, <1>2, <1>4, <1>6, TailKeeps DEF AgentInv
  <2>3. n \in Newest(DOMAIN turns') /\ turns'[n].of = writer'.turn
    BY <1>8, <1>9, <1>12, <2>1
  <2>4. OneTrack(queue', writer')
    BY <2>2 DEF NoTrack, OneTrack
  <2> QED BY <1>3, <1>12, <2>1, <2>2, <2>3, <2>4 DEF AgentInv
<1> QED BY <1>13, <1>15, <1>16, <1>17, <1>18, Parts

LEMMA LookKeeps == ASSUME RewindInv, Look PROVE RewindInv'
<1> DEFINE now == Reread(Path)
           leave == Goal.skipped \cup LeftAlone \cup inUse
           made == {f \in Path : Goal.tree[f] = Absent /\ now[f] # Absent}
           files == (FilesFrom(GoalSeq) \cup Reverted \cup made) \ leave
<1>1. Typed /\ JobInv /\ StageInv /\ ReadyInv /\ AgentInv /\ Facts
  BY Parts
<1>2. Runs("revert") /\ HasGoal
  BY DEF Look
<1>3. /\ index' = now /\ stage' = [stage EXCEPT !.phase = "looked", !.leave = leave, !.files = files]
      /\ before' = (IF revert = Nothing THEN disk ELSE before)
      /\ touched' = (IF revert = Nothing THEN {} ELSE touched)
      /\ UNCHANGED <<disk, inUse, turns, revert, queue, writer, used>>
  BY DEF Look
<1>4. /\ GoalSeq \in DOMAIN turns /\ Goal.tree \in Tree /\ Goal.skipped \subseteq Path
  BY <1>1, <1>2, GoalIs
<1>5. now \in Tree /\ \A f \in Path : f \notin inUse => now[f] = disk[f]
  BY <1>1, RereadIs
<1>6. leave \subseteq Path /\ files \subseteq Path
  BY <1>1, <1>4, FilesAreFiles DEF Typed
<1>7. /\ FilesFrom(GoalSeq) \cup Reverted \subseteq files \cup leave /\ Goal.skipped \subseteq leave
      /\ \A f \in Path : f \notin files /\ f \notin leave /\ Goal.tree[f] = Absent => disk[f] = Absent
  BY <1>5
<1> HIDE DEF now, leave, files
<1>8. stage' \in StageRecord /\ stage'.phase = "looked" /\ stage'.files = files /\ stage'.leave = leave
  BY <1>1, <1>3, <1>6 DEF Typed, StageRecord
<1>9. before' \in Tree \cup {Nothing} /\ touched' \subseteq Path /\ before' # Nothing
  <2>1. disk \in Tree /\ disk # Nothing
    BY <1>1 DEF Typed
  <2> QED BY <1>1, <1>3, <2>1 DEF Typed, Facts, RevertInv
<1>10. Typed'
  BY <1>1, <1>3, <1>5, <1>8, <1>9 DEF Typed
<1>11. /\ \A s : FilesFrom(s)' = FilesFrom(s)
       /\ \A s, u : FilesBetween(s, u)' = FilesBetween(s, u)
       /\ Reverted' = Reverted
  BY <1>3 DEF FilesFrom, FilesBetween, Reverted
<1>12. Facts'
  <2>1. TreeInv' BY <1>1, <1>3 DEF Facts, TreeInv, HasTree
  <2>2. DiskInv' BY <1>1, <1>3, <1>11 DEF Facts, DiskInv
  <2>3. UndoneInv' BY <1>1, <1>3, <1>11 DEF Facts, UndoneInv
  <2>4. BackInv' BY <1>1, <1>3, <1>11 DEF Facts, BackInv
  <2>5. PastInv' BY <1>1, <1>3, <1>11 DEF Facts, PastInv
  <2>6. RevertInv' BY <1>9 DEF RevertInv
  <2>7. RevertIsExact' BY <1>1, <1>3 DEF Facts, RevertIsExact
  <2>8. UndoIsExact'
    <3>1. CASE revert = Nothing
      BY <1>3, <1>11, <3>1 DEF UndoIsExact, Reverted
    <3>2. CASE revert # Nothing
      BY <1>1, <1>3, <1>11, <3>2 DEF Facts, UndoIsExact
    <3> QED BY <3>1, <3>2
  <2> QED BY <2>1, <2>2, <2>3, <2>4, <2>5, <2>6, <2>7, <2>8 DEF Facts
<1>13. StageInv' /\ ReadyInv'
  <2>1. Runs("revert")' /\ GoalSeq' = GoalSeq /\ Goal' = Goal /\ HasGoal'
    BY <1>2, <1>3 DEF Runs, GoalSeq, Goal, HasGoal
  <2>2. StageInv'
    BY <1>3, <1>7, <1>8, <1>9, <1>11, <2>1 DEF StageInv
  <2>3. ReadyInv'
    BY <1>8 DEF ReadyInv
  <2> QED BY <2>2, <2>3
<1>14. JobInv'
  BY <1>1, <1>3 DEF JobInv
<1>15. AgentInv'
  BY <1>1, <1>3 DEF AgentInv, Newest
<1> QED BY <1>10, <1>12, <1>13, <1>14, <1>15, Parts

LEMMA TakeUndoPointKeeps == ASSUME RewindInv, TakeUndoPoint PROVE RewindInv'
<1> DEFINE extra == stage.files \ Reverted
           undo == IF revert = Nothing THEN index'
                   ELSE [f \in Path |-> IF f \in extra \ inUse THEN index'[f] ELSE revert.undo[f]]
<1>1. Typed /\ JobInv /\ StageInv /\ ReadyInv /\ AgentInv /\ Facts
  BY Parts
<1>2. /\ Runs("revert") /\ stage.phase = "looked" /\ index' = Reread(extra)
      /\ stage' = [stage EXCEPT !.phase = "ready", !.leave = @ \cup (extra \cap inUse),
                                !.files = @ \ (extra \cap inUse), !.undo = undo]
      /\ UNCHANGED <<disk, inUse, turns, revert, queue, writer, used, before, touched>>
  BY DEF TakeUndoPoint
<1>3. index' \in Tree /\ \A f \in Path : f \in extra /\ f \notin inUse => index'[f] = disk[f]
  BY <1>1, <1>2, RereadIs
<1>4. revert # Nothing => revert.undo \in Tree
  BY <1>1 DEF Typed, RevertState
<1>5. stage \in StageRecord /\ stage.files \subseteq Path /\ stage.leave \subseteq Path
  BY <1>1 DEF Typed, StageRecord
<1>6. /\ undo \in Tree
      /\ \A f \in Path : f \in extra /\ f \notin inUse => undo[f] = disk[f]
      /\ \A f \in Path : f \in stage.files /\ f \notin extra => revert # Nothing /\ f \in Reverted /\ undo[f] = revert.undo[f]
  <2>1. CASE revert = Nothing
    BY <1>3, <2>1 DEF Reverted
  <2>2. CASE revert # Nothing
    BY <1>3, <1>4, <2>2 DEF Tree
  <2> QED BY <2>1, <2>2
<1> HIDE DEF undo
<1>7. /\ stage' \in StageRecord /\ stage'.phase = "ready" /\ stage'.undo = undo
      /\ stage'.files = stage.files \ (extra \cap inUse) /\ stage'.leave = stage.leave \cup (extra \cap inUse)
  BY <1>2, <1>5, <1>6 DEF StageRecord
<1>8. Typed'
  BY <1>1, <1>2, <1>3, <1>7 DEF Typed
<1>9. Facts'
  BY <1>1, <1>2, FactsStay
<1>10. (\A s : FilesFrom(s)' = FilesFrom(s)) /\ Reverted' = Reverted
  BY <1>2 DEF FilesFrom, Reverted
<1>11. Runs("revert")' /\ GoalSeq' = GoalSeq /\ Goal' = Goal /\ (HasGoal <=> HasGoal')
  BY <1>2 DEF Runs, GoalSeq, Goal, HasGoal
<1>12. StageInv'
  BY <1>1, <1>2, <1>7, <1>10, <1>11 DEF StageInv
<1>13. ReadyInv'
  <2>1. stage'.undo # Nothing
    BY <1>6, <1>7
  <2>2. ASSUME NEW s \in DOMAIN turns, NEW f \in stage'.files, f \notin FilesFrom(s), f \notin turns[s].others
        PROVE  undo[f] = turns[s].start[f]
    <3>1. f \in Path /\ f \in stage.files /\ ~(f \in extra /\ f \in inUse)
      BY <1>5, <1>7, <2>2
    <3>2. CASE f \in extra
      BY <1>1, <1>6, <2>2, <3>1, <3>2 DEF Facts, DiskInv
    <3>3. CASE f \notin extra
      BY <1>1, <1>6, <2>2, <3>1, <3>3 DEF Facts, UndoneInv
    <3> QED BY <3>2, <3>3
  <2>3. ASSUME NEW f \in stage'.files, f \notin touched
        PROVE  undo[f] = before[f]
    <3>1. f \in Path /\ f \in stage.files /\ ~(f \in extra /\ f \in inUse) /\ before # Nothing
      BY <1>1, <1>2, <1>5, <1>7, <2>3 DEF StageInv
    <3>2. CASE f \in extra
      BY <1>1, <1>6, <2>3, <3>1, <3>2 DEF Facts, UndoIsExact
    <3>3. CASE f \notin extra
      BY <1>1, <1>6, <2>3, <3>1, <3>3 DEF Facts, UndoIsExact
    <3> QED BY <3>2, <3>3
  <2> QED BY <1>2, <1>7, <1>10, <2>1, <2>2, <2>3 DEF ReadyInv
<1>14. JobInv'
  BY <1>1, <1>2 DEF JobInv
<1>15. AgentInv'
  BY <1>1, <1>2 DEF AgentInv, Newest
<1> QED BY <1>8, <1>9, <1>12, <1>13, <1>14, <1>15, Parts

\* What is left of the queue once a rewind has been served.
LEMMA RewindLeaves ==
  ASSUME Typed, JobInv, AgentInv, NEW op \in {"revert", "undo"}, Runs(op),
         NEW paths \in SUBSET Path, disk' \in Tree, \A f \in Path : f \notin paths => disk'[f] = disk[f],
         queue' = StartsFrom(Tail(queue), paths), writer' = writer,
         DOMAIN turns' = DOMAIN turns,
         \A s \in DOMAIN turns : turns'[s].files = turns[s].files /\ turns'[s].of = turns[s].of
  PROVE  JobInv' /\ AgentInv' /\ queue' \in Seq(Call)
<1>1. /\ queue \in Seq(Call) /\ queue # << >> /\ queue[1].op = op
      /\ Tail(queue) \in Seq(Call) /\ \A i \in DOMAIN Tail(queue) : i + 1 \in DOMAIN queue /\ Tail(queue)[i] = queue[i + 1]
  BY TailIs DEF Typed, Runs
<1>2. \A i \in DOMAIN Tail(queue) : Tail(queue)[i].op = "begin" => Tail(queue)[i].start = disk
  BY <1>1 DEF JobInv
<1>3. JobInv' /\ SameCalls(Tail(queue), queue') /\ queue' \in Seq(Call)
  BY <1>1, <1>2, JobsMove
<1>4. /\ NoBegin(queue) => NoBegin(Tail(queue))
      /\ \A id : LastBegin(queue, id) => LastBegin(Tail(queue), id)
      /\ OneTrack(queue, writer) => OneTrack(Tail(queue), writer)
  BY <1>1, TailKeeps
<1>5. /\ NoBegin(queue) => NoBegin(queue')
      /\ \A id : LastBegin(queue, id) => LastBegin(queue', id)
      /\ OneTrack(queue, writer) => OneTrack(queue', writer)
  BY <1>3, <1>4, SameCallsKeep
<1>6. Newest(DOMAIN turns') = Newest(DOMAIN turns) /\ \A s \in Newest(DOMAIN turns) : s \in DOMAIN turns
  BY DEF Newest
<1>7. AgentInv'
  BY <1>5, <1>6 DEF AgentInv
<1> QED BY <1>3, <1>7

LEMMA RevertKeeps == ASSUME RewindInv, RevertToTurn PROVE RewindInv'
<1> DEFINE g == GoalSeq
           gone == {f \in Goal.others \ stage.files : Goal.tree[f] # Absent \/ f \in touched}
<1>1. Typed /\ JobInv /\ StageInv /\ ReadyInv /\ AgentInv /\ Facts
  BY Parts
<1>2. /\ Runs("revert") /\ stage.phase = "ready" /\ PutBack(Goal.tree, stage.files)
      /\ revert' = [seq |-> g, undo |-> stage.undo, files |-> stage.files, skipped |-> stage.leave,
                    strayed |-> stage.leave \cup gone]
      /\ turns' = Marked(stage.leave)
      /\ queue' = StartsFrom(Tail(queue), stage.files) /\ stage' = NotBegun
      /\ touched' = touched \cup (Reverted \cap stage.leave)
      /\ UNCHANGED <<inUse, writer, used, before>>
  BY DEF RevertToTurn
<1>3. /\ HasGoal /\ before # Nothing /\ Goal.skipped \subseteq stage.leave
      /\ FilesFrom(g) \cup Reverted \subseteq stage.files \cup stage.leave
      /\ \A f \in Path : f \notin stage.files /\ f \notin stage.leave /\ f \notin touched =>
           (Goal.tree[f] = Absent => disk[f] = Absent)
  BY <1>1, <1>2 DEF StageInv
<1>4. /\ g \in DOMAIN turns /\ g \in Nat \ {0} /\ Goal \in TurnRecord /\ Goal.tree \in Tree
      /\ Goal.others \subseteq Path /\ Goal = turns[g] /\ HasTree(g)
  BY <1>1, <1>2, <1>3, GoalIs DEF Goal, HasTree
<1>5. stage.files \subseteq Path /\ stage.leave \subseteq Path /\ stage.undo \in Tree
  BY <1>1, <1>2 DEF Typed, StageRecord, ReadyInv
<1>6. /\ disk' \in Tree /\ index' \in Tree
      /\ \A f \in Path : f \in stage.files => disk'[f] = Goal.tree[f]
      /\ \A f \in Path : f \notin stage.files => disk'[f] = disk[f]
  BY <1>1, <1>2, <1>4, <1>5, PutBackIs
<1>7. gone \subseteq Path
  BY <1>4
<1> HIDE DEF gone
<1>8. /\ revert' \in RevertState /\ revert' # Nothing /\ revert'.seq = g /\ revert'.undo = stage.undo
      /\ revert'.files = stage.files /\ revert'.strayed = stage.leave \cup gone
  <2>1. revert' \in RevertState
    BY <1>2, <1>4, <1>5, <1>7 DEF RevertState
  <2> QED BY <1>2, <2>1
<1>9. /\ Grows /\ DOMAIN turns' = DOMAIN turns /\ turns' \in [DOMAIN turns' -> TurnRecord]
      /\ \A s \in DOMAIN turns :
           /\ turns'[s].files = turns[s].files /\ turns'[s].of = turns[s].of
           /\ turns'[s].others = turns[s].others \cup stage.leave
  BY <1>1, <1>2, <1>5, MarkedGrows
<1>10. JobInv' /\ AgentInv' /\ queue' \in Seq(Call)
  BY <1>1, <1>2, <1>5, <1>6, <1>9, RewindLeaves
<1>11. stage' \in StageRecord /\ stage'.phase = "start"
  BY <1>2 DEF NotBegun, StageRecord
<1>12. Typed'
  <2>1. touched' \subseteq Path
    BY <1>1, <1>2, <1>5 DEF Typed
  <2> QED BY <1>1, <1>2, <1>6, <1>8, <1>9, <1>10, <1>11, <2>1 DEF Typed
<1>13. StageInv' /\ ReadyInv'
  BY <1>11 DEF StageInv, ReadyInv
<1>14. /\ \A s, f : f \in FilesFrom(s)' <=> f \in FilesFrom(s)
       /\ \A s, u, f : f \in FilesBetween(s, u)' <=> f \in FilesBetween(s, u)
  BY <1>9, InFiles
<1>15. Reverted' = stage.files
  BY <1>8 DEF Reverted
<1>16. \A s \in DOMAIN turns : s \in Nat /\ turns'[s].start = turns[s].start
  BY <1>1, <1>9 DEF Grows, Typed, Contiguous
\* The tree of the turn is what the files held at its start.
<1>17. \A f \in Path : f \notin stage.leave => Goal.tree[f] = Goal.start[f]
  BY <1>1, <1>3, <1>4 DEF Facts, TreeInv
\* What is not put back has not changed since.
<1>18. \A f \in Path : f \notin stage.files /\ f \notin stage.leave => f \notin FilesFrom(g) /\ f \notin Reverted
  BY <1>3
<1>19. TreeInv'
  BY <1>1, <1>9 DEF Facts, TreeInv, HasTree, Grows
<1>20. DiskInv'
  <2>1. ASSUME NEW s \in DOMAIN turns, NEW f \in Path,
               f \notin FilesFrom(s), f \notin turns[s].others \cup stage.leave, f \notin stage.files
        PROVE  disk'[f] = turns[s].start[f]
    BY <1>1, <1>6, <1>18, <2>1 DEF Facts, DiskInv
  <2> QED BY <1>9, <1>14, <1>15, <1>16, <2>1 DEF DiskInv
<1>21. UndoneInv'
  <2>1. ASSUME NEW s \in DOMAIN turns, NEW f \in stage.files,
               f \notin FilesFrom(s), f \notin turns[s].others \cup stage.leave
        PROVE  stage.undo[f] = turns[s].start[f]
    BY <1>1, <1>2, <2>1 DEF ReadyInv
  <2> QED BY <1>8, <1>9, <1>14, <1>15, <1>16, <2>1 DEF UndoneInv
<1>22. BackInv'
  <2>1. ASSUME NEW s \in DOMAIN turns, s < g, NEW f \in Path,
               f \notin FilesBetween(s, g), f \notin turns[s].others \cup stage.leave
        PROVE  disk'[f] = turns[s].start[f]
    <3>1. CASE f \in stage.files
      <4>1. Goal.start[f] = turns[s].start[f]
        BY <1>1, <1>4, <2>1 DEF Facts, PastInv
      <4> QED BY <1>6, <1>17, <2>1, <3>1, <4>1
    <3>2. CASE f \notin stage.files
      <4>1. f \notin FilesFrom(g) /\ f \notin Reverted /\ disk'[f] = disk[f]
        BY <1>6, <1>18, <2>1, <3>2
      <4>2. f \notin FilesFrom(s)
        BY <1>4, <1>16, <2>1, <4>1, InFiles
      <4> QED BY <1>1, <2>1, <4>1, <4>2 DEF Facts, DiskInv
    <3> QED BY <3>1, <3>2
  <2> QED BY <1>4, <1>8, <1>9, <1>14, <1>16, <2>1 DEF BackInv
<1>23. PastInv'
  BY <1>1, <1>9, <1>14, <1>16 DEF Facts, PastInv
<1>24. RevertInv'
  BY <1>2, <1>3 DEF RevertInv
<1>25. RevertIsExact'
  <2>1. ASSUME NEW f \in Path, f \notin stage.leave, f \notin gone
        PROVE  disk'[f] = Goal.start[f]
    <3>1. CASE f \in stage.files
      BY <1>6, <1>17, <2>1, <3>1
    <3>2. CASE f \notin stage.files /\ f \notin Goal.others
      BY <1>1, <1>4, <1>6, <1>18, <2>1, <3>2 DEF Facts, DiskInv
    <3>3. CASE f \notin stage.files /\ f \in Goal.others
      <4>1. Goal.tree[f] = Absent /\ f \notin touched
        BY <2>1, <3>3 DEF gone
      <4> QED BY <1>3, <1>6, <1>17, <2>1, <3>3, <4>1
    <3> QED BY <3>1, <3>2, <3>3
  <2> QED BY <1>4, <1>8, <1>16, <2>1 DEF RevertIsExact
<1>26. UndoIsExact'
  <2>1. ASSUME NEW f \in Path, f \notin touched, ~(f \in Reverted /\ f \in stage.leave)
        PROVE  (IF f \in stage.files THEN stage.undo[f] ELSE disk'[f]) = before[f]
    <3>1. CASE f \in stage.files
      BY <1>1, <1>2, <2>1, <3>1 DEF ReadyInv
    <3>2. CASE f \notin stage.files
      BY <1>1, <1>3, <1>6, <2>1, <3>2 DEF Facts, UndoIsExact
    <3> QED BY <3>1, <3>2
  <2> QED BY <1>2, <1>8, <1>15, <2>1 DEF UndoIsExact
<1>27. Facts'
  BY <1>19, <1>20, <1>21, <1>22, <1>23, <1>24, <1>25, <1>26 DEF Facts
<1> QED BY <1>10, <1>12, <1>13, <1>27, Parts

LEMMA UndoKeeps == ASSUME RewindInv, UndoRevert PROVE RewindInv'
<1>1. Typed /\ JobInv /\ StageInv /\ ReadyInv /\ AgentInv /\ Facts
  BY Parts
<1>2. /\ Runs("undo") /\ revert # Nothing /\ PutBack(revert.undo, revert.files) /\ revert' = Nothing
      /\ queue' = StartsFrom(Tail(queue), revert.files)
      /\ UNCHANGED <<inUse, turns, stage, writer, used, before, touched>>
  BY DEF UndoRevert
<1>3. revert.undo \in Tree /\ revert.files \subseteq Path /\ Reverted = revert.files /\ Reverted' = {}
  BY <1>1, <1>2 DEF Typed, RevertState, Reverted
<1>4. /\ disk' \in Tree /\ index' \in Tree
      /\ \A f \in Path : f \in revert.files => disk'[f] = revert.undo[f]
      /\ \A f \in Path : f \notin revert.files => disk'[f] = disk[f]
  BY <1>1, <1>2, <1>3, PutBackIs
<1>5. stage.phase = "start"
  BY <1>1, <1>2, OneRuns
<1>6. JobInv' /\ AgentInv' /\ queue' \in Seq(Call)
  BY <1>1, <1>2, <1>3, <1>4, RewindLeaves
<1>7. Typed'
  BY <1>1, <1>2, <1>4, <1>6 DEF Typed
<1>8. StageInv' /\ ReadyInv'
  BY <1>2, <1>5 DEF StageInv, ReadyInv
<1>9. /\ \A s, f : f \in FilesFrom(s)' <=> f \in FilesFrom(s)
      /\ \A s, u, f : f \in FilesBetween(s, u)' <=> f \in FilesBetween(s, u)
  BY <1>2, InFiles
<1>10. DiskInv'
  <2>1. ASSUME NEW s \in DOMAIN turns, NEW f \in Path, f \notin FilesFrom(s), f \notin turns[s].others
        PROVE  disk'[f] = turns[s].start[f]
    <3>1. CASE f \in revert.files
      BY <1>1, <1>2, <1>3, <1>4, <2>1, <3>1 DEF Facts, UndoneInv
    <3>2. CASE f \notin revert.files
      BY <1>1, <1>3, <1>4, <2>1, <3>2 DEF Facts, DiskInv
    <3> QED BY <3>1, <3>2
  <2> QED BY <1>2, <1>9, <2>1 DEF DiskInv
<1>11. UndoIsExact'
  <2>1. ASSUME before # Nothing, NEW f \in Path, f \notin touched
        PROVE  disk'[f] = before[f]
    BY <1>1, <1>3, <1>4, <2>1 DEF Facts, UndoIsExact
  <2> QED BY <1>2, <1>3, <2>1 DEF UndoIsExact
<1>12. TreeInv' /\ PastInv'
  BY <1>1, <1>2, <1>9 DEF Facts, TreeInv, HasTree, PastInv
<1>13. UndoneInv' /\ BackInv' /\ RevertInv' /\ RevertIsExact'
  BY <1>2 DEF UndoneInv, BackInv, RevertInv, RevertIsExact
<1>14. Facts'
  BY <1>10, <1>11, <1>12, <1>13 DEF Facts
<1> QED BY <1>6, <1>7, <1>8, <1>14, Parts

LEMMA GivesUpKeeps == ASSUME RewindInv, GivesUp PROVE RewindInv'
<1> DEFINE reverting == Runs("revert") /\ stage.phase = "ready"
           undoing == Runs("undo") /\ revert # Nothing
           files == (IF reverting THEN stage.files ELSE IF undoing THEN revert.files ELSE {}) \ inUse
           tree == IF reverting THEN Goal.tree ELSE IF undoing THEN revert.undo ELSE disk
<1>1. Typed /\ JobInv /\ StageInv /\ ReadyInv /\ AgentInv /\ Facts
  BY Parts
<1>2. /\ used' = [used EXCEPT !.failures = @ + 1] /\ stage' = NotBegun /\ UNCHANGED <<inUse, before>>
  BY DEF GivesUp
<1>3. PICK done \in SUBSET files :
        /\ PutBack(tree, done) /\ turns' = Marked(done) /\ revert' = Strayed(done)
        /\ touched' = (IF reverting THEN touched \cup done ELSE touched)
        /\ \/ /\ Runs("revert") \/ Runs("undo")
              /\ queue' = StartsFrom(Tail(queue), done) /\ writer' = writer
           \/ queue' = << >> /\ writer' = Nowhere
  BY DEF GivesUp
<1>4. tree \in Tree /\ files \subseteq Path
  <2>1. CASE reverting
    <3>1. HasGoal
      BY <1>1, <2>1 DEF StageInv
    <3> QED BY <1>1, <2>1, <3>1, GoalIs DEF Typed, StageRecord
  <2>2. CASE ~reverting /\ undoing
    BY <1>1, <2>2 DEF Typed, RevertState
  <2>3. CASE ~reverting /\ ~undoing
    BY <1>1, <2>3 DEF Typed
  <2> QED BY <2>1, <2>2, <2>3
<1>5. (done # {} => reverting \/ undoing) /\ (undoing /\ ~reverting => done \subseteq Reverted)
  BY <1>3 DEF Reverted
<1>6. done \in SUBSET Path
  BY <1>3, <1>4
<1> HIDE DEF reverting, undoing, files, tree
<1>7. /\ disk' \in Tree /\ index' \in Tree /\ \A f \in Path : f \notin done => disk'[f] = disk[f]
  BY <1>1, <1>3, <1>4, <1>6, PutBackIs
<1>8. /\ Grows /\ DOMAIN turns' = DOMAIN turns /\ turns' \in [DOMAIN turns' -> TurnRecord]
      /\ \A s \in DOMAIN turns :
           /\ turns'[s].files = turns[s].files /\ turns'[s].of = turns[s].of
           /\ turns'[s].others = turns[s].others \cup done
  BY <1>1, <1>3, <1>6, MarkedGrows
<1>9. /\ revert' \in RevertState \cup {Nothing} /\ RevertStays
      /\ revert # Nothing => done \subseteq revert'.strayed
  <2>1. /\ Strayed(done) \in RevertState \cup {Nothing}
        /\ Strayed(done) = Nothing <=> revert = Nothing
        /\ revert # Nothing =>
             /\ Strayed(done).strayed = revert.strayed \cup done
             /\ Strayed(done).seq = revert.seq /\ Strayed(done).undo = revert.undo
             /\ Strayed(done).files = revert.files
    BY <1>1, <1>6, StrayedIs
  <2> QED BY <1>3, <2>1 DEF RevertStays
<1>10. JobInv' /\ AgentInv' /\ queue' \in Seq(Call) /\ writer' \in WriterRecord
  <2>1. CASE (Runs("revert") \/ Runs("undo")) /\ queue' = StartsFrom(Tail(queue), done) /\ writer' = writer
    <3>1. PICK op \in {"revert", "undo"} : Runs(op)
      BY <2>1
    <3> QED BY <1>1, <1>6, <1>7, <1>8, <2>1, <3>1, RewindLeaves DEF Typed
  <2>2. CASE queue' = << >> /\ writer' = Nowhere
    <3>1. queue' \in Seq(Call) /\ DOMAIN queue' = {}
      BY <2>2, EmptySeq
    <3>2. writer' \in WriterRecord /\ writer'.state = "off"
      BY <2>2 DEF Nowhere, WriterRecord
    <3>3. JobInv' /\ AgentInv'
      BY <3>1, <3>2 DEF JobInv, AgentInv, OneTrack
    <3> QED BY <3>1, <3>2, <3>3
  <2> QED BY <1>3, <2>1, <2>2
<1>11. stage' \in StageRecord /\ stage'.phase = "start"
  BY <1>2 DEF NotBegun, StageRecord
<1>12. Typed'
  <2>1. touched' \subseteq Path
    BY <1>1, <1>3, <1>6 DEF Typed
  <2>2. used' \in UsedRecord /\ used'.writes <= MaxWrites
    <3>1. used \in UsedRecord /\ used.writes <= MaxWrites
      BY <1>1 DEF Typed
    <3> QED BY <1>2, <3>1 DEF UsedRecord
  <2> QED BY <1>1, <1>2, <1>7, <1>8, <1>9, <1>10, <1>11, <2>1, <2>2 DEF Typed
<1>13. Facts'
  <2>1. touched \subseteq touched'
    BY <1>3
  <2>2. ASSUME NEW f \in Path, disk'[f] # disk[f]
        PROVE  /\ f \in touched' \/ f \in Reverted
               /\ revert # Nothing => f \in revert'.strayed
               /\ \A s \in DOMAIN turns : f \in turns'[s].others
    <3>1. f \in done
      BY <1>7, <2>2
    <3>2. f \in touched' \/ f \in Reverted
      BY <1>3, <1>5, <3>1
    <3> QED BY <1>8, <1>9, <3>1, <3>2
  <2> QED BY <1>1, <1>2, <1>8, <1>9, <2>1, <2>2, FactsGrow
<1>14. StageInv' /\ ReadyInv'
  BY <1>11 DEF StageInv, ReadyInv
<1> QED BY <1>10, <1>12, <1>13, <1>14, Parts

-----------------------------------------------------------------------------
(* A new turn *)

Kept == {s \in DOMAIN turns : revert = Nothing \/ s < revert.seq}
Listed(n) == {u \in Kept \cup {n} : n < u + MaxTurns}
Record(n, tree, skipped) ==
  [of |-> Head(queue).of, tree |-> tree, files |-> {}, skipped |-> skipped,
   start |-> Head(queue).start, others |-> {}]

\* The turns before the one reverted to are the first of the list.
LEMMA KeptIs ==
  ASSUME Typed, BackInv
  PROVE  /\ Contiguous(Kept)
         /\ \A s, u : u \in Kept /\ s \in DOMAIN turns /\ s <= u => s \in Kept
<1>1. Contiguous(DOMAIN turns) /\ (revert # Nothing => revert.seq \in DOMAIN turns)
  BY DEF Typed, BackInv
<1>2. CASE revert = Nothing
  BY <1>1, <1>2 DEF Kept
<1>3. CASE revert # Nothing
  <2>1. PICK first, last \in DOMAIN turns : DOMAIN turns = first..last /\ last < first + MaxTurns
    BY <1>1, <1>3 DEF Contiguous
  <2>2. first \in Nat \ {0} /\ last \in Nat \ {0} /\ revert.seq \in first..last
    BY <1>1, <1>3, <2>1 DEF Contiguous
  <2>3. \A s : s \in Kept <=> s \in first..last /\ s < revert.seq
    BY <1>3, <2>1 DEF Kept
  <2>4. Kept = first..(revert.seq - 1)
    <3>1. \A s : s \in Kept <=> s \in first..(revert.seq - 1)
      BY <2>2, <2>3
    <3>2. Kept \subseteq first..last /\ Kept \subseteq first..(revert.seq - 1)
      BY <2>3, <3>1
    <3> QED BY <3>1, <3>2
  <2>5. Contiguous(Kept)
    <3>1. Kept \subseteq Nat \ {0}
      BY <2>2, <2>4
    <3>2. ASSUME Kept # {} PROVE first \in Kept /\ revert.seq - 1 \in Kept /\ revert.seq - 1 < first + MaxTurns
      BY <2>1, <2>2, <2>4, <3>2
    <3> QED BY <2>4, <3>1, <3>2 DEF Contiguous
  <2>6. \A s, u : u \in Kept /\ s \in DOMAIN turns /\ s <= u => s \in Kept
    BY <2>1, <2>2, <2>3
  <2> QED BY <2>5, <2>6
<1> QED BY <1>2, <1>3

\* The new number follows the others, and as many as are kept stay on the list.
LEMMA ListedIs ==
  ASSUME Contiguous(Kept), NEW n, n \in IF Kept = {} THEN {1} ELSE {s + 1 : s \in Newest(Kept)}
  PROVE  /\ n \in Nat \ {0} /\ n \in Listed(n) /\ n \notin Kept /\ Contiguous(Listed(n))
         /\ \A s \in Kept : s \in Nat \ {0} /\ s < n
         /\ \A s \in Listed(n) : s = n \/ s \in Kept
         /\ \A s \in Listed(n) : \A u \in Kept : s <= u => u \in Listed(n)
         /\ Newest(Listed(n)) = {n}
<1>1. Kept \subseteq Nat \ {0} /\ MaxTurns \in Nat \ {0}
  BY DEF Contiguous
<1>2. n \in Nat \ {0} /\ \A s \in Kept : s < n
  <2>1. CASE Kept = {}
    BY <2>1
  <2>2. CASE Kept # {}
    <3>1. PICK s \in Newest(Kept) : n = s + 1
      BY <2>2
    <3>2. s \in Nat \ {0} /\ \A u \in Kept : u <= s
      BY <1>1, <3>1 DEF Newest
    <3> QED BY <1>1, <3>1, <3>2
  <2> QED BY <2>1, <2>2
<1>3. \A s : s \in Listed(n) <=> (s \in Kept \/ s = n) /\ n < s + MaxTurns
  BY DEF Listed
<1>4. n \in Listed(n) /\ n \notin Kept
  BY <1>1, <1>2, <1>3
<1>5. \A s \in Listed(n) : s \in Nat \ {0} /\ s <= n
  <2>1. ASSUME NEW s \in Listed(n) PROVE s \in Nat \ {0} /\ s <= n
    <3>1. s \in Kept \/ s = n
      BY <1>3, <2>1
    <3>2. CASE s \in Kept
      BY <1>1, <1>2, <3>2
    <3>3. CASE s = n
      BY <1>2, <3>3
    <3> QED BY <3>1, <3>2, <3>3
  <2> QED BY <2>1
<1>6. \A s \in Listed(n) : \A u \in Kept : s <= u => u \in Listed(n)
  BY <1>1, <1>2, <1>3, <1>5
<1>7. Newest(Listed(n)) = {n}
  <2>1. \A s : s \in Newest(Listed(n)) <=> s = n
    BY <1>2, <1>4, <1>5 DEF Newest
  <2>2. Newest(Listed(n)) \subseteq {n} /\ {n} \subseteq Newest(Listed(n))
    BY <2>1
  <2> QED BY <2>2
<1>8. Contiguous(Listed(n))
  <2>1. CASE Kept = {}
    <3>1. \A s : s \in Listed(n) <=> s \in n..n
      BY <1>2, <1>3, <1>4, <2>1
    <3>2. Listed(n) \subseteq n..n /\ n..n \subseteq Listed(n) /\ n < n + MaxTurns
      BY <1>1, <1>2, <3>1
    <3>3. Listed(n) = n..n
      BY <3>2
    <3>4. \E first, last \in Listed(n) : Listed(n) = first..last /\ last < first + MaxTurns
      BY <1>4, <3>2, <3>3
    <3> QED BY <1>5, <3>4 DEF Contiguous
  <2>2. CASE Kept # {}
    <3>1. PICK first, last \in Kept : Kept = first..last
      BY <2>2 DEF Contiguous
    <3>2. first \in Nat \ {0} /\ last \in Nat \ {0} /\ n = last + 1
      <4>1. first \in Nat \ {0} /\ last \in Nat \ {0}
        BY <1>1, <3>1
      <4>2. PICK s \in Newest(Kept) : n = s + 1
        BY <2>2
      <4>3. s \in Kept /\ last <= s /\ s <= last
        BY <3>1, <4>1, <4>2 DEF Newest
      <4> QED BY <1>1, <4>1, <4>2, <4>3
    <3>3. PICK low \in Nat \ {0} : /\ \A s : s \in Listed(n) <=> s \in low..n
                                   /\ low <= n /\ n < low + MaxTurns
      <4>1. CASE n < first + MaxTurns
        <5>1. \A s : s \in Listed(n) <=> s \in first..n
          BY <1>1, <1>3, <3>1, <3>2, <4>1
        <5> QED BY <3>1, <3>2, <4>1, <5>1
      <4>2. CASE ~(n < first + MaxTurns)
        <5>1. n + 1 - MaxTurns \in Nat \ {0} /\ n + 1 - MaxTurns <= n /\ n < (n + 1 - MaxTurns) + MaxTurns
          BY <1>1, <3>2, <4>2
        <5>2. \A s : s \in Listed(n) <=> s \in (n + 1 - MaxTurns)..n
          BY <1>1, <1>3, <3>1, <3>2, <4>2
        <5> QED BY <5>1, <5>2
      <4> QED BY <4>1, <4>2
    <3>4. Listed(n) \subseteq low..n /\ low..n \subseteq Listed(n) /\ low \in Listed(n)
      BY <1>2, <3>3
    <3> QED BY <1>2, <1>4, <1>5, <3>3, <3>4 DEF Contiguous
  <2> QED BY <2>1, <2>2
<1> QED BY <1>1, <1>2, <1>3, <1>4, <1>6, <1>7, <1>8

LEMMA BeginKeeps == ASSUME RewindInv, BeginTurn PROVE RewindInv'
<1>1. Typed /\ JobInv /\ StageInv /\ ReadyInv /\ AgentInv /\ Facts
  BY Parts
<1>2. /\ queue # << >> /\ queue \in Seq(Call) /\ Head(queue) \in Call /\ Head(queue).op = "begin"
      /\ Head(queue) = queue[1] /\ 1 \in DOMAIN queue
  BY <1>1, HeadRuns, TailIs DEF BeginTurn, Typed
<1>3. Head(queue).of \in Nat \ {0} /\ Head(queue).start = disk
  BY <1>1, <1>2, Calls DEF JobInv
<1>4. stage.phase = "start"
  BY <1>1, OneRuns DEF BeginTurn
<1>5. /\ revert' = Nothing /\ before' = Nothing /\ touched' = {} /\ queue' = Tail(queue)
      /\ UNCHANGED <<disk, inUse, stage, writer>>
  BY DEF BeginTurn
<1>6. PICK n \in IF Kept = {} THEN {1} ELSE {s + 1 : s \in Newest(Kept)},
           tree \in Tree \cup {Nothing}, skipped \in SUBSET Path :
        /\ turns' = [s \in Listed(n) |-> IF s # n THEN turns[s] ELSE Record(n, tree, skipped)]
        /\ tree # Nothing => \A f \in Path : f \notin skipped => tree[f] = disk[f]
        /\ index' \in Tree /\ used' \in UsedRecord /\ used'.writes <= MaxWrites
  <2>1. /\ Reread(Path) \in Tree /\ inUse \in SUBSET Path /\ index \in Tree
        /\ \A f \in Path : f \notin inUse => Reread(Path)[f] = disk[f]
    BY <1>1, RereadIs DEF Typed
  <2>2. used \in UsedRecord /\ used.writes <= MaxWrites
    BY <1>1 DEF Typed
  <2>3. \/ \E n \in IF Kept = {} THEN {1} ELSE {s + 1 : s \in Newest(Kept)} :
             /\ turns' = [s \in Listed(n) |-> IF s # n THEN turns[s] ELSE Record(n, Reread(Path), inUse)]
             /\ index' = Reread(Path) /\ used' = used
        \/ \E n \in IF Kept = {} THEN {1} ELSE {s + 1 : s \in Newest(Kept)} :
             /\ turns' = [s \in Listed(n) |-> IF s # n THEN turns[s] ELSE Record(n, Nothing, {})]
             /\ index' = index /\ used' = [used EXCEPT !.failures = @ + 1]
    BY DEF BeginTurn, Kept, Listed, Record
  <2>4. CASE \E n \in IF Kept = {} THEN {1} ELSE {s + 1 : s \in Newest(Kept)} :
               /\ turns' = [s \in Listed(n) |-> IF s # n THEN turns[s] ELSE Record(n, Reread(Path), inUse)]
               /\ index' = Reread(Path) /\ used' = used
    <3>1. PICK n \in IF Kept = {} THEN {1} ELSE {s + 1 : s \in Newest(Kept)} :
            /\ turns' = [s \in Listed(n) |-> IF s # n THEN turns[s] ELSE Record(n, Reread(Path), inUse)]
            /\ index' = Reread(Path) /\ used' = used
      BY <2>4
    <3>2. \E tree \in Tree \cup {Nothing}, skipped \in SUBSET Path :
            /\ turns' = [s \in Listed(n) |-> IF s # n THEN turns[s] ELSE Record(n, tree, skipped)]
            /\ tree # Nothing => \A f \in Path : f \notin skipped => tree[f] = disk[f]
      <4> USE <2>1
      <4> WITNESS Reread(Path) \in Tree \cup {Nothing}, inUse \in SUBSET Path
      <4> QED BY <3>1
    <3>3. index' \in Tree /\ used' \in UsedRecord /\ used'.writes <= MaxWrites
      BY <2>1, <2>2, <3>1
    <3> QED BY <3>1, <3>2, <3>3
  <2>5. CASE \E n \in IF Kept = {} THEN {1} ELSE {s + 1 : s \in Newest(Kept)} :
               /\ turns' = [s \in Listed(n) |-> IF s # n THEN turns[s] ELSE Record(n, Nothing, {})]
               /\ index' = index /\ used' = [used EXCEPT !.failures = @ + 1]
    <3>1. used' \in UsedRecord /\ used'.writes <= MaxWrites
      BY <2>2, <2>5 DEF UsedRecord
    <3> QED BY <2>1, <2>5, <3>1
  <2> QED BY <2>3, <2>4, <2>5
<1>7. /\ Contiguous(Kept) /\ \A s, u : u \in Kept /\ s \in DOMAIN turns /\ s <= u => s \in Kept
  BY <1>1, KeptIs DEF Facts
<1>8. /\ n \in Nat \ {0} /\ n \in Listed(n) /\ n \notin Kept /\ Contiguous(Listed(n))
      /\ \A s \in Kept : s \in Nat \ {0} /\ s < n
      /\ \A s \in Listed(n) : s = n \/ s \in Kept
      /\ \A s \in Listed(n) : \A u \in Kept : s <= u => u \in Listed(n)
      /\ Newest(Listed(n)) = {n}
  BY <1>6, <1>7, ListedIs
<1>9. /\ Record(n, tree, skipped) \in TurnRecord
      /\ Record(n, tree, skipped).of = Head(queue).of /\ Record(n, tree, skipped).tree = tree
      /\ Record(n, tree, skipped).files = {} /\ Record(n, tree, skipped).skipped = skipped
      /\ Record(n, tree, skipped).start = disk /\ Record(n, tree, skipped).others = {}
  <2>1. disk \in Tree
    BY <1>1 DEF Typed
  <2> QED BY <1>3, <2>1 DEF Record, TurnRecord
<1>10. /\ DOMAIN turns' = Listed(n) /\ turns'[n] = Record(n, tree, skipped)
       /\ \A s \in Listed(n) : s # n => turns'[s] = turns[s] /\ s \in DOMAIN turns
  BY <1>6, <1>8 DEF Kept
<1>11. turns' \in [DOMAIN turns' -> TurnRecord]
  <2>1. \A s \in DOMAIN turns : turns[s] \in TurnRecord
    BY <1>1 DEF Typed
  <2>2. \A s \in Listed(n) : turns'[s] \in TurnRecord
    BY <1>9, <1>10, <2>1
  <2> QED BY <1>6, <1>10, <2>2
<1>12. Typed'
  <2>1. queue' \in Seq(Call)
    BY <1>2, <1>5, TailIs
  <2> QED BY <1>1, <1>5, <1>6, <1>8, <1>10, <1>11, <2>1 DEF Typed
\* What the turns kept say of the disk.
<1>13. ASSUME NEW s \in Kept, NEW f \in Path, f \notin turns[s].others,
              \A u \in Kept : s <= u => f \notin turns[u].files
       PROVE  disk[f] = turns[s].start[f]
  <2>1. s \in DOMAIN turns /\ s \in Nat
    BY <1>8 DEF Kept
  <2>2. CASE revert = Nothing
    <3>1. f \notin FilesFrom(s) /\ f \notin Reverted
      BY <1>7, <1>13, <2>2, InFiles DEF Kept, Reverted
    <3> QED BY <1>1, <1>13, <2>1, <3>1 DEF Facts, DiskInv
  <2>3. CASE revert # Nothing
    <3>1. s < revert.seq /\ f \notin FilesBetween(s, revert.seq)
      BY <1>13, <2>3, InFiles DEF Kept
    <3> QED BY <1>1, <1>13, <2>1, <2>3, <3>1 DEF Facts, BackInv
  <2> QED BY <2>2, <2>3
<1>14. TreeInv'
  <2>1. ASSUME NEW s \in Listed(n), s # n, turns[s].tree # Nothing, NEW f \in Path, f \notin turns[s].skipped
        PROVE  turns[s].tree[f] = turns[s].start[f]
    BY <1>1, <1>10, <2>1 DEF Facts, TreeInv, HasTree
  <2> QED BY <1>6, <1>9, <1>10, <2>1 DEF TreeInv, HasTree
<1>15. ASSUME NEW s \in Listed(n), s # n, NEW f \in Path, f \notin turns[s].others,
              \A u \in Listed(n) : s <= u /\ u # n => f \notin turns[u].files
       PROVE  disk[f] = turns[s].start[f]
  <2>1. s \in Kept
    BY <1>8, <1>15
  <2>2. \A u \in Kept : s <= u => f \notin turns[u].files
    BY <1>8, <1>15
  <2> QED BY <1>13, <1>15, <2>1, <2>2
<1>16. DiskInv'
  <2>1. ASSUME NEW s \in DOMAIN turns', NEW f \in Path, f \notin FilesFrom(s)', f \notin turns'[s].others
        PROVE  disk[f] = turns'[s].start[f]
    <3>1. CASE s = n
      BY <1>9, <1>10, <3>1
    <3>2. CASE s # n
      <4>1. \A u \in DOMAIN turns' : u >= s => f \notin turns'[u].files
        BY <2>1, InFiles
      <4>2. \A u \in Listed(n) : u \in Nat /\ s \in Nat
        BY <1>8, <1>10, <2>1
      <4>3. \A u \in Listed(n) : s <= u /\ u # n => f \notin turns[u].files
        BY <1>10, <4>1, <4>2
      <4> QED BY <1>10, <1>15, <2>1, <3>2, <4>3
    <3> QED BY <3>1, <3>2
  <2> QED BY <1>5, <2>1 DEF DiskInv
<1>17. PastInv'
  <2>1. ASSUME NEW s \in DOMAIN turns', NEW u \in DOMAIN turns', s < u, NEW f \in Path,
               f \notin FilesBetween(s, u)', f \notin turns'[s].others
        PROVE  turns'[u].start[f] = turns'[s].start[f]
    <3>1. \A v \in DOMAIN turns' : s <= v /\ v < u => f \notin turns'[v].files
      BY <2>1, InFiles
    <3>2. s \in Nat /\ u \in Nat /\ \A v \in Listed(n) : v \in Nat /\ v <= n
      BY <1>8, <1>10, <2>1
    <3>3. s # n /\ s \in Kept /\ s \in DOMAIN turns /\ turns'[s] = turns[s]
      BY <1>8, <1>10, <2>1, <3>2
    <3>4. CASE u = n
      <4>1. \A v \in Listed(n) : s <= v /\ v # n => f \notin turns[v].files
        <5>1. \A v \in Listed(n) : v # n => v < n
          BY <1>8
        <5> QED BY <1>10, <3>1, <3>4, <5>1
      <4>2. disk[f] = turns[s].start[f]
        BY <1>10, <1>15, <2>1, <3>3, <4>1
      <4> QED BY <1>9, <1>10, <3>3, <3>4, <4>2
    <3>5. CASE u # n
      <4>1. u \in Kept /\ u \in DOMAIN turns /\ turns'[u] = turns[u]
        BY <1>8, <1>10, <2>1, <3>5
      <4>2. f \notin FilesBetween(s, u)
        <5>1. ASSUME NEW v \in DOMAIN turns, s <= v, v < u, f \in turns[v].files PROVE FALSE
          <6>1. v \in Nat
            BY <1>1 DEF Typed, Contiguous
          <6>2. v \in Kept
            BY <1>7, <3>2, <4>1, <5>1, <6>1
          <6>3. v \in Listed(n) /\ v # n
            BY <1>8, <1>10, <2>1, <5>1, <6>2
          <6> QED BY <1>10, <3>1, <5>1, <6>3
        <5> QED BY <5>1, InFiles
      <4> QED BY <1>1, <2>1, <3>3, <4>1, <4>2 DEF Facts, PastInv
    <3> QED BY <3>4, <3>5
  <2> QED BY <2>1 DEF PastInv
<1>18. Facts'
  <2>1. UndoneInv' /\ BackInv' /\ RevertInv' /\ RevertIsExact' /\ UndoIsExact'
    BY <1>5 DEF UndoneInv, BackInv, RevertInv, RevertIsExact, UndoIsExact
  <2> QED BY <1>14, <1>16, <1>17, <2>1 DEF Facts
<1>19. StageInv' /\ ReadyInv'
  BY <1>4, <1>5 DEF StageInv, ReadyInv
<1>20. JobInv'
  <2>1. \A i \in DOMAIN queue' : i + 1 \in DOMAIN queue /\ queue'[i] = queue[i + 1]
    BY <1>2, <1>5, TailIs
  <2> QED BY <1>1, <1>5, <2>1 DEF JobInv
<1>21. AgentInv'
  <2>1. ~NoBegin(queue) /\ writer' = writer
    BY <1>2, <1>5 DEF NoBegin
  <2>2. writer.state \notin {"tracking", "cleared"}
    BY <1>1, <2>1 DEF AgentInv
  <2>3. writer.state # "off" =>
          \/ LastBegin(queue', writer.turn)
          \/ NoBegin(queue') /\ Head(queue).of = writer.turn
    BY <1>1, <1>2, <1>5, <2>1, TailKeeps DEF AgentInv
  <2>4. n \in Newest(DOMAIN turns') /\ turns'[n].of = Head(queue).of
    BY <1>8, <1>9, <1>10
  <2>5. OneTrack(queue', writer')
    BY <1>1, <1>2, <1>5, <2>1, TailKeeps DEF AgentInv
  <2> QED BY <1>1, <2>1, <2>2, <2>3, <2>4, <2>5 DEF AgentInv
<1> QED BY <1>12, <1>18, <1>19, <1>20, <1>21, Parts

-----------------------------------------------------------------------------
(* Theorems *)

LEMMA InitIsInv == ASSUME SnapshotInit PROVE RewindInv
<1>1. /\ disk \in Tree /\ index \in Tree /\ inUse = {} /\ turns = << >> /\ revert = Nothing /\ queue = << >>
      /\ before = Nothing /\ touched = {}
  <2>1. 0 \in Version /\ Absent \in Version
    BY DEF Version
  <2> QED BY <2>1 DEF SnapshotInit, Tree
<1>2. DOMAIN turns = {} /\ turns \in [DOMAIN turns -> TurnRecord] /\ Contiguous(DOMAIN turns)
  BY <1>1, EmptySeq DEF Contiguous
<1>3. queue \in Seq(Call) /\ DOMAIN queue = {}
  BY <1>1, EmptySeq
<1>4. stage \in StageRecord /\ stage.phase = "start" /\ writer \in WriterRecord /\ writer.state = "off"
  BY DEF SnapshotInit, NotBegun, Nowhere, StageRecord, WriterRecord
<1>5. used \in UsedRecord /\ used.writes <= MaxWrites
  BY DEF SnapshotInit, UsedRecord
<1>6. Typed
  BY <1>1, <1>2, <1>3, <1>4, <1>5 DEF Typed
<1>7. JobInv /\ StageInv /\ ReadyInv /\ AgentInv
  BY <1>3, <1>4 DEF JobInv, StageInv, ReadyInv, AgentInv, OneTrack
<1>8. Facts
  BY <1>1, <1>2 DEF Facts, TreeInv, DiskInv, UndoneInv, BackInv, PastInv, RevertInv, RevertIsExact, UndoIsExact
<1> QED BY <1>6, <1>7, <1>8, Parts

LEMMA NextKeeps == ASSUME RewindInv, [SnapshotNext]_snapshotVars PROVE RewindInv'
<1>1. CASE StartTurn BY <1>1, StartTurnKeeps
<1>2. CASE BeforeWrite BY <1>2, BeforeWriteKeeps
<1>3. CASE Writes BY <1>3, WritesKeeps
<1>4. CASE TurnEnds BY <1>4, TurnEndsKeeps
<1>5. ASSUME NEW f \in Path, Announces(f) PROVE RewindInv' BY <1>5, AnnouncesKeeps
<1>6. ASSUME NEW f \in Path, SomebodyWrites(f) PROVE RewindInv' BY <1>6, SomebodyWritesKeeps
<1>7. ASSUME NEW f \in Path, HoldsOpen(f) \/ Closes(f) PROVE RewindInv' BY <1>7, HoldsKeeps
<1>8. CASE BeginTurn BY <1>8, BeginKeeps
<1>9. CASE TrackTurnWrites BY <1>9, TrackKeeps
<1>10. CASE AsksRevert \/ AsksUndo BY <1>10, AsksKeep
<1>11. CASE Refused BY <1>11, RefusedKeeps
<1>12. CASE Look BY <1>12, LookKeeps
<1>13. CASE TakeUndoPoint BY <1>13, TakeUndoPointKeeps
<1>14. CASE RevertToTurn BY <1>14, RevertKeeps
<1>15. CASE UndoRevert BY <1>15, UndoKeeps
<1>16. CASE GivesUp BY <1>16, GivesUpKeeps
<1>17. CASE UNCHANGED snapshotVars
  <2>1. Typed /\ AgentInv
    BY Parts
  <2>2. UNCHANGED <<disk, index, inUse, turns, revert, queue, stage, writer, used, before, touched>>
    BY <1>17 DEF snapshotVars
  <2>3. Typed'
    BY <2>1, <2>2 DEF Typed
  <2>4. AgentInv'
    BY <2>1, <2>2 DEF AgentInv, Newest
  <2> QED BY <2>2, <2>3, <2>4, AloneKeeps
<1> QED BY <1>1, <1>2, <1>3, <1>4, <1>5, <1>6, <1>7, <1>8, <1>9, <1>10, <1>11, <1>12, <1>13, <1>14, <1>15,
           <1>16, <1>17 DEF SnapshotNext

\* The lists, the trees, the disk and the undo point agree in every reachable
\* state (beginTurn, trackTurnWrites, revertToTurn, undoRevert).
THEOREM RewindInvAlways == SnapshotSpec => []RewindInv
<1> QED BY InitIsInv, NextKeeps, PTL DEF SnapshotSpec

\* Every turn, revert, call and file keeps its type; turns keep their numbers,
\* without a gap, and no more of them than the session is allowed (beginTurn).
THEOREM SnapshotsTyped == SnapshotSpec => []SnapshotTypeOK
<1>1. RewindInv => SnapshotTypeOK
  BY DEF RewindInv
<1> QED BY <1>1, RewindInvAlways, PTL

\* A revert gives back what the turn found, and Undo what was there before it
\* (revertToTurn, undoRevert), whatever the order of sends, writes and presses.
THEOREM RewindsAreExact == SnapshotSpec => []RewindIsExact
<1>1. RewindInv => RewindIsExact
  BY DEF RewindInv, RewindIsExact
<1> QED BY <1>1, RewindInvAlways, PTL

-----------------------------------------------------------------------------
(* The parts together *)

\* Whichever part runs, it takes the steps of its own specification, so that all
\* three keep their types: the scans on worker threads (scanRunner.ts), the turns
\* of a chat (runNodeRoutes.ts) and their rewind (snapshot.ts, turnSnapshotGate.ts).
THEOREM AgentPartsTyped == Spec => []TypesOK
<1>1. Init => ScanInit /\ TurnInit /\ SnapshotInit
  BY DEF Init
<1>2. ASSUME [Next]_<<under, scanVars, turnVars, snapshotVars>>
      PROVE  [ScanNext]_scanVars /\ [TurnNext]_turnVars /\ [SnapshotNext]_snapshotVars
  <2>1. CASE UNCHANGED <<under, scanVars, turnVars, snapshotVars>>
    BY <2>1
  <2>2. CASE Next
    BY <2>2 DEF Next
  <2> QED BY <1>2, <2>1, <2>2
<1>3. Spec => ScanSpec /\ TurnSpec /\ SnapshotSpec
  BY <1>1, <1>2, PTL DEF Spec, ScanSpec, TurnSpec, SnapshotSpec
<1>4. ScanTypeOK /\ TurnTypeOK /\ SnapshotTypeOK => TypesOK
  BY DEF TypesOK
<1> QED
  BY <1>3, <1>4, ScansTyped, TurnsTyped, SnapshotsTyped, PTL
=============================================================================
