----------------------------- MODULE Checkpoints -----------------------------
(***************************************************************************)
(* The checkpoints of one chat session (server/checkpointStore.ts): a      *)
(* baseline of every file before the session first writes it, a capped     *)
(* log of snapshots, content-addressed blobs swept when nothing refers to  *)
(* them, and the restore.  A content stands for its bytes and for its      *)
(* hash.  Each operation is one synchronous function of the source.        *)
(***************************************************************************)
EXTENDS Naturals, Sequences

CONSTANTS
  File,            \* the paths of the tree, in the order of their names
  Content, Absent, \* what a path may hold; Absent is no file
  MaxCheckpoints,  \* checkpoints a session keeps
  MaxCaptures      \* bounds the model

ASSUME CheckpointsAssumption ==
  /\ File \subseteq Nat /\ Absent \notin Content
  /\ MaxCheckpoints \in Nat \ {0} /\ MaxCaptures \in Nat

VARIABLES
  tree,      \* what each path holds
  baseline,  \* of each tracked file, what it held before the session wrote it
  points,    \* the log: checkpoints, oldest first
  blobs,     \* contents in the blob store
  pictures,  \* history: the whole tree at each capture, by the seq it was given
  strayed    \* history: files changed without tracking since the first capture

checkpointVars == <<tree, baseline, points, blobs, pictures, strayed>>

State == Content \cup {Absent}
Tracked == DOMAIN baseline
Captures == DOMAIN pictures

CheckpointTypeOK ==
  /\ tree \in [File -> State]
  /\ Tracked \subseteq File /\ baseline \in [Tracked -> State]
  /\ Len(points) <= MaxCheckpoints
  /\ \A i \in DOMAIN points :
       /\ points[i].seq \in 1..MaxCaptures
       /\ DOMAIN points[i].files \subseteq File
       /\ \A f \in DOMAIN points[i].files : points[i].files[f] \in State
  /\ blobs \subseteq Content
  /\ Captures = 1..Len(pictures) /\ \A k \in Captures : pictures[k] \in [File -> State]
  /\ strayed \subseteq File

CheckpointInit ==
  /\ tree \in [File -> State]
  /\ baseline = << >> /\ points = << >> /\ blobs = {}
  /\ pictures = << >> /\ strayed = {}

-----------------------------------------------------------------------------

\* A snapshot of an absent file has no blob.
Blobs(states) == states \ {Absent}

BlobsOf(files) == Blobs({files[f] : f \in DOMAIN files})

\* trackSessionWrite: the first time only, and before the write lands; `stored`
\* are the blobs it finds.
TrackWrite(f, stored) ==
  IF f \in Tracked THEN baseline' = baseline /\ blobs' = stored
  ELSE /\ baseline' = [g \in Tracked \cup {f} |-> IF g = f THEN tree[f] ELSE baseline[g]]
       /\ blobs' = stored \cup Blobs({tree[f]})

\* Broken variant: one too many is kept.
NewestAndOne(all) ==
  IF Len(all) > MaxCheckpoints + 1 THEN SubSeq(all, Len(all) - MaxCheckpoints, Len(all)) ELSE all

\* The newest checkpoints, and the blobs they and the baselines refer to.
Newest(all) ==
  IF Len(all) > MaxCheckpoints THEN SubSeq(all, Len(all) - MaxCheckpoints + 1, Len(all)) ELSE all

\* Broken variant: what only a baseline refers to is swept.
LiveInPoints(kept, base) == UNION {BlobsOf(kept[i].files) : i \in DOMAIN kept}

Live(kept, base) == (UNION {BlobsOf(kept[i].files) : i \in DOMAIN kept}) \cup BlobsOf(base)

NextSeq == IF points = << >> THEN 1 ELSE points[Len(points)].seq + 1

Snapshot == [f \in Tracked |-> tree[f]]

Kept == Newest(Append(points, [seq |-> NextSeq, files |-> Snapshot]))

Swept == (blobs \cup BlobsOf(Snapshot)) \cap Live(Kept, baseline)

\* captureCheckpoint: a snapshot of every tracked file is logged, the log
\* pruned, and the blobs swept.
LogCapture ==
  /\ Len(pictures) < MaxCaptures
  /\ points' = Kept
  /\ pictures' = Append(pictures, tree)
  /\ strayed' = IF pictures = << >> THEN {} ELSE strayed

Capture == LogCapture /\ blobs' = Swept

\* The state a restore gives f: its snapshot, or its baseline if the session
\* first wrote it later.
Target(point) ==
  [f \in Tracked \cup DOMAIN point.files |->
     IF f \in DOMAIN point.files THEN point.files[f] ELSE baseline[f]]

\* planRestore and applyRestore, refused whole if a blob is missing.
Restore(point) ==
  LET target == Target(point)
  IN /\ BlobsOf(target) \subseteq blobs
     /\ tree' = [f \in File |-> IF f \in DOMAIN target THEN target[f] ELSE tree[f]]
     /\ UNCHANGED <<baseline, points, blobs, pictures, strayed>>

-----------------------------------------------------------------------------
(* Correctness *)

\* Nothing a checkpoint or a baseline refers to is ever swept away: no
\* checkpoint on the list is one the server cannot go back to.
BlobsKept ==
  /\ BlobsOf(baseline) \subseteq blobs
  /\ \A i \in DOMAIN points : BlobsOf(points[i].files) \subseteq blobs

\* An id keeps its meaning when older checkpoints age out, and going back to it
\* gives every file of the session what it held when that id was given, but for
\* files that somebody changed without tracking.
RestoreIsExact ==
  \A i \in DOMAIN points :
    LET target == Target(points[i])
    IN /\ points[i].seq \in Captures
       /\ \A f \in DOMAIN target \ strayed : target[f] = pictures[points[i].seq][f]

\* A checkpoint on the list can be restored, and to what it was.
RestoreWorks == BlobsKept /\ RestoreIsExact
=============================================================================
