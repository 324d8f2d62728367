-------------------------- MODULE ServerFilesProofs --------------------------
(***************************************************************************)
(* Proofs about the locked batches with their checkpoints, the daily cap,  *)
(* the backstop and the event log, for any number of files, batches,       *)
(* calls, processes, requests, clients, events and faults; and that every  *)
(* part of MCServerFiles keeps its types.                                  *)
(***************************************************************************)
EXTENDS AsyncWriterProofs, MCServerFiles, FiniteSetTheorems, WellFoundedInduction

-----------------------------------------------------------------------------
(* Numbers *)

\* A set of numbers has a least one.
LEMMA Least ==
  ASSUME NEW S, S \subseteq Nat, S # {}
  PROVE  \E m \in S : \A n \in S : m <= n
<1> DEFINE R == OpToRel(<, Nat)
<1>1. IsWellFoundedOn(R, Nat)
  BY NatLessThanWellFounded
<1>2. \A x, y \in Nat : <<y, x>> \in R <=> y < x
  BY DEF OpToRel
<1> HIDE DEF R
<1>3. PICK x \in S : \A y \in S : ~ (<<y, x>> \in R)
  BY <1>1, WFMin
<1>4. ASSUME NEW y \in S PROVE x <= y
  <2>1. x \in Nat /\ y \in Nat
    OBVIOUS
  <2>2. ~ (y < x)
    BY <1>2, <1>3, <2>1
  <2> QED
    BY <2>1, <2>2
<1> QED
  BY <1>4

-----------------------------------------------------------------------------
(* Checkpoints: the inductive invariant *)

States == UNION {[D -> State] : D \in SUBSET File}
Point == [seq : 1..MaxCaptures, files : States]

\* The invariant of the six variables, as an operator, so that a step that takes
\* a checkpoint and then tracks a file can be followed one half at a time.
LogTyped(tr, base, pts, bl, pics, str) ==
  /\ tr \in [File -> State] /\ base \in States
  /\ pts \in Seq(Point) /\ Len(pts) <= MaxCheckpoints
  /\ bl \subseteq Content
  /\ pics \in Seq([File -> State]) /\ Len(pics) <= MaxCaptures
  /\ str \subseteq File

\* The newest checkpoint is the newest picture, and each one its own.
LogNumbered(pts, pics) ==
  /\ pics # << >> => pts # << >>
  /\ pts # << >> => pts[Len(pts)].seq = Len(pics)
  /\ \A i \in 1..Len(pts) : pts[i].seq <= Len(pics)

\* A snapshot is of its picture; a file tracked later was as in it until then.
PointExact(base, old, pics, str) ==
  /\ DOMAIN old.files \subseteq DOMAIN base
  /\ \A f \in DOMAIN old.files : old.files[f] = pics[old.seq][f]
  /\ \A f \in DOMAIN base \ (DOMAIN old.files \cup str) : base[f] = pics[old.seq][f]

\* A file neither tracked nor changed behind the session's back is as in every picture.
Unmoved(tr, base, pics, str) ==
  \A k \in 1..Len(pics) : \A f \in File \ (DOMAIN base \cup str) : tr[f] = pics[k][f]

AllKept(base, pts, bl) ==
  /\ BlobsOf(base) \subseteq bl
  /\ \A i \in 1..Len(pts) : BlobsOf(pts[i].files) \subseteq bl

PointsInv(tr, base, pts, bl, pics, str) ==
  /\ LogTyped(tr, base, pts, bl, pics, str)
  /\ LogNumbered(pts, pics)
  /\ \A i \in 1..Len(pts) : PointExact(base, pts[i], pics, str)
  /\ Unmoved(tr, base, pics, str)
  /\ AllKept(base, pts, bl)

CheckpointInv == PointsInv(tree, baseline, points, blobs, pictures, strayed)

\* What it says of the checkpoints.
LEMMA CheckpointFacts ==
  ASSUME CheckpointInv
  PROVE  CheckpointTypeOK /\ RestoreWorks
<1> USE DEF CheckpointInv, PointsInv, LogTyped
<1>1. DOMAIN points = 1..Len(points) /\ DOMAIN pictures = 1..Len(pictures) /\ Len(points) \in Nat /\ Len(pictures) \in Nat
  BY LenProperties
<1>2. \A i \in 1..Len(points) : points[i] \in Point
  BY ElementOfSeq
<1>3. \A k \in 1..Len(pictures) : pictures[k] \in [File -> State]
  BY ElementOfSeq
<1>4. CheckpointTypeOK
  <2>1. Tracked \subseteq File /\ baseline \in [Tracked -> State]
    BY DEF States, Tracked
  <2>2. ASSUME NEW i \in DOMAIN points
        PROVE  /\ points[i].seq \in 1..MaxCaptures /\ DOMAIN points[i].files \subseteq File
               /\ \A f \in DOMAIN points[i].files : points[i].files[f] \in State
    BY <1>1, <1>2 DEF Point, States
  <2> QED
    BY <1>1, <1>3, <2>1, <2>2 DEF CheckpointTypeOK, Captures
<1>5. BlobsKept
  BY <1>1 DEF AllKept, BlobsKept
<1>6. RestoreIsExact
  <2> SUFFICES ASSUME NEW i \in 1..Len(points)
               PROVE  /\ points[i].seq \in 1..Len(pictures)
                      /\ \A f \in DOMAIN Target(points[i]) \ strayed :
                           Target(points[i])[f] = pictures[points[i].seq][f]
    BY <1>1 DEF RestoreIsExact, Captures
  <2>1. points[i].seq \in 1..Len(pictures)
    BY <1>1, <1>2, CheckpointsAssumption DEF LogNumbered, Point
  <2>2. PointExact(baseline, points[i], pictures, strayed)
    OBVIOUS
  <2> QED
    BY <2>1, <2>2 DEF Target, PointExact, Tracked
<1> QED
  BY <1>4, <1>5, <1>6 DEF RestoreWorks

-----------------------------------------------------------------------------
(* Checkpoints: the steps *)

\* What the log keeps of a capture.
LEMMA KeptIs ==
  ASSUME CheckpointInv, Len(pictures) < MaxCaptures
  PROVE  /\ Kept \in Seq(Point) /\ Len(Kept) \in 1..MaxCheckpoints
         /\ Kept[Len(Kept)] = [seq |-> Len(pictures) + 1, files |-> Snapshot]
         /\ Snapshot \in States /\ DOMAIN Snapshot = Tracked
         /\ \A i \in 1..Len(Kept) - 1 : \E j \in 1..Len(points) : Kept[i] = points[j]
<1> DEFINE new == [seq |-> NextSeq, files |-> Snapshot]
           all == Append(points, new)
           from == Len(all) - MaxCheckpoints + 1
<1> USE CheckpointsAssumption DEF CheckpointInv, PointsInv, LogTyped
<1>1. Tracked \subseteq File /\ baseline \in [Tracked -> State]
  BY DEF States, Tracked
<1>2. Snapshot \in [Tracked -> State]
  BY <1>1 DEF Snapshot
<1>3. Snapshot \in States /\ DOMAIN Snapshot = Tracked
  BY <1>1, <1>2 DEF States
<1>4. Len(points) \in Nat /\ Len(pictures) \in Nat
  BY LenProperties
<1>5. NextSeq = Len(pictures) + 1
  <2>1. CASE points = << >>
    BY <2>1 DEF NextSeq, LogNumbered
  <2>2. CASE points # << >>
    BY <2>2 DEF NextSeq, LogNumbered
  <2> QED
    BY <2>1, <2>2
<1>6. new \in Point
  BY <1>3, <1>4, <1>5 DEF Point
<1> HIDE DEF new
<1>7. /\ all \in Seq(Point) /\ Len(all) = Len(points) + 1 /\ all[Len(all)] = new
      /\ \A i \in 1..Len(points) : all[i] = points[i]
  BY <1>6, AppendProperties
<1> HIDE DEF all
<1>8. CASE Len(all) <= MaxCheckpoints
  <2>1. Kept = all
    BY <1>4, <1>7, <1>8 DEF Kept, Newest, all, new
  <2>2. \A i \in 1..Len(Kept) - 1 : i \in 1..Len(points) /\ Kept[i] = points[i]
    BY <1>4, <1>7, <2>1
  <2>3. Kept \in Seq(Point) /\ Len(Kept) \in 1..MaxCheckpoints /\ Kept[Len(Kept)] = new
    BY <1>4, <1>7, <1>8, <2>1
  <2> QED
    BY <1>3, <1>5, <2>2, <2>3 DEF new
<1>9. CASE Len(all) > MaxCheckpoints
  <2>1. Kept = SubSeq(all, from, Len(all))
    BY <1>4, <1>7, <1>9 DEF Kept, Newest, all, new
  <2>2. from \in 1..Len(all) /\ Len(all) - from + 1 = MaxCheckpoints
    BY <1>4, <1>7, <1>9
  <2> HIDE DEF from
  <2>3. \A i \in from..Len(all) : all[i] \in Point
    BY <1>7, <2>2, ElementOfSeq
  <2>4. /\ Kept \in Seq(Point) /\ Len(Kept) = MaxCheckpoints
        /\ \A i \in 1..MaxCheckpoints : Kept[i] = all[from + i - 1]
    BY <1>4, <1>7, <2>1, <2>2, <2>3, SubSeqProperties
  <2>5. Kept[Len(Kept)] = new
    BY <1>7, <2>2, <2>4
  <2>6. ASSUME NEW i \in 1..Len(Kept) - 1 PROVE \E j \in 1..Len(points) : Kept[i] = points[j]
    <3>1. from + i - 1 \in 1..Len(points) /\ Kept[i] = all[from + i - 1]
      BY <1>4, <1>7, <2>2, <2>4
    <3> QED
      BY <1>7, <3>1
  <2> QED
    BY <1>3, <1>5, <2>4, <2>5, <2>6 DEF new
<1> QED
  BY <1>4, <1>7, <1>8, <1>9

\* captureCheckpoint keeps the invariant.
LEMMA CaptureKeeps ==
  ASSUME CheckpointInv, Len(pictures) < MaxCaptures
  PROVE  PointsInv(tree, baseline, Kept, Swept, Append(pictures, tree),
                IF pictures = << >> THEN {} ELSE strayed)
<1> DEFINE pics == Append(pictures, tree)
           str == IF pictures = << >> THEN {} ELSE strayed
           new == [seq |-> Len(pictures) + 1, files |-> Snapshot]
<1>1. LogTyped(tree, baseline, points, blobs, pictures, strayed)
  BY DEF CheckpointInv, PointsInv
<1>2. /\ Kept \in Seq(Point) /\ Len(Kept) \in 1..MaxCheckpoints /\ Kept[Len(Kept)] = new
      /\ Snapshot \in States /\ DOMAIN Snapshot = Tracked
      /\ \A i \in 1..Len(Kept) - 1 : \E j \in 1..Len(points) : Kept[i] = points[j]
  BY KeptIs
<1>3. /\ Len(points) \in Nat /\ Len(pictures) \in Nat /\ MaxCheckpoints \in Nat
      /\ Tracked \subseteq File /\ baseline \in [Tracked -> State]
  BY <1>1, CheckpointsAssumption, LenProperties DEF LogTyped, States, Tracked
<1>4. /\ pics \in Seq([File -> State]) /\ Len(pics) = Len(pictures) + 1 /\ pics[Len(pics)] = tree
      /\ \A k \in 1..Len(pictures) : pics[k] = pictures[k]
  BY <1>1, AppendProperties DEF LogTyped
<1> HIDE DEF pics
<1>5. \A i \in 1..Len(Kept) : Kept[i] = new \/ \E j \in 1..Len(points) : Kept[i] = points[j]
  BY <1>2
<1>6. str \subseteq strayed
  OBVIOUS
<1>7. Swept \subseteq Content /\ AllKept(baseline, Kept, Swept)
  <2>1. BlobsOf(Snapshot) \subseteq Content
    BY <1>2 DEF BlobsOf, Blobs, States, State
  <2>2. Swept \subseteq Content
    BY <1>1, <2>1 DEF Swept, LogTyped
  <2>3. AllKept(baseline, points, blobs)
    BY DEF CheckpointInv, PointsInv
  <2>4. DOMAIN Kept = 1..Len(Kept)
    BY <1>2, LenProperties
  <2>5. ASSUME NEW i \in 1..Len(Kept) PROVE BlobsOf(Kept[i].files) \subseteq Swept
    <3>1. BlobsOf(Kept[i].files) \subseteq blobs \cup BlobsOf(Snapshot)
      BY <1>5, <2>3 DEF AllKept
    <3> QED
      BY <2>4, <3>1 DEF Swept, Live
  <2>6. BlobsOf(baseline) \subseteq Swept
    <3>1. BlobsOf(baseline) \subseteq Live(Kept, baseline)
      BY DEF Live
    <3>2. BlobsOf(baseline) \subseteq blobs
      BY <2>3 DEF AllKept
    <3> QED
      BY <3>1, <3>2 DEF Swept
  <2> QED
    BY <2>2, <2>5, <2>6 DEF AllKept
<1>8. LogTyped(tree, baseline, Kept, Swept, pics, str)
  <2>1. Len(Kept) <= MaxCheckpoints /\ Len(pics) <= MaxCaptures
    BY <1>2, <1>3, <1>4, CheckpointsAssumption
  <2>2. str \subseteq File
    BY <1>1, <1>6 DEF LogTyped
  <2> HIDE DEF str
  <2> QED
    BY <1>1, <1>2, <1>4, <1>7, <2>1, <2>2 DEF LogTyped
<1>9. LogNumbered(Kept, pics)
  <2>1. \A j \in 1..Len(points) : points[j].seq <= Len(pictures) /\ points[j].seq \in Nat
    <3>1. \A j \in 1..Len(points) : points[j] \in Point
      BY <1>1, ElementOfSeq DEF LogTyped
    <3> QED
      BY <3>1, CheckpointsAssumption DEF CheckpointInv, PointsInv, LogNumbered, Point
  <2>2. ASSUME NEW i \in 1..Len(Kept) PROVE Kept[i].seq <= Len(pics)
    <3>1. CASE Kept[i] = new
      <4>1. Kept[i].seq = Len(pictures) + 1
        BY <3>1
      <4> QED BY <1>3, <1>4, <4>1
    <3>2. ASSUME NEW j \in 1..Len(points), Kept[i] = points[j] PROVE Kept[i].seq <= Len(pics)
      <4>1. Kept[i].seq <= Len(pictures) /\ Kept[i].seq \in Nat
        BY <2>1, <3>2
      <4> QED BY <1>3, <1>4, <4>1
    <3> QED BY <1>5, <3>1, <3>2
  <2>3. Kept # << >> /\ Kept[Len(Kept)].seq = Len(pics)
    BY <1>2, <1>4
  <2> QED
    BY <2>2, <2>3 DEF LogNumbered
<1>10. ASSUME NEW i \in 1..Len(Kept) PROVE PointExact(baseline, Kept[i], pics, str)
  <2>1. CASE Kept[i] = new
    BY <1>2, <1>3, <1>4, <2>1 DEF PointExact, Snapshot, Tracked
  <2>2. ASSUME NEW j \in 1..Len(points), Kept[i] = points[j]
        PROVE  PointExact(baseline, Kept[i], pics, str)
    <3>1. points[j] \in Point /\ points[j].seq <= Len(pictures) /\ PointExact(baseline, points[j], pictures, strayed)
      BY <1>1, ElementOfSeq DEF CheckpointInv, PointsInv, LogTyped, LogNumbered
    <3>2. pics[points[j].seq] = pictures[points[j].seq]
      BY <1>3, <1>4, <3>1, CheckpointsAssumption DEF Point
    <3>3. pictures # << >>
      BY <1>3, <3>1, CheckpointsAssumption DEF Point
    <3> QED
      BY <2>2, <3>1, <3>2, <3>3 DEF PointExact
  <2> QED
    BY <1>5, <2>1, <2>2
<1>11. Unmoved(tree, baseline, pics, str)
  <2> SUFFICES ASSUME NEW k \in 1..Len(pics), NEW f \in File \ (DOMAIN baseline \cup str)
               PROVE  tree[f] = pics[k][f]
    BY DEF Unmoved
  <2>1. CASE k = Len(pics)
    BY <1>4, <2>1
  <2>2. CASE k # Len(pics)
    <3>1. k \in 1..Len(pictures) /\ str = strayed
      BY <1>3, <1>4, <2>2
    <3> QED
      BY <1>4, <3>1 DEF CheckpointInv, PointsInv, Unmoved
  <2> QED
    BY <2>1, <2>2
<1> QED
  BY <1>7, <1>8, <1>9, <1>10, <1>11 DEF PointsInv, pics

\* So does tracking a file, after a capture or without one.
LEMMA TrackKeeps ==
  ASSUME NEW tr, NEW base, NEW pts, NEW bl, NEW pics, NEW str,
         PointsInv(tr, base, pts, bl, pics, str), NEW f \in File, f \notin DOMAIN base
  PROVE  PointsInv(tr, [g \in DOMAIN base \cup {f} |-> IF g = f THEN tr[f] ELSE base[g]], pts,
                bl \cup Blobs({tr[f]}), pics, str)
<1> DEFINE now == [g \in DOMAIN base \cup {f} |-> IF g = f THEN tr[f] ELSE base[g]]
           stored == bl \cup Blobs({tr[f]})
<1>1. LogTyped(tr, base, pts, bl, pics, str) /\ LogNumbered(pts, pics) /\ Unmoved(tr, base, pics, str)
      /\ AllKept(base, pts, bl)
  BY DEF PointsInv
<1>2. /\ DOMAIN base \subseteq File /\ base \in [DOMAIN base -> State] /\ tr[f] \in State
  BY <1>1 DEF LogTyped, States
<1>3. now \in [DOMAIN base \cup {f} -> State]
  BY <1>2
<1>4. now \in States /\ stored \subseteq Content
  BY <1>1, <1>2, <1>3 DEF States, State, LogTyped, Blobs
<1>5. /\ DOMAIN now = DOMAIN base \cup {f} /\ now[f] = tr[f]
      /\ \A g \in DOMAIN base : now[g] = base[g]
  OBVIOUS
<1> HIDE DEF now
<1>6. LogTyped(tr, now, pts, stored, pics, str)
  BY <1>1, <1>4 DEF LogTyped
<1>7. ASSUME NEW i \in 1..Len(pts) PROVE PointExact(now, pts[i], pics, str)
  <2>1. PointExact(base, pts[i], pics, str)
    BY DEF PointsInv
  <2>2. pts[i].seq \in 1..Len(pics)
    <3>1. pts[i] \in Point /\ Len(pics) \in Nat
      BY <1>1, ElementOfSeq, LenProperties DEF LogTyped
    <3> QED
      BY <1>1, <3>1, CheckpointsAssumption DEF LogNumbered, Point
  <2>3. f \notin str => now[f] = pics[pts[i].seq][f]
    BY <1>1, <1>5, <2>2 DEF Unmoved
  <2> QED
    BY <1>5, <2>1, <2>3 DEF PointExact
<1>8. Unmoved(tr, now, pics, str)
  BY <1>1, <1>5 DEF Unmoved
<1>9. AllKept(now, pts, stored)
  <2>1. BlobsOf(now) \subseteq stored
    BY <1>1, <1>5 DEF BlobsOf, Blobs, AllKept
  <2> QED
    BY <1>1, <2>1 DEF AllKept
<1> QED
  BY <1>1, <1>6, <1>7, <1>8, <1>9 DEF PointsInv, now

\* And so does writing a file that is tracked, or counted as strayed.
LEMMA WriteKeeps ==
  ASSUME CheckpointInv, UNCHANGED <<points, pictures>>, NEW f \in File,
         NEW now \in Content, tree' = [tree EXCEPT ![f] = now],
         PointsInv(tree, baseline', points, blobs', pictures, strayed),
         strayed' = IF f \in DOMAIN baseline' THEN strayed ELSE strayed \cup {f}
  PROVE  CheckpointInv'
<1>1. LogTyped(tree, baseline', points, blobs', pictures, strayed)
  BY DEF PointsInv
<1>2. tree' \in [File -> State] /\ strayed' \subseteq File /\ strayed \subseteq strayed'
      /\ \A g \in File \ {f} : tree'[g] = tree[g]
  BY <1>1 DEF LogTyped, State
<1>3. LogTyped(tree', baseline', points, blobs', pictures, strayed')
  BY <1>1, <1>2 DEF LogTyped
<1>4. ASSUME NEW i \in 1..Len(points) PROVE PointExact(baseline', points[i], pictures, strayed')
  <2>1. PointExact(baseline', points[i], pictures, strayed)
    BY DEF PointsInv
  <2> QED
    BY <1>2, <2>1 DEF PointExact
<1>5. Unmoved(tree', baseline', pictures, strayed')
  <2>1. Unmoved(tree, baseline', pictures, strayed)
    BY DEF PointsInv
  <2> QED
    BY <1>2, <2>1 DEF Unmoved
<1> QED
  BY <1>3, <1>4, <1>5 DEF PointsInv, CheckpointInv

\* A restore changes tracked files only.
LEMMA RestoreKeeps ==
  ASSUME CheckpointInv, NEW i \in DOMAIN points, Restore(points[i])
  PROVE  CheckpointInv'
<1>1. LogTyped(tree, baseline, points, blobs, pictures, strayed) /\ Unmoved(tree, baseline, pictures, strayed)
  BY DEF CheckpointInv, PointsInv
<1>2. i \in 1..Len(points) /\ points[i] \in Point
  BY <1>1, LenProperties, ElementOfSeq DEF LogTyped
<1>3. /\ UNCHANGED <<baseline, points, blobs, pictures, strayed>>
      /\ tree' = [f \in File |-> IF f \in DOMAIN Target(points[i]) THEN Target(points[i])[f] ELSE tree[f]]
  BY DEF Restore
<1>4. \A f \in DOMAIN Target(points[i]) : f \in DOMAIN baseline /\ Target(points[i])[f] \in State
  <2>1. DOMAIN points[i].files \subseteq DOMAIN baseline
    BY <1>2 DEF CheckpointInv, PointsInv, PointExact
  <2> QED
    BY <1>1, <1>2, <2>1 DEF Target, Tracked, LogTyped, Point, States
<1>5. tree' \in [File -> State] /\ \A f \in File \ DOMAIN baseline : tree'[f] = tree[f]
  BY <1>1, <1>3, <1>4 DEF LogTyped
<1>6. LogTyped(tree', baseline, points, blobs, pictures, strayed)
  BY <1>1, <1>5 DEF LogTyped
<1>7. Unmoved(tree', baseline, pictures, strayed)
  BY <1>1, <1>5 DEF Unmoved
<1> QED
  BY <1>3, <1>6, <1>7 DEF CheckpointInv, PointsInv

-----------------------------------------------------------------------------
(* The lock: the inductive invariant *)

BatchTyped ==
  /\ phase \in [Batch -> {"new", "lock", "wait", "write"} \cup Over]
  /\ files \in [Batch -> SUBSET File] /\ mine \in [Batch -> SUBSET File] /\ left \in [Batch -> SUBSET File]
  /\ held \in [File -> Batch \cup {Nobody}]
  /\ ready \in [Batch -> SUBSET File] /\ point \subseteq Batch
  /\ edits \in 0..MaxEdits

OrderTyped == order \in [File -> Seq(Batch)]

\* What a batch has at each point of its life.
Sound(b) ==
  /\ phase[b] \in {"lock", "wait"} =>
       /\ mine[b] \subseteq files[b] /\ mine[b] # files[b]
       /\ left[b] = files[b] /\ ready[b] = {}
  /\ phase[b] = "write" =>
       mine[b] = files[b] /\ left[b] \subseteq files[b] /\ ready[b] \subseteq left[b]
  /\ phase[b] \in Over \cup {"new"} =>
       files[b] = {} /\ mine[b] = {} /\ left[b] = {} /\ ready[b] = {}

\* The table of the lock and the batches' own lists agree.
HeldByOwner == \A f \in File, b \in Batch : held[f] = b <=> f \in mine[b]

\* Every batch has its paths in the one order of their names.
InOrder == \A b \in Batch : \A f \in mine[b], g \in files[b] \ mine[b] : f < g

\* A batch waits for another one, and for a path that one holds.
WaitsForAnother == \A b \in Batch : phase[b] = "wait" => held[NextKey(b)] \notin {b, Nobody}

LockInv ==
  /\ BatchTyped
  /\ \A b \in Batch : Sound(b)
  /\ HeldByOwner /\ InOrder /\ WaitsForAnother

Wrote(b, f) == \E i \in 1..Len(order[f]) : order[f][i] = b

Earlier(b, c, f) == \E i, j \in 1..Len(order[f]) : i < j /\ order[f][i] = b /\ order[f][j] = c

\* A batch writes a file once and under its lock; it is over before another
\* batch writes a file it wrote; and no two wrote two files in opposite orders.
OrderInv ==
  /\ OrderTyped
  /\ \A b \in Batch, f \in File :
       Wrote(b, f) => phase[b] \in Over \/ (phase[b] = "write" /\ f \in files[b] \ left[b])
  /\ \A b \in Batch, f \in File : ~ Earlier(b, b, f)
  /\ \A b, c \in Batch, f \in File : Earlier(b, c, f) => phase[b] \in Over
  /\ \A b, c \in Batch, f, g \in File : Earlier(b, c, f) => ~ Earlier(c, b, g)

EditInv == CheckpointInv /\ LockInv /\ OrderInv

\* The path a batch asks for next is one of its own, and the first of them.
LEMMA NextKeyIs ==
  ASSUME BatchTyped, NEW b \in Batch, files[b] \ mine[b] # {}
  PROVE  /\ NextKey(b) \in files[b] \ mine[b] /\ NextKey(b) \in File /\ NextKey(b) \in Nat
         /\ \A g \in files[b] \ mine[b] : NextKey(b) <= g
<1> DEFINE rest == files[b] \ mine[b]
<1>1. rest \subseteq File /\ File \subseteq Nat /\ rest # {}
  BY CheckpointsAssumption DEF BatchTyped
<1>2. \E m \in rest : \A n \in rest : m <= n
  BY <1>1, Least
<1>3. NextKey(b) = CHOOSE m \in rest : \A n \in rest : m <= n
  BY DEF NextKey, Min
<1>4. NextKey(b) \in rest /\ \A g \in rest : NextKey(b) <= g
  BY <1>2, <1>3
<1> QED
  BY <1>1, <1>4

\* What the invariant says of the lock and of the files.
LEMMA EditFacts ==
  ASSUME EditInv
  PROVE  EditTypeOK /\ LocksMoveOn /\ BatchesSerial /\ RestoreWorks
<1>1. CheckpointTypeOK /\ RestoreWorks
  BY CheckpointFacts DEF EditInv
<1>2. EditTypeOK
  BY <1>1 DEF EditTypeOK, EditInv, LockInv, OrderInv, BatchTyped, OrderTyped
<1>3. BatchesSerial
  <2>1. \A f \in File : DOMAIN order[f] = 1..Len(order[f])
    BY LenProperties DEF EditInv, OrderInv, OrderTyped
  <2> QED
    BY <2>1 DEF BatchesSerial, EditInv, OrderInv, Earlier
<1>4. LocksMoveOn
  <2> USE DEF EditInv, LockInv
  <2>1. ASSUME NEW f \in File, held[f] # Nobody PROVE phase[held[f]] \notin Over
    <3>1. held[f] \in Batch /\ f \in mine[held[f]]
      BY <2>1 DEF BatchTyped, HeldByOwner
    <3> QED
      BY <3>1 DEF Sound
  <2>2. ASSUME NEW b \in Batch, phase[b] = "wait"
        PROVE  /\ held[NextKey(b)] \notin {b, Nobody}
               /\ phase[held[NextKey(b)]] = "wait" => NextKey(held[NextKey(b)]) > NextKey(b)
    <3>1. files[b] \ mine[b] # {}
      BY <2>2 DEF Sound
    <3>2. NextKey(b) \in File /\ NextKey(b) \in Nat
      BY <3>1, NextKeyIs
    <3>3. held[NextKey(b)] \notin {b, Nobody}
      BY <2>2 DEF WaitsForAnother
    <3> DEFINE h == held[NextKey(b)]
    <3>4. h \in Batch /\ NextKey(b) \in mine[h]
      BY <3>2, <3>3 DEF BatchTyped, HeldByOwner
    <3>5. ASSUME phase[h] = "wait" PROVE NextKey(h) > NextKey(b)
      <4>1. files[h] \ mine[h] # {}
        BY <3>4, <3>5 DEF Sound
      <4>2. NextKey(h) \in files[h] \ mine[h] /\ NextKey(h) \in Nat
        BY <3>4, <4>1, NextKeyIs
      <4> QED
        BY <3>2, <3>4, <4>2 DEF InOrder
    <3> QED
      BY <3>3, <3>5
  <2> QED
    BY <2>1, <2>2 DEF LocksMoveOn
<1> QED
  BY <1>1, <1>2, <1>3, <1>4

-----------------------------------------------------------------------------
(* The lock: the steps *)

\* The history stays in order through a step that writes nothing.
LEMMA OrderStays ==
  ASSUME OrderInv, UNCHANGED order,
         \A b \in Batch : phase[b] \in Over => phase'[b] \in Over,
         \A b \in Batch : phase[b] = "write" =>
           \/ phase'[b] \in Over
           \/ phase'[b] = "write" /\ files'[b] = files[b] /\ left'[b] = left[b]
  PROVE  OrderInv'
<1>1. OrderTyped' /\ \A b \in Batch, f \in File : Wrote(b, f)' <=> Wrote(b, f)
  BY DEF OrderInv, OrderTyped, Wrote
<1>2. \A b, c \in Batch, f \in File : Earlier(b, c, f)' <=> Earlier(b, c, f)
  BY DEF Earlier
<1> QED
  BY <1>1, <1>2 DEF OrderInv

\* The lock after a batch lets go of all it has, if its waiters are woken.
LEMMA ReleaseKeeps ==
  ASSUME LockInv, NEW b \in Batch, NEW p \in Over, Release(b, p), UNCHANGED edits
  PROVE  LockInv' /\ phase'[b] = p
         /\ \A c \in Batch \ {b} : /\ files'[c] = files[c] /\ left'[c] = left[c]
                                   /\ phase[c] # "wait" => phase'[c] = phase[c]
<1> USE DEF LockInv
<1>1. /\ BatchTyped /\ HeldByOwner /\ InOrder /\ WaitsForAnother /\ \A c \in Batch : Sound(c)
      /\ p \notin {"new", "lock", "wait", "write"} /\ Nobody \notin Batch
  BY FileEditsAssumption DEF Over
<1>2. /\ files' = [files EXCEPT ![b] = {}] /\ mine' = [mine EXCEPT ![b] = {}]
      /\ left' = [left EXCEPT ![b] = {}] /\ ready' = [ready EXCEPT ![b] = {}]
      /\ held' = [f \in File |-> IF held[f] = b THEN Nobody ELSE held[f]]
      /\ point' = point \ {b}
  BY DEF Release, Leave
<1>3. phase' = [c \in Batch |->
         IF c = b THEN p
         ELSE IF phase[c] = "wait" /\ held[NextKey(c)] = b THEN "lock" ELSE phase[c]]
  BY DEF Release
<1>4. BatchTyped'
  BY <1>1, <1>2, <1>3 DEF BatchTyped
<1>5. /\ files'[b] = {} /\ mine'[b] = {} /\ left'[b] = {} /\ ready'[b] = {} /\ phase'[b] = p
      /\ \A c \in Batch \ {b} : /\ files'[c] = files[c] /\ mine'[c] = mine[c]
                                /\ left'[c] = left[c] /\ ready'[c] = ready[c]
                                /\ phase'[c] = IF phase[c] = "wait" /\ held[NextKey(c)] = b
                                               THEN "lock" ELSE phase[c]
  BY <1>1, <1>2, <1>3 DEF BatchTyped
<1>6. \A c \in Batch \ {b} : NextKey(c)' = NextKey(c)
  BY <1>5 DEF NextKey
<1>7. ASSUME NEW c \in Batch PROVE Sound(c)'
  <2>1. CASE c = b
    BY <1>1, <1>5, <2>1 DEF Sound
  <2>2. CASE c # b
    BY <1>1, <1>5, <2>2 DEF Sound, Over
  <2> QED
    BY <2>1, <2>2
<1>8. HeldByOwner'
  BY <1>1, <1>2, <1>5 DEF HeldByOwner, BatchTyped
<1>9. InOrder'
  BY <1>1, <1>5 DEF InOrder
<1>10. WaitsForAnother'
  <2> SUFFICES ASSUME NEW c \in Batch, phase'[c] = "wait"
               PROVE  held'[NextKey(c)'] \notin {c, Nobody}
    BY DEF WaitsForAnother
  <2>1. c # b /\ phase[c] = "wait" /\ held[NextKey(c)] # b
    BY <1>1, <1>5
  <2>2. NextKey(c) \in File /\ held[NextKey(c)] \notin {c, Nobody} /\ NextKey(c)' = NextKey(c)
    BY <1>1, <1>6, <2>1, NextKeyIs DEF WaitsForAnother, Sound
  <2> QED
    BY <1>2, <2>1, <2>2
<1> QED
  BY <1>4, <1>5, <1>7, <1>8, <1>9, <1>10

LEMMA BeginKeeps ==
  ASSUME EditInv, NEW b \in Batch, NEW fs \in SUBSET File, Begin(b, fs)
  PROVE  EditInv'
<1> USE DEF EditInv
<1>1. /\ BatchTyped /\ HeldByOwner /\ InOrder /\ WaitsForAnother /\ \A c \in Batch : Sound(c)
      /\ phase[b] = "new" /\ fs # {}
      /\ files' = [files EXCEPT ![b] = fs] /\ left' = [left EXCEPT ![b] = fs]
      /\ phase' = [phase EXCEPT ![b] = "lock"]
      /\ UNCHANGED <<checkpointVars, held, mine, ready, point, order, edits>>
  BY DEF LockInv, Begin, Goto
<1>2. CheckpointInv'
  BY <1>1 DEF CheckpointInv, checkpointVars
<1>3. BatchTyped'
  BY <1>1 DEF BatchTyped
<1>4. /\ files'[b] = fs /\ left'[b] = fs /\ phase'[b] = "lock" /\ mine[b] = {} /\ ready[b] = {}
      /\ \A c \in Batch \ {b} : files'[c] = files[c] /\ left'[c] = left[c] /\ phase'[c] = phase[c]
  BY <1>1 DEF BatchTyped, Sound
<1>5. ASSUME NEW c \in Batch PROVE Sound(c)'
  <2>1. CASE c = b
    BY <1>1, <1>4, <2>1 DEF Sound, Over
  <2>2. CASE c # b
    BY <1>1, <1>4, <2>2 DEF Sound
  <2> QED
    BY <2>1, <2>2
<1>6. HeldByOwner' /\ InOrder'
  BY <1>1, <1>4 DEF HeldByOwner, InOrder
<1>7. WaitsForAnother'
  <2> SUFFICES ASSUME NEW c \in Batch, phase'[c] = "wait"
               PROVE  held'[NextKey(c)'] \notin {c, Nobody}
    BY DEF WaitsForAnother
  <2>1. c # b /\ phase[c] = "wait"
    BY <1>4
  <2>2. NextKey(c)' = NextKey(c)
    BY <1>1, <1>4, <2>1 DEF NextKey
  <2> QED
    BY <1>1, <2>1, <2>2 DEF WaitsForAnother
<1>8. OrderInv'
  <2>1. \A c \in Batch : phase[c] \in Over \cup {"write"} =>
          phase'[c] = phase[c] /\ files'[c] = files[c] /\ left'[c] = left[c]
    BY <1>1, <1>4 DEF Over
  <2> QED
    BY <1>1, <2>1, OrderStays
<1> QED
  BY <1>2, <1>3, <1>5, <1>6, <1>7, <1>8 DEF LockInv

LEMMA AcquireKeeps ==
  ASSUME EditInv, NEW b \in Batch, Acquire(b)
  PROVE  EditInv'
<1> DEFINE k == NextKey(b)
<1> USE DEF EditInv
<1>1. /\ BatchTyped /\ HeldByOwner /\ InOrder /\ WaitsForAnother /\ \A c \in Batch : Sound(c)
      /\ phase[b] = "lock" /\ held[k] = Nobody /\ Nobody \notin Batch
      /\ held' = [held EXCEPT ![k] = b]
      /\ mine' = [mine EXCEPT ![b] = @ \cup {k}]
      /\ phase' = [phase EXCEPT ![b] = IF mine'[b] = files[b] THEN "write" ELSE "lock"]
      /\ UNCHANGED <<checkpointVars, files, left, ready, point, order, edits>>
  BY FileEditsAssumption DEF LockInv, Acquire, Goto
<1>2. CheckpointInv'
  BY <1>1 DEF CheckpointInv, checkpointVars
<1>3. mine[b] \subseteq files[b] /\ mine[b] # files[b] /\ left[b] = files[b] /\ ready[b] = {}
  BY <1>1 DEF Sound
<1>4. k \in files[b] \ mine[b] /\ k \in File /\ k \in Nat /\ \A g \in files[b] \ mine[b] : k <= g
  BY <1>1, <1>3, NextKeyIs
<1> HIDE DEF k
<1>5. BatchTyped'
  BY <1>1, <1>4 DEF BatchTyped
<1>6. /\ mine'[b] = mine[b] \cup {k} /\ held'[k] = b
      /\ \A c \in Batch \ {b} : mine'[c] = mine[c] /\ phase'[c] = phase[c]
      /\ \A f \in File \ {k} : held'[f] = held[f]
      /\ phase'[b] = IF mine'[b] = files[b] THEN "write" ELSE "lock"
  BY <1>1, <1>4 DEF BatchTyped
<1>7. ASSUME NEW c \in Batch PROVE Sound(c)'
  <2>1. CASE c = b
    <3>1. /\ files'[b] = files[b] /\ left'[b] = files'[b] /\ ready'[b] = {}
          /\ mine'[b] \subseteq files'[b]
          /\ phase'[b] = IF mine'[b] = files'[b] THEN "write" ELSE "lock"
      BY <1>1, <1>3, <1>4, <1>6
    <3>2. phase'[b] \notin Over \cup {"new"}
      BY <3>1 DEF Over
    <3> QED
      BY <2>1, <3>1, <3>2 DEF Sound
  <2>2. CASE c # b
    BY <1>1, <1>6, <2>2 DEF Sound
  <2> QED
    BY <2>1, <2>2
<1>8. HeldByOwner'
  BY <1>1, <1>4, <1>6 DEF HeldByOwner
<1>9. InOrder'
  <2> SUFFICES ASSUME NEW c \in Batch, NEW f \in mine'[c], NEW g \in files[c] \ mine'[c] PROVE f < g
    BY <1>1 DEF InOrder
  <2>1. CASE c # b
    BY <1>1, <1>6, <2>1 DEF InOrder
  <2>2. CASE c = b
    <3>1. g \in files[b] \ mine[b] /\ g # k /\ g \in Nat
      BY <1>1, <1>6, <2>2, CheckpointsAssumption DEF BatchTyped
    <3>2. CASE f = k
      BY <1>4, <3>1, <3>2
    <3>3. CASE f \in mine[b]
      BY <1>1, <3>1, <3>3 DEF InOrder
    <3> QED
      BY <1>6, <2>2, <3>2, <3>3
  <2> QED
    BY <2>1, <2>2
<1>10. WaitsForAnother'
  <2> SUFFICES ASSUME NEW c \in Batch, phase'[c] = "wait"
               PROVE  held'[NextKey(c)'] \notin {c, Nobody}
    BY DEF WaitsForAnother
  <2>1. c # b /\ phase[c] = "wait"
    BY <1>6
  <2>2. NextKey(c)' = NextKey(c)
    BY <1>1, <1>6, <2>1 DEF NextKey
  <2>3. held[NextKey(c)] \notin {c, Nobody} /\ NextKey(c) \in File
    BY <1>1, <2>1, NextKeyIs DEF WaitsForAnother, Sound
  <2> QED
    BY <1>1, <1>6, <2>2, <2>3
<1>11. OrderInv'
  <2>1. \A c \in Batch : phase[c] \in Over \cup {"write"} => phase'[c] = phase[c]
    BY <1>1, <1>6 DEF Over
  <2> QED
    BY <1>1, <2>1, OrderStays
<1> QED
  BY <1>2, <1>5, <1>7, <1>8, <1>9, <1>10, <1>11 DEF LockInv

LEMMA WaitKeeps ==
  ASSUME EditInv, NEW b \in Batch, Wait(b)
  PROVE  EditInv'
<1> USE DEF EditInv
<1>1. /\ BatchTyped /\ HeldByOwner /\ InOrder /\ WaitsForAnother /\ \A c \in Batch : Sound(c)
      /\ phase[b] = "lock" /\ held[NextKey(b)] # Nobody
      /\ phase' = [phase EXCEPT ![b] = "wait"]
      /\ UNCHANGED <<checkpointVars, files, held, mine, left, ready, point, order, edits>>
  BY DEF LockInv, Wait, Goto
<1>2. CheckpointInv'
  BY <1>1 DEF CheckpointInv, checkpointVars
<1>3. BatchTyped' /\ phase'[b] = "wait" /\ \A c \in Batch \ {b} : phase'[c] = phase[c]
  BY <1>1 DEF BatchTyped
<1>4. \A c \in Batch : Sound(c)' /\ NextKey(c)' = NextKey(c)
  BY <1>1, <1>3 DEF Sound, Over, NextKey
<1>5. HeldByOwner' /\ InOrder'
  BY <1>1 DEF HeldByOwner, InOrder
<1>6. held[NextKey(b)] # b
  <2>1. NextKey(b) \in files[b] \ mine[b] /\ NextKey(b) \in File
    BY <1>1, NextKeyIs DEF Sound
  <2> QED
    BY <1>1, <2>1 DEF HeldByOwner
<1>7. WaitsForAnother'
  BY <1>1, <1>3, <1>4, <1>6 DEF WaitsForAnother
<1>8. OrderInv'
  <2>1. \A c \in Batch : phase[c] \in Over \cup {"write"} => phase'[c] = phase[c]
    BY <1>1, <1>3 DEF Over
  <2> QED
    BY <1>1, <2>1, OrderStays
<1> QED
  BY <1>2, <1>3, <1>4, <1>5, <1>7, <1>8 DEF LockInv

\* A batch that gives up, or whose write throws, writes nothing.
LEMMA LeaveKeeps ==
  ASSUME EditInv, NEW b \in Batch, NEW p \in Over, Release(b, p),
         phase[b] \notin Over, UNCHANGED <<checkpointVars, order, edits>>
  PROVE  EditInv'
<1> USE DEF EditInv
<1>1. CheckpointInv'
  BY DEF CheckpointInv, checkpointVars
<1>2. LockInv' /\ phase'[b] = p
      /\ \A c \in Batch \ {b} : /\ files'[c] = files[c] /\ left'[c] = left[c]
                                /\ phase[c] # "wait" => phase'[c] = phase[c]
  BY ReleaseKeeps
<1>3. OrderInv'
  <2>1. \A c \in Batch : phase[c] \in Over => phase'[c] \in Over
    BY <1>2 DEF Over
  <2>2. \A c \in Batch : phase[c] = "write" =>
          phase'[c] \in Over \/ (phase'[c] = "write" /\ files'[c] = files[c] /\ left'[c] = left[c])
    BY <1>2
  <2> QED
    BY <2>1, <2>2, OrderStays
<1> QED
  BY <1>1, <1>2, <1>3

\* A file is tracked, after a checkpoint or without one, whatever fails of it.
LEMMA TrackStepKeeps ==
  ASSUME EditInv, NEW b \in Batch, NEW f \in File, Track(b, f)
  PROVE  EditInv'
<1> USE DEF EditInv
<1>1. /\ BatchTyped /\ HeldByOwner /\ InOrder /\ WaitsForAnother /\ \A c \in Batch : Sound(c)
      /\ phase[b] = "write" /\ f \in left[b] /\ ready[b] = {}
      /\ ready' = [ready EXCEPT ![b] = {f}]
      /\ point' = point \cup {b}
      /\ UNCHANGED <<tree, phase, files, held, mine, left, order, edits>>
  BY DEF LockInv, Track
<1>2. CheckpointInv'
  <2>1. PICK captured \in BOOLEAN, tracked \in BOOLEAN :
          /\ IF captured THEN LogCapture ELSE UNCHANGED <<points, pictures, strayed>>
          /\ LET stored == IF captured THEN Swept ELSE blobs
             IN IF tracked THEN TrackWrite(f, stored) ELSE baseline' = baseline /\ blobs' = stored
    BY DEF Track
  <2> DEFINE stored == IF captured THEN Swept ELSE blobs
  <2>2. PointsInv(tree, baseline, points', stored, pictures', strayed')
    <3>1. CASE captured
      BY <2>1, <3>1, CaptureKeeps DEF LogCapture
    <3>2. CASE ~ captured
      BY <2>1, <3>2 DEF CheckpointInv
    <3> QED
      BY <3>1, <3>2
  <2> HIDE DEF stored
  <2>3. \/ baseline' = baseline /\ blobs' = stored
        \/ /\ f \notin DOMAIN baseline
           /\ baseline' = [g \in DOMAIN baseline \cup {f} |-> IF g = f THEN tree[f] ELSE baseline[g]]
           /\ blobs' = stored \cup Blobs({tree[f]})
    BY <2>1 DEF TrackWrite, Tracked, stored
  <2>4. PointsInv(tree, baseline', points', blobs', pictures', strayed')
    BY <2>2, <2>3, TrackKeeps
  <2> QED
    BY <1>1, <2>4 DEF CheckpointInv
<1>3. BatchTyped' /\ ready'[b] = {f} /\ \A c \in Batch \ {b} : ready'[c] = ready[c]
  BY <1>1 DEF BatchTyped
<1>4. ASSUME NEW c \in Batch PROVE Sound(c)'
  <2>1. CASE c = b
    BY <1>1, <1>3, <2>1 DEF Sound, Over
  <2>2. CASE c # b
    BY <1>1, <1>3, <2>2 DEF Sound
  <2> QED
    BY <2>1, <2>2
<1>5. HeldByOwner' /\ InOrder' /\ WaitsForAnother'
  <2>1. \A c \in Batch : NextKey(c)' = NextKey(c)
    BY <1>1 DEF NextKey
  <2> QED
    BY <1>1, <2>1 DEF HeldByOwner, InOrder, WaitsForAnother
<1>6. OrderInv'
  BY <1>1, OrderStays
<1> QED
  BY <1>2, <1>3, <1>4, <1>5, <1>6 DEF LockInv

\* One more write of a file: who came before it, and in which order.
LEMMA AppendIs ==
  ASSUME OrderTyped, NEW b \in Batch, NEW f \in File, order' = [order EXCEPT ![f] = Append(@, b)]
  PROVE  /\ OrderTyped'
         /\ \A c \in Batch, g \in File : Wrote(c, g)' <=> Wrote(c, g) \/ (c = b /\ g = f)
         /\ \A c, d \in Batch, g \in File :
              Earlier(c, d, g)' <=> Earlier(c, d, g) \/ (d = b /\ g = f /\ Wrote(c, f))
<1> DEFINE n == Len(order[f])
<1>1. order[f] \in Seq(Batch) /\ n \in Nat /\ DOMAIN order = File
  BY LenProperties DEF OrderTyped
<1>2. /\ order'[f] \in Seq(Batch) /\ Len(order'[f]) = n + 1 /\ order'[f][n + 1] = b
      /\ \A i \in 1..n : order'[f][i] = order[f][i]
  BY <1>1, AppendProperties
<1>3. \A g \in File \ {f} : order'[g] = order[g]
  BY <1>1
<1>4. OrderTyped'
  BY <1>2, <1>3 DEF OrderTyped
<1>5. ASSUME NEW c \in Batch, NEW g \in File
      PROVE  Wrote(c, g)' <=> Wrote(c, g) \/ (c = b /\ g = f)
  <2>1. CASE g # f
    BY <1>3, <2>1 DEF Wrote
  <2>2. CASE g = f
    <3>1. \A i : i \in 1..n + 1 <=> i \in 1..n \/ i = n + 1
      BY <1>1
    <3> HIDE DEF n
    <3>2. (\E i \in 1..n + 1 : order'[f][i] = c) <=> (\E i \in 1..n : order[f][i] = c) \/ c = b
      BY <1>2, <3>1
    <3> QED
      BY <1>2, <2>2, <3>2 DEF Wrote, n
  <2> QED
    BY <2>1, <2>2
<1>6. ASSUME NEW c \in Batch, NEW d \in Batch, NEW g \in File
      PROVE  Earlier(c, d, g)' <=> Earlier(c, d, g) \/ (d = b /\ g = f /\ Wrote(c, f))
  <2>1. CASE g # f
    BY <1>3, <2>1 DEF Earlier
  <2>2. CASE g = f
    <3>1. ASSUME Earlier(c, d, f)' PROVE Earlier(c, d, f) \/ (d = b /\ Wrote(c, f))
      <4>1. PICK i \in 1..n + 1, j \in 1..n + 1 : i < j /\ order'[f][i] = c /\ order'[f][j] = d
        BY <1>2, <3>1 DEF Earlier
      <4>2. i \in 1..n /\ order[f][i] = c
        BY <1>1, <1>2, <4>1
      <4>3. CASE j = n + 1
        BY <1>2, <4>1, <4>2, <4>3 DEF Wrote
      <4>4. CASE j # n + 1
        <5>1. j \in 1..n /\ order[f][j] = d
          BY <1>1, <1>2, <4>1, <4>4
        <5> QED
          BY <4>1, <4>2, <5>1 DEF Earlier
      <4> QED
        BY <4>3, <4>4
    <3>2. ASSUME Earlier(c, d, f) PROVE Earlier(c, d, f)'
      <4>1. PICK i \in 1..n, j \in 1..n : i < j /\ order[f][i] = c /\ order[f][j] = d
        BY <3>2 DEF Earlier
      <4>2. i \in 1..n + 1 /\ j \in 1..n + 1 /\ order'[f][i] = c /\ order'[f][j] = d
        BY <1>1, <1>2, <4>1
      <4> QED
        BY <1>2, <4>1, <4>2 DEF Earlier
    <3>3. ASSUME d = b, Wrote(c, f) PROVE Earlier(c, d, f)'
      <4>1. PICK i \in 1..n : order[f][i] = c
        BY <3>3 DEF Wrote
      <4>2. i \in 1..n + 1 /\ n + 1 \in 1..n + 1 /\ i < n + 1 /\ order'[f][i] = c
        BY <1>1, <1>2, <4>1
      <4> QED
        BY <1>2, <3>3, <4>2 DEF Earlier
    <3> QED
      BY <2>2, <3>1, <3>2, <3>3
  <2> QED
    BY <2>1, <2>2
<1> QED
  BY <1>4, <1>5, <1>6

LEMMA WriteStepKeeps ==
  ASSUME EditInv, NEW b \in Batch, NEW f \in File, Write(b, f)
  PROVE  EditInv'
<1> USE DEF EditInv
<1>1. /\ BatchTyped /\ HeldByOwner /\ InOrder /\ WaitsForAnother /\ \A c \in Batch : Sound(c)
      /\ phase[b] = "write" /\ ready[b] = {f}
      /\ tree' = [tree EXCEPT ![f] = b]
      /\ strayed' = IF f \in Tracked THEN strayed ELSE strayed \cup {f}
      /\ order' = [order EXCEPT ![f] = Append(@, b)]
      /\ UNCHANGED <<baseline, points, blobs, pictures, edits>>
  BY DEF LockInv, Write
<1>2. mine[b] = files[b] /\ left[b] \subseteq files[b] /\ f \in left[b] /\ held[f] = b
  BY <1>1 DEF Sound, HeldByOwner
<1>3. CheckpointInv'
  <2>1. b \in Content
    BY FileEditsAssumption
  <2>2. PointsInv(tree, baseline', points, blobs', pictures, strayed)
    BY <1>1 DEF CheckpointInv
  <2> QED
    BY <1>1, <2>1, <2>2, WriteKeeps DEF Tracked
<1>4. /\ LockInv'
      /\ phase'[b] = "done" \/ (phase'[b] = "write" /\ left'[b] = left[b] \ {f} /\ files'[b] = files[b])
      /\ \A c \in Batch \ {b} : /\ files'[c] = files[c] /\ left'[c] = left[c]
                                /\ phase[c] # "wait" => phase'[c] = phase[c]
  <2>1. CASE left[b] = {f}
    BY <1>1, <2>1, ReleaseKeeps DEF Write, Over
  <2>2. CASE left[b] # {f}
    <3>1. /\ left' = [left EXCEPT ![b] = @ \ {f}] /\ ready' = [ready EXCEPT ![b] = {}]
          /\ UNCHANGED <<phase, files, held, mine, point>>
      BY <2>2 DEF Write
    <3>2. BatchTyped'
      BY <1>1, <3>1 DEF BatchTyped
    <3>3. /\ left'[b] = left[b] \ {f} /\ ready'[b] = {}
          /\ \A c \in Batch \ {b} : left'[c] = left[c] /\ ready'[c] = ready[c]
      BY <1>1, <3>1 DEF BatchTyped
    <3>4. ASSUME NEW c \in Batch PROVE Sound(c)'
      <4>1. CASE c = b
        <5>1. phase'[b] = "write" /\ mine'[b] = files'[b] /\ left'[b] \subseteq files'[b] /\ ready'[b] = {}
          BY <1>1, <1>2, <3>1, <3>3
        <5> QED
          BY <4>1, <5>1 DEF Sound, Over
      <4>2. CASE c # b
        <5>1. Sound(c)
          BY <1>1
        <5> QED
          BY <3>1, <3>3, <4>2, <5>1 DEF Sound
      <4> QED
        BY <4>1, <4>2
    <3>5. HeldByOwner' /\ InOrder' /\ WaitsForAnother'
      <4>1. \A c \in Batch : NextKey(c)' = NextKey(c)
        BY <3>1 DEF NextKey
      <4> QED
        BY <1>1, <3>1, <4>1 DEF HeldByOwner, InOrder, WaitsForAnother
    <3> QED
      BY <1>1, <3>1, <3>2, <3>3, <3>4, <3>5 DEF LockInv
  <2> QED
    BY <2>1, <2>2
<1>5. OrderInv'
  <2>1. /\ OrderTyped'
        /\ \A c \in Batch, g \in File : Wrote(c, g)' <=> Wrote(c, g) \/ (c = b /\ g = f)
        /\ \A c, d \in Batch, g \in File :
             Earlier(c, d, g)' <=> Earlier(c, d, g) \/ (d = b /\ g = f /\ Wrote(c, f))
    BY <1>1, AppendIs DEF OrderInv
  <2>2. "done" \in Over /\ "write" \notin Over /\ "wait" \notin Over
    BY DEF Over
  <2>3. \A c \in Batch : phase[c] \in Over => phase'[c] \in Over
    BY <1>1, <1>4, <2>2
  <2>4. phase[b] \notin Over /\ ~ Wrote(b, f)
    BY <1>1, <1>2, <2>2 DEF OrderInv
  <2>5. \A c \in Batch : Wrote(c, f) => phase[c] \in Over
    <3> SUFFICES ASSUME NEW c \in Batch, Wrote(c, f), phase[c] = "write", f \in files[c]
                 PROVE  FALSE
      BY DEF OrderInv
    <3>1. held[f] = c
      BY <1>1 DEF Sound, HeldByOwner
    <3> QED
      BY <1>2, <2>4, <3>1
  <2>6. ASSUME NEW c \in Batch, NEW g \in File, Wrote(c, g)'
        PROVE  phase'[c] \in Over \/ (phase'[c] = "write" /\ g \in files'[c] \ left'[c])
    <3>1. CASE c = b /\ g = f
      BY <1>2, <1>4, <2>2, <3>1
    <3>2. CASE Wrote(c, g)
      <4>1. phase[c] \in Over \/ (phase[c] = "write" /\ g \in files[c] \ left[c])
        BY <3>2 DEF OrderInv
      <4> QED
        BY <1>4, <2>2, <2>3, <4>1
    <3> QED
      BY <2>1, <2>6, <3>1, <3>2
  <2>7. \A c \in Batch, g \in File : ~ Earlier(c, c, g)'
    BY <2>1, <2>4 DEF OrderInv
  <2>8. \A c, d \in Batch, g \in File : Earlier(c, d, g)' => phase'[c] \in Over
    BY <2>1, <2>3, <2>5 DEF OrderInv
  <2>9. ASSUME NEW c \in Batch, NEW d \in Batch, NEW g \in File, NEW h \in File,
               Earlier(c, d, g)', Earlier(d, c, h)'
        PROVE  FALSE
    <3>1. CASE Earlier(c, d, g)
      <4>1. Earlier(d, c, h) => FALSE
        BY <3>1 DEF OrderInv
      <4>2. c # b
        BY <2>4, <3>1 DEF OrderInv
      <4> QED
        BY <2>1, <2>9, <4>1, <4>2
    <3>2. CASE d = b /\ Wrote(c, f)
      <4>1. ~ Earlier(b, c, h) /\ c # b
        BY <2>4, <3>2 DEF OrderInv
      <4> QED
        BY <2>1, <2>9, <3>2, <4>1
    <3> QED
      BY <2>1, <2>9, <3>1, <3>2
  <2> QED
    BY <2>1, <2>6, <2>7, <2>8, <2>9 DEF OrderInv
<1> QED
  BY <1>3, <1>4, <1>5

\* The doors that take no lock: an edit, a checkpoint, a restore.
LEMMA DoorKeeps ==
  ASSUME EditInv, CheckpointInv',
         edits' \in 0..MaxEdits,
         UNCHANGED <<phase, files, held, mine, left, ready, point, order>>
  PROVE  EditInv'
<1> USE DEF EditInv
<1>1. BatchTyped /\ HeldByOwner /\ InOrder /\ WaitsForAnother /\ \A c \in Batch : Sound(c)
  BY DEF LockInv
<1>2. BatchTyped' /\ \A c \in Batch : Sound(c)' /\ NextKey(c)' = NextKey(c)
  BY <1>1 DEF BatchTyped, Sound, NextKey
<1>3. HeldByOwner' /\ InOrder' /\ WaitsForAnother'
  BY <1>1, <1>2 DEF HeldByOwner, InOrder, WaitsForAnother
<1>4. OrderInv'
  BY OrderStays
<1> QED
  BY <1>2, <1>3, <1>4 DEF LockInv

LEMMA EditKeeps ==
  ASSUME EditInv, NEW f \in File, NEW tracked \in BOOLEAN, Edit(f, tracked)
  PROVE  EditInv'
<1> USE DEF EditInv
<1>1. /\ tree' = [tree EXCEPT ![f] = Person] /\ UNCHANGED <<points, pictures>>
      /\ UNCHANGED <<phase, files, held, mine, left, ready, point, order>>
  BY DEF Edit
<1>2. edits' \in 0..MaxEdits
  BY FileEditsAssumption DEF Edit, LockInv, BatchTyped
<1>3. \/ UNCHANGED <<baseline, blobs>>
      \/ /\ f \notin DOMAIN baseline
         /\ baseline' = [g \in DOMAIN baseline \cup {f} |-> IF g = f THEN tree[f] ELSE baseline[g]]
         /\ blobs' = blobs \cup Blobs({tree[f]})
  BY DEF Edit, TrackWrite, Tracked
<1>4. PointsInv(tree, baseline', points, blobs', pictures, strayed)
  BY <1>3, TrackKeeps DEF CheckpointInv
<1>5. strayed' = IF f \in DOMAIN baseline' THEN strayed ELSE strayed \cup {f}
  <2>1. CASE tracked
    <3>1. f \in DOMAIN baseline' /\ strayed' = strayed
      BY <2>1 DEF Edit, TrackWrite, Tracked
    <3> QED
      BY <3>1
  <2>2. CASE ~ tracked
    BY <2>2 DEF Edit, Tracked
  <2> QED
    BY <2>1, <2>2
<1>6. CheckpointInv'
  BY <1>1, <1>4, <1>5, FileEditsAssumption, WriteKeeps
<1> QED
  BY <1>1, <1>2, <1>6, DoorKeeps

LEMMA CheckpointStepKeeps ==
  ASSUME EditInv, Checkpoint
  PROVE  EditInv'
<1> USE DEF EditInv
<1>1. PointsInv(tree, baseline, points', blobs', pictures', strayed')
  BY CaptureKeeps DEF Checkpoint, Capture, LogCapture
<1>2. CheckpointInv'
  BY <1>1 DEF CheckpointInv, Checkpoint
<1>3. edits' \in 0..MaxEdits /\ UNCHANGED <<phase, files, held, mine, left, ready, point, order>>
  BY DEF Checkpoint, batchVars, LockInv, BatchTyped
<1> QED
  BY <1>2, <1>3, DoorKeeps

LEMMA GoBackKeeps ==
  ASSUME EditInv, NEW i \in DOMAIN points, GoBack(i)
  PROVE  EditInv'
<1> USE DEF EditInv
<1>1. CheckpointInv'
  BY RestoreKeeps DEF GoBack
<1>2. edits' \in 0..MaxEdits /\ UNCHANGED <<phase, files, held, mine, left, ready, point, order>>
  BY FileEditsAssumption DEF GoBack, LockInv, BatchTyped
<1> QED
  BY <1>1, <1>2, DoorKeeps

-----------------------------------------------------------------------------
(* The locked batches *)

LEMMA EditInvInit ==
  ASSUME EditInit
  PROVE  EditInv
<1> USE CheckpointsAssumption, FileEditsAssumption
<1>1. CheckpointInv
  <2>1. baseline = [x \in {} |-> {}] /\ DOMAIN baseline = {}
    BY DEF EditInit, CheckpointInit
  <2>2. baseline \in States
    <3>1. baseline \in [{} -> State]
      BY <2>1
    <3> QED
      BY <3>1 DEF States
  <2>3. BlobsOf(baseline) = {}
    BY <2>1 DEF BlobsOf, Blobs
  <2> QED
    BY <2>1, <2>2, <2>3 DEF EditInit, CheckpointInit, CheckpointInv, PointsInv, LogTyped, LogNumbered,
       Unmoved, AllKept
<1>2. LockInv
  BY DEF EditInit, LockInv, BatchTyped, Sound, HeldByOwner, InOrder, WaitsForAnother, Over
<1>3. OrderInv
  BY DEF EditInit, OrderInv, OrderTyped, Wrote, Earlier
<1> QED
  BY <1>1, <1>2, <1>3 DEF EditInv

LEMMA EditInvNext ==
  ASSUME EditInv, [EditNext]_editVars
  PROVE  EditInv'
<1>1. CASE UNCHANGED editVars
  <2>1. CheckpointInv' /\ edits' \in 0..MaxEdits
        /\ UNCHANGED <<phase, files, held, mine, left, ready, point, order>>
    BY <1>1 DEF EditInv, CheckpointInv, LockInv, BatchTyped, editVars, checkpointVars, batchVars
  <2> QED
    BY <2>1, DoorKeeps
<1>2. ASSUME NEW b \in Batch, Proceed(b) PROVE EditInv'
  BY <1>2, BeginKeeps, AcquireKeeps, WaitKeeps, TrackStepKeeps, WriteStepKeeps DEF Proceed
<1>3. ASSUME NEW b \in Batch, GiveUp(b) PROVE EditInv'
  BY <1>3, LeaveKeeps DEF GiveUp, Over
<1>4. ASSUME NEW b \in Batch, NEW f \in File, WriteThrows(b, f) PROVE EditInv'
  BY <1>4, LeaveKeeps DEF WriteThrows, Over
<1> QED
  BY <1>1, <1>2, <1>3, <1>4, EditKeeps, CheckpointStepKeeps, GoBackKeeps DEF EditNext

LEMMA EditsSafe == EditSpec => []EditInv
<1> QED
  BY EditInvInit, EditInvNext, PTL DEF EditSpec

\* The state of the batches, the lock and the checkpoints has its type.
THEOREM EditsTyped == EditSpec => []EditTypeOK
<1>1. EditInv => EditTypeOK
  BY EditFacts
<1> QED
  BY <1>1, EditsSafe, PTL

\* acquirePathWriteLocks: no circle of waiters, no waiter nobody will wake, and no
\* path left held by a batch that is over, for any number of batches and paths.
THEOREM LocksAlwaysMoveOn == EditSpec => []LocksMoveOn
<1>1. EditInv => LocksMoveOn
  BY EditFacts
<1> QED
  BY <1>1, EditsSafe, PTL

\* applyAskFileWrites: batches that write the same files do so in the same order
\* everywhere, whatever fails, is given up or is edited in between.
THEOREM BatchesAlwaysSerial == EditSpec => []BatchesSerial
<1>1. EditInv => BatchesSerial
  BY EditFacts
<1> QED
  BY <1>1, EditsSafe, PTL

\* captureCheckpoint, trackSessionWrite and applyRestore: every checkpoint on the
\* list can be restored, and to what the tree was, for any cap of the log.
THEOREM RestoreAlwaysWorks == EditSpec => []RestoreWorks
<1>1. EditInv => RestoreWorks
  BY EditFacts
<1> QED
  BY <1>1, EditsSafe, PTL

-----------------------------------------------------------------------------
(* The daily cap: the inductive invariant *)

\* A call that was made has a server and a row, and a refund has one.
RowsKnown ==
  \A c \in Call :
    /\ call[c].pc # "idle" => call[c].on \in Server /\ call[c].row \in Row
    /\ call[c].pc = "refunding" => call[c].back \in Row

\* A row never forgets a call that holds a charge, but for refunds of another day.
RowsCounted == \A r \in Row : Cardinality(Holding(r)) <= used[r] + late[r]

TierInv == TierTypeOK /\ RowsKnown /\ RowsCounted /\ ServedWithinCap /\ QuotaOnlyForAnswers

\* The calls of a row are finitely many, and those it let through hold a charge.
LEMMA CallsFinite ==
  ASSUME NEW r
  PROVE  /\ IsFiniteSet(Holding(r)) /\ Cardinality(Holding(r)) \in Nat
         /\ IsFiniteSet(Served(r)) /\ Cardinality(Served(r)) \in Nat
         /\ Served(r) \subseteq Holding(r) /\ Cardinality(Served(r)) <= Cardinality(Holding(r))
<1>1. Holding(r) \in SUBSET Call /\ Served(r) \in SUBSET Holding(r)
  BY DEF Holding, Served, Charged
<1>2. IsFiniteSet(Holding(r))
  BY <1>1, FreeTierAssumption, FS_Subset
<1>3. IsFiniteSet(Served(r)) /\ Cardinality(Served(r)) <= Cardinality(Holding(r))
  BY <1>1, <1>2, FS_Subset
<1> QED
  BY <1>1, <1>2, <1>3, FS_CardinalityType

\* What a row holds after one call has moved.
LEMMA OneCallMoves ==
  ASSUME TierTypeOK, NEW c \in Call, NEW w, call' = [call EXCEPT ![c] = w], NEW r
  PROVE  LET holds == w.row = r /\ w.pc \in Charged \cup {"answered"}
             serves == w.row = r /\ w.pc \in {"asking", "answered"}
         IN /\ holds /\ c \notin Holding(r) => Cardinality(Holding(r)') = Cardinality(Holding(r)) + 1
            /\ ~holds /\ c \in Holding(r) => Cardinality(Holding(r)') = Cardinality(Holding(r)) - 1
            /\ (holds <=> c \in Holding(r)) => Cardinality(Holding(r)') = Cardinality(Holding(r))
            /\ (serves => c \in Served(r)) => Cardinality(Served(r)') <= Cardinality(Served(r))
            /\ Cardinality(Served(r)') <= Cardinality(Holding(r)')
            /\ Cardinality(Holding(r)') \in Nat /\ Cardinality(Served(r)') \in Nat
<1> DEFINE holds == w.row = r /\ w.pc \in Charged \cup {"answered"}
           serves == w.row = r /\ w.pc \in {"asking", "answered"}
<1>1. call'[c] = w /\ \A d \in Call \ {c} : call'[d] = call[d]
  BY DEF TierTypeOK
<1>2. holds => Holding(r)' = Holding(r) \cup {c}
  BY <1>1 DEF Holding
<1>3. ~holds => Holding(r)' = Holding(r) \ {c}
  BY <1>1 DEF Holding
<1>4. IsFiniteSet(Holding(r)) /\ Cardinality(Holding(r)) \in Nat
      /\ IsFiniteSet(Served(r)) /\ Cardinality(Served(r)) \in Nat
  BY CallsFinite
<1>5. /\ IsFiniteSet(Holding(r)')
      /\ holds /\ c \notin Holding(r) => Cardinality(Holding(r)') = Cardinality(Holding(r)) + 1
      /\ ~holds /\ c \in Holding(r) => Cardinality(Holding(r)') = Cardinality(Holding(r)) - 1
      /\ (holds <=> c \in Holding(r)) => Cardinality(Holding(r)') = Cardinality(Holding(r))
  BY <1>2, <1>3, <1>4, FS_AddElement, FS_RemoveElement
<1>6. (serves => c \in Served(r)) => Served(r)' \in SUBSET Served(r)
  BY <1>1 DEF Served
<1>7. (serves => c \in Served(r)) => Cardinality(Served(r)') <= Cardinality(Served(r))
  BY <1>4, <1>6, FS_Subset
<1>8. Served(r)' \in SUBSET (Holding(r)')
  BY DEF Served, Holding, Charged
<1>9. IsFiniteSet(Served(r)') /\ Cardinality(Served(r)') <= Cardinality(Holding(r)')
  BY <1>5, <1>8, FS_Subset
<1> QED
  BY <1>5, <1>7, <1>9, FS_CardinalityType

\* A call whose place alone changes.
LEMMA OnlyItsPlace ==
  ASSUME TierTypeOK, NEW c \in Call, NEW where, Goes(c, where)
  PROVE  /\ call' = [call EXCEPT ![c] = [call[c] EXCEPT !.pc = where]]
         /\ call'[c] = [call[c] EXCEPT !.pc = where]
         /\ call'[c].pc = where /\ call'[c].row = call[c].row
         /\ call'[c].on = call[c].on /\ call'[c].back = call[c].back
         /\ \A d \in Call \ {c} : call'[d] = call[d]
BY DEF Goes, TierTypeOK, CallState

\* A count stays a count.
LEMMA CountsTyped ==
  ASSUME NEW f \in [Row -> Nat], NEW r \in Row
  PROVE  /\ [f EXCEPT ![r] = @ + 1] \in [Row -> Nat]
         /\ [f EXCEPT ![r] = IF @ = 0 THEN 0 ELSE @ - 1] \in [Row -> Nat]
<1>1. f[r] + 1 \in Nat /\ (IF f[r] = 0 THEN 0 ELSE f[r] - 1) \in Nat
  OBVIOUS
<1> QED
  BY <1>1

-----------------------------------------------------------------------------
(* The daily cap: the steps *)

\* What the invariant says of one row.
RowFine(r) ==
  /\ Cardinality(Holding(r)) <= used[r] + late[r]
  /\ Cardinality(Served(r)) <= Limit + late[r]
  /\ used[r] <= Cardinality(Holding(r)) + leaked[r]

LEMMA ByRow == TierInv <=> TierTypeOK /\ RowsKnown /\ \A r \in Row : RowFine(r)
BY DEF TierInv, RowsCounted, ServedWithinCap, QuotaOnlyForAnswers, RowFine

LEMMA ByRowNext == (TierTypeOK /\ RowsKnown)' /\ (\A r \in Row : RowFine(r)') => TierInv'
BY DEF TierInv, RowsCounted, ServedWithinCap, QuotaOnlyForAnswers, RowFine

\* The numbers of a row are natural numbers.
LEMMA RowNumbers ==
  ASSUME TierTypeOK, NEW r \in Row
  PROVE  /\ used[r] \in Nat /\ late[r] \in Nat /\ leaked[r] \in Nat /\ Limit \in Nat
         /\ Cardinality(Holding(r)) \in Nat /\ Cardinality(Served(r)) \in Nat
BY CallsFinite, FreeTierAssumption DEF TierTypeOK

\* The row of today is one.
LEMMA TodayIsARow == ASSUME TierTypeOK, NEW s \in Server PROVE Today(s) \in Row
BY DEF TierTypeOK, Today, Row

\* A call that moves to a known place leaves every call in one.
LEMMA PlacesKnown ==
  ASSUME TierTypeOK, RowsKnown, NEW c \in Call, NEW w \in CallState,
         call' = [call EXCEPT ![c] = w],
         w.pc # "idle" => w.on \in Server /\ w.row \in Row,
         w.pc = "refunding" => w.back \in Row
  PROVE  RowsKnown' /\ call' \in [Call -> CallState]
<1>1. call'[c] = w /\ \A d \in Call \ {c} : call'[d] = call[d]
  BY DEF TierTypeOK
<1> QED
  BY <1>1 DEF RowsKnown, TierTypeOK

\* The same of one whose place alone changes.
LEMMA PlaceKnown ==
  ASSUME TierTypeOK, RowsKnown, NEW c \in Call, call[c].pc # "idle",
         NEW where \in {"over", "asking", "answered", "failed", "denied"}, Goes(c, where)
  PROVE  RowsKnown' /\ call' \in [Call -> CallState]
<1> DEFINE w == [call[c] EXCEPT !.pc = where]
<1>1. call[c] \in CallState /\ call[c].on \in Server /\ call[c].row \in Row
  BY DEF TierTypeOK, RowsKnown
<1>2. w \in CallState /\ w.pc = where /\ w.on = call[c].on /\ w.row = call[c].row
  BY <1>1 DEF CallState
<1>3. call' = [call EXCEPT ![c] = w]
  BY OnlyItsPlace
<1> HIDE DEF w
<1> QED
  BY <1>1, <1>2, <1>3, PlacesKnown

LEMMA ConsumeKeeps ==
  ASSUME TierInv, NEW c \in Call, NEW s \in Server, Consume(c, s)
  PROVE  TierInv'
<1> DEFINE w == [pc |-> IF Limit = 0 THEN "denied" ELSE "charging",
                 on |-> s, row |-> Today(s), back |-> NoRow]
<1>1. TierTypeOK /\ RowsKnown /\ \A r \in Row : RowFine(r)
  BY ByRow
<1>2. Today(s) \in Row
  BY <1>1, TodayIsARow
<1>3. call' = [call EXCEPT ![c] = w] /\ call[c].pc = "idle"
  BY DEF Consume, At
<1>4. /\ w \in CallState /\ w.pc # "refunding" /\ w.on \in Server /\ w.row \in Row
      /\ w.pc \notin Charged \cup {"answered"} /\ w.pc \notin {"asking", "answered"}
  BY <1>2 DEF CallState, Charged
<1> HIDE DEF w
<1>5. RowsKnown' /\ call' \in [Call -> CallState]
  BY <1>1, <1>3, <1>4, PlacesKnown
<1>6. TierTypeOK'
  BY <1>1, <1>5 DEF TierTypeOK, Consume
<1>7. ASSUME NEW r \in Row PROVE RowFine(r)'
  <2>1. c \notin Holding(r)
    BY <1>3 DEF Holding, Charged
  <2>2. Cardinality(Holding(r)') = Cardinality(Holding(r)) /\ Cardinality(Served(r)') <= Cardinality(Served(r))
        /\ Cardinality(Served(r)') \in Nat
    BY <1>1, <1>3, <1>4, <2>1, OneCallMoves
  <2>3. UNCHANGED <<used, late, leaked>>
    BY DEF Consume
  <2> QED
    BY <1>1, <2>2, <2>3, RowNumbers DEF RowFine
<1> QED
  BY <1>5, <1>6, <1>7, ByRowNext

LEMMA ConsumeInMemoryKeeps ==
  ASSUME TierInv, NEW c \in Call, NEW s \in Server, ConsumeInMemory(c, s)
  PROVE  TierInv'
<1> DEFINE today == Today(s)
           room == used[today] < Limit
           w == [pc |-> IF room THEN "asking" ELSE "denied", on |-> s, row |-> today, back |-> NoRow]
<1>1. TierTypeOK /\ RowsKnown /\ \A r \in Row : RowFine(r)
  BY ByRow
<1>2. today \in Row
  BY <1>1, TodayIsARow
<1>3. /\ call' = [call EXCEPT ![c] = w] /\ call[c].pc = "idle"
      /\ IF room THEN Raise(today) ELSE UNCHANGED used
      /\ UNCHANGED <<durable, up, day, late, leaked, unheard>>
  BY DEF ConsumeInMemory, At
<1>4. /\ w \in CallState /\ w.pc # "refunding" /\ w.on \in Server /\ w.row = today
      /\ room => w.pc = "asking"
      /\ ~room => w.pc = "denied"
  BY <1>2 DEF CallState
<1> HIDE DEF w
<1>5. RowsKnown' /\ call' \in [Call -> CallState]
  BY <1>1, <1>2, <1>3, <1>4, PlacesKnown
<1>6. /\ used' \in [Row -> Nat]
      /\ room => used'[today] = used[today] + 1
      /\ \A r \in Row : (r # today \/ ~room) => used'[r] = used[r]
  BY <1>1, <1>2, <1>3, CountsTyped DEF TierTypeOK, Raise
<1>7. TierTypeOK'
  BY <1>1, <1>3, <1>5, <1>6 DEF TierTypeOK
<1>8. ASSUME NEW r \in Row PROVE RowFine(r)'
  <2>1. c \notin Holding(r)
    BY <1>3 DEF Holding, Charged
  <2>2. Cardinality(Served(r)') <= Cardinality(Holding(r)')
        /\ Cardinality(Holding(r)') \in Nat /\ Cardinality(Served(r)') \in Nat
    BY <1>1, <1>3, OneCallMoves
  <2>3. RowFine(r) /\ used'[r] \in Nat
    BY <1>1, <1>6
  <2>4. CASE r = today /\ room
    <3>1. Cardinality(Holding(r)') = Cardinality(Holding(r)) + 1
      BY <1>1, <1>3, <1>4, <2>1, <2>4, OneCallMoves DEF Charged
    <3> QED
      BY <1>1, <1>3, <1>6, <2>2, <2>3, <2>4, <3>1, RowNumbers DEF RowFine
  <2>5. CASE ~(r = today /\ room)
    <3>1. Cardinality(Holding(r)') = Cardinality(Holding(r)) /\ Cardinality(Served(r)') <= Cardinality(Served(r))
      BY <1>1, <1>3, <1>4, <2>1, <2>5, OneCallMoves DEF Charged
    <3> QED
      BY <1>1, <1>3, <1>6, <2>2, <2>3, <2>5, <3>1, RowNumbers DEF RowFine
  <2> QED
    BY <2>4, <2>5
<1> QED
  BY <1>5, <1>7, <1>8, ByRowNext

LEMMA ChargeKeeps ==
  ASSUME TierInv, NEW c \in Call, Charge(c)
  PROVE  TierInv'
<1> DEFINE row == call[c].row
           where == IF used[row] + 1 > Limit THEN "over" ELSE "asking"
           w == [call[c] EXCEPT !.pc = where]
<1>1. TierTypeOK /\ RowsKnown /\ \A r \in Row : RowFine(r)
  BY ByRow
<1>2. call[c].pc = "charging" /\ row \in Row /\ Goes(c, where) /\ Raise(row)
      /\ UNCHANGED <<durable, up, day, late, leaked, unheard>>
  BY <1>1 DEF Charge, At, RowsKnown
<1>3. RowsKnown' /\ call' \in [Call -> CallState]
  BY <1>1, <1>2, PlaceKnown
<1>4. call' = [call EXCEPT ![c] = w] /\ w.pc = where /\ w.row = row
  BY <1>1, <1>2, OnlyItsPlace DEF TierTypeOK, CallState
<1> HIDE DEF w
<1>5. /\ used' \in [Row -> Nat] /\ used'[row] = used[row] + 1
      /\ \A r \in Row \ {row} : used'[r] = used[r]
  BY <1>1, <1>2, CountsTyped DEF TierTypeOK, Raise
<1>6. TierTypeOK'
  BY <1>1, <1>2, <1>3, <1>5 DEF TierTypeOK
<1>7. ASSUME NEW r \in Row PROVE RowFine(r)'
  <2>1. c \notin Holding(r)
    BY <1>2 DEF Holding, Charged
  <2>2. Cardinality(Served(r)') <= Cardinality(Holding(r)')
        /\ Cardinality(Holding(r)') \in Nat /\ Cardinality(Served(r)') \in Nat
    BY <1>1, <1>4, OneCallMoves
  <2>3. RowFine(r) /\ used'[r] \in Nat
    BY <1>1, <1>5
  <2>4. CASE r = row
    <3>1. w.pc \in {"over", "asking"}
      BY <1>4
    <3>2. Cardinality(Holding(r)') = Cardinality(Holding(r)) + 1
      BY <1>1, <1>4, <2>1, <2>4, <3>1, OneCallMoves DEF Charged
    <3>3. CASE used[row] + 1 > Limit
      <4>1. Cardinality(Served(r)') <= Cardinality(Served(r))
        BY <1>1, <1>4, <3>3, OneCallMoves
      <4> QED
        BY <1>1, <1>2, <1>5, <2>2, <2>3, <2>4, <3>2, <4>1, RowNumbers DEF RowFine
    <3>4. CASE used[row] + 1 <= Limit
      BY <1>1, <1>2, <1>5, <2>2, <2>3, <2>4, <3>2, <3>4, RowNumbers DEF RowFine
    <3> QED
      BY <1>1, <1>2, <3>3, <3>4, RowNumbers
  <2>5. CASE r # row
    <3>1. Cardinality(Holding(r)') = Cardinality(Holding(r)) /\ Cardinality(Served(r)') <= Cardinality(Served(r))
      BY <1>1, <1>4, <2>1, <2>5, OneCallMoves
    <3> QED
      BY <1>1, <1>2, <1>5, <2>2, <2>3, <2>5, <3>1, RowNumbers DEF RowFine
  <2> QED
    BY <2>4, <2>5
<1> QED
  BY <1>3, <1>6, <1>7, ByRowNext

\* A call whose place alone changes, and what its row counts with it: none of
\* these steps lets a call through.
LEMMA PlaceKeeps ==
  ASSUME TierInv, NEW c \in Call, call[c].pc # "idle",
         NEW where \in {"answered", "failed", "denied"}, Goes(c, where),
         where = "answered" => call[c].pc = "asking", call[c].pc # "answered",
         UNCHANGED <<durable, up, day>>, unheard' \in 0..MaxUnheard,
         used' \in [Row -> Nat], late' \in [Row -> Nat], leaked' \in [Row -> Nat],
         \A r \in Row : late[r] <= late'[r],
         \A r \in Row :
           IF call[c].row = r /\ call[c].pc \in Charged /\ where # "answered"
           THEN /\ used[r] + late[r] <= used'[r] + late'[r] + 1
                /\ used'[r] + leaked[r] + 1 <= used[r] + leaked'[r] \/ used'[r] = 0
           ELSE /\ used[r] + late[r] <= used'[r] + late'[r]
                /\ used'[r] + leaked[r] <= used[r] + leaked'[r] \/ used'[r] = 0
  PROVE  TierInv'
<1> DEFINE w == [call[c] EXCEPT !.pc = where]
<1>1. TierTypeOK /\ RowsKnown /\ \A r \in Row : RowFine(r)
  BY ByRow
<1>2. RowsKnown' /\ call' \in [Call -> CallState]
  BY <1>1, PlaceKnown
<1>3. call' = [call EXCEPT ![c] = w] /\ w.pc = where /\ w.row = call[c].row
  BY <1>1, OnlyItsPlace DEF TierTypeOK, CallState
<1> HIDE DEF w
<1>4. TierTypeOK'
  BY <1>1, <1>2 DEF TierTypeOK
<1>5. ASSUME NEW r \in Row PROVE RowFine(r)'
  <2>1. /\ used[r] \in Nat /\ late[r] \in Nat /\ leaked[r] \in Nat /\ Limit \in Nat
        /\ used'[r] \in Nat /\ late'[r] \in Nat /\ leaked'[r] \in Nat
        /\ Cardinality(Holding(r)) \in Nat /\ Cardinality(Served(r)) \in Nat
        /\ Cardinality(Holding(r)') \in Nat /\ Cardinality(Served(r)') \in Nat
    BY <1>1, <1>3, RowNumbers, OneCallMoves
  <2>2. Cardinality(Served(r)') <= Cardinality(Served(r))
    <3>1. w.row = r /\ w.pc \in {"asking", "answered"} => c \in Served(r)
      BY <1>3 DEF Served
    <3> QED
      BY <1>1, <1>3, <3>1, OneCallMoves
  <2>3. RowFine(r) /\ late[r] <= late'[r]
    BY <1>1
  <2>4. CASE call[c].row = r /\ call[c].pc \in Charged /\ where # "answered"
    <3>1. Cardinality(Holding(r)') = Cardinality(Holding(r)) - 1
      <4>1. c \in Holding(r) /\ w.pc \notin Charged \cup {"answered"}
        BY <1>3, <2>4 DEF Holding, Charged
      <4> QED
        BY <1>1, <1>3, <4>1, OneCallMoves
    <3>2. /\ used[r] + late[r] <= used'[r] + late'[r] + 1
          /\ used'[r] + leaked[r] + 1 <= used[r] + leaked'[r] \/ used'[r] = 0
      BY <2>4
    <3> QED
      BY <2>1, <2>2, <2>3, <3>1, <3>2 DEF RowFine
  <2>5. CASE ~(call[c].row = r /\ call[c].pc \in Charged /\ where # "answered")
    <3>1. Cardinality(Holding(r)') = Cardinality(Holding(r))
      <4>1. w.row = r /\ w.pc \in Charged \cup {"answered"} <=> c \in Holding(r)
        BY <1>3, <2>5 DEF Holding, Charged
      <4> QED
        BY <1>1, <1>3, <4>1, OneCallMoves
    <3>2. /\ used[r] + late[r] <= used'[r] + late'[r]
          /\ used'[r] + leaked[r] <= used[r] + leaked'[r] \/ used'[r] = 0
      BY <2>5
    <3> QED
      BY <2>1, <2>2, <2>3, <3>1, <3>2 DEF RowFine
  <2> QED
    BY <2>4, <2>5
<1> QED
  BY <1>2, <1>4, <1>5, ByRowNext

\* What each statement does to the counts.
LEMMA Counting ==
  ASSUME TierTypeOK, NEW r \in Row
  PROVE  /\ Raise(r) => /\ used' \in [Row -> Nat] /\ used'[r] = used[r] + 1
                        /\ \A q \in Row \ {r} : used'[q] = used[q]
         /\ Lower(r) => /\ used' \in [Row -> Nat]
                        /\ used'[r] = IF used[r] = 0 THEN 0 ELSE used[r] - 1
                        /\ \A q \in Row \ {r} : used'[q] = used[q]
         /\ Keeps(r) => /\ leaked' \in [Row -> Nat] /\ leaked'[r] = leaked[r] + 1
                        /\ \A q \in Row \ {r} : leaked'[q] = leaked[q]
         /\ late' = [late EXCEPT ![r] = @ + 1] =>
                        /\ late' \in [Row -> Nat] /\ late'[r] = late[r] + 1
                        /\ \A q \in Row \ {r} : late'[q] = late[q]
<1>1. used \in [Row -> Nat] /\ leaked \in [Row -> Nat] /\ late \in [Row -> Nat]
  BY DEF TierTypeOK
<1> QED
  BY <1>1, CountsTyped DEF Raise, Lower, Keeps

\* A statement that fails is one of the bounded number.
LEMMA UnheardCounted == ASSUME TierTypeOK, Unheard PROVE unheard' \in 0..MaxUnheard
BY FreeTierAssumption DEF TierTypeOK, Unheard

LEMMA ChargeFailsKeeps ==
  ASSUME TierInv, NEW c \in Call, ChargeFails(c)
  PROVE  TierInv'
<1>1. TierTypeOK /\ call[c].pc = "charging" /\ call[c].row \in Row
  BY DEF TierInv, RowsKnown, ChargeFails, At
<1>2. Goes(c, "denied") /\ unheard' \in 0..MaxUnheard /\ UNCHANGED <<durable, up, day, late>>
  BY <1>1, UnheardCounted DEF ChargeFails
<1>3. call[c].pc \notin Charged /\ used \in [Row -> Nat] /\ late \in [Row -> Nat] /\ leaked \in [Row -> Nat]
  BY <1>1 DEF Charged, TierTypeOK
<1>4. /\ used' \in [Row -> Nat] /\ leaked' \in [Row -> Nat]
      /\ \A r \in Row : \/ used'[r] = used[r] /\ leaked'[r] = leaked[r]
                        \/ used'[r] = used[r] + 1 /\ leaked'[r] = leaked[r] + 1
  <2>1. CASE UNCHANGED <<used, leaked>>
    BY <2>1, <1>3
  <2>2. CASE Raise(call[c].row) /\ Keeps(call[c].row)
    BY <1>1, <2>2, Counting
  <2> QED
    BY <2>1, <2>2 DEF ChargeFails
<1>5. ASSUME NEW r \in Row
      PROVE  /\ late[r] <= late'[r] /\ used[r] + late[r] <= used'[r] + late'[r]
             /\ used'[r] + leaked[r] <= used[r] + leaked'[r]
  BY <1>1, <1>2, <1>4, RowNumbers
<1> QED
  BY <1>1, <1>2, <1>3, <1>4, <1>5, PlaceKeeps

LEMMA GiveBackKeeps ==
  ASSUME TierInv, NEW c \in Call, GiveBack(c)
  PROVE  TierInv'
<1> DEFINE row == call[c].row
<1>1. TierTypeOK /\ call[c].pc = "over" /\ row \in Row
  BY DEF TierInv, RowsKnown, GiveBack, At
<1>2. Goes(c, "denied") /\ UNCHANGED <<durable, up, day, late, leaked, unheard>> /\ Lower(row)
  BY DEF GiveBack
<1>3. /\ call[c].pc \in Charged /\ unheard' \in 0..MaxUnheard
      /\ late' \in [Row -> Nat] /\ leaked' \in [Row -> Nat]
  BY <1>1, <1>2 DEF Charged, TierTypeOK
<1>4. /\ used' \in [Row -> Nat] /\ used'[row] = IF used[row] = 0 THEN 0 ELSE used[row] - 1
      /\ \A q \in Row \ {row} : used'[q] = used[q]
  BY <1>1, <1>2, Counting
<1>5. ASSUME NEW r \in Row
      PROVE  /\ late[r] <= late'[r]
             /\ r = row => /\ used[r] + late[r] <= used'[r] + late'[r] + 1
                           /\ used'[r] + leaked[r] + 1 <= used[r] + leaked'[r] \/ used'[r] = 0
             /\ r # row => /\ used[r] + late[r] <= used'[r] + late'[r]
                           /\ used'[r] + leaked[r] <= used[r] + leaked'[r]
  BY <1>1, <1>2, <1>4, RowNumbers
<1> QED
  BY <1>1, <1>2, <1>3, <1>4, <1>5, PlaceKeeps

\* A call whose charge is kept, because the statement that gives it back failed.
LEMMA KeptChargeKeeps ==
  ASSUME TierInv, NEW c \in Call, call[c].pc \in {"over", "refunding"},
         NEW where \in {"denied", "failed"}, Goes(c, where), Unheard,
         Keeps(call[c].row), UNCHANGED <<durable, up, day, used, late>>
  PROVE  TierInv'
<1> DEFINE row == call[c].row
<1>1. TierTypeOK /\ row \in Row
  BY DEF TierInv, RowsKnown
<1>2. /\ call[c].pc \in Charged /\ unheard' \in 0..MaxUnheard
      /\ used' \in [Row -> Nat] /\ late' \in [Row -> Nat]
  BY <1>1, UnheardCounted DEF Charged, TierTypeOK
<1>3. /\ leaked' \in [Row -> Nat] /\ leaked'[row] = leaked[row] + 1
      /\ \A q \in Row \ {row} : leaked'[q] = leaked[q]
  BY <1>1, Counting
<1>4. ASSUME NEW r \in Row
      PROVE  /\ late[r] <= late'[r]
             /\ r = row => /\ used[r] + late[r] <= used'[r] + late'[r] + 1
                           /\ used'[r] + leaked[r] + 1 <= used[r] + leaked'[r]
             /\ r # row => /\ used[r] + late[r] <= used'[r] + late'[r]
                           /\ used'[r] + leaked[r] <= used[r] + leaked'[r]
  BY <1>1, <1>3, RowNumbers
<1> QED
  BY <1>1, <1>2, <1>3, <1>4, PlaceKeeps

LEMMA AnswersKeeps ==
  ASSUME TierInv, NEW c \in Call, Answers(c)
  PROVE  TierInv'
<1>1. TierTypeOK /\ call[c].pc = "asking" /\ Goes(c, "answered")
      /\ UNCHANGED <<durable, up, day, used, late, leaked, unheard>>
  BY DEF TierInv, Answers, At
<1>2. /\ unheard' \in 0..MaxUnheard /\ used' \in [Row -> Nat]
      /\ late' \in [Row -> Nat] /\ leaked' \in [Row -> Nat]
  BY <1>1 DEF TierTypeOK
<1>3. ASSUME NEW r \in Row
      PROVE  /\ late[r] <= late'[r] /\ used[r] + late[r] <= used'[r] + late'[r]
             /\ used'[r] + leaked[r] <= used[r] + leaked'[r]
  BY <1>1, RowNumbers
<1> QED
  BY <1>1, <1>2, <1>3, PlaceKeeps

\* A failed call that gives back to the row of a day, its own or a later one.
LEMMA GivenBackKeeps ==
  ASSUME TierInv, NEW c \in Call, call[c].pc \in {"asking", "refunding"},
         Goes(c, "failed"), NEW back \in Row, GivesBack(c, back),
         UNCHANGED <<durable, up, day, unheard>>
  PROVE  TierInv'
<1> DEFINE row == call[c].row
<1>1. TierTypeOK /\ row \in Row
  BY DEF TierInv, RowsKnown
<1>2. /\ call[c].pc \in Charged /\ unheard' \in 0..MaxUnheard
      /\ late \in [Row -> Nat] /\ leaked \in [Row -> Nat]
  BY <1>1 DEF Charged, TierTypeOK
<1>3. /\ used' \in [Row -> Nat] /\ used'[back] = IF used[back] = 0 THEN 0 ELSE used[back] - 1
      /\ \A q \in Row \ {back} : used'[q] = used[q]
  BY <1>1, Counting DEF GivesBack
<1>4. CASE back = row
  <2>1. late' \in [Row -> Nat] /\ leaked' \in [Row -> Nat] /\ UNCHANGED <<late, leaked>>
    BY <1>2, <1>4 DEF GivesBack
  <2>2. ASSUME NEW r \in Row
        PROVE  /\ late[r] <= late'[r]
               /\ r = row => /\ used[r] + late[r] <= used'[r] + late'[r] + 1
                             /\ used'[r] + leaked[r] + 1 <= used[r] + leaked'[r] \/ used'[r] = 0
               /\ r # row => /\ used[r] + late[r] <= used'[r] + late'[r]
                             /\ used'[r] + leaked[r] <= used[r] + leaked'[r]
    BY <1>1, <1>3, <1>4, <2>1, RowNumbers
  <2> QED
    BY <1>1, <1>2, <1>3, <2>1, <2>2, PlaceKeeps
<1>5. CASE back # row
  <2>1. Keeps(row) /\ late' = IF used[back] = 0 THEN late ELSE [late EXCEPT ![back] = @ + 1]
    BY <1>5 DEF GivesBack
  <2>2. /\ leaked' \in [Row -> Nat] /\ leaked'[row] = leaked[row] + 1
        /\ \A q \in Row \ {row} : leaked'[q] = leaked[q]
    BY <1>1, <2>1, Counting
  <2>3. /\ late' \in [Row -> Nat]
        /\ late'[back] = IF used[back] = 0 THEN late[back] ELSE late[back] + 1
        /\ \A q \in Row \ {back} : late'[q] = late[q]
    BY <1>1, <1>2, <2>1, Counting
  <2>4. ASSUME NEW r \in Row
        PROVE  /\ late[r] <= late'[r]
               /\ used[r] + late[r] <= used'[r] + late'[r]
               /\ r = row => used'[r] + leaked[r] + 1 <= used[r] + leaked'[r]
               /\ r # row => used'[r] + leaked[r] <= used[r] + leaked'[r]
    <3>1. /\ used[r] \in Nat /\ late[r] \in Nat /\ leaked[r] \in Nat
          /\ used[back] \in Nat
      BY <1>1, RowNumbers
    <3>2. CASE r = back
      BY <1>3, <1>5, <2>2, <2>3, <3>1, <3>2
    <3>3. CASE r # back
      BY <1>3, <1>5, <2>2, <2>3, <3>1, <3>3
    <3> QED
      BY <3>2, <3>3
  <2>5. ASSUME NEW r \in Row, r = row PROVE used[r] + late[r] <= used'[r] + late'[r] + 1
    BY <1>1, <1>3, <2>3, <2>4, RowNumbers
  <2> QED
    BY <1>1, <1>2, <1>3, <2>2, <2>3, <2>4, <2>5, PlaceKeeps
<1> QED
  BY <1>4, <1>5

LEMMA RefundKeeps ==
  ASSUME TierInv, NEW c \in Call, Refund(c)
  PROVE  TierInv'
<1>1. call[c].pc = "refunding" /\ call[c].back \in Row
  BY DEF TierInv, RowsKnown, Refund, At
<1> QED
  BY <1>1, GivenBackKeeps DEF Refund

LEMMA FailsInMemoryKeeps ==
  ASSUME TierInv, NEW c \in Call, FailsInMemory(c)
  PROVE  TierInv'
<1>1. call[c].pc = "asking" /\ call[c].on \in Server /\ TierTypeOK
  BY DEF TierInv, RowsKnown, FailsInMemory, At
<1> QED
  BY <1>1, TodayIsARow, GivenBackKeeps DEF FailsInMemory

LEMMA FailsKeeps ==
  ASSUME TierInv, NEW c \in Call, Fails(c)
  PROVE  TierInv'
<1> DEFINE w == [call[c] EXCEPT !.pc = "refunding", !.back = Today(call[c].on)]
<1>1. TierTypeOK /\ RowsKnown /\ \A r \in Row : RowFine(r)
  BY ByRow
<1>2. /\ call[c].pc = "asking" /\ call[c] \in CallState
      /\ call[c].on \in Server /\ call[c].row \in Row /\ Today(call[c].on) \in Row
  BY <1>1, TodayIsARow DEF Fails, At, RowsKnown, TierTypeOK
<1>3. call' = [call EXCEPT ![c] = w] /\ UNCHANGED <<durable, up, day, used, late, leaked, unheard>>
  BY <1>1, <1>2 DEF Fails, CallState, TierTypeOK
<1>4. /\ w \in CallState /\ w.pc = "refunding" /\ w.on \in Server
      /\ w.row = call[c].row /\ w.back \in Row
  BY <1>2 DEF CallState
<1> HIDE DEF w
<1>5. RowsKnown' /\ call' \in [Call -> CallState]
  BY <1>1, <1>2, <1>3, <1>4, PlacesKnown
<1>6. TierTypeOK'
  BY <1>1, <1>3, <1>5 DEF TierTypeOK
<1>7. ASSUME NEW r \in Row PROVE RowFine(r)'
  <2>1. w.row = r /\ w.pc \in Charged \cup {"answered"} <=> c \in Holding(r)
    BY <1>2, <1>4 DEF Holding, Charged
  <2>2. w.pc \notin {"asking", "answered"}
    BY <1>4
  <2>3. /\ Cardinality(Holding(r)') = Cardinality(Holding(r))
        /\ Cardinality(Served(r)') <= Cardinality(Served(r)) /\ Cardinality(Served(r)') \in Nat
    BY <1>1, <1>3, <2>1, <2>2, OneCallMoves
  <2> QED
    BY <1>1, <1>3, <2>3, RowNumbers DEF RowFine
<1> QED
  BY <1>5, <1>6, <1>7, ByRowNext

\* Midnight, and a step that changes nothing.
LEMMA NothingMoves ==
  ASSUME TierInv, UNCHANGED <<durable, up, call, used, late, leaked, unheard>>, day' \in 0..MaxDay
  PROVE  TierInv'
<1>1. TierTypeOK' /\ RowsKnown'
  BY DEF TierInv, TierTypeOK, RowsKnown
<1>2. ASSUME NEW r \in Row PROVE RowFine(r)'
  <2>1. Holding(r)' = Holding(r) /\ Served(r)' = Served(r)
    BY DEF Holding, Served
  <2> QED
    BY <2>1, ByRow DEF RowFine
<1> QED
  BY <1>1, <1>2, ByRowNext

\* The calls of a row that die with their process.
Cut(s, r) == {c \in Call : call[c].on = s /\ call[c].row = r /\ call[c].pc \in Charged}

LEMMA ProcessEndsKeeps ==
  ASSUME TierInv, NEW s \in Server, ProcessEnds(s)
  PROVE  TierInv'
<1>1. TierTypeOK /\ RowsKnown /\ \A r \in Row : RowFine(r)
  BY ByRow
<1>2. /\ \A c \in Call : call'[c] = IF call[c].on = s /\ call[c].pc \in Charged \cup {"charging"}
                                    THEN [call[c] EXCEPT !.pc = "cut"] ELSE call[c]
      /\ leaked' = [r \in Row |-> leaked[r] + Cardinality(Cut(s, r))]
      /\ UNCHANGED <<durable, day, used, late, unheard>> /\ up' = up \ {s}
      /\ call' = [c \in Call |-> call'[c]]
  BY DEF ProcessEnds, Cut
<1>3. \A r : IsFiniteSet(Cut(s, r)) /\ Cardinality(Cut(s, r)) \in Nat
  <2>1. \A r : Cut(s, r) \in SUBSET Call
    BY DEF Cut
  <2> QED
    BY <2>1, FreeTierAssumption, FS_Subset, FS_CardinalityType
<1>4. ASSUME NEW c \in Call
      PROVE  /\ call'[c] \in CallState /\ call'[c].row = call[c].row /\ call'[c].on = call[c].on
             /\ call'[c].back = call[c].back
             /\ IF call[c].on = s /\ call[c].pc \in Charged \cup {"charging"}
                THEN call'[c].pc = "cut" ELSE call'[c].pc = call[c].pc
  <2>1. call[c] \in CallState
    BY <1>1 DEF TierTypeOK
  <2> QED
    BY <1>2, <2>1 DEF CallState
<1>5. call' \in [Call -> CallState] /\ leaked' \in [Row -> Nat]
  <2>1. \A r \in Row : leaked[r] + Cardinality(Cut(s, r)) \in Nat
    BY <1>1, <1>3 DEF TierTypeOK
  <2> QED
    BY <1>2, <1>4, <2>1
<1>6. TierTypeOK'
  BY <1>1, <1>2, <1>5 DEF TierTypeOK
<1>7. RowsKnown'
  <2> SUFFICES ASSUME NEW c \in Call
               PROVE  /\ call'[c].pc # "idle" => call'[c].on \in Server /\ call'[c].row \in Row
                      /\ call'[c].pc = "refunding" => call'[c].back \in Row
    BY DEF RowsKnown
  <2> QED
    BY <1>1, <1>4 DEF RowsKnown, Charged
<1>8. ASSUME NEW r \in Row PROVE RowFine(r)'
  <2>1. Cut(s, r) \in SUBSET Holding(r) /\ Holding(r)' = Holding(r) \ Cut(s, r)
    BY <1>4 DEF Cut, Holding, Charged
  <2>2. Served(r)' \in SUBSET Served(r)
    BY <1>4 DEF Served, Charged
  <2>3. /\ IsFiniteSet(Holding(r)) /\ IsFiniteSet(Served(r))
        /\ Cardinality(Holding(r)) \in Nat /\ Cardinality(Served(r)) \in Nat
    BY CallsFinite
  <2>4. /\ IsFiniteSet(Holding(r)')
        /\ Cardinality(Holding(r)') = Cardinality(Holding(r)) - Cardinality(Cut(s, r))
    <3>1. Holding(r) \cap Cut(s, r) = Cut(s, r)
      BY <2>1
    <3> QED
      BY <2>1, <2>3, <3>1, FS_Difference
  <2>5. /\ IsFiniteSet(Served(r)') /\ Cardinality(Served(r)') <= Cardinality(Served(r))
    BY <2>2, <2>3, FS_Subset
  <2>6. Cardinality(Served(r)') \in Nat /\ Cardinality(Holding(r)') \in Nat /\ Cardinality(Cut(s, r)) \in Nat
    BY <1>3, <2>4, <2>5, FS_CardinalityType
  <2>7. leaked'[r] = leaked[r] + Cardinality(Cut(s, r)) /\ used'[r] = used[r] /\ late'[r] = late[r]
    BY <1>2
  <2>8. /\ Cardinality(Holding(r)') <= used'[r] + late'[r]
        /\ used'[r] <= Cardinality(Holding(r)') + leaked'[r]
    BY <1>1, <2>3, <2>4, <2>6, <2>7, RowNumbers DEF RowFine
  <2>9. Cardinality(Served(r)') <= Limit + late'[r]
    BY <1>1, <2>3, <2>5, <2>6, <2>7, RowNumbers DEF RowFine
  <2> QED
    BY <2>8, <2>9 DEF RowFine
<1> QED
  BY <1>6, <1>7, <1>8, ByRowNext

-----------------------------------------------------------------------------
(* The daily cap: the theorems *)

LEMMA TierInitially == TierInit => TierInv
<1> SUFFICES ASSUME TierInit PROVE TierInv
  OBVIOUS
<1>1. TierTypeOK /\ RowsKnown
  BY FreeTierAssumption DEF TierInit, TierTypeOK, CallState, Unmade, RowsKnown
<1>2. ASSUME NEW r \in Row PROVE RowFine(r)
  <2>1. Holding(r) = {} /\ Served(r) = {}
    BY DEF TierInit, Unmade, Holding, Served, Charged
  <2>2. used[r] = 0 /\ late[r] = 0 /\ leaked[r] = 0
    BY DEF TierInit
  <2> QED
    BY <2>1, <2>2, FS_EmptySet, FreeTierAssumption DEF RowFine
<1> QED
  BY <1>1, <1>2, ByRow

LEMMA TierStep == TierInv /\ [TierNext]_tierVars => TierInv'
<1> SUFFICES ASSUME TierInv, [TierNext]_tierVars PROVE TierInv'
  OBVIOUS
<1>1. ASSUME NEW c \in Call, NEW s \in Server, Consume(c, s) \/ ConsumeInMemory(c, s)
      PROVE  TierInv'
  BY <1>1, ConsumeKeeps, ConsumeInMemoryKeeps
<1>2. ASSUME NEW c \in Call, Charge(c) \/ ChargeFails(c) \/ GiveBack(c)
      PROVE  TierInv'
  BY <1>2, ChargeKeeps, ChargeFailsKeeps, GiveBackKeeps
<1>3. ASSUME NEW c \in Call, GiveBackFails(c)
      PROVE  TierInv'
  BY <1>3, KeptChargeKeeps DEF GiveBackFails, At
<1>4. ASSUME NEW c \in Call, Answers(c) \/ Fails(c) \/ FailsInMemory(c) \/ Refund(c)
      PROVE  TierInv'
  BY <1>4, AnswersKeeps, FailsKeeps, FailsInMemoryKeeps, RefundKeeps
<1>5. ASSUME NEW c \in Call, RefundFails(c)
      PROVE  TierInv'
  BY <1>5, KeptChargeKeeps DEF RefundFails, At
<1>6. CASE Midnight \/ UNCHANGED tierVars
  <2>1. day \in 0..MaxDay
    BY DEF TierInv, TierTypeOK
  <2>2. day' \in 0..MaxDay
    BY <1>6, <2>1, FreeTierAssumption DEF Midnight, tierVars
  <2> QED
    BY <1>6, <2>2, NothingMoves DEF Midnight, tierVars
<1>7. ASSUME NEW s \in Server, ProcessEnds(s)
      PROVE  TierInv'
  BY <1>7, ProcessEndsKeeps
<1> QED
  BY <1>1, <1>2, <1>3, <1>4, <1>5, <1>6, <1>7 DEF TierNext

THEOREM TierAlways == TierSpec => []TierInv
BY TierInitially, TierStep, PTL DEF TierSpec

\* However the statements of all the processes interleave, fail or are cut off,
\* a row lets no more calls through than the limit, and one more for each refund
\* it gave for a charge of another day (freeTierLimit.ts, lines 22 to 29).
THEOREM CapHolds == TierSpec => []ServedWithinCap
<1>1. TierInv => ServedWithinCap
  BY DEF TierInv
<1> QED
  BY <1>1, TierAlways, PTL

\* The count of a row is of calls answered or under way, and of those whose
\* refund was lost, died with its process or went to another row.
THEOREM FailuresAreFree == TierSpec => []QuotaOnlyForAnswers
<1>1. TierInv => QuotaOnlyForAnswers
  BY DEF TierInv
<1> QED
  BY <1>1, TierAlways, PTL

-----------------------------------------------------------------------------
(* The backstop *)

\* A product grows with either factor.
LEMMA Products ==
  ASSUME NEW n \in Nat, NEW b \in Nat, NEW c \in Nat, b <= c
  PROVE  n * b \in Nat /\ n * c \in Nat /\ n * b <= n * c /\ (n + 1) * b = n * b + b
<1>1. n * b \in Nat /\ n * c \in Nat
  OBVIOUS
<1>2. (n + 1) * b = n * b + b
  OBVIOUS
<1>3. PICK d \in Nat : c = b + d
  <2>1. c - b \in Nat /\ c = b + (c - b)
    OBVIOUS
  <2> QED
    BY <2>1
<1>4. n * c = n * b + n * d /\ n * d \in Nat
  BY <1>3
<1> QED
  BY <1>1, <1>2, <1>4

\* What a month may have cost while its count was as it is now, and what it may
\* have cost under the counts that were lost.
Life(m) == Backstop + peak[m] - 1
Forgotten(m) == resets[m] * Life(m)

\* What the invariant says of one month: the count misses only the uncounted and
\* what was lost with the file, the file is behind it, and it leaves room for the
\* requests at the model.
MonthFine(m) ==
  /\ bill[m] <= Forgotten(m) + spend[m] + uncounted[m]
  /\ saved[m] <= spend[m]
  /\ spend[m] + Cardinality(AtModel(m)) <= Life(m)

GatewayInv == GatewayTypeOK /\ \A m \in Month : MonthFine(m)

\* The requests at the model are finitely many, and every count is one.
LEMMA MonthNumbers ==
  ASSUME GatewayTypeOK, NEW m \in Month
  PROVE  /\ spend[m] \in Nat /\ saved[m] \in Nat /\ bill[m] \in Nat
         /\ uncounted[m] \in Nat /\ resets[m] \in Nat /\ Life(m) \in Nat /\ Forgotten(m) \in Nat
         /\ IsFiniteSet(AtModel(m)) /\ Cardinality(AtModel(m)) \in Nat
<1>1. AtModel(m) \in SUBSET Request
  BY DEF AtModel
<1>2. resets[m] \in Nat /\ peak[m] \in Nat
  BY DEF GatewayTypeOK
<1>3. Life(m) \in Nat
  BY <1>2, GatewayAssumption DEF Life
<1>4. Forgotten(m) \in Nat
  BY <1>2, <1>3, Products DEF Forgotten
<1> QED
  BY <1>1, <1>2, <1>3, <1>4, GatewayAssumption, FS_Subset, FS_CardinalityType DEF GatewayTypeOK

\* Nothing of what earlier counts may have cost is taken back.
LEMMA ForgottenGrows ==
  ASSUME GatewayTypeOK, GatewayTypeOK', NEW m \in Month, peak[m] <= peak'[m], resets'[m] = resets[m]
  PROVE  /\ Life(m) <= Life(m)' /\ Forgotten(m) <= Forgotten(m)'
         /\ Life(m)' \in Nat /\ Forgotten(m)' \in Nat
         /\ peak'[m] = peak[m] => Life(m)' = Life(m) /\ Forgotten(m)' = Forgotten(m)
<1>1. peak[m] \in Nat /\ peak'[m] \in Nat /\ resets[m] \in Nat
  BY DEF GatewayTypeOK
<1>2. /\ Life(m) \in Nat /\ Life(m)' \in Nat /\ Life(m) <= Life(m)'
      /\ peak'[m] = peak[m] => Life(m)' = Life(m)
  BY <1>1, GatewayAssumption DEF Life
<1>3. Forgotten(m) = resets[m] * Life(m) /\ Forgotten(m)' = resets[m] * Life(m)'
  BY DEF Forgotten
<1> QED
  BY <1>1, <1>2, <1>3, Products

\* One more in a count.
LEMMA OneMore ==
  ASSUME NEW f \in [Month -> Nat], NEW m \in Month
  PROVE  /\ More(f, m) \in [Month -> Nat] /\ More(f, m)[m] = f[m] + 1
         /\ \A n \in Month \ {m} : More(f, m)[n] = f[n]
BY DEF More

\* A request that moves, and keeps its month.
LEMMA RequestMoves ==
  ASSUME GatewayTypeOK, NEW r \in Request,
         NEW where \in {"reading", "refused", "failed", "served"}, Becomes(r, where)
  PROVE  /\ request' \in [Request -> [pc : {"unsent", "reading", "upstream", "served", "refused", "failed"},
                                      month : Month]]
         /\ \A m \in Month :
              /\ Cardinality(AtModel(m)') <= Cardinality(AtModel(m)) /\ Cardinality(AtModel(m)') \in Nat
              /\ request[r].pc = "upstream" /\ request[r].month = m =>
                   Cardinality(AtModel(m)') = Cardinality(AtModel(m)) - 1
              /\ ~(request[r].pc = "upstream" /\ request[r].month = m) => AtModel(m)' = AtModel(m)
<1> DEFINE w == [request[r] EXCEPT !.pc = where]
           Shape == [pc : {"unsent", "reading", "upstream", "served", "refused", "failed"}, month : Month]
<1>1. request \in [Request -> Shape] /\ request' = [request EXCEPT ![r] = w]
  BY DEF GatewayTypeOK, Becomes
<1>2. w \in Shape /\ w.pc = where /\ w.month = request[r].month
  BY <1>1
<1> HIDE DEF w
<1>3. /\ request' \in [Request -> Shape] /\ request'[r] = w
      /\ \A q \in Request \ {r} : request'[q] = request[q]
  BY <1>1, <1>2
<1>4. ASSUME NEW m \in Month PROVE AtModel(m)' = AtModel(m) \ {r}
  BY <1>2, <1>3 DEF AtModel
<1>5. ASSUME NEW m \in Month
      PROVE  r \in AtModel(m) <=> request[r].pc = "upstream" /\ request[r].month = m
  BY DEF AtModel
<1>6. ASSUME NEW m \in Month
      PROVE  /\ Cardinality(AtModel(m)') <= Cardinality(AtModel(m)) /\ Cardinality(AtModel(m)') \in Nat
             /\ request[r].pc = "upstream" /\ request[r].month = m =>
                   Cardinality(AtModel(m)') = Cardinality(AtModel(m)) - 1
  <2>1. IsFiniteSet(AtModel(m)) /\ Cardinality(AtModel(m)) \in Nat
    BY MonthNumbers
  <2>2. AtModel(m)' \in SUBSET AtModel(m)
    BY <1>4
  <2>3. IsFiniteSet(AtModel(m)') /\ Cardinality(AtModel(m)') <= Cardinality(AtModel(m))
    BY <2>1, <2>2, FS_Subset
  <2>4. r \in AtModel(m) => Cardinality(AtModel(m)') = Cardinality(AtModel(m)) - 1
    BY <1>4, <2>1, FS_RemoveElement
  <2> QED
    BY <1>5, <2>3, <2>4, FS_CardinalityType
<1>7. ASSUME NEW m \in Month, ~(request[r].pc = "upstream" /\ request[r].month = m)
      PROVE  AtModel(m)' = AtModel(m)
  BY <1>4, <1>5, <1>7
<1> QED
  BY <1>3, <1>6, <1>7

\* A request that is refused, or fails without an answer.
LEMMA UnbilledKeeps ==
  ASSUME GatewayInv, NEW r \in Request, NEW where \in {"reading", "refused", "failed"},
         Becomes(r, where), UNCHANGED <<month, spend, saved, bill, resets, uncounted, peak, faults>>
  PROVE  GatewayInv'
<1>1. GatewayTypeOK /\ GatewayTypeOK'
  BY RequestMoves DEF GatewayInv, GatewayTypeOK
<1>2. ASSUME NEW m \in Month PROVE MonthFine(m)'
  <2>1. Cardinality(AtModel(m)') <= Cardinality(AtModel(m)) /\ Cardinality(AtModel(m)') \in Nat
    BY <1>1, RequestMoves
  <2>2. MonthFine(m)
    BY DEF GatewayInv
  <2>3. Life(m)' = Life(m) /\ Forgotten(m)' = Forgotten(m)
    BY DEF Life, Forgotten
  <2> QED
    BY <1>1, <2>1, <2>2, <2>3, MonthNumbers DEF MonthFine
<1> QED
  BY <1>1, <1>2 DEF GatewayInv

LEMMA ForwardsKeeps ==
  ASSUME GatewayInv, NEW r \in Request, Forwards(r)
  PROVE  GatewayInv'
<1> DEFINE together == Cardinality(AtModel(month) \cup {r})
<1>1. GatewayTypeOK /\ month \in Month /\ request[r].pc = "reading" /\ spend[month] < Backstop
  BY DEF GatewayInv, GatewayTypeOK, Forwards, Stands
<1>2. /\ request' = [request EXCEPT ![r] = [pc |-> "upstream", month |-> month]]
      /\ peak' = [peak EXCEPT ![month] = IF @ < together THEN together ELSE @]
      /\ UNCHANGED <<month, spend, saved, bill, resets, uncounted, faults>>
  BY DEF Forwards
<1>3. /\ request'[r].pc = "upstream" /\ request'[r].month = month
      /\ \A q \in Request \ {r} : request'[q] = request[q]
      /\ request' \in [Request -> [pc : {"unsent", "reading", "upstream", "served", "refused", "failed"},
                                   month : Month]]
  BY <1>1, <1>2 DEF GatewayTypeOK
<1>4. AtModel(month)' = AtModel(month) \cup {r}
  BY <1>2, <1>3 DEF AtModel
<1>5. ASSUME NEW m \in Month \ {month} PROVE AtModel(m)' = AtModel(m)
  BY <1>1, <1>3, <1>5 DEF AtModel
<1>6. together = Cardinality(AtModel(month)') /\ together \in Nat
  BY <1>1, <1>4, MonthNumbers, FS_AddElement, FS_CardinalityType
<1> HIDE DEF together
<1>7. /\ peak' \in [Month -> Nat] /\ together <= peak'[month] /\ peak[month] <= peak'[month]
      /\ \A m \in Month \ {month} : peak'[m] = peak[m]
  <2>1. peak \in [Month -> Nat] /\ (IF peak[month] < together THEN together ELSE peak[month]) \in Nat
    BY <1>1, <1>6 DEF GatewayTypeOK
  <2>2. /\ together <= IF peak[month] < together THEN together ELSE peak[month]
        /\ peak[month] <= IF peak[month] < together THEN together ELSE peak[month]
    BY <1>1, <1>6, <2>1
  <2> QED
    BY <1>1, <1>2, <2>1, <2>2
<1>8. GatewayTypeOK'
  BY <1>1, <1>2, <1>3, <1>7 DEF GatewayTypeOK
<1>9. ASSUME NEW m \in Month PROVE MonthFine(m)'
  <2>1. MonthFine(m)
    BY DEF GatewayInv
  <2>2. peak[m] \in Nat /\ peak'[m] \in Nat /\ peak[m] <= peak'[m]
    BY <1>1, <1>7, <1>8 DEF GatewayTypeOK
  <2>3. /\ Life(m) <= Life(m)' /\ Forgotten(m) <= Forgotten(m)'
        /\ Life(m)' \in Nat /\ Forgotten(m)' \in Nat
        /\ peak'[m] = peak[m] => Life(m)' = Life(m) /\ Forgotten(m)' = Forgotten(m)
    BY <1>1, <1>2, <1>8, <2>2, ForgottenGrows
  <2>4. bill'[m] <= Forgotten(m)' + spend'[m] + uncounted'[m] /\ saved'[m] <= spend'[m]
    BY <1>1, <1>2, <2>1, <2>3, MonthNumbers DEF MonthFine
  <2>5. CASE m = month
    <3>1. Cardinality(AtModel(m)') <= peak'[m] /\ Cardinality(AtModel(m)') \in Nat
      <4>1. AtModel(m)' = AtModel(month)'
        BY <1>2, <2>5 DEF AtModel
      <4>2. together <= peak'[m] /\ peak'[m] \in Nat
        BY <1>7, <2>2, <2>5
      <4> QED
        BY <1>6, <4>1, <4>2
    <3>2. spend'[m] + Cardinality(AtModel(m)') <= Backstop + peak'[m] - 1
      <4>1. spend'[m] < Backstop /\ spend'[m] \in Nat /\ Backstop \in Nat
        BY <1>1, <1>2, <2>5, GatewayAssumption, MonthNumbers
      <4> QED
        BY <2>2, <3>1, <4>1
    <3> QED
      BY <2>4, <3>2 DEF MonthFine, Life
  <2>6. CASE m # month
    <3>1. AtModel(m)' = AtModel(m) /\ Life(m)' = Life(m) /\ spend'[m] = spend[m]
      BY <1>2, <1>5, <1>7, <2>3, <2>6
    <3> QED
      BY <2>1, <2>4, <3>1 DEF MonthFine
  <2> QED
    BY <2>5, <2>6
<1> QED
  BY <1>8, <1>9 DEF GatewayInv

\* An answer, counted in memory or not at all, saved or not.
LEMMA BilledKeeps ==
  ASSUME GatewayInv, NEW r \in Request, request[r].pc = "upstream",
         NEW where \in {"failed", "served"}, Becomes(r, where),
         bill' = More(bill, request[r].month),
         \/ uncounted' = More(uncounted, request[r].month) /\ UNCHANGED spend
         \/ Add(r) /\ UNCHANGED uncounted,
         saved' = spend' \/ UNCHANGED saved,
         UNCHANGED <<month, resets, peak>>, faults' \in 0..MaxFaults
  PROVE  GatewayInv'
<1> DEFINE n == request[r].month
<1>1. /\ GatewayTypeOK /\ n \in Month
      /\ bill \in [Month -> Nat] /\ uncounted \in [Month -> Nat] /\ spend \in [Month -> Nat]
      /\ saved \in [Month -> Nat] /\ peak \in [Month -> Nat] /\ month \in Month
  BY DEF GatewayInv, GatewayTypeOK
<1>2. /\ bill' \in [Month -> Nat] /\ bill'[n] = bill[n] + 1
      /\ \A m \in Month \ {n} : bill'[m] = bill[m]
  BY <1>1, OneMore
<1>3. /\ uncounted' \in [Month -> Nat] /\ spend' \in [Month -> Nat]
      /\ \/ uncounted'[n] = uncounted[n] + 1 /\ spend'[n] = spend[n]
         \/ uncounted'[n] = uncounted[n] /\ spend'[n] = spend[n] + 1
      /\ \A m \in Month \ {n} : uncounted'[m] = uncounted[m] /\ spend'[m] = spend[m]
  BY <1>1, OneMore DEF Add
<1>4. saved' \in [Month -> Nat]
  BY <1>1, <1>3
<1>5. GatewayTypeOK'
  BY <1>1, <1>2, <1>3, <1>4, RequestMoves DEF GatewayTypeOK
<1>6. ASSUME NEW m \in Month PROVE MonthFine(m)'
  <2>1. MonthFine(m)
    BY DEF GatewayInv
  <2>2. (saved'[m] = spend'[m] \/ saved'[m] = saved[m]) /\ Life(m)' = Life(m) /\ Forgotten(m)' = Forgotten(m)
    BY DEF Life, Forgotten
  <2>3. CASE m = n
    <3>1. Cardinality(AtModel(m)') = Cardinality(AtModel(m)) - 1
      BY <1>1, <2>3, RequestMoves
    <3> QED
      BY <1>1, <1>2, <1>3, <2>1, <2>2, <2>3, <3>1, MonthNumbers DEF MonthFine
  <2>4. CASE m # n
    <3>1. AtModel(m)' = AtModel(m) /\ bill'[m] = bill[m] /\ uncounted'[m] = uncounted[m] /\ spend'[m] = spend[m]
      BY <1>1, <1>2, <1>3, <2>4, RequestMoves
    <3> QED
      BY <1>1, <2>1, <2>2, <3>1, MonthNumbers DEF MonthFine
  <2> QED
    BY <2>3, <2>4
<1> QED
  BY <1>5, <1>6 DEF GatewayInv

LEMMA RestartsKeeps ==
  ASSUME GatewayInv, Restarts
  PROVE  GatewayInv'
<1>1. PICK answered \in SUBSET {r \in Request : Stands(r, "upstream")} :
        /\ bill' = [m \in Month |-> bill[m] + Cardinality({r \in answered : request[r].month = m})]
        /\ uncounted' = [m \in Month |-> uncounted[m] + Cardinality({r \in answered : request[r].month = m})
                                                      + (spend[m] - saved[m])]
  BY DEF Restarts
<1> DEFINE unread(m) == Cardinality({r \in answered : request[r].month = m})
<1>2. GatewayTypeOK /\ UNCHANGED <<month, peak>>
  BY DEF GatewayInv, Restarts
<1>r. PICK read \in {saved, Zero} :
        /\ spend' = read /\ saved' = read
        /\ resets' = [m \in Month |-> IF read[m] # saved[m] THEN resets[m] + 1 ELSE resets[m]]
  BY DEF Restarts
<1>f. /\ read \in [Month -> Nat] /\ resets' \in [Month -> Nat]
      /\ \A m \in Month : \/ read[m] = saved[m] /\ resets'[m] = resets[m]
                          \/ read[m] = 0 /\ resets'[m] = resets[m] + 1
  BY <1>2, <1>r DEF GatewayTypeOK, Zero
<1>3. ASSUME NEW r \in Request
      PROVE  /\ request'[r] \in [pc : {"unsent", "reading", "upstream", "served", "refused", "failed"},
                                 month : Month]
             /\ request'[r].pc # "upstream"
  BY <1>2 DEF Restarts, GatewayTypeOK
<1>4. ASSUME NEW m \in Month PROVE unread(m) \in Nat
  <2>1. {r \in answered : request[r].month = m} \in SUBSET Request
    OBVIOUS
  <2> QED
    BY <2>1, GatewayAssumption, FS_Subset, FS_CardinalityType
<1>5. ASSUME NEW m \in Month
      PROVE  /\ bill'[m] = bill[m] + unread(m)
             /\ uncounted'[m] = uncounted[m] + unread(m) + (spend[m] - saved[m])
             /\ saved[m] <= spend[m] /\ bill'[m] \in Nat /\ uncounted'[m] \in Nat
  <2>1. bill'[m] = bill[m] + unread(m) /\ uncounted'[m] = uncounted[m] + unread(m) + (spend[m] - saved[m])
    BY <1>1
  <2>2. saved[m] <= spend[m] /\ unread(m) \in Nat
    BY <1>4 DEF GatewayInv, MonthFine
  <2> HIDE DEF unread
  <2> QED
    BY <1>2, <2>1, <2>2, MonthNumbers
<1>6. bill' \in [Month -> Nat] /\ uncounted' \in [Month -> Nat]
  BY <1>1, <1>5
<1>7. faults' \in 0..MaxFaults
  BY <1>2, GatewayAssumption DEF Restarts, GatewayTypeOK
<1>8. request' \in [Request -> [pc : {"unsent", "reading", "upstream", "served", "refused", "failed"},
                                month : Month]]
  <2>1. request' = [r \in Request |-> request'[r]]
    BY DEF Restarts
  <2> QED
    BY <1>3, <2>1
<1>9. GatewayTypeOK'
  BY <1>2, <1>r, <1>f, <1>6, <1>7, <1>8 DEF GatewayTypeOK
<1>10. ASSUME NEW m \in Month PROVE MonthFine(m)'
  <2>1. AtModel(m)' = {}
    BY <1>3 DEF AtModel
  <2>2. Cardinality(AtModel(m)') = 0
    BY <2>1, FS_EmptySet
  <2>3. MonthFine(m) /\ spend'[m] = read[m] /\ saved'[m] = read[m]
    BY <1>r DEF GatewayInv
  <2>4. unread(m) \in Nat /\ bill'[m] = bill[m] + unread(m)
        /\ uncounted'[m] = uncounted[m] + unread(m) + (spend[m] - saved[m])
    BY <1>4, <1>5
  <2>5. Life(m)' = Life(m) /\ Forgotten(m)' = resets'[m] * Life(m)
    BY <1>2 DEF Life, Forgotten
  <2>6. CASE read[m] = saved[m] /\ resets'[m] = resets[m]
    <3>1. Forgotten(m)' = Forgotten(m)
      BY <2>5, <2>6 DEF Forgotten
    <3> HIDE DEF unread
    <3> QED
      BY <1>2, <2>2, <2>3, <2>4, <2>5, <2>6, <3>1, MonthNumbers DEF MonthFine
  <2>7. CASE read[m] = 0 /\ resets'[m] = resets[m] + 1
    <3>1. Forgotten(m)' = Forgotten(m) + Life(m)
      BY <1>2, <2>5, <2>7, MonthNumbers, Products DEF Forgotten
    <3>2. saved[m] <= Life(m)
      BY <1>2, <2>3, MonthNumbers DEF MonthFine
    <3> HIDE DEF unread
    <3> QED
      BY <1>2, <2>2, <2>3, <2>4, <2>5, <2>7, <3>1, <3>2, MonthNumbers DEF MonthFine
  <2> QED
    BY <1>f, <2>6, <2>7
<1> QED
  BY <1>9, <1>10 DEF GatewayInv

LEMMA GatewayInitially == GatewayInit => GatewayInv
<1> SUFFICES ASSUME GatewayInit PROVE GatewayInv
  OBVIOUS
<1>1. 0 \in Month
  BY GatewayAssumption DEF Month
<1>2. GatewayTypeOK
  BY <1>1, GatewayAssumption DEF GatewayInit, GatewayTypeOK, Zero
<1>3. ASSUME NEW m \in Month PROVE MonthFine(m)
  <2>1. AtModel(m) = {} /\ Cardinality(AtModel(m)) = 0
    BY FS_EmptySet DEF GatewayInit, AtModel
  <2>2. bill[m] = 0 /\ spend[m] = 0 /\ saved[m] = 0 /\ uncounted[m] = 0 /\ peak[m] = 0
    BY DEF GatewayInit, Zero
  <2>3. Life(m) = Backstop - 1
    BY <2>2, GatewayAssumption DEF Life
  <2> QED
    BY <1>2, <2>1, <2>2, <2>3, GatewayAssumption, MonthNumbers DEF MonthFine
<1> QED
  BY <1>2, <1>3 DEF GatewayInv

LEMMA GatewayStep == GatewayInv /\ [GatewayNext]_gatewayVars => GatewayInv'
<1> SUFFICES ASSUME GatewayInv, [GatewayNext]_gatewayVars PROVE GatewayInv'
  OBVIOUS
<1>1. ASSUME NEW r \in Request, Arrives(r) \/ Rejects(r) \/ Exhausted(r) \/ UpstreamFails(r)
      PROVE  GatewayInv'
  BY <1>1, UnbilledKeeps DEF Arrives, Rejects, Exhausted, UpstreamFails
<1>2. ASSUME NEW r \in Request, Forwards(r)
      PROVE  GatewayInv'
  BY <1>2, ForwardsKeeps
<1>3. ASSUME NEW r \in Request, AnswerLost(r) \/ Serves(r) \/ AddUnsaved(r)
      PROVE  GatewayInv'
  <2>1. faults' \in 0..MaxFaults
    BY <1>3, GatewayAssumption DEF GatewayInv, GatewayTypeOK, AnswerLost, Serves, AddUnsaved
  <2>2. CASE AnswerLost(r)
    BY <2>1, <2>2, BilledKeeps DEF AnswerLost, Stands
  <2>3. CASE Serves(r)
    BY <2>1, <2>3, BilledKeeps DEF Serves, Stands
  <2>4. CASE AddUnsaved(r)
    BY <2>1, <2>4, BilledKeeps DEF AddUnsaved, Stands
  <2> QED
    BY <1>3, <2>2, <2>3, <2>4
<1>4. CASE MonthTurns \/ UNCHANGED gatewayVars
  <2>1. GatewayTypeOK'
    <3>1. GatewayTypeOK /\ UNCHANGED <<request, spend, saved, bill, resets, uncounted, peak, faults>>
      BY <1>4 DEF GatewayInv, MonthTurns, gatewayVars
    <3>2. month' \in Month
      BY <1>4, <3>1, GatewayAssumption DEF GatewayTypeOK, MonthTurns, gatewayVars, Month
    <3> QED
      BY <3>1, <3>2 DEF GatewayTypeOK
  <2>2. ASSUME NEW m \in Month PROVE MonthFine(m)'
    <3>1. AtModel(m)' = AtModel(m)
      BY <1>4 DEF AtModel, MonthTurns, gatewayVars
    <3> QED
      BY <1>4, <3>1 DEF GatewayInv, MonthFine, Life, Forgotten, MonthTurns, gatewayVars
  <2> QED
    BY <2>1, <2>2 DEF GatewayInv
<1>5. CASE Restarts
  BY <1>5, RestartsKeeps
<1> QED
  BY <1>1, <1>2, <1>3, <1>4, <1>5 DEF GatewayNext

\* Between two losses of its count a month costs more than the backstop by less than
\* the requests that were at the model at once; what no count knows of comes on top
\* (gateway.ts, line 187; store.ts, lines 9 to 14 and 63 to 78).
THEOREM BackstopHolds == GatewaySpec => []SpendIsBounded
<1>1. GatewayInv => SpendIsBounded
  <2> SUFFICES ASSUME GatewayInv, NEW m \in Month
               PROVE  bill[m] <= (resets[m] + 1) * (Backstop + peak[m] - 1) + uncounted[m]
    BY DEF SpendIsBounded
  <2>1. GatewayTypeOK /\ MonthFine(m)
    BY DEF GatewayInv
  <2>2. (resets[m] + 1) * Life(m) = Forgotten(m) + Life(m)
    BY <2>1, MonthNumbers, Products DEF Forgotten
  <2>3. bill[m] <= (resets[m] + 1) * Life(m) + uncounted[m]
    BY <2>1, <2>2, MonthNumbers DEF MonthFine
  <2> QED
    BY <2>3 DEF Life
<1> QED
  BY <1>1, GatewayInitially, GatewayStep, PTL DEF GatewaySpec
-----------------------------------------------------------------------------
(* The event log: lines at some places of the file *)

\* In a finite set of numbers some member has n - 1 members before it, for each n.
LEMMA EveryRank ==
  ASSUME NEW P \in SUBSET Nat, IsFiniteSet(P), NEW n \in 1..Cardinality(P)
  PROVE  \E i \in P : Cardinality({j \in P : j < i}) = n - 1
<1> DEFINE before(i) == {j \in P : j < i}
           rank == [i \in P |-> Cardinality(before(i))]
           ranks == 0..(Cardinality(P) - 1)
<1>1. Cardinality(P) \in Nat
  BY FS_CardinalityType
<1>2. ASSUME NEW i \in P
      PROVE  IsFiniteSet(before(i)) /\ Cardinality(before(i)) \in ranks
  <2>1. before(i) \in SUBSET P /\ i \notin before(i) /\ i \in P
    OBVIOUS
  <2> HIDE DEF before
  <2>2. IsFiniteSet(before(i)) /\ Cardinality(before(i)) <= Cardinality(P) /\ Cardinality(before(i)) # Cardinality(P)
    BY <2>1, FS_Subset
  <2>3. Cardinality(before(i)) \in Nat
    BY <2>2, FS_CardinalityType
  <2> QED BY <1>1, <2>2, <2>3
<1>3. ASSUME NEW i \in P, NEW j \in P, i < j
      PROVE  rank[i] < rank[j]
  <2>0. i \in Nat /\ j \in Nat /\ \A h \in P : h \in Nat
    OBVIOUS
  <2>1. before(i) \in SUBSET before(j) /\ i \in before(j) /\ i \notin before(i)
    <3>1. \A h \in P : h < i => h < j
      BY <1>3, <2>0
    <3>2. i < j /\ ~ (i < i)
      BY <1>3, <2>0
    <3> QED BY <3>1, <3>2
  <2>2. IsFiniteSet(before(j)) /\ Cardinality(before(i)) \in Nat /\ Cardinality(before(j)) \in Nat
    BY <1>1, <1>2
  <2> HIDE DEF before
  <2>3. Cardinality(before(i)) <= Cardinality(before(j)) /\ Cardinality(before(i)) # Cardinality(before(j))
    BY <2>1, <2>2, FS_Subset
  <2> QED BY <2>2, <2>3
<1>4. rank \in Injection(P, ranks)
  <2>1. rank \in [P -> ranks]
    BY <1>2
  <2>2. \A i, j \in P : rank[i] = rank[j] => i = j
    <3> SUFFICES ASSUME NEW i \in P, NEW j \in P, rank[i] = rank[j], i # j PROVE FALSE
      OBVIOUS
    <3>1. rank[i] \in Int /\ rank[j] \in Int /\ i \in Nat /\ j \in Nat
      BY <2>1
    <3> HIDE DEF rank
    <3>2. i < j \/ j < i
      BY <3>1
    <3> QED BY <1>3, <3>1, <3>2
  <2> HIDE DEF rank, ranks
  <2> QED BY <2>1, <2>2 DEF Injection, IsInjective
<1>5. IsFiniteSet(ranks) /\ Cardinality(ranks) = Cardinality(P)
  <2>1. 0 \in Int /\ Cardinality(P) - 1 \in Int /\ ~ (0 > Cardinality(P) - 1)
    BY <1>1
  <2> QED BY <1>1, <2>1, FS_Interval
<1>6. n - 1 \in ranks
  BY <1>1
<1> HIDE DEF rank, ranks
<1>7. rank \in Surjection(P, ranks)
  BY <1>4, <1>5, FS_Injection
<1>8. PICK i \in P : rank[i] = n - 1
  BY <1>6, <1>7 DEF Surjection
<1> QED BY <1>8 DEF rank

LEMMA LinesAtType ==
  ASSUME file \in Seq(Line), NEW P \in SUBSET (DOMAIN file)
  PROVE  LinesAt(P) \in Seq(Line) /\ \A n \in DOMAIN LinesAt(P) : \E i \in P : LinesAt(P)[n] = file[i]
<1> DEFINE place(n) == CHOOSE i \in P : Cardinality({j \in P : j < i}) = n - 1
<1>1. DOMAIN file = 1..Len(file) /\ Len(file) \in Nat
  OBVIOUS
<1>2. P \in SUBSET Nat /\ P \in SUBSET (1..Len(file)) /\ IsFiniteSet(1..Len(file))
  BY <1>1, FS_Interval
<1>3. IsFiniteSet(P) /\ Cardinality(P) \in Nat
  BY <1>2, FS_Subset, FS_CardinalityType
<1>4. \A n \in 1..Cardinality(P) : place(n) \in P
  BY <1>2, <1>3, EveryRank
<1>5. LinesAt(P) = [n \in 1..Cardinality(P) |-> file[place(n)]]
  BY DEF LinesAt
<1> HIDE DEF place
<1>6. \A n \in 1..Cardinality(P) : file[place(n)] \in Line
  BY <1>1, <1>2, <1>4
<1>7. LinesAt(P) \in Seq(Line)
  BY <1>3, <1>5, <1>6, IsASeq
<1> QED BY <1>4, <1>5, <1>7

\* A part of a sequence, place by place.
LEMMA Part ==
  ASSUME NEW S, NEW s \in Seq(S), NEW k \in 0..Len(s), NEW m \in k..Len(s)
  PROVE  /\ SubSeq(s, k + 1, m) = [n \in 1..(m - k) |-> s[k + n]]
         /\ SubSeq(s, k + 1, m) \in Seq(S) /\ Len(SubSeq(s, k + 1, m)) = m - k
         /\ \A n \in 1..(m - k) : SubSeq(s, k + 1, m)[n] = s[k + n]
<1>0. k \in Nat /\ m \in Nat /\ k <= m /\ m <= Len(s) /\ Len(s) \in Nat
  OBVIOUS
<1>1. \A i \in (k + 1)..m : s[i] \in S
  BY <1>0
<1>2. k + 1 \in Int /\ m \in Int
  BY <1>0
<1>3. /\ SubSeq(s, k + 1, m) \in Seq(S) /\ Len(SubSeq(s, k + 1, m)) = m - k
      /\ \A n \in 1..(m - k) : SubSeq(s, k + 1, m)[n] = s[k + n]
  BY <1>0, <1>1, <1>2, SubSeqProperties
<1> QED BY <1>3

\* A part of a sequence that grew by one.
LEMMA PartGrows ==
  ASSUME NEW S, NEW s \in Seq(S), NEW l \in S, NEW k \in 0..Len(s), NEW m \in k..Len(s)
  PROVE  /\ SubSeq(Append(s, l), k + 1, m) = SubSeq(s, k + 1, m)
         /\ SubSeq(Append(s, l), k + 1, Len(s) + 1) = Append(SubSeq(s, k + 1, Len(s)), l)
<1> DEFINE n == Len(s)
           t == Append(s, l)
<1>1. n \in Nat /\ k \in Nat /\ m \in Nat /\ k <= m /\ m <= n
  OBVIOUS
<1>2. t \in Seq(S) /\ Len(t) = n + 1 /\ (\A i \in 1..n : t[i] = s[i]) /\ t[n + 1] = l
  BY AppendProperties
<1> HIDE DEF t
<1>3. k \in 0..Len(t) /\ m \in k..Len(t) /\ n + 1 \in k..Len(t) /\ n \in k..n
  BY <1>1, <1>2
<1>4. SubSeq(t, k + 1, m) = [i \in 1..(m - k) |-> t[k + i]] /\ SubSeq(s, k + 1, m) = [i \in 1..(m - k) |-> s[k + i]]
  BY <1>2, <1>3, Part
<1>5. \A i \in 1..(m - k) : t[k + i] = s[k + i]
  BY <1>1, <1>2
<1>6. /\ SubSeq(t, k + 1, n + 1) \in Seq(S) /\ Len(SubSeq(t, k + 1, n + 1)) = n + 1 - k
      /\ \A i \in 1..(n + 1 - k) : SubSeq(t, k + 1, n + 1)[i] = t[k + i]
  BY <1>2, <1>3, Part
<1>7. /\ SubSeq(s, k + 1, n) \in Seq(S) /\ Len(SubSeq(s, k + 1, n)) = n - k
      /\ \A i \in 1..(n - k) : SubSeq(s, k + 1, n)[i] = s[k + i]
  BY <1>1, <1>3, Part
<1> DEFINE u == SubSeq(s, k + 1, n)
           v == Append(u, l)
<1>8. v \in Seq(S) /\ Len(v) = n - k + 1 /\ (\A i \in 1..(n - k) : v[i] = u[i]) /\ v[n - k + 1] = l
  BY <1>7, AppendProperties
<1>9. \A i \in 1..(n + 1 - k) : v[i] = t[k + i]
  <2> HIDE DEF v, u
  <2>1. ASSUME NEW i \in 1..(n + 1 - k) PROVE v[i] = t[k + i]
    <3>1. CASE i = n + 1 - k
      <4>1. v[i] = l /\ k + i = n + 1
        BY <1>1, <1>8, <3>1
      <4> QED BY <1>2, <4>1
    <3>2. CASE i # n + 1 - k
      <4>1. i \in 1..(n - k) /\ k + i \in 1..n
        BY <1>1, <3>2
      <4>2. v[i] = u[i] /\ u[i] = s[k + i] /\ t[k + i] = s[k + i]
        BY <1>2, <1>7, <1>8, <4>1 DEF u
      <4> QED BY <4>2
    <3> QED BY <3>1, <3>2
  <2> QED BY <2>1
<1>10. SubSeq(t, k + 1, n + 1) = v
  <2> HIDE DEF v, n
  <2>1. Len(v) = Len(SubSeq(t, k + 1, n + 1))
    BY <1>1, <1>6, <1>8
  <2>2. \A i \in 1..Len(v) : v[i] = SubSeq(t, k + 1, n + 1)[i]
    BY <1>1, <1>6, <1>8, <1>9, <2>1
  <2> QED BY <1>6, <1>8, <2>1, <2>2, SeqEqual
<1> QED BY <1>4, <1>5, <1>10 DEF t

\* The places after the first k, and the first k of them.
LEMMA LinesBetween ==
  ASSUME file \in Seq(Line), NEW k \in 0..Len(file), NEW m \in k..Len(file)
  PROVE  LinesAt((k + 1)..m) = SubSeq(file, k + 1, m)
<1> DEFINE P == (k + 1)..m
           place(n) == CHOOSE i \in P : Cardinality({j \in P : j < i}) = n - 1
<1>0. k \in Nat /\ m \in Nat /\ k <= m /\ m <= Len(file) /\ Len(file) \in Nat
  OBVIOUS
<1>1. Cardinality(P) = m - k
  <2>1. k + 1 \in Int /\ m \in Int
    BY <1>0
  <2>2. Cardinality(P) = IF k + 1 > m THEN 0 ELSE m - (k + 1) + 1
    BY <2>1, FS_Interval
  <2> QED BY <1>0, <2>2
<1>2. ASSUME NEW n \in 1..(m - k)
      PROVE  place(n) = k + n
  <2>1. ASSUME NEW i \in P PROVE Cardinality({j \in P : j < i}) = i - k - 1
    <3>1. {j \in P : j < i} = (k + 1)..(i - 1) /\ i \in Nat /\ i >= k + 1
      BY <1>0
    <3>2. Cardinality((k + 1)..(i - 1)) = i - k - 1
      BY <1>0, <3>1, FS_Interval
    <3> QED BY <3>1, <3>2
  <2>2. k + n \in P
    BY <1>0
  <2>3. \A i \in P : Cardinality({j \in P : j < i}) = n - 1 <=> i = k + n
    BY <1>0, <2>1
  <2> HIDE DEF P
  <2> QED BY <2>2, <2>3
<1>3. LinesAt(P) = [n \in 1..(m - k) |-> file[k + n]]
  <2>1. LinesAt(P) = [n \in 1..Cardinality(P) |-> file[place(n)]]
    BY DEF LinesAt
  <2> HIDE DEF place, P
  <2> QED BY <1>1, <1>2, <2>1
<1>4. SubSeq(file, k + 1, m) = [n \in 1..(m - k) |-> file[k + n]]
  BY <1>0, Part
<1> QED BY <1>3, <1>4

-----------------------------------------------------------------------------
(* The event log: the inductive invariant *)

\* The seq of the line at place k; the cursor of a client that saw none.
SeqAt(k) == IF k = 0 THEN 0 ELSE file[k].seq

\* A client saw the first k lines, the next ones up to m are on their way, and
\* nothing was left out of a stream that is still open, but for an event that
\* nobody was told of.
Follows(s, k, m) ==
  /\ k <= m
  /\ s.cursor = SeqAt(k)
  /\ s.seen = [i \in 1..k |-> file[i].event]
  /\ s.wire = SubSeq(file, k + 1, m)
  /\ s.open /\ torn # "all" => m = Len(file)

\* While no line was glued: all of them can be read, in the order of their seqs.
CleanInv ==
  /\ \A i \in 1..Len(file) : file[i].whole
  /\ \A i, j \in 1..Len(file) : i < j => file[i].seq < file[j].seq
  /\ going => \A i \in 1..Len(file) : file[i].seq <= nextSeq
  /\ \A c \in Client : \E k, m \in 0..Len(file) : Follows(stream[c], k, m)

\* The counter never runs ahead of what was tried.
BoundInv ==
  /\ nextSeq <= told + cuts
  /\ torn = "all" => file # << >>
  /\ \A i \in 1..Len(file) : file[i].seq <= told + cuts
  /\ \A c \in Client : stream[c].open => going

EventInv == EventTypeOK /\ BoundInv /\ (glued \/ CleanInv)

USE RunEventsAssumption

LEMMA FileFacts ==
  ASSUME EventTypeOK
  PROVE  /\ Len(file) \in Nat /\ DOMAIN file = 1..Len(file)
         /\ \A i \in 1..Len(file) : file[i] \in Line /\ file[i].seq \in Nat \ {0} /\ file[i].event \in 1..MaxEvents
<1>1. file \in Seq(Line)
  BY DEF EventTypeOK
<1>2. Len(file) \in Nat /\ DOMAIN file = 1..Len(file) /\ \A i \in 1..Len(file) : file[i] \in Line
  BY <1>1
<1>3. \A l \in Line : l.seq \in Nat \ {0} /\ l.event \in 1..MaxEvents
  BY DEF Line
<1> QED BY <1>2, <1>3

\* Among clean lines those after a cursor are the ones after its place.
LEMMA ReadsTheRest ==
  ASSUME EventTypeOK, CleanInv, NEW k \in 0..Len(file)
  PROVE  /\ ReadRunEvents(SeqAt(k)) = SubSeq(file, k + 1, Len(file))
         /\ LinesAt({i \in DOMAIN file : file[i].whole /\ file[i].seq <= SeqAt(k)}) = SubSeq(file, 1, k)
<1>1. /\ Len(file) \in Nat /\ DOMAIN file = 1..Len(file) /\ file \in Seq(Line)
      /\ \A i \in 1..Len(file) : file[i].seq \in Nat \ {0} /\ file[i].whole
      /\ \A i, j \in 1..Len(file) : i < j => file[i].seq < file[j].seq
  BY FileFacts DEF EventTypeOK, CleanInv
<1>2. ASSUME NEW i \in 1..Len(file) PROVE file[i].seq <= SeqAt(k) <=> i <= k
  <2>1. CASE k = 0
    BY <1>1, <2>1 DEF SeqAt
  <2>2. CASE k # 0
    <3>1. k \in 1..Len(file) /\ SeqAt(k) = file[k].seq
      BY <2>2 DEF SeqAt
    <3>2. file[i].seq \in Nat /\ file[k].seq \in Nat
      BY <1>1, <3>1
    <3>3. CASE i < k
      BY <1>1, <3>1, <3>2, <3>3
    <3>4. CASE i = k
      BY <3>1, <3>2, <3>4
    <3>5. CASE i > k
      <4>1. file[k].seq < file[i].seq
        BY <1>1, <3>1, <3>5
      <4> QED BY <3>1, <3>2, <3>5, <4>1
    <3> QED BY <3>1, <3>3, <3>4, <3>5
  <2> QED BY <2>1, <2>2
<1>3. SeqAt(k) \in Nat
  BY <1>1 DEF SeqAt
<1>4. {i \in DOMAIN file : file[i].whole /\ file[i].seq > SeqAt(k)} = (k + 1)..Len(file)
  <2>1. \A i \in 1..Len(file) : file[i].seq > SeqAt(k) <=> i > k
    <3> SUFFICES ASSUME NEW i \in 1..Len(file) PROVE file[i].seq > SeqAt(k) <=> i > k
      OBVIOUS
    <3>1. file[i].seq \in Nat /\ (file[i].seq <= SeqAt(k) <=> i <= k)
      BY <1>1, <1>2
    <3> QED BY <1>3, <3>1
  <2> QED BY <1>1, <2>1
<1>5. {i \in DOMAIN file : file[i].whole /\ file[i].seq <= SeqAt(k)} = (0 + 1)..k
  BY <1>1, <1>2
<1>6. LinesAt((k + 1)..Len(file)) = SubSeq(file, k + 1, Len(file))
  <2>1. Len(file) \in k..Len(file)
    BY <1>1
  <2> QED BY <1>1, <2>1, LinesBetween
<1>7. LinesAt((0 + 1)..k) = SubSeq(file, 0 + 1, k)
  BY <1>1, LinesBetween
<1>8. ReadRunEvents(SeqAt(k)) = SubSeq(file, k + 1, Len(file))
  BY <1>4, <1>6 DEF ReadRunEvents
<1>9. LinesAt({i \in DOMAIN file : file[i].whole /\ file[i].seq <= SeqAt(k)}) = SubSeq(file, 1, k)
  <2>1. 0 + 1 = 1
    OBVIOUS
  <2> QED BY <1>5, <1>7, <2>1
<1> QED BY <1>8, <1>9

LEMMA MeansSeen == EventInv => CursorMeansSeen
<1> SUFFICES ASSUME EventInv, NEW c \in Client, ~glued
             PROVE  LET passed == LinesAt({i \in DOMAIN file : file[i].whole /\ file[i].seq <= stream[c].cursor})
                    IN stream[c].seen = [i \in DOMAIN passed |-> passed[i].event]
  BY DEF CursorMeansSeen
<1>1. PICK k \in 0..Len(file), m \in 0..Len(file) : Follows(stream[c], k, m)
  BY DEF EventInv, CleanInv
<1>2. EventTypeOK /\ CleanInv /\ file \in Seq(Line) /\ Len(file) \in Nat
  BY DEF EventInv, EventTypeOK
<1>3. stream[c].cursor = SeqAt(k) /\ stream[c].seen = [i \in 1..k |-> file[i].event]
  BY <1>1 DEF Follows
<1>4. LinesAt({i \in DOMAIN file : file[i].whole /\ file[i].seq <= SeqAt(k)}) = SubSeq(file, 1, k)
  BY <1>2, ReadsTheRest
<1>5. /\ DOMAIN SubSeq(file, 1, k) = 1..k
      /\ \A i \in 1..k : SubSeq(file, 1, k)[i] = file[i]
  BY <1>2
<1> QED BY <1>3, <1>4, <1>5

-----------------------------------------------------------------------------
(* The event log: types and the bound of the counter *)

Stream == [cursor : 0..(MaxEvents + MaxCuts), seen : Seq(1..MaxEvents), wire : Seq(Line), open : BOOLEAN]

\* A stream that is cut, or has a line put on it, is one.
LEMMA StreamType ==
  ASSUME NEW s \in Stream
  PROVE  /\ [s EXCEPT !.open = FALSE, !.wire = << >>] \in Stream
         /\ \A o \in BOOLEAN : [s EXCEPT !.open = o] \in Stream
         /\ \A l \in Line, o \in BOOLEAN : [SendEvent(s, l) EXCEPT !.open = o] \in Stream
         /\ \A w \in Seq(Line), o \in BOOLEAN : [s EXCEPT !.wire = w, !.open = o] \in Stream
<1>1. << >> \in Seq(Line) /\ s.wire \in Seq(Line)
  BY DEF Stream
<1>2. \A l \in Line : SendEvent(s, l) \in Stream
  <2> SUFFICES ASSUME NEW l \in Line PROVE SendEvent(s, l) \in Stream
    OBVIOUS
  <2>1. Append(s.wire, l) \in Seq(Line)
    BY <1>1, AppendProperties
  <2>2. [s EXCEPT !.wire = Append(@, l)] \in Stream
    BY <2>1 DEF Stream
  <2> QED BY <2>2 DEF SendEvent
<1>3. \A t \in Stream, o \in BOOLEAN : [t EXCEPT !.open = o] \in Stream
  BY DEF Stream
<1>4. [s EXCEPT !.open = FALSE, !.wire = << >>] \in Stream
  BY <1>1 DEF Stream
<1>5. \A w \in Seq(Line), o \in BOOLEAN : [s EXCEPT !.wire = w, !.open = o] \in Stream
  BY DEF Stream
<1> QED BY <1>2, <1>3, <1>4, <1>5

TypedBound == EventTypeOK /\ BoundInv

LEMMA LastSeqBound ==
  ASSUME TypedBound
  PROVE  LastCommittedSeq \in 0..(told + cuts)
<1> DEFINE P == {i \in DOMAIN file : file[i].whole /\ file[i].seq > 0}
           events == ReadRunEvents(0)
<1>1. file \in Seq(Line) /\ P \in SUBSET DOMAIN file /\ events = LinesAt(P) /\ told \in Nat /\ cuts \in Nat
  BY DEF TypedBound, EventTypeOK, ReadRunEvents
<1> HIDE DEF P, events
<1>2. events \in Seq(Line) /\ \A n \in DOMAIN events : \E i \in P : events[n] = file[i]
  BY <1>1, LinesAtType
<1>3. CASE events = << >>
  BY <1>1, <1>3 DEF LastCommittedSeq, events
<1>4. CASE events # << >>
  <2>1. Len(events) \in DOMAIN events
    BY <1>2, <1>4
  <2>2. PICK i \in DOMAIN file : events[Len(events)] = file[i]
    BY <1>1, <1>2, <2>1
  <2>3. file[i].seq \in Nat /\ file[i].seq <= told + cuts
    BY <2>2, FileFacts DEF TypedBound, BoundInv
  <2> QED BY <1>1, <1>4, <2>2, <2>3 DEF LastCommittedSeq, events
<1> QED BY <1>3, <1>4

LEMMA SeqsNat == \A f \in Seq(Line) : \A i \in 1..Len(f) : f[i].seq \in Nat
<1>1. \A f \in Seq(Line) : \A i \in 1..Len(f) : f[i] \in Line
  OBVIOUS
<1>2. \A l \in Line : l.seq \in Nat
  BY DEF Line
<1> QED BY <1>1, <1>2

LEMMA NextLineType ==
  ASSUME TypedBound, told < MaxEvents
  PROVE  NextLine \in Line /\ NextLine.seq = nextSeq + 1 /\ (torn = "no" => NextLine.whole)
<1> DEFINE w == torn = "no"
<1>1. told + 1 \in 1..MaxEvents /\ nextSeq + 1 \in 1..(MaxEvents + MaxCuts)
  <2>1. nextSeq \in Nat /\ told \in Nat /\ cuts \in 0..MaxCuts /\ nextSeq <= told + cuts
    BY DEF TypedBound, EventTypeOK, BoundInv
  <2> QED BY <2>1
<1>2. NextLine = [event |-> told + 1, seq |-> nextSeq + 1, whole |-> w]
  BY DEF NextLine
<1>3. w \in BOOLEAN /\ (torn = "no" => w)
  OBVIOUS
<1> HIDE DEF w
<1> QED BY <1>1, <1>2, <1>3 DEF Line

\* What an append leaves: a line behind the others, or none and the last one
\* spoilt.
LEMMA WrittenType ==
  ASSUME TypedBound
  PROVE  /\ told < MaxEvents => Append(file, NextLine) \in Seq(Line)
              /\ \A i \in 1..Len(Append(file, NextLine)) : Append(file, NextLine)[i].seq <= told + cuts + 1
         /\ torn = "all" => Spoilt \in Seq(Line) /\ \A i \in 1..Len(Spoilt) : Spoilt[i].seq <= told + cuts
<1> DEFINE n == Len(file)
<1>1. /\ file \in Seq(Line) /\ n \in Nat /\ nextSeq \in Nat /\ told \in Nat /\ cuts \in Nat
      /\ nextSeq <= told + cuts /\ (torn = "all" => file # << >>)
      /\ \A i \in 1..n : file[i] \in Line /\ file[i].seq \in Nat /\ file[i].seq <= told + cuts
  BY FileFacts DEF TypedBound, EventTypeOK, BoundInv
<1>2. ASSUME told < MaxEvents
      PROVE  /\ Append(file, NextLine) \in Seq(Line)
             /\ \A i \in 1..Len(Append(file, NextLine)) : Append(file, NextLine)[i].seq <= told + cuts + 1
  <2> DEFINE f == Append(file, NextLine)
  <2>1. NextLine \in Line /\ NextLine.seq = nextSeq + 1
    BY <1>2, NextLineType
  <2>2. f \in Seq(Line) /\ Len(f) = n + 1 /\ (\A i \in 1..n : f[i] = file[i]) /\ f[n + 1] = NextLine
    BY <1>1, <2>1, AppendProperties
  <2> HIDE DEF f, n
  <2>3. ASSUME NEW i \in 1..Len(f) PROVE f[i].seq <= told + cuts + 1
    <3>1. CASE i = n + 1
      BY <1>1, <2>1, <2>2, <3>1
    <3>2. CASE i # n + 1
      <4>1. i \in 1..n /\ f[i] = file[i]
        BY <1>1, <2>2, <3>2
      <4>2. file[i].seq \in Nat /\ file[i].seq <= told + cuts
        BY <1>1, <4>1
      <4> QED BY <1>1, <4>1, <4>2
    <3> QED BY <3>1, <3>2
  <2> QED BY <2>2, <2>3 DEF f
<1>3. ASSUME torn = "all" PROVE Spoilt \in Seq(Line) /\ \A i \in 1..Len(Spoilt) : Spoilt[i].seq <= told + cuts
  <2> DEFINE bad == [file[n] EXCEPT !.whole = FALSE]
             f == [file EXCEPT ![n] = bad]
  <2>1. n \in 1..n /\ file[n] \in Line
    BY <1>1, <1>3
  <2>2. bad \in Line /\ bad.seq = file[n].seq
    BY <2>1 DEF Line
  <2>3. Spoilt = f
    BY DEF Spoilt
  <2> HIDE DEF bad
  <2>4. f \in Seq(Line) /\ Len(f) = n /\ \A i \in 1..n : f[i] = IF i = n THEN bad ELSE file[i]
    BY <1>1, <2>1, <2>2
  <2> HIDE DEF f, n
  <2>5. \A i \in 1..Len(f) : f[i].seq <= told + cuts
    BY <1>1, <2>1, <2>2, <2>4
  <2> QED BY <2>3, <2>4, <2>5
<1> QED BY <1>2, <1>3

LEMMA TearType ==
  ASSUME TypedBound, Tear \/ UNCHANGED <<file, torn, glued>>
  PROVE  /\ file' \in Seq(Line) /\ \A i \in 1..Len(file') : file'[i].seq <= told + cuts + 1
         /\ torn' \in {"no", "part", "all"} /\ (torn' = "all" => file' # << >>) /\ glued' \in BOOLEAN
<1>1. /\ file \in Seq(Line) /\ told \in Nat /\ cuts \in Nat /\ torn \in {"no", "part", "all"}
      /\ glued \in BOOLEAN /\ (torn = "all" => file # << >>)
      /\ \A i \in 1..Len(file) : file[i].seq \in Nat /\ file[i].seq <= told + cuts
  BY FileFacts DEF TypedBound, EventTypeOK, BoundInv
<1>2. \A i \in 1..Len(file) : file[i].seq <= told + cuts + 1
  BY <1>1
<1>3. CASE UNCHANGED <<file, torn, glued>>
  BY <1>1, <1>2, <1>3
<1>4. CASE torn' = "part" /\ file' = (IF torn = "all" THEN Spoilt ELSE file) /\ glued' = (glued \/ torn = "all")
  <2>0. glued' \in BOOLEAN
    BY <1>4, Zenon
  <2>1. CASE torn # "all"
    BY <1>1, <1>2, <1>4, <2>0, <2>1
  <2>2. CASE torn = "all"
    <3>1. file' = Spoilt
      BY <1>4, <2>2
    <3>2. Spoilt \in Seq(Line) /\ \A i \in 1..Len(Spoilt) : Spoilt[i].seq <= told + cuts
      BY <2>2, WrittenType
    <3>3. \A i \in 1..Len(Spoilt) : Spoilt[i].seq \in Nat
      BY <3>2, SeqsNat
    <3>4. \A i \in 1..Len(Spoilt) : Spoilt[i].seq <= told + cuts + 1
      BY <1>1, <3>2, <3>3
    <3> QED BY <1>4, <2>0, <3>1, <3>2, <3>4
  <2> QED BY <2>1, <2>2
<1>5. CASE torn' = "all" /\ told < MaxEvents /\ file' = Append(file, NextLine) /\ UNCHANGED glued
  <2>1. /\ Append(file, NextLine) \in Seq(Line)
        /\ \A i \in 1..Len(Append(file, NextLine)) : Append(file, NextLine)[i].seq <= told + cuts + 1
    BY <1>5, WrittenType
  <2>2. Append(file, NextLine) # << >>
    <3>1. NextLine \in Line
      BY <1>5, NextLineType
    <3>2. Len(Append(file, NextLine)) = Len(file) + 1 /\ Len(file) \in Nat
      BY <1>1, <3>1, AppendProperties
    <3>3. Len(Append(file, NextLine)) # 0
      BY <3>2
    <3> QED BY <2>1, <3>3
  <2> QED BY <1>1, <1>5, <2>1, <2>2
<1> QED BY <1>3, <1>4, <1>5 DEF Tear

LEMMA TypedStep == TypedBound /\ [EventNext]_eventVars => TypedBound'
<1> SUFFICES ASSUME TypedBound, [EventNext]_eventVars PROVE TypedBound'
  OBVIOUS
<1>0. /\ file \in Seq(Line) /\ torn \in {"no", "part", "all"} /\ going \in BOOLEAN /\ glued \in BOOLEAN
      /\ (torn = "all" => file # << >>)
      /\ nextSeq \in Nat /\ told \in 0..MaxEvents /\ cuts \in 0..MaxCuts
      /\ nextSeq <= told + cuts /\ stream \in [Client -> Stream]
      /\ MaxEvents \in Nat /\ MaxCuts \in Nat /\ told \in Nat /\ cuts \in Nat
      /\ \A c \in Client : stream[c].open => going
      /\ \A i \in 1..Len(file) : file[i].seq \in Nat /\ file[i].seq <= told + cuts
  BY FileFacts DEF TypedBound, EventTypeOK, BoundInv, Stream
\* What is left to show of a step: the counters, the file and the streams.
<1>1. ASSUME file' \in Seq(Line), torn' \in {"no", "part", "all"}, torn' = "all" => file' # << >>,
             going' \in BOOLEAN, glued' \in BOOLEAN,
             told' \in 0..MaxEvents, cuts' \in 0..MaxCuts, nextSeq' \in 0..(told' + cuts'),
             \A i \in 1..Len(file') : file'[i].seq <= told' + cuts',
             stream' \in [Client -> Stream], \A c \in Client : stream'[c].open => going'
      PROVE  TypedBound'
  <2>1. nextSeq' \in 0..(MaxEvents + MaxCuts) /\ nextSeq' <= told' + cuts'
    BY <1>0, <1>1
  <2> QED BY <1>1, <2>1 DEF TypedBound, EventTypeOK, BoundInv, Stream
<1>2. CASE OpenRunLog
  <2>1. nextSeq' \in 0..(told + cuts)
    BY <1>2, LastSeqBound DEF OpenRunLog
  <2> QED BY <1>0, <1>1, <1>2, <2>1 DEF OpenRunLog
<1>3. ASSUME NEW finished \in BOOLEAN, Commit(finished) PROVE TypedBound'
  <2> DEFINE l == NextLine
  <2>1. /\ going /\ told < MaxEvents /\ told' = told + 1 /\ nextSeq' = nextSeq + 1
        /\ file' = IF torn = "all" THEN Spoilt ELSE Append(file, l)
        /\ torn' = "no" /\ glued' = (glued \/ torn # "no") /\ going' = ~finished /\ cuts' = cuts
        /\ stream' = [c \in Client |->
             IF stream[c].open THEN [SendEvent(stream[c], l) EXCEPT !.open = ~finished] ELSE stream[c]]
    BY <1>3 DEF Commit
  <2>2. l \in Line
    BY <2>1, NextLineType
  <2> HIDE DEF l
  <2>4. file' \in Seq(Line) /\ \A i \in 1..Len(file') : file'[i].seq <= told' + cuts'
    <3>1. told' \in Nat /\ cuts' \in Nat /\ told' + cuts' = told + cuts + 1
      BY <1>0, <2>1
    <3>2. /\ told < MaxEvents => Append(file, NextLine) \in Seq(Line)
               /\ \A i \in 1..Len(Append(file, NextLine)) : Append(file, NextLine)[i].seq <= told + cuts + 1
          /\ torn = "all" => Spoilt \in Seq(Line) /\ \A i \in 1..Len(Spoilt) : Spoilt[i].seq <= told + cuts
      BY WrittenType
    <3>3. CASE torn = "all"
      <4>1. file' = Spoilt
        BY <2>1, <3>3
      <4>2. \A i \in 1..Len(file') : file'[i].seq \in Nat /\ file'[i].seq <= told + cuts
        BY <3>2, <3>3, <4>1, SeqsNat
      <4> QED BY <1>0, <3>1, <3>2, <3>3, <4>1, <4>2
    <3>4. CASE torn # "all"
      <4>1. file' = Append(file, NextLine)
        BY <2>1, <3>4 DEF l
      <4> QED BY <2>1, <3>1, <3>2, <4>1
    <3> QED BY <3>3, <3>4
  <2>5. ASSUME NEW c \in Client PROVE stream'[c] \in Stream /\ (stream'[c].open => going')
    <3>1. CASE stream[c].open
      <4>0. stream[c] \in Stream
        BY <1>0
      <4>1. (~finished) \in BOOLEAN
        OBVIOUS
      <4>2. stream'[c] = [SendEvent(stream[c], l) EXCEPT !.open = ~finished]
        BY <2>1, <3>1
      <4>3. [SendEvent(stream[c], l) EXCEPT !.open = ~finished] \in Stream
        BY <2>2, <4>0, <4>1, StreamType
      <4>4. stream'[c].open = ~finished
        <5>1. SendEvent(stream[c], l) \in Stream
          <6>1. SendEvent(stream[c], l) = stream[c] \/ SendEvent(stream[c], l) = [stream[c] EXCEPT !.wire = Append(@, l)]
            BY DEF SendEvent
          <6>2. Append(stream[c].wire, l) \in Seq(Line)
            BY <2>2, <4>0, AppendProperties DEF Stream
          <6> QED BY <4>0, <6>1, <6>2 DEF Stream
        <5> QED BY <4>2, <5>1 DEF Stream
      <4> QED BY <2>1, <4>2, <4>3, <4>4
    <3>2. CASE ~stream[c].open
      BY <1>0, <2>1, <3>2
    <3> QED BY <3>1, <3>2
  <2>6. stream' \in [Client -> Stream] /\ \A c \in Client : stream'[c].open => going'
    <3>1. DOMAIN stream' = Client /\ stream' = [c \in Client |-> stream'[c]]
      BY <2>1
    <3> QED BY <2>5, <3>1
  <2>7. torn' = "no" /\ glued' \in BOOLEAN /\ going' \in BOOLEAN
    BY <1>0, <2>1, Zenon
  <2>9. told' \in 0..MaxEvents /\ nextSeq' \in 0..(told' + cuts')
    <3>1. told' = told + 1 /\ nextSeq' = nextSeq + 1 /\ told < MaxEvents /\ cuts' = cuts
      BY <2>1
    <3> QED BY <1>0, <3>1
  <2>8. cuts' \in 0..MaxCuts /\ (torn' = "all" => file' # << >>)
    BY <1>0, <2>1
  <2> QED BY <1>1, <2>4, <2>6, <2>7, <2>8, <2>9
\* An append is cut short, or none; streams are only cut.
<1>4. ASSUME Tear \/ UNCHANGED <<file, torn, glued>>, told' = told, cuts < MaxCuts, cuts' = cuts + 1,
             nextSeq' \in {0, nextSeq, nextSeq + 1}, going' \in BOOLEAN,
             stream' \in [Client -> Stream], \A c \in Client : stream'[c].open => going'
      PROVE  TypedBound'
  <2>1. cuts' \in 0..MaxCuts /\ nextSeq' \in 0..(told' + cuts') /\ told' \in 0..MaxEvents
    BY <1>0, <1>4
  <2>2. /\ file' \in Seq(Line) /\ \A i \in 1..Len(file') : file'[i].seq <= told + cuts + 1
        /\ torn' \in {"no", "part", "all"} /\ (torn' = "all" => file' # << >>) /\ glued' \in BOOLEAN
    BY <1>4, TearType
  <2>3. told' + cuts' = told + cuts + 1
    BY <1>0, <1>4
  <2>4. \A i \in 1..Len(file') : file'[i].seq <= told' + cuts'
    BY <2>2, <2>3
  <2> QED BY <1>1, <1>4, <2>1, <2>2, <2>4
<1>5. CASE AppendFails
  <2>1. stream' \in [Client -> Stream] /\ \A c \in Client : stream'[c].open => going'
    <3>1. /\ going' \in BOOLEAN
          /\ stream' = [c \in Client |-> [stream[c] EXCEPT !.open = @ /\ going']]
      BY <1>5 DEF AppendFails
    <3>2. \A c \in Client : stream[c] \in Stream /\ (stream[c].open /\ going') \in BOOLEAN
      BY <1>0, <3>1 DEF Stream
    <3>3. \A c \in Client : [stream[c] EXCEPT !.open = @ /\ going'] \in Stream
      BY <3>2, StreamType DEF Stream
    <3>4. \A c \in Client : [stream[c] EXCEPT !.open = @ /\ going'].open => going'
      BY <3>1, <3>2 DEF Stream
    <3> QED BY <3>1, <3>3, <3>4
  <2> QED BY <1>0, <1>4, <1>5, <2>1 DEF AppendFails
<1>6. CASE ServerDies
  <2>1. stream' = [c \in Client |-> [stream[c] EXCEPT !.open = FALSE, !.wire = << >>]]
    BY <1>6 DEF ServerDies
  <2>2. \A c \in Client : [stream[c] EXCEPT !.open = FALSE, !.wire = << >>] \in Stream
    BY <1>0, StreamType
  <2>3. \A c \in Client : [stream[c] EXCEPT !.open = FALSE, !.wire = << >>].open = FALSE
    BY <1>0 DEF Stream
  <2>4. stream' \in [Client -> Stream] /\ \A c \in Client : ~stream'[c].open
    BY <2>1, <2>2, <2>3
  <2> QED BY <1>0, <1>4, <1>6, <2>4 DEF ServerDies
\* One stream changes.
<1>7. ASSUME NEW c \in Client, NEW s \in Stream, stream' = [stream EXCEPT ![c] = s], s.open => going,
             UNCHANGED <<file, torn, going, nextSeq, told, glued>>, cuts' \in {cuts, cuts + 1}, cuts' <= MaxCuts
      PROVE  TypedBound'
  <2>1. stream' \in [Client -> Stream] /\ \A d \in Client : stream'[d].open => going'
    BY <1>0, <1>7
  <2>2. cuts' \in 0..MaxCuts /\ nextSeq' \in 0..(told' + cuts')
    <3>1. cuts' \in 0..MaxCuts /\ cuts' \in Nat /\ cuts <= cuts'
      BY <1>0, <1>7
    <3>2. nextSeq' = nextSeq /\ told' = told
      BY <1>7
    <3>3. nextSeq \in Nat /\ told \in Nat /\ cuts \in Nat /\ nextSeq <= told + cuts
      BY <1>0
    <3>4. nextSeq' \in Nat /\ told' + cuts' \in Nat /\ nextSeq' <= told' + cuts'
      <4>1. ASSUME NEW a \in Nat, NEW b \in Nat, NEW x \in Nat, NEW y \in Nat, a <= b + x, x <= y
            PROVE  b + y \in Nat /\ a <= b + y
        BY <4>1
      <4> QED BY <3>1, <3>2, <3>3, <4>1
    <3> QED BY <3>1, <3>4
  <2>3. \A i \in 1..Len(file') : file'[i].seq <= told' + cuts'
    BY <1>0, <1>7
  <2> QED BY <1>0, <1>1, <1>7, <2>1, <2>2, <2>3
<1>8. ASSUME NEW c \in Client, Connect(c) PROVE TypedBound'
  <2> DEFINE w == ReadRunEvents(stream[c].cursor)
             s == [stream[c] EXCEPT !.wire = w, !.open = going]
  <2>1. w \in Seq(Line)
    <3>1. {i \in DOMAIN file : file[i].whole /\ file[i].seq > stream[c].cursor} \in SUBSET DOMAIN file
      OBVIOUS
    <3> QED BY <1>0, <3>1, LinesAtType DEF ReadRunEvents
  <2> HIDE DEF w
  <2>2. s \in Stream
    BY <1>0, <2>1, StreamType
  <2>3. s.open = going
    BY <1>0 DEF Stream
  <2>4. stream' = [stream EXCEPT ![c] = s]
    BY <1>0, <1>8 DEF Connect, w
  <2> HIDE DEF s
  <2>7. UNCHANGED <<file, torn, going, nextSeq, told, glued>> /\ cuts' = cuts
    BY <1>8 DEF Connect
  <2>8. cuts' \in {cuts, cuts + 1} /\ cuts' <= MaxCuts /\ (s.open => going)
    BY <1>0, <2>2, <2>3, <2>4, <2>7
  <2> QED BY <1>7, <2>2, <2>3, <2>4, <2>7, <2>8
<1>9. ASSUME NEW c \in Client, Receive(c) PROVE TypedBound'
  <2> DEFINE l == Head(stream[c].wire)
             s == [stream[c] EXCEPT !.cursor = l.seq, !.seen = Append(@, l.event), !.wire = Tail(@)]
  <2>1. stream[c] \in Stream /\ stream[c].wire \in Seq(Line) /\ stream[c].wire # << >>
    BY <1>0, <1>9 DEF Receive, Stream
  <2>2. l \in Line /\ Tail(stream[c].wire) \in Seq(Line)
    BY <2>1, HeadTailProperties
  <2>3. l.seq \in 0..(MaxEvents + MaxCuts) /\ l.event \in 1..MaxEvents
    <3>1. l.seq \in 1..(MaxEvents + MaxCuts) /\ l.event \in 1..MaxEvents
      BY <2>2 DEF Line
    <3> QED BY <1>0, <3>1
  <2> HIDE DEF l
  <2>4. Append(stream[c].seen, l.event) \in Seq(1..MaxEvents)
    BY <2>1, <2>3, AppendProperties DEF Stream
  <2>5. s \in Stream /\ s.open = stream[c].open
    BY <2>1, <2>2, <2>3, <2>4 DEF Stream
  <2>6. stream' = [stream EXCEPT ![c] = s]
    BY <1>0, <1>9 DEF Receive, l
  <2> HIDE DEF s
  <2>7. UNCHANGED <<file, torn, going, nextSeq, told, glued>> /\ cuts' = cuts
    BY <1>9 DEF Receive
  <2>8. cuts' \in {cuts, cuts + 1} /\ cuts' <= MaxCuts /\ (s.open => going)
    BY <1>0, <2>5, <2>6, <2>7
  <2> QED BY <1>7, <2>5, <2>6, <2>7, <2>8
<1>10. ASSUME NEW c \in Client, Disconnect(c) PROVE TypedBound'
  <2> DEFINE s == [stream[c] EXCEPT !.open = FALSE, !.wire = << >>]
  <2>1. s \in Stream
    BY <1>0, StreamType
  <2>2. ~s.open
    BY <1>0 DEF Stream
  <2>3. stream' = [stream EXCEPT ![c] = s]
    BY <1>0, <1>10 DEF Disconnect
  <2> HIDE DEF s
  <2>7. UNCHANGED <<file, torn, going, nextSeq, told, glued>> /\ cuts' = cuts + 1 /\ cuts < MaxCuts
    BY <1>10 DEF Disconnect
  <2>8. cuts' \in {cuts, cuts + 1} /\ cuts' <= MaxCuts /\ (s.open => going)
    BY <1>0, <2>1, <2>2, <2>3, <2>7
  <2> QED BY <1>7, <2>1, <2>2, <2>3, <2>7, <2>8
<1>11. CASE UNCHANGED eventVars
  BY <1>11 DEF eventVars, TypedBound, EventTypeOK, BoundInv
<1> QED BY <1>2, <1>3, <1>5, <1>6, <1>8, <1>9, <1>10, <1>11 DEF EventNext
-----------------------------------------------------------------------------
(* The event log: every stream follows the file *)

\* What is left to show of a step that leaves the file as it is.
LEMMA SameFile ==
  ASSUME EventTypeOK, CleanInv, file' = file, torn = "all" => torn' = "all",
         going' => \A i \in 1..Len(file) : file[i].seq <= nextSeq',
         \A c \in Client : \A k, m \in 0..Len(file) : Follows(stream[c], k, m) =>
           \E j, n \in 0..Len(file) : Follows(stream'[c], j, n)
  PROVE  CleanInv'
<1>1. \A c \in Client : \E k, m \in 0..Len(file) : Follows(stream'[c], k, m)
  BY DEF CleanInv
<1>3. ASSUME NEW c \in Client PROVE \E k, m \in 0..Len(file') : Follows(stream[c], k, m)'
  <2>1. PICK k \in 0..Len(file), m \in 0..Len(file) : Follows(stream'[c], k, m)
    BY <1>1
  <2>2. Follows(stream[c], k, m)'
    BY <2>1 DEF Follows, SeqAt
  <2> QED BY <2>2
<1> QED BY <1>3 DEF CleanInv

\* A stream that is cut keeps what its client saw.
LEMMA CutFollows ==
  ASSUME EventTypeOK, NEW s \in Stream, NEW k \in 0..Len(file), NEW m \in 0..Len(file), Follows(s, k, m)
  PROVE  /\ Follows([s EXCEPT !.open = FALSE, !.wire = << >>], k, k)
         /\ \A o \in BOOLEAN : Follows([s EXCEPT !.open = @ /\ o], k, m)
<1>1. SubSeq(file, k + 1, k) = << >>
  BY FileFacts, SubSeqEmpty
<1>2. k \in Nat /\ k <= k
  BY FileFacts
<1> QED BY <1>1, <1>2 DEF Follows, Stream

\* A client takes the next line.
LEMMA ReceiveFollows ==
  ASSUME EventTypeOK, NEW s \in Stream, NEW k \in 0..Len(file), NEW m \in 0..Len(file), Follows(s, k, m), s.wire # << >>
  PROVE  /\ k + 1 \in 0..Len(file)
         /\ Follows([s EXCEPT !.cursor = Head(s.wire).seq, !.seen = Append(@, Head(s.wire).event), !.wire = Tail(@)], k + 1, m)
<1>1. file \in Seq(Line) /\ Len(file) \in Nat /\ k \in Nat /\ m \in Nat /\ k <= m /\ m <= Len(file)
      /\ s.wire = SubSeq(file, k + 1, m) /\ s.seen = [i \in 1..k |-> file[i].event]
  BY FileFacts DEF EventTypeOK, Follows
<1>2. k < m
  <2>1. k + 1 \in Int /\ (m < k + 1 => s.wire = << >>)
    BY <1>1, SubSeqEmpty
  <2> QED BY <1>1, <2>1
<1>3. k + 1 \in 1..Len(file) /\ m \in (k + 1)..Len(file)
  BY <1>1, <1>2
<1>4. Head(s.wire) = file[k + 1] /\ Tail(s.wire) = SubSeq(file, k + 1 + 1, m)
  BY <1>1, <1>3, HeadTailOfSubSeq
<1>5. Append(s.seen, file[k + 1].event) = [i \in 1..(k + 1) |-> file[i].event]
  <2> DEFINE old == [i \in 1..k |-> file[i].event]
             new == [i \in 1..(k + 1) |-> file[i].event]
  <2>1. \A i \in 1..(k + 1) : file[i].event \in 1..MaxEvents
    BY <1>1, <1>3, FileFacts
  <2>2. old \in Seq(1..MaxEvents) /\ Len(old) = k
    BY <1>1, <2>1
  <2>3. new \in Seq(1..MaxEvents) /\ Len(new) = k + 1
    BY <1>1, <2>1
  <2>4. file[k + 1].event \in 1..MaxEvents
    BY <1>1, <2>1
  <2> DEFINE app == Append(old, file[k + 1].event)
  <2>5. app \in Seq(1..MaxEvents) /\ Len(app) = k + 1 /\ (\A i \in 1..k : app[i] = old[i]) /\ app[k + 1] = file[k + 1].event
    <3> HIDE DEF old
    <3> QED BY <2>2, <2>4, AppendProperties
  <2>6. (\A i \in 1..k : old[i] = file[i].event) /\ \A i \in 1..(k + 1) : new[i] = file[i].event
    OBVIOUS
  <2> HIDE DEF old, new, app
  <2>7. \A i \in 1..(k + 1) : app[i] = new[i]
    <3> SUFFICES ASSUME NEW i \in 1..(k + 1) PROVE app[i] = new[i]
      OBVIOUS
    <3>1. i = k + 1 \/ i \in 1..k
      BY <1>1
    <3> QED BY <2>5, <2>6, <3>1
  <2>8. app = new
    BY <2>3, <2>5, <2>7, SeqEqual
  <2> QED BY <1>1, <2>8 DEF old, new, app
<1>6. SeqAt(k + 1) = file[k + 1].seq
  BY <1>1 DEF SeqAt
<1> DEFINE t == [s EXCEPT !.cursor = Head(s.wire).seq, !.seen = Append(@, Head(s.wire).event), !.wire = Tail(@)]
<1>7. /\ t.cursor = SeqAt(k + 1) /\ t.seen = [i \in 1..(k + 1) |-> file[i].event]
      /\ t.wire = SubSeq(file, k + 1 + 1, m) /\ t.open = s.open
  BY <1>4, <1>5, <1>6 DEF Stream
<1> HIDE DEF t
<1>8. k + 1 <= m /\ (s.open /\ torn # "all" => m = Len(file))
  BY <1>1, <1>2 DEF Follows
<1>9. Follows(t, k + 1, m)
  BY <1>7, <1>8 DEF Follows
<1>10. k + 1 \in 0..Len(file)
  BY <1>1, <1>3
<1> QED BY <1>9, <1>10 DEF t

\* A client that connects is sent all that is left.
LEMMA ConnectFollows ==
  ASSUME EventTypeOK, CleanInv, NEW s \in Stream, NEW o \in BOOLEAN, NEW k \in 0..Len(file), NEW m \in 0..Len(file), Follows(s, k, m)
  PROVE  Follows([s EXCEPT !.wire = ReadRunEvents(s.cursor), !.open = o], k, Len(file))
<1> DEFINE w == ReadRunEvents(s.cursor)
           t == [s EXCEPT !.wire = w, !.open = o]
<1>1. w = SubSeq(file, k + 1, Len(file)) /\ k <= Len(file)
  <2>1. ReadRunEvents(SeqAt(k)) = SubSeq(file, k + 1, Len(file))
    BY ReadsTheRest
  <2>2. s.cursor = SeqAt(k)
    BY DEF Follows
  <2>3. k <= Len(file)
    BY FileFacts
  <2> QED BY <2>1, <2>2, <2>3
<1>2. t.cursor = s.cursor /\ t.seen = s.seen /\ t.wire = w
  BY DEF Stream
<1> HIDE DEF t, w
<1>3. Follows(t, k, Len(file))
  BY <1>1, <1>2 DEF Follows
<1> QED BY <1>3 DEF t, w

\* The last seq sent to a client is that of the last line sent.
LEMMA SentUpTo ==
  ASSUME EventTypeOK, NEW s, NEW k \in 0..Len(file), NEW m \in 0..Len(file), Follows(s, k, m)
  PROVE  LastSent(s) = SeqAt(m)
<1>1. file \in Seq(Line) /\ Len(file) \in Nat /\ k \in Nat /\ m \in k..Len(file) /\ s.wire = SubSeq(file, k + 1, m)
  BY FileFacts DEF EventTypeOK, Follows
<1>2. Len(s.wire) = m - k /\ \A n \in 1..(m - k) : s.wire[n] = file[k + n]
  BY <1>1, Part
<1>3. s.wire \in Seq(Line)
  BY <1>1, Part
<1>4. CASE k = m
  <2>1. s.wire = << >>
    BY <1>1, <1>2, <1>3, <1>4
  <2> QED BY <1>4, <2>1 DEF LastSent, Follows
<1>5. CASE k # m
  <2>1. m - k \in 1..(m - k) /\ k + (m - k) = m /\ m # 0
    BY <1>1, <1>5
  <2>2. s.wire # << >> /\ s.wire[Len(s.wire)] = file[m]
    BY <1>2, <1>3, <2>1
  <2> QED BY <2>1, <2>2 DEF LastSent, SeqAt
<1> QED BY <1>4, <1>5

\* A line behind the others keeps them readable and in the order of their seqs.
LEMMA LineAdded ==
  ASSUME TypedBound, CleanInv, going, told < MaxEvents, torn = "no", NEW l, l = NextLine, file' = Append(file, l)
  PROVE  /\ l \in Line /\ l.seq = nextSeq + 1 /\ Len(file') = Len(file) + 1 /\ file'[Len(file) + 1] = l
         /\ \A i \in 1..Len(file) : file'[i] = file[i]
         /\ \A i \in 1..Len(file') : file'[i].whole /\ file'[i].seq <= nextSeq + 1
         /\ \A i, j \in 1..Len(file') : i < j => file'[i].seq < file'[j].seq
<1>2. /\ file \in Seq(Line) /\ Len(file) \in Nat /\ nextSeq \in Nat
      /\ \A i \in 1..Len(file) : file[i].seq \in Nat /\ file[i].seq <= nextSeq /\ file[i].whole
      /\ \A i, j \in 1..Len(file) : i < j => file[i].seq < file[j].seq
  <2>1. EventTypeOK
    BY DEF TypedBound
  <2>2. file \in Seq(Line) /\ nextSeq \in Nat
    BY <2>1 DEF EventTypeOK
  <2>4. Len(file) \in Nat /\ \A i \in 1..Len(file) : file[i].seq \in Nat
    BY <2>1, FileFacts
  <2>5. /\ \A i \in 1..Len(file) : file[i].seq <= nextSeq /\ file[i].whole
        /\ \A i, j \in 1..Len(file) : i < j => file[i].seq < file[j].seq
    BY DEF CleanInv
  <2> QED BY <2>2, <2>4, <2>5
<1>3. l \in Line /\ l.seq = nextSeq + 1 /\ l.whole
  BY NextLineType
<1> DEFINE n == Len(file)
<1>4. /\ file' \in Seq(Line) /\ Len(file') = n + 1 /\ (\A i \in 1..n : file'[i] = file[i]) /\ file'[n + 1] = l
  BY <1>2, <1>3, AppendProperties
<1> HIDE DEF n
<1>5. n \in Nat /\ n = Len(file)
  BY <1>2 DEF n
<1>6. \A i \in 1..(n + 1) : i \in 1..n \/ i = n + 1
  BY <1>5
<1>7. \A i \in 1..Len(file') : file'[i].whole
  BY <1>2, <1>3, <1>4, <1>5, <1>6
<1>8. \A i, j \in 1..Len(file') : i < j => file'[i].seq < file'[j].seq
  <2> SUFFICES ASSUME NEW i \in 1..(n + 1), NEW j \in 1..(n + 1), i < j PROVE file'[i].seq < file'[j].seq
    BY <1>4
  <2>1. i \in 1..n /\ file'[i] = file[i]
    BY <1>4, <1>5
  <2>2. CASE j \in 1..n
    BY <1>2, <1>4, <1>5, <2>1, <2>2
  <2>3. CASE j = n + 1
    <3>1. file[i].seq \in Nat /\ file[i].seq <= nextSeq /\ file'[j].seq = nextSeq + 1
      BY <1>2, <1>3, <1>4, <1>5, <2>1, <2>3
    <3> QED BY <1>2, <2>1, <3>1
  <2> QED BY <1>6, <2>2, <2>3
<1>9. \A i \in 1..Len(file') : file'[i].seq <= nextSeq + 1
  <2> SUFFICES ASSUME NEW i \in 1..(n + 1) PROVE file'[i].seq <= nextSeq + 1
    BY <1>4
  <2>1. CASE i \in 1..n
    <3>1. file[i].seq \in Nat /\ file[i].seq <= nextSeq /\ file'[i] = file[i]
      BY <1>2, <1>4, <1>5, <2>1
    <3> QED BY <1>2, <3>1
  <2>2. CASE i = n + 1
    BY <1>2, <1>3, <1>4, <2>2
  <2> QED BY <1>6, <2>1, <2>2
<1> QED BY <1>3, <1>4, <1>5, <1>7, <1>8, <1>9

\* An event that is on disk and nobody was told of: the streams are behind it.
LEMMA TearFollows ==
  ASSUME TypedBound, CleanInv, going, told < MaxEvents, torn = "no", torn' = "all", file' = Append(file, NextLine),
         going' => nextSeq' = nextSeq + 1,
         \A c \in Client : \A k, m \in 0..Len(file) : Follows(stream[c], k, m) =>
           \E j, n \in 0..Len(file) : Follows(stream'[c], j, n)
  PROVE  CleanInv'
<1>1. PICK l : l = NextLine
  OBVIOUS
<1>2. /\ l \in Line /\ Len(file') = Len(file) + 1
      /\ \A i \in 1..Len(file) : file'[i] = file[i]
      /\ \A i \in 1..Len(file') : file'[i].whole /\ file'[i].seq <= nextSeq + 1
      /\ \A i, j \in 1..Len(file') : i < j => file'[i].seq < file'[j].seq
  BY <1>1, LineAdded
<1>3. file \in Seq(Line) /\ Len(file) \in Nat
  BY FileFacts DEF TypedBound, EventTypeOK
<1>4. ASSUME NEW c \in Client PROVE \E k, m \in 0..Len(file') : Follows(stream[c], k, m)'
  <2>1. PICK k \in 0..Len(file), m \in 0..Len(file) : Follows(stream'[c], k, m)
    BY DEF CleanInv
  <2>2. k \in Nat /\ m \in k..Len(file) /\ k \in 0..Len(file') /\ m \in 0..Len(file')
    BY <1>2, <1>3, <2>1 DEF Follows
  <2>3. SeqAt(k)' = SeqAt(k)
    BY <1>2, <1>3, <2>2 DEF SeqAt
  <2>4. [i \in 1..k |-> file'[i].event] = [i \in 1..k |-> file[i].event]
    BY <1>2, <1>3, <2>2
  <2>5. SubSeq(file', k + 1, m) = SubSeq(file, k + 1, m)
    <3>1. file' = Append(file, l)
      BY <1>1
    <3> QED BY <1>2, <1>3, <2>2, <3>1, PartGrows
  <2>6. Follows(stream[c], k, m)'
    BY <2>1, <2>3, <2>4, <2>5 DEF Follows
  <2> QED BY <2>2, <2>6
<1> QED BY <1>2, <1>4 DEF CleanInv

\* A committed line is put on every open stream, behind the one before it.
LEMMA CommitFollows ==
  ASSUME TypedBound, TypedBound', CleanInv, torn = "no", NEW finished \in BOOLEAN, Commit(finished)
  PROVE  CleanInv'
<1> DEFINE l == NextLine
           n == Len(file)
<1>1. /\ going /\ told < MaxEvents /\ nextSeq' = nextSeq + 1 /\ file' = Append(file, l) /\ going' = ~finished
      /\ torn' = "no"
      /\ stream' = [c \in Client |->
           IF stream[c].open THEN [SendEvent(stream[c], l) EXCEPT !.open = ~finished] ELSE stream[c]]
  BY DEF Commit
<1>2. /\ EventTypeOK /\ file \in Seq(Line) /\ Len(file) \in Nat /\ nextSeq \in Nat
      /\ stream \in [Client -> Stream]
      /\ \A i \in 1..Len(file) : file[i].seq \in Nat /\ file[i].seq <= nextSeq
  <2>1. EventTypeOK
    BY DEF TypedBound
  <2>2. file \in Seq(Line) /\ nextSeq \in Nat
    BY <2>1 DEF EventTypeOK
  <2>3. stream \in [Client -> Stream]
    BY <2>1 DEF EventTypeOK, Stream
  <2>4. Len(file) \in Nat /\ \A i \in 1..Len(file) : file[i].seq \in Nat
    BY <2>1, FileFacts
  <2>5. \A i \in 1..Len(file) : file[i].seq <= nextSeq
    BY <1>1 DEF CleanInv
  <2> QED BY <1>1, <2>1, <2>2, <2>3, <2>4, <2>5
<1> HIDE DEF l
<1>3. l \in Line /\ l.seq = nextSeq + 1
  <2>1. l = NextLine
    BY DEF l
  <2> QED BY <1>1, <2>1, NextLineType
<1>30. PICK x : x = l
  OBVIOUS
<1>31. /\ Len(file') = Len(file) + 1 /\ file'[Len(file) + 1] = x
       /\ \A i \in 1..Len(file) : file'[i] = file[i]
       /\ \A i \in 1..Len(file') : file'[i].whole /\ file'[i].seq <= nextSeq + 1
       /\ \A i, j \in 1..Len(file') : i < j => file'[i].seq < file'[j].seq
  <2>1. x = NextLine
    BY <1>30 DEF l
  <2>2. file' = Append(file, x)
    BY <1>1, <1>30
  <2>3. going /\ told < MaxEvents
    BY <1>1
  <2> QED BY <2>1, <2>2, <2>3, LineAdded
<1>4. Len(file') = n + 1 /\ (\A i \in 1..n : file'[i] = file[i]) /\ file'[n + 1] = l
  BY <1>30, <1>31
<1>7. \A i \in 1..Len(file') : file'[i].whole /\ file'[i].seq <= nextSeq'
  BY <1>1, <1>31
<1>8. \A i, j \in 1..Len(file') : i < j => file'[i].seq < file'[j].seq
  BY <1>31
<1> HIDE DEF n
<1>5. n \in Nat /\ n = Len(file)
  BY <1>2 DEF n
<1>10. ASSUME NEW c \in Client PROVE \E k, m \in 0..Len(file') : Follows(stream[c], k, m)'
  <2>0. PICK s \in Stream : s = stream[c]
    BY <1>2
  <2>1. PICK k \in 0..n, m \in 0..n : Follows(s, k, m)
    BY <1>5, <2>0 DEF CleanInv
  <2>2. /\ k \in 0..Len(file) /\ m \in 0..Len(file) /\ k \in Nat /\ m \in Nat /\ k <= m /\ m <= n
        /\ k \in 0..Len(file') /\ m \in 0..Len(file') /\ n + 1 \in 0..Len(file') /\ s \in Stream
    <3>1. k <= m /\ k \in Nat /\ m \in Nat /\ m <= n
      BY <1>5, <2>1 DEF Follows
    <3> QED BY <1>2, <1>4, <1>5, <3>1
  <2>3. SeqAt(k)' = SeqAt(k)
    BY <1>4, <2>2 DEF SeqAt
  <2>4. [i \in 1..k |-> file'[i].event] = [i \in 1..k |-> file[i].event]
    BY <1>4, <1>5, <2>2
  <2>5. CASE ~s.open
    <3>1. stream'[c] = s
      BY <1>1, <2>0, <2>5
    <3>2. SubSeq(file', k + 1, m) = SubSeq(file, k + 1, m)
      <4>1. m \in k..Len(file)
        BY <2>2
      <4> QED BY <1>1, <1>2, <1>3, <2>2, <4>1, PartGrows
    <3>3. Follows(s, k, m)'
      BY <2>1, <2>3, <2>4, <2>5, <3>2 DEF Follows
    <3>4. Follows(stream[c], k, m)'
      BY <3>1, <3>3 DEF Follows
    <3> QED BY <2>2, <3>4
  <2>6. CASE s.open
    <3>1. m = n /\ LastSent(s) = SeqAt(n)
      <4>1. m = n
        BY <1>5, <2>1, <2>6 DEF Follows
      <4>2. LastSent(s) = SeqAt(m)
        BY <1>2, <2>1, <2>2, SentUpTo
      <4> QED BY <4>1, <4>2
    <3>2. ~(l.seq <= LastSent(s))
      <4>1. SeqAt(n) \in Nat /\ SeqAt(n) <= nextSeq
        BY <1>2, <1>5 DEF SeqAt
      <4> QED BY <1>2, <1>3, <3>1, <4>1
    <3>3. stream'[c] = [[s EXCEPT !.wire = Append(@, l)] EXCEPT !.open = ~finished]
      <4>1. SendEvent(s, l) = [s EXCEPT !.wire = Append(@, l)]
        BY <3>2 DEF SendEvent
      <4> QED BY <1>1, <2>0, <2>6, <4>1
    <3> DEFINE o == ~finished
    <3>30. PICK t : t = stream'[c]
      OBVIOUS
    <3>4. t.cursor = s.cursor /\ t.seen = s.seen /\ t.wire = Append(s.wire, l)
      <4>1. t = [[s EXCEPT !.wire = Append(@, l)] EXCEPT !.open = o]
        BY <3>3, <3>30
      <4> HIDE DEF o
      <4> QED BY <2>2, <4>1 DEF Stream
    <3>5. SubSeq(file', k + 1, n + 1) = Append(SubSeq(file, k + 1, n), l)
      <4>1. m \in k..Len(file)
        BY <2>2
      <4> QED BY <1>1, <1>2, <1>3, <1>5, <2>2, <4>1, PartGrows
    <3>6. k <= n + 1 /\ n + 1 = Len(file')
      BY <1>4, <1>5, <2>2
    <3>7. /\ t.cursor = SeqAt(k)' /\ t.seen = [i \in 1..k |-> file'[i].event]
          /\ t.wire = SubSeq(file', k + 1, n + 1)
      BY <2>1, <2>3, <2>4, <3>1, <3>4, <3>5 DEF Follows
    <3>8. PICK h : h = n + 1
      OBVIOUS
    <3>9. Follows(t, k, h)'
      BY <3>6, <3>7, <3>8 DEF Follows
    <3>10. Follows(stream[c], k, h)'
      BY <3>9, <3>30 DEF Follows
    <3> QED BY <2>2, <3>8, <3>10
  <2> QED BY <2>5, <2>6
<1> QED BY <1>7, <1>8, <1>10 DEF CleanInv

LEMMA CleanStep == TypedBound /\ TypedBound' /\ (glued \/ CleanInv) /\ [EventNext]_eventVars => (glued \/ CleanInv)'
<1> SUFFICES ASSUME TypedBound, TypedBound', glued \/ CleanInv, [EventNext]_eventVars, ~glued' PROVE CleanInv'
  OBVIOUS
<1>00. ~glued /\ CleanInv
  <2>1. glued => glued'
    BY DEF EventNext, OpenRunLog, Commit, AppendFails, ServerDies, Tear, Connect, Receive, Disconnect, eventVars
  <2> QED BY <2>1
<1>0. /\ EventTypeOK /\ file \in Seq(Line) /\ Len(file) \in Nat /\ stream \in [Client -> Stream]
      /\ going \in BOOLEAN /\ nextSeq \in Nat
      /\ \A i \in 1..Len(file) : file[i].seq \in Nat /\ (going => file[i].seq <= nextSeq)
  <2>1. EventTypeOK
    BY DEF TypedBound
  <2>2. file \in Seq(Line) /\ nextSeq \in Nat /\ going \in BOOLEAN
    BY <2>1 DEF EventTypeOK
  <2>3. stream \in [Client -> Stream]
    BY <2>1 DEF EventTypeOK, Stream
  <2>4. Len(file) \in Nat /\ \A i \in 1..Len(file) : file[i].seq \in Nat
    BY <2>1, FileFacts
  <2>5. going => \A i \in 1..Len(file) : file[i].seq <= nextSeq
    BY <1>00 DEF CleanInv
  <2> QED BY <2>1, <2>2, <2>3, <2>4, <2>5
<1>1. CASE OpenRunLog
  <2>1. UNCHANGED <<file, torn, stream>> /\ nextSeq' = LastCommittedSeq
    BY <1>1 DEF OpenRunLog
  <2>2. \A i \in 1..Len(file) : file[i].seq <= LastCommittedSeq
    <3> DEFINE events == ReadRunEvents(0)
               n == Len(file)
    <3> SUFFICES ASSUME NEW i \in 1..n PROVE file[i].seq <= LastCommittedSeq
      OBVIOUS
    <3>1. SeqAt(0) = 0 /\ 0 \in 0..n /\ n \in 1..n /\ n \in 0..n
      BY <1>0 DEF SeqAt
    <3>2. events = SubSeq(file, 0 + 1, n)
      <4>1. ReadRunEvents(SeqAt(0)) = SubSeq(file, 0 + 1, Len(file))
        BY <1>0, <1>00, <3>1, ReadsTheRest
      <4> QED BY <3>1, <4>1
    <3>3. Len(events) = n /\ (\A j \in 1..(n - 0) : events[j] = file[0 + j]) /\ events \in Seq(Line)
      BY <1>0, <1>00, <3>1, <3>2, Part
    <3> HIDE DEF events
    <3>4. events # << >> /\ events[Len(events)] = file[n]
      BY <1>0, <1>00, <3>1, <3>3
    <3>5. LastCommittedSeq = file[n].seq
      BY <3>4 DEF LastCommittedSeq, events
    <3>6. i = n \/ file[i].seq < file[n].seq
      BY <1>0, <1>00, <3>1 DEF CleanInv
    <3> QED BY <1>0, <1>00, <3>1, <3>5, <3>6
  <2> QED BY <1>0, <1>00, <2>1, <2>2, SameFile
<1>2. ASSUME NEW finished \in BOOLEAN, Commit(finished) PROVE CleanInv'
  <2>1. torn = "no"
    BY <1>00, <1>2 DEF Commit
  <2> QED BY <1>00, <1>2, <2>1, CommitFollows
\* An append cut short, or none; streams are only cut.
<1>30. ASSUME Tear \/ UNCHANGED <<file, torn, glued>>, ~(going /\ going') \/ nextSeq' = nextSeq + 1,
              going' => going, Tear => going,
              \A c \in Client : \A k, m \in 0..Len(file) : Follows(stream[c], k, m) =>
                \E j, n \in 0..Len(file) : Follows(stream'[c], j, n)
       PROVE  CleanInv'
  <2>1. going' => \A i \in 1..Len(file) : file[i].seq <= nextSeq'
    <3>1. ASSUME going', NEW i \in 1..Len(file) PROVE file[i].seq <= nextSeq'
      <4>1. going /\ nextSeq' = nextSeq + 1
        BY <1>30, <3>1
      <4>2. file[i].seq \in Nat /\ file[i].seq <= nextSeq
        BY <1>0, <4>1
      <4> QED BY <1>0, <4>1, <4>2
    <3> QED BY <3>1
  <2>2. CASE file' = file /\ torn' = torn
    BY <1>0, <1>00, <1>30, <2>1, <2>2, SameFile
  <2>3. CASE Tear /\ torn' = "part" /\ file' = (IF torn = "all" THEN Spoilt ELSE file) /\ glued' = (glued \/ torn = "all")
    <3>1. torn # "all" /\ file' = file
      BY <2>3
    <3> QED BY <1>0, <1>00, <1>30, <2>1, <3>1, SameFile
  <2>4. CASE Tear /\ torn = "no" /\ torn' = "all" /\ told < MaxEvents /\ file' = Append(file, NextLine)
    <3>1. going /\ (going' => nextSeq' = nextSeq + 1)
      BY <1>30, <2>4
    <3> QED BY <1>00, <1>30, <2>4, <3>1, TearFollows
  <2> QED BY <1>30, <2>2, <2>3, <2>4 DEF Tear
<1>3. CASE AppendFails
  <2>1. /\ Tear /\ nextSeq' = nextSeq + 1 /\ going /\ going' \in BOOLEAN
        /\ stream' = [c \in Client |-> [stream[c] EXCEPT !.open = @ /\ going']]
    BY <1>3 DEF AppendFails
  <2>3. ASSUME NEW c \in Client, NEW k \in 0..Len(file), NEW m \in 0..Len(file), Follows(stream[c], k, m)
        PROVE  Follows(stream'[c], k, m)
    BY <1>0, <1>00, <2>1, <2>3, CutFollows
  <2> QED BY <1>30, <2>1, <2>3
<1>4. CASE ServerDies
  <2>1. /\ IF going THEN Tear ELSE UNCHANGED <<file, torn, glued>>
        /\ going' = FALSE
        /\ stream' = [c \in Client |-> [stream[c] EXCEPT !.open = FALSE, !.wire = << >>]]
    BY <1>4 DEF ServerDies
  <2>2. ASSUME NEW c \in Client, NEW k \in 0..Len(file), NEW m \in 0..Len(file), Follows(stream[c], k, m)
        PROVE  Follows(stream'[c], k, k)
    BY <1>0, <1>00, <2>1, <2>2, CutFollows
  <2>3. CASE going
    BY <1>30, <2>1, <2>2, <2>3
  <2>4. CASE ~going
    <3>1. file' = file /\ torn' = torn /\ ~going'
      BY <2>1, <2>4
    <3> QED BY <1>0, <1>00, <2>2, <3>1, SameFile
  <2> QED BY <2>3, <2>4
\* One stream changes.
<1>5. ASSUME NEW c \in Client, NEW s, stream' = [stream EXCEPT ![c] = s], UNCHANGED <<file, torn, going, nextSeq>>,
             \A k, m \in 0..Len(file) : Follows(stream[c], k, m) => \E j, n \in 0..Len(file) : Follows(s, j, n)
      PROVE  CleanInv'
  <2>1. \A d \in Client : stream'[d] = IF d = c THEN s ELSE stream[d]
    BY <1>0, <1>00, <1>5
  <2>2. \A d \in Client : \A k, m \in 0..Len(file) : Follows(stream[d], k, m) =>
           \E j, n \in 0..Len(file) : Follows(stream'[d], j, n)
    BY <1>5, <2>1
  <2>3. going' => \A i \in 1..Len(file) : file[i].seq <= nextSeq'
    BY <1>0, <1>00, <1>5
  <2> QED BY <1>0, <1>00, <1>5, <2>2, <2>3, SameFile
<1>6. ASSUME NEW c \in Client, Connect(c) PROVE CleanInv'
  <2> DEFINE s == [stream[c] EXCEPT !.wire = ReadRunEvents(stream[c].cursor), !.open = going]
  <2>1. stream' = [stream EXCEPT ![c] = s] /\ UNCHANGED <<file, torn, going, nextSeq>>
    BY <1>0, <1>00, <1>6 DEF Connect
  <2>2. ASSUME NEW k \in 0..Len(file), NEW m \in 0..Len(file), Follows(stream[c], k, m)
        PROVE  Follows(s, k, Len(file)) /\ Len(file) \in 0..Len(file)
    <3>1. PICK o \in BOOLEAN : o = going
      BY <1>0
    <3>2. PICK w \in Stream : w = stream[c]
      BY <1>0
    <3>3. Follows([w EXCEPT !.wire = ReadRunEvents(w.cursor), !.open = o], k, Len(file))
      BY <1>0, <1>00, <2>2, <3>2, ConnectFollows
    <3> QED BY <1>0, <3>1, <3>2, <3>3
  <2> HIDE DEF s
  <2> QED BY <1>00, <1>5, <2>1, <2>2
<1>7. ASSUME NEW c \in Client, Receive(c) PROVE CleanInv'
  <2> DEFINE w == stream[c]
             s == [w EXCEPT !.cursor = Head(w.wire).seq, !.seen = Append(@, Head(w.wire).event), !.wire = Tail(@)]
  <2>1. stream' = [stream EXCEPT ![c] = s] /\ UNCHANGED <<file, torn, going, nextSeq>> /\ w.wire # << >> /\ w \in Stream
    BY <1>0, <1>00, <1>7 DEF Receive
  <2>2. ASSUME NEW k \in 0..Len(file), NEW m \in 0..Len(file), Follows(w, k, m)
        PROVE  k + 1 \in 0..Len(file) /\ Follows(s, k + 1, m)
    <3> HIDE DEF w
    <3> QED BY <1>0, <1>00, <2>1, <2>2, ReceiveFollows
  <2> HIDE DEF s
  <2> QED BY <1>00, <1>5, <2>1, <2>2
<1>8. ASSUME NEW c \in Client, Disconnect(c) PROVE CleanInv'
  <2> DEFINE s == [stream[c] EXCEPT !.open = FALSE, !.wire = << >>]
  <2>1. stream' = [stream EXCEPT ![c] = s] /\ UNCHANGED <<file, torn, going, nextSeq>>
    BY <1>0, <1>00, <1>8 DEF Disconnect
  <2>2. ASSUME NEW k \in 0..Len(file), NEW m \in 0..Len(file), Follows(stream[c], k, m)
        PROVE  Follows(s, k, k)
    BY <1>0, <1>00, <2>2, CutFollows
  <2> HIDE DEF s
  <2> QED BY <1>00, <1>5, <2>1, <2>2
<1>9. CASE UNCHANGED eventVars
  <2>1. UNCHANGED <<file, torn, going, nextSeq, stream>>
    BY <1>9 DEF eventVars
  <2> QED BY <1>0, <1>00, <2>1, SameFile
<1> QED BY <1>1, <1>2, <1>3, <1>4, <1>6, <1>7, <1>8, <1>9 DEF EventNext

LEMMA EventInvariant == EventSpec => []EventInv
<1>1. EventInit => EventInv
  <2> SUFFICES ASSUME EventInit PROVE EventInv
    OBVIOUS
  <2>1. TypedBound
    <3>1. << >> \in Seq(Line) /\ << >> \in Seq(1..MaxEvents) /\ Len(<< >>) = 0
      OBVIOUS
    <3>2. Closed \in Stream
      BY <3>1 DEF Closed, Stream
    <3>3. /\ file = << >> /\ torn = "no" /\ going = FALSE /\ nextSeq = 0 /\ told = 0 /\ glued = FALSE /\ cuts = 0
          /\ stream = [c \in Client |-> Closed]
      BY DEF EventInit
    <3>4. stream \in [Client -> Stream] /\ \A c \in Client : ~stream[c].open
      BY <3>2, <3>3 DEF Closed
    <3>5. EventTypeOK
      <4>1. 0 \in 0..(MaxEvents + MaxCuts) /\ 0 \in 0..MaxEvents /\ 0 \in 0..MaxCuts
        OBVIOUS
      <4>2. file \in Seq(Line) /\ torn \in {"no", "part", "all"} /\ going \in BOOLEAN /\ glued \in BOOLEAN
        BY <3>1, <3>3
      <4>3. nextSeq \in 0..(MaxEvents + MaxCuts) /\ told \in 0..MaxEvents /\ cuts \in 0..MaxCuts
        BY <3>3, <4>1
      <4> QED BY <3>4, <4>2, <4>3 DEF EventTypeOK, Stream
    <3>6. BoundInv
      BY <3>1, <3>3, <3>4 DEF BoundInv
    <3> QED BY <3>5, <3>6 DEF TypedBound
  <2>2. ASSUME NEW c \in Client PROVE \E k, m \in 0..Len(file) : Follows(stream[c], k, m)
    <3>1. file = << >> /\ stream[c] = Closed /\ Len(file) = 0
      BY DEF EventInit
    <3>2. SubSeq(file, 0 + 1, 0) = << >>
      BY SubSeqEmpty
    <3>3. [i \in 1..0 |-> file[i].event] = << >>
      OBVIOUS
    <3>4. Follows(stream[c], 0, 0)
      BY <3>1, <3>2, <3>3 DEF Follows, Closed, SeqAt
    <3> QED BY <3>1, <3>4
  <2>3. CleanInv
    BY <2>2 DEF CleanInv, EventInit
  <2> QED BY <2>1, <2>3 DEF EventInv, TypedBound
<1>2. EventInv /\ [EventNext]_eventVars => EventInv'
  <2> SUFFICES ASSUME EventInv, [EventNext]_eventVars PROVE EventInv'
    OBVIOUS
  <2>1. TypedBound /\ TypedBound'
    BY TypedStep DEF EventInv, TypedBound
  <2> QED BY <2>1, CleanStep DEF EventInv, TypedBound
<1> QED BY <1>1, <1>2, PTL DEF EventSpec

THEOREM EventsTyped == EventSpec => []EventTypeOK
<1>1. EventInv => EventTypeOK
  BY DEF EventInv
<1> QED BY <1>1, EventInvariant, PTL

(* The cursor of a client means what it saw: every event on disk up to it, *)
(* once and in order, across crashes, resumes, failed appends and broken   *)
(* streams, for any number of clients and events (unless an event was lost *)
(* in a line that was written on).                                         *)
THEOREM CursorAlwaysMeansSeen == EventSpec => []CursorMeansSeen
<1> QED BY MeansSeen, EventInvariant, PTL

-----------------------------------------------------------------------------
(* The parts together *)

\* Whichever part runs, it takes the steps of its own specification, so that all
\* five keep their types: the writer (asyncWriter.ts), the event log
\* (programRunStore.ts), the batches (applyAskFileWrites.ts), the daily cap
\* (freeTierLimit.ts) and the gateway (gateway.ts).
THEOREM ServersTyped == Spec => []TypesOK
<1>1. Init => WriterInit /\ EventInit /\ EditInit /\ TierInit /\ GatewayInit
  BY DEF Init
<1>2. ASSUME [Next]_<<under, writerVars, eventVars, editVars, tierVars, gatewayVars>>
      PROVE  /\ [WriterNext]_writerVars /\ [EventNext]_eventVars /\ [EditNext]_editVars
             /\ [TierNext]_tierVars /\ [GatewayNext]_gatewayVars
  <2>1. CASE UNCHANGED <<under, writerVars, eventVars, editVars, tierVars, gatewayVars>>
    BY <2>1
  <2>2. CASE Next
    BY <2>2 DEF Next
  <2> QED BY <1>2, <2>1, <2>2
<1>3. Spec => WriterSpec /\ EventSpec /\ EditSpec /\ TierSpec /\ GatewaySpec
  BY <1>1, <1>2, PTL DEF Spec, WriterSpec, EventSpec, EditSpec, TierSpec, GatewaySpec
<1>4. TierInv => TierTypeOK
  BY DEF TierInv
<1>5. GatewaySpec => []GatewayTypeOK
  <2>1. GatewayInv => GatewayTypeOK
    BY DEF GatewayInv
  <2> QED BY <2>1, GatewayInitially, GatewayStep, PTL DEF GatewaySpec
<1>6. WriterTypeOK /\ EventTypeOK /\ EditTypeOK /\ TierTypeOK /\ GatewayTypeOK => TypesOK
  BY DEF TypesOK
<1> QED
  BY <1>3, <1>4, <1>5, <1>6, WriterTyped, EventsTyped, EditsTyped, TierAlways, PTL
=============================================================================
