------------------------------ MODULE FileEdits ------------------------------
(***************************************************************************)
(* Batches of file writes by agents (server/applyAskFileWrites.ts) under   *)
(* the per-path lock (server/pathWriteLock.ts), each file tracked by the   *)
(* checkpoints of the session before it is written, together with the      *)
(* doors that take no lock: an edit by the person (PUT /api/file), a       *)
(* manual checkpoint and a restore (server/repoServer.ts).                 *)
(***************************************************************************)
EXTENDS Checkpoints, FiniteSetsExt

CONSTANTS
  Batch,     \* batches of writes; what a batch writes is named for it
  Person,    \* the content of an edit by the person
  Nobody,    \* no holder of a lock
  MaxEdits   \* edits by the person and restores; bounds the model

ASSUME FileEditsAssumption == Batch \subseteq Content /\ Person \in Content /\ Nobody \notin Batch /\ MaxEdits \in Nat

VARIABLES
  phase,   \* where each batch stands
  files,   \* the files of each batch
  held,    \* the batch that holds each path
  mine,    \* the paths each batch has taken
  left,    \* the files each batch has still to write
  ready,   \* batches whose next file has been tracked, and which
  point,   \* batches that have tried to take the checkpoint before their first write
  order,   \* history: the batches that wrote each file, in order
  edits    \* edits by the person and restores so far

batchVars == <<phase, files, held, mine, left, ready, point, order, edits>>
editVars == <<checkpointVars, batchVars>>

Over == {"done", "gave up", "failed"}

EditTypeOK ==
  /\ CheckpointTypeOK
  /\ phase \in [Batch -> {"new", "lock", "wait", "write"} \cup Over]
  /\ files \in [Batch -> SUBSET File] /\ mine \in [Batch -> SUBSET File] /\ left \in [Batch -> SUBSET File]
  /\ held \in [File -> Batch \cup {Nobody}]
  /\ ready \in [Batch -> SUBSET File] /\ point \subseteq Batch
  /\ order \in [File -> Seq(Batch)] /\ edits \in 0..MaxEdits

EditInit ==
  /\ CheckpointInit /\ \A f \in File : tree[f] \notin Batch
  /\ phase = [b \in Batch |-> "new"]
  /\ files = [b \in Batch |-> {}] /\ mine = [b \in Batch |-> {}] /\ left = [b \in Batch |-> {}]
  /\ held = [f \in File |-> Nobody]
  /\ ready = [b \in Batch |-> {}] /\ point = {}
  /\ order = [f \in File |-> << >>] /\ edits = 0

-----------------------------------------------------------------------------
(* The lock *)

\* Keys are taken in one order by everyone.
NextKey(b) == Min(files[b] \ mine[b])

Goto(b, p) == phase' = [phase EXCEPT ![b] = p]

\* A batch that is over leaves nothing behind but its files.
Leave(b) ==
  /\ held' = [f \in File |-> IF held[f] = b THEN Nobody ELSE held[f]]
  /\ files' = [files EXCEPT ![b] = {}] /\ mine' = [mine EXCEPT ![b] = {}]
  /\ left' = [left EXCEPT ![b] = {}] /\ ready' = [ready EXCEPT ![b] = {}]
  /\ point' = point \ {b}

\* Broken variant: nobody who waits is woken.
ReleaseQuietly(b, p) == Leave(b) /\ Goto(b, p)

\* Everything taken is released, and every waiter of it tries again.
Release(b, p) ==
  /\ Leave(b)
  /\ phase' = [c \in Batch |->
       IF c = b THEN p
       ELSE IF phase[c] = "wait" /\ held[NextKey(c)] = b THEN "lock" ELSE phase[c]]

\* applyAskFileWrites, after the hooks of its files have allowed the batch: one
\* that is refused or blocked changes nothing.
Begin(b, fs) ==
  /\ phase[b] = "new" /\ fs # {}
  /\ files' = [files EXCEPT ![b] = fs] /\ left' = [left EXCEPT ![b] = fs]
  /\ Goto(b, "lock")
  /\ UNCHANGED <<checkpointVars, held, mine, ready, point, order, edits>>

\* Broken variant: a path is taken without a look at its holder.
AcquireHeld(b) ==
  /\ phase[b] = "lock"
  /\ held' = [held EXCEPT ![NextKey(b)] = b]
  /\ mine' = [mine EXCEPT ![b] = @ \cup {NextKey(b)}]
  /\ Goto(b, IF mine'[b] = files[b] THEN "write" ELSE "lock")
  /\ UNCHANGED <<checkpointVars, files, left, ready, point, order, edits>>

Acquire(b) ==
  /\ phase[b] = "lock" /\ held[NextKey(b)] = Nobody
  /\ held' = [held EXCEPT ![NextKey(b)] = b]
  /\ mine' = [mine EXCEPT ![b] = @ \cup {NextKey(b)}]
  /\ Goto(b, IF mine'[b] = files[b] THEN "write" ELSE "lock")
  /\ UNCHANGED <<checkpointVars, files, left, ready, point, order, edits>>

Wait(b) ==
  /\ phase[b] = "lock" /\ held[NextKey(b)] # Nobody
  /\ Goto(b, "wait")
  /\ UNCHANGED <<checkpointVars, files, held, mine, left, ready, point, order, edits>>

\* Aborted before a key or while waiting, or out of time.
GiveUp(b) ==
  /\ phase[b] \in {"lock", "wait"}
  /\ Release(b, "gave up")
  /\ UNCHANGED <<checkpointVars, order, edits>>

-----------------------------------------------------------------------------
(* The writes *)

\* Before a file is written it is tracked, and before the first one a checkpoint
\* is taken.  Whatever fails of it is reported, and the write goes on.
Track(b, f) ==
  /\ phase[b] = "write" /\ f \in left[b] /\ ready[b] = {}
  /\ ready' = [ready EXCEPT ![b] = {f}]
  /\ point' = point \cup {b}
  /\ \E captured, tracked \in BOOLEAN :
       /\ captured => b \notin point
       /\ IF captured THEN LogCapture ELSE UNCHANGED <<points, pictures, strayed>>
       /\ LET stored == IF captured THEN Swept ELSE blobs
          IN IF tracked THEN TrackWrite(f, stored) ELSE baseline' = baseline /\ blobs' = stored
  /\ UNCHANGED <<tree, phase, files, held, mine, left, order, edits>>

\* The write; after the last one the paths are released in the same breath.
Write(b, f) ==
  /\ phase[b] = "write" /\ ready[b] = {f}
  /\ tree' = [tree EXCEPT ![f] = b]
  /\ strayed' = IF f \in Tracked THEN strayed ELSE strayed \cup {f}
  /\ order' = [order EXCEPT ![f] = Append(@, b)]
  /\ IF left[b] = {f} THEN Release(b, "done")
     ELSE /\ left' = [left EXCEPT ![b] = @ \ {f}] /\ ready' = [ready EXCEPT ![b] = {}]
          /\ UNCHANGED <<phase, files, held, mine, point>>
  /\ UNCHANGED <<baseline, points, blobs, pictures, edits>>

\* The write throws: the rest of the batch is not written.
WriteThrows(b, f) ==
  /\ phase[b] = "write" /\ ready[b] = {f}
  /\ Release(b, "failed")
  /\ UNCHANGED <<checkpointVars, order, edits>>

-----------------------------------------------------------------------------
(* The doors that take no lock *)

\* PUT /api/file, or an edit outside the program, which tracks nothing.
Edit(f, tracked) ==
  /\ edits < MaxEdits /\ edits' = edits + 1
  /\ tree' = [tree EXCEPT ![f] = Person]
  /\ IF tracked THEN TrackWrite(f, blobs) /\ UNCHANGED strayed
     ELSE UNCHANGED <<baseline, blobs>> /\ strayed' = IF f \in Tracked THEN strayed ELSE strayed \cup {f}
  /\ UNCHANGED <<points, pictures, phase, files, held, mine, left, ready, point, order>>

Checkpoint ==
  /\ Capture
  /\ UNCHANGED <<tree, baseline, batchVars>>

GoBack(i) ==
  /\ edits < MaxEdits /\ edits' = edits + 1
  /\ Restore(points[i])
  /\ UNCHANGED <<phase, files, held, mine, left, ready, point, order>>

Proceed(b) ==
  \/ \E fs \in SUBSET File : Begin(b, fs)
  \/ Acquire(b) \/ Wait(b)
  \/ \E f \in File : Track(b, f) \/ Write(b, f)

EditNext ==
  \/ \E b \in Batch : Proceed(b) \/ GiveUp(b) \/ \E f \in File : WriteThrows(b, f)
  \/ \E f \in File, tracked \in BOOLEAN : Edit(f, tracked)
  \/ Checkpoint
  \/ \E i \in DOMAIN points : GoBack(i)

EditSpec == EditInit /\ [][EditNext]_editVars

-----------------------------------------------------------------------------
(* Correctness *)

\* Batches that wrote the same files did so in the same order everywhere: none
\* "can land between another's steps" (pathWriteLock.ts, lines 4 to 8).  A batch
\* that throws half way leaves the files it did not reach as they were.
BatchesSerial ==
  \A b, c \in Batch, f, g \in File :
    LET Before(h) == \E i, j \in DOMAIN order[h] : i < j /\ order[h][i] = b /\ order[h][j] = c
    IN Before(f) => ~(\E i, j \in DOMAIN order[g] : i < j /\ order[g][i] = c /\ order[g][j] = b)

\* A waiting batch waits for one that is under way, and that can move or waits
\* for a later path itself: no circle of waiters, no waiter nobody will wake, and
\* no path left held by a batch that is over.
LocksMoveOn ==
  /\ \A f \in File : held[f] # Nobody => phase[held[f]] \notin Over
  /\ \A b \in Batch : phase[b] = "wait" =>
       LET h == held[NextKey(b)]
       IN /\ h \notin {b, Nobody}
          /\ phase[h] = "wait" => NextKey(h) > NextKey(b)
=============================================================================
