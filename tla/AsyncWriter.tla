----------------------------- MODULE AsyncWriter -----------------------------
(***************************************************************************)
(* The debounced writer of one server process (server/asyncWriter.ts) with *)
(* the reader and writer over it (server/store.ts), another process on the *)
(* same files, and the turn log (server/agentChatStore.ts).                *)
(*                                                                         *)
(* A text is the sequence of the changes made to it, a log that of its     *)
(* lines, all numbered as they are made; a merge is the change it adds.  A *)
(* generation is bumped only where the entry in flight is removed, so the  *)
(* check before a rename is that the entry is still there.  A step is one  *)
(* synchronous stretch of code or several; another process's write is one. *)
(***************************************************************************)
EXTENDS Naturals, Sequences

CONSTANTS
  Path,        \* files written whole
  Log,         \* files appended to, each in a folder of its own
  Gone,        \* the text of no file
  NoWrite,     \* no queued write
  Tries,       \* rereads of an unreadable file before its merges wait
  KeepLines,   \* a log longer than this keeps its newest half
  MaxChanges, MaxBusy, MaxLosses, MaxDeletes, MaxChain  \* bounds of the model

ASSUME WriterAssumption ==
  /\ Tries \in Nat /\ KeepLines \in Nat
  /\ MaxChanges \in Nat /\ MaxBusy \in Nat
  /\ MaxLosses \in Nat /\ MaxDeletes \in Nat /\ MaxChain \in Nat
  /\ Gone \notin Seq(1..MaxChanges)
  /\ NoWrite \notin [blind : BOOLEAN, text : Seq(1..MaxChanges), merges : Seq(1..MaxChanges)]

VARIABLES
  disk,      \* the text of each file
  busy,      \* files that cannot be read just now
  pending,   \* the queued write of each file
  inFlight,  \* the write a drain has taken
  retrying,  \* files whose merges wait for the next timer
  timer,     \* the debounce timer is armed
  chain,     \* flushes begun and not over
  drain,     \* where the running drain stands: phase, file and tries
  batch,     \* files the running drain has still to write
  open,      \* lines queued for each log
  taken,     \* lines the running drain has taken
  live,      \* logs whose folder exists
  log        \* the lines of each log, or Gone

VARIABLES
  made,     \* changes and lines made so far
  safe,     \* history: changes of a file that were written synchronously
  foreign,  \* history: another process's changes that no queued blind text covers
  stale,    \* history: files written from a queued text because they were unreadable
  due,      \* history: lines given to each log and not lost with a failure
  jams, losses, deletes  \* unreadable spells, failures and deletions so far

queueVars == <<pending, inFlight, retrying, timer, chain, drain, batch>>
logVars == <<open, taken, live, log, due>>
pastVars == <<made, safe, foreign, stale, jams, losses, deletes>>
writerVars == <<disk, busy, queueVars, logVars, pastVars>>

Text == Seq(1..MaxChanges)
PendingWrite == [blind : BOOLEAN, text : Text, merges : Text]
Idle == [phase |-> "idle", at |-> Gone, tries |-> 0]
Loop == [phase |-> "loop", at |-> Gone, tries |-> 0]

Changes(t) == IF t = Gone THEN {} ELSE {t[i] : i \in DOMAIN t}

WriterTypeOK ==
  /\ disk \in [Path -> Text \cup {Gone}] /\ busy \subseteq Path
  /\ pending \in [Path -> PendingWrite \cup {NoWrite}]
  /\ inFlight \in [Path -> PendingWrite \cup {NoWrite}]
  /\ retrying \subseteq Path /\ batch \subseteq Path
  /\ timer \in BOOLEAN /\ chain \in 0..MaxChain
  /\ drain \in [phase : {"idle", "loop", "temp", "sleep"}, at : Path \cup {Gone}, tries : 0..Tries]
  /\ open \in [Log -> Text] /\ taken \in [Log -> Text]
  /\ live \subseteq Log /\ log \in [Log -> Text \cup {Gone}]
  /\ made \in 0..MaxChanges
  /\ safe \in [Path -> SUBSET (1..MaxChanges)] /\ foreign \in [Path -> SUBSET (1..MaxChanges)]
  /\ stale \subseteq Path /\ due \in [Log -> SUBSET (1..MaxChanges)]
  /\ jams \in 0..MaxBusy /\ losses \in 0..MaxLosses /\ deletes \in 0..MaxDeletes

WriterInit ==
  /\ \E t \in {Gone, << >>} : disk = [p \in Path |-> t]
  /\ busy = {}
  /\ pending = [p \in Path |-> NoWrite] /\ inFlight = [p \in Path |-> NoWrite]
  /\ retrying = {} /\ timer = FALSE /\ chain = 0 /\ drain = Idle /\ batch = {}
  /\ open = [l \in Log |-> << >>] /\ taken = [l \in Log |-> << >>]
  /\ \E l \in Log : live = {l}
  /\ log = [l \in Log |-> Gone] /\ due = [l \in Log |-> {}]
  /\ made = 0 /\ jams = 0 /\ losses = 0 /\ deletes = 0
  /\ safe = [p \in Path |-> {}] /\ foreign = [p \in Path |-> {}] /\ stale = {}

-----------------------------------------------------------------------------
(* What a reader sees *)

Queued(p) == pending[p] # NoWrite \/ inFlight[p] # NoWrite
Blind(w) == w # NoWrite /\ w.blind
Merges(w) == IF w = NoWrite THEN << >> ELSE w.merges

\* A blind write has no merges: what it is built on is its text.
On(t, w) == IF Blind(w) THEN w.text ELSE IF t = Gone THEN Gone ELSE t \o Merges(w)

\* The newest blind text, or a fresh read, with the later merges on top.
EffectiveText(p) == On(On(disk[p], inFlight[p]), pending[p])

\* When that read fails: the whole text of the newest queued write.
NewestText(p) == IF pending[p] # NoWrite THEN pending[p].text ELSE inFlight[p].text

Unreadable(p) == p \in busy /\ ~Blind(pending[p]) /\ ~Blind(inFlight[p])

Seen(p) == IF Unreadable(p) THEN NewestText(p) ELSE EffectiveText(p)

\* A read of an unreadable file with nothing queued throws.
Readable(p) == Unreadable(p) => Queued(p)

Onto(t, c) == IF t = Gone THEN <<c>> ELSE Append(t, c)

-----------------------------------------------------------------------------
(* The calls of this process *)

Arm == timer' = TRUE

\* What fails in a step counts once.
Failing(failed) ==
  /\ failed # {} => losses < MaxLosses
  /\ losses' = IF failed = {} THEN losses ELSE losses + 1

\* A text made from a queued one because the file could not be read.
Misread(P) == stale' = stale \cup P /\ Failing(P)

\* A merge queued over a blind text makes a blind text; a blind text replaces all.
ScheduleWrite(p, w) ==
  /\ pending' = [pending EXCEPT ![p] =
       IF ~w.blind /\ Blind(pending[p]) THEN [w EXCEPT !.blind = TRUE, !.merges = << >>]
       ELSE IF w.blind THEN w
       ELSE [w EXCEPT !.merges = Merges(pending[p]) \o @]]
  /\ Arm

\* writeJson with defer: the whole text, and the merge it stands for.
Defer(p, blind) ==
  LET c == made + 1
      w == [blind |-> blind, text |-> Onto(Seen(p), c), merges |-> IF blind THEN << >> ELSE <<c>>]
  IN /\ made < MaxChanges /\ made' = c
     /\ Readable(p)
     /\ Misread({q \in {p} : blind /\ Unreadable(q)})
     /\ ScheduleWrite(p, w)
     /\ UNCHANGED <<disk, busy, inFlight, retrying, chain, drain, batch, logVars, safe, foreign, jams, deletes>>

\* Broken variant: what a drain has taken is left to it.
DropQueuedOnly(p) ==
  /\ pending' = [pending EXCEPT ![p] = NoWrite]
  /\ UNCHANGED inFlight

DropPending(p) ==
  /\ pending' = [pending EXCEPT ![p] = NoWrite]
  /\ inFlight' = [inFlight EXCEPT ![p] = NoWrite]

\* writeJson without defer.
Save(p) ==
  LET t == Onto(Seen(p), made + 1)
  IN /\ made < MaxChanges /\ made' = made + 1
     /\ Readable(p)
     /\ Misread({q \in {p} : Unreadable(q)})
     /\ DropPending(p)
     /\ disk' = [disk EXCEPT ![p] = t]
     /\ safe' = [safe EXCEPT ![p] = @ \cup Changes(t)]
     /\ UNCHANGED <<busy, retrying, timer, chain, drain, batch, logVars, foreign, jams, deletes>>

\* The queue is dropped before the write that fails.
SaveFails(p) ==
  /\ losses < MaxLosses /\ losses' = losses + 1
  /\ DropPending(p)
  /\ UNCHANGED <<disk, busy, retrying, timer, chain, drain, batch, logVars,
                 made, safe, foreign, stale, jams, deletes>>

\* The file goes, by this process or by another one.
Removed(p) ==
  /\ deletes < MaxDeletes /\ deletes' = deletes + 1
  /\ disk[p] # Gone
  /\ disk' = [disk EXCEPT ![p] = Gone]
  /\ busy' = busy \ {p}
  /\ safe' = [safe EXCEPT ![p] = {}] /\ foreign' = [foreign EXCEPT ![p] = {}]
  /\ UNCHANGED <<retrying, timer, chain, drain, batch, logVars, made, stale, jams, losses>>

Delete(p) == Removed(p) /\ DropPending(p)

-----------------------------------------------------------------------------
(* The logs *)

\* The newest half of a long log is kept.
TrimLog(lines) ==
  IF Len(lines) > KeepLines THEN SubSeq(lines, (Len(lines) \div 2) + 1, Len(lines)) ELSE lines

WriteAppend(lg, lines) ==
  IF lines = << >> THEN lg ELSE TrimLog((IF lg = Gone THEN << >> ELSE lg) \o lines)

Jobs(l) == {taken[l], open[l]} \ {<< >>}

\* An append that fails loses its job.
Put(lg, job, lost) == IF job \in lost THEN lg ELSE WriteAppend(lg, job)

\* Broken variant: the open job first.
FlushedNewestFirst(l, lost) == Put(Put(log[l], open[l], lost), taken[l], lost)

\* Jobs a drain has taken first, then the open one.
FlushedLog(l, lost) == Put(Put(log[l], taken[l], lost), open[l], lost)

StillDue(l, lost) == due[l] \ UNION {Changes(job) : job \in lost \cap Jobs(l)}

ScheduleAppend(l) ==
  /\ l \in live /\ made < MaxChanges /\ made' = made + 1
  /\ open' = [open EXCEPT ![l] = Append(@, made + 1)]
  /\ due' = [due EXCEPT ![l] = @ \cup {made + 1}]
  /\ Arm
  /\ UNCHANGED <<disk, busy, pending, inFlight, retrying, chain, drain, batch, taken, live, log,
                 safe, foreign, stale, jams, losses, deletes>>

DropAppends(l) ==
  /\ open' = [open EXCEPT ![l] = << >>]
  /\ taken' = [taken EXCEPT ![l] = << >>]

\* readTurnLog: the queued lines of this log are written before it is read.
ReadLog(l) ==
  /\ l \in live
  /\ \E lost \in SUBSET Jobs(l) :
       /\ Failing(lost)
       /\ log' = [log EXCEPT ![l] = FlushedLog(l, lost)]
       /\ due' = [due EXCEPT ![l] = StillDue(l, lost)]
  /\ DropAppends(l)
  /\ UNCHANGED <<disk, busy, queueVars, live, made, safe, foreign, stale, jams, deletes>>

\* deleteSession: the folder of the log goes.
DeleteLog(l) ==
  /\ l \in live /\ deletes < MaxDeletes /\ deletes' = deletes + 1
  /\ DropAppends(l)
  /\ live' = live \ {l}
  /\ log' = [log EXCEPT ![l] = Gone]
  /\ due' = [due EXCEPT ![l] = {}]
  /\ UNCHANGED <<disk, busy, queueVars, made, safe, foreign, stale, jams, losses>>

\* moveSession: queued lines go into the copy, then the source is deleted.
MoveLog(l, m) ==
  /\ l \in live /\ m \notin live
  /\ deletes < MaxDeletes /\ deletes' = deletes + 1
  /\ DropAppends(l)
  /\ live' = (live \ {l}) \cup {m}
  /\ \E lost \in SUBSET Jobs(l) :
       /\ Failing(lost)
       /\ log' = [log EXCEPT ![l] = Gone, ![m] = FlushedLog(l, lost)]
       /\ due' = [due EXCEPT ![l] = {}, ![m] = StillDue(l, lost)]
  /\ UNCHANGED <<disk, busy, queueVars, made, safe, foreign, stale, jams>>

-----------------------------------------------------------------------------
(* The drain *)

\* The timer fires, or flushWrites is called.
FlushWrites ==
  /\ timer /\ chain < MaxChain
  /\ timer' = FALSE
  /\ retrying' = {}
  /\ chain' = chain + 1
  /\ UNCHANGED <<disk, busy, pending, inFlight, drain, batch, logVars, pastVars>>

HasWork == (\E p \in Path \ retrying : pending[p] # NoWrite) \/ (\E l \in Log : open[l] # << >>)

\* drainOnce takes everything queued, the merges that wait included.
Take ==
  /\ chain > 0 /\ drain = Idle /\ HasWork
  /\ drain' = Loop
  /\ batch' = {p \in Path : pending[p] # NoWrite}
  /\ inFlight' = [p \in Path |-> IF pending[p] # NoWrite THEN pending[p] ELSE inFlight[p]]
  /\ pending' = [p \in Path |-> NoWrite]
  /\ taken' = [l \in Log |-> taken[l] \o open[l]]
  /\ open' = [l \in Log |-> << >>]
  /\ UNCHANGED <<disk, busy, retrying, timer, chain, live, log, due, pastVars>>

FlushEnds ==
  /\ chain > 0 /\ drain = Idle /\ ~HasWork
  /\ chain' = chain - 1
  /\ UNCHANGED <<disk, busy, pending, inFlight, retrying, timer, drain, batch, logVars, pastVars>>

\* The drain is done with file p, whose entry is removed if it is still there.
Passed(p) ==
  /\ batch' = batch \ {p}
  /\ drain' = Loop
  /\ inFlight' = [inFlight EXCEPT ![p] = NoWrite]

Superseded(p) ==
  /\ \/ drain = Loop /\ p \in batch
     \/ drain.phase \in {"temp", "sleep"} /\ drain.at = p
  /\ inFlight[p] = NoWrite
  /\ Passed(p)
  /\ UNCHANGED <<disk, busy, pending, retrying, timer, chain, logVars, pastVars>>

\* Everything awaited before the check: the folder, the temp file, its text, refused renames.
WriteTemp(p) ==
  /\ drain = Loop /\ p \in batch /\ Blind(inFlight[p])
  /\ drain' = [phase |-> "temp", at |-> p, tries |-> 0]
  /\ UNCHANGED <<disk, busy, pending, inFlight, retrying, timer, chain, batch, logVars, pastVars>>

Rename(p) ==
  /\ drain.phase = "temp" /\ drain.at = p /\ inFlight[p] # NoWrite
  /\ disk' = [disk EXCEPT ![p] = inFlight[p].text]
  /\ Passed(p)
  /\ UNCHANGED <<busy, pending, retrying, timer, chain, logVars, pastVars>>

\* The drain looks at queued merges: for the first time, or after a sleep.
AtMerges(p) ==
  /\ \/ drain = Loop /\ p \in batch
     \/ drain.phase = "sleep" /\ drain.at = p
  /\ inFlight[p] # NoWrite /\ ~inFlight[p].blind

\* A fresh read and the write, in one step; a file that is gone stays gone.
WriteMerged(p) ==
  /\ AtMerges(p) /\ p \notin busy
  /\ disk' = [disk EXCEPT ![p] = On(@, inFlight[p])]
  /\ Passed(p)
  /\ UNCHANGED <<busy, pending, retrying, timer, chain, logVars, pastVars>>

Sleep(p) ==
  /\ AtMerges(p) /\ p \in busy /\ drain.tries < Tries
  /\ drain' = [phase |-> "sleep", at |-> p, tries |-> drain.tries + 1]
  /\ UNCHANGED <<disk, busy, pending, inFlight, retrying, timer, chain, batch, logVars, pastVars>>

\* Broken variant: on top of it.
OnTop(w, newer) ==
  IF newer = NoWrite THEN w
  ELSE IF newer.blind THEN newer
  ELSE [newer EXCEPT !.merges = @ \o w.merges]

\* A write put back under what was queued meanwhile.
Under(w, newer) ==
  IF newer = NoWrite THEN w
  ELSE IF newer.blind THEN newer
  ELSE [newer EXCEPT !.merges = w.merges \o @]

\* Broken variant: no timer is armed for what was put back.
PutBackUnarmed(p) ==
  /\ AtMerges(p) /\ p \in busy /\ drain.tries = Tries
  /\ pending' = [pending EXCEPT ![p] = Under(inFlight[p], @)]
  /\ retrying' = retrying \cup {p}
  /\ UNCHANGED timer
  /\ Passed(p)
  /\ UNCHANGED <<disk, busy, chain, logVars, pastVars>>

\* Still unreadable: the merges go back ahead of anything newer.
PutBack(p) ==
  /\ AtMerges(p) /\ p \in busy /\ drain.tries = Tries
  /\ pending' = [pending EXCEPT ![p] = Under(inFlight[p], @)]
  /\ retrying' = retrying \cup {p}
  /\ Arm
  /\ Passed(p)
  /\ UNCHANGED <<disk, busy, chain, logVars, pastVars>>

\* The write throws: the change that queued it is lost.
WriteFails(p) ==
  /\ losses < MaxLosses /\ losses' = losses + 1
  /\ \/ drain.phase = "temp" /\ drain.at = p
     \/ AtMerges(p) /\ p \notin busy
  /\ Passed(p)
  /\ UNCHANGED <<disk, busy, pending, retrying, timer, chain, logVars, made, safe, foreign, stale, jams, deletes>>

\* After the files, the lines that were taken and not yet written.
WriteAppends ==
  /\ drain = Loop /\ batch = {}
  /\ \E failing \in SUBSET {l \in Log : taken[l] # << >>} :
       /\ Failing(failing)
       /\ log' = [l \in Log |-> IF l \in failing THEN log[l] ELSE WriteAppend(log[l], taken[l])]
       /\ due' = [l \in Log |-> IF l \in failing THEN due[l] \ Changes(taken[l]) ELSE due[l]]
  /\ taken' = [l \in Log |-> << >>]
  /\ drain' = Idle
  /\ UNCHANGED <<disk, busy, pending, inFlight, retrying, timer, chain, batch, open, live,
                 made, safe, foreign, stale, jams, deletes>>

-----------------------------------------------------------------------------
(* The end of the process, and the world around it *)

\* flushWritesSync: everything queued, oldest first, now; a write that fails is
\* lost.
FlushSync ==
  LET jammed == {p \in Path : Queued(p) /\ Unreadable(p)} IN
  /\ \E failed \in SUBSET {p \in Path : Queued(p)}, lost \in SUBSET UNION {Jobs(l) : l \in Log} :
       /\ Failing(jammed \cup failed \cup lost)
       /\ disk' = [p \in Path |-> IF Queued(p) /\ p \notin failed /\ Seen(p) # Gone THEN Seen(p) ELSE disk[p]]
       /\ stale' = stale \cup (jammed \ failed)
       /\ log' = [l \in Log |-> FlushedLog(l, lost)]
       /\ due' = [l \in Log |-> StillDue(l, lost)]
  /\ pending' = [p \in Path |-> NoWrite] /\ inFlight' = [p \in Path |-> NoWrite]
  /\ open' = [l \in Log |-> << >>] /\ taken' = [l \in Log |-> << >>]
  /\ UNCHANGED <<busy, live, made, safe, foreign, jams, deletes>>

\* server.close: the process may go on for a while.
Close == FlushSync /\ UNCHANGED <<retrying, timer, chain, drain, batch>>

NewProcess == retrying' = {} /\ timer' = FALSE /\ chain' = 0 /\ drain' = Idle /\ batch' = {}

\* The exit hook, and the next process.
Exit == FlushSync /\ NewProcess

Crash ==
  /\ losses < MaxLosses /\ losses' = losses + 1
  /\ NewProcess
  /\ pending' = [p \in Path |-> NoWrite] /\ inFlight' = [p \in Path |-> NoWrite]
  /\ open' = [l \in Log |-> << >>] /\ taken' = [l \in Log |-> << >>]
  /\ due' = [l \in Log |-> due[l] \ (Changes(taken[l]) \cup Changes(open[l]))]
  /\ UNCHANGED <<disk, busy, live, log, made, safe, foreign, stale, jams, deletes>>

\* Another process adds a change to what it reads on the disk.
ForeignWrite(p) ==
  /\ made < MaxChanges /\ made' = made + 1
  /\ p \notin busy
  /\ disk' = [disk EXCEPT ![p] = Onto(@, made + 1)]
  /\ foreign' = [foreign EXCEPT ![p] = IF Blind(pending[p]) \/ Blind(inFlight[p]) THEN @ ELSE @ \cup {made + 1}]
  /\ UNCHANGED <<busy, queueVars, logVars, safe, stale, jams, losses, deletes>>

ForeignDelete(p) == Removed(p) /\ UNCHANGED <<pending, inFlight>>

\* A scanner or a sync client holds the file.
Jam(p) ==
  /\ p \notin busy /\ disk[p] # Gone /\ jams < MaxBusy
  /\ busy' = busy \cup {p} /\ jams' = jams + 1
  /\ UNCHANGED <<disk, queueVars, logVars, made, safe, foreign, stale, losses, deletes>>

Unjam(p) ==
  /\ p \in busy
  /\ busy' = busy \ {p}
  /\ UNCHANGED <<disk, queueVars, logVars, pastVars>>

-----------------------------------------------------------------------------

Calls ==
  \/ \E p \in Path : (\E blind \in BOOLEAN : Defer(p, blind)) \/ Save(p) \/ SaveFails(p) \/ Delete(p)
  \/ \E l \in Log : ScheduleAppend(l) \/ ReadLog(l) \/ DeleteLog(l) \/ \E m \in Log : MoveLog(l, m)
  \/ Close \/ Exit

WriteFile(p) == Superseded(p) \/ WriteTemp(p) \/ Rename(p) \/ WriteMerged(p) \/ Sleep(p) \/ PutBack(p)

Drain == FlushWrites \/ Take \/ FlushEnds \/ WriteAppends \/ \E p \in Path : WriteFile(p)

World ==
  \/ Crash
  \/ \E p \in Path : WriteFails(p) \/ ForeignWrite(p) \/ ForeignDelete(p) \/ Jam(p) \/ Unjam(p)

WriterNext == Calls \/ Drain \/ World

WriterSpec == WriterInit /\ [][WriterNext]_writerVars

-----------------------------------------------------------------------------
(* Correctness *)

\* A change written synchronously is never overwritten by an older deferred
\* one: it stays on the disk until its file is deleted (lines 18 to 21).
SyncWriteSurvives == \A p \in Path : safe[p] \subseteq Changes(disk[p])

\* A whole-file rewrite queued with merges erases no change another process
\* made (lines 22 to 23), unless the file was rewritten while unreadable.
OthersKept == \A p \in Path \ stale : foreign[p] \subseteq Changes(disk[p])

\* No change that reached the disk by another way than the queue is erased by it.
ChangesSurvive == SyncWriteSurvives /\ OthersKept

\* The lines of a log, queued ones included, are every line said, once and in
\* order, but for lines lost with a failure and an older half trimmed away;
\* nothing queued brings a deleted log back.
LogWhole ==
  \A l \in Log :
    LET lines == IF log[l] = Gone THEN << >> ELSE log[l]
        all == lines \o taken[l] \o open[l]
    IN IF l \in live
       THEN /\ \A i, j \in DOMAIN all : i < j => all[i] < all[j]
            /\ \/ Changes(all) = due[l]
               \/ /\ Len(lines) >= (KeepLines + 2) \div 2
                  /\ Changes(all) = {n \in due[l] : n >= all[1]}
       ELSE log[l] = Gone

\* Nothing queued is stranded: the timer is armed or a flush will look at it, a
\* write that was taken is one the running drain has still to make, and so are
\* lines that were taken.
NothingStranded ==
  /\ \A p \in Path :
       /\ pending[p] # NoWrite => timer \/ (chain > 0 /\ p \notin retrying)
       /\ inFlight[p] # NoWrite => p \in batch
  /\ \A l \in Log :
       /\ open[l] # << >> => timer \/ chain > 0
       /\ taken[l] # << >> => drain # Idle

\* A reader of this process sees the newest text at every moment: a drain, an
\* exit or a coalesced write changes nothing it reads.
Promise == INSTANCE DeferredFile WITH text <- [p \in Path |-> EffectiveText(p)]
KeepsPromise == Promise!Spec
=============================================================================
