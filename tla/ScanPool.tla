------------------------------ MODULE ScanPool ------------------------------
(***************************************************************************)
(* Scans on worker threads (scan/scanRunner.ts) and the one thread kept    *)
(* warm between them, with the thread's side of the conversation           *)
(* (scan/scanWorker.ts).  What a thread posts is heard later, in order,    *)
(* its exit last; progress is left out: a progress callback that throws    *)
(* fails the scan as an abort does.  There is one worker file, and reuse   *)
(* is on.                                                                  *)
(***************************************************************************)
EXTENDS Naturals, Sequences

CONSTANTS
  Scan, Thread,      \* numbers of scans and of threads, used in their order
  NoThread, NoScan,
  MaxFaults          \* bound on crashes and unreadable graphs

ASSUME ScanPoolAssumption ==
  Scan \cup Thread \subseteq Nat /\ NoThread \notin Thread /\ NoScan \notin Scan /\ MaxFaults \in Nat

VARIABLES
  scan,    \* the promises of each scan, and its listeners on a thread
  thread,  \* each thread: the scans given to it, and its posts not yet heard
  pool,    \* the warm thread
  garbled, \* history: a graph could not be read after its thread was handed back
  faults   \* crashes and unreadable graphs so far

scanVars == <<scan, thread, pool, garbled, faults>>

Post == [type : {"graph", "functions", "done", "retire", "error", "crash", "noStart", "exit"}, of : Scan \cup {NoScan}]
Promises == {"new", "pending", "resolved", "rejected", "local"}
NoPool == [thread |-> NoThread, busy |-> FALSE, timer |-> FALSE]
Unstarted == [thread |-> NoThread, wants |-> FALSE, oneShot |-> FALSE, pooled |-> FALSE, attached |-> FALSE,
              graph |-> "none", functions |-> "open", promise |-> "new"]
Unborn == [life |-> "unused", jobs |-> << >>, stage |-> "scan", mail |-> << >>, standby |-> FALSE, killed |-> FALSE]

ScanTypeOK ==
  /\ scan \in [Scan -> [thread : Thread \cup {NoThread}, wants : BOOLEAN, oneShot : BOOLEAN, pooled : BOOLEAN,
                        attached : BOOLEAN, graph : {"none", "parsing", "read"},
                        functions : {"open", "ok", "failed"}, promise : Promises]]
  /\ thread \in [Thread -> [life : {"unused", "alive", "ended"}, jobs : Seq(Scan), stage : {"scan", "graph", "functions"},
                            mail : Seq(Post), standby : BOOLEAN, killed : BOOLEAN]]
  /\ pool \in [thread : Thread \cup {NoThread}, busy : BOOLEAN, timer : BOOLEAN]
  /\ garbled \in BOOLEAN /\ faults \in 0..MaxFaults

ScanInit ==
  /\ scan = [s \in Scan |-> Unstarted]
  /\ thread = [w \in Thread |-> Unborn]
  /\ pool = NoPool /\ garbled = FALSE /\ faults = 0

-----------------------------------------------------------------------------
(* The threads *)

\* postMessage, or an event of the thread.
Posts(t, types, s) == [t EXCEPT !.mail = @ \o [i \in DOMAIN types |-> [type |-> types[i], of |-> s]]]

Ends(t) == [t EXCEPT !.life = "ended", !.jobs = << >>, !.stage = "scan"]

\* worker.terminate(): what was posted is still heard, and then the exit.
Terminated(t) ==
  IF t.life = "alive" THEN [Ends(Posts(t, <<"exit">>, NoScan)) EXCEPT !.killed = TRUE] ELSE t

\* postMessage to a thread: one that ended takes nothing.
Given(t, s) == IF t.life = "alive" THEN [t EXCEPT !.jobs = Append(@, s)] ELSE t

Working(w) == thread[w].life = "alive" /\ thread[w].jobs # << >>
Job(w) == Head(thread[w].jobs)

\* The end of runOne: the next scan of the chain, if there is one.
NextJob(t) == [t EXCEPT !.jobs = Tail(@), !.stage = "scan"]

PostGraph(w) ==
  /\ Working(w) /\ thread[w].stage = "scan"
  /\ thread' = [thread EXCEPT ![w] = Posts([@ EXCEPT !.stage = "graph"], <<"graph">>, Job(w))]
  /\ UNCHANGED <<scan, pool, garbled, faults>>

PostFunctions(w) ==
  /\ Working(w) /\ thread[w].stage = "graph" /\ scan[Job(w)].wants
  /\ thread' = [thread EXCEPT ![w] = Posts([@ EXCEPT !.stage = "functions"], <<"functions">>, Job(w))]
  /\ UNCHANGED <<scan, pool, garbled, faults>>

\* A thread that retires ends itself, but for that of a one-shot scan.
PostDone(w, retire) ==
  LET s == Job(w) IN
  /\ Working(w) /\ thread[w].stage = IF scan[s].wants THEN "functions" ELSE "graph"
  /\ scan[s].oneShot => retire
  /\ thread' = [thread EXCEPT ![w] =
       LET t == Posts(NextJob(@), <<IF retire THEN "retire" ELSE "done">>, s)
       IN IF retire /\ ~scan[s].oneShot THEN Ends(Posts(t, <<"exit">>, NoScan)) ELSE t]
  /\ UNCHANGED <<scan, pool, garbled, faults>>

\* main throws, at any stage.
PostError(w) ==
  /\ Working(w)
  /\ faults < MaxFaults /\ faults' = faults + 1
  /\ thread' = [thread EXCEPT ![w] = Posts(NextJob(@), <<"error">>, Job(w))]
  /\ UNCHANGED <<scan, pool, garbled>>

\* The thread dies, while it works or while it starts.
Crashes(w) ==
  /\ Working(w) \/ (thread[w].life = "alive" /\ thread[w].standby)
  /\ faults < MaxFaults /\ faults' = faults + 1
  /\ \E how \in {"crash"} \cup (IF thread[w].stage = "scan" THEN {"noStart"} ELSE {}) :
       thread' = [thread EXCEPT ![w] = Ends(Posts(@, <<how, "exit">>, NoScan))]
  /\ UNCHANGED <<scan, pool, garbled>>

-----------------------------------------------------------------------------
(* The pool *)

Without(p, w) == IF p.thread = w THEN NoPool ELSE p

DropWorker(w) ==
  /\ pool' = Without(pool, w)
  /\ thread' = [thread EXCEPT ![w] = Terminated(@)]

\* A thread not used yet, the first of them.
New(w) == thread[w].life = "unused" /\ \A v \in Thread : v < w => thread[v].life # "unused"

Hatch(s) == [Unborn EXCEPT !.life = "alive", !.jobs = s]

\* Broken variant: busy or not.
AnyWarm == pool.thread # NoThread

\* The warm thread can be taken.
Warm == pool.thread # NoThread /\ ~pool.busy

\* takeWorker: the warm thread if it is idle, else one of its own, which
\* becomes the warm one if there is none.
RunScan(s, wants, oneShot) ==
  /\ scan[s].promise = "new" /\ \A r \in Scan : r < s => scan[r].promise # "new"
  /\ \E w \in Thread :
       LET reused == ~oneShot /\ Warm
       IN /\ IF reused THEN w = pool.thread ELSE New(w)
          /\ thread' = [thread EXCEPT ![w] = IF reused THEN Given(@, s) ELSE Hatch(<<s>>)]
          /\ pool' = IF reused \/ (~oneShot /\ pool.thread = NoThread)
                     THEN [thread |-> w, busy |-> TRUE, timer |-> FALSE] ELSE pool
          /\ scan' = [scan EXCEPT ![s] = [Unstarted EXCEPT !.thread = w, !.wants = wants, !.oneShot = oneShot,
                                            !.pooled = reused, !.attached = TRUE, !.promise = "pending"]]
  /\ UNCHANGED <<garbled, faults>>

\* A thread with its modules loaded, parked in an empty pool.
SpawnStandby ==
  \E w \in Thread :
    /\ New(w)
    /\ pool' = [thread |-> w, busy |-> FALSE, timer |-> TRUE]
    /\ thread' = [thread EXCEPT ![w] = [Hatch(<< >>) EXCEPT !.standby = TRUE]]

Prewarm ==
  /\ pool.thread = NoThread
  /\ SpawnStandby
  /\ UNCHANGED <<scan, garbled, faults>>

\* The idle timer fires.
Cools ==
  /\ pool.timer
  /\ DropWorker(pool.thread)
  /\ UNCHANGED <<scan, garbled, faults>>

-----------------------------------------------------------------------------
(* What a scan does with what it hears *)

Settled(r, outcome) == IF r.functions = "open" THEN [r EXCEPT !.functions = outcome] ELSE r

\* finished, and the listeners are off; the thread is needed only by a graph
\* that is still parsed.
Killed(r) ==
  [Unstarted EXCEPT !.thread = IF r.graph = "parsing" THEN r.thread ELSE NoThread,
                    !.graph = r.graph, !.functions = r.functions, !.promise = r.promise]

Failed(r) == [Settled(Killed(r), "failed") EXCEPT !.promise = "rejected"]

\* fail does nothing once the promise is settled.
Fail(s) == scan' = [scan EXCEPT ![s] = Failed(@)] /\ DropWorker(scan[s].thread)

Hears(s, type) ==
  LET w == scan[s].thread
  IN scan[s].attached /\ thread[w].mail # << >> /\ Head(thread[w].mail).type = type

\* A post is taken from the mail of thread w; its exit is the last of it.
Shorter(t) == [t EXCEPT !.mail = Tail(@)]
HeardOf(t) == IF Head(t.mail).type = "exit" THEN [Unborn EXCEPT !.life = "ended"] ELSE Shorter(t)
Heard(w) == thread' = [thread EXCEPT ![w] = HeardOf(@)]

\* Heard, and the thread is stopped for good.
HeardAndDropped(w) ==
  /\ pool' = Without(pool, w)
  /\ thread' = [thread EXCEPT ![w] = Terminated(Shorter(@))]

OnGraph(s) ==
  /\ Hears(s, "graph")
  /\ Heard(scan[s].thread)
  /\ scan' = [scan EXCEPT ![s].graph = IF scan[s].promise = "pending" /\ @ = "none" THEN "parsing" ELSE @]
  /\ UNCHANGED <<pool, garbled, faults>>

\* The last member of the graph is parsed, ticks later.
Parsed(s) ==
  /\ scan[s].graph = "parsing"
  /\ scan' = [scan EXCEPT ![s].graph = "read", ![s].promise = IF @ = "pending" THEN "resolved" ELSE @]
  /\ UNCHANGED <<thread, pool, garbled, faults>>

Unreadable(s) ==
  /\ scan[s].graph = "parsing" /\ faults < MaxFaults /\ faults' = faults + 1
  /\ IF scan[s].promise = "pending"
     THEN /\ scan' = [scan EXCEPT ![s] = [Failed(@) EXCEPT !.graph = "read"]]
          /\ DropWorker(scan[s].thread)
          /\ garbled' = (garbled \/ ~scan[s].attached)
     ELSE scan' = [scan EXCEPT ![s].graph = "read"] /\ UNCHANGED <<thread, pool, garbled>>

OnFunctions(s) ==
  /\ Hears(s, "functions")
  /\ Heard(scan[s].thread)
  /\ scan' = [scan EXCEPT ![s] = Settled(@, "ok")]
  /\ UNCHANGED <<pool, garbled, faults>>

\* A finished scan is off its thread, which is kept, dropped, or replaced by a
\* standby if the scan had to start it.
OnDone(s) ==
  LET w == scan[s].thread IN
  /\ Hears(s, "done") \/ Hears(s, "retire")
  /\ scan' = [scan EXCEPT ![s] = Settled(Killed(@), "failed")]
  /\ IF pool.thread # w THEN HeardAndDropped(w)
     ELSE IF Hears(s, "done") THEN pool' = [pool EXCEPT !.busy = FALSE, !.timer = TRUE] /\ Heard(w)
     ELSE \/ scan[s].pooled /\ HeardAndDropped(w)
          \/ /\ ~scan[s].pooled
             /\ \E v \in Thread :
                  /\ New(v)
                  /\ pool' = [thread |-> v, busy |-> FALSE, timer |-> TRUE]
                  /\ thread' = [thread EXCEPT ![w] = Terminated(Shorter(@)),
                                              ![v] = [Hatch(<< >>) EXCEPT !.standby = TRUE]]
  /\ UNCHANGED <<garbled, faults>>

OnError(s) ==
  /\ Hears(s, "error")
  /\ HeardAndDropped(scan[s].thread)
  /\ scan' = [scan EXCEPT ![s] = IF @.graph = "none" THEN Failed(@) ELSE Settled(Killed(@), "failed")]
  /\ UNCHANGED <<garbled, faults>>

\* An 'error' event of the thread: a standby is forgotten first.  A thread that
\* could not start is replaced by a scan on this one.
OnCrash(s) ==
  LET w == scan[s].thread IN
  /\ Hears(s, "crash") \/ Hears(s, "noStart")
  /\ IF scan[s].graph # "none"
     THEN /\ scan' = [scan EXCEPT ![s] = Settled(@, "failed")]
          /\ pool' = IF thread[w].standby THEN Without(pool, w) ELSE pool
          /\ Heard(w)
     ELSE /\ HeardAndDropped(w)
          /\ scan' = [scan EXCEPT ![s] =
               IF Hears(s, "noStart") THEN [Killed(@) EXCEPT !.promise = "local"] ELSE Failed(@)]
  /\ UNCHANGED <<garbled, faults>>

RunInProcess(s) ==
  /\ scan[s].promise = "local"
  /\ \E outcome \in {"resolved", "rejected"} : scan' = [scan EXCEPT ![s].promise = outcome]
  /\ UNCHANGED <<thread, pool, garbled, faults>>

\* Broken variant: only the functions are settled.
OnExitUnsettled(s) ==
  LET w == scan[s].thread IN
  /\ Hears(s, "exit")
  /\ pool' = Without(pool, w)
  /\ Heard(w)
  /\ scan' = [scan EXCEPT ![s] = Settled(Killed(@), "failed")]
  /\ UNCHANGED <<garbled, faults>>

OnExit(s) ==
  LET w == scan[s].thread IN
  /\ Hears(s, "exit")
  /\ pool' = Without(pool, w)
  /\ Heard(w)
  /\ scan' = [scan EXCEPT ![s] =
       LET r == Settled(Killed(@), "failed") IN IF r.promise = "pending" THEN Failed(r) ELSE r]
  /\ UNCHANGED <<garbled, faults>>

\* No scan listens: the pool hears of an exit, and of the crash of a standby.
Unheard(w) ==
  /\ thread[w].mail # << >> /\ \A s \in Scan : ~(scan[s].attached /\ scan[s].thread = w)
  /\ LET type == Head(thread[w].mail).type
     IN pool' = IF type = "exit" \/ (type \in {"crash", "noStart"} /\ thread[w].standby) THEN Without(pool, w) ELSE pool
  /\ Heard(w)
  /\ UNCHANGED <<scan, garbled, faults>>

-----------------------------------------------------------------------------
(* The callers *)

\* The signal is aborted: ignored once the thread is done, its graph read or not.
Abort(s) ==
  /\ scan[s].promise = "pending" /\ scan[s].attached
  /\ Fail(s)
  /\ UNCHANGED <<garbled, faults>>

CancelFunctions(s) ==
  /\ scan[s].promise = "resolved" /\ scan[s].attached /\ scan[s].functions = "open"
  /\ scan' = [scan EXCEPT ![s] = Settled(Killed(@), "failed")]
  /\ DropWorker(scan[s].thread)
  /\ UNCHANGED <<garbled, faults>>

ScanNext ==
  \/ \E s \in Scan :
       \/ \E wants, oneShot \in BOOLEAN : RunScan(s, wants, oneShot)
       \/ OnGraph(s) \/ Parsed(s) \/ Unreadable(s) \/ OnFunctions(s) \/ OnDone(s) \/ OnError(s)
       \/ OnCrash(s) \/ RunInProcess(s) \/ OnExit(s) \/ Abort(s) \/ CancelFunctions(s)
  \/ \E w \in Thread :
       \/ PostGraph(w) \/ PostFunctions(w) \/ PostError(w) \/ Crashes(w) \/ Unheard(w)
       \/ \E retire \in BOOLEAN : PostDone(w, retire)
  \/ Prewarm \/ Cools

ScanSpec == ScanInit /\ [][ScanNext]_scanVars

-----------------------------------------------------------------------------
(* Correctness *)

\* Something is still to come from the thread of s: it works on s, or a message
\* of these types is on its way.
Owed(s, types) ==
  LET t == thread[scan[s].thread]
  IN \/ \E i \in DOMAIN t.jobs : t.jobs[i] = s
     \/ \E i \in DOMAIN t.mail : t.mail[i].type \in types \cup {"error", "crash", "noStart", "exit"}

\* No promise of a scan is left that nothing will settle: neither the graph's nor,
\* once the graph is out, that of the functions somebody may wait for.
ScanEnds ==
  \A s \in Scan :
    /\ scan[s].promise = "pending" => scan[s].graph = "parsing" \/ (scan[s].attached /\ Owed(s, {"graph"}))
    /\ scan[s].promise = "resolved" /\ scan[s].functions = "open" /\ scan[s].graph = "read" =>
         scan[s].attached /\ Owed(s, {"functions", "done", "retire"})

\* A thread serves one scan at a time: what a scan hears is its own, and nobody
\* stops the thread under it, unless a graph could not be read after its thread
\* was handed on.
ScanHasItsThread ==
  \A s, r \in Scan :
    LET w == scan[s].thread IN
    scan[s].attached =>
      /\ scan[r].attached /\ scan[r].thread = w => r = s
      /\ \A i \in DOMAIN thread[w].mail : thread[w].mail[i].of \in {s, NoScan}
      /\ garbled \/ ~thread[w].killed

\* Every living thread is the warm one or works for a scan that will let it go,
\* and the warm one is either in use by such a scan or idle with its timer set:
\* no thread is leaked, and the pool never stays busy for nobody.
ThreadsAreOwned ==
  LET Used(w) == \E s \in Scan : scan[s].attached /\ scan[s].thread = w
  IN /\ \A w \in Thread : thread[w].life = "alive" => pool.thread = w \/ Used(w)
     /\ pool.thread # NoThread => pool.busy = Used(pool.thread) /\ pool.timer = ~pool.busy

\* Scans and threads belong to each other, one to one, until they part.
ThreadsServe == ScanHasItsThread /\ ThreadsAreOwned
=============================================================================
