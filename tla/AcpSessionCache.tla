--------------------------- MODULE AcpSessionCache ---------------------------
(***************************************************************************)
(* The per-server cache of live agent sessions                             *)
(* (packages/analyzer/src/server/acpSessionCache.ts).  A turn calls        *)
(* run(key, create, use): it reuses, joins or starts the agent process of  *)
(* its key, waits for the turns ahead of it, uses the agent and leaves.    *)
(*                                                                         *)
(* An Entry is one call of create(): the creation promise, the process it  *)
(* spawns and the cached entry it resolves to share an identity.  The code *)
(* is single-threaded, so a step is the code between two awaits; the order *)
(* in which pending awaits resume is left open.                            *)
(***************************************************************************)
EXTENDS Naturals, Sequences, FiniteSets

CONSTANTS
  Turn,         \* calls of run(); each is made at most once
  Key,          \* session keys (one per chat and agent)
  Cwd,          \* working folders
  Asks,         \* the requests each turn may make
  Entry,        \* creations; a finite supply bounds the model
  None,         \* no entry, no folder
  MaxSessions   \* the cap on live sessions

ASSUME NoneAssumption == None \notin Entry /\ None \notin Cwd /\ None \notin Turn
ASSUME KeyAssumption == Key # {}
ASSUME AsksAssumption == Asks \in [Turn -> SUBSET [key : Key, cwd : Cwd \cup {None}]]
ASSUME EntryAssumption == Entry \subseteq Nat
ASSUME MaxSessionsAssumption == MaxSessions \in Nat \ {0}

VARIABLES
  pc,        \* where each turn stands in run()
  req,       \* the key and cwd each turn asked for
  on,        \* the entry each turn awaits or holds
  aborted,   \* the turn's abort signal has fired
  phase,     \* progress of each creation
  of,        \* entry.key
  dir,       \* entry.cwd
  gate,      \* the teardown gate a creation that has not spawned waits for
  proc,      \* the agent process of each entry
  disposed,  \* entry.disposed
  timer,     \* entry.idleTimer is armed
  queue,     \* entry.turnLock: unreleased locks, oldest first
  live,      \* the Map of resolved entries
  older,     \* its insertion order: <<j, k>> when j was inserted before k
  pending,   \* the Map of creations in flight
  teardowns, \* disposed entries of a key whose process has not exited
  inflight,  \* turns running or queued per key
  shutdown,  \* the server: open, closing or closed
  condemned, \* creations disposeAll() waits for, to dispose their entry
  closing    \* entries disposeAll() disposed and awaits the exit of

turnVars == <<pc, req, on, aborted>>
entryVars == <<phase, of, dir, gate, proc, disposed, timer, queue>>
mapVars == <<live, older, pending, teardowns, inflight>>
serverVars == <<shutdown, condemned, closing>>
vars == <<turnVars, entryVars, mapVars, serverVars>>

\* What a turn asks for; the folder is optional (AcpSessionRunOptions.cwd).
Request == [key : Key, cwd : Cwd \cup {None}]

TypeOK ==
  /\ pc \in [Turn -> {"idle", "ensuring", "queued", "retiring", "using",
                      "disposing", "leaving", "done"}]
  /\ req \in [Turn -> Request]
  /\ on \in [Turn -> Entry \cup {None}]
  /\ \A t \in Turn : on[t] = None <=> pc[t] = "idle"
  /\ aborted \in [Turn -> BOOLEAN]
  /\ phase \in [Entry -> {"free", "gated", "creating", "ready", "failed"}]
  /\ of \in [Entry -> Key]
  /\ dir \in [Entry -> Cwd \cup {None}]
  /\ gate \in [Entry -> SUBSET Entry]
  /\ proc \in [Entry -> {"none", "up", "gone"}]
  /\ disposed \in [Entry -> BOOLEAN]
  /\ timer \in [Entry -> BOOLEAN]
  /\ queue \in [Entry -> Seq(Turn)]
  /\ live \in [Key -> Entry \cup {None}]
  /\ older \subseteq Key \X Key
  /\ pending \in [Key -> Entry \cup {None}]
  /\ teardowns \in [Key -> SUBSET Entry]
  /\ inflight \in [Key -> Nat]
  /\ shutdown \in {"open", "closing", "closed"}
  /\ condemned \subseteq Entry
  /\ closing \subseteq Entry

Init ==
  /\ pc = [t \in Turn |-> "idle"]
  /\ req = [t \in Turn |-> CHOOSE r \in Request : TRUE]
  /\ on = [t \in Turn |-> None]
  /\ aborted = [t \in Turn |-> FALSE]
  /\ phase = [e \in Entry |-> "free"]
  /\ of = [e \in Entry |-> CHOOSE k \in Key : TRUE]
  /\ dir = [e \in Entry |-> None]
  /\ gate = [e \in Entry |-> {}]
  /\ proc = [e \in Entry |-> "none"]
  /\ disposed = [e \in Entry |-> FALSE]
  /\ timer = [e \in Entry |-> FALSE]
  /\ queue = [e \in Entry |-> <<>>]
  /\ live = [k \in Key |-> None]
  /\ older = {}
  /\ pending = [k \in Key |-> None]
  /\ teardowns = [k \in Key |-> {}]
  /\ inflight = [k \in Key |-> 0]
  /\ shutdown = "open"
  /\ condemned = {}
  /\ closing = {}

-----------------------------------------------------------------------------
(* Shared pieces of the handlers *)

LiveKeys(lv) == {k \in Key : lv[k] # None}

\* Map.set after Map.delete: k becomes the most recently used key.
ToNewest(k, lv) ==
  {p \in older : p[1] # k /\ p[2] # k} \cup ((LiveKeys(lv) \ {k}) \X {k})

(* disposeEntry on each entry of D, from the given map, order and timers:  *)
(* unmap it, stop its countdown, and, while its process is up, put it in   *)
(* its key's teardown gate.  Disposing twice changes nothing.              *)
DisposeFrom(D, lv, order, armed) ==
  /\ disposed' = [e \in Entry |-> disposed[e] \/ e \in D]
  /\ timer' = [e \in Entry |-> armed[e] /\ e \notin D]
  /\ live' = [k \in Key |-> IF lv[k] \in D THEN None ELSE lv[k]]
  /\ older' = {p \in order : lv[p[1]] \notin D /\ lv[p[2]] \notin D}
  /\ teardowns' = [k \in Key |->
       teardowns[k] \cup {e \in Entry : e \in D /\ of[e] = k /\ proc[e] = "up"}]

Dispose(D) == DisposeFrom(D, live, older, timer)

KeepEntries == UNCHANGED <<disposed, timer, live, older, teardowns>>

\* Broken variant: eviction looks at the order only.
VictimsBusyToo(lv, order, busy) ==
  LET excess == Cardinality(LiveKeys(lv)) - MaxSessions
      rank(k) == Cardinality({j \in LiveKeys(lv) : <<j, k>> \in order})
  IN  {lv[k] : k \in {j \in LiveKeys(lv) : rank(j) < excess}}

(* enforceCap: while the map is over the cap, the least recently used      *)
(* entry whose key has no turn running or queued is disposed.              *)
Victims(lv, order, busy) ==
  LET idle == {k \in LiveKeys(lv) : busy[k] = 0}
      excess == Cardinality(LiveKeys(lv)) - MaxSessions
      rank(k) == Cardinality({j \in idle : <<j, k>> \in order})
  IN  {lv[k] : k \in {j \in idle : rank(j) < excess}}

Reusable(k) == live[k] # None /\ ~disposed[live[k]] /\ proc[live[k]] = "up"

\* A live entry whose client has closed itself (AcpClient.isClosed).
SelfClosed(k) == {e \in {live[k]} \ {None} : ~disposed[e] /\ proc[e] # "up"}

NextFree(e) ==
  /\ phase[e] = "free"
  /\ \A f \in Entry : f < e => phase[f] # "free"

\* Broken variant: the creation does not wait for the teardown gate.
StartCreationUngated(e, k, c) ==
  /\ NextFree(e)
  /\ phase' = [phase EXCEPT ![e] = "gated"]
  /\ of' = [of EXCEPT ![e] = k]
  /\ dir' = [dir EXCEPT ![e] = c]
  /\ pending' = [pending EXCEPT ![k] = e]
  /\ UNCHANGED gate

(* A new creation captures the key's teardown gate and is registered at    *)
(* once, so that a second caller joins it.                                 *)
StartCreation(e, k, c) ==
  /\ NextFree(e)
  /\ phase' = [phase EXCEPT ![e] = "gated"]
  /\ of' = [of EXCEPT ![e] = k]
  /\ dir' = [dir EXCEPT ![e] = c]
  /\ gate' = [gate EXCEPT ![e] = teardowns[k]]
  /\ pending' = [pending EXCEPT ![k] = e]

KeepCreations == UNCHANGED <<phase, of, dir, gate, pending>>

\* Broken variant: a second caller does not join the creation in flight.
EnsureNoJoin(t, k, c) ==
  \/ /\ Reusable(k)
     /\ on' = [on EXCEPT ![t] = live[k]]
     /\ KeepCreations /\ KeepEntries
  \/ /\ ~Reusable(k)
     /\ Dispose(SelfClosed(k))
     /\ \E e \in Entry : StartCreation(e, k, c) /\ on' = [on EXCEPT ![t] = e]

(* ensure(): reuse the live entry, else join the creation in flight, else  *)
(* start one.  A live entry whose client closed itself is disposed first.  *)
Ensure(t, k, c) ==
  \/ /\ Reusable(k)
     /\ on' = [on EXCEPT ![t] = live[k]]
     /\ KeepCreations /\ KeepEntries
  \/ /\ ~Reusable(k)
     /\ Dispose(SelfClosed(k))
     /\ \/ /\ pending[k] # None
           /\ on' = [on EXCEPT ![t] = pending[k]]
           /\ KeepCreations
        \/ /\ pending[k] = None
           /\ \E e \in Entry :
                /\ StartCreation(e, k, c)
                /\ on' = [on EXCEPT ![t] = e]

\* Broken variant: a turn stopped in the queue releases its lock at once.
HoldsPastStopped(t, e) ==
  \E i \in 1..Len(queue[e]) :
    /\ queue[e][i] = t
    /\ i > 1 => pc[queue[e][i - 1]] \in {"leaving", "done"}

\* The turn that holds the lock of e: every lock ahead of it is released.
Holds(t, e) == queue[e] # <<>> /\ Head(queue[e]) = t

\* Broken variant: the lock of a turn that left the queue is never passed on.
LeftBehindStays(e) == FALSE

\* A turn at the head of the chain that has already left: its lock passes on.
LeftBehind(e) ==
  /\ queue[e] # <<>>
  /\ LET t == Head(queue[e]) IN
       on[t] # e \/ pc[t] \notin {"queued", "retiring", "using", "disposing"}

\* Broken variant: the creation starts without awaiting the gate.
GateOpenAtOnce(e) == phase[e] = "gated"

\* Every process the captured gate waits for has exited.
GateOpen(e) == phase[e] = "gated" /\ \A f \in gate[e] : proc[f] = "gone"

Settled(e) == e \in condemned /\ phase[e] \in {"ready", "failed"}

(* Promise reactions run before the next timer or I/O event.  A turn's     *)
(* pending reaction, and the state in which none is pending.               *)
Reacts(t) ==
  \/ pc[t] = "ensuring" /\ phase[on[t]] \in {"ready", "failed"}
  \/ pc[t] = "queued" /\ (aborted[t] \/ Holds(t, on[t]))
  \/ pc[t] \in {"retiring", "disposing"} /\ proc[on[t]] = "gone"
  \/ pc[t] = "leaving"

Quiet ==
  /\ \A t \in Turn : ~Reacts(t)
  /\ \A e \in Entry : ~LeftBehind(e) /\ ~GateOpen(e) /\ ~Settled(e)

-----------------------------------------------------------------------------
(* A turn's steps through run() *)

Goto(t, l) == pc' = [pc EXCEPT ![t] = l]

WrongCwd(t, e) == req[t].cwd # None /\ dir[e] # req[t].cwd

\* run(): count the turn, then ensure a session for its key.
Run(t) ==
  /\ shutdown = "open"
  /\ pc[t] = "idle"
  /\ \E r \in Asks[t] :
       /\ req' = [req EXCEPT ![t] = r]
       /\ inflight' = [inflight EXCEPT ![r.key] = @ + 1]
       /\ Ensure(t, r.key, r.cwd)
  /\ Goto(t, "ensuring")
  /\ UNCHANGED <<aborted, proc, queue, serverVars>>

\* The awaited creation failed, or the turn was stopped while it waited.
EnsureThrows(t) ==
  /\ pc[t] = "ensuring"
  /\ \/ phase[on[t]] = "failed"
     \/ phase[on[t]] = "ready" /\ aborted[t]
  /\ Goto(t, "leaving")
  /\ UNCHANGED <<req, on, aborted, entryVars, mapVars, serverVars>>

\* The session is there: stop its countdown, touch it, take the next lock.
Enter(t) ==
  LET e == on[t] IN
  /\ pc[t] = "ensuring"
  /\ phase[e] = "ready" /\ ~aborted[t]
  /\ timer' = [timer EXCEPT ![e] = FALSE]
  /\ older' = IF live[of[e]] = e THEN ToNewest(of[e], live) ELSE older
  /\ queue' = [queue EXCEPT ![e] = Append(@, t)]
  /\ Goto(t, "queued")
  /\ UNCHANGED <<req, on, aborted, phase, of, dir, gate, proc, disposed,
                 live, pending, teardowns, inflight, serverVars>>

(* A turn stopped while queued leaves at once; its lock stays in the chain *)
(* until the turns ahead of it are through (see PassLock).                 *)
StopQueued(t) ==
  /\ pc[t] = "queued" /\ aborted[t]
  /\ Goto(t, "leaving")
  /\ UNCHANGED <<req, on, aborted, entryVars, mapVars, serverVars>>

\* `prior.finally(unlock)`: the lock of a turn that left the queue passes on.
PassLock(e) ==
  /\ LeftBehind(e)
  /\ queue' = [queue EXCEPT ![e] = Tail(@)]
  /\ UNCHANGED <<turnVars, phase, of, dir, gate, proc, disposed, timer, mapVars, serverVars>>

\* The lock is won on a session this turn may use.
BeginUse(t) ==
  LET e == on[t] IN
  /\ pc[t] = "queued" /\ Holds(t, e) /\ ~aborted[t]
  /\ ~disposed[e] /\ ~WrongCwd(t, e) /\ proc[e] = "up"
  /\ Goto(t, "using")
  /\ UNCHANGED <<req, on, aborted, entryVars, mapVars, serverVars>>

(* The lock is won but the session is in another folder, or its client     *)
(* closed itself: dispose it and wait for the process to exit.             *)
Retire(t) ==
  LET e == on[t] IN
  /\ pc[t] = "queued" /\ Holds(t, e) /\ ~aborted[t]
  /\ ~disposed[e] /\ (WrongCwd(t, e) \/ proc[e] # "up")
  /\ Dispose({e})
  /\ Goto(t, "retiring")
  /\ UNCHANGED <<req, on, aborted, phase, of, dir, gate, proc, queue,
                 pending, inflight, serverVars>>

\* The session held is disposed: release its lock and ensure another one.
Recreate(t) ==
  LET e == on[t] IN
  /\ \/ pc[t] = "queued" /\ ~aborted[t] /\ Holds(t, e) /\ disposed[e]
     \/ pc[t] = "retiring" /\ proc[e] = "gone"
  /\ queue' = [queue EXCEPT ![e] = Tail(@)]
  /\ Ensure(t, req[t].key, req[t].cwd)
  /\ Goto(t, "ensuring")
  /\ UNCHANGED <<req, aborted, proc, inflight, serverVars>>

\* `finally`: release the lock; the last user restarts the idle countdown.
Unlock(t) ==
  LET e == on[t] IN
  /\ queue' = [queue EXCEPT ![e] = Tail(@)]
  /\ timer' = [timer EXCEPT ![e] = @ \/ (~disposed[e] /\ Tail(queue[e]) = <<>>)]
  /\ Goto(t, "leaving")

\* The agent answered (or reported the turn cancelled).
FinishUse(t) ==
  /\ pc[t] = "using"
  /\ Unlock(t)
  /\ UNCHANGED <<req, on, aborted, phase, of, dir, gate, proc, disposed, mapVars, serverVars>>

(* The turn throws while it uses the agent: the agent failed, or the turn  *)
(* was stopped and the cancel grace ran out.  The session is disposed (the *)
(* route's disposeOnError answers true unless the turn was aborted, and an *)
(* aborted holder disposes too), and the lock is kept until the process    *)
(* has exited.                                                             *)
Throw(t) ==
  LET e == on[t] IN
  /\ pc[t] = "using"
  /\ \/ /\ disposed[e]
        /\ Unlock(t)
        /\ UNCHANGED <<disposed, live, older, teardowns>>
     \/ /\ ~disposed[e]
        /\ Dispose({e})
        /\ Goto(t, "disposing")
        /\ UNCHANGED queue
  /\ UNCHANGED <<req, on, aborted, phase, of, dir, gate, proc, pending,
                 inflight, serverVars>>

ThrowDisposed(t) ==
  /\ pc[t] = "disposing" /\ proc[on[t]] = "gone"
  /\ Unlock(t)
  /\ UNCHANGED <<req, on, aborted, phase, of, dir, gate, proc, disposed, mapVars, serverVars>>

\* Broken variant: a finished turn does not bring the cache back to its cap.
LeaveNoCap(t) ==
  /\ pc[t] = "leaving"
  /\ inflight' = [inflight EXCEPT ![req[t].key] = @ - 1]
  /\ Goto(t, "done")
  /\ KeepEntries
  /\ UNCHANGED <<req, on, aborted, phase, of, dir, gate, proc, queue, pending, serverVars>>

\* Broken variant: the turn is uncounted in both finally blocks.
LeaveUncountsTwice(t) ==
  /\ pc[t] = "leaving"
  /\ inflight' = [inflight EXCEPT ![req[t].key] = @ - 2]
  /\ Goto(t, "done")
  /\ KeepEntries
  /\ UNCHANGED <<req, on, aborted, phase, of, dir, gate, proc, queue, pending, serverVars>>

\* run()'s own finally: uncount the turn; the last one enforces the cap.
Leave(t) ==
  LET k == req[t].key
      left == [inflight EXCEPT ![k] = IF @ > 1 THEN @ - 1 ELSE 0] IN
  /\ pc[t] = "leaving"
  /\ inflight' = left
  /\ Dispose(IF left[k] = 0 THEN Victims(live, older, left) ELSE {})
  /\ Goto(t, "done")
  /\ UNCHANGED <<req, on, aborted, phase, of, dir, gate, proc, queue, pending, serverVars>>

-----------------------------------------------------------------------------
(* Creations, agents and the server around them *)

\* The captured gate has opened: create() spawns the agent.
Spawn(e) ==
  /\ GateOpen(e)
  /\ phase' = [phase EXCEPT ![e] = "creating"]
  /\ proc' = [proc EXCEPT ![e] = "up"]
  /\ gate' = [gate EXCEPT ![e] = {}]
  /\ UNCHANGED <<turnVars, of, dir, disposed, timer, queue, mapVars, serverVars>>

Unregister(e) == pending' = [k \in Key |-> IF pending[k] = e THEN None ELSE pending[k]]

(* create() resolved: the entry enters the map with its countdown running, *)
(* and the map is brought back to the cap.                                 *)
Created(e) ==
  LET k == of[e]
      lv == [live EXCEPT ![k] = e]
      order == IF live[k] = None THEN ToNewest(k, live) ELSE older
  IN
  /\ Quiet
  /\ phase[e] = "creating"
  /\ phase' = [phase EXCEPT ![e] = "ready"]
  /\ Unregister(e)
  /\ DisposeFrom(Victims(lv, order, inflight), lv, order, [timer EXCEPT ![e] = TRUE])
  /\ UNCHANGED <<turnVars, of, dir, gate, proc, queue, inflight, serverVars>>

\* create() rejected, after its own client.dispose(): nothing is cached.
CreateFails(e) ==
  /\ Quiet
  /\ phase[e] = "creating"
  /\ phase' = [phase EXCEPT ![e] = "failed"]
  /\ proc' = [proc EXCEPT ![e] = "gone"]
  /\ Unregister(e)
  /\ UNCHANGED <<turnVars, of, dir, gate, disposed, timer, queue, live, older, teardowns, inflight, serverVars>>

(* The process of a cached entry exits, killed by its disposal or on its   *)
(* own; what awaits that exit (its key's gate) no longer waits for it.     *)
AgentExits(e) ==
  /\ Quiet
  /\ proc[e] = "up" /\ phase[e] = "ready"
  /\ proc' = [proc EXCEPT ![e] = "gone"]
  /\ teardowns' = [k \in Key |-> teardowns[k] \ {e}]
  /\ UNCHANGED <<turnVars, phase, of, dir, gate, disposed, timer, queue, live, older, pending, inflight, serverVars>>

IdleExpires(e) ==
  /\ Quiet
  /\ timer[e]
  /\ Dispose({e})
  /\ UNCHANGED <<turnVars, phase, of, dir, gate, proc, queue, pending, inflight, serverVars>>

(* Stop of a turn: its signal fires.  It fires from an I/O event or a      *)
(* timer, so never between winning the lock and using it (the re-checks of *)
(* lines 325 and 336 have nothing to catch).                               *)
Abort(t) ==
  /\ pc[t] \in {"ensuring", "queued", "retiring", "using"} /\ ~Reacts(t) /\ ~aborted[t]
  /\ aborted' = [aborted EXCEPT ![t] = TRUE]
  /\ UNCHANGED <<pc, req, on, entryVars, mapVars, serverVars>>

\* dispose(key): a hung turn, the stop grace, a rewind, the end of a goal.
DisposeKey(k) ==
  /\ Quiet
  /\ live[k] # None
  /\ Dispose({live[k]})
  /\ UNCHANGED <<turnVars, phase, of, dir, gate, proc, queue, pending, inflight, serverVars>>

\* disposeAll(), on the server's close event.
DisposeAll ==
  /\ Quiet
  /\ shutdown = "open"
  /\ shutdown' = "closing"
  /\ Dispose({live[k] : k \in LiveKeys(live)})
  /\ condemned' = {pending[k] : k \in {j \in Key : pending[j] # None}}
  /\ closing' = {live[k] : k \in LiveKeys(live)}
  /\ pending' = [k \in Key |-> None]
  /\ UNCHANGED <<turnVars, phase, of, dir, gate, proc, queue, inflight>>

\* A creation disposeAll() found in flight has settled.
DisposeCondemned(e) ==
  /\ Settled(e)
  /\ condemned' = condemned \ {e}
  /\ IF phase[e] = "failed" \/ disposed[e]
     THEN KeepEntries /\ UNCHANGED closing
     ELSE Dispose({e}) /\ closing' = closing \cup {e}
  /\ UNCHANGED <<turnVars, phase, of, dir, gate, proc, queue, pending, inflight, shutdown>>

\* disposeAll() resolves once every entry it disposed has exited.
ShutdownDone ==
  /\ Quiet
  /\ shutdown = "closing" /\ condemned = {}
  /\ \A e \in closing : proc[e] = "gone"
  /\ shutdown' = "closed"
  /\ UNCHANGED <<turnVars, entryVars, mapVars, condemned, closing>>

TurnStep(t) ==
  \/ Run(t) \/ EnsureThrows(t) \/ Enter(t) \/ StopQueued(t) \/ BeginUse(t)
  \/ Retire(t) \/ Recreate(t) \/ FinishUse(t) \/ Throw(t) \/ ThrowDisposed(t)
  \/ Leave(t) \/ Abort(t)

EntryStep(e) ==
  \/ Spawn(e) \/ Created(e) \/ CreateFails(e) \/ AgentExits(e)
  \/ IdleExpires(e) \/ PassLock(e) \/ DisposeCondemned(e)

Next ==
  \/ \E t \in Turn : TurnStep(t)
  \/ \E e \in Entry : EntryStep(e)
  \/ \E k \in Key : DisposeKey(k)
  \/ DisposeAll
  \/ ShutdownDone

(* Scheduling: promise reactions run; a timer that is armed fires; a       *)
(* disposed agent exits (SIGKILL after the grace); a turn in use ends once *)
(* its agent is gone (the pending requests are rejected) or it is stopped  *)
(* (the agent confirms, or is killed after the grace).  Any other turn     *)
(* need not end: a question to a person pauses its watchdog.  Nor need a   *)
(* creation settle: it has no signal, no deadline and no watchdog yet      *)
(* (runNodeRoutes.ts, lines 1027-1028).                                    *)
MustEnd(t) == pc[t] = "using" /\ (aborted[t] \/ proc[on[t]] = "gone")

TurnReacts(t) ==
  \/ EnsureThrows(t) \/ Enter(t) \/ StopQueued(t) \/ BeginUse(t) \/ Retire(t)
  \/ Recreate(t) \/ ThrowDisposed(t) \/ Leave(t)

EntryReacts(e) == PassLock(e) \/ DisposeCondemned(e) \/ Spawn(e)

Fairness ==
  /\ \A t \in Turn : WF_vars(TurnReacts(t)) /\ WF_vars(MustEnd(t) /\ (FinishUse(t) \/ Throw(t)))
  /\ \A e \in Entry :
       WF_vars(EntryReacts(e)) /\ WF_vars(disposed[e] /\ AgentExits(e)) /\ WF_vars(IdleExpires(e))
  /\ WF_vars(ShutdownDone)

Spec == Init /\ [][Next]_vars
FairSpec == Spec /\ Fairness

-----------------------------------------------------------------------------
(* Safety *)

Open == shutdown = "open"

(* The teardown gate (lines 156-162): while the server is open, a session  *)
(* key never has two agent processes, however turns, disposals, crashes    *)
(* and re-creations of the key interleave.                                 *)
OneProcessPerKey ==
  Open => \A e, f \in Entry :
            (proc[e] = "up" /\ proc[f] = "up" /\ of[e] = of[f]) => e = f

(* SERIALIZE (lines 19-22): one turn at a time holds a session, whichever  *)
(* turns were stopped in the queue ahead of it.                            *)
Holding(t) == pc[t] \in {"using", "retiring", "disposing"}
OneTurnPerSession ==
  \A t, u \in Turn : (Holding(t) /\ Holding(u) /\ on[t] = on[u]) => t = u

(* No agent leaks: every process is being started, is in the map where the *)
(* next turn, the cap or the timer finds it, or is already told to exit.   *)
NoOrphan ==
  Open => \A e \in Entry :
            proc[e] = "up" => \/ phase[e] = "creating"
                              \/ disposed[e]
                              \/ live[of[e]] = e

(* The cap (lines 203-207): the map is over it only while every session in *)
(* it has a turn running or queued.                                        *)
OverCapOnlyWhileBusy ==
  Cardinality(LiveKeys(live)) > MaxSessions => \A k \in LiveKeys(live) : inflight[k] > 0

\* An idle countdown never runs under a turn that holds or waits for the lock.
IdleTimerOnlyUnused == \A e \in Entry : timer[e] => (queue[e] = <<>> /\ ~disposed[e])

(* A running turn loses its agent only through its own failure, an explicit *)
(* dispose(key) or the shutdown; never through the timer, the cap or       *)
(* another turn's re-creation.                                             *)
NeverKilledUnderATurn ==
  [][\A t \in Turn :
       (pc[t] = "using" /\ proc[on[t]] = "up" /\ ~disposed[on[t]] /\ disposed'[on[t]])
         => \/ pc'[t] = "disposing"
            \/ DisposeAll \/ \E k \in Key : DisposeKey(k)
            \/ \E e \in Entry : DisposeCondemned(e)]_vars

(* HYGIENE (lines 31-33): a session that no turn runs or waits on has its  *)
(* countdown armed, "so an abandoned key never pins a subprocess forever". *)
AbandonedIsTimed ==
  \A k \in LiveKeys(live) : (inflight[k] = 0 /\ ~LeftBehind(live[k])) => timer[live[k]]

(* Shutdown (lines 39-40): disposeAll() "tears every session down": once it *)
(* has resolved, no agent is left that nobody has told to exit.            *)
NoAgentAfterClose == shutdown = "closed" => \A e \in Entry : proc[e] = "up" => disposed[e]

(* What each agent thread sees (module AgentThread). *)
UpOn(k) == {e \in Entry : Open /\ proc[e] = "up" /\ of[e] = k}
UsersOf(k) == {t \in Turn : pc[t] = "using" /\ on[t] \in UpOn(k)}
Only(S) == IF S = {} THEN None ELSE CHOOSE x \in S : TRUE

Thread == INSTANCE AgentThread WITH
  Process <- Entry,
  agent <- [k \in Key |-> Only(UpOn(k))],
  user <- [k \in Key |-> Only(UsersOf(k))],
  spent <- {e \in Entry : Open /\ proc[e] # "none"},
  shut <- ~Open

(* The cache implements the promise: reuse, crashes, disposals and         *)
(* re-creations included.                                                  *)
ImplementsAgentThread == Thread!Spec

-----------------------------------------------------------------------------
(* Liveness *)

\* A turn needs a creation and the model's supply of them is used up.
Starved ==
  /\ \A e \in Entry : phase[e] # "free"
  /\ \E t \in Turn : pc[t] \in {"idle", "queued", "retiring"} /\ (on[t] = None \/ disposed[on[t]])

\* What a turn waits for and nothing bounds: its agent while it starts
\* (`await ensure`), or turn u on its agent (u may be t) that nobody stops.
Hangs(t, u) ==
  \/ u = t /\ pc[t] = "ensuring" /\ phase[on[t]] = "creating"
  \/ pc[u] = "using" /\ on[u] = on[t] /\ ~MustEnd(u)

(* A turn that called run() leaves it, unless its agent hangs for ever,    *)
(* while it starts or under one turn that nobody stops: no lock is lost by *)
(* a turn stopped in the queue, no gate stays shut, no turn waits for an   *)
(* agent that has started, failed or gone.                                 *)
EveryTurnLeaves ==
  \A t \in Turn :
    pc[t] = "ensuring" ~> (pc[t] = "done" \/ Starved \/ \E u \in Turn : []Hangs(t, u))
=============================================================================
