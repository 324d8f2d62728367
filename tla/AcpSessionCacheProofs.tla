------------------------ MODULE AcpSessionCacheProofs ------------------------
(***************************************************************************)
(* Proofs about the session cache, for every set of turns, keys, folders   *)
(* and entries and every cap.                                              *)
(***************************************************************************)
EXTENDS AcpSessionCache, SequenceTheorems, FiniteSetTheorems, TLAPS

USE NoneAssumption, KeyAssumption, AsksAssumption

\* disposeEntry keeps the types of what it writes, from any map it is given.
LEMMA DisposeFromType ==
  ASSUME TypeOK,
         NEW D,
         NEW lv \in [Key -> Entry \cup {None}],
         NEW order \in SUBSET (Key \X Key),
         NEW armed \in [Entry -> BOOLEAN],
         DisposeFrom(D, lv, order, armed)
  PROVE  /\ disposed' \in [Entry -> BOOLEAN]
         /\ timer' \in [Entry -> BOOLEAN]
         /\ live' \in [Key -> Entry \cup {None}]
         /\ older' \subseteq Key \X Key
         /\ teardowns' \in [Key -> SUBSET Entry]
<1>1. disposed' \in [Entry -> BOOLEAN]
  BY DEF TypeOK, DisposeFrom
<1>2. timer' \in [Entry -> BOOLEAN]
  BY DEF TypeOK, DisposeFrom
<1>3. live' \in [Key -> Entry \cup {None}]
  BY DEF TypeOK, DisposeFrom
<1>4. older' \subseteq Key \X Key
  BY DEF DisposeFrom
<1>5. teardowns' \in [Key -> SUBSET Entry]
  BY DEF TypeOK, DisposeFrom
<1> QED BY <1>1, <1>2, <1>3, <1>4, <1>5

\* The types the entry maps have after a step that disposes, or keeps them.
EntryMapsOK ==
  /\ disposed \in [Entry -> BOOLEAN]
  /\ timer \in [Entry -> BOOLEAN]
  /\ live \in [Key -> Entry \cup {None}]
  /\ older \subseteq Key \X Key
  /\ teardowns \in [Key -> SUBSET Entry]

LEMMA DisposeType ==
  ASSUME TypeOK, NEW D, Dispose(D)
  PROVE  EntryMapsOK'
BY DisposeFromType DEF TypeOK, Dispose, EntryMapsOK

LEMMA KeepType ==
  ASSUME TypeOK, KeepEntries
  PROVE  EntryMapsOK'
BY DEF TypeOK, KeepEntries, EntryMapsOK

\* ensure() keeps the types of the turn it serves and of the creation it starts.
LEMMA EnsureType ==
  ASSUME TypeOK, NEW t \in Turn, NEW k \in Key, NEW c \in Cwd \cup {None}, Ensure(t, k, c)
  PROVE  /\ EntryMapsOK'
         /\ \E x \in Entry : on' = [on EXCEPT ![t] = x]
         /\ phase' \in [Entry -> {"free", "gated", "creating", "ready", "failed"}]
         /\ of' \in [Entry -> Key]
         /\ dir' \in [Entry -> Cwd \cup {None}]
         /\ gate' \in [Entry -> SUBSET Entry]
         /\ pending' \in [Key -> Entry \cup {None}]
<1>1. EntryMapsOK'
  BY DisposeType, KeepType DEF Ensure
<1>2. \E x \in Entry : on' = [on EXCEPT ![t] = x]
  BY DEF TypeOK, Ensure, Reusable
<1>3. CASE KeepCreations
  BY <1>1, <1>2, <1>3 DEF TypeOK, KeepCreations
<1>4. ASSUME NEW e \in Entry, StartCreation(e, k, c)
      PROVE  /\ phase' \in [Entry -> {"free", "gated", "creating", "ready", "failed"}]
             /\ of' \in [Entry -> Key]
             /\ dir' \in [Entry -> Cwd \cup {None}]
             /\ gate' \in [Entry -> SUBSET Entry]
             /\ pending' \in [Key -> Entry \cup {None}]
  BY <1>4 DEF TypeOK, StartCreation
<1> QED BY <1>1, <1>2, <1>3, <1>4 DEF Ensure

LEMMA TailType == \A S, s : s \in Seq(S) => Tail(s) \in Seq(S)
<1> SUFFICES ASSUME NEW S, NEW s \in Seq(S) PROVE Tail(s) \in Seq(S)
  OBVIOUS
<1>1. CASE s = <<>>
  BY <1>1, Tail(<<>>) = <<>>
<1>2. CASE s # <<>>
  BY <1>2, HeadTailProperties
<1> QED BY <1>1, <1>2

\* The type invariant is kept by every step of a turn, an entry and the server.
LEMMA TypeStep == TypeOK /\ [Next]_vars => TypeOK'
<1> SUFFICES ASSUME TypeOK, [Next]_vars PROVE TypeOK'
  OBVIOUS
<1>1. ASSUME NEW t \in Turn, Run(t) PROVE TypeOK'
  <2> PICK r \in Asks[t] :
        /\ req' = [req EXCEPT ![t] = r]
        /\ inflight' = [inflight EXCEPT ![r.key] = @ + 1]
        /\ Ensure(t, r.key, r.cwd)
    BY <1>1 DEF Run
  <2>1. r \in Request /\ r.key \in Key /\ r.cwd \in Cwd \cup {None}
    BY DEF Request
  <2>2. req' \in [Turn -> Request] /\ inflight' \in [Key -> Nat]
    BY <2>1 DEF TypeOK
  <2> PICK x \in Entry : on' = [on EXCEPT ![t] = x]
    BY <2>1, EnsureType
  <2>3. /\ on' \in [Turn -> Entry \cup {None}]
        /\ pc' = [pc EXCEPT ![t] = "ensuring"]
        /\ \A u \in Turn : on'[u] = None <=> pc'[u] = "idle"
    BY <1>1 DEF Run, Goto, TypeOK
  <2> QED BY <1>1, <2>1, <2>2, <2>3, EnsureType DEF Run, TypeOK, EntryMapsOK, serverVars
<1>2. ASSUME NEW t \in Turn, EnsureThrows(t) PROVE TypeOK'
  BY <1>2 DEF EnsureThrows, Goto, TypeOK, entryVars, mapVars, serverVars
<1>3. ASSUME NEW t \in Turn, Enter(t) PROVE TypeOK'
  <2>0. on[t] \in Entry /\ of[on[t]] \in Key
    BY <1>3 DEF Enter, TypeOK
  <2>1. older' \subseteq Key \X Key
    BY <1>3, <2>0 DEF Enter, ToNewest, LiveKeys, TypeOK
  <2>2. queue' \in [Entry -> Seq(Turn)]
    BY <1>3, <2>0 DEF Enter, TypeOK
  <2> QED BY <1>3, <2>1, <2>2 DEF Enter, Goto, TypeOK, serverVars
<1>4. ASSUME NEW t \in Turn, StopQueued(t) PROVE TypeOK'
  BY <1>4 DEF StopQueued, Goto, TypeOK, entryVars, mapVars, serverVars
<1>5. ASSUME NEW t \in Turn, BeginUse(t) PROVE TypeOK'
  BY <1>5 DEF BeginUse, Goto, TypeOK, entryVars, mapVars, serverVars
<1>6. ASSUME NEW t \in Turn, Retire(t) PROVE TypeOK'
  BY <1>6, DisposeType DEF Retire, Goto, TypeOK, EntryMapsOK, serverVars
<1>7. ASSUME NEW t \in Turn, Recreate(t) PROVE TypeOK'
  <2>1. req[t].key \in Key /\ req[t].cwd \in Cwd \cup {None}
    BY DEF TypeOK, Request
  <2>2. queue' \in [Entry -> Seq(Turn)]
    BY <1>7, TailType DEF Recreate, TypeOK
  <2> PICK x \in Entry : on' = [on EXCEPT ![t] = x]
    BY <1>7, <2>1, EnsureType DEF Recreate
  <2>3. /\ on' \in [Turn -> Entry \cup {None}]
        /\ pc' = [pc EXCEPT ![t] = "ensuring"]
        /\ \A u \in Turn : on'[u] = None <=> pc'[u] = "idle"
    BY <1>7 DEF Recreate, Goto, TypeOK
  <2> QED BY <1>7, <2>1, <2>2, <2>3, EnsureType DEF Recreate, TypeOK, EntryMapsOK, serverVars
<1>8. ASSUME NEW t \in Turn, FinishUse(t) PROVE TypeOK'
  BY <1>8, TailType DEF FinishUse, Unlock, Goto, TypeOK, mapVars, serverVars
<1>9. ASSUME NEW t \in Turn, Throw(t) PROVE TypeOK'
  <2>1. CASE disposed[on[t]] /\ Unlock(t) /\ UNCHANGED <<disposed, live, older, teardowns>>
    BY <1>9, <2>1, TailType DEF Throw, Unlock, Goto, TypeOK, serverVars
  <2>2. CASE Dispose({on[t]}) /\ Goto(t, "disposing") /\ UNCHANGED queue
    BY <1>9, <2>2, DisposeType DEF Throw, Goto, TypeOK, EntryMapsOK, serverVars
  <2> QED BY <1>9, <2>1, <2>2 DEF Throw
<1>10. ASSUME NEW t \in Turn, ThrowDisposed(t) PROVE TypeOK'
  BY <1>10, TailType DEF ThrowDisposed, Unlock, Goto, TypeOK, mapVars, serverVars
<1>11. ASSUME NEW t \in Turn, Leave(t) PROVE TypeOK'
  <2>1. inflight' \in [Key -> Nat]
    BY <1>11 DEF Leave, TypeOK, Request
  <2> QED BY <1>11, <2>1, DisposeType DEF Leave, Goto, TypeOK, EntryMapsOK, serverVars
<1>12. ASSUME NEW t \in Turn, Abort(t) PROVE TypeOK'
  BY <1>12 DEF Abort, TypeOK, entryVars, mapVars, serverVars
<1>13. ASSUME NEW e \in Entry, Spawn(e) PROVE TypeOK'
  BY <1>13 DEF Spawn, TypeOK, turnVars, mapVars, serverVars
<1>14. ASSUME NEW e \in Entry, Created(e) PROVE TypeOK'
  <2> DEFINE lv == [live EXCEPT ![of[e]] = e]
             order == IF live[of[e]] = None THEN ToNewest(of[e], live) ELSE older
             armed == [timer EXCEPT ![e] = TRUE]
  <2>1. DisposeFrom(Victims(lv, order, inflight), lv, order, armed)
    BY <1>14 DEF Created
  <2>2. /\ lv \in [Key -> Entry \cup {None}]
        /\ order \in SUBSET (Key \X Key)
        /\ armed \in [Entry -> BOOLEAN]
    BY DEF TypeOK, ToNewest, LiveKeys
  <2>3. EntryMapsOK'
    <3> HIDE DEF lv, order, armed
    <3> QED BY <2>1, <2>2, DisposeFromType DEF EntryMapsOK
  <2> QED BY <1>14, <2>3 DEF Created, Unregister, TypeOK, EntryMapsOK, turnVars, serverVars
<1>15. ASSUME NEW e \in Entry, CreateFails(e) PROVE TypeOK'
  BY <1>15 DEF CreateFails, Unregister, TypeOK, turnVars, serverVars
<1>16. ASSUME NEW e \in Entry, AgentExits(e) PROVE TypeOK'
  BY <1>16 DEF AgentExits, TypeOK, turnVars, serverVars
<1>17. ASSUME NEW e \in Entry, IdleExpires(e) PROVE TypeOK'
  BY <1>17, DisposeType DEF IdleExpires, TypeOK, EntryMapsOK, turnVars, serverVars
<1>18. ASSUME NEW e \in Entry, PassLock(e) PROVE TypeOK'
  BY <1>18, TailType DEF PassLock, TypeOK, turnVars, mapVars, serverVars
<1>19. ASSUME NEW e \in Entry, DisposeCondemned(e) PROVE TypeOK'
  BY <1>19, DisposeType, KeepType DEF DisposeCondemned, TypeOK, EntryMapsOK, turnVars
<1>20. ASSUME NEW k \in Key, DisposeKey(k) PROVE TypeOK'
  BY <1>20, DisposeType DEF DisposeKey, TypeOK, EntryMapsOK, turnVars, serverVars
<1>21. CASE DisposeAll
  BY <1>21, DisposeType DEF DisposeAll, LiveKeys, TypeOK, EntryMapsOK, turnVars
<1>22. CASE ShutdownDone
  BY <1>22 DEF ShutdownDone, TypeOK, turnVars, entryVars, mapVars
<1>23. CASE UNCHANGED vars
  BY <1>23 DEF vars, TypeOK, turnVars, entryVars, mapVars, serverVars
<1> QED
  BY <1>1, <1>2, <1>3, <1>4, <1>5, <1>6, <1>7, <1>8, <1>9, <1>10, <1>11, <1>12, <1>13, <1>14,
     <1>15, <1>16, <1>17, <1>18, <1>19, <1>20, <1>21, <1>22, <1>23
  DEF Next, TurnStep, EntryStep

\* The state keeps its types, for every set of turns, keys, folders and entries.
THEOREM TypeCorrect == Spec => []TypeOK
<1>1. Init => TypeOK
  <2> SUFFICES ASSUME Init PROVE TypeOK
    OBVIOUS
  <2>1. (CHOOSE k \in Key : TRUE) \in Key
    OBVIOUS
  <2>2. (CHOOSE r \in Request : TRUE) \in Request
    <3>1. [key |-> CHOOSE k \in Key : TRUE, cwd |-> None] \in Request
      BY <2>1 DEF Request
    <3> QED BY <3>1
  <2> QED BY <2>1, <2>2 DEF Init, TypeOK
<1> QED BY <1>1, TypeStep, PTL DEF Spec

-----------------------------------------------------------------------------
(* The inductive invariant *)

\* What holds of each entry and each turn, also while the server shuts down.
EntryInv ==
  /\ \A e \in Entry : (disposed[e] \/ timer[e] \/ queue[e] # <<>>) => phase[e] = "ready"
  /\ \A e \in Entry : phase[e] \in {"free", "gated"} => proc[e] = "none"
  /\ \A e \in Entry : phase[e] = "creating" => proc[e] = "up"
  /\ \A e \in Entry : phase[e] = "failed" => proc[e] = "gone"
  /\ \A e \in Entry : (disposed[e] /\ proc[e] = "up") => e \in teardowns[of[e]]
  /\ \A k \in Key : live[k] # None =>
       (of[live[k]] = k /\ phase[live[k]] = "ready" /\ ~disposed[live[k]])
  /\ \A t \in Turn : pc[t] \in {"queued", "using", "retiring", "disposing"}
                         => phase[on[t]] = "ready"
  /\ IdleTimerOnlyUnused

\* A turn past the lock is at the head of its entry's chain.
LockInv == \A t \in Turn : Holding(t) => Holds(t, on[t])

(* Where each process of a key is accounted for while the server is open:  *)
(* one creation at a time, registered, and only while nothing is live; and *)
(* every other process of its key in the gate it waits for.                *)
KeyInv ==
  /\ \A e \in Entry : phase[e] \in {"gated", "creating"} => pending[of[e]] = e
  /\ \A k \in Key : pending[k] # None =>
       (of[pending[k]] = k /\ phase[pending[k]] \in {"gated", "creating"} /\ live[k] = None)
  /\ \A e \in Entry : (phase[e] = "ready" /\ ~disposed[e]) => live[of[e]] = e
  /\ \A e, f \in Entry :
       (phase[e] = "gated" /\ proc[f] = "up" /\ of[f] = of[e]) => f \in gate[e]
  /\ \A e, f \in Entry : (proc[e] = "up" /\ proc[f] = "up" /\ of[e] = of[f]) => e = f

IInv == TypeOK /\ EntryInv /\ LockInv /\ (Open => KeyInv)

-----------------------------------------------------------------------------
(* One turn per session *)

LEMMA AppendHead ==
  ASSUME NEW S, NEW s \in Seq(S), NEW x \in S, s # <<>>
  PROVE  Append(s, x) # <<>> /\ Head(Append(s, x)) = Head(s)
OBVIOUS

\* A step that leaves every chain alone and lets nobody past the lock.
LEMMA LockKept ==
  ASSUME LockInv, queue' = queue,
         \A t \in Turn : Holding(t)' => Holding(t) /\ on'[t] = on[t]
  PROVE  LockInv'
BY DEF LockInv, Holds

\* The turn at the head of a chain passes its lock on and holds nothing.
LEMMA LockPassed ==
  ASSUME TypeOK, LockInv, NEW t \in Turn, Holds(t, on[t]),
         queue' = [queue EXCEPT ![on[t]] = Tail(@)],
         ~Holding(t)',
         \A u \in Turn \ {t} : pc'[u] = pc[u] /\ on'[u] = on[u]
  PROVE  LockInv'
<1> SUFFICES ASSUME NEW u \in Turn, Holding(u)' PROVE Holds(u, on[u])'
  BY DEF LockInv
<1>1. u # t /\ Holding(u) /\ on'[u] = on[u]
  BY DEF Holding
<1>2. Holds(u, on[u]) /\ on[u] # on[t]
  BY <1>1 DEF LockInv, Holds
<1>3. on[u] \in Entry
  BY <1>1 DEF TypeOK, Holding
<1> QED BY <1>1, <1>2, <1>3 DEF Holds, TypeOK

LEMMA LockStep == TypeOK /\ LockInv /\ [Next]_vars => LockInv'
<1> SUFFICES ASSUME TypeOK, LockInv, [Next]_vars PROVE LockInv'
  OBVIOUS
<1> USE DEF Goto
<1>1. ASSUME NEW t \in Turn, Run(t) PROVE LockInv'
  <2>1. /\ queue' = queue
        /\ pc' = [pc EXCEPT ![t] = "ensuring"]
        /\ \A u \in Turn \ {t} : on'[u] = on[u]
    BY <1>1 DEF Run, Ensure, TypeOK
  <2> QED BY <2>1, LockKept DEF Holding, TypeOK
<1>2. ASSUME NEW t \in Turn, EnsureThrows(t) \/ StopQueued(t) \/ Abort(t) PROVE LockInv'
  BY <1>2, LockKept DEF EnsureThrows, StopQueued, Abort, Holding, TypeOK, entryVars
<1>3. ASSUME NEW t \in Turn, Enter(t) PROVE LockInv'
  <2>1. \A u \in Turn : Holding(u)' => Holding(u) /\ on'[u] = on[u]
    BY <1>3 DEF Enter, Holding, TypeOK
  <2>2. \A e \in Entry : queue[e] # <<>> => queue'[e] # <<>> /\ Head(queue'[e]) = Head(queue[e])
    <3> SUFFICES ASSUME NEW e \in Entry, queue[e] # <<>>
                 PROVE  queue'[e] # <<>> /\ Head(queue'[e]) = Head(queue[e])
      OBVIOUS
    <3>1. queue[e] \in Seq(Turn)
      BY DEF TypeOK
    <3>2. queue'[e] = queue[e] \/ queue'[e] = Append(queue[e], t)
      BY <1>3 DEF Enter, TypeOK
    <3> QED BY <3>1, <3>2, AppendHead
  <2>3. \A u \in Turn : Holding(u) => on[u] \in Entry
    BY DEF TypeOK, Holding
  <2> QED BY <2>1, <2>2, <2>3 DEF LockInv, Holds
<1>4. ASSUME NEW t \in Turn, BeginUse(t) PROVE LockInv'
  BY <1>4 DEF BeginUse, LockInv, Holding, Holds, TypeOK, entryVars
<1>5. ASSUME NEW t \in Turn, Retire(t) PROVE LockInv'
  BY <1>5 DEF Retire, LockInv, Holding, Holds, TypeOK
<1>6. ASSUME NEW t \in Turn, Recreate(t) PROVE LockInv'
  <2>1. Holds(t, on[t])
    BY <1>6 DEF Recreate, LockInv, Holding
  <2>2. /\ queue' = [queue EXCEPT ![on[t]] = Tail(@)]
        /\ pc' = [pc EXCEPT ![t] = "ensuring"]
        /\ \A u \in Turn \ {t} : on'[u] = on[u]
    BY <1>6 DEF Recreate, Ensure, TypeOK
  <2> QED BY <2>1, <2>2, LockPassed DEF Holding, TypeOK
<1>7. ASSUME NEW t \in Turn, FinishUse(t) \/ ThrowDisposed(t) PROVE LockInv'
  <2>1. Holds(t, on[t])
    BY <1>7 DEF FinishUse, ThrowDisposed, LockInv, Holding
  <2>2. /\ queue' = [queue EXCEPT ![on[t]] = Tail(@)]
        /\ pc' = [pc EXCEPT ![t] = "leaving"]
        /\ on' = on
    BY <1>7 DEF FinishUse, ThrowDisposed, Unlock
  <2> QED BY <2>1, <2>2, LockPassed DEF Holding, TypeOK
<1>8. ASSUME NEW t \in Turn, Throw(t) PROVE LockInv'
  <2>1. CASE Unlock(t)
    BY <1>8, <2>1, LockPassed DEF Throw, Unlock, LockInv, Holding, TypeOK
  <2>2. CASE Goto(t, "disposing") /\ UNCHANGED queue
    BY <1>8, <2>2, LockKept DEF Throw, Holding, TypeOK
  <2> QED BY <1>8, <2>1, <2>2 DEF Throw
<1>9. ASSUME NEW t \in Turn, Leave(t) PROVE LockInv'
  BY <1>9, LockKept DEF Leave, Holding, TypeOK
<1>10. ASSUME NEW e \in Entry, PassLock(e) PROVE LockInv'
  <2>1. \A t \in Turn : Holding(t) => on[t] # e
    BY <1>10 DEF PassLock, LeftBehind, LockInv, Holds, Holding
  <2> QED BY <1>10, <2>1 DEF PassLock, LockInv, Holds, Holding, TypeOK, turnVars
<1>11. ASSUME NEW e \in Entry,
              Spawn(e) \/ Created(e) \/ CreateFails(e) \/ AgentExits(e) \/ IdleExpires(e)
                \/ DisposeCondemned(e)
       PROVE  LockInv'
  BY <1>11, LockKept DEF Spawn, Created, CreateFails, AgentExits, IdleExpires, DisposeCondemned,
                         Holding, turnVars
<1>12. ASSUME NEW k \in Key, DisposeKey(k) PROVE LockInv'
  BY <1>12, LockKept DEF DisposeKey, Holding, turnVars
<1>13. CASE DisposeAll \/ ShutdownDone
  BY <1>13, LockKept DEF DisposeAll, ShutdownDone, Holding, turnVars, entryVars
<1>14. CASE UNCHANGED vars
  BY <1>14, LockKept DEF vars, Holding, turnVars, entryVars
<1> QED
  BY <1>1, <1>2, <1>3, <1>4, <1>5, <1>6, <1>7, <1>8, <1>9, <1>10, <1>11, <1>12, <1>13, <1>14
  DEF Next, TurnStep, EntryStep

(* SERIALIZE: two turns never hold one session at once, whichever turns    *)
(* were stopped in the queue ahead of them.                                *)
THEOREM TurnsSerialized == Spec => []OneTurnPerSession
<1>1. Init => LockInv
  BY DEF Init, LockInv, Holding
<1>2. LockInv => OneTurnPerSession
  BY DEF LockInv, Holds, OneTurnPerSession
<1> QED BY <1>1, <1>2, LockStep, TypeCorrect, PTL DEF Spec

-----------------------------------------------------------------------------
(* One process per key *)

InUse == {"queued", "using", "retiring", "disposing"}

\* Disposing entries that are ready keeps what holds of each entry.
LEMMA DisposeEntryInv ==
  ASSUME TypeOK, EntryInv,
         NEW D, \A e \in Entry : e \in D => phase[e] = "ready",
         Dispose(D),
         UNCHANGED <<phase, of, proc>>,
         \A e \in Entry : queue'[e] # <<>> => queue[e] # <<>>,
         \A t \in Turn : pc'[t] \in InUse => (pc[t] \in InUse /\ on'[t] = on[t])
  PROVE  EntryInv'
<1> USE DEF Dispose, DisposeFrom, TypeOK, EntryInv
<1>1. \A e \in Entry : (disposed'[e] \/ timer'[e] \/ queue'[e] # <<>>) => phase'[e] = "ready"
  OBVIOUS
<1>2. \A e \in Entry : (disposed'[e] /\ proc'[e] = "up") => e \in teardowns'[of'[e]]
  OBVIOUS
<1>3. \A k \in Key : live'[k] # None =>
       (of'[live'[k]] = k /\ phase'[live'[k]] = "ready" /\ ~disposed'[live'[k]])
  OBVIOUS
<1>4. \A t \in Turn : pc'[t] \in InUse => phase'[on'[t]] = "ready"
  BY DEF InUse
<1>5. IdleTimerOnlyUnused'
  BY DEF IdleTimerOnlyUnused
<1> QED BY <1>1, <1>2, <1>3, <1>4, <1>5 DEF InUse

LEMMA DisposeKeyInv ==
  ASSUME TypeOK, EntryInv, KeyInv, NEW D, Dispose(D),
         UNCHANGED <<phase, of, gate, proc, pending>>
  PROVE  KeyInv'
<1> USE DEF Dispose, DisposeFrom, TypeOK
<1>1. \A e \in Entry : phase'[e] \in {"gated", "creating"} => pending'[of'[e]] = e
  BY DEF KeyInv
<1>2. \A k \in Key : pending'[k] # None =>
       (of'[pending'[k]] = k /\ phase'[pending'[k]] \in {"gated", "creating"} /\ live'[k] = None)
  BY NoneAssumption DEF KeyInv
<1>3. \A e \in Entry : (phase'[e] = "ready" /\ ~disposed'[e]) => live'[of'[e]] = e
  <2> SUFFICES ASSUME NEW e \in Entry, phase'[e] = "ready", ~disposed'[e]
               PROVE  live'[of'[e]] = e
    OBVIOUS
  <2>1. of[e] \in Key /\ ~disposed[e] /\ e \notin D
    OBVIOUS
  <2>2. live[of[e]] = e
    BY <2>1 DEF KeyInv
  <2> QED BY <2>1, <2>2
<1>4. \A e, f \in Entry :
       (phase'[e] = "gated" /\ proc'[f] = "up" /\ of'[f] = of'[e]) => f \in gate'[e]
  BY DEF KeyInv
<1>5. \A e, f \in Entry : (proc'[e] = "up" /\ proc'[f] = "up" /\ of'[e] = of'[f]) => e = f
  BY DEF KeyInv
<1> QED BY <1>1, <1>2, <1>3, <1>4, <1>5 DEF KeyInv

\* ensure() keeps what holds of each entry; so it does releasing a lock.
LEMMA EnsureEntryInv ==
  ASSUME TypeOK, EntryInv,
         NEW t \in Turn, NEW k \in Key, NEW c \in Cwd \cup {None}, Ensure(t, k, c),
         proc' = proc,
         \A e \in Entry : queue'[e] # <<>> => queue[e] # <<>>,
         pc' = [pc EXCEPT ![t] = "ensuring"]
  PROVE  EntryInv'
<1> USE DEF TypeOK, EntryInv
<1>1. \A u \in Turn : pc'[u] \in InUse => (pc[u] \in InUse /\ on'[u] = on[u])
  BY DEF Ensure, InUse
<1>2. CASE KeepCreations /\ KeepEntries
  BY <1>1, <1>2 DEF KeepCreations, KeepEntries, InUse, IdleTimerOnlyUnused
<1>3. CASE Dispose(SelfClosed(k)) /\ KeepCreations
  <2>1. \A e \in Entry : e \in SelfClosed(k) => phase[e] = "ready"
    BY DEF SelfClosed
  <2> QED BY <1>1, <1>3, <2>1, DisposeEntryInv DEF KeepCreations
<1>4. CASE Dispose(SelfClosed(k)) /\ \E e \in Entry : StartCreation(e, k, c)
  <2> PICK x \in Entry : StartCreation(x, k, c)
    BY <1>4
  <2>1. /\ phase[x] = "free" /\ proc[x] = "none" /\ queue[x] = <<>>
        /\ ~disposed[x] /\ ~timer[x]
    BY DEF StartCreation, NextFree
  <2>2. /\ phase' = [phase EXCEPT ![x] = "gated"]
        /\ of' = [of EXCEPT ![x] = k]
    BY DEF StartCreation
  <2>3. \A e \in SelfClosed(k) : e # x /\ phase[e] = "ready" /\ e \in Entry
    BY <2>1 DEF SelfClosed
  <2> USE <1>4 DEF Dispose, DisposeFrom
  <2>4. \A e \in Entry : (disposed'[e] \/ timer'[e] \/ queue'[e] # <<>>) => phase'[e] = "ready"
    BY <2>1, <2>2, <2>3
  <2>5. \A e \in Entry : (disposed'[e] /\ proc'[e] = "up") => e \in teardowns'[of'[e]]
    BY <2>1, <2>2, <2>3
  <2>6. \A j \in Key : live'[j] # None =>
         (of'[live'[j]] = j /\ phase'[live'[j]] = "ready" /\ ~disposed'[live'[j]])
    BY <2>1, <2>2, <2>3
  <2>7. \A u \in Turn : pc'[u] \in InUse => phase'[on'[u]] = "ready"
    BY <1>1, <2>1, <2>2 DEF InUse
  <2>8. IdleTimerOnlyUnused'
    BY <2>1 DEF IdleTimerOnlyUnused
  <2>9. /\ \A e \in Entry : phase'[e] \in {"free", "gated"} => proc'[e] = "none"
        /\ \A e \in Entry : phase'[e] = "creating" => proc'[e] = "up"
        /\ \A e \in Entry : phase'[e] = "failed" => proc'[e] = "gone"
    BY <2>1, <2>2
  <2> HIDE <1>4 DEF TypeOK, Dispose, DisposeFrom
  <2> QED BY <2>4, <2>5, <2>6, <2>7, <2>8, <2>9 DEF InUse
<1> QED BY <1>2, <1>3, <1>4 DEF Ensure

\* ensure() keeps the key's processes accounted for: what it starts waits for the rest.
LEMMA EnsureKeyInv ==
  ASSUME TypeOK, EntryInv, KeyInv,
         NEW t \in Turn, NEW k \in Key, NEW c \in Cwd \cup {None}, Ensure(t, k, c),
         proc' = proc
  PROVE  KeyInv'
<1>1. CASE KeepCreations /\ KeepEntries
  BY <1>1 DEF KeepCreations, KeepEntries, KeyInv
<1>2. CASE Dispose(SelfClosed(k)) /\ KeepCreations
  BY <1>2, DisposeKeyInv DEF KeepCreations
<1>3. CASE /\ ~Reusable(k) /\ pending[k] = None /\ Dispose(SelfClosed(k))
           /\ \E e \in Entry : StartCreation(e, k, c)
  <2> PICK x \in Entry : StartCreation(x, k, c)
    BY <1>3
  <2>1. phase[x] = "free" /\ proc[x] = "none"
    BY DEF StartCreation, NextFree, EntryInv
  <2>2. /\ phase' = [phase EXCEPT ![x] = "gated"]
        /\ of' = [of EXCEPT ![x] = k]
        /\ gate' = [gate EXCEPT ![x] = teardowns[k]]
        /\ pending' = [pending EXCEPT ![k] = x]
    BY DEF StartCreation
  <2>3. \A f \in Entry : (proc[f] = "up" /\ of[f] = k) => f \in teardowns[k]
    <3> SUFFICES ASSUME NEW f \in Entry, proc[f] = "up", of[f] = k PROVE f \in teardowns[k]
      OBVIOUS
    <3>1. phase[f] # "creating"
      BY <1>3 DEF KeyInv
    <3>2. phase[f] = "ready"
      <4>1. phase[f] \in {"free", "gated", "creating", "ready", "failed"}
        BY DEF TypeOK
      <4>2. phase[f] \notin {"free", "gated", "failed"}
        BY DEF EntryInv
      <4> QED BY <3>1, <4>1, <4>2
    <3>3. disposed[f]
      BY <1>3, <3>2 DEF KeyInv, Reusable
    <3> QED BY <3>3 DEF EntryInv
  <2>4. live'[k] = None
    BY <1>3 DEF Dispose, DisposeFrom, SelfClosed, Reusable, EntryInv, TypeOK
  <2> USE <1>3 DEF Dispose, DisposeFrom, TypeOK, KeyInv
  <2>5. \A e \in Entry : phase'[e] \in {"gated", "creating"} => pending'[of'[e]] = e
    BY <2>1, <2>2
  <2>6. \A j \in Key : pending'[j] # None =>
         (of'[pending'[j]] = j /\ phase'[pending'[j]] \in {"gated", "creating"} /\ live'[j] = None)
    BY <2>1, <2>2, <2>4
  <2>7. \A e \in Entry : (phase'[e] = "ready" /\ ~disposed'[e]) => live'[of'[e]] = e
    <3> SUFFICES ASSUME NEW e \in Entry, phase'[e] = "ready", ~disposed'[e]
                 PROVE  live'[of'[e]] = e
      OBVIOUS
    <3>1. e # x /\ phase[e] = "ready" /\ of'[e] = of[e] /\ of[e] \in Key
      BY <2>1, <2>2
    <3>2. ~disposed[e] /\ e \notin SelfClosed(k)
      OBVIOUS
    <3>3. live[of[e]] = e
      BY <3>1, <3>2
    <3> QED BY <3>1, <3>2, <3>3
  <2>8. \A e, f \in Entry :
         (phase'[e] = "gated" /\ proc'[f] = "up" /\ of'[f] = of'[e]) => f \in gate'[e]
    BY <2>1, <2>2, <2>3
  <2>9. \A e, f \in Entry : (proc'[e] = "up" /\ proc'[f] = "up" /\ of'[e] = of'[f]) => e = f
    BY <2>1, <2>2
  <2> QED BY <2>5, <2>6, <2>7, <2>8, <2>9
<1> QED BY <1>1, <1>2, <1>3 DEF Ensure

\* The cap disposes entries that are in the map, and nothing else.
LEMMA VictimsInMap ==
  ASSUME NEW lv, NEW order, NEW busy, NEW e \in Victims(lv, order, busy)
  PROVE  \E k \in Key : lv[k] = e /\ lv[k] # None
BY DEF Victims, LiveKeys

(* create() resolves: the entry joins the map, then the cap disposes some  *)
(* of the map.                                                             *)
LEMMA CreatedEntryInv ==
  ASSUME TypeOK, EntryInv, NEW e \in Entry, Created(e)
  PROVE  EntryInv'
<1> DEFINE lv == [live EXCEPT ![of[e]] = e]
           order == IF live[of[e]] = None THEN ToNewest(of[e], live) ELSE older
           D == Victims(lv, order, inflight)
<1>1. /\ phase[e] = "creating" /\ proc[e] = "up" /\ queue[e] = <<>> /\ ~disposed[e]
      /\ phase' = [phase EXCEPT ![e] = "ready"]
      /\ DisposeFrom(D, lv, order, [timer EXCEPT ![e] = TRUE])
      /\ UNCHANGED <<of, proc, queue, pc, on>>
  BY DEF Created, EntryInv, TypeOK, turnVars
<1>2. lv \in [Key -> Entry \cup {None}]
  BY DEF TypeOK
<1>3. \A k \in Key : lv[k] # None => (of[lv[k]] = k /\ phase'[lv[k]] = "ready" /\ ~disposed[lv[k]])
  BY <1>1 DEF EntryInv, TypeOK
<1>4. \A d \in D : d \in Entry /\ phase'[d] = "ready"
  <2> HIDE DEF lv, order
  <2> QED BY <1>2, <1>3, VictimsInMap
<1> HIDE DEF lv, order, D
<1>5. \A f \in Entry : (disposed'[f] \/ timer'[f] \/ queue'[f] # <<>>) => phase'[f] = "ready"
  BY <1>1, <1>4 DEF EntryInv, TypeOK, DisposeFrom
<1>6. \A f \in Entry : (disposed'[f] /\ proc'[f] = "up") => f \in teardowns'[of'[f]]
  BY <1>1 DEF EntryInv, TypeOK, DisposeFrom
<1>7. \A k \in Key : live'[k] # None =>
       (of'[live'[k]] = k /\ phase'[live'[k]] = "ready" /\ ~disposed'[live'[k]])
  BY <1>1, <1>2, <1>3 DEF DisposeFrom
<1>8. \A t \in Turn : pc'[t] \in InUse => phase'[on'[t]] = "ready"
  BY <1>1 DEF EntryInv, TypeOK, InUse
<1>9. IdleTimerOnlyUnused'
  BY <1>1 DEF EntryInv, TypeOK, IdleTimerOnlyUnused, DisposeFrom
<1>10. /\ \A f \in Entry : phase'[f] \in {"free", "gated"} => proc'[f] = "none"
       /\ \A f \in Entry : phase'[f] = "creating" => proc'[f] = "up"
       /\ \A f \in Entry : phase'[f] = "failed" => proc'[f] = "gone"
  BY <1>1 DEF EntryInv, TypeOK
<1> QED BY <1>5, <1>6, <1>7, <1>8, <1>9, <1>10 DEF EntryInv, InUse

LEMMA CreatedKeyInv ==
  ASSUME TypeOK, EntryInv, KeyInv, NEW e \in Entry, Created(e)
  PROVE  KeyInv'
<1> DEFINE lv == [live EXCEPT ![of[e]] = e]
           order == IF live[of[e]] = None THEN ToNewest(of[e], live) ELSE older
           D == Victims(lv, order, inflight)
<1>1. /\ phase[e] = "creating"
      /\ phase' = [phase EXCEPT ![e] = "ready"]
      /\ pending' = [k \in Key |-> IF pending[k] = e THEN None ELSE pending[k]]
      /\ DisposeFrom(D, lv, order, [timer EXCEPT ![e] = TRUE])
      /\ UNCHANGED <<of, gate, proc>>
  BY DEF Created, Unregister
<1>2. lv = [live EXCEPT ![of[e]] = e]
  OBVIOUS
<1> HIDE DEF lv, order, D
<1>3. pending[of[e]] = e
  BY <1>1 DEF KeyInv
<1>4. \A f \in Entry : phase'[f] \in {"gated", "creating"} => pending'[of'[f]] = f
  BY <1>1 DEF KeyInv, TypeOK
<1>5. \A k \in Key : pending'[k] # None =>
       (of'[pending'[k]] = k /\ phase'[pending'[k]] \in {"gated", "creating"} /\ live'[k] = None)
  BY <1>1, <1>2, <1>3 DEF KeyInv, TypeOK, DisposeFrom
<1>6. \A f \in Entry : (phase'[f] = "ready" /\ ~disposed'[f]) => live'[of'[f]] = f
  <2> SUFFICES ASSUME NEW f \in Entry, phase'[f] = "ready", ~disposed'[f]
               PROVE  live'[of[f]] = f
    BY <1>1
  <2>1. lv[of[f]] = f
    <3>1. ~disposed[f]
      BY <1>1 DEF DisposeFrom
    <3>2. CASE f = e
      BY <1>2, <3>2 DEF TypeOK
    <3>3. CASE f # e
      <4>1. phase[f] = "ready"
        BY <1>1, <3>3 DEF TypeOK
      <4>2. live[of[f]] = f
        BY <3>1, <4>1 DEF KeyInv
      <4>3. live[of[e]] = None
        BY <1>3 DEF KeyInv, TypeOK
      <4>4. of[f] # of[e]
        BY <4>2, <4>3
      <4> QED BY <1>2, <4>2, <4>4 DEF TypeOK
    <3> QED BY <3>2, <3>3
  <2>2. f \notin D
    BY <1>1 DEF DisposeFrom
  <2> QED BY <1>1, <2>1, <2>2 DEF DisposeFrom, TypeOK
<1>7. \A f, g \in Entry :
       (phase'[f] = "gated" /\ proc'[g] = "up" /\ of'[g] = of'[f]) => g \in gate'[f]
  BY <1>1 DEF KeyInv, TypeOK
<1>8. \A f, g \in Entry : (proc'[f] = "up" /\ proc'[g] = "up" /\ of'[f] = of'[g]) => f = g
  BY <1>1 DEF KeyInv
<1> QED BY <1>4, <1>5, <1>6, <1>7, <1>8 DEF KeyInv

LEMMA EntryStepInv == TypeOK /\ EntryInv /\ [Next]_vars => EntryInv'
<1> SUFFICES ASSUME TypeOK, EntryInv, [Next]_vars PROVE EntryInv'
  OBVIOUS
<1> USE DEF Goto
<1>1. ASSUME NEW t \in Turn, Run(t) PROVE EntryInv'
  <2> PICK r \in Asks[t] : Ensure(t, r.key, r.cwd)
    BY <1>1 DEF Run
  <2>1. r.key \in Key /\ r.cwd \in Cwd \cup {None}
    OBVIOUS
  <2> QED BY <1>1, <2>1, EnsureEntryInv DEF Run
<1>2. ASSUME NEW t \in Turn, EnsureThrows(t) \/ StopQueued(t) \/ Abort(t) \/ BeginUse(t)
      PROVE  EntryInv'
  BY <1>2 DEF EnsureThrows, StopQueued, Abort, BeginUse, EntryInv, IdleTimerOnlyUnused, TypeOK,
              entryVars, mapVars
<1>3. ASSUME NEW t \in Turn, Enter(t) PROVE EntryInv'
  BY <1>3 DEF Enter, EntryInv, IdleTimerOnlyUnused, TypeOK
<1>4. ASSUME NEW t \in Turn, Retire(t) PROVE EntryInv'
  <2>1. \A e \in Entry : e \in {on[t]} => phase[e] = "ready"
    BY <1>4 DEF Retire, EntryInv
  <2> QED BY <1>4, <2>1, DisposeEntryInv DEF Retire, InUse, TypeOK
<1>5. ASSUME NEW t \in Turn, Recreate(t) PROVE EntryInv'
  <2>1. req[t].key \in Key /\ req[t].cwd \in Cwd \cup {None}
    BY DEF TypeOK, Request
  <2>2. \A e \in Entry : queue'[e] # <<>> => queue[e] # <<>>
    BY <1>5, Tail(<<>>) = <<>> DEF Recreate, TypeOK
  <2> QED BY <1>5, <2>1, <2>2, EnsureEntryInv DEF Recreate
<1>6. ASSUME NEW t \in Turn, FinishUse(t) \/ ThrowDisposed(t) PROVE EntryInv'
  <2>1. CASE FinishUse(t)
    BY <2>1 DEF FinishUse, Unlock, EntryInv, IdleTimerOnlyUnused, TypeOK, mapVars
  <2>2. CASE ThrowDisposed(t)
    BY <2>2 DEF ThrowDisposed, Unlock, EntryInv, IdleTimerOnlyUnused, TypeOK, mapVars
  <2> QED BY <1>6, <2>1, <2>2
<1>7. ASSUME NEW t \in Turn, Throw(t) PROVE EntryInv'
  <2>1. CASE Unlock(t) /\ UNCHANGED <<disposed, live, older, teardowns>>
    BY <1>7, <2>1 DEF Throw, Unlock, EntryInv, IdleTimerOnlyUnused, TypeOK
  <2>2. CASE Dispose({on[t]}) /\ Goto(t, "disposing") /\ UNCHANGED queue
    <3>1. \A e \in Entry : e \in {on[t]} => phase[e] = "ready"
      BY <1>7 DEF Throw, EntryInv
    <3> QED BY <1>7, <2>2, <3>1, DisposeEntryInv DEF Throw, InUse, TypeOK
  <2> QED BY <1>7, <2>1, <2>2 DEF Throw
<1>8. ASSUME NEW t \in Turn, Leave(t) PROVE EntryInv'
  <2> PICK D : /\ Dispose(D)
               /\ \A e \in D : \E k \in Key : live[k] = e /\ live[k] # None
    <3> DEFINE left == [inflight EXCEPT ![req[t].key] = IF @ > 1 THEN @ - 1 ELSE 0]
               V == Victims(live, older, left)
    <3>1. Dispose(V) \/ Dispose({})
      BY <1>8 DEF Leave
    <3>2. \A e \in V : \E k \in Key : live[k] = e /\ live[k] # None
      BY VictimsInMap
    <3> HIDE DEF V
    <3> QED BY <3>1, <3>2
  <2>1. \A e \in Entry : e \in D => phase[e] = "ready"
    BY DEF EntryInv
  <2> QED BY <1>8, <2>1, DisposeEntryInv DEF Leave, InUse, TypeOK
<1>9. ASSUME NEW e \in Entry, Spawn(e) \/ CreateFails(e) PROVE EntryInv'
  <2>1. CASE Spawn(e)
    BY <2>1 DEF Spawn, GateOpen, EntryInv, IdleTimerOnlyUnused, TypeOK, turnVars, mapVars
  <2>2. CASE CreateFails(e)
    BY <2>2 DEF CreateFails, EntryInv, IdleTimerOnlyUnused, TypeOK, turnVars
  <2> QED BY <1>9, <2>1, <2>2
<1>10. ASSUME NEW e \in Entry, Created(e) PROVE EntryInv'
  BY <1>10, CreatedEntryInv
<1>11. ASSUME NEW e \in Entry, AgentExits(e) PROVE EntryInv'
  BY <1>11 DEF AgentExits, EntryInv, IdleTimerOnlyUnused, TypeOK, turnVars
<1>12. ASSUME NEW e \in Entry, IdleExpires(e) PROVE EntryInv'
  <2>1. \A f \in Entry : f \in {e} => phase[f] = "ready"
    BY <1>12 DEF IdleExpires, EntryInv
  <2> QED BY <1>12, <2>1, DisposeEntryInv DEF IdleExpires, InUse, turnVars
<1>13. ASSUME NEW e \in Entry, PassLock(e) PROVE EntryInv'
  BY <1>13 DEF PassLock, LeftBehind, EntryInv, IdleTimerOnlyUnused, TypeOK, turnVars, mapVars
<1>14. ASSUME NEW e \in Entry, DisposeCondemned(e) PROVE EntryInv'
  <2>1. CASE KeepEntries
    BY <1>14, <2>1 DEF DisposeCondemned, KeepEntries, EntryInv, IdleTimerOnlyUnused, turnVars
  <2>2. CASE phase[e] # "failed" /\ Dispose({e})
    <3>1. \A f \in Entry : f \in {e} => phase[f] = "ready"
      BY <1>14, <2>2 DEF DisposeCondemned, Settled
    <3> QED BY <1>14, <2>2, <3>1, DisposeEntryInv DEF DisposeCondemned, InUse, turnVars
  <2> QED BY <1>14, <2>1, <2>2 DEF DisposeCondemned
<1>15. ASSUME NEW k \in Key, DisposeKey(k) PROVE EntryInv'
  <2>1. \A e \in Entry : e \in {live[k]} => phase[e] = "ready"
    BY <1>15 DEF DisposeKey, EntryInv
  <2> QED BY <1>15, <2>1, DisposeEntryInv DEF DisposeKey, InUse, turnVars
<1>16. CASE DisposeAll
  <2>1. \A e \in Entry : e \in {live[k] : k \in LiveKeys(live)} => phase[e] = "ready"
    BY DEF LiveKeys, EntryInv
  <2> QED BY <1>16, <2>1, DisposeEntryInv DEF DisposeAll, InUse, turnVars
<1>17. CASE ShutdownDone \/ UNCHANGED vars
  BY <1>17 DEF ShutdownDone, vars, EntryInv, IdleTimerOnlyUnused, turnVars, entryVars, mapVars
<1> QED
  BY <1>1, <1>2, <1>3, <1>4, <1>5, <1>6, <1>7, <1>8, <1>9, <1>10, <1>11, <1>12, <1>13, <1>14,
     <1>15, <1>16, <1>17
  DEF Next, TurnStep, EntryStep

LEMMA KeyStepInv == TypeOK /\ EntryInv /\ (Open => KeyInv) /\ [Next]_vars => (Open => KeyInv)'
<1> SUFFICES ASSUME TypeOK, EntryInv, Open => KeyInv, [Next]_vars, Open' PROVE KeyInv'
  OBVIOUS
<1>0. KeyInv
  <2>1. CASE shutdown' = shutdown
    BY <2>1 DEF Open
  <2>2. CASE DisposeAll \/ ShutdownDone
    BY <2>2 DEF DisposeAll, ShutdownDone, Open
  <2> QED
    BY <2>1, <2>2
    DEF Next, TurnStep, EntryStep, Run, EnsureThrows, Enter, StopQueued, BeginUse, Retire, Recreate,
        FinishUse, Throw, ThrowDisposed, Leave, Abort, Spawn, Created, CreateFails, AgentExits,
        IdleExpires, PassLock, DisposeCondemned, DisposeKey, vars, serverVars
<1>1. ASSUME NEW t \in Turn, Run(t) PROVE KeyInv'
  <2> PICK r \in Asks[t] : Ensure(t, r.key, r.cwd)
    BY <1>1 DEF Run
  <2>1. r.key \in Key /\ r.cwd \in Cwd \cup {None}
    OBVIOUS
  <2> QED BY <1>0, <1>1, <2>1, EnsureKeyInv DEF Run
<1>2. ASSUME NEW t \in Turn,
             \/ EnsureThrows(t) \/ StopQueued(t) \/ Abort(t) \/ BeginUse(t) \/ Enter(t)
             \/ FinishUse(t) \/ ThrowDisposed(t)
      PROVE  KeyInv'
  BY <1>0, <1>2 DEF EnsureThrows, StopQueued, Abort, BeginUse, Enter, FinishUse, ThrowDisposed,
                    KeyInv, entryVars, mapVars
<1>3. ASSUME NEW t \in Turn, Retire(t) PROVE KeyInv'
  BY <1>0, <1>3, DisposeKeyInv DEF Retire
<1>4. ASSUME NEW t \in Turn, Recreate(t) PROVE KeyInv'
  <2>1. req[t].key \in Key /\ req[t].cwd \in Cwd \cup {None}
    BY DEF TypeOK, Request
  <2> QED BY <1>0, <1>4, <2>1, EnsureKeyInv DEF Recreate
<1>5. ASSUME NEW t \in Turn, Throw(t) PROVE KeyInv'
  <2>1. CASE UNCHANGED <<disposed, live, older, teardowns>>
    BY <1>0, <1>5, <2>1 DEF Throw, KeyInv
  <2>2. CASE Dispose({on[t]})
    BY <1>0, <1>5, <2>2, DisposeKeyInv DEF Throw
  <2> QED BY <1>5, <2>1, <2>2 DEF Throw
<1>6. ASSUME NEW t \in Turn, Leave(t) PROVE KeyInv'
  <2> PICK D : Dispose(D)
    BY <1>6 DEF Leave
  <2> QED BY <1>0, <1>6, DisposeKeyInv DEF Leave
<1>7. ASSUME NEW e \in Entry, Spawn(e) PROVE KeyInv'
  <2>1. /\ phase[e] = "gated" /\ \A f \in gate[e] : proc[f] = "gone"
        /\ phase' = [phase EXCEPT ![e] = "creating"]
        /\ proc' = [proc EXCEPT ![e] = "up"]
        /\ gate' = [gate EXCEPT ![e] = {}]
        /\ UNCHANGED <<of, disposed, live, pending>>
    BY <1>7 DEF Spawn, GateOpen, mapVars
  <2>2. \A f \in Entry : (f # e /\ of[f] = of[e]) => (proc[f] # "up" /\ phase[f] # "gated")
    BY <1>0, <2>1 DEF KeyInv
  <2> QED BY <1>0, <2>1, <2>2 DEF KeyInv, TypeOK
<1>8. ASSUME NEW e \in Entry, Created(e) PROVE KeyInv'
  BY <1>0, <1>8, CreatedKeyInv
<1>9. ASSUME NEW e \in Entry, CreateFails(e) PROVE KeyInv'
  <2>1. /\ phase[e] = "creating"
        /\ phase' = [phase EXCEPT ![e] = "failed"]
        /\ proc' = [proc EXCEPT ![e] = "gone"]
        /\ pending' = [k \in Key |-> IF pending[k] = e THEN None ELSE pending[k]]
        /\ UNCHANGED <<of, gate, disposed, live>>
    BY <1>9 DEF CreateFails, Unregister
  <2> QED BY <1>0, <2>1 DEF KeyInv, TypeOK
<1>10. ASSUME NEW e \in Entry, AgentExits(e) PROVE KeyInv'
  BY <1>0, <1>10 DEF AgentExits, KeyInv, TypeOK
<1>11. ASSUME NEW e \in Entry, IdleExpires(e) PROVE KeyInv'
  BY <1>0, <1>11, DisposeKeyInv DEF IdleExpires
<1>12. ASSUME NEW e \in Entry, PassLock(e) PROVE KeyInv'
  BY <1>0, <1>12 DEF PassLock, KeyInv, mapVars
<1>13. ASSUME NEW e \in Entry, DisposeCondemned(e) PROVE KeyInv'
  <2>1. CASE KeepEntries
    BY <1>0, <1>13, <2>1 DEF DisposeCondemned, KeepEntries, KeyInv
  <2>2. CASE Dispose({e})
    BY <1>0, <1>13, <2>2, DisposeKeyInv DEF DisposeCondemned
  <2> QED BY <1>13, <2>1, <2>2 DEF DisposeCondemned
<1>14. ASSUME NEW k \in Key, DisposeKey(k) PROVE KeyInv'
  BY <1>0, <1>14, DisposeKeyInv DEF DisposeKey
<1>15. CASE DisposeAll \/ ShutdownDone
  BY <1>15 DEF DisposeAll, ShutdownDone, Open
<1>16. CASE UNCHANGED vars
  BY <1>0, <1>16 DEF vars, KeyInv, entryVars, mapVars
<1> QED
  BY <1>1, <1>2, <1>3, <1>4, <1>5, <1>6, <1>7, <1>8, <1>9, <1>10, <1>11, <1>12, <1>13, <1>14,
     <1>15, <1>16
  DEF Next, TurnStep, EntryStep

\* The inductive invariant holds of every reachable state.
THEOREM Invariance == Spec => []IInv
<1>1. Init => EntryInv /\ LockInv /\ KeyInv
  BY DEF Init, EntryInv, LockInv, KeyInv, Holding, IdleTimerOnlyUnused
<1>2. TypeOK /\ EntryInv /\ LockInv /\ (Open => KeyInv) /\ [Next]_vars
        => (EntryInv /\ LockInv /\ (Open => KeyInv))'
  BY EntryStepInv, LockStep, KeyStepInv
<1> QED BY <1>1, <1>2, TypeCorrect, PTL DEF Spec, IInv

(* THE TEARDOWN GATE: while the server is open, a key never has two agent  *)
(* processes, however its turns, disposals and re-creations interleave.    *)
THEOREM ProcessesExclusive == Spec => []OneProcessPerKey
<1>1. IInv => OneProcessPerKey
  BY DEF IInv, KeyInv, OneProcessPerKey
<1> QED BY <1>1, Invariance, PTL

\* No agent process of an open server is out of reach of the map and of its disposal.
THEOREM NoAgentLeaks == Spec => []NoOrphan
<1>1. IInv => NoOrphan
  <2> SUFFICES ASSUME IInv, Open, NEW e \in Entry, proc[e] = "up", phase[e] # "creating", ~disposed[e]
               PROVE  live[of[e]] = e
    BY DEF NoOrphan
  <2>1. phase[e] = "ready"
    BY DEF IInv, TypeOK, EntryInv
  <2> QED BY <2>1 DEF IInv, KeyInv
<1> QED BY <1>1, Invariance, PTL

\* The idle countdown of a session never runs while a turn holds or awaits its lock.
THEOREM TimerOnlyUnused == Spec => []IdleTimerOnlyUnused
<1>1. IInv => IdleTimerOnlyUnused
  BY DEF IInv, EntryInv
<1> QED BY <1>1, Invariance, PTL

-----------------------------------------------------------------------------
(* Whom a session is for, and how many turns a key has *)

\* A creation in flight is its key's, and so is the session a turn awaits or
\* holds, also while the server shuts down.
OwnerInv ==
  /\ \A k \in Key : pending[k] # None =>
       of[pending[k]] = k /\ phase[pending[k]] \in {"gated", "creating"}
  /\ \A t \in Turn : pc[t] # "idle" => phase[on[t]] # "free" /\ of[on[t]] = req[t].key

Counted(t) == pc[t] \notin {"idle", "done"}
CountedOn(k) == {t \in Turn : Counted(t) /\ req[t].key = k}

\* inflight counts the turns that have called run() and not left it.
CountInv == \A k \in Key : IsFiniteSet(CountedOn(k)) /\ inflight[k] = Cardinality(CountedOn(k))

\* A step that starts and settles no creation and sends no turn to ensure().
LEMMA OwnerKept ==
  ASSUME TypeOK, OwnerInv, UNCHANGED <<of, on, req, pending>>,
         \A e \in Entry : phase[e] # "free" => phase'[e] # "free",
         \A e \in Entry : phase[e] \in {"gated", "creating"} => phase'[e] \in {"gated", "creating"},
         \A t \in Turn : pc[t] = "idle" => pc'[t] = "idle"
  PROVE  OwnerInv'
BY DEF OwnerInv, TypeOK

LEMMA EnsureOwner ==
  ASSUME TypeOK, EntryInv, OwnerInv, NEW t \in Turn, NEW k \in Key, NEW c \in Cwd \cup {None},
         Ensure(t, k, c), pc' = [pc EXCEPT ![t] = "ensuring"], req' \in [Turn -> Request],
         req'[t].key = k, \A u \in Turn \ {t} : req'[u] = req[u]
  PROVE  OwnerInv'
<1>1. CASE Reusable(k) /\ on' = [on EXCEPT ![t] = live[k]] /\ KeepCreations
  <2>1. live[k] \in Entry /\ phase[live[k]] = "ready" /\ of[live[k]] = k
    BY <1>1 DEF Reusable, EntryInv, TypeOK
  <2> QED BY <1>1, <2>1 DEF OwnerInv, KeepCreations, TypeOK
<1>2. CASE pending[k] # None /\ on' = [on EXCEPT ![t] = pending[k]] /\ KeepCreations
  <2>1. pending[k] \in Entry
    BY <1>2 DEF TypeOK
  <2>2. phase[pending[k]] # "free" /\ of[pending[k]] = k
    BY <1>2 DEF OwnerInv
  <2> QED BY <1>2, <2>1, <2>2 DEF OwnerInv, KeepCreations, TypeOK
<1>3. CASE \E e \in Entry : StartCreation(e, k, c) /\ on' = [on EXCEPT ![t] = e]
  <2> PICK e \in Entry : StartCreation(e, k, c) /\ on' = [on EXCEPT ![t] = e]
    BY <1>3
  <2>1. /\ phase[e] = "free" /\ phase' = [phase EXCEPT ![e] = "gated"]
        /\ of' = [of EXCEPT ![e] = k] /\ pending' = [pending EXCEPT ![k] = e]
    BY DEF StartCreation, NextFree
  <2>2. \A j \in Key : pending'[j] # None =>
          of'[pending'[j]] = j /\ phase'[pending'[j]] \in {"gated", "creating"}
    BY <2>1 DEF OwnerInv, TypeOK
  <2>3. ASSUME NEW u \in Turn, u # t, pc'[u] # "idle"
        PROVE  phase'[on'[u]] # "free" /\ of'[on'[u]] = req'[u].key
    <3>1. pc[u] # "idle" /\ on'[u] = on[u] /\ on[u] \in Entry /\ req'[u] = req[u]
      BY <2>3 DEF TypeOK
    <3>2. phase[on[u]] # "free" /\ of[on[u]] = req[u].key /\ on[u] # e
      BY <2>1, <3>1 DEF OwnerInv
    <3> QED BY <2>1, <3>1, <3>2 DEF TypeOK
  <2>4. phase'[on'[t]] # "free" /\ of'[on'[t]] = req'[t].key
    BY <2>1 DEF TypeOK
  <2> QED BY <2>2, <2>3, <2>4 DEF OwnerInv
<1> QED BY <1>1, <1>2, <1>3 DEF Ensure

LEMMA OwnerStep == TypeOK /\ EntryInv /\ OwnerInv /\ [Next]_vars => OwnerInv'
<1> SUFFICES ASSUME TypeOK, EntryInv, OwnerInv, [Next]_vars PROVE OwnerInv'
  OBVIOUS
<1> USE DEF Goto
<1>1. ASSUME NEW t \in Turn, Run(t) PROVE OwnerInv'
  <2> PICK r \in Asks[t] : req' = [req EXCEPT ![t] = r] /\ Ensure(t, r.key, r.cwd)
    BY <1>1 DEF Run
  <2>1. r \in Request /\ r.key \in Key /\ r.cwd \in Cwd \cup {None}
    BY DEF Request
  <2>2. req' \in [Turn -> Request] /\ req'[t].key = r.key /\ \A u \in Turn \ {t} : req'[u] = req[u]
    BY <2>1 DEF TypeOK
  <2> QED BY <1>1, <2>1, <2>2, EnsureOwner DEF Run
<1>2. ASSUME NEW t \in Turn, Recreate(t) PROVE OwnerInv'
  <2>1. req[t].key \in Key /\ req[t].cwd \in Cwd \cup {None} /\ req' = req /\ req \in [Turn -> Request]
    BY <1>2 DEF TypeOK, Request, Recreate
  <2> QED BY <1>2, <2>1, EnsureOwner DEF Recreate
<1>3. ASSUME NEW t \in Turn,
             \/ EnsureThrows(t) \/ Enter(t) \/ StopQueued(t) \/ BeginUse(t) \/ Retire(t)
             \/ FinishUse(t) \/ Throw(t) \/ ThrowDisposed(t) \/ Leave(t) \/ Abort(t)
      PROVE  OwnerInv'
  <2>1. /\ UNCHANGED <<of, on, req, pending, phase>>
        /\ \A u \in Turn : pc[u] = "idle" => pc'[u] = "idle"
    BY <1>3 DEF EnsureThrows, Enter, StopQueued, BeginUse, Retire, FinishUse, Throw, ThrowDisposed,
                Leave, Abort, Unlock, TypeOK, entryVars, mapVars
  <2> QED BY <2>1, OwnerKept
<1>4. ASSUME NEW e \in Entry, Spawn(e) PROVE OwnerInv'
  <2>1. /\ UNCHANGED <<of, on, req, pc, pending>> /\ phase[e] = "gated"
        /\ phase' = [phase EXCEPT ![e] = "creating"]
    BY <1>4 DEF Spawn, GateOpen, turnVars, mapVars
  <2> QED BY <2>1, OwnerKept DEF TypeOK
<1>5. ASSUME NEW e \in Entry, Created(e) \/ CreateFails(e) PROVE OwnerInv'
  <2>1. /\ phase[e] = "creating" /\ UNCHANGED <<of, on, req, pc>>
        /\ phase' = [phase EXCEPT ![e] = "ready"] \/ phase' = [phase EXCEPT ![e] = "failed"]
        /\ pending' = [k \in Key |-> IF pending[k] = e THEN None ELSE pending[k]]
    BY <1>5 DEF Created, CreateFails, Unregister, turnVars
  <2> QED BY <2>1 DEF OwnerInv, TypeOK
<1>6. ASSUME NEW e \in Entry, AgentExits(e) \/ IdleExpires(e) \/ PassLock(e) \/ DisposeCondemned(e)
      PROVE  OwnerInv'
  BY <1>6, OwnerKept DEF AgentExits, IdleExpires, PassLock, DisposeCondemned, turnVars, mapVars
<1>7. ASSUME NEW k \in Key, DisposeKey(k) PROVE OwnerInv'
  BY <1>7, OwnerKept DEF DisposeKey, turnVars
<1>8. CASE DisposeAll
  BY <1>8 DEF DisposeAll, OwnerInv, turnVars
<1>9. CASE ShutdownDone \/ UNCHANGED vars
  BY <1>9, OwnerKept DEF ShutdownDone, vars, turnVars, entryVars, mapVars
<1> QED BY <1>1, <1>2, <1>3, <1>4, <1>5, <1>6, <1>7, <1>8, <1>9 DEF Next, TurnStep, EntryStep

LEMMA CountKept ==
  ASSUME CountInv, UNCHANGED <<inflight, req>>, \A t \in Turn : Counted(t)' <=> Counted(t)
  PROVE  CountInv'
<1>1. \A k \in Key : CountedOn(k)' = CountedOn(k)
  BY DEF CountedOn
<1> QED BY <1>1 DEF CountInv

\* A turn is counted as it comes and uncounted as it goes.
LEMMA CountStep == TypeOK /\ CountInv /\ [Next]_vars => CountInv'
<1> SUFFICES ASSUME TypeOK, CountInv, [Next]_vars PROVE CountInv'
  OBVIOUS
<1> USE DEF Goto
<1>1. ASSUME NEW t \in Turn, Run(t) PROVE CountInv'
  <2> PICK r \in Asks[t] : /\ req' = [req EXCEPT ![t] = r]
                           /\ inflight' = [inflight EXCEPT ![r.key] = @ + 1]
    BY <1>1 DEF Run
  <2>1. r \in Request /\ r.key \in Key /\ pc[t] = "idle" /\ pc' = [pc EXCEPT ![t] = "ensuring"]
    BY <1>1 DEF Run, Request
  <2>2. /\ CountedOn(r.key)' = CountedOn(r.key) \cup {t} /\ t \notin CountedOn(r.key)
        /\ \A k \in Key \ {r.key} : CountedOn(k)' = CountedOn(k)
    BY <2>1 DEF CountedOn, Counted, TypeOK
  <2>3. IsFiniteSet(CountedOn(r.key)) /\ inflight[r.key] = Cardinality(CountedOn(r.key))
    BY <2>1 DEF CountInv
  <2>4. IsFiniteSet(CountedOn(r.key)') /\ Cardinality(CountedOn(r.key)') = Cardinality(CountedOn(r.key)) + 1
    BY <2>2, <2>3, FS_AddElement
  <2> QED BY <2>1, <2>2, <2>3, <2>4 DEF CountInv, TypeOK
<1>2. ASSUME NEW t \in Turn, Leave(t) PROVE CountInv'
  <2> DEFINE k == req[t].key
  <2>1. /\ pc[t] = "leaving" /\ pc' = [pc EXCEPT ![t] = "done"] /\ req' = req /\ k \in Key
        /\ inflight' = [inflight EXCEPT ![k] = IF @ > 1 THEN @ - 1 ELSE 0]
    BY <1>2 DEF Leave, TypeOK, Request
  <2>2. /\ CountedOn(k)' = CountedOn(k) \ {t} /\ t \in CountedOn(k)
        /\ \A j \in Key \ {k} : CountedOn(j)' = CountedOn(j)
    BY <2>1 DEF CountedOn, Counted, TypeOK
  <2>3. IsFiniteSet(CountedOn(k)) /\ inflight[k] = Cardinality(CountedOn(k)) /\ inflight[k] \in Nat
    BY <2>1 DEF CountInv, TypeOK
  <2> HIDE DEF k
  <2>4. /\ IsFiniteSet(CountedOn(k) \ {t}) /\ Cardinality(CountedOn(k) \ {t}) = Cardinality(CountedOn(k)) - 1
        /\ Cardinality(CountedOn(k) \ {t}) \in Nat
    BY <2>2, <2>3, FS_RemoveElement, FS_CardinalityType
  <2>5. inflight'[k] = Cardinality(CountedOn(k) \ {t})
    BY <2>1, <2>3, <2>4 DEF TypeOK
  <2>6. \A j \in Key \ {k} : inflight'[j] = inflight[j]
    BY <2>1 DEF TypeOK
  <2>7. ASSUME NEW j \in Key PROVE IsFiniteSet(CountedOn(j)') /\ inflight'[j] = Cardinality(CountedOn(j)')
    <3>1. CASE j = k
      <4>1. CountedOn(j)' = CountedOn(k) \ {t}
        BY <2>1, <2>2, <3>1 DEF CountedOn, Counted, TypeOK
      <4> QED BY <2>4, <2>5, <3>1, <4>1
    <3>2. CASE j # k
      BY <2>2, <2>6, <3>2 DEF CountInv
    <3> QED BY <3>1, <3>2
  <2> QED BY <2>7 DEF CountInv
<1>3. ASSUME NEW t \in Turn,
             \/ EnsureThrows(t) \/ Enter(t) \/ StopQueued(t) \/ BeginUse(t) \/ Retire(t) \/ Recreate(t)
             \/ FinishUse(t) \/ Throw(t) \/ ThrowDisposed(t) \/ Abort(t)
      PROVE  CountInv'
  <2>1. UNCHANGED <<inflight, req>> /\ \A u \in Turn : Counted(u)' <=> Counted(u)
    BY <1>3 DEF EnsureThrows, Enter, StopQueued, BeginUse, Retire, Recreate, FinishUse, Throw, ThrowDisposed,
                Abort, Unlock, Counted, TypeOK, entryVars, mapVars
  <2> QED BY <2>1, CountKept
<1>4. ASSUME NEW e \in Entry, EntryStep(e) PROVE CountInv'
  <2>1. UNCHANGED <<inflight, req, pc>>
    BY <1>4 DEF EntryStep, Spawn, Created, CreateFails, AgentExits, IdleExpires, PassLock, DisposeCondemned,
                turnVars, mapVars
  <2> QED BY <2>1, CountKept DEF Counted
<1>5. ASSUME NEW k \in Key, DisposeKey(k) PROVE CountInv'
  BY <1>5, CountKept DEF DisposeKey, turnVars, Counted
<1>6. CASE DisposeAll \/ ShutdownDone \/ UNCHANGED vars
  BY <1>6, CountKept DEF DisposeAll, ShutdownDone, vars, turnVars, mapVars, Counted
<1> QED BY <1>1, <1>2, <1>3, <1>4, <1>5, <1>6 DEF Next, TurnStep

-----------------------------------------------------------------------------
(* No running turn loses its agent to the timer, the cap or another turn *)

MayDispose ==
  DisposeAll \/ (\E k \in Key : DisposeKey(k)) \/ \E e \in Entry : DisposeCondemned(e)

\* The cap takes no session a turn is counted on.
LEMMA VictimIsIdle ==
  ASSUME TypeOK, OwnerInv, CountInv, NEW t \in Turn, pc[t] = "using",
         NEW lv \in [Key -> Entry \cup {None}], \A k \in Key : lv[k] # None => of[lv[k]] = k,
         NEW order, NEW busy, \A k \in Key : t \in CountedOn(k) => busy[k] # 0
  PROVE  on[t] \notin Victims(lv, order, busy)
<1> SUFFICES ASSUME on[t] \in Victims(lv, order, busy) PROVE FALSE
  OBVIOUS
<1>1. PICK k \in Key : lv[k] # None /\ busy[k] = 0 /\ on[t] = lv[k]
  BY DEF Victims, LiveKeys
<1>2. req[t].key = k
  BY <1>1 DEF OwnerInv
<1> QED BY <1>1, <1>2 DEF CountedOn, Counted

\* A turn that is counted on a key makes its count positive.
LEMMA CountedIsBusy ==
  ASSUME TypeOK, CountInv, NEW k \in Key, NEW t \in CountedOn(k)
  PROVE  inflight[k] \in Nat \ {0} /\ (inflight[k] = 1 => CountedOn(k) = {t})
<1>1. IsFiniteSet(CountedOn(k)) /\ inflight[k] = Cardinality(CountedOn(k)) /\ inflight[k] \in Nat
  BY DEF CountInv, TypeOK
<1>2. inflight[k] # 0
  BY <1>1, FS_EmptySet
<1>3. inflight[k] = 1 => \E x : CountedOn(k) = {x}
  BY <1>1, FS_Singleton
<1> QED BY <1>1, <1>2, <1>3

LEMMA KeepsAgent ==
  ASSUME IInv, OwnerInv, CountInv, [Next]_vars, NEW t \in Turn, pc[t] = "using",
         proc[on[t]] = "up", ~disposed[on[t]], disposed'[on[t]]
  PROVE  pc'[t] = "disposing" \/ MayDispose
<1> USE DEF Goto
<1>0. TypeOK /\ EntryInv /\ LockInv /\ on[t] \in Entry /\ Holds(t, on[t]) /\ t \in CountedOn(of[on[t]])
  <2>1. TypeOK /\ EntryInv /\ LockInv /\ on[t] \in Entry /\ Holds(t, on[t])
    BY DEF IInv, LockInv, Holding, TypeOK
  <2> QED BY <2>1 DEF CountedOn, Counted, OwnerInv
<1>1. ASSUME NEW D, Dispose(D) PROVE on[t] \in D
  BY <1>0, <1>1 DEF Dispose, DisposeFrom
<1>2. ASSUME NEW u \in Turn, NEW k \in Key, NEW c, Ensure(u, k, c) PROVE FALSE
  <2>1. CASE KeepEntries
    BY <2>1 DEF KeepEntries
  <2>2. CASE Dispose(SelfClosed(k))
    BY <1>1, <2>2 DEF SelfClosed
  <2> QED BY <1>2, <2>1, <2>2 DEF Ensure
<1>3. ASSUME NEW u \in Turn, Run(u) \/ Recreate(u) PROVE FALSE
  <2>1. \E k \in Key : \E c \in Cwd \cup {None} : Ensure(u, k, c)
    <3>1. CASE Run(u)
      BY <3>1 DEF Run
    <3>2. CASE Recreate(u)
      <4>1. req[u].key \in Key /\ req[u].cwd \in Cwd \cup {None}
        BY <1>0 DEF TypeOK, Request
      <4> QED BY <3>2, <4>1 DEF Recreate
    <3> QED BY <1>3, <3>1, <3>2
  <2> QED BY <1>2, <2>1
<1>4. ASSUME NEW u \in Turn, Holds(u, on[u]), on[u] = on[t] PROVE u = t
  BY <1>0, <1>4 DEF Holds
<1>5. ASSUME NEW u \in Turn, Retire(u) PROVE FALSE
  BY <1>1, <1>4, <1>5 DEF Retire
<1>6. ASSUME NEW u \in Turn, Throw(u) PROVE pc'[t] = "disposing"
  <2>1. Dispose({on[u]}) /\ pc' = [pc EXCEPT ![u] = "disposing"]
    BY <1>6 DEF Throw
  <2>2. Holds(u, on[u])
    BY <1>0, <1>6 DEF LockInv, Holding, Throw
  <2> QED BY <1>0, <1>1, <1>4, <2>1, <2>2 DEF TypeOK
<1>7. ASSUME NEW u \in Turn, Leave(u) PROVE FALSE
  <2> DEFINE k == req[u].key
             left == [inflight EXCEPT ![k] = IF @ > 1 THEN @ - 1 ELSE 0]
  <2>1. /\ pc[u] = "leaving" /\ k \in Key /\ u # t /\ u \in CountedOn(k)
        /\ Dispose(Victims(live, older, left)) \/ Dispose({})
    BY <1>0, <1>7 DEF Leave, TypeOK, Request, CountedOn, Counted
  <2>2. ASSUME NEW j \in Key, t \in CountedOn(j) PROVE left[j] # 0
    <3>1. inflight[j] \in Nat \ {0} /\ (inflight[j] = 1 => CountedOn(j) = {t})
      BY <1>0, <2>2, CountedIsBusy
    <3>2. inflight[k] = 1 => j # k
      BY <2>1, <3>1
    <3> QED BY <1>0, <2>1, <3>1, <3>2 DEF TypeOK
  <2> HIDE DEF left
  <2>3. on[t] \notin Victims(live, older, left)
    BY <1>0, <2>2, VictimIsIdle DEF TypeOK, EntryInv
  <2> QED BY <1>1, <2>1, <2>3
<1>8. ASSUME NEW e \in Entry, Created(e) PROVE FALSE
  <2> DEFINE lv == [live EXCEPT ![of[e]] = e]
             order == IF live[of[e]] = None THEN ToNewest(of[e], live) ELSE older
             armed == [timer EXCEPT ![e] = TRUE]
  <2>1. DisposeFrom(Victims(lv, order, inflight), lv, order, armed)
    BY <1>8 DEF Created
  <2>2. lv \in [Key -> Entry \cup {None}] /\ \A k \in Key : lv[k] # None => of[lv[k]] = k
    BY <1>0 DEF TypeOK, EntryInv
  <2>3. \A j \in Key : t \in CountedOn(j) => inflight[j] # 0
    BY <1>0, CountedIsBusy
  <2> HIDE DEF lv, order, armed
  <2>4. on[t] \notin Victims(lv, order, inflight)
    BY <1>0, <2>2, <2>3, VictimIsIdle
  <2> QED BY <1>0, <2>1, <2>4 DEF DisposeFrom
<1>9. ASSUME NEW e \in Entry, IdleExpires(e) PROVE FALSE
  BY <1>0, <1>1, <1>9 DEF IdleExpires, EntryInv, IdleTimerOnlyUnused, Holds
<1>10. ASSUME disposed' = disposed PROVE FALSE
  BY <1>10
<1>11. ASSUME NEW u \in Turn,
              \/ EnsureThrows(u) \/ Enter(u) \/ StopQueued(u) \/ BeginUse(u)
              \/ FinishUse(u) \/ ThrowDisposed(u) \/ Abort(u)
       PROVE  FALSE
  BY <1>10, <1>11 DEF EnsureThrows, Enter, StopQueued, BeginUse, FinishUse, ThrowDisposed, Abort,
                      Unlock, entryVars
<1>12. ASSUME NEW e \in Entry, Spawn(e) \/ CreateFails(e) \/ AgentExits(e) \/ PassLock(e) PROVE FALSE
  BY <1>10, <1>12 DEF Spawn, CreateFails, AgentExits, PassLock
<1>13. CASE ShutdownDone \/ UNCHANGED vars
  BY <1>10, <1>13 DEF ShutdownDone, vars, entryVars
<1> QED
  BY <1>3, <1>5, <1>6, <1>7, <1>8, <1>9, <1>11, <1>12, <1>13 DEF Next, TurnStep, EntryStep, MayDispose

-----------------------------------------------------------------------------
(* The cache implements AgentThread *)

\* A process that is up, and a turn that uses it, are the only ones of their key.
LEMMA UpIs ==
  ASSUME IInv, Open, NEW e \in Entry, proc[e] = "up"
  PROVE  /\ UpOn(of[e]) = {e} /\ Only(UpOn(of[e])) = e /\ e # None
         /\ \A t \in Turn : pc[t] = "using" /\ on[t] = e => UsersOf(of[e]) = {t} /\ Only(UsersOf(of[e])) = t
         /\ (\A t \in Turn : ~ (pc[t] = "using" /\ on[t] = e)) => UsersOf(of[e]) = {}
<1>1. UpOn(of[e]) = {e}
  BY DEF IInv, KeyInv, UpOn
<1>2. ASSUME NEW t \in Turn, pc[t] = "using", on[t] = e PROVE UsersOf(of[e]) = {t}
  BY <1>1, <1>2 DEF UsersOf, IInv, LockInv, Holding, Holds
<1>3. ASSUME NEW S, NEW x, S = {x} PROVE Only(S) = x
  BY <1>3 DEF Only
<1> QED BY <1>1, <1>2, <1>3, NoneAssumption DEF UsersOf

LEMMA NoneIs == Only({}) = None
BY DEF Only

\* A step that no agent thread notices.
LEMMA ThreadStutters ==
  ASSUME TypeOK, Open' = Open, proc' = proc,
         \A e \in Entry : proc[e] # "none" => of'[e] = of[e],
         \A t \in Turn : pc[t] = "using" \/ pc'[t] = "using" => pc'[t] = pc[t] /\ on'[t] = on[t]
  PROVE  UNCHANGED Thread!vars
<1>1. \A k \in Key : UpOn(k)' = UpOn(k)
  BY DEF UpOn
<1>2. \A k \in Key : UsersOf(k)' = UsersOf(k)
  BY <1>1 DEF UsersOf
<1> QED BY <1>1, <1>2 DEF Thread!vars

\* What one thread sees of a step on the process of its key; the others see nothing.
LEMMA OtherThreads ==
  ASSUME TypeOK, NEW e \in Entry, Open, Open', UNCHANGED <<of, on>>,
         \A f \in Entry \ {e} : proc'[f] = proc[f],
         \A t \in Turn : on[t] # e => (pc'[t] = "using" <=> pc[t] = "using"),
         NEW k \in Key, k # of[e]
  PROVE  UpOn(k)' = UpOn(k) /\ UsersOf(k)' = UsersOf(k)
<1>1. UpOn(k)' = UpOn(k) /\ e \notin UpOn(k)
  BY DEF UpOn
<1> QED BY <1>1 DEF UsersOf

\* What the abstract thread holds, before and after.
AgentOn == [k \in Key |-> Only(UpOn(k))]
UserOn == [k \in Key |-> Only(UsersOf(k))]
SpentNow == {e \in Entry : Open /\ proc[e] # "none"}

LEMMA SpawnStarts ==
  ASSUME IInv, NEW e \in Entry, Spawn(e), Open
  PROVE  Thread!Start(of[e], e)
<1>1. /\ TypeOK /\ phase[e] = "gated" /\ proc[e] = "none" /\ proc' = [proc EXCEPT ![e] = "up"]
      /\ Open' /\ UNCHANGED <<of, on, pc>> /\ of[e] \in Key /\ \A f \in gate[e] : proc[f] = "gone"
  BY DEF IInv, EntryInv, Spawn, GateOpen, Open, serverVars, turnVars, TypeOK
<1>2. \A f \in Entry : proc[f] = "up" => of[f] # of[e]
  BY <1>1 DEF IInv, KeyInv
<1>3. UpOn(of[e]) = {} /\ UpOn(of[e])' = {e}
  BY <1>1, <1>2 DEF UpOn, TypeOK
<1>4. \A t \in Turn : pc[t] = "using" => on[t] # e
  BY <1>1 DEF IInv, EntryInv
<1>5. UsersOf(of[e]) = {} /\ UsersOf(of[e])' = {}
  BY <1>1, <1>3, <1>4 DEF UsersOf
<1>6. \A k \in Key \ {of[e]} : UpOn(k)' = UpOn(k) /\ UsersOf(k)' = UsersOf(k)
  BY <1>1, OtherThreads DEF TypeOK
<1>7. /\ Only(UpOn(of[e])) = None /\ Only(UpOn(of[e]))' = e
      /\ Only(UsersOf(of[e]))' = Only(UsersOf(of[e]))
  BY <1>3, <1>5, NoneIs DEF Only
<1>8. AgentOn' = [AgentOn EXCEPT ![of[e]] = e]
  BY <1>1, <1>6, <1>7 DEF AgentOn
<1>9. UserOn' = UserOn
  BY <1>1, <1>6, <1>7 DEF UserOn
<1>10. SpentNow' = SpentNow \cup {e} /\ e \notin SpentNow
  BY <1>1 DEF SpentNow, TypeOK
<1> QED BY <1>1, <1>7, <1>8, <1>9, <1>10 DEF Thread!Start, AgentOn, UserOn, SpentNow

\* A process that exits takes its user with it.
LEMMA ExitStops ==
  ASSUME IInv, NEW e \in Entry, CreateFails(e) \/ AgentExits(e), Open
  PROVE  Thread!Exit(of[e])
<1>1. /\ TypeOK /\ proc[e] = "up" /\ proc' = [proc EXCEPT ![e] = "gone"]
      /\ Open' /\ UNCHANGED <<of, on, pc>> /\ of[e] \in Key
  BY DEF IInv, EntryInv, CreateFails, AgentExits, Open, serverVars, turnVars, TypeOK
<1>2. UpOn(of[e]) = {e} /\ Only(UpOn(of[e])) = e /\ e # None
  BY <1>1, UpIs
<1>3. UpOn(of[e])' = {}
  BY <1>1, <1>2 DEF UpOn, TypeOK
<1>4. UsersOf(of[e])' = {}
  BY <1>3 DEF UsersOf
<1>5. Only(UpOn(of[e]))' = None /\ Only(UsersOf(of[e]))' = None
  BY <1>3, <1>4, NoneIs DEF Only
<1>6. \A k \in Key \ {of[e]} : UpOn(k)' = UpOn(k) /\ UsersOf(k)' = UsersOf(k)
  BY <1>1, OtherThreads DEF TypeOK
<1>7. AgentOn' = [AgentOn EXCEPT ![of[e]] = None] /\ UserOn' = [UserOn EXCEPT ![of[e]] = None]
  BY <1>1, <1>5, <1>6 DEF AgentOn, UserOn
<1>8. SpentNow' = SpentNow
  BY <1>1 DEF SpentNow, TypeOK
<1> QED BY <1>1, <1>2, <1>7, <1>8 DEF Thread!Exit, AgentOn, UserOn, SpentNow

LEMMA UseBegins ==
  ASSUME IInv, NEW t \in Turn, BeginUse(t), Open
  PROVE  Thread!Begin(of[on[t]], t)
<1>0. PICK e \in Entry : e = on[t]
  BY DEF IInv, TypeOK, BeginUse
<1>1. /\ TypeOK /\ e = on[t] /\ proc[e] = "up" /\ proc' = proc /\ pc[t] = "queued" /\ Holds(t, e)
      /\ Open' /\ UNCHANGED <<of, on>> /\ of[e] \in Key /\ pc' = [pc EXCEPT ![t] = "using"]
  BY <1>0 DEF IInv, BeginUse, Open, serverVars, entryVars, Goto, TypeOK
<1>2. UpOn(of[e]) = {e} /\ Only(UpOn(of[e])) = e /\ e # None /\ UpOn(of[e])' = {e}
  <2>1. e \in Entry /\ proc[e] = "up"
    BY <1>1
  <2>2. IInv /\ Open
    BY DEF IInv
  <2>3. UpOn(of[e]) = {e} /\ Only(UpOn(of[e])) = e /\ e # None
    BY <2>1, <2>2, UpIs
  <2> QED BY <1>1, <2>2, <2>3 DEF UpOn
<1>3. UsersOf(of[e]) = {}
  <2>1. \A u \in Turn : pc[u] = "using" /\ on[u] = e => u = t
    BY <1>1 DEF IInv, LockInv, Holding, Holds
  <2> QED BY <1>1, <2>1, UpIs
<1>4. UsersOf(of[e])' = {t}
  BY <1>1, <1>2, <1>3 DEF UsersOf, TypeOK
<1>5. /\ Only(UsersOf(of[e])) = None /\ Only(UsersOf(of[e]))' = t
      /\ Only(UpOn(of[e]))' = Only(UpOn(of[e]))
  BY <1>2, <1>3, <1>4, NoneIs DEF Only
<1>6. \A k \in Key \ {of[e]} : UpOn(k)' = UpOn(k) /\ UsersOf(k)' = UsersOf(k)
  <2>1. \A u \in Turn : on[u] # e => (pc'[u] = "using" <=> pc[u] = "using")
    BY <1>1 DEF TypeOK
  <2> QED BY <1>1, <2>1, OtherThreads
<1>7. AgentOn' = AgentOn /\ UserOn' = [UserOn EXCEPT ![of[e]] = t]
  <2>1. ASSUME NEW k \in Key, k # of[e]
        PROVE  Only(UpOn(k))' = Only(UpOn(k)) /\ Only(UsersOf(k))' = Only(UsersOf(k))
    <3>1. UpOn(k)' = UpOn(k) /\ UsersOf(k)' = UsersOf(k)
      BY <1>6, <2>1
    <3> QED BY <3>1 DEF Only
  <2>2. \A k \in Key : Only(UpOn(k))' = Only(UpOn(k))
    BY <1>1, <1>5, <2>1
  <2>3. AgentOn' = AgentOn
    BY <2>2 DEF AgentOn
  <2>4. UserOn' = [UserOn EXCEPT ![of[e]] = t]
    BY <1>1, <1>5, <2>1 DEF UserOn
  <2> QED BY <2>3, <2>4
<1>8. SpentNow' = SpentNow
  BY <1>1 DEF SpentNow
<1> QED BY <1>0, <1>1, <1>2, <1>5, <1>7, <1>8 DEF Thread!Begin, AgentOn, UserOn, SpentNow

\* A turn that ends while its process runs leaves the thread to nobody.
LEMMA UseEnds ==
  ASSUME IInv, NEW t \in Turn, FinishUse(t) \/ Throw(t), Open, proc[on[t]] = "up"
  PROVE  Thread!End(of[on[t]])
<1>0. PICK e \in Entry : e = on[t]
  BY DEF IInv, TypeOK, FinishUse, Throw
<1>1. /\ TypeOK /\ e = on[t] /\ proc[e] = "up" /\ proc' = proc /\ pc[t] = "using"
      /\ Open' /\ UNCHANGED <<of, on>> /\ of[e] \in Key
      /\ pc' = [pc EXCEPT ![t] = "leaving"] \/ pc' = [pc EXCEPT ![t] = "disposing"]
  BY <1>0 DEF IInv, FinishUse, Throw, Unlock, Open, serverVars, Goto, TypeOK
<1>2. /\ UpOn(of[e]) = {e} /\ UsersOf(of[e]) = {t} /\ Only(UsersOf(of[e])) = t /\ UpOn(of[e])' = {e}
  <2>1. e \in Entry /\ proc[e] = "up" /\ pc[t] = "using" /\ on[t] = e
    BY <1>1
  <2>2. UpOn(of[e]) = {e}
    BY <2>1, UpIs
  <2>3. UsersOf(of[e]) = {t} /\ Only(UsersOf(of[e])) = t
    BY <2>1, UpIs
  <2> QED BY <1>1, <2>2, <2>3 DEF UpOn
<1>3. UsersOf(of[e])' = {}
  BY <1>1, <1>2 DEF UsersOf, TypeOK
<1>4. /\ Only(UsersOf(of[e]))' = None /\ t # None
      /\ Only(UpOn(of[e]))' = Only(UpOn(of[e]))
  BY <1>2, <1>3, NoneIs, NoneAssumption DEF Only
<1>5. \A k \in Key \ {of[e]} : UpOn(k)' = UpOn(k) /\ UsersOf(k)' = UsersOf(k)
  <2>1. \A u \in Turn : on[u] # e => (pc'[u] = "using" <=> pc[u] = "using")
    BY <1>1 DEF TypeOK
  <2> QED BY <1>1, <2>1, OtherThreads
<1>6. AgentOn' = AgentOn /\ UserOn' = [UserOn EXCEPT ![of[e]] = None]
  <2>1. ASSUME NEW k \in Key, k # of[e]
        PROVE  Only(UpOn(k))' = Only(UpOn(k)) /\ Only(UsersOf(k))' = Only(UsersOf(k))
    <3>1. UpOn(k)' = UpOn(k) /\ UsersOf(k)' = UsersOf(k)
      BY <1>5, <2>1
    <3> QED BY <3>1 DEF Only
  <2>2. \A k \in Key : Only(UpOn(k))' = Only(UpOn(k))
    BY <1>1, <1>4, <2>1
  <2>3. AgentOn' = AgentOn
    BY <2>2 DEF AgentOn
  <2>4. UserOn' = [UserOn EXCEPT ![of[e]] = None]
    BY <1>1, <1>4, <2>1 DEF UserOn
  <2> QED BY <2>3, <2>4
<1>7. SpentNow' = SpentNow
  BY <1>1 DEF SpentNow
<1> QED BY <1>0, <1>1, <1>2, <1>4, <1>6, <1>7 DEF Thread!End, AgentOn, UserOn, SpentNow

LEMMA ThreadStep ==
  ASSUME IInv, [Next]_vars
  PROVE  [Thread!Next]_(Thread!vars)
<1> USE DEF Goto
<1>0. TypeOK /\ EntryInv /\ \A e \in Entry : phase[e] = "free" => proc[e] = "none"
  BY DEF IInv, EntryInv
<1>1. ASSUME NEW u \in Turn, NEW k \in Key, NEW c, Ensure(u, k, c)
      PROVE  /\ \A e \in Entry : proc[e] # "none" => of'[e] = of[e]
             /\ \A t \in Turn \ {u} : on'[t] = on[t]
  <2>1. \A t \in Turn \ {u} : on'[t] = on[t]
    BY <1>0, <1>1 DEF Ensure, TypeOK
  <2>2. CASE KeepCreations
    BY <2>1, <2>2 DEF KeepCreations
  <2>3. ASSUME NEW e \in Entry, StartCreation(e, k, c) PROVE \A f \in Entry : proc[f] # "none" => of'[f] = of[f]
    BY <1>0, <2>3 DEF StartCreation, NextFree, TypeOK
  <2> QED BY <1>1, <2>1, <2>2, <2>3 DEF Ensure
<1>2. ASSUME NEW u \in Turn, Run(u) \/ Recreate(u) PROVE UNCHANGED Thread!vars
  <2>1. \E k \in Key : \E c \in Cwd \cup {None} : Ensure(u, k, c)
    <3>1. CASE Run(u)
      BY <3>1 DEF Run
    <3>2. CASE Recreate(u)
      <4>1. req[u].key \in Key /\ req[u].cwd \in Cwd \cup {None}
        BY <1>0 DEF TypeOK, Request
      <4> QED BY <3>2, <4>1 DEF Recreate
    <3> QED BY <1>2, <3>1, <3>2
  <2>2. pc[u] # "using" /\ pc' = [pc EXCEPT ![u] = "ensuring"] /\ UNCHANGED <<proc, shutdown>>
    BY <1>2 DEF Run, Recreate, serverVars
  <2> QED BY <1>0, <1>1, <2>1, <2>2, ThreadStutters DEF TypeOK, Open
<1>3. ASSUME NEW u \in Turn,
             \/ EnsureThrows(u) \/ Enter(u) \/ StopQueued(u) \/ Retire(u) \/ ThrowDisposed(u)
             \/ Leave(u) \/ Abort(u)
      PROVE  UNCHANGED Thread!vars
  <2>1. UNCHANGED <<of, on, proc, shutdown>> /\ \A t \in Turn : pc[t] = "using" \/ pc'[t] = "using" => pc'[t] = pc[t]
    BY <1>0, <1>3 DEF EnsureThrows, Enter, StopQueued, Retire, ThrowDisposed, Leave, Abort, Unlock, TypeOK,
                      entryVars, mapVars, serverVars
  <2> QED BY <1>0, <2>1, ThreadStutters DEF Open
<1>4. ASSUME NEW u \in Turn, BeginUse(u) \/ FinishUse(u) \/ Throw(u), ~Open \/ proc[on[u]] # "up"
      PROVE  UNCHANGED Thread!vars
  <2>1. /\ UNCHANGED <<of, on, proc, shutdown>> /\ \A t \in Turn \ {u} : pc'[t] = pc[t]
    BY <1>0, <1>4 DEF BeginUse, FinishUse, Throw, Unlock, TypeOK, entryVars, serverVars
  <2>2. \A k \in Key : UpOn(k)' = UpOn(k) /\ on[u] \notin UpOn(k)
    BY <1>4, <2>1 DEF UpOn, Open
  <2>3. \A k \in Key : UsersOf(k)' = UsersOf(k)
    BY <2>1, <2>2 DEF UsersOf
  <2> QED BY <2>1, <2>2, <2>3 DEF Thread!vars, Open
<1>5. ASSUME NEW u \in Turn, BeginUse(u) \/ FinishUse(u) \/ Throw(u) PROVE [Thread!Next]_(Thread!vars)
  <2>1. CASE ~Open \/ proc[on[u]] # "up"
    BY <1>4, <1>5, <2>1
  <2>2. CASE Open /\ proc[on[u]] = "up"
    <3>1. on[u] \in Entry /\ of[on[u]] \in Key
      BY <1>0, <1>5 DEF TypeOK, BeginUse, FinishUse, Throw
    <3>2. Thread!Begin(of[on[u]], u) \/ Thread!End(of[on[u]])
      BY <1>5, <2>2, UseBegins, UseEnds
    <3> QED BY <2>2, <3>1, <3>2 DEF Thread!Next
  <2> QED BY <2>1, <2>2
<1>6. ASSUME NEW e \in Entry, Spawn(e) \/ CreateFails(e) \/ AgentExits(e) PROVE [Thread!Next]_(Thread!vars)
  <2>1. CASE ~Open
    <3>1. ~Open' /\ UNCHANGED <<on, pc, shutdown>>
      BY <1>6, <2>1 DEF Spawn, CreateFails, AgentExits, Open, turnVars, serverVars
    <3>2. \A k \in Key : UpOn(k) = {} /\ UpOn(k)' = {}
      BY <2>1, <3>1 DEF UpOn
    <3>3. \A k \in Key : UsersOf(k) = {} /\ UsersOf(k)' = {}
      BY <3>2 DEF UsersOf
    <3> QED BY <2>1, <3>1, <3>2, <3>3 DEF Thread!vars
  <2>2. CASE Open
    <3>1. of[e] \in Key
      BY <1>0 DEF TypeOK
    <3>2. Thread!Start(of[e], e) \/ Thread!Exit(of[e])
      BY <1>6, <2>2, SpawnStarts, ExitStops
    <3> QED BY <2>2, <3>1, <3>2 DEF Thread!Next
  <2> QED BY <2>1, <2>2
<1>7. ASSUME NEW e \in Entry, Created(e) \/ IdleExpires(e) \/ PassLock(e) \/ DisposeCondemned(e)
      PROVE  UNCHANGED Thread!vars
  <2>1. UNCHANGED <<of, on, pc, proc, shutdown>>
    BY <1>7 DEF Created, IdleExpires, PassLock, DisposeCondemned, turnVars, serverVars
  <2> QED BY <1>0, <2>1, ThreadStutters DEF Open
<1>8. ASSUME NEW k \in Key, DisposeKey(k) PROVE UNCHANGED Thread!vars
  <2>1. UNCHANGED <<of, on, pc, proc, shutdown>>
    BY <1>8 DEF DisposeKey, turnVars, serverVars
  <2> QED BY <1>0, <2>1, ThreadStutters DEF Open
<1>9. CASE DisposeAll
  <2>1. Open /\ ~Open'
    BY <1>9 DEF DisposeAll, Open
  <2>2. \A k \in Key : UpOn(k)' = {}
    BY <2>1 DEF UpOn
  <2>3. \A k \in Key : UsersOf(k)' = {}
    BY <2>2 DEF UsersOf
  <2>4. AgentOn' = [k \in Key |-> None] /\ UserOn' = [k \in Key |-> None] /\ SpentNow' = {}
    BY <2>1, <2>2, <2>3, NoneIs DEF AgentOn, UserOn, SpentNow, Only
  <2>5. Thread!Close
    BY <2>1, <2>4 DEF Thread!Close, AgentOn, UserOn, SpentNow
  <2> QED BY <2>1, <2>5 DEF Thread!Next
<1>10. CASE ShutdownDone \/ UNCHANGED vars
  <2>1. UNCHANGED <<of, on, pc, proc>> /\ Open' = Open
    BY <1>10 DEF ShutdownDone, vars, turnVars, entryVars, serverVars, Open
  <2> QED BY <1>0, <2>1, ThreadStutters
<1> QED
  BY <1>2, <1>3, <1>5, <1>6, <1>7, <1>8, <1>9, <1>10 DEF Next, TurnStep, EntryStep

\* Which turns are counted on which key, and whose session each turn awaits.
CountsInv == OwnerInv /\ CountInv

LEMMA CountsInvariant == Spec => []CountsInv
<1>1. Init => CountsInv
  <2> SUFFICES ASSUME Init PROVE CountsInv
    OBVIOUS
  <2>1. OwnerInv
    BY DEF Init, OwnerInv
  <2>2. \A k \in Key : CountedOn(k) = {} /\ inflight[k] = 0
    BY DEF Init, CountedOn, Counted
  <2> QED BY <2>1, <2>2, FS_EmptySet DEF CountsInv, CountInv
<1>2. IInv /\ CountsInv /\ [Next]_vars => CountsInv'
  BY OwnerStep, CountStep DEF IInv, CountsInv
<1> QED BY <1>1, <1>2, Invariance, PTL DEF Spec

(* A turn that uses its agent loses it only through its own failure, an    *)
(* explicit dispose(key) or the shutdown: the idle timer, the cap and the  *)
(* re-creation by another turn never take a session somebody runs on.      *)
THEOREM AgentsKept == Spec => NeverKilledUnderATurn
<1>1. IInv /\ CountsInv /\ [Next]_vars =>
        [\A t \in Turn :
           (pc[t] = "using" /\ proc[on[t]] = "up" /\ ~disposed[on[t]] /\ disposed'[on[t]])
             => \/ pc'[t] = "disposing"
                \/ DisposeAll \/ \E k \in Key : DisposeKey(k)
                \/ \E e \in Entry : DisposeCondemned(e)]_vars
  BY KeepsAgent DEF CountsInv, MayDispose
<1> QED BY <1>1, Invariance, CountsInvariant, PTL DEF Spec, NeverKilledUnderATurn

(* The cache, with its reuse, crashes, disposals and re-creations, is an   *)
(* AgentThread: one process per thread, never restarted, one turn driving  *)
(* it, and a turn only on a process that runs.                             *)
THEOREM CacheImplementsThread == Spec => ImplementsAgentThread
<1>1. Init => Thread!Init
  <2> SUFFICES ASSUME Init PROVE Thread!Init
    OBVIOUS
  <2>1. \A k \in Key : UpOn(k) = {} /\ UsersOf(k) = {}
    BY DEF Init, UpOn, UsersOf
  <2>2. Open /\ SpentNow = {} /\ AgentOn = [k \in Key |-> None] /\ UserOn = [k \in Key |-> None]
    BY <2>1, NoneIs DEF Init, Open, SpentNow, AgentOn, UserOn
  <2> QED BY <2>2 DEF Thread!Init, SpentNow, AgentOn, UserOn
<1> QED BY <1>1, ThreadStep, Invariance, PTL DEF Spec, ImplementsAgentThread, Thread!Spec

-----------------------------------------------------------------------------
(* The cap: over it only while every session is busy *)

\* R orders the finite set S strictly and totally.
Ordered(R, S) ==
  /\ IsFiniteSet(S)
  /\ R \subseteq S \X S
  /\ \A i \in S : <<i, i>> \notin R
  /\ \A i, j \in S : i # j => <<i, j>> \in R \/ <<j, i>> \in R
  /\ \A i, j, k \in S : <<i, j>> \in R /\ <<j, k>> \in R => <<i, k>> \in R

\* How many members of I precede k.
RankIn(R, I, k) == Cardinality({j \in I : <<j, k>> \in R})

\* Ranks grow along the order, so no two members of I share one.
LEMMA RankGrows ==
  ASSUME NEW S, NEW R, Ordered(R, S), NEW I \in SUBSET S, NEW i \in I, NEW j \in I, <<i, j>> \in R
  PROVE  RankIn(R, I, i) < RankIn(R, I, j)
<1> DEFINE Below(k) == {h \in I : <<h, k>> \in R}
<1>1. IsFiniteSet(I)
  BY FS_Subset DEF Ordered
<1>2. Below(i) \in SUBSET Below(j) /\ i \in Below(j) /\ i \notin Below(i) /\ Below(j) \in SUBSET I
  BY DEF Ordered
<1> SUFFICES Cardinality(Below(i)) < Cardinality(Below(j))
  BY DEF RankIn
<1> HIDE DEF Below
<1>3. IsFiniteSet(Below(j))
  BY <1>1, <1>2, FS_Subset
<1>4. IsFiniteSet(Below(i)) /\ Cardinality(Below(i)) <= Cardinality(Below(j)) /\ Cardinality(Below(i)) # Cardinality(Below(j))
  BY <1>2, <1>3, FS_Subset
<1>5. Cardinality(Below(i)) \in Nat /\ Cardinality(Below(j)) \in Nat
  BY <1>3, <1>4, FS_CardinalityType
<1> QED BY <1>4, <1>5

LEMMA RankBound ==
  ASSUME NEW S, NEW R, Ordered(R, S), NEW I \in SUBSET S, NEW i \in I
  PROVE  RankIn(R, I, i) \in 0..(Cardinality(I) - 1)
<1> DEFINE below == {h \in I : <<h, i>> \in R}
<1>1. IsFiniteSet(I)
  BY FS_Subset DEF Ordered
<1>2. below \in SUBSET I /\ i \notin below
  BY DEF Ordered
<1> SUFFICES Cardinality(below) \in 0..(Cardinality(I) - 1)
  BY DEF RankIn
<1> HIDE DEF below
<1>3. IsFiniteSet(below) /\ Cardinality(below) <= Cardinality(I) /\ Cardinality(below) # Cardinality(I)
  BY <1>1, <1>2, FS_Subset
<1>4. Cardinality(below) \in Nat /\ Cardinality(I) \in Nat
  BY <1>1, <1>3, FS_CardinalityType
<1> QED BY <1>3, <1>4

\* The m lowest ranks are m members of I, or all of it.
LEMMA LowestRanks ==
  ASSUME NEW S, NEW R, Ordered(R, S), NEW I \in SUBSET S, NEW m \in Nat
  PROVE  LET low == {i \in I : RankIn(R, I, i) < m}
         IN  low = I \/ Cardinality(low) >= m
<1> DEFINE low == {i \in I : RankIn(R, I, i) < m}
           high == I \ low
           n == Cardinality(I)
           rank == [i \in high |-> RankIn(R, I, i)]
<1> SUFFICES ASSUME low # I PROVE Cardinality(low) >= m
  OBVIOUS
<1>1. IsFiniteSet(I) /\ n \in Nat
  BY FS_Subset, FS_CardinalityType DEF Ordered
<1>2. \A i \in I : RankIn(R, I, i) \in 0..(n - 1)
  BY RankBound
<1>3. n > m
  BY <1>1, <1>2
<1>4. high \in SUBSET I /\ rank \in [high -> m..(n - 1)]
  BY <1>1, <1>2
<1>5. \A x, y \in high : x # y => rank[x] # rank[y]
  <2> SUFFICES ASSUME NEW x \in high, NEW y \in high, x # y PROVE RankIn(R, I, x) # RankIn(R, I, y)
    OBVIOUS
  <2>1. x \in I /\ y \in I
    OBVIOUS
  <2>2. RankIn(R, I, x) \in Int /\ RankIn(R, I, y) \in Int
    BY <1>2, <2>1
  <2>3. CASE <<x, y>> \in R
    BY <2>1, <2>2, <2>3, RankGrows
  <2>4. CASE <<y, x>> \in R
    BY <2>1, <2>2, <2>4, RankGrows
  <2> QED BY <2>1, <2>3, <2>4 DEF Ordered
<1>6. low \in SUBSET I /\ high = I \ low /\ I \cap low = low
  OBVIOUS
<1> HIDE DEF low, high, n, rank
<1>7. IsFiniteSet(m..(n - 1)) /\ Cardinality(m..(n - 1)) = n - m
  BY <1>1, <1>3, FS_Interval
<1>8. IsFiniteSet(high) /\ Cardinality(high) \in Nat
  BY <1>1, <1>4, FS_Subset, FS_CardinalityType
<1>9. ~ (Cardinality(m..(n - 1)) < Cardinality(high))
  <2> SUFFICES ASSUME Cardinality(m..(n - 1)) < Cardinality(high) PROVE FALSE
    OBVIOUS
  <2> DEFINE places == m..(n - 1)
  <2>1. rank \in [high -> places] /\ IsFiniteSet(places) /\ Cardinality(places) < Cardinality(high)
    BY <1>4, <1>7
  <2> HIDE DEF places
  <2>2. \E x, y \in high : x # y /\ rank[x] = rank[y]
    BY <1>8, <2>1, FS_PigeonHole
  <2> QED BY <1>5, <2>2
<1>10. IsFiniteSet(low) /\ Cardinality(low) \in Nat
  BY <1>1, <1>6, FS_Subset, FS_CardinalityType
<1>11. Cardinality(high) = n - Cardinality(low)
  BY <1>1, <1>6, FS_Difference DEF n
<1> QED BY <1>1, <1>7, <1>8, <1>9, <1>10, <1>11

\* What enforceCap leaves is no more than the cap, or has a turn on every key.
LEMMA VictimsEnough ==
  ASSUME NEW lv \in [Key -> Entry \cup {None}], \A k \in Key : lv[k] # None => of[lv[k]] = k,
         NEW order, Ordered(order, LiveKeys(lv)), NEW busy
  PROVE  LET left == {k \in LiveKeys(lv) : lv[k] \notin Victims(lv, order, busy)}
         IN  Cardinality(left) <= MaxSessions \/ \A k \in left : busy[k] # 0
<1> DEFINE S == LiveKeys(lv)
           idle == {k \in S : busy[k] = 0}
           excess == Cardinality(S) - MaxSessions
           low == {k \in idle : RankIn(order, idle, k) < excess}
           left == {k \in S : lv[k] \notin Victims(lv, order, busy)}
<1> SUFFICES Cardinality(left) <= MaxSessions \/ \A k \in left : busy[k] # 0
  OBVIOUS
<1>1. Victims(lv, order, busy) = {lv[k] : k \in low}
  BY DEF Victims, RankIn
<1>2. \A k, j \in S : lv[k] = lv[j] => k = j
  BY DEF LiveKeys
<1>3. left = S \ low /\ low \in SUBSET S /\ S \cap low = low
  <2>1. low \in SUBSET S /\ S \cap low = low
    OBVIOUS
  <2>2. left = {k \in S : lv[k] \notin {lv[j] : j \in low}}
    BY <1>1
  <2> HIDE DEF low, S, left
  <2>3. \A k \in S : lv[k] \notin {lv[j] : j \in low} <=> k \notin low
    BY <1>2, <2>1
  <2> QED BY <2>1, <2>2, <2>3
<1>4. IsFiniteSet(S) /\ Cardinality(S) \in Nat /\ MaxSessions \in Nat
  BY FS_CardinalityType, MaxSessionsAssumption DEF Ordered
<1>5. IsFiniteSet(low) /\ Cardinality(low) \in Nat /\ Cardinality(left) = Cardinality(S) - Cardinality(low)
  <2> HIDE DEF S, low, left
  <2>1. IsFiniteSet(low) /\ Cardinality(low) \in Nat
    BY <1>3, <1>4, FS_Subset, FS_CardinalityType
  <2>2. Cardinality(S \ low) = Cardinality(S) - Cardinality(S \cap low)
    BY <1>4, FS_Difference
  <2> QED BY <1>3, <2>1, <2>2
<1>6. CASE excess <= 0
  BY <1>4, <1>5, <1>6
<1>7. CASE excess > 0
  <2>1. excess \in Nat /\ idle \in SUBSET S
    BY <1>4, <1>7
  <2>2. low = idle \/ Cardinality(low) >= excess
    <3> HIDE DEF S, idle, excess
    <3> QED BY <2>1, LowestRanks DEF S
  <2>3. CASE low = idle
    BY <1>3, <2>3
  <2>4. CASE Cardinality(low) >= excess
    <3> HIDE DEF low, left, S
    <3> QED BY <1>4, <1>5, <2>4
  <2> QED BY <2>2, <2>3, <2>4
<1>8. excess \in Int
  BY <1>4
<1> HIDE DEF excess, left
<1> QED BY <1>6, <1>7, <1>8

\* Disposing keeps the order, on the keys that stay.
LEMMA DisposeOrder ==
  ASSUME NEW D, NEW lv \in [Key -> Entry \cup {None}], NEW order, NEW armed,
         Ordered(order, LiveKeys(lv)), DisposeFrom(D, lv, order, armed)
  PROVE  /\ LiveKeys(live)' = {k \in LiveKeys(lv) : lv[k] \notin D}
         /\ Ordered(older, LiveKeys(live))'
<1> DEFINE S == LiveKeys(lv)
           T == {k \in S : lv[k] \notin D}
<1>1. LiveKeys(live)' = T
  BY DEF DisposeFrom, LiveKeys
<1>2. older' = {p \in order : lv[p[1]] \notin D /\ lv[p[2]] \notin D}
  BY DEF DisposeFrom
<1>3. IsFiniteSet(T)
  BY FS_Subset DEF Ordered
<1>4. older' \subseteq T \X T
  BY <1>2 DEF Ordered
<1>5. \A i, j \in T : <<i, j>> \in older' <=> <<i, j>> \in order
  BY <1>2
<1>6. Ordered(older', T)
  BY <1>3, <1>4, <1>5 DEF Ordered
<1> QED BY <1>1, <1>6 DEF Ordered

\* The most recently used key goes to the end of the order.
LEMMA NewestOrder ==
  ASSUME NEW k, Ordered(older, LiveKeys(live))
  PROVE  Ordered(ToNewest(k, live), LiveKeys(live) \cup {k})
<1> DEFINE S == LiveKeys(live)
           R == ToNewest(k, live)
           T == S \cup {k}
<1>1. IsFiniteSet(T)
  BY FS_AddElement DEF Ordered
<1>2. R = {p \in older : p[1] # k /\ p[2] # k} \cup ((S \ {k}) \X {k})
  BY DEF ToNewest
<1>3. R \subseteq T \X T
  BY <1>2 DEF Ordered
<1>4. \A i, j \in T : <<i, j>> \in R <=> (i # k /\ (j = k \/ <<i, j>> \in older))
  BY <1>2 DEF Ordered
<1> HIDE DEF R
<1>5. Ordered(R, T)
  BY <1>1, <1>3, <1>4 DEF Ordered
<1> QED BY <1>5 DEF R

CapInv == Ordered(older, LiveKeys(live)) /\ OverCapOnlyWhileBusy

\* A step that only disposes, while no key's last turn leaves.
LEMMA DisposeCap ==
  ASSUME TypeOK, CapInv, NEW D, Dispose(D), inflight' \in [Key -> Nat],
         \A k \in Key : inflight[k] > 0 => inflight'[k] > 0
  PROVE  CapInv'
<1>1. /\ LiveKeys(live)' = {k \in LiveKeys(live) : live[k] \notin D}
      /\ Ordered(older, LiveKeys(live))'
  BY DisposeOrder DEF TypeOK, CapInv, Dispose
<1>2. IsFiniteSet(LiveKeys(live)) /\ LiveKeys(live)' \in SUBSET LiveKeys(live)
  BY <1>1 DEF CapInv, Ordered
<1>3. Cardinality(LiveKeys(live)') <= Cardinality(LiveKeys(live)) /\ Cardinality(LiveKeys(live)) \in Nat
      /\ Cardinality(LiveKeys(live)') \in Nat
  BY <1>2, FS_Subset, FS_CardinalityType
<1>4. ASSUME Cardinality(LiveKeys(live)') > MaxSessions PROVE \A k \in LiveKeys(live)' : inflight'[k] > 0
  <2>1. Cardinality(LiveKeys(live)) > MaxSessions
    BY <1>3, <1>4, MaxSessionsAssumption
  <2> QED BY <1>2, <2>1 DEF CapInv, OverCapOnlyWhileBusy, LiveKeys
<1> QED BY <1>1, <1>4 DEF CapInv, OverCapOnlyWhileBusy

LEMMA KeepCap ==
  ASSUME TypeOK, CapInv, live' = live, older' = older,
         \A k \in Key : inflight[k] > 0 => inflight'[k] > 0
  PROVE  CapInv'
<1>1. LiveKeys(live)' = LiveKeys(live)
  BY DEF LiveKeys
<1>2. Ordered(older, LiveKeys(live))'
  BY <1>1 DEF CapInv, Ordered
<1>3. \A k \in LiveKeys(live) : k \in Key
  BY DEF LiveKeys
<1> QED BY <1>1, <1>2, <1>3 DEF CapInv, OverCapOnlyWhileBusy

\* A step that evicts leaves the cache within its cap, or busy on every key.
LEMMA EvictCap ==
  ASSUME NEW lv \in [Key -> Entry \cup {None}], \A k \in Key : lv[k] # None => of[lv[k]] = k,
         NEW order, NEW armed, Ordered(order, LiveKeys(lv)), NEW busy \in [Key -> Nat],
         DisposeFrom(Victims(lv, order, busy), lv, order, armed), inflight' = busy
  PROVE  CapInv'
<1> DEFINE left == {k \in LiveKeys(lv) : lv[k] \notin Victims(lv, order, busy)}
<1>1. LiveKeys(live)' = left /\ Ordered(older, LiveKeys(live))'
  BY DisposeOrder
<1>2. Cardinality(left) <= MaxSessions \/ \A k \in left : busy[k] # 0
  BY VictimsEnough
<1>3. IsFiniteSet(left) /\ left \subseteq Key
  BY <1>1 DEF Ordered, LiveKeys
<1> HIDE DEF left
<1>4. Cardinality(left) \in Nat
  BY <1>3, FS_CardinalityType
<1>5. \A k \in left : busy[k] # 0 => busy[k] > 0
  BY <1>3
<1> QED BY <1>1, <1>2, <1>4, <1>5, MaxSessionsAssumption DEF CapInv, OverCapOnlyWhileBusy

LEMMA EnsureCap ==
  ASSUME TypeOK, CapInv, NEW t \in Turn, NEW k, NEW c, Ensure(t, k, c),
         inflight' \in [Key -> Nat], \A j \in Key : inflight[j] > 0 => inflight'[j] > 0
  PROVE  CapInv'
<1>1. CASE KeepEntries
  BY <1>1, KeepCap DEF KeepEntries
<1>2. CASE Dispose(SelfClosed(k))
  BY <1>2, DisposeCap
<1> QED BY <1>1, <1>2 DEF Ensure

LEMMA CapStep == IInv /\ CapInv /\ [Next]_vars => CapInv'
<1> SUFFICES ASSUME IInv, CapInv, [Next]_vars PROVE CapInv'
  OBVIOUS
<1>0. /\ TypeOK /\ TypeOK' /\ inflight \in [Key -> Nat] /\ inflight' \in [Key -> Nat]
      /\ Ordered(older, LiveKeys(live)) /\ \A k \in Key : live[k] # None => of[live[k]] = k
  <2>1. TypeOK /\ TypeOK' /\ Ordered(older, LiveKeys(live)) /\ \A k \in Key : live[k] # None => of[live[k]] = k
    BY TypeStep DEF IInv, EntryInv, CapInv
  <2> QED BY <2>1 DEF TypeOK
<1>1. ASSUME NEW t \in Turn, Run(t) PROVE CapInv'
  <2>1. PICK r \in Asks[t] : inflight' = [inflight EXCEPT ![r.key] = @ + 1] /\ Ensure(t, r.key, r.cwd)
    BY <1>1 DEF Run
  <2>2. \A k \in Key : inflight[k] > 0 => inflight'[k] > 0
    BY <1>0, <2>1
  <2> QED BY <1>0, <2>1, <2>2, EnsureCap
<1>2. ASSUME NEW t \in Turn, Recreate(t) PROVE CapInv'
  <2>1. inflight' = inflight /\ Ensure(t, req[t].key, req[t].cwd)
    BY <1>2 DEF Recreate
  <2> QED BY <1>0, <2>1, EnsureCap
<1>3. ASSUME NEW t \in Turn, Enter(t) PROVE CapInv'
  <2> DEFINE k == of[on[t]]
  <2>1. /\ live' = live /\ inflight' = inflight /\ on[t] \in Entry
        /\ older' = IF live[k] = on[t] THEN ToNewest(k, live) ELSE older
    BY <1>0, <1>3 DEF Enter, TypeOK
  <2>2. CASE live[k] # on[t]
    BY <1>0, <2>1, <2>2, KeepCap
  <2>3. CASE live[k] = on[t]
    <3>1. LiveKeys(live) \cup {k} = LiveKeys(live)
      BY <1>0, <2>1, <2>3 DEF LiveKeys, TypeOK
    <3>2. Ordered(ToNewest(k, live), LiveKeys(live))
      BY <1>0, <3>1, NewestOrder
    <3>3. LiveKeys(live)' = LiveKeys(live)
      BY <2>1 DEF LiveKeys
    <3> QED BY <2>1, <2>3, <3>2, <3>3 DEF CapInv, OverCapOnlyWhileBusy
  <2> QED BY <2>2, <2>3
<1>4. ASSUME NEW t \in Turn, Leave(t) PROVE CapInv'
  <2> DEFINE k == req[t].key
             left == [inflight EXCEPT ![k] = IF @ > 1 THEN @ - 1 ELSE 0]
  <2>1. inflight' = left /\ Dispose(IF left[k] = 0 THEN Victims(live, older, left) ELSE {})
    BY <1>4 DEF Leave
  <2>2. CASE left[k] = 0
    <3>1. live \in [Key -> Entry \cup {None}] /\ left \in [Key -> Nat]
      BY <1>0, <2>1 DEF TypeOK
    <3>2. DisposeFrom(Victims(live, older, left), live, older, timer)
      BY <2>1, <2>2 DEF Dispose
    <3> HIDE DEF left
    <3> QED BY <1>0, <2>1, <3>1, <3>2, EvictCap
  <2>3. CASE left[k] # 0
    <3>1. \A j \in Key : inflight[j] > 0 => left[j] > 0
      <4>1. ASSUME NEW j \in Key, inflight[j] > 0 PROVE left[j] > 0
        <5>1. left[j] \in Nat /\ (j # k => left[j] = inflight[j])
          BY <1>0, <2>1
        <5> HIDE DEF left
        <5> QED BY <2>3, <4>1, <5>1
      <4> QED BY <4>1
    <3>2. Dispose({})
      BY <2>1, <2>3
    <3> HIDE DEF left
    <3> QED BY <1>0, <2>1, <3>1, <3>2, DisposeCap
  <2> QED BY <2>2, <2>3
<1>5. ASSUME NEW e \in Entry, Created(e) PROVE CapInv'
  <2> DEFINE k == of[e]
             lv == [live EXCEPT ![k] = e]
             order == IF live[k] = None THEN ToNewest(k, live) ELSE older
             armed == [timer EXCEPT ![e] = TRUE]
  <2>1. DisposeFrom(Victims(lv, order, inflight), lv, order, armed) /\ inflight' = inflight
    BY <1>5 DEF Created
  <2>2. k \in Key /\ lv \in [Key -> Entry \cup {None}] /\ \A j \in Key : lv[j] # None => of[lv[j]] = j
    BY <1>0 DEF TypeOK
  <2>3. LiveKeys(lv) = LiveKeys(live) \cup {k}
    BY <1>0, <2>2 DEF LiveKeys, TypeOK
  <2>4. Ordered(order, LiveKeys(lv))
    <3>1. CASE live[k] = None
      <4>1. order = ToNewest(k, live)
        BY <3>1
      <4>2. Ordered(ToNewest(k, live), LiveKeys(live) \cup {k})
        BY <1>0, NewestOrder
      <4> HIDE DEF lv, order
      <4> QED BY <2>3, <4>1, <4>2
    <3>2. CASE live[k] # None
      <4>1. LiveKeys(lv) = LiveKeys(live)
        BY <2>2, <2>3, <3>2 DEF LiveKeys
      <4>2. order = older
        BY <3>2
      <4> HIDE DEF lv, order
      <4> QED BY <1>0, <4>1, <4>2
    <3> QED BY <3>1, <3>2
  <2> HIDE DEF lv, order, armed
  <2> QED BY <1>0, <2>1, <2>2, <2>4, EvictCap
<1>6. ASSUME NEW D, Dispose(D), inflight' = inflight PROVE CapInv'
  BY <1>0, <1>6, DisposeCap
<1>7. ASSUME live' = live, older' = older, inflight' = inflight PROVE CapInv'
  BY <1>0, <1>7, KeepCap
<1>8. ASSUME NEW t \in Turn, Retire(t) \/ Throw(t) PROVE CapInv'
  BY <1>6, <1>7, <1>8 DEF Retire, Throw
<1>9. ASSUME NEW t \in Turn,
             EnsureThrows(t) \/ StopQueued(t) \/ BeginUse(t) \/ FinishUse(t) \/ ThrowDisposed(t) \/ Abort(t)
      PROVE  CapInv'
  BY <1>7, <1>9 DEF EnsureThrows, StopQueued, BeginUse, FinishUse, ThrowDisposed, Abort, mapVars
<1>10. ASSUME NEW e \in Entry, IdleExpires(e) \/ DisposeCondemned(e) PROVE CapInv'
  BY <1>6, <1>7, <1>10 DEF IdleExpires, DisposeCondemned, KeepEntries
<1>11. ASSUME NEW e \in Entry, Spawn(e) \/ CreateFails(e) \/ AgentExits(e) \/ PassLock(e) PROVE CapInv'
  BY <1>7, <1>11 DEF Spawn, CreateFails, AgentExits, PassLock, mapVars
<1>12. CASE DisposeAll \/ \E k \in Key : DisposeKey(k)
  BY <1>6, <1>12 DEF DisposeAll, DisposeKey
<1>13. CASE ShutdownDone \/ UNCHANGED vars
  BY <1>7, <1>13 DEF ShutdownDone, vars, mapVars
<1> QED
  BY <1>1, <1>2, <1>3, <1>4, <1>5, <1>8, <1>9, <1>10, <1>11, <1>12, <1>13 DEF Next, TurnStep, EntryStep

(* The cap: the map holds more sessions than it allows only while every    *)
(* one of them has a turn running or queued, so that eviction, which takes *)
(* the least recently used idle ones, is never late and never stops short. *)
THEOREM CapKept == Spec => []OverCapOnlyWhileBusy
<1>1. Init => CapInv
  <2> SUFFICES ASSUME Init PROVE CapInv
    OBVIOUS
  <2>1. LiveKeys(live) = {} /\ older = {}
    BY DEF Init, LiveKeys
  <2> QED BY <2>1, FS_EmptySet DEF CapInv, Ordered, OverCapOnlyWhileBusy
<1>2. CapInv => OverCapOnlyWhileBusy
  BY DEF CapInv
<1> QED BY <1>1, <1>2, CapStep, Invariance, PTL DEF Spec
=============================================================================
