---------------------------- MODULE DeferredFile ----------------------------
(***************************************************************************)
(* What the deferred writer promises of the files of one process           *)
(* (packages/analyzer/src/server/asyncWriter.ts, its header): the process  *)
(* reads its newest text whether or not the disk has it yet.  A text only  *)
(* grows, in order, until its file is deleted; only a failed write, a      *)
(* crash or an unreadable file takes a change back, and never one that     *)
(* was written synchronously.                                              *)
(***************************************************************************)
EXTENDS Naturals, Sequences

CONSTANTS Path, Gone

VARIABLES
  text,   \* what this process reads of each file: its changes in order, or Gone
  safe,   \* the changes of each file that were written synchronously
  losses  \* failures so far

vars == <<text, safe, losses>>

Changes(t) == IF t = Gone THEN {} ELSE {t[i] : i \in DOMAIN t}

Place(t, c) == CHOOSE i \in DOMAIN t : t[i] = c

\* Every change of t is in u, and in the same order.
Grows(t, u) ==
  /\ Changes(t) \subseteq Changes(u)
  /\ \A c, d \in Changes(t) : Place(t, c) < Place(t, d) => Place(u, c) < Place(u, d)

Init ==
  /\ text \in [Path -> {Gone, << >>}]
  /\ safe = [p \in Path |-> {}]
  /\ losses = 0

Others(p) == \A q \in Path \ {p} : text'[q] = text[q] /\ safe'[q] = safe[q]

Write(p) ==
  /\ Others(p)
  /\ text'[p] # Gone /\ Grows(text[p], text'[p])
  /\ safe[p] \subseteq safe'[p]
  /\ UNCHANGED losses

\* What was queued for the file may bring it back.
Delete(p) ==
  /\ Others(p)
  /\ text'[p] \in {Gone, text[p]} /\ safe'[p] = {}
  /\ UNCHANGED losses

Lose ==
  /\ \A p \in Path : safe[p] \subseteq safe'[p] /\ safe'[p] \subseteq Changes(text'[p])
  /\ losses' = losses + 1

Next == Lose \/ \E p \in Path : Write(p) \/ Delete(p)

Spec == Init /\ [][Next]_vars
=============================================================================
