----------------------------- MODULE MCServerFiles -----------------------------
(* Small instances for TLC of five parts of the servers that keep its files *)
(* and counts, each checked on its own: a behaviour is one of the part under *)
(* test.                                                                     *)
EXTENDS AsyncWriter, RunEvents, FileEdits, FreeTier, Gateway, TLC

VARIABLE under  \* the part under test

Contents == Batch \cup {Person}

\* Two files and two logs of the writer stand for any two.
Symmetry == Permutations(Path) \cup Permutations(Log)

Parts == {"writer", "events", "edits", "tier", "gateway"}

Init ==
  /\ under \in Parts
  /\ WriterInit
  /\ EventInit
  /\ EditInit /\ (under # "edits" => \A f \in File : tree[f] = Absent)
  /\ TierInit /\ (under # "tier" => durable)
  /\ GatewayInit

Next ==
  /\ UNCHANGED under
  /\ \/ under = "writer" /\ WriterNext /\ UNCHANGED <<eventVars, editVars, tierVars, gatewayVars>>
     \/ under = "events" /\ EventNext /\ UNCHANGED <<writerVars, editVars, tierVars, gatewayVars>>
     \/ under = "edits" /\ EditNext /\ UNCHANGED <<writerVars, eventVars, tierVars, gatewayVars>>
     \/ under = "tier" /\ TierNext /\ UNCHANGED <<writerVars, eventVars, editVars, gatewayVars>>
     \/ under = "gateway" /\ GatewayNext /\ UNCHANGED <<writerVars, eventVars, editVars, tierVars>>

Spec == Init /\ [][Next]_<<under, writerVars, eventVars, editVars, tierVars, gatewayVars>>

TypesOK == WriterTypeOK /\ EventTypeOK /\ EditTypeOK /\ TierTypeOK /\ GatewayTypeOK
=============================================================================
