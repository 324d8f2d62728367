---------------------------- MODULE MCAgentParts ----------------------------
(* Small instances for TLC of the scan worker pool, of the turns of one chat *)
(* and of their rewind, each checked on its own: a behaviour is one of the   *)
(* part under test.                                                          *)
EXTENDS ScanPool, AgentTurn, TurnSnapshots

VARIABLE under  \* the part under test

Init ==
  /\ under \in {"scans", "turns", "rewinds"}
  /\ ScanInit /\ TurnInit
  /\ SnapshotInit /\ (under # "rewinds" => disk = [f \in Path |-> 0])

Next ==
  /\ UNCHANGED under
  /\ \/ under = "scans" /\ ScanNext /\ UNCHANGED <<turnVars, snapshotVars>>
     \/ under = "turns" /\ TurnNext /\ UNCHANGED <<scanVars, snapshotVars>>
     \/ under = "rewinds" /\ SnapshotNext /\ UNCHANGED <<scanVars, turnVars>>

Spec == Init /\ [][Next]_<<under, scanVars, turnVars, snapshotVars>>

TypesOK == ScanTypeOK /\ TurnTypeOK /\ SnapshotTypeOK
=============================================================================
