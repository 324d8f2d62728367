---------------------------- MODULE MCProgramRun ----------------------------
(* Small programs for TLC.  Nodes are numbered from the start node; in the *)
(* tuples of seq edges, 0 is no node.                                      *)
EXTENDS ProgramRun, TLC

NodeAt(s, n) == IF n <= Len(s) /\ s[n] # 0 THEN s[n] ELSE None

Prog(kinds, seq, alt, fan) ==
  [kind |-> [n \in Node |-> IF n <= Len(kinds) THEN kinds[n] ELSE "unused"],
   next |-> [n \in Node |-> [e \in EdgeKind |->
              IF e = "seq" THEN NodeAt(seq, n)
              ELSE IF <<n, e>> \in DOMAIN alt THEN alt[<<n, e>>] ELSE None]],
   fan |-> [n \in Node |-> IF n \in DOMAIN kinds /\ kinds[n] = "parallel" THEN fan ELSE {}],
   max |-> [n \in Node |-> 2]]

\* Two branches and a join.
ForkJoin == Prog(<<"start", "parallel", "agent", "agent", "agent", "end">>, <<2, 5, 5, 5, 6>>, <<>>, {3, 4})

\* Two branches that reconverge, without a join.
Diamond == Prog(<<"start", "parallel", "agent", "agent", "agent", "end">>, <<2, 0, 5, 5, 6>>, <<>>, {3, 4})

\* A loop over two agents.
Loops == Prog(<<"start", "loop", "agent", "end", "agent">>, <<2, 4, 5>>, (<<2, "body">> :> 3), {})

\* A gate behind a checker.
Gate == Prog(<<"start", "checker", "branch", "agent", "end", "state">>, <<2, 3, 0, 5, 0, 5>>,
             (<<3, "true">> :> 4) @@ (<<3, "false">> :> 6), {})

\* A loop in one branch, before the join.
LoopInBranch == Prog(<<"start", "parallel", "loop", "agent", "agent", "agent", "end">>,
                     <<2, 6, 6, 6, 0, 7>>, (<<3, "body">> :> 5), {3, 4})

\* A loop in one branch; the branches reconverge without a join.
LoopDiamond == Prog(<<"start", "parallel", "loop", "agent", "agent", "agent", "end">>,
                    <<2, 0, 6, 6, 0, 7>>, (<<3, "body">> :> 5), {3, 4})

\* A gate whose false edge retries the agent before it.
RetryArc == Prog(<<"start", "agent", "branch", "end">>, <<2, 3>>,
                 (<<3, "true">> :> 4) @@ (<<3, "false">> :> 2), {})

\* A loop around two branches and their join.
ParallelInLoop == Prog(<<"start", "loop", "parallel", "agent", "agent", "state", "end">>,
                       <<2, 7, 6, 6, 6, 2>>, (<<2, "body">> :> 3), {4, 5})

MCPrograms == {ForkJoin, Diamond, Loops, Gate, LoopInBranch, ParallelInLoop}
MCLoopDiamond == {LoopDiamond}
MCRetryArc == {RetryArc}
=============================================================================
