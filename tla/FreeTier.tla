------------------------------ MODULE FreeTier ------------------------------
(***************************************************************************)
(* The daily cap on one person's calls to the free model                   *)
(* (server/freeTierLimit.ts), taken and given back around each call        *)
(* (server/repoServer.ts, generateFilesMetered and its twin).              *)
(*                                                                         *)
(* With a database every server process counts in one row per day, and     *)
(* each statement on it is atomic and may fail, before or after it has     *)
(* taken effect.  Without one each process counts for itself, in memory.   *)
(* A Server is one life of a process: a restarted one is another Server.   *)
(* Rows a week old are pruned; no call lasts that long, so this is left    *)
(* out.  What happens between the charge and the answer (the monthly       *)
(* meter, the network, the person's Stop) is an answer or a failure.       *)
(***************************************************************************)
EXTENDS Naturals, FiniteSets

CONSTANTS
  Call,       \* calls of one person to the free model
  Server,     \* server processes
  Database,   \* the table they share
  NoServer,   \* the server of a call not made yet
  NoRow,      \* no count to give back to
  Limit,      \* calls a day
  MaxDay, MaxUnheard  \* bounds of the model: midnights, failed statements

ASSUME FreeTierAssumption ==
  /\ IsFiniteSet(Call)
  /\ Limit \in Nat /\ MaxDay \in Nat /\ MaxUnheard \in Nat
  /\ Database \notin Server

VARIABLES
  durable,  \* a database is configured
  up,       \* the processes that run
  day,      \* the UTC day
  call,     \* where each call stands
  used      \* calls counted in each row

VARIABLES
  late,    \* history: refunds a row gave for a charge of another day
  leaked,  \* history: charges of a row whose calls were not answered, kept
  unheard   \* failed statements so far

tierVars == <<durable, up, day, call, used, late, leaked, unheard>>

\* Whose count, and of which day.
Row == (Server \cup {Database}) \X (0..MaxDay)

Unmade == [pc |-> "idle", on |-> NoServer, row |-> NoRow, back |-> NoRow]

TierInit ==
  /\ durable \in BOOLEAN
  /\ up = Server
  /\ day = 0
  /\ call = [c \in Call |-> Unmade]
  /\ used = [r \in Row |-> 0]
  /\ late = [r \in Row |-> 0]
  /\ leaked = [r \in Row |-> 0]
  /\ unheard = 0

-----------------------------------------------------------------------------
(* Counting *)

Today(s) == <<IF durable THEN Database ELSE s, day>>

At(c, where) == call[c].pc = where
Goes(c, where) == call' = [call EXCEPT ![c].pc = where]

Raise(r) == used' = [used EXCEPT ![r] = @ + 1]

\* Never below zero.
Lower(r) == used' = [used EXCEPT ![r] = IF @ = 0 THEN 0 ELSE @ - 1]

Keeps(r) == leaked' = [leaked EXCEPT ![r] = @ + 1]

Unheard == unheard < MaxUnheard /\ unheard' = unheard + 1

\* A refund goes to the row of the day it is made on, whatever row was charged.
GivesBack(c, r) ==
  /\ Lower(r)
  /\ IF r = call[c].row
     THEN UNCHANGED <<late, leaked>>
     ELSE /\ Keeps(call[c].row)
          /\ late' = IF used[r] = 0 THEN late ELSE [late EXCEPT ![r] = @ + 1]

-----------------------------------------------------------------------------
(* A call with the database *)

Consume(c, s) ==
  /\ durable /\ At(c, "idle") /\ s \in up
  /\ call' = [call EXCEPT ![c] = [pc |-> IF Limit = 0 THEN "denied" ELSE "charging",
                                  on |-> s, row |-> Today(s), back |-> NoRow]]
  /\ UNCHANGED <<durable, up, day, used, late, leaked, unheard>>

\* Broken variant: the count is compared as it was before the charge.
ChargeUncounted(c) ==
  /\ At(c, "charging")
  /\ Raise(call[c].row)
  /\ Goes(c, IF used[call[c].row] > Limit THEN "over" ELSE "asking")
  /\ UNCHANGED <<durable, up, day, late, leaked, unheard>>

Charge(c) ==
  /\ At(c, "charging")
  /\ Raise(call[c].row)
  /\ Goes(c, IF used[call[c].row] + 1 > Limit THEN "over" ELSE "asking")
  /\ UNCHANGED <<durable, up, day, late, leaked, unheard>>

\* No answer from the counter: no free call, although it may have counted one.
ChargeFails(c) ==
  /\ At(c, "charging") /\ Unheard /\ Goes(c, "denied")
  /\ \/ UNCHANGED <<used, leaked>>
     \/ Raise(call[c].row) /\ Keeps(call[c].row)
  /\ UNCHANGED <<durable, up, day, late>>

\* Broken variant: what a refused call was charged is kept.
GiveBackNothing(c) ==
  /\ At(c, "over") /\ Goes(c, "denied")
  /\ UNCHANGED <<durable, up, day, used, late, leaked, unheard>>

GiveBack(c) ==
  /\ At(c, "over") /\ Goes(c, "denied")
  /\ Lower(call[c].row)
  /\ UNCHANGED <<durable, up, day, late, leaked, unheard>>

GiveBackFails(c) ==
  /\ At(c, "over") /\ Unheard /\ Goes(c, "denied")
  /\ Keeps(call[c].row)
  /\ UNCHANGED <<durable, up, day, used, late>>

Answers(c) ==
  /\ At(c, "asking") /\ Goes(c, "answered")
  /\ UNCHANGED <<durable, up, day, used, late, leaked, unheard>>

\* Stopped, refused by the meter, or failed: the day is read again.
Fails(c) ==
  /\ durable /\ At(c, "asking")
  /\ call' = [call EXCEPT ![c].pc = "refunding", ![c].back = Today(call[c].on)]
  /\ UNCHANGED <<durable, up, day, used, late, leaked, unheard>>

Refund(c) ==
  /\ At(c, "refunding") /\ Goes(c, "failed")
  /\ GivesBack(c, call[c].back)
  /\ UNCHANGED <<durable, up, day, unheard>>

RefundFails(c) ==
  /\ At(c, "refunding") /\ Unheard /\ Goes(c, "failed")
  /\ Keeps(call[c].row)
  /\ UNCHANGED <<durable, up, day, used, late>>

-----------------------------------------------------------------------------
(* A call without it: one stretch of code *)

ConsumeInMemory(c, s) ==
  /\ ~durable /\ At(c, "idle") /\ s \in up
  /\ LET room == used[Today(s)] < Limit
     IN /\ call' = [call EXCEPT ![c] = [pc |-> IF room THEN "asking" ELSE "denied",
                                        on |-> s, row |-> Today(s), back |-> NoRow]]
        /\ IF room THEN Raise(Today(s)) ELSE UNCHANGED used
  /\ UNCHANGED <<durable, up, day, late, leaked, unheard>>

FailsInMemory(c) ==
  /\ ~durable /\ At(c, "asking") /\ Goes(c, "failed")
  /\ GivesBack(c, Today(call[c].on))
  /\ UNCHANGED <<durable, up, day, unheard>>

-----------------------------------------------------------------------------
(* Time and crashes *)

Midnight ==
  /\ day < MaxDay /\ day' = day + 1
  /\ UNCHANGED <<durable, up, call, used, late, leaked, unheard>>

Charged == {"over", "asking", "refunding"}

\* Nobody gives back what the calls of a dead process were charged.
ProcessEnds(s) ==
  /\ s \in up /\ up' = up \ {s}
  /\ call' = [c \in Call |->
                IF call[c].on = s /\ call[c].pc \in Charged \cup {"charging"}
                THEN [call[c] EXCEPT !.pc = "cut"] ELSE call[c]]
  /\ leaked' = [r \in Row |->
                  leaked[r] + Cardinality({c \in Call : call[c].on = s /\ call[c].row = r
                                                          /\ call[c].pc \in Charged})]
  /\ UNCHANGED <<durable, day, used, late, unheard>>

TierNext ==
  \/ \E c \in Call :
       \/ \E s \in Server : Consume(c, s) \/ ConsumeInMemory(c, s)
       \/ Charge(c) \/ ChargeFails(c) \/ GiveBack(c) \/ GiveBackFails(c)
       \/ Answers(c) \/ Fails(c) \/ FailsInMemory(c) \/ Refund(c) \/ RefundFails(c)
  \/ Midnight
  \/ \E s \in Server : ProcessEnds(s)

TierSpec == TierInit /\ [][TierNext]_tierVars

-----------------------------------------------------------------------------
(* Correctness *)

CallState ==
  [pc : {"idle", "charging", "over", "asking", "refunding", "answered", "failed", "denied", "cut"},
   on : Server \cup {NoServer}, row : Row \cup {NoRow}, back : Row \cup {NoRow}]

\* The types of the variables.
TierTypeOK ==
  /\ durable \in BOOLEAN /\ up \subseteq Server /\ day \in 0..MaxDay
  /\ call \in [Call -> CallState]
  /\ used \in [Row -> Nat] /\ late \in [Row -> Nat] /\ leaked \in [Row -> Nat]
  /\ unheard \in 0..MaxUnheard

Served(r) == {c \in Call : call[c].row = r /\ call[c].pc \in {"asking", "answered"}}
Holding(r) == {c \in Call : call[c].row = r /\ call[c].pc \in Charged \cup {"answered"}}

\* However the statements of all the processes interleave, fail or are cut off, a
\* row lets no more calls through than the limit (freeTierLimit.ts, lines 22 to
\* 29), and one more for each refund it gave for a charge of the day before.
ServedWithinCap == \A r \in Row : Cardinality(Served(r)) <= Limit + late[r]

\* A call that was not answered costs nothing (lines 102 to 108): the count of a
\* row is of calls answered or under way, and of those whose refund was lost,
\* died with its process or went to the next day's row.
QuotaOnlyForAnswers == \A r \in Row : used[r] <= Cardinality(Holding(r)) + leaked[r]
=============================================================================
