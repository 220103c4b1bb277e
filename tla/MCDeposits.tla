----------------------------- MODULE MCDeposits -----------------------------
(***************************************************************************)
(* Instances of Deposits for TLC.                                          *)
(***************************************************************************)
EXTENDS Deposits

CONSTANTS e1, e2, n1, l1, l2

MCHistories == {[made |-> {e1}, blocks |-> 3]} \union
               [made : {{e1}, {e2}, {e1, n1}, {n1, l1, l2}}, blocks : {2}]

\* With a grain of 2: e1 and l1 lose a unit when the backend credits them, n1
\* and l2 are below the last decimal.
MCAmount == [t \in Transfers |-> CASE t \in {e1, l1} -> 3 [] t = e2 -> 2 [] OTHER -> 1]

Made(S) == \A t \in Mined : where[t] # -1 <=> t \in S
ScannerIdle(s) == target[s] = 0 /\ scanning[s] = 0
TickIdle(k) == listed[k] = {} /\ at[k] = NoTransfer

\* The indexer scans only when there is an EVM transfer to find.
ScansForEvm == (\A t \in Evm : where[t] = -1) => \A s \in Scanners : ScannerIdle(s)

\* Two scanners overlap on the longer chain, where the tracker rests and nothing
\* is reorganised or restarted.
ScansOverlap ==
  IF blocks = 3 THEN reorgs + restarts = 0 /\ \A k \in Ticks : TickIdle(k)
                ELSE ScannerIdle("s2")

\* Two ticks overlap over one deposit.
TicksOverlap == ~TickIdle("k2") => Made({e1})

\* Beside a Bitcoin row there is no reorganisation and no restart.
PageIsShared == Made({e1, n1}) => reorgs + restarts = 0

=============================================================================
