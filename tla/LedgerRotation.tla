----------------------------- MODULE LedgerRotation -----------------------------
(* The budget ledger with the history of its rotations: how many shared slots in *)
(* a row have passed over a class with somebody waiting.  Every step writes the  *)
(* history and none reads it, so the ledger does what it does without it.        *)
EXTENDS BudgetLedger

VARIABLE passed     \* passed[s][c]: shared grants of service s since c last had its turn

rotationVars == <<ledgerVars, passed>>

NothingPassed == [c \in SharedMembers |-> 0]

RotationInit == LedgerInit /\ passed = [s \in Service |-> NothingPassed]

\* A shared slot of service s goes to the class its rotation has chosen.
PassesOver(s) ==
    LET others == Active(s) \ {Chosen(credit[s], Active(s))}
    IN passed' = [passed EXCEPT ![s] = [c \in SharedMembers |->
                                          IF c \in others THEN passed[s][c] + 1 ELSE 0]]

\* What every step does to the history.
Remembers ==
    \/ \E s \in Service : PumpShared(s) /\ PassesOver(s)
    \/ (\A s \in Service : ~PumpShared(s)) /\ UNCHANGED passed

RotationNext == LedgerNext /\ Remembers

RotationSpec == RotationInit /\ [][RotationNext]_rotationVars

--------------------------------------------------------------------------------
\* The rotation of one service is SharedRoundRobin.
Rotation(s) == INSTANCE SharedRoundRobin WITH balance <- credit[s], skipped <- passed[s]
=================================================================================
