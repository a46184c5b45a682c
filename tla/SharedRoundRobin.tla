---------------------------- MODULE SharedRoundRobin ----------------------------
(* The shared rotation on its own, for whatever classes have somebody waiting   *)
(* at each pick: requests arrive, time out and are cancelled as they like.      *)
EXTENDS RoundRobin

VARIABLES
    balance,    \* SharedRoundRobin::credit
    skipped     \* how many picks in a row a class with somebody waiting has lost

sharedVars == <<balance, skipped>>

SharedInit ==
    /\ balance = NoCredit
    /\ skipped = [c \in SharedMembers |-> 0]

Pick(active) ==
    /\ balance' = AfterPick(balance, active)
    /\ skipped' = [c \in SharedMembers |->
                      IF c \in active \ {Chosen(balance, active)} THEN skipped[c] + 1 ELSE 0]

SharedNext == \E active \in (SUBSET SharedMembers) \ {{}} : Pick(active)

SharedSpec == SharedInit /\ [][SharedNext]_sharedVars

--------------------------------------------------------------------------------
\* A class somebody waits in is chosen at the latest by the third (interactive),
\* fifth (metadata) or ninth (job) pick, however the other queues fill and empty;
\* the credit that decides it never runs away.
NoStarvation ==
    /\ balance \in [SharedMembers -> -5..4]
    /\ skipped["Interactive"] <= 2
    /\ skipped["Metadata"] <= 4
    /\ skipped["Job"] <= 8

================================================================================
