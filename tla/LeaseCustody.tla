------------------------------ MODULE LeaseCustody ------------------------------
(* What the lease layer promises about each physical connection, whoever        *)
(* implements it: at any time exactly one party has it.  A session gets one by  *)
(* opening it or out of the pool; a pool gets one only from the session that    *)
(* had it; once a connection is given to the host to be closed it never comes   *)
(* back to anyone, and its place is free again only when it is really gone.     *)
(* INV-02, INV-06, INV-08 and INV-09 of connection-management.md, section 3.    *)

CONSTANTS Resource, Session

VARIABLE owner   \* "free", "pool", "host" (to be closed) or the session that has it

Init == owner = [r \in Resource |-> "free"]

Pass(r, from, to) == owner[r] = from /\ owner' = [owner EXCEPT ![r] = to]

Open(s, r)      == Pass(r, "free", s)
Refuse(r)       == Pass(r, "free", "host")
Park(s, r)      == Pass(r, s, "pool")
Claim(s, r)     == Pass(r, "pool", s)
Surrender(s, r) == Pass(r, s, "host")
Settle(r)       == Pass(r, "host", "free")

\* Idle connections are retired together.
Retire(batch) ==
    /\ \A r \in batch : owner[r] = "pool"
    /\ owner' = [r \in Resource |-> IF r \in batch THEN "host" ELSE owner[r]]

Next ==
    \/ \E r \in Resource : Refuse(r) \/ Settle(r)
    \/ \E s \in Session, r \in Resource :
          Open(s, r) \/ Park(s, r) \/ Claim(s, r) \/ Surrender(s, r)
    \/ \E batch \in SUBSET Resource : Retire(batch)

Spec == Init /\ [][Next]_owner
=================================================================================
