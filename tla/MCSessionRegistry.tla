--------------------------- MODULE MCSessionRegistry ---------------------------
(* Two sessions, so that one can replace the other.                             *)
EXTENDS SessionRegistry, TLC

CONSTANTS c1, c2, c3

Roles == (c1 :> {"Register", "Execute"})
      @@ (c2 :> {"ExecuteBound", "Cancel", "Close", "InvalidateWorker", "Evict", "Confirm", "View", "SetIdleDeadline"})
      @@ (c3 :> {"Replace"})
================================================================================
