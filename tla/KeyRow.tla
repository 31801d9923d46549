-------------------------------- MODULE KeyRow --------------------------------
(***************************************************************************)
(* What Governance takes a row of idempotency_keys for: it is inserted     *)
(* once, some day it is no longer found by the look-up, and only then is   *)
(* it deleted (Commit, Expire and Cleanup of Governance).  If early is     *)
(* TRUE a row that the look-up still finds may be deleted too, which       *)
(* Governance does not allow.                                              *)
(***************************************************************************)
VARIABLES key,     \* the row of one key: none, live or expired
          early    \* the database session is ahead of UTC; it never changes

Init ==
  /\ key = "none"
  /\ early \in BOOLEAN

(* A transaction may take so long that its row has expired when it comes.  *)
Insert ==
  /\ key = "none"
  /\ key' \in {"live", "expired"}

Expire ==
  /\ key = "live"
  /\ key' = "expired"

Delete ==
  /\ key = "expired" \/ (early /\ key = "live")
  /\ key' = "none"

Next == (Insert \/ Expire \/ Delete) /\ UNCHANGED early

Spec == Init /\ [][Next]_<< key, early >>
===============================================================================
