------------------------ MODULE ChangeRequestLifecycle ------------------------
(***************************************************************************)
(* What a change request promises (app/db/models.py, class ChangeRequest): *)
(* pending, then approved by one user, then applied, once and for good.    *)
(* rejected is a status the column allows and no code writes.              *)
(***************************************************************************)
EXTENDS Naturals

CONSTANTS CRs, Users, None

VARIABLES status,    \* the status column, "absent" before the row exists
          approver,  \* approved_by
          applied    \* how many times the change request has been applied

vars == << status, approver, applied >>

Init ==
  /\ status = [c \in CRs |-> "absent"]
  /\ approver = [c \in CRs |-> None]
  /\ applied = [c \in CRs |-> 0]

Advance(c, from, to) ==
  /\ status[c] = from
  /\ status' = [status EXCEPT ![c] = to]

Create(c) == Advance(c, "absent", "pending") /\ UNCHANGED << approver, applied >>

Approve(c, u) ==
  /\ Advance(c, "pending", "approved")
  /\ approver' = [approver EXCEPT ![c] = u]
  /\ UNCHANGED applied

Apply(c) ==
  /\ Advance(c, "approved", "applied")
  /\ applied' = [applied EXCEPT ![c] = @ + 1]
  /\ UNCHANGED approver

Next == \E c \in CRs : Create(c) \/ (\E u \in Users : Approve(c, u)) \/ Apply(c)

Spec == Init /\ [][Next]_vars
===============================================================================
