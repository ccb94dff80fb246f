---------------------------- MODULE MCEnrollment ----------------------------
(* A small instance of Enrollment for TLC. *)
EXTENDS Enrollment

CONSTANTS c1, c2, e1

TwoCodes == {c1, c2}

\* Both codes were issued to the same address.
SameEmail == [c \in Code |-> e1]
=============================================================================
