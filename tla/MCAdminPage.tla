---------------------------- MODULE MCAdminPage ----------------------------
(* Instances of AdminPage for TLC. *)
EXTENDS AdminPage

CONSTANTS e1, e2

\* Two of four logs share a millisecond.
FourLogs ==
  << [event |-> e1, time |-> 1], [event |-> e2, time |-> 2],
     [event |-> e2, time |-> 3], [event |-> e1, time |-> 3] >>

=============================================================================
