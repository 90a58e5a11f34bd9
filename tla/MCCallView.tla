------------------------------ MODULE MCCallView ------------------------------
(* Instances of CallView for TLC: a viewer and another tab, two calls that  *)
(* stream and two in the store, one of them both.                           *)
EXTENDS CallView

CONSTANTS t1, t2, t3

MCTabs == {t1, t2, t3}
MCFeed ==
  << <<Event("A", "segment")>>,
     <<Event("A", "signal"), Event("A", "signal")>>,
     <<Event("B", "segment")>> >>
Course(open, messages, breaks, failures, restarts, leaves, choices) ==
  [open |-> open, left |-> [messages |-> messages, breaks |-> breaks, failures |-> failures,
                            restarts |-> restarts, leaves |-> leaves, choices |-> choices]]
MCCourses ==
  { Course({t1}, 2, 0, 0, 0, 0, 1), Course({t2}, 2, 2, 0, 0, 0, 0), Course({t2}, 2, 0, 1, 1, 0, 0),
    Course({t2, t3}, 1, 0, 0, 0, 1, 0) }
MCCompleted == <<"A", "C">>
=============================================================================
