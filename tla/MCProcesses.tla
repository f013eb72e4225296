---------------------------- MODULE MCProcesses -----------------------------
(***************************************************************************)
(* Small instances of the process library for TLC.                         *)
(***************************************************************************)
EXTENDS ProcessesProps

\* How many commands each scene needs for its cases to happen.
Commands == [links |-> 2, monitors |-> 3, mail |-> 4, names |-> 4, call |-> 4, supervisor |-> 1]

\* A preemption moves a process to a later round.  The supervisor's scene orders
\* its processes without one: its children choose in which round they exit.
Fuel == [links |-> 1, monitors |-> 1, mail |-> 1, names |-> 1, call |-> 1, supervisor |-> 0]
=============================================================================
