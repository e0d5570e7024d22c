--------------------------- MODULE ReportChannel ---------------------------
(***************************************************************************)
(* What the reporting path promises about one kind of report: every car    *)
(* that passes is accepted, unless at least Cap reports wait; accepted     *)
(* reports are handed over in the order the cars passed, each once.  A     *)
(* frame that is sent a second time is no step of the channel.             *)
(***************************************************************************)
EXTENDS Naturals, Sequences

CONSTANT Cap

VARIABLES n,     \* cars that have passed
          due,   \* accepted and not handed over, the oldest first
          done   \* handed over

vars == <<n, due, done>>

Init == n = 0 /\ due = << >> /\ done = {}

(* One report may wait outside the queue, in the buffer it is sent from. *)
Pass == /\ n' = n + 1
        /\ \/ Len(due) <= Cap /\ due' = Append(due, n + 1)
           \/ Len(due) >= Cap /\ UNCHANGED due
        /\ UNCHANGED done

HandOver == /\ due # << >>
            /\ due' = Tail(due) /\ done' = done \cup {Head(due)}
            /\ UNCHANGED n

Next == Pass \/ HandOver
Spec == Init /\ [][Next]_vars
=============================================================================
