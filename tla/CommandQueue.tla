---------------------------- MODULE CommandQueue ----------------------------
(***************************************************************************)
(* What QFtp promises of its commands: they are scheduled with increasing  *)
(* identifiers and executed one at a time in that order; the one in        *)
(* execution ends once, well or with an error; an error drops the commands *)
(* that were scheduled behind it, without a signal for them.               *)
(***************************************************************************)
EXTENDS Naturals, Sequences

VARIABLES
    queue,      \* identifiers of the scheduled commands, oldest first
    current,    \* the command in execution, 0 when there is none
    last        \* the identifier given last

Init ==
    /\ queue = <<1, 2>>
    /\ current = 0
    /\ last = 2

Schedule ==
    /\ last' = last + 1
    /\ queue' = Append(queue, last')
    /\ UNCHANGED current

Start ==
    /\ current = 0
    /\ queue # <<>>
    /\ current' = Head(queue)
    /\ UNCHANGED <<queue, last>>

\* The error of the command in execution reaches those behind it first.
Drop ==
    /\ current # 0
    /\ queue' = <<current>>
    /\ UNCHANGED <<current, last>>

Finish ==
    /\ current # 0
    /\ current = Head(queue)
    /\ queue' = Tail(queue)
    /\ current' = 0
    /\ UNCHANGED last

Next == Schedule \/ Start \/ Drop \/ Finish

Spec == Init /\ [][Next]_<<queue, current, last>>

=============================================================================
