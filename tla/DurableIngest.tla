---------------------------- MODULE DurableIngest ----------------------------
(***************************************************************************)
(* What an ingester that resumes after a crash promises, whatever it reads *)
(* from: a message, once handled, stays handled, and the durable mark a    *)
(* later run resumes after is only ever moved to a message that has been   *)
(* handled.  Marks are positions in a stream; 0 is "nothing yet".          *)
(*                                                                         *)
(* It does not promise that what lies below the mark has been handled.     *)
(***************************************************************************)
EXTENDS Naturals

CONSTANT Streams

VARIABLES
    handled,    \* handled[s]: the positions that need no further work
    mark        \* mark[s]: the position a new run resumes after

Init ==
    /\ handled \in [Streams -> SUBSET Nat]
    /\ mark = [s \in Streams |-> 0]

Handle ==
    /\ handled' \in [Streams -> SUBSET Nat]
    /\ \A s \in Streams : handled[s] \subseteq handled'[s]
    /\ UNCHANGED mark

Advance(s) ==
    /\ \E m \in handled[s] : mark' = [mark EXCEPT ![s] = m]
    /\ UNCHANGED handled

Next == Handle \/ \E s \in Streams : Advance(s)

Spec == Init /\ [][Next]_<<handled, mark>>
=============================================================================
