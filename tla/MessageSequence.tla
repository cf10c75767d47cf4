--------------------------- MODULE MessageSequence ---------------------------
(***************************************************************************)
(* What an execution of a mutated seed sends, as the paper on AFLNet has   *)
(* it: the messages m1 that take the server to the target state, the       *)
(* mutated ones m2, and the rest m3.  Between two executions only m2       *)
(* changes, and it holds the mutated bytes, all of them and in order.      *)
(*                                                                         *)
(* A message is the sequence of the regions it is made of.                 *)
(***************************************************************************)
EXTENDS Integers, Sequences, SequencesExt

CONSTANTS
    Regions,                \* what a parser of requests may find
    max_seed_region_count

VARIABLES
    m1, m2, m3,
    due,                    \* m2 has changed, and was not sent
    sent                    \* the messages of the last execution

vars == <<m1, m2, m3, due, sent>>

Idle == m1 = << >> /\ m2 = << >> /\ m3 = << >> /\ ~due /\ sent = << >>

Init == Idle

Begin == /\ m2 = << >> /\ m2' # << >>
         /\ UNCHANGED <<due, sent>>

Mutate(out_buf) ==
    /\ m2 # << >> /\ ~due /\ due'
    /\ FlattenSeq(m2') = out_buf /\ Len(m2') <= max_seed_region_count + 1
    /\ UNCHANGED <<m1, m3, sent>>

Send == /\ due /\ ~due'
        /\ sent' = m1 \o m2 \o m3
        /\ UNCHANGED <<m1, m2, m3>>

Abandon == m2 # << >> /\ ~due /\ Idle'

Next == Begin \/ (\E out_buf \in Regions : Mutate(out_buf)) \/ Send \/ Abandon

Spec == Init /\ [][Next]_vars
=============================================================================
