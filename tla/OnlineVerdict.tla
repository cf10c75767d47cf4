---------------------------- MODULE OnlineVerdict ----------------------------
(***************************************************************************)
(* What a monitor promises: "MoniTAal can monitor whether all infinite     *)
(* extensions of a finite timed word satisfy an MITL property" (MoniTAal   *)
(* README).  After every observation the verdict is POSITIVE when no run   *)
(* of the negation can still be accepted, NEGATIVE when no run of the      *)
(* property can, and open otherwise.  Nothing is promised of observations  *)
(* that are no timed word.                                                 *)
(***************************************************************************)
EXTENDS TimedWords

VARIABLES
    runs,       \* the runs each automaton can have made
    verdict     \* what has been answered

Verdicts == {"INCONCLUSIVE", "POSITIVE", "NEGATIVE"}

Judge(R) ==
    IF Alive("neg", R["neg"]) = {} THEN "POSITIVE"
    ELSE IF Alive("pos", R["pos"]) = {} THEN "NEGATIVE"
    ELSE "INCONCLUSIVE"

Init ==
    /\ setup \in DOMAIN Setup
    /\ runs = [s \in Sides |-> FirstRuns(automaton[s])]
    /\ verdict = Judge(runs)

Observe(in) ==
    /\ runs' = [s \in Sides |-> RunsAfter(automaton[s], runs[s], in)]
    /\ IF Explained(runs') THEN verdict' = Judge(runs') ELSE verdict' \in Verdicts
    /\ UNCHANGED setup

Next == \E in \in Inputs : Observe(in)

Spec == Init /\ [][Next]_<<setup, runs, verdict>>
=============================================================================
