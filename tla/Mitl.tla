-------------------------------- MODULE Mitl ---------------------------------
(***************************************************************************)
(* MITL formulas (Mitl.g4) and what they mean of timed words: the reference*)
(* the compiler of MightyPPL is checked against.  Bounds are as in the     *)
(* README of MightyPPL: by default an operator looks strictly into the     *)
(* future or the past, and a starred ("weak") one includes the present.    *)
(*                                                                         *)
(* Only the intervals that one clock can track are formulas here: none,    *)
(* [0,u> and <l,infty).  The others become counting modalities.            *)
(***************************************************************************)
EXTENDS Integers, Sequences, FiniteSets

Idfr(p) == [rule |-> "Idfr", name |-> p]

True == [rule |-> "true"]

False == [rule |-> "false"]

Not(f) == [rule |-> "Not", sub |-> f]

Paren(f) == [rule |-> "Paren", sub |-> f]

\* "And", "Or", "Iff" and "Implies".
Both(rule, f, g) == [rule |-> rule, left |-> f, right |-> g]

\* F, G, O and H of one operand; U, R, S and T of two.
Unary(rule, interval, weak, f) ==
    [rule |-> rule, interval |-> interval, weak |-> weak, sub |-> f]

Binary(rule, interval, weak, f, g) ==
    [rule |-> rule, interval |-> interval, weak |-> weak, left |-> f, right |-> g]

Untimed == [kind |-> "untimed"]

Within(u, closed) == [kind |-> "within", bound |-> u, closed |-> closed]

After(l, closed) == [kind |-> "after", bound |-> l, closed |-> closed]

Future == {"F", "G", "U", "R"}

Past == {"O", "H", "S", "T"}

Junctions == {"And", "Or", "Iff", "Implies"}

TwoOperands == Junctions \cup {"U", "R", "S", "T"}

OneOperand == {"Not", "Paren", "F", "G", "O", "H"}

IsTemporal(f) == f.rule \in Future \cup Past

\* The identifiers and temporal subformulas, in the order in which a reader meets them.
RECURSIVE Atoms(_)
Atoms(f) ==
    LET below == IF f.rule \in TwoOperands THEN Atoms(f.left) \o Atoms(f.right)
                 ELSE IF f.rule \in OneOperand THEN Atoms(f.sub)
                 ELSE <<>>
    IN  IF f.rule = "Idfr" \/ IsTemporal(f) THEN <<f>> \o below ELSE below

(***************************************************************************)
(* A timed word is a sequence of events: a time and the propositions that  *)
(* hold.  The positions of word w where f holds, when an operator looks at *)
(* most "ahead" positions ahead.  The operators of one operand are those of*)
(* two with a left operand that is constant.                               *)
(***************************************************************************)
Inside(interval, distance) ==
    CASE interval.kind = "untimed" -> TRUE
      [] interval.kind = "within" ->
           distance < interval.bound \/ (interval.closed /\ distance = interval.bound)
      [] interval.kind = "after" ->
           distance > interval.bound \/ (interval.closed /\ distance = interval.bound)

\* The positions that operator f sees from i, and the ones it passes on the way to j.
Sees(f, w, ahead, i) ==
    IF f.rule \in Future
    THEN {j \in i .. i + ahead : j <= Len(w) /\ (f.weak \/ j > i)}
    ELSE {j \in 1 .. i : f.weak \/ j < i}

Passes(f, i, j) ==
    IF f.rule \in Future
    THEN (IF f.weak THEN i ELSE i + 1) .. (j - 1)
    ELSE (j + 1) .. (IF f.weak THEN i ELSE i - 1)

InTime(f, w, i, j) ==
    Inside(f.interval, IF f.rule \in Future THEN w[j].time - w[i].time
                       ELSE w[i].time - w[j].time)

\* U and S: some position in time satisfies q, and p holds on the way to it.
Reached(f, w, ahead, P, Q) ==
    {i \in DOMAIN w : \E j \in Sees(f, w, ahead, i) :
        InTime(f, w, i, j) /\ j \in Q /\ Passes(f, i, j) \subseteq P}

\* R and T: q holds at every position in time, unless p held on the way to it.
Kept(f, w, ahead, P, Q) ==
    {i \in DOMAIN w : \A j \in Sees(f, w, ahead, i) :
        InTime(f, w, i, j) => j \in Q \/ Passes(f, i, j) \cap P # {}}

RECURSIVE Holds(_, _, _)
Holds(f, w, ahead) ==
    LET all == DOMAIN w
        sub == Holds(f.sub, w, ahead)
        left == Holds(f.left, w, ahead)
        right == Holds(f.right, w, ahead)
    IN  CASE f.rule = "Idfr" -> {i \in all : f.name \in w[i].letter}
          [] f.rule = "true" -> all
          [] f.rule = "false" -> {}
          [] f.rule = "Not" -> all \ sub
          [] f.rule = "Paren" -> sub
          [] f.rule = "And" -> left \cap right
          [] f.rule = "Or" -> left \cup right
          [] f.rule = "Iff" -> (left \cap right) \cup (all \ (left \cup right))
          [] f.rule = "Implies" -> (all \ left) \cup right
          [] f.rule \in {"F", "O"} -> Reached(f, w, ahead, all, sub)
          [] f.rule \in {"G", "H"} -> Kept(f, w, ahead, {}, sub)
          [] f.rule \in {"U", "S"} -> Reached(f, w, ahead, left, right)
          [] f.rule \in {"R", "T"} -> Kept(f, w, ahead, left, right)

(***************************************************************************)
(* A formula is asked of the first event.  Of an infinite word that ends   *)
(* in a loop enough rounds are unrolled for truth to repeat itself: an     *)
(* operator looks ahead until the past it can see, and what its interval   *)
(* excludes, is a whole round behind.                                      *)
(***************************************************************************)
SatisfiedBy(f, w) == 1 \in Holds(f, w, Len(w))

RECURSIVE Depth(_)
Depth(f) ==
    LET below == IF f.rule \in TwoOperands
                 THEN LET l == Depth(f.left)  r == Depth(f.right)
                      IN  IF l > r THEN l ELSE r
                 ELSE IF f.rule \in OneOperand THEN Depth(f.sub)
                 ELSE 0
    IN  IF IsTemporal(f) THEN below + 1 ELSE below

\* The word that goes on with its events from "start", again after "period", forever.
Unrolled(w, start, period, rounds) ==
    LET length == Len(w) - start + 1
    IN  [i \in 1 .. Len(w) + rounds * length |->
            IF i <= Len(w) THEN w[i]
            ELSE LET n == (i - Len(w) - 1) \div length
                     j == start + ((i - Len(w) - 1) % length)
                 IN  [w[j] EXCEPT !.time = @ + (n + 1) * period]]

SatisfiedForever(f, w, start, period, largest) ==
    LET rounds == (largest + 2) * Depth(f)
        ahead == Len(w) + rounds * (Len(w) - start + 1)
    IN  1 \in Holds(f, Unrolled(w, start, period, rounds * Depth(f) + 1), ahead)
==============================================================================
