-------------------------- MODULE NegationNormalForm --------------------------
(***************************************************************************)
(* The rewriting of a formula into negation normal form.  The visitor      *)
(* returns text, which the compiler parses again, so what it means is what *)
(* the grammar makes of the text: && binds tighter than ||.  A text is     *)
(* therefore a sequence of alternatives, each a sequence of conjuncts, each*)
(* a formula that nothing can tear apart.                                  *)
(***************************************************************************)
EXTENDS Mitl, SequencesExt

One(f) == <<<<f>>>>

\* l || r
Alternatives(l, r) == l \o r

\* l && r takes only the last alternative of l and the first one of r.
Conjunction(l, r) == Front(l) \o <<Last(l) \o Head(r)>> \o Tail(r)

Chain(rule, formulas) == FoldLeft(LAMBDA f, g : Both(rule, f, g), Head(formulas), Tail(formulas))

\* What the parser makes of a text.
Parsed(text) == Chain("Or", [i \in DOMAIN text |-> Chain("And", text[i])])

\* Fault: the dual of release, in the past, is taken for that of the future.
Dual_Mixed ==
    [F |-> "G", G |-> "F", O |-> "H", H |-> "O", U |-> "R", R |-> "U", S |-> "R", T |-> "U"]

Dual == [F |-> "G", G |-> "F", O |-> "H", H |-> "O", U |-> "R", R |-> "U", S |-> "T", T |-> "S"]

Operator(f, negated) == IF negated THEN Dual[f.rule] ELSE f.rule

visitAtomUnary(f, negated, text) ==
    One(Unary(Operator(f, negated), f.interval, f.weak, Parsed(text)))

visitAtomBinary(f, negated, left, right) ==
    One(Binary(Operator(f, negated), f.interval, f.weak, Parsed(left), Parsed(right)))

visitAtomIdfr(f, negated) == One(IF negated THEN Not(f) ELSE f)

visitAtomConstant(f, negated) == One(IF negated = (f.rule = "true") THEN False ELSE True)

(***************************************************************************)
(* The text of f, or of its negation.  A parenthesis is only printed inside*)
(* a connective or a temporal operator, and only around a formula that has *)
(* more than one part.                                                     *)
(***************************************************************************)
visitAtomParen(f, enclosed, text) ==
    IF enclosed /\ f.sub.rule \in Junctions \cup {"Not"} THEN One(Parsed(text)) ELSE text

RECURSIVE visit(_, _, _)
visit(f, negated, enclosed) ==
    LET l(n) == visit(f.left, n, TRUE)
        r(n) == visit(f.right, n, TRUE)
        quoted(text) == One(Parsed(text))
    IN  CASE f.rule = "Idfr" -> visitAtomIdfr(f, negated)
          [] f.rule \in {"true", "false"} -> visitAtomConstant(f, negated)
          [] f.rule = "Not" -> visit(f.sub, ~negated, enclosed)
          [] f.rule = "Paren" -> visitAtomParen(f, enclosed, visit(f.sub, negated, enclosed))
          [] f.rule = "And" ->
               IF negated THEN Alternatives(l(TRUE), r(TRUE)) ELSE Conjunction(l(FALSE), r(FALSE))
          [] f.rule = "Or" ->
               IF negated THEN Conjunction(l(TRUE), r(TRUE)) ELSE Alternatives(l(FALSE), r(FALSE))
          [] f.rule = "Implies" ->
               IF negated THEN Conjunction(l(FALSE), r(TRUE)) ELSE Alternatives(l(TRUE), r(FALSE))
          [] f.rule = "Iff" ->
               IF negated
               THEN Alternatives(quoted(Conjunction(l(FALSE), r(TRUE))),
                                 quoted(Conjunction(r(FALSE), l(TRUE))))
               ELSE Conjunction(quoted(Alternatives(l(TRUE), r(FALSE))),
                                quoted(Alternatives(r(TRUE), l(FALSE))))
          [] f.rule \in {"F", "G", "O", "H"} ->
               visitAtomUnary(f, negated, visit(f.sub, negated, TRUE))
          [] f.rule \in {"U", "R", "S", "T"} -> visitAtomBinary(f, negated, l(negated), r(negated))

visitMain(f) == Parsed(visit(f, FALSE, FALSE))
==============================================================================
