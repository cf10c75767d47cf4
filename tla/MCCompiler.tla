------------------------------ MODULE MCCompiler ------------------------------
(***************************************************************************)
(* Compiled formulas against what the formulas mean: every timed word up to*)
(* a length is read by the automaton of a formula, as the monitors build it*)
(* and for finite words.                                                   *)
(***************************************************************************)
EXTENDS FormulaCompiler, TimedAutomata

CONSTANTS
    Formulas,       \* what is compiled, in order
    Delays,         \* the times between two events
    MaxEvents       \* how long the words are, by the mode

VARIABLES
    n,              \* the number of the formula
    finite,         \* whether it is compiled for finite words
    automaton,      \* what it is compiled to
    word,           \* the events so far
    runs            \* where the automaton can be after them

MCMaxEvents == TRUE :> 3 @@ FALSE :> 2

vars == <<n, finite, automaton, word, runs>>

Letters ==
    [number \in DOMAIN Formulas |->
        SUBSET {f.name : f \in {g \in Range(Atoms(Formulas[number])) : g.rule = "Idfr"}}]

Step(A, states, delay, letter) ==
    UNION {LET v == Elapse(s.v, delay)
           IN  {[l |-> e.to, v |-> Reset(v, e.reset)] :
                   e \in {d \in A.edges[s.l] : letter \in d.label /\ Meets(v, d.guard)}} :
           s \in states}

Init ==
    /\ n \in DOMAIN Formulas
    /\ finite \in BOOLEAN
    /\ word = <<>>
    /\ automaton = compile_one_formula(Formulas[n], finite)
    /\ runs = {[l |-> automaton.initial, v |-> [c \in automaton.clocks |-> 0]]}

Read(letter, delay) ==
    /\ Len(word) < MaxEvents[finite]
    /\ word' = Append(word, [letter |-> letter,
                             time |-> delay + IF word = <<>> THEN 0 ELSE Last(word).time])
    /\ runs' = Step(automaton, runs, delay, letter)
    /\ UNCHANGED <<n, finite, automaton>>

Next == \E letter \in Letters[n], delay \in Delays : Read(letter, delay)

Spec == Init /\ [][Next]_vars

(***************************************************************************)
(* Compiled for finite words, the automaton of a formula accepts exactly   *)
(* the words that satisfy it: the rewriting into negation normal form, the *)
(* labels, the tester of every operator and the product lose nothing and   *)
(* invent nothing (compile_one_formula with out_fin).                      *)
(***************************************************************************)
AcceptsFiniteModels ==
    finite /\ word # <<>> =>
        ((\E s \in runs : s.l \in automaton.accept) <=> SatisfiedBy(Formulas[n], word))

(***************************************************************************)
(* The infinite words that repeat a part of "word" forever.  A node of the *)
(* graph of a loop is where a run can be between two rounds, and whether   *)
(* the round before it met an accepting location.                          *)
(***************************************************************************)
LoopDelay(start, gap, j) == IF j = start THEN gap ELSE word[j].time - word[j - 1].time

Marked(A, state, met) == [state |-> state, met |-> met \/ state.l \in A.accept]

Round(A, start, gap, state) ==
    LET step(nodes, j) ==
          UNION {{Marked(A, t, m.met) :
                     t \in Step(A, {m.state}, LoopDelay(start, gap, j), word[j].letter)} :
                 m \in nodes}
    IN  FoldLeft(step, {[state |-> state, met |-> FALSE]},
                 [k \in 1 .. Len(word) - start + 1 |-> start + k - 1])

RECURSIVE Rounds(_, _, _, _, _)
Rounds(A, start, gap, fringe, graph) ==
    LET found == [m \in fringe |-> Round(A, start, gap, m.state)]
        known == graph @@ found
        next == UNION Range(found) \ DOMAIN known
    IN  IF next = {} THEN known ELSE Rounds(A, start, gap, next, known)

\* The nodes that some node of S can be reached from, and those of them that S recurs from.
RECURSIVE Leading(_, _)
Leading(graph, S) ==
    LET more == S \cup {m \in DOMAIN graph : graph[m] \cap S # {}}
    IN  IF more = S THEN S ELSE Leading(graph, more)

RECURSIVE Recurring(_, _)
Recurring(graph, S) ==
    LET fewer == {m \in S : graph[m] \cap Leading(graph, S) # {}}
    IN  IF fewer = S THEN S ELSE Recurring(graph, fewer)

AcceptsLoop(start, gap) ==
    LET initial == {[state |-> s, met |-> FALSE] : s \in runs}
        graph == Rounds(automaton, start, gap, initial, <<>>)
    IN  \E m \in initial : m \in Leading(graph, Recurring(graph, {k \in DOMAIN graph : k.met}))

Largest == [number \in DOMAIN Formulas |->
               Max({0} \cup {f.interval.bound : f \in {g \in Range(Atoms(Formulas[number])) :
                              IsTemporal(g) /\ g.interval.kind # "untimed"}})]

(***************************************************************************)
(* Compiled for infinite words, as the monitors do, it accepts exactly the *)
(* words that satisfy the formula and in which time diverges: on every run *)
(* the testers' questions are answered in the end, and the product waits   *)
(* for all components in turn.  In a loop of period 0 time stops; only a   *)
(* formula with no constant may accept one, since the unit of              *)
(* time_divergence_ta is then 0.                                           *)
(***************************************************************************)
AcceptsInfiniteModels ==
    ~finite => \A start \in DOMAIN word, gap \in Delays :
        LET period == Last(word).time - word[start].time + gap
        IN  AcceptsLoop(start, gap) <=>
                /\ period > 0 \/ Largest[n] = 0
                /\ SatisfiedForever(Formulas[n], word, start, period, Largest[n])

(***************************************************************************)
(* The formulas: the operators, strict and weak, over unbounded and bounded*)
(* intervals, at one event, and most of them, H and T in part, also at     *)
(* many.  Left out are the formulas whose compilation goes                 *)
(* wrong, kept in lists of their own below: H* and T* (WeakPast), H and T  *)
(* over [0,u> asked at several events (OftenAsked), and negations of       *)
(* && within || without parentheses (Negated).                             *)
(***************************************************************************)
p == Idfr("p")
q == Idfr("q")

Intervals == <<Untimed, After(1, TRUE), After(1, FALSE), Within(1, TRUE), Within(2, FALSE)>>

Each(count, weak, F(_, _)) == [k \in 1 .. count |-> F(Intervals[k], weak)]

Strict(rules, count, F(_, _, _)) ==
    FlattenSeq([k \in DOMAIN rules |-> Each(count, FALSE, LAMBDA i, w : F(rules[k], i, w))])

EachOf(rules, F(_, _, _)) ==
    Strict(rules, 5, F)
    \o FlattenSeq([k \in DOMAIN rules |-> Each(5, TRUE, LAMBDA i, w : F(rules[k], i, w))])

Eventually(f) == Unary("F", Untimed, TRUE, f)
Always(f) == Unary("G", Untimed, TRUE, f)

OfOne(rule, i, weak) == Unary(rule, i, weak, q)
OfTwo(rule, i, weak) == Binary(rule, i, weak, p, q)

OnceOfOne(rule, i, weak) == Eventually(OfOne(rule, i, weak))
OnceOfTwo(rule, i, weak) == Eventually(OfTwo(rule, i, weak))

NotOfTwo(rule, i, weak) == Not(Paren(OfTwo(rule, i, weak)))
NotOnceOfOne(rule, i, weak) == Not(OnceOfOne(rule, i, weak))
NotOnceOfTwo(rule, i, weak) == Not(OnceOfTwo(rule, i, weak))

Whenever(f, g) == Always(Paren(Both("Implies", f, Paren(g))))
OftenOfOne(rule, i, weak) == Whenever(p, OfOne(rule, i, weak))
OftenOfTwo(rule, i, weak) == Whenever(q, OfTwo(rule, i, weak))

\* Subformulas met twice, negations and the other connectives.
Shared ==
    LET soon == Unary("F", Within(1, TRUE), FALSE, q)
        later == Unary("G", After(1, TRUE), FALSE, p)
        both == Paren(Binary("U", Untimed, FALSE, p, q))
    IN  <<Both("And", soon, Always(Paren(Both("Or", p, soon)))),
          Both("Or", soon, Eventually(Paren(Both("And", p, soon)))),
          Both("Iff", soon, later),
          Not(Paren(Both("Iff", Paren(Both("Or", q, soon)), later))),
          Not(Paren(Both("Implies", both, Paren(Both("Or", later, soon))))),
          Both("And", Both("Or", both, later), both)>>

MCFormulas ==
    EachOf(<<"F", "G">>, OfOne) \o EachOf(<<"U", "R">>, OfTwo)
    \o EachOf(<<"O">>, OnceOfOne) \o EachOf(<<"S">>, OnceOfTwo)
    \o Strict(<<"H">>, 5, OnceOfOne) \o Strict(<<"T">>, 5, OnceOfTwo)
    \o EachOf(<<"F", "G", "O">>, OftenOfOne) \o EachOf(<<"U", "R", "S">>, OftenOfTwo)
    \o Strict(<<"H">>, 3, OftenOfOne) \o Strict(<<"T">>, 3, OftenOfTwo)
    \o EachOf(<<"U", "R">>, NotOfTwo)
    \o Strict(<<"F", "G", "O", "H">>, 3, NotOnceOfOne) \o Strict(<<"S", "T">>, 3, NotOnceOfTwo)
    \o Shared

\* The tester of H[0,1] forgets that it tracks an earlier question.
OftenAsked == <<Always(OfOne("H", Within(1, TRUE), FALSE))>>

\* At the first event the testers may take a location that answers no weak question.
WeakPast == <<Eventually(OfOne("H", Untimed, TRUE)),
              Eventually(OfTwo("T", Within(1, TRUE), TRUE))>>

WrongPast == OftenAsked \o WeakPast

\* The negation of "p || q && F p", as the monitors write it for the negative automaton.
Negated == <<Not(Paren(Both("Or", p, Both("And", q, Unary("F", Untimed, FALSE, p)))))>>
==============================================================================
