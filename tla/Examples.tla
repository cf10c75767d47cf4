------------------------------ MODULE Examples -------------------------------
(***************************************************************************)
(* Pairs of automata, each a property and its negation, and observations   *)
(* of them, to check the monitors with.  Only TLC uses this module.        *)
(***************************************************************************)
EXTENDS TimedWords

Space == INSTANCE BuchiSpace

upper(c, b) == [clock |-> c, op |-> "<=", bound |-> b]
below(c, b) == [clock |-> c, op |-> "<", bound |-> b]
lower(c, b) == [clock |-> c, op |-> ">=", bound |-> b]
above(c, b) == [clock |-> c, op |-> ">", bound |-> b]

edge(from, to, label, guard, reset) ==
    [from |-> from, to |-> to, label |-> label, guard |-> guard, reset |-> reset]

NoInvariant == {}

Automaton(L, C, accept, invariant, es) ==
    [locations |-> L, initial |-> 0, clocks |-> C, accept |-> accept,
     invariant |-> [l \in L |-> invariant], edges |-> es]

(***************************************************************************)
(* a-b30.xml of the repository with 2 for 30: every a is followed by a b   *)
(* within 2.                                                               *)
(***************************************************************************)
a_leadsto_b ==
    Automaton({0, 1}, {"x"}, {0}, NoInvariant,
              <<edge(1, 0, "b", {upper("x", 2)}, {}),
                edge(0, 0, "c", {}, {}), edge(0, 0, "b", {}, {}),
                edge(1, 1, "c", {}, {}), edge(1, 1, "a", {}, {}),
                edge(0, 1, "a", {}, {"x"})>>)

not_a_leadsto_b ==
    Automaton({0, 1, 2}, {"x"}, {2}, NoInvariant,
              <<edge(0, 0, "a", {}, {}), edge(0, 0, "b", {}, {}), edge(0, 0, "c", {}, {}),
                edge(0, 1, "a", {}, {"x"}),
                edge(1, 2, "a", {above("x", 2)}, {}), edge(1, 2, "b", {above("x", 2)}, {}),
                edge(1, 2, "c", {above("x", 2)}, {}),
                edge(2, 2, "a", {}, {}), edge(2, 2, "b", {}, {}), edge(2, 2, "c", {}, {})>>)

(***************************************************************************)
(* An a and then a b, which comes at most 1 after the a or at least 3      *)
(* after the start.  The positive automaton guesses at the a which of the  *)
(* two it will be, so location 1 has a state for each guess.               *)
(***************************************************************************)
guess ==
    Automaton({0, 1, 2}, {"x"}, {2}, NoInvariant,
              <<edge(0, 1, "a", {}, {"x"}), edge(0, 1, "a", {}, {}),
                edge(1, 2, "b", {upper("x", 1)}, {}), edge(1, 2, "b", {lower("x", 3)}, {}),
                edge(2, 2, "a", {}, {}), edge(2, 2, "b", {}, {})>>)

not_guess ==
    Automaton({0, 1, 2}, {"x", "y"}, {2}, NoInvariant,
              <<edge(0, 2, "b", {}, {}), edge(0, 1, "a", {}, {"y"}),
                edge(1, 2, "a", {}, {}), edge(1, 2, "b", {above("y", 1), below("x", 3)}, {}),
                edge(2, 2, "a", {}, {}), edge(2, 2, "b", {}, {})>>)

(***************************************************************************)
(* The same of the last a before the first b: the positive automaton waits *)
(* in location 0 until the a it guesses at.                                *)
(***************************************************************************)
late_guess ==
    Automaton({0, 1, 2}, {"x"}, {2}, NoInvariant,
              <<edge(0, 0, "a", {}, {}), edge(0, 1, "a", {}, {"x"}), edge(0, 1, "a", {}, {}),
                edge(1, 2, "b", {upper("x", 1)}, {}), edge(1, 2, "b", {lower("x", 3)}, {}),
                edge(2, 2, "a", {}, {}), edge(2, 2, "b", {}, {})>>)

not_late_guess ==
    Automaton({0, 1, 2}, {"x", "y"}, {1, 2}, NoInvariant,
              <<edge(0, 2, "b", {}, {}), edge(0, 1, "a", {}, {"y"}),
                edge(1, 1, "a", {}, {"y"}), edge(1, 2, "b", {above("y", 1), below("x", 3)}, {}),
                edge(2, 2, "a", {}, {}), edge(2, 2, "b", {}, {})>>)

(***************************************************************************)
(* From every a, and from the start, the next a comes within 2: the        *)
(* positive automaton says so with an invariant.                           *)
(***************************************************************************)
deadline ==
    Automaton({0}, {"x"}, {0}, {upper("x", 2)},
              <<edge(0, 0, "a", {}, {"x"}), edge(0, 0, "b", {}, {})>>)

not_deadline ==
    Automaton({0, 1}, {"x"}, {1}, NoInvariant,
              <<edge(0, 0, "a", {}, {"x"}), edge(0, 0, "b", {}, {}),
                edge(0, 1, "a", {above("x", 2)}, {}), edge(0, 1, "b", {above("x", 2)}, {}),
                edge(1, 1, "a", {}, {}), edge(1, 1, "b", {}, {})>>)

\* What a monitor is constructed with: a property and its negation.
Pair(positive, negative) == [pos |-> positive, neg |-> negative]

Guess == Pair(guess, not_guess)

NotGuess == Pair(not_guess, guess)

LateGuess == Pair(late_guess, not_late_guess)

LeadsTo == Pair(a_leadsto_b, not_a_leadsto_b)

Deadline == Pair(deadline, not_deadline)

(***************************************************************************)
(* Their accepting spaces, which the constructor computes.  Each is a      *)
(* definition of its own, so TLC computes it once.                         *)
(***************************************************************************)
guess_space == Space!buchi_accept_fixpoint(guess)
not_guess_space == Space!buchi_accept_fixpoint(not_guess)
late_guess_space == Space!buchi_accept_fixpoint(late_guess)
not_late_guess_space == Space!buchi_accept_fixpoint(not_late_guess)
a_leadsto_b_space == Space!buchi_accept_fixpoint(a_leadsto_b)
not_a_leadsto_b_space == Space!buchi_accept_fixpoint(not_a_leadsto_b)
deadline_space == Space!buchi_accept_fixpoint(deadline)
not_deadline_space == Space!buchi_accept_fixpoint(not_deadline)

GuessSpace == [pos |-> guess_space, neg |-> not_guess_space]

NotGuessSpace == [pos |-> not_guess_space, neg |-> guess_space]

LateGuessSpace == [pos |-> late_guess_space, neg |-> not_late_guess_space]

LeadsToSpace == [pos |-> a_leadsto_b_space, neg |-> not_a_leadsto_b_space]

DeadlineSpace == [pos |-> deadline_space, neg |-> not_deadline_space]

(***************************************************************************)
(* Observations: points and intervals, of letters the automata know, of    *)
(* one they do not and of none; certain and optional ones.                 *)
(***************************************************************************)
Observed(letters, lengths, types, horizon) ==
    {in \in [first : 0 .. horizon, second : 0 .. horizon, label : letters, type : types] :
        in.second - in.first \in lengths}

Certain(letters, lengths, horizon) == Observed(letters, lengths, {"ONCE"}, horizon)

\* A monitor that is constructed from the pair, without settings.
Setting(pair, inputs, horizon) ==
    [automaton |-> pair, inputs |-> inputs, horizon |-> horizon,
     inclusion |-> FALSE, clock_abstraction |-> FALSE, ordered |-> TRUE]

WithInclusion(given) == [given EXCEPT !.inclusion = TRUE]

WithAbstraction(given) == [given EXCEPT !.inclusion = TRUE, !.clock_abstraction = TRUE]

InAnyOrder(given) == [given EXCEPT !.ordered = FALSE]
=============================================================================
