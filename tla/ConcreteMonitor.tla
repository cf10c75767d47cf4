--------------------------- MODULE ConcreteMonitor ---------------------------
(***************************************************************************)
(* Monitor<concrete_state_t>: the loops of Single_monitor::input over      *)
(* single valuations.  Clocks are unsigned integers of a fixed width, read *)
(* as signed ones where a constraint is tested, and nothing in the monitor *)
(* knows zones but its accepting space.                                    *)
(*                                                                         *)
(* A call of Monitor::input is one step here: the loops of a call share no *)
(* state with anything else, and the lists keep the order of the code's    *)
(* vectors, on which the result depends.                                   *)
(***************************************************************************)
EXTENDS TimedWords, SequencesExt

CONSTANT
    Modulus         \* 2^32 in the code: what the clocks are counted modulo

\* Cap is beyond what the constraints tell apart.
BelowCap(A) ==
    /\ \A l \in A.locations : \A c \in A.invariant[l] : c.bound < Cap
    /\ \A e \in Edges(A) : \A c \in e.guard : c.bound < Cap

\* A timed word does not last until the clocks wrap.
ClocksFit ==
    /\ Modulus \in Nat
    /\ \A n \in DOMAIN Setup :
          /\ 2 * Setup[n].horizon < Modulus
          /\ \A s \in Sides : BelowCap(Setup[n].automaton[s])

ASSUME ConcreteAssumption == ClocksFit

VARIABLES
    states,     \* _current_states of each Single_monitor
    verdict,    \* _status of the Monitor
    refused,    \* the last call ended in an exception
    runs,       \* history: the runs the observations allow
    last        \* history: time of the last observation handled

vars == <<setup, states, verdict, refused, runs, last>>

-----------------------------------------------------------------------------
(***************************************************************************)
(* concrete_state_t: a location, its clocks and the global clock.          *)
(***************************************************************************)
State(l, x, g) == [loc |-> l, x |-> x, g |-> g]

\* The cast to zone_val_t, a signed integer of the same width.
Signed(n) == IF 2 * n < Modulus THEN n ELSE n - Modulus

Read(x) == [c \in DOMAIN x |-> Signed(x[c])]

satisfies(p, constraints) == Meets(Read(p.x), constraints)

\* Fault: the global clock keeps the time of the observation before.
delay_OldGlobal(p, time) ==
    LET d == (time - p.g) % Modulus
    IN  State(p.loc, [c \in DOMAIN p.x |-> (p.x[c] + d) % Modulus], p.g)

\* The difference is unsigned: it wraps when the observation is in the past.
delay(p, time) ==
    LET d == (time - p.g) % Modulus
    IN  State(p.loc, [c \in DOMAIN p.x |-> (p.x[c] + d) % Modulus], (p.g + d) % Modulus)

\* Fault: a DBM bounds clocks from above only.
in_accepting_space_NoLowerBound(s, p) ==
    LET x == Read(p.x)
    IN  [c \in DOMAIN x |-> IF x[c] < 0 THEN 0 ELSE Saturate(x[c])] \in
            Points(accepting_space[s][p.loc])

\* is_included_in: every DBM bounds each clock by 0 from below.
in_accepting_space(s, p) ==
    LET x == Read(p.x)
    IN  /\ \A c \in DOMAIN x : x[c] >= 0
        /\ [c \in DOMAIN x |-> Saturate(x[c])] \in Points(accepting_space[s][p.loc])

\* relation of two valuations, which leaves the locations out.
Equal(p, q) == p.x = q.x /\ p.g = q.g

\* Fault: what is in the list already is added once more.
add_state_Always(s, list, p) == IF in_accepting_space(s, p) THEN Append(list, p) ELSE list

\* std::erase_if: the states of the list that are elsewhere.
Elsewhere(list, l) ==
    FoldLeft(LAMBDA acc, q : IF q.loc = l THEN acc ELSE Append(acc, q), << >>, list)

add_state(s, list, p) ==
    LET add == Inclusion => \A i \in DOMAIN list : ~Equal(p, list[i])
        replace == Inclusion =>
                      \A i \in DOMAIN list : list[i].loc = p.loc => Equal(p, list[i])
        kept == IF replace THEN Elsewhere(list, p.loc) ELSE list
    IN  IF in_accepting_space(s, p) /\ (add \/ replace) THEN Append(kept, p) ELSE list

-----------------------------------------------------------------------------
\* One edge is tried on a copy of p: guard, resets, the invariant it leads to.
take_edge(s, p, list, e) ==
    LET q == State(e.to, Reset(p.x, e.reset), p.g)
    IN  IF satisfies(p, e.guard) /\ satisfies(q, automaton[s].invariant[e.to])
        THEN add_state(s, list, q)
        ELSE list

(***************************************************************************)
(* One current state.  For an optional input the copy is added first, and  *)
(* when the accepting space has emptied it, the first edge is tried on an  *)
(* empty state and leads nowhere.                                          *)
(***************************************************************************)
Matching(A, l, label) ==
    {i \in DOMAIN A.edges : A.edges[i].from = l /\ A.edges[i].label = label}

advance(s, list, p, in) ==
    LET A == automaton[s]
        q == delay(p, in.first)
        stays == Foreign(A, in.label) \/ in.type = "OPTIONAL"
        matching == IF Foreign(A, in.label) THEN {} ELSE Matching(A, q.loc, in.label)
        tried == IF stays /\ ~in_accepting_space(s, q)
                 THEN {i \in matching : \E j \in matching : j < i}
                 ELSE matching
        begun == IF stays THEN add_state(s, list, q) ELSE list
    IN  IF satisfies(q, A.invariant[q.loc])
        THEN FoldLeftDomain(
                LAMBDA acc, i : IF i \in tried THEN take_edge(s, q, acc, A.edges[i]) ELSE acc,
                begun, A.edges)
        ELSE list

next_states(s, in) ==
    FoldLeft(LAMBDA acc, p : advance(s, acc, p, in), << >>, states[s])

-----------------------------------------------------------------------------
initial_states(s) ==
    LET A == automaton[s]
        p == State(A.initial, [c \in A.clocks |-> 0], 0)
    IN  IF in_accepting_space(s, p) THEN <<p>> ELSE << >>

Init ==
    /\ setup \in DOMAIN Setup
    /\ states = [s \in Sides |-> initial_states(s)]
    /\ verdict = IF initial_states("pos") = << >> THEN "NEGATIVE"
                 ELSE IF initial_states("neg") = << >> THEN "POSITIVE"
                 ELSE "INCONCLUSIVE"
    /\ refused = FALSE
    /\ runs = [s \in Sides |-> FirstRuns(automaton[s])]
    /\ last = 0

InTurn(in) == Ordered => last <= in.first

IsPoint(in) == in.first = in.second

\* No state is asked to delay into an interval that is not a point.
NothingToDelay == \A s \in Sides : states[s] = << >>

\* Fault: only the positive monitor counts.
Input_OneSided(in) ==
    /\ InTurn(in)
    /\ IsPoint(in) \/ NothingToDelay
    /\ states' = [s \in Sides |-> next_states(s, in)]
    /\ verdict' = IF next_states("pos", in) = << >> THEN "NEGATIVE" ELSE verdict
    /\ refused' = FALSE
    /\ runs' = [s \in Sides |-> RunsAfter(automaton[s], runs[s], in)]
    /\ last' = in.first

\* Monitor::input, as a release build executes it.
Input(in) ==
    /\ InTurn(in)
    /\ IsPoint(in) \/ NothingToDelay
    /\ states' = [s \in Sides |-> next_states(s, in)]
    /\ verdict' = IF next_states("neg", in) = << >> THEN "POSITIVE"
                  ELSE IF next_states("pos", in) = << >> THEN "NEGATIVE"
                  ELSE verdict
    /\ refused' = FALSE
    /\ runs' = [s \in Sides |-> RunsAfter(automaton[s], runs[s], in)]
    /\ last' = in.first

\* "Concrete states cannot delay in non-singular intervals."
Refuse(in) ==
    /\ InTurn(in)
    /\ ~IsPoint(in) /\ ~NothingToDelay
    /\ refused' = TRUE
    /\ UNCHANGED <<states, verdict, runs, last>>

Next == (\E in \in Inputs : Input(in) \/ Refuse(in)) /\ UNCHANGED setup

Spec == Init /\ [][Next]_vars
-----------------------------------------------------------------------------
Promise == INSTANCE OnlineVerdict

(***************************************************************************)
(* Types: a clock is one of the Modulus values, whatever was observed.     *)
(***************************************************************************)
TypeOK ==
    /\ setup \in DOMAIN Setup
    /\ \A s \in Sides : \A i \in DOMAIN states[s] :
          states[s][i] \in [loc : automaton[s].locations,
                           x : [automaton[s].clocks -> 0 .. Modulus - 1],
                           g : 0 .. Modulus - 1]
    /\ verdict \in {"INCONCLUSIVE", "POSITIVE", "NEGATIVE"}
    /\ refused \in BOOLEAN
    /\ last \in 0 .. Horizon

(***************************************************************************)
(* The states are the runs: every run the observations allow and the       *)
(* accepting space keeps is in the list, and every state of the list is    *)
(* such a run, whatever was skipped, replaced or refused on the way; as    *)
(* long as what is observed is a timed word.  Without inclusion a location *)
(* keeps one state, and runs are lost.                                     *)
(***************************************************************************)
Run(p) == Moment(p.loc, [c \in DOMAIN p.x |-> Saturate(Signed(p.x[c]))], p.g)

EstimateIsExact == Explained(runs) /\ Inclusion =>
    \A s \in Sides : {Run(states[s][i]) : i \in DOMAIN states[s]} = Alive(s, runs[s])

(***************************************************************************)
(* What it takes for that: relation leaves the locations out, so a state   *)
(* goes unlisted when its clocks are those of a state elsewhere and its    *)
(* location has one with others.  No three runs of an automaton are like   *)
(* that.                                                                   *)
(***************************************************************************)
TellsApart(R) ==
    \A q, r, other \in R :
        q.loc # r.loc /\ q.x = r.x /\ other.loc = q.loc => other.x = q.x

ToldApart == Inclusion => \A s \in Sides : TellsApart(Alive(s, runs[s]))

(***************************************************************************)
(* A clock that an observation from the past has wrapped is never kept: it *)
(* would read as negative and satisfy every upper bound.                   *)
(***************************************************************************)
NoWrappedClock ==
    \A s \in Sides : \A i \in DOMAIN states[s] :
        \A c \in automaton[s].clocks : Signed(states[s][i].x[c]) >= 0

(***************************************************************************)
(* No state is listed twice under inclusion checking ("Enable inclusion    *)
(* checking for duplicate states", main.cpp).                              *)
(***************************************************************************)
NoDuplicates == Inclusion => \A s \in Sides : IsInjective(states[s])

(***************************************************************************)
(* "Error: Mismatch between positive and negative automata. Both are out": *)
(* the assertion of Monitor::input, for automata that are complementary    *)
(* and observations that are a timed word.                                 *)
(***************************************************************************)
NeverBothOut == Explained(runs) => \E s \in Sides : states[s] # << >>

(***************************************************************************)
(* "Observed value is smaller than valuation of global clock": what        *)
(* concrete_state_t::delay means to refuse.                                *)
(***************************************************************************)
PastIsRefused == [][last' >= last]_vars

(***************************************************************************)
(* The verdict is the promised one, an interval it refuses left aside.     *)
(***************************************************************************)
Implements == Promise!Spec
=============================================================================
