----------------------------- MODULE TimedWords ------------------------------
(***************************************************************************)
(* What a monitor is given: the automata of a property and of its          *)
(* negation, their accepting spaces, and observations.  And what the       *)
(* observations mean, by the semantics of timed automata: the runs each    *)
(* automaton can have made so far.  A monitor never sees the runs; it      *)
(* works on zones and has to agree with them.                              *)
(***************************************************************************)
EXTENDS TimedSemantics

CONSTANTS
    Setup,           \* the monitors to look at, by name: what each is given, its settings
    AcceptingSpace   \* of the automata of each of them

VARIABLE
    setup   \* the name of the one that is looked at, which never changes

Sides == {"pos", "neg"}

(***************************************************************************)
(* timed_input_t: an interval of absolute time, a label and a type.  MULTI *)
(* inputs are never built: Single_monitor refuses them with an error.      *)
(***************************************************************************)
IsInput(in, horizon) ==
    /\ in.first \in 0 .. horizon
    /\ in.second \in in.first .. horizon
    /\ in.label \in STRING
    /\ in.type \in {"ONCE", "OPTIONAL"}

\* The initial location can be entered.
CanBegin(A) == Meets([c \in A.clocks |-> 0], A.invariant[A.initial])

IsSetting(given) ==
    /\ \A s \in Sides : IsAutomaton(given.automaton[s]) /\ CanBegin(given.automaton[s])
    /\ given.horizon \in Nat
    /\ \A in \in given.inputs : IsInput(in, given.horizon)
    /\ given.inclusion \in BOOLEAN /\ given.clock_abstraction \in BOOLEAN
    /\ given.ordered \in BOOLEAN

(***************************************************************************)
(* An accepting space is what buchi_accept_fixpoint returns.  It is closed *)
(* and indifferent (SpacesAreClosed in FixpointProofs), it misses no       *)
(* configuration from which a run is accepted (MissesNoRun), and without   *)
(* invariants it has no others (ReturnsAccepting).                         *)
(***************************************************************************)
InSpace(A, S) == {p \in Configurations(A) : p.v \in Points(S[p.l])}

IsSpace(A, S) ==
    /\ S \in [A.locations -> Federations(A)]
    /\ IsClosed(A, S) /\ IsIndifferent(A, S)
    /\ BuchiConfigurations(A) \subseteq InSpace(A, S)
    /\ NoInvariants(A) => InSpace(A, S) \subseteq BuchiConfigurations(A)

ASSUME TimedWordsAssumption ==
    \A n \in DOMAIN Setup :
        /\ IsSetting(Setup[n])
        /\ \A s \in Sides : IsSpace(Setup[n].automaton[s], AcceptingSpace[n][s])

\* The assertion of Monitor's constructor: of a formula and its negation one can be satisfied.
ASSUME MismatchAssumption ==
    \A n \in DOMAIN Setup : \E s \in Sides :
        LET A == Setup[n].automaton[s]
        IN  [c \in A.clocks |-> 0] \in Points(AcceptingSpace[n][s][A.initial])

automaton == Setup[setup].automaton

accepting_space == AcceptingSpace[setup]

\* What may be observed, the latest time of it, and whether times never decrease.
Inputs == Setup[setup].inputs

Horizon == Setup[setup].horizon

Ordered == Setup[setup].ordered

\* settings_t.
Inclusion == Setup[setup].inclusion

ClockAbstraction == Setup[setup].clock_abstraction

Moment(l, x, g) == [loc |-> l, x |-> x, g |-> g]

(***************************************************************************)
(* A run is where it is, its clocks and the time.  Before any observation  *)
(* there is one.                                                           *)
(***************************************************************************)
FirstRuns(A) == {Moment(A.initial, [c \in A.clocks |-> 0], 0)}

\* The runs R at some time of the observation, before any edge.
Waited(A, R, in) ==
    {m \in {Moment(w[1].loc, Elapse(w[1].x, w[2] - w[1].g), w[2]) :
               w \in {n \in R \X (in.first .. in.second) : n[1].g <= n[2]}} :
        Meets(m.x, A.invariant[m.loc])}

Jumped(A, M, label) ==
    {Moment(j[2].to, Reset(j[1].x, j[2].reset), j[1].g) :
        j \in {n \in M \X {e \in Edges(A) : e.label = label} :
                 /\ n[2].from = n[1].loc
                 /\ Meets(n[1].x, n[2].guard)
                 /\ Meets(Reset(n[1].x, n[2].reset), A.invariant[n[2].to])}}

\* No edge is taken on the empty label and on one the automaton does not have.
Foreign(A, label) == label = "" \/ label \notin labels(A)

\* An optional observation may be spurious: then no edge was taken.
RunsAfter(A, R, in) ==
    LET M == Waited(A, R, in)
    IN  IF Foreign(A, in.label) THEN M
        ELSE IF in.type = "OPTIONAL" THEN M \cup Jumped(A, M, in.label)
        ELSE Jumped(A, M, in.label)

(***************************************************************************)
(* Some run explains the observations.  Of a property and its negation one *)
(* has a run of every timed word, so what no run explains is no timed word:*)
(* an observation has come from the past.                                  *)
(***************************************************************************)
Explained(R) == \E s \in Sides : R[s] # {}

\* The runs that the accepting space keeps.
Alive(s, R) == {r \in R : r.x \in Points(accepting_space[s][r.loc])}
=============================================================================
