------------------------------- MODULE Monitor -------------------------------
(***************************************************************************)
(* Monitor<symbolic_state_t>: a property is monitored by two automata, one *)
(* for it and one for its negation.  Each Single_monitor keeps a list of   *)
(* symbolic states, advances it with every input and is OUT when the list  *)
(* becomes empty; the verdict follows from who is OUT.                     *)
(*                                                                         *)
(* An input is handled state by state and edge by edge, in the order of    *)
(* the loops of Single_monitor::input.                                     *)
(***************************************************************************)
EXTENDS TimedWords

InactiveClocks ==
    [n \in DOMAIN Setup |->
        [s \in Sides |->
            LET A == Setup[n].automaton[s]
            IN  compute_inactive_clocks(A, Cardinality(A.locations) * Cardinality(A.clocks))]]

inactive_clocks == InactiveClocks[setup]

VARIABLES
    states,     \* _current_states of each Single_monitor
    status,     \* _status of each Single_monitor
    verdict,    \* _status of the Monitor
    input,      \* the input being handled, << >> between inputs
    side,       \* the Single_monitor that is handling it
    todo,       \* current states it has not looked at yet
    source,     \* the state it looks at, delayed: s
    moved,      \* the copy its edges are tried on: state
    edges,      \* the edges of s with the input's label not tried yet
    next,       \* next_states
    runs,       \* history: the runs the observations allow, without zones
    last        \* history: time of the last input

working == <<todo, source, moved, edges, next>>
vars == <<setup, states, status, verdict, input, side, working, runs, last>>

-----------------------------------------------------------------------------
(***************************************************************************)
(* symbolic_state_t: a grid point has the valuation of the automaton's     *)
(* clocks and the reading of the global clock, which is absolute time.     *)
(***************************************************************************)
At(p, t) == [x |-> Elapse(p.x, t - p.g), g |-> t]

\* Fault: the beginning of the interval is not required.
delay_NoBegin(F, in) ==
    {{At(m[1], m[2]) : m \in {n \in Z \X (0 .. in.second) : n[1].g <= n[2]}} :
        Z \in F} \ {{}}

\* Fault: the end of the interval is left out.
delay_OpenEnd(F, in) ==
    {{At(m[1], m[2]) : m \in {n \in Z \X (in.first .. in.second - 1) : n[1].g <= n[2]}} :
        Z \in F} \ {{}}

delay(F, in) ==
    {{At(m[1], m[2]) : m \in {n \in Z \X (in.first .. in.second) : n[1].g <= n[2]}} :
        Z \in F} \ {{}}

restrict_state(F, constraints) ==
    {{p \in Z : Meets(p.x, constraints)} : Z \in F} \ {{}}

intersection(F, G) == {{p \in Z : p.x \in W} : Z \in F, W \in G} \ {{}}

free_state(A, F, R) ==
    {{q \in [x : Valuations(A), g : 0 .. Horizon] :
         \E p \in Z : q.g = p.g /\ \A c \in A.clocks \ R : q.x[c] = p.x[c]} : Z \in F}

\* Fault: the resets of an edge are forgotten.
do_transition_NoReset(F, e) == restrict_state(F, e.guard)

\* do_transition: the guard, then the resets; {} when the guard fails.
do_transition(F, e) ==
    {{[x |-> Reset(p.x, e.reset), g |-> p.g] : p \in Z} : Z \in restrict_state(F, e.guard)}

-----------------------------------------------------------------------------
(***************************************************************************)
(* next_states is kept in the order of push_back: "at" numbers its entries.*)
(***************************************************************************)
Entry(l, F, n) == [loc |-> l, fed |-> F, at |-> n]

Last(S) == IF S = {} THEN 0 ELSE CHOOSE n \in {r.at : r \in S} : \A r \in S : r.at <= n

First(S) == CHOOSE r \in S : \A q \in S : r.at <= q.at

\* Freeing the inactive clocks, which happens under inclusion only.
abstracted(s, l, F) ==
    IF Inclusion /\ ClockAbstraction
    THEN free_state(automaton[s], F, inactive_clocks[s][l])
    ELSE F

\* Fault: a new state replaces the location's other states without comparison.
AddState_Overwrite(S, l, F) ==
    IF F = {} THEN S ELSE {r \in S : r.loc # l} \cup {Entry(l, F, Last(S) + 1)}

\* The block that decides whether a state is added and whom it replaces.
AddState(S, l, F) ==
    LET same == {r \in S : r.loc = l}
        add == Inclusion => \A r \in same : ~is_included_in(F, r.fed)
        replace == Inclusion => \A r \in same : is_included_in(r.fed, F)
        kept == IF replace THEN S \ same ELSE S
    IN  IF F # {} /\ (add \/ replace) THEN kept \cup {Entry(l, F, Last(S) + 1)} ELSE S

NoState(s) == [loc |-> automaton[s].initial, fed |-> {}]

\* The constructor: the initial state, if the accepting space has it.
initial_states(s) ==
    LET A == automaton[s]
        zero == [x |-> [c \in A.clocks |-> 0], g |-> 0]
        F == intersection({{zero}}, accepting_space[s][A.initial])
    IN  IF F = {} THEN {} ELSE {Entry(A.initial, F, 1)}

StatusOf(S) == IF S = {} THEN "OUT" ELSE "ACTIVE"

Init ==
    /\ setup \in DOMAIN Setup
    /\ states = [s \in Sides |-> initial_states(s)]
    /\ status = [s \in Sides |-> StatusOf(initial_states(s))]
    /\ verdict = IF initial_states("pos") = {} THEN "NEGATIVE"
                 ELSE IF initial_states("neg") = {} THEN "POSITIVE"
                 ELSE "INCONCLUSIVE"
    /\ input = << >>
    /\ side = "pos"
    /\ todo = {} /\ next = {} /\ edges = {}
    /\ source = NoState("pos") /\ moved = NoState("pos")
    /\ runs = [s \in Sides |-> FirstRuns(automaton[s])]
    /\ last = [first |-> 0, second |-> 0]

-----------------------------------------------------------------------------
(***************************************************************************)
(* Single_monitor::input.                                                  *)
(***************************************************************************)
Begin(s) ==
    /\ side' = s
    /\ todo' = states[s]
    /\ next' = {} /\ edges' = {}
    /\ source' = NoState(s) /\ moved' = NoState(s)

\* Monitor::input is called; the positive monitor goes first.
Receive(in) ==
    /\ input = << >>
    /\ Ordered => last.first <= in.first /\ last.second <= in.second
    /\ input' = <<in>>
    /\ last' = [first |-> in.first, second |-> in.second]
    /\ Begin("pos")
    /\ UNCHANGED <<states, status, verdict, runs>>

Busy == input # << >>

Unobservable == Foreign(automaton[side], input[1].label)

\* Fault: time passes beyond the invariant.
Delayed_NoInvariant(s) == delay(s.fed, input[1])

\* The state s, delayed to the time of the input and within its invariant.
Delayed(s) ==
    restrict_state(delay(s.fed, input[1]), automaton[side].invariant[s.loc])

Accepted(l, F) == abstracted(side, l, intersection(F, accepting_space[side][l]))

\* The label is empty or not one of the automaton's: time passes, no edge.
OnlyDelay ==
    /\ Busy /\ edges = {} /\ todo # {} /\ Unobservable
    /\ LET s == First(todo)
       IN  /\ todo' = todo \ {s}
           /\ next' = AddState(next, s.loc, Accepted(s.loc, Delayed(s)))
    /\ UNCHANGED <<states, status, verdict, input, side, source, moved, edges, runs, last>>

\* Fault: the loop over the edges ends at the first with the label.
EdgesOf_First(s) ==
    LET E == automaton[side].edges
        matching == {i \in DOMAIN E : E[i].from = s.loc /\ E[i].label = input[1].label}
    IN  {i \in matching : \A j \in matching : i <= j}

EdgesOf(s) ==
    LET E == automaton[side].edges
    IN  {i \in DOMAIN E : E[i].from = s.loc /\ E[i].label = input[1].label}

\* Fault: an optional input is handled as a certain one.
Delay_NotOptional ==
    /\ Busy /\ edges = {} /\ todo # {} /\ ~Unobservable
    /\ LET s == First(todo)
       IN  /\ todo' = todo \ {s}
           /\ source' = [loc |-> s.loc, fed |-> Delayed(s)]
           /\ edges' = IF Delayed(s) = {} THEN {} ELSE EdgesOf(s)
           /\ moved' = source'
           /\ next' = next
    /\ UNCHANGED <<states, status, verdict, input, side, runs, last>>

\* The label is known: the state is delayed and its edges are to be tried.
Delay ==
    /\ Busy /\ edges = {} /\ todo # {} /\ ~Unobservable
    /\ LET s == First(todo)
           F == Delayed(s)
           stay == Accepted(s.loc, F)
       IN  /\ todo' = todo \ {s}
           /\ source' = [loc |-> s.loc, fed |-> F]
           /\ edges' = IF F = {} THEN {} ELSE EdgesOf(s)
           /\ \/ /\ input[1].type = "ONCE"
                 /\ moved' = [loc |-> s.loc, fed |-> F]
                 /\ next' = next
              \/ /\ input[1].type = "OPTIONAL"
                 /\ moved' = [loc |-> s.loc, fed |-> stay]
                 /\ next' = AddState(next, s.loc, stay)
    /\ UNCHANGED <<states, status, verdict, input, side, runs, last>>

\* Fault: the copy is not made s again.
TakeEdge_NoRestore ==
    /\ Busy /\ edges # {}
    /\ LET i == CHOOSE n \in edges : \A m \in edges : n <= m
           e == automaton[side].edges[i]
           F == restrict_state(do_transition(moved.fed, e), automaton[side].invariant[e.to])
       IN  /\ next' = AddState(next, e.to, Accepted(e.to, F))
           /\ edges' = edges \ {i}
           /\ moved' = IF F = {} THEN moved ELSE [loc |-> e.to, fed |-> F]
    /\ UNCHANGED <<states, status, verdict, input, side, todo, source, runs, last>>

\* One edge is tried on the copy, and the copy is s again afterwards.
TakeEdge ==
    /\ Busy /\ edges # {}
    /\ LET i == CHOOSE n \in edges : \A m \in edges : n <= m
           e == automaton[side].edges[i]
           F == restrict_state(do_transition(moved.fed, e), automaton[side].invariant[e.to])
       IN  /\ next' = AddState(next, e.to, Accepted(e.to, F))
           /\ edges' = edges \ {i}
    /\ moved' = source
    /\ UNCHANGED <<states, status, verdict, input, side, todo, source, runs, last>>

Store ==
    /\ Busy /\ edges = {} /\ todo = {}
    /\ states' = [states EXCEPT ![side] = next]
    /\ status' = [status EXCEPT ![side] = StatusOf(next)]

PositiveDone ==
    /\ side = "pos"
    /\ Store
    /\ side' = "neg"
    /\ todo' = states["neg"]
    /\ next' = {} /\ edges' = {}
    /\ source' = NoState("neg") /\ moved' = NoState("neg")
    /\ UNCHANGED <<verdict, input, runs, last>>

AnswerGiven ==
    /\ side = "neg"
    /\ Store
    /\ input' = << >>
    /\ side' = "pos"
    /\ todo' = {} /\ next' = {} /\ edges' = {}
    /\ source' = NoState("pos") /\ moved' = NoState("pos")
    /\ runs' = [s \in Sides |-> RunsAfter(automaton[s], runs[s], input[1])]
    /\ UNCHANGED last

\* Fault: only the positive monitor counts.
NegativeDone_OneSided ==
    /\ AnswerGiven
    /\ verdict' = IF status["pos"] = "OUT" THEN "NEGATIVE" ELSE verdict

\* Both single monitors have answered: the verdict, as a release build gives it.
NegativeDone ==
    /\ AnswerGiven
    /\ verdict' = IF next = {} THEN "POSITIVE"
                  ELSE IF status["pos"] = "OUT" THEN "NEGATIVE"
                  ELSE verdict

Next ==
    /\ \/ \E in \in Inputs : Receive(in)
       \/ OnlyDelay \/ Delay \/ TakeEdge \/ PositiveDone \/ NegativeDone
    /\ UNCHANGED setup

Spec == Init /\ [][Next]_vars
-----------------------------------------------------------------------------
(***************************************************************************)
(* Types.                                                                  *)
(***************************************************************************)
Promise == INSTANCE OnlineVerdict

StatesOf(s) ==
    [loc : automaton[s].locations,
     fed : SUBSET (SUBSET [x : Valuations(automaton[s]), g : 0 .. Horizon]),
     at : Nat]

CopiesOf(s) ==
    [loc : automaton[s].locations,
     fed : SUBSET (SUBSET [x : Valuations(automaton[s]), g : 0 .. Horizon])]

TypeOK ==
    /\ setup \in DOMAIN Setup
    /\ \A s \in Sides : states[s] \subseteq StatesOf(s)
    /\ status \in [Sides -> {"ACTIVE", "OUT"}]
    /\ verdict \in {"INCONCLUSIVE", "POSITIVE", "NEGATIVE"}
    /\ input \in {<< >>} \cup {<<in>> : in \in Inputs}
    /\ side \in Sides
    /\ todo \subseteq states[side]
    /\ next \subseteq StatesOf(side)
    /\ source \in CopiesOf(side) /\ moved \in CopiesOf(side)
    /\ edges \subseteq DOMAIN automaton[side].edges
    /\ last.first \in 0 .. Horizon /\ last.second \in 0 .. Horizon

(***************************************************************************)
(* No run is lost: between inputs, every run the observations allow and    *)
(* that the accepting space keeps is in the state estimate, however the    *)
(* states of a location were merged, replaced and abstracted.  Without     *)
(* inclusion a location keeps one state, and runs are lost.                *)
(***************************************************************************)
Estimates(s, S, r) ==
    \E e \in S : e.loc = r.loc /\ \E Z \in e.fed : [x |-> r.x, g |-> r.g] \in Z

NoRunLost == ~Busy /\ Inclusion =>
    \A s \in Sides : \A r \in Alive(s, runs[s]) : Estimates(s, states[s], r)

(***************************************************************************)
(* No run is invented: a point of the state estimate is a run, up to the   *)
(* clocks that clock abstraction has freed.                                *)
(***************************************************************************)
Freed(s, l) == IF Inclusion /\ ClockAbstraction THEN inactive_clocks[s][l] ELSE {}

NoRunInvented == ~Busy =>
    \A s \in Sides : \A e \in states[s] : \A Z \in e.fed : \A p \in Z :
        \E r \in runs[s] : /\ r.loc = e.loc
                           /\ r.g = p.g
                           /\ \A c \in automaton[s].clocks \ Freed(s, e.loc) : r.x[c] = p.x[c]

(***************************************************************************)
(* "Error: Mismatch between positive and negative automata. Both are out": *)
(* the assertion of Monitor::input, for automata that are complementary    *)
(* and observations that are a timed word.                                 *)
(***************************************************************************)
NeverBothOut == ~Busy /\ Explained(runs) => \E s \in Sides : status[s] = "ACTIVE"

(***************************************************************************)
(* The verdict is right, by the runs: the promise of the README, as a      *)
(* state predicate.                                                        *)
(***************************************************************************)
VerdictIsExact == ~Busy => verdict = Promise!Judge(runs)

(***************************************************************************)
(* "MoniTAal can monitor whether all infinite extensions of a finite timed *)
(* word satisfy an MITL property" (MoniTAal README), by the runs and not   *)
(* by the accepting space: what a verdict rules out has no run that can be *)
(* continued to an accepted one.                                           *)
(***************************************************************************)
AcceptedFrom ==
    [n \in DOMAIN Setup |-> [s \in Sides |-> BuchiConfigurations(Setup[n].automaton[s])]]

HasFuture(s) == \E r \in runs[s] : [l |-> r.loc, v |-> r.x] \in AcceptedFrom[setup][s]

VerdictIsJust == ~Busy /\ Inclusion =>
    /\ verdict = "POSITIVE" => ~HasFuture("neg")
    /\ verdict = "NEGATIVE" => ~HasFuture("pos")

(***************************************************************************)
(* And the verdict does not wait: as long as the monitor answers           *)
(* INCONCLUSIVE, an automaton without invariants has such a run.           *)
(***************************************************************************)
VerdictIsPrompt == ~Busy /\ Inclusion /\ verdict = "INCONCLUSIVE" =>
    \A s \in Sides : NoInvariants(automaton[s]) => HasFuture(s)

VerdictIsRight == VerdictIsJust /\ VerdictIsPrompt

(***************************************************************************)
(* The monitor implements the promise: its loops over states and edges     *)
(* amount, from call to call, to one observation with the right answer.    *)
(***************************************************************************)
Implements == Promise!Spec
=============================================================================
