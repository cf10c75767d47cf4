--------------------------- MODULE MonitorSession ----------------------------
(***************************************************************************)
(* MonitorSession: what stands between the events of a run and the two     *)
(* consumers of feedback, the log and the fuzzer.  It drives an interval   *)
(* monitor and, beside it, a concrete one that it gives up when it cannot  *)
(* follow, and derives a frame of feedback from both after every event.    *)
(*                                                                         *)
(* The monitors are seen as the session sees them: by the locations of     *)
(* their states, their answer and the slacks of the concrete states.       *)
(* Monitor and ConcreteMonitor model what they do.                         *)
(***************************************************************************)
EXTENDS Integers, FiniteSets, Sequences, SequencesExt

CONSTANTS
    IgnoreUnknown,  \* ignore_unknown_propositions
    Channels,       \* enabled_channels
    Threshold,      \* near_deadline_threshold_ms
    Locations,      \* what a state of the positive or the negative monitor is in
    Obligated,      \* the locations with an obligation_phase_mask
    SlackLists,     \* slacks of the concrete states' constraints, in their order
    MaxEvents       \* bound on the steps of a session

ASSUME SessionAssumption ==
    /\ IgnoreUnknown \in BOOLEAN
    /\ Threshold \in Nat /\ MaxEvents \in Nat
    /\ IsFiniteSet(Locations) /\ Obligated \subseteq Locations
    /\ SlackLists \subseteq Seq(Int)

VARIABLES
    backend,        \* _backend
    anchored,       \* _anchored
    frontier,       \* the locations of the interval monitor's states, by side
    answer,         \* its _status
    concrete,       \* _concrete_monitor has a value
    last_verdict,
    next_event_index,
    visits,         \* _frontier_visit_counts
    last_active,    \* _last_active_obligation_count
    seen_bins,      \* _seen_progress_bins
    frame,          \* what the last step returned
    fed,            \* history: inputs each monitor has handled
    slacks,         \* history: what the last frame's slack was computed from
    total           \* history: sums over all frames, their verdicts and the anchor's

monitors == <<frontier, answer, concrete, fed>>
memory == <<next_event_index, visits, last_active, seen_bins, frame, slacks, total>>
vars == <<backend, anchored, last_verdict, monitors, memory>>

Verdicts == {"INCONCLUSIVE", "POSITIVE", "NEGATIVE"}

Frontiers == [pos : SUBSET Locations, neg : SUBSET Locations]

(***************************************************************************)
(* The interval monitor.  A side without states stays without: it is OUT.  *)
(* Nothing keeps one of the two sides in: the session builds its monitors  *)
(* with default settings, under which a side loses runs (run               *)
(* monitor_default), and "Both are out" is an assertion only.  Then the    *)
(* positive answer is the last one Monitor::input assigns, and the         *)
(* negative one goes first in BddMonitor::input and in both constructors.  *)
(***************************************************************************)
Constructed(F) ==
    IF F.pos = {} THEN "NEGATIVE" ELSE IF F.neg = {} THEN "POSITIVE" ELSE "INCONCLUSIVE"

Answered(b, old, F) ==
    IF F.neg = {} /\ (b = "projected" \/ F.pos # {}) THEN "POSITIVE"
    ELSE IF F.pos = {} THEN "NEGATIVE"
    ELSE old

Follows(F, G) ==
    /\ F.pos = {} => G.pos = {}
    /\ F.neg = {} => G.neg = {}

(***************************************************************************)
(* Events: a point or an interval of time, with propositions the alphabet  *)
(* has, or not all of which it has, or that are not a list of names.       *)
(***************************************************************************)
Events == [point : BOOLEAN, propositions : {"known", "unknown", "malformed"}]

\* encode_proposition_set returns and does not throw.
Encodes(e) == e.propositions = "known" \/ (e.propositions = "unknown" /\ IgnoreUnknown)

-----------------------------------------------------------------------------
(***************************************************************************)
(* Feedback.                                                               *)
(***************************************************************************)
\* Fault: the first slack stays.
accumulate_First(sum, slack) ==
    [min |-> IF sum.min < 0 THEN slack ELSE sum.min,
     violated |-> sum.violated + (IF slack < 0 THEN 1 ELSE 0),
     near |-> sum.near + (IF slack \in 0 .. Threshold THEN 1 ELSE 0)]

\* accumulate_constraints_slack: -1 stands for "none yet".
accumulate(sum, slack) ==
    [min |-> IF sum.min < 0 \/ slack < sum.min THEN slack ELSE sum.min,
     violated |-> sum.violated + (IF slack < 0 THEN 1 ELSE 0),
     near |-> sum.near + (IF slack \in 0 .. Threshold THEN 1 ELSE 0)]

NoSlack == [min |-> -1, violated |-> 0, near |-> 0]

Summary(list) == FoldLeft(accumulate, NoSlack, list)

classify_boundary(sum, F) ==
    IF sum.violated > 0 THEN "CrossedDeadline"
    ELSE IF sum.min \in 0 .. Threshold
         THEN IF F.pos # {} /\ F.neg # {} THEN "AmbiguityBand" ELSE "NearDeadline"
    ELSE IF F.pos # {} \/ F.neg # {} THEN "SafeInterior"
    ELSE "Unknown"

progress_bin_for(verdict, boundary) ==
    IF verdict = "POSITIVE" THEN 3
    ELSE IF verdict = "NEGATIVE" THEN 4
    ELSE IF boundary \in {"AmbiguityBand", "NearDeadline"} THEN 2
    ELSE 1

\* One state of each side in a location; both sides count.
Active(F) == Cardinality(F.pos \cap Obligated) + Cardinality(F.neg \cap Obligated)

\* Fault: that there are more is counted, not how many.
Excess_One(a, b) == IF a > b THEN 1 ELSE 0

Excess(a, b) == IF a > b THEN a - b ELSE 0

\* recommended_gap_delta_ms.
GapDelta(sum, boundary) ==
    IF sum.min > 1 THEN sum.min \div 2
    ELSE IF boundary = "CrossedDeadline" THEN -1
    ELSE 0

Visits(s) == IF s \in DOMAIN visits THEN visits[s] ELSE 0

novel(F) == Visits(F) = 0

\* Fault: a bin is announced whenever it is reached.
fresh_bins_All(bin) == {bin}

fresh_bins(bin) == {bin} \ seen_bins

\* Fault: every negative frame counts as an expiry.
expires_Always(before, verdict) == verdict = "NEGATIVE"

expires(before, verdict) == before = "INCONCLUSIVE" /\ verdict = "NEGATIVE"

\* The groups of a frame before anything is known, and with their channel off.
Silent ==
    [Frontier |-> [pos |-> 0, neg |-> 0, novelty |-> FALSE],
     Zone |-> [min |-> -1, exact |-> FALSE, boundary |-> "Unknown", violated |-> 0, near |-> 0],
     Obligation |-> [active |-> 0, opened |-> 0, satisfied |-> 0, expired |-> 0],
     PropertyProgress |-> [bins |-> << >>, fresh |-> {}],
     MutationHint |-> [gap |-> 0, retry |-> FALSE, silence |-> FALSE]]

filter(feedback) ==
    [c \in DOMAIN feedback |-> IF c \in Channels THEN feedback[c] ELSE Silent[c]]

Frame(index, verdict, feedback) ==
    [index |-> index, verdict |-> verdict, feedback |-> feedback]

\* What the step derives from the frontier F and the slacks, if it has any.
Feedback(before, verdict, F, exact, list) ==
    LET sum == IF exact THEN Summary(list) ELSE NoSlack
        boundary == classify_boundary(sum, F)
        bin == progress_bin_for(verdict, boundary)
    IN  [Frontier |-> [pos |-> Cardinality(F.pos), neg |-> Cardinality(F.neg),
                       novelty |-> novel(F)],
         Zone |-> [min |-> sum.min, exact |-> exact, boundary |-> boundary,
                   violated |-> sum.violated, near |-> sum.near],
         Obligation |->
            [active |-> Active(F),
             opened |-> Excess(Active(F), last_active),
             satisfied |-> Excess(last_active, Active(F)),
             expired |-> IF expires(before, verdict) THEN 1 ELSE 0],
         PropertyProgress |-> [bins |-> <<bin>>, fresh |-> fresh_bins(bin)],
         MutationHint |->
            [gap |-> GapDelta(sum, boundary),
             retry |-> verdict = "NEGATIVE" \/ boundary \in {"NearDeadline", "AmbiguityBand"},
             silence |-> boundary = "AmbiguityBand"]]
-----------------------------------------------------------------------------
NothingYet ==
    [frames |-> 0, opened |-> 0, satisfied |-> 0, expired |-> 0, novel |-> 0,
     fresh |-> 0, bins |-> {}, anchor |-> "INCONCLUSIVE", verdicts |-> {}]

\* The constructor: the monitors exist, the anchor has not been observed.
Init ==
    /\ backend \in {"projected", "native"}
    /\ anchored = FALSE
    /\ frontier \in Frontiers
    /\ answer = Constructed(frontier)
    /\ concrete \in (IF backend = "projected" THEN BOOLEAN ELSE {FALSE})
    /\ last_verdict = "INCONCLUSIVE"
    /\ next_event_index = 0
    /\ visits = << >>
    /\ last_active = 0
    /\ seen_bins = {}
    /\ frame = Frame(0, "INCONCLUSIVE", Silent)
    /\ fed = [interval |-> 0, concrete |-> 0]
    /\ slacks = << >>
    /\ total = NothingYet

(***************************************************************************)
(* ensure_anchor, which step calls first: the empty proposition set at     *)
(* time 0 goes to both monitors.  G is the frontier after it.              *)
(***************************************************************************)
anchor_frontier(G) == IF anchored THEN G = frontier ELSE Follows(frontier, G)

anchor_verdict(G) == IF anchored THEN last_verdict ELSE Answered(backend, answer, G)

anchor_inputs == IF anchored THEN 0 ELSE 1

\* History: the verdict the anchor alone gave.
Marked(sums, G) == [sums EXCEPT !.anchor = IF anchored THEN @ ELSE Answered(backend, answer, G)]

\* The event has no encoding: step throws, and only the anchor has happened.
Reject(e, G) ==
    /\ ~Encodes(e)
    /\ anchor_frontier(G)
    /\ anchored' = TRUE
    /\ frontier' = G
    /\ last_verdict' = anchor_verdict(G)
    /\ answer' = Answered(backend, answer, G)
    /\ fed' = [interval |-> fed.interval + anchor_inputs,
               concrete |-> fed.concrete + (IF concrete THEN anchor_inputs ELSE 0)]
    /\ total' = Marked(total, G)
    /\ UNCHANGED <<concrete, next_event_index, visits, last_active, seen_bins, frame, slacks, backend>>

\* The concrete monitor has handled the event.
handles(e, fails) == concrete /\ e.point /\ ~fails

\* Fault: an event that is not a point is not shown to the concrete monitor.
keeps_Intervals(e, fails) == concrete /\ ~fails

\* It is dropped when it throws or the event is not a point.
keeps(e, fails) == concrete /\ e.point /\ ~fails

Accumulated(verdict, f) ==
    [total EXCEPT !.frames = @ + 1,
                  !.verdicts = @ \cup {verdict},
                  !.opened = @ + f.Obligation.opened,
                  !.satisfied = @ + f.Obligation.satisfied,
                  !.expired = @ + f.Obligation.expired,
                  !.novel = @ + (IF f.Frontier.novelty THEN 1 ELSE 0),
                  !.fresh = @ + Cardinality(f.PropertyProgress.fresh),
                  !.bins = @ \cup {f.PropertyProgress.bins[i] :
                                      i \in DOMAIN f.PropertyProgress.bins}]

(***************************************************************************)
(* step on the projected backend.  G is the frontier after the anchor, F   *)
(* the one after the event; "fails" when the concrete monitor throws.      *)
(***************************************************************************)
Step(e, G, F, list, fails) ==
    LET verdict == Answered(backend, Answered(backend, answer, G), F)
        exact == keeps(e, fails)
        feedback == Feedback(anchor_verdict(G), verdict, F, exact, list)
        sent == filter(feedback)
    IN  /\ backend = "projected" /\ Encodes(e) /\ next_event_index < MaxEvents
        /\ anchor_frontier(G) /\ Follows(G, F)
        /\ list = << >> \/ exact
        /\ anchored' = TRUE
        /\ frontier' = F
        /\ answer' = verdict /\ last_verdict' = verdict
        /\ concrete' = exact
        /\ fed' = [interval |-> fed.interval + anchor_inputs + 1,
                   concrete |-> fed.concrete + (IF concrete THEN anchor_inputs ELSE 0)
                                             + (IF handles(e, fails) THEN 1 ELSE 0)]
        /\ visits' = [f \in DOMAIN visits \cup {F} |-> IF f = F THEN Visits(F) + 1 ELSE visits[f]]
        /\ last_active' = Active(F)
        /\ seen_bins' = seen_bins \cup {progress_bin_for(verdict, feedback.Zone.boundary)}
        /\ frame' = Frame(next_event_index, verdict, sent)
        /\ next_event_index' = next_event_index + 1
        /\ slacks' = list
        /\ UNCHANGED backend
        /\ total' = Marked(Accumulated(verdict, sent), G)

\* step on the native backend: a verdict and no feedback.
StepNative(e, G, F) ==
    LET verdict == Answered(backend, Answered(backend, answer, G), F)
    IN  /\ backend = "native" /\ Encodes(e) /\ next_event_index < MaxEvents
        /\ anchor_frontier(G) /\ Follows(G, F)
        /\ anchored' = TRUE
        /\ frontier' = F
        /\ answer' = verdict /\ last_verdict' = verdict
        /\ fed' = [fed EXCEPT !.interval = @ + anchor_inputs + 1]
        /\ frame' = Frame(next_event_index, verdict, Silent)
        /\ next_event_index' = next_event_index + 1
        /\ total' = Marked(Accumulated(verdict, Silent), G)
        /\ UNCHANGED <<concrete, visits, last_active, seen_bins, slacks, backend>>

Next == \E e \in Events : \E G \in Frontiers :
    \/ Reject(e, G)
    \/ \E F \in Frontiers :
          \/ StepNative(e, G, F)
          \/ \E list \in SlackLists, fails \in BOOLEAN : Step(e, G, F, list, fails)

Spec == Init /\ [][Next]_vars
-----------------------------------------------------------------------------
(***************************************************************************)
(* Types.                                                                  *)
(***************************************************************************)
Feedbacks ==
    [Frontier : [pos : Nat, neg : Nat, novelty : BOOLEAN],
     Zone : [min : Int, exact : BOOLEAN, violated : Nat, near : Nat,
             boundary : {"Unknown", "SafeInterior", "NearDeadline", "CrossedDeadline",
                         "AmbiguityBand"}],
     Obligation : [active : Nat, opened : Nat, satisfied : Nat, expired : {0, 1}],
     PropertyProgress : [bins : Seq(1 .. 4), fresh : SUBSET (1 .. 4)],
     MutationHint : [gap : Int, retry : BOOLEAN, silence : BOOLEAN]]

TypeOK ==
    /\ backend \in {"projected", "native"}
    /\ anchored \in BOOLEAN /\ concrete \in BOOLEAN
    /\ frontier \in Frontiers
    /\ answer \in Verdicts /\ last_verdict \in Verdicts
    /\ next_event_index \in 0 .. MaxEvents
    /\ DOMAIN visits \subseteq Frontiers /\ \A f \in DOMAIN visits : visits[f] \in Nat
    /\ last_active \in Nat
    /\ seen_bins \subseteq 1 .. 4
    /\ frame.verdict \in Verdicts /\ frame.feedback \in Feedbacks
    /\ fed \in [interval : Nat, concrete : Nat]

(***************************************************************************)
(* The two monitors are in step: as long as the session has a concrete     *)
(* monitor it has handled every input the interval monitor has, rejected   *)
(* events, intervals and exceptions notwithstanding.  So an exact slack    *)
(* is one of the event its frame is about.                                 *)
(***************************************************************************)
InStep == concrete => fed.concrete = fed.interval

(***************************************************************************)
(* The books balance: what the frames reported as opened and not as        *)
(* satisfied is what is active now, although the frontier of the anchor    *)
(* is reported in no frame (the comparison with                            *)
(* _last_active_obligation_count).                                         *)
(***************************************************************************)
ObligationsBalance ==
    "Obligation" \in Channels =>
        total.opened - total.satisfied = last_active

(***************************************************************************)
(* Coverage is neither lost nor counted twice: property_coverage_delta     *)
(* adds up to the bins the frames have shown.                              *)
(***************************************************************************)
CoverageCountsOnce ==
    "PropertyProgress" \in Channels => total.fresh = Cardinality(total.bins)

(***************************************************************************)
(* A frontier is novel once in a session: the fuzzer is not rewarded for   *)
(* going back and forth between two of them (_frontier_visit_counts).      *)
(***************************************************************************)
NoveltyCountsOnce ==
    "Frontier" \in Channels => total.novel = Cardinality(DOMAIN visits)

(***************************************************************************)
(* An expiry is reported once, by the first frame that decided against the *)
(* property, and by none when the anchor did before any event, however     *)
(* often the answer changes afterwards.  It is contradicted later only     *)
(* when the other side has gone out as well: then the monitor answers      *)
(* POSITIVE and stays with it (step, expired_now; Monitor::input).         *)
(***************************************************************************)
BothOut == frontier.pos = {} /\ frontier.neg = {}

ExpiryCountsOnce ==
    backend = "projected" /\ "Obligation" \in Channels =>
        /\ total.expired = IF "NEGATIVE" \in total.verdicts /\ total.anchor # "NEGATIVE"
                           THEN 1 ELSE 0
        /\ total.expired = 1 /\ last_verdict # "NEGATIVE" =>
              last_verdict = "POSITIVE" /\ BothOut

(***************************************************************************)
(* Without a violated constraint the reported slack is the least one.      *)
(***************************************************************************)
Least(n, list) ==
    /\ \E i \in DOMAIN list : list[i] = n
    /\ \A i \in DOMAIN list : n <= list[i]

SlackIsLeast ==
    LET zone == frame.feedback.Zone
    IN  zone.exact /\ zone.violated = 0 /\ slacks # << >> => Least(zone.min, slacks)

(***************************************************************************)
(* min_slack_ms is the minimum of the slacks, as its name says in          *)
(* bizonefuzzpp_architecture.md, and negative past a deadline, as in the   *)
(* example of rvem_schema.md.                                              *)
(***************************************************************************)
MinSlackIsMinimum ==
    LET zone == frame.feedback.Zone
    IN  zone.exact /\ slacks # << >> => Least(zone.min, slacks)
=============================================================================
