# TARV, specified

TARV watches a program's timed events for violations of a metric temporal
property and feeds what it sees back to a fuzzer. This directory holds TLA+
modules of its monitoring core and of the fuzzer's campaign around it, TLC
configurations that check them on small instances, and TLAPS proofs about them.

## 1. The system

### Components

| component | state | operations | status |
| --- | --- | --- | --- |
| Timed automata (`MoniTAal/src/monitaal/TA.*`, `Parser.cpp`) | locations, edges by source and target, invariants, guards, resets, labels, inactive clocks; constant after construction | `parse_*`, `edges_to/from`, `compute_inactive_clocks` | partly |
| Products and time divergence (`TAwithBDDEdges.cpp`; `TA.cpp`) | locations of the product, the component waited for | `intersection`, `time_divergence_ta`, `projection_concrete` | partly |
| Symbolic states (`symbolic_state_base.*`, `state.*`) | a location and a federation of zones; the last clock is absolute time | `delay`, `down`, `restrict`, `free`, `do_transition`, `do_transition_backward`, `intersection`, `relation`, `is_included_in` | interval and concrete states |
| State map (`symbolic_state_map_t`) | one state per location | `insert`, `remove`, `at`, `has_state`, `equals` | modelled |
| Buchi fixpoint (`Fixpoint.*`, `MightyPPL/BddFixpoint.h`) | worklist, passed map, two approximations | `reach`, `accept_states`, `buchi_accept_fixpoint` | modelled |
| Interval monitor (`Monitor.*`) | per automaton: current states, accepting space, ACTIVE or OUT; a verdict | constructors, `Single_monitor::input`, `Monitor::input` | modelled |
| Concrete monitor (`Monitor<concrete_state_t>`) | the same loops over single valuations, clocks of 32 bits | the same | modelled |
| Delay and testing monitors | the same loops over zones with latency and jitter clocks | the same | planned |
| Native BDD monitor (`BddRuntimeMonitor.*`) | as the interval monitor, letters are valuations of propositions | the same | planned |
| Monitor session (`MightyPPLMonitor.*`) | an interval monitor, a concrete one it may drop, anchor flag, event index, novelty counts, last obligations, progress bins | `ensure_anchor`, `step` | modelled, less hashes and texts |
| Event parsing, codecs, feedback log | line counters | text in, text out | not modelled |
| Command line tools (`monitaal-bin/main.cpp`, `mitppl-monitor.cpp`) | event counter | loops over a stream | planned (termination) |
| Formula compiler (`MightyPPL.cpp`, the visitors, the tester automata) | a formula tree, BDD variables | rewrite, number, label, build testers, compile, project | partly |
| Seed corpus and scheduling (`aflnet/afl-fuzz.c`) | queue entries with their regions, `top_rated`, `virgin_bits`, the counts of pending seeds; `ipsm`, `khs_ipsm_paths`, `khms_states`, `state_ids`, `was_fuzzed_map` | `perform_dry_run`, `choose_target_state`, `choose_seed`, the head of `fuzz_one`, `save_if_interesting`, `update_state_aware_variables`, `update_bitmap_score`, `cull_queue`, `sync_fuzzers` | partly |
| Fork server and executions (`run_target`, `handle_timeout`, `handle_stop_sig`, `llvm_mode/afl-llvm-rt.o.c`) | `child_pid`, `child_timed_out`, `prev_timed_out`, `stop_soon`, the interval timer, two pipes; the fork server's `child_pid` and `child_stopped`; processes | an execution, an alarm, a stop signal, fork, continue, wait | partly |
| Message list (`klist.h`, `construct_kl_messages`, `common_fuzz_stuff`) | nodes, links and pool of `kl_messages`, `M2_prev`, `M2_next` | construct, push, relink, free, send, delete | modelled |
| Timing plan and delivery (`bizone_prepare_timing_plan`, `send_over_network`, `build_bizone_event_trace`, `aflnet.c`) | the plan, `messages_sent`, `response_buf_size`, `response_bytes`, the timing trace, the hints | plan, connect, send, receive, trace, keep | partly |
| Mutation stages, statistics, files of a campaign | - | `havoc`, `splice`, dictionaries, status screen | not modelled |
| Request and response parsers (`aflnet.c`) | - | one pair of functions per protocol | not modelled |
| profuzzbench, scripts, benchmarks | - | - | not modelled |

### How they interact

The compiler (or the XML parser) builds two automata, one for the property and
one for its negation, which is the property's text in `!(...)`. It rewrites a formula
into negation normal form as text, parses that again, gives every proposition and
every temporal subformula a bit, turns each temporal subformula into a *tester* (an
automaton that reads at each event which subformulas are asked of it, and runs only
if its own one keeps what it is asked), and takes the product of the testers, with
one component that asks the whole formula of the first event and one that lets time
diverge, projected to the propositions. The constructor of a monitor calls
`Fixpoint::buchi_accept_fixpoint` on each: the states from which an accepting
location can be visited infinitely often, its *accepting space*. Every
observation goes to both single monitors, the positive one first; each advances
its list of symbolic states and intersects it with its accepting space. An
empty list is OUT; when the negative monitor is OUT the verdict is POSITIVE,
when the positive one is, NEGATIVE. A session adds an anchor event at time 0,
derives feedback from both state lists and hands it to the log and the fuzzer.

The fuzzer (`afl-fuzz.c`, AFLNet) chooses a state of the server it has learned
from replies, a seed that reaches it, and the messages of the seed to mutate. It
parses the mutated bytes into messages, puts them into the message list where the
old ones stood, makes a timing plan from the hints of the last feedback, and
starts an execution: a word to the fork server, a pid and a status back, and in
between a conversation over the network, with a timer that kills. What came
back is counted per message (`response_bytes`); the timing trace built from it is
what the monitor reads, and the monitor's feedback sets the next hints. A seed
that shows something new is cut after the messages that were sent, and its
regions are annotated with the states its replies revealed.

The monitor is one thread, and in it interleaving is not what is hard but

* **loops whose result depends on order**: the worklist merges states per
  location, the monitor decides state by state what to add, skip and replace;
* **two nested fixpoints** that must end, and end at the right set;
* **zone-wise inclusion**, which is only an approximation of inclusion;
* **in-place changes**: copies that are cut, freed or moved by one edge and then
  used for the next;
* **promises that share one clock**: a tester is asked the same question at many
  events before the first is answered, and the product must not forget one;
* **agreement of two monitors** that never see each other and must not both be
  out;
* **time**: intervals, observations out of order, unsigned clocks;
* **exceptions** in the middle of an event.

The fuzzer is one thread with three processes around it and signals inside it:

* **races** of the alarm with the target's own death, of a stop signal with every
  step, and of a persistent child that stops with the request for the next one;
* **marks that must outlive what they mark**: a killed child's pid is used again
  unless `prev_timed_out` says so when the next execution asks for it;
* **connections that break anywhere**: counts and cells written by position
  (`response_bytes`) must still belong to the messages they were written for;
* **books kept in several places**: a table with a row per state and a column per
  seed that four functions enlarge, lists of seeds per state, counts of pending
  seeds, reference counts of traces;
* **pointer surgery** on a list between two uses of it, with nodes that are freed
  and used again.

### What makes each component correct

* Fixpoint: `reach` returns the least family closed under backward steps; the
  loop only shrinks, ends, and returns exactly the configurations that have an
  accepted run.
* Interval monitor: no run the observations allow is lost, none is invented, the
  two automata are never both out, and the verdict is the one the semantics
  gives - with inclusion, clock abstraction and optional observations.
* Compiler: the automaton of a formula accepts the timed words that satisfy it and
  in which time diverges, and no others.
* Concrete monitor: the same as for the interval monitor, on points; no wrapped
  clock is kept and no duplicate.
* Session: the two monitors stay in step, whatever an exception interrupts; what
  the frames report as new, opened, satisfied and expired adds up; the reported
  minimum slack is a minimum.
* Corpus: no cell outside the table is looked up; what the lists of seeds, the
  annotations and the table say of a seed agrees; the counts are counts; every
  byte that was reached has a favored seed, whose trace is kept; what is mutated
  follows the state that was chosen; choosing ends.
* Executions: each is reported as what its process died of, two targets never
  live at once, no request goes to a dead process, no alarm outlives its
  execution, and every execution ends.
* Message list: an execution sends prefix, mutated messages and suffix, and nodes
  are neither leaked nor shared.
* Timing plan and delivery: retries follow what they repeat and back off, the
  record of insertions tells where they are, a reply is credited to the request
  it came after, and the trace tells of each request whether it was answered.

## 2. The modules

| module | models | by |
| --- | --- | --- |
| `TimedAutomata` | automata as records; zones as sets of grid points; the operations of `symbolic_state_base`; inactive clocks | operators |
| `SymbolicStateMap` | `symbolic_state_map_t` and one backward step of a whole map | operators |
| `Fixpoint` | `buchi_accept_fixpoint` and the `reach` calls in it; one action per pass of a loop: `Skip`, `Explore` (worklist), `FirstReachReturns`, `Iterate`, `Return`, `Throw` (outer loop) | state machine |
| `TimedSemantics` | the accepted configurations by forward runs, no zones | reference |
| `BuchiSpace` | the result of the fixpoint as a function, to construct monitors with | TLC only |
| `TimedWords` | automata, accepting spaces and observations a monitor is given, and the runs observations allow | operators |
| `OnlineVerdict` | what a monitor promises: after every observation, the verdict the runs imply | abstract state machine |
| `Monitor` | both `Single_monitor`s and the `Monitor` around them | state machine, refines `OnlineVerdict` |
| `ConcreteMonitor` | the same for concrete states, one step per call | state machine, refines `OnlineVerdict` |
| `MonitorSession` | `MonitorSession` over monitors seen by their frontiers, answers and slacks | state machine |
| `Examples` | pairs of automata and observations of them | TLC only |
| `SeedCorpus` | the queue, the machine learned from replies, and the choice of state, seed and messages | state machine |
| `ForkServer` | `run_target`, the signal handlers, the fork server, the processes it forks and the timer | state machine |
| `MessageSequence` | what an execution sends: a prefix, the mutated messages, a suffix | abstract state machine |
| `MessageList` | the klist of messages, node by node | state machine, refines `MessageSequence` |
| `TimingPlan` | the timing plan: retries, keepalives, delays, and the hints that ask for them | operators |
| `Delivery` | a seed's executions: plan, conversation, trace, kept seed, feedback | state machine |
| `Mitl` | formulas, and what they mean of timed words | reference, TLC only |
| `NegationNormalForm` | `MitlToNNFVisitor`, and the parser that reads what it prints | operators, TLC only |
| `TesterAutomata` | `build_until` and the seven other testers | operators |
| `FormulaCompiler` | numbering, labels, components, product, projection: `compile_one_formula` | operators, TLC only |
| `MCFixpoint`, `MCMonitor`, `MCConcrete`, `MCSession`, `MCCorpus`, `MCForkServer`, `MCMessages`, `MCDelivery`, `MCCompiler` | instances | TLC only |
| `FixpointProofs`, `MonitorProofs`, `SessionProofs`, `CorpusProofs`, `ForkServerProofs`, `MessageListProofs`, `DeliveryProofs` | theorems about `Fixpoint`, `Monitor` and `ConcreteMonitor`, `MonitorSession`, `SeedCorpus`, `ForkServer`, `MessageList`, `Delivery` | TLAPS |
| `DataInduction` | induction over numbers, for sets instead of predicates; least numbers; sequences read one element at a time | lemmas for the proofs |

**Fixpoint.** `waiting` and `passed` are the locals of `reach`, `targets` its
argument, `reach_a` the local of `buchi_accept_fixpoint`; `reach_b` is `passed`
at the end of a call. `Skip` and `Explore` take the smallest location of
`waiting`, as `begin()` of a `std::map` does. The removal of locations that do
not accept, and the first inserts of the next `reach`, belong to the step that
starts the call. `equals` is the code's: sizes first, then key by key;
`equals_throws` says when `at()` finds no key before a difference was found.

**Monitor.** `states`, `status`, `verdict` are the fields. A call of
`Monitor::input` is several steps: `Receive` starts the positive monitor;
`OnlyDelay` handles one state when the label is unknown, `Delay` otherwise;
`TakeEdge` tries one edge; `PositiveDone` and `NegativeDone` store the new list
and the status, the second also gives the verdict. `source` is the code's `s`
and `moved` its copy `state`, which edges are tried on and which is made `s`
again after each. Lists are sets of entries numbered in the order of
`push_back`. When both automata are out the model answers POSITIVE, as a build
without assertions does; `NeverBothOut` is the assertion. `runs` is a history
variable: the runs by the semantics, updated when the answer is given. `last`
is the time of the last observation; `Ordered` says whether times may decrease.

**ConcreteMonitor.** `states` are lists in the order of the code's vectors, on
which `add_state` depends. `Input` is one call of `Monitor::input`: `next_states`
folds `advance` over the current states as the outer loop does, and `advance`
folds `take_edge` over the edges. `Refuse` is the call that ends in the exception
for an interval; it happens only if there is a state to delay. Clocks are counted
modulo `Modulus` (2^32 in the code) and read as signed where they are compared.
A clock that is read is far below half of `Modulus` as long as observations are
in order; the setup `unordered` takes observations from the past. The marker for
an empty state is left out, as an empty state never enters a list. `ToldApart` says what
`relation`, which leaves locations out, needs to be right: no two runs of a list in two
locations have the same clocks while the location of one has a run with others.

**MonitorSession.** The session sees of its interval monitor the locations of
the two state lists (`frontier`) and the answer, of its concrete monitor whether
it is there and the slacks of its states. `Follows` is all that the monitors promise:
a side that is out stays out. Both may go out, or be out from the start: the session
builds its monitors with default settings, under which a side loses runs
(`monitor_default`), observations from the past empty both, and the assertion against
it is not in a release build. `Answered` is the answer then, POSITIVE of
`Monitor::input` and NEGATIVE of `BddMonitor::input`; `Constructed` is the constructors',
NEGATIVE. A debug build aborts instead, which is a session that ends. Any frontier that
follows, any list of slacks and an exception of the concrete monitor are inputs. `Step` is a whole
`step` on the projected backend, `StepNative` on the native one, `Reject` one
whose event has no encoding: the anchor, when it was not observed before, belongs
to each of them, and it survives an exception. `total`, `fed` and `slacks` are
history variables. A frontier stands for its hash, so hashes do not collide, and
two frontiers that differ in zones only are one; the groups `protocol_semantic`
and `explainability` repeat the event or the frame and are left out.

**SeedCorpus.** `queue`, `top_rated`, `score_changed`, `pending_favored` (a `u32`,
modulo `Counter`), `pending_not_fuzzed`, `target_state_id`, `selected_state_index`,
`state_cycles` and `code_aware_schedule` are the globals; `virgin` are the bits still
set in `virgin_bits`; `machine` holds the five structures of the learned machine:
`nodes` (`ipsm`), `paths` (`khs_ipsm_paths`), `seeds` (`khms_states`, the list of seeds
of each state), `state_ids`, and `rows` (`was_fuzzed_map`). `DryRun` is one seed of
`perform_dry_run`, `Start` what follows it in `main`. `SelectSeed` is one pass of the
loop that chooses a state and a seed of it; `NextInQueue` and `Advance` walk the
queue in the other schedules. `Skip` and `StartFuzz` are the head of `fuzz_one`, up to
the choice of `M2`; `Save` is an execution that `save_if_interesting` keeps,
`Import` one that `sync_fuzzers` does, `GiveUp` and `Abandon` the ends of `fuzz_one`,
`Loop` what `main` does between two seeds. An execution is a record of its replies
(the codes a parser finds in each), the bytes of the bitmap it sets, its cost and
whether it calibrates; `slip` says at which reply parsing the response as a whole
and parsing it region by region find different states. What the code builds in a loop (a path learned, a seed put into
the lists of its states, the trace-bit contest, the greedy walk of culling) is a
recursive function of the number of passes. The states' scores decide
only in what order states are chosen: `update_scores_and_select_next_state` may
return any state.

**ForkServer.** The steps of `run_target` are `Begin`, `Request` (the word to the
fork server), `GetPid`, `Arm` (`setitimer`), `Network`, `Terminate` (SIGTERM at the
end of `send_over_network`), `WaitGone` (the loop over `kill(pid, 0)`), `Status`,
`Collect` and `Report`. `Alarm` and `StopSignal` are the two handlers, which may run
between any two of them. `Wake`, `Bury`, `Fork`, `Continue` and `Wait` are the loop of
`__afl_start_forkserver`. A process is `running`, `stopped` (SIGSTOP of the persistent
loop), a `zombie` until its parent waits for it, then `reaped`; `how` is what it
ended of. The target is any program: it may exit, crash, run out of memory, stop
itself if it is persistent, take SIGTERM or do nothing for ever. `Orphan` is init
reaping a child whose parent ended. `ctl` and `st` are the pipes.

**MessageList.** Nodes are numbers, `next` and `data` their fields; `head`, `tail`, `size`
the list's; `pool` the freed nodes, the last on top, as `kmempool` has it, so a node
that is freed is the next one used. `Construct` is `construct_kl_messages` with the
boundaries of `fuzz_one`. `Parse`, `Push`, `Relink`, `FreeOne` and `Run` are
`common_fuzz_stuff`: the mutated messages are pushed at the end one by one, the
links turned, the old ones freed, and what the list holds is sent. `Implements` maps
the part before `M2_prev`, the part up to `M2_next` and the rest to `m1`, `m2` and `m3` of
`MessageSequence`; between `Parse` and `Relink` the pushed nodes do not count.

**TimingPlan, Delivery.** `prepare_timing_plan` maps messages and hints to a plan:
the messages with what was inserted, a record of each insertion (`slot`, `after`,
`source`, `base`), and a delay before each message: the choice of the source per
protocol, the retries, the keepalive, the slots to wait in when nothing is inserted,
and the delays. A message is its request class, where in the seed it comes
from, and why it is there. `Delivery` runs the plan: `Connect`, `Greeting`, `Send`,
`Receive` and `Handle` are the parts of `send_over_network`, each of which may fail;
`response_bytes` is written cell by cell and `Garbage` is a cell that was allocated
and not written; `came` is a history variable, what really arrived before each
message was tried. `Monitor` builds the trace and takes any feedback, `Keep` cuts
the seed, `Again` starts the next execution with the hints of both.

**Mitl, NegationNormalForm, TesterAutomata, FormulaCompiler.** The compiler is a
function, and the modules are operators with the names of the source. A text of the
rewriting visitor is a list of alternatives of conjuncts, which is what the grammar
makes of it: joining two texts with `&&` joins the last alternative of one and the
first of the other. A valuation is the set of bits that are true, a BDD the set of its
valuations. `Label` holds the three BDDs a formula carries (`overline`: it holds; `star`:
nothing is asked by it; `hat`: it holds and asks no more than it must); `tilde` is
derived as in the code. The tables of edges are those of the files, a call of
`build_edge` for each; guards compare the tester's clock with the bound of its
interval. The four files of the unary operators are the binary tables with a constant
operand, checked edge by edge. `Explore` is the worklist of
`TAwithBDDEdges::intersection`; its locations are records instead of numbers. Nothing of
a formula is left out but the Count and Pnueli modalities. `MCCompiler` lets TLC choose
a formula and the mode, compiles it, and then reads one event after the other:
`word` is the timed word so far and `runs` where the automaton can be.

### Abstractions

* **Grid.** A DBM is the set of integer points it contains, clocks capped at
  `Cap`, which is larger than every bound by at least one where bounds are
  strict: beyond the largest bound, values are not told apart. Integer grids are
  exact for the automata here read in discrete time; a half-integer grid is an
  instance whose bounds are doubled. Capped time makes `down` and `Elapse`
  finite.
* **Federations** stay sets of zones, so inclusion is zone by zone as in
  pardibaal (`relation<false>`), not inclusion of unions. pardibaal is not part
  of the repository; its operations are modelled from their use and marked
  external. Zones are not merged and subsumed zones are kept, which changes no
  set of points.
* **Guards** have no differences of clocks: the parser and the compiler make
  none. Lists of constraints are sets.
* **MULTI** inputs are left out: `Single_monitor` refuses them with an error.

## 3. What TLC checks

| run | instance | shows |
| --- | --- | --- |
| `fixpoint` | 6912 automata with 2 locations, 1 clock, 3 edges, guards of {true, x<=1, x>1}, all resets; 864 with 2 clocks and an invariant; 4096 with 4 locations and no clocks, 3 accepting, which is what it takes to need several rounds and to meet `Throw` | types, nothing forgotten, nothing missing from the result, nothing wrong in it without invariants, result = `BuchiSpace`, rounds shrink, every step advances, ends |
| `fixpoint_throws` | 4096 automata: 4 locations, no clocks, 3 edges, 3 accepting | **violated**: the comparison throws |
| `monitor` | five setups, see below | estimate exact under inclusion, never both out, refines `OnlineVerdict`; what a verdict rules out has no run that goes on for ever to accepting locations, and no verdict is late |
| `monitor_default` | `guess` with the roles exchanged, default settings | **violated**: wrong verdict |
| `concrete` | three setups: `guess` with inclusion, on points, an unknown letter and refused intervals; `a_leadsto_b` without; observations out of order; clocks modulo 16 | the states are the runs, no wrapped clock is kept, refines `OnlineVerdict` |
| `session` | two locations on each side, all with obligations, 3 events, both backends, four lists of slacks | monitors in step; obligations and coverage add up; an expiry is reported for the first frame that decides, also when both sides go out later; the least slack, if none is negative |
| `corpus` | 3 bytes of bitmap; six campaigns over the three schedules and three algorithms, two of them with replies that parse two ways; 1 or 2 initial seeds of 5 kinds, 5 kinds of mutants, 2 or 3 seeds in the queue | room in the table, lists and annotations agree, exact counts, favored seeds cover, traces kept, mutation right behind the first message that reaches the target, choosing ends |
| `forkserver` | 3 executions in every mode that makes sense (network, fork server, persistent, terminate, false negative reduction) | reports tell deaths, one target, a fresh one, executions end |
| `messages` | seeds of 1 to 4 messages cut at every place, buffers of 1 to 4 regions where `max_seed_region_count` is 2, 4 executions, 12 nodes | refines `MessageSequence`; nodes accounted for |
| `delivery` | 9 campaigns over six protocols (FTP, DTLS and SIP with two timeouts each, DICOM with two, SSH, DAAP; the shortest timeout is the least `-t` takes, 5 ms, and polling time is 0 or 1), six kinds of hints, 2 executions | retries, record and delays of the plan; replies, silences and the trace |
| `compiler` | about 180 formulas: every operator, weak and strict, without interval and over [0,1], [0,2), [1,oo), (1,oo), asked of the first event, some time later, and often; their negations; subformulas met twice; all letters; delays 0 and 1; finite words of 3 events, infinite words that repeat a part of 2 | accepts the models of the formula, finite and infinite, and no other words |
| `compiler_negated` | the negation of `p \|\| q && F p` | **violated**: the automaton of the negation accepts a model of the formula |

Configurations to run by hand show what section 5 says of them:
`MCFixpointUrgentExact`, `MCConcretePast`, `MCConcreteInclusion` (module `MCConcrete`),
`MCSessionMinimum`, `MCCorpusTurns` (two invariants; with `-continue` both are found
violated), `MCForkServerDirect`,
`MCDeliverySlots`, and `MCCompilerPast` (two invariants, `-continue`). Invariants
that are stated and hold on the same instances, but belong to no run: `TypeOK` of
every module but `Fixpoint`, `ReachIsClosed`, `NoveltyCountsOnce`, `AlarmOfThisRun`
and `StatesAgree` (which are proved), `OriginalsInOrder`, `KeptAsSent`, and `NoDuplicates` and
`NeverBothOut` of `ConcreteMonitor`.

A *setup* is a pair of automata, settings and possible observations (`Setup`), with
the accepting spaces of the automata (`AcceptingSpace`, computed by `BuchiSpace`); a
run starts in every one of its setups, and the variable `setup` remembers which. Those of `monitor` are: `intervals` (`guess`, whose
automaton has two states in one location; points and intervals, and the empty
label), `abstraction` (`guess` with clock abstraction; certain and optional points,
and an unknown letter), `optional` (`deadline`, with an invariant; certain and optional
points and intervals), `example` (`test/models/a-b30.xml` with 2 for 30, default
settings) and `unordered` (times may decrease). Of observations that are no timed
word nothing is promised (`Explained`), as no run of either automaton explains
them; of the monitor's own behaviour then only `NoWrappedClock` is
checked.

Deadlock is not checked: a computation that has returned stops, a monitor stops
when no observation is left before `Horizon`, and the fuzzer's modules stop when
the bounded number of executions, seeds or states of the queue is used up. That
an execution cannot get stuck is `RunEnds`.

`Horizon` is 3 to 6, above every bound of the automata, so each guard can be met
early, in time and late. `guess` needs Horizon 4 (bounds 1 and 3), `deadline` 3. `Modulus` 16 is more than
twice every horizon, so a wrapped clock is told from one that is late. Three
events are what it takes to reach a frontier, leave it and come back; three slacks
to have one before and one after a negative one.

Of a formula, two propositions and bounds up to 2 are enough for each edge of each
tester to be taken; three events are what it takes to ask twice and to answer, and at
distances 0, 1 and 2 each bound is met early, in time and late. In a word that repeats,
the semantics is evaluated on enough rounds for truth to repeat (`SatisfiedForever`),
and acceptance on the graph of the locations and capped clocks a run can be in
between two rounds; `Cap` 3 is above every bound. A loop with period 0 is a word in
which time stops.

Of the corpus, three bytes are what it takes for a seed to hold one, lose one and
win one; two states besides the initial one for a seed to reach a state through
another; three seeds for a holder to lose to a later one while a third is culled.
`WarmUp` and `Few` are 1 (5 and 10 in the code), so that both sides of each bound are
met; `Counter` is 256, far above every count, so only a decrement of 0 wraps. Three
executions are what it takes for an alarm to kill a stopped child, the next
execution to have it written off and the one after to fork. Four messages leave
room for a prefix, two mutated messages and a suffix; a buffer of four regions with
a limit of two is merged, one of one makes the list shrink, and twelve nodes are
never all in use. Two executions are what it takes for feedback to become hints,
and for counts of the execution before to be used.

**Fairness.** `Fixpoint` has weak fairness of its next step: it is one thread
that nothing interrupts or blocks, so as long as it can step it does. `Monitor`
needs none, it has safety properties only. `ForkServer` has weak fairness of the
fuzzer's steps, of the fork server's, of the alarm and of init's reaping: two
processes the kernel schedules, a timer that expires, and a parent that always
waits. It has none of the target: `RunEnds` says that an execution ends even if the
target neither exits, crashes nor reacts. `SeedCorpus` has weak fairness of
`SelectSeed`, a loop of the one thread that `main` cannot leave but by its end;
`SelectionEnds` then holds where states are taken in turn - a random choice may miss
the states with seeds for ever.

**Refinement.** `Monitor` and `ConcreteMonitor` refine `OnlineVerdict`: the calls in
between are stutters and the answer is the one the runs imply. `MessageList` refines
`MessageSequence`: pushing, freeing and relinking node by node is one change of `m2`.

**Exactness** (`ResultCovers`, `ResultIsSound`) compares with `TimedSemantics`: a greatest
fixpoint over single configurations, forward, with invariants checked at both
ends of a delay. It shares neither zones, nor worklists, nor backward steps with
the model of the code. What a greatest fixpoint is the set of is not taken on trust:
`BuchiConfigurationsHaveRuns` (section 4) says it in terms of infinite runs.

**Faults.** Operators marked `\* Fault:` state a plausible mistake in the
definition below them (an order swapped, a reset or a test dropped). No
specification uses them; each property is known to fail when one of them
replaces the definition.

## 4. What is proved

`FixpointProofs`, for every set of automata and every `Cap`, from
`CapAssumption` (a natural number) and `AutomataAssumption` (they are automata):

* `TypeCorrect`: `Spec => []TypeOK`. The invariant is strengthened with
  `A \in Automata`.
* `ForgetsNothing`: `Spec => []NothingForgotten`. Inductive with types. `Skip` is
  the interesting step: what is skipped is covered by passed zones, so coverage
  goes through the transitivity of inclusion.
* `ReachReturnsClosed`: `Spec => []ReachIsClosed`, the consequence of
  `NothingForgotten` for an empty worklist.
* `InventsNothing`: `Spec => []NothingInvented`, by the monotonicity of backward
  steps (`BackwardMonotone`).

`ReachReturnsClosed` and `InventsNothing` together say that `reach` computes the
least family closed under backward steps from its argument: that is what
`Fixpoint.h` promises of it ("Set of states in a map that can reach the given
states").

* `SpacesAreClosed`: what `buchi_accept_fixpoint` returns is closed under the time and
  edges that lead to it, and indifferent to clocks that no constraint reads before they
  are reset (`BackwardIndifferent`: elapsing, resetting and cutting keep a set of
  valuations indifferent; `Settling`: so does every step of both loops). This is what
  the monitors need of their accepting spaces, and it is why clock abstraction is
  right.

* `AdvancesAlways`: `Spec => Advances`, why both loops end. In this order of precedence: the phase
  goes on; `reach_a` becomes an approximation that is closed under backward steps
  (`Approximates`), or, if it was one, a strictly smaller one, and in either case loses
  points or keeps them (`GivesUp`); a zone is passed that was not; a location leaves the
  worklist. All of these range over finite sets. For `GivesUp`, the points of what `reach`
  returned are closed under backward steps also from the smaller argument of the next call
  (`BackwardOfPoints`: a backward step of a union is a union of backward steps), so by
  `InventsNothing` the next call stays within them (`Shrinking`). For a strict order points
  are not enough: `equals` compares zone by zone, and two maps with the same points can
  differ for ever. So that `reach` finds the least map is proved a second time, for
  zones covered by zones (`NoZoneInvented`, `Bounded`). What is left to TLC of `Ends` is that
  a step that is possible is taken.
* `MissesNoRun`: `Spec => []ResultCovers`, and `ReturnsAccepting`: `Spec => []ResultIsSound`:
  with the semantics of `TimedSemantics`. The invariant of the first is `Held`: the accepting
  configurations of the greatest fixpoint are in the argument of every call of `reach`. A
  step of the automaton is undone by a backward step (`StepIsBackward`), so what `reach`
  passes has all that can reach them (`BuchiPassed`), and removing the locations that do
  not accept leaves `Held` true. The second needs that a backward step is a step of the
  automaton. With invariants it is not, which is item 2 of section 5; without them it is up
  to a delay after the edge (`BackwardIsStep`, `SuccessorsLater`), and the zones are
  closed under delay (`AllSmooth`). The result of `reach` is then within what can reach its
  argument by steps, the argument is accepting and within the result (`Shrinking`), so
  the result is a set whose members reach its accepting members: it is within the
  greatest one.
* `BuchiConfigurationsHaveRuns`: a configuration is in the greatest fixpoint exactly if an
  infinite run from it visits accepting locations again and again. A run stays within the
  sets that `Reaching` yields, by induction on the distance to the next accepting visit
  (`RunsAreKept`). Conversely every kept configuration has a distance to an accepting kept
  one (`DistanceExists`, from the layers of the inner fixpoint); following an edge that
  lowers it, or arrives, for ever, is the run (`KeptHaveRuns`, `IterationExists`).
* `ReturnsExactly` puts them together. Delays are those of the grid and a run need not let time
  diverge: that is what the product with the divergence automaton is for.

The two nested fixpoints of `TimedSemantics` are recursive functions over finite sets. That
they have values, and which, is proved and not assumed: a step that lowers a rank is
taken until it changes nothing (`SettlingExists`, `SettlesWhere` in `DataInduction`), which
makes `Reaching` the least and `BuchiConfigurations` the greatest set of their kind
(`ReachingIs`, `BuchiIs`).

`MonitorProofs`, for every set of setups - automata, accepting spaces, settings,
horizon and possible observations - from

* `TimedWordsAssumption`: the automata are automata whose initial location can be
  entered, and the spaces are what `FixpointProofs` proves of the spaces the fixpoint
  returns: closed and indifferent (`SpacesAreClosed`), without a configuration missing from
  which a run is accepted (`MissesNoRun`), and with no others where there are no invariants
  (`ReturnsAccepting`); and
* `MismatchAssumption`: at the start at least one side can still be accepted. It is the
  assertion of `Monitor`'s constructor, without which both sides are `OUT` before the
  first observation. TLC evaluates both on every setup of
  `Examples`.

The theorems:

* `InventsNoRun`: `Spec => []NoRunInvented`, for all settings.
* `LosesNoRun`: `Spec => []NoRunLost`: under inclusion, whatever was merged, replaced and
  abstracted, every run that can still be accepted is in the estimate.
* `KeepsThePromise`: `Spec /\ Inclusion => Implements`, the refinement of `OnlineVerdict`:
  all steps are stutters but the last answer to an observation, which is the abstract
  step with the verdict that the runs imply.
* `JudgesExactly`: `Spec => [](Inclusion => VerdictIsExact)`. The run `monitor_default`
  shows that it is false without inclusion.
* `VerdictsAreRight`: `Spec => []VerdictIsRight`, from `VerdictsAreJust` and
  `VerdictsArePrompt`: the promise without the accepting space in it: under inclusion,
  POSITIVE and NEGATIVE rule out every continuation of every run of the observations, and
  INCONCLUSIVE means that there still is one on both sides (of automata without invariants).
  With `BuchiConfigurationsHaveRuns` this speaks of infinite runs, as the README of MoniTAal does
  of "all infinite extensions". Both follow from `JudgesExactly` and `GivenSpace`.
* `OneStaysIn`: `NeverBothOut`, under inclusion, for automata that are complementary: of every timed
  word that is observed one of the two has a run that can be accepted. That is a
  hypothesis about the automata alone; the compiler is what should make it true.

They come from one invariant, `Inv`, of five parts. `Framed`: the control variables and
the statuses. `Explaining`: the runs have times up to the horizon and satisfy
invariants. `Tracking`: the list of each side is sound, each of its points tells of a
run that can be accepted; and under inclusion complete. "Tells" means that the
two agree on the clocks that were not freed: a run that was only freed of inactive
clocks is accepted exactly if the run it came from is, because the space is
indifferent (`TellsAccepted`). While the negative side works, the positive list already
tracks the runs *after* the observation. `Handling` is the part that makes it
inductive: in the middle of an observation, a run that is not in the list under
construction comes from a state still to be looked at (`From`) or goes through an edge
still to be tried (`Through`), and the two copies that a state is delayed and cut into
hold what those edges need (`Copies`). `Judging` ties the verdict to who is out. The
interesting steps are `AddStateIs` - under inclusion, what is dropped or erased is a
subset of what stays - and `AfterEdge`. Runs that cannot be accepted are dropped before
they are waited or moved on; `AcceptedBefore` says that none of them would have been
accepted later, because the space is closed. That the clocks a trusted point agrees on
are enough rests on `ActiveSuffice`: `inactive_clocks` is what the loop of
`compute_inactive_clocks` returns, and `GrowthEnds` shows that after as many passes as there are
pairs of a location and a clock it has reached a fixpoint.

About `ConcreteMonitor` it has four theorems more, from the same assumptions and `ClocksFit`:
twice the horizon is below `Modulus` - a timed word does not last until the clocks wrap - and
the constants of the constraints are below `Cap`, where the semantics stops to tell clock
values apart; TLC evaluates it on the instances.

* `WrappedNeverKept`: `[]NoWrappedClock`, whatever times are observed in whatever order.
* `InventsNoState`: of a timed word, every state of a list is a run that can still be accepted, for
  all settings.
* `ListsAreTheRuns`: `[]EstimateIsExact` under `[]ToldApart`, and `ListsKeepThePromise`: then,
  under inclusion, it refines `OnlineVerdict`.

`ToldApart` speaks of the automata and the observations alone, not of the lists. TLC finds it
to hold in the instances of `concrete` and to fail for `late_guess`, whose runs are the ones that are
lost (section 5, item 5). The invariant, `ConcreteInv`: the lists have states with clocks in
their range that the accepting space keeps; as long as some run explains the observations,
either both lists are empty, or all runs and all listed states have the time of the last
observation, on a clock that has not wrapped, and each tells of a run (`Truthful`); while
neither list is empty the verdict is open (`Undecided`). `Whole` adds that no run is missing,
and is preserved by steps after which `ToldApart` holds. Each of the three nested loops is a
fold with a chain of partial results (`ElsewhereRuns`, `EdgesRun`, `StatesRun`), and what
one call adds to a list (`Adds`) is followed along it, from `AddStateAdds` through
`TakeEdgeAdds` and `AdvanceAdds` to `StatesAdd`.

`SessionProofs`, for every finite set of locations, every choice of channels,
threshold, slacks and number of events, from `SessionAssumption`:

* `StaysInStep`: `Spec => []InStep`. The strengthening says that a native session
  has no concrete monitor, so `StepNative` may leave its count alone.
* `ObligationsStayBalanced`: `Spec => []ObligationsBalance`, inductive once the sums
  are numbers; the step is that `Excess(a, b) - Excess(b, a) = a - b`. Without the
  obligation channel there is nothing to prove.
* `ExpiresOnce`: `Spec => []ExpiryCountsOnce`, with nothing assumed of the monitors but
  that a side that is out stays out. The invariant (`VerdictInv`) adds that after the
  anchor the verdict is the one the frontier says (`SaidAfter`), although the
  constructor's may be another; that before the anchor nothing was counted; and that
  the positive side has been out since any verdict was NEGATIVE (`Remembered`), so that
  the verdict never comes back to INCONCLUSIVE to expire again. `SaidTurns` are the
  turns an answer can take, `CountedAtAnchor` and `CountedAtEvent` what the two halves
  of a step do to the count.

* `CoverageAddsUp`: `Spec => []CoverageCountsOnce`: the bins reported as new add up to
  the bins seen, as `CountGrows` says of one more element of a finite set.
* `NovelOnce`: `Spec => []NoveltyCountsOnce`, the same for frontiers, with the visited
  frontiers of the session in the invariant.
* `ReportsTheLeastSlack`: `Spec => []SlackIsLeast`. `Summary` is a fold over the
  constraints of a step; the fold is shown to be the last of a chain of partial
  summaries, and by induction along it, as long as none is violated, the minimum is the least
  slack so far. It says nothing of frames with a violated constraint, which the code
  forgets (section 5, item 6).

`ForkServerProofs`, for every set of modes and every number of executions, from
`ForkServerAssumption`:

* `ReportsTellDeath`: `Spec => []FaultTellsDeath`,
* `OneTargetLives`: `Spec => []OneTarget`,
* `TargetIsFresh`: `Spec => []FreshTarget`,
* `AlarmsEndInTime`: `Spec => []AlarmOfThisRun`,

all from one invariant, `IInv`, of four parts. `Types` adds that a process has a cause
of death exactly if it is dead. `Children`: the only process alive is the fork
server's child, and when the fork server reads a request it is alive only if it
stopped itself. `Phases`: where the fuzzer and the fork server are in their
conversation, and what is then in the pipes - at rest, asked, working, answered,
running. `Kills`: only the alarm kills, and it leaves a mark, `child_timed_out` during
the execution and `prev_timed_out` until the fork server has written the process
off; without it the pid of a dead process would be given out again. The interesting
steps are `Alarm`, which may strike in every phase, and `Wait`, whose status may be
of a death no one caused.

`CorpusProofs`, for every choice of setups, seeds, mutants and bounds, from
`CorpusAssumption`:

* `TraceOutlivesItsBytes`: `Spec => []TraceKept`. The books of `update_bitmap_score`
  (`Books`): the reference count of an entry is the number of bytes it holds, and it
  has its trace if it holds one. `Transfer` is the step: an entry that loses bytes
  to another drops its trace only with its last one; `Scored` says so for all entries
  at once, and culling, saving, importing and calibrating follow from it.
* `EveryCellExists`: `Spec => []TableHasRoom`. The invariant (`TurnInv`) says of the
  learned machine (`Sound`) that the table has a row for each state that was numbered
  and a column for each seed that was listed, and that the lists hold entries of the
  queue. Each of the four functions that enlarge the table is followed pass by pass.
* `NoSeedCountedTwice`: `Spec => []PendingNotFuzzedExact` (no run repeats it). `pending_not_fuzzed` is the
  number of entries that were never fuzzed (`CountInv`); a mark is counted once, at
  the end of the first turn.
* `MutationFollowsTarget`: `Spec => []MutatesAfterTarget`. `SteerInv` says that the
  messages chosen are regions of the seed, and that of those before them the last ends in
  the target and no earlier one does (`EndingIn`, `Picked`); the run of regions that
  are annotated alike, where `fuzz_one` stops, is never empty (`AlikeIs`).
* `FavoritesCoverTheMap`: `Spec => []FavoredCover`. A byte that was ever reached has a
  holder, a holder has a trace that shows its bytes (`CoverInv`), and the greedy walk of
  `cull_queue` has settled every byte up to the one it is at (`Settling`).
* `ListsFollowTheReplies`: `Spec => []ListedIffReachable`, and `StatesAreOneSet`:
  `Spec => []StatesAgree`, both from `ListInv`, for campaigns in which a reply parses one
  way. A state that is listed by `AddNode` while `khms_states` has it already would lose
  its seeds, so the invariant must say that the nodes of the graph, the table and the ids
  are one set (`Agrees`). That holds because a seed is only ever listed for a state of its
  own sequence (`EndsInSequence`), and the sequence has been walked, now or when its trimmed
  form was first met (`Walked`; `TrimmedKeeps`: trimming loses no state). What the lists
  and the marked cells say of the n entries (`Tells`) then follows the regions one by one
  (`SeedTold`, `RunTold`), and no new state, column or mark changes it.

`MessageListProofs`, for every set of seeds, buffers, number of nodes and of executions,
from `MessageListAssumption`:

* `NoNodeLost`: `Spec => []NodesAccounted`. The list is a path: a sequence of distinct nodes
  from `head` to `tail` along `next`, which the invariant names by its existence. The
  pool is a sequence of other nodes, and while `common_fuzz_stuff` is relinking there is
  a third part, the nodes that were cut out and are not freed yet. Three places of the
  path, a < b <= c, are where `M2_prev`, `M2_next` and the tail are.
* `SendsTheSequence`: `Spec => Implements`, the refinement of `MessageSequence`, step by
  step: pushing and freeing stutter, as the mapping reads the three parts off the path
  between the same places, and `Relink` replaces `m2` at once.

`DataInduction` holds what these proofs share. An induction theorem with a predicate as its
parameter cannot be used here, so induction is stated for a *set* of numbers that
contains 0 and the successor of each element, from the well-foundedness of `<` on the
naturals. A recursive function is then shown to exist by the same induction, one
longer function from each shorter one, and its equations are used as facts. A fold over
a sequence is such a function (`FoldExists`): there is a chain of partial results, each
made of the one before and the next element, that ends in the fold. And a
nonempty set of numbers up to n has a greatest element.

`DeliveryProofs`, for every campaign, every plan and number of executions, from
`DeliveryAssumption`:

* `TraceTellsTheConversation`: `Spec => []TraceIsTrue`. The invariant (`Conversation`)
  relates what came, the cells and the marks of silence while an execution is going
  on: there is one more arrival than cells, a mark says that something came before
  the next message was tried (`Heard`), and the cells that were written only grow up
  to the size of the buffer (`Grows`), wherever the connection breaks. Nothing of the
  plan is needed, so it holds for every plan.
* `RepliesStayWithTheirs`: `Spec => []RepliesAreTheirs`. `Counted` adds that the size of
  the buffer is the sum of all that came and a written cell the sum of what came up to
  the next message; the sums are folds of prefixes, of which only the last changes.
* `RetriesComeAfter`, `PlanPassesTheAudit`, `RecordTellsTheList`, `TimersBackOff`: the four
  properties of the timing plan, from one invariant: between executions there is no
  plan, and during one it is `Ready`. That a plan is ready when it is made follows the
  function that makes it:
  the chosen slots are places of the list (`KeepaliveIsPlace`, `SourceIsPlace`); a chain
  of retries is put behind its source, each no earlier than the one before
  (`AfterSource`, `AfterRises`); what `build_injected_messages` makes of a list is, in
  closed form, every message moved back by the copies in front of it and every copy at
  the slot that is recorded (`Flattened`, `BuiltList`, `PlacedBehind`); so the plan with
  retries only, or with nothing, is a list in which each record is in its place
  (`Pure`), and a keepalive put into it leaves all but that
  intact (`RetryPlan`, `KeepalivePlan`); the delays are within the timeout, and the
  timers grow, because the order of the record is the order of the list
  (`DelaysOfInsertions`). A hybrid plan is where that order is lost, and the two
  properties that need it say so.

Only model-checked: the liveness properties (`Ends`, `RunEnds`, `SelectionEnds`), as
fairness and ENABLED are out of the provers' reach; that `BuchiSpace`, with which the
instances construct their monitors, computes what `Fixpoint` returns (`ResultIsSpace`; it
is RECURSIVE); that the pairs of `Examples` are complementary, which is what `OneStaysIn`
needs for `NeverBothOut`; that the runs of an automaton are told apart (`ToldApart`), which
`ListsAreTheRuns` needs; and the compiler.

## 5. Disagreements with the source's own statements

1. **`equals` throws** (`fixpoint_throws`; `state.cpp:425`). `reach_a` has been
   cut to accepting locations, `reach_b` has not. If one accepting location drops
   out and one other location is reached, sizes agree, keys do not, and
   `std::map::at` throws in the constructor of a monitor.
2. **Invariants come too late** (`MCFixpointUrgentExact.cfg`; `Fixpoint.cpp:39,56`).
   `do_transition_backward` goes back in time from the guard before the
   invariant is applied. From a location with `x <= 1` and an edge with `y > 1`
   the state `x = y = 0` is kept although no run takes the edge. Verdicts come
   late, never wrong: `ResultCovers` holds.
3. **Default settings lose runs** (`monitor_default`; `Monitor.cpp:198`). Without
   inclusion every new state erases the others of its location.
   `MonitorSession` constructs its monitors with these settings.
4. **The past is not refused** (`MCConcretePast.cfg`; `state.cpp:443`). The difference of
   two unsigned times is never below 0, so the error for an observation from the
   past is never raised. A clock that was reset later than the observation wraps,
   and its state is dropped, as the zones of the accepting space bound every clock
   by 0; other clocks are turned back, and the states go on as if nothing had
   happened. The interval monitor loses every state. Nothing before the monitors
   checks the order of events either (`mitppl-monitor.cpp:269`).
5. **Inclusion ignores locations** (`MCConcreteInclusion.cfg`; `state.cpp:529`). A concrete
   state is taken for a duplicate of one in another location with the same clocks.
   `late_guess` loses the run that waits when another has just reset its clock.
   `guess` never has two locations at once in one list, and there the estimate is
   exact (`concrete`).
6. **The minimum slack forgets a violation** (`MCSessionMinimum.cfg`;
   `MightyPPLMonitor.cpp:1090`). A negative minimum reads as "none yet", and the next
   slack replaces it, though `violated_guard_count` keeps the count.
7. **Slots of a hybrid plan** (`MCDeliverySlots.cfg`; `afl-fuzz.c:3391`). Retries are
   inserted and recorded first, then a keepalive. A keepalive put before a retry
   shifts it, but not its recorded slot. Delays are set from the slots, so a delay
   lands on the message before the retransmission, or on the keepalive.
8. **Fuzzed, but not marked** (`MCCorpusTurns.cfg`; `afl-fuzz.c:12555`). "was_fuzzed
   information becomes state-aware" (5457), but `was_fuzzed_map` is set under the test
   for `was_fuzzed` of the whole entry, so only for the target of its first turn; for
   others the cell stays "reachable, not fuzzed", and `cull_queue` counts the seed as
   pending for ever.
9. **Pending favored seeds below none** (`MCCorpusTurns.cfg`; `afl-fuzz.c:12559`).
   `pending_favored` (176) is counted by `cull_queue` for one target and decremented for
   a seed that was favored but not counted. 0 becomes 2^32 - 1; until the next
   culling most seeds that are not favored are skipped.
10. **Without a fork server a run may not end** (`MCForkServerDirect.cfg`;
    `afl-fuzz.c:5883`). `docs/env_variables.txt:96` offers AFL_NO_FORKSRV. On the
    network the fuzzer waits until `kill(child_pid, 0)` fails, which without a fork
    server to reap the child it never does: the fuzzer itself is the parent, and
    waits for its own zombie.

11. **Negation loses its parentheses** (`compiler_negated`; `MitlToNNFVisitor.cpp:41`).
    `!(a || b && c)` is printed as `!a && !b || !c` and parsed again as
    `(!a && !b) || !c`. The negative automaton, compiled from `!(formula)`
    (`MightyPPLMonitor.cpp:1495`), accepts too much whenever one connective stands in
    another without parentheses, and the monitor stays inconclusive where it should say
    POSITIVE.
12. **H and T over [0,u> forget a question** (`MCCompilerPast.cfg`, `OftenAsked`; `Historically.cpp:182`,
    `Trigger.cpp:181`). Location "1" answers questions while the window reaches
    back to where the clock was reset, "2" those after it; the only edges from "1" to "2"
    reset the clock, so a run that answered early cannot answer the next question late. `G* (H[0,1] q)` rejects the word with q
    at 0, 1, 2, and so on.
13. **H\* and T\* at the first event** (`MCCompilerPast.cfg`, `WeakPast`; `Historically.cpp:245`,
    `Trigger.cpp:241`). Some edges from the first location do not read whether the formula
    is asked, and one that does may go on to a location where q need not hold: `F* H* q`
    is wrong on the first letter already.

Also seen, and left as observations:

* `kill(child_pid, 0)` succeeds on a persistent target on the network that has stopped
  itself, and still after the alarm has killed it, as the fork server waits for it
  only when the next execution asks for a child: the wait of 5883 goes on for ever
  there too. `RunEnds` excludes that mode.
* An expiry that was reported can be contradicted: when the positive side is out, the
  verdict NEGATIVE and the expiry sent, and then the negative side goes out as well, the
  projected backend answers POSITIVE (`Monitor.cpp:299`) and the native one stays
  with NEGATIVE. `ExpiryCountsOnce` says that this is the only way and that no second
  expiry follows.
* `messages_sent` is reset only after the early reply (`afl-fuzz.c:5821`). When
  connecting, or that receive, fails, the count of the execution before cuts the
  seed that is kept; `KeptAsSent` excludes it.
* When a send fails, the bytes received after it go to the cell of the failed
  message, but the trace ends with the one before and marks that as answered: its
  reply is then read from a part of the buffer that may be empty.
* A class asked to be retried that the seed lacks is put into the messages for the
  next mutation, which then changes the source of the next plan (`afl-fuzz.c:678`).
* With a time limit up to 250 ms a retransmission timer is not cut 250 ms below it but waits
  all of it (`afl-fuzz.c:2965`, `2981`), which leaves the retry no time. Above, each
  delay is below the limit; their sum need not be.
* Only timers back off. For protocols without one, and a gap that is 0 or less, the second
  insertion waits 2 ms, whatever the first waited (`afl-fuzz.c:4826`).

## 6. What is left

Done: the compiler from formulas to automata; automata and fixpoint, interval and
concrete monitors with their abstract specification, the session; of the fuzzer the corpus, executions, the message list
with its abstract specification, the timing plan and delivery. What would come
next, in this order:

1. **`BddMonitor`**: letters as valuations, unknown-letter rule over all edges,
   NEGATIVE first, projection of the alphabet; refining `OnlineVerdict`.
2. **Counting testers** (`CountFn.cpp` and its three siblings), which every interval
   <l,u> with l > 0 becomes: pairs of clocks that take turns, and sequence automata at
   both ends. The semantics of `Mitl` and the runs of `MCCompiler` would serve.
3. **`DelayStates`**: latency and jitter clocks, testing states.
4. **`EventLoop`**: file and interactive loops, with the liveness question whether
   the file loop ends.
5. **Energy**: `calculate_score` and the havoc stages, whose cycle counts depend on
   the state's and the seed's history.

Theorems to add: of the compiler, that one tester and its formula agree on all timed words,
for one tester at a time.

### Not modelled

* **Of the compiler**: the Count and Pnueli modalities; the texts for UPPAAL and
  TChecker, which most lines of the tester files print; simplification and the check
  of satisfiability; the MoniTAal copies of the product for two plain automata
  (`TA::intersection`). The files `MightyPPL_new_*.cpp` are earlier copies of
  `MightyPPL.cpp` that no build compiles. In a build without assertions
  (NDEBUG), `assert(visit(...) == 0)` of the numbering visitor is not evaluated and the
  operands of a repeated subformula have no number; the model is the build with them.
* **Delay and testing monitors, native BDD monitor, event loops**: not written, see
  above.
* **Mutation stages, dictionaries, minimisation, statistics, the files of a
  campaign**: a mutated buffer is any sequence of regions here; the rest is output.
  Crash and hang files, resuming (`-i -`) and trimming, which AFLNet disables, are
  left out with them.
* **Parsers of requests and replies**: per protocol, over bytes; their results are
  inputs of the models (regions, codes, request classes).
* **XML and event text, logs, printing, benchmarks, scripts and vendored tools.**
* `poll` and tail waits are in the model by their lengths only; `init_forkserver`
  runs once, before the first execution.

A large part of the repository's lines is of these kinds, above all the copies of
the compiler and the byte-level parsers; the modules cover the parts with state
that lasts from one event, execution or seed to the next.
