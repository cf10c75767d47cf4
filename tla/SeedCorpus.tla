------------------------------ MODULE SeedCorpus -----------------------------
(***************************************************************************)
(* The fuzzer's seeds: the queue of AFL with its favored entries, and what *)
(* AFLNet knows of the server beside it - the states its replies revealed, *)
(* the seeds that reach each state, and the table of which seed was fuzzed *)
(* for which state.  One action is a seed of the dry run, the choice of a  *)
(* state and a seed of it, the choice of the messages to mutate, an        *)
(* execution that is kept, or the end of a seed's turn.                    *)
(*                                                                         *)
(* An execution is seen by what the fuzzer remembers of it: the replies to *)
(* its messages as the codes the protocol's parser finds in them, the bits *)
(* of the bitmap it sets, its cost, and whether it calibrates.             *)
(***************************************************************************)
EXTENDS Integers, Sequences, FiniteSets, SequencesExt

CONSTANTS
    Bits,           \* the bytes of the bitmap, 1 .. MAP_SIZE
    Setups,         \* campaigns: schedule (seed_schedule_type) in "ipsm", "hybrid",
                    \* "queue"; state and seed (the selection algorithms) in "random",
                    \* "round_robin", "favor"; slips, whether replies may parse
                    \* two ways; room, the bound on the queue
    Seeds,          \* executions of the initial seeds
    Mutants,        \* executions of mutated seeds
    MaxInitial,     \* bound on the initial seeds
    WarmUp,         \* rounds before "favor" looks at scores, 5 in the code
    Counter,        \* the values of a u32, 2^32
    Few             \* what counts as few seeds or entries, 10 in the code

ASSUME CorpusAssumption ==
    /\ Bits \in Nat \ {0} /\ MaxInitial \in Nat \ {0}
    /\ WarmUp \in Nat /\ Few \in Nat /\ Counter \in Nat \ {0}
    /\ \A run \in Seeds \cup Mutants :
          /\ run.bits \subseteq 1 .. Bits
          /\ run.replies # << >> /\ run.replies \in Seq(Range(run.replies))
          /\ \A i \in DOMAIN run.replies :
                run.replies[i].codes \in Seq(Range(run.replies[i].codes))

VARIABLES
    setup,          \* the schedule and the algorithms of this campaign
    pc,             \* where main is
    queue,          \* the queue entries
    cur,            \* queue_cur, 0 for none
    virgin,         \* bits of virgin_bits no execution has set
    top_rated,      \* the entry that holds a bit, 0 for none
    score_changed,
    pending_favored,
    pending_not_fuzzed,
    machine,        \* the server's states: ipsm, khs_ipsm_paths, khms_states, state_ids, was_fuzzed_map
    target_state_id,
    selected_state_index,
    state_cycles,
    code_aware_schedule,
    m2              \* M2_start_region_ID and M2_region_count

favorites == <<virgin, top_rated, score_changed>>
choice == <<target_state_id, selected_state_index, state_cycles, code_aware_schedule>>
vars == <<setup, pc, queue, cur, favorites, pending_favored, pending_not_fuzzed,
          machine, choice, m2>>

\* The cells of was_fuzzed_map.
Unreachable == -1
Reachable == 0
Fuzzed == 1

-----------------------------------------------------------------------------
(***************************************************************************)
(* Replies.  replies[i] is what arrived after message i: whether there     *)
(* were bytes at all, and the codes in them.  slip is a region whose bytes *)
(* parse to another state, odd, when parsed again without what followed.   *)
(***************************************************************************)
Codes(run, n) == FlattenSeq([i \in 1 .. n |-> run.replies[i].codes])

\* extract_response_codes on the whole buffer: the initial state comes first.
state_sequence(run) == <<0>> \o Codes(run, Len(run.replies))

Silent(run) == \A i \in DOMAIN run.replies : ~run.replies[i].bytes

\* Fault: a region keeps the codes of those before it.
update_region_annotations_Keeps(run) ==
    [i \in DOMAIN run.replies |-> IF run.slip = i THEN <<0, run.odd>> ELSE <<0>> \o Codes(run, i)]

\* update_region_annotations
update_region_annotations(run) ==
    [i \in DOMAIN run.replies |->
        IF ~run.replies[i].bytes THEN << >>
        ELSE IF run.slip = i THEN <<0, run.odd>>
        ELSE <<0>> \o Codes(run, i)]

-----------------------------------------------------------------------------
(***************************************************************************)
(* The state machine and the table of fuzzed seeds.                        *)
(***************************************************************************)
NoMachine == [nodes |-> {}, paths |-> {}, state_ids |-> << >>, rows |-> << >>,
              seeds |-> << >>, cursor |-> << >>]

Known(m) == DOMAIN m.seeds

Columns(m) == IF m.rows = << >> THEN 0 ELSE Len(m.rows[1])

\* get_state_index, counted from 1
get_state_index(m, s) ==
    CHOOSE i \in 1 .. Len(m.state_ids) + 1 :
        /\ i \in DOMAIN m.state_ids => m.state_ids[i] = s
        /\ \A j \in 1 .. i - 1 : m.state_ids[j] # s

\* expand_was_fuzzed_map
expand_was_fuzzed_map(m, states, entries) ==
    LET wide == [i \in DOMAIN m.rows |-> m.rows[i] \o [j \in 1 .. entries |-> Unreachable]]
        blank == [j \in 1 .. Columns(m) + entries |-> Unreachable]
    IN  [m EXCEPT !.rows = wide \o [i \in 1 .. states |-> blank]]

\* kh_put: what s is mapped to, whether it was mapped or not.
With(f, s, x) == [t \in DOMAIN f \cup {s} |-> IF t = s THEN x ELSE f[t]]

\* Fault: the initial state gets a second row.
NewState_AlwaysRow(m, s, listed) ==
    expand_was_fuzzed_map(
        [m EXCEPT !.state_ids = Append(@, s),
                  !.seeds = With(@, s, listed),
                  !.cursor = With(@, s, 1)], 1, 0)

\* A state_info_t of its own, an entry of state_ids, and a row unless it is the
\* initial state, whose row came with the first seed.
NewState(m, s, listed) ==
    expand_was_fuzzed_map(
        [m EXCEPT !.state_ids = Append(@, s),
                  !.seeds = With(@, s, listed),
                  !.cursor = With(@, s, 1)], IF s = 0 THEN 0 ELSE 1, 0)

\* One end of an edge of the graph.
AddNode(m, s) ==
    IF s \in m.nodes THEN m ELSE [NewState(m, s, << >>) EXCEPT !.nodes = @ \cup {s}]

\* The third and later of equal states in a row do not count.
Trimmed(states) ==
    LET kept[i \in 0 .. Len(states)] ==
            IF i = 0 THEN << >>
            ELSE IF i < 3 \/ states[i] # states[i - 1] \/ states[i] # states[i - 2]
                 THEN Append(kept[i - 1], states[i]) ELSE kept[i - 1]
    IN  kept[Len(states)]

\* is_state_sequence_interesting and what follows if it is: a sequence of one
\* state has no edge, and adds nothing.
LearnPath(m, states) ==
    IF Trimmed(states) \in m.paths THEN m
    ELSE LET n == [m EXCEPT !.paths = @ \cup {Trimmed(states)}]
             after[i \in 0 .. Len(states)] == IF i = 0 THEN n ELSE AddNode(after[i - 1], states[i])
         IN  IF Len(states) > 1 THEN after[Len(states)] ELSE n

\* The seed q reaches s.
ListSeed(m, s, q) ==
    LET n == IF s \in Known(m) THEN [m EXCEPT !.seeds[s] = Append(@, q)]
             ELSE NewState(m, s, <<q>>)
    IN  [n EXCEPT !.rows[get_state_index(n, s)][q] = Reachable]

\* PFATAL: "the states hashtable should always contain an entry of the initial state".
LacksInitialState(m, run) ==
    ~Silent(run) /\ 0 \notin Known(LearnPath(m, state_sequence(run)))

\* The seed reaches what its region's annotation ends in.
ListRegion(m, annotation, q) ==
    IF annotation = << >> THEN m ELSE ListSeed(m, Last(annotation), q)

\* update_state_aware_variables
update_state_aware_variables(m, run, q) ==
    IF Silent(run) THEN m
    ELSE LET annotations == update_region_annotations(run)
             n == ListSeed(LearnPath(m, state_sequence(run)), 0, q)
             after[i \in 0 .. Len(annotations)] ==
                IF i = 0 THEN n ELSE ListRegion(after[i - 1], annotations[i], q)
         IN  after[Len(annotations)]

-----------------------------------------------------------------------------
(***************************************************************************)
(* The queue and its favored entries.                                      *)
(***************************************************************************)
Entry(target, initial) ==
    [gen |-> target, initial |-> initial, favored |-> FALSE, was_fuzzed |-> FALSE,
     cal |-> FALSE, regions |-> << >>, bits |-> {}, factor |-> 0, tc_ref |-> 0, mini |-> FALSE]

\* add_to_queue, the part that concerns the table: a column, and the row of the
\* initial state with the very first seed.
AddColumn(m) == expand_was_fuzzed_map(m, IF m.rows = << >> THEN 1 ELSE 0, 1)

\* Fault: the loser's trace is freed with its first lost byte.
Repaid_FreesEarly(entries, e, q, won) ==
    LET lost == Cardinality({b \in won : top_rated[b] = e})
    IN  [entries[e] EXCEPT
            !.tc_ref = @ - lost + (IF e = q THEN Cardinality(won) ELSE 0),
            !.mini = IF e = q THEN @ \/ won # {} ELSE @ /\ lost = 0]

\* update_bitmap_score, what becomes of entry e when q takes the bytes in won: its
\* reference count, and trace_mini, which lives as long as it holds a byte.
Repaid(entries, e, q, won) ==
    LET lost == Cardinality({b \in won : top_rated[b] = e})
    IN  [entries[e] EXCEPT
            !.tc_ref = @ - lost + (IF e = q THEN Cardinality(won) ELSE 0),
            !.mini = IF e = q THEN @ \/ won # {} ELSE @ /\ (lost = 0 \/ entries[e].tc_ref # lost)]

\* update_bitmap_score: q takes a byte without a contender, or from one that is not
\* better.
update_bitmap_score(entries, q) ==
    LET won == {b \in entries[q].bits :
                    top_rated[b] = 0 \/ entries[q].factor <= entries[top_rated[b]].factor}
    IN  [queue |-> [e \in DOMAIN entries |-> Repaid(entries, e, q, won)],
         top |-> [b \in 1 .. Bits |-> IF b \in won THEN q ELSE top_rated[b]],
         changed |-> score_changed \/ won # {}]

\* The end of calibrate_case.  A seed that fails keeps cal_failed, and is never
\* calibrated again.
calibrate_case(entries, q, run) ==
    IF run.calibrates
    THEN update_bitmap_score([entries EXCEPT ![q].cal = TRUE, ![q].bits = run.bits,
                                             ![q].factor = run.factor], q)
    ELSE [queue |-> entries, top |-> top_rated, changed |-> score_changed]

\* The holder of byte b wins if no earlier winner covers it.
Contend(top, entries, c, b) ==
    IF top[b] # 0 /\ b \in c.left
    THEN [left |-> c.left \ entries[top[b]].bits, won |-> c.won \cup {top[b]}]
    ELSE c

\* Winners of bytes that no earlier winner covers.
Winners(top, entries) ==
    LET after[b \in 0 .. Bits] ==
            IF b = 0 THEN [left |-> 1 .. Bits, won |-> {}] ELSE Contend(top, entries, after[b - 1], b)
    IN  after[Bits].won

\* What makes a favored entry pending.
Pending(entries, q, target) ==
    IF code_aware_schedule' THEN ~entries[q].was_fuzzed
    ELSE /\ entries[q].gen = target \/ entries[q].initial
         /\ machine.rows[get_state_index(machine, target)][q] = Reachable

\* Fault: the winners of the last byte are not marked.
cull_queue_MissesLast(target) ==
    IF ~score_changed THEN UNCHANGED <<queue, top_rated, score_changed, pending_favored>>
    ELSE LET won == Winners([top_rated EXCEPT ![Bits] = 0], queue)
         IN  /\ queue' = [q \in DOMAIN queue |->
                    [queue[q] EXCEPT !.favored = (@ /\ queue[q].initial) \/ q \in won]]
             /\ pending_favored' = Cardinality({q \in won : Pending(queue, q, target)})
             /\ score_changed' = FALSE
             /\ UNCHANGED top_rated

\* cull_queue, for the target state just chosen.  An initial seed stays favored.
cull_queue(target) ==
    IF ~score_changed THEN UNCHANGED <<queue, top_rated, score_changed, pending_favored>>
    ELSE LET won == Winners(top_rated, queue)
         IN  /\ queue' = [q \in DOMAIN queue |->
                    [queue[q] EXCEPT !.favored = (@ /\ queue[q].initial) \/ q \in won]]
             /\ pending_favored' = Cardinality({q \in won : Pending(queue, q, target)})
             /\ score_changed' = FALSE
             /\ UNCHANGED top_rated

-----------------------------------------------------------------------------
(***************************************************************************)
(* The campaign.                                                           *)
(***************************************************************************)
\* After read_testcases: every initial seed has its column.
Init ==
    /\ setup \in Setups
    /\ pc = "dry_run"
    /\ \E k \in 1 .. MaxInitial :
          /\ queue = [q \in 1 .. k |-> Entry(0, TRUE)]
          /\ machine = expand_was_fuzzed_map(NoMachine, 1, k)
          /\ pending_not_fuzzed = k
    /\ cur = 1
    /\ virgin = 1 .. Bits /\ top_rated = [b \in 1 .. Bits |-> 0] /\ score_changed = FALSE
    /\ pending_favored = 0
    /\ target_state_id = 0 /\ selected_state_index = 1 /\ state_cycles = 0
    /\ code_aware_schedule = FALSE
    /\ m2 = << >>

\* perform_dry_run, one seed: calibrated first, then learned from.
DryRun(run) ==
    /\ pc = "dry_run" /\ cur <= Len(queue)
    /\ run.slip = 0 \/ setup.slips
    /\ IF LacksInitialState(machine, run)
       THEN pc' = "failed" /\ UNCHANGED <<queue, cur, favorites, machine>>
       ELSE LET c == calibrate_case(queue, cur, run)
            IN  /\ queue' = [c.queue EXCEPT ![cur].regions = update_region_annotations(run)]
                /\ top_rated' = c.top /\ score_changed' = c.changed
                /\ virgin' = IF run.calibrates THEN virgin \ run.bits ELSE virgin
                /\ machine' = update_state_aware_variables(machine, run, cur)
                /\ cur' = cur + 1
                /\ UNCHANGED pc
    /\ UNCHANGED <<setup, pending_favored, pending_not_fuzzed, choice, m2>>

\* The end of the dry run: the first culling, and no state means no campaign.
Start ==
    /\ pc = "dry_run" /\ cur > Len(queue)
    /\ UNCHANGED <<setup, virgin, pending_not_fuzzed, machine, choice, m2>>
    /\ cull_queue(0)
    /\ cur' = 0
    /\ pc' = IF setup.schedule # "queue" /\ machine.state_ids = << >> THEN "failed" ELSE "select"

\* Fault: the last one is taken again and again.
Next1_Stays(i, n) == IF i = n THEN n ELSE i + 1

\* The next in turn, the first after the last.
Next1(i, n) == IF i = n THEN 1 ELSE i + 1

\* choose_target_state; update_scores_and_select_next_state may return any state.
choose_target_state ==
    LET n == Len(machine.state_ids)
        round_robin(rounds) ==
            /\ target_state_id' = machine.state_ids[selected_state_index]
            /\ selected_state_index' = Next1(selected_state_index, n)
            /\ state_cycles' = IF rounds /\ selected_state_index = n THEN state_cycles + 1
                               ELSE state_cycles
    IN  \/ /\ setup.state = "random"
           /\ \E i \in 1 .. n : /\ selected_state_index' = i
                                /\ target_state_id' = machine.state_ids[i]
           /\ UNCHANGED state_cycles
        \/ setup.state = "round_robin" /\ round_robin(FALSE)
        \/ setup.state = "favor" /\ state_cycles < WarmUp /\ round_robin(TRUE)
        \/ /\ setup.state = "favor" /\ state_cycles >= WarmUp
           /\ target_state_id' \in Range(machine.state_ids)
           /\ UNCHANGED <<selected_state_index, state_cycles>>

\* The walk of "favor" over many seeds: the dice may let it stop here ...
MayStop(e) == pending_favored' > 0 \/ (~queue'[e].favored /\ Len(queue) > Few)

\* ... and must let it stop here.
MustStop(e, s) ==
    /\ queue[e].gen = s \/ queue[e].initial
    /\ pending_favored' > 0 /\ queue'[e].favored
    /\ machine.rows[get_state_index(machine, s)][e] # Fuzzed

\* choose_seed: the places in the state's list it can come to, with the cursor it
\* leaves.  Five times round without a stop ends with the last seed.
choose_seed(s) ==
    LET seeds == machine.seeds[s]
        n == Len(seeds)
        c == machine.cursor[s]
        passed(i) == IF i >= c THEN c .. i - 1 ELSE (c .. n) \cup (1 .. i - 1)
        walk == {<<i, Next1(i, n)>> : i \in {j \in 1 .. n :
                    MayStop(seeds[j]) /\ \A k \in passed(j) : ~MustStop(seeds[k], s)}}
    IN  IF setup.seed = "random" THEN {<<i, i>> : i \in 1 .. n}
        ELSE IF setup.seed = "round_robin" \/ n <= Few THEN {<<c, Next1(c, n)>>}
        ELSE walk \cup {<<n, 1>> : x \in {y \in {0} : \A k \in 1 .. n : ~MustStop(seeds[k], s)}}

\* The state-aware turn: a state, the favorites, and one of its seeds.  A state
\* without seeds, and a seed without messages, are passed over.
SelectSeed ==
    /\ pc = "select" /\ setup.schedule \in {"ipsm", "hybrid"}
    /\ choose_target_state
    /\ code_aware_schedule' = FALSE
    /\ cull_queue(target_state_id')
    /\ IF machine.seeds[target_state_id'] = << >> THEN UNCHANGED <<machine, cur, pc>>
       ELSE \E pick \in choose_seed(target_state_id') :
            LET e == machine.seeds[target_state_id'][pick[1]]
            IN  /\ machine' = [machine EXCEPT !.cursor[target_state_id'] = pick[2]]
                /\ IF queue[e].regions = << >> THEN UNCHANGED <<cur, pc>>
                   ELSE cur' = e /\ pc' = "chosen"
    /\ UNCHANGED <<setup, virgin, pending_not_fuzzed, m2>>

\* The turn of AFL: the next entry of the queue, the first after the last.
NextInQueue ==
    /\ pc = "select" /\ setup.schedule \in {"queue", "hybrid"}
    /\ code_aware_schedule' = (setup.schedule = "hybrid")
    /\ cull_queue(target_state_id)
    /\ cur' = IF cur = 0 THEN 1 ELSE cur
    /\ pc' = "chosen"
    /\ UNCHANGED <<setup, virgin, pending_not_fuzzed, machine, target_state_id,
                   selected_state_index, state_cycles, m2>>

\* queue_cur = queue_cur->next, in the turns that follow the queue.
Advance ==
    cur' = IF setup.schedule = "queue" \/ code_aware_schedule
           THEN (IF cur = Len(queue) THEN 0 ELSE cur + 1) ELSE cur

-----------------------------------------------------------------------------
(***************************************************************************)
(* fuzz_one.                                                               *)
(***************************************************************************)
Alike(regions, i) ==
    CHOOSE k \in 0 .. Len(regions) - i + 1 :
        /\ \A j \in i .. i + k - 1 : Len(regions[j]) = Len(regions[i])
        /\ i + k \in DOMAIN regions => Len(regions[i + k]) # Len(regions[i])

\* Fault: what follows any region that ends in the target, not only the first.
M2Of_Any(regions, target) ==
    IF target = 0 THEN {<<1, Alike(regions, 1)>>}
    ELSE {<<i + 1, Alike(regions, i + 1)>> : i \in {j \in 1 .. Len(regions) - 1 :
             /\ \A k \in 1 .. j : regions[k] # << >>
             /\ Last(regions[j]) = target}}

\* The first message and the number of messages to mutate: what follows the first
\* region that ends in the target, as far as the annotations have one length.
\* None if a region before it has no annotation or none is left after it.
M2Of(regions, target) ==
    IF target = 0 THEN {<<1, Alike(regions, 1)>>}
    ELSE {<<i + 1, Alike(regions, i + 1)>> : i \in {j \in 1 .. Len(regions) - 1 :
             /\ \A k \in 1 .. j : regions[k] # << >>
             /\ Last(regions[j]) = target
             /\ \A k \in 1 .. j - 1 : Last(regions[k]) # target}}

\* The odds against an entry of the queue's own turn.
MaySkip(e) == IF pending_favored > 0 THEN e.was_fuzzed \/ ~e.favored
              ELSE ~e.favored /\ Len(queue) > Few

\* return 1 before anything is sent.
Skip ==
    /\ pc = "chosen"
    /\ IF code_aware_schedule THEN MaySkip(queue[cur])
       ELSE M2Of(queue[cur].regions, target_state_id) = {}
    /\ Advance /\ pc' = "select" /\ m2' = << >>
    /\ UNCHANGED <<setup, queue, favorites, pending_favored, pending_not_fuzzed, machine, choice>>

\* The messages to mutate; any in the queue's own turn.
StartFuzz ==
    /\ pc = "chosen"
    /\ LET regions == queue[cur].regions
       IN  IF code_aware_schedule
           THEN \E i \in DOMAIN regions : \E k \in 1 .. Len(regions) - i + 1 :
                   /\ k < Len(regions) - i + 1 \/ k = 1
                   /\ m2' = <<i, k>>
           ELSE m2' \in M2Of(regions, target_state_id)
    /\ pc' = "fuzz"
    /\ UNCHANGED <<setup, queue, cur, favorites, pending_favored, pending_not_fuzzed, machine,
                   choice>>

\* save_if_interesting of an execution without a fault: kept for a new byte of
\* the bitmap or for what the monitor said, learned from, and then calibrated.
Keep(run) ==
    LET q == Len(queue) + 1
        m == AddColumn(machine)
        e == [Entry(target_state_id, FALSE) EXCEPT !.regions = update_region_annotations(run)]
        c == calibrate_case(Append(queue, e), q, run)
    IN  /\ Len(queue) < setup.room
        /\ run.slip = 0 \/ setup.slips
        /\ run.bits \cap virgin # {} \/ run.interesting
        /\ ~LacksInitialState(m, run)
        /\ queue' = c.queue /\ top_rated' = c.top /\ score_changed' = c.changed
        /\ virgin' = virgin \ run.bits
        /\ machine' = update_state_aware_variables(m, run, q)
        /\ pending_not_fuzzed' = pending_not_fuzzed + 1
        /\ UNCHANGED <<setup, cur, pending_favored, choice>>

\* A mutated seed that is kept.
Save(run) == pc = "fuzz" /\ Keep(run) /\ UNCHANGED <<pc, m2>>

\* A server whose first replies hold no code leaves update_state_aware_variables
\* without an initial state.
GiveUp(run) ==
    /\ pc \in {"fuzz", "sync"} /\ Len(queue) < setup.room
    /\ run.bits \cap virgin # {} \/ run.interesting
    /\ LacksInitialState(AddColumn(machine), run)
    /\ pc' = "failed"
    /\ UNCHANGED <<setup, queue, cur, favorites, pending_favored, pending_not_fuzzed, machine,
                   choice, m2>>

\* abandon_entry
Abandon ==
    /\ pc = "fuzz"
    /\ IF queue[cur].cal /\ ~queue[cur].was_fuzzed
       THEN /\ queue' = [queue EXCEPT ![cur].was_fuzzed = TRUE]
            /\ machine' = [machine EXCEPT
                    !.rows[get_state_index(machine, target_state_id)][cur] = Fuzzed]
            /\ pending_not_fuzzed' = pending_not_fuzzed - 1
            /\ pending_favored' = IF queue[cur].favored THEN (pending_favored - 1) % Counter
                                  ELSE pending_favored
       ELSE UNCHANGED <<queue, machine, pending_not_fuzzed, pending_favored>>
    /\ m2' = << >> /\ pc' = "sync"
    /\ UNCHANGED <<setup, cur, favorites, choice>>

\* sync_fuzzers: a seed of another fuzzer, kept by the same rule.
Import(run) == pc = "sync" /\ Keep(run) /\ UNCHANGED <<pc, m2>>

\* The next turn of main's loop.
Loop ==
    /\ pc = "sync" /\ Advance /\ pc' = "select"
    /\ UNCHANGED <<setup, queue, favorites, pending_favored, pending_not_fuzzed, machine,
                   choice, m2>>

Next == \/ \E run \in Seeds : DryRun(run)
        \/ Start
        \/ SelectSeed \/ NextInQueue
        \/ Skip \/ StartFuzz
        \/ \E run \in Mutants : Save(run) \/ Import(run) \/ GiveUp(run)
        \/ Abandon \/ Loop

Spec == Init /\ [][Next]_vars /\ WF_vars(SelectSeed)

-----------------------------------------------------------------------------
(***************************************************************************)
(* Properties.                                                             *)
(***************************************************************************)
\* Every variable has its type, and every index is inside its array.
TypeOK ==
    /\ pc \in {"dry_run", "select", "chosen", "fuzz", "sync", "failed"}
    /\ cur \in 0 .. Len(queue) + 1
    /\ pc \in {"chosen", "fuzz"} => cur \in DOMAIN queue
    /\ virgin \subseteq 1 .. Bits /\ top_rated \in [1 .. Bits -> 0 .. Len(queue)]
    /\ pending_favored \in 0 .. Counter - 1 /\ pending_not_fuzzed \in Nat
    /\ pc \in {"select", "chosen"} /\ setup.schedule # "queue" =>
            selected_state_index \in DOMAIN machine.state_ids
    /\ \A i \in DOMAIN machine.rows :
            machine.rows[i] \in Seq({Unreachable, Reachable, Fuzzed})

\* The table has a column for every entry of the queue and a row for every state
\* in state_ids (the initial state's from the start), so that no pair of a state
\* and a seed is looked up outside it - also after a region parsed to a state
\* nobody had seen.
TableHasRoom ==
    /\ Len(machine.rows) = IF machine.state_ids = << >> THEN 1 ELSE Len(machine.state_ids)
    /\ \A i \in DOMAIN machine.rows : Len(machine.rows[i]) = Len(queue)
    /\ machine.state_ids # << >> => machine.state_ids[1] = 0

\* Unless a reply parsed two ways, the graph, the table of states and the list of
\* their ids hold the same states, each once.
StatesAgree ==
    ~setup.slips => /\ Range(machine.state_ids) = Known(machine)
                    /\ machine.nodes = Known(machine)
                    /\ Cardinality(Known(machine)) = Len(machine.state_ids)

\* What a region's annotation ends in, of the regions that have one.
Reached(q) == {0} \cup {Last(r) : r \in {x \in Range(queue[q].regions) : x # << >>}}

\* A seed is in the list of a state, and reachable in its row, exactly if some
\* region of the seed ends in that state (every seed that drew a reply reaches
\* the initial state): what choose_seed picks can be steered to the target.
ListedIffReachable ==
    ~setup.slips => \A s \in Known(machine) : \A q \in DOMAIN queue :
        LET drew == \E r \in Range(queue[q].regions) : r # << >>
            listed == q \in Range(machine.seeds[s])
        IN  /\ listed <=> drew /\ s \in Reached(q)
            /\ listed => machine.rows[get_state_index(machine, s)][q] # Unreachable

\* pending_not_fuzzed is the number of entries that were never fuzzed.
PendingNotFuzzedExact ==
    pending_not_fuzzed = Cardinality({q \in DOMAIN queue : ~queue[q].was_fuzzed})

\* The holder of a byte still has the trace that cull_queue reads, and its
\* reference count is the number of bytes it holds.
TraceKept ==
    /\ \A b \in 1 .. Bits : top_rated[b] # 0 => queue[top_rated[b]].mini
    /\ \A q \in DOMAIN queue :
          queue[q].tc_ref = Cardinality({b \in 1 .. Bits : top_rated[b] = q})

\* Unless a byte changed hands since the last culling, every byte any calibrated
\* seed sets is set by a favored one.
FavoredCover ==
    ~score_changed => \A q \in DOMAIN queue : queue[q].cal =>
        \A b \in queue[q].bits : \E f \in DOMAIN queue : queue[f].favored /\ b \in queue[f].bits

\* Which of the first n messages take the server to the target state.
EndingIn(regions, n, target) ==
    {j \in 1 .. n : regions[j] # << >> /\ Last(regions[j]) = target}

\* The messages that are mutated come right after the first one that takes the
\* server to the target state, and are messages of the seed: of those sent before
\* them the last one does, and no earlier one (fuzz_one, M2_start_region_ID).
MutatesAfterTarget ==
    pc = "fuzz" =>
        LET regions == queue[cur].regions
        IN  /\ m2[1] \in DOMAIN regions /\ m2[2] >= 1
            /\ m2[1] + m2[2] - 1 \in DOMAIN regions
            /\ (~code_aware_schedule /\ target_state_id # 0) =>
                  EndingIn(regions, m2[1] - 1, target_state_id) = {m2[1] - 1}

\* With states taken in turn, the search for a state that has a seed ends.
SelectionEnds ==
    (pc = "select" /\ setup.schedule = "ipsm" /\ setup.state = "round_robin") ~> (pc # "select")

\* "was_fuzzed information becomes state-aware": the seed just fuzzed for a
\* target is marked for that target.
FuzzedPerState ==
    (pc = "sync" /\ ~code_aware_schedule /\ queue[cur].cal) =>
        machine.rows[get_state_index(machine, target_state_id)][cur] = Fuzzed

\* "Pending favored paths": never more than there are favored entries.
PendingFavoredIsCount ==
    pending_favored <= Cardinality({q \in DOMAIN queue : queue[q].favored})
=============================================================================
