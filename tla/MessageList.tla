----------------------------- MODULE MessageList -----------------------------
(***************************************************************************)
(* The messages of a seed in fuzz_one: a klist of nodes from a pool, with  *)
(* a blank node at its end, and two pointers that bound the part to        *)
(* mutate.  common_fuzz_stuff pushes the mutated messages at the end and   *)
(* then turns the links round so that they stand where the old ones did.   *)
(***************************************************************************)
EXTENDS Integers, Sequences, SequencesExt, FiniteSets

CONSTANTS
    Seeds,                  \* queue entries: sequences of messages
    Regions,                \* mutated buffers, as extract_requests splits them
    max_seed_region_count,
    stage_max,              \* bound on the executions of a seed
    MaxNodes                \* bound on the nodes of a list

ASSUME MessageListAssumption ==
    /\ {max_seed_region_count, stage_max, MaxNodes} \subseteq Nat \ {0}
    /\ << >> \notin Seeds /\ << >> \notin Regions
    /\ \A seed \in Seeds : seed \in Seq(ToSet(seed))
    /\ \A regions \in Regions : regions \in Seq(ToSet(regions))

VARIABLES
    pc,
    next, data,             \* the nodes: their link and their message
    head, tail, size,       \* kl_messages
    made, pool,             \* nodes allocated, and freed ones, the last on top
    M2_prev, M2_next,
    stage_cur,
    out_buf, i,             \* the mutated buffer, and how many messages of it are pushed
    prev_last_message, cur_it,
    sent

list == <<next, data, head, tail, size, made, pool>>
splice == <<out_buf, i, prev_last_message, cur_it>>
vars == <<pc, list, M2_prev, M2_next, stage_cur, splice, sent>>

NULL == 0
Nodes == 1 .. MaxNodes
Stale == <<"freed">>

\* The nodes from a up to b, b left out.
Upto(a, b) ==
    LET step == [n \in 0 .. MaxNodes |-> IF n \in {b, NULL} THEN n ELSE next[n]]
        walk[k \in Nodes] == IF k = 1 THEN a ELSE step[walk[k - 1]]
        length == Cardinality({k \in Nodes : walk[k] \notin {b, NULL}})
    IN  [k \in 1 .. length |-> walk[k]]

Messages(a, b) == LET nodes == Upto(a, b) IN [k \in DOMAIN nodes |-> data[nodes[k]]]

\* kmp_alloc: from the pool, or a new one.
kmp_alloc == IF pool = << >> THEN made + 1 ELSE Last(pool)

\* kl_pushp: the blank node takes the message, another node is the blank one.
kl_pushp(message) ==
    /\ kmp_alloc \in Nodes
    /\ made' = IF pool = << >> THEN made + 1 ELSE made
    /\ pool' = IF pool = << >> THEN pool ELSE Front(pool)
    /\ data' = [data EXCEPT ![tail] = message]
    /\ next' = [next EXCEPT ![kmp_alloc] = NULL, ![tail] = kmp_alloc]
    /\ tail' = kmp_alloc
    /\ size' = size + 1
    /\ UNCHANGED head

\* get_last_message
get_last_message == Last(Upto(head, tail))

-----------------------------------------------------------------------------
Init ==
    /\ pc = "idle"
    /\ next = [n \in Nodes |-> NULL] /\ data = [n \in Nodes |-> Stale]
    /\ head = 1 /\ tail = 1 /\ size = 0 /\ made = 1 /\ pool = << >>
    /\ M2_prev = NULL /\ M2_next = 1 /\ stage_cur = 0
    /\ out_buf = << >> /\ i = 0
    /\ prev_last_message = NULL /\ cur_it = NULL
    /\ sent = << >>

\* construct_kl_messages, and the boundaries: k nodes, node n + 1 behind node n.
Construct(seed, start, count) ==
    LET k == Len(seed)
    IN  /\ pc = "idle" /\ pc' = "ready"
        /\ k + 1 <= MaxNodes /\ start + count <= k /\ count >= 1
        /\ next' = [n \in Nodes |-> IF n <= k THEN n + 1 ELSE NULL]
        /\ data' = [n \in Nodes |-> IF n <= k THEN seed[n] ELSE Stale]
        /\ head' = 1 /\ tail' = k + 1 /\ size' = k /\ made' = k + 1 /\ pool' = << >>
        /\ M2_prev' = start
        /\ M2_next' = start + count + 1
        /\ UNCHANGED <<stage_cur, splice, sent>>

\* A mutated buffer: the last message before it is remembered.
Parse(regions) ==
    /\ pc = "ready" /\ stage_cur < stage_max /\ pc' = "push"
    /\ stage_cur' = stage_cur + 1
    /\ out_buf' = regions /\ i' = 0
    /\ prev_last_message' = get_last_message
    /\ UNCHANGED <<list, M2_prev, M2_next, cur_it, sent>>

\* Fault: the message beyond the limit holds one region.
RestOf_OneRegion == <<out_buf[i + 1]>>

\* The next message: one region, or all that are left when the limit is reached.
RestOf == IF i = max_seed_region_count THEN SubSeq(out_buf, i + 1, Len(out_buf))
          ELSE <<out_buf[i + 1]>>

AllPushed == i = Len(out_buf) \/ i > max_seed_region_count

\* M2_next moves on with the blank node if nothing follows the mutated part.
Push ==
    /\ pc = "push" /\ ~AllPushed
    /\ kl_pushp(RestOf)
    /\ M2_next' = IF next'[M2_next] = tail' THEN tail' ELSE M2_next
    /\ i' = i + 1
    /\ UNCHANGED <<pc, M2_prev, stage_cur, out_buf, prev_last_message, cur_it,
                   sent>>

\* The new messages take the place of the old; the last of all is followed by the
\* blank node.
Relink ==
    /\ pc = "push" /\ AllPushed /\ pc' = "free"
    /\ LET first == next[prev_last_message]
           last == get_last_message
           start == IF M2_prev = NULL THEN head ELSE next[M2_prev]
           entered == IF M2_prev = NULL THEN next ELSE [next EXCEPT ![M2_prev] = first]
       IN  /\ head' = IF M2_prev = NULL THEN first ELSE head
           /\ next' = [[entered EXCEPT ![last] = M2_next] EXCEPT ![prev_last_message] = tail]
           /\ cur_it' = start
    /\ UNCHANGED <<data, tail, size, made, pool, M2_prev, M2_next, stage_cur, out_buf, i,
                   prev_last_message, sent>>

\* Fault: the size counts the new messages only.
FreeOne_KeepsSize ==
    /\ pc = "free"
    /\ data' = [data EXCEPT ![cur_it] = Stale]
    /\ pool' = Append(pool, cur_it)
    /\ cur_it' = next[cur_it]
    /\ pc' = IF next[cur_it] = M2_next THEN "run" ELSE "free"
    /\ UNCHANGED <<next, head, tail, size, made, M2_prev, M2_next, stage_cur, out_buf, i,
                   prev_last_message, sent>>

\* One of the old messages, until M2_next is reached.
FreeOne ==
    /\ pc = "free"
    /\ data' = [data EXCEPT ![cur_it] = Stale]
    /\ pool' = Append(pool, cur_it)
    /\ size' = size - 1
    /\ cur_it' = next[cur_it]
    /\ pc' = IF next[cur_it] = M2_next THEN "run" ELSE "free"
    /\ UNCHANGED <<next, head, tail, made, M2_prev, M2_next, stage_cur, out_buf, i,
                   prev_last_message, sent>>

\* run_target; the variables of common_fuzz_stuff are gone.
Run ==
    /\ pc = "run" /\ pc' = "ready"
    /\ sent' = Messages(head, tail)
    /\ out_buf' = << >> /\ i' = 0
    /\ prev_last_message' = NULL /\ cur_it' = NULL
    /\ UNCHANGED <<list, M2_prev, M2_next, stage_cur>>

\* abandon_entry: delete_kl_messages
Abandon ==
    /\ pc = "ready" /\ pc' = "idle"
    /\ next' = [n \in Nodes |-> NULL] /\ data' = [n \in Nodes |-> Stale]
    /\ head' = 1 /\ tail' = 1 /\ size' = 0 /\ made' = 1 /\ pool' = << >>
    /\ M2_prev' = NULL /\ M2_next' = 1 /\ stage_cur' = 0
    /\ sent' = << >>
    /\ UNCHANGED splice

Next ==
    \/ \E seed \in Seeds : \E start \in 0 .. Len(seed) - 1 : \E count \in 1 .. Len(seed) :
          Construct(seed, start, count)
    \/ \E regions \in Regions : Parse(regions)
    \/ Push \/ Relink \/ FreeOne \/ Run \/ Abandon

Spec == Init /\ [][Next]_vars

-----------------------------------------------------------------------------
(***************************************************************************)
(* The refinement: the parts of the list as the pointers bound them.  From *)
(* Parse to Relink the new messages hang at the end of the list and do not *)
(* count; Relink is the step that changes m2.                              *)
(***************************************************************************)
M2_first == IF M2_prev = NULL THEN head ELSE next[M2_prev]

\* The first node that does not count.
End == IF pc = "push" THEN next[prev_last_message] ELSE tail

Abstract == INSTANCE MessageSequence WITH
    m1 <- Messages(head, M2_first),
    m2 <- Messages(M2_first, IF M2_next = tail THEN End ELSE M2_next),
    m3 <- IF M2_next = tail THEN << >> ELSE Messages(M2_next, End),
    due <- pc \in {"free", "run"}

\* What is sent is what the abstract specification sends: the messages before and
\* after the mutated part as they were, and between them every mutated byte in
\* order, in no more messages than allowed.
Implements == Abstract!Spec

-----------------------------------------------------------------------------
\* Every variable has its type, and the blank node ends the list.
TypeOK ==
    /\ pc \in {"idle", "ready", "push", "free", "run"}
    /\ next \in [Nodes -> 0 .. MaxNodes]
    /\ head \in Nodes /\ tail \in Nodes /\ made \in Nodes /\ size \in 0 .. MaxNodes
    /\ pool \in Seq(Nodes) /\ next[tail] = NULL

\* Between two executions every node made is in the list or in the pool, once, and
\* size, which the timing plan relies on, is the number of messages.
NodesAccounted ==
    pc = "ready" =>
        LET used == Append(Upto(head, tail), tail) \o pool
        IN  /\ Len(used) = made /\ ToSet(used) = 1 .. made
            /\ size = Len(Upto(head, tail))
=============================================================================
