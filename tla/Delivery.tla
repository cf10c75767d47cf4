------------------------------ MODULE Delivery ------------------------------
(***************************************************************************)
(* One seed's executions, from the hints of the monitor to the trace the   *)
(* monitor reads and the seed that is kept: the timing plan is made, the   *)
(* messages of the plan are sent and what comes back is counted, requests  *)
(* and replies become timed events, and the feedback sets the hints of the *)
(* next execution.                                                         *)
(*                                                                         *)
(* A reply is seen as bytes or none at each moment the fuzzer looks for    *)
(* one; each costs one unit of the response buffer.                        *)
(***************************************************************************)
EXTENDS TimingPlan

CONSTANTS
    Campaigns,      \* records: protocol, exec_tmout, poll_wait_msecs; seeds, the messages
                    \* after a mutation as sequences of classes; entries, hints kept with
                    \* the queue entry; feedbacks, hints the monitor gives
    MaxExecs        \* bound on the executions of a seed

Hint == [gap : Int, mask : SUBSET {"retry", "keepalive", "silence"},
         preferred : STRING, retry : STRING, keepalive : STRING]

\* main: less than 5 ms is refused as a timeout; 0 is a polling time like others.
ASSUME DeliveryAssumption ==
    /\ Campaigns \subseteq [protocol : STRING, exec_tmout : Nat \ 0 .. 4, poll_wait_msecs : Nat,
                            seeds : SUBSET (Seq(STRING) \ {<< >>}),
                            entries : SUBSET Hint, feedbacks : SUBSET Hint]
    /\ MaxExecs \in Nat \ {0}

VARIABLES
    campaign,
    entry,              \* the hints of queue_cur
    stage,              \* the hints of the stage
    plan,               \* bizone_timing_plan and bizone_exec_messages
    pc, execs,
    messages_sent,
    size,               \* response_buf_size
    response_bytes,
    trace,              \* timing_trace: a request, and whether bytes came behind it
    came,               \* history: bytes by the number of messages tried before
    kept                \* the messages of the seed just saved

conversation == <<messages_sent, size, response_bytes, trace, came>>
vars == <<campaign, entry, stage, plan, pc, execs, conversation, kept>>

NoHints == [gap |-> 0, mask |-> {}, preferred |-> NoClass, retry |-> NoClass,
            keepalive |-> NoClass]

messages == plan.messages

\* A cell that was allocated and not written.
Garbage == -1

Seed(classes) == [i \in DOMAIN classes |-> [class |-> classes[i], of |-> i, kind |-> "seed"]]

\* fuzz_one begins: the plan is reset, and the stage has the hints of the entry.
Init ==
    /\ campaign \in Campaigns /\ entry \in campaign.entries
    /\ stage = entry
    /\ plan = NoPlan(<< >>)
    /\ pc = "idle" /\ execs = 0
    /\ messages_sent = 0 /\ size = 0 /\ response_bytes = << >> /\ trace = << >>
    /\ came = << >> /\ kept = << >>

\* common_fuzz_stuff, up to run_target.
Plan ==
    /\ pc = "idle" /\ execs < MaxExecs
    /\ execs' = execs + 1 /\ pc' = "connect"
    /\ \E classes \in campaign.seeds :
          plan' \in prepare_timing_plan(campaign, Effective(stage, entry), Seed(classes))
    /\ stage' = [stage EXCEPT !.retry = IF @ = NoClass THEN plan'.retry_class ELSE @]
    /\ UNCHANGED <<campaign, entry, conversation, kept>>

-----------------------------------------------------------------------------
(***************************************************************************)
(* send_over_network.                                                      *)
(***************************************************************************)
\* What the last execution left is cleared; messages_sent is not, and after a
\* failed connect nothing else happens.
Connect(connected) ==
    /\ pc = "connect"
    /\ size' = 0 /\ response_bytes' = << >> /\ trace' = << >> /\ came' = <<0>>
    /\ pc' = IF connected THEN "greeting" ELSE "report"
    /\ UNCHANGED <<campaign, entry, stage, plan, execs, messages_sent, kept>>

\* Fault: bytes go to the last request but one.
net_recv_Early(got) ==
    /\ size' = size + got
    /\ trace' = IF got = 0 \/ trace = << >> THEN trace
                ELSE [trace EXCEPT ![Max({1, Len(trace) - 1})] = TRUE]
    /\ came' = [came EXCEPT ![Len(came)] = @ + got]

\* net_recv: bytes go to the request sent last, if there is one.
net_recv(got) ==
    /\ size' = size + got
    /\ trace' = IF got = 0 \/ trace = << >> THEN trace ELSE [trace EXCEPT ![Len(trace)] = TRUE]
    /\ came' = [came EXCEPT ![Len(came)] = @ + got]

\* An early reply; only without an error messages_sent starts from 0.
Greeting(got, failed) ==
    /\ pc = "greeting" /\ net_recv(got)
    /\ IF failed THEN pc' = "handle" /\ UNCHANGED messages_sent
       ELSE pc' = "send" /\ messages_sent' = 0
    /\ UNCHANGED <<campaign, entry, stage, plan, execs, response_bytes, kept>>

\* net_send: only a message sent as a whole is an event of the trace, but each counts.
Send(whole) ==
    /\ pc = "send" /\ messages_sent < Len(messages)
    /\ messages_sent' = messages_sent + 1
    /\ response_bytes' = Append(response_bytes, Garbage)
    /\ came' = Append(came, 0)
    /\ IF whole THEN trace' = Append(trace, FALSE) /\ pc' = "receive"
       ELSE pc' = "handle" /\ UNCHANGED trace
    /\ UNCHANGED <<campaign, entry, stage, plan, execs, size, kept>>

\* The reply, if it comes within the wait.
Receive(got, failed) ==
    /\ pc = "receive" /\ net_recv(got)
    /\ IF failed THEN pc' = "handle" /\ UNCHANGED response_bytes
       ELSE pc' = "send" /\ response_bytes' = [response_bytes EXCEPT ![messages_sent] = size']
    /\ UNCHANGED <<campaign, entry, stage, plan, execs, messages_sent, kept>>

\* Fault: the last cell has the size before the last bytes.
Handle_OldSize(got) ==
    /\ pc = "handle" \/ (pc = "send" /\ messages_sent = Len(messages))
    /\ net_recv(got)
    /\ response_bytes' = IF messages_sent > 0 /\ response_bytes # << >>
                         THEN [response_bytes EXCEPT ![messages_sent] = size] ELSE response_bytes
    /\ pc' = "report"
    /\ UNCHANGED <<campaign, entry, stage, plan, execs, messages_sent, kept>>

\* HANDLE_RESPONSES: what is left belongs to the last message tried.
Handle(got) ==
    /\ pc = "handle" \/ (pc = "send" /\ messages_sent = Len(messages))
    /\ net_recv(got)
    /\ response_bytes' = IF messages_sent > 0 /\ response_bytes # << >>
                         THEN [response_bytes EXCEPT ![messages_sent] = size'] ELSE response_bytes
    /\ pc' = "report"
    /\ UNCHANGED <<campaign, entry, stage, plan, execs, messages_sent, kept>>

-----------------------------------------------------------------------------
(***************************************************************************)
(* The monitor.                                                            *)
(***************************************************************************)
\* build_bizone_event_trace: silence, or the part of the response buffer the
\* reply of the request is read from.
build_bizone_event_trace ==
    [i \in DOMAIN trace |->
        IF ~trace[i] THEN [silent |-> TRUE, from |-> 0, to |-> 0]
        ELSE [silent |-> FALSE, from |-> IF i = 1 THEN 0 ELSE response_bytes[i - 1],
              to |-> response_bytes[i]]]

\* update_stage_hints_from_feedback: feedback without a hint leaves the stage alone,
\* and an execution without a request has no feedback.
Monitor ==
    /\ pc = "report" /\ pc' = "monitored"
    /\ \/ UNCHANGED stage
       \/ trace # << >> /\ stage' \in campaign.feedbacks
    /\ UNCHANGED <<campaign, entry, plan, execs, conversation, kept>>

\* save_if_interesting keeps it: as many messages as were tried.
Keep ==
    /\ pc = "monitored" /\ pc' = "kept"
    /\ kept' = SubSeq(messages, 1, Min({messages_sent, Len(messages)}))
    /\ UNCHANGED <<campaign, entry, stage, plan, execs, conversation>>

\* The next execution; what is cleared before it is used is forgotten here.
Again ==
    /\ pc \in {"monitored", "kept"} /\ pc' = "idle"
    /\ plan' = NoPlan(<< >>) /\ kept' = << >>
    /\ size' = 0 /\ response_bytes' = << >> /\ trace' = << >> /\ came' = << >>
    /\ UNCHANGED <<campaign, entry, stage, execs, messages_sent>>

Next ==
    \/ Plan
    \/ \E connected \in BOOLEAN : Connect(connected)
    \/ \E got \in 0 .. 1, failed \in BOOLEAN : Greeting(got, failed) \/ Receive(got, failed)
    \/ \E whole \in BOOLEAN : Send(whole)
    \/ \E got \in 0 .. 1 : Handle(got)
    \/ Monitor \/ Keep \/ Again

Spec == Init /\ [][Next]_vars

-----------------------------------------------------------------------------
(***************************************************************************)
(* Properties of the plan.                                                 *)
(***************************************************************************)
Injected == {k \in DOMAIN messages : messages[k].kind # "seed"}

insertions == plan.insertions

\* Every variable has its type; no more cells than messages.
TypeOK ==
    /\ pc \in {"idle", "connect", "greeting", "send", "receive", "handle", "report",
               "monitored", "kept"}
    /\ Len(insertions) <= BIZONE_MAX_INSERTIONS
    /\ plan.delays \in Seq(Nat)
    /\ messages_sent \in Nat /\ size \in Nat
    /\ response_bytes \in Seq(Nat \cup {Garbage}) /\ trace \in Seq(BOOLEAN)
    /\ Len(response_bytes) <= Len(messages)

\* The messages of the seed are all sent, in their order, whatever is inserted
\* between them; and there are as many others as insertions are recorded.
OriginalsInOrder ==
    LET seed == SelectSeq(messages, LAMBDA m : m.kind = "seed")
    IN  /\ \A i \in DOMAIN seed : seed[i].of = i
        /\ Cardinality(Injected) = Len(insertions)

\* A message is never sent again before it was sent: every retry is a copy of
\* the one source, and behind it.
RetriesFollow ==
    \A k \in DOMAIN messages : messages[k].kind = "retry" =>
        /\ \E j \in 1 .. k - 1 : messages[j] = [messages[k] EXCEPT !.kind = "seed"]
        /\ \A r \in DOMAIN messages :
              messages[r].kind = "retry" => messages[r].of = messages[k].of

\* What the smoke test demands of a timing plan (validate_insertion_plan): every
\* insertion is recorded inside the list it was made in, behind the message it was
\* made after, with a delay, and cross_request_resend tells whether some retry was
\* put behind a later request.
AuditHolds ==
    /\ insertions # << >> => /\ Len(messages) > 1
                             /\ Len(plan.delays) = Len(messages)
    /\ \A i \in DOMAIN insertions : LET n == insertions[i] IN
          /\ n.base \in 1 .. Len(messages)
          /\ n.source \in 1 .. n.base /\ n.after \in 1 .. n.base
          /\ n.slot > n.after /\ n.slot <= Len(messages)
          /\ plan.delays[n.slot] > 0
    /\ plan.cross <=> \E i \in DOMAIN insertions :
                          insertions[i].kind = "retry" /\ insertions[i].after > insertions[i].source

\* The slots in the record are where the insertions are, of the kind it says, so each
\* delay comes before its insertion and nothing else is delayed.
SlotsTellInsertions ==
    /\ {insertions[i].slot : i \in DOMAIN insertions} = Injected
    /\ \A i \in DOMAIN insertions : messages[insertions[i].slot].kind = insertions[i].kind
    /\ insertions # << >> =>
          \A k \in DOMAIN messages : plan.delays[k] > 0 => k \in Injected

\* The same for plans that are not hybrid.
SlotsTellPure == ~plan.hybrid => SlotsTellInsertions

\* What a protocol retransmits on a timer of its own.
Timed ==
    \/ campaign.protocol = "dtls12"
    \/ campaign.protocol = "sip" /\ plan.retry_class = "invite"

\* Retransmission timers back off: in the order they are sent, no delay is shorter
\* than the one before, and unless the timeout is short no wait uses up the time an
\* execution has.
DelaysBackOff ==
    \A k \in DOMAIN plan.delays :
        /\ plan.delays[k] <= campaign.exec_tmout
        /\ campaign.exec_tmout > 250 => plan.delays[k] < campaign.exec_tmout
        /\ (~plan.hybrid /\ messages[k].kind = "retry" /\ Timed) =>
              \A j \in 1 .. k - 1 : messages[j].kind = "retry" => plan.delays[j] <= plan.delays[k]

-----------------------------------------------------------------------------
(***************************************************************************)
(* Properties of the conversation.                                         *)
(***************************************************************************)
\* The bytes that came before message i + 1 was tried.
CameUpTo(i) == FoldLeft(LAMBDA a, b : a + b, 0, SubSeq(came, 1, i + 1))

\* A cell says how much had come when the next message was tried: replies are
\* never credited to a later message, and no cell is left unwritten, wherever the
\* connection broke.
RepliesAreTheirs ==
    (pc = "report" /\ response_bytes # << >>) =>
        /\ Len(response_bytes) = messages_sent
        /\ \A i \in 1 .. messages_sent : response_bytes[i] = CameUpTo(i)

\* The trace has exactly the messages that were sent as a whole, the first ones; it
\* says silence of the one exactly if nothing came between it and the next, and the
\* part of the buffer it reads a reply from is written, ordered, and not longer
\* than the buffer.
TraceIsTrue ==
    pc = "report" =>
        /\ response_bytes # << >> => messages_sent - Len(trace) \in 0 .. 1
        /\ \A i \in DOMAIN trace : LET e == build_bizone_event_trace[i]
                                       late == IF i = Len(trace) THEN Len(came) ELSE i + 1
                                   IN
              /\ e.silent <=> \A j \in i + 1 .. late : came[j] = 0
              /\ ~e.silent => /\ 0 <= e.from /\ e.from <= e.to /\ e.to <= size
                              /\ \A j \in 1 .. i - 1 : ~build_bizone_event_trace[j].silent =>
                                    build_bizone_event_trace[j].to <= e.from

\* A seed that is kept has the messages that were tried, unless nothing was: then
\* it is cut at the count of the execution before.
KeptAsSent ==
    (pc = "kept" /\ response_bytes # << >>) =>
        kept = SubSeq(messages, 1, Len(response_bytes))
=============================================================================
