------------------------------ MODULE TimingPlan -----------------------------
(***************************************************************************)
(* The timing plan of an execution: which messages are sent again, where a *)
(* keepalive goes, and how long the fuzzer waits before each message, from *)
(* the hints of the monitor.                                               *)
(*                                                                         *)
(* A message is its request class, the place in the seed it comes from (0  *)
(* for a template) and why it is there.  Places count from 1, and 0 is no  *)
(* place.  c is the campaign (protocol, exec_tmout, poll_wait_msecs), h    *)
(* the hints: gap, mask, and the classes preferred, retry, keepalive.      *)
(***************************************************************************)
EXTENDS Integers, Sequences, FiniteSets, SequencesExt

BIZONE_MAX_INSERTIONS == 4

\* extract_request_class found nothing; as a hint, none.
NoClass == ""

KeepaliveClasses == {"noop", "keepalive", "heartbeat", "ping", "clienthello", "options",
                     "ignore", "global_request", "kexinit", "pdata_tf"}
TerminalClasses == {"quit", "teardown", "bye", "exit", "logout", "stop", "disconnect",
                    "release_rq", "release_rp", "abort"}

Either(i, j) == IF i # 0 THEN i ELSE j

-----------------------------------------------------------------------------
(***************************************************************************)
(* Places in the list of messages.                                         *)
(***************************************************************************)
retry_hint_class(h) == IF h.retry # NoClass THEN h.retry ELSE h.preferred
keepalive_hint_class(h) == IF h.keepalive # NoClass THEN h.keepalive ELSE h.preferred

Matches(m, hint) == hint # NoClass /\ m.class = hint

FirstMatch(ms, hint) == SelectInSeq(ms, LAMBDA m : Matches(m, hint))
LastMatch(ms, hint) == SelectLastInSeq(ms, LAMBDA m : Matches(m, hint))

\* choose_keepalive_slot: the keepalive the server is known to answer, or any; SSH
\* does not take one of the handshake for one of the session.
choose_keepalive_slot(c, h, ms) ==
    LET hint == keepalive_hint_class(h)
        preferred == IF hint \in KeepaliveClasses THEN FirstMatch(ms, hint) ELSE 0
    IN  IF c.protocol = "ssh" /\ hint \in {"ignore", "global_request"} THEN preferred
        ELSE Either(preferred, SelectInSeq(ms, LAMBDA m : m.class \in KeepaliveClasses))

\* choose_keepalive_insert_after_slot
choose_keepalive_insert_after_slot(h, ms) ==
    LET hint == keepalive_hint_class(h)
        preferred == IF hint \in TerminalClasses THEN 0 ELSE LastMatch(ms, hint)
    IN  Either(Either(preferred,
                      SelectLastInSeq(ms, LAMBDA m : m.class \notin TerminalClasses)),
               Either(SelectLastInSeq(ms, LAMBDA m : m.class \notin KeepaliveClasses), Len(ms)))

\* Retries that are spread over the requests that follow.
wants_cross_request_retry(c, h, count) ==
    c.protocol # "dtls12" /\ count > 1 /\ ("silence" \in h.mask \/ h.gap > 1)

\* The classes a protocol retransmits, the preferred ones first.
Retransmitted == [dtls12 |-> <<"clienthello", "heartbeat">>, sip |-> <<"invite", "options">>,
                  dicom |-> <<"associate_rq", "pdata_tf">>,
                  ssh |-> <<"kexinit", "service_request", "identification">>]

\* choose_retry_source_slot: of DTLS the first flight, of SIP, DICOM and SSH the last
\* request of its kind; else a request with most requests behind it if retries are
\* spread, else the last that is no keepalive.
choose_retry_source_slot(c, h, count, ms) ==
    LET hint == retry_hint_class(h)
        at(class) == IF c.protocol = "dtls12" THEN FirstMatch(ms, class) ELSE LastMatch(ms, class)
        known == SelectInSeq(Retransmitted[c.protocol], LAMBDA k : at(k) # 0)
        cross == wants_cross_request_retry(c, h, count)
        requests == {i \in DOMAIN ms : ms[i].class \notin KeepaliveClasses \cup {NoClass}}
        room(i) == Min({Len(ms) - i, count - 1})
        roomy == {i \in requests : room(i) > 0 /\ \A j \in requests : room(j) <= room(i)}
    IN  IF c.protocol \in DOMAIN Retransmitted
        THEN Either(at(hint), IF known # 0 THEN at(Retransmitted[c.protocol][known])
                              ELSE IF c.protocol = "dtls12" THEN 1 ELSE Len(ms))
        ELSE Either(IF cross THEN LastMatch(ms, hint) ELSE FirstMatch(ms, hint),
                    IF cross /\ roomy # {} THEN Max(roomy)
                    ELSE IF requests # {} THEN Max(requests) ELSE Len(ms))

-----------------------------------------------------------------------------
(***************************************************************************)
(* Insertions: kind, base (messages before it), source, after and slot.    *)
(***************************************************************************)
\* should_infer_retry_from_gap
effective_hint_mask(c, h) ==
    LET infers == CASE c.protocol = "dtls12" -> retry_hint_class(h) \in {"clienthello", "heartbeat"}
                    [] c.protocol = "sip" -> retry_hint_class(h) = "invite"
                    [] OTHER -> FALSE
    IN  IF h.gap > 0 /\ infers THEN h.mask \cup {"retry"} ELSE h.mask

\* retry_chain_count
retry_chain_count(c, h, n) ==
    IF c.protocol = "dtls12"
    THEN IF c.exec_tmout >= 7000 /\ ("silence" \in h.mask \/ h.gap >= 1000) THEN 3
         ELSE IF c.exec_tmout >= 3500 THEN 2 ELSE 1
    ELSE 1 + (IF n > 1 /\ ("silence" \in h.mask \/ h.gap <= 0) THEN 1 ELSE 0)
           + (IF n > 2 /\ h.gap > 1 THEN 1 ELSE 0)

\* The message retry i (from 0) of source is sent after.
RetryAfter(c, h, count, n, source, i) ==
    IF c.protocol = "dtls12" THEN source
    ELSE LET spread == wants_cross_request_retry(c, h, count) /\ i > 0 /\ source + i + 1 <= n
             after == source + i + (IF spread THEN 1 ELSE 0)
         IN  Min({n, IF "silence" \in h.mask /\ after + 1 <= n THEN after + 1 ELSE after})

\* Fault: an insertion does not count those before it.
Placed_Alone(afters, i) == afters[i] + 1

\* The slot of insertion i: behind its message and the insertions placed before it.
Placed(afters, i) ==
    afters[i] + 1 + Cardinality({j \in DOMAIN afters :
                                    afters[j] < afters[i] \/ (afters[j] = afters[i] /\ j < i)})

\* build_injected_messages, insert_message_after: m once behind each of afters.
build_injected_messages(ms, m, afters) ==
    FlattenSeq([k \in DOMAIN ms |->
        <<ms[k]>> \o [j \in 1 .. Cardinality({i \in DOMAIN afters : afters[i] = k}) |-> m]])

NoPlan(ms) == [messages |-> ms, insertions |-> << >>, delays |-> << >>, hybrid |-> FALSE,
               cross |-> FALSE, retry_class |-> NoClass]

\* Fault: the message looked at last is sent again.
apply_retry_insertions_Last(c, h, ms) ==
    LET limit == IF "keepalive" \in h.mask THEN BIZONE_MAX_INSERTIONS - 1
                 ELSE BIZONE_MAX_INSERTIONS
        count == Min({limit, retry_chain_count(c, h, Len(ms))})
        source == choose_retry_source_slot(c, h, count, ms)
        afters == [i \in 1 .. count |-> RetryAfter(c, h, count, Len(ms), source, i - 1)]
    IN  [NoPlan(ms) EXCEPT
            !.messages = build_injected_messages(ms, [Last(ms) EXCEPT !.kind = "retry"], afters),
            !.insertions = [i \in 1 .. count |->
                [kind |-> "retry", base |-> Len(ms), source |-> source, after |-> afters[i],
                 slot |-> Placed(afters, i)]],
            !.cross = \E i \in 1 .. count : afters[i] > source,
            !.retry_class = ms[source].class]

\* apply_retry_insertions.  The class of the source becomes the hint of the stage if
\* it had none.
apply_retry_insertions(c, h, ms) ==
    LET limit == IF "keepalive" \in h.mask THEN BIZONE_MAX_INSERTIONS - 1
                 ELSE BIZONE_MAX_INSERTIONS
        count == Min({limit, retry_chain_count(c, h, Len(ms))})
        source == choose_retry_source_slot(c, h, count, ms)
        afters == [i \in 1 .. count |-> RetryAfter(c, h, count, Len(ms), source, i - 1)]
    IN  [NoPlan(ms) EXCEPT
            !.messages = build_injected_messages(ms, [ms[source] EXCEPT !.kind = "retry"], afters),
            !.insertions = [i \in 1 .. count |->
                [kind |-> "retry", base |-> Len(ms), source |-> source, after |-> afters[i],
                 slot |-> Placed(afters, i)]],
            !.cross = \E i \in 1 .. count : afters[i] > source,
            !.retry_class = ms[source].class]

\* synthesize_keepalive_message
Synthesizes(c, ms) ==
    \/ c.protocol \in {"ftp", "smtp", "http", "rtsp", "dtls12", "ssh", "mqtt", "sip"}
    \/ c.protocol = "dicom" /\ \E m \in ToSet(ms) : m.class # NoClass

\* apply_keepalive_insertion: a keepalive of the seed again, or a new one.
apply_keepalive_insertion(c, h, p) ==
    LET ms == p.messages
        slot == choose_keepalive_slot(c, h, ms)
        behind == choose_keepalive_insert_after_slot(h, ms)
        retried == p.insertions # << >>
        after == IF slot = 0 \/ retried THEN behind
                 ELSE Max({slot, Min({Len(ms), Len(ms) \div 2 + 1})})
        copy == IF slot = 0 THEN [class |-> NoClass, of |-> 0, kind |-> "keepalive"]
                ELSE [ms[slot] EXCEPT !.kind = "keepalive"]
    IN  IF slot = 0 /\ ~Synthesizes(c, ms) THEN p
        ELSE [p EXCEPT
                !.messages = build_injected_messages(ms, copy, <<after>>),
                !.insertions = Append(@, [kind |-> "keepalive", base |-> Len(ms),
                                          source |-> IF slot = 0 THEN after ELSE slot,
                                          after |-> after, slot |-> after + 1]),
                !.hybrid = retried]

-----------------------------------------------------------------------------
(***************************************************************************)
(* Delays, in milliseconds.                                                *)
(***************************************************************************)
\* clamp_delay_ms
clamp_delay_ms(c, requested, fallback) ==
    LET cap == Max({4, Min({c.exec_tmout \div 2, 250})})
    IN  IF requested = 0 THEN Max({1, Min({fallback, cap})})
        ELSE Min({cap, IF requested < 0 THEN -requested ELSE requested})

\* A timer doubled for each insertion before this one.
Doubled(first, i) == first * <<1, 2, 4, 8>>[i + 1]

\* Fault: no retransmission timer is cut.
backoff_Uncut(c, first, i) == Doubled(first, i)

\* dtls12_retry_delay_ms, sip_invite_retry_delay_ms: doubled, and cut below the timeout.
backoff(c, first, i) ==
    Min({Doubled(first, i), IF c.exec_tmout > 250 THEN c.exec_tmout - 250 ELSE c.exec_tmout})

\* The delay before insertion i (from 0).
step_delay_ms(c, h, p, i) ==
    LET delay == clamp_delay_ms(c, h.gap, IF c.poll_wait_msecs = 0 THEN 4 ELSE c.poll_wait_msecs)
        retry == p.insertions[i + 1].kind = "retry"
    IN  IF retry /\ c.protocol = "dtls12" THEN backoff(c, 1000, i)
        ELSE IF retry /\ c.protocol = "sip" /\ p.retry_class = "invite" THEN backoff(c, 500, i)
        ELSE IF i = 0 THEN delay
        ELSE clamp_delay_ms(c, IF h.gap > 0 THEN delay * (i + 1) ELSE i + 1, delay)

\* Where a keepalive that could not be inserted is waited for instead.
WaitSlots(c, h, ms) ==
    LET n == Len(ms)
        slot == choose_keepalive_slot(c, h, ms)
    IN  IF slot > 1 THEN {slot}
        ELSE IF "silence" \in h.mask /\ n > 2 THEN n \div 2 + 1 .. n
        ELSE 2 .. n

\* Fault: the delay of an insertion is at the message it comes after.
WithDelays_After(c, h, p) ==
    LET n == Len(p.messages)
        at(k) == {i \in DOMAIN p.insertions : p.insertions[i].after = k}
    IN  IF p.insertions # << >>
        THEN {[p EXCEPT !.delays = [k \in 1 .. n |->
                IF at(k) = {} THEN 0 ELSE step_delay_ms(c, h, p, Max(at(k)) - 1)]]}
        ELSE {p}

\* The delays of a plan; the last insertion recorded for a slot counts.
WithDelays(c, h, p) ==
    LET n == Len(p.messages)
        none == [k \in 1 .. n |-> 0]
        at(k) == {i \in DOMAIN p.insertions : p.insertions[i].slot = k}
    IN  IF p.insertions # << >>
        THEN {[p EXCEPT !.delays = [k \in 1 .. n |->
                IF at(k) = {} THEN 0 ELSE step_delay_ms(c, h, p, Max(at(k)) - 1)]]}
        ELSE IF "keepalive" \in h.mask /\ n > 1
        THEN {[p EXCEPT !.delays = [none EXCEPT ![slot] =
                clamp_delay_ms(c, h.gap, IF c.poll_wait_msecs = 0 THEN 4
                                         ELSE c.poll_wait_msecs)]] :
                    slot \in WaitSlots(c, h, p.messages)}
        ELSE {p}

\* The hints in effect: those of the stage, and of the queue entry what it adds.
Effective(stage, entry) ==
    [stage EXCEPT !.gap = IF @ # 0 THEN @ ELSE entry.gap, !.mask = @ \cup entry.mask]

\* prepare_timing_plan
prepare_timing_plan(c, hints, ms) ==
    LET h == [hints EXCEPT !.mask = effective_hint_mask(c, hints)]
        retried == IF "retry" \in h.mask THEN apply_retry_insertions(c, h, ms) ELSE NoPlan(ms)
        h2 == [h EXCEPT !.retry = IF @ = NoClass THEN retried.retry_class ELSE @]
    IN  IF hints.gap = 0 /\ hints.mask = {} THEN {NoPlan(ms)}
        ELSE WithDelays(c, h2, IF "keepalive" \in h.mask
                               THEN apply_keepalive_insertion(c, h2, retried) ELSE retried)
=============================================================================
