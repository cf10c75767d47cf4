--------------------------- MODULE TesterAutomata ----------------------------
(***************************************************************************)
(* The tester automata of the temporal operators (Until.cpp, Release.cpp,  *)
(* Since.cpp, Trigger.cpp and the four files of their unary forms).  The   *)
(* tester of a subformula reads at every event which subformulas the event *)
(* is asked to satisfy, and makes sure that its own one is.                *)
(*                                                                         *)
(* A valuation is the set of the bits that are set: a bit is the number of *)
(* a proposition, or of a temporal subformula that is asked.  A BDD is the *)
(* set of its valuations.                                                  *)
(***************************************************************************)
EXTENDS Integers

\* The labels of a formula: it holds, nothing is asked of it, it holds and no more is asked.
Label(overline, star, hat) == [overline |-> overline, star |-> star, hat |-> hat]

tilde(p) == p.star \ p.overline

AtomTrue(all) == Label(all, all, all)

AtomFalse(all) == Label({}, all, {})

(***************************************************************************)
(* Edges.  A tester has one clock, 1, which a guard compares with the bound*)
(* of the interval.                                                        *)
(***************************************************************************)
Guarded(from, to, guard, reset, label) ==
    [from |-> from, to |-> to, guard |-> guard, reset |-> reset, label |-> label]

Keep == {}

Restart == {1}

Free(from, to, label) == Guarded(from, to, {}, Keep, label)

At(op, bound) == {[clock |-> 1, op |-> op, bound |-> bound]}

\* Fault: a closed interval is taken for an open one.
Early_Open(i) == At("<", i.bound)

\* The guards of [0,u> and of <l,infty).
Early(i) == At(IF i.closed THEN "<=" ELSE "<", i.bound)

Expired(i) == At(IF i.closed THEN ">" ELSE ">=", i.bound)

Soon(i) == At(IF i.closed THEN "<" ELSE "<=", i.bound)

Late(i) == At(IF i.closed THEN ">=" ELSE ">", i.bound)

Tester(initial, accept, edges) == [initial |-> initial, accept |-> accept, edges |-> edges]

(***************************************************************************)
(* The edges of p U q: r where it is asked, nr where it is not.  A weak one*)
(* counts the event at which it is asked.                                  *)
(***************************************************************************)
UntimedUntil(weak, r, nr, p, q) ==
    LET pending == p.hat \cap tilde(q)
        reached == p.star \cap q.hat
    IN  {Free("0", "0", nr \cap p.star \cap q.star), Free("1", "1", pending)} \cup
        IF weak
        THEN {Free("0", "0", r \cap reached), Free("0", "1", r \cap pending),
              Free("1", "0", reached)}
        ELSE {Free("0", "1", r \cap p.star \cap q.star), Free("2", "1", pending)}
             \cup {Free(s, "2", r \cap reached) : s \in {"1", "2"}}
             \cup {Free(s, "0", nr \cap reached) : s \in {"1", "2"}}

WithinUntil(i, weak, r, nr, p, q) ==
    LET pending == p.hat \cap tilde(q)
        reached == p.star \cap q.hat
    IN  {Guarded("0", "0", {}, Restart, nr \cap p.star \cap q.star),
         Guarded("1", "1", Early(i), Keep, pending)} \cup
        IF weak
        THEN {Guarded("0", "0", {}, Restart, r \cap reached),
              Guarded("0", "1", {}, Restart, r \cap pending),
              Guarded("1", "0", Early(i), Restart, reached)}
        ELSE {Guarded("0", "1", {}, Restart, r \cap p.star \cap q.star),
              Guarded("2", "1", Early(i), Keep, pending)}
             \cup {Guarded(s, "2", Early(i), Restart, r \cap reached) : s \in {"1", "2"}}
             \cup {Guarded(s, "0", Early(i), Restart, nr \cap reached) : s \in {"1", "2"}}

\* The last of the pending questions is tracked: its answer answers those before it.
AfterUntil(i, weak, r, nr, p, q) ==
    {Guarded("0", "0", {}, Restart, nr \cap p.star \cap q.star),
     Guarded("0", "1", {}, Restart, r \cap q.star \cap (IF weak THEN p.hat ELSE p.star))} \cup
    UNION {{Guarded(s, "1", {}, Keep, nr \cap p.hat \cap tilde(q)),
            Guarded(s, "1", Soon(i), Keep, nr \cap p.hat \cap q.star),
            Guarded(s, "1", {}, Restart, r \cap p.hat \cap tilde(q)),
            Guarded(s, "1", Soon(i), Restart, r \cap p.hat \cap q.star),
            Guarded(s, "2", Late(i), Restart, r \cap q.hat \cap (IF weak THEN p.hat ELSE p.star)),
            Guarded(s, "2", {}, Keep, nr \cap p.hat \cap q.hat),
            Guarded(s, "2", {}, Restart, r \cap p.hat \cap q.hat),
            Guarded(s, "0", Late(i), Restart, nr \cap p.star \cap q.hat)} : s \in {"1", "2"}}

(***************************************************************************)
(* p R q: q holds until p has held, at the latest when the interval ends.  *)
(***************************************************************************)
UntimedRelease(weak, r, nr, p, q) ==
    LET held == tilde(p) \cap q.hat
        released == p.hat \cap q.hat
    IN  {Free("0", "0", nr \cap p.star \cap q.star), Free("1", "1", held)} \cup
        IF weak
        THEN {Free("0", "0", r \cap released), Free("0", "1", r \cap held),
              Free("1", "0", released)}
        ELSE {Free("0", "1", r \cap p.star \cap q.star), Free("1", "1", r \cap released),
              Free("1", "0", nr \cap released)}

WithinRelease(i, weak, r, nr, p, q) ==
    LET idle == p.star \cap q.star
        held == tilde(p) \cap q.hat
        released == p.hat \cap q.hat
    IN  {Guarded("0", "0", {}, Restart, nr \cap idle),
         Guarded("1", "1", Early(i), Keep, nr \cap held),
         Guarded("1", "0", Expired(i), Restart, nr \cap idle)} \cup
        IF weak
        THEN {Guarded("0", "0", {}, Restart, r \cap released),
              Guarded("0", "1", {}, Restart, r \cap held),
              Guarded("1", "1", {}, Restart, r \cap held),
              Guarded("1", "0", Early(i), Restart, released),
              Guarded("1", "0", Expired(i), Restart, r \cap released)}
        ELSE {Guarded("0", "1", {}, Restart, r \cap idle),
              Guarded("1", "1", Early(i), Restart, r \cap p.star \cap q.hat),
              Guarded("1", "1", Expired(i), Restart, r \cap idle),
              Guarded("1", "0", Early(i), Restart, nr \cap released)}

AfterRelease(i, weak, r, nr, p, q) ==
    LET waiting == {<<Soon(i), q.star>>, <<Late(i), q.hat>>}
    IN  {Guarded("0", "0", {}, Restart, nr \cap p.star \cap q.star)}
        \cup {Guarded("1", "1", g[1], Keep, tilde(p) \cap g[2]) : g \in waiting} \cup
        IF weak
        THEN {Guarded("0", "0", {}, Restart, r \cap p.hat \cap q.star),
              Guarded("0", "1", {}, Restart, r \cap tilde(p) \cap q.star)}
             \cup {Guarded("1", "0", g[1], Restart, p.hat \cap g[2]) : g \in waiting}
        ELSE {Guarded("0", "1", {}, Restart, r \cap p.star \cap q.star)}
             \cup {Guarded("1", "1", g[1], Restart, r \cap p.hat \cap g[2]) : g \in waiting}
             \cup {Guarded("1", "0", g[1], Restart, nr \cap p.hat \cap g[2]) : g \in waiting}

(***************************************************************************)
(* p S q: q held, and p has held since.  The tester guesses at q that it   *)
(* will be asked.                                                          *)
(***************************************************************************)
UntimedSince(weak, r, nr, p, q) ==
    LET since == p.hat \cap tilde(q)
        began == p.star \cap q.hat
    IN  {Free("0", "0", nr \cap p.star \cap q.star), Free("1", "1", since)} \cup
        IF weak
        THEN {Free("0", "0", r \cap began), Free("1", "0", r \cap since), Free("0", "1", began)}
        ELSE {Free("1", "0", r \cap p.star \cap q.star), Free("1", "1", r \cap began),
              Free("0", "1", nr \cap began)}

WithinSince(i, weak, r, nr, p, q) ==
    LET since == p.hat \cap tilde(q)
        began == p.star \cap q.hat
    IN  {Guarded("0", "0", {}, Restart, nr \cap p.star \cap q.star),
         Guarded("1", "1", Early(i), Keep, since)} \cup
        IF weak
        THEN {Guarded("0", "0", {}, Restart, r \cap began),
              Guarded("1", "0", Early(i), Restart, r \cap since),
              Guarded("0", "1", {}, Restart, began)}
        ELSE {Guarded("1", "0", Early(i), Restart, r \cap p.star \cap q.star),
              Guarded("1", "1", Early(i), Restart, r \cap began),
              Guarded("0", "1", {}, Restart, nr \cap began)}

\* The first of the possible beginnings is tracked: it is the oldest.
AfterSince(i, weak, r, nr, p, q) ==
    {Guarded("0", "0", {}, Restart, nr \cap p.star \cap q.star),
     Guarded("1", "0", Late(i), Restart, r \cap q.star \cap (IF weak THEN p.hat ELSE p.star)),
     Guarded("1", "1", {}, Keep, nr \cap p.hat \cap q.star),
     Guarded("1", "1", Late(i), Keep, r \cap p.hat \cap q.star),
     Guarded("0", "1", {}, Restart, nr \cap p.star \cap q.hat)} \cup
    IF weak THEN {} ELSE {Guarded("1", "1", Late(i), Restart, r \cap tilde(p) \cap q.hat)}

(***************************************************************************)
(* p T q: q has held since p did, or always.  The first event is read from *)
(* a location of its own, "0i", since nothing can have failed before it.   *)
(***************************************************************************)
UntimedTrigger(weak, r, nr, p, q) ==
    LET idle == p.star \cap q.star
        held == tilde(p) \cap q.hat
        released == p.hat \cap q.hat
    IN  {Free("0i", "1", held), Free("0i", "1", released),
         Free("0", "0", nr \cap idle), Free("1", "1", held)} \cup
        IF weak
        THEN {Free("0i", "0", nr \cap idle), Free("0i", "0", r \cap released),
              Free("0", "0", r \cap released), Free("1", "0", r \cap held),
              Free("0", "1", released)}
        ELSE {Free("0i", "0", idle), Free("1", "0", r \cap idle),
              Free("1", "1", r \cap released), Free("0", "1", nr \cap released)}

\* In "1" q has held for the whole window, in "2" it has to until the window has passed.
WithinTrigger(i, weak, r, nr, p, q) ==
    LET idle == p.star \cap q.star
        held == tilde(p) \cap q.hat
        released == p.hat \cap q.hat
        window == {<<"1", Early(i)>>, <<"2", Expired(i)>>}
    IN  {Guarded("0i", "1", {}, Restart, held), Guarded("0i", "1", {}, Restart, released),
         Guarded("0i", "2", {}, Restart, held), Guarded("0i", "2", {}, Restart, idle),
         Guarded("0", "0", {}, Restart, nr \cap idle),
         Guarded("0", "2", {}, Restart, nr \cap idle),
         Guarded("1", "1", Early(i), Keep, held),
         Guarded("2", "2", Expired(i), Keep, r \cap held),
         Guarded("2", "2", {}, Keep, nr \cap held)} \cup
        IF weak
        THEN {Guarded("0i", "0", {}, Restart, nr \cap idle),
              Guarded("0i", "0", {}, Restart, r \cap released),
              Guarded("0", "0", {}, Restart, r \cap released),
              Guarded("0", "1", {}, Restart, released),
              Guarded("0", "2", {}, Restart, r \cap released)}
             \cup {Guarded(g[1], "0", g[2], Restart, r \cap held) : g \in window}
             \cup {Guarded(g[1], "2", g[2], Restart, r \cap tilde(p) \cap q.star) : g \in window}
        ELSE {Guarded("0i", "0", {}, Restart, idle),
              Guarded("0", "1", {}, Restart, nr \cap released)}
             \cup {Guarded(g[1], "0", g[2], Restart, r \cap idle) : g \in window}
             \cup {Guarded(g[1], "1", g[2], Restart, r \cap released) : g \in window}
             \cup {Guarded(g[1], "2", g[2], Restart, r \cap idle) : g \in window}

\* In "1" q holds at the events the question is about, in "2" it may fail: they are too recent.
AfterTrigger(i, weak, r, nr, p, q) ==
    LET idle == p.star \cap q.star
        after == {<<"1", q.hat>>, <<"2", q.star>>}
        window == {<<"1", Late(i)>>, <<"2", Soon(i)>>}
    IN  {Guarded("0i", n[1], {}, Restart, tilde(p) \cap n[2]) : n \in after}
        \cup {Guarded("0i", n[1], {}, Restart, p.hat \cap n[2]) : n \in after}
        \cup {Guarded("0", "0", {}, Restart, nr \cap idle),
              Guarded("1", "1", {}, Keep, tilde(p) \cap q.hat),
              Guarded("2", "2", Soon(i), Keep, tilde(p) \cap q.star),
              Guarded("1", "2", {}, Restart, tilde(p) \cap q.star)} \cup
        IF weak
        THEN {Guarded("0i", "0", {}, Restart, nr \cap idle),
              Guarded("0i", "0", {}, Restart, r \cap p.hat \cap q.star),
              Guarded("0", "0", {}, Restart, r \cap p.hat \cap q.star)}
             \cup {Guarded(g[1], "0", g[2], Restart, r \cap tilde(p) \cap q.star) : g \in window}
             \cup {Guarded("0", n[1], {}, Restart, p.hat \cap n[2]) : n \in after}
        ELSE {Guarded("0i", "0", {}, Restart, idle)}
             \cup {Guarded(g[1], "0", g[2], Restart, r \cap idle) : g \in window}
             \cup {Guarded(n[1][1], n[2][1], n[1][2], Restart, r \cap p.hat \cap n[2][2]) :
                      n \in window \X after}
             \cup {Guarded("0", n[1], {}, Restart, nr \cap p.hat \cap n[2]) : n \in after}

(***************************************************************************)
(* The files of the unary operators repeat those tables, edge by edge, with*)
(* the labels of a constant for p (one edge of Historically.cpp, line 96,  *)
(* has !r for r, and a label that is false either way).                    *)
(***************************************************************************)
UntimedFinally(weak, r, nr, all, q) == UntimedUntil(weak, r, nr, AtomTrue(all), q)
WithinFinally(i, weak, r, nr, all, q) == WithinUntil(i, weak, r, nr, AtomTrue(all), q)
AfterFinally(i, weak, r, nr, all, q) == AfterUntil(i, weak, r, nr, AtomTrue(all), q)

UntimedGlobally(weak, r, nr, all, q) == UntimedRelease(weak, r, nr, AtomFalse(all), q)
WithinGlobally(i, weak, r, nr, all, q) == WithinRelease(i, weak, r, nr, AtomFalse(all), q)
AfterGlobally(i, weak, r, nr, all, q) == AfterRelease(i, weak, r, nr, AtomFalse(all), q)

UntimedOnce(weak, r, nr, all, q) == UntimedSince(weak, r, nr, AtomTrue(all), q)
WithinOnce(i, weak, r, nr, all, q) == WithinSince(i, weak, r, nr, AtomTrue(all), q)
AfterOnce(i, weak, r, nr, all, q) == AfterSince(i, weak, r, nr, AtomTrue(all), q)

UntimedHistorically(weak, r, nr, all, q) == UntimedTrigger(weak, r, nr, AtomFalse(all), q)
WithinHistorically(i, weak, r, nr, all, q) == WithinTrigger(i, weak, r, nr, AtomFalse(all), q)
AfterHistorically(i, weak, r, nr, all, q) == AfterTrigger(i, weak, r, nr, AtomFalse(all), q)

(***************************************************************************)
(* What the files build.  "finite" is out_fin.                             *)
(***************************************************************************)
Case(i, untimed, within, after) ==
    CASE i.kind = "untimed" -> untimed [] i.kind = "within" -> within [] i.kind = "after" -> after

AcceptAnswered(finite, edges) == Tester("0", IF finite THEN {"0"} ELSE {"0", "2"}, edges)

AcceptAlways(edges) == Tester("0", {"0", "1"}, edges)

AcceptAfterFirst(edges) == Tester("0i", {"0", "1", "2"}, edges)

build_until(i, weak, finite, r, nr, p, q) ==
    AcceptAnswered(finite,
        Case(i, UntimedUntil(weak, r, nr, p, q), WithinUntil(i, weak, r, nr, p, q),
             AfterUntil(i, weak, r, nr, p, q)))

build_release(i, weak, finite, r, nr, p, q) ==
    AcceptAlways(
        Case(i, UntimedRelease(weak, r, nr, p, q), WithinRelease(i, weak, r, nr, p, q),
             AfterRelease(i, weak, r, nr, p, q)))

build_since(i, weak, finite, r, nr, p, q) ==
    AcceptAlways(
        Case(i, UntimedSince(weak, r, nr, p, q), WithinSince(i, weak, r, nr, p, q),
             AfterSince(i, weak, r, nr, p, q)))

build_trigger(i, weak, finite, r, nr, p, q) ==
    AcceptAfterFirst(
        Case(i, UntimedTrigger(weak, r, nr, p, q), WithinTrigger(i, weak, r, nr, p, q),
             AfterTrigger(i, weak, r, nr, p, q)))

build_finally(i, weak, finite, r, nr, all, q) ==
    AcceptAnswered(finite,
        Case(i, UntimedFinally(weak, r, nr, all, q), WithinFinally(i, weak, r, nr, all, q),
             AfterFinally(i, weak, r, nr, all, q)))

build_globally(i, weak, finite, r, nr, all, q) ==
    AcceptAlways(
        Case(i, UntimedGlobally(weak, r, nr, all, q), WithinGlobally(i, weak, r, nr, all, q),
             AfterGlobally(i, weak, r, nr, all, q)))

build_once(i, weak, finite, r, nr, all, q) ==
    AcceptAlways(
        Case(i, UntimedOnce(weak, r, nr, all, q), WithinOnce(i, weak, r, nr, all, q),
             AfterOnce(i, weak, r, nr, all, q)))

build_historically(i, weak, finite, r, nr, all, q) ==
    AcceptAfterFirst(
        Case(i, UntimedHistorically(weak, r, nr, all, q),
             WithinHistorically(i, weak, r, nr, all, q),
             AfterHistorically(i, weak, r, nr, all, q)))
==============================================================================
