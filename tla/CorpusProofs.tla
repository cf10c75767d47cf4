----------------------------- MODULE CorpusProofs ----------------------------
(***************************************************************************)
(* Theorems about SeedCorpus, for every size of the bitmap, all executions *)
(* and campaigns, and every room in the queue.                             *)
(***************************************************************************)
EXTENDS SeedCorpus, DataInduction, SequenceTheorems, FiniteSetTheorems, TLAPS

(***************************************************************************)
(* The queue is a sequence, whatever its entries are.                      *)
(***************************************************************************)
Listed(s) == s \in Seq({s[i] : i \in DOMAIN s})

LEMMA ListedMeans ==
    ASSUME NEW s, Listed(s)
    PROVE  Len(s) \in Nat /\ DOMAIN s = 1 .. Len(s)
  BY LenProperties DEF Listed

LEMMA ListedOn ==
    ASSUME NEW n \in Nat, NEW s, s = [i \in 1 .. n |-> s[i]]
    PROVE  Listed(s) /\ Len(s) = n
  <1> DEFINE S == {s[i] : i \in DOMAIN s}
  <1>1. DOMAIN s = 1 .. n
    OBVIOUS
  <1>2. s \in [1 .. n -> S]
    BY <1>1
  <1>3. s \in Seq(S)
    BY <1>2, SeqDef
  <1>4. Len(s) \in Nat /\ 1 .. Len(s) = 1 .. n
    BY <1>1, <1>3, LenProperties
  <1>5. Len(s) = n
    BY <1>4
  <1> QED
    BY <1>3, <1>5 DEF Listed

LEMMA ListedAppend ==
    ASSUME NEW s, Listed(s), NEW x
    PROVE  /\ Listed(Append(s, x)) /\ Len(Append(s, x)) = Len(s) + 1
           /\ \A i \in 1 .. Len(s) : Append(s, x)[i] = s[i]
           /\ Append(s, x)[Len(s) + 1] = x
  <1> DEFINE S == {s[i] : i \in DOMAIN s} \cup {x}
             t == Append(s, x)
  <1>1. s \in Seq(S) /\ x \in S
    BY SeqMonotonic DEF Listed
  <1> HIDE DEF S
  <1>2. /\ t \in Seq(S) /\ Len(t) = Len(s) + 1
        /\ \A i \in 1 .. Len(s) : t[i] = s[i]
        /\ t[Len(s) + 1] = x
    BY <1>1, AppendProperties
  <1>3. Len(t) \in Nat /\ t \in [1 .. Len(t) -> S]
    BY <1>2, LenProperties
  <1> HIDE DEF t
  <1>4. t = [i \in 1 .. Len(t) |-> t[i]]
    BY <1>3
  <1>5. Listed(t)
    BY <1>3, <1>4, ListedOn
  <1> QED
    BY <1>2, <1>5 DEF t

-----------------------------------------------------------------------------
(***************************************************************************)
(* The books of update_bitmap_score: an entry counts the bytes it holds,   *)
(* and has its trace if it holds one.                                      *)
(***************************************************************************)
Fields == {"bits", "factor", "favored", "was_fuzzed", "cal", "regions", "tc_ref", "mini"}

Held(top, e) == {b \in 1 .. Bits : top[b] = e}

\* The bytes of e that q takes.
Lost(top, won, e) == {b \in won : top[b] = e}

\* Who holds what after it.
Taken(top, won, q) == [b \in 1 .. Bits |-> IF b \in won THEN q ELSE top[b]]

Account(entry, held) ==
    /\ Fields \subseteq DOMAIN entry
    /\ entry.tc_ref = Cardinality(held)
    /\ held # {} => entry.mini

Books(entries, top) ==
    /\ Listed(entries)
    /\ top \in [1 .. Bits -> 0 .. Len(entries)]
    /\ \A e \in 1 .. Len(entries) : Account(entries[e], Held(top, e))

LEMMA HeldFinite ==
    ASSUME NEW top, NEW e
    PROVE  IsFiniteSet(Held(top, e)) /\ Cardinality(Held(top, e)) \in Nat
  <1>1. IsFiniteSet(1 .. Bits)
    BY FS_Interval, CorpusAssumption
  <1>2. Held(top, e) \in SUBSET (1 .. Bits)
    BY DEF Held
  <1>3. IsFiniteSet(Held(top, e))
    BY <1>1, <1>2, FS_Subset
  <1> QED
    BY <1>3, FS_CardinalityType

(***************************************************************************)
(* Changes of other fields leave the books alone.                          *)
(***************************************************************************)
LEMMA SameBooks ==
    ASSUME NEW s, NEW top, Books(s, top), NEW t, t = [e \in 1 .. Len(s) |-> t[e]],
           \A e \in 1 .. Len(s) : /\ Fields \subseteq DOMAIN t[e]
                                  /\ t[e].tc_ref = s[e].tc_ref /\ t[e].mini = s[e].mini
    PROVE  Books(t, top) /\ Len(t) = Len(s)
  <1>1. Len(s) \in Nat
    BY ListedMeans DEF Books
  <1>2. Listed(t) /\ Len(t) = Len(s)
    BY <1>1, ListedOn
  <1>3. ASSUME NEW e \in 1 .. Len(t) PROVE Account(t[e], Held(top, e))
    <2>1. Account(s[e], Held(top, e))
      BY <1>2, <1>3 DEF Books
    <2>2. /\ Fields \subseteq DOMAIN t[e]
          /\ t[e].tc_ref = s[e].tc_ref /\ t[e].mini = s[e].mini
      BY <1>2, <1>3
    <2> QED
      BY <2>1, <2>2, Zenon DEF Account
  <1> QED
    BY <1>2, <1>3 DEF Books

(***************************************************************************)
(* q takes the bytes in won: what e holds after it, and how many.          *)
(***************************************************************************)
LEMMA Transfer ==
    ASSUME NEW top, NEW e, NEW q, NEW won \in SUBSET (1 .. Bits)
    PROVE  LET lost == Cardinality(Lost(top, won, e))
               after == Taken(top, won, q)
           IN  /\ lost \in Nat
               /\ Cardinality(Held(after, e))
                     = Cardinality(Held(top, e)) - lost + (IF e = q THEN Cardinality(won) ELSE 0)
               /\ Held(after, e) # {} =>
                     IF e = q THEN Held(top, e) # {} \/ won # {}
                     ELSE Held(top, e) # {} /\ Cardinality(Held(top, e)) # lost
  <1> DEFINE H == Held(top, e)
             L == Lost(top, won, e)
             A == Held(Taken(top, won, q), e)
             g == IF e = q THEN won ELSE {}
  <1>1. IsFiniteSet(1 .. Bits)
    BY FS_Interval, CorpusAssumption
  <1>2. /\ IsFiniteSet(H) /\ IsFiniteSet(L) /\ IsFiniteSet(won) /\ IsFiniteSet(A)
        /\ IsFiniteSet(H \ L)
    <2>1. /\ H \in SUBSET (1 .. Bits) /\ L \in SUBSET (1 .. Bits) /\ A \in SUBSET (1 .. Bits)
          /\ H \ L \in SUBSET (1 .. Bits)
      BY DEF Held, Lost, Taken
    <2> HIDE DEF H, L, A
    <2> QED
      BY <1>1, <2>1, FS_Subset
  <1>3. H \cap L = L
    BY DEF Held, Lost, Taken
  <1>4. A = (H \ L) \cup g
    BY DEF Held, Lost, Taken
  <1>5. (H \ L) \cap g = {}
    BY DEF Held, Lost, Taken
  <1>6. e # q => g = {}
    OBVIOUS
  <1>7. e = q => g = won
    OBVIOUS
  <1>8. Cardinality({}) = 0 /\ IsFiniteSet({})
    BY FS_EmptySet
  <1> HIDE DEF H, L, A, g
  <1>9. /\ Cardinality(H) \in Nat /\ Cardinality(L) \in Nat /\ Cardinality(won) \in Nat
        /\ Cardinality(A) \in Nat
    BY <1>2, FS_CardinalityType
  <1>10. Cardinality(H \ L) = Cardinality(H) - Cardinality(L)
    BY <1>2, <1>3, FS_Difference
  <1>11. IsFiniteSet(g) /\ Cardinality(g) = IF e = q THEN Cardinality(won) ELSE 0
    BY <1>2, <1>6, <1>7, <1>8
  <1>12. Cardinality((H \ L) \cup g)
            = Cardinality(H \ L) + Cardinality(g) - Cardinality((H \ L) \cap g)
    BY <1>2, <1>11, FS_Union
  <1>13. Cardinality(A)
            = Cardinality(H) - Cardinality(L) + (IF e = q THEN Cardinality(won) ELSE 0)
    <2>1. Cardinality((H \ L) \cap g) = 0
      BY <1>5, <1>8
    <2>2. Cardinality(A) = Cardinality(H) - Cardinality(L) + Cardinality(g) - 0
      BY <1>4, <1>10, <1>12, <2>1
    <2>3. Cardinality(g) \in Nat
      BY <1>11, FS_CardinalityType
    <2> QED
      BY <1>9, <1>11, <2>2, <2>3
  <1>14. ASSUME A # {}, e = q PROVE H # {} \/ won # {}
    BY <1>4, <1>7, <1>14
  <1>15. ASSUME A # {}, e # q PROVE H # {} /\ Cardinality(H) # Cardinality(L)
    <2>1. A = H \ L
      BY <1>4, <1>6, <1>15
    <2>2. Cardinality(H \ L) # 0
      BY <1>2, <1>15, <2>1, FS_EmptySet
    <2> QED
      BY <1>9, <1>10, <1>15, <2>1, <2>2
  <1> QED
    BY <1>9, <1>13, <1>14, <1>15 DEF H, L, A

(***************************************************************************)
(* update_bitmap_score keeps the books of every entry.                     *)
(***************************************************************************)
LEMMA RepaidFields ==
    ASSUME NEW entries, NEW e, NEW q, NEW won, Fields \subseteq DOMAIN entries[e]
    PROVE  LET lost == Cardinality(Lost(top_rated, won, e))
               after == Repaid(entries, e, q, won)
           IN  /\ Fields \subseteq DOMAIN after
               /\ after.tc_ref = entries[e].tc_ref - lost
                                    + (IF e = q THEN Cardinality(won) ELSE 0)
               /\ after.mini = IF e = q THEN entries[e].mini \/ won # {}
                               ELSE entries[e].mini /\ (lost = 0 \/ entries[e].tc_ref # lost)
  BY DEF Repaid, Fields, Lost

LEMMA Scored ==
    ASSUME NEW entries, Books(entries, top_rated), NEW q \in 1 .. Len(entries),
           entries[q].bits \subseteq 1 .. Bits
    PROVE  LET r == update_bitmap_score(entries, q)
           IN  Books(r.queue, r.top) /\ Len(r.queue) = Len(entries)
  <1> DEFINE won == {b \in entries[q].bits :
                        top_rated[b] = 0 \/ entries[q].factor <= entries[top_rated[b]].factor}
             after == [e \in DOMAIN entries |-> Repaid(entries, e, q, won)]
             top == Taken(top_rated, won, q)
  <1>1. update_bitmap_score(entries, q).queue = after /\ update_bitmap_score(entries, q).top = top
    BY DEF update_bitmap_score, Taken
  <1>2. won \in SUBSET (1 .. Bits)
    OBVIOUS
  <1> HIDE DEF won
  <1>3. Len(entries) \in Nat /\ DOMAIN entries = 1 .. Len(entries)
    BY ListedMeans DEF Books
  <1>4. Listed(after) /\ Len(after) = Len(entries)
    <2>1. after = [e \in 1 .. Len(entries) |-> after[e]]
      BY <1>3
    <2> QED
      BY <1>3, <2>1, ListedOn
  <1>5. top \in [1 .. Bits -> 0 .. Len(entries)]
    <2>1. top_rated \in [1 .. Bits -> 0 .. Len(entries)]
      BY DEF Books
    <2> QED
      BY <1>3, <2>1 DEF Taken
  <1>6. ASSUME NEW e \in 1 .. Len(entries) PROVE Account(after[e], Held(top, e))
    <2> DEFINE lost == Cardinality(Lost(top_rated, won, e))
               held == Held(top_rated, e)
               now == Held(top, e)
    <2>1. after[e] = Repaid(entries, e, q, won)
      BY <1>3
    <2>2. /\ Fields \subseteq DOMAIN entries[e]
          /\ entries[e].tc_ref = Cardinality(held)
          /\ held # {} => entries[e].mini
      BY Zenon DEF Books, Account
    <2>3. /\ Fields \subseteq DOMAIN after[e]
          /\ after[e].tc_ref = entries[e].tc_ref - lost + (IF e = q THEN Cardinality(won) ELSE 0)
          /\ after[e].mini = IF e = q THEN entries[e].mini \/ won # {}
                             ELSE entries[e].mini /\ (lost = 0 \/ entries[e].tc_ref # lost)
      <3> DEFINE new == Repaid(entries, e, q, won)
      <3>1. /\ Fields \subseteq DOMAIN new
            /\ new.tc_ref = entries[e].tc_ref - lost + (IF e = q THEN Cardinality(won) ELSE 0)
            /\ new.mini = IF e = q THEN entries[e].mini \/ won # {}
                          ELSE entries[e].mini /\ (lost = 0 \/ entries[e].tc_ref # lost)
        BY <2>2, RepaidFields
      <3> HIDE DEF new
      <3>2. after[e] = new
        BY <2>1 DEF new
      <3> QED
        BY <3>1, <3>2
    <2>4. /\ Cardinality(now) = Cardinality(held) - lost + (IF e = q THEN Cardinality(won) ELSE 0)
          /\ now # {} => IF e = q THEN held # {} \/ won # {}
                         ELSE held # {} /\ Cardinality(held) # lost
      BY <1>2, Transfer
    <2> HIDE DEF lost, held, now, after
    <2>5. after[e].tc_ref = Cardinality(now)
      BY <2>2, <2>3, <2>4, Zenon
    <2>6. now # {} => after[e].mini
      BY <2>2, <2>3, <2>4, Zenon
    <2> QED
      BY <2>3, <2>5, <2>6, Zenon DEF Account, now
  <1> QED
    BY <1>1, <1>4, <1>5, <1>6, Zenon DEF Books

(***************************************************************************)
(* calibrate_case, and an entry whose regions are annotated.               *)
(***************************************************************************)
LEMMA Calibrated ==
    ASSUME NEW entries, Books(entries, top_rated), NEW q \in 1 .. Len(entries),
           NEW run \in Seeds \cup Mutants
    PROVE  LET c == calibrate_case(entries, q, run)
           IN  Books(c.queue, c.top) /\ Len(c.queue) = Len(entries)
  <1>1. CASE run.calibrates
    <2> DEFINE entry == [[[entries[q] EXCEPT !.cal = TRUE] EXCEPT !.bits = run.bits]
                            EXCEPT !.factor = run.factor]
               known == [entries EXCEPT ![q].cal = TRUE, ![q].bits = run.bits,
                                        ![q].factor = run.factor]
    <2>1. DOMAIN entries = 1 .. Len(entries)
      BY ListedMeans DEF Books
    <2>2. \A e \in 1 .. Len(entries) : Fields \subseteq DOMAIN entries[e]
      BY DEF Books, Account
    <2>3. known = [e \in 1 .. Len(entries) |-> IF e = q THEN entry ELSE entries[e]]
      BY <2>1
    <2>4. /\ Fields \subseteq DOMAIN entry /\ entry.bits = run.bits
          /\ entry.tc_ref = entries[q].tc_ref /\ entry.mini = entries[q].mini
      BY <2>2 DEF Fields
    <2> HIDE DEF entry, known
    <2>5. known = [e \in 1 .. Len(entries) |-> known[e]]
      BY <2>3
    <2>6. \A e \in 1 .. Len(entries) :
             /\ Fields \subseteq DOMAIN known[e]
             /\ known[e].tc_ref = entries[e].tc_ref /\ known[e].mini = entries[e].mini
      BY <2>2, <2>3, <2>4
    <2>7. Books(known, top_rated) /\ Len(known) = Len(entries)
      BY <2>5, <2>6, SameBooks
    <2>8. known[q].bits \subseteq 1 .. Bits
      BY <2>3, <2>4, CorpusAssumption
    <2>9. calibrate_case(entries, q, run) = update_bitmap_score(known, q)
      BY <1>1 DEF calibrate_case, known
    <2> QED
      BY <2>7, <2>8, <2>9, Scored
  <1>2. CASE ~run.calibrates
    <2>1. calibrate_case(entries, q, run)
             = [queue |-> entries, top |-> top_rated, changed |-> score_changed]
      BY <1>2, Zenon DEF calibrate_case
    <2> QED
      BY <2>1
  <1> QED
    BY <1>1, <1>2

-----------------------------------------------------------------------------
(***************************************************************************)
(* In the dry run cur is a seed, so its calibration writes into the queue. *)
(***************************************************************************)
TraceInv ==
    /\ Books(queue, top_rated)
    /\ pc = "dry_run" => cur \in Nat \ {0}

LEMMA NewEntry ==
    ASSUME NEW target, NEW initial, NEW regions
    PROVE  LET e == Entry(target, initial)
               f == [e EXCEPT !.regions = regions]
           IN  /\ Fields \subseteq DOMAIN e /\ e.tc_ref = 0 /\ e.mini = FALSE
               /\ Fields \subseteq DOMAIN f /\ f.tc_ref = 0 /\ f.mini = FALSE
  BY DEF Entry, Fields

LEMMA InitialBooks == Init => TraceInv
  <1> SUFFICES ASSUME Init PROVE TraceInv
    OBVIOUS
  <1>1. PICK k \in 1 .. MaxInitial : queue = [q \in 1 .. k |-> Entry(0, TRUE)]
    BY DEF Init
  <1>2. cur = 1 /\ top_rated = [b \in 1 .. Bits |-> 0]
    BY DEF Init
  <1>3. k \in Nat
    BY CorpusAssumption
  <1>4. Listed(queue) /\ Len(queue) = k
    <2>1. queue = [q \in 1 .. k |-> queue[q]]
      BY <1>1
    <2> QED
      BY <1>3, <2>1, ListedOn
  <1>5. top_rated \in [1 .. Bits -> 0 .. Len(queue)]
    BY <1>2, <1>3, <1>4
  <1>6. ASSUME NEW e \in 1 .. Len(queue) PROVE Account(queue[e], Held(top_rated, e))
    <2>1. queue[e] = Entry(0, TRUE)
      BY <1>1, <1>4
    <2>2. Held(top_rated, e) = {}
      BY <1>2, <1>3, <1>4 DEF Held
    <2>3. Fields \subseteq DOMAIN queue[e] /\ queue[e].tc_ref = 0
      BY <2>1 DEF Entry, Fields
    <2> QED
      BY <2>2, <2>3, FS_EmptySet DEF Account
  <1>7. Books(queue, top_rated)
    BY <1>4, <1>5, <1>6 DEF Books
  <1> QED
    BY <1>2, <1>7 DEF TraceInv

(***************************************************************************)
(* cull_queue changes who is favored, and nothing else of an entry.        *)
(***************************************************************************)
LEMMA Culled ==
    ASSUME Books(queue, top_rated), NEW target, cull_queue(target)
    PROVE  Books(queue', top_rated')
  <1>1. CASE ~score_changed
    <2>1. queue' = queue /\ top_rated' = top_rated
      BY <1>1 DEF cull_queue
    <2> QED
      BY <2>1
  <1>2. CASE score_changed
    <2>0. DOMAIN queue = 1 .. Len(queue)
      BY ListedMeans DEF Books
    <2>1. PICK won : /\ queue' = [q \in DOMAIN queue |->
                            [queue[q] EXCEPT !.favored = (@ /\ queue[q].initial) \/ q \in won]]
                     /\ top_rated' = top_rated
      BY <1>2, Zenon DEF cull_queue
    <2>2. \A q \in 1 .. Len(queue) : Fields \subseteq DOMAIN queue[q]
      BY DEF Books, Account
    <2>3. \A q \in 1 .. Len(queue) :
             queue'[q] = [queue[q] EXCEPT !.favored = (@ /\ queue[q].initial) \/ q \in won]
      BY <2>0, <2>1
    <2>4. \A q \in 1 .. Len(queue) :
             /\ Fields \subseteq DOMAIN queue'[q]
             /\ queue'[q].tc_ref = queue[q].tc_ref /\ queue'[q].mini = queue[q].mini
      BY <2>2, <2>3 DEF Fields
    <2>5. queue' = [q \in 1 .. Len(queue) |-> queue'[q]]
      BY <2>0, <2>1
    <2>6. Books(queue', top_rated)
      BY <2>4, <2>5, SameBooks
    <2> QED
      BY <2>1, <2>6
  <1> QED
    BY <1>1, <1>2

(***************************************************************************)
(* A kept execution: a new entry, which holds nothing yet, is calibrated.  *)
(***************************************************************************)
LEMMA Kept ==
    ASSUME Books(queue, top_rated), NEW run \in Mutants, Keep(run)
    PROVE  Books(queue', top_rated')
  <1> DEFINE q == Len(queue) + 1
             e == [Entry(target_state_id, FALSE) EXCEPT !.regions = update_region_annotations(run)]
             more == Append(queue, e)
             c == calibrate_case(more, q, run)
  <1>1. queue' = c.queue /\ top_rated' = c.top
    BY Zenon DEF Keep
  <1>2. Fields \subseteq DOMAIN e /\ e.tc_ref = 0
    BY NewEntry, Zenon
  <1>3. Listed(queue) /\ Len(queue) \in Nat
    BY ListedMeans DEF Books
  <1> HIDE DEF e
  <1>4. /\ Listed(more) /\ Len(more) = Len(queue) + 1
        /\ \A i \in 1 .. Len(queue) : more[i] = queue[i]
        /\ more[Len(queue) + 1] = e
    BY <1>3, ListedAppend
  <1> HIDE DEF more
  <1>5. top_rated \in [1 .. Bits -> 0 .. Len(queue)]
    BY DEF Books
  <1>6. top_rated \in [1 .. Bits -> 0 .. Len(more)]
    BY <1>3, <1>4, <1>5
  <1>7. ASSUME NEW i \in 1 .. Len(more) PROVE Account(more[i], Held(top_rated, i))
    <2>1. CASE i \in 1 .. Len(queue)
      BY <1>4, <2>1 DEF Books
    <2>2. CASE i = Len(queue) + 1
      <3>1. Held(top_rated, i) = {}
        BY <1>3, <1>5, <2>2 DEF Held
      <3> QED
        BY <1>2, <1>4, <2>2, <3>1, FS_EmptySet DEF Account
    <2> QED
      BY <1>3, <1>4, <2>1, <2>2
  <1>8. Books(more, top_rated)
    BY <1>4, <1>6, <1>7 DEF Books
  <1>9. q \in 1 .. Len(more)
    BY <1>3, <1>4
  <1>10. Books(c.queue, c.top)
    BY <1>8, <1>9, Calibrated
  <1> QED
    BY <1>1, <1>10
-----------------------------------------------------------------------------
(***************************************************************************)
(* Every step of a campaign keeps the books.                               *)
(***************************************************************************)
LEMMA BooksInductive == TraceInv /\ [Next]_vars => TraceInv'
<1> SUFFICES ASSUME TraceInv, [Next]_vars PROVE TraceInv'
  OBVIOUS
<1>0. Books(queue, top_rated) /\ (pc = "dry_run" => cur \in Nat \ {0})
  BY DEF TraceInv
<1>1. ASSUME NEW run \in Seeds, DryRun(run) PROVE TraceInv'
  <2>1. pc = "dry_run" /\ cur <= Len(queue)
    BY <1>1 DEF DryRun
  <2>2. cur \in 1 .. Len(queue) /\ Len(queue) \in Nat
    BY <1>0, <2>1, ListedMeans DEF Books
  <2>3. CASE LacksInitialState(machine, run)
    <3>1. pc' = "failed" /\ queue' = queue /\ top_rated' = top_rated
      BY <1>1, <2>3 DEF DryRun, favorites
    <3> QED
      BY <1>0, <3>1 DEF TraceInv
  <2>4. CASE ~LacksInitialState(machine, run)
    <3> DEFINE c == calibrate_case(queue, cur, run)
    <3>1. /\ queue' = [c.queue EXCEPT ![cur].regions = update_region_annotations(run)]
          /\ top_rated' = c.top /\ cur' = cur + 1
      BY <1>1, <2>4, Zenon DEF DryRun
    <3>2. Books(c.queue, c.top) /\ Len(c.queue) = Len(queue)
      BY <1>0, <2>2, Calibrated
    <3> HIDE DEF c
    <3>3. DOMAIN c.queue = 1 .. Len(queue)
      BY <3>2, ListedMeans DEF Books
    <3>4. queue' = [e \in 1 .. Len(queue) |->
                       IF e = cur THEN [c.queue[e] EXCEPT !.regions = update_region_annotations(run)]
                       ELSE c.queue[e]]
      BY <3>1, <3>3
    <3>5. \A e \in 1 .. Len(queue) : Fields \subseteq DOMAIN c.queue[e]
      BY <3>2 DEF Books, Account
    <3>6. \A e \in 1 .. Len(queue) :
             /\ Fields \subseteq DOMAIN queue'[e]
             /\ queue'[e].tc_ref = c.queue[e].tc_ref /\ queue'[e].mini = c.queue[e].mini
      BY <3>4, <3>5 DEF Fields
    <3>7. queue' = [e \in 1 .. Len(queue) |-> queue'[e]]
      BY <3>4
    <3>8. Books(queue', c.top)
      BY <3>2, <3>6, <3>7, SameBooks
    <3> QED
      BY <2>2, <3>1, <3>8 DEF TraceInv
  <2> QED
    BY <2>3, <2>4
<1>2. CASE Start
  <2>1. cull_queue(0) /\ pc' # "dry_run"
    BY <1>2 DEF Start
  <2> QED
    BY <1>0, <2>1, Culled DEF TraceInv
<1>3. CASE SelectSeed
  <2>1. pc' # "dry_run" /\ cull_queue(target_state_id')
    BY <1>3 DEF SelectSeed
  <2> QED
    BY <1>0, <2>1, Culled DEF TraceInv
<1>4. CASE NextInQueue
  <2>1. pc' # "dry_run" /\ cull_queue(target_state_id)
    BY <1>4 DEF NextInQueue
  <2> QED
    BY <1>0, <2>1, Culled DEF TraceInv
<1>5. CASE Skip \/ StartFuzz \/ Loop
  <2>1. pc' # "dry_run" /\ queue' = queue /\ top_rated' = top_rated
    BY <1>5 DEF Skip, StartFuzz, Loop, favorites
  <2> QED
    BY <1>0, <2>1 DEF TraceInv
<1>6. ASSUME NEW run \in Mutants, Save(run) \/ Import(run) PROVE TraceInv'
  <2>1. Keep(run) /\ pc' = pc /\ pc # "dry_run"
    BY <1>6 DEF Save, Import
  <2> QED
    BY <1>0, <2>1, Kept DEF TraceInv
<1>7. ASSUME NEW run \in Mutants, GiveUp(run) PROVE TraceInv'
  <2>1. pc' # "dry_run" /\ queue' = queue /\ top_rated' = top_rated
    BY <1>7 DEF GiveUp, favorites
  <2> QED
    BY <1>0, <2>1 DEF TraceInv
<1>8. CASE Abandon
  <2>1. pc' # "dry_run" /\ top_rated' = top_rated
    BY <1>8 DEF Abandon, favorites
  <2>2. CASE queue[cur].cal /\ ~queue[cur].was_fuzzed
    <3>1. queue' = [queue EXCEPT ![cur].was_fuzzed = TRUE]
      BY <1>8, <2>2 DEF Abandon
    <3>2. DOMAIN queue = 1 .. Len(queue)
      BY <1>0, ListedMeans DEF Books
    <3>3. queue' = [e \in 1 .. Len(queue) |->
                       IF e = cur THEN [queue[e] EXCEPT !.was_fuzzed = TRUE] ELSE queue[e]]
      BY <3>1, <3>2
    <3>4. \A e \in 1 .. Len(queue) : Fields \subseteq DOMAIN queue[e]
      BY <1>0 DEF Books, Account
    <3>5. \A e \in 1 .. Len(queue) :
             /\ Fields \subseteq DOMAIN queue'[e]
             /\ queue'[e].tc_ref = queue[e].tc_ref /\ queue'[e].mini = queue[e].mini
      BY <3>3, <3>4 DEF Fields
    <3>6. queue' = [e \in 1 .. Len(queue) |-> queue'[e]]
      BY <3>3
    <3>7. Books(queue', top_rated)
      BY <1>0, <3>5, <3>6, SameBooks
    <3> QED
      BY <2>1, <3>7 DEF TraceInv
  <2>3. CASE ~(queue[cur].cal /\ ~queue[cur].was_fuzzed)
    <3>1. queue' = queue
      BY <1>8, <2>3 DEF Abandon
    <3> QED
      BY <1>0, <2>1, <3>1 DEF TraceInv
  <2> QED
    BY <2>2, <2>3
<1>9. CASE UNCHANGED vars
  BY <1>0, <1>9 DEF vars, favorites, TraceInv
<1> QED
  BY <1>1, <1>2, <1>3, <1>4, <1>5, <1>6, <1>7, <1>8, <1>9 DEF Next

(***************************************************************************)
(* However seeds take bytes from each other, the holder of a byte keeps    *)
(* the trace cull_queue reads through top_rated, and its reference count   *)
(* is the number of bytes it holds (update_bitmap_score).                  *)
(***************************************************************************)
THEOREM TraceOutlivesItsBytes == Spec => []TraceKept
<1>1. ASSUME TraceInv PROVE TraceKept
  <2>1. Books(queue, top_rated)
    BY <1>1 DEF TraceInv
  <2>2. DOMAIN queue = 1 .. Len(queue) /\ Len(queue) \in Nat
    BY <2>1, ListedMeans DEF Books
  <2>3. ASSUME NEW b \in 1 .. Bits, top_rated[b] # 0 PROVE queue[top_rated[b]].mini
    <3>1. top_rated[b] \in 1 .. Len(queue)
      BY <2>1, <2>2, <2>3 DEF Books
    <3>2. Account(queue[top_rated[b]], Held(top_rated, top_rated[b]))
      BY <2>1, <3>1 DEF Books
    <3>3. Held(top_rated, top_rated[b]) # {}
      BY DEF Held
    <3> QED
      BY <3>2, <3>3, Zenon DEF Account
  <2>4. ASSUME NEW q \in DOMAIN queue
        PROVE  queue[q].tc_ref = Cardinality({b \in 1 .. Bits : top_rated[b] = q})
    BY <2>1, <2>2, <2>4 DEF Books, Account, Held
  <2> QED
    BY <2>3, <2>4, Zenon DEF TraceKept
<1> QED
  BY <1>1, InitialBooks, BooksInductive, PTL DEF Spec

-----------------------------------------------------------------------------
(***************************************************************************)
(* Sequences joined.                                                       *)
(***************************************************************************)
LEMMA ListedConcat ==
    ASSUME NEW s, Listed(s), NEW t, Listed(t)
    PROVE  /\ Listed(s \o t) /\ Len(s \o t) = Len(s) + Len(t)
           /\ \A i \in 1 .. Len(s) : (s \o t)[i] = s[i]
           /\ \A i \in 1 .. Len(t) : (s \o t)[Len(s) + i] = t[i]
  <1> DEFINE S == {s[i] : i \in DOMAIN s} \cup {t[i] : i \in DOMAIN t}
             u == s \o t
  <1>1. s \in Seq(S) /\ t \in Seq(S)
    BY SeqMonotonic DEF Listed
  <1> HIDE DEF S
  <1>2. Len(s) \in Nat /\ Len(t) \in Nat
    BY <1>1, LenProperties
  <1>3. /\ u \in Seq(S) /\ Len(u) = Len(s) + Len(t)
        /\ \A i \in 1 .. Len(s) + Len(t) : u[i] = IF i <= Len(s) THEN s[i] ELSE t[i - Len(s)]
    BY <1>1, ConcatProperties
  <1>4. Len(u) \in Nat /\ u \in [1 .. Len(u) -> S]
    BY <1>3, LenProperties
  <1> HIDE DEF u
  <1>5. Listed(u)
    <2>1. u = [i \in 1 .. Len(u) |-> u[i]]
      BY <1>4
    <2> QED
      BY <1>4, <2>1, ListedOn
  <1>6. \A i \in 1 .. Len(s) : u[i] = s[i]
    BY <1>2, <1>3
  <1>7. \A i \in 1 .. Len(t) : u[Len(s) + i] = t[i]
    <2> SUFFICES ASSUME NEW i \in 1 .. Len(t) PROVE u[Len(s) + i] = t[i]
      OBVIOUS
    <2>1. Len(s) + i \in 1 .. Len(s) + Len(t) /\ ~(Len(s) + i <= Len(s)) /\ (Len(s) + i) - Len(s) = i
      BY <1>2
    <2> QED
      BY <1>3, <2>1
  <1> QED
    BY <1>3, <1>5, <1>6, <1>7 DEF u

Parts == {"nodes", "paths", "state_ids", "rows", "seeds", "cursor"}
Cells == {Unreachable, Reachable, Fuzzed}

(***************************************************************************)
(* expand_was_fuzzed_map widens every row and adds rows.                   *)
(***************************************************************************)
\* The machine m with r rows of c cells.
Wider(e, m, r, c) ==
    /\ Parts \subseteq DOMAIN e
    /\ e.nodes = m.nodes /\ e.paths = m.paths /\ e.state_ids = m.state_ids
    /\ e.seeds = m.seeds /\ e.cursor = m.cursor
    /\ e.rows \in Seq(Seq(Cells)) /\ Len(e.rows) = r
    /\ \A i \in 1 .. r : Len(e.rows[i]) = c

LEMMA Expanded ==
    ASSUME NEW m, Parts \subseteq DOMAIN m, NEW states \in Nat, NEW entries \in Nat,
           m.rows \in Seq(Seq(Cells)), NEW n \in Nat, \A i \in 1 .. Len(m.rows) : Len(m.rows[i]) = n,
           Columns(m) = n \/ states = 0
    PROVE  Wider(expand_was_fuzzed_map(m, states, entries), m, Len(m.rows) + states, n + entries)
  <1> DEFINE added == [j \in 1 .. entries |-> Unreachable]
             wide == [i \in DOMAIN m.rows |-> m.rows[i] \o added]
             blank == [j \in 1 .. Columns(m) + entries |-> Unreachable]
             blanks == [i \in 1 .. states |-> blank]
             all == wide \o blanks
             e == expand_was_fuzzed_map(m, states, entries)
  <1>1. e = [m EXCEPT !.rows = all]
    BY DEF expand_was_fuzzed_map
  <1>2. DOMAIN m.rows = 1 .. Len(m.rows) /\ Len(m.rows) \in Nat
    OBVIOUS
  <1>3. added \in Seq(Cells) /\ Len(added) = entries
    BY DEF Cells
  <1>4. \A i \in 1 .. Len(m.rows) : m.rows[i] \in Seq(Cells)
    OBVIOUS
  <1> HIDE DEF added
  <1>5. \A i \in 1 .. Len(m.rows) :
           m.rows[i] \o added \in Seq(Cells) /\ Len(m.rows[i] \o added) = n + entries
    <2> SUFFICES ASSUME NEW i \in 1 .. Len(m.rows)
                 PROVE  m.rows[i] \o added \in Seq(Cells) /\ Len(m.rows[i] \o added) = n + entries
      OBVIOUS
    <2>1. m.rows[i] \in Seq(Cells) /\ Len(m.rows[i]) = n
      BY <1>4
    <2> QED
      BY <1>3, <2>1, ConcatProperties
  <1>6. /\ wide \in Seq(Seq(Cells)) /\ Len(wide) = Len(m.rows)
        /\ \A i \in 1 .. Len(wide) : Len(wide[i]) = n + entries
    BY <1>2, <1>5
  <1>7. /\ blanks \in Seq(Seq(Cells)) /\ Len(blanks) = states
        /\ \A i \in 1 .. Len(blanks) : Len(blanks[i]) = n + entries
    <2>1. CASE states = 0
      BY <2>1
    <2>2. CASE states # 0
      <3>1. Columns(m) = n
        BY <2>2
      <3>2. blank \in Seq(Cells) /\ Len(blank) = n + entries
        BY <3>1 DEF Cells
      <3> HIDE DEF blank
      <3> QED
        BY <3>2
    <2> QED
      BY <2>1, <2>2
  <1> HIDE DEF wide, blanks
  <1>8. /\ all \in Seq(Seq(Cells)) /\ Len(all) = Len(m.rows) + states
        /\ \A i \in 1 .. Len(all) : Len(all[i]) = n + entries
    <2>1. /\ all \in Seq(Seq(Cells)) /\ Len(all) = Len(wide) + Len(blanks)
          /\ \A i \in 1 .. Len(wide) + Len(blanks) :
                all[i] = IF i <= Len(wide) THEN wide[i] ELSE blanks[i - Len(wide)]
      BY <1>6, <1>7, ConcatProperties
    <2> HIDE DEF all
    <2>2. ASSUME NEW i \in 1 .. Len(all) PROVE Len(all[i]) = n + entries
      <3>1. CASE i <= Len(wide)
        <4>1. i \in 1 .. Len(wide)
          BY <1>2, <1>6, <3>1
        <4>2. all[i] = wide[i]
          BY <1>2, <1>6, <1>7, <2>1, <3>1
        <4> QED
          BY <1>6, <4>1, <4>2
      <3>2. CASE ~(i <= Len(wide))
        <4>1. i - Len(wide) \in 1 .. Len(blanks)
          BY <1>2, <1>6, <1>7, <2>1, <3>2
        <4>2. all[i] = blanks[i - Len(wide)]
          BY <2>1, <3>2
        <4> QED
          BY <1>7, <4>1, <4>2
      <3> QED
        BY <3>1, <3>2
    <2> QED
      BY <1>6, <1>7, <2>1, <2>2
  <1> HIDE DEF all, e
  <1> QED
    BY <1>1, <1>8 DEF Parts, Wider, e

-----------------------------------------------------------------------------
(***************************************************************************)
(* The machine of a queue of n entries: a row for every known state, wide  *)
(* enough, and lists of entries that the cursors point into.               *)
(***************************************************************************)
Table(m, n) ==
    /\ Parts \subseteq DOMAIN m
    /\ m.rows \in Seq(Seq(Cells))
    /\ Listed(m.state_ids)
    /\ Len(m.rows) = IF Len(m.state_ids) = 0 THEN 1 ELSE Len(m.state_ids)
    /\ \A i \in 1 .. Len(m.rows) : Len(m.rows[i]) = n
    /\ Len(m.state_ids) # 0 => m.state_ids[1] = 0 /\ 0 \in m.nodes
    /\ Len(m.state_ids) = 0 => DOMAIN m.seeds = {}

\* A list of seeds and the cursor in it.
Seated(list, cursor, n) ==
    /\ Listed(list) /\ \A k \in 1 .. Len(list) : list[k] \in 1 .. n
    /\ cursor = 1 \/ cursor \in 1 .. Len(list)

Lists(m, n) ==
    /\ m.nodes \subseteq DOMAIN m.seeds
    /\ \A i \in 1 .. Len(m.state_ids) : m.state_ids[i] \in DOMAIN m.seeds
    /\ DOMAIN m.cursor = DOMAIN m.seeds
    /\ \A s \in DOMAIN m.seeds : Seated(m.seeds[s], m.cursor[s], n)

Sound(m, n) == Table(m, n) /\ Lists(m, n)

\* The machine m that knows the state s also.
Knows(e, m, s, listed, n) ==
    /\ Parts \subseteq DOMAIN e
    /\ e.nodes = m.nodes /\ e.paths = m.paths /\ e.state_ids = Append(m.state_ids, s)
    /\ e.seeds = With(m.seeds, s, listed) /\ e.cursor = With(m.cursor, s, 1)
    /\ e.rows \in Seq(Seq(Cells)) /\ Len(e.rows) = Len(m.state_ids) + 1
    /\ \A i \in 1 .. Len(m.state_ids) + 1 : Len(e.rows[i]) = n

LEMMA NewStateIs ==
    ASSUME NEW m, NEW n \in Nat, Table(m, n), NEW s, NEW listed,
           s = 0 => Len(m.state_ids) = 0, s # 0 => Len(m.state_ids) # 0
    PROVE  Knows(NewState(m, s, listed), m, s, listed, n)
  <1> DEFINE o == [m EXCEPT !.state_ids = Append(@, s),
                            !.seeds = With(@, s, listed), !.cursor = With(@, s, 1)]
             k == IF s = 0 THEN 0 ELSE 1
             e == NewState(m, s, listed)
  <1>1. e = expand_was_fuzzed_map(o, k, 0)
    BY DEF NewState
  <1>2. /\ Parts \subseteq DOMAIN o
        /\ o.nodes = m.nodes /\ o.paths = m.paths /\ o.state_ids = Append(m.state_ids, s)
        /\ o.seeds = With(m.seeds, s, listed) /\ o.cursor = With(m.cursor, s, 1)
        /\ o.rows = m.rows
    BY DEF Table, Parts
  <1> HIDE DEF o, e
  <1>3. k \in Nat /\ 0 \in Nat
    OBVIOUS
  <1>4. Len(m.state_ids) \in Nat
    BY ListedMeans DEF Table
  <1>5. Len(m.rows) + k = Len(m.state_ids) + 1 /\ Len(m.rows) >= 1 /\ Len(m.rows) \in Nat
    <2>1. Len(m.rows) = IF Len(m.state_ids) = 0 THEN 1 ELSE Len(m.state_ids)
      BY DEF Table
    <2>2. CASE s = 0
      BY <1>4, <2>1, <2>2
    <2>3. CASE s # 0
      BY <1>4, <2>1, <2>3
    <2> QED
      BY <2>2, <2>3
  <1>6. o.rows \in Seq(Seq(Cells)) /\ \A i \in 1 .. Len(o.rows) : Len(o.rows[i]) = n
    BY <1>2 DEF Table
  <1>7. Columns(o) = n
    <2>1. o.rows # << >> /\ 1 \in 1 .. Len(o.rows)
      BY <1>2, <1>5
    <2> QED
      BY <1>6, <2>1 DEF Columns
  <1> HIDE DEF k
  <1>8. Wider(e, o, Len(o.rows) + k, n + 0)
    <2>1. Wider(expand_was_fuzzed_map(o, k, 0), o, Len(o.rows) + k, n + 0)
      BY <1>2, <1>3, <1>6, <1>7, Expanded
    <2> QED
      BY <1>1, <2>1
  <1>9. n + 0 = n /\ Len(o.rows) + k = Len(m.state_ids) + 1
    BY <1>2, <1>5
  <1> QED
    BY <1>2, <1>8, <1>9 DEF e, Wider, Knows

(***************************************************************************)
(* A machine that gets to know a state is sound again; d has it among its  *)
(* nodes or not.                                                           *)
(***************************************************************************)
Noded(d, e, nodes) ==
    /\ Parts \subseteq DOMAIN d /\ d.nodes = nodes
    /\ d.paths = e.paths /\ d.state_ids = e.state_ids
    /\ d.seeds = e.seeds /\ d.cursor = e.cursor /\ d.rows = e.rows

LEMMA KnowsSound ==
    ASSUME NEW m, NEW n \in Nat, Sound(m, n), NEW s, NEW listed, Seated(listed, 1, n),
           NEW e, Knows(e, m, s, listed, n), NEW nodes, NEW d, Noded(d, e, nodes),
           (nodes = m.nodes /\ s # 0) \/ nodes = m.nodes \cup {s},
           s # 0 => Len(m.state_ids) # 0
    PROVE  Sound(d, n)
  <1>1. Listed(m.state_ids) /\ Len(m.state_ids) \in Nat
    BY ListedMeans DEF Sound, Table
  <1>2. /\ Listed(d.state_ids) /\ Len(d.state_ids) = Len(m.state_ids) + 1
        /\ \A i \in 1 .. Len(m.state_ids) : d.state_ids[i] = m.state_ids[i]
        /\ d.state_ids[Len(m.state_ids) + 1] = s
    BY <1>1, ListedAppend DEF Noded, Knows
  <1>3. /\ DOMAIN d.seeds = DOMAIN m.seeds \cup {s} /\ DOMAIN d.cursor = DOMAIN m.cursor \cup {s}
        /\ \A t \in DOMAIN m.seeds \cup {s} : d.seeds[t] = IF t = s THEN listed ELSE m.seeds[t]
        /\ \A t \in DOMAIN m.cursor \cup {s} : d.cursor[t] = IF t = s THEN 1 ELSE m.cursor[t]
    BY DEF Noded, Knows, With
  <1>4. DOMAIN m.cursor = DOMAIN m.seeds
    BY DEF Sound, Lists
  <1>5. ASSUME NEW t \in DOMAIN d.seeds PROVE Seated(d.seeds[t], d.cursor[t], n)
    <2>1. CASE t = s
      BY <1>3, <1>4, <2>1
    <2>2. CASE t # s
      <3>1. Seated(m.seeds[t], m.cursor[t], n)
        BY <1>3, <2>2 DEF Sound, Lists
      <3> QED
        BY <1>3, <1>4, <2>2, <3>1
    <2> QED
      BY <2>1, <2>2
  <1>6. d.nodes \subseteq DOMAIN d.seeds
    BY <1>3 DEF Noded, Sound, Lists
  <1>7. ASSUME NEW i \in 1 .. Len(d.state_ids) PROVE d.state_ids[i] \in DOMAIN d.seeds
    <2>1. CASE i = Len(m.state_ids) + 1
      BY <1>2, <1>3, <2>1
    <2>2. CASE i # Len(m.state_ids) + 1
      <3>1. i \in 1 .. Len(m.state_ids)
        BY <1>1, <1>2, <2>2
      <3>2. m.state_ids[i] \in DOMAIN m.seeds
        BY <3>1 DEF Sound, Lists
      <3> QED
        BY <1>2, <1>3, <3>1, <3>2
    <2> QED
      BY <2>1, <2>2
  <1>8. Lists(d, n)
    BY <1>3, <1>4, <1>5, <1>6, <1>7 DEF Lists
  <1>9. d.state_ids[1] = 0 /\ 0 \in d.nodes
    <2>1. CASE Len(m.state_ids) = 0
      BY <1>2, <2>1 DEF Noded
    <2>2. CASE Len(m.state_ids) # 0
      <3>1. m.state_ids[1] = 0 /\ 0 \in m.nodes /\ 1 \in 1 .. Len(m.state_ids)
        BY <1>1, <2>2 DEF Sound, Table
      <3> QED
        BY <1>2, <3>1 DEF Noded
    <2> QED
      BY <2>1, <2>2
  <1>10. /\ Parts \subseteq DOMAIN d
         /\ d.rows \in Seq(Seq(Cells)) /\ Len(d.rows) = Len(d.state_ids)
         /\ \A i \in 1 .. Len(d.rows) : Len(d.rows[i]) = n
    BY <1>2 DEF Noded, Knows
  <1>11. Len(d.state_ids) # 0
    BY <1>1, <1>2
  <1>12. Table(d, n)
    BY <1>2, <1>9, <1>10, <1>11 DEF Table
  <1> QED
    BY <1>8, <1>12 DEF Sound

(***************************************************************************)
(* One end of an edge.                                                     *)
(***************************************************************************)
LEMMA NodeAdded ==
    ASSUME NEW m, NEW n \in Nat, Sound(m, n), NEW s, s = 0 \/ 0 \in m.nodes
    PROVE  /\ Sound(AddNode(m, s), n)
           /\ AddNode(m, s).nodes = m.nodes \cup {s} /\ AddNode(m, s).paths = m.paths
           /\ Len(AddNode(m, s).state_ids) >= Len(m.state_ids)
  <1>0. Listed(m.state_ids) /\ Len(m.state_ids) \in Nat
    BY ListedMeans DEF Sound, Table
  <1>1. CASE s \in m.nodes
    BY <1>0, <1>1 DEF AddNode
  <1>2. CASE s \notin m.nodes
    <2> DEFINE e == NewState(m, s, << >>)
               d == [e EXCEPT !.nodes = @ \cup {s}]
    <2>1. s = 0 => Len(m.state_ids) = 0
      BY <1>2 DEF Sound, Table
    <2>2. s # 0 => Len(m.state_ids) # 0
      BY DEF Sound, Table, Lists
    <2>3. Knows(e, m, s, << >>, n)
      BY <2>1, <2>2, NewStateIs DEF Sound
    <2>4. Seated(<< >>, 1, n)
      BY DEF Seated, Listed
    <2> HIDE DEF e
    <2>5. Noded(d, e, m.nodes \cup {s}) /\ d.paths = m.paths
      BY <2>3 DEF Noded, Knows, Parts
    <2> HIDE DEF d
    <2>6. Sound(d, n)
      BY <2>2, <2>3, <2>4, <2>5, KnowsSound
    <2>7. AddNode(m, s) = d
      BY <1>2 DEF AddNode, d, e
    <2>8. Len(d.state_ids) = Len(m.state_ids) + 1
      BY <1>0, <2>3, <2>5, ListedAppend DEF Noded, Knows
    <2> QED
      BY <1>0, <2>5, <2>6, <2>7, <2>8 DEF Noded
  <1> QED
    BY <1>1, <1>2

(***************************************************************************)
(* The nodes of a path, one after the other.                               *)
(***************************************************************************)
Noding(f, base, states, k) ==
    f = [i \in 0 .. k |-> IF i = 0 THEN base ELSE AddNode(f[i - 1], states[i])]

LEMMA NodingExists ==
    ASSUME NEW base, NEW states, NEW k \in Nat
    PROVE  \E f : Noding(f, base, states, k)
  <1> DEFINE T == {n \in Nat : \E f : Noding(f, base, states, n)}
  <1>1. 0 \in T
    <2> DEFINE f == [i \in 0 .. 0 |-> base]
    <2>1. Noding(f, base, states, 0)
      BY DEF Noding
    <2> QED
      BY <2>1
  <1>2. ASSUME NEW n \in Nat, n \in T PROVE n + 1 \in T
    <2>1. PICK f : Noding(f, base, states, n)
      BY <1>2
    <2> DEFINE next == AddNode(f[n], states[n + 1])
               g == [i \in 0 .. n + 1 |-> IF i = n + 1 THEN next ELSE f[i]]
    <2>2. ASSUME NEW i \in 0 .. n + 1
          PROVE  g[i] = IF i = 0 THEN base ELSE AddNode(g[i - 1], states[i])
      <3>1. CASE i = n + 1
        <4>1. g[i] = next /\ g[i - 1] = f[n]
          BY <3>1
        <4> HIDE DEF g
        <4> QED
          BY <3>1, <4>1
      <3>2. CASE i \in 1 .. n
        <4>1. g[i] = f[i] /\ g[i - 1] = f[i - 1]
          BY <3>2
        <4>2. f[i] = AddNode(f[i - 1], states[i])
          BY <2>1, <3>2 DEF Noding
        <4> HIDE DEF g
        <4> QED
          BY <3>2, <4>1, <4>2
      <3>3. CASE i = 0
        <4>1. f[0] = base
          BY <2>1 DEF Noding
        <4> QED
          BY <3>3, <4>1
      <3> QED
        BY <3>1, <3>2, <3>3
    <2>3. g = [i \in 0 .. n + 1 |-> g[i]]
      OBVIOUS
    <2> HIDE DEF g
    <2>4. Noding(g, base, states, n + 1)
      BY <2>2, <2>3 DEF Noding
    <2> QED
      BY <2>4
  <1> HIDE DEF T
  <1>3. k \in T
    BY <1>1, <1>2, SetInduction
  <1> QED
    BY <1>3 DEF T

(***************************************************************************)
(* A path that starts in the initial state is learned.                     *)
(***************************************************************************)
LEMMA PathLearned ==
    ASSUME NEW m, NEW n \in Nat, Sound(m, n), NEW states, Listed(states),
           Len(states) >= 1, states[1] = 0
    PROVE  Sound(LearnPath(m, states), n) /\ Len(LearnPath(m, states).state_ids) >= Len(m.state_ids)
  <1> DEFINE floor == Len(m.state_ids)
             base == [m EXCEPT !.paths = @ \cup {Trimmed(states)}]
             k == Len(states)
             after == CHOOSE f : f = [i \in 0 .. k |->
                            IF i = 0 THEN base ELSE AddNode(f[i - 1], states[i])]
  <1>1. k \in Nat /\ floor \in Nat
    BY ListedMeans DEF Sound, Table
  <1>2. Sound(base, n) /\ Len(base.state_ids) = floor
    <2>1. Noded(base, base, m.nodes) /\ base.nodes = m.nodes /\ base.state_ids = m.state_ids
          /\ base.seeds = m.seeds /\ base.cursor = m.cursor /\ base.rows = m.rows
      BY DEF Sound, Table, Noded, Parts
    <2> HIDE DEF base
    <2> QED
      BY <2>1 DEF Sound, Table, Lists, Noded
  <1> HIDE DEF base, floor
  <1>3. Noding(after, base, states, k)
    <2>1. \E f : f = [i \in 0 .. k |-> IF i = 0 THEN base ELSE AddNode(f[i - 1], states[i])]
      <3>1. \E f : Noding(f, base, states, k)
        BY <1>1, NodingExists
      <3> QED
        BY <3>1, Zenon DEF Noding
    <2> QED
      BY <2>1, Zenon DEF Noding
  <1> HIDE DEF after
  <1>4. after[0] = base /\ \A i \in 1 .. k : after[i] = AddNode(after[i - 1], states[i])
    BY <1>1, <1>3 DEF Noding
  <1> DEFINE Good(o) == Sound(o, n) /\ 0 \in o.nodes /\ Len(o.state_ids) >= floor
             T == {i \in Nat : Good(after[i])}
  <1>5. 1 \in T
    <2>1. after[1] = AddNode(base, 0)
      BY <1>1, <1>4
    <2> DEFINE first == AddNode(base, 0)
    <2>2. Sound(first, n) /\ first.nodes = base.nodes \cup {0} /\ Len(first.state_ids) >= floor
      BY <1>2, NodeAdded
    <2> HIDE DEF first
    <2>3. Good(first)
      BY <2>2
    <2> QED
      BY <2>1, <2>3 DEF first
  <1>6. ASSUME NEW i \in 1 .. k - 1, i \in T PROVE i + 1 \in T
    <2>1. Sound(after[i], n) /\ 0 \in after[i].nodes /\ Len(after[i].state_ids) >= floor
      BY <1>6
    <2>2. after[i + 1] = AddNode(after[i], states[i + 1])
      <3>1. i + 1 \in 1 .. k /\ (i + 1) - 1 = i
        BY <1>1
      <3> QED
        BY <1>4, <3>1
    <2> DEFINE next == AddNode(after[i], states[i + 1])
    <2>3. /\ Sound(next, n) /\ next.nodes = after[i].nodes \cup {states[i + 1]}
          /\ Len(next.state_ids) >= Len(after[i].state_ids)
      BY <2>1, NodeAdded
    <2> HIDE DEF next
    <2>4. after[i + 1] = next /\ i + 1 \in Nat
      BY <2>2 DEF next
    <2>5. Len(next.state_ids) \in Nat /\ Len(after[i].state_ids) \in Nat
      BY <2>1, <2>3, ListedMeans DEF Sound, Table
    <2>6. Len(next.state_ids) >= floor
      BY <1>1, <2>1, <2>3, <2>5
    <2> QED
      BY <2>1, <2>3, <2>4, <2>6
  <1>7. 1 .. k \subseteq T
    <2> HIDE DEF T
    <2> QED
      BY <1>1, <1>5, <1>6, UpToInduction
  <1>8. Sound(after[k], n) /\ Len(after[k].state_ids) >= floor
    BY <1>1, <1>7
  <1>9. LearnPath(m, states) \in {m, base, after[k]}
    BY DEF LearnPath, base, after
  <1> QED
    BY <1>1, <1>2, <1>8, <1>9 DEF floor

(***************************************************************************)
(* A cell is written.                                                      *)
(***************************************************************************)
SameShape(r, rows) ==
    /\ r \in Seq(Seq(Cells)) /\ Len(r) = Len(rows)
    /\ \A j \in 1 .. Len(rows) : Len(r[j]) = Len(rows[j])

LEMMA CellWritten ==
    ASSUME NEW rows \in Seq(Seq(Cells)), NEW i, NEW q, NEW c \in Cells
    PROVE  SameShape([rows EXCEPT ![i][q] = c], rows)
  <1> DEFINE row == [rows[i] EXCEPT ![q] = c]
             r == [rows EXCEPT ![i][q] = c]
  <1>1. DOMAIN rows = 1 .. Len(rows) /\ Len(rows) \in Nat /\ \A j \in 1 .. Len(rows) : rows[j] \in Seq(Cells)
    OBVIOUS
  <1>2. r = [j \in 1 .. Len(rows) |-> IF j = i THEN row ELSE rows[j]]
    BY <1>1
  <1>3. i \in 1 .. Len(rows) => row \in Seq(Cells) /\ Len(row) = Len(rows[i])
    <2> SUFFICES ASSUME i \in 1 .. Len(rows) PROVE row \in Seq(Cells) /\ Len(row) = Len(rows[i])
      OBVIOUS
    <2>1. PICK t \in Seq(Cells) : t = rows[i]
      BY <1>1
    <2>2. Len(t) \in Nat /\ t \in [1 .. Len(t) -> Cells]
      OBVIOUS
    <2>3. row = [x \in 1 .. Len(t) |-> IF x = q THEN c ELSE t[x]]
      BY <2>1, <2>2
    <2>4. row \in [1 .. Len(t) -> Cells]
      BY <2>2, <2>3
    <2> HIDE DEF row
    <2>5. row \in Seq(Cells)
      <3>1. PICK k \in Nat : k = Len(t)
        BY <2>2
      <3>2. row \in [1 .. k -> Cells]
        BY <2>4, <3>1
      <3> QED
        BY <3>2, SeqDef
    <2>6. Len(row) \in Nat /\ 1 .. Len(row) = 1 .. Len(t)
      BY <2>4, <2>5, LenProperties
    <2>7. Len(row) = Len(t)
      BY <2>2, <2>6
    <2> QED
      BY <2>1, <2>5, <2>7
  <1> HIDE DEF row, r
  <1>4. \A j \in 1 .. Len(rows) : r[j] \in Seq(Cells) /\ Len(r[j]) = Len(rows[j])
    BY <1>1, <1>2, <1>3
  <1>5. r \in Seq(Seq(Cells)) /\ Len(r) = Len(rows)
    BY <1>1, <1>2, <1>4
  <1> QED
    BY <1>4, <1>5 DEF r, SameShape

(***************************************************************************)
(* A seed is listed for a state it reaches.                                *)
(***************************************************************************)
LEMMA SeedListed ==
    ASSUME NEW m, NEW n \in Nat, Sound(m, n), Len(m.state_ids) # 0, NEW s, NEW q \in 1 .. n
    PROVE  Sound(ListSeed(m, s, q), n) /\ Len(ListSeed(m, s, q).state_ids) >= Len(m.state_ids)
  <1> DEFINE o == IF s \in Known(m) THEN [m EXCEPT !.seeds[s] = Append(@, q)]
                  ELSE NewState(m, s, <<q>>)
             k == get_state_index(o, s)
             d == [o EXCEPT !.rows[k][q] = Reachable]
  <1>0. Listed(m.state_ids) /\ Len(m.state_ids) \in Nat
    BY ListedMeans DEF Sound, Table
  <1>1. Sound(o, n) /\ Len(o.state_ids) >= Len(m.state_ids)
    <2>1. CASE s \in Known(m)
      <3> DEFINE e == [m EXCEPT !.seeds[s] = Append(@, q)]
      <3>1. Parts \subseteq DOMAIN m /\ DOMAIN m.cursor = DOMAIN m.seeds
        BY DEF Sound, Table, Lists
      <3>2. /\ Parts \subseteq DOMAIN e /\ e.nodes = m.nodes /\ e.state_ids = m.state_ids
            /\ e.rows = m.rows /\ e.cursor = m.cursor /\ DOMAIN e.seeds = DOMAIN m.seeds
            /\ \A t \in DOMAIN m.seeds :
                  e.seeds[t] = IF t = s THEN Append(m.seeds[s], q) ELSE m.seeds[t]
        BY <3>1 DEF Parts
      <3> HIDE DEF e
      <3>3. ASSUME NEW t \in DOMAIN e.seeds PROVE Seated(e.seeds[t], e.cursor[t], n)
        <4>1. Seated(m.seeds[t], m.cursor[t], n)
          BY <3>2 DEF Sound, Lists
        <4>2. CASE t = s
          <5>1. Listed(m.seeds[s]) /\ Len(m.seeds[s]) \in Nat
            BY <4>1, <4>2, ListedMeans DEF Seated
          <5> DEFINE l == Append(m.seeds[s], q)
          <5>2. /\ Listed(l) /\ Len(l) = Len(m.seeds[s]) + 1
                /\ \A i \in 1 .. Len(m.seeds[s]) : l[i] = m.seeds[s][i]
                /\ l[Len(m.seeds[s]) + 1] = q
            BY <5>1, ListedAppend
          <5> HIDE DEF l
          <5>3. \A i \in 1 .. Len(l) : l[i] \in 1 .. n
            <6> SUFFICES ASSUME NEW i \in 1 .. Len(l) PROVE l[i] \in 1 .. n
              OBVIOUS
            <6>1. CASE i = Len(m.seeds[s]) + 1
              BY <5>2, <6>1
            <6>2. CASE i # Len(m.seeds[s]) + 1
              <7>1. i \in 1 .. Len(m.seeds[s])
                BY <5>1, <5>2, <6>2
              <7>2. m.seeds[s][i] \in 1 .. n
                BY <4>1, <4>2, <7>1 DEF Seated
              <7> QED
                BY <5>2, <7>1, <7>2
            <6> QED
              BY <6>1, <6>2
          <5>4. m.cursor[s] = 1 \/ m.cursor[s] \in 1 .. Len(l)
            BY <4>1, <4>2, <5>1, <5>2 DEF Seated
          <5> QED
            BY <3>2, <4>2, <5>2, <5>3, <5>4 DEF Seated, l
        <4>3. CASE t # s
          BY <3>2, <4>1, <4>3
        <4> QED
          BY <4>2, <4>3
      <3>4. Lists(e, n)
        BY <3>2, <3>3 DEF Sound, Lists
      <3>5. Table(e, n)
        BY <3>2 DEF Sound, Table
      <3>6. o = e
        BY <2>1 DEF e
      <3> QED
        BY <1>0, <3>2, <3>4, <3>5, <3>6 DEF Sound
    <2>2. CASE s \notin Known(m)
      <3> DEFINE e == NewState(m, s, <<q>>)
      <3>1. s # 0
        BY <2>2 DEF Sound, Table, Lists, Known
      <3>2. Knows(e, m, s, <<q>>, n)
        BY <3>1, NewStateIs DEF Sound
      <3> HIDE DEF e
      <3>3. Noded(e, e, m.nodes)
        BY <3>2 DEF Noded, Knows
      <3>4. Seated(<<q>>, 1, n)
        BY DEF Seated, Listed
      <3>5. Sound(e, n)
        BY <3>1, <3>2, <3>3, <3>4, KnowsSound
      <3>6. Len(e.state_ids) >= Len(m.state_ids)
        <4>1. Len(Append(m.state_ids, s)) = Len(m.state_ids) + 1
          BY <1>0, ListedAppend
        <4> QED
          BY <1>0, <3>2, <4>1 DEF Knows
      <3>7. o = e
        BY <2>2 DEF e
      <3> QED
        BY <3>5, <3>6, <3>7
    <2> QED
      BY <2>1, <2>2
  <1>2. ListSeed(m, s, q) = d
    BY DEF ListSeed
  <1> HIDE DEF o, k
  <1>3. Parts \subseteq DOMAIN o /\ o.rows \in Seq(Seq(Cells)) /\ Reachable \in Cells
    BY <1>1 DEF Sound, Table, Cells
  <1> DEFINE rows == [o.rows EXCEPT ![k][q] = Reachable]
  <1>4. /\ Parts \subseteq DOMAIN d /\ d.nodes = o.nodes /\ d.state_ids = o.state_ids
        /\ d.seeds = o.seeds /\ d.cursor = o.cursor /\ d.rows = rows
    BY <1>3 DEF Parts
  <1>5. SameShape(rows, o.rows)
    BY <1>3, CellWritten
  <1> HIDE DEF rows, d
  <1>6. Sound(d, n)
    BY <1>1, <1>4, <1>5 DEF Sound, Table, Lists, SameShape
  <1> QED
    BY <1>1, <1>2, <1>4, <1>6

(***************************************************************************)
(* The regions of a seed, one after the other.                             *)
(***************************************************************************)
Listing(f, base, regions, q, k) ==
    f = [i \in 0 .. k |-> IF i = 0 THEN base ELSE ListRegion(f[i - 1], regions[i], q)]

LEMMA ListingExists ==
    ASSUME NEW base, NEW regions, NEW q, NEW k \in Nat
    PROVE  \E f : Listing(f, base, regions, q, k)
  <1> DEFINE T == {n \in Nat : \E f : Listing(f, base, regions, q, n)}
  <1>1. 0 \in T
    <2> DEFINE f == [i \in 0 .. 0 |-> base]
    <2>1. Listing(f, base, regions, q, 0)
      BY DEF Listing
    <2> QED
      BY <2>1
  <1>2. ASSUME NEW n \in Nat, n \in T PROVE n + 1 \in T
    <2>1. PICK f : Listing(f, base, regions, q, n)
      BY <1>2
    <2> DEFINE next == ListRegion(f[n], regions[n + 1], q)
               g == [i \in 0 .. n + 1 |-> IF i = n + 1 THEN next ELSE f[i]]
    <2>2. ASSUME NEW i \in 0 .. n + 1
          PROVE  g[i] = IF i = 0 THEN base ELSE ListRegion(g[i - 1], regions[i], q)
      <3>1. CASE i = n + 1
        <4>1. g[i] = next /\ g[i - 1] = f[n]
          BY <3>1
        <4> HIDE DEF g
        <4> QED
          BY <3>1, <4>1
      <3>2. CASE i \in 1 .. n
        <4>1. g[i] = f[i] /\ g[i - 1] = f[i - 1]
          BY <3>2
        <4>2. f[i] = ListRegion(f[i - 1], regions[i], q)
          BY <2>1, <3>2 DEF Listing
        <4> HIDE DEF g
        <4> QED
          BY <3>2, <4>1, <4>2
      <3>3. CASE i = 0
        <4>1. f[0] = base
          BY <2>1 DEF Listing
        <4> QED
          BY <3>3, <4>1
      <3> QED
        BY <3>1, <3>2, <3>3
    <2>3. g = [i \in 0 .. n + 1 |-> g[i]]
      OBVIOUS
    <2> HIDE DEF g
    <2>4. Listing(g, base, regions, q, n + 1)
      BY <2>2, <2>3 DEF Listing
    <2> QED
      BY <2>4
  <1> HIDE DEF T
  <1>3. k \in T
    BY <1>1, <1>2, SetInduction
  <1> QED
    BY <1>3 DEF T

(***************************************************************************)
(* What the annotations and the state sequence of a run look like.         *)
(***************************************************************************)
LEMMA Annotated ==
    ASSUME NEW run \in Seeds \cup Mutants
    PROVE  LET a == update_region_annotations(run)
           IN  Listed(a) /\ Len(a) = Len(run.replies) /\ Len(a) \in Nat \ {0}
  <1>1. run.replies \in Seq(Range(run.replies)) /\ run.replies # << >>
    BY CorpusAssumption
  <1>2. Len(run.replies) \in Nat \ {0} /\ DOMAIN run.replies = 1 .. Len(run.replies)
    BY <1>1, EmptySeq
  <1> DEFINE a == update_region_annotations(run)
  <1>3. a = [i \in 1 .. Len(run.replies) |-> a[i]]
    BY <1>2 DEF update_region_annotations
  <1> HIDE DEF a
  <1> QED
    BY <1>2, <1>3, ListedOn DEF a

(***************************************************************************)
(* What FlattenSeq joins, one sequence after the other.                    *)
(***************************************************************************)
Join(s, t) == s \o t
Joining(f, s, n) == f = [i \in 1 .. n |-> IF i = 1 THEN s[i] ELSE Join(f[i - 1], s[i])]

LEMMA JoiningExists ==
    ASSUME NEW s, NEW n \in Nat
    PROVE  \E f : Joining(f, s, n)
  <1> DEFINE T == {k \in Nat : \E f : Joining(f, s, k)}
  <1>1. 0 \in T
    <2> DEFINE f == [i \in 1 .. 0 |-> s[i]]
    <2>1. Joining(f, s, 0)
      BY DEF Joining
    <2> QED
      BY <2>1
  <1>2. ASSUME NEW k \in Nat, k \in T PROVE k + 1 \in T
    <2>1. PICK f : Joining(f, s, k)
      BY <1>2
    <2> DEFINE next == IF k = 0 THEN s[1] ELSE Join(f[k], s[k + 1])
               g == [i \in 1 .. k + 1 |-> IF i = k + 1 THEN next ELSE f[i]]
    <2>2. ASSUME NEW i \in 1 .. k + 1
          PROVE  g[i] = IF i = 1 THEN s[i] ELSE Join(g[i - 1], s[i])
      <3>1. CASE i = k + 1 /\ k = 0
        BY <3>1
      <3>2. CASE i = k + 1 /\ k # 0
        <4>1. g[i] = Join(f[k], s[k + 1]) /\ g[i - 1] = f[k]
          BY <3>2
        <4> HIDE DEF g
        <4> QED
          BY <3>2, <4>1
      <3>3. CASE i \in 1 .. k
        <4>1. g[i] = f[i] /\ (i # 1 => g[i - 1] = f[i - 1])
          BY <3>3
        <4>2. f[i] = IF i = 1 THEN s[i] ELSE Join(f[i - 1], s[i])
          BY <2>1, <3>3 DEF Joining
        <4> HIDE DEF g
        <4> QED
          BY <3>3, <4>1, <4>2
      <3> QED
        BY <3>1, <3>2, <3>3
    <2>3. g = [i \in 1 .. k + 1 |-> g[i]]
      OBVIOUS
    <2> HIDE DEF g
    <2>4. Joining(g, s, k + 1)
      BY <2>2, <2>3 DEF Joining
    <2> QED
      BY <2>4
  <1> HIDE DEF T
  <1>3. n \in T
    BY <1>1, <1>2, SetInduction
  <1> QED
    BY <1>3 DEF T

LEMMA FlattenStep ==
    ASSUME NEW k \in Nat, NEW t, t = [i \in 1 .. k + 1 |-> t[i]], Listed(t[k + 1]),
           NEW s, s = [i \in 1 .. k |-> t[i]]
    PROVE  FlattenSeq(t) = FlattenSeq(s) \o t[k + 1]
  <1> DEFINE fs == CHOOSE f : f = [i \in 1 .. Len(s) |-> IF i = 1 THEN s[i] ELSE f[i - 1] \o s[i]]
             ft == CHOOSE f : f = [i \in 1 .. Len(t) |-> IF i = 1 THEN t[i] ELSE f[i - 1] \o t[i]]
  <1>1. Len(s) = k /\ Len(t) = k + 1 /\ k + 1 \in Nat
    <2>1. s = [i \in 1 .. k |-> s[i]]
      OBVIOUS
    <2> QED
      BY <2>1, ListedOn
  <1>2. Joining(fs, s, k) /\ Joining(ft, t, k + 1)
    <2>1. (\E f : Joining(f, s, k)) /\ (\E f : Joining(f, t, k + 1))
      BY <1>1, JoiningExists
    <2>2. /\ fs = CHOOSE f : Joining(f, s, k)
          /\ ft = CHOOSE f : Joining(f, t, k + 1)
      BY <1>1, Zenon DEF Joining, Join
    <2> HIDE DEF fs, ft
    <2> QED
      BY <2>1, <2>2, Zenon
  <1>3. FlattenSeq(t) = ft[k + 1] /\ FlattenSeq(s) = IF k = 0 THEN s ELSE fs[k]
    BY <1>1 DEF FlattenSeq
  <1> HIDE DEF fs, ft
  <1>4. \A i \in 1 .. k : fs[i] = ft[i]
    <2>1. k > 0 => fs[1] = ft[1]
      BY <1>2 DEF Joining
    <2>2. ASSUME NEW i \in 1 .. k - 1, fs[i] = ft[i] PROVE fs[i + 1] = ft[i + 1]
      <3>1. i + 1 \in 1 .. k /\ i + 1 \in 1 .. k + 1 /\ (i + 1) - 1 = i /\ i + 1 # 1
        OBVIOUS
      <3>2. fs[i + 1] = Join(fs[i], s[i + 1])
        BY <1>2, <3>1 DEF Joining
      <3>3. ft[i + 1] = Join(ft[i], t[i + 1])
        BY <1>2, <3>1 DEF Joining
      <3>4. s[i + 1] = t[i + 1]
        BY <3>1
      <3> QED
        BY <2>2, <3>2, <3>3, <3>4
    <2> QED
      BY <2>1, <2>2, SameSteps
  <1>5. CASE k = 0
    <2>1. ft[1] = t[1]
      BY <1>2, <1>5 DEF Joining
    <2>2. s = << >>
      BY <1>5
    <2>3. << >> \o t[1] = t[1]
      BY <1>5, ConcatEmptySeq DEF Listed
    <2>4. k + 1 = 1
      BY <1>5
    <2>5. FlattenSeq(t) = t[1] /\ FlattenSeq(s) = << >>
      BY <1>3, <1>5, <2>1, <2>2, <2>4
    <2> QED
      BY <2>3, <2>4, <2>5
  <1>6. CASE k # 0
    <2>1. k + 1 \in 1 .. k + 1 /\ k + 1 # 1 /\ (k + 1) - 1 = k /\ k \in 1 .. k
      BY <1>6
    <2>2. ft[k + 1] = Join(ft[k], t[k + 1])
      BY <1>2, <2>1 DEF Joining
    <2>3. fs[k] = ft[k]
      BY <1>4, <2>1
    <2> QED
      BY <1>3, <1>6, <2>2, <2>3, Zenon DEF Join
  <1> QED
    BY <1>5, <1>6

(***************************************************************************)
(* The codes of one more reply.                                            *)
(***************************************************************************)
LEMMA CodesGrow ==
    ASSUME NEW run \in Seeds \cup Mutants
    PROVE  /\ Codes(run, 0) = << >>
           /\ \A k \in 0 .. Len(run.replies) - 1 :
                 Codes(run, k + 1) = Codes(run, k) \o run.replies[k + 1].codes
           /\ \A k \in 0 .. Len(run.replies) : Listed(Codes(run, k))
  <1> DEFINE n == Len(run.replies)
             code(k) == run.replies[k].codes
             C(k) == [i \in 1 .. k |-> code(i)]
  <1>1. /\ n \in Nat /\ DOMAIN run.replies = 1 .. n
        /\ \A i \in 1 .. n : Listed(code(i))
    <2>1. run.replies \in Seq(Range(run.replies))
      BY CorpusAssumption
    <2>2. n \in Nat /\ DOMAIN run.replies = 1 .. n
      BY <2>1, LenProperties
    <2>3. \A i \in 1 .. n : code(i) \in Seq(Range(code(i)))
      BY <2>2, CorpusAssumption
    <2> QED
      BY <2>2, <2>3 DEF Listed, Range
  <1>2. \A k : Codes(run, k) = FlattenSeq(C(k))
    BY DEF Codes
  <1> HIDE DEF n, code
  <1>3. Codes(run, 0) = << >>
    <2>1. C(0) = << >>
      OBVIOUS
    <2> QED
      BY <1>2, <2>1 DEF FlattenSeq
  <1>4. ASSUME NEW k \in 0 .. n - 1 PROVE Codes(run, k + 1) = Codes(run, k) \o code(k + 1)
    <2>1. k \in Nat /\ k + 1 \in 1 .. n
      BY <1>1
    <2>2. C(k + 1) = [i \in 1 .. k + 1 |-> C(k + 1)[i]]
      OBVIOUS
    <2>3. C(k) = [i \in 1 .. k |-> C(k + 1)[i]]
      BY <2>1
    <2>4. C(k + 1)[k + 1] = code(k + 1)
      BY <2>1
    <2>5. Listed(code(k + 1))
      BY <1>1, <2>1
    <2>6. FlattenSeq(C(k + 1)) = FlattenSeq(C(k)) \o C(k + 1)[k + 1]
      BY <2>1, <2>2, <2>3, <2>4, <2>5, FlattenStep
    <2> QED
      BY <1>2, <2>4, <2>6
  <1> DEFINE T == {k \in Nat : k \in 1 .. n + 1 => Listed(Codes(run, k - 1))}
  <1>5. 1 \in T
    <2>1. Listed(<< >>)
      BY DEF Listed
    <2>2. Listed(Codes(run, 0)) /\ 1 - 1 = 0
      BY <1>3, <2>1
    <2> QED
      BY <2>2
  <1> HIDE DEF T
  <1>9. PICK l \in Nat : l = n + 1
    BY <1>1
  <1>6. ASSUME NEW k \in 1 .. l - 1, k \in T PROVE k + 1 \in T
    <2>1. k \in Nat /\ k \in 1 .. n + 1 /\ k - 1 \in 0 .. n - 1 /\ (k - 1) + 1 = k /\ k \in 1 .. n
          /\ (k + 1) - 1 = k
      BY <1>1, <1>9
    <2>2. Codes(run, k) = Codes(run, k - 1) \o code(k)
      BY <1>4, <2>1
    <2>3. Listed(Codes(run, k - 1)) /\ Listed(code(k))
      BY <1>1, <1>6, <2>1 DEF T
    <2>4. Listed(Codes(run, k))
      BY <2>2, <2>3, ListedConcat
    <2> QED
      BY <2>1, <2>4 DEF T
  <1>7. 1 .. n + 1 \subseteq T
    <2>1. 1 .. l \subseteq T
      BY <1>5, <1>6, UpToInduction
    <2> QED
      BY <1>9, <2>1
  <1>8. ASSUME NEW k \in 0 .. n PROVE Listed(Codes(run, k))
    <2>1. k + 1 \in 1 .. n + 1 /\ (k + 1) - 1 = k
      BY <1>1
    <2>2. k + 1 \in T
      BY <1>7, <2>1
    <2> QED
      BY <2>1, <2>2 DEF T
  <1> QED
    BY <1>3, <1>4, <1>8 DEF n, code

\* The initial state comes first, whatever the replies say.
LEMMA SequenceStarts ==
    ASSUME NEW run \in Seeds \cup Mutants
    PROVE  LET states == state_sequence(run)
           IN  Listed(states) /\ Len(states) >= 1 /\ states[1] = 0
  <1> DEFINE codes == Codes(run, Len(run.replies))
             states == <<0>> \o codes
  <1>1. Listed(codes)
    <2>1. run.replies \in Seq(Range(run.replies))
      BY CorpusAssumption
    <2>2. Len(run.replies) \in 0 .. Len(run.replies)
      BY <2>1
    <2> QED
      BY <2>2, CodesGrow
  <1> HIDE DEF codes
  <1>2. Listed(<<0>>) /\ Len(<<0>>) = 1 /\ <<0>>[1] = 0
    BY DEF Listed
  <1>3. /\ Listed(states) /\ Len(states) = 1 + Len(codes) /\ states[1] = 0
    BY <1>1, <1>2, ListedConcat
  <1>4. Len(codes) \in Nat
    BY <1>1, ListedMeans
  <1> QED
    BY <1>3, <1>4 DEF codes, state_sequence

(***************************************************************************)
(* What the machine learns from a run, and of which states it lists the    *)
(* seed, leaves it sound.                                                  *)
(***************************************************************************)
LEMMA MachineLearned ==
    ASSUME NEW m, NEW n \in Nat, Sound(m, n), NEW run \in Seeds \cup Mutants,
           NEW q \in 1 .. n, ~LacksInitialState(m, run)
    PROVE  LET d == update_state_aware_variables(m, run, q)
           IN  Sound(d, n) /\ Len(d.state_ids) >= Len(m.state_ids)
  <1>0. Len(m.state_ids) \in Nat
    BY ListedMeans DEF Sound, Table
  <1>1. CASE Silent(run)
    BY <1>0, <1>1 DEF update_state_aware_variables
  <1>2. CASE ~Silent(run)
    <2> DEFINE states == state_sequence(run)
               learned == LearnPath(m, states)
               base == ListSeed(learned, 0, q)
               regions == update_region_annotations(run)
               k == Len(regions)
               after == CHOOSE f : f = [i \in 0 .. k |->
                            IF i = 0 THEN base ELSE ListRegion(f[i - 1], regions[i], q)]
    <2>1. Listed(regions) /\ k \in Nat /\ k >= 1
      BY Annotated
    <2>2. Sound(learned, n) /\ Len(learned.state_ids) >= Len(m.state_ids)
      BY SequenceStarts, PathLearned
    <2>3. Len(learned.state_ids) # 0
      BY <1>2, <2>2 DEF LacksInitialState, Sound, Table, Lists, Known
    <2> HIDE DEF learned, regions
    <2> DEFINE floor == Len(learned.state_ids)
    <2>4. Sound(base, n) /\ Len(base.state_ids) >= floor
      BY <2>2, <2>3, SeedListed
    <2>40. floor \in Nat /\ floor >= 1 /\ floor >= Len(m.state_ids)
      BY <2>2, <2>3, ListedMeans DEF Sound, Table
    <2> HIDE DEF floor
    <2>5. update_state_aware_variables(m, run, q) = after[k]
      BY <1>2 DEF update_state_aware_variables, learned, regions
    <2> HIDE DEF base
    <2>6. Listing(after, base, regions, q, k)
      <3>1. \E f : Listing(f, base, regions, q, k)
        BY <2>1, ListingExists
      <3> QED
        BY <3>1, Zenon DEF Listing
    <2> HIDE DEF after
    <2>7. after[0] = base /\ \A i \in 1 .. k : after[i] = ListRegion(after[i - 1], regions[i], q)
      BY <2>1, <2>6 DEF Listing
    <2> DEFINE Good(o) == Sound(o, n) /\ Len(o.state_ids) >= floor
               T == {i \in Nat : Good(after[i])}
    <2>8. ASSUME NEW o, Good(o), NEW annotation PROVE Good(ListRegion(o, annotation, q))
      <3>1. CASE annotation = << >>
        BY <2>8, <3>1 DEF ListRegion
      <3>2. CASE annotation # << >>
        <4> DEFINE l == ListSeed(o, Last(annotation), q)
        <4>1. Len(o.state_ids) \in Nat /\ Len(o.state_ids) # 0
          BY <2>8, <2>40, ListedMeans DEF Sound, Table
        <4>2. Sound(l, n) /\ Len(l.state_ids) >= Len(o.state_ids)
          BY <2>8, <4>1, SeedListed
        <4> HIDE DEF l
        <4>3. Len(l.state_ids) \in Nat
          BY <4>2, ListedMeans DEF Sound, Table
        <4>4. Good(l)
          BY <2>8, <2>40, <4>1, <4>2, <4>3
        <4> QED
          BY <3>2, <4>4 DEF ListRegion, l
      <3> QED
        BY <3>1, <3>2
    <2>9. Good(after[0])
      BY <2>4, <2>7
    <2> HIDE DEF Good
    <2>10. 1 \in T
      <3>1. after[1] = ListRegion(after[0], regions[1], q)
        BY <2>1, <2>7
      <3> QED
        BY <2>8, <2>9, <3>1
    <2>11. ASSUME NEW i \in 1 .. k - 1, i \in T PROVE i + 1 \in T
      <3>1. i + 1 \in 1 .. k /\ (i + 1) - 1 = i /\ i + 1 \in Nat
        BY <2>1
      <3>2. after[i + 1] = ListRegion(after[i], regions[i + 1], q)
        BY <2>7, <3>1
      <3>3. Good(after[i])
        BY <2>11
      <3> QED
        BY <2>8, <3>1, <3>2, <3>3
    <2>12. 1 .. k \subseteq T
      <3> HIDE DEF T
      <3> QED
        BY <2>1, <2>10, <2>11, UpToInduction
    <2>13. Good(after[k])
      BY <2>1, <2>12
    <2>14. Sound(after[k], n) /\ Len(after[k].state_ids) >= floor /\ Len(after[k].state_ids) \in Nat
      BY <2>13, ListedMeans DEF Good, Sound, Table
    <2> QED
      BY <1>0, <2>5, <2>14, <2>40
  <1> QED
    BY <1>1, <1>2

(***************************************************************************)
(* add_to_queue, and the table after read_testcases.                       *)
(***************************************************************************)
LEMMA ColumnAdded ==
    ASSUME NEW m, NEW n \in Nat, Sound(m, n)
    PROVE  Sound(AddColumn(m), n + 1) /\ AddColumn(m).state_ids = m.state_ids
  <1> DEFINE e == expand_was_fuzzed_map(m, 0, 1)
  <1>1. Len(m.state_ids) \in Nat /\ Len(m.rows) >= 1 /\ Len(m.rows) \in Nat /\ m.rows # << >>
    <2>1. Len(m.state_ids) \in Nat
      BY ListedMeans DEF Sound, Table
    <2>2. Len(m.rows) = IF Len(m.state_ids) = 0 THEN 1 ELSE Len(m.state_ids)
      BY DEF Sound, Table
    <2> QED
      BY <2>1, <2>2
  <1>2. AddColumn(m) = e
    BY <1>1 DEF AddColumn
  <1>3. Wider(e, m, Len(m.rows) + 0, n + 1)
    BY Expanded DEF Sound, Table
  <1> HIDE DEF e
  <1>4. Table(e, n + 1)
    BY <1>1, <1>3 DEF Wider, Sound, Table
  <1>5. ASSUME NEW s \in DOMAIN m.seeds PROVE Seated(m.seeds[s], m.cursor[s], n + 1)
    BY <1>5 DEF Sound, Lists, Seated
  <1>6. Lists(e, n + 1)
    BY <1>3, <1>5 DEF Wider, Sound, Lists
  <1> QED
    BY <1>2, <1>3, <1>4, <1>6 DEF Sound, Wider

LEMMA FirstTable ==
    ASSUME NEW k \in Nat
    PROVE  Sound(expand_was_fuzzed_map(NoMachine, 1, k), k)
  <1> DEFINE e == expand_was_fuzzed_map(NoMachine, 1, k)
  <1>1. /\ Parts \subseteq DOMAIN NoMachine /\ NoMachine.rows = << >> /\ NoMachine.seeds = << >>
        /\ NoMachine.state_ids = << >> /\ NoMachine.cursor = << >> /\ NoMachine.nodes = {}
    BY DEF NoMachine, Parts
  <1>2. Columns(NoMachine) = 0
    BY <1>1 DEF Columns
  <1>3. << >> \in Seq(Seq(Cells)) /\ Len(<< >>) = 0 /\ Listed(<< >>) /\ DOMAIN << >> = {}
    BY DEF Listed
  <1>4. Wider(e, NoMachine, 0 + 1, 0 + k)
    <2>1. /\ NoMachine.rows \in Seq(Seq(Cells)) /\ Len(NoMachine.rows) = 0 /\ 0 \in Nat /\ 1 \in Nat
          /\ \A i \in 1 .. Len(NoMachine.rows) : Len(NoMachine.rows[i]) = 0
      BY <1>1, <1>3
    <2>2. Wider(e, NoMachine, Len(NoMachine.rows) + 1, 0 + k)
      BY <1>1, <1>2, <2>1, Expanded
    <2> QED
      BY <2>1, <2>2
  <1> HIDE DEF e
  <1>5. Table(e, k)
    BY <1>1, <1>3, <1>4 DEF Wider, Table
  <1>6. Lists(e, k)
    BY <1>1, <1>3, <1>4 DEF Wider, Lists
  <1> QED
    BY <1>5, <1>6 DEF Sound, e

-----------------------------------------------------------------------------
(***************************************************************************)
(* What a step leaves of an entry: was it fuzzed and calibrated, its       *)
(* regions and its bits.                                                   *)
(***************************************************************************)
Same(e, f) == /\ e.was_fuzzed = f.was_fuzzed /\ e.regions = f.regions
              /\ e.bits = f.bits

LEMMA CulledFrame ==
    ASSUME Books(queue, top_rated), NEW target, cull_queue(target)
    PROVE  /\ Len(queue') = Len(queue) /\ top_rated' = top_rated
           /\ \A q \in 1 .. Len(queue) : Same(queue'[q], queue[q])
  <1>1. CASE ~score_changed
    BY <1>1 DEF cull_queue, Same
  <1>2. CASE score_changed
    <2>0. DOMAIN queue = 1 .. Len(queue) /\ Len(queue) \in Nat
      BY ListedMeans DEF Books
    <2>1. PICK won : /\ queue' = [q \in DOMAIN queue |->
                            [queue[q] EXCEPT !.favored = (@ /\ queue[q].initial) \/ q \in won]]
                     /\ top_rated' = top_rated
      BY <1>2, Zenon DEF cull_queue
    <2>2. \A q \in 1 .. Len(queue) : Fields \subseteq DOMAIN queue[q]
      BY DEF Books, Account
    <2>3. \A q \in 1 .. Len(queue) :
             queue'[q] = [queue[q] EXCEPT !.favored = (@ /\ queue[q].initial) \/ q \in won]
      BY <2>0, <2>1
    <2>4. \A q \in 1 .. Len(queue) : Same(queue'[q], queue[q])
      BY <2>2, <2>3 DEF Fields, Same
    <2>5. Len(queue') = Len(queue)
      <3>1. queue' = [q \in 1 .. Len(queue) |-> queue'[q]]
        BY <2>0, <2>1
      <3> QED
        BY <2>0, <3>1, ListedOn
    <2> QED
      BY <2>1, <2>4, <2>5
  <1> QED
    BY <1>1, <1>2

(***************************************************************************)
(* The bytes won by a calibration, and who holds what after it.            *)
(***************************************************************************)
LEMMA RepaidFrame ==
    ASSUME NEW entries, NEW e, NEW q, NEW won, Fields \subseteq DOMAIN entries[e]
    PROVE  LET after == Repaid(entries, e, q, won)
           IN  Same(after, entries[e]) /\ after.favored = entries[e].favored
  BY DEF Repaid, Fields, Same

Contested(entries, q) == {b \in entries[q].bits :
    top_rated[b] = 0 \/ entries[q].factor <= entries[top_rated[b]].factor}

\* c is what becomes of entries and top_rated when q wins the bytes in won.
Settled(c, entries, q, won) ==
    /\ c.top = Taken(top_rated, won, q)
    /\ ~c.changed => ~score_changed /\ won = {}
    /\ \A e \in 1 .. Len(entries) :
          Same(c.queue[e], entries[e]) /\ c.queue[e].favored = entries[e].favored

LEMMA ScoredFrame ==
    ASSUME NEW entries, Books(entries, top_rated), NEW q \in 1 .. Len(entries)
    PROVE  Settled(update_bitmap_score(entries, q), entries, q, Contested(entries, q))
  <1> DEFINE won == Contested(entries, q)
             after == [e \in DOMAIN entries |-> Repaid(entries, e, q, won)]
             r == update_bitmap_score(entries, q)
  <1>1. r.queue = after /\ r.top = Taken(top_rated, won, q)
    BY DEF update_bitmap_score, Taken, Contested
  <1>2. ~r.changed => ~score_changed /\ won = {}
    BY DEF update_bitmap_score, Contested
  <1> HIDE DEF won, r
  <1>3. DOMAIN entries = 1 .. Len(entries)
    BY ListedMeans DEF Books
  <1>4. ASSUME NEW e \in 1 .. Len(entries)
        PROVE  Same(after[e], entries[e]) /\ after[e].favored = entries[e].favored
    <2> DEFINE new == Repaid(entries, e, q, won)
    <2>1. after[e] = new
      BY <1>3
    <2>2. Fields \subseteq DOMAIN entries[e]
      BY DEF Books, Account
    <2>3. Same(new, entries[e]) /\ new.favored = entries[e].favored
      BY <2>2, RepaidFrame
    <2> HIDE DEF new, after
    <2> QED
      BY <2>1, <2>3
  <1> HIDE DEF after
  <1> QED
    BY <1>1, <1>2, <1>4 DEF won, r, Settled

\* The bytes q may win if it calibrates.
Won(won, run) ==
    /\ ~run.calibrates => won = {}
    /\ run.calibrates => /\ won \subseteq run.bits
                         /\ \A b \in run.bits \ won : top_rated[b] # 0

\* c is what becomes of entries and top_rated in the calibration of q.
Measured(c, entries, q, run, won) ==
    /\ \A e \in 1 .. Len(entries) : /\ e # q => Same(c.queue[e], entries[e])
                                    /\ c.queue[e].favored = entries[e].favored
    /\ c.queue[q].was_fuzzed = entries[q].was_fuzzed
    /\ c.queue[q].regions = entries[q].regions
    /\ c.queue[q].bits = IF run.calibrates THEN run.bits ELSE entries[q].bits
    /\ c.top = Taken(top_rated, won, q)
    /\ ~c.changed => ~score_changed /\ won = {}

LEMMA CalibratedFrame ==
    ASSUME NEW entries, Books(entries, top_rated), NEW q \in 1 .. Len(entries),
           NEW run \in Seeds \cup Mutants
    PROVE  \E won \in SUBSET (1 .. Bits) :
              Won(won, run) /\ Measured(calibrate_case(entries, q, run), entries, q, run, won)
  <1> DEFINE c == calibrate_case(entries, q, run)
  <1>1. CASE run.calibrates
    <2> DEFINE entry == [[[entries[q] EXCEPT !.cal = TRUE] EXCEPT !.bits = run.bits]
                            EXCEPT !.factor = run.factor]
               known == [entries EXCEPT ![q].cal = TRUE, ![q].bits = run.bits,
                                        ![q].factor = run.factor]
               won == Contested(known, q)
    <2>1. DOMAIN entries = 1 .. Len(entries)
      BY ListedMeans DEF Books
    <2>2. \A e \in 1 .. Len(entries) : Fields \subseteq DOMAIN entries[e]
      BY DEF Books, Account
    <2>3. known = [e \in 1 .. Len(entries) |-> IF e = q THEN entry ELSE entries[e]]
      BY <2>1
    <2>4. /\ Fields \subseteq DOMAIN entry /\ entry.bits = run.bits
          /\ entry.tc_ref = entries[q].tc_ref /\ entry.mini = entries[q].mini
          /\ entry.was_fuzzed = entries[q].was_fuzzed /\ entry.regions = entries[q].regions
          /\ entry.favored = entries[q].favored
      BY <2>2 DEF Fields
    <2>5. c = update_bitmap_score(known, q)
      BY <1>1 DEF calibrate_case
    <2> HIDE DEF entry, known
    <2>6. known = [e \in 1 .. Len(entries) |-> known[e]]
      BY <2>3
    <2>7. \A e \in 1 .. Len(entries) :
             /\ Fields \subseteq DOMAIN known[e]
             /\ known[e].tc_ref = entries[e].tc_ref /\ known[e].mini = entries[e].mini
      BY <2>2, <2>3, <2>4
    <2>8. Books(known, top_rated) /\ Len(known) = Len(entries)
      BY <2>6, <2>7, SameBooks
    <2>9. Settled(c, known, q, won)
      BY <2>5, <2>8, ScoredFrame
    <2>10. known[q] = entry /\ \A e \in 1 .. Len(entries) : e # q => known[e] = entries[e]
      BY <2>3
    <2>11. Won(won, run) /\ won \in SUBSET (1 .. Bits)
      <3>1. run.bits \subseteq 1 .. Bits /\ known[q].bits = run.bits
        BY <2>4, <2>10, CorpusAssumption
      <3> QED
        BY <1>1, <3>1 DEF Won, Contested
    <2> HIDE DEF won, c
    <2>12. /\ c.queue[q].was_fuzzed = entries[q].was_fuzzed
           /\ c.queue[q].regions = entries[q].regions
           /\ c.queue[q].bits = run.bits
      BY <2>4, <2>8, <2>9, <2>10 DEF Settled, Same
    <2>13. ASSUME NEW e \in 1 .. Len(entries)
           PROVE  /\ e # q => Same(c.queue[e], entries[e])
                  /\ c.queue[e].favored = entries[e].favored
      <3>1. Same(c.queue[e], known[e]) /\ c.queue[e].favored = known[e].favored
        BY <2>8, <2>9 DEF Settled
      <3> QED
        BY <2>4, <2>10, <3>1
    <2>14. Measured(c, entries, q, run, won)
      BY <1>1, <2>9, <2>12, <2>13 DEF Measured, Settled
    <2> QED
      BY <2>11, <2>14 DEF c
  <1>2. CASE ~run.calibrates
    <2>1. c.queue = entries /\ c.top = top_rated /\ (~c.changed => ~score_changed)
      BY <1>2 DEF calibrate_case
    <2>2. Taken(top_rated, {}, q) = top_rated
      <3>1. top_rated \in [1 .. Bits -> 0 .. Len(entries)]
        BY DEF Books
      <3> QED
        BY <3>1 DEF Taken
    <2>3. Won({}, run) /\ {} \in SUBSET (1 .. Bits)
      BY <1>2 DEF Won
    <2> HIDE DEF c
    <2>4. Measured(c, entries, q, run, {})
      BY <1>2, <2>1, <2>2 DEF Same, Measured
    <2> QED
      BY <2>3, <2>4 DEF c
  <1> QED
    BY <1>1, <1>2

(***************************************************************************)
(* The queue after the execution of entry q was calibrated and annotated:  *)
(* q is the next seed of the dry run, or a new entry.                      *)
(***************************************************************************)
Ran(q, run) ==
    /\ \A e \in 1 .. Len(queue) :
          e # q => Same(queue'[e], queue[e]) /\ queue'[e].favored = queue[e].favored
    /\ queue'[q].regions = update_region_annotations(run)
    /\ \E won \in SUBSET (1 .. Bits) :
          /\ Won(won, run)
          /\ top_rated' = Taken(top_rated, won, q)
          /\ ~score_changed' => ~score_changed /\ won = {}

LEMMA DryRan ==
    ASSUME Books(queue, top_rated), NEW run \in Seeds, DryRun(run), cur \in 1 .. Len(queue),
           ~LacksInitialState(machine, run)
    PROVE  /\ Len(queue') = Len(queue) /\ Ran(cur, run)
           /\ queue'[cur].was_fuzzed = queue[cur].was_fuzzed
           /\ queue'[cur].bits = IF run.calibrates THEN run.bits ELSE queue[cur].bits
  <1> DEFINE c == calibrate_case(queue, cur, run)
             regions == update_region_annotations(run)
  <1>1. /\ queue' = [c.queue EXCEPT ![cur].regions = regions]
        /\ top_rated' = c.top /\ score_changed' = c.changed
    BY Zenon DEF DryRun
  <1>2. Books(c.queue, c.top) /\ Len(c.queue) = Len(queue)
    BY Calibrated
  <1>3. PICK won \in SUBSET (1 .. Bits) : Won(won, run) /\ Measured(c, queue, cur, run, won)
    BY CalibratedFrame
  <1> HIDE DEF c, regions
  <1>4. DOMAIN c.queue = 1 .. Len(queue) /\ Len(queue) \in Nat
    BY <1>2, ListedMeans DEF Books
  <1>5. \A e \in 1 .. Len(queue) : Fields \subseteq DOMAIN c.queue[e]
    BY <1>2 DEF Books, Account
  <1>6. /\ \A e \in 1 .. Len(queue) : e # cur => queue'[e] = c.queue[e]
        /\ queue'[cur] = [c.queue[cur] EXCEPT !.regions = regions]
    BY <1>1, <1>4
  <1>7. /\ queue'[cur].regions = regions /\ queue'[cur].was_fuzzed = c.queue[cur].was_fuzzed
        /\ queue'[cur].bits = c.queue[cur].bits
    BY <1>5, <1>6 DEF Fields
  <1>8. Len(queue') = Len(queue)
    <2>1. queue' = [e \in 1 .. Len(queue) |-> queue'[e]]
      BY <1>1, <1>4
    <2> QED
      BY <1>4, <2>1, ListedOn
  <1>9. Ran(cur, run)
    <2>1. ASSUME NEW e \in 1 .. Len(queue), e # cur
          PROVE  Same(queue'[e], queue[e]) /\ queue'[e].favored = queue[e].favored
      BY <1>3, <1>6, <2>1 DEF Measured
    <2>2. /\ top_rated' = Taken(top_rated, won, cur)
          /\ ~score_changed' => ~score_changed /\ won = {}
      BY <1>1, <1>3 DEF Measured
    <2> QED
      BY <1>3, <1>7, <2>1, <2>2 DEF Ran, regions
  <1> QED
    BY <1>3, <1>7, <1>8, <1>9 DEF Measured

LEMMA KeptRan ==
    ASSUME Books(queue, top_rated), NEW run \in Mutants, Keep(run)
    PROVE  LET q == Len(queue) + 1
           IN  /\ Len(queue') = q /\ Ran(q, run)
               /\ ~queue'[q].was_fuzzed
               /\ queue'[q].bits = IF run.calibrates THEN run.bits ELSE {}
  <1> DEFINE q == Len(queue) + 1
             e0 == [Entry(target_state_id, FALSE) EXCEPT !.regions = update_region_annotations(run)]
             more == Append(queue, e0)
             c == calibrate_case(more, q, run)
  <1>1. queue' = c.queue /\ top_rated' = c.top /\ score_changed' = c.changed
    BY Zenon DEF Keep
  <1>2. Fields \subseteq DOMAIN e0 /\ e0.tc_ref = 0
    BY NewEntry, Zenon
  <1>3. e0.bits = {} /\ ~e0.was_fuzzed /\ e0.regions = update_region_annotations(run)
    BY DEF Entry
  <1>4. Listed(queue) /\ Len(queue) \in Nat
    BY ListedMeans DEF Books
  <1> HIDE DEF e0
  <1>5. /\ Listed(more) /\ Len(more) = Len(queue) + 1
        /\ \A i \in 1 .. Len(queue) : more[i] = queue[i]
        /\ more[Len(queue) + 1] = e0
    BY <1>4, ListedAppend
  <1> HIDE DEF more
  <1>6. top_rated \in [1 .. Bits -> 0 .. Len(queue)]
    BY DEF Books
  <1>7. top_rated \in [1 .. Bits -> 0 .. Len(more)]
    BY <1>4, <1>5, <1>6
  <1>8. ASSUME NEW i \in 1 .. Len(more) PROVE Account(more[i], Held(top_rated, i))
    <2>1. CASE i \in 1 .. Len(queue)
      BY <1>5, <2>1 DEF Books
    <2>2. CASE i = Len(queue) + 1
      <3>1. Held(top_rated, i) = {}
        BY <1>4, <1>6, <2>2 DEF Held
      <3> QED
        BY <1>2, <1>5, <2>2, <3>1, FS_EmptySet DEF Account
    <2> QED
      BY <1>4, <1>5, <2>1, <2>2
  <1>9. Books(more, top_rated)
    BY <1>5, <1>7, <1>8 DEF Books
  <1>10. q \in 1 .. Len(more)
    BY <1>4, <1>5
  <1>11. Len(c.queue) = Len(more)
    BY <1>9, <1>10, Calibrated
  <1>12. PICK won \in SUBSET (1 .. Bits) : Won(won, run) /\ Measured(c, more, q, run, won)
    BY <1>9, <1>10, CalibratedFrame
  <1> HIDE DEF c
  <1>13. ~queue'[q].was_fuzzed /\ queue'[q].regions = update_region_annotations(run)
         /\ queue'[q].bits = IF run.calibrates THEN run.bits ELSE {}
    BY <1>1, <1>3, <1>5, <1>12 DEF Measured
  <1>14. ASSUME NEW e \in 1 .. Len(queue), e # q
         PROVE  Same(queue'[e], queue[e]) /\ queue'[e].favored = queue[e].favored
    <2>1. e \in 1 .. Len(more) /\ more[e] = queue[e]
      BY <1>4, <1>5
    <2> QED
      BY <1>1, <1>12, <1>14, <2>1 DEF Measured
  <1>15. /\ top_rated' = Taken(top_rated, won, q)
         /\ ~score_changed' => ~score_changed /\ won = {}
    BY <1>1, <1>12 DEF Measured
  <1>16. Ran(q, run)
    BY <1>12, <1>13, <1>14, <1>15 DEF Ran
  <1> QED
    BY <1>1, <1>5, <1>11, <1>13, <1>16

-----------------------------------------------------------------------------
(***************************************************************************)
(* Where main is in the queue, and what it selected.                       *)
(***************************************************************************)
TurnInv ==
    /\ Sound(machine, Len(queue)) /\ Len(queue) >= 1
    /\ pc = "dry_run" => cur \in 1 .. Len(queue) + 1
    /\ pc = "select" => cur \in 0 .. Len(queue)
    /\ pc \in {"chosen", "fuzz", "sync"} => cur \in 1 .. Len(queue)
    /\ selected_state_index = 1 \/ selected_state_index \in 1 .. Len(machine.state_ids)
    /\ pc \notin {"dry_run", "failed"} /\ setup.schedule # "queue" => Len(machine.state_ids) # 0

Unfuzzed(entries) == {q \in 1 .. Len(entries) : ~entries[q].was_fuzzed}

CountInv == pending_not_fuzzed = Cardinality(Unfuzzed(queue))

Messages(entry) == Listed(entry.regions) /\ Len(entry.regions) >= 1

\* The messages from at on, count of them, are regions; right after the first that
\* ends in the target if told.
Steered(regions, at, count, target, told) ==
    /\ at \in 1 .. Len(regions) /\ count >= 1 /\ at + count - 1 \in 1 .. Len(regions)
    /\ told => EndingIn(regions, at - 1, target) = {at - 1}

SteerInv ==
    /\ pc # "failed" => \A q \in 1 .. Len(queue) : (pc = "dry_run" /\ cur <= q) \/ Messages(queue[q])
    /\ pc = "fuzz" => Steered(queue[cur].regions, m2[1], m2[2], target_state_id,
                              ~code_aware_schedule /\ target_state_id # 0)

Covered(entries, b) == \E f \in 1 .. Len(entries) : entries[f].favored /\ b \in entries[f].bits

CoverInv ==
    /\ \A b \in 1 .. Bits : top_rated[b] # 0 => b \in queue[top_rated[b]].bits
    /\ \A q \in 1 .. Len(queue) : \A b \in queue[q].bits : b \in 1 .. Bits /\ top_rated[b] # 0
    /\ pc = "dry_run" => \A q \in 1 .. Len(queue) : cur <= q => queue[q].bits = {}
    /\ ~score_changed => \A b \in 1 .. Bits : top_rated[b] # 0 => Covered(queue, b)

-----------------------------------------------------------------------------
(***************************************************************************)
(* abandon_entry writes a cell, choose_seed a cursor.                      *)
(***************************************************************************)
LEMMA MarkedFuzzed ==
    ASSUME NEW m, NEW n, Sound(m, n), NEW i, NEW q
    PROVE  LET d == [m EXCEPT !.rows[i][q] = Fuzzed]
           IN  Sound(d, n) /\ d.state_ids = m.state_ids /\ d.seeds = m.seeds
  <1> DEFINE d == [m EXCEPT !.rows[i][q] = Fuzzed]
             rows == [m.rows EXCEPT ![i][q] = Fuzzed]
  <1>1. Parts \subseteq DOMAIN m /\ m.rows \in Seq(Seq(Cells)) /\ Fuzzed \in Cells
    BY DEF Sound, Table, Cells
  <1>2. /\ Parts \subseteq DOMAIN d /\ d.nodes = m.nodes /\ d.state_ids = m.state_ids
        /\ d.seeds = m.seeds /\ d.cursor = m.cursor /\ d.rows = rows
    BY <1>1 DEF Parts
  <1>3. SameShape(rows, m.rows)
    BY <1>1, CellWritten
  <1> HIDE DEF rows, d
  <1>4. Sound(d, n)
    BY <1>2, <1>3 DEF Sound, Table, Lists, SameShape
  <1> QED
    BY <1>2, <1>4 DEF d

LEMMA CursorMoved ==
    ASSUME NEW m, NEW n, Sound(m, n), NEW s, NEW c \in 1 .. Len(m.seeds[s])
    PROVE  Sound([m EXCEPT !.cursor[s] = c], n)
  <1> DEFINE d == [m EXCEPT !.cursor[s] = c]
  <1>1. Parts \subseteq DOMAIN m /\ DOMAIN m.cursor = DOMAIN m.seeds
    BY DEF Sound, Table, Lists
  <1>2. /\ Parts \subseteq DOMAIN d /\ d.nodes = m.nodes /\ d.state_ids = m.state_ids
        /\ d.seeds = m.seeds /\ d.rows = m.rows /\ DOMAIN d.cursor = DOMAIN m.cursor
        /\ \A t \in DOMAIN m.cursor : d.cursor[t] = IF t = s THEN c ELSE m.cursor[t]
    BY <1>1 DEF Parts
  <1> HIDE DEF d
  <1>3. ASSUME NEW t \in DOMAIN m.seeds PROVE Seated(m.seeds[t], d.cursor[t], n)
    <2>1. Seated(m.seeds[t], m.cursor[t], n)
      BY DEF Sound, Lists
    <2> QED
      BY <1>1, <1>2, <2>1 DEF Seated
  <1>4. Table(d, n)
    BY <1>2 DEF Sound, Table
  <1>5. Lists(d, n)
    BY <1>1, <1>2, <1>3 DEF Sound, Lists
  <1> QED
    BY <1>4, <1>5 DEF Sound, d

(***************************************************************************)
(* The state is a known one, the seed one of its list.                     *)
(***************************************************************************)
LEMMA TargetKnown ==
    ASSUME Sound(machine, Len(queue)), Len(machine.state_ids) # 0,
           selected_state_index = 1 \/ selected_state_index \in 1 .. Len(machine.state_ids),
           choose_target_state
    PROVE  /\ target_state_id' \in DOMAIN machine.seeds
           /\ selected_state_index' \in 1 .. Len(machine.state_ids)
  <1> DEFINE n == Len(machine.state_ids)
             rr == /\ target_state_id' = machine.state_ids[selected_state_index]
                   /\ selected_state_index' = Next1(selected_state_index, n)
  <1>1. n \in Nat /\ n >= 1 /\ DOMAIN machine.state_ids = 1 .. n
    BY ListedMeans DEF Sound, Table
  <1>2. \A i \in 1 .. n : machine.state_ids[i] \in DOMAIN machine.seeds
    BY DEF Sound, Lists
  <1>3. selected_state_index \in 1 .. n
    BY <1>1
  <1>4. \/ \E i \in 1 .. n : /\ selected_state_index' = i
                             /\ target_state_id' = machine.state_ids[i]
        \/ rr
        \/ /\ target_state_id' \in Range(machine.state_ids)
           /\ selected_state_index' = selected_state_index
    BY DEF choose_target_state
  <1>5. CASE rr
    BY <1>1, <1>2, <1>3, <1>5 DEF Next1
  <1>6. CASE \E i \in 1 .. n : /\ selected_state_index' = i
                               /\ target_state_id' = machine.state_ids[i]
    BY <1>2, <1>6
  <1>7. CASE /\ target_state_id' \in Range(machine.state_ids)
             /\ selected_state_index' = selected_state_index
    BY <1>1, <1>2, <1>3, <1>7 DEF Range
  <1> QED
    BY <1>4, <1>5, <1>6, <1>7

LEMMA SeedChosen ==
    ASSUME Sound(machine, Len(queue)), NEW s \in DOMAIN machine.seeds,
           machine.seeds[s] # << >>, NEW pick \in choose_seed(s)
    PROVE  pick[1] \in 1 .. Len(machine.seeds[s]) /\ pick[2] \in 1 .. Len(machine.seeds[s])
  <1> DEFINE n == Len(machine.seeds[s])
             c == machine.cursor[s]
  <1>1. Seated(machine.seeds[s], c, Len(queue))
    BY DEF Sound, Lists
  <1>2. n \in Nat /\ n >= 1
    <2>1. Listed(machine.seeds[s])
      BY <1>1 DEF Seated
    <2>2. n \in Nat /\ machine.seeds[s] \in Seq({machine.seeds[s][i] : i \in DOMAIN machine.seeds[s]})
      BY <2>1, ListedMeans DEF Listed
    <2>3. n # 0
      BY <2>2, EmptySeq
    <2> QED
      BY <2>2, <2>3
  <1>3. c \in 1 .. n
    BY <1>1, <1>2 DEF Seated
  <1>4. \A i \in 1 .. n : Next1(i, n) \in 1 .. n
    BY <1>2 DEF Next1
  <1>5. \/ pick \in {<<i, i>> : i \in 1 .. n}
        \/ pick = <<c, Next1(c, n)>>
        \/ \E i \in 1 .. n : pick = <<i, Next1(i, n)>>
        \/ pick = <<n, 1>>
    BY DEF choose_seed
  <1> HIDE DEF n, c
  <1>6. \E i \in 1 .. n : \E j \in 1 .. n : pick = <<i, j>>
    <2>1. n \in 1 .. n /\ 1 \in 1 .. n
      BY <1>2
    <2>2. ASSUME pick \in {<<i, i>> : i \in 1 .. n} PROVE \E i \in 1 .. n : pick = <<i, i>>
      BY <2>2
    <2> QED
      BY <1>3, <1>4, <1>5, <2>1, <2>2, Zenon
  <1>7. PICK i \in 1 .. n, j \in 1 .. n : pick = <<i, j>>
    BY <1>6
  <1>8. pick[1] = i /\ pick[2] = j
    BY <1>7
  <1> QED
    BY <1>8 DEF n

-----------------------------------------------------------------------------
(***************************************************************************)
(* The table keeps a row for every state and a column for every seed.      *)
(***************************************************************************)
LEMMA InitialTurn == Init => TurnInv
  <1> SUFFICES ASSUME Init PROVE TurnInv
    OBVIOUS
  <1>1. PICK k \in 1 .. MaxInitial : /\ queue = [q \in 1 .. k |-> Entry(0, TRUE)]
                                     /\ machine = expand_was_fuzzed_map(NoMachine, 1, k)
    BY DEF Init
  <1>2. pc = "dry_run" /\ cur = 1 /\ selected_state_index = 1
    BY DEF Init
  <1>3. k \in Nat /\ k >= 1
    BY CorpusAssumption
  <1>4. Len(queue) = k
    <2>1. queue = [q \in 1 .. k |-> queue[q]]
      BY <1>1
    <2> QED
      BY <1>3, <2>1, ListedOn
  <1>5. Sound(machine, k)
    BY <1>1, <1>3, FirstTable
  <1> QED
    BY <1>2, <1>3, <1>4, <1>5 DEF TurnInv

\* queue_cur moves on, in the queue.
LEMMA Advanced ==
    ASSUME NEW n \in Nat, n = Len(queue), cur \in 1 .. n, Advance
    PROVE  cur' \in 0 .. n
  BY DEF Advance

\* An entry is kept with a column of its own.
LEMMA KeptTurn ==
    ASSUME TraceInv, TurnInv, NEW run \in Mutants, Keep(run)
    PROVE  /\ Sound(machine', Len(queue')) /\ Len(queue') = Len(queue) + 1 /\ Len(queue) \in Nat
           /\ Len(machine'.state_ids) >= Len(machine.state_ids)
           /\ Len(machine'.state_ids) \in Nat /\ Len(machine.state_ids) \in Nat
  <1> DEFINE q == Len(queue) + 1
             wide == AddColumn(machine)
  <1>1. Books(queue, top_rated) /\ Len(queue) \in Nat
    BY ListedMeans DEF TraceInv, Books
  <1>2. Len(queue') = q
    BY <1>1, KeptRan
  <1>3. Sound(machine, Len(queue))
    BY DEF TurnInv
  <1>4. Sound(wide, q) /\ wide.state_ids = machine.state_ids
    BY <1>1, <1>3, ColumnAdded
  <1>5. machine' = update_state_aware_variables(wide, run, q)
    BY DEF Keep
  <1>6. ~LacksInitialState(wide, run)
    BY DEF Keep
  <1>7. q \in Nat /\ q \in 1 .. q
    BY <1>1
  <1> HIDE DEF wide
  <1>8. Sound(machine', q) /\ Len(machine'.state_ids) >= Len(machine.state_ids)
    BY <1>4, <1>5, <1>6, <1>7, MachineLearned
  <1>9. Len(machine'.state_ids) \in Nat /\ Len(machine.state_ids) \in Nat
    BY <1>3, <1>8, ListedMeans DEF Sound, Table
  <1> QED
    BY <1>1, <1>2, <1>8, <1>9

LEMMA TurnInductive == TraceInv /\ TurnInv /\ [Next]_vars => TurnInv'
<1> SUFFICES ASSUME TraceInv, TurnInv, [Next]_vars PROVE TurnInv'
  OBVIOUS
<1> DEFINE n == Len(queue)
           ids == Len(machine.state_ids)
<1>0. /\ Books(queue, top_rated) /\ n \in Nat /\ n >= 1
      /\ Sound(machine, n) /\ ids \in Nat
      /\ selected_state_index = 1 \/ selected_state_index \in 1 .. ids
  BY ListedMeans DEF TraceInv, TurnInv, Books, Sound, Table
<1>1. ASSUME NEW run \in Seeds, DryRun(run) PROVE TurnInv'
  <2>1. pc = "dry_run" /\ cur <= n /\ selected_state_index' = selected_state_index
    BY <1>1 DEF DryRun, choice
  <2>2. cur \in 1 .. n
    BY <1>0, <2>1 DEF TurnInv
  <2>3. CASE LacksInitialState(machine, run)
    <3>1. pc' = "failed" /\ queue' = queue /\ machine' = machine
      BY <1>1, <2>3 DEF DryRun
    <3> QED
      BY <1>0, <2>1, <3>1 DEF TurnInv
  <2>4. CASE ~LacksInitialState(machine, run)
    <3>1. /\ machine' = update_state_aware_variables(machine, run, cur)
          /\ cur' = cur + 1 /\ pc' = "dry_run"
      BY <1>1, <2>1, <2>4 DEF DryRun
    <3>2. Len(queue') = n
      BY <1>0, <1>1, <2>2, <2>4, DryRan
    <3>3. Sound(machine', n) /\ Len(machine'.state_ids) >= ids
      BY <1>0, <2>2, <2>4, <3>1, MachineLearned
    <3>4. Len(machine'.state_ids) \in Nat
      BY <3>3, ListedMeans DEF Sound, Table
    <3>5. selected_state_index' = 1 \/ selected_state_index' \in 1 .. Len(machine'.state_ids)
      BY <1>0, <2>1, <3>3, <3>4
    <3>6. cur' \in 1 .. n + 1
      BY <1>0, <2>2, <3>1
    <3> HIDE DEF n
    <3> QED
      BY <1>0, <3>1, <3>2, <3>3, <3>5, <3>6 DEF TurnInv
  <2> QED
    BY <2>3, <2>4
<1>2. CASE Start
  <2>1. cull_queue(0) /\ cur' = 0 /\ machine' = machine /\ selected_state_index' = selected_state_index
        /\ setup' = setup
    BY <1>2 DEF Start, choice
  <2>2. pc' = IF setup.schedule # "queue" /\ machine.state_ids = << >> THEN "failed" ELSE "select"
    BY <1>2 DEF Start
  <2>3. Len(queue') = n
    BY <1>0, <2>1, CulledFrame
  <2>4. pc' = "select" /\ setup.schedule # "queue" => ids # 0
    <3>1. SUFFICES ASSUME machine.state_ids # << >> PROVE ids # 0
      BY <2>2
    <3>2. Listed(machine.state_ids)
      BY <1>0 DEF Sound, Table
    <3> QED
      BY <3>1, <3>2, EmptySeq DEF Listed
  <2> QED
    BY <1>0, <2>1, <2>2, <2>3, <2>4 DEF TurnInv
<1>3. CASE SelectSeed
  <2>1. /\ pc = "select" /\ setup.schedule # "queue" /\ choose_target_state
        /\ cull_queue(target_state_id') /\ setup' = setup
    BY <1>3 DEF SelectSeed
  <2>2. ids # 0 /\ cur \in 0 .. n
    BY <2>1 DEF TurnInv
  <2>3. Len(queue') = n
    BY <1>0, <2>1, CulledFrame
  <2>4. target_state_id' \in DOMAIN machine.seeds /\ selected_state_index' \in 1 .. ids
    BY <1>0, <2>1, <2>2, TargetKnown
  <2>5. CASE machine.seeds[target_state_id'] = << >>
    <3>1. machine' = machine /\ cur' = cur /\ pc' = pc
      BY <1>3, <2>5 DEF SelectSeed
    <3> QED
      BY <1>0, <2>1, <2>2, <2>3, <2>4, <3>1 DEF TurnInv
  <2>6. CASE machine.seeds[target_state_id'] # << >>
    <3>1. PICK pick \in choose_seed(target_state_id') :
             /\ machine' = [machine EXCEPT !.cursor[target_state_id'] = pick[2]]
             /\ \/ cur' = cur /\ pc' = pc
                \/ cur' = machine.seeds[target_state_id'][pick[1]] /\ pc' = "chosen"
      BY <1>3, <2>6, Zenon DEF SelectSeed
    <3>2. /\ pick[1] \in 1 .. Len(machine.seeds[target_state_id'])
          /\ pick[2] \in 1 .. Len(machine.seeds[target_state_id'])
      BY <1>0, <2>4, <2>6, SeedChosen
    <3>3. Sound(machine', n)
      BY <1>0, <3>1, <3>2, CursorMoved
    <3>4. machine'.state_ids = machine.state_ids
      <4>1. Parts \subseteq DOMAIN machine
        BY <1>0 DEF Sound, Table
      <4> QED
        BY <3>1, <4>1 DEF Parts
    <3>5. machine.seeds[target_state_id'][pick[1]] \in 1 .. n
      BY <1>0, <2>4, <3>2 DEF Sound, Lists, Seated
    <3> QED
      BY <1>0, <2>1, <2>2, <2>3, <2>4, <3>1, <3>3, <3>4, <3>5 DEF TurnInv
  <2> QED
    BY <2>5, <2>6
<1>4. CASE NextInQueue
  <2>1. /\ pc = "select" /\ cull_queue(target_state_id) /\ pc' = "chosen" /\ machine' = machine
        /\ cur' = (IF cur = 0 THEN 1 ELSE cur) /\ selected_state_index' = selected_state_index
        /\ setup' = setup
    BY <1>4 DEF NextInQueue
  <2>2. Len(queue') = n
    BY <1>0, <2>1, CulledFrame
  <2>3. cur \in 0 .. n
    BY <2>1 DEF TurnInv
  <2>4. cur' \in 1 .. n
    BY <1>0, <2>1, <2>3
  <2>5. setup.schedule # "queue" => ids # 0
    BY <2>1 DEF TurnInv
  <2> QED
    BY <1>0, <2>1, <2>2, <2>4, <2>5 DEF TurnInv
<1>5. CASE Skip \/ Loop
  <2>1. /\ pc \in {"chosen", "sync"} /\ Advance /\ pc' = "select" /\ queue' = queue
        /\ machine' = machine /\ selected_state_index' = selected_state_index /\ setup' = setup
    BY <1>5 DEF Skip, Loop, choice
  <2>2. cur \in 1 .. n /\ (setup.schedule # "queue" => ids # 0)
    BY <2>1 DEF TurnInv
  <2>3. cur' \in 0 .. n
    BY <1>0, <2>1, <2>2, Advanced
  <2> QED
    BY <1>0, <2>1, <2>2, <2>3 DEF TurnInv
<1>6. CASE StartFuzz
  <2>1. /\ pc = "chosen" /\ pc' = "fuzz" /\ UNCHANGED <<queue, cur, machine, setup>>
        /\ selected_state_index' = selected_state_index
    BY <1>6 DEF StartFuzz, choice
  <2> QED
    BY <1>0, <2>1 DEF TurnInv
<1>7. ASSUME NEW run \in Mutants, Save(run) \/ Import(run) PROVE TurnInv'
  <2>1. /\ Keep(run) /\ pc' = pc /\ pc \in {"fuzz", "sync"} /\ cur' = cur /\ setup' = setup
        /\ selected_state_index' = selected_state_index
    BY <1>7 DEF Save, Import, Keep, choice
  <2>2. /\ Sound(machine', Len(queue')) /\ Len(queue') = n + 1
        /\ Len(machine'.state_ids) >= ids /\ Len(machine'.state_ids) \in Nat
    BY <2>1, KeptTurn
  <2>3. cur \in 1 .. n /\ (setup.schedule # "queue" => ids # 0)
    BY <2>1 DEF TurnInv
  <2>4. selected_state_index' = 1 \/ selected_state_index' \in 1 .. Len(machine'.state_ids)
    BY <1>0, <2>1, <2>2
  <2>5. cur' \in 1 .. Len(queue') /\ Len(queue') >= 1
    BY <1>0, <2>1, <2>2, <2>3
  <2>6. setup'.schedule # "queue" => Len(machine'.state_ids) # 0
    BY <1>0, <2>1, <2>2, <2>3
  <2> QED
    BY <2>1, <2>2, <2>4, <2>5, <2>6 DEF TurnInv
<1>8. ASSUME NEW run \in Mutants, GiveUp(run) PROVE TurnInv'
  <2>1. /\ pc' = "failed" /\ UNCHANGED <<queue, machine>>
        /\ selected_state_index' = selected_state_index
    BY <1>8 DEF GiveUp, choice
  <2> QED
    BY <1>0, <2>1 DEF TurnInv
<1>9. CASE Abandon
  <2>1. /\ pc = "fuzz" /\ pc' = "sync" /\ cur' = cur /\ setup' = setup
        /\ selected_state_index' = selected_state_index
    BY <1>9 DEF Abandon, choice
  <2>2. cur \in 1 .. n /\ (setup.schedule # "queue" => ids # 0)
    BY <2>1 DEF TurnInv
  <2>3. Len(queue') = n /\ Sound(machine', n) /\ machine'.state_ids = machine.state_ids
    <3>1. CASE queue[cur].cal /\ ~queue[cur].was_fuzzed
      <4>1. /\ queue' = [queue EXCEPT ![cur].was_fuzzed = TRUE]
            /\ machine' = [machine EXCEPT
                    !.rows[get_state_index(machine, target_state_id)][cur] = Fuzzed]
        BY <1>9, <3>1 DEF Abandon
      <4>2. Sound(machine', n) /\ machine'.state_ids = machine.state_ids
        BY <1>0, <4>1, MarkedFuzzed
      <4>3. queue' = [e \in 1 .. n |-> queue'[e]]
        <5>1. DOMAIN queue = 1 .. n
          BY <1>0, ListedMeans DEF Books
        <5> QED
          BY <4>1, <5>1
      <4>4. Len(queue') = n
        BY <1>0, <4>3, ListedOn
      <4> QED
        BY <4>2, <4>4
    <3>2. CASE ~(queue[cur].cal /\ ~queue[cur].was_fuzzed)
      <4>1. queue' = queue /\ machine' = machine
        BY <1>9, <3>2 DEF Abandon
      <4> QED
        BY <1>0, <4>1
    <3> QED
      BY <3>1, <3>2
  <2> QED
    BY <1>0, <2>1, <2>2, <2>3 DEF TurnInv
<1>10. CASE UNCHANGED vars
  BY <1>0, <1>10 DEF vars, choice, TurnInv
<1> QED
  BY <1>1, <1>2, <1>3, <1>4, <1>5, <1>6, <1>7, <1>8, <1>9, <1>10 DEF Next

(***************************************************************************)
(* The table of was_fuzzed_map has a column for every seed of the queue    *)
(* and a row for every state, the initial one first, whatever the replies  *)
(* reveal and whichever state and seed are selected: no cell is looked up  *)
(* outside it (expand_was_fuzzed_map, update_state_aware_variables).       *)
(***************************************************************************)
THEOREM EveryCellExists == Spec => []TableHasRoom
<1>1. ASSUME TraceInv, TurnInv PROVE TableHasRoom
  <2>1. Table(machine, Len(queue))
    BY <1>1 DEF TurnInv, Sound
  <2>2. Listed(machine.state_ids)
    BY <2>1 DEF Table
  <2>3. machine.state_ids = << >> <=> Len(machine.state_ids) = 0
    BY <2>2, EmptySeq DEF Listed
  <2>4. DOMAIN machine.rows = 1 .. Len(machine.rows)
    BY <2>1 DEF Table
  <2> QED
    BY <2>1, <2>3, <2>4 DEF Table, TableHasRoom
<1> QED
  BY <1>1, InitialBooks, BooksInductive, InitialTurn, TurnInductive, PTL DEF Spec

-----------------------------------------------------------------------------
(***************************************************************************)
(* The seeds that were never fuzzed are counted.                           *)
(***************************************************************************)
LEMMA UnfuzzedFinite ==
    ASSUME NEW entries, Len(entries) \in Nat
    PROVE  IsFiniteSet(Unfuzzed(entries)) /\ Cardinality(Unfuzzed(entries)) \in Nat
  <1>1. IsFiniteSet(1 .. Len(entries))
    BY FS_Interval
  <1>2. Unfuzzed(entries) \in SUBSET (1 .. Len(entries))
    BY DEF Unfuzzed
  <1>3. IsFiniteSet(Unfuzzed(entries))
    BY <1>1, <1>2, FS_Subset
  <1> QED
    BY <1>3, FS_CardinalityType

LEMMA InitialCount == Init => CountInv
  <1> SUFFICES ASSUME Init PROVE CountInv
    OBVIOUS
  <1>1. PICK k \in 1 .. MaxInitial :
           queue = [q \in 1 .. k |-> Entry(0, TRUE)] /\ pending_not_fuzzed = k
    BY DEF Init
  <1>2. k \in Nat
    BY CorpusAssumption
  <1>3. Len(queue) = k
    <2>1. queue = [q \in 1 .. k |-> queue[q]]
      BY <1>1
    <2> QED
      BY <1>2, <2>1, ListedOn
  <1>4. ~Entry(0, TRUE).was_fuzzed
    BY DEF Entry
  <1>5. Unfuzzed(queue) = 1 .. k
    BY <1>1, <1>3, <1>4 DEF Unfuzzed
  <1>6. Cardinality(1 .. k) = k
    BY <1>2, FS_Interval
  <1> QED
    BY <1>1, <1>5, <1>6 DEF CountInv

LEMMA CountInductive == TraceInv /\ TurnInv /\ CountInv /\ [Next]_vars => CountInv'
<1> SUFFICES ASSUME TraceInv, TurnInv, CountInv, [Next]_vars PROVE CountInv'
  OBVIOUS
<1> DEFINE n == Len(queue)
<1>0. Books(queue, top_rated) /\ n \in Nat /\ DOMAIN queue = 1 .. n
  BY ListedMeans DEF TraceInv, Books
<1>1. ASSUME Len(queue') = n, \A q \in 1 .. n : queue'[q].was_fuzzed = queue[q].was_fuzzed,
             pending_not_fuzzed' = pending_not_fuzzed
      PROVE  CountInv'
  <2>1. Unfuzzed(queue') = Unfuzzed(queue)
    BY <1>1 DEF Unfuzzed
  <2> QED
    BY <1>1, <2>1 DEF CountInv
<1>2. ASSUME NEW run \in Seeds, DryRun(run) PROVE CountInv'
  <2>1. pc = "dry_run" /\ cur <= n /\ pending_not_fuzzed' = pending_not_fuzzed
    BY <1>2 DEF DryRun
  <2>2. cur \in 1 .. n
    BY <1>0, <2>1 DEF TurnInv
  <2>3. CASE LacksInitialState(machine, run)
    BY <1>1, <1>2, <2>1, <2>3 DEF DryRun
  <2>4. CASE ~LacksInitialState(machine, run)
    <3>1. /\ Len(queue') = n /\ Ran(cur, run)
          /\ queue'[cur].was_fuzzed = queue[cur].was_fuzzed
      BY <1>0, <1>2, <2>2, <2>4, DryRan
    <3>2. \A q \in 1 .. n : queue'[q].was_fuzzed = queue[q].was_fuzzed
      BY <3>1 DEF Ran, Same
    <3> QED
      BY <1>1, <2>1, <3>1, <3>2
  <2> QED
    BY <2>3, <2>4
<1>3. CASE Start \/ SelectSeed \/ NextInQueue
  <2>1. pending_not_fuzzed' = pending_not_fuzzed /\ \E target : cull_queue(target)
    BY <1>3 DEF Start, SelectSeed, NextInQueue
  <2>2. Len(queue') = n /\ \A q \in 1 .. n : Same(queue'[q], queue[q])
    BY <1>0, <2>1, CulledFrame
  <2> QED
    BY <1>1, <2>1, <2>2 DEF Same
<1>4. CASE Skip \/ StartFuzz \/ Loop \/ UNCHANGED vars
  <2>1. queue' = queue /\ pending_not_fuzzed' = pending_not_fuzzed
    BY <1>4 DEF Skip, StartFuzz, Loop, vars
  <2> QED
    BY <1>1, <2>1
<1>5. ASSUME NEW run \in Mutants, GiveUp(run) PROVE CountInv'
  <2>1. queue' = queue /\ pending_not_fuzzed' = pending_not_fuzzed
    BY <1>5 DEF GiveUp
  <2> QED
    BY <1>1, <2>1
<1>6. ASSUME NEW run \in Mutants, Save(run) \/ Import(run) PROVE CountInv'
  <2>1. Keep(run) /\ pending_not_fuzzed' = pending_not_fuzzed + 1
    BY <1>6 DEF Save, Import, Keep
  <2>2. Len(queue') = n + 1 /\ Ran(n + 1, run) /\ ~queue'[n + 1].was_fuzzed
    BY <1>0, <2>1, KeptRan
  <2>3. \A q \in 1 .. n : queue'[q].was_fuzzed = queue[q].was_fuzzed
    BY <1>0, <2>2 DEF Ran, Same
  <2>4. Unfuzzed(queue') = Unfuzzed(queue) \cup {n + 1} /\ n + 1 \notin Unfuzzed(queue)
    BY <1>0, <2>2, <2>3 DEF Unfuzzed
  <2>5. IsFiniteSet(Unfuzzed(queue))
    BY <1>0, UnfuzzedFinite
  <2>6. Cardinality(Unfuzzed(queue) \cup {n + 1}) = Cardinality(Unfuzzed(queue)) + 1
    BY <2>4, <2>5, FS_AddElement
  <2> QED
    BY <2>1, <2>4, <2>6 DEF CountInv
<1>7. CASE Abandon
  <2>0. cur \in 1 .. n
    BY <1>7 DEF Abandon, TurnInv
  <2>1. CASE queue[cur].cal /\ ~queue[cur].was_fuzzed
    <3>1. /\ queue' = [queue EXCEPT ![cur].was_fuzzed = TRUE]
          /\ pending_not_fuzzed' = pending_not_fuzzed - 1
      BY <1>7, <2>1 DEF Abandon
    <3>2. queue' = [q \in 1 .. n |->
                       IF q = cur THEN [queue[q] EXCEPT !.was_fuzzed = TRUE] ELSE queue[q]]
      BY <1>0, <3>1
    <3>3. "was_fuzzed" \in DOMAIN queue[cur]
      BY <1>0, <2>0 DEF Books, Account, Fields
    <3>4. queue'[cur].was_fuzzed
      BY <2>0, <3>2, <3>3
    <3>5. \A q \in 1 .. n : q # cur => queue'[q] = queue[q]
      BY <3>2
    <3>6. Len(queue') = n
      <4>1. queue' = [q \in 1 .. n |-> queue'[q]]
        BY <3>2
      <4> QED
        BY <1>0, <4>1, ListedOn
    <3>7. Unfuzzed(queue') = Unfuzzed(queue) \ {cur} /\ cur \in Unfuzzed(queue)
      BY <2>0, <2>1, <3>4, <3>5, <3>6 DEF Unfuzzed
    <3>8. IsFiniteSet(Unfuzzed(queue))
      BY <1>0, UnfuzzedFinite
    <3>9. Cardinality(Unfuzzed(queue) \ {cur}) = Cardinality(Unfuzzed(queue)) - 1
      BY <3>7, <3>8, FS_RemoveElement
    <3> QED
      BY <3>1, <3>7, <3>9 DEF CountInv
  <2>2. CASE ~(queue[cur].cal /\ ~queue[cur].was_fuzzed)
    <3>1. queue' = queue /\ pending_not_fuzzed' = pending_not_fuzzed
      BY <1>7, <2>2 DEF Abandon
    <3> QED
      BY <1>1, <3>1
  <2> QED
    BY <2>1, <2>2
<1> QED
  BY <1>2, <1>3, <1>4, <1>5, <1>6, <1>7 DEF Next

(***************************************************************************)
(* pending_not_fuzzed is exactly the number of seeds that no turn has      *)
(* marked, however turns are skipped, seeds kept and imported, and entries *)
(* abandoned before they calibrate (add_to_queue, abandon_entry).          *)
(***************************************************************************)
THEOREM NoSeedCountedTwice == Spec => []PendingNotFuzzedExact
<1>1. ASSUME TraceInv, CountInv PROVE PendingNotFuzzedExact
  <2>1. DOMAIN queue = 1 .. Len(queue)
    BY <1>1, ListedMeans DEF TraceInv, Books
  <2> QED
    BY <1>1, <2>1 DEF CountInv, Unfuzzed, PendingNotFuzzedExact
<1> QED
  BY <1>1, InitialBooks, BooksInductive, InitialTurn, TurnInductive, InitialCount,
     CountInductive, PTL DEF Spec

-----------------------------------------------------------------------------
(***************************************************************************)
(* The run of regions alike is not empty, and ends in the seed.            *)
(***************************************************************************)
LEMMA AlikeIs ==
    ASSUME NEW regions, Listed(regions), NEW i \in 1 .. Len(regions)
    PROVE  Alike(regions, i) \in 1 .. Len(regions) - i + 1
  <1> DEFINE n == Len(regions)
             P(k) == /\ \A j \in i .. i + k - 1 : Len(regions[j]) = Len(regions[i])
                     /\ i + k \in DOMAIN regions => Len(regions[i + k]) # Len(regions[i])
             a == Alike(regions, i)
  <1>1. n \in Nat /\ DOMAIN regions = 1 .. n
    BY ListedMeans
  <1>2. a = CHOOSE k \in 0 .. n - i + 1 : P(k)
    BY DEF Alike
  <1>3. \E k \in 0 .. n - i + 1 : P(k)
    <2> SUFFICES ASSUME \A k \in 0 .. n - i + 1 : ~P(k) PROVE FALSE
      OBVIOUS
    <2> DEFINE T == {k \in Nat : k <= n - i + 1 =>
                        \A j \in i .. i + k - 1 : Len(regions[j]) = Len(regions[i])}
    <2>1. 0 \in T
      BY <1>1
    <2>2. ASSUME NEW k \in Nat, k \in T PROVE k + 1 \in T
      <3> SUFFICES ASSUME k + 1 <= n - i + 1, NEW j \in i .. i + (k + 1) - 1
                   PROVE  Len(regions[j]) = Len(regions[i])
        OBVIOUS
      <3>1. k \in 0 .. n - i + 1 /\ \A l \in i .. i + k - 1 : Len(regions[l]) = Len(regions[i])
        BY <1>1, <2>2
      <3>2. Len(regions[i + k]) = Len(regions[i])
        BY <1>1, <3>1
      <3>3. j \in i .. i + k - 1 \/ j = i + k
        BY <1>1
      <3> QED
        BY <3>1, <3>2, <3>3
    <2>3. n - i + 1 \in Nat
      BY <1>1
    <2>4. n - i + 1 \in T
      <3> HIDE DEF T
      <3> QED
        BY <2>1, <2>2, <2>3, SetInduction
    <2>5. i + (n - i + 1) \notin DOMAIN regions
      BY <1>1
    <2>6. P(n - i + 1)
      BY <2>3, <2>4, <2>5
    <2> QED
      BY <2>3, <2>6
  <1> HIDE DEF P, a
  <1>4. a \in 0 .. n - i + 1 /\ P(a)
    BY <1>2, <1>3
  <1>5. ~P(0)
    BY <1>1 DEF P
  <1>6. a # 0
    BY <1>4, <1>5
  <1> QED
    BY <1>1, <1>4, <1>6 DEF a

(***************************************************************************)
(* What M2Of picks follows the first region that ends in the target.       *)
(***************************************************************************)
LEMMA Picked ==
    ASSUME NEW regions, Listed(regions), Len(regions) >= 1, NEW target,
           NEW m \in M2Of(regions, target)
    PROVE  Steered(regions, m[1], m[2], target, target # 0)
  <1> DEFINE n == Len(regions)
  <1>1. n \in Nat /\ n >= 1
    BY ListedMeans
  <1>2. CASE target = 0
    <2>1. m = <<1, Alike(regions, 1)>>
      BY <1>2 DEF M2Of
    <2>2. 1 \in 1 .. n
      BY <1>1
    <2>3. Alike(regions, 1) \in 1 .. n - 1 + 1
      BY <2>2, AlikeIs
    <2> DEFINE k == Alike(regions, 1)
    <2> HIDE DEF k
    <2>4. m[1] = 1 /\ m[2] = k /\ k \in 1 .. n - 1 + 1
      BY <2>1, <2>3 DEF k
    <2> QED
      BY <1>1, <1>2, <2>4 DEF Steered
  <1>3. CASE target # 0
    <2>1. PICK i \in 1 .. n - 1 :
             /\ m = <<i + 1, Alike(regions, i + 1)>>
             /\ \A k \in 1 .. i : regions[k] # << >>
             /\ Last(regions[i]) = target
             /\ \A k \in 1 .. i - 1 : Last(regions[k]) # target
      BY <1>3 DEF M2Of
    <2>2. i + 1 \in 1 .. n /\ i \in 1 .. i /\ (i + 1) - 1 = i
      BY <1>1
    <2>6. \A k \in 1 .. i : k = i \/ k \in 1 .. i - 1
      BY <1>1
    <2>7. EndingIn(regions, i, target) = {i}
      BY <2>1, <2>2, <2>6, Zenon DEF EndingIn
    <2>3. Alike(regions, i + 1) \in 1 .. n - (i + 1) + 1
      BY <2>2, AlikeIs
    <2> DEFINE k == Alike(regions, i + 1)
    <2> HIDE DEF k
    <2>4. m[1] = i + 1 /\ m[2] = k /\ k \in 1 .. n - (i + 1) + 1
      BY <2>1, <2>3 DEF k
    <2>5. (i + 1) + k - 1 \in 1 .. n /\ k >= 1
      BY <1>1, <2>2, <2>4
    <2> QED
      BY <2>2, <2>4, <2>5, <2>7 DEF Steered
  <1> QED
    BY <1>2, <1>3

LEMMA InitialSteer == Init => SteerInv
  <1> SUFFICES ASSUME Init PROVE SteerInv
    OBVIOUS
  <1>1. PICK k \in 1 .. MaxInitial : queue = [q \in 1 .. k |-> Entry(0, TRUE)]
    BY DEF Init
  <1>2. k \in Nat
    BY CorpusAssumption
  <1>3. Len(queue) = k
    <2>1. queue = [q \in 1 .. k |-> queue[q]]
      BY <1>1
    <2> QED
      BY <1>2, <2>1, ListedOn
  <1>4. pc = "dry_run" /\ cur = 1
    BY DEF Init
  <1>5. \A q \in 1 .. k : cur <= q
    BY <1>2, <1>4
  <1> QED
    BY <1>3, <1>4, <1>5 DEF SteerInv

LEMMA SteerInductive == TraceInv /\ TurnInv /\ SteerInv /\ [Next]_vars => SteerInv'
<1> SUFFICES ASSUME TraceInv, TurnInv, SteerInv, [Next]_vars PROVE SteerInv'
  OBVIOUS
<1> DEFINE n == Len(queue)
<1>0. Books(queue, top_rated) /\ n \in Nat /\ DOMAIN queue = 1 .. n
  BY ListedMeans DEF TraceInv, Books
\* Outside of the dry run every entry has its messages.
<1>1. ASSUME pc \notin {"dry_run", "failed"} PROVE \A q \in 1 .. n : Messages(queue[q])
  BY <1>1 DEF SteerInv
<1>2. ASSUME pc \notin {"dry_run", "failed"}, pc' # "fuzz", Len(queue') = n,
             \A q \in 1 .. n : queue'[q].regions = queue[q].regions
      PROVE  SteerInv'
  <2>1. \A q \in 1 .. n : Messages(queue'[q])
    BY <1>1, <1>2 DEF Messages
  <2> QED
    BY <1>2, <2>1 DEF SteerInv
<1>3. ASSUME NEW run \in Seeds, DryRun(run) PROVE SteerInv'
  <2>1. pc = "dry_run" /\ cur <= n
    BY <1>3 DEF DryRun
  <2>2. cur \in 1 .. n
    BY <1>0, <2>1 DEF TurnInv
  <2>3. CASE LacksInitialState(machine, run)
    <3>1. pc' = "failed"
      BY <1>3, <2>3 DEF DryRun
    <3> QED
      BY <3>1 DEF SteerInv
  <2>4. CASE ~LacksInitialState(machine, run)
    <3>1. pc' = "dry_run" /\ cur' = cur + 1
      BY <1>3, <2>1, <2>4 DEF DryRun
    <3>2. Len(queue') = n /\ Ran(cur, run)
      BY <1>0, <1>3, <2>2, <2>4, DryRan
    <3>3. Messages(queue'[cur])
      BY <3>2, Annotated DEF Ran, Messages
    <3>4. ASSUME NEW q \in 1 .. n, ~(cur' <= q) PROVE Messages(queue'[q])
      <4>1. CASE q = cur
        BY <3>3, <4>1
      <4>2. CASE q # cur
        <5>1. ~(cur <= q)
          BY <1>0, <2>2, <3>1, <3>4, <4>2
        <5>2. Messages(queue[q])
          BY <2>1, <5>1 DEF SteerInv
        <5>3. queue'[q].regions = queue[q].regions
          BY <3>2, <4>2 DEF Ran, Same
        <5> QED
          BY <5>2, <5>3 DEF Messages
      <4> QED
        BY <4>1, <4>2
    <3> HIDE DEF n
    <3> QED
      BY <3>1, <3>2, <3>4 DEF SteerInv
  <2> QED
    BY <2>3, <2>4
<1>4. CASE Start
  <2>1. /\ pc = "dry_run" /\ cur > n /\ cull_queue(0) /\ pc' \in {"failed", "select"}
    BY <1>4 DEF Start
  <2>2. Len(queue') = n /\ \A q \in 1 .. n : Same(queue'[q], queue[q])
    BY <1>0, <2>1, CulledFrame
  <2>3. ASSUME NEW q \in 1 .. n PROVE Messages(queue'[q])
    <3>1. ~(cur <= q)
      BY <1>0, <2>1 DEF TurnInv
    <3>2. Messages(queue[q])
      BY <2>1, <3>1 DEF SteerInv
    <3> QED
      BY <2>2, <3>2 DEF Same, Messages
  <2> HIDE DEF n
  <2> QED
    BY <2>1, <2>2, <2>3 DEF SteerInv
<1>5. CASE SelectSeed \/ NextInQueue
  <2>1. pc = "select" /\ (\E target : cull_queue(target)) /\ pc' \in {"select", "chosen"}
    <3>1. CASE NextInQueue
      BY <3>1 DEF NextInQueue
    <3>2. CASE SelectSeed
      <4>1. pc = "select" /\ cull_queue(target_state_id')
        BY <3>2 DEF SelectSeed
      <4>2. pc' = pc \/ pc' = "chosen"
        BY <3>2, Zenon DEF SelectSeed
      <4> QED
        BY <4>1, <4>2
    <3> QED
      BY <1>5, <3>1, <3>2
  <2>2. Len(queue') = n /\ \A q \in 1 .. n : Same(queue'[q], queue[q])
    BY <1>0, <2>1, CulledFrame
  <2> QED
    BY <1>2, <2>1, <2>2 DEF Same
<1>6. CASE Skip \/ Loop
  <2>1. pc \in {"chosen", "sync"} /\ queue' = queue /\ pc' = "select"
    BY <1>6 DEF Skip, Loop
  <2> QED
    BY <1>2, <2>1
<1>7. CASE StartFuzz
  <2> DEFINE regions == queue[cur].regions
  <2>1. /\ pc = "chosen" /\ pc' = "fuzz" /\ UNCHANGED <<queue, cur>>
        /\ target_state_id' = target_state_id /\ code_aware_schedule' = code_aware_schedule
    BY <1>7 DEF StartFuzz, choice
  <2>2. cur \in 1 .. n
    BY <2>1 DEF TurnInv
  <2>3. Listed(regions) /\ Len(regions) >= 1
    BY <1>1, <2>1, <2>2 DEF Messages
  <2>4. Len(regions) \in Nat /\ DOMAIN regions = 1 .. Len(regions)
    BY <2>3, ListedMeans
  <2>5. Steered(regions, m2'[1], m2'[2], target_state_id,
                ~code_aware_schedule /\ target_state_id # 0)
    <3>1. CASE code_aware_schedule
      <4>1. PICK i \in DOMAIN regions : \E k \in 1 .. Len(regions) - i + 1 : m2' = <<i, k>>
        BY <1>7, <3>1 DEF StartFuzz
      <4>0. PICK k \in 1 .. Len(regions) - i + 1 : m2' = <<i, k>>
        BY <4>1
      <4>2. m2'[1] = i /\ m2'[2] = k
        BY <4>0
      <4> HIDE DEF regions
      <4> QED
        BY <2>4, <3>1, <4>2 DEF Steered
    <3>2. CASE ~code_aware_schedule
      <4>1. m2' \in M2Of(regions, target_state_id)
        BY <1>7, <3>2 DEF StartFuzz
      <4>2. Steered(regions, m2'[1], m2'[2], target_state_id, target_state_id # 0)
        BY <2>3, <4>1, Picked
      <4> HIDE DEF regions
      <4> QED
        BY <4>2 DEF Steered
    <3> QED
      BY <3>1, <3>2
  <2>6. \A q \in 1 .. n : Messages(queue[q])
    BY <1>1, <2>1
  <2> QED
    BY <2>1, <2>5, <2>6 DEF SteerInv
<1>8. ASSUME NEW run \in Mutants, Save(run) \/ Import(run) PROVE SteerInv'
  <2>1. /\ Keep(run) /\ pc' = pc /\ pc \in {"fuzz", "sync"} /\ cur' = cur
        /\ target_state_id' = target_state_id /\ code_aware_schedule' = code_aware_schedule
        /\ m2' = m2
    BY <1>8 DEF Save, Import, Keep, choice
  <2>2. Len(queue') = n + 1 /\ Ran(n + 1, run)
    BY <1>0, <2>1, KeptRan
  <2>3. \A q \in 1 .. n : Messages(queue'[q]) /\ queue'[q].regions = queue[q].regions
    <3>1. \A q \in 1 .. n : queue'[q].regions = queue[q].regions
      BY <1>0, <2>2 DEF Ran, Same
    <3> QED
      BY <1>1, <2>1, <3>1 DEF Messages
  <2>4. Messages(queue'[n + 1])
    BY <2>2, Annotated DEF Ran, Messages
  <2>5. \A q \in 1 .. Len(queue') : Messages(queue'[q])
    BY <1>0, <2>2, <2>3, <2>4
  <2>6. cur \in 1 .. n
    BY <2>1 DEF TurnInv
  <2>7. pc = "fuzz" => Steered(queue[cur].regions, m2[1], m2[2], target_state_id,
                               ~code_aware_schedule /\ target_state_id # 0)
    BY DEF SteerInv
  <2>8. queue'[cur].regions = queue[cur].regions
    BY <2>3, <2>6
  <2> QED
    BY <2>1, <2>5, <2>7, <2>8 DEF SteerInv
<1>9. ASSUME NEW run \in Mutants, GiveUp(run) PROVE SteerInv'
  BY <1>9 DEF GiveUp, SteerInv
<1>10. CASE Abandon
  <2>1. pc = "fuzz" /\ pc' = "sync"
    BY <1>10 DEF Abandon
  <2>2. Len(queue') = n /\ \A q \in 1 .. n : queue'[q].regions = queue[q].regions
    <3>1. CASE queue' = queue
      BY <3>1
    <3>2. CASE queue' = [queue EXCEPT ![cur].was_fuzzed = TRUE]
      <4>1. queue' = [q \in 1 .. n |->
                         IF q = cur THEN [queue[q] EXCEPT !.was_fuzzed = TRUE] ELSE queue[q]]
        BY <1>0, <3>2
      <4>2. \A q \in 1 .. n : "regions" \in DOMAIN queue[q]
        BY <1>0 DEF Books, Account, Fields
      <4>3. \A q \in 1 .. n : queue'[q].regions = queue[q].regions
        BY <4>1, <4>2
      <4>4. queue' = [q \in 1 .. n |-> queue'[q]]
        BY <4>1
      <4> QED
        BY <1>0, <4>3, <4>4, ListedOn
    <3> QED
      BY <1>10, <3>1, <3>2 DEF Abandon
  <2> QED
    BY <1>2, <2>1, <2>2
<1>11. CASE UNCHANGED vars
  BY <1>11 DEF vars, choice, SteerInv
<1> QED
  BY <1>3, <1>4, <1>5, <1>6, <1>7, <1>8, <1>9, <1>10, <1>11 DEF Next

(***************************************************************************)
(* The messages to mutate come right after the first one that takes the    *)
(* server to the target state, and are messages of the seed as long as it  *)
(* is fuzzed, whatever is kept meanwhile: fuzz_one never starts in the     *)
(* wrong state, in a later visit to it or past the last region             *)
(* (M2_start_region_ID).                                                   *)
(***************************************************************************)
THEOREM MutationFollowsTarget == Spec => []MutatesAfterTarget
<1>1. ASSUME TurnInv, TraceInv, SteerInv PROVE MutatesAfterTarget
  <2> SUFFICES ASSUME pc = "fuzz"
               PROVE  LET regions == queue[cur].regions
                      IN  /\ m2[1] \in DOMAIN regions /\ m2[2] >= 1
                          /\ m2[1] + m2[2] - 1 \in DOMAIN regions
                          /\ (~code_aware_schedule /\ target_state_id # 0) =>
                                EndingIn(regions, m2[1] - 1, target_state_id) = {m2[1] - 1}
    BY DEF MutatesAfterTarget
  <2> DEFINE regions == queue[cur].regions
  <2>1. cur \in 1 .. Len(queue)
    BY <1>1 DEF TurnInv
  <2>2. Listed(regions)
    BY <1>1, <2>1 DEF SteerInv, Messages
  <2>3. DOMAIN regions = 1 .. Len(regions)
    BY <2>2, ListedMeans
  <2>4. Steered(regions, m2[1], m2[2], target_state_id,
                ~code_aware_schedule /\ target_state_id # 0)
    BY <1>1 DEF SteerInv
  <2> HIDE DEF regions
  <2>5. /\ m2[1] \in DOMAIN regions /\ m2[2] >= 1
        /\ m2[1] + m2[2] - 1 \in DOMAIN regions
        /\ (~code_aware_schedule /\ target_state_id # 0) =>
              EndingIn(regions, m2[1] - 1, target_state_id) = {m2[1] - 1}
    BY <2>3, <2>4, Zenon DEF Steered
  <2> QED
    BY <2>5 DEF regions
<1> QED
  BY <1>1, InitialBooks, BooksInductive, InitialTurn, TurnInductive, InitialSteer,
     SteerInductive, PTL DEF Spec

-----------------------------------------------------------------------------
(***************************************************************************)
(* The walk of cull_queue over the bytes.                                  *)
(***************************************************************************)
Uncovered == [left |-> 1 .. Bits, won |-> {}]

Contending(f, top, entries, k) ==
    f = [b \in 0 .. k |-> IF b = 0 THEN Uncovered ELSE Contend(top, entries, f[b - 1], b)]

LEMMA ContendingExists ==
    ASSUME NEW top, NEW entries, NEW k \in Nat
    PROVE  \E f : Contending(f, top, entries, k)
  <1> DEFINE base == Uncovered
             T == {n \in Nat : \E f : Contending(f, top, entries, n)}
  <1>1. 0 \in T
    <2> DEFINE f == [i \in 0 .. 0 |-> base]
    <2>1. Contending(f, top, entries, 0)
      BY DEF Contending
    <2> QED
      BY <2>1
  <1>2. ASSUME NEW n \in Nat, n \in T PROVE n + 1 \in T
    <2>1. PICK f : Contending(f, top, entries, n)
      BY <1>2
    <2> DEFINE next == Contend(top, entries, f[n], n + 1)
               g == [i \in 0 .. n + 1 |-> IF i = n + 1 THEN next ELSE f[i]]
    <2>2. ASSUME NEW i \in 0 .. n + 1
          PROVE  g[i] = IF i = 0 THEN base ELSE Contend(top, entries, g[i - 1], i)
      <3>1. CASE i = n + 1
        <4>1. g[i] = next /\ g[i - 1] = f[n]
          BY <3>1
        <4> HIDE DEF g
        <4> QED
          BY <3>1, <4>1
      <3>2. CASE i \in 1 .. n
        <4>1. g[i] = f[i] /\ g[i - 1] = f[i - 1]
          BY <3>2
        <4>2. f[i] = Contend(top, entries, f[i - 1], i)
          BY <2>1, <3>2 DEF Contending
        <4> HIDE DEF g
        <4> QED
          BY <3>2, <4>1, <4>2
      <3>3. CASE i = 0
        <4>1. f[0] = base
          BY <2>1 DEF Contending
        <4> QED
          BY <3>3, <4>1
      <3> QED
        BY <3>1, <3>2, <3>3
    <2>3. g = [i \in 0 .. n + 1 |-> g[i]]
      OBVIOUS
    <2> HIDE DEF g
    <2>4. Contending(g, top, entries, n + 1)
      BY <2>2, <2>3 DEF Contending
    <2> QED
      BY <2>4
  <1> HIDE DEF T
  <1>3. k \in T
    BY <1>1, <1>2, SetInduction
  <1> QED
    BY <1>3 DEF T

\* Every byte that has been left is a winner's, and every held byte up to b was left.
Settling(c, top, entries, b) ==
    /\ \A w \in c.won : w # 0 /\ \E x \in 1 .. Bits : w = top[x]
    /\ \A x \in 1 .. Bits : x \notin c.left => \E w \in c.won : x \in entries[w].bits
    /\ \A x \in 1 .. b : top[x] # 0 => x \notin c.left

\* A holder sets the bytes it holds.
Holders(top, entries) == \A b \in 1 .. Bits : top[b] # 0 => b \in entries[top[b]].bits

LEMMA ContestStep ==
    ASSUME NEW top, NEW entries, Holders(top, entries), NEW b \in Nat, b + 1 \in 1 .. Bits,
           NEW c, Settling(c, top, entries, b)
    PROVE  Settling(Contend(top, entries, c, b + 1), top, entries, b + 1)
  <1> DEFINE w == top[b + 1]
             d == Contend(top, entries, c, b + 1)
  <1>1. CASE w # 0 /\ b + 1 \in c.left
    <2>1. d = [left |-> c.left \ entries[w].bits, won |-> c.won \cup {w}]
      BY <1>1 DEF Contend
    <2>2. d.left = c.left \ entries[w].bits /\ d.won = c.won \cup {w}
      BY <2>1
    <2>3. b + 1 \in entries[w].bits
      BY <1>1 DEF Holders
    <2> HIDE DEF d
    <2>4. \A v \in d.won : v # 0 /\ \E x \in 1 .. Bits : v = top[x]
      BY <1>1, <2>2 DEF Settling
    <2> HIDE DEF w
    <2>5. \A x \in 1 .. Bits : x \notin d.left => \E v \in d.won : x \in entries[v].bits
      BY <2>2 DEF Settling
    <2>6. ASSUME NEW x \in 1 .. b + 1, top[x] # 0 PROVE x \notin d.left
      <3>1. CASE x = b + 1
        BY <2>2, <2>3, <3>1
      <3>2. CASE x # b + 1
        <4>1. x \in 1 .. b
          BY <3>2
        <4> QED
          BY <2>2, <2>6, <4>1 DEF Settling
      <3> QED
        BY <3>1, <3>2
    <2> QED
      BY <2>4, <2>5, <2>6 DEF Settling, d
  <1>2. CASE ~(w # 0 /\ b + 1 \in c.left)
    <2>1. d = c
      BY <1>2 DEF Contend
    <2> HIDE DEF d
    <2>2. ASSUME NEW x \in 1 .. b + 1, top[x] # 0 PROVE x \notin c.left
      <3>1. CASE x = b + 1
        BY <1>2, <2>2, <3>1
      <3>2. CASE x # b + 1
        <4>1. x \in 1 .. b
          BY <3>2
        <4> QED
          BY <2>2, <4>1 DEF Settling
      <3> QED
        BY <3>1, <3>2
    <2>3. Settling(c, top, entries, b + 1)
      BY <2>2 DEF Settling
    <2> QED
      BY <2>1, <2>3 DEF d
  <1> QED
    BY <1>1, <1>2

LEMMA WinnersCover ==
    ASSUME NEW top, NEW entries, Holders(top, entries)
    PROVE  /\ \A w \in Winners(top, entries) : w # 0 /\ \E x \in 1 .. Bits : w = top[x]
           /\ \A b \in 1 .. Bits : top[b] # 0 =>
                 \E w \in Winners(top, entries) : b \in entries[w].bits
  <1> DEFINE base == Uncovered
             after == CHOOSE f : f = [b \in 0 .. Bits |->
                        IF b = 0 THEN base ELSE Contend(top, entries, f[b - 1], b)]
             T == {b \in Nat : b \in 1 .. Bits => Settling(after[b], top, entries, b)}
  <1>1. Bits \in Nat /\ Bits >= 1
    BY CorpusAssumption
  <1>2. Winners(top, entries) = after[Bits].won
    BY DEF Winners, Uncovered
  <1>3. Contending(after, top, entries, Bits)
    <2>1. \E f : Contending(f, top, entries, Bits)
      BY <1>1, ContendingExists
    <2> QED
      BY <2>1, Zenon DEF Contending
  <1> HIDE DEF after
  <1>4. after[0] = base /\ \A b \in 1 .. Bits : after[b] = Contend(top, entries, after[b - 1], b)
    BY <1>1, <1>3 DEF Contending
  <1>5. Settling(after[0], top, entries, 0)
    <2>1. base.left = 1 .. Bits /\ base.won = {}
      BY DEF Uncovered
    <2> HIDE DEF base
    <2> QED
      BY <1>4, <2>1 DEF Settling
  <1>6. 1 \in T
    <2>1. after[1] = Contend(top, entries, after[0], 0 + 1)
      BY <1>1, <1>4
    <2>2. Settling(Contend(top, entries, after[0], 0 + 1), top, entries, 0 + 1)
      BY <1>1, <1>5, ContestStep
    <2> QED
      BY <2>1, <2>2
  <1>7. ASSUME NEW b \in 1 .. Bits - 1, b \in T PROVE b + 1 \in T
    <2>1. b \in Nat /\ b + 1 \in 1 .. Bits /\ b \in 1 .. Bits /\ (b + 1) - 1 = b
      BY <1>1
    <2>2. after[b + 1] = Contend(top, entries, after[b], b + 1)
      BY <1>4, <2>1
    <2>3. Settling(after[b], top, entries, b)
      BY <1>7, <2>1
    <2>4. Settling(Contend(top, entries, after[b], b + 1), top, entries, b + 1)
      BY <2>1, <2>3, ContestStep
    <2> QED
      BY <2>1, <2>2, <2>4
  <1>8. 1 .. Bits \subseteq T
    <2> HIDE DEF T
    <2> QED
      BY <1>1, <1>6, <1>7, UpToInduction
  <1>9. Settling(after[Bits], top, entries, Bits)
    BY <1>1, <1>8
  <1> QED
    BY <1>2, <1>9 DEF Settling

(***************************************************************************)
(* Who is favored after cull_queue.                                        *)
(***************************************************************************)
LEMMA CulledFavors ==
    ASSUME Books(queue, top_rated), Holders(top_rated, queue), score_changed,
           NEW target, cull_queue(target)
    PROVE  \A b \in 1 .. Bits : top_rated[b] # 0 => Covered(queue', b)
  <1> DEFINE won == Winners(top_rated, queue)
  <1>1. DOMAIN queue = 1 .. Len(queue) /\ Len(queue) \in Nat
    BY ListedMeans DEF Books
  <1>2. queue' = [q \in DOMAIN queue |->
                    [queue[q] EXCEPT !.favored = (@ /\ queue[q].initial) \/ q \in won]]
    BY Zenon DEF cull_queue
  <1>3. /\ \A w \in won : w # 0 /\ \E x \in 1 .. Bits : w = top_rated[x]
        /\ \A b \in 1 .. Bits : top_rated[b] # 0 => \E w \in won : b \in queue[w].bits
    BY WinnersCover
  <1> HIDE DEF won
  <1>4. Len(queue') = Len(queue) /\ \A q \in 1 .. Len(queue) : Same(queue'[q], queue[q])
    BY CulledFrame
  <1>5. ASSUME NEW w \in won PROVE w \in 1 .. Len(queue) /\ queue'[w].favored
    <2>1. w \in 1 .. Len(queue)
      BY <1>1, <1>3 DEF Books
    <2>2. "favored" \in DOMAIN queue[w]
      BY <2>1 DEF Books, Account, Fields
    <2>3. queue'[w] = [queue[w] EXCEPT !.favored = (@ /\ queue[w].initial) \/ w \in won]
      BY <1>1, <1>2, <2>1
    <2>4. queue'[w].favored = ((queue[w].favored /\ queue[w].initial) \/ w \in won)
      BY <2>2, <2>3
    <2> QED
      BY <2>1, <2>4
  <1>6. ASSUME NEW b \in 1 .. Bits, top_rated[b] # 0 PROVE Covered(queue', b)
    <2>1. PICK w \in won : b \in queue[w].bits
      BY <1>3, <1>6
    <2>2. w \in 1 .. Len(queue') /\ queue'[w].favored /\ b \in queue'[w].bits
      BY <1>4, <1>5, <2>1 DEF Same
    <2> QED
      BY <2>2 DEF Covered
  <1> QED
    BY <1>6

-----------------------------------------------------------------------------
(***************************************************************************)
(* The books of CoverInv that do not depend on where main is.              *)
(***************************************************************************)
Bookkept(entries, top, changed) ==
    /\ Holders(top, entries)
    /\ \A q \in 1 .. Len(entries) : \A b \in entries[q].bits : b \in 1 .. Bits /\ top[b] # 0
    /\ ~changed => \A b \in 1 .. Bits : top[b] # 0 => Covered(entries, b)

LEMMA CoverIs ==
    CoverInv <=> /\ Bookkept(queue, top_rated, score_changed)
                 /\ pc = "dry_run" => \A q \in 1 .. Len(queue) : cur <= q => queue[q].bits = {}
  BY DEF CoverInv, Bookkept, Holders

(***************************************************************************)
(* Nothing but the favored entries changes, or nothing at all.             *)
(***************************************************************************)
LEMMA CulledCover ==
    ASSUME Books(queue, top_rated), Bookkept(queue, top_rated, score_changed),
           NEW target, cull_queue(target)
    PROVE  Bookkept(queue', top_rated', score_changed')
  <1>1. CASE ~score_changed
    <2>1. queue' = queue /\ top_rated' = top_rated /\ score_changed' = score_changed
      BY <1>1 DEF cull_queue
    <2> QED
      BY <2>1
  <1>2. CASE score_changed
    <2>1. /\ Len(queue') = Len(queue) /\ top_rated' = top_rated
          /\ \A q \in 1 .. Len(queue) : Same(queue'[q], queue[q])
      BY CulledFrame
    <2>2. \A b \in 1 .. Bits : top_rated[b] # 0 => top_rated[b] \in 1 .. Len(queue)
      <3>1. top_rated \in [1 .. Bits -> 0 .. Len(queue)] /\ Len(queue) \in Nat
        BY ListedMeans DEF Books
      <3> QED
        BY <3>1
    <2>3. Holders(top_rated, queue')
      BY <2>1, <2>2 DEF Bookkept, Holders, Same
    <2>4. \A b \in 1 .. Bits : top_rated[b] # 0 => Covered(queue', b)
      BY <1>2, CulledFavors DEF Bookkept
    <2>5. \A q \in 1 .. Len(queue') : \A b \in queue'[q].bits : b \in 1 .. Bits /\ top_rated[b] # 0
      BY <2>1 DEF Bookkept, Same
    <2> QED
      BY <2>1, <2>3, <2>4, <2>5 DEF Bookkept
  <1> QED
    BY <1>1, <1>2

(***************************************************************************)
(* An entry without bits was run: it takes bytes, and every byte it sets   *)
(* is held.                                                                *)
(***************************************************************************)
LEMMA RanCover ==
    ASSUME Books(queue, top_rated), Bookkept(queue, top_rated, score_changed),
           NEW q \in 1 .. Len(queue'), q \in 1 .. Len(queue) => queue[q].bits = {},
           \A e \in 1 .. Len(queue') : e = q \/ e \in 1 .. Len(queue),
           \A e \in 1 .. Len(queue) : e \in 1 .. Len(queue'),
           NEW run \in Seeds \cup Mutants, Ran(q, run),
           queue'[q].bits = IF run.calibrates THEN run.bits ELSE {}, q # 0
    PROVE  Bookkept(queue', top_rated', score_changed')
  <1>1. PICK won \in SUBSET (1 .. Bits) :
           /\ Won(won, run)
           /\ top_rated' = Taken(top_rated, won, q)
           /\ ~score_changed' => ~score_changed /\ won = {}
    BY DEF Ran
  <1>2. \A e \in 1 .. Len(queue) :
           e # q => Same(queue'[e], queue[e]) /\ queue'[e].favored = queue[e].favored
    BY DEF Ran
  <1>3. /\ top_rated \in [1 .. Bits -> 0 .. Len(queue)] /\ Len(queue) \in Nat
        /\ \A b \in 1 .. Bits : top_rated[b] # 0 => top_rated[b] \in 1 .. Len(queue)
    <2>1. top_rated \in [1 .. Bits -> 0 .. Len(queue)] /\ Len(queue) \in Nat
      BY ListedMeans DEF Books
    <2> QED
      BY <2>1
  <1>4. \A b \in 1 .. Bits : top_rated'[b] = IF b \in won THEN q ELSE top_rated[b]
    BY <1>1 DEF Taken
  <1>5. ASSUME NEW b \in 1 .. Bits, top_rated[b] # 0
        PROVE  LET e == top_rated[b]
               IN  e # q /\ e \in 1 .. Len(queue) /\ b \in queue[e].bits /\ b \in queue'[e].bits
    <2> DEFINE e == top_rated[b]
    <2>1. e \in 1 .. Len(queue) /\ b \in queue[e].bits
      BY <1>3, <1>5 DEF Bookkept, Holders
    <2>2. e # q
      BY <2>1
    <2> QED
      BY <1>2, <2>1, <2>2 DEF Same
  <1>6. ASSUME NEW b \in 1 .. Bits, top_rated'[b] # 0 PROVE b \in queue'[top_rated'[b]].bits
    <2>1. CASE b \in won
      <3>1. run.calibrates /\ b \in run.bits
        BY <1>1, <2>1 DEF Won
      <3> QED
        BY <1>4, <2>1, <3>1
    <2>2. CASE b \notin won
      BY <1>4, <1>5, <1>6, <2>2
    <2> QED
      BY <2>1, <2>2
  <1>7. ASSUME NEW e \in 1 .. Len(queue'), NEW b \in queue'[e].bits
        PROVE  b \in 1 .. Bits /\ top_rated'[b] # 0
    <2>1. CASE e = q
      <3>1. run.calibrates /\ b \in run.bits
        BY <1>7, <2>1
      <3>2. b \in 1 .. Bits
        BY <3>1, CorpusAssumption
      <3>3. b \in won \/ top_rated[b] # 0
        BY <1>1, <3>1 DEF Won
      <3> QED
        BY <1>4, <3>2, <3>3
    <2>2. CASE e # q
      <3>1. e \in 1 .. Len(queue) /\ b \in queue[e].bits
        BY <1>2, <1>7, <2>2 DEF Same
      <3>2. b \in 1 .. Bits /\ top_rated[b] # 0
        BY <3>1 DEF Bookkept
      <3> QED
        BY <1>4, <3>2
    <2> QED
      BY <2>1, <2>2
  <1>8. ASSUME ~score_changed', NEW b \in 1 .. Bits, top_rated'[b] # 0 PROVE Covered(queue', b)
    <2>1. ~score_changed /\ top_rated[b] # 0
      BY <1>1, <1>4, <1>8
    <2>2. PICK f \in 1 .. Len(queue) : queue[f].favored /\ b \in queue[f].bits
      BY <2>1 DEF Bookkept, Covered
    <2>3. f # q
      BY <2>2
    <2>4. f \in 1 .. Len(queue') /\ queue'[f].favored /\ b \in queue'[f].bits
      BY <1>2, <2>2, <2>3 DEF Same
    <2> QED
      BY <2>4 DEF Covered
  <1> QED
    BY <1>6, <1>7, <1>8 DEF Bookkept, Holders

LEMMA InitialCover == Init => CoverInv
  <1> SUFFICES ASSUME Init PROVE CoverInv
    OBVIOUS
  <1>1. PICK k \in 1 .. MaxInitial : queue = [q \in 1 .. k |-> Entry(0, TRUE)]
    BY DEF Init
  <1>2. k \in Nat
    BY CorpusAssumption
  <1>3. Len(queue) = k
    <2>1. queue = [q \in 1 .. k |-> queue[q]]
      BY <1>1
    <2> QED
      BY <1>2, <2>1, ListedOn
  <1>4. top_rated = [b \in 1 .. Bits |-> 0]
    BY DEF Init
  <1>5. Entry(0, TRUE).bits = {}
    BY DEF Entry
  <1>6. \A q \in 1 .. k : queue[q].bits = {}
    BY <1>1, <1>5
  <1> QED
    BY <1>3, <1>4, <1>6 DEF CoverInv

LEMMA CoverInductive == TraceInv /\ TurnInv /\ CoverInv /\ [Next]_vars => CoverInv'
<1> SUFFICES ASSUME TraceInv, TurnInv, CoverInv, [Next]_vars PROVE CoverInv'
  OBVIOUS
<1> DEFINE n == Len(queue)
<1>0. /\ Books(queue, top_rated) /\ n \in Nat /\ DOMAIN queue = 1 .. n
      /\ Bookkept(queue, top_rated, score_changed)
  BY ListedMeans, CoverIs DEF TraceInv, Books
<1>1. ASSUME Bookkept(queue', top_rated', score_changed'), pc' # "dry_run" PROVE CoverInv'
  BY <1>1 DEF CoverInv, Bookkept, Holders
<1>2. ASSUME UNCHANGED <<queue, top_rated, score_changed>>, pc' # "dry_run" PROVE CoverInv'
  BY <1>0, <1>1, <1>2
<1>3. ASSUME NEW run \in Seeds, DryRun(run) PROVE CoverInv'
  <2>1. pc = "dry_run" /\ cur <= n
    BY <1>3 DEF DryRun
  <2>2. cur \in 1 .. n
    BY <1>0, <2>1 DEF TurnInv
  <2>3. CASE LacksInitialState(machine, run)
    <3>1. pc' = "failed" /\ UNCHANGED <<queue, top_rated, score_changed>>
      BY <1>3, <2>3 DEF DryRun, favorites
    <3> QED
      BY <1>2, <3>1
  <2>4. CASE ~LacksInitialState(machine, run)
    <3>1. cur' = cur + 1
      BY <1>3, <2>4 DEF DryRun
    <3>2. /\ Len(queue') = n /\ Ran(cur, run)
          /\ queue'[cur].bits = IF run.calibrates THEN run.bits ELSE queue[cur].bits
      BY <1>0, <1>3, <2>2, <2>4, DryRan
    <3>3. \A q \in 1 .. n : cur <= q => queue[q].bits = {}
      BY <2>1 DEF CoverInv
    <3>4. queue[cur].bits = {}
      BY <1>0, <2>2, <3>3
    <3>5. Bookkept(queue', top_rated', score_changed')
      <4>1. cur # 0 /\ cur \in 1 .. Len(queue')
        BY <2>2, <3>2
      <4> QED
        BY <1>0, <2>2, <3>2, <3>4, <4>1, RanCover
    <3>6. ASSUME NEW q \in 1 .. n, cur' <= q PROVE queue'[q].bits = {}
      <4>1. q # cur /\ cur <= q
        BY <1>0, <2>2, <3>1, <3>6
      <4> QED
        BY <3>2, <3>3, <4>1 DEF Ran, Same
    <3> HIDE DEF n
    <3> QED
      BY <3>2, <3>5, <3>6 DEF CoverInv, Bookkept, Holders
  <2> QED
    BY <2>3, <2>4
<1>4. CASE Start \/ SelectSeed \/ NextInQueue
  <2>1. (\E target : cull_queue(target)) /\ pc' # "dry_run"
    <3>1. CASE Start \/ NextInQueue
      BY <3>1 DEF Start, NextInQueue
    <3>2. CASE SelectSeed
      <4>1. pc = "select" /\ cull_queue(target_state_id')
        BY <3>2 DEF SelectSeed
      <4>2. pc' = pc \/ pc' = "chosen"
        BY <3>2, Zenon DEF SelectSeed
      <4> QED
        BY <4>1, <4>2
    <3> QED
      BY <1>4, <3>1, <3>2
  <2>2. Bookkept(queue', top_rated', score_changed')
    BY <1>0, <2>1, CulledCover
  <2> QED
    BY <1>1, <2>1, <2>2
<1>5. CASE Skip \/ StartFuzz \/ Loop
  BY <1>2, <1>5 DEF Skip, StartFuzz, Loop, favorites
<1>6. ASSUME NEW run \in Mutants, GiveUp(run) PROVE CoverInv'
  BY <1>2, <1>6 DEF GiveUp, favorites
<1>7. ASSUME NEW run \in Mutants, Save(run) \/ Import(run) PROVE CoverInv'
  <2>1. Keep(run) /\ pc' = pc /\ pc \in {"fuzz", "sync"}
    BY <1>7 DEF Save, Import
  <2>2. /\ Len(queue') = n + 1 /\ Ran(n + 1, run)
        /\ queue'[n + 1].bits = IF run.calibrates THEN run.bits ELSE {}
    BY <1>0, <2>1, KeptRan
  <2>3. /\ n + 1 \in 1 .. Len(queue') /\ n + 1 \notin 1 .. n /\ n + 1 # 0
        /\ \A e \in 1 .. Len(queue') : e = n + 1 \/ e \in 1 .. n
        /\ \A e \in 1 .. n : e \in 1 .. Len(queue')
    BY <1>0, <2>2
  <2>4. Bookkept(queue', top_rated', score_changed')
    BY <1>0, <2>2, <2>3, RanCover
  <2> QED
    BY <1>1, <2>1, <2>4
<1>8. CASE Abandon
  <2>1. pc' = "sync" /\ UNCHANGED <<top_rated, score_changed>>
    BY <1>8 DEF Abandon, favorites
  <2>2. CASE queue' = queue
    BY <1>2, <2>1, <2>2
  <2>3. CASE queue' = [queue EXCEPT ![cur].was_fuzzed = TRUE]
    <3>1. queue' = [q \in 1 .. n |->
                       IF q = cur THEN [queue[q] EXCEPT !.was_fuzzed = TRUE] ELSE queue[q]]
      BY <1>0, <2>3
    <3>2. \A q \in 1 .. n : {"bits", "favored"} \subseteq DOMAIN queue[q]
      BY <1>0 DEF Books, Account, Fields
    <3>3. \A q \in 1 .. n : queue'[q].bits = queue[q].bits /\ queue'[q].favored = queue[q].favored
      BY <3>1, <3>2
    <3>4. Len(queue') = n
      <4>1. queue' = [q \in 1 .. n |-> queue'[q]]
        BY <3>1
      <4> QED
        BY <1>0, <4>1, ListedOn
    <3>5. \A b \in 1 .. Bits : top_rated[b] # 0 => top_rated[b] \in 1 .. n
      <4>1. top_rated \in [1 .. Bits -> 0 .. n]
        BY <1>0 DEF Books
      <4> QED
        BY <1>0, <4>1
    <3>6. Holders(top_rated, queue')
      BY <1>0, <3>3, <3>5 DEF Bookkept, Holders
    <3>7. \A b \in 1 .. Bits : Covered(queue, b) => Covered(queue', b)
      BY <3>3, <3>4 DEF Covered
    <3>8. Bookkept(queue', top_rated, score_changed)
      BY <1>0, <3>3, <3>4, <3>6, <3>7 DEF Bookkept
    <3> QED
      BY <1>1, <2>1, <3>8
  <2> QED
    BY <1>8, <2>2, <2>3 DEF Abandon
<1>9. CASE UNCHANGED vars
  BY <1>9 DEF vars, favorites, CoverInv, Covered
<1> QED
  BY <1>3, <1>4, <1>5, <1>6, <1>7, <1>8, <1>9 DEF Next

(***************************************************************************)
(* Between a change of hands and the next culling nothing is promised;     *)
(* otherwise every byte that a calibrated seed sets is set by a favored    *)
(* one: the greedy walk of cull_queue leaves no byte out, and calibrations *)
(* that take no byte cannot uncover one (update_bitmap_score, cull_queue). *)
(***************************************************************************)
THEOREM FavoritesCoverTheMap == Spec => []FavoredCover
<1>1. ASSUME TraceInv, CoverInv PROVE FavoredCover
  <2>1. DOMAIN queue = 1 .. Len(queue)
    BY <1>1, ListedMeans DEF TraceInv, Books
  <2>2. ASSUME ~score_changed, NEW q \in 1 .. Len(queue), NEW b \in queue[q].bits
        PROVE  Covered(queue, b)
    <3>1. b \in 1 .. Bits /\ top_rated[b] # 0
      BY <1>1, <2>2 DEF CoverInv
    <3> QED
      BY <1>1, <2>2, <3>1 DEF CoverInv
  <2> QED
    BY <2>1, <2>2 DEF Covered, FavoredCover
<1> QED
  BY <1>1, InitialBooks, BooksInductive, InitialTurn, TurnInductive, InitialCover,
     CoverInductive, PTL DEF Spec

-----------------------------------------------------------------------------
(***************************************************************************)
(* What a sequence holds.                                                  *)
(***************************************************************************)
LEMMA RangeIs ==
    ASSUME NEW s, Listed(s)
    PROVE  \A x : x \in Range(s) <=> \E i \in 1 .. Len(s) : s[i] = x
  BY ListedMeans DEF Range

LEMMA RangeAppend ==
    ASSUME NEW s, Listed(s), NEW x
    PROVE  Range(Append(s, x)) = Range(s) \cup {x}
  <1> DEFINE t == Append(s, x)
  <1>1. /\ Listed(t) /\ Len(t) = Len(s) + 1
        /\ \A i \in 1 .. Len(s) : t[i] = s[i]
        /\ t[Len(s) + 1] = x
    BY ListedAppend
  <1>2. Len(s) \in Nat
    BY ListedMeans
  <1> HIDE DEF t
  <1>3. ASSUME NEW y, y \in Range(t) PROVE y \in Range(s) \cup {x}
    <2>1. PICK i \in 1 .. Len(t) : t[i] = y
      BY <1>1, <1>3, RangeIs
    <2>2. CASE i = Len(s) + 1
      BY <1>1, <2>1, <2>2
    <2>3. CASE i # Len(s) + 1
      <3>1. i \in 1 .. Len(s)
        BY <1>1, <1>2, <2>3
      <3> QED
        BY <1>1, <2>1, <3>1, RangeIs
    <2> QED
      BY <2>2, <2>3
  <1>4. ASSUME NEW y, y \in Range(s) \cup {x} PROVE y \in Range(t)
    <2>1. CASE y = x
      <3>1. Len(s) + 1 \in 1 .. Len(t)
        BY <1>1, <1>2
      <3> QED
        BY <1>1, <2>1, <3>1, RangeIs
    <2>2. CASE y \in Range(s)
      <3>1. PICK i \in 1 .. Len(s) : s[i] = y
        BY <2>2, RangeIs
      <3>2. i \in 1 .. Len(t) /\ t[i] = y
        BY <1>1, <1>2, <3>1
      <3> QED
        BY <1>1, <3>2, RangeIs
    <2> QED
      BY <1>4, <2>1, <2>2
  <1> QED
    BY <1>3, <1>4 DEF t

LEMMA RangeConcat ==
    ASSUME NEW s, Listed(s), NEW t, Listed(t)
    PROVE  Range(s \o t) = Range(s) \cup Range(t)
  <1> DEFINE u == s \o t
  <1>1. /\ Listed(u) /\ Len(u) = Len(s) + Len(t)
        /\ \A i \in 1 .. Len(s) : u[i] = s[i]
        /\ \A i \in 1 .. Len(t) : u[Len(s) + i] = t[i]
    BY ListedConcat
  <1>2. Len(s) \in Nat /\ Len(t) \in Nat
    BY ListedMeans
  <1> HIDE DEF u
  <1>3. ASSUME NEW y, y \in Range(u) PROVE y \in Range(s) \cup Range(t)
    <2>1. PICK i \in 1 .. Len(u) : u[i] = y
      BY <1>1, <1>3, RangeIs
    <2>2. CASE i \in 1 .. Len(s)
      BY <1>1, <2>1, <2>2, RangeIs
    <2>3. CASE i \notin 1 .. Len(s)
      <3>1. i - Len(s) \in 1 .. Len(t) /\ Len(s) + (i - Len(s)) = i
        BY <1>1, <1>2, <2>3
      <3>2. t[i - Len(s)] = y
        BY <1>1, <2>1, <3>1
      <3> QED
        BY <3>1, <3>2, RangeIs
    <2> QED
      BY <2>2, <2>3
  <1>4. ASSUME NEW y, y \in Range(s) PROVE y \in Range(u)
    <2>1. PICK i \in 1 .. Len(s) : s[i] = y
      BY <1>4, RangeIs
    <2>2. i \in 1 .. Len(u) /\ u[i] = y
      BY <1>1, <1>2, <2>1
    <2> QED
      BY <1>1, <2>2, RangeIs
  <1>5. ASSUME NEW y, y \in Range(t) PROVE y \in Range(u)
    <2>1. PICK i \in 1 .. Len(t) : t[i] = y
      BY <1>5, RangeIs
    <2>2. Len(s) + i \in 1 .. Len(u) /\ u[Len(s) + i] = y
      BY <1>1, <1>2, <2>1
    <2> QED
      BY <1>1, <2>2, RangeIs
  <1> QED
    BY <1>3, <1>4, <1>5 DEF u

(***************************************************************************)
(* A path without repetitions has the states of the sequence.              *)
(***************************************************************************)
Extend(t, states, i) ==
    IF i < 3 \/ states[i] # states[i - 1] \/ states[i] # states[i - 2]
    THEN Append(t, states[i]) ELSE t

Trimming(f, states, k) ==
    f = [i \in 0 .. k |-> IF i = 0 THEN << >> ELSE Extend(f[i - 1], states, i)]

LEMMA TrimmingExists ==
    ASSUME NEW states, NEW k \in Nat
    PROVE  \E f : Trimming(f, states, k)
  <1> DEFINE T == {n \in Nat : \E f : Trimming(f, states, n)}
  <1>1. 0 \in T
    <2> DEFINE f == [i \in 0 .. 0 |-> << >>]
    <2>1. Trimming(f, states, 0)
      BY DEF Trimming
    <2> QED
      BY <2>1
  <1>2. ASSUME NEW n \in Nat, n \in T PROVE n + 1 \in T
    <2>1. PICK f : Trimming(f, states, n)
      BY <1>2
    <2> DEFINE next == Extend(f[n], states, n + 1)
               g == [i \in 0 .. n + 1 |-> IF i = n + 1 THEN next ELSE f[i]]
    <2>2. ASSUME NEW i \in 0 .. n + 1
          PROVE  g[i] = IF i = 0 THEN << >> ELSE Extend(g[i - 1], states, i)
      <3>1. CASE i = n + 1
        <4>1. g[i] = next /\ g[i - 1] = f[n]
          BY <3>1
        <4> HIDE DEF g
        <4> QED
          BY <3>1, <4>1
      <3>2. CASE i \in 1 .. n
        <4>1. g[i] = f[i] /\ g[i - 1] = f[i - 1]
          BY <3>2
        <4>2. f[i] = Extend(f[i - 1], states, i)
          BY <2>1, <3>2 DEF Trimming
        <4> HIDE DEF g
        <4> QED
          BY <3>2, <4>1, <4>2
      <3>3. CASE i = 0
        <4>1. f[0] = << >>
          BY <2>1 DEF Trimming
        <4> QED
          BY <3>3, <4>1
      <3> QED
        BY <3>1, <3>2, <3>3
    <2>3. g = [i \in 0 .. n + 1 |-> g[i]]
      OBVIOUS
    <2> HIDE DEF g
    <2>4. Trimming(g, states, n + 1)
      BY <2>2, <2>3 DEF Trimming
    <2> QED
      BY <2>4
  <1> HIDE DEF T
  <1>3. k \in T
    BY <1>1, <1>2, SetInduction
  <1> QED
    BY <1>3 DEF T

LEMMA TrimmedKeeps ==
    ASSUME NEW states, Listed(states)
    PROVE  Range(Trimmed(states)) = Range(states)
  <1> DEFINE k == Len(states)
             kept == CHOOSE f : f = [i \in 0 .. k |->
                        IF i = 0 THEN << >>
                        ELSE IF i < 3 \/ states[i] # states[i - 1] \/ states[i] # states[i - 2]
                             THEN Append(f[i - 1], states[i]) ELSE f[i - 1]]
  <1>1. k \in Nat /\ DOMAIN states = 1 .. k
    BY ListedMeans
  <1>2. Trimmed(states) = kept[k]
    BY DEF Trimmed
  <1>3. Trimming(kept, states, k)
    <2>1. \E f : Trimming(f, states, k)
      BY <1>1, TrimmingExists
    <2> QED
      BY <2>1, Zenon DEF Trimming, Extend
  <1> HIDE DEF kept
  <1>4. kept[0] = << >> /\ \A i \in 1 .. k : kept[i] = Extend(kept[i - 1], states, i)
    BY <1>1, <1>3 DEF Trimming
  <1> DEFINE seen(i) == {states[j] : j \in 1 .. i}
             T == {i \in Nat : i <= k => Listed(kept[i]) /\ Range(kept[i]) = seen(i)}
  <1>5. 0 \in T
    <2>1. Listed(<< >>) /\ Range(<< >>) = {} /\ seen(0) = {}
      BY DEF Listed, Range
    <2> QED
      BY <1>4, <2>1
  <1>6. ASSUME NEW i \in Nat, i \in T PROVE i + 1 \in T
    <2> SUFFICES ASSUME i + 1 <= k PROVE Listed(kept[i + 1]) /\ Range(kept[i + 1]) = seen(i + 1)
      OBVIOUS
    <2>1. i + 1 \in 1 .. k /\ (i + 1) - 1 = i /\ i <= k
      BY <1>1
    <2>2. kept[i + 1] = Extend(kept[i], states, i + 1)
      BY <1>4, <2>1
    <2>3. Listed(kept[i]) /\ Range(kept[i]) = seen(i)
      BY <1>6, <2>1
    <2>4. seen(i + 1) = seen(i) \cup {states[i + 1]}
      <3>1. 1 .. i + 1 = (1 .. i) \cup {i + 1}
        OBVIOUS
      <3> QED
        BY <3>1
    <2>5. CASE i + 1 < 3 \/ states[i + 1] # states[i] \/ states[i + 1] # states[(i + 1) - 2]
      <3>1. kept[i + 1] = Append(kept[i], states[i + 1])
        BY <2>1, <2>2, <2>5 DEF Extend
      <3>2. Listed(Append(kept[i], states[i + 1]))
        BY <2>3, ListedAppend
      <3>3. Range(Append(kept[i], states[i + 1])) = Range(kept[i]) \cup {states[i + 1]}
        BY <2>3, RangeAppend
      <3> QED
        BY <2>3, <2>4, <3>1, <3>2, <3>3
    <2>6. CASE ~(i + 1 < 3 \/ states[i + 1] # states[i] \/ states[i + 1] # states[(i + 1) - 2])
      <3>1. kept[i + 1] = kept[i]
        BY <2>1, <2>2, <2>6 DEF Extend
      <3>2. states[i + 1] \in seen(i)
        BY <2>6
      <3> QED
        BY <2>3, <2>4, <3>1, <3>2
    <2> QED
      BY <2>5, <2>6
  <1>7. k \in T
    <2> HIDE DEF T
    <2> QED
      BY <1>1, <1>5, <1>6, SetInduction
  <1>8. Range(kept[k]) = seen(k)
    BY <1>1, <1>7
  <1> QED
    BY <1>1, <1>2, <1>8 DEF Range

(***************************************************************************)
(* Where an annotation ends, when no reply parses two ways, is a state of  *)
(* the sequence.                                                           *)
(***************************************************************************)
LEMMA CodesKept ==
    ASSUME NEW run \in Seeds \cup Mutants, NEW i \in 1 .. Len(run.replies)
    PROVE  Range(Codes(run, i)) \subseteq Range(Codes(run, Len(run.replies)))
  <1> DEFINE T == {k \in Nat : k \in i .. Len(run.replies) =>
                        Range(Codes(run, i)) \subseteq Range(Codes(run, k))}
  <1>1. Len(run.replies) \in Nat /\ i \in Nat /\ i >= 1
    <2>1. run.replies \in Seq(Range(run.replies))
      BY CorpusAssumption
    <2> QED
      BY <2>1, LenProperties
  <1>2. \A k \in 1 .. Len(run.replies) : Listed(run.replies[k].codes)
    <2>1. run.replies \in Seq(Range(run.replies))
      BY CorpusAssumption
    <2>2. DOMAIN run.replies = 1 .. Len(run.replies)
      BY <2>1, LenProperties
    <2>3. \A k \in 1 .. Len(run.replies) : run.replies[k].codes \in Seq(Range(run.replies[k].codes))
      BY <2>2, CorpusAssumption
    <2> QED
      BY <2>3 DEF Listed, Range
  <1>3. 0 \in T
    BY <1>1
  <1>4. ASSUME NEW k \in Nat, k \in T PROVE k + 1 \in T
    <2> SUFFICES ASSUME k + 1 \in i .. Len(run.replies)
                 PROVE  Range(Codes(run, i)) \subseteq Range(Codes(run, k + 1))
      OBVIOUS
    <2>1. CASE i = k + 1
      BY <2>1
    <2>2. CASE i # k + 1
      <3>1. /\ k \in i .. Len(run.replies) /\ k \in 0 .. Len(run.replies) - 1
            /\ k \in 0 .. Len(run.replies) /\ k + 1 \in 1 .. Len(run.replies)
        BY <1>1, <2>2
      <3>2. Range(Codes(run, i)) \subseteq Range(Codes(run, k))
        BY <1>4, <3>1
      <3>3. Codes(run, k + 1) = Codes(run, k) \o run.replies[k + 1].codes
        BY <3>1, CodesGrow
      <3>4. Listed(Codes(run, k)) /\ Listed(run.replies[k + 1].codes)
        BY <1>2, <3>1, CodesGrow
      <3>5. Range(Codes(run, k) \o run.replies[k + 1].codes)
               = Range(Codes(run, k)) \cup Range(run.replies[k + 1].codes)
        BY <3>4, RangeConcat
      <3> QED
        BY <3>2, <3>3, <3>5
    <2> QED
      BY <2>1, <2>2
  <1> HIDE DEF T
  <1>5. Len(run.replies) \in T
    BY <1>1, <1>3, <1>4, SetInduction
  <1>6. Len(run.replies) \in i .. Len(run.replies)
    BY <1>1
  <1> QED
    BY <1>5, <1>6 DEF T

LEMMA EndsInSequence ==
    ASSUME NEW run \in Seeds \cup Mutants, run.slip = 0,
           NEW i \in 1 .. Len(run.replies), update_region_annotations(run)[i] # << >>
    PROVE  Last(update_region_annotations(run)[i]) \in Range(state_sequence(run))
  <1> DEFINE k == Len(run.replies)
             a == <<0>> \o Codes(run, i)
  <1>1. k \in Nat /\ i \in 1 .. k /\ DOMAIN run.replies = 1 .. k
    <2>1. run.replies \in Seq(Range(run.replies))
      BY CorpusAssumption
    <2> QED
      BY <2>1, LenProperties
  <1>2. update_region_annotations(run)[i] = a
    <2>1. run.slip # i
      BY <1>1
    <2> QED
      BY <1>1, <2>1 DEF update_region_annotations
  <1>3. i \in 0 .. k /\ k \in 0 .. k
    BY <1>1
  <1>4. Listed(Codes(run, i)) /\ Listed(Codes(run, k))
    BY <1>3, CodesGrow
  <1>5. Listed(<<0>>) /\ Len(<<0>>) = 1
    BY DEF Listed
  <1>6. Listed(a) /\ Len(a) = 1 + Len(Codes(run, i))
    BY <1>4, <1>5, ListedConcat
  <1>7. Len(Codes(run, i)) \in Nat
    BY <1>4, ListedMeans
  <1>8. Range(a) = Range(<<0>>) \cup Range(Codes(run, i))
    BY <1>4, <1>5, RangeConcat
  <1>9. Range(state_sequence(run)) = Range(<<0>>) \cup Range(Codes(run, k))
    BY <1>4, <1>5, RangeConcat DEF state_sequence
  <1>10. Range(Codes(run, i)) \subseteq Range(Codes(run, k))
    BY CodesKept
  <1>11. Last(a) \in Range(a)
    <2> HIDE DEF a
    <2>1. Len(a) \in 1 .. Len(a)
      BY <1>6, <1>7
    <2>2. a[Len(a)] \in Range(a)
      BY <1>6, <2>1, RangeIs
    <2> QED
      BY <2>2 DEF Last
  <1> HIDE DEF a
  <1> QED
    BY <1>2, <1>8, <1>9, <1>10, <1>11

-----------------------------------------------------------------------------
(***************************************************************************)
(* The graph, the table of states and the list of their ids agree, and a   *)
(* machine tells of the n entries what they reach: the lists have them,    *)
(* and their cells are marked.                                             *)
(***************************************************************************)
Placed(m, s) == \E i \in 1 .. Len(m.state_ids) : m.state_ids[i] = s

Agrees(m) ==
    /\ m.nodes = DOMAIN m.seeds
    /\ \A s \in DOMAIN m.seeds : Placed(m, s)
    /\ \A i \in 1 .. Len(m.state_ids) : \A j \in 1 .. Len(m.state_ids) :
          m.state_ids[i] = m.state_ids[j] => i = j

Marked(m, i, q) == m.rows[i][q] # Unreachable

Tells(m, n, reach) ==
    /\ \A q \in 1 .. n : reach[q] \subseteq DOMAIN m.seeds
    /\ \A s \in DOMAIN m.seeds : \A q \in 1 .. n : q \in Range(m.seeds[s]) <=> s \in reach[q]
    /\ \A i \in 1 .. Len(m.state_ids) : \A q \in 1 .. n :
          m.state_ids[i] \in reach[q] => Marked(m, i, q)

\* The paths were walked: their states are nodes.
Walked(m) == \A p \in m.paths : Range(p) \subseteq m.nodes \cup {0}

\* Index of a state that has one place.
LEMMA IndexIs ==
    ASSUME NEW m, Len(m.state_ids) \in Nat, DOMAIN m.state_ids = 1 .. Len(m.state_ids), Agrees(m),
           NEW i \in 1 .. Len(m.state_ids)
    PROVE  get_state_index(m, m.state_ids[i]) = i
  <1> DEFINE ids == m.state_ids
             P(k) == /\ k \in DOMAIN ids => ids[k] = ids[i]
                     /\ \A j \in 1 .. k - 1 : ids[j] # ids[i]
  <1>1. PICK k : k = CHOOSE x \in 1 .. Len(ids) + 1 : P(x)
    BY Zenon
  <1>2. \A x \in 1 .. Len(ids) : \A y \in 1 .. Len(ids) : ids[x] = ids[y] => x = y
    BY DEF Agrees
  <1> HIDE DEF ids
  <1>3. i \in 1 .. Len(ids) + 1 /\ P(i)
    <2>1. i \in 1 .. Len(ids) /\ Len(ids) \in Nat
      BY DEF ids
    <2>2. \A j \in 1 .. i - 1 : j \in 1 .. Len(ids) /\ j # i
      BY <2>1
    <2> QED
      BY <1>2, <2>1, <2>2
  <1>4. k \in 1 .. Len(ids) + 1 /\ P(k)
    BY <1>1, <1>3, Zenon
  <1>5. Len(ids) \in Nat /\ DOMAIN ids = 1 .. Len(ids) /\ i \in 1 .. Len(ids)
    BY DEF ids
  <1>6. ~(i < k)
    <2> SUFFICES ASSUME i < k PROVE FALSE
      OBVIOUS
    <2>1. i \in 1 .. k - 1
      BY <1>4, <1>5
    <2> QED
      BY <1>4, <2>1
  <1>7. k \in 1 .. Len(ids)
    BY <1>4, <1>5, <1>6
  <1>8. k = i
    BY <1>2, <1>4, <1>5, <1>7
  <1> QED
    BY <1>1, <1>8, Zenon DEF get_state_index, ids

(***************************************************************************)
(* expand_was_fuzzed_map keeps the cells there are.                        *)
(***************************************************************************)
LEMMA ExpandedKeeps ==
    ASSUME NEW m, "rows" \in DOMAIN m, NEW states \in Nat, NEW entries \in Nat,
           m.rows \in Seq(Seq(Cells)), NEW i \in 1 .. Len(m.rows), NEW j \in 1 .. Len(m.rows[i])
    PROVE  expand_was_fuzzed_map(m, states, entries).rows[i][j] = m.rows[i][j]
  <1> DEFINE added == [x \in 1 .. entries |-> Unreachable]
             wide == [x \in DOMAIN m.rows |-> m.rows[x] \o added]
             blank == [x \in 1 .. Columns(m) + entries |-> Unreachable]
             blanks == [x \in 1 .. states |-> blank]
  <1>1. expand_was_fuzzed_map(m, states, entries).rows = wide \o blanks
    BY DEF expand_was_fuzzed_map
  <1>2. DOMAIN m.rows = 1 .. Len(m.rows) /\ Len(m.rows) \in Nat
    OBVIOUS
  <1>3. m.rows[i] \in Seq(Cells)
    OBVIOUS
  <1>4. Listed(m.rows[i])
    BY <1>3 DEF Listed
  <1>5. Listed(added)
    <2>1. added = [x \in 1 .. entries |-> added[x]]
      OBVIOUS
    <2> QED
      BY <2>1, ListedOn
  <1>6. Listed(wide) /\ Len(wide) = Len(m.rows)
    <2>1. wide = [x \in 1 .. Len(m.rows) |-> wide[x]]
      BY <1>2
    <2> HIDE DEF wide
    <2> QED
      BY <1>2, <2>1, ListedOn
  <1>7. Listed(blanks)
    <2>1. blanks = [x \in 1 .. states |-> blanks[x]]
      OBVIOUS
    <2> HIDE DEF blanks
    <2> QED
      BY <2>1, ListedOn
  <1>8. wide[i] = m.rows[i] \o added
    BY <1>2
  <1> HIDE DEF wide, blanks, added
  <1>9. (wide \o blanks)[i] = wide[i]
    BY <1>6, <1>7, ListedConcat
  <1>10. (m.rows[i] \o added)[j] = m.rows[i][j]
    BY <1>4, <1>5, ListedConcat
  <1> QED
    BY <1>1, <1>8, <1>9, <1>10

\* A new state leaves the cells of the others.
LEMMA NewStateKeeps ==
    ASSUME NEW m, NEW n, Table(m, n), NEW s, NEW listed,
           NEW i \in 1 .. Len(m.state_ids), NEW j \in 1 .. n
    PROVE  NewState(m, s, listed).rows[i][j] = m.rows[i][j]
  <1> DEFINE o == [m EXCEPT !.state_ids = Append(@, s),
                            !.seeds = With(@, s, listed), !.cursor = With(@, s, 1)]
             k == IF s = 0 THEN 0 ELSE 1
  <1>1. NewState(m, s, listed) = expand_was_fuzzed_map(o, k, 0)
    BY DEF NewState
  <1>2. "rows" \in DOMAIN o /\ o.rows = m.rows
    BY DEF Table, Parts
  <1> HIDE DEF o
  <1>3. k \in Nat /\ 0 \in Nat
    OBVIOUS
  <1> HIDE DEF k
  <1>4. Listed(m.state_ids) /\ Len(m.state_ids) \in Nat
    BY ListedMeans DEF Table
  <1>5. Len(m.rows) = Len(m.state_ids)
    BY <1>4 DEF Table
  <1>6. i \in 1 .. Len(m.rows) /\ Len(m.rows[i]) = n /\ m.rows \in Seq(Seq(Cells))
    BY <1>5 DEF Table
  <1>7. i \in 1 .. Len(o.rows) /\ j \in 1 .. Len(o.rows[i]) /\ o.rows \in Seq(Seq(Cells))
    BY <1>2, <1>6
  <1>8. expand_was_fuzzed_map(o, k, 0).rows[i][j] = o.rows[i][j]
    BY <1>2, <1>3, <1>7, ExpandedKeeps
  <1> QED
    BY <1>1, <1>2, <1>8

(***************************************************************************)
(* A node more: a state that no entry reached so far.                      *)
(***************************************************************************)
LEMMA NodeTold ==
    ASSUME NEW m, NEW n \in Nat, Sound(m, n), Agrees(m), NEW reach, Tells(m, n, reach),
           NEW s, s = 0 \/ 0 \in m.nodes
    PROVE  Agrees(AddNode(m, s)) /\ Tells(AddNode(m, s), n, reach)
  <1>1. CASE s \in m.nodes
    BY <1>1 DEF AddNode
  <1>2. CASE s \notin m.nodes
    <2> DEFINE e == NewState(m, s, << >>)
               d == [e EXCEPT !.nodes = @ \cup {s}]
               k == Len(m.state_ids)
    <2>1. s = 0 => Len(m.state_ids) = 0
      BY <1>2 DEF Sound, Table
    <2>2. s # 0 => Len(m.state_ids) # 0
      BY DEF Sound, Table, Lists
    <2>3. Knows(e, m, s, << >>, n)
      BY <2>1, <2>2, NewStateIs DEF Sound
    <2>4. ASSUME NEW i \in 1 .. k, NEW j \in 1 .. n PROVE e.rows[i][j] = m.rows[i][j]
      BY NewStateKeeps DEF Sound
    <2> HIDE DEF e
    <2>5. Noded(d, e, m.nodes \cup {s})
      BY <2>3 DEF Noded, Knows, Parts
    <2> HIDE DEF d
    <2>6. AddNode(m, s) = d
      BY <1>2 DEF AddNode, d, e
    <2>7. Listed(m.state_ids) /\ k \in Nat
      BY ListedMeans DEF Sound, Table
    <2> HIDE DEF k
    <2>8. /\ Len(d.state_ids) = k + 1
          /\ \A i \in 1 .. k : d.state_ids[i] = m.state_ids[i]
          /\ d.state_ids[k + 1] = s
      BY <2>3, <2>5, <2>7, ListedAppend DEF Noded, Knows, k
    <2>9. /\ DOMAIN d.seeds = DOMAIN m.seeds \cup {s} /\ s \notin DOMAIN m.seeds
          /\ \A t \in DOMAIN m.seeds : d.seeds[t] = m.seeds[t]
          /\ d.seeds[s] = << >>
      BY <1>2, <2>3, <2>5 DEF Noded, Knows, With, Agrees
    <2>10. d.nodes = DOMAIN d.seeds
      BY <2>5, <2>9 DEF Noded, Agrees
    <2>11. ASSUME NEW t \in DOMAIN d.seeds PROVE Placed(d, t)
      <3>1. CASE t = s
        <4>1. k + 1 \in 1 .. Len(d.state_ids)
          BY <2>7, <2>8
        <4> QED
          BY <2>8, <3>1, <4>1 DEF Placed
      <3>2. CASE t # s
        <4>1. Placed(m, t)
          BY <2>9, <3>2 DEF Agrees
        <4>2. PICK i \in 1 .. k : m.state_ids[i] = t
          BY <4>1 DEF Placed, k
        <4>3. i \in 1 .. Len(d.state_ids) /\ d.state_ids[i] = t
          BY <2>7, <2>8, <4>2
        <4> QED
          BY <4>3 DEF Placed
      <3> QED
        BY <3>1, <3>2
    <2>12. \A i \in 1 .. k : m.state_ids[i] # s
      BY <2>9 DEF Sound, Lists, k
    <2>13. ASSUME NEW i \in 1 .. Len(d.state_ids), NEW j \in 1 .. Len(d.state_ids),
                  d.state_ids[i] = d.state_ids[j]
           PROVE  i = j
      <3>1. CASE i \in 1 .. k /\ j \in 1 .. k
        BY <2>8, <2>13, <3>1 DEF Agrees, k
      <3>2. CASE i = k + 1 /\ j \in 1 .. k
        BY <2>8, <2>12, <2>13, <3>2
      <3>3. CASE i \in 1 .. k /\ j = k + 1
        BY <2>8, <2>12, <2>13, <3>3
      <3>4. CASE i = k + 1 /\ j = k + 1
        BY <3>4
      <3> QED
        BY <2>7, <2>8, <3>1, <3>2, <3>3, <3>4
    <2>14. Agrees(d)
      BY <2>10, <2>11, <2>13 DEF Agrees
    <2>15. \A q \in 1 .. n : reach[q] \subseteq DOMAIN m.seeds
      BY DEF Tells
    <2>16. ASSUME NEW t \in DOMAIN d.seeds, NEW q \in 1 .. n
           PROVE  q \in Range(d.seeds[t]) <=> t \in reach[q]
      <3>1. CASE t = s
        <4>1. Range(<< >>) = {}
          BY DEF Range
        <4> QED
          BY <2>9, <2>15, <3>1, <4>1
      <3>2. CASE t # s
        <4>1. t \in DOMAIN m.seeds
          BY <2>9, <3>2
        <4> QED
          BY <2>9, <4>1 DEF Tells
      <3> QED
        BY <3>1, <3>2
    <2>17. ASSUME NEW i \in 1 .. Len(d.state_ids), NEW q \in 1 .. n, d.state_ids[i] \in reach[q]
           PROVE  Marked(d, i, q)
      <3>1. i \in 1 .. k
        <4>1. i # k + 1
          BY <2>8, <2>9, <2>15, <2>17
        <4> QED
          BY <2>7, <2>8, <4>1
      <3>2. Marked(m, i, q)
        BY <2>8, <2>17, <3>1 DEF Tells, k
      <3>3. d.rows[i][q] = m.rows[i][q]
        BY <2>4, <2>5, <3>1 DEF Noded, k
      <3> QED
        BY <3>2, <3>3 DEF Marked
    <2>18. Tells(d, n, reach)
      BY <2>9, <2>15, <2>16, <2>17 DEF Tells
    <2> QED
      BY <2>6, <2>14, <2>18
  <1> QED
    BY <1>1, <1>2

(***************************************************************************)
(* A path is learned: its states are known, and what the entries reach is  *)
(* told as before.                                                         *)
(***************************************************************************)
LEMMA PathTold ==
    ASSUME NEW m, NEW n \in Nat, Sound(m, n), Agrees(m), Walked(m), NEW reach, Tells(m, n, reach),
           NEW states, Listed(states), Len(states) >= 1, states[1] = 0
    PROVE  LET d == LearnPath(m, states)
           IN  Agrees(d) /\ Walked(d) /\ Tells(d, n, reach) /\ Range(states) \subseteq d.nodes \cup {0}
  <1> DEFINE base == [m EXCEPT !.paths = @ \cup {Trimmed(states)}]
             k == Len(states)
             after == CHOOSE f : f = [i \in 0 .. k |->
                            IF i = 0 THEN base ELSE AddNode(f[i - 1], states[i])]
  <1>1. k \in Nat /\ DOMAIN states = 1 .. k
    BY ListedMeans
  <1>2. Range(Trimmed(states)) = Range(states)
    BY TrimmedKeeps
  <1>3. CASE Trimmed(states) \in m.paths
    <2>1. LearnPath(m, states) = m
      BY <1>3 DEF LearnPath
    <2>2. Range(states) \subseteq m.nodes \cup {0}
      BY <1>2, <1>3 DEF Walked
    <2> QED
      BY <2>1, <2>2
  <1>4. CASE Trimmed(states) \notin m.paths
    <2>1. /\ Noded(base, base, m.nodes) /\ base.nodes = m.nodes /\ base.state_ids = m.state_ids
          /\ base.seeds = m.seeds /\ base.cursor = m.cursor /\ base.rows = m.rows
          /\ base.paths = m.paths \cup {Trimmed(states)}
      BY DEF Sound, Table, Noded, Parts
    <2>2. LearnPath(m, states) = IF k > 1 THEN after[k] ELSE base
      BY <1>4 DEF LearnPath
    <2> HIDE DEF base
    <2>3. Sound(base, n) /\ Agrees(base) /\ Tells(base, n, reach)
      BY <2>1 DEF Sound, Table, Lists, Noded, Agrees, Placed, Tells, Marked
    <2>4. Noding(after, base, states, k)
      <3>1. \E f : Noding(f, base, states, k)
        BY <1>1, NodingExists
      <3> QED
        BY <3>1, Zenon DEF Noding
    <2> HIDE DEF after
    <2>5. after[0] = base /\ \A i \in 1 .. k : after[i] = AddNode(after[i - 1], states[i])
      BY <1>1, <2>4 DEF Noding
    <2> DEFINE seen(i) == {states[j] : j \in 1 .. i}
               Good(o, i) == /\ Sound(o, n) /\ Agrees(o) /\ Tells(o, n, reach)
                             /\ o.paths = base.paths /\ o.nodes = base.nodes \cup seen(i)
               T == {i \in Nat : Good(after[i], i)}
    <2>6. ASSUME NEW i \in Nat, NEW o, Good(o, i), i = 0 => states[i + 1] = 0
          PROVE  Good(AddNode(o, states[i + 1]), i + 1)
      <3> DEFINE next == AddNode(o, states[i + 1])
      <3>1. states[i + 1] = 0 \/ 0 \in o.nodes
        <4>1. CASE i = 0
          BY <2>6, <4>1
        <4>2. CASE i # 0
          <5>1. states[1] \in seen(i)
            BY <4>2
          <5> QED
            BY <2>6, <5>1
        <4> QED
          BY <4>1, <4>2
      <3>2. Sound(next, n) /\ next.nodes = o.nodes \cup {states[i + 1]} /\ next.paths = o.paths
        BY <2>6, <3>1, NodeAdded
      <3>3. Agrees(next) /\ Tells(next, n, reach)
        BY <2>6, <3>1, NodeTold
      <3>4. seen(i + 1) = seen(i) \cup {states[i + 1]}
        <4>1. 1 .. i + 1 = (1 .. i) \cup {i + 1}
          OBVIOUS
        <4> QED
          BY <4>1
      <3> HIDE DEF next, seen
      <3> QED
        BY <2>6, <3>2, <3>3, <3>4 DEF next
    <2>7. Good(after[0], 0)
      <3>1. seen(0) = {}
        OBVIOUS
      <3> QED
        BY <2>3, <2>5, <3>1
    <2> HIDE DEF Good
    <2>8. 1 \in T
      <3>1. 1 \in 1 .. k /\ 1 - 1 = 0 /\ 0 + 1 = 1
        BY <1>1
      <3>2. after[1] = AddNode(after[0], states[0 + 1])
        BY <2>5, <3>1
      <3>3. Good(AddNode(after[0], states[0 + 1]), 0 + 1)
        BY <2>6, <2>7, <3>1
      <3> QED
        BY <3>1, <3>2, <3>3
    <2>9. ASSUME NEW i \in 1 .. k - 1, i \in T PROVE i + 1 \in T
      <3>1. i + 1 \in 1 .. k /\ (i + 1) - 1 = i /\ i + 1 \in Nat /\ i \in Nat /\ i # 0
        BY <1>1
      <3>2. after[i + 1] = AddNode(after[i], states[i + 1])
        BY <2>5, <3>1
      <3>3. Good(after[i], i)
        BY <2>9
      <3>4. Good(AddNode(after[i], states[i + 1]), i + 1)
        BY <2>6, <3>1, <3>3
      <3> QED
        BY <3>1, <3>2, <3>4
    <2>10. 1 .. k \subseteq T
      <3> HIDE DEF T
      <3> QED
        BY <1>1, <2>8, <2>9, UpToInduction
    <2>11. Good(after[k], k)
      BY <1>1, <2>10
    <2>12. seen(k) = Range(states)
      BY <1>1 DEF Range
    <2>13. CASE k > 1
      <3>1. LearnPath(m, states) = after[k]
        BY <2>2, <2>13
      <3> DEFINE d == after[k]
      <3>2. /\ Agrees(d) /\ Tells(d, n, reach) /\ d.paths = m.paths \cup {Trimmed(states)}
            /\ d.nodes = m.nodes \cup Range(states)
        BY <2>1, <2>11, <2>12 DEF Good
      <3> HIDE DEF d
      <3>3. Walked(d)
        BY <1>2, <3>2 DEF Walked
      <3> QED
        BY <3>1, <3>2, <3>3 DEF d
    <2>14. CASE ~(k > 1)
      <3>1. LearnPath(m, states) = base
        BY <2>2, <2>14
      <3>2. Range(states) = {0}
        <4>1. k = 1
          BY <1>1, <2>14
        <4> QED
          BY <1>1, <4>1 DEF Range
      <3>3. Walked(base)
        BY <1>2, <2>1, <3>2 DEF Walked
      <3> QED
        BY <2>3, <3>1, <3>2, <3>3
    <2> QED
      BY <2>13, <2>14
  <1> QED
    BY <1>3, <1>4

(***************************************************************************)
(* One cell is written, no other.                                          *)
(***************************************************************************)
LEMMA CellIs ==
    ASSUME NEW rows \in Seq(Seq(Cells)), NEW i, NEW q, NEW c,
           NEW x \in 1 .. Len(rows), NEW y \in 1 .. Len(rows[x])
    PROVE  [rows EXCEPT ![i][q] = c][x][y] = IF x = i /\ y = q THEN c ELSE rows[x][y]
  <1> DEFINE row == [rows[i] EXCEPT ![q] = c]
             r == [rows EXCEPT ![i][q] = c]
  <1>1. DOMAIN rows = 1 .. Len(rows) /\ rows[x] \in Seq(Cells) /\ DOMAIN rows[x] = 1 .. Len(rows[x])
    OBVIOUS
  <1>2. r[x] = IF x = i THEN row ELSE rows[x]
    BY <1>1
  <1> HIDE DEF r
  <1>3. x = i => row[y] = IF y = q THEN c ELSE rows[x][y]
    BY <1>1
  <1> HIDE DEF row
  <1> QED
    BY <1>2, <1>3 DEF r

(***************************************************************************)
(* A seed is listed for a known state, and its cell marked.                *)
(***************************************************************************)
\* Entry q reaches s too.
Also(after, before, n, q, s) ==
    \A e \in 1 .. n : after[e] = IF e = q THEN before[e] \cup {s} ELSE before[e]

LEMMA SeedTold ==
    ASSUME NEW m, NEW n \in Nat, Sound(m, n), Agrees(m), NEW reach, Tells(m, n, reach),
           NEW s \in DOMAIN m.seeds, NEW q \in 1 .. n, NEW more, Also(more, reach, n, q, s)
    PROVE  LET d == ListSeed(m, s, q)
           IN  Agrees(d) /\ Tells(d, n, more) /\ d.nodes = m.nodes /\ d.paths = m.paths
  <1> DEFINE o == [m EXCEPT !.seeds[s] = Append(@, q)]
             k == get_state_index(o, s)
             d == [o EXCEPT !.rows[k][q] = Reachable]
             ids == m.state_ids
  <1>1. ListSeed(m, s, q) = d
    BY DEF ListSeed, Known
  <1>2. /\ Parts \subseteq DOMAIN o /\ o.nodes = m.nodes /\ o.paths = m.paths
        /\ o.state_ids = ids /\ o.rows = m.rows /\ DOMAIN o.seeds = DOMAIN m.seeds
        /\ \A t \in DOMAIN m.seeds :
              o.seeds[t] = IF t = s THEN Append(m.seeds[s], q) ELSE m.seeds[t]
    BY DEF Parts, Sound, Table
  <1> HIDE DEF o, k
  <1>3. /\ d.nodes = m.nodes /\ d.paths = m.paths /\ d.state_ids = ids
        /\ d.seeds = o.seeds /\ d.rows = [m.rows EXCEPT ![k][q] = Reachable]
    BY <1>2 DEF Parts
  <1> HIDE DEF d
  <1>4. Len(ids) \in Nat /\ DOMAIN ids = 1 .. Len(ids)
    BY ListedMeans DEF Sound, Table
  <1>5. PICK i \in 1 .. Len(ids) : ids[i] = s
    BY DEF Agrees, Placed
  <1> HIDE DEF ids
  <1>6. Agrees(o)
    BY <1>2 DEF Agrees, Placed, ids
  <1>7. k = i
    <2>1. get_state_index(o, o.state_ids[i]) = i
      BY <1>2, <1>4, <1>5, <1>6, IndexIs
    <2> QED
      BY <1>2, <1>5, <2>1 DEF k
  <1>8. Agrees(d)
    BY <1>2, <1>3 DEF Agrees, Placed, ids
  <1>9. /\ m.rows \in Seq(Seq(Cells)) /\ Len(m.rows) = Len(ids)
        /\ \A x \in 1 .. Len(ids) : Len(m.rows[x]) = n
    BY <1>4, <1>5 DEF Sound, Table, ids
  <1>10. ASSUME NEW x \in 1 .. Len(ids), NEW y \in 1 .. n
         PROVE  d.rows[x][y] = IF x = i /\ y = q THEN Reachable ELSE m.rows[x][y]
    <2>1. x \in 1 .. Len(m.rows) /\ y \in 1 .. Len(m.rows[x])
      BY <1>9
    <2>2. [m.rows EXCEPT ![k][q] = Reachable][x][y]
             = IF x = k /\ y = q THEN Reachable ELSE m.rows[x][y]
      BY <1>9, <2>1, CellIs
    <2> QED
      BY <1>3, <1>7, <2>2
  <1>11. ASSUME NEW e \in 1 .. n PROVE more[e] \subseteq DOMAIN d.seeds
    <2>1. reach[e] \subseteq DOMAIN m.seeds
      BY DEF Tells
    <2> QED
      BY <1>2, <1>3, <2>1 DEF Also
  <1>12. ASSUME NEW t \in DOMAIN d.seeds, NEW e \in 1 .. n
         PROVE  e \in Range(d.seeds[t]) <=> t \in more[e]
    <2>1. t \in DOMAIN m.seeds /\ (e \in Range(m.seeds[t]) <=> t \in reach[e])
      BY <1>2, <1>3 DEF Tells
    <2>2. CASE t = s
      <3>1. Listed(m.seeds[s])
        BY DEF Sound, Lists, Seated
      <3>2. Range(Append(m.seeds[s], q)) = Range(m.seeds[s]) \cup {q}
        BY <3>1, RangeAppend
      <3>3. Range(d.seeds[t]) = Range(m.seeds[t]) \cup {q}
        BY <1>2, <1>3, <2>2, <3>2
      <3> QED
        BY <2>1, <2>2, <3>3 DEF Also
    <2>3. CASE t # s
      BY <1>2, <1>3, <2>1, <2>3 DEF Also
    <2> QED
      BY <2>2, <2>3
  <1>13. ASSUME NEW x \in 1 .. Len(d.state_ids), NEW e \in 1 .. n, d.state_ids[x] \in more[e]
         PROVE  Marked(d, x, e)
    <2>1. x \in 1 .. Len(ids) /\ d.state_ids[x] = ids[x]
      BY <1>3
    <2>2. CASE x = i /\ e = q
      BY <1>10, <2>1, <2>2 DEF Marked, Reachable, Unreachable
    <2>3. CASE ~(x = i /\ e = q)
      <3>1. ids[x] \in reach[e]
        <4>1. e = q => ids[x] # s
          BY <1>5, <2>1, <2>3 DEF Agrees, ids
        <4> QED
          BY <1>13, <2>1, <4>1 DEF Also
      <3>2. Marked(m, x, e)
        BY <2>1, <3>1 DEF Tells, ids
      <3> QED
        BY <1>10, <2>1, <2>3, <3>2 DEF Marked
    <2> QED
      BY <2>2, <2>3
  <1>14. Tells(d, n, more)
    BY <1>11, <1>12, <1>13 DEF Tells
  <1> QED
    BY <1>1, <1>3, <1>8, <1>14

(***************************************************************************)
(* An entry gets to reach what its regions end in.                         *)
(***************************************************************************)
\* The states a seed reaches: none if it drew no reply.
Got(regions) ==
    {s \in {0} \cup {Last(r) : r \in {x \in Range(regions) : x # << >>}} :
        \E r \in Range(regions) : r # << >>}

\* The states the first i regions end in, and the initial one.
EndsOf(regions, i) == {0} \cup {Last(regions[j]) : j \in {x \in 1 .. i : regions[x] # << >>}}

\* Entry q reaches what is in ends.
Reaching(reach, n, q, ends) == [e \in 1 .. n |-> IF e = q THEN ends ELSE reach[e]]

LEMMA RunTold ==
    ASSUME NEW m, NEW n \in Nat, Sound(m, n), Agrees(m), Walked(m), NEW reach, Tells(m, n, reach),
           NEW run \in Seeds \cup Mutants, run.slip = 0, NEW q \in 1 .. n, reach[q] = {},
           ~LacksInitialState(m, run)
    PROVE  LET d == update_state_aware_variables(m, run, q)
           IN  /\ Agrees(d) /\ Walked(d)
               /\ Tells(d, n, Reaching(reach, n, q, Got(update_region_annotations(run))))
  <1> DEFINE regions == update_region_annotations(run)
             k == Len(regions)
  <1>1. Listed(regions) /\ k \in Nat /\ k >= 1 /\ k = Len(run.replies)
    BY Annotated
  <1>2. DOMAIN regions = 1 .. k
    BY <1>1, ListedMeans
  <1>3. DOMAIN run.replies = 1 .. k
    <2>1. run.replies \in Seq(Range(run.replies))
      BY CorpusAssumption
    <2> QED
      BY <1>1, <2>1, LenProperties
  <1>4. CASE Silent(run)
    <2>1. update_state_aware_variables(m, run, q) = m
      BY <1>4 DEF update_state_aware_variables
    <2>2. \A i \in 1 .. k : regions[i] = << >>
      BY <1>3, <1>4 DEF update_region_annotations, Silent
    <2> HIDE DEF regions
    <2>3. Got(regions) = {}
      <3>1. \A r \in Range(regions) : r = << >>
        BY <1>2, <2>2 DEF Range
      <3> QED
        BY <3>1 DEF Got
    <2>4. \A e \in 1 .. n : Reaching(reach, n, q, {})[e] = reach[e]
      BY DEF Reaching
    <2> DEFINE same == Reaching(reach, n, q, {})
    <2> HIDE DEF same
    <2>5. Tells(m, n, same)
      BY <2>4 DEF Tells, same
    <2> QED
      BY <2>1, <2>3, <2>5 DEF same, regions
  <1>5. CASE ~Silent(run)
    <2> DEFINE states == state_sequence(run)
               learned == LearnPath(m, states)
               base == ListSeed(learned, 0, q)
               after == CHOOSE f : f = [i \in 0 .. k |->
                            IF i = 0 THEN base ELSE ListRegion(f[i - 1], regions[i], q)]
               R(i) == Reaching(reach, n, q, EndsOf(regions, i))
    <2>1. Listed(states) /\ Len(states) >= 1 /\ states[1] = 0
      BY SequenceStarts
    <2>2. /\ Sound(learned, n) /\ Agrees(learned) /\ Walked(learned) /\ Tells(learned, n, reach)
          /\ Range(states) \subseteq learned.nodes \cup {0}
      <3> HIDE DEF states
      <3> QED
        BY <2>1, PathLearned, PathTold
    <2>3. 0 \in DOMAIN learned.seeds
      BY <1>5 DEF LacksInitialState, Known
    <2>4. Range(states) \subseteq learned.nodes /\ learned.nodes = DOMAIN learned.seeds
      BY <2>2, <2>3 DEF Agrees
    <2>5. \A i \in 1 .. k : regions[i] # << >> => Last(regions[i]) \in learned.nodes
      BY <1>1, <2>4, EndsInSequence
    <2>6. Len(learned.state_ids) # 0
      BY <2>2, <2>3 DEF Sound, Table
    <2>7. update_state_aware_variables(m, run, q) = after[k]
      BY <1>5 DEF update_state_aware_variables
    <2>8. \E r \in Range(regions) : r # << >>
      <3>1. PICK i \in 1 .. k : run.replies[i].bytes
        BY <1>3, <1>5 DEF Silent
      <3>2. regions[i] # << >>
        <4> DEFINE t == <<0>> \o Codes(run, i)
        <4>1. regions[i] \in {<<0, run.odd>>, t}
          BY <1>3, <3>1 DEF update_region_annotations
        <4>2. t # << >>
          <5>1. i \in 0 .. k
            BY <1>1
          <5>2. Listed(Codes(run, i))
            BY <1>1, <5>1, CodesGrow
          <5>3. Listed(<<0>>) /\ Len(<<0>>) = 1 /\ Len(<< >>) = 0
            BY DEF Listed
          <5>4. Len(t) = 1 + Len(Codes(run, i)) /\ Len(Codes(run, i)) \in Nat
            BY <5>2, <5>3, ListedConcat, ListedMeans
          <5> HIDE DEF t
          <5> QED
            BY <5>3, <5>4
        <4> HIDE DEF t
        <4>3. <<0, run.odd>> # << >>
          OBVIOUS
        <4> QED
          BY <4>1, <4>2, <4>3
      <3> QED
        BY <1>2, <3>2 DEF Range
    <2> HIDE DEF learned, regions, states
    <2>9. Sound(base, n)
      BY <2>2, <2>6, SeedListed
    <2>10. EndsOf(regions, 0) = {0}
      BY DEF EndsOf
    <2>11. Also(R(0), reach, n, q, 0)
      BY <2>10 DEF Also, Reaching
    <2>12. /\ Agrees(base) /\ Tells(base, n, R(0))
           /\ base.nodes = learned.nodes /\ base.paths = learned.paths
      <3> HIDE DEF R
      <3> QED
        BY <2>2, <2>3, <2>11, SeedTold
    <2> HIDE DEF base
    <2>13. Listing(after, base, regions, q, k)
      <3>1. \E f : Listing(f, base, regions, q, k)
        BY <1>1, ListingExists
      <3> QED
        BY <3>1, Zenon DEF Listing
    <2> HIDE DEF after
    <2>14. after[0] = base /\ \A i \in 1 .. k : after[i] = ListRegion(after[i - 1], regions[i], q)
      BY <1>1, <2>13 DEF Listing
    <2> DEFINE Good(o, i) == /\ Sound(o, n) /\ Agrees(o) /\ Tells(o, n, R(i))
                             /\ o.nodes = learned.nodes /\ o.paths = learned.paths
               T == {i \in Nat : i <= k => Good(after[i], i)}
    <2>15. 0 \in T
      BY <2>9, <2>12, <2>14
    <2>16. ASSUME NEW i \in Nat, i \in T PROVE i + 1 \in T
      <3> SUFFICES ASSUME i + 1 <= k PROVE Good(after[i + 1], i + 1)
        OBVIOUS
      <3>1. i + 1 \in 1 .. k /\ (i + 1) - 1 = i /\ i <= k
        BY <1>1
      <3>2. after[i + 1] = ListRegion(after[i], regions[i + 1], q)
        BY <2>14, <3>1
      <3>3. Good(after[i], i)
        BY <2>16, <3>1
      <3> DEFINE o == after[i]
                 s == Last(regions[i + 1])
      <3>4. 1 .. i + 1 = (1 .. i) \cup {i + 1}
        OBVIOUS
      <3>5. CASE regions[i + 1] = << >>
        <4>1. EndsOf(regions, i + 1) = EndsOf(regions, i)
          BY <3>4, <3>5 DEF EndsOf
        <4>2. after[i + 1] = after[i]
          BY <3>2, <3>5 DEF ListRegion
        <4> QED
          BY <3>3, <4>1, <4>2
      <3>6. CASE regions[i + 1] # << >>
        <4>1. EndsOf(regions, i + 1) = EndsOf(regions, i) \cup {s}
          BY <3>4, <3>6 DEF EndsOf
        <4>2. after[i + 1] = ListSeed(o, s, q)
          BY <3>2, <3>6 DEF ListRegion
        <4>3. Also(R(i + 1), R(i), n, q, s)
          BY <4>1 DEF Also, Reaching
        <4>4. s \in learned.nodes
          BY <2>5, <3>1, <3>6
        <4> HIDE DEF o, s, R
        <4>5. /\ Sound(o, n) /\ Agrees(o) /\ Tells(o, n, R(i))
              /\ o.nodes = learned.nodes /\ o.paths = learned.paths
          BY <3>3 DEF o
        <4>6. s \in DOMAIN o.seeds
          BY <4>4, <4>5 DEF Agrees
        <4>7. Len(o.state_ids) # 0
          BY <4>5, <4>6 DEF Sound, Table
        <4> DEFINE l == ListSeed(o, s, q)
        <4>8. Sound(l, n)
          BY <4>5, <4>7, SeedListed
        <4>9. Agrees(l) /\ Tells(l, n, R(i + 1)) /\ l.nodes = o.nodes /\ l.paths = o.paths
          BY <4>3, <4>5, <4>6, SeedTold
        <4> HIDE DEF l
        <4>10. Good(l, i + 1)
          BY <4>5, <4>8, <4>9
        <4> HIDE DEF Good
        <4> QED
          BY <4>2, <4>10 DEF l
      <3> QED
        BY <3>5, <3>6
    <2>17. k \in T
      <3> HIDE DEF T
      <3> QED
        BY <1>1, <2>15, <2>16, SetInduction
    <2> DEFINE d == after[k]
    <2>18. Agrees(d) /\ Tells(d, n, R(k)) /\ d.nodes = learned.nodes /\ d.paths = learned.paths
      BY <1>1, <2>17
    <2>19. EndsOf(regions, k) = Got(regions)
      <3>1. \A s : s \in {Last(r) : r \in {x \in Range(regions) : x # << >>}}
                <=> s \in {Last(regions[j]) : j \in {x \in 1 .. k : regions[x] # << >>}}
        BY <1>2 DEF Range
      <3> QED
        BY <2>8, <3>1 DEF EndsOf, Got
    <2> HIDE DEF d
    <2>20. Walked(d)
      BY <2>2, <2>18 DEF Walked
    <2> QED
      BY <2>7, <2>18, <2>19, <2>20 DEF d, regions
  <1> QED
    BY <1>4, <1>5

\* A new column leaves the cells of the others.
LEMMA ColumnKeeps ==
    ASSUME NEW m, NEW n \in Nat, Sound(m, n), NEW i \in 1 .. Len(m.state_ids), NEW j \in 1 .. n
    PROVE  AddColumn(m).rows[i][j] = m.rows[i][j]
  <1> DEFINE k == IF m.rows = << >> THEN 1 ELSE 0
  <1>1. AddColumn(m) = expand_was_fuzzed_map(m, k, 1)
    BY DEF AddColumn
  <1>2. k \in Nat /\ 1 \in Nat
    OBVIOUS
  <1> HIDE DEF k
  <1>3. Len(m.state_ids) \in Nat
    BY ListedMeans DEF Sound, Table
  <1>4. /\ "rows" \in DOMAIN m /\ m.rows \in Seq(Seq(Cells))
        /\ i \in 1 .. Len(m.rows) /\ j \in 1 .. Len(m.rows[i])
    BY <1>3 DEF Sound, Table, Parts
  <1>5. expand_was_fuzzed_map(m, k, 1).rows[i][j] = m.rows[i][j]
    BY <1>2, <1>4, ExpandedKeeps
  <1> QED
    BY <1>1, <1>5

(***************************************************************************)
(* A new column is empty; a cell that is marked fuzzed is marked; cursors  *)
(* tell nothing.                                                           *)
(***************************************************************************)
LEMMA ColumnTold ==
    ASSUME NEW m, NEW n \in Nat, Sound(m, n), Agrees(m), Walked(m), NEW reach, Tells(m, n, reach),
           NEW more, \A e \in 1 .. n : more[e] = reach[e], more[n + 1] = {}
    PROVE  LET d == AddColumn(m) IN Agrees(d) /\ Walked(d) /\ Tells(d, n + 1, more)
  <1> DEFINE d == AddColumn(m)
             k == IF m.rows = << >> THEN 1 ELSE 0
             ids == m.state_ids
  <1>1. d = expand_was_fuzzed_map(m, k, 1) /\ k \in Nat
    BY DEF AddColumn
  <1>2. /\ d.nodes = m.nodes /\ d.paths = m.paths /\ d.state_ids = ids /\ d.seeds = m.seeds
    BY <1>1 DEF expand_was_fuzzed_map, Sound, Table, Parts
  <1> HIDE DEF k
  <1>3. Len(ids) \in Nat
    BY ListedMeans DEF Sound, Table
  <1>4. ASSUME NEW i \in 1 .. Len(ids), NEW j \in 1 .. n PROVE d.rows[i][j] = m.rows[i][j]
    BY ColumnKeeps
  <1> HIDE DEF d, ids
  <1>5. Agrees(d) /\ Walked(d)
    BY <1>2 DEF Agrees, Walked, Placed, ids
  <1>6. ASSUME NEW e \in 1 .. n + 1 PROVE more[e] \subseteq DOMAIN d.seeds
    <2>1. CASE e = n + 1
      BY <2>1
    <2>2. CASE e # n + 1
      <3>1. e \in 1 .. n
        BY <2>2
      <3> QED
        BY <1>2, <3>1 DEF Tells
    <2> QED
      BY <2>1, <2>2
  <1>7. ASSUME NEW s \in DOMAIN d.seeds, NEW e \in 1 .. n + 1
        PROVE  e \in Range(d.seeds[s]) <=> s \in more[e]
    <2>1. s \in DOMAIN m.seeds /\ d.seeds[s] = m.seeds[s]
      BY <1>2
    <2>2. CASE e = n + 1
      <3>1. Listed(m.seeds[s]) /\ \A x \in 1 .. Len(m.seeds[s]) : m.seeds[s][x] \in 1 .. n
        BY <2>1 DEF Sound, Lists, Seated
      <3>2. e \notin Range(m.seeds[s])
        <4>1. e \notin 1 .. n
          BY <2>2
        <4> QED
          BY <3>1, <4>1, RangeIs
      <3> QED
        BY <2>1, <2>2, <3>2
    <2>3. CASE e # n + 1
      <3>1. e \in 1 .. n
        BY <2>3
      <3> QED
        BY <2>1, <3>1 DEF Tells
    <2> QED
      BY <2>2, <2>3
  <1>8. ASSUME NEW i \in 1 .. Len(d.state_ids), NEW e \in 1 .. n + 1, d.state_ids[i] \in more[e]
        PROVE  Marked(d, i, e)
    <2>1. e # n + 1
      BY <1>8
    <2>2. e \in 1 .. n /\ i \in 1 .. Len(ids)
      BY <1>2, <2>1
    <2>3. Marked(m, i, e)
      BY <1>2, <1>8, <2>2 DEF Tells, ids
    <2> QED
      BY <1>4, <2>2, <2>3 DEF Marked
  <1>9. Tells(d, n + 1, more)
    BY <1>6, <1>7, <1>8 DEF Tells
  <1> QED
    BY <1>5, <1>9 DEF d

LEMMA FuzzedTold ==
    ASSUME NEW m, NEW n \in Nat, Sound(m, n), Agrees(m), Walked(m), NEW reach, Tells(m, n, reach),
           NEW i, NEW q
    PROVE  LET d == [m EXCEPT !.rows[i][q] = Fuzzed]
           IN  Agrees(d) /\ Walked(d) /\ Tells(d, n, reach)
  <1> DEFINE d == [m EXCEPT !.rows[i][q] = Fuzzed]
             ids == m.state_ids
  <1>1. /\ d.nodes = m.nodes /\ d.paths = m.paths /\ d.state_ids = ids /\ d.seeds = m.seeds
        /\ d.rows = [m.rows EXCEPT ![i][q] = Fuzzed]
    BY DEF Sound, Table, Parts
  <1> HIDE DEF d
  <1>2. Len(ids) \in Nat
    BY ListedMeans DEF Sound, Table
  <1>3. ASSUME NEW x \in 1 .. Len(ids), NEW e \in 1 .. n, Marked(m, x, e) PROVE Marked(d, x, e)
    <2>1. m.rows \in Seq(Seq(Cells)) /\ x \in 1 .. Len(m.rows) /\ e \in 1 .. Len(m.rows[x])
      BY <1>2 DEF Sound, Table
    <2>2. [m.rows EXCEPT ![i][q] = Fuzzed][x][e] = IF x = i /\ e = q THEN Fuzzed ELSE m.rows[x][e]
      BY <2>1, CellIs
    <2> QED
      BY <1>1, <1>3, <2>2 DEF Marked, Fuzzed, Unreachable
  <1> HIDE DEF ids
  <1>4. Agrees(d) /\ Walked(d)
    BY <1>1 DEF Agrees, Walked, Placed, ids
  <1>5. Tells(d, n, reach)
    BY <1>1, <1>3 DEF Tells, ids
  <1> QED
    BY <1>4, <1>5 DEF d

LEMMA CursorTold ==
    ASSUME NEW m, NEW n, Sound(m, n), Agrees(m), Walked(m), NEW reach, Tells(m, n, reach),
           NEW s, NEW c
    PROVE  LET d == [m EXCEPT !.cursor[s] = c]
           IN  Agrees(d) /\ Walked(d) /\ Tells(d, n, reach)
  <1> DEFINE d == [m EXCEPT !.cursor[s] = c]
  <1>1. /\ d.nodes = m.nodes /\ d.paths = m.paths /\ d.state_ids = m.state_ids /\ d.seeds = m.seeds
        /\ d.rows = m.rows
    BY DEF Sound, Table, Parts
  <1> HIDE DEF d
  <1>2. Agrees(d) /\ Walked(d) /\ Tells(d, n, reach)
    BY <1>1 DEF Agrees, Walked, Placed, Tells, Marked
  <1> QED
    BY <1>2 DEF d

(***************************************************************************)
(* Unless a reply parses two ways, the machine tells what the entries of   *)
(* the queue reach; those the dry run has not come to reach nothing yet.   *)
(***************************************************************************)
Reaches(entries) == [q \in 1 .. Len(entries) |-> Got(entries[q].regions)]

Mirrors(m, entries) == Agrees(m) /\ Walked(m) /\ Tells(m, Len(entries), Reaches(entries))

Unread(entries, at) == \A q \in 1 .. Len(entries) : at <= q => entries[q].regions = << >>

ListInv ==
    ~setup.slips => Mirrors(machine, queue) /\ (pc = "dry_run" => Unread(queue, cur))

LEMMA SameTold ==
    ASSUME NEW m, NEW n, NEW reach, Tells(m, n, reach),
           NEW same, \A q \in 1 .. n : same[q] = reach[q]
    PROVE  Tells(m, n, same)
  BY DEF Tells

\* Entries with the same regions are told of alike.
LEMMA SameMirror ==
    ASSUME NEW m, NEW entries, Mirrors(m, entries), NEW others, Len(others) = Len(entries),
           \A q \in 1 .. Len(entries) : others[q].regions = entries[q].regions
    PROVE  Mirrors(m, others)
  <1>1. \A q \in 1 .. Len(entries) : Reaches(others)[q] = Reaches(entries)[q]
    BY DEF Reaches
  <1>2. Tells(m, Len(others), Reaches(others))
    BY <1>1, SameTold DEF Mirrors
  <1> QED
    BY <1>2 DEF Mirrors

LEMMA InitialList == Init => ListInv
  <1> SUFFICES ASSUME Init PROVE ListInv
    OBVIOUS
  <1>1. PICK k \in 1 .. MaxInitial : /\ queue = [q \in 1 .. k |-> Entry(0, TRUE)]
                                     /\ machine = expand_was_fuzzed_map(NoMachine, 1, k)
    BY DEF Init
  <1>2. Len(queue) = k
    <2>1. queue = [q \in 1 .. k |-> queue[q]] /\ k \in Nat
      BY <1>1, CorpusAssumption
    <2> QED
      BY <2>1, ListedOn
  <1>3. \A q \in 1 .. Len(queue) : queue[q].regions = << >>
    BY <1>1, <1>2 DEF Entry
  <1>4. /\ machine.nodes = {} /\ machine.paths = {} /\ machine.state_ids = << >>
        /\ machine.seeds = << >>
    BY <1>1 DEF expand_was_fuzzed_map, NoMachine
  <1>5. Len(<< >>) = 0 /\ DOMAIN << >> = {}
    OBVIOUS
  <1>6. \A q \in 1 .. Len(queue) : Reaches(queue)[q] = {}
    <2>1. Got(<< >>) = {}
      BY DEF Got, Range
    <2> QED
      BY <1>3, <2>1 DEF Reaches
  <1>7. Agrees(machine) /\ Walked(machine) /\ Tells(machine, Len(queue), Reaches(queue))
    BY <1>4, <1>5, <1>6 DEF Agrees, Walked, Tells
  <1> QED
    BY <1>3, <1>7 DEF ListInv, Mirrors, Unread

LEMMA ListInductive == TraceInv /\ TurnInv /\ ListInv /\ [Next]_vars => ListInv'
<1> SUFFICES ASSUME TraceInv, TurnInv, ListInv, [Next]_vars, ~setup'.slips PROVE
       Mirrors(machine', queue') /\ (pc' = "dry_run" => Unread(queue', cur'))
  BY DEF ListInv
<1> DEFINE n == Len(queue)
<1>0. Books(queue, top_rated) /\ n \in Nat /\ Sound(machine, n)
  BY ListedMeans DEF TraceInv, TurnInv, Books
<1>00. setup' = setup
  BY DEF Next, DryRun, Start, SelectSeed, NextInQueue, Skip, StartFuzz, Save, Import, GiveUp, Keep,
         Abandon, Loop, vars
<1>01. /\ Mirrors(machine, queue) /\ (pc = "dry_run" => Unread(queue, cur))
       /\ Agrees(machine) /\ Walked(machine) /\ Tells(machine, n, Reaches(queue))
  BY <1>00 DEF ListInv, Mirrors
<1>1. ASSUME NEW run \in Seeds, DryRun(run)
      PROVE  Mirrors(machine', queue') /\ (pc' = "dry_run" => Unread(queue', cur'))
  <2>1. pc = "dry_run" /\ cur <= n /\ run.slip = 0
    BY <1>00, <1>1 DEF DryRun
  <2>2. cur \in 1 .. n
    BY <1>0, <2>1 DEF TurnInv
  <2>3. CASE LacksInitialState(machine, run)
    <3>1. pc' = "failed" /\ queue' = queue /\ machine' = machine
      BY <1>1, <2>3 DEF DryRun
    <3> QED
      BY <1>01, <3>1
  <2>4. CASE ~LacksInitialState(machine, run)
    <3>1. /\ machine' = update_state_aware_variables(machine, run, cur)
          /\ cur' = cur + 1
      BY <1>1, <2>4 DEF DryRun
    <3>2. Len(queue') = n /\ Ran(cur, run)
      BY <1>0, <1>1, <2>2, <2>4, DryRan
    <3>3. /\ queue'[cur].regions = update_region_annotations(run)
          /\ \A e \in 1 .. n : e # cur => queue'[e].regions = queue[e].regions
      BY <3>2 DEF Ran, Same
    <3> DEFINE reach == Reaches(queue)
               told == Reaching(reach, n, cur, Got(update_region_annotations(run)))
    <3>4. reach[cur] = {}
      <4>1. queue[cur].regions = << >>
        BY <1>01, <2>1, <2>2 DEF Unread
      <4>2. Got(<< >>) = {}
        BY DEF Got, Range
      <4> QED
        BY <2>2, <4>1, <4>2 DEF Reaches
    <3>5. \A q \in 1 .. n : Reaches(queue')[q] = told[q]
      BY <3>2, <3>3 DEF Reaches, Reaching
    <3>6. Agrees(machine') /\ Walked(machine') /\ Tells(machine', n, told)
      <4> HIDE DEF reach, n
      <4>1. Tells(machine, n, reach)
        BY <1>01 DEF reach
      <4> QED
        BY <1>0, <1>01, <2>1, <2>2, <2>4, <3>1, <3>4, <4>1, RunTold
    <3> HIDE DEF told
    <3>7. Tells(machine', n, Reaches(queue'))
      BY <3>5, <3>6, SameTold
    <3>8. Unread(queue', cur')
      <4> SUFFICES ASSUME NEW q \in 1 .. n, cur + 1 <= q PROVE queue'[q].regions = << >>
        BY <3>1, <3>2 DEF Unread
      <4>1. q # cur /\ cur <= q
        BY <2>2
      <4> QED
        BY <1>01, <2>1, <3>3, <4>1 DEF Unread
    <3> QED
      BY <3>2, <3>6, <3>7, <3>8 DEF Mirrors
  <2> QED
    BY <2>3, <2>4
<1>2. CASE Start \/ NextInQueue
  <2>1. machine' = machine /\ pc' # "dry_run"
    BY <1>2 DEF Start, NextInQueue
  <2>2. cull_queue(0) \/ cull_queue(target_state_id)
    BY <1>2 DEF Start, NextInQueue
  <2>3. Len(queue') = n /\ \A q \in 1 .. n : queue'[q].regions = queue[q].regions
    BY <1>0, <2>2, CulledFrame DEF Same
  <2>4. Mirrors(machine, queue')
    BY <1>01, <2>3, SameMirror
  <2> QED
    BY <2>1, <2>4
<1>3. CASE SelectSeed
  <2>1. pc' # "dry_run" /\ cull_queue(target_state_id')
    BY <1>3 DEF SelectSeed
  <2>2. Len(queue') = n /\ \A q \in 1 .. n : queue'[q].regions = queue[q].regions
    BY <1>0, <2>1, CulledFrame DEF Same
  <2>3. Mirrors(machine', queue)
    <3>1. \/ machine' = machine
          \/ \E c : machine' = [machine EXCEPT !.cursor[target_state_id'] = c]
      BY <1>3, Zenon DEF SelectSeed
    <3>2. ASSUME NEW c, machine' = [machine EXCEPT !.cursor[target_state_id'] = c]
          PROVE  Mirrors(machine', queue)
      <4> DEFINE d == [machine EXCEPT !.cursor[target_state_id'] = c]
      <4>1. Agrees(d) /\ Walked(d) /\ Tells(d, n, Reaches(queue))
        BY <1>0, <1>01, CursorTold
      <4> HIDE DEF d
      <4>2. machine' = d
        BY <3>2 DEF d
      <4> QED
        BY <4>1, <4>2 DEF Mirrors
    <3> QED
      BY <1>01, <3>1, <3>2
  <2>4. Mirrors(machine', queue')
    BY <2>2, <2>3, SameMirror
  <2> QED
    BY <2>1, <2>4
<1>4. CASE Skip \/ StartFuzz \/ Loop
  <2>1. machine' = machine /\ queue' = queue /\ pc' # "dry_run"
    BY <1>4 DEF Skip, StartFuzz, Loop
  <2> QED
    BY <1>01, <2>1
<1>5. ASSUME NEW run \in Mutants, Save(run) \/ Import(run)
      PROVE  Mirrors(machine', queue') /\ (pc' = "dry_run" => Unread(queue', cur'))
  <2>1. Keep(run) /\ pc' # "dry_run"
    BY <1>5 DEF Save, Import
  <2> DEFINE q == n + 1
             wide == AddColumn(machine)
             more == [e \in 1 .. q |-> IF e = q THEN {} ELSE Reaches(queue)[e]]
             told == Reaching(more, q, q, Got(update_region_annotations(run)))
  <2>2. run.slip = 0 /\ ~LacksInitialState(wide, run)
        /\ machine' = update_state_aware_variables(wide, run, q)
    BY <1>00, <2>1 DEF Keep
  <2>3. Len(queue') = q /\ Ran(q, run)
    BY <1>0, <2>1, KeptRan
  <2>4. /\ queue'[q].regions = update_region_annotations(run)
        /\ \A e \in 1 .. n : queue'[e].regions = queue[e].regions
    <3>1. \A e \in 1 .. n : e # q
      BY <1>0
    <3> QED
      BY <2>3, <3>1 DEF Ran, Same
  <2>5. Sound(wide, q)
    BY <1>0, ColumnAdded
  <2>6. /\ \A e \in 1 .. n : more[e] = Reaches(queue)[e]
        /\ more[n + 1] = {} /\ q \in Nat /\ q \in 1 .. q
    BY <1>0
  <2>7. Agrees(wide) /\ Walked(wide) /\ Tells(wide, q, more)
    <3> HIDE DEF more, n
    <3> QED
      BY <1>0, <1>01, <2>6, ColumnTold
  <2>8. \A e \in 1 .. q : Reaches(queue')[e] = told[e]
    <3> SUFFICES ASSUME NEW e \in 1 .. q PROVE Reaches(queue')[e] = told[e]
      OBVIOUS
    <3>1. Reaches(queue')[e] = Got(queue'[e].regions)
      BY <2>3 DEF Reaches
    <3>2. CASE e = q
      BY <2>4, <3>1, <3>2 DEF Reaching
    <3>3. CASE e # q
      <4>1. e \in 1 .. n
        BY <1>0, <3>3
      <4>2. told[e] = Got(queue[e].regions)
        BY <3>3, <4>1 DEF Reaching, Reaches
      <4> QED
        BY <2>4, <3>1, <4>1, <4>2
    <3> QED
      BY <3>2, <3>3
  <2>9. Agrees(machine') /\ Walked(machine') /\ Tells(machine', q, told)
    <3>1. more[q] = {}
      BY <2>6
    <3> HIDE DEF more, n, wide, q
    <3> QED
      BY <2>2, <2>5, <2>6, <2>7, <3>1, RunTold
  <2> HIDE DEF told
  <2>10. Tells(machine', q, Reaches(queue'))
    BY <2>8, <2>9, SameTold
  <2> QED
    BY <2>1, <2>3, <2>9, <2>10 DEF Mirrors
<1>6. ASSUME NEW run \in Mutants, GiveUp(run)
      PROVE  Mirrors(machine', queue') /\ (pc' = "dry_run" => Unread(queue', cur'))
  <2>1. machine' = machine /\ queue' = queue /\ pc' # "dry_run"
    BY <1>6 DEF GiveUp
  <2> QED
    BY <1>01, <2>1
<1>7. CASE Abandon
  <2>1. pc' # "dry_run"
    BY <1>7 DEF Abandon
  <2>2. CASE queue[cur].cal /\ ~queue[cur].was_fuzzed
    <3>1. /\ queue' = [queue EXCEPT ![cur].was_fuzzed = TRUE]
          /\ machine' = [machine EXCEPT
                    !.rows[get_state_index(machine, target_state_id)][cur] = Fuzzed]
      BY <1>7, <2>2 DEF Abandon
    <3>2. DOMAIN queue = 1 .. n /\ \A e \in 1 .. n : Fields \subseteq DOMAIN queue[e]
      BY <1>0, ListedMeans DEF Books, Account
    <3>3. queue' = [e \in 1 .. n |-> queue'[e]]
      BY <3>1, <3>2
    <3>4. Len(queue') = n
      BY <1>0, <3>3, ListedOn
    <3>5. \A e \in 1 .. n : queue'[e].regions = queue[e].regions
      <4>1. \A e \in 1 .. n :
               queue'[e] = IF e = cur THEN [queue[e] EXCEPT !.was_fuzzed = TRUE] ELSE queue[e]
        BY <3>1, <3>2
      <4> QED
        BY <3>2, <4>1 DEF Fields
    <3>6. Mirrors(machine', queue)
      <4> DEFINE i == get_state_index(machine, target_state_id)
                 d == [machine EXCEPT !.rows[i][cur] = Fuzzed]
      <4> HIDE DEF i
      <4>1. Agrees(d) /\ Walked(d) /\ Tells(d, n, Reaches(queue))
        BY <1>0, <1>01, FuzzedTold
      <4>2. machine' = d
        BY <3>1 DEF i
      <4> HIDE DEF d
      <4> QED
        BY <4>1, <4>2 DEF Mirrors
    <3>7. Mirrors(machine', queue')
      BY <3>4, <3>5, <3>6, SameMirror
    <3> QED
      BY <2>1, <3>7
  <2>3. CASE ~(queue[cur].cal /\ ~queue[cur].was_fuzzed)
    <3>1. queue' = queue /\ machine' = machine
      BY <1>7, <2>3 DEF Abandon
    <3> QED
      BY <1>01, <2>1, <3>1
  <2> QED
    BY <2>2, <2>3
<1>8. CASE UNCHANGED vars
  BY <1>01, <1>8 DEF vars
<1> QED
  BY <1>1, <1>2, <1>3, <1>4, <1>5, <1>6, <1>7, <1>8 DEF Next

(***************************************************************************)
(* Unless a reply parses two ways, a seed is in the list of a state, and   *)
(* its cell not unreachable, exactly if one of its regions ends in that    *)
(* state: however the states were learned and in whatever order, the lists *)
(* choose_seed picks from and the table tell what the seeds in the queue   *)
(* reach (update_state_aware_variables, is_state_sequence_interesting).    *)
(***************************************************************************)
THEOREM ListsFollowTheReplies == Spec => []ListedIffReachable
<1>1. ASSUME TraceInv, TurnInv, ListInv PROVE ListedIffReachable
  <2> SUFFICES ASSUME ~setup.slips, NEW s \in Known(machine), NEW q \in DOMAIN queue
               PROVE  LET drew == \E r \in Range(queue[q].regions) : r # << >>
                          listed == q \in Range(machine.seeds[s])
                      IN  /\ listed <=> drew /\ s \in Reached(q)
                          /\ listed => machine.rows[get_state_index(machine, s)][q] # Unreachable
    BY Zenon DEF ListedIffReachable
  <2>1. DOMAIN queue = 1 .. Len(queue)
    BY <1>1, ListedMeans DEF TraceInv, Books
  <2>2. Agrees(machine) /\ Tells(machine, Len(queue), Reaches(queue))
    BY <1>1 DEF ListInv, Mirrors
  <2>3. Len(machine.state_ids) \in Nat /\ DOMAIN machine.state_ids = 1 .. Len(machine.state_ids)
    BY <1>1, ListedMeans DEF TurnInv, Sound, Table
  <2>4. Reaches(queue)[q] = Got(queue[q].regions)
    BY <2>1 DEF Reaches
  <2>5. s \in Got(queue[q].regions)
           <=> (\E r \in Range(queue[q].regions) : r # << >>) /\ s \in Reached(q)
    BY DEF Got, Reached
  <2>6. q \in Range(machine.seeds[s]) <=> s \in Reaches(queue)[q]
    BY <2>1, <2>2 DEF Tells, Known
  <2>7. ASSUME s \in Reaches(queue)[q]
        PROVE  machine.rows[get_state_index(machine, s)][q] # Unreachable
    <3>1. PICK i \in 1 .. Len(machine.state_ids) : machine.state_ids[i] = s
      BY <2>2 DEF Agrees, Placed, Known
    <3>2. get_state_index(machine, machine.state_ids[i]) = i
      BY <2>2, <2>3, IndexIs
    <3>3. Marked(machine, i, q)
      BY <2>1, <2>2, <2>7, <3>1 DEF Tells
    <3> QED
      BY <3>1, <3>2, <3>3 DEF Marked
  <2> QED
    BY <2>4, <2>5, <2>6, <2>7
<1> QED
  BY <1>1, InitialBooks, BooksInductive, InitialTurn, TurnInductive, InitialList, ListInductive,
     PTL DEF Spec

(***************************************************************************)
(* Unless a reply parses two ways, the graph, the table of states and the  *)
(* list of their ids have the same states, each once: a state that a       *)
(* sequence reveals is entered everywhere or nowhere (LearnPath, AddNode). *)
(***************************************************************************)
THEOREM StatesAreOneSet == Spec => []StatesAgree
<1>1. ASSUME TurnInv, ListInv PROVE StatesAgree
  <2> SUFFICES ASSUME ~setup.slips
               PROVE  /\ Range(machine.state_ids) = Known(machine)
                      /\ machine.nodes = Known(machine)
                      /\ Cardinality(Known(machine)) = Len(machine.state_ids)
    BY DEF StatesAgree
  <2> DEFINE ids == machine.state_ids
             k == Len(ids)
  <2>1. Agrees(machine)
    BY <1>1 DEF ListInv, Mirrors
  <2>2. Listed(ids) /\ k \in Nat /\ DOMAIN ids = 1 .. k
    BY <1>1, ListedMeans DEF TurnInv, Sound, Table
  <2>3. \A i \in 1 .. k : ids[i] \in DOMAIN machine.seeds
    BY <1>1 DEF TurnInv, Sound, Lists
  <2>4. Range(ids) = Known(machine)
    BY <2>1, <2>2, <2>3 DEF Agrees, Placed, Known, Range
  <2>5. Cardinality(Known(machine)) = k
    <3> DEFINE f == [i \in 1 .. k |-> ids[i]]
               S == Known(machine)
    <3>1. /\ f \in [1 .. k -> S]
          /\ \A i \in 1 .. k : \A j \in 1 .. k : f[i] = f[j] => i = j
          /\ \A s \in S : \E i \in 1 .. k : f[i] = s
      BY <2>1, <2>3 DEF Agrees, Placed, Known
    <3> HIDE DEF f, S, k
    <3>2. f \in Bijection(1 .. k, S)
      BY <3>1 DEF Bijection, Injection, Surjection, IsInjective
    <3>3. ExistsBijection(1 .. k, S)
      BY <3>2 DEF ExistsBijection
    <3>4. Cardinality(S) = k
      BY <2>2, <3>3, FS_CountingElements
    <3> QED
      BY <3>4 DEF S
  <2> QED
    BY <2>1, <2>4, <2>5 DEF Agrees, Known
<1> QED
  BY <1>1, InitialBooks, BooksInductive, InitialTurn, TurnInductive, InitialList, ListInductive,
     PTL DEF Spec

=============================================================================
