-------------------------- MODULE MessageListProofs --------------------------
(***************************************************************************)
(* The list of messages never loses a node, and what common_fuzz_stuff     *)
(* makes of it is what the abstract specification sends.                   *)
(*                                                                         *)
(* The invariant names the nodes: p is the list from head to the blank     *)
(* node, and it is cut at a, b and c.  The messages before the mutated     *)
(* ones are p[1 .. a], the mutated ones p[a + 1 .. b], those behind them   *)
(* p[b + 1 .. c], and what is being pushed p[c + 1 .. Len(p) - 1].         *)
(***************************************************************************)
EXTENDS MessageList, DataInduction, SequenceTheorems, FiniteSetTheorems

\* Upto and Messages, over given links and messages.
UptoIn(links, a, b) ==
    LET step == [n \in 0 .. MaxNodes |-> IF n \in {b, NULL} THEN n ELSE links[n]]
        walk[k \in Nodes] == IF k = 1 THEN a ELSE step[walk[k - 1]]
        length == Cardinality({k \in Nodes : walk[k] \notin {b, NULL}})
    IN  [k \in 1 .. length |-> walk[k]]

MessagesIn(links, texts, a, b) ==
    LET nodes == UptoIn(links, a, b) IN [k \in DOMAIN nodes |-> texts[nodes[k]]]

Distinct(s) == \A j, k \in 1 .. Len(s) : s[j] = s[k] => j = k

Linked(links, p) == \A k \in 1 .. Len(p) - 1 : links[p[k]] = p[k + 1]

\* The messages of the nodes i + 1 to j of a path.
Part(texts, p, i1, j1) == [k \in 1 .. j1 - i1 |-> texts[p[i1 + k]]]

-----------------------------------------------------------------------------
(***************************************************************************)
(* Upto follows a path of distinct nodes from one of them to another.      *)
(***************************************************************************)
LEMMA UptoFollows ==
    ASSUME NEW links \in [Nodes -> 0 .. MaxNodes], NEW p \in Seq(Nodes),
           Distinct(p), Linked(links, p), Len(p) <= MaxNodes,
           NEW i1 \in 1 .. Len(p), NEW j1 \in 1 .. Len(p), i1 <= j1
    PROVE  UptoIn(links, p[i1], p[j1]) = [k \in 1 .. j1 - i1 |-> p[i1 + k - 1]]
  <1> DEFINE a == p[i1]
             b == p[j1]
             step == [n \in 0 .. MaxNodes |-> IF n \in {b, NULL} THEN n ELSE links[n]]
             w == [k \in Nodes |-> IF k <= j1 - i1 THEN p[i1 + k - 1] ELSE p[j1]]
             walk == CHOOSE f : f = [k \in Nodes |-> IF k = 1 THEN a ELSE step[f[k - 1]]]
  <1>1. MaxNodes \in Nat \ {0} /\ \A k \in 1 .. Len(p) : p[k] \in Nodes
    BY MessageListAssumption
  <1>2. ASSUME NEW k \in Nodes PROVE w[k] = IF k = 1 THEN a ELSE step[w[k - 1]]
    <2>1. CASE k = 1
      BY <1>1, <2>1 DEF Nodes
    <2>2. CASE k # 1 /\ k - 1 <= j1 - i1
      <3> DEFINE m == i1 + k - 2
      <3>1. k - 1 \in Nodes /\ m \in 1 .. Len(p) - 1 /\ m < j1 /\ m + 1 = i1 + k - 1
            /\ i1 + (k - 1) - 1 = m
        BY <1>1, <2>2 DEF Nodes
      <3> HIDE DEF m
      <3>2. w[k - 1] = p[m]
        BY <2>2, <3>1
      <3>3. p[m] # b /\ p[m] \in Nodes
        BY <1>1, <3>1 DEF Distinct
      <3>4. step[w[k - 1]] = links[p[m]]
        <4>1. p[m] \in 0 .. MaxNodes /\ p[m] \notin {b, NULL}
          <5> HIDE DEF step, w
          <5>1. p[m] \in 1 .. MaxNodes
            BY <3>3 DEF Nodes
          <5> QED
            BY <1>1, <3>3, <5>1 DEF NULL
        <4>2. step[p[m]] = links[p[m]]
          BY <4>1
        <4> HIDE DEF step, w
        <4> QED
          BY <3>2, <4>2
      <3>5. links[p[m]] = p[m + 1]
        BY <3>1 DEF Linked
      <3>6. w[k] = p[i1 + k - 1]
        <4>1. CASE k <= j1 - i1
          BY <4>1
        <4>2. CASE k = j1 - i1 + 1
          BY <4>2
        <4> QED
          BY <2>2, <4>1, <4>2, <1>1 DEF Nodes
      <3> QED
        BY <2>2, <3>1, <3>4, <3>5, <3>6
    <2>3. CASE k # 1 /\ ~ (k - 1 <= j1 - i1)
      <3>1. k - 1 \in Nodes
        BY <1>1, <2>3 DEF Nodes
      <3>2. w[k - 1] = b /\ w[k] = b
        BY <1>1, <2>3, <3>1 DEF Nodes
      <3>3. step[b] = b
        BY <1>1 DEF Nodes
      <3> QED
        BY <2>3, <3>2, <3>3
    <2> QED
      BY <2>1, <2>2, <2>3
  <1> HIDE DEF step
  <1>3. w = [k \in Nodes |-> IF k = 1 THEN a ELSE step[w[k - 1]]]
    BY <1>2
  <1>4. walk = [k \in Nodes |-> IF k = 1 THEN a ELSE step[walk[k - 1]]]
    <2> HIDE DEF w
    <2> QED
      BY <1>3
  <1> HIDE DEF walk
  <1>5. \A k \in 1 .. MaxNodes : walk[k] = w[k]
    <2>1. walk[1] = w[1]
      BY <1>1, <1>2, <1>4 DEF Nodes
    <2>2. ASSUME NEW k \in 1 .. MaxNodes - 1, walk[k] = w[k] PROVE walk[k + 1] = w[k + 1]
      <3>1. k + 1 \in Nodes /\ k + 1 # 1 /\ (k + 1) - 1 = k
        BY <1>1 DEF Nodes
      <3>2. walk[k + 1] = step[walk[k]]
        BY <1>4, <3>1
      <3>3. w[k + 1] = step[w[k]]
        BY <1>2, <3>1
      <3> HIDE DEF w, step
      <3> QED
        BY <2>2, <3>2, <3>3
    <2>3. MaxNodes \in Nat
      BY <1>1
    <2>4. \A k \in 1 .. MaxNodes - 1 : walk[k] = w[k] => walk[k + 1] = w[k + 1]
      BY <2>2
    <2> DEFINE T == {k \in Nat : walk[k] = w[k]}
    <2> HIDE DEF w
    <2>5. 1 \in T /\ \A k \in 1 .. MaxNodes - 1 : k \in T => k + 1 \in T
      BY <2>1, <2>4
    <2> HIDE DEF T
    <2>6. 1 .. MaxNodes \subseteq T
      BY <2>3, <2>5, UpToInduction
    <2> QED
      BY <2>6 DEF T
  <1>6. ASSUME NEW k \in Nodes PROVE walk[k] \notin {b, NULL} <=> k \in 1 .. j1 - i1
    <2>1. walk[k] = IF k <= j1 - i1 THEN p[i1 + k - 1] ELSE p[j1]
      BY <1>1, <1>5 DEF Nodes
    <2>2. k <= j1 - i1 => i1 + k - 1 \in 1 .. Len(p) /\ i1 + k - 1 # j1
      BY <1>1 DEF Nodes
    <2>3. \A n \in 1 .. Len(p) : p[n] # NULL /\ (n # j1 => p[n] # p[j1])
      <3>1. ASSUME NEW n \in 1 .. Len(p) PROVE p[n] # NULL
        <4>1. p[n] \in 1 .. MaxNodes
          BY <1>1 DEF Nodes
        <4> QED
          BY <1>1, <4>1 DEF NULL
      <3>2. ASSUME NEW n \in 1 .. Len(p), n # j1 PROVE p[n] # p[j1]
        BY <3>2 DEF Distinct
      <3> QED
        BY <3>1, <3>2
    <2>4. k \in 1 .. j1 - i1 <=> k <= j1 - i1
      BY <1>1 DEF Nodes
    <2> HIDE DEF w
    <2> QED
      BY <2>1, <2>2, <2>3, <2>4
  <1>7. {k \in Nodes : walk[k] \notin {b, NULL}} = 1 .. j1 - i1
    <2>1. 1 .. j1 - i1 \subseteq Nodes
      BY <1>1 DEF Nodes
    <2> QED
      BY <1>6, <2>1
  <1>8. Cardinality(1 .. j1 - i1) = j1 - i1
    <2>1. 1 \in Int /\ j1 - i1 \in Int
      BY <1>1
    <2> QED
      BY <2>1, FS_Interval
  <1>9. UptoIn(links, a, b) = [k \in 1 .. j1 - i1 |-> walk[k]]
    BY <1>7, <1>8 DEF UptoIn, walk, step
  <1>10. \A k \in 1 .. j1 - i1 : walk[k] = p[i1 + k - 1]
    BY <1>1, <1>5 DEF Nodes
  <1> QED
    BY <1>9, <1>10

(***************************************************************************)
(* What lies between two nodes of a path are its messages.                 *)
(***************************************************************************)
LEMMA MessagesFollow ==
    ASSUME NEW links \in [Nodes -> 0 .. MaxNodes], NEW texts, NEW p \in Seq(Nodes),
           Distinct(p), Linked(links, p), Len(p) <= MaxNodes,
           NEW m \in Nat, NEW n \in Nat, m <= n, n < Len(p)
    PROVE  MessagesIn(links, texts, p[m + 1], p[n + 1]) = Part(texts, p, m, n)
  <1>1. m + 1 \in 1 .. Len(p) /\ n + 1 \in 1 .. Len(p) /\ m + 1 <= n + 1
    OBVIOUS
  <1> DEFINE nodes == UptoIn(links, p[m + 1], p[n + 1])
  <1>2. nodes = [k \in 1 .. (n + 1) - (m + 1) |-> p[(m + 1) + k - 1]]
    BY <1>1, UptoFollows
  <1>3. nodes = [k \in 1 .. n - m |-> p[m + k]]
    <2>1. (n + 1) - (m + 1) = n - m /\ \A k \in 1 .. n - m : (m + 1) + k - 1 = m + k
      OBVIOUS
    <2> HIDE DEF nodes
    <2> QED
      BY <1>2, <2>1
  <1>4. MessagesIn(links, texts, p[m + 1], p[n + 1]) = [k \in DOMAIN nodes |-> texts[nodes[k]]]
    BY DEF MessagesIn
  <1> HIDE DEF nodes
  <1> QED
    BY <1>3, <1>4 DEF Part

(***************************************************************************)
(* The messages cut from a buffer, put one behind the other, are the       *)
(* buffer.                                                                 *)
(***************************************************************************)
\* The message k of a buffer.
Piece(buffer, k) ==
    IF k = max_seed_region_count + 1 THEN SubSeq(buffer, k, Len(buffer)) ELSE <<buffer[k]>>

LEMMA PiecesFlatten ==
    ASSUME NEW V, NEW buffer \in Seq(V), buffer # << >>,
           NEW n \in Nat, n <= Len(buffer), n <= max_seed_region_count + 1,
           n = Len(buffer) \/ n > max_seed_region_count
    PROVE  FlattenSeq([k \in 1 .. n |-> Piece(buffer, k)]) = buffer
  <1> DEFINE limit == max_seed_region_count + 1
             F == [k \in 1 .. n |-> IF k = limit THEN buffer ELSE SubSeq(buffer, 1, k)]
             pieces == [k \in 1 .. n |-> Piece(buffer, k)]
             flatten == CHOOSE f : f = [k \in 1 .. n |->
                            IF k = 1 THEN pieces[k] ELSE f[k - 1] \o pieces[k]]
  <1>1. limit \in Nat /\ limit >= 2 /\ n >= 1 /\ Len(buffer) \in Nat
        /\ max_seed_region_count \in Nat
    <2>1. max_seed_region_count \in Nat \ {0} /\ Len(buffer) \in Nat \ {0}
      BY EmptySeq, MessageListAssumption
    <2> QED
      BY <2>1
  <1>2. ASSUME NEW k \in 1 .. n
        PROVE  F[k] = IF k = 1 THEN Piece(buffer, k) ELSE F[k - 1] \o Piece(buffer, k)
    <2>1. CASE k = 1
      <3>1. F[k] = SubSeq(buffer, 1, 1) /\ Piece(buffer, k) = <<buffer[1]>>
        BY <1>1, <2>1 DEF Piece
      <3>2. buffer \in [1 .. Len(buffer) -> V] /\ 1 \in 1 .. Len(buffer)
        BY <1>1
      <3>3. SubSeq(buffer, 1, 1) = <<buffer[1]>>
        <4>1. SubSeq(buffer, 1, 1) = SubSeq(buffer, 1, 1 - 1) \o <<buffer[1]>>
          BY <3>2, SubSeqRecursiveSecond
        <4>2. SubSeq(buffer, 1, 1 - 1) = << >>
          <5>1. 1 \in Int /\ 1 - 1 \in Int /\ 1 - 1 < 1
            OBVIOUS
          <5> QED
            BY <5>1, SubSeqEmpty
        <4>3. <<buffer[1]>> \in Seq(V)
          <5>1. buffer[1] \in V
            BY <3>2
          <5> QED
            BY <5>1
        <4> QED
          BY <4>1, <4>2, <4>3, ConcatEmptySeq
      <3> HIDE DEF F
      <3> QED
        BY <2>1, <3>1, <3>3
    <2>2. CASE k # 1 /\ k # limit
      <3>1. F[k] = SubSeq(buffer, 1, k) /\ F[k - 1] = SubSeq(buffer, 1, k - 1)
        BY <1>1, <2>2
      <3>2. Piece(buffer, k) = <<buffer[k]>>
        BY <2>2 DEF Piece
      <3>3. 1 \in 1 .. Len(buffer) /\ k \in 1 .. Len(buffer)
        BY <1>1
      <3>4. SubSeq(buffer, 1, k) = SubSeq(buffer, 1, k - 1) \o <<buffer[k]>>
        BY <3>3, SubSeqRecursiveSecond
      <3> HIDE DEF F
      <3> QED
        BY <2>2, <3>1, <3>2, <3>4
    <2>3. CASE k # 1 /\ k = limit
      <3>1. F[k] = buffer /\ F[k - 1] = SubSeq(buffer, 1, k - 1)
        BY <1>1, <2>3
      <3>2. Piece(buffer, k) = SubSeq(buffer, k, Len(buffer))
        BY <2>3 DEF Piece
      <3>3. /\ 1 \in 1 .. Len(buffer) + 1 /\ k - 1 \in 1 - 1 .. Len(buffer)
            /\ Len(buffer) \in k - 1 .. Len(buffer) /\ (k - 1) + 1 = k
        BY <1>1
      <3>4. SubSeq(buffer, 1, k - 1) \o SubSeq(buffer, (k - 1) + 1, Len(buffer))
            = SubSeq(buffer, 1, Len(buffer))
        BY <3>3, ConcatAdjacentSubSeq
      <3>5. SubSeq(buffer, 1, Len(buffer)) = buffer
        BY SubSeqFull
      <3>6. SubSeq(buffer, 1, k - 1) \o SubSeq(buffer, k, Len(buffer)) = buffer
        BY <3>3, <3>4, <3>5
      <3> HIDE DEF F, limit
      <3> QED
        BY <2>3, <3>1, <3>2, <3>6
    <2> QED
      BY <2>1, <2>2, <2>3
  <1>3. \A k \in 1 .. n : pieces[k] = Piece(buffer, k)
    OBVIOUS
  <1>4. n \in 1 .. n /\ F[n] = buffer
    <2>1. n # limit => n = Len(buffer)
      BY <1>1
    <2> QED
      BY <1>1, <2>1, SubSeqFull
  <1>5. Len(pieces) = n
    BY <1>1
  <1> HIDE DEF pieces
  <1>6. F = [k \in 1 .. n |-> IF k = 1 THEN pieces[k] ELSE F[k - 1] \o pieces[k]]
    BY <1>2, <1>3
  <1>7. flatten = [k \in 1 .. n |-> IF k = 1 THEN pieces[k] ELSE flatten[k - 1] \o pieces[k]]
    <2> HIDE DEF F
    <2> QED
      BY <1>6
  <1> HIDE DEF flatten
  <1>8. flatten[n] = F[n]
    <2> DEFINE T == {k \in Nat : flatten[k] = F[k]}
    <2>1. ASSUME NEW k \in 1 .. n - 1 PROVE k + 1 \in 1 .. n /\ k + 1 # 1 /\ (k + 1) - 1 = k
      BY <1>1
    <2>2. F[1] = pieces[1] /\ flatten[1] = pieces[1]
      <3> HIDE DEF F
      <3>1. 1 \in 1 .. n
        BY <1>1
      <3> QED
        BY <1>6, <1>7, <3>1
    <2>3. ASSUME NEW k \in 1 .. n - 1
          PROVE  F[k + 1] = F[k] \o pieces[k + 1] /\ flatten[k + 1] = flatten[k] \o pieces[k + 1]
      <3> HIDE DEF F
      <3> QED
        BY <1>6, <1>7, <2>1
    <2> HIDE DEF F
    <2>4. 1 \in T /\ \A k \in 1 .. n - 1 : k \in T => k + 1 \in T
      <3> HIDE DEF F
      <3>1. ASSUME NEW k \in 1 .. n - 1, flatten[k] = F[k] PROVE flatten[k + 1] = F[k + 1]
        BY <2>3, <3>1
      <3> QED
        BY <2>2, <3>1
    <2> HIDE DEF T
    <2>5. 1 .. n \subseteq T
      BY <2>4, UpToInduction
    <2> QED
      BY <1>4, <2>5 DEF T
  <1>9. FlattenSeq(pieces) = flatten[n]
    BY <1>1, <1>5 DEF FlattenSeq, flatten
  <1> QED
    BY <1>4, <1>8, <1>9 DEF pieces

-----------------------------------------------------------------------------
(***************************************************************************)
(* The invariant.                                                          *)
(***************************************************************************)
\* The list is a path of distinct nodes.
Path(p) ==
    /\ Len(p) <= MaxNodes /\ Distinct(p) /\ Linked(next, p)
    /\ head = p[1] /\ tail = p[Len(p)] /\ next[tail] = NULL

\* Where the pointers cut it.
Cut(p, a, b, c) ==
    /\ a < b /\ b <= c /\ c < Len(p)
    /\ M2_prev = IF a = 0 THEN NULL ELSE p[a]
    /\ M2_next = IF b = c THEN tail ELSE p[b + 1]

\* The messages that hang at its end.
Hanging(p, c) ==
    IF pc = "push"
    THEN /\ prev_last_message = p[c] /\ Len(p) = c + 1 + i
         /\ out_buf \in Regions /\ i <= Len(out_buf) /\ i <= max_seed_region_count + 1
         /\ \A k \in 1 .. i : data[p[c + k]] = Piece(out_buf, k)
    ELSE Len(p) = c + 1

\* The old messages that are still to be freed.
Unlinked(g) ==
    IF pc = "free"
    THEN g # << >> /\ cur_it = g[1] /\ Linked(next, g) /\ next[g[Len(g)]] = M2_next
    ELSE g = << >>

\* Every node made is in the list, unlinked, or in the pool.
Owned(p, g) ==
    /\ Distinct(g) /\ Distinct(pool)
    /\ ToSet(p) \cap ToSet(g) = {} /\ ToSet(p) \cap ToSet(pool) = {}
    /\ ToSet(g) \cap ToSet(pool) = {}
    /\ ToSet(p) \cup ToSet(g) \cup ToSet(pool) = 1 .. made
    /\ Len(p) + Len(g) + Len(pool) = made
    /\ size = Len(p) - 1 + Len(g)

Busy(p, g, a, b, c) ==
    Path(p) /\ Cut(p, a, b, c) /\ Hanging(p, c) /\ Unlinked(g) /\ Owned(p, g)

Idle == head = 1 /\ tail = 1 /\ M2_prev = NULL /\ M2_next = 1 /\ sent = << >>

Inv ==
    /\ TypeOK
    /\ DOMAIN data = Nodes /\ i \in Nat
    /\ pc = "idle" => Idle
    /\ pc # "idle" => \E p, g \in Seq(Nodes) : \E a, b, c \in Nat : Busy(p, g, a, b, c)

-----------------------------------------------------------------------------
(***************************************************************************)
(* What the abstract specification sees of the list.                       *)
(***************************************************************************)
Before == Messages(head, M2_first)
Mutated == Messages(M2_first, IF M2_next = tail THEN End ELSE M2_next)
Behind == IF M2_next = tail THEN << >> ELSE Messages(M2_next, End)

LEMMA PartsNow ==
    ASSUME NEW p \in Seq(Nodes), NEW g, NEW a \in Nat, NEW b \in Nat, NEW c \in Nat,
           Busy(p, g, a, b, c), TypeOK
    PROVE  /\ Before = Part(data, p, 0, a)
           /\ Mutated = Part(data, p, a, b)
           /\ Behind = Part(data, p, b, c)
  <1>1. /\ Len(p) <= MaxNodes /\ Distinct(p) /\ Linked(next, p) /\ head = p[1] /\ tail = p[Len(p)]
        /\ a < b /\ b <= c /\ c < Len(p) /\ M2_prev = (IF a = 0 THEN NULL ELSE p[a])
        /\ M2_next = (IF b = c THEN p[Len(p)] ELSE p[b + 1])
        /\ next \in [Nodes -> 0 .. MaxNodes]
    BY DEF Busy, Path, Cut, TypeOK
  <1>2. End = p[c + 1]
    <2>1. CASE pc = "push"
      <3>1. prev_last_message = p[c] /\ c \in 1 .. Len(p) - 1
        BY <1>1, <2>1 DEF Busy, Hanging
      <3> QED
        BY <1>1, <2>1, <3>1 DEF End, Linked
    <2>2. CASE pc # "push"
      BY <1>1, <2>2 DEF Busy, Hanging, End
    <2> QED
      BY <2>1, <2>2
  <1>3. /\ MessagesIn(next, data, p[1], p[a + 1]) = Part(data, p, 0, a)
        /\ MessagesIn(next, data, p[a + 1], p[b + 1]) = Part(data, p, a, b)
        /\ MessagesIn(next, data, p[b + 1], p[c + 1]) = Part(data, p, b, c)
    <2>1. 0 \in Nat /\ 0 <= a /\ a < Len(p) /\ a <= b /\ b < Len(p)
      BY <1>1
    <2>2. MessagesIn(next, data, p[0 + 1], p[a + 1]) = Part(data, p, 0, a)
      BY <1>1, <2>1, MessagesFollow
    <2>3. MessagesIn(next, data, p[a + 1], p[b + 1]) = Part(data, p, a, b)
      BY <1>1, <2>1, MessagesFollow
    <2>4. MessagesIn(next, data, p[b + 1], p[c + 1]) = Part(data, p, b, c)
      BY <1>1, <2>1, MessagesFollow
    <2> QED
      BY <2>2, <2>3, <2>4
  <1>4. \A m, n : Messages(m, n) = MessagesIn(next, data, m, n)
    BY DEF Messages, MessagesIn, Upto, UptoIn
  <1>5. M2_first = p[a + 1]
    <2>1. a # 0 => a \in 1 .. Len(p) - 1 /\ p[a] \in Nodes /\ p[a] # NULL
      BY <1>1, MessageListAssumption DEF Nodes, NULL
    <2> QED
      BY <1>1, <2>1 DEF M2_first, NULL, Linked
  <1>6. M2_next = tail <=> b = c
    <2>1. b # c => b + 1 \in 1 .. Len(p) /\ b + 1 # Len(p) /\ Len(p) \in 1 .. Len(p)
      BY <1>1
    <2> QED
      BY <1>1, <2>1 DEF Distinct
  <1>7. b = c => Part(data, p, b, c) = << >>
    BY DEF Part
  <1> QED
    BY <1>1, <1>2, <1>3, <1>4, <1>5, <1>6, <1>7 DEF Before, Mutated, Behind

\* The same after a step.
LEMMA PartsNext ==
    ASSUME NEW p \in Seq(Nodes), NEW g, NEW a \in Nat, NEW b \in Nat, NEW c \in Nat,
           Busy(p, g, a, b, c)', TypeOK'
    PROVE  /\ Before' = Part(data', p, 0, a)
           /\ Mutated' = Part(data', p, a, b)
           /\ Behind' = Part(data', p, b, c)
  <1>1. /\ Len(p) <= MaxNodes /\ Distinct(p) /\ Linked(next', p) /\ head' = p[1] /\ tail' = p[Len(p)]
        /\ a < b /\ b <= c /\ c < Len(p) /\ M2_prev' = (IF a = 0 THEN NULL ELSE p[a])
        /\ M2_next' = (IF b = c THEN p[Len(p)] ELSE p[b + 1])
        /\ next' \in [Nodes -> 0 .. MaxNodes]
    BY DEF Busy, Path, Cut, TypeOK, Linked
  <1>2. End' = p[c + 1]
    <2>1. CASE pc' = "push"
      <3>1. prev_last_message' = p[c] /\ c \in 1 .. Len(p) - 1
        BY <1>1, <2>1 DEF Busy, Hanging
      <3> QED
        BY <1>1, <2>1, <3>1 DEF End, Linked
    <2>2. CASE pc' # "push"
      BY <1>1, <2>2 DEF Busy, Hanging, End
    <2> QED
      BY <2>1, <2>2
  <1>3. /\ MessagesIn(next', data', p[1], p[a + 1]) = Part(data', p, 0, a)
        /\ MessagesIn(next', data', p[a + 1], p[b + 1]) = Part(data', p, a, b)
        /\ MessagesIn(next', data', p[b + 1], p[c + 1]) = Part(data', p, b, c)
    <2>1. 0 \in Nat /\ 0 <= a /\ a < Len(p) /\ a <= b /\ b < Len(p)
      BY <1>1
    <2>2. MessagesIn(next', data', p[0 + 1], p[a + 1]) = Part(data', p, 0, a)
      BY <1>1, <2>1, MessagesFollow
    <2>3. MessagesIn(next', data', p[a + 1], p[b + 1]) = Part(data', p, a, b)
      BY <1>1, <2>1, MessagesFollow
    <2>4. MessagesIn(next', data', p[b + 1], p[c + 1]) = Part(data', p, b, c)
      BY <1>1, <2>1, MessagesFollow
    <2> QED
      BY <2>2, <2>3, <2>4
  <1>4. \A m, n : Messages(m, n)' = MessagesIn(next', data', m, n)
    BY DEF Messages, MessagesIn, Upto, UptoIn
  <1>5. M2_first' = p[a + 1]
    <2>1. a # 0 => a \in 1 .. Len(p) - 1 /\ p[a] \in Nodes /\ p[a] # NULL
      BY <1>1, MessageListAssumption DEF Nodes, NULL
    <2> QED
      BY <1>1, <2>1 DEF M2_first, NULL, Linked
  <1>6. M2_next' = tail' <=> b = c
    <2>1. b # c => b + 1 \in 1 .. Len(p) /\ b + 1 # Len(p) /\ Len(p) \in 1 .. Len(p)
      BY <1>1
    <2> QED
      BY <1>1, <2>1 DEF Distinct
  <1>7. b = c => Part(data', p, b, c) = << >>
    BY DEF Part
  <1> QED
    BY <1>1, <1>2, <1>3, <1>4, <1>5, <1>6, <1>7 DEF Before, Mutated, Behind

\* The parts stay as they are when their nodes keep their messages.
LEMMA PartsStay ==
    ASSUME NEW p \in Seq(Nodes), NEW q \in Seq(Nodes), NEW g, NEW h,
           NEW a \in Nat, NEW b \in Nat, NEW c \in Nat,
           Busy(p, g, a, b, c), TypeOK, Busy(q, h, a, b, c)', TypeOK',
           \A k \in 1 .. c : data'[q[k]] = data[p[k]]
    PROVE  UNCHANGED <<Before, Mutated, Behind>>
  <1>1. ASSUME NEW m \in Nat, NEW n \in Nat, n <= c
        PROVE  Part(data', q, m, n) = Part(data, p, m, n)
    <2>1. \A k \in 1 .. n - m : m + k \in 1 .. c
      BY <1>1
    <2>2. \A k \in 1 .. n - m : data'[q[m + k]] = data[p[m + k]]
      BY <2>1
    <2> QED
      BY <2>2 DEF Part
  <1>2. a < b /\ b <= c
    BY DEF Busy, Cut
  <1>3. /\ Before = Part(data, p, 0, a) /\ Mutated = Part(data, p, a, b) /\ Behind = Part(data, p, b, c)
    BY PartsNow
  <1>4. /\ Before' = Part(data', q, 0, a) /\ Mutated' = Part(data', q, a, b)
        /\ Behind' = Part(data', q, b, c)
    BY PartsNext
  <1> QED
    BY <1>1, <1>2, <1>3, <1>4

\* Nothing lies between a node and itself.
LEMMA NothingBetween ==
    ASSUME NEW links \in [Nodes -> 0 .. MaxNodes], NEW texts
    PROVE  MessagesIn(links, texts, 1, 1) = << >>
  <1> DEFINE p == <<1>>
  <1>1. p \in Seq(Nodes) /\ Len(p) = 1 /\ p[0 + 1] = 1 /\ 1 <= MaxNodes
    BY MessageListAssumption DEF Nodes
  <1>2. Distinct(p) /\ Linked(links, p)
    BY <1>1 DEF Distinct, Linked
  <1> HIDE DEF p
  <1>3. MessagesIn(links, texts, p[0 + 1], p[0 + 1]) = Part(texts, p, 0, 0)
    <2>1. 0 \in Nat /\ 0 <= 0 /\ 0 < Len(p) /\ Len(p) <= MaxNodes
      BY <1>1
    <2> QED
      BY <1>1, <1>2, <2>1, MessagesFollow
  <1> QED
    BY <1>1, <1>3 DEF Part

\* The list of construct_kl_messages is the one of an empty queue entry.
LEMMA InitInv == Init => Inv
  BY MessageListAssumption DEF Init, Inv, TypeOK, Idle, Nodes, NULL

\* A new list: as many nodes as messages and a blank one, in a row.
LEMMA ConstructInv ==
    ASSUME Inv, NEW seed \in Seeds, NEW start \in 0 .. Len(seed) - 1, NEW count \in 1 .. Len(seed),
           Construct(seed, start, count)
    PROVE  Inv'
  <1> DEFINE n == Len(seed)
             row == [k \in 1 .. n + 1 |-> k]
  <1>1. n \in Nat /\ MaxNodes \in Nat /\ n + 1 <= MaxNodes /\ start + count <= n
        /\ start \in Nat /\ count \in Nat \ {0}
    BY MessageListAssumption, LenProperties DEF Construct
  <1> HIDE DEF n
  <1>2. /\ row \in Seq(Nodes) /\ Len(row) = n + 1 /\ << >> \in Seq(Nodes) /\ Len(<< >>) = 0
        /\ \A k \in 1 .. n + 1 : row[k] = k
    BY <1>1 DEF Nodes
  <1>3. /\ pc' = "ready" /\ head' = 1 /\ tail' = n + 1 /\ size' = n /\ made' = n + 1 /\ pool' = << >>
        /\ next' = [k \in Nodes |-> IF k <= n THEN k + 1 ELSE NULL]
        /\ DOMAIN data' = Nodes
        /\ M2_prev' = start /\ M2_next' = start + count + 1 /\ i' = i
    BY DEF Construct, splice, n
  <1>4. TypeOK' /\ (DOMAIN data = Nodes)' /\ i' \in Nat
    BY <1>1, <1>2, <1>3 DEF TypeOK, Nodes, NULL, Inv
  <1> HIDE DEF row
  <1>5. Path(row)'
    <2>1. Distinct(row)
      BY <1>1, <1>2 DEF Distinct
    <2>2. Linked(next, row)'
      <3>1. ASSUME NEW k \in 1 .. n PROVE next'[row[k]] = row[k + 1]
        <4>1. k \in Nodes /\ row[k] = k /\ row[k + 1] = k + 1
          BY <1>1, <1>2 DEF Nodes
        <4> QED
          BY <1>1, <1>3, <4>1
      <3>2. Len(row) - 1 = n
        BY <1>1, <1>2
      <3> QED
        BY <3>1, <3>2 DEF Linked
    <2>3. next'[n + 1] = NULL
      BY <1>1, <1>3 DEF Nodes
    <2>4. row[1] = 1 /\ row[Len(row)] = n + 1
      BY <1>1, <1>2
    <2> QED
      BY <1>1, <1>2, <1>3, <2>1, <2>2, <2>3, <2>4 DEF Path
  <1>6. Cut(row, start, start + count, n)'
    BY <1>1, <1>2, <1>3 DEF Cut, NULL
  <1>7. Hanging(row, n)' /\ Unlinked(<< >>)'
    BY <1>2, <1>3 DEF Hanging, Unlinked
  <1>8. Owned(row, << >>)'
    <2>1. ToSet(row) = 1 .. n + 1
      BY <1>2 DEF ToSet, row
    <2>2. ToSet(<< >>) = {}
      BY DEF ToSet
    <2> QED
      BY <1>1, <1>2, <1>3, <2>1, <2>2 DEF Owned, Distinct
  <1>9. Busy(row, << >>, start, start + count, n)'
    BY <1>5, <1>6, <1>7, <1>8 DEF Busy
  <1>10. \E p, g \in Seq(Nodes) : \E a, b, c \in Nat : Busy(p, g, a, b, c)'
    <2>1. start + count \in Nat
      BY <1>1
    <2> QED
      BY <1>1, <1>2, <1>9, <2>1
  <1> QED
    BY <1>3, <1>4, <1>10 DEF Inv

LEMMA AbandonInv ==
    ASSUME Inv, Abandon
    PROVE  Inv'
  BY MessageListAssumption DEF Abandon, Inv, TypeOK, Idle, Nodes, NULL, splice

\* The invariant is about these variables only.
LEMMA IdleInv ==
    ASSUME Inv, UNCHANGED vars
    PROVE  Inv'
  <1>1. TypeOK' /\ (DOMAIN data = Nodes)' /\ i' \in Nat /\ (pc' = "idle" => Idle')
    BY DEF vars, list, splice, Inv, TypeOK, Idle
  <1>2. CASE pc # "idle"
    <2>1. PICK p \in Seq(Nodes), g \in Seq(Nodes), a \in Nat, b \in Nat, c \in Nat : Busy(p, g, a, b, c)
      BY <1>2 DEF Inv
    <2>2. Busy(p, g, a, b, c)'
      BY <2>1 DEF vars, list, splice, Busy, Path, Cut, Hanging, Unlinked, Owned
    <2> QED
      BY <1>1, <1>2, <2>2 DEF Inv, vars
  <1>3. CASE pc = "idle"
    BY <1>1, <1>3 DEF Inv, vars
  <1> QED
    BY <1>2, <1>3

\* From the first node to the blank one there are all the messages.
LEMMA WholeList ==
    ASSUME NEW p \in Seq(Nodes), Path(p), TypeOK, Len(p) >= 1
    PROVE  Upto(head, tail) = [k \in 1 .. Len(p) - 1 |-> p[k]]
  <1> DEFINE n == Len(p)
             nodes == [k \in 1 .. n - 1 |-> p[1 + k - 1]]
  <1>1. n \in Nat /\ 1 \in 1 .. n /\ n \in 1 .. n /\ 1 <= n
    OBVIOUS
  <1>2. UptoIn(next, p[1], p[n]) = nodes
    BY <1>1, UptoFollows DEF Path, TypeOK
  <1>3. Upto(head, tail) = nodes
    <2>1. Upto(head, tail) = UptoIn(next, head, tail)
      BY DEF Upto, UptoIn
    <2> HIDE DEF nodes
    <2> QED
      BY <1>2, <2>1 DEF Path
  <1>4. \A k \in 1 .. n - 1 : 1 + k - 1 = k
    OBVIOUS
  <1> QED
    BY <1>3, <1>4

\* What Parse remembers is the last node before the blank one.
LEMMA LastMessage ==
    ASSUME NEW p \in Seq(Nodes), Path(p), TypeOK, Len(p) >= 2
    PROVE  get_last_message = p[Len(p) - 1]
  <1> DEFINE nodes == [k \in 1 .. Len(p) - 1 |-> p[k]]
  <1>1. Upto(head, tail) = nodes
    BY WholeList
  <1>2. Len(nodes) = Len(p) - 1 /\ Len(p) - 1 \in 1 .. Len(p) - 1
    OBVIOUS
  <1> QED
    BY <1>1, <1>2 DEF get_last_message, Last

LEMMA ParseInv ==
    ASSUME Inv, NEW regions \in Regions, Parse(regions)
    PROVE  Inv' /\ UNCHANGED <<Before, Mutated, Behind>>
  <1>1. PICK p \in Seq(Nodes), g \in Seq(Nodes), a \in Nat, b \in Nat, c \in Nat : Busy(p, g, a, b, c)
    BY DEF Inv, Parse
  <1>2. Len(p) = c + 1 /\ c >= 1
    BY <1>1 DEF Busy, Hanging, Cut, Parse
  <1>3. prev_last_message' = p[c]
    <2>1. Path(p) /\ TypeOK /\ Len(p) >= 2 /\ Len(p) - 1 = c
      BY <1>1, <1>2 DEF Busy, Inv
    <2>2. get_last_message = p[c]
      BY <2>1, LastMessage
    <2> QED
      BY <2>2 DEF Parse
  <1>4. Path(p)' /\ Cut(p, a, b, c)' /\ Owned(p, g)'
    BY <1>1 DEF Busy, Path, Cut, Owned, Parse, list
  <1>5. g = << >> /\ Unlinked(g)'
    BY <1>1 DEF Busy, Unlinked, Parse
  <1>6. Hanging(p, c)'
    <2>1. regions \in Seq(ToSet(regions)) /\ max_seed_region_count \in Nat
      BY MessageListAssumption
    <2>2. pc' = "push" /\ out_buf' = regions /\ i' = 0 /\ 0 <= Len(regions)
      BY <2>1 DEF Parse
    <2> QED
      BY <1>2, <1>3, <2>1, <2>2 DEF Hanging
  <1>7. TypeOK' /\ (DOMAIN data = Nodes)' /\ i' \in Nat /\ pc' # "idle"
    BY DEF Inv, TypeOK, Parse, list
  <1>8. Busy(p, g, a, b, c)'
    BY <1>4, <1>5, <1>6 DEF Busy
  <1>9. UNCHANGED <<Before, Mutated, Behind>>
    <2>1. data' = data /\ TypeOK
      BY DEF Parse, list, Inv
    <2> QED
      BY <1>1, <1>7, <1>8, <2>1, PartsStay
  <1> QED
    BY <1>7, <1>8, <1>9 DEF Inv

LEMMA RunInv ==
    ASSUME Inv, Run
    PROVE  Inv' /\ UNCHANGED <<Before, Mutated, Behind>>
  <1>1. PICK p \in Seq(Nodes), g \in Seq(Nodes), a \in Nat, b \in Nat, c \in Nat : Busy(p, g, a, b, c)
    BY DEF Inv, Run
  <1>2. Busy(p, g, a, b, c)'
    BY <1>1 DEF Busy, Path, Cut, Hanging, Unlinked, Owned, Run, list
  <1>3. TypeOK' /\ (DOMAIN data = Nodes)' /\ i' \in Nat /\ pc' # "idle"
    BY DEF Inv, TypeOK, Run, list
  <1>4. UNCHANGED <<Before, Mutated, Behind>>
    <2>1. data' = data /\ TypeOK
      BY DEF Run, list, Inv
    <2> QED
      BY <1>1, <1>2, <1>3, <2>1, PartsStay
  <1> QED
    BY <1>2, <1>3, <1>4 DEF Inv

-----------------------------------------------------------------------------
(***************************************************************************)
(* Sequences without repetition: one element more, without the last and    *)
(* without the first.                                                      *)
(***************************************************************************)
LEMMA AppendDistinct ==
    ASSUME NEW S, NEW s \in Seq(S), NEW e \in S, Distinct(s), e \notin ToSet(s)
    PROVE  /\ Append(s, e) \in Seq(S) /\ Len(Append(s, e)) = Len(s) + 1
           /\ \A k \in 1 .. Len(s) : Append(s, e)[k] = s[k]
           /\ Append(s, e)[Len(s) + 1] = e
           /\ ToSet(Append(s, e)) = ToSet(s) \cup {e} /\ Distinct(Append(s, e))
  <1> DEFINE t == Append(s, e)
  <1>1. /\ t \in Seq(S) /\ Len(t) = Len(s) + 1 /\ \A k \in 1 .. Len(s) : t[k] = s[k]
        /\ t[Len(s) + 1] = e /\ DOMAIN t = 1 .. Len(s) + 1 /\ DOMAIN s = 1 .. Len(s) /\ Len(s) \in Nat
    OBVIOUS
  <1> HIDE DEF t
  <1>2. ToSet(t) = ToSet(s) \cup {e}
    <2>1. ASSUME NEW x \in ToSet(s) \cup {e} PROVE x \in ToSet(t)
      BY <1>1 DEF ToSet
    <2>2. ASSUME NEW x \in ToSet(t) PROVE x \in ToSet(s) \cup {e}
      BY <1>1 DEF ToSet
    <2> QED
      BY <2>1, <2>2
  <1>3. Distinct(t)
    BY <1>1 DEF Distinct, ToSet
  <1> QED
    BY <1>1, <1>2, <1>3 DEF t

LEMMA FrontDistinct ==
    ASSUME NEW S, NEW s \in Seq(S), s # << >>, Distinct(s)
    PROVE  /\ Front(s) \in Seq(S) /\ Len(Front(s)) = Len(s) - 1
           /\ Last(s) \in ToSet(s)
           /\ ToSet(Front(s)) = ToSet(s) \ {Last(s)} /\ Distinct(Front(s))
  <1> DEFINE t == Front(s)
             n == Len(s)
  <1>1. n \in Nat \ {0} /\ DOMAIN s = 1 .. n /\ \A k \in 1 .. n : s[k] \in S
    BY EmptySeq, LenProperties, ElementOfSeq
  <1> HIDE DEF n
  <1>2. t \in Seq(S) /\ Len(t) = n - 1 /\ \A k \in 1 .. n - 1 : t[k] = s[k]
    <2>1. 1 \in Int /\ n - 1 \in Int /\ \A k \in 1 .. n - 1 : s[k] \in S
      BY <1>1
    <2>2. /\ SubSeq(s, 1, n - 1) \in Seq(S)
          /\ Len(SubSeq(s, 1, n - 1)) = IF 1 <= n - 1 THEN (n - 1) - 1 + 1 ELSE 0
          /\ \A k \in 1 .. (n - 1) - 1 + 1 : SubSeq(s, 1, n - 1)[k] = s[1 + k - 1]
      BY <2>1, SubSeqProperties
    <2>3. t = SubSeq(s, 1, n - 1)
      BY DEF Front, n
    <2> HIDE DEF t
    <2> QED
      BY <1>1, <2>2, <2>3
  <1>3. Last(s) = s[n]
    BY DEF Last, n
  <1>4. DOMAIN t = 1 .. n - 1
    BY <1>2, LenProperties
  <1> HIDE DEF t
  <1>5. \A j, k \in 1 .. n : s[j] = s[k] => j = k
    BY DEF Distinct, n
  <1>6. ToSet(t) = ToSet(s) \ {s[n]}
    <2>1. ASSUME NEW x \in ToSet(t) PROVE x \in ToSet(s) \ {s[n]}
      BY <1>1, <1>2, <1>4, <1>5 DEF ToSet
    <2>2. ASSUME NEW x \in ToSet(s) \ {s[n]} PROVE x \in ToSet(t)
      <3>1. PICK k \in 1 .. n : x = s[k] /\ k # n
        BY <1>1 DEF ToSet
      <3>2. k \in 1 .. n - 1
        BY <1>1, <3>1
      <3> QED
        BY <1>2, <1>4, <3>1, <3>2 DEF ToSet
    <2> QED
      BY <2>1, <2>2
  <1>7. Distinct(t)
    BY <1>1, <1>2, <1>5 DEF Distinct
  <1>8. s[n] \in ToSet(s)
    BY <1>1 DEF ToSet
  <1> QED
    BY <1>2, <1>3, <1>6, <1>7, <1>8 DEF t, n

LEMMA TailDistinct ==
    ASSUME NEW S, NEW s \in Seq(S), s # << >>, Distinct(s)
    PROVE  /\ Tail(s) \in Seq(S) /\ Len(Tail(s)) = Len(s) - 1
           /\ \A k \in 1 .. Len(s) - 1 : Tail(s)[k] = s[k + 1]
           /\ s[1] \in ToSet(s)
           /\ ToSet(Tail(s)) = ToSet(s) \ {s[1]} /\ Distinct(Tail(s))
  <1> DEFINE t == Tail(s)
             n == Len(s)
  <1>1. n \in Nat \ {0} /\ DOMAIN s = 1 .. n
    BY EmptySeq, LenProperties
  <1> HIDE DEF n
  <1>2. t \in Seq(S) /\ Len(t) = n - 1 /\ \A k \in 1 .. n - 1 : t[k] = s[k + 1]
    BY HeadTailProperties DEF n
  <1>3. DOMAIN t = 1 .. n - 1
    BY <1>2, LenProperties
  <1> HIDE DEF t
  <1>4. \A j, k \in 1 .. n : s[j] = s[k] => j = k
    BY DEF Distinct, n
  <1>5. ToSet(t) = ToSet(s) \ {s[1]}
    <2>1. ASSUME NEW x \in ToSet(t) PROVE x \in ToSet(s) \ {s[1]}
      <3>1. PICK k \in 1 .. n - 1 : x = s[k + 1]
        BY <1>2, <1>3 DEF ToSet
      <3>2. k + 1 \in 1 .. n /\ 1 \in 1 .. n /\ k + 1 # 1
        BY <1>1
      <3> QED
        BY <1>1, <1>4, <3>1, <3>2 DEF ToSet
    <2>2. ASSUME NEW x \in ToSet(s) \ {s[1]} PROVE x \in ToSet(t)
      <3>1. PICK k \in 1 .. n : x = s[k] /\ k # 1
        BY <1>1 DEF ToSet
      <3>2. k - 1 \in 1 .. n - 1 /\ (k - 1) + 1 = k
        BY <1>1, <3>1
      <3>3. t[k - 1] = x
        BY <1>2, <3>1, <3>2
      <3> QED
        BY <1>3, <3>2, <3>3 DEF ToSet
    <2> QED
      BY <2>1, <2>2
  <1>6. Distinct(t)
    <2>1. ASSUME NEW j \in 1 .. n - 1, NEW k \in 1 .. n - 1, t[j] = t[k] PROVE j = k
      <3>1. j + 1 \in 1 .. n /\ k + 1 \in 1 .. n /\ s[j + 1] = s[k + 1]
        BY <1>1, <1>2, <2>1
      <3> QED
        BY <1>4, <3>1
    <2> QED
      BY <1>2, <2>1 DEF Distinct
  <1>7. s[1] \in ToSet(s)
    BY <1>1 DEF ToSet
  <1> QED
    BY <1>2, <1>5, <1>6, <1>7 DEF t, n

-----------------------------------------------------------------------------
(***************************************************************************)
(* A push makes the list one node longer at its end.                       *)
(***************************************************************************)
LEMMA PushInv ==
    ASSUME Inv, Push
    PROVE  Inv' /\ UNCHANGED <<Before, Mutated, Behind>>
  <1>1. PICK p \in Seq(Nodes), g \in Seq(Nodes), a \in Nat, b \in Nat, c \in Nat : Busy(p, g, a, b, c)
    BY DEF Inv, Push
  <1>2. PICK new \in Nodes : new = kmp_alloc
    BY DEF Push, kl_pushp
  <1>3. PICK q \in Seq(Nodes) : q = Append(p, new)
    <2>1. Append(p, new) \in Seq(Nodes)
      OBVIOUS
    <2> QED
      BY <2>1
  <1>4. PICK n \in Nat : n = Len(p)
    OBVIOUS
  <1>5. pc = "push" /\ pc' = "push" /\ g = << >>
    BY <1>1 DEF Push, Busy, Unlinked
  <1>6. /\ MaxNodes \in Nat \ {0} /\ max_seed_region_count \in Nat /\ out_buf \in Seq(ToSet(out_buf))
        /\ n = c + 1 + i /\ i \in Nat /\ i < Len(out_buf) /\ i <= max_seed_region_count
        /\ a < b /\ b <= c /\ c < n /\ made \in Nodes
    <2>1. out_buf \in Regions /\ n = c + 1 + i /\ i <= Len(out_buf)
      BY <1>1, <1>4, <1>5 DEF Busy, Hanging
    <2>2. /\ {max_seed_region_count, MaxNodes} \subseteq Nat \ {0}
          /\ out_buf \in Seq(ToSet(out_buf)) /\ Len(out_buf) \in Nat /\ i \in Nat
      BY <2>1, MessageListAssumption DEF Inv
    <2>3. i # Len(out_buf) /\ ~ (i > max_seed_region_count)
      BY DEF Push, AllPushed
    <2>4. a < b /\ b <= c /\ c < n /\ made \in Nodes
      BY <1>1, <1>4 DEF Busy, Cut, Inv, TypeOK
    <2> QED
      BY <2>1, <2>2, <2>3, <2>4
  <1>7. /\ ToSet(p) \cap ToSet(pool) = {} /\ ToSet(p) \cup ToSet(pool) = 1 .. made
        /\ n + Len(pool) = made /\ size = n - 1 /\ Distinct(pool) /\ pool \in Seq(Nodes)
    <2>1. ToSet(g) = {} /\ Len(g) = 0
      BY <1>5 DEF ToSet
    <2>2. /\ ToSet(p) \cap ToSet(pool) = {} /\ ToSet(p) \cup ToSet(g) \cup ToSet(pool) = 1 .. made
          /\ n + Len(g) + Len(pool) = made /\ size = n - 1 + Len(g) /\ Distinct(pool)
          /\ pool \in Seq(Nodes)
      BY <1>1, <1>4 DEF Busy, Owned, Inv, TypeOK
    <2>3. Len(pool) \in Nat
      BY <2>2
    <2> QED
      BY <2>1, <2>2, <2>3
  \* The pool loses the new node, if it has one.
  <1>8. /\ new \notin ToSet(p) /\ pool' \in Seq(Nodes) /\ Distinct(pool') /\ made' \in Nodes
        /\ new \notin ToSet(pool') /\ ToSet(p) \cap ToSet(pool') = {}
        /\ ToSet(p) \cup {new} \cup ToSet(pool') = 1 .. made' /\ (n + 1) + Len(pool') = made'
    <2>1. CASE pool = << >>
      <3>1. new = made + 1 /\ made' = made + 1 /\ pool' = pool
        BY <1>2, <2>1 DEF kmp_alloc, Push, kl_pushp
      <3>2. ToSet(pool) = {} /\ Len(pool) = 0
        BY <2>1 DEF ToSet
      <3>3. 1 .. made + 1 = 1 .. made \cup {made + 1} /\ made + 1 \notin 1 .. made
        BY <1>6 DEF Nodes
      <3>4. (n + 1) + Len(pool) = made + 1
        BY <1>6, <1>7, <3>2
      <3> QED
        BY <1>7, <3>1, <3>2, <3>3, <3>4
    <2>2. CASE pool # << >>
      <3>1. new = Last(pool) /\ made' = made /\ pool' = Front(pool)
        BY <1>2, <2>2 DEF kmp_alloc, Push, kl_pushp
      <3>2. /\ Front(pool) \in Seq(Nodes) /\ Len(Front(pool)) = Len(pool) - 1
            /\ Last(pool) \in ToSet(pool)
            /\ ToSet(Front(pool)) = ToSet(pool) \ {Last(pool)} /\ Distinct(Front(pool))
        BY <1>7, <2>2, FrontDistinct
      <3>3. Len(pool) \in Nat
        BY <1>7
      <3> QED
        BY <1>6, <1>7, <3>1, <3>2, <3>3
    <2> QED
      BY <2>1, <2>2
  <1>9. Distinct(p) /\ Linked(next, p) /\ head = p[1] /\ tail = p[n] /\ n \in 1 .. MaxNodes
        /\ next \in [Nodes -> 0 .. MaxNodes]
    BY <1>1, <1>4, <1>6 DEF Busy, Path, Inv, TypeOK
  <1>10. /\ Len(q) = n + 1 /\ q[n + 1] = new /\ \A k \in 1 .. n : q[k] = p[k]
         /\ ToSet(q) = ToSet(p) \cup {new} /\ Distinct(q)
    BY <1>3, <1>4, <1>8, <1>9, AppendDistinct
  <1>11. \A k \in 1 .. n : p[k] \in Nodes /\ p[k] # new
    <2>1. ASSUME NEW k \in 1 .. n PROVE p[k] \in Nodes /\ p[k] \in ToSet(p)
      BY <1>4 DEF ToSet
    <2> QED
      BY <1>8, <2>1
  <1>12. /\ next' = [next EXCEPT ![new] = NULL, ![tail] = new]
         /\ tail' = new /\ head' = head /\ size' = size + 1
         /\ data' = [data EXCEPT ![tail] = RestOf]
    BY <1>2 DEF Push, kl_pushp
  <1>13. n + 1 <= MaxNodes
    BY <1>6, <1>8 DEF Nodes
  <1>14. /\ next' \in [Nodes -> 0 .. MaxNodes] /\ next'[new] = NULL /\ next'[p[n]] = new
         /\ \A k \in 1 .. n - 1 : next'[p[k]] = p[k + 1]
    <2>1. \A k \in 1 .. n - 1 : p[k] # p[n] /\ next[p[k]] = p[k + 1] /\ p[k] # new /\ p[k] \in Nodes
      BY <1>4, <1>9, <1>11 DEF Distinct, Linked
    <2>2. p[n] \in Nodes /\ p[n] # new /\ new \in 0 .. MaxNodes /\ NULL \in 0 .. MaxNodes
      BY <1>6, <1>9, <1>11 DEF Nodes, NULL
    <2> QED
      BY <1>9, <1>12, <2>1, <2>2
  <1>15. Path(q)'
    <2>1. ASSUME NEW k \in 1 .. (n + 1) - 1 PROVE next'[q[k]] = q[k + 1]
      <3>1. CASE k = n
        <4>1. q[n] = p[n] /\ q[n + 1] = new
          BY <1>9, <1>10
        <4> QED
          BY <1>14, <3>1, <4>1
      <3>2. CASE k # n
        <4>1. k \in 1 .. n - 1 /\ k \in 1 .. n /\ k + 1 \in 1 .. n
          BY <3>2
        <4>2. q[k] = p[k] /\ q[k + 1] = p[k + 1]
          BY <1>10, <4>1
        <4> QED
          BY <1>14, <4>1, <4>2
      <3> QED
        BY <3>1, <3>2
    <2>2. Linked(next, q)'
      BY <1>10, <2>1 DEF Linked
    <2>3. q[1] = p[1]
      BY <1>9, <1>10
    <2> QED
      BY <1>9, <1>10, <1>12, <1>13, <1>14, <2>2, <2>3 DEF Path
  <1>16. Cut(q, a, b, c)'
    <2>1. M2_prev' = M2_prev /\ M2_next' = IF next'[M2_next] = new THEN new ELSE M2_next
      BY <1>12 DEF Push
    <2>2. /\ M2_prev = IF a = 0 THEN NULL ELSE p[a]
          /\ M2_next = IF b = c THEN p[n] ELSE p[b + 1]
      BY <1>1, <1>9 DEF Busy, Cut
    <2>3. M2_prev' = IF a = 0 THEN NULL ELSE q[a]
      BY <1>6, <1>10, <2>1, <2>2
    <2>4. M2_next' = IF b = c THEN new ELSE q[b + 1]
      <3>1. CASE b = c
        BY <1>14, <2>1, <2>2, <3>1
      <3>2. CASE b # c
        <4>1. b + 1 \in 1 .. n - 1 /\ (b + 1) + 1 \in 1 .. n
          BY <1>6, <3>2
        <4>2. next'[p[b + 1]] # new
          BY <1>11, <1>14, <4>1
        <4> QED
          BY <1>10, <2>1, <2>2, <3>2, <4>1, <4>2
      <3> QED
        BY <3>1, <3>2
    <2> QED
      BY <1>6, <1>10, <1>12, <2>3, <2>4 DEF Cut
  <1>17. Hanging(q, c)'
    <2>1. /\ i' = i + 1 /\ out_buf' = out_buf /\ prev_last_message' = prev_last_message
          /\ out_buf \in Regions /\ prev_last_message = p[c]
          /\ \A k \in 1 .. i : data[p[c + k]] = Piece(out_buf, k)
      BY <1>1, <1>5 DEF Push, Busy, Hanging
    <2>2. p[c] = q[c]
      BY <1>6, <1>10
    <2>3. DOMAIN data = Nodes
      BY DEF Inv
    <2>4. ASSUME NEW k \in 1 .. i + 1 PROVE data'[q[c + k]] = Piece(out_buf, k)
      <3>1. c + k \in 1 .. n /\ q[c + k] = p[c + k]
        BY <1>6, <1>10
      <3>2. CASE k = i + 1
        <4>1. c + k = n
          BY <1>6, <3>2
        <4>2. data'[p[n]] = RestOf
          BY <1>9, <1>11, <1>12, <2>3
        <4>3. RestOf = Piece(out_buf, k)
          <5>1. i = max_seed_region_count <=> k = max_seed_region_count + 1
            BY <1>6, <3>2
          <5> QED
            BY <3>2, <5>1 DEF RestOf, Piece
        <4> QED
          BY <3>1, <4>1, <4>2, <4>3
      <3>3. CASE k # i + 1
        <4>1. k \in 1 .. i /\ c + k \in 1 .. n /\ c + k # n
          BY <1>6, <3>3
        <4>2. p[c + k] # p[n] /\ p[c + k] \in Nodes
          BY <1>4, <1>9, <1>11, <4>1 DEF Distinct
        <4>3. data'[p[c + k]] = data[p[c + k]]
          BY <1>9, <1>12, <2>3, <4>2
        <4> QED
          BY <2>1, <3>1, <4>1, <4>3
      <3> QED
        BY <3>2, <3>3
    <2>5. i + 1 <= Len(out_buf) /\ i + 1 <= max_seed_region_count + 1 /\ n + 1 = c + 1 + (i + 1)
      BY <1>6
    <2> QED
      BY <1>5, <1>10, <2>1, <2>2, <2>4, <2>5 DEF Hanging
  <1>18. Unlinked(g)' /\ Owned(q, g)'
    <2>1. ToSet(g) = {} /\ Len(g) = 0 /\ Distinct(g)
      BY <1>5 DEF ToSet, Distinct
    <2>2. (n + 1) + 0 + Len(pool') = made' /\ size' = (n + 1) - 1 + 0
      BY <1>6, <1>7, <1>8, <1>12
    <2> QED
      BY <1>5, <1>8, <1>10, <2>1, <2>2 DEF Unlinked, Owned
  <1>19. TypeOK'
    <2>1. head' \in Nodes /\ tail' \in Nodes /\ size' \in 0 .. MaxNodes
      BY <1>6, <1>7, <1>12, <1>13 DEF Inv, TypeOK, Nodes
    <2> QED
      BY <1>5, <1>8, <1>12, <1>14, <2>1 DEF TypeOK
  <1>20. (DOMAIN data = Nodes)' /\ i' \in Nat
    BY <1>6, <1>12 DEF Inv, Push
  <1>21. Busy(q, g, a, b, c)'
    BY <1>15, <1>16, <1>17, <1>18 DEF Busy
  <1>22. UNCHANGED <<Before, Mutated, Behind>>
    <2>1. ASSUME NEW k \in 1 .. c PROVE data'[q[k]] = data[p[k]]
      <3>1. k \in 1 .. n /\ n \in 1 .. n /\ k # n
        BY <1>6
      <3>2. q[k] = p[k] /\ p[k] # p[n] /\ p[k] \in Nodes
        BY <1>4, <1>9, <1>10, <1>11, <3>1 DEF Distinct
      <3> QED
        BY <1>9, <1>12, <3>2 DEF Inv
    <2>2. TypeOK
      BY DEF Inv
    <2> QED
      BY <1>1, <1>19, <1>21, <2>1, <2>2, PartsStay
  <1> QED
    BY <1>5, <1>19, <1>20, <1>21, <1>22 DEF Inv

(***************************************************************************)
(* A freed node moves from the unlinked ones to the pool.                  *)
(***************************************************************************)
LEMMA FreeOneInv ==
    ASSUME Inv, FreeOne
    PROVE  Inv' /\ UNCHANGED <<Before, Mutated, Behind>>
  <1>1. PICK p \in Seq(Nodes), g \in Seq(Nodes), a \in Nat, b \in Nat, c \in Nat : Busy(p, g, a, b, c)
    BY DEF Inv, FreeOne
  <1>2. PICK h \in Seq(Nodes), n \in Nat : h = Tail(g) /\ n = Len(g)
    <2>1. g # << >>
      BY <1>1 DEF Busy, Unlinked, FreeOne
    <2>2. Tail(g) \in Seq(Nodes) /\ Len(g) \in Nat
      BY <2>1, HeadTailProperties
    <2> QED
      BY <2>2
  <1>3. pc = "free" /\ g # << >> /\ cur_it = g[1] /\ Linked(next, g) /\ next[g[n]] = M2_next
    BY <1>1, <1>2 DEF FreeOne, Busy, Unlinked
  <1>4. /\ pool' = Append(pool, g[1]) /\ size' = size - 1 /\ cur_it' = next[g[1]]
        /\ pc' = IF next[g[1]] = M2_next THEN "run" ELSE "free"
        /\ data' = [data EXCEPT ![cur_it] = Stale]
        /\ UNCHANGED <<next, head, tail, made, M2_prev, M2_next, i>>
    BY <1>3 DEF FreeOne
  <1>5. /\ Distinct(g) /\ Distinct(pool) /\ pool \in Seq(Nodes)
        /\ ToSet(p) \cap ToSet(g) = {} /\ ToSet(p) \cap ToSet(pool) = {}
        /\ ToSet(g) \cap ToSet(pool) = {}
        /\ ToSet(p) \cup ToSet(g) \cup ToSet(pool) = 1 .. made
        /\ Len(p) + n + Len(pool) = made
        /\ size = Len(p) - 1 + n
    BY <1>1, <1>2 DEF Busy, Owned, Inv, TypeOK
  <1>6. /\ n \in Nat \ {0} /\ Len(h) = n - 1 /\ \A k \in 1 .. n - 1 : h[k] = g[k + 1]
        /\ g[1] \in ToSet(g) /\ ToSet(h) = ToSet(g) \ {g[1]} /\ Distinct(h)
    BY <1>2, <1>3, <1>5, TailDistinct, EmptySeq
  <1>7. g[1] \in Nodes /\ g[1] \notin ToSet(pool) /\ Len(pool) \in Nat /\ Len(p) \in Nat
    BY <1>2, <1>5, <1>6
  <1>8. /\ pool' \in Seq(Nodes) /\ Len(pool') = Len(pool) + 1
        /\ ToSet(pool') = ToSet(pool) \cup {g[1]} /\ Distinct(pool')
    BY <1>4, <1>5, <1>7, AppendDistinct
  <1>9. Owned(p, h)'
    <2>1. /\ ToSet(p) \cap ToSet(h) = {} /\ ToSet(p) \cap ToSet(pool') = {}
          /\ ToSet(h) \cap ToSet(pool') = {}
          /\ ToSet(p) \cup ToSet(h) \cup ToSet(pool') = 1 .. made
      BY <1>5, <1>6, <1>8
    <2>2. Len(p) + (n - 1) + Len(pool') = made /\ size - 1 = Len(p) - 1 + (n - 1)
      BY <1>5, <1>6, <1>7, <1>8
    <2> QED
      BY <1>4, <1>6, <1>8, <2>1, <2>2 DEF Owned
  \* M2_next is a node of the list, and no unlinked one.
  <1>10. M2_next \in ToSet(p)
    <2>1. /\ tail = p[Len(p)] /\ b <= c /\ c < Len(p)
          /\ M2_next = IF b = c THEN tail ELSE p[b + 1]
      BY <1>1 DEF Busy, Path, Cut
    <2>2. b + 1 \in DOMAIN p /\ Len(p) \in DOMAIN p
      BY <2>1
    <2> QED
      BY <2>1, <2>2 DEF ToSet
  <1>11. Unlinked(h)'
    <2>1. CASE n = 1
      <3>1. next[g[1]] = M2_next /\ h = << >>
        BY <1>3, <1>6, <2>1, EmptySeq
      <3> QED
        BY <1>4, <3>1 DEF Unlinked
    <2>2. CASE n # 1
      <3>1. 1 \in 1 .. n - 1 /\ 1 + 1 \in 1 .. n /\ n - 1 \in 1 .. n - 1 /\ (n - 1) + 1 = n
        BY <1>6, <2>2
      <3>2. next[g[1]] = g[2] /\ h[1] = g[2] /\ g[2] \in ToSet(g)
        BY <1>2, <1>3, <1>6, <3>1 DEF Linked, ToSet
      <3>3. pc' = "free"
        BY <1>4, <1>5, <1>10, <3>2
      <3>4. h # << >> /\ h[n - 1] = g[n]
        BY <1>6, <2>2, <3>1
      <3>5. ASSUME NEW k \in 1 .. (n - 1) - 1 PROVE next[h[k]] = h[k + 1]
        <4>1. k \in 1 .. n - 1 /\ k + 1 \in 1 .. n - 1
          BY <1>6
        <4> QED
          BY <1>2, <1>3, <1>6, <4>1 DEF Linked
      <3>6. Linked(next, h)
        BY <1>6, <3>5 DEF Linked
      <3>7. Linked(next, h)'
        BY <1>4, <3>6 DEF Linked
      <3> QED
        BY <1>3, <1>4, <1>6, <3>2, <3>3, <3>4, <3>7 DEF Unlinked
    <2> QED
      BY <2>1, <2>2
  <1>12. Path(p)' /\ Cut(p, a, b, c)'
    BY <1>1, <1>4 DEF Busy, Path, Cut
  <1>13. Hanging(p, c)' /\ pc' # "idle" /\ pc' # "push"
    BY <1>1, <1>3, <1>4 DEF Busy, Hanging
  <1>14. TypeOK' /\ (DOMAIN data = Nodes)' /\ i' \in Nat
    <2>1. size' \in 0 .. MaxNodes
      <3>1. size - 1 \in Nat
        BY <1>5, <1>6, <1>7, <1>10 DEF ToSet
      <3> QED
        BY <1>4, <3>1, MessageListAssumption DEF Inv, TypeOK
    <2> QED
      BY <1>4, <1>8, <2>1 DEF Inv, TypeOK
  <1>15. Busy(p, h, a, b, c)'
    BY <1>9, <1>11, <1>12, <1>13 DEF Busy
  <1>16. UNCHANGED <<Before, Mutated, Behind>>
    <2>1. c < Len(p)
      BY <1>1 DEF Busy, Cut
    <2>2. ASSUME NEW k \in 1 .. c PROVE data'[p[k]] = data[p[k]]
      <3>1. k \in DOMAIN p /\ p[k] \in Nodes
        BY <2>1
      <3>2. p[k] # g[1]
        BY <1>5, <1>6, <3>1 DEF ToSet
      <3> QED
        BY <1>3, <1>4, <3>1, <3>2 DEF Inv
    <2>3. TypeOK
      BY DEF Inv
    <2> QED
      BY <1>1, <1>14, <1>15, <2>2, <2>3, PartsStay
  <1> QED
    BY <1>13, <1>14, <1>15, <1>16 DEF Inv

-----------------------------------------------------------------------------
(***************************************************************************)
(* Relink turns the path round: the nodes behind p[c], which were pushed,  *)
(* come after p[a], and those after p[a] up to p[b] are unlinked.          *)
(***************************************************************************)
\* Where node k of the new path was.
Turned(a, b, c, m, k) ==
    IF k <= a THEN k
    ELSE IF k <= a + m THEN c + k - a
    ELSE IF k <= a + m + (c - b) THEN b + k - a - m
    ELSE c + 1 + m

\* No two nodes of the new path were one, none of the old mutated messages is on it,
\* and all the others are.
TurnsRound(a, b, c, m, l) ==
    /\ \A k \in 1 .. l : /\ Turned(a, b, c, m, k) \in 1 .. c + 1 + m
                         /\ Turned(a, b, c, m, k) \notin a + 1 .. b
    /\ \A j, k \in 1 .. l : Turned(a, b, c, m, j) = Turned(a, b, c, m, k) => j = k
    /\ \A n \in 1 .. c + 1 + m :
          n \notin a + 1 .. b => \E k \in 1 .. l : Turned(a, b, c, m, k) = n

LEMMA TurnedDistinct ==
    ASSUME NEW a \in Nat, NEW b \in Nat, NEW c \in Nat, NEW m \in Nat, a < b, b <= c, m >= 1
    PROVE  TurnsRound(a, b, c, m, a + m + (c - b) + 1)
  <1> DEFINE T(k) == Turned(a, b, c, m, k)
             l == a + m + (c - b) + 1
  <1>1. \A k \in 1 .. l : T(k) \in 1 .. c + 1 + m /\ T(k) \notin a + 1 .. b
    BY DEF Turned
  <1>2. \A j, k \in 1 .. l : T(j) = T(k) => j = k
    BY DEF Turned
  <1>3. ASSUME NEW n \in 1 .. c + 1 + m, n \notin a + 1 .. b
        PROVE  \E k \in 1 .. l : T(k) = n
    <2>1. CASE n <= a
      <3>1. n \in 1 .. l /\ T(n) = n
        BY <2>1 DEF Turned
      <3> QED
        BY <3>1
    <2>2. CASE n > b /\ n <= c
      <3>1. a + m + (n - b) \in 1 .. l /\ T(a + m + (n - b)) = n
        BY <2>2 DEF Turned
      <3> QED
        BY <3>1
    <2>3. CASE n > c /\ n <= c + m
      <3>1. a + (n - c) \in 1 .. l /\ T(a + (n - c)) = n
        BY <2>3 DEF Turned
      <3> QED
        BY <3>1
    <2>4. CASE n = c + 1 + m
      <3>1. l \in 1 .. l /\ T(l) = n
        BY <2>4 DEF Turned
      <3> QED
        BY <3>1
    <2> QED
      BY <1>3, <2>1, <2>2, <2>3, <2>4
  <1> QED
    BY <1>1, <1>2, <1>3 DEF TurnsRound

LEMMA RelinkInv ==
    ASSUME Inv, Relink
    PROVE  /\ Inv'
           /\ Before' = Before /\ Behind' = Behind /\ Mutated # << >>
           /\ out_buf \in Regions /\ FlattenSeq(Mutated') = out_buf
           /\ Len(Mutated') <= max_seed_region_count + 1
  <1>1. PICK p \in Seq(Nodes), g \in Seq(Nodes), a \in Nat, b \in Nat, c \in Nat : Busy(p, g, a, b, c)
    BY DEF Inv, Relink
  <1>2. PICK m \in Nat, n \in Nat : m = i /\ n = Len(p)
    BY DEF Inv
  <1>3. pc = "push" /\ pc' = "free" /\ g = << >>
    BY <1>1 DEF Relink, Busy, Unlinked
  <1>4. /\ out_buf \in Regions /\ out_buf # << >> /\ out_buf \in Seq(ToSet(out_buf))
        /\ MaxNodes \in Nat \ {0} /\ max_seed_region_count \in Nat
        /\ n = c + 1 + m /\ m >= 1 /\ m <= Len(out_buf) /\ m <= max_seed_region_count + 1
        /\ m = Len(out_buf) \/ m > max_seed_region_count
        /\ a < b /\ b <= c
    <2>1. /\ out_buf \in Regions /\ n = c + 1 + m /\ m <= Len(out_buf)
          /\ m <= max_seed_region_count + 1 /\ a < b /\ b <= c
      BY <1>1, <1>2, <1>3 DEF Busy, Hanging, Cut
    <2>2. /\ {max_seed_region_count, MaxNodes} \subseteq Nat \ {0}
          /\ out_buf # << >> /\ out_buf \in Seq(ToSet(out_buf)) /\ Len(out_buf) \in Nat \ {0}
      BY <2>1, MessageListAssumption, EmptySeq
    <2>3. m = Len(out_buf) \/ m > max_seed_region_count
      BY <1>2 DEF Relink, AllPushed
    <2> QED
      BY <2>1, <2>2, <2>3
  <1>5. /\ Distinct(p) /\ Linked(next, p) /\ head = p[1] /\ tail = p[n] /\ next[p[n]] = NULL
        /\ n \in 1 .. MaxNodes /\ next \in [Nodes -> 0 .. MaxNodes]
        /\ M2_prev = (IF a = 0 THEN NULL ELSE p[a]) /\ prev_last_message = p[c]
        /\ M2_next = (IF b = c THEN p[n] ELSE p[b + 1])
        /\ \A k \in 1 .. m : data[p[c + k]] = Piece(out_buf, k)
    BY <1>1, <1>2, <1>3, <1>4 DEF Busy, Path, Cut, Hanging, Inv, TypeOK
  <1>6. \A j \in 1 .. n : p[j] \in Nodes /\ p[j] # NULL /\ \A k \in 1 .. n : p[j] = p[k] => j = k
    <2>1. ASSUME NEW j \in 1 .. n PROVE p[j] \in Nodes /\ p[j] # NULL
      <3>1. p[j] \in Nodes
        BY <1>2
      <3> QED
        BY <1>4, <3>1 DEF Nodes, NULL
    <2>2. \A j, k \in 1 .. n : p[j] = p[k] => j = k
      BY <1>2, <1>5 DEF Distinct
    <2> QED
      BY <2>1, <2>2
  <1>7. \A k \in 1 .. n - 1 : next[p[k]] = p[k + 1]
    BY <1>2, <1>5 DEF Linked
  <1>8. a # 0 => a \in 1 .. n - 1 /\ M2_prev = p[a] /\ M2_prev # NULL
    <2>1. a # 0 => a \in 1 .. n - 1 /\ a \in 1 .. n
      BY <1>4
    <2>2. a # 0 => M2_prev = p[a]
      BY <1>5
    <2> QED
      BY <1>6, <2>1, <2>2
  \* The new links.
  <1>9. /\ UNCHANGED <<data, tail, size, made, pool, M2_prev, M2_next, i, prev_last_message, out_buf>>
        /\ head' = IF a = 0 THEN p[c + 1] ELSE p[1]
        /\ cur_it' = p[a + 1]
        /\ next' = [[(IF a = 0 THEN next ELSE [next EXCEPT ![p[a]] = p[c + 1]])
                        EXCEPT ![p[c + m]] = M2_next] EXCEPT ![p[c]] = p[n]]
    <2>1. next[prev_last_message] = p[c + 1]
      BY <1>4, <1>5, <1>7
    <2>2. get_last_message = p[c + m]
      <3>1. get_last_message = p[Len(p) - 1]
        <4>1. Path(p) /\ TypeOK /\ Len(p) >= 2
          BY <1>1, <1>2, <1>4 DEF Busy, Inv
        <4> QED
          BY <4>1, LastMessage
      <3>2. Len(p) - 1 = c + m
        BY <1>2, <1>4
      <3> QED
        BY <3>1, <3>2
    <2>3. a # 0 => next[M2_prev] = p[a + 1]
      BY <1>7, <1>8
    <2>4. a = 0 <=> M2_prev = NULL
      BY <1>5, <1>8
    <2>5. a = 0 => head = p[a + 1]
      BY <1>5
    <2>6. a # 0 => M2_prev = p[a]
      BY <1>5
    <2>7. UNCHANGED <<data, tail, size, made, pool, M2_prev, M2_next, i, prev_last_message, out_buf>>
      BY DEF Relink
    <2>8. head' = IF M2_prev = NULL THEN next[prev_last_message] ELSE head
      BY DEF Relink
    <2>9. cur_it' = IF M2_prev = NULL THEN head ELSE next[M2_prev]
      BY DEF Relink
    <2>10. next' = [[(IF M2_prev = NULL THEN next
                      ELSE [next EXCEPT ![M2_prev] = next[prev_last_message]])
                        EXCEPT ![get_last_message] = M2_next] EXCEPT ![prev_last_message] = tail]
      BY DEF Relink
    <2>11. CASE a = 0
      BY <1>5, <2>1, <2>2, <2>4, <2>5, <2>7, <2>8, <2>9, <2>10, <2>11
    <2>12. CASE a # 0
      BY <1>5, <2>1, <2>2, <2>3, <2>4, <2>6, <2>7, <2>8, <2>9, <2>10, <2>12
    <2> QED
      BY <2>11, <2>12
  <1>10. ASSUME NEW k \in 1 .. n
         PROVE  next'[p[k]] = IF k = c THEN p[n] ELSE IF k = c + m THEN M2_next
                              ELSE IF k = a THEN p[c + 1] ELSE IF k = n THEN NULL ELSE p[k + 1]
    <2>1. p[k] \in Nodes /\ c \in 1 .. n /\ c + m \in 1 .. n /\ (a # 0 => a \in 1 .. n)
      BY <1>4, <1>6
    <2>2. /\ p[k] = p[c] <=> k = c
          /\ p[k] = p[c + m] <=> k = c + m
          /\ a # 0 => (p[k] = p[a] <=> k = a)
      BY <1>6, <2>1
    <2>3. next[p[k]] = IF k = n THEN NULL ELSE p[k + 1]
      BY <1>5, <1>7
    <2>4. k = c => next'[p[k]] = p[n]
      BY <1>5, <1>9, <2>1, <2>2
    <2>5. k # c /\ k = c + m => next'[p[k]] = M2_next
      BY <1>5, <1>9, <2>1, <2>2
    <2>6. k # c /\ k # c + m /\ k = a => next'[p[k]] = p[c + 1]
      BY <1>5, <1>9, <2>1, <2>2
    <2>7. k # c /\ k # c + m /\ k # a => next'[p[k]] = next[p[k]]
      BY <1>5, <1>9, <2>1, <2>2
    <2> QED
      BY <2>3, <2>4, <2>5, <2>6, <2>7
  <1>11. next' \in [Nodes -> 0 .. MaxNodes]
    <2>1. p[n] \in 0 .. MaxNodes /\ M2_next \in 0 .. MaxNodes /\ p[c + 1] \in 0 .. MaxNodes
      <3>1. \A k \in 1 .. n : p[k] \in 0 .. MaxNodes
        BY <1>4, <1>6 DEF Nodes
      <3>2. n \in 1 .. n /\ c + 1 \in 1 .. n /\ (b # c => b + 1 \in 1 .. n)
        BY <1>4
      <3> QED
        BY <1>5, <3>1, <3>2
    <2> QED
      BY <1>5, <1>9, <2>1
  \* The new path, and the nodes that left it.
  <1> DEFINE T(k) == Turned(a, b, c, m, k)
             l == a + m + (c - b) + 1
  <1>12. /\ \A k \in 1 .. l : T(k) \in 1 .. n /\ T(k) \notin a + 1 .. b
         /\ \A j, k \in 1 .. l : T(j) = T(k) => j = k
         /\ \A k \in 1 .. n : k \notin a + 1 .. b => \E j \in 1 .. l : T(j) = k
    <2>1. TurnsRound(a, b, c, m, l)
      BY <1>4, TurnedDistinct
    <2>2. c + 1 + m = n
      BY <1>4
    <2> HIDE DEF l
    <2> QED
      BY <2>1, <2>2 DEF TurnsRound
  <1>13. PICK q \in Seq(Nodes), u \in Seq(Nodes) :
            q = [k \in 1 .. l |-> p[T(k)]] /\ u = [k \in 1 .. b - a |-> p[a + k]]
    <2>1. l \in Nat /\ b - a \in Nat /\ \A k \in 1 .. b - a : a + k \in 1 .. n
      BY <1>4
    <2>2. \A k \in 1 .. l : p[T(k)] \in Nodes
      BY <1>6, <1>12
    <2> HIDE DEF T, l
    <2>3. [k \in 1 .. l |-> p[T(k)]] \in Seq(Nodes)
      BY <2>1, <2>2
    <2>4. [k \in 1 .. b - a |-> p[a + k]] \in Seq(Nodes)
      <3>1. \A k \in 1 .. b - a : p[a + k] \in Nodes
        BY <1>6, <2>1
      <3> QED
        BY <2>1, <3>1
    <2> QED
      BY <2>3, <2>4
  <1>14. /\ Len(q) = l /\ DOMAIN q = 1 .. l /\ \A k \in 1 .. l : q[k] = p[T(k)]
         /\ Len(u) = b - a /\ DOMAIN u = 1 .. b - a /\ \A k \in 1 .. b - a : u[k] = p[a + k]
    <2>1. l \in Nat /\ b - a \in Nat
      BY <1>4
    <2> HIDE DEF T, l
    <2> QED
      BY <1>13, <2>1
  <1>15. Distinct(q) /\ Distinct(u)
    <2>1. Distinct(q)
      <3> HIDE DEF T, l
      <3>1. ASSUME NEW j \in 1 .. l, NEW k \in 1 .. l, q[j] = q[k] PROVE j = k
        <4>1. p[T(j)] = p[T(k)] /\ T(j) \in 1 .. n /\ T(k) \in 1 .. n
          BY <1>12, <1>14, <3>1
        <4>2. T(j) = T(k)
          BY <1>6, <4>1
        <4> QED
          BY <1>12, <4>2
      <3> QED
        BY <1>14, <3>1 DEF Distinct
    <2>2. ASSUME NEW j \in 1 .. b - a, NEW k \in 1 .. b - a, u[j] = u[k] PROVE j = k
      <3>1. a + j \in 1 .. n /\ a + k \in 1 .. n
        BY <1>4
      <3>2. p[a + j] = p[a + k]
        BY <1>14, <2>2
      <3>3. a + j = a + k
        BY <1>6, <3>1, <3>2
      <3> QED
        BY <3>3
    <2>3. Distinct(u)
      BY <1>14, <2>2 DEF Distinct
    <2> QED
      BY <2>1, <2>3
  <1>16. ASSUME NEW k \in 1 .. l - 1 PROVE next'[q[k]] = q[k + 1]
    <2>1. k \in 1 .. l /\ k + 1 \in 1 .. l /\ T(k) \in 1 .. n
      BY <1>4, <1>12
    <2>2. q[k] = p[T(k)] /\ q[k + 1] = p[T(k + 1)]
      BY <1>14, <2>1
    <2>3. next'[p[T(k)]] = IF T(k) = c THEN p[n] ELSE IF T(k) = c + m THEN M2_next
                           ELSE IF T(k) = a THEN p[c + 1] ELSE IF T(k) = n THEN NULL ELSE p[T(k) + 1]
      BY <1>10, <2>1
    <2>4. CASE k < a
      <3>1. T(k) = k /\ T(k + 1) = k + 1
        BY <2>4 DEF Turned
      <3> QED
        BY <1>4, <2>2, <2>3, <2>4, <3>1
    <2>5. CASE k = a
      <3>1. T(k) = a /\ T(k + 1) = c + 1
        BY <1>4, <2>5 DEF Turned
      <3> QED
        BY <1>4, <2>2, <2>3, <2>5, <3>1
    <2>6. CASE k > a /\ k < a + m
      <3>1. T(k) = c + k - a /\ T(k + 1) = T(k) + 1 /\ T(k) > c /\ T(k) < c + m
        BY <1>4, <2>6 DEF Turned
      <3> QED
        BY <1>4, <2>2, <2>3, <3>1
    <2>7. CASE k = a + m
      <3>1. T(k) = c + m /\ T(k + 1) = IF b = c THEN n ELSE b + 1
        BY <1>4, <2>7 DEF Turned
      <3> HIDE DEF T
      <3>2. q[k + 1] = M2_next
        BY <1>5, <2>2, <3>1
      <3>3. next'[q[k]] = M2_next
        BY <1>4, <2>2, <2>3, <3>1
      <3> QED
        BY <3>2, <3>3
    <2>8. CASE k > a + m /\ k < l - 1
      <3>1. T(k) = b + k - a - m /\ T(k + 1) = T(k) + 1 /\ T(k) > b /\ T(k) < c
        BY <1>4, <2>8 DEF Turned
      <3> HIDE DEF T
      <3>2. T(k) # c /\ T(k) # c + m /\ T(k) # a /\ T(k) # n
        BY <1>4, <2>1, <3>1
      <3> QED
        BY <2>2, <2>3, <3>1, <3>2
    <2>9. CASE k > a + m /\ k = l - 1
      <3>1. T(k) = c /\ T(k + 1) = n
        BY <1>4, <2>9 DEF Turned
      <3> QED
        BY <1>4, <2>2, <2>3, <3>1
    <2> QED
      BY <1>4, <2>4, <2>5, <2>6, <2>7, <2>8, <2>9
  <1>17. /\ \A k \in 1 .. a : q[k] = p[k]
         /\ \A k \in 1 .. m : q[a + k] = p[c + k]
         /\ \A k \in 1 .. c - b : q[a + m + k] = p[b + k]
         /\ q[l] = p[n]
    <2>1. ASSUME NEW k \in 1 .. a PROVE q[k] = p[k]
      <3>1. k \in 1 .. l /\ T(k) = k
        BY <1>4 DEF Turned
      <3> QED
        BY <1>14, <3>1
    <2>2. ASSUME NEW k \in 1 .. m PROVE q[a + k] = p[c + k]
      <3>1. a + k \in 1 .. l /\ T(a + k) = c + k
        BY <1>4 DEF Turned
      <3> QED
        BY <1>14, <3>1
    <2>3. ASSUME NEW k \in 1 .. c - b PROVE q[a + m + k] = p[b + k]
      <3>1. a + m + k \in 1 .. l /\ T(a + m + k) = b + k
        BY <1>4 DEF Turned
      <3> QED
        BY <1>14, <3>1
    <2>4. q[l] = p[n]
      <3>1. l \in 1 .. l /\ T(l) = n
        BY <1>4 DEF Turned
      <3> QED
        BY <1>14, <3>1
    <2> QED
      BY <2>1, <2>2, <2>3, <2>4
  <1> HIDE DEF T
  <1>18. Path(q)'
    <2>1. Linked(next, q)'
      BY <1>14, <1>16 DEF Linked
    <2>2. head' = q[1]
      <3>1. CASE a = 0
        <4>1. 1 \in 1 .. m /\ q[a + 1] = p[c + 1]
          BY <1>4, <1>17
        <4> QED
          BY <1>9, <3>1, <4>1
      <3>2. CASE a # 0
        <4>1. 1 \in 1 .. a
          BY <3>2
        <4> QED
          BY <1>9, <1>17, <3>2, <4>1
      <3> QED
        BY <3>1, <3>2
    <2>3. tail' = q[l] /\ next'[tail'] = NULL
      <3>1. n \in 1 .. n /\ n # c /\ n # c + m /\ n # a
        BY <1>4
      <3> QED
        BY <1>5, <1>9, <1>10, <1>17, <3>1
    <2>4. l <= MaxNodes
      BY <1>4, <1>5
    <2> QED
      BY <1>14, <1>15, <2>1, <2>2, <2>3, <2>4 DEF Path
  <1>19. Cut(q, a, a + m, a + m + (c - b))'
    <2>1. M2_prev' = IF a = 0 THEN NULL ELSE q[a]
      <3>1. a # 0 => a \in 1 .. a
        OBVIOUS
      <3> QED
        BY <1>5, <1>9, <1>17, <3>1
    <2>2. M2_next' = IF a + m = a + m + (c - b) THEN tail' ELSE q[a + m + 1]
      <3>1. a + m = a + m + (c - b) <=> b = c
        BY <1>4
      <3>2. b # c => 1 \in 1 .. c - b
        BY <1>4
      <3> QED
        BY <1>5, <1>9, <1>17, <3>1, <3>2
    <2>3. a < a + m /\ a + m <= a + m + (c - b) /\ a + m + (c - b) < l
      BY <1>4
    <2> QED
      BY <1>14, <2>1, <2>2, <2>3 DEF Cut
  <1>20. Hanging(q, a + m + (c - b))'
    BY <1>3, <1>14 DEF Hanging
  <1>21. Unlinked(u)'
    <2>1. u # << >> /\ cur_it' = u[1]
      <3>1. 1 \in 1 .. b - a
        BY <1>4
      <3>2. u # << >>
        BY <1>14, <3>1
      <3> QED
        BY <1>9, <1>14, <3>1, <3>2
    <2>2. ASSUME NEW k \in 1 .. (b - a) - 1 PROVE next'[u[k]] = u[k + 1]
      <3>1. k \in 1 .. b - a /\ k + 1 \in 1 .. b - a /\ a + k \in 1 .. n /\ a + k < b /\ a + (k + 1) = (a + k) + 1
        BY <1>4
      <3>2. a + k # a /\ a + k # c /\ a + k # c + m /\ a + k # n
        BY <1>4, <3>1
      <3>3. next'[p[a + k]] = p[(a + k) + 1]
        BY <1>10, <3>1, <3>2
      <3> QED
        BY <1>14, <3>1, <3>3
    <2>3. next'[u[b - a]] = M2_next
      <3>1. b - a \in 1 .. b - a /\ a + (b - a) = b /\ b \in 1 .. n
        BY <1>4
      <3>2. next'[p[b]] = M2_next
        BY <1>4, <1>5, <1>10, <3>1
      <3> QED
        BY <1>14, <3>1, <3>2
    <2> QED
      BY <1>3, <1>9, <1>14, <2>1, <2>2, <2>3 DEF Unlinked, Linked
  <1>22. Owned(q, u)'
    <2>1. /\ ToSet(g) = {} /\ Len(g) = 0
          /\ Distinct(pool) /\ ToSet(p) \cap ToSet(pool) = {}
          /\ ToSet(p) \cup ToSet(g) \cup ToSet(pool) = 1 .. made
          /\ n + Len(g) + Len(pool) = made
          /\ size = n - 1 + Len(g)
      <3>1. ToSet(g) = {} /\ Len(g) = 0
        BY <1>3 DEF ToSet
      <3> QED
        BY <1>1, <1>2, <3>1 DEF Busy, Owned
    <2>2. ToSet(q) \cup ToSet(u) \subseteq ToSet(p)
      <3>1. \A k \in 1 .. n : p[k] \in ToSet(p)
        BY <1>2 DEF ToSet
      <3>2. \A k \in 1 .. b - a : a + k \in 1 .. n
        BY <1>4
      <3> HIDE DEF l
      <3>3. \A k \in 1 .. l : q[k] \in ToSet(p)
        BY <1>12, <1>14, <3>1
      <3>4. \A k \in 1 .. b - a : u[k] \in ToSet(p)
        BY <1>14, <3>1, <3>2
      <3> QED
        BY <1>14, <3>3, <3>4 DEF ToSet
    <2>3. ToSet(p) \subseteq ToSet(q) \cup ToSet(u)
      <3>1. ASSUME NEW k \in 1 .. n PROVE p[k] \in ToSet(q) \cup ToSet(u)
        <4>1. CASE k \in a + 1 .. b
          <5>1. k - a \in 1 .. b - a /\ a + (k - a) = k
            BY <1>4, <4>1
          <5>2. u[k - a] = p[k]
            BY <1>14, <5>1
          <5> QED
            BY <1>14, <5>1, <5>2 DEF ToSet
        <4>2. CASE k \notin a + 1 .. b
          <5> HIDE DEF l
          <5>1. PICK j \in 1 .. l : T(j) = k
            BY <1>12, <4>2
          <5> QED
            BY <1>14, <5>1 DEF ToSet
        <4> QED
          BY <4>1, <4>2
      <3> QED
        BY <1>2, <3>1 DEF ToSet
    <2>4. ToSet(q) \cap ToSet(u) = {}
      <3>1. ASSUME NEW j \in 1 .. l, NEW k \in 1 .. b - a PROVE q[j] # u[k]
        <4>1. T(j) \in 1 .. n /\ T(j) \notin a + 1 .. b /\ a + k \in 1 .. n /\ a + k \in a + 1 .. b
          BY <1>4, <1>12
        <4>2. p[T(j)] # p[a + k]
          BY <1>6, <4>1
        <4> HIDE DEF l
        <4> QED
          BY <1>14, <4>2
      <3> HIDE DEF l
      <3> QED
        BY <1>14, <3>1 DEF ToSet
    <2>5. l + (b - a) + Len(pool) = made /\ size = l - 1 + (b - a)
      <3>1. Len(pool) \in Nat
        BY DEF Inv, TypeOK
      <3> QED
        BY <1>4, <2>1, <3>1
    <2>6. ToSet(u) \cap ToSet(pool) = {} /\ ToSet(q) \cap ToSet(pool) = {}
      BY <2>1, <2>2
    <2>7. ToSet(q) \cup ToSet(u) \cup ToSet(pool) = 1 .. made
      BY <2>1, <2>2, <2>3
    <2> HIDE DEF l
    <2> QED
      BY <1>9, <1>14, <1>15, <2>1, <2>4, <2>5, <2>6, <2>7 DEF Owned
  <1>23. Busy(q, u, a, a + m, a + m + (c - b))'
    BY <1>18, <1>19, <1>20, <1>21, <1>22 DEF Busy
  <1>24. TypeOK' /\ (DOMAIN data = Nodes)' /\ i' \in Nat
    <2>1. head' \in Nodes
      <3>1. c + 1 \in 1 .. n /\ 1 \in 1 .. n
        BY <1>4
      <3> QED
        BY <1>6, <1>9, <3>1
    <2>2. next'[tail'] = NULL
      BY <1>18 DEF Path
    <2> QED
      BY <1>3, <1>9, <1>11, <2>1, <2>2 DEF Inv, TypeOK
  <1>25. a + m \in Nat /\ a + m + (c - b) \in Nat
    BY <1>4
  <1>26. Inv'
    <2>1. \E p1, g1 \in Seq(Nodes) : \E a1, b1, c1 \in Nat : Busy(p1, g1, a1, b1, c1)'
      BY <1>23, <1>25
    <2> QED
      BY <1>3, <1>24, <2>1 DEF Inv
  \* What it says of the messages.
  <1>27. /\ Before = Part(data, p, 0, a) /\ Mutated = Part(data, p, a, b) /\ Behind = Part(data, p, b, c)
    BY <1>1, PartsNow DEF Inv
  <1>28. /\ Before' = Part(data', q, 0, a) /\ Mutated' = Part(data', q, a, a + m)
         /\ Behind' = Part(data', q, a + m, a + m + (c - b))
    BY <1>23, <1>24, <1>25, PartsNext
  <1>29. Part(data, q, 0, a) = Part(data, p, 0, a)
    <2>1. \A k \in 1 .. a - 0 : q[0 + k] = p[0 + k]
      BY <1>17
    <2> QED
      BY <2>1 DEF Part
  <1>30. Part(data, q, a + m, a + m + (c - b)) = Part(data, p, b, c)
    <2>1. (a + m + (c - b)) - (a + m) = c - b
      BY <1>4
    <2> QED
      BY <1>17, <2>1 DEF Part
  <1>31. Part(data, q, a, a + m) = [k \in 1 .. m |-> Piece(out_buf, k)]
    <2>1. (a + m) - a = m
      BY <1>4
    <2>2. \A k \in 1 .. m : data[q[a + k]] = Piece(out_buf, k)
      BY <1>5, <1>17
    <2> QED
      BY <2>1, <2>2 DEF Part
  <1>32. FlattenSeq([k \in 1 .. m |-> Piece(out_buf, k)]) = out_buf
    BY <1>4, PiecesFlatten
  <1>33. Len([k \in 1 .. m |-> Piece(out_buf, k)]) = m
    OBVIOUS
  <1>34. Mutated # << >>
    <2>1. Part(data, p, a, b) = [k \in 1 .. b - a |-> data[p[a + k]]] /\ 1 \in 1 .. b - a
      BY <1>4 DEF Part
    <2>2. DOMAIN Part(data, p, a, b) # {}
      BY <2>1
    <2>3. Part(data, p, a, b) # << >>
      BY <2>2
    <2> QED
      BY <1>27, <2>3
  <1>35. Before' = Before
    BY <1>9, <1>27, <1>28, <1>29
  <1>36. Behind' = Behind
    BY <1>9, <1>27, <1>28, <1>30
  <1>37. FlattenSeq(Mutated') = out_buf /\ Len(Mutated') = m
    <2>1. Mutated' = [k \in 1 .. m |-> Piece(out_buf, k)]
      BY <1>9, <1>28, <1>31
    <2> QED
      BY <1>32, <1>33, <2>1
  <1>38. out_buf \in Regions /\ Len(Mutated') <= max_seed_region_count + 1
    BY <1>4, <1>37
  <1> QED
    BY <1>26, <1>34, <1>35, <1>36, <1>37, <1>38

-----------------------------------------------------------------------------
\* Every step of fuzz_one keeps the invariant.
LEMMA NextInv == Inv /\ [Next]_vars => Inv'
  <1> SUFFICES ASSUME Inv, [Next]_vars PROVE Inv'
    OBVIOUS
  <1>1. ASSUME NEW seed \in Seeds, NEW start \in 0 .. Len(seed) - 1, NEW count \in 1 .. Len(seed),
               Construct(seed, start, count)
        PROVE  Inv'
    BY <1>1, ConstructInv
  <1>2. ASSUME NEW regions \in Regions, Parse(regions) PROVE Inv'
    BY <1>2, ParseInv
  <1>3. CASE Push
    BY <1>3, PushInv
  <1>4. CASE Relink
    BY <1>4, RelinkInv
  <1>5. CASE FreeOne
    BY <1>5, FreeOneInv
  <1>6. CASE Run
    BY <1>6, RunInv
  <1>7. CASE Abandon
    BY <1>7, AbandonInv
  <1>8. CASE UNCHANGED vars
    BY <1>8, IdleInv
  <1> QED
    BY <1>1, <1>2, <1>3, <1>4, <1>5, <1>6, <1>7, <1>8 DEF Next

(***************************************************************************)
(* TypeOK, for every seed, buffer and limit: every link is one to a node,  *)
(* and the blank node, which kl_pushp writes through tail, is the last.    *)
(***************************************************************************)
THEOREM TypesHold == Spec => []TypeOK
  <1>1. Inv => TypeOK
    BY DEF Inv
  <1> QED
    BY InitInv, NextInv, <1>1, PTL DEF Spec

(***************************************************************************)
(* NodesAccounted: between two executions every node made is in the list   *)
(* or in the pool, once, and size is the number of messages, after any     *)
(* number of executions of common_fuzz_stuff.                              *)
(***************************************************************************)
LEMMA InvAccounts == Inv => NodesAccounted
  <1> SUFFICES ASSUME Inv, pc = "ready"
               PROVE  LET used == Append(Upto(head, tail), tail) \o pool
                      IN  /\ Len(used) = made /\ ToSet(used) = 1 .. made
                          /\ size = Len(Upto(head, tail))
    BY DEF NodesAccounted
  <1>1. PICK p \in Seq(Nodes), g \in Seq(Nodes), a \in Nat, b \in Nat, c \in Nat : Busy(p, g, a, b, c)
    BY DEF Inv
  <1>2. PICK n \in Nat : n = Len(p)
    OBVIOUS
  <1>3. /\ n >= 1 /\ ToSet(g) = {} /\ Len(g) = 0 /\ Distinct(p) /\ Linked(next, p) /\ n <= MaxNodes
        /\ head = p[1] /\ tail = p[n] /\ next \in [Nodes -> 0 .. MaxNodes] /\ pool \in Seq(Nodes)
    <2>1. g = << >>
      BY <1>1 DEF Busy, Unlinked
    <2>2. ToSet(g) = {} /\ Len(g) = 0
      BY <2>1 DEF ToSet
    <2>3. c < n /\ Distinct(p) /\ Linked(next, p) /\ n <= MaxNodes /\ head = p[1] /\ tail = p[n]
      BY <1>1, <1>2 DEF Busy, Path, Cut
    <2> QED
      BY <2>2, <2>3 DEF Inv, TypeOK
  <1>4. /\ ToSet(p) \cup ToSet(pool) = 1 .. made /\ n + Len(pool) = made /\ size = n - 1
    <2>1. /\ ToSet(p) \cup ToSet(g) \cup ToSet(pool) = 1 .. made /\ n + Len(g) + Len(pool) = made
          /\ size = n - 1 + Len(g)
      BY <1>1, <1>2 DEF Busy, Owned
    <2>2. Len(pool) \in Nat
      BY <1>3
    <2> QED
      BY <1>3, <2>1, <2>2
  <1> DEFINE nodes == Upto(head, tail)
  <1>5. nodes = [k \in 1 .. n - 1 |-> p[k]]
    <2>1. Path(p) /\ TypeOK /\ Len(p) >= 1
      BY <1>1, <1>2, <1>3 DEF Busy, Inv
    <2> QED
      BY <1>2, <2>1, WholeList
  <1> HIDE DEF nodes
  <1>6. nodes \in Seq(Nodes) /\ Len(nodes) = n - 1 /\ \A k \in 1 .. n - 1 : nodes[k] = p[k]
    <2>1. \A k \in 1 .. n - 1 : p[k] \in Nodes
      BY <1>2
    <2> QED
      BY <1>3, <1>5, <2>1
  <1>7. Append(nodes, tail) = p
    <2>1. tail \in Nodes
      BY <1>1 DEF Inv, TypeOK
    <2>2. Append(nodes, tail) \in Seq(Nodes) /\ Len(Append(nodes, tail)) = n
      BY <1>6, <2>1
    <2>3. \A k \in 1 .. n : Append(nodes, tail)[k] = p[k]
      BY <1>3, <1>6, <2>1
    <2> QED
      BY <1>2, <2>2, <2>3, SeqEqual
  <1>8. Len(p \o pool) = made /\ ToSet(p \o pool) = 1 .. made
    <2>1. /\ p \o pool \in Seq(Nodes) /\ Len(p \o pool) = Len(p) + Len(pool)
          /\ \A k \in 1 .. Len(p) + Len(pool) :
                (p \o pool)[k] = IF k <= Len(p) THEN p[k] ELSE pool[k - Len(p)]
      BY <1>3, ConcatProperties
    <2>2. ASSUME NEW k \in 1 .. Len(p) + Len(pool) PROVE (p \o pool)[k] \in ToSet(p) \cup ToSet(pool)
      <3>1. CASE k <= Len(p)
        BY <2>1, <3>1 DEF ToSet
      <3>2. CASE ~ (k <= Len(p))
        <4>1. k - Len(p) \in 1 .. Len(pool)
          BY <1>3, <3>2
        <4> QED
          BY <1>3, <2>1, <3>2, <4>1 DEF ToSet
      <3> QED
        BY <3>1, <3>2
    <2>3. ASSUME NEW k \in 1 .. Len(p) PROVE p[k] \in ToSet(p \o pool)
      <3>1. k \in 1 .. Len(p) + Len(pool)
        BY <1>3
      <3>2. k \in DOMAIN (p \o pool) /\ (p \o pool)[k] = p[k]
        BY <2>1, <3>1
      <3> QED
        BY <3>2 DEF ToSet
    <2>4. ASSUME NEW k \in 1 .. Len(pool) PROVE pool[k] \in ToSet(p \o pool)
      <3>1. Len(p) + k \in 1 .. Len(p) + Len(pool) /\ ~ (Len(p) + k <= Len(p)) /\ (Len(p) + k) - Len(p) = k
        BY <1>3
      <3>2. Len(p) + k \in DOMAIN (p \o pool) /\ (p \o pool)[Len(p) + k] = pool[k]
        BY <2>1, <3>1
      <3> QED
        BY <3>2 DEF ToSet
    <2>5. ToSet(p \o pool) = ToSet(p) \cup ToSet(pool)
      <3>1. DOMAIN (p \o pool) = 1 .. Len(p) + Len(pool) /\ DOMAIN p = 1 .. Len(p) /\ DOMAIN pool = 1 .. Len(pool)
        BY <1>3, <2>1, LenProperties
      <3>2. ToSet(p \o pool) \subseteq ToSet(p) \cup ToSet(pool)
        BY <2>2, <3>1 DEF ToSet
      <3>3. ToSet(p) \subseteq ToSet(p \o pool)
        BY <2>3, <3>1 DEF ToSet
      <3>4. ToSet(pool) \subseteq ToSet(p \o pool)
        BY <2>4, <3>1 DEF ToSet
      <3> QED
        BY <3>2, <3>3, <3>4
    <2> QED
      BY <1>2, <1>4, <2>1, <2>5
  <1> QED
    BY <1>4, <1>6, <1>7, <1>8 DEF nodes

THEOREM NoNodeLost == Spec => []NodesAccounted
  BY InitInv, NextInv, InvAccounts, PTL DEF Spec

-----------------------------------------------------------------------------
(***************************************************************************)
(* Implements: the splicing sends what the abstract specification sends.   *)
(* Before fuzz_one, and after abandon_entry, the list has no messages.     *)
(***************************************************************************)
LEMMA EmptyNow ==
    ASSUME Inv, pc = "idle"
    PROVE  Before = << >> /\ Mutated = << >> /\ Behind = << >> /\ sent = << >>
  <1>1. head = 1 /\ tail = 1 /\ M2_prev = NULL /\ M2_next = 1 /\ next \in [Nodes -> 0 .. MaxNodes]
        /\ sent = << >>
    BY DEF Inv, Idle, TypeOK
  <1>2. M2_first = 1 /\ End = 1
    BY <1>1 DEF M2_first, End
  <1>3. Messages(1, 1) = MessagesIn(next, data, 1, 1)
    BY DEF Messages, MessagesIn, Upto, UptoIn
  <1>4. MessagesIn(next, data, 1, 1) = << >>
    BY <1>1, NothingBetween
  <1> QED
    BY <1>1, <1>2, <1>3, <1>4 DEF Before, Mutated, Behind

LEMMA EmptyNext ==
    ASSUME Inv', pc' = "idle"
    PROVE  Before' = << >> /\ Mutated' = << >> /\ Behind' = << >> /\ sent' = << >>
  <1>1. head' = 1 /\ tail' = 1 /\ M2_prev' = NULL /\ M2_next' = 1 /\ next' \in [Nodes -> 0 .. MaxNodes]
        /\ sent' = << >>
    BY DEF Inv, Idle, TypeOK
  <1>2. M2_first' = 1 /\ End' = 1
    BY <1>1 DEF M2_first, End
  <1>3. Messages(1, 1)' = MessagesIn(next', data', 1, 1)
    BY DEF Messages, MessagesIn, Upto, UptoIn
  <1>4. MessagesIn(next', data', 1, 1) = << >>
    BY <1>1, NothingBetween
  <1>5. Before' = Messages(1, 1)' /\ Mutated' = Messages(1, 1)' /\ Behind' = << >>
    BY <1>1, <1>2 DEF Before, Mutated, Behind
  <1> QED
    BY <1>1, <1>3, <1>4, <1>5

\* The part to mutate has a message.
LEMMA MutatedNow ==
    ASSUME Inv, pc # "idle"
    PROVE  Mutated # << >>
  <1>1. PICK p \in Seq(Nodes), g \in Seq(Nodes), a \in Nat, b \in Nat, c \in Nat : Busy(p, g, a, b, c)
    BY DEF Inv
  <1>2. a < b /\ Mutated = Part(data, p, a, b)
    BY <1>1, PartsNow DEF Busy, Cut, Inv
  <1>3. DOMAIN Part(data, p, a, b) = 1 .. b - a /\ 1 \in 1 .. b - a /\ DOMAIN << >> = 1 .. 0
    BY <1>2 DEF Part
  <1> QED
    BY <1>2, <1>3

LEMMA MutatedNext ==
    ASSUME Inv', pc' # "idle"
    PROVE  Mutated' # << >>
  <1>1. PICK p \in Seq(Nodes), g \in Seq(Nodes), a \in Nat, b \in Nat, c \in Nat : Busy(p, g, a, b, c)'
    BY DEF Inv
  <1>2. a < b /\ Mutated' = Part(data', p, a, b)
    BY <1>1, PartsNext DEF Busy, Cut, Inv
  <1>3. DOMAIN Part(data', p, a, b) = 1 .. b - a /\ 1 \in 1 .. b - a /\ DOMAIN << >> = 1 .. 0
    BY <1>2 DEF Part
  <1> QED
    BY <1>2, <1>3

\* Sending takes the list from its first node to the blank one.
LEMMA SendsThree ==
    ASSUME Inv, pc = "run"
    PROVE  Messages(head, tail) = Before \o Mutated \o Behind
  <1>1. PICK p \in Seq(Nodes), g \in Seq(Nodes), a \in Nat, b \in Nat, c \in Nat : Busy(p, g, a, b, c)
    BY DEF Inv
  <1>2. a < b /\ b <= c /\ Len(p) = c + 1 /\ Path(p) /\ TypeOK
    BY <1>1 DEF Busy, Cut, Hanging, Inv
  <1>3. /\ Before = Part(data, p, 0, a) /\ Mutated = Part(data, p, a, b) /\ Behind = Part(data, p, b, c)
    BY <1>1, <1>2, PartsNow
  <1> DEFINE text == [k \in 1 .. c |-> data[p[k]]]
             texts == {data[p[k]] : k \in 1 .. c}
  <1>4. Upto(head, tail) = [k \in 1 .. c |-> p[k]]
    <2>1. Len(p) >= 1 /\ Len(p) - 1 = c
      BY <1>2
    <2> QED
      BY <1>2, <2>1, WholeList
  <1>5. Messages(head, tail) = text
    BY <1>4 DEF Messages
  <1>6. text \in Seq(texts) /\ Len(text) = c /\ \A k \in 1 .. c : text[k] = data[p[k]] /\ data[p[k]] \in texts
    OBVIOUS
  <1> HIDE DEF text, texts
  <1>7. ASSUME NEW m \in Nat, NEW n \in Nat, m <= n, n <= c
        PROVE  Part(data, p, m, n) \in Seq(texts) /\ Len(Part(data, p, m, n)) = n - m
    <2>1. \A k \in 1 .. n - m : m + k \in 1 .. c
      BY <1>7
    <2>2. \A k \in 1 .. n - m : data[p[m + k]] \in texts
      BY <1>6, <2>1
    <2>3. n - m \in Nat
      BY <1>7
    <2> QED
      BY <2>2, <2>3 DEF Part
  <1> DEFINE first == Part(data, p, 0, a)
             second == Part(data, p, a, b)
             third == Part(data, p, b, c)
  <1>8. /\ first \in Seq(texts) /\ Len(first) = a
        /\ second \in Seq(texts) /\ Len(second) = b - a
        /\ third \in Seq(texts) /\ Len(third) = c - b
    <2>1. 0 \in Nat /\ 0 <= a /\ a <= c /\ a <= b /\ b <= c /\ c <= c /\ a - 0 = a
      BY <1>2
    <2> QED
      BY <1>7, <2>1
  <1>9. /\ \A k \in 1 .. a : first[k] = text[k]
        /\ \A k \in 1 .. b - a : second[k] = text[a + k]
        /\ \A k \in 1 .. c - b : third[k] = text[b + k]
    <2>1. ASSUME NEW k \in 1 .. a PROVE first[k] = text[k]
      <3>1. k \in 1 .. a - 0 /\ 0 + k = k /\ k \in 1 .. c
        BY <1>2
      <3>2. first[k] = data[p[0 + k]]
        BY <3>1 DEF Part
      <3> QED
        BY <1>6, <3>1, <3>2
    <2>2. ASSUME NEW k \in 1 .. b - a PROVE second[k] = text[a + k]
      <3>1. a + k \in 1 .. c
        BY <1>2
      <3> QED
        BY <1>6, <3>1 DEF Part
    <2>3. ASSUME NEW k \in 1 .. c - b PROVE third[k] = text[b + k]
      <3>1. b + k \in 1 .. c
        BY <1>2
      <3> QED
        BY <1>6, <3>1 DEF Part
    <2> QED
      BY <2>1, <2>2, <2>3
  <1> HIDE DEF first, second, third
  <1>10. /\ first \o second \in Seq(texts) /\ Len(first \o second) = b
         /\ \A k \in 1 .. b : (first \o second)[k] = text[k]
    <2>1. /\ first \o second \in Seq(texts) /\ Len(first \o second) = a + (b - a)
          /\ \A k \in 1 .. a + (b - a) :
                (first \o second)[k] = IF k <= a THEN first[k] ELSE second[k - a]
      <3>1. /\ first \o second \in Seq(texts) /\ Len(first \o second) = Len(first) + Len(second)
            /\ \A k \in 1 .. Len(first) + Len(second) :
                  (first \o second)[k] = IF k <= Len(first) THEN first[k] ELSE second[k - Len(first)]
        BY <1>8, ConcatProperties
      <3> QED
        BY <1>8, <3>1
    <2>2. ASSUME NEW k \in 1 .. b PROVE (first \o second)[k] = text[k]
      <3>1. k \in 1 .. a + (b - a) /\ (k <= a => k \in 1 .. a)
            /\ (~ (k <= a) => k - a \in 1 .. b - a /\ a + (k - a) = k)
        BY <1>2
      <3> QED
        BY <1>9, <2>1, <3>1
    <2> QED
      BY <1>2, <2>1, <2>2
  <1>11. first \o second \o third = text
    <2>1. /\ first \o second \o third \in Seq(texts) /\ Len(first \o second \o third) = b + (c - b)
          /\ \A k \in 1 .. b + (c - b) :
                (first \o second \o third)[k] = IF k <= b THEN (first \o second)[k] ELSE third[k - b]
      <3> DEFINE both == first \o second
      <3>1. both \in Seq(texts) /\ Len(both) = b
        BY <1>10
      <3> HIDE DEF both
      <3>2. /\ both \o third \in Seq(texts) /\ Len(both \o third) = Len(both) + Len(third)
            /\ \A k \in 1 .. Len(both) + Len(third) :
                  (both \o third)[k] = IF k <= Len(both) THEN both[k] ELSE third[k - Len(both)]
        BY <1>8, <3>1, ConcatProperties
      <3>3. /\ both \o third \in Seq(texts) /\ Len(both \o third) = b + (c - b)
            /\ \A k \in 1 .. b + (c - b) :
                  (both \o third)[k] = IF k <= b THEN both[k] ELSE third[k - b]
        BY <1>8, <3>1, <3>2
      <3> QED
        BY <3>3 DEF both
    <2>2. ASSUME NEW k \in 1 .. c PROVE (first \o second \o third)[k] = text[k]
      <3>1. k \in 1 .. b + (c - b) /\ (k <= b => k \in 1 .. b)
            /\ (~ (k <= b) => k - b \in 1 .. c - b /\ b + (k - b) = k)
        BY <1>2
      <3> QED
        BY <1>9, <1>10, <2>1, <3>1
    <2>3. Len(first \o second \o third) = c
      BY <1>2, <2>1
    <2> QED
      BY <1>6, <2>1, <2>2, <2>3, SeqEqual
  <1> QED
    BY <1>3, <1>5, <1>11 DEF first, second, third

LEMMA InitMaps == Init => Abstract!Init
  <1> SUFFICES ASSUME Init PROVE Abstract!Init
    OBVIOUS
  <1>1. Before = << >> /\ Mutated = << >> /\ Behind = << >> /\ sent = << >> /\ pc = "idle"
    BY InitInv, EmptyNow DEF Init
  <1> QED
    BY <1>1 DEF Abstract!Init, Abstract!Idle, Before, Mutated, Behind

LEMMA StepMaps ==
    ASSUME Inv, Inv', [Next]_vars
    PROVE  [Abstract!Next]_(Abstract!vars)
  <1> DEFINE due == pc \in {"free", "run"}
  <1>1. Abstract!vars = <<Before, Mutated, Behind, due, sent>>
    BY DEF Abstract!vars, Before, Mutated, Behind
  <1>2. ASSUME NEW seed \in Seeds, NEW start \in 0 .. Len(seed) - 1, NEW count \in 1 .. Len(seed),
               Construct(seed, start, count)
        PROVE  Abstract!Begin
    <2>1. pc = "idle" /\ pc' = "ready" /\ sent' = sent
      BY <1>2 DEF Construct
    <2>2. Mutated = << >> /\ Mutated' # << >>
      BY <2>1, EmptyNow, MutatedNext
    <2> QED
      BY <2>1, <2>2 DEF Abstract!Begin, Mutated
  <1>3. ASSUME NEW regions \in Regions, Parse(regions) PROVE UNCHANGED Abstract!vars
    <2>1. UNCHANGED <<Before, Mutated, Behind>>
      BY <1>3, ParseInv
    <2>2. sent' = sent /\ due' = due
      BY <1>3 DEF Parse
    <2> QED
      BY <2>1, <2>2 DEF Abstract!vars, Before, Mutated, Behind
  <1>4. ASSUME Push PROVE UNCHANGED Abstract!vars
    <2>1. UNCHANGED <<Before, Mutated, Behind>>
      BY <1>4, PushInv
    <2>2. sent' = sent /\ due' = due
      BY <1>4 DEF Push
    <2> QED
      BY <2>1, <2>2 DEF Abstract!vars, Before, Mutated, Behind
  <1>5. ASSUME Relink PROVE \E buffer \in Regions : Abstract!Mutate(buffer)
    <2>1. /\ Before' = Before /\ Behind' = Behind /\ Mutated # << >>
          /\ out_buf \in Regions /\ FlattenSeq(Mutated') = out_buf
          /\ Len(Mutated') <= max_seed_region_count + 1
      BY <1>5, RelinkInv
    <2>2. ~ due /\ due' /\ sent' = sent
      BY <1>5 DEF Relink
    <2>3. \A seqs : Abstract!FlattenSeq(seqs) = FlattenSeq(seqs)
      BY DEF Abstract!FlattenSeq, FlattenSeq
    <2>4. Abstract!FlattenSeq(Mutated') = out_buf
      BY <2>1, <2>3
    <2>5. Abstract!Mutate(out_buf)
      BY <2>1, <2>2, <2>4 DEF Abstract!Mutate, Before, Mutated, Behind
    <2> QED
      BY <2>1, <2>5
  <1>6. ASSUME FreeOne PROVE UNCHANGED Abstract!vars
    <2>1. UNCHANGED <<Before, Mutated, Behind>>
      BY <1>6, FreeOneInv
    <2>2. sent' = sent /\ due' = due
      BY <1>6 DEF FreeOne
    <2> QED
      BY <2>1, <2>2 DEF Abstract!vars, Before, Mutated, Behind
  <1>7. ASSUME Run PROVE Abstract!Send
    <2>1. UNCHANGED <<Before, Mutated, Behind>>
      BY <1>7, RunInv
    <2>2. pc = "run" /\ pc' = "ready" /\ sent' = Messages(head, tail)
      BY <1>7 DEF Run
    <2>3. sent' = Before \o Mutated \o Behind
      BY <2>2, SendsThree
    <2> QED
      BY <2>1, <2>2, <2>3 DEF Abstract!Send, Before, Mutated, Behind
  <1>8. ASSUME Abandon PROVE Abstract!Abandon
    <2>1. pc = "ready" /\ pc' = "idle"
      BY <1>8 DEF Abandon
    <2>2. Mutated # << >>
      BY <2>1, MutatedNow
    <2>3. Before' = << >> /\ Mutated' = << >> /\ Behind' = << >> /\ sent' = << >>
      BY <2>1, EmptyNext
    <2> QED
      BY <2>1, <2>2, <2>3 DEF Abstract!Abandon, Abstract!Idle, Before, Mutated, Behind
  <1>9. CASE UNCHANGED vars
    <2>1. UNCHANGED <<Before, Mutated, Behind, due, sent>>
      <3>1. UNCHANGED <<pc, next, data, head, tail, M2_prev, M2_next, prev_last_message, sent>>
        BY <1>9 DEF vars, list, splice
      <3>2. M2_first' = M2_first /\ End' = End
        BY <3>1 DEF M2_first, End
      <3>3. \A m, n : Messages(m, n)' = Messages(m, n)
        BY <3>1 DEF Messages, Upto
      <3> QED
        BY <3>1, <3>2, <3>3 DEF Before, Mutated, Behind
    <2> QED
      BY <2>1 DEF Abstract!vars, Before, Mutated, Behind
  <1> QED
    BY <1>2, <1>3, <1>4, <1>5, <1>6, <1>7, <1>8, <1>9 DEF Next, Abstract!Next

(***************************************************************************)
(* Implements, as a theorem: whatever was mutated and however often, the   *)
(* messages sent are those before the mutated part as they were, every     *)
(* mutated region in order in no more messages than allowed, and those     *)
(* behind it as they were.                                                 *)
(***************************************************************************)
THEOREM SendsTheSequence == Spec => Implements
  <1>1. Inv /\ Inv' /\ [Next]_vars => [Abstract!Next]_(Abstract!vars)
    BY StepMaps
  <1> QED
    BY InitInv, InitMaps, NextInv, <1>1, PTL DEF Spec, Implements, Abstract!Spec
=============================================================================
