--------------------------- MODULE FixpointProofs ----------------------------
(***************************************************************************)
(* Theorems about Fixpoint, for every set of automata and every grid:      *)
(* reach computes the least family of sets of valuations closed under      *)
(* backward steps.                                                         *)
(***************************************************************************)
EXTENDS Fixpoint, DataInduction, FiniteSetTheorems, TLAPS

(***************************************************************************)
(* A backward step stays within the valuations of the automaton.           *)
(***************************************************************************)
LEMMA BackwardTyped ==
    ASSUME NEW T, NEW e, NEW Z, NEW constraints
    PROVE  restrict(do_transition_backward(T, e, Z), constraints) \subseteq Valuations(T)
  BY DEF restrict, do_transition_backward, down

LEMMA PredecessorsTyped ==
    ASSUME NEW T, NEW e, NEW F
    PROVE  Predecessors(T, e, F) \in Federations(T) /\ {} \notin Predecessors(T, e, F)
  BY BackwardTyped DEF Predecessors, Federations

(***************************************************************************)
(* Edges connect locations.                                                *)
(***************************************************************************)
LEMMA EdgesTyped ==
    ASSUME NEW T, IsAutomaton(T), NEW e \in Edges(T)
    PROVE  e.from \in T.locations /\ e.to \in T.locations
  <1>1. PICK i \in DOMAIN T.edges : e = T.edges[i]
    BY DEF Edges
  <1>2. T.edges \in Seq(EdgesOver(T.locations, T.clocks))
    BY DEF IsAutomaton
  <1>3. e \in EdgesOver(T.locations, T.clocks)
    BY <1>1, <1>2
  <1> QED
    BY <1>3 DEF EdgesOver

LEMMA InsertedTyped ==
    ASSUME NEW T, NEW map, NEW l
    PROVE  Inserted(T, map, l) \in Federations(T) /\ {} \notin Inserted(T, map, l)
  BY PredecessorsTyped DEF Inserted, Federations

LEMMA MapsTyped ==
    ASSUME NEW T, NEW map \in StateMaps(T)
    PROVE  Seeds(T, map) \in StateMaps(T) /\ OnlyAccepting(T, map) \in StateMaps(T)
  BY InsertedTyped DEF Seeds, OnlyAccepting, StateMaps, Federations

LEMMA FirstMapsTyped ==
    ASSUME NEW T
    PROVE  EmptyMap(T) \in StateMaps(T) /\ accept_states(T) \in StateMaps(T)
<1>1. Valuations(T) # {}
  <2>1. [c \in T.clocks |-> 0] \in Valuations(T)
    BY CapAssumption DEF Valuations
  <2> QED
    BY <2>1
<1> QED
  BY <1>1 DEF EmptyMap, accept_states, StateMaps, Federations
-----------------------------------------------------------------------------
(***************************************************************************)
(* Types.  The automaton of the call stays the one it was called on.       *)
(***************************************************************************)
Typed == A \in Automata /\ TypeOK

LEMMA TypedInit == Init => Typed
  BY AutomataAssumption, FirstMapsTyped, MapsTyped DEF Init, Typed, TypeOK

LEMMA StartReachTyped ==
    ASSUME IsAutomaton(A), NEW map \in StateMaps(A), StartReach(map)
    PROVE  /\ targets' \in StateMaps(A)
           /\ waiting' \in StateMaps(A)
           /\ passed' \in StateMaps(A)
  BY FirstMapsTyped, MapsTyped DEF StartReach

LEMMA TypedStep == Typed /\ [Next]_vars => Typed'
<1> SUFFICES ASSUME Typed, [Next]_vars PROVE Typed'
  OBVIOUS
<1> USE DEF Typed, TypeOK
<1>1. CASE Skip
  <2>1. PICK l \in Pending : waiting' = [waiting EXCEPT ![l] = {}]
    BY <1>1 DEF Skip
  <2>2. waiting' \in StateMaps(A)
    BY <2>1 DEF StateMaps, Federations
  <2> QED
    BY <1>1, <2>2 DEF Skip
<1>2. CASE Explore
  <2>1. PICK l \in Pending :
          /\ passed' = [passed EXCEPT ![l] = @ \cup waiting[l]]
          /\ waiting' = [k \in A.locations |->
                 (IF k = l THEN {} ELSE waiting[k])
                 \cup Inserted(A, [EmptyMap(A) EXCEPT ![l] = waiting[l]], k)]
          /\ UNCHANGED <<A, targets, reach_a, phase>>
    BY <1>2 DEF Explore
  <2>2. l \in A.locations
    BY <2>1 DEF Pending, Keys, StateMaps
  <2>3. passed' \in StateMaps(A)
    BY <2>1, <2>2 DEF StateMaps, Federations
  <2>4. \A k \in A.locations :
          /\ Inserted(A, [EmptyMap(A) EXCEPT ![l] = waiting[l]], k) \in Federations(A)
          /\ {} \notin Inserted(A, [EmptyMap(A) EXCEPT ![l] = waiting[l]], k)
    BY InsertedTyped
  <2>5. waiting' \in StateMaps(A)
    BY <2>1, <2>4 DEF StateMaps, Federations
  <2> QED
    BY <2>1, <2>3, <2>5
<1>3. CASE FirstReachReturns
  <2>1. OnlyAccepting(A, passed) \in StateMaps(A)
    BY MapsTyped
  <2> QED
    BY <1>3, <2>1, StartReachTyped DEF FirstReachReturns
<1>4. CASE Iterate
  <2>1. OnlyAccepting(A, passed) \in StateMaps(A)
    BY MapsTyped
  <2> QED
    BY <1>4, <2>1, StartReachTyped DEF Iterate, Differs
<1>5. CASE Return
  BY <1>5 DEF Return
<1>6. CASE Throw
  BY <1>6 DEF Throw
<1>7. CASE UNCHANGED vars
  BY <1>7 DEF vars
<1> QED
  BY <1>1, <1>2, <1>3, <1>4, <1>5, <1>6, <1>7 DEF Next

(***************************************************************************)
(* The maps always hold federations over the clocks of the automaton of    *)
(* the call: symbolic_state_map_t never mixes dimensions (Fixpoint.cpp).   *)
(***************************************************************************)
THEOREM TypeCorrect == Spec => []TypeOK
<1>1. Typed => TypeOK
  BY DEF Typed
<1> QED
  BY TypedInit, TypedStep, <1>1, PTL DEF Spec

-----------------------------------------------------------------------------
(***************************************************************************)
(* Nothing is forgotten.                                                   *)
(***************************************************************************)
LEMMA PredecessorsOfUnion ==
    ASSUME NEW T, NEW e, NEW F, NEW G, NEW Z \in Predecessors(T, e, F \cup G)
    PROVE  Z \in Predecessors(T, e, F) \/ Z \in Predecessors(T, e, G)
  BY DEF Predecessors

LEMMA PredecessorsInserted ==
    ASSUME NEW T, NEW map, NEW e \in Edges(T), NEW Z \in Predecessors(T, e, map[e.to])
    PROVE  Z \in Inserted(T, map, e.from)
  BY DEF Inserted

\* A call of reach starts with every predecessor of its argument waiting.
LEMMA StartForgetsNothing ==
    ASSUME IsAutomaton(A), NEW map, StartReach(map), A' = A
    PROVE  NothingForgotten'
<1> SUFFICES ASSUME NEW e \in Edges(A),
                    NEW Z \in Predecessors(A, e, targets'[e.to] \cup passed'[e.to])
             PROVE  Covered(Z, passed'[e.from] \cup waiting'[e.from])
  BY DEF NothingForgotten
<1>1. e.from \in A.locations /\ e.to \in A.locations
  BY EdgesTyped
<1>2. passed'[e.to] = {} /\ targets'[e.to] = map[e.to]
  BY <1>1 DEF StartReach, EmptyMap
<1>3. Z \in Predecessors(A, e, map[e.to])
  BY <1>2
<1>4. Z \in waiting'[e.from]
  BY <1>1, <1>3, PredecessorsInserted DEF StartReach, Seeds
<1> QED
  BY <1>4 DEF Covered

LEMMA ForgottenInit == Init => NothingForgotten
<1> SUFFICES ASSUME Init,
                    NEW e \in Edges(A),
                    NEW Z \in Predecessors(A, e, targets[e.to] \cup passed[e.to])
             PROVE  Covered(Z, passed[e.from] \cup waiting[e.from])
  BY DEF NothingForgotten
<1>1. e.from \in A.locations /\ e.to \in A.locations
  BY EdgesTyped, AutomataAssumption DEF Init
<1>2. Z \in Predecessors(A, e, targets[e.to])
  BY <1>1 DEF Init, EmptyMap
<1>3. Z \in waiting[e.from]
  BY <1>1, <1>2, PredecessorsInserted DEF Init, Seeds
<1> QED
  BY <1>3 DEF Covered

LEMMA ForgottenStep == Typed /\ NothingForgotten /\ [Next]_vars => NothingForgotten'
<1> SUFFICES ASSUME Typed, NothingForgotten, [Next]_vars PROVE NothingForgotten'
  OBVIOUS
<1>0. IsAutomaton(A) /\ waiting \in StateMaps(A) /\ passed \in StateMaps(A)
  BY DEF Typed, TypeOK
<1>1. CASE Skip
  <2>1. PICK l \in Pending :
          /\ is_included_in(waiting[l], passed[l])
          /\ waiting' = [waiting EXCEPT ![l] = {}]
          /\ UNCHANGED <<A, targets, passed, reach_a, phase>>
    BY <1>1 DEF Skip
  <2> SUFFICES ASSUME NEW e \in Edges(A),
                      NEW Z \in Predecessors(A, e, targets[e.to] \cup passed[e.to])
               PROVE  Covered(Z, passed[e.from] \cup waiting'[e.from])
    BY <2>1 DEF NothingForgotten
  <2>2. PICK W \in passed[e.from] \cup waiting[e.from] : Z \subseteq W
    BY DEF NothingForgotten, Covered
  <2>3. e.from \in A.locations
    BY <1>0, EdgesTyped
  <2>4. CASE W \in waiting'[e.from] \/ W \in passed[e.from]
    BY <2>2, <2>4 DEF Covered
  <2>5. CASE W \notin waiting'[e.from] /\ W \notin passed[e.from]
    <3>1. e.from = l /\ W \in waiting[l]
      BY <1>0, <2>1, <2>2, <2>3, <2>5 DEF StateMaps
    <3>2. PICK V \in passed[l] : W \subseteq V
      BY <2>1, <3>1 DEF is_included_in
    <3> QED
      BY <2>2, <3>1, <3>2 DEF Covered
  <2> QED
    BY <2>4, <2>5
<1>2. CASE Explore
  <2>1. PICK l \in Pending :
          /\ passed' = [passed EXCEPT ![l] = @ \cup waiting[l]]
          /\ waiting' = [k \in A.locations |->
                 (IF k = l THEN {} ELSE waiting[k])
                 \cup Inserted(A, [EmptyMap(A) EXCEPT ![l] = waiting[l]], k)]
          /\ UNCHANGED <<A, targets, reach_a, phase>>
    BY <1>2 DEF Explore
  <2> DEFINE popped == [EmptyMap(A) EXCEPT ![l] = waiting[l]]
  <2>2. l \in A.locations
    BY <1>0, <2>1 DEF Pending, Keys, StateMaps
  <2> SUFFICES ASSUME NEW e \in Edges(A),
                      NEW Z \in Predecessors(A, e, targets[e.to] \cup passed'[e.to])
               PROVE  Covered(Z, passed'[e.from] \cup waiting'[e.from])
    BY <2>1 DEF NothingForgotten
  <2>3. e.from \in A.locations /\ e.to \in A.locations
    BY <1>0, EdgesTyped
  <2>4. CASE Z \in Predecessors(A, e, targets[e.to] \cup passed[e.to])
    <3>1. PICK W \in passed[e.from] \cup waiting[e.from] : Z \subseteq W
      BY <2>4 DEF NothingForgotten, Covered
    <3>2. W \in passed'[e.from] \cup waiting'[e.from]
      BY <1>0, <2>1, <2>2, <2>3, <3>1 DEF StateMaps
    <3> QED
      BY <3>1, <3>2 DEF Covered
  <2>5. CASE Z \notin Predecessors(A, e, targets[e.to] \cup passed[e.to])
    <3>1. e.to = l
      BY <1>0, <2>1, <2>3, <2>5 DEF StateMaps
    <3>2. passed'[l] = passed[l] \cup waiting[l]
      BY <1>0, <2>1, <2>2 DEF StateMaps
    <3>3. Z \in Predecessors(A, e, (targets[e.to] \cup passed[e.to]) \cup waiting[l])
      <4>1. targets[e.to] \cup passed'[e.to] = (targets[e.to] \cup passed[e.to]) \cup waiting[l]
        BY <3>1, <3>2
      <4> QED
        BY <4>1
    <3>4. Z \in Predecessors(A, e, waiting[l])
      BY <2>5, <3>3, PredecessorsOfUnion
    <3>5. popped[e.to] = waiting[l]
      BY <2>2, <3>1 DEF EmptyMap
    <3>6. Z \in Inserted(A, popped, e.from)
      <4>1. Z \in Predecessors(A, e, popped[e.to])
        BY <3>4, <3>5
      <4> HIDE DEF popped
      <4> QED
        BY <4>1, PredecessorsInserted
    <3>7. Z \in waiting'[e.from]
      BY <2>1, <2>3, <3>6
    <3> QED
      BY <3>7 DEF Covered
  <2> QED
    BY <2>4, <2>5
<1>3. CASE FirstReachReturns
  BY <1>0, <1>3, StartForgetsNothing DEF FirstReachReturns
<1>4. CASE Iterate
  BY <1>0, <1>4, StartForgetsNothing DEF Iterate
<1>5. CASE Return
  BY <1>5 DEF Return, NothingForgotten
<1>6. CASE Throw
  BY <1>6 DEF Throw, NothingForgotten
<1>7. CASE UNCHANGED vars
  BY <1>7 DEF vars, NothingForgotten
<1> QED
  BY <1>1, <1>2, <1>3, <1>4, <1>5, <1>6, <1>7 DEF Next

(***************************************************************************)
(* Every predecessor of what reach passed or was called on is passed or    *)
(* waits, whatever the order and the merging of the worklist.              *)
(***************************************************************************)
THEOREM ForgetsNothing == Spec => []NothingForgotten
<1>1. Init => Typed /\ NothingForgotten
  BY TypedInit, ForgottenInit
<1>2. (Typed /\ NothingForgotten) /\ [Next]_vars => (Typed /\ NothingForgotten)'
  BY TypedStep, ForgottenStep
<1> QED
  BY <1>1, <1>2, PTL DEF Spec

(***************************************************************************)
(* When the worklist is empty, what reach returns is closed under          *)
(* backward steps from itself and from its argument (Fixpoint.cpp, the     *)
(* end of the while loop over waiting).                                    *)
(***************************************************************************)
THEOREM ReachReturnsClosed == Spec => []ReachIsClosed
<1>1. Typed /\ NothingForgotten => ReachIsClosed
  <2> SUFFICES ASSUME Typed, NothingForgotten, Pending = {},
                      NEW e \in Edges(A),
                      NEW Z \in Predecessors(A, e, targets[e.to] \cup passed[e.to])
               PROVE  Covered(Z, passed[e.from])
    BY DEF ReachIsClosed
  <2>1. e.from \in A.locations
    BY EdgesTyped DEF Typed, TypeOK
  <2>2. waiting[e.from] = {}
    BY <2>1 DEF Typed, TypeOK, StateMaps, Pending, Keys, has_state
  <2>3. Covered(Z, passed[e.from] \cup waiting[e.from])
    BY DEF NothingForgotten
  <2> QED
    BY <2>2, <2>3
<1>2. Init => Typed
  BY TypedInit
<1>3. Typed /\ [Next]_vars => Typed'
  BY TypedStep
<1> QED
  BY <1>1, <1>2, <1>3, ForgetsNothing, PTL DEF Spec
-----------------------------------------------------------------------------
(***************************************************************************)
(* Nothing is invented: backward steps are monotone.                       *)
(***************************************************************************)
LEMMA BackwardMonotone ==
    ASSUME NEW T, NEW e, NEW Y, NEW Z \in SUBSET Y, NEW constraints
    PROVE  restrict(do_transition_backward(T, e, Z), constraints)
             \subseteq restrict(do_transition_backward(T, e, Y), constraints)
<1>1. down(T, Z) \subseteq down(T, Y)
  BY DEF down
<1> DEFINE fZ == free(T, restrict_to_zero(down(T, Z), e.reset), e.reset)
           fY == free(T, restrict_to_zero(down(T, Y), e.reset), e.reset)
<1>2. restrict_to_zero(down(T, Z), e.reset) \subseteq restrict_to_zero(down(T, Y), e.reset)
  BY <1>1 DEF restrict_to_zero
<1>3. fZ \subseteq fY
  BY <1>2 DEF free
<1> HIDE DEF fZ, fY
<1>4. restrict(fZ, e.guard) \subseteq restrict(fY, e.guard)
  BY <1>3 DEF restrict
<1>5. down(T, restrict(fZ, e.guard)) \subseteq down(T, restrict(fY, e.guard))
  BY <1>4 DEF down
<1>6. do_transition_backward(T, e, Z) \subseteq do_transition_backward(T, e, Y)
  BY <1>5 DEF do_transition_backward, fZ, fY
<1> QED
  BY <1>6 DEF restrict

\* Backward steps from zones within X, or from the argument, stay within X.
LEMMA ClosedFamilyStep ==
    ASSUME IsAutomaton(A),
           NEW X, ClosedFamily(X),
           NEW map, NEW k \in A.locations, NEW Z \in Inserted(A, map, k),
           \A l \in A.locations : \A W \in map[l] :
               W \subseteq X[l] \cup Points(targets[l])
    PROVE  Z \subseteq X[k]
<1>1. PICK e \in Edges(A) : e.from = k /\ Z \in Predecessors(A, e, map[e.to])
  BY DEF Inserted
<1>2. PICK W \in map[e.to] :
        Z = restrict(do_transition_backward(A, e, W), A.invariant[e.from])
  BY <1>1 DEF Predecessors
<1>3. W \subseteq X[e.to] \cup Points(targets[e.to])
  BY <1>1, <1>2, EdgesTyped
<1>4. Z \subseteq restrict(do_transition_backward(A, e, X[e.to] \cup Points(targets[e.to])),
                          A.invariant[e.from])
  BY <1>2, <1>3, BackwardMonotone
<1> QED
  BY <1>1, <1>4 DEF ClosedFamily

LEMMA StartInventsNothing ==
    ASSUME IsAutomaton(A), NEW map, StartReach(map), A' = A
    PROVE  NothingInvented'
<1> SUFFICES ASSUME NEW X \in [A.locations -> SUBSET Valuations(A)],
                    ClosedFamily(X)',
                    NEW l \in A.locations,
                    NEW Z \in passed'[l] \cup waiting'[l]
             PROVE  Z \subseteq X[l]
  BY DEF NothingInvented
<1>1. targets' = map /\ passed'[l] = {} /\ waiting'[l] = Inserted(A, map, l)
  BY DEF StartReach, EmptyMap, Seeds
<1>2. PICK e \in Edges(A) : e.from = l /\ Z \in Predecessors(A, e, map[e.to])
  BY <1>1 DEF Inserted
<1>3. PICK W \in map[e.to] :
        Z = restrict(do_transition_backward(A, e, W), A.invariant[e.from])
  BY <1>2 DEF Predecessors
<1>4. Z \subseteq restrict(do_transition_backward(A, e, X[e.to] \cup Points(map[e.to])),
                          A.invariant[e.from])
  BY <1>3, BackwardMonotone DEF Points
<1>5. restrict(do_transition_backward(A, e, X[e.to] \cup Points(map[e.to])),
               A.invariant[e.from]) \subseteq X[e.from]
  BY <1>1 DEF ClosedFamily
<1> QED
  BY <1>2, <1>4, <1>5

LEMMA InventedInit == Init => NothingInvented
<1> SUFFICES ASSUME Init,
                    NEW X \in [A.locations -> SUBSET Valuations(A)],
                    ClosedFamily(X),
                    NEW l \in A.locations,
                    NEW Z \in passed[l] \cup waiting[l]
             PROVE  Z \subseteq X[l]
  BY DEF NothingInvented
<1>1. IsAutomaton(A)
  BY AutomataAssumption DEF Init
<1>2. Z \in Inserted(A, targets, l)
  BY DEF Init, EmptyMap, Seeds
<1>3. \A k \in A.locations : \A W \in targets[k] : W \subseteq X[k] \cup Points(targets[k])
  BY DEF Points
<1> QED
  BY <1>1, <1>2, <1>3, ClosedFamilyStep

LEMMA InventedStep == Typed /\ NothingInvented /\ [Next]_vars => NothingInvented'
<1> SUFFICES ASSUME Typed, NothingInvented, [Next]_vars PROVE NothingInvented'
  OBVIOUS
<1>0. IsAutomaton(A) /\ waiting \in StateMaps(A) /\ passed \in StateMaps(A)
  BY DEF Typed, TypeOK
<1>1. CASE Skip
  <2>1. PICK l \in Pending :
          /\ waiting' = [waiting EXCEPT ![l] = {}]
          /\ UNCHANGED <<A, targets, passed, reach_a, phase>>
    BY <1>1 DEF Skip
  <2>2. \A k \in A.locations : waiting'[k] \subseteq waiting[k]
    BY <1>0, <2>1 DEF StateMaps
  <2> SUFFICES ASSUME NEW X \in [A.locations -> SUBSET Valuations(A)], ClosedFamily(X),
                      NEW k \in A.locations, NEW Z \in passed[k] \cup waiting'[k]
               PROVE  Z \subseteq X[k]
    BY <2>1 DEF NothingInvented, ClosedFamily
  <2> QED
    BY <2>2 DEF NothingInvented
<1>2. CASE Explore
  <2>1. PICK l \in Pending :
          /\ passed' = [passed EXCEPT ![l] = @ \cup waiting[l]]
          /\ waiting' = [k \in A.locations |->
                 (IF k = l THEN {} ELSE waiting[k])
                 \cup Inserted(A, [EmptyMap(A) EXCEPT ![l] = waiting[l]], k)]
          /\ UNCHANGED <<A, targets, reach_a, phase>>
    BY <1>2 DEF Explore
  <2> DEFINE popped == [EmptyMap(A) EXCEPT ![l] = waiting[l]]
  <2>2. l \in A.locations
    BY <1>0, <2>1 DEF Pending, Keys, StateMaps
  <2> SUFFICES ASSUME NEW X \in [A.locations -> SUBSET Valuations(A)], ClosedFamily(X),
                      NEW k \in A.locations, NEW Z \in passed'[k] \cup waiting'[k]
               PROVE  Z \subseteq X[k]
    BY <2>1 DEF NothingInvented, ClosedFamily
  <2>3. \A j \in A.locations : \A W \in passed[j] \cup waiting[j] : W \subseteq X[j]
    BY DEF NothingInvented
  <2>4. CASE Z \in passed[k] \cup waiting[k]
    BY <2>3, <2>4
  <2>5. CASE Z \notin passed[k] \cup waiting[k]
    <3>1. Z \notin passed'[k]
      BY <1>0, <2>1, <2>2, <2>5 DEF StateMaps
    <3>2. Z \in Inserted(A, popped, k)
      BY <2>1, <2>5, <3>1
    <3>3. \A j \in A.locations : \A W \in popped[j] :
            W \subseteq X[j] \cup Points(targets[j])
      BY <2>2, <2>3 DEF EmptyMap
    <3> HIDE DEF popped
    <3> QED
      BY <1>0, <3>2, <3>3, ClosedFamilyStep
  <2> QED
    BY <2>4, <2>5
<1>3. CASE FirstReachReturns
  BY <1>0, <1>3, StartInventsNothing DEF FirstReachReturns
<1>4. CASE Iterate
  BY <1>0, <1>4, StartInventsNothing DEF Iterate
<1>5. CASE Return
  BY <1>5 DEF Return, NothingInvented, ClosedFamily
<1>6. CASE Throw
  BY <1>6 DEF Throw, NothingInvented, ClosedFamily
<1>7. CASE UNCHANGED vars
  BY <1>7 DEF vars, NothingInvented, ClosedFamily
<1> QED
  BY <1>1, <1>2, <1>3, <1>4, <1>5, <1>6, <1>7 DEF Next

(***************************************************************************)
(* What reach passed lies within every family closed under backward steps: *)
(* a state is kept only because it really leads to the argument.           *)
(***************************************************************************)
THEOREM InventsNothing == Spec => []NothingInvented
<1>1. Init => Typed /\ NothingInvented
  BY TypedInit, InventedInit
<1>2. (Typed /\ NothingInvented) /\ [Next]_vars => (Typed /\ NothingInvented)'
  BY TypedStep, InventedStep
<1> QED
  BY <1>1, <1>2, PTL DEF Spec

-----------------------------------------------------------------------------
(***************************************************************************)
(* What is returned is a space a monitor can rely on.  First, time: two    *)
(* delays are one, and beyond Cap it makes no difference how long.         *)
(***************************************************************************)
LEMMA SaturateTwice ==
    ASSUME NEW n \in Nat, NEW d \in Nat
    PROVE  /\ Saturate(Saturate(n) + d) = Saturate(n + d)
           /\ Saturate(n) \in 0 .. Cap
  BY CapAssumption DEF Saturate

LEMMA SaturateCapped ==
    ASSUME NEW n \in Nat, NEW d \in Nat, d > Cap
    PROVE  Saturate(n + d) = Saturate(n + Cap)
  BY CapAssumption DEF Saturate

LEMMA ElapseTwice ==
    ASSUME NEW T, NEW v \in Valuations(T), NEW d \in 0 .. Cap, NEW k \in 0 .. Cap
    PROVE  /\ Elapse(v, d) \in Valuations(T)
           /\ \E j \in 0 .. Cap : Elapse(v, j) = Elapse(Elapse(v, d), k)
<1>1. DOMAIN v = T.clocks /\ \A c \in T.clocks : v[c] \in 0 .. Cap
  BY DEF Valuations
<1>2. d \in Nat /\ k \in Nat /\ d + k \in Nat
  BY CapAssumption
<1>3. \A c \in T.clocks : v[c] \in Nat /\ v[c] + d \in Nat
  BY <1>1, <1>2, CapAssumption
<1>4. Elapse(v, d) \in Valuations(T)
  BY <1>1, <1>2, <1>3, SaturateTwice DEF Elapse, Valuations
<1>5. Elapse(Elapse(v, d), k) = [c \in T.clocks |-> Saturate(v[c] + (d + k))]
  <2>1. \A c \in T.clocks : Saturate(Saturate(v[c] + d) + k) = Saturate((v[c] + d) + k)
    BY <1>2, <1>3, SaturateTwice
  <2>2. \A c \in T.clocks : (v[c] + d) + k = v[c] + (d + k)
    BY <1>2, <1>3
  <2> QED
    BY <1>1, <2>1, <2>2 DEF Elapse
<1>6. CASE d + k <= Cap
  <2>1. d + k \in 0 .. Cap /\ Elapse(v, d + k) = [c \in T.clocks |-> Saturate(v[c] + (d + k))]
    BY <1>1, <1>2, <1>6, CapAssumption DEF Elapse
  <2> QED
    BY <1>4, <1>5, <2>1
<1>7. CASE d + k > Cap
  <2>1. \A c \in T.clocks : Saturate(v[c] + (d + k)) = Saturate(v[c] + Cap)
    BY <1>2, <1>3, <1>7, SaturateCapped
  <2>2. Cap \in 0 .. Cap /\ Elapse(v, Cap) = [c \in T.clocks |-> Saturate(v[c] + Cap)]
    BY <1>1, CapAssumption DEF Elapse
  <2>3. Elapse(v, Cap) = Elapse(Elapse(v, d), k)
    BY <1>5, <2>1, <2>2
  <2> QED
    BY <1>4, <2>2, <2>3
<1> QED
  BY <1>2, <1>6, <1>7, CapAssumption

\* What can wait to get into Z can also wait to get to where it can wait.
LEMMA DownTwice ==
    ASSUME NEW T, NEW Z
    PROVE  down(T, down(T, Z)) \subseteq down(T, Z)
<1> SUFFICES ASSUME NEW v \in Valuations(T), NEW d \in 0 .. Cap, Elapse(v, d) \in down(T, Z)
             PROVE  v \in down(T, Z)
  BY DEF down
<1>1. PICK k \in 0 .. Cap : Elapse(Elapse(v, d), k) \in Z
  BY DEF down
<1>2. PICK j \in 0 .. Cap : Elapse(v, j) = Elapse(Elapse(v, d), k)
  BY ElapseTwice
<1> QED
  BY <1>1, <1>2 DEF down

\* A zone whose past within the invariant is in it.
Settled(T, l, Z) == restrict(down(T, Z), T.invariant[l]) \subseteq Z

LEMMA BackwardSettled ==
    ASSUME NEW T, NEW e, NEW Z
    PROVE  Settled(T, e.from, restrict(do_transition_backward(T, e, Z), T.invariant[e.from]))
<1> DEFINE Y == restrict(free(T, restrict_to_zero(down(T, Z), e.reset), e.reset), e.guard)
           W == restrict(down(T, Y), T.invariant[e.from])
<1>1. W \subseteq down(T, Y)
  BY DEF restrict
<1>2. down(T, W) \subseteq down(T, down(T, Y))
  BY <1>1 DEF down
<1>3. down(T, W) \subseteq down(T, Y)
  <2> HIDE DEF Y, W
  <2> QED
    BY <1>2, DownTwice
<1>4. restrict(down(T, W), T.invariant[e.from]) \subseteq W
  <2>1. \A X : restrict(X, T.invariant[e.from]) = {v \in X : Meets(v, T.invariant[e.from])}
    BY DEF restrict
  <2> HIDE DEF Y
  <2> QED
    BY <1>3, <2>1
<1> QED
  BY <1>4 DEF Settled, do_transition_backward

(***************************************************************************)
(* Then, the clocks: a backward step keeps indifference, whatever clocks D *)
(* are kept, as long as constraints read no other.                         *)
(***************************************************************************)
LEMMA DownIgnores ==
    ASSUME NEW T, NEW K \in SUBSET T.clocks, NEW Z, Ignores(T, K, Z)
    PROVE  Ignores(T, K, down(T, Z))
<1> SUFFICES ASSUME NEW v \in down(T, Z), NEW w \in Valuations(T), \A c \in K : v[c] = w[c]
             PROVE  w \in down(T, Z)
  BY DEF Ignores
<1>1. PICK d \in 0 .. Cap : v \in Valuations(T) /\ Elapse(v, d) \in Z
  BY DEF down
<1>2. Elapse(w, d) \in Valuations(T)
  <2>1. 0 \in 0 .. Cap
    BY CapAssumption
  <2> QED
    BY <1>1, ElapseTwice
<1>3. \A c \in K : Elapse(v, d)[c] = Elapse(w, d)[c]
  BY <1>1 DEF Elapse, Valuations
<1>4. Elapse(w, d) \in Z
  BY <1>1, <1>2, <1>3 DEF Ignores
<1> QED
  BY <1>1, <1>4 DEF down

LEMMA RestrictIgnores ==
    ASSUME NEW T, NEW K, NEW Z, Ignores(T, K, Z),
           NEW constraints, \A c \in constraints : c.clock \in K
    PROVE  Ignores(T, K, restrict(Z, constraints))
<1> SUFFICES ASSUME NEW v \in restrict(Z, constraints), NEW w \in Valuations(T),
                    \A c \in K : v[c] = w[c]
             PROVE  w \in restrict(Z, constraints)
  BY DEF Ignores
<1>1. v \in Z /\ Meets(v, constraints)
  BY DEF restrict
<1>2. w \in Z
  BY <1>1 DEF Ignores
<1>3. \A c \in constraints : v[c.clock] = w[c.clock]
  OBVIOUS
<1>4. Meets(w, constraints)
  BY <1>1, <1>3 DEF Meets, Satisfies
<1> QED
  BY <1>2, <1>4 DEF restrict

\* What a reset gives is zero, so its clocks need not be kept before it.
LEMMA ResetIgnores ==
    ASSUME NEW T, NEW K, NEW J \in SUBSET T.clocks, NEW R, J \ R \subseteq K,
           NEW Z, Ignores(T, J, Z), Z \subseteq Valuations(T), R \subseteq T.clocks
    PROVE  Ignores(T, K, free(T, restrict_to_zero(Z, R), R))
<1> SUFFICES ASSUME NEW v \in free(T, restrict_to_zero(Z, R), R), NEW u \in Valuations(T),
                    \A c \in K : v[c] = u[c]
             PROVE  u \in free(T, restrict_to_zero(Z, R), R)
  BY DEF Ignores
<1>1. PICK w \in restrict_to_zero(Z, R) : \A c \in T.clocks \ R : v[c] = w[c]
  BY DEF free
<1>2. w \in Z /\ \A c \in R : w[c] = 0
  BY <1>1 DEF restrict_to_zero
<1> DEFINE x == [c \in T.clocks |-> IF c \in R THEN 0 ELSE u[c]]
<1>3. x \in Valuations(T)
  BY CapAssumption DEF Valuations
<1>4. /\ \A c \in R : x[c] = 0
      /\ \A c \in T.clocks \ R : x[c] = u[c]
  OBVIOUS
<1> HIDE DEF x
<1>5. \A c \in J : w[c] = x[c]
  BY <1>1, <1>2, <1>4
<1>6. x \in Z
  BY <1>2, <1>3, <1>5 DEF Ignores
<1>7. x \in restrict_to_zero(Z, R)
  BY <1>4, <1>6 DEF restrict_to_zero
<1> QED
  BY <1>4, <1>7 DEF free

\* The kept clocks of every location suffice for a zone of location l.
Indifferent(T, l, Z) ==
    \A D \in [T.locations -> SUBSET T.clocks] : Reads(T, D) => Ignores(T, D[l], Z)

LEMMA BackwardIndifferent ==
    ASSUME NEW T, IsAutomaton(T), NEW e \in Edges(T), NEW Z, Indifferent(T, e.to, Z)
    PROVE  Indifferent(T, e.from,
                       restrict(do_transition_backward(T, e, Z), T.invariant[e.from]))
<1> SUFFICES ASSUME NEW D \in [T.locations -> SUBSET T.clocks], Reads(T, D)
             PROVE  Ignores(T, D[e.from],
                            restrict(do_transition_backward(T, e, Z), T.invariant[e.from]))
  BY DEF Indifferent
<1>1. e.from \in T.locations /\ e.to \in T.locations
  BY EdgesTyped
<1>2. e.reset \subseteq T.clocks
  <2>1. PICK i \in DOMAIN T.edges : e = T.edges[i]
    BY DEF Edges
  <2>2. e \in EdgesOver(T.locations, T.clocks)
    BY <2>1 DEF IsAutomaton
  <2> QED
    BY <2>2 DEF EdgesOver
<1> DEFINE J == D[e.to]
           K == D[e.from]
           R == e.reset
           below == down(T, Z)
           freed == free(T, restrict_to_zero(below, R), R)
           enabled == restrict(freed, e.guard)
<1>3. J \in SUBSET T.clocks /\ K \in SUBSET T.clocks /\ J \ R \subseteq K
  BY <1>1 DEF Reads
<1>4. /\ \A c \in e.guard : c.clock \in K
      /\ \A c \in T.invariant[e.from] : c.clock \in K
  BY <1>1 DEF Reads, ReadAt
<1>5. Ignores(T, J, Z)
  BY DEF Indifferent
<1>6. do_transition_backward(T, e, Z) = down(T, enabled)
  BY DEF do_transition_backward
<1>7. below \subseteq Valuations(T) /\ R \subseteq T.clocks
  BY <1>2 DEF down
<1>8. Ignores(T, J, below)
  <2> HIDE DEF J
  <2> QED
    BY <1>3, <1>5, DownIgnores
<1> HIDE DEF J, K, R, below
<1>9. Ignores(T, K, freed)
  BY <1>3, <1>7, <1>8, ResetIgnores
<1> HIDE DEF freed
<1>10. Ignores(T, K, enabled)
  BY <1>4, <1>9, RestrictIgnores
<1> HIDE DEF enabled
<1>11. Ignores(T, K, down(T, enabled))
  BY <1>3, <1>10, DownIgnores
<1>12. Ignores(T, K, restrict(down(T, enabled), T.invariant[e.from]))
  BY <1>4, <1>11, RestrictIgnores
<1> QED
  BY <1>6, <1>12 DEF K

(***************************************************************************)
(* Every zone of every map of the computation is settled and indifferent.  *)
(***************************************************************************)
Smooth(T, map) ==
    \A l \in T.locations : \A Z \in map[l] : Settled(T, l, Z) /\ Indifferent(T, l, Z)

LEMMA InsertedSmooth ==
    ASSUME NEW T, IsAutomaton(T), NEW map, Smooth(T, map), NEW k, NEW Z \in Inserted(T, map, k)
    PROVE  Settled(T, k, Z) /\ Indifferent(T, k, Z)
<1>1. PICK e \in Edges(T) : e.from = k /\ Z \in Predecessors(T, e, map[e.to])
  BY DEF Inserted
<1>2. PICK W \in map[e.to] :
        Z = restrict(do_transition_backward(T, e, W), T.invariant[e.from])
  BY <1>1 DEF Predecessors
<1>3. Indifferent(T, e.to, W)
  BY EdgesTyped DEF Smooth
<1>4. Settled(T, e.from, Z) /\ Indifferent(T, e.from, Z)
  BY <1>2, <1>3, BackwardSettled, BackwardIndifferent
<1> QED
  BY <1>1, <1>4

LEMMA FirstMapsSmooth ==
    ASSUME NEW T
    PROVE  Smooth(T, accept_states(T)) /\ Smooth(T, EmptyMap(T))
<1>1. Smooth(T, EmptyMap(T))
  BY DEF Smooth, EmptyMap
<1>2. ASSUME NEW l \in T.locations
      PROVE  Settled(T, l, Valuations(T)) /\ Indifferent(T, l, Valuations(T))
  BY DEF Settled, Indifferent, Ignores, restrict, down
<1>3. Smooth(T, accept_states(T))
  BY <1>2 DEF Smooth, accept_states
<1> QED
  BY <1>1, <1>3

AllSmooth == Smooth(A, targets) /\ Smooth(A, waiting) /\ Smooth(A, passed) /\ Smooth(A, reach_a)

LEMMA StartSmooth ==
    ASSUME IsAutomaton(A), NEW map, Smooth(A, map), StartReach(map)
    PROVE  Smooth(A, targets') /\ Smooth(A, waiting') /\ Smooth(A, passed')
<1>1. targets' = map /\ waiting' = Seeds(A, map) /\ passed' = EmptyMap(A)
  BY DEF StartReach
<1>2. Smooth(A, Seeds(A, map))
  BY InsertedSmooth DEF Smooth, Seeds
<1> QED
  BY <1>1, <1>2, FirstMapsSmooth

LEMMA SmoothInit == Init => AllSmooth
<1> SUFFICES ASSUME Init PROVE AllSmooth
  OBVIOUS
<1>1. IsAutomaton(A) /\ targets = accept_states(A) /\ waiting = Seeds(A, accept_states(A))
      /\ passed = EmptyMap(A) /\ reach_a = EmptyMap(A)
  BY AutomataAssumption DEF Init
<1>2. Smooth(A, accept_states(A)) /\ Smooth(A, EmptyMap(A))
  BY FirstMapsSmooth
<1>3. Smooth(A, Seeds(A, accept_states(A)))
  BY <1>1, <1>2, InsertedSmooth DEF Smooth, Seeds
<1> QED
  BY <1>1, <1>2, <1>3 DEF AllSmooth

LEMMA SmoothStep == Typed /\ AllSmooth /\ [Next]_vars => AllSmooth'
<1> SUFFICES ASSUME Typed, AllSmooth, [Next]_vars PROVE AllSmooth'
  OBVIOUS
<1>0. /\ IsAutomaton(A) /\ waiting \in StateMaps(A) /\ passed \in StateMaps(A)
      /\ Smooth(A, targets) /\ Smooth(A, waiting) /\ Smooth(A, passed) /\ Smooth(A, reach_a)
  BY DEF Typed, TypeOK, AllSmooth
<1>1. CASE Skip
  <2>1. PICK l \in Pending :
          /\ waiting' = [waiting EXCEPT ![l] = {}]
          /\ UNCHANGED <<A, targets, passed, reach_a, phase>>
    BY <1>1 DEF Skip
  <2>2. \A k \in A.locations : waiting'[k] \subseteq waiting[k]
    BY <1>0, <2>1 DEF StateMaps
  <2>3. Smooth(A, waiting')
    BY <1>0, <2>2 DEF Smooth
  <2> QED
    BY <1>0, <2>1, <2>3 DEF AllSmooth
<1>2. CASE Explore
  <2>1. PICK l \in Pending :
          /\ passed' = [passed EXCEPT ![l] = @ \cup waiting[l]]
          /\ waiting' = [k \in A.locations |->
                 (IF k = l THEN {} ELSE waiting[k])
                 \cup Inserted(A, [EmptyMap(A) EXCEPT ![l] = waiting[l]], k)]
          /\ UNCHANGED <<A, targets, reach_a, phase>>
    BY <1>2 DEF Explore
  <2> DEFINE popped == [EmptyMap(A) EXCEPT ![l] = waiting[l]]
  <2>2. l \in A.locations
    BY <1>0, <2>1 DEF Pending, Keys, StateMaps
  <2>3. Smooth(A, popped)
    BY <1>0, <2>2 DEF Smooth, EmptyMap
  <2>4. Smooth(A, passed')
    BY <1>0, <2>1, <2>2 DEF Smooth, StateMaps
  <2>5. waiting' = [k \in A.locations |->
           (IF k = l THEN {} ELSE waiting[k]) \cup Inserted(A, popped, k)]
    BY <2>1
  <2> HIDE DEF popped
  <2>6. Smooth(A, waiting')
    BY <1>0, <2>3, <2>5, InsertedSmooth DEF Smooth
  <2> QED
    BY <1>0, <2>1, <2>4, <2>6 DEF AllSmooth
<1>3. Smooth(A, OnlyAccepting(A, passed))
  BY <1>0 DEF Smooth, OnlyAccepting
<1>4. CASE FirstReachReturns
  BY <1>0, <1>3, <1>4, StartSmooth DEF FirstReachReturns, AllSmooth
<1>5. CASE Iterate
  BY <1>0, <1>3, <1>5, StartSmooth DEF Iterate, AllSmooth
<1>6. CASE Return
  BY <1>0, <1>6 DEF Return, AllSmooth
<1>7. CASE Throw
  BY <1>0, <1>7 DEF Throw, AllSmooth
<1>8. CASE UNCHANGED vars
  BY <1>0, <1>8 DEF vars, AllSmooth
<1> QED
  BY <1>1, <1>2, <1>4, <1>5, <1>6, <1>7, <1>8 DEF Next

(***************************************************************************)
(* What is returned equals what the last call of reach passed, and that is *)
(* closed under backward steps.                                            *)
(***************************************************************************)
Settling == phase = "returned" => Pending = {} /\ equals(reach_a, passed)

LEMMA SettlingStep == Settling /\ [Next]_vars => Settling'
<1> SUFFICES ASSUME Settling, [Next]_vars PROVE Settling'
  OBVIOUS
<1>1. CASE Skip
  <2>1. phase' = phase /\ Pending # {}
    BY <1>1 DEF Skip
  <2> QED
    BY <2>1 DEF Settling
<1>2. CASE Explore
  <2>1. phase' = phase /\ Pending # {}
    BY <1>2 DEF Explore
  <2> QED
    BY <2>1 DEF Settling
<1>3. CASE FirstReachReturns
  BY <1>3 DEF FirstReachReturns, Settling
<1>4. CASE Iterate
  BY <1>4 DEF Iterate, Differs, Settling
<1>5. CASE Return
  BY <1>5 DEF Return, Settling, Pending
<1>6. CASE Throw
  BY <1>6 DEF Throw, Settling
<1>7. CASE UNCHANGED vars
  BY <1>7 DEF vars, Settling, Pending
<1> QED
  BY <1>1, <1>2, <1>3, <1>4, <1>5, <1>6, <1>7 DEF Next

\* Equal maps have the same zones up to inclusion, in every location.
LEMMA EqualMaps ==
    ASSUME NEW T, IsAutomaton(T), NEW f \in StateMaps(T), NEW g \in StateMaps(T), equals(f, g)
    PROVE  \A l \in T.locations : is_included_in(f[l], g[l]) /\ is_included_in(g[l], f[l])
<1>1. Keys(f) \subseteq T.locations /\ Keys(g) \subseteq T.locations
  BY DEF Keys, StateMaps
<1>2. IsFiniteSet(Keys(g))
  BY <1>1, FS_Subset DEF IsAutomaton
<1>3. Keys(f) \subseteq Keys(g) /\ Cardinality(Keys(f)) = Cardinality(Keys(g))
  BY <1>1 DEF equals, SameSize, Keys, StateMaps
<1>4. Keys(f) = Keys(g)
  BY <1>2, <1>3, FS_Subset
<1> SUFFICES ASSUME NEW l \in T.locations
             PROVE  is_included_in(f[l], g[l]) /\ is_included_in(g[l], f[l])
  OBVIOUS
<1>5. CASE l \in Keys(f)
  BY <1>5 DEF equals, SameFederation
<1>6. CASE l \notin Keys(f)
  <2>1. f[l] = {} /\ g[l] = {}
    BY <1>4, <1>6 DEF Keys, StateMaps, has_state
  <2> QED
    BY <2>1 DEF is_included_in
<1> QED
  BY <1>5, <1>6

LEMMA ReturnedClosed ==
    ASSUME Typed, NothingForgotten, AllSmooth, Settling, phase = "returned"
    PROVE  IsClosed(A, reach_a)
<1>1. /\ IsAutomaton(A) /\ waiting \in StateMaps(A) /\ passed \in StateMaps(A)
      /\ reach_a \in StateMaps(A) /\ Smooth(A, reach_a)
  BY DEF Typed, TypeOK, AllSmooth
<1>2. \A l \in A.locations : is_included_in(reach_a[l], passed[l]) /\ is_included_in(passed[l], reach_a[l])
  BY <1>1, EqualMaps DEF Settling
<1>3. \A l \in A.locations : \A Z \in reach_a[l] :
         restrict(down(A, Z), A.invariant[l]) \subseteq Points(reach_a[l])
  BY <1>1 DEF Smooth, Settled, Points
<1>4. ASSUME NEW e \in Edges(A), NEW Z \in reach_a[e.to]
      PROVE  restrict(do_transition_backward(A, e, Z), A.invariant[e.from]) \subseteq Points(reach_a[e.from])
  <2>1. e.from \in A.locations /\ e.to \in A.locations
    BY <1>1, EdgesTyped
  <2>2. PICK W \in passed[e.to] : Z \subseteq W
    BY <1>2, <2>1 DEF is_included_in
  <2> DEFINE Y == restrict(do_transition_backward(A, e, W), A.invariant[e.from])
  <2>3. restrict(do_transition_backward(A, e, Z), A.invariant[e.from]) \subseteq Y
    BY <2>2, BackwardMonotone
  <2>4. Y # {} => Y \in Predecessors(A, e, targets[e.to] \cup passed[e.to])
    BY DEF Predecessors
  <2>5. waiting[e.from] = {}
    BY <1>1, <2>1 DEF Settling, StateMaps, Pending, Keys, has_state
  <2> HIDE DEF Y
  <2>6. Y # {} => \E V \in passed[e.from] : Y \subseteq V
    BY <2>4, <2>5 DEF NothingForgotten, Covered
  <2>7. Y # {} => \E U \in reach_a[e.from] : Y \subseteq U
    BY <1>2, <2>1, <2>6 DEF is_included_in
  <2> QED
    BY <2>3, <2>7 DEF Points
<1> QED
  BY <1>3, <1>4 DEF IsClosed

LEMMA ReturnedIndifferent ==
    ASSUME AllSmooth
    PROVE  IsIndifferent(A, reach_a)
<1> SUFFICES ASSUME NEW D \in [A.locations -> SUBSET A.clocks], Reads(A, D), NEW l \in A.locations
             PROVE  Ignores(A, D[l], Points(reach_a[l]))
  BY DEF IsIndifferent
<1>1. \A Z \in reach_a[l] : Ignores(A, D[l], Z)
  BY DEF AllSmooth, Smooth, Indifferent
<1> QED
  BY <1>1 DEF Ignores, Points

(***************************************************************************)
(* What buchi_accept_fixpoint returns is a space: time and edges lead into *)
(* it from nowhere else, and it does not tell apart what no constraint     *)
(* does.  This is what the theorems about the monitors take it to be.      *)
(***************************************************************************)
THEOREM SpacesAreClosed ==
    Spec => [](phase = "returned" => IsClosed(A, reach_a) /\ IsIndifferent(A, reach_a))
<1> DEFINE Q == Typed /\ NothingForgotten /\ AllSmooth /\ Settling
<1>1. Init => Q
  BY TypedInit, ForgottenInit, SmoothInit DEF Init, Settling
<1>2. Q /\ [Next]_vars => Q'
  BY TypedStep, ForgottenStep, SmoothStep, SettlingStep
<1>3. Q => (phase = "returned" => IsClosed(A, reach_a) /\ IsIndifferent(A, reach_a))
  BY ReturnedClosed, ReturnedIndifferent
<1> QED
  BY <1>1, <1>2, <1>3, PTL DEF Spec

(***************************************************************************)
(* The rounds of buchi_accept_fixpoint.  A backward step of a federation   *)
(* is made zone by zone, so the points of what reach returns are a family  *)
(* that backward steps do not leave.                                       *)
(***************************************************************************)
LEMMA BackwardOfPoints ==
    ASSUME NEW T, NEW e, NEW F, NEW constraints,
           NEW v \in restrict(do_transition_backward(T, e, Points(F)), constraints)
    PROVE  \E Z \in F : v \in restrict(do_transition_backward(T, e, Z), constraints)
<1>1. v \in do_transition_backward(T, e, Points(F)) /\ Meets(v, constraints)
  BY DEF restrict
<1>2. PICK d \in 0 .. Cap :
         /\ v \in Valuations(T)
         /\ Elapse(v, d) \in restrict(free(T, restrict_to_zero(down(T, Points(F)), e.reset), e.reset), e.guard)
  BY <1>1 DEF do_transition_backward, down
<1> DEFINE u == Elapse(v, d)
<1>3. u \in free(T, restrict_to_zero(down(T, Points(F)), e.reset), e.reset) /\ Meets(u, e.guard)
  BY <1>2 DEF restrict
<1>4. PICK w \in restrict_to_zero(down(T, Points(F)), e.reset) :
         u \in Valuations(T) /\ \A c \in T.clocks \ e.reset : u[c] = w[c]
  BY <1>3 DEF free
<1>5. w \in down(T, Points(F)) /\ \A c \in e.reset : w[c] = 0
  BY <1>4 DEF restrict_to_zero
<1>6. PICK Z \in F : w \in down(T, Z)
  BY <1>5 DEF down, Points
<1>7. w \in restrict_to_zero(down(T, Z), e.reset)
  BY <1>5, <1>6 DEF restrict_to_zero
<1> HIDE DEF u
<1>8. u \in free(T, restrict_to_zero(down(T, Z), e.reset), e.reset)
  BY <1>4, <1>7 DEF free
<1>9. u \in restrict(free(T, restrict_to_zero(down(T, Z), e.reset), e.reset), e.guard)
  BY <1>3, <1>8 DEF restrict
<1>10. v \in do_transition_backward(T, e, Z)
  BY <1>2, <1>9 DEF do_transition_backward, down, u
<1> QED
  BY <1>1, <1>10 DEF restrict

PointsOf(map) == [l \in A.locations |-> Points(map[l])]

LEMMA PassedIsClosed ==
    ASSUME Typed, NothingForgotten, Pending = {}
    PROVE  /\ PointsOf(passed) \in [A.locations -> SUBSET Valuations(A)]
           /\ ClosedFamily(PointsOf(passed))
<1>1. IsAutomaton(A) /\ waiting \in StateMaps(A) /\ passed \in StateMaps(A)
  BY DEF Typed, TypeOK
<1>2. PointsOf(passed) \in [A.locations -> SUBSET Valuations(A)]
  BY <1>1 DEF PointsOf, Points, StateMaps, Federations
<1>3. ASSUME NEW e \in Edges(A),
             NEW v \in restrict(do_transition_backward(A, e, PointsOf(passed)[e.to] \cup Points(targets[e.to])),
                                A.invariant[e.from])
      PROVE  v \in PointsOf(passed)[e.from]
  <2>1. e.from \in A.locations /\ e.to \in A.locations
    BY <1>1, EdgesTyped
  <2>2. PointsOf(passed)[e.to] \cup Points(targets[e.to]) = Points(targets[e.to] \cup passed[e.to])
    BY <2>1 DEF PointsOf, Points
  <2>3. PICK Z \in targets[e.to] \cup passed[e.to] :
           v \in restrict(do_transition_backward(A, e, Z), A.invariant[e.from])
    BY <1>3, <2>2, BackwardOfPoints
  <2> DEFINE Y == restrict(do_transition_backward(A, e, Z), A.invariant[e.from])
  <2>4. Y \in Predecessors(A, e, targets[e.to] \cup passed[e.to])
    BY <2>3 DEF Predecessors
  <2>5. waiting[e.from] = {}
    BY <1>1, <2>1 DEF StateMaps, Pending, Keys, has_state
  <2>6. PICK W \in passed[e.from] : Y \subseteq W
    BY <2>4, <2>5 DEF NothingForgotten, Covered
  <2> QED
    BY <2>1, <2>3, <2>6 DEF PointsOf, Points
<1>4. ClosedFamily(PointsOf(passed))
  BY <1>3 DEF ClosedFamily
<1> QED
  BY <1>2, <1>4

\* Backward steps leave a family the less, the less they start from.
LEMMA FewerTargets ==
    ASSUME IsAutomaton(A), NEW X, ClosedFamily(X), A' = A,
           \A l \in A.locations : Points(targets'[l]) \subseteq Points(targets[l])
    PROVE  ClosedFamily(X)'
<1> SUFFICES ASSUME NEW e \in Edges(A)
             PROVE  restrict(do_transition_backward(A, e, X[e.to] \cup Points(targets'[e.to])),
                             A.invariant[e.from]) \subseteq X[e.from]
  BY DEF ClosedFamily
<1>1. X[e.to] \cup Points(targets'[e.to]) \subseteq X[e.to] \cup Points(targets[e.to])
  BY EdgesTyped
<1>2. restrict(do_transition_backward(A, e, X[e.to] \cup Points(targets'[e.to])), A.invariant[e.from])
        \subseteq restrict(do_transition_backward(A, e, X[e.to] \cup Points(targets[e.to])), A.invariant[e.from])
  BY <1>1, BackwardMonotone
<1> QED
  BY <1>2 DEF ClosedFamily

(***************************************************************************)
(* In the loop, reach starts from what the round before has left, and that *)
(* is contained, in accepting locations, in what was started from.         *)
(***************************************************************************)
Bounds(X) ==
    /\ ClosedFamily(X)
    /\ \A l \in A.accept : X[l] \subseteq Points(targets[l])

Shrinking ==
    /\ phase = "first" => targets = accept_states(A)
    /\ phase # "first" => targets = OnlyAccepting(A, reach_a)
    /\ phase = "loop" => \E X \in [A.locations -> SUBSET Valuations(A)] : Bounds(X)

LEMMA OnlyAcceptingTwice ==
    ASSUME NEW T, NEW map
    PROVE  OnlyAccepting(T, OnlyAccepting(T, map)) = OnlyAccepting(T, map)
  BY DEF OnlyAccepting

\* A call of reach returns X and the next one starts from its accepting locations.
LEMMA BoundsStep ==
    ASSUME IsAutomaton(A), NEW P, PointsOf(passed) = P, ClosedFamily(P), A' = A,
           passed \in StateMaps(A),
           targets' = OnlyAccepting(A, passed),
           \A l \in A.accept : Points(passed[l]) \subseteq Points(targets[l])
    PROVE  Bounds(P)'
<1>1. \A l \in A.locations : Points(targets'[l]) \subseteq Points(targets[l])
  BY DEF OnlyAccepting, Points
<1>2. ClosedFamily(P)'
  BY <1>1, FewerTargets
<1>3. \A l \in A.accept : P[l] \subseteq Points(targets'[l])
  BY DEF OnlyAccepting, PointsOf, IsAutomaton
<1> QED
  BY <1>2, <1>3 DEF Bounds

\* Nothing but the values of the targets and the automaton matters.
LEMMA BoundsStay ==
    ASSUME Shrinking, A' = A, targets' = targets, reach_a' = reach_a, phase' = phase
    PROVE  Shrinking'
<1>1. ASSUME NEW X, Bounds(X)
      PROVE  Bounds(X)'
  BY <1>1 DEF Bounds, ClosedFamily
<1>2. phase' = "loop" => \E X \in [A'.locations -> SUBSET Valuations(A')] : Bounds(X)'
  BY <1>1 DEF Shrinking
<1> QED
  BY <1>2 DEF Shrinking

\* What reach has passed lies within the bounds of its round.
LEMMA PassedShrinks ==
    ASSUME Typed, NothingInvented, Shrinking, phase = "loop"
    PROVE  \A l \in A.accept : Points(passed[l]) \subseteq Points(targets[l])
<1>1. PICK X \in [A.locations -> SUBSET Valuations(A)] : Bounds(X)
  BY DEF Shrinking
<1>2. \A l \in A.locations : \A Z \in passed[l] \cup waiting[l] : Z \subseteq X[l]
  BY <1>1 DEF NothingInvented, Bounds
<1>3. \A l \in A.accept : l \in A.locations
  BY DEF Typed, TypeOK, IsAutomaton
<1> QED
  BY <1>1, <1>2, <1>3 DEF Bounds, Points

LEMMA PassedAccepted ==
    ASSUME Typed, targets = accept_states(A)
    PROVE  \A l \in A.accept : Points(passed[l]) \subseteq Points(targets[l])
<1>1. \A l \in A.accept : l \in A.locations
  BY DEF Typed, TypeOK, IsAutomaton
<1>2. \A l \in A.accept : Points(targets[l]) = Valuations(A)
  BY <1>1 DEF accept_states, Points
<1>3. \A l \in A.accept : Points(passed[l]) \subseteq Valuations(A)
  BY <1>1 DEF Typed, TypeOK, StateMaps, Federations, Points
<1> QED
  BY <1>2, <1>3

LEMMA ShrinkingInit == Init => Shrinking
  BY DEF Init, Shrinking

LEMMA RoundShrinks ==
    ASSUME Typed, NothingForgotten, NothingInvented, Shrinking, Pending = {},
           \A l \in A.accept : Points(passed[l]) \subseteq Points(targets[l]),
           A' = A, targets' = OnlyAccepting(A, passed), phase' = "loop",
           reach_a' = passed \/ reach_a' = OnlyAccepting(A, passed)
    PROVE  Shrinking'
<1>1. IsAutomaton(A) /\ passed \in StateMaps(A)
  BY DEF Typed, TypeOK
<1>2. PICK P : P = PointsOf(passed)
  OBVIOUS
<1>3. P \in [A.locations -> SUBSET Valuations(A)] /\ ClosedFamily(P)
  BY <1>2, PassedIsClosed
<1>4. Bounds(P)'
  BY <1>1, <1>2, <1>3, BoundsStep
<1>5. targets' = OnlyAccepting(A', reach_a')
  BY OnlyAcceptingTwice
<1> QED
  BY <1>3, <1>4, <1>5 DEF Shrinking

LEMMA ShrinkingStep ==
    Typed /\ NothingForgotten /\ NothingInvented /\ Shrinking /\ [Next]_vars => Shrinking'
<1> SUFFICES ASSUME Typed, NothingForgotten, NothingInvented, Shrinking, [Next]_vars
             PROVE  Shrinking'
  OBVIOUS
<1>1. CASE Skip
  BY <1>1, BoundsStay DEF Skip
<1>2. CASE Explore
  BY <1>2, BoundsStay DEF Explore
<1>3. CASE FirstReachReturns
  <2>1. targets = accept_states(A)
    BY <1>3 DEF FirstReachReturns, Shrinking
  <2> QED
    BY <1>3, <2>1, PassedAccepted, RoundShrinks DEF FirstReachReturns, StartReach
<1>4. CASE Iterate
  BY <1>4, PassedShrinks, RoundShrinks DEF Iterate, Differs, StartReach
<1>5. CASE Return
  BY <1>5 DEF Return, Shrinking
<1>6. CASE Throw
  BY <1>6 DEF Throw, Shrinking
<1>7. CASE UNCHANGED vars
  BY <1>7, BoundsStay DEF vars
<1> QED
  BY <1>1, <1>2, <1>3, <1>4, <1>5, <1>6, <1>7 DEF Next

(***************************************************************************)
(* The loop of buchi_accept_fixpoint only ever gives states up, whatever   *)
(* the automaton.                                                          *)
(***************************************************************************)
LEMMA IterateGivesUp ==
    ASSUME Typed, NothingForgotten, NothingInvented, Shrinking, Iterate
    PROVE  GivesUp
<1> SUFFICES ASSUME NEW l \in A.accept
             PROVE  Points(reach_a'[l]) \subseteq Points(reach_a[l])
  BY DEF GivesUp
<1>1. phase = "loop" /\ reach_a' = passed
  BY DEF Iterate, Differs
<1>2. l \in A.locations
  BY DEF Typed, TypeOK, IsAutomaton
<1>3. targets[l] = reach_a[l]
  BY <1>1, <1>2 DEF Shrinking, OnlyAccepting
<1>4. Points(passed[l]) \subseteq Points(targets[l])
  BY <1>1, PassedShrinks
<1> QED
  BY <1>1, <1>3, <1>4

(***************************************************************************)
(* Why the computation ends: every step advances in an order in which      *)
(* nothing advances for ever.  What is interesting is another round, and   *)
(* there points are not enough: equals compares zone by zone.  But zone by *)
(* zone, too, reach finds the least that is closed under backward steps.   *)
(***************************************************************************)
ClosedZones(X) ==
    \A e \in Edges(A) : \A Z \in Predecessors(A, e, targets[e.to] \cup X[e.to]) :
        Covered(Z, X[e.from])

NoZoneInvented ==
    \A X \in StateMaps(A) : ClosedZones(X) =>
        \A l \in A.locations : \A Z \in passed[l] \cup waiting[l] : Covered(Z, X[l])

LEMMA ClosedZonesStep ==
    ASSUME IsAutomaton(A), NEW X, ClosedZones(X),
           NEW map, NEW k \in A.locations, NEW Z \in Inserted(A, map, k),
           \A l \in A.locations : \A W \in map[l] : Covered(W, targets[l] \cup X[l])
    PROVE  Covered(Z, X[k])
<1>1. PICK e \in Edges(A) : e.from = k /\ Z \in Predecessors(A, e, map[e.to])
  BY DEF Inserted
<1>2. PICK W \in map[e.to] :
        Z = restrict(do_transition_backward(A, e, W), A.invariant[e.from]) /\ Z # {}
  BY <1>1 DEF Predecessors
<1>3. PICK V \in targets[e.to] \cup X[e.to] : W \subseteq V
  BY <1>1, <1>2, EdgesTyped DEF Covered
<1> DEFINE Y == restrict(do_transition_backward(A, e, V), A.invariant[e.from])
<1>4. Z \subseteq Y
  BY <1>2, <1>3, BackwardMonotone
<1>5. Y \in Predecessors(A, e, targets[e.to] \cup X[e.to])
  BY <1>2, <1>4 DEF Predecessors
<1> HIDE DEF Y
<1>6. Covered(Y, X[e.from])
  BY <1>5 DEF ClosedZones
<1> QED
  BY <1>1, <1>4, <1>6 DEF Covered

LEMMA StartZones ==
    ASSUME IsAutomaton(A), NEW map, StartReach(map), A' = A
    PROVE  NoZoneInvented'
<1> SUFFICES ASSUME NEW X \in StateMaps(A), ClosedZones(X)', NEW l \in A.locations,
                    NEW Z \in passed'[l] \cup waiting'[l]
             PROVE  Covered(Z, X[l])
  BY DEF NoZoneInvented
<1>1. targets' = map /\ passed'[l] = {} /\ waiting'[l] = Inserted(A, map, l)
  BY DEF StartReach, EmptyMap, Seeds
<1>2. PICK e \in Edges(A) : e.from = l /\ Z \in Predecessors(A, e, map[e.to])
  BY <1>1 DEF Inserted
<1>3. Z \in Predecessors(A, e, map[e.to] \cup X[e.to])
  BY <1>2 DEF Predecessors
<1> QED
  BY <1>1, <1>2, <1>3 DEF ClosedZones

LEMMA ZonesInit == Init => NoZoneInvented
<1> SUFFICES ASSUME Init, NEW X \in StateMaps(A), ClosedZones(X), NEW l \in A.locations,
                    NEW Z \in passed[l] \cup waiting[l]
             PROVE  Covered(Z, X[l])
  BY DEF NoZoneInvented
<1>1. IsAutomaton(A)
  BY AutomataAssumption DEF Init
<1>2. Z \in Inserted(A, targets, l)
  BY DEF Init, EmptyMap, Seeds
<1>3. \A k \in A.locations : \A W \in targets[k] : Covered(W, targets[k] \cup X[k])
  BY DEF Covered
<1> QED
  BY <1>1, <1>2, <1>3, ClosedZonesStep

LEMMA ZonesStep == Typed /\ NoZoneInvented /\ [Next]_vars => NoZoneInvented'
<1> SUFFICES ASSUME Typed, NoZoneInvented, [Next]_vars PROVE NoZoneInvented'
  OBVIOUS
<1>0. IsAutomaton(A) /\ waiting \in StateMaps(A) /\ passed \in StateMaps(A)
  BY DEF Typed, TypeOK
<1>1. CASE Skip
  <2>1. PICK l \in Pending :
          /\ waiting' = [waiting EXCEPT ![l] = {}]
          /\ UNCHANGED <<A, targets, passed, reach_a, phase>>
    BY <1>1 DEF Skip
  <2>2. \A k \in A.locations : waiting'[k] \subseteq waiting[k]
    BY <1>0, <2>1 DEF StateMaps
  <2> SUFFICES ASSUME NEW X \in StateMaps(A), ClosedZones(X),
                      NEW k \in A.locations, NEW Z \in passed[k] \cup waiting'[k]
               PROVE  Covered(Z, X[k])
    BY <2>1 DEF NoZoneInvented, ClosedZones
  <2> QED
    BY <2>2 DEF NoZoneInvented
<1>2. CASE Explore
  <2>1. PICK l \in Pending :
          /\ passed' = [passed EXCEPT ![l] = @ \cup waiting[l]]
          /\ waiting' = [k \in A.locations |->
                 (IF k = l THEN {} ELSE waiting[k])
                 \cup Inserted(A, [EmptyMap(A) EXCEPT ![l] = waiting[l]], k)]
          /\ UNCHANGED <<A, targets, reach_a, phase>>
    BY <1>2 DEF Explore
  <2> DEFINE popped == [EmptyMap(A) EXCEPT ![l] = waiting[l]]
  <2>2. l \in A.locations
    BY <1>0, <2>1 DEF Pending, Keys, StateMaps
  <2> SUFFICES ASSUME NEW X \in StateMaps(A), ClosedZones(X),
                      NEW k \in A.locations, NEW Z \in passed'[k] \cup waiting'[k]
               PROVE  Covered(Z, X[k])
    BY <2>1 DEF NoZoneInvented, ClosedZones
  <2>3. \A j \in A.locations : \A W \in passed[j] \cup waiting[j] : Covered(W, X[j])
    BY DEF NoZoneInvented
  <2>4. CASE Z \in passed[k] \cup waiting[k]
    BY <2>3, <2>4
  <2>5. CASE Z \notin passed[k] \cup waiting[k]
    <3>1. Z \notin passed'[k]
      BY <1>0, <2>1, <2>2, <2>5 DEF StateMaps
    <3>2. Z \in Inserted(A, popped, k)
      BY <2>1, <2>5, <3>1
    <3>3. \A j \in A.locations : \A W \in popped[j] : Covered(W, X[j])
      BY <2>2, <2>3 DEF EmptyMap
    <3>4. \A j \in A.locations : \A W \in popped[j] : Covered(W, targets[j] \cup X[j])
      BY <3>3 DEF Covered
    <3> HIDE DEF popped
    <3> QED
      BY <1>0, <3>2, <3>4, ClosedZonesStep
  <2> QED
    BY <2>4, <2>5
<1>3. CASE FirstReachReturns
  BY <1>0, <1>3, StartZones DEF FirstReachReturns
<1>4. CASE Iterate
  BY <1>0, <1>4, StartZones DEF Iterate
<1>5. CASE Return
  BY <1>5 DEF Return, NoZoneInvented, ClosedZones
<1>6. CASE Throw
  BY <1>6 DEF Throw, NoZoneInvented, ClosedZones
<1>7. CASE UNCHANGED vars
  BY <1>7 DEF vars, NoZoneInvented, ClosedZones
<1> QED
  BY <1>1, <1>2, <1>3, <1>4, <1>5, <1>6, <1>7 DEF Next

(***************************************************************************)
(* In the loop, some map that is closed bounds what reach will find, and   *)
(* it is covered, in accepting locations, by what reach started from.      *)
(***************************************************************************)
BoundsZones(X) ==
    ClosedZones(X) /\ \A l \in A.accept : is_included_in(X[l], targets[l])

Bounded == phase = "loop" => \E X \in StateMaps(A) : BoundsZones(X)

\* What is passed when the worklist is empty is closed, also for the next argument.
LEMMA PassedBounds ==
    ASSUME Typed, NothingForgotten, Pending = {},
           A' = A, targets' = OnlyAccepting(A, passed),
           \A l \in A.accept : is_included_in(passed[l], targets[l])
    PROVE  \A X : X = passed => BoundsZones(X)'
<1> SUFFICES ASSUME NEW X, X = passed PROVE BoundsZones(X)'
  OBVIOUS
<1>1. IsAutomaton(A) /\ waiting \in StateMaps(A)
  BY DEF Typed, TypeOK
<1>2. ClosedZones(X)
  <2>1. \A l \in A.locations : waiting[l] = {}
    BY <1>1 DEF StateMaps, Pending, Keys, has_state
  <2> SUFFICES ASSUME NEW e \in Edges(A), NEW Z \in Predecessors(A, e, targets[e.to] \cup passed[e.to])
               PROVE  Covered(Z, passed[e.from])
    BY DEF ClosedZones
  <2>2. Covered(Z, passed[e.from] \cup waiting[e.from])
    BY DEF NothingForgotten
  <2> QED
    BY <1>1, <2>1, <2>2, EdgesTyped DEF Covered
<1>3. \A l \in A.locations : is_included_in(targets'[l], targets[l])
  BY DEF OnlyAccepting, is_included_in
<1>4. ASSUME NEW e \in Edges(A), NEW Z \in Predecessors(A, e, targets'[e.to] \cup X[e.to])
      PROVE  Covered(Z, X[e.from])
  <2>1. PICK W \in targets'[e.to] \cup X[e.to] :
          Z = restrict(do_transition_backward(A, e, W), A.invariant[e.from]) /\ Z # {}
    BY DEF Predecessors
  <2>2. PICK V \in targets[e.to] \cup X[e.to] : W \subseteq V
    BY <1>1, <1>3, <2>1, EdgesTyped DEF is_included_in
  <2> DEFINE Y == restrict(do_transition_backward(A, e, V), A.invariant[e.from])
  <2>3. Z \subseteq Y
    BY <2>1, <2>2, BackwardMonotone
  <2>4. Y \in Predecessors(A, e, targets[e.to] \cup X[e.to])
    BY <2>1, <2>3 DEF Predecessors
  <2> HIDE DEF Y
  <2> QED
    BY <1>2, <2>3, <2>4 DEF ClosedZones, Covered
<1>5. ClosedZones(X)'
  BY <1>4 DEF ClosedZones
<1>6. \A l \in A.accept : is_included_in(X[l], targets'[l])
  BY <1>1 DEF OnlyAccepting, is_included_in, IsAutomaton
<1> QED
  BY <1>5, <1>6 DEF BoundsZones

LEMMA PassedWithinTargets ==
    ASSUME Typed, NoZoneInvented, Shrinking, Bounded, phase \in {"first", "loop"}
    PROVE  \A l \in A.accept : is_included_in(passed[l], targets[l])
<1>1. \A l \in A.accept : l \in A.locations
  BY DEF Typed, TypeOK, IsAutomaton
<1>2. CASE phase = "first"
  <2>1. \A l \in A.accept : targets[l] = {Valuations(A)}
    BY <1>1, <1>2 DEF Shrinking, accept_states
  <2>2. \A l \in A.accept : \A Z \in passed[l] : Z \subseteq Valuations(A)
    BY <1>1 DEF Typed, TypeOK, StateMaps, Federations
  <2> QED
    BY <2>1, <2>2 DEF is_included_in
<1>3. CASE phase = "loop"
  <2>1. PICK X \in StateMaps(A) : BoundsZones(X)
    BY <1>3 DEF Bounded
  <2>2. \A l \in A.locations : \A Z \in passed[l] : Covered(Z, X[l])
    BY <2>1 DEF NoZoneInvented, BoundsZones
  <2>3. \A l \in A.accept : is_included_in(X[l], targets[l])
    BY <2>1 DEF BoundsZones
  <2> SUFFICES ASSUME NEW l \in A.accept, NEW Z \in passed[l]
               PROVE  \E W \in targets[l] : Z \subseteq W
    BY DEF is_included_in
  <2>4. PICK V \in X[l] : Z \subseteq V
    BY <1>1, <2>2 DEF Covered
  <2>5. PICK W \in targets[l] : V \subseteq W
    BY <2>3, <2>4 DEF is_included_in
  <2> QED
    BY <2>4, <2>5
<1> QED
  BY <1>2, <1>3

LEMMA BoundedStays ==
    ASSUME Bounded, A' = A, targets' = targets, phase' = phase
    PROVE  Bounded'
<1>1. ASSUME NEW X, BoundsZones(X)
      PROVE  BoundsZones(X)'
  BY <1>1 DEF BoundsZones, ClosedZones
<1>2. phase' = "loop" => \E X \in StateMaps(A') : BoundsZones(X)'
  BY <1>1 DEF Bounded
<1> QED
  BY <1>2 DEF Bounded

LEMMA BoundedRound ==
    ASSUME Typed, NothingForgotten, NoZoneInvented, Shrinking, Bounded, Pending = {},
           phase \in {"first", "loop"}, A' = A, targets' = OnlyAccepting(A, passed)
    PROVE  Bounded'
<1>1. passed \in StateMaps(A)
  BY DEF Typed, TypeOK
<1>2. PICK X : X = passed
  OBVIOUS
<1>3. BoundsZones(X)'
  BY <1>2, PassedWithinTargets, PassedBounds
<1>4. X \in StateMaps(A')
  BY <1>1, <1>2
<1> QED
  BY <1>3, <1>4 DEF Bounded

LEMMA BoundedStep ==
    Typed /\ NothingForgotten /\ NoZoneInvented /\ Shrinking /\ Bounded /\ [Next]_vars => Bounded'
<1> SUFFICES ASSUME Typed, NothingForgotten, NoZoneInvented, Shrinking, Bounded, [Next]_vars
             PROVE  Bounded'
  OBVIOUS
<1>1. CASE A' = A /\ targets' = targets /\ phase' = phase
  BY <1>1, BoundedStays
<1>2. CASE FirstReachReturns
  BY <1>2, BoundedRound DEF FirstReachReturns, StartReach
<1>3. CASE Iterate
  BY <1>3, BoundedRound DEF Iterate, Differs, StartReach
<1>4. CASE Return \/ Throw
  BY <1>4 DEF Return, Throw, Bounded
<1> QED
  BY <1>1, <1>2, <1>3, <1>4 DEF Next, Skip, Explore, vars

(***************************************************************************)
(* Maps that are included in each other are equal, by the test of the loop.*)
(***************************************************************************)
LEMMA SameZonesAreEqual ==
    ASSUME NEW f \in StateMaps(A), NEW g \in StateMaps(A), Within(f, g), Within(g, f)
    PROVE  equals(f, g)
<1>1. DOMAIN f = A.locations /\ DOMAIN g = A.locations
  BY DEF StateMaps
<1>2. \A l \in A.locations : SameFederation(g[l], f[l])
  BY DEF Within, SameFederation
<1>3. \A l \in A.locations : f[l] # {} <=> g[l] # {}
  BY DEF Within, is_included_in
<1>4. Keys(f) = Keys(g)
  BY <1>1, <1>3 DEF Keys, has_state
<1>5. \A l \in Keys(f) : l \in A.locations /\ has_state(g, l)
  BY <1>1, <1>3 DEF Keys, has_state
<1> QED
  BY <1>2, <1>4, <1>5 DEF equals, SameSize

LEMMA RoundsAdvance ==
    ASSUME Typed, NothingForgotten, NothingInvented, NoZoneInvented, Shrinking, Bounded, Iterate
    PROVE  RoundAdvances
<1>1. passed \in StateMaps(A) /\ reach_a \in StateMaps(A)
  BY DEF Typed, TypeOK
<1>2. /\ phase = "loop" /\ Pending = {} /\ ~equals(reach_a, passed)
      /\ A' = A /\ reach_a' = passed /\ targets' = OnlyAccepting(A, passed)
  BY DEF Iterate, Differs, StartReach
<1>3. PICK X : X = passed
  OBVIOUS
<1>4. BoundsZones(X)'
  BY <1>2, <1>3, PassedWithinTargets, PassedBounds
<1>5. Approximates'
  BY <1>2, <1>3, <1>4 DEF BoundsZones, ClosedZones, Approximates
<1>6. ASSUME Approximates PROVE Within(passed, reach_a) /\ ~Within(reach_a, passed)
  <2>1. PICK Y \in StateMaps(A) : Y = reach_a
    BY <1>1
  <2>2. ClosedZones(Y)
    BY <1>6, <2>1 DEF Approximates, ClosedZones
  <2>3. Within(passed, reach_a)
    BY <2>1, <2>2 DEF NoZoneInvented, Within, is_included_in, Covered
  <2> QED
    BY <1>1, <1>2, <2>3, SameZonesAreEqual
<1> QED
  BY <1>2, <1>5, <1>6, IterateGivesUp DEF RoundAdvances, Within

LEMMA WorklistAdvance ==
    ASSUME Typed, Skip \/ Explore
    PROVE  WorklistAdvances
<1>1. /\ waiting \in [A.locations -> Federations(A)]
      /\ passed \in [A.locations -> Federations(A)]
  BY DEF Typed, TypeOK, StateMaps
<1>2. ASSUME NEW l \in Pending PROVE l \in A.locations /\ waiting[l] # {}
  BY <1>1 DEF Pending, Keys, has_state
<1>3. CASE Skip
  <2>1. PICK l \in Pending :
          waiting' = [waiting EXCEPT ![l] = {}] /\ UNCHANGED <<targets, passed, reach_a>>
    BY <1>3 DEF Skip
  <2>2. \A k \in A.locations : waiting'[k] \subseteq waiting[k]
    BY <1>1, <2>1
  <2>3. waiting'[l] # waiting[l]
    BY <1>1, <1>2, <2>1
  <2>4. Fewer(waiting', waiting)
    BY <2>2, <2>3 DEF Fewer
  <2> QED
    BY <2>1, <2>4 DEF WorklistAdvances
<1>4. CASE Explore
  <2>1. PICK l \in Pending :
          /\ ~(has_state(passed, l) /\ is_included_in(waiting[l], passed[l]))
          /\ passed' = [passed EXCEPT ![l] = @ \cup waiting[l]]
          /\ UNCHANGED <<targets, reach_a>>
    BY <1>4 DEF Explore
  <2>2. \A k \in A.locations : passed[k] \subseteq passed'[k]
    BY <1>1, <2>1
  <2>3. passed'[l] = passed[l] \cup waiting[l]
    BY <1>1, <1>2, <2>1
  <2>4. ~(waiting[l] \subseteq passed[l])
    <3>1. SUFFICES ASSUME waiting[l] \subseteq passed[l] PROVE FALSE
      OBVIOUS
    <3>2. passed[l] # {}
      BY <1>2, <3>1
    <3>3. is_included_in(waiting[l], passed[l])
      BY <3>1 DEF is_included_in
    <3> QED
      BY <2>1, <3>2, <3>3 DEF has_state
  <2>5. Fewer(passed, passed')
    BY <2>2, <2>3, <2>4 DEF Fewer
  <2> QED
    BY <2>1, <2>5 DEF WorklistAdvances
<1> QED
  BY <1>3, <1>4

\* No step leaves the computation where it was, or takes it back.
THEOREM AdvancesAlways == Spec => Advances
<1> DEFINE Q == /\ Typed /\ NothingForgotten /\ NothingInvented /\ Shrinking
                /\ NoZoneInvented /\ Bounded
           Step == \/ phase = "first" /\ phase' = "loop"
                   \/ phase = "loop" /\ phase' \in {"returned", "threw"}
                   \/ UNCHANGED <<A, phase>> /\ (WorklistAdvances \/ RoundAdvances)
<1>1. Init => Q
  BY TypedInit, ForgottenInit, InventedInit, ShrinkingInit, ZonesInit DEF Init, Bounded
<1>2. Q /\ [Next]_vars => Q'
  BY TypedStep, ForgottenStep, InventedStep, ShrinkingStep, ZonesStep, BoundedStep
<1>3. Q /\ [Next]_vars => [Step]_vars
  <2> SUFFICES ASSUME Q, Next PROVE Step
    OBVIOUS
  <2>1. CASE Skip
    BY <2>1, WorklistAdvance DEF Skip
  <2>2. CASE Explore
    BY <2>2, WorklistAdvance DEF Explore
  <2>3. CASE FirstReachReturns
    BY <2>3 DEF FirstReachReturns
  <2>4. CASE Iterate
    BY <2>4, RoundsAdvance DEF Iterate
  <2>5. CASE Return
    BY <2>5 DEF Return
  <2>6. CASE Throw
    BY <2>6 DEF Throw
  <2> QED
    BY <2>1, <2>2, <2>3, <2>4, <2>5, <2>6 DEF Next
<1> QED
  BY <1>1, <1>2, <1>3, PTL DEF Spec, Advances

-----------------------------------------------------------------------------
(***************************************************************************)
(* The semantics that the result is compared with.  What can reach a set   *)
(* is the least set that steps into that set, or into itself, do not       *)
(* leave; for graphs with finitely many vertices.                          *)
(***************************************************************************)
IsGraph(C, graph) == IsFiniteSet(C) /\ graph \in [C -> SUBSET C]

Growth(C, graph, S) == [found \in SUBSET C |-> found \cup Leading(graph, S \cup found)]

GrowsTo(g, graph, S) ==
    g = [found \in SUBSET DOMAIN graph |->
            LET more == found \cup Leading(graph, S \cup found)
            IN  IF more = found THEN found ELSE g[more]]

LEMMA GrowthTyped ==
    ASSUME NEW C, NEW graph, IsGraph(C, graph), NEW S
    PROVE  Growth(C, graph, S) \in [SUBSET C -> SUBSET C]
  BY DEF Growth, IsGraph, Leading

LEMMA GrowthSettles ==
    ASSUME NEW C, NEW graph, IsGraph(C, graph), NEW S, NEW g
    PROVE  GrowsTo(g, graph, S) <=> Settles(g, SUBSET C, Growth(C, graph, S))
<1> DEFINE step == Growth(C, graph, S)
           body == [found \in SUBSET C |-> IF step[found] = found THEN found ELSE g[step[found]]]
           text == [found \in SUBSET C |->
                      LET more == found \cup Leading(graph, S \cup found)
                      IN  IF more = found THEN found ELSE g[more]]
<1>1. DOMAIN graph = C
  BY DEF IsGraph
<1>2. \A found \in SUBSET C : step[found] = found \cup Leading(graph, S \cup found)
  BY DEF Growth
<1> HIDE DEF step
<1>3. \A found \in SUBSET C : body[found] = text[found]
  BY <1>2
<1>4. body = text
  BY <1>3
<1>5. GrowsTo(g, graph, S) <=> g = text
  BY <1>1, Zenon DEF GrowsTo
<1>6. Settles(g, SUBSET C, step) <=> g = body
  BY Zenon DEF Settles
<1> QED
  BY <1>4, <1>5, <1>6 DEF step

\* The step taken for ever, and what it is a function of.
LEMMA ReachingGrows ==
    ASSUME NEW C, NEW graph, IsGraph(C, graph), NEW S
    PROVE  \E g : Settles(g, SUBSET C, Growth(C, graph, S)) /\ Reaching(graph, S) = g[{}]
<1> DEFINE h == CHOOSE g : GrowsTo(g, graph, S)
<1>1. \E g : GrowsTo(g, graph, S)
  <2>1. PICK g : Settles(g, SUBSET C, Growth(C, graph, S))
    BY GrowthTyped, SettlingExists
  <2> QED
    BY <2>1, GrowthSettles
<1>2. GrowsTo(h, graph, S)
  BY <1>1, Zenon
<1>3. Reaching(graph, S) = h[{}]
  BY Zenon DEF Reaching, GrowsTo
<1> HIDE DEF h
<1> QED
  BY <1>2, <1>3, GrowthSettles

LEMMA RankFalls ==
    ASSUME NEW C, IsFiniteSet(C), NEW X \in SUBSET C, NEW Y \in SUBSET X, X # Y
    PROVE  Cardinality(X) \in Nat /\ Cardinality(Y) \in Nat /\ Cardinality(Y) < Cardinality(X)
<1>1. IsFiniteSet(X) /\ IsFiniteSet(Y)
  BY FS_Subset
<1>2. Cardinality(X) \in Nat /\ Cardinality(Y) \in Nat
  BY <1>1, FS_CardinalityType
<1>3. Cardinality(Y) <= Cardinality(X) /\ (Cardinality(Y) = Cardinality(X) => Y = X)
  BY <1>1, FS_Subset
<1> QED
  BY <1>2, <1>3

LEMMA ReachingIs ==
    ASSUME NEW C, NEW graph, IsGraph(C, graph), NEW S
    PROVE  /\ Reaching(graph, S) \in SUBSET C
           /\ Leading(graph, S \cup Reaching(graph, S)) \subseteq Reaching(graph, S)
           /\ \A X \in SUBSET C :
                 Leading(graph, S \cup X) \subseteq X => Reaching(graph, S) \subseteq X
<1> DEFINE step == Growth(C, graph, S)
           rank == [X \in SUBSET C |-> Cardinality(C \ X)]
<1>1. PICK g : Settles(g, SUBSET C, step) /\ Reaching(graph, S) = g[{}]
  BY ReachingGrows
<1>2. step \in [SUBSET C -> SUBSET C] /\ IsFiniteSet(C)
  BY GrowthTyped DEF IsGraph
<1>3. \A X \in SUBSET C : step[X] = X \cup Leading(graph, S \cup X)
  BY DEF Growth
<1> HIDE DEF step
<1>4. rank \in [SUBSET C -> Nat]
  <2>1. \A X \in SUBSET C : Cardinality(C \ X) \in Nat
    BY <1>2, FS_Subset, FS_CardinalityType
  <2> QED
    BY <2>1
<1>5. ASSUME NEW X \in SUBSET C, step[X] # X PROVE rank[step[X]] < rank[X]
  <2>1. step[X] \in SUBSET C /\ X \subseteq step[X]
    BY <1>2, <1>3
  <2>2. C \ step[X] \in SUBSET (C \ X) /\ C \ X # C \ step[X]
    BY <1>5, <2>1
  <2>3. Cardinality(C \ step[X]) < Cardinality(C \ X)
    BY <1>2, <2>2, RankFalls
  <2> QED
    BY <2>1, <2>3
<1> HIDE DEF rank
<1>6. ASSUME NEW I \in SUBSET SUBSET C, Keeps(I, step), {} \in I
      PROVE  g[{}] \in I /\ step[g[{}]] = g[{}]
  BY <1>1, <1>2, <1>4, <1>5, <1>6, SettlesWhere
<1>7. Reaching(graph, S) \in SUBSET C /\ step[Reaching(graph, S)] = Reaching(graph, S)
  <2>1. Keeps(SUBSET C, step) /\ {} \in SUBSET C
    BY <1>2 DEF Keeps
  <2> QED
    BY <1>1, <1>6, <2>1
<1>8. ASSUME NEW X \in SUBSET C, Leading(graph, S \cup X) \subseteq X
      PROVE  Reaching(graph, S) \subseteq X
  <2>1. ASSUME NEW Y \in SUBSET X PROVE step[Y] \in SUBSET X
    <3>1. Leading(graph, S \cup Y) \subseteq Leading(graph, S \cup X)
      BY DEF Leading
    <3> QED
      BY <1>3, <1>8, <3>1
  <2>2. Keeps(SUBSET X, step) /\ {} \in SUBSET X /\ SUBSET X \in SUBSET SUBSET C
    BY <2>1 DEF Keeps
  <2> QED
    BY <1>1, <1>6, <2>2
<1> QED
  BY <1>3, <1>7, <1>8

(***************************************************************************)
(* There are finitely many configurations on the grid.                     *)
(***************************************************************************)
LEMMA ValuationsFinite ==
    ASSUME NEW T, IsFiniteSet(T.clocks)
    PROVE  IsFiniteSet(Valuations(T))
<1> DEFINE V == Valuations(T)
           P == T.clocks \X (0 .. Cap)
           g == [v \in V |-> {<<c, v[c]>> : c \in T.clocks}]
<1>1. IsFiniteSet(SUBSET P)
  <2>1. IsFiniteSet(0 .. Cap)
    BY CapAssumption, FS_Interval
  <2>2. IsFiniteSet(P)
    BY <2>1, FS_Product
  <2> QED
    BY <2>2, FS_SUBSET
<1>2. \A v \in V : DOMAIN v = T.clocks /\ \A c \in T.clocks : v[c] \in 0 .. Cap
  BY DEF Valuations
<1>3. g \in [V -> SUBSET P]
  BY <1>2
<1>4. ASSUME NEW v \in V, NEW w \in V, g[v] = g[w] PROVE v = w
  <2>1. ASSUME NEW c \in T.clocks PROVE v[c] = w[c]
    <3>1. <<c, v[c]>> \in g[w]
      BY <1>4
    <3>2. PICK k \in T.clocks : <<c, v[c]>> = <<k, w[k]>>
      BY <3>1
    <3> QED
      BY <3>2
  <2> QED
    BY <2>1 DEF Valuations
<1>5. g \in Injection(V, SUBSET P)
  BY <1>3, <1>4 DEF Injection, IsInjective
<1> QED
  BY <1>1, <1>5, FS_Injection

LEMMA ConfigurationsFinite ==
    ASSUME NEW T, IsAutomaton(T)
    PROVE  IsFiniteSet(Configurations(T))
<1> DEFINE S == Configurations(T)
           P == T.locations \X Valuations(T)
           g == [p \in S |-> <<p.l, p.v>>]
<1>1. IsFiniteSet(P)
  BY ValuationsFinite, FS_Product DEF IsAutomaton
<1>2. g \in [S -> P] /\ \A p \in S : \A q \in S : g[p] = g[q] => p = q
  BY DEF Configurations
<1>3. g \in Injection(S, P)
  BY <1>2 DEF Injection, IsInjective
<1> QED
  BY <1>1, <1>3, FS_Injection

LEMMA GraphTyped ==
    ASSUME NEW T, IsAutomaton(T)
    PROVE  IsGraph(Configurations(T), Graph(T))
<1>1. ASSUME NEW p \in Configurations(T)
      PROVE  Successors(T, p) \subseteq Configurations(T)
  <2> SUFFICES ASSUME NEW e \in Edges(T), NEW d \in 0 .. Cap
               PROVE  [l |-> e.to, v |-> Reset(Elapse(p.v, d), e.reset)] \in Configurations(T)
    BY DEF Successors
  <2>1. p.v \in Valuations(T)
    BY DEF Configurations
  <2>2. Elapse(p.v, d) \in Valuations(T)
    <3>1. \A n \in Nat : Saturate(n) \in 0 .. Cap
      BY CapAssumption DEF Saturate
    <3>2. DOMAIN p.v = T.clocks /\ \A c \in T.clocks : p.v[c] + d \in Nat
      BY <2>1, CapAssumption DEF Valuations
    <3> QED
      BY <3>1, <3>2 DEF Elapse, Valuations
  <2>3. Reset(Elapse(p.v, d), e.reset) \in Valuations(T)
    BY <2>2, CapAssumption DEF Reset, Valuations
  <2> QED
    BY <2>3, EdgesTyped DEF Configurations
<1>2. Graph(T) \in [Configurations(T) -> SUBSET Configurations(T)]
  BY <1>1 DEF Graph
<1> QED
  BY <1>2, ConfigurationsFinite DEF IsGraph

(***************************************************************************)
(* The configurations with an accepting run are the greatest set of those  *)
(* that can reach an accepting one of the set.                             *)
(***************************************************************************)
AcceptingOf(T, K) == K \cap {p \in Configurations(T) : p.l \in T.accept}

Decline(T) ==
    [kept \in SUBSET Configurations(T) |->
        kept \cap Reaching(Graph(T), AcceptingOf(T, kept))]

ShrinksTo(g, T) ==
    g = [kept \in SUBSET Configurations(T) |->
            LET fewer == kept \cap Reaching(Graph(T), kept \cap
                                      {p \in Configurations(T) : p.l \in T.accept})
            IN  IF fewer = kept THEN kept ELSE g[fewer]]

LEMMA DeclineSettles ==
    ASSUME NEW T, NEW g
    PROVE  ShrinksTo(g, T) <=> Settles(g, SUBSET Configurations(T), Decline(T))
<1> DEFINE V == SUBSET Configurations(T)
           step == Decline(T)
           body == [kept \in V |-> IF step[kept] = kept THEN kept ELSE g[step[kept]]]
           text == [kept \in V |->
                      LET fewer == kept \cap Reaching(Graph(T), kept \cap
                                      {p \in Configurations(T) : p.l \in T.accept})
                      IN  IF fewer = kept THEN kept ELSE g[fewer]]
<1>1. \A kept \in V : step[kept] = kept \cap Reaching(Graph(T), kept \cap
                                      {p \in Configurations(T) : p.l \in T.accept})
  BY DEF Decline, AcceptingOf
<1> HIDE DEF step
<1>2. \A kept \in V : body[kept] = text[kept]
  BY <1>1
<1>3. body = text
  BY <1>2
<1>4. ShrinksTo(g, T) <=> g = text
  BY Zenon DEF ShrinksTo
<1>5. Settles(g, V, step) <=> g = body
  BY Zenon DEF Settles
<1> QED
  BY <1>3, <1>4, <1>5 DEF step

LEMMA BuchiShrinks ==
    ASSUME NEW T
    PROVE  \E g : /\ Settles(g, SUBSET Configurations(T), Decline(T))
                  /\ BuchiConfigurations(T) = g[Configurations(T)]
<1> DEFINE h == CHOOSE g : ShrinksTo(g, T)
<1>1. \E g : ShrinksTo(g, T)
  <2>1. Decline(T) \in [SUBSET Configurations(T) -> SUBSET Configurations(T)]
    BY DEF Decline
  <2>2. PICK g : Settles(g, SUBSET Configurations(T), Decline(T))
    BY <2>1, SettlingExists
  <2> QED
    BY <2>2, DeclineSettles
<1>2. ShrinksTo(h, T)
  BY <1>1, Zenon
<1>3. BuchiConfigurations(T) = h[Configurations(T)]
  BY Zenon DEF BuchiConfigurations, ShrinksTo
<1> HIDE DEF h
<1> QED
  BY <1>2, <1>3, DeclineSettles

LEMMA ReachingMonotone ==
    ASSUME NEW C, NEW graph, IsGraph(C, graph), NEW S, NEW R \in SUBSET S
    PROVE  Reaching(graph, R) \subseteq Reaching(graph, S)
<1> DEFINE X == Reaching(graph, S)
<1>1. X \in SUBSET C /\ Leading(graph, S \cup X) \subseteq X
  BY ReachingIs
<1>2. Leading(graph, R \cup X) \subseteq Leading(graph, S \cup X)
  BY DEF Leading
<1> QED
  BY <1>1, <1>2, ReachingIs

LEMMA BuchiIs ==
    ASSUME NEW T, IsAutomaton(T)
    PROVE  /\ BuchiConfigurations(T) \in SUBSET Configurations(T)
           /\ BuchiConfigurations(T)
                \subseteq Reaching(Graph(T), AcceptingOf(T, BuchiConfigurations(T)))
           /\ \A Y \in SUBSET Configurations(T) :
                 Y \subseteq Reaching(Graph(T), AcceptingOf(T, Y)) => Y \subseteq BuchiConfigurations(T)
<1> DEFINE C == Configurations(T)
           step == Decline(T)
           rank == [X \in SUBSET C |-> Cardinality(X)]
<1>1. PICK g : Settles(g, SUBSET C, step) /\ BuchiConfigurations(T) = g[C]
  BY BuchiShrinks
<1>2. step \in [SUBSET C -> SUBSET C] /\ IsGraph(C, Graph(T)) /\ IsFiniteSet(C)
  BY GraphTyped DEF Decline, IsGraph
<1>3. \A X \in SUBSET C : step[X] = X \cap Reaching(Graph(T), AcceptingOf(T, X))
  BY DEF Decline
<1> HIDE DEF step
<1>4. rank \in [SUBSET C -> Nat]
  <2>1. \A X \in SUBSET C : Cardinality(X) \in Nat
    BY <1>2, FS_Subset, FS_CardinalityType
  <2> QED
    BY <2>1
<1>5. ASSUME NEW X \in SUBSET C, step[X] # X PROVE rank[step[X]] < rank[X]
  <2>1. step[X] \in SUBSET X
    BY <1>3
  <2>2. Cardinality(step[X]) < Cardinality(X)
    BY <1>2, <1>5, <2>1, RankFalls
  <2> QED
    BY <2>1, <2>2
<1> HIDE DEF rank, C
<1>6. ASSUME NEW I \in SUBSET SUBSET C, Keeps(I, step), C \in I
      PROVE  g[C] \in I /\ step[g[C]] = g[C]
  BY <1>1, <1>2, <1>4, <1>5, <1>6, SettlesWhere
<1>7. g[C] \in SUBSET C /\ step[g[C]] = g[C]
  <2>1. Keeps(SUBSET C, step) /\ C \in SUBSET C
    BY <1>2 DEF Keeps
  <2> QED
    BY <1>6, <2>1
<1>8. ASSUME NEW Y \in SUBSET C, Y \subseteq Reaching(Graph(T), AcceptingOf(T, Y))
      PROVE  Y \subseteq g[C]
  <2> DEFINE I == {X \in SUBSET C : Y \subseteq X}
  <2>1. ASSUME NEW X \in I PROVE step[X] \in I
    <3>1. AcceptingOf(T, Y) \in SUBSET AcceptingOf(T, X)
      BY DEF AcceptingOf
    <3>2. Reaching(Graph(T), AcceptingOf(T, Y)) \subseteq Reaching(Graph(T), AcceptingOf(T, X))
      BY <1>2, <3>1, ReachingMonotone
    <3> QED
      BY <1>2, <1>3, <1>8, <3>2
  <2>2. Keeps(I, step) /\ C \in I /\ I \in SUBSET SUBSET C
    BY <2>1 DEF Keeps
  <2> HIDE DEF I
  <2>3. g[C] \in I
    BY <1>6, <2>2
  <2> QED
    BY <2>3 DEF I
<1>9. g[C] \subseteq Reaching(Graph(T), AcceptingOf(T, g[C]))
  BY <1>3, <1>7
<1> QED
  BY <1>1, <1>7, <1>8, <1>9 DEF C

(***************************************************************************)
(* A step of the automaton is a step back of the zones: from a valuation   *)
(* in Z to one the backward step of Z has.                                 *)
(***************************************************************************)
LEMMA StepIsBackward ==
    ASSUME NEW T, IsAutomaton(T), NEW p \in Configurations(T), NEW q \in Graph(T)[p]
    PROVE  \E e \in Edges(T) :
              /\ e.from = p.l /\ e.to = q.l
              /\ \A Z : q.v \in Z =>
                    p.v \in restrict(do_transition_backward(T, e, Z), T.invariant[e.from])
<1>1. q \in Successors(T, p) /\ p.v \in Valuations(T)
  BY DEF Graph, Configurations
<1>2. PICK e \in Edges(T), d \in 0 .. Cap :
         /\ e.from = p.l
         /\ Inhabits(T, p.l, p.v)
         /\ Meets(Elapse(p.v, d), e.guard)
         /\ q = [l |-> e.to, v |-> Reset(Elapse(p.v, d), e.reset)]
  BY <1>1 DEF Successors
<1> DEFINE u == Elapse(p.v, d)
           w == Reset(u, e.reset)
<1>3. u \in Valuations(T) /\ w \in Valuations(T) /\ Elapse(w, 0) = w
  <2>1. \A n \in Nat : Saturate(n) \in 0 .. Cap
    BY CapAssumption DEF Saturate
  <2>2. DOMAIN p.v = T.clocks /\ \A c \in T.clocks : p.v[c] + d \in Nat
    BY <1>1, CapAssumption DEF Valuations
  <2>3. u \in Valuations(T)
    BY <2>1, <2>2 DEF Elapse, Valuations
  <2>4. w \in Valuations(T)
    BY <2>3, CapAssumption DEF Reset, Valuations
  <2>5. \A n \in 0 .. Cap : Saturate(n + 0) = n
    BY CapAssumption DEF Saturate
  <2>6. DOMAIN w = T.clocks /\ \A c \in T.clocks : w[c] \in 0 .. Cap
    BY <2>4 DEF Valuations
  <2> HIDE DEF w
  <2>7. Elapse(w, 0) = w
    BY <2>4, <2>5, <2>6 DEF Elapse, Valuations
  <2> QED
    BY <2>3, <2>4, <2>7
<1>4. e.reset \subseteq T.clocks /\ DOMAIN u = T.clocks
  <2>1. PICK i \in DOMAIN T.edges : e = T.edges[i]
    BY DEF Edges
  <2>2. T.edges \in Seq(EdgesOver(T.locations, T.clocks))
    BY DEF IsAutomaton
  <2>3. e \in EdgesOver(T.locations, T.clocks)
    BY <2>1, <2>2
  <2> QED
    BY <1>3, <2>3 DEF EdgesOver, Valuations
<1>5. /\ \A c \in e.reset : w[c] = 0
      /\ \A c \in T.clocks \ e.reset : u[c] = w[c]
  BY <1>4 DEF Reset
<1>6. q.v = w /\ q.l = e.to
  BY <1>2
<1> HIDE DEF w, u
<1>7. ASSUME NEW Z, q.v \in Z
      PROVE  p.v \in restrict(do_transition_backward(T, e, Z), T.invariant[e.from])
  <2>1. w \in down(T, Z)
    BY <1>3, <1>6, <1>7, CapAssumption DEF down
  <2>2. w \in restrict_to_zero(down(T, Z), e.reset)
    BY <1>5, <2>1 DEF restrict_to_zero
  <2>3. u \in free(T, restrict_to_zero(down(T, Z), e.reset), e.reset)
    BY <1>3, <1>5, <2>2 DEF free
  <2>4. u \in restrict(free(T, restrict_to_zero(down(T, Z), e.reset), e.reset), e.guard)
    BY <1>2, <2>3 DEF restrict, u
  <2>5. p.v \in do_transition_backward(T, e, Z)
    BY <1>1, <1>2, <2>4 DEF do_transition_backward, down, u
  <2> QED
    BY <1>2, <2>5 DEF restrict, Inhabits
<1> QED
  BY <1>2, <1>6, <1>7

(***************************************************************************)
(* The safe half: no call of reach loses a configuration with an accepting *)
(* run, because the accepting ones are among those it starts from.         *)
(***************************************************************************)
In(map) == {p \in Configurations(A) : p.v \in Points(map[p.l])}

Held == AcceptingOf(A, BuchiConfigurations(A)) \subseteq In(targets)

LEMMA BuchiPassed ==
    ASSUME Typed, NothingForgotten, Pending = {}, Held
    PROVE  BuchiConfigurations(A) \subseteq In(passed)
<1> DEFINE S == AcceptingOf(A, BuchiConfigurations(A))
           X == In(passed)
<1>1. IsAutomaton(A)
  BY DEF Typed, TypeOK
<1>2. ClosedFamily(PointsOf(passed))
  BY PassedIsClosed
<1>3. ASSUME NEW p \in Leading(Graph(A), S \cup X) PROVE p \in X
  <2>1. DOMAIN Graph(A) = Configurations(A)
    BY DEF Graph
  <2>2. PICK q \in Graph(A)[p] : q \in S \cup X
    BY DEF Leading
  <2>3. p \in Configurations(A)
    BY <2>1 DEF Leading
  <2>4. PICK e \in Edges(A) :
          /\ e.from = p.l /\ e.to = q.l
          /\ \A Z : q.v \in Z => p.v \in restrict(do_transition_backward(A, e, Z), A.invariant[e.from])
    BY <1>1, <2>2, <2>3, StepIsBackward
  <2>5. e.from \in A.locations /\ e.to \in A.locations
    BY <1>1, EdgesTyped
  <2>6. q \in In(targets) \/ q \in In(passed)
    BY <2>2 DEF Held
  <2>7. q.v \in PointsOf(passed)[e.to] \cup Points(targets[e.to])
    BY <2>4, <2>5, <2>6 DEF In, PointsOf
  <2>8. p.v \in restrict(do_transition_backward(A, e, PointsOf(passed)[e.to] \cup Points(targets[e.to])),
                         A.invariant[e.from])
    BY <2>4, <2>7
  <2>9. p.v \in PointsOf(passed)[e.from]
    BY <1>2, <2>8 DEF ClosedFamily
  <2> QED
    BY <2>3, <2>4, <2>5, <2>9 DEF In, PointsOf
<1>4. X \in SUBSET Configurations(A)
  BY DEF In
<1>5. Reaching(Graph(A), S) \subseteq X
  BY <1>1, <1>3, <1>4, GraphTyped, ReachingIs
<1> QED
  BY <1>1, <1>5, BuchiIs

LEMMA HeldInit == Init => Held
<1> SUFFICES ASSUME Init, NEW p \in AcceptingOf(A, BuchiConfigurations(A)) PROVE p \in In(targets)
  BY DEF Held
<1>1. p \in Configurations(A) /\ p.l \in A.accept /\ targets = accept_states(A)
  BY DEF AcceptingOf, Init
<1>2. p.l \in A.locations /\ p.v \in Valuations(A)
  BY <1>1 DEF Configurations
<1> QED
  BY <1>1, <1>2 DEF In, accept_states, Points

LEMMA HeldRestart ==
    ASSUME Typed, NothingForgotten, Pending = {}, Held,
           A' = A, targets' = OnlyAccepting(A, passed)
    PROVE  Held'
<1> SUFFICES ASSUME NEW p \in AcceptingOf(A, BuchiConfigurations(A)) PROVE p \in In(targets)'
  BY DEF Held
<1>1. p \in BuchiConfigurations(A) /\ p \in Configurations(A) /\ p.l \in A.accept
  BY DEF AcceptingOf
<1>2. p.v \in Points(passed[p.l]) /\ p.l \in A.locations
  BY <1>1, BuchiPassed DEF In, Configurations
<1>3. targets'[p.l] = passed[p.l]
  BY <1>1, <1>2 DEF OnlyAccepting
<1> QED
  BY <1>1, <1>2, <1>3 DEF In

LEMMA HeldStep == Typed /\ NothingForgotten /\ Held /\ [Next]_vars => Held'
<1> SUFFICES ASSUME Typed, NothingForgotten, Held, [Next]_vars PROVE Held'
  OBVIOUS
<1>1. CASE A' = A /\ targets' = targets
  BY <1>1 DEF Held, In
<1>2. CASE FirstReachReturns
  BY <1>2, HeldRestart DEF FirstReachReturns, StartReach
<1>3. CASE Iterate
  BY <1>3, HeldRestart DEF Iterate, Differs, StartReach
<1> QED
  BY <1>1, <1>2, <1>3 DEF Next, Skip, Explore, Return, Throw, vars

\* The result and what the last call of reach has passed have the same points.
LEMMA ReturnedPoints ==
    ASSUME Typed, Settling, phase = "returned"
    PROVE  Pending = {} /\ Result = In(passed)
<1>1. IsAutomaton(A) /\ passed \in StateMaps(A) /\ reach_a \in StateMaps(A)
  BY DEF Typed, TypeOK
<1>2. \A l \in A.locations : is_included_in(reach_a[l], passed[l]) /\ is_included_in(passed[l], reach_a[l])
  BY <1>1, EqualMaps DEF Settling
<1>3. \A l \in A.locations : Points(reach_a[l]) = Points(passed[l])
  BY <1>2 DEF is_included_in, Points
<1>4. \A p \in Configurations(A) : p.l \in A.locations
  BY DEF Configurations
<1> QED
  BY <1>3, <1>4 DEF Settling, Result, In

(***************************************************************************)
(* No configuration with an accepting run is missing from what the         *)
(* computation returns, for every automaton.                               *)
(***************************************************************************)
THEOREM MissesNoRun == Spec => []ResultCovers
<1> DEFINE Q == Typed /\ NothingForgotten /\ Settling /\ Held
<1>1. Init => Q
  BY TypedInit, ForgottenInit, HeldInit DEF Init, Settling
<1>2. Q /\ [Next]_vars => Q'
  BY TypedStep, ForgottenStep, SettlingStep, HeldStep
<1>3. Q => ResultCovers
  <2> SUFFICES ASSUME Q, phase = "returned"
               PROVE  BuchiConfigurations(A) \subseteq Result
    BY DEF ResultCovers
  <2> QED
    BY ReturnedPoints, BuchiPassed
<1> QED
  BY <1>1, <1>2, <1>3, PTL DEF Spec

(***************************************************************************)
(* And nothing else is in it, when no location has an invariant: then a    *)
(* backward step is a step of the automaton, up to a delay after it.       *)
(***************************************************************************)
LEMMA BackwardIsStep ==
    ASSUME NEW T, IsAutomaton(T), NoInvariants(T), NEW e \in Edges(T), NEW Z,
           NEW p \in Configurations(T), e.from = p.l,
           p.v \in restrict(do_transition_backward(T, e, Z), T.invariant[e.from])
    PROVE  \E q \in Graph(T)[p] : q.l = e.to /\ q.v \in down(T, Z)
<1>1. PICK d \in 0 .. Cap :
        Elapse(p.v, d) \in restrict(free(T, restrict_to_zero(down(T, Z), e.reset), e.reset), e.guard)
  BY DEF restrict, do_transition_backward, down
<1> DEFINE u == Elapse(p.v, d)
<1>2. u \in free(T, restrict_to_zero(down(T, Z), e.reset), e.reset) /\ Meets(u, e.guard)
  BY <1>1 DEF restrict
<1>3. PICK w \in down(T, Z) :
        /\ \A c \in e.reset : w[c] = 0
        /\ u \in Valuations(T) /\ \A c \in T.clocks \ e.reset : u[c] = w[c]
  BY <1>2 DEF free, restrict_to_zero
<1>4. w \in Valuations(T)
  BY DEF down
<1>5. w = Reset(u, e.reset)
  <2>1. DOMAIN u = T.clocks
    BY <1>3 DEF Valuations
  <2>2. \A c \in T.clocks : w[c] = IF c \in e.reset THEN 0 ELSE u[c]
    BY <1>3
  <2> HIDE DEF u
  <2>3. w = [c \in T.clocks |-> w[c]]
    BY <1>4 DEF Valuations
  <2> QED
    BY <2>1, <2>2, <2>3 DEF Reset
<1>6. e.from \in T.locations /\ e.to \in T.locations
  BY EdgesTyped
<1>7. Inhabits(T, p.l, p.v) /\ Inhabits(T, p.l, u) /\ Inhabits(T, e.to, w)
  BY <1>6 DEF Inhabits, NoInvariants, Meets
<1> DEFINE q == [l |-> e.to, v |-> Reset(u, e.reset)]
<1>8. q \in Successors(T, p)
  <2> DEFINE m == <<e, u>>
  <2>1. m \in {k \in Edges(T) : k.from = p.l} \X {Elapse(p.v, i) : i \in 0 .. Cap}
    OBVIOUS
  <2>2. m[1] = e /\ m[2] = u
    OBVIOUS
  <2> HIDE DEF m, u
  <2> QED
    BY <1>2, <1>5, <1>7, <2>1, <2>2 DEF Successors
<1> QED
  BY <1>5, <1>8 DEF Graph

\* What can be reached after waiting can be reached.
LEMMA SuccessorsLater ==
    ASSUME NEW T, IsAutomaton(T), NoInvariants(T), NEW p \in Configurations(T),
           NEW d \in 0 .. Cap, NEW q \in Configurations(T), q.l = p.l, q.v = Elapse(p.v, d)
    PROVE  Graph(T)[q] \subseteq Graph(T)[p]
<1> SUFFICES ASSUME NEW r \in Successors(T, q) PROVE r \in Successors(T, p)
  BY DEF Graph
<1>1. PICK e \in Edges(T), k \in 0 .. Cap :
        /\ e.from = q.l
        /\ Meets(Elapse(q.v, k), e.guard)
        /\ Inhabits(T, e.to, Reset(Elapse(q.v, k), e.reset))
        /\ r = [l |-> e.to, v |-> Reset(Elapse(q.v, k), e.reset)]
  BY DEF Successors
<1>2. p.v \in Valuations(T) /\ p.l \in T.locations
  BY DEF Configurations
<1>3. PICK j \in 0 .. Cap : Elapse(p.v, j) = Elapse(q.v, k)
  BY <1>2, ElapseTwice
<1>4. Inhabits(T, p.l, p.v) /\ Inhabits(T, p.l, Elapse(q.v, k))
  BY <1>2 DEF Inhabits, NoInvariants, Meets
<1> DEFINE u == Elapse(q.v, k)
           m == <<e, u>>
<1>5. m \in {i \in Edges(T) : i.from = p.l} \X {Elapse(p.v, i) : i \in 0 .. Cap}
  BY <1>1, <1>3
<1>6. m[1] = e /\ m[2] = u
  OBVIOUS
<1> HIDE DEF m
<1> QED
  BY <1>1, <1>4, <1>5, <1>6 DEF Successors

\* What can reach S has a step into S or into what can reach S.
LEMMA ReachingLeads ==
    ASSUME NEW C, NEW graph, IsGraph(C, graph), NEW S
    PROVE  Reaching(graph, S) = Leading(graph, S \cup Reaching(graph, S))
<1> DEFINE R == Reaching(graph, S)
           X == Leading(graph, S \cup R)
<1>1. R \in SUBSET C /\ X \subseteq R
  BY ReachingIs
<1>2. Leading(graph, S \cup X) \subseteq X
  BY <1>1 DEF Leading
<1>3. X \in SUBSET C
  BY <1>1
<1> HIDE DEF X, R
<1>4. R \subseteq X
  BY <1>2, <1>3, ReachingIs DEF R
<1> QED
  BY <1>1, <1>4 DEF R, X

Reached(S) ==
    [l \in A.locations |->
        {v \in Valuations(A) : [l |-> l, v |-> v] \in Reaching(Graph(A), S)}]

LEMMA ReachedIsClosed ==
    ASSUME Typed, AllSmooth, NoInvariants(A)
    PROVE  ClosedFamily(Reached(In(targets)))
<1> DEFINE S == In(targets)
           R == Reaching(Graph(A), S)
           X == Reached(S)
<1>1. IsAutomaton(A) /\ IsGraph(Configurations(A), Graph(A))
  BY GraphTyped DEF Typed, TypeOK
<1>2. R = Leading(Graph(A), S \cup R) /\ R \in SUBSET Configurations(A)
  BY <1>1, ReachingLeads, ReachingIs
<1> SUFFICES ASSUME NEW e \in Edges(A),
                    NEW v \in restrict(do_transition_backward(A, e, X[e.to] \cup Points(targets[e.to])),
                                       A.invariant[e.from])
             PROVE  v \in X[e.from]
  BY DEF ClosedFamily
<1>3. e.from \in A.locations /\ e.to \in A.locations
  BY <1>1, EdgesTyped
<1>4. v \in Valuations(A)
  BY BackwardTyped
<1> DEFINE p == [l |-> e.from, v |-> v]
<1>5. p \in Configurations(A) /\ p.l = e.from /\ p.v = v
  BY <1>3, <1>4 DEF Configurations
<1> HIDE DEF p
<1>6. PICK q \in Graph(A)[p] :
        q.l = e.to /\ q.v \in down(A, X[e.to] \cup Points(targets[e.to]))
  BY <1>1, <1>5, BackwardIsStep
<1>7. q \in Configurations(A)
  BY <1>1, <1>5 DEF IsGraph
<1>8. PICK d \in 0 .. Cap : Elapse(q.v, d) \in X[e.to] \cup Points(targets[e.to])
  BY <1>6 DEF down
<1>9. q \in S \cup R
  <2>1. CASE Elapse(q.v, d) \in X[e.to]
    <3> DEFINE r == [l |-> e.to, v |-> Elapse(q.v, d)]
    <3>1. r \in R /\ Elapse(q.v, d) \in Valuations(A)
      BY <1>3, <2>1 DEF Reached
    <3>2. r \in Configurations(A) /\ r.l = q.l /\ r.v = Elapse(q.v, d)
      BY <1>2, <1>6, <3>1
    <3> HIDE DEF r, R, S
    <3>3. Graph(A)[r] \subseteq Graph(A)[q]
      BY <1>1, <1>7, <3>2, SuccessorsLater
    <3>4. Graph(A)[r] \cap (S \cup R) # {}
      BY <1>2, <3>1 DEF Leading
    <3>5. q \in Leading(Graph(A), S \cup R)
      BY <1>1, <1>7, <3>3, <3>4 DEF Leading, IsGraph
    <3> QED
      BY <1>2, <3>5
  <2>2. CASE Elapse(q.v, d) \in Points(targets[e.to])
    <3>1. PICK Z \in targets[e.to] : Elapse(q.v, d) \in Z
      BY <2>2 DEF Points
    <3>2. q.v \in Valuations(A)
      BY <1>7 DEF Configurations
    <3>3. q.v \in down(A, Z)
      BY <3>1, <3>2 DEF down
    <3>4. q.v \in restrict(down(A, Z), A.invariant[e.to])
      BY <1>3, <3>3 DEF restrict, NoInvariants, Meets
    <3>5. q.v \in Z
      BY <1>3, <3>4 DEF AllSmooth, Smooth, Settled
    <3> QED
      BY <1>6, <1>7, <3>5 DEF In, Points
  <2> QED
    BY <1>8, <2>1, <2>2
<1>10. p \in R
  <2> HIDE DEF R, S
  <2> QED
    BY <1>1, <1>2, <1>5, <1>6, <1>9 DEF Leading, IsGraph
<1> QED
  BY <1>3, <1>4, <1>10 DEF Reached, p

LEMMA ReturnedSound ==
    ASSUME Typed, NothingInvented, AllSmooth, Settling, Shrinking, NoInvariants(A),
           phase = "returned"
    PROVE  Result \subseteq BuchiConfigurations(A)
<1> DEFINE S == In(targets)
           R == Reaching(Graph(A), S)
<1>1. IsAutomaton(A) /\ IsGraph(Configurations(A), Graph(A))
  BY GraphTyped DEF Typed, TypeOK
<1>2. ClosedFamily(Reached(S)) /\ Reached(S) \in [A.locations -> SUBSET Valuations(A)]
  BY ReachedIsClosed DEF Reached
<1>3. \A l \in A.locations : \A Z \in passed[l] : Z \subseteq Reached(S)[l]
  BY <1>2 DEF NothingInvented
<1>4. Result \subseteq R
  <2> SUFFICES ASSUME NEW p \in Result PROVE p \in R
    OBVIOUS
  <2>1. p \in In(passed)
    BY ReturnedPoints
  <2>2. p \in Configurations(A) /\ p.l \in A.locations /\ p = [l |-> p.l, v |-> p.v]
    BY <2>1 DEF In, Configurations
  <2>3. p.v \in Reached(S)[p.l]
    BY <1>3, <2>1, <2>2 DEF In, Points
  <2> HIDE DEF R, S
  <2>4. [l |-> p.l, v |-> p.v] \in R
    BY <2>2, <2>3 DEF Reached, R
  <2> QED
    BY <2>2, <2>4, Zenon
<1>5. S \subseteq AcceptingOf(A, Result)
  <2>1. targets = OnlyAccepting(A, reach_a)
    BY DEF Shrinking
  <2> SUFFICES ASSUME NEW p \in S PROVE p \in AcceptingOf(A, Result)
    OBVIOUS
  <2>2. p \in Configurations(A) /\ p.l \in A.locations /\ p.v \in Points(targets[p.l])
    BY DEF In, Configurations
  <2>3. p.l \in A.accept /\ targets[p.l] = reach_a[p.l]
    BY <2>1, <2>2 DEF OnlyAccepting, Points
  <2> QED
    BY <2>2, <2>3 DEF AcceptingOf, Result
<1>6. R \subseteq Reaching(Graph(A), AcceptingOf(A, Result))
  BY <1>1, <1>5, ReachingMonotone
<1>7. Result \in SUBSET Configurations(A)
  BY DEF Result
<1> HIDE DEF R
<1>8. Result \subseteq Reaching(Graph(A), AcceptingOf(A, Result))
  BY <1>4, <1>6
<1> QED
  BY <1>1, <1>7, <1>8, BuchiIs

(***************************************************************************)
(* Every configuration the computation returns has a run that visits       *)
(* accepting locations infinitely often, for every automaton without       *)
(* invariants.                                                             *)
(***************************************************************************)
THEOREM ReturnsAccepting == Spec => []ResultIsSound
<1> DEFINE Q == Typed /\ NothingForgotten /\ NothingInvented /\ AllSmooth /\ Settling /\ Shrinking
<1>1. Init => Q
  BY TypedInit, ForgottenInit, InventedInit, SmoothInit, ShrinkingInit DEF Init, Settling
<1>2. Q /\ [Next]_vars => Q'
  BY TypedStep, ForgottenStep, InventedStep, SmoothStep, SettlingStep, ShrinkingStep
<1>3. Q => ResultIsSound
  BY ReturnedSound DEF ResultIsSound, ResultIsAccepting, NoInvariants
<1> QED
  BY <1>1, <1>2, <1>3, PTL DEF Spec

-----------------------------------------------------------------------------
(***************************************************************************)
(* What BuchiConfigurations is the set of: the configurations where an     *)
(* infinite run begins that visits accepting locations again and again.    *)
(***************************************************************************)
IsRun(T, r) == \A n \in Nat : r[n + 1] \in Graph(T)[r[n]]

VisitsForever(T, r) == \A n \in Nat : \E m \in Nat : m >= n /\ r[m].l \in T.accept

HasAcceptingRun(T, p) ==
    \E r \in [Nat -> Configurations(T)] : r[0] = p /\ IsRun(T, r) /\ VisitsForever(T, r)

LEMMA ReachingInGraph ==
    ASSUME NEW T, IsAutomaton(T), NEW S
    PROVE  /\ Reaching(Graph(T), S) \in SUBSET Configurations(T)
           /\ Leading(Graph(T), S \cup Reaching(Graph(T), S)) \subseteq Reaching(Graph(T), S)
<1> DEFINE graph == Graph(T)
           C == Configurations(T)
<1>1. IsGraph(C, graph)
  BY GraphTyped
<1> HIDE DEF graph, C
<1>2. /\ Reaching(graph, S) \in SUBSET C
      /\ Leading(graph, S \cup Reaching(graph, S)) \subseteq Reaching(graph, S)
  BY <1>1, ReachingIs
<1> QED
  BY <1>2 DEF graph, C

LEMMA RunsAreKept ==
    ASSUME NEW T, IsAutomaton(T), NEW r \in [Nat -> Configurations(T)],
           IsRun(T, r), VisitsForever(T, r)
    PROVE  r[0] \in BuchiConfigurations(T)
<1> DEFINE C == Configurations(T)
           Y == {r[n] : n \in Nat}
           S == AcceptingOf(T, Y)
           R == Reaching(Graph(T), S)
           K == {k \in Nat : \A n \in Nat : r[n + k + 1].l \in T.accept => r[n] \in R}
<1>1. IsGraph(C, Graph(T)) /\ Y \in SUBSET C
  BY GraphTyped
<1>2. R \in SUBSET C /\ Leading(Graph(T), S \cup R) \subseteq R
  BY ReachingInGraph
<1>3. ASSUME NEW n \in Nat, r[n + 1] \in S \cup R PROVE r[n] \in R
  <2>1. r[n + 1] \in Graph(T)[r[n]] /\ r[n] \in C
    BY DEF IsRun
  <2>2. r[n] \in Leading(Graph(T), S \cup R)
    BY <1>1, <1>3, <2>1 DEF Leading, IsGraph
  <2> QED
    BY <1>2, <2>2
<1>4. \A n \in Nat : r[n].l \in T.accept => r[n] \in S
  BY DEF AcceptingOf
<1> HIDE DEF R, S, C
<1>5. 0 \in K
  <2> SUFFICES ASSUME NEW n \in Nat, r[n + 0 + 1].l \in T.accept PROVE r[n] \in R
    OBVIOUS
  <2>1. n + 0 + 1 = n + 1 /\ n + 1 \in Nat
    OBVIOUS
  <2> QED
    BY <1>3, <1>4, <2>1
<1>6. ASSUME NEW k \in Nat, k \in K PROVE k + 1 \in K
  <2> SUFFICES ASSUME NEW n \in Nat, r[n + (k + 1) + 1].l \in T.accept PROVE r[n] \in R
    OBVIOUS
  <2>1. n + (k + 1) + 1 = (n + 1) + k + 1 /\ n + 1 \in Nat
    OBVIOUS
  <2>2. r[n + 1] \in R
    BY <1>6, <2>1
  <2> QED
    BY <1>3, <2>2
<1>7. Nat \subseteq K
  <2> HIDE DEF K
  <2> QED
    BY <1>5, <1>6, SetInduction
<1>8. ASSUME NEW n \in Nat PROVE r[n] \in R
  <2>1. PICK m \in Nat : m >= n + 1 /\ r[m].l \in T.accept
    BY DEF VisitsForever
  <2>2. m - n - 1 \in Nat /\ n + (m - n - 1) + 1 = m
    BY <2>1
  <2> QED
    BY <1>7, <2>1, <2>2
<1>9. Y \subseteq R
  BY <1>8
<1>10. Y \subseteq BuchiConfigurations(T)
  <2> HIDE DEF Y
  <2> QED
    BY <1>1, <1>9, BuchiIs DEF R, S, C
<1> QED
  BY <1>10

\* What can reach an accepting one of them is one of them.
LEMMA BuchiReaching ==
    ASSUME NEW T, IsAutomaton(T)
    PROVE  Reaching(Graph(T), AcceptingOf(T, BuchiConfigurations(T))) = BuchiConfigurations(T)
<1> DEFINE B == BuchiConfigurations(T)
           R == Reaching(Graph(T), AcceptingOf(T, B))
<1>1. IsGraph(Configurations(T), Graph(T))
  BY GraphTyped
<1>2. R \in SUBSET Configurations(T) /\ B \subseteq R
  BY ReachingInGraph, BuchiIs
<1>3. AcceptingOf(T, B) \in SUBSET AcceptingOf(T, R)
  BY <1>2 DEF AcceptingOf
<1>4. R \subseteq Reaching(Graph(T), AcceptingOf(T, R))
  BY <1>1, <1>3, ReachingMonotone
<1> HIDE DEF R
<1>5. R \subseteq B
  BY <1>2, <1>4, BuchiIs
<1> QED
  BY <1>2, <1>5 DEF R

(***************************************************************************)
(* How many steps are left to an accepting one: in one of them, a step     *)
(* leads to an accepting one of them or to one that is nearer.             *)
(***************************************************************************)
Nearer(T, B, distance) ==
    \A p \in B : \E q \in Graph(T)[p] \cap B : q.l \in T.accept \/ distance[q] < distance[p]

LEMMA DistanceExists ==
    ASSUME NEW T, IsAutomaton(T), NEW B, B = BuchiConfigurations(T)
    PROVE  \E distance \in [B -> Nat] : Nearer(T, B, distance)
<1> DEFINE C == Configurations(T)
           S == AcceptingOf(T, B)
           step == [X \in SUBSET C |-> Leading(Graph(T), S \cup X)]
<1>1. IsGraph(C, Graph(T)) /\ B \in SUBSET C
  BY GraphTyped, BuchiIs
<1>2. /\ Leading(Graph(T), S \cup B) \subseteq B
      /\ \A X \in SUBSET C : Leading(Graph(T), S \cup X) \subseteq X => B \subseteq X
  BY <1>1, BuchiReaching, ReachingIs
<1>3. step \in [SUBSET C -> SUBSET C]
  BY <1>1 DEF Leading, IsGraph
<1>4. \A X \in SUBSET C : step[X] = Leading(Graph(T), S \cup X)
  OBVIOUS
<1> HIDE DEF step
<1>5. PICK layer \in [Nat -> SUBSET C] :
        layer[0] = {} /\ \A n \in Nat : layer[n + 1] = step[layer[n]]
  <2>1. {} \in SUBSET C
    OBVIOUS
  <2>2. PICK V : V = SUBSET C
    OBVIOUS
  <2>3. step \in [V -> V] /\ {} \in V
    BY <1>3, <2>1, <2>2
  <2>4. \E r \in [Nat -> V] : r[0] = {} /\ \A n \in Nat : r[n + 1] = step[r[n]]
    BY <2>3, IterationExists
  <2> QED
    BY <2>2, <2>4
<1>6. \A n \in Nat : layer[n + 1] = Leading(Graph(T), S \cup layer[n])
  BY <1>4, <1>5
<1>7. \A n \in Nat : layer[n] \subseteq B
  <2> DEFINE K == {n \in Nat : layer[n] \subseteq B}
  <2>1. 0 \in K
    BY <1>5
  <2>2. ASSUME NEW n \in Nat, n \in K PROVE n + 1 \in K
    BY <1>2, <1>6, <2>2 DEF Leading
  <2>3. Nat \subseteq K
    <3> HIDE DEF K
    <3> QED
      BY <2>1, <2>2, SetInduction
  <2> QED
    BY <2>3
<1>8. B \subseteq UNION {layer[n] : n \in Nat}
  <2> DEFINE X == UNION {layer[n] : n \in Nat}
  <2>1. ASSUME NEW p \in Leading(Graph(T), S \cup X) PROVE p \in X
    <3>1. PICK q \in Graph(T)[p] : q \in S \cup X
      BY DEF Leading
    <3>2. PICK n \in Nat : q \in S \cup layer[n]
      BY <3>1
    <3>3. p \in layer[n + 1]
      BY <1>6, <3>1, <3>2 DEF Leading
    <3> QED
      BY <3>3
  <2>2. X \in SUBSET C
    BY <1>5
  <2>3. Leading(Graph(T), S \cup X) \subseteq X
    BY <2>1
  <2>4. PICK Y : Y = X
    OBVIOUS
  <2>5. Y \in SUBSET C /\ Leading(Graph(T), S \cup Y) \subseteq Y
    BY <2>2, <2>3, <2>4
  <2> HIDE DEF X, C, S
  <2>6. B \subseteq Y
    BY <1>2, <2>5
  <2> QED
    BY <2>4, <2>6 DEF X
<1> DEFINE ranks(p) == {n \in Nat : p \in layer[n]}
           distance == [p \in B |-> CHOOSE k \in ranks(p) : \A m \in ranks(p) : k <= m]
<1>9. ASSUME NEW p \in B
      PROVE  distance[p] \in ranks(p) /\ \A m \in ranks(p) : distance[p] <= m
  <2>1. ranks(p) \in SUBSET Nat /\ ranks(p) # {}
    BY <1>8
  <2> HIDE DEF ranks
  <2>2. \E k \in ranks(p) : \A m \in ranks(p) : k <= m
    BY <2>1, LeastNumber
  <2>3. distance[p] = CHOOSE k \in ranks(p) : \A m \in ranks(p) : k <= m
    BY Zenon
  <2> QED
    BY <2>2, <2>3, Zenon
<1>10. distance \in [B -> Nat]
  <2>1. \A p \in B : distance[p] \in Nat
    BY <1>9
  <2>2. DOMAIN distance = B /\ distance = [p \in B |-> distance[p]]
    OBVIOUS
  <2> HIDE DEF distance
  <2> QED
    BY <2>1, <2>2
<1>11. \A p \in B : p \in layer[distance[p]]
  BY <1>9
<1>12. \A p \in B : \A m \in Nat : p \in layer[m] => distance[p] <= m
  BY <1>9
<1> HIDE DEF distance
<1>13. ASSUME NEW p \in B
       PROVE  \E q \in Graph(T)[p] \cap B : q.l \in T.accept \/ distance[q] < distance[p]
  <2>1. distance[p] \in Nat /\ distance[p] # 0
    BY <1>5, <1>10, <1>11
  <2> DEFINE n == distance[p] - 1
  <2>2. n \in Nat /\ n + 1 = distance[p]
    BY <2>1
  <2>3. p \in Leading(Graph(T), S \cup layer[n])
    BY <1>6, <1>11, <2>2
  <2>4. PICK q \in Graph(T)[p] : q \in S \cup layer[n]
    BY <2>3 DEF Leading
  <2>5. q \in B
    BY <1>7, <2>2, <2>4 DEF AcceptingOf
  <2>6. q \in S => q.l \in T.accept
    BY DEF AcceptingOf
  <2>7. q \in layer[n] => distance[q] < distance[p]
    BY <1>10, <1>12, <2>2, <2>5
  <2> QED
    BY <2>4, <2>5, <2>6, <2>7
<1> QED
  BY <1>10, <1>13 DEF Nearer

LEMMA KeptHaveRuns ==
    ASSUME NEW T, IsAutomaton(T), NEW p \in BuchiConfigurations(T)
    PROVE  HasAcceptingRun(T, p)
<1>1. PICK B : B = BuchiConfigurations(T)
  OBVIOUS
<1>2. \A f \in [B -> B] : \A b \in B :
        \E r \in [Nat -> B] : r[0] = b /\ \A n \in Nat : r[n + 1] = f[r[n]]
  BY IterationExists
<1>3. PICK distance \in [B -> Nat] : Nearer(T, B, distance)
  BY <1>1, DistanceExists
<1> DEFINE good(x, q) == q.l \in T.accept \/ distance[q] < distance[x]
           onward == [x \in B |-> CHOOSE q \in Graph(T)[x] \cap B : good(x, q)]
<1>4. ASSUME NEW x \in B
      PROVE  onward[x] \in Graph(T)[x] \cap B /\ good(x, onward[x])
  <2>1. \E q \in Graph(T)[x] \cap B : good(x, q)
    BY <1>3 DEF Nearer
  <2>2. onward[x] = CHOOSE q \in Graph(T)[x] \cap B : good(x, q)
    BY Zenon
  <2> HIDE DEF good, onward
  <2> QED
    BY <2>1, <2>2, Zenon
<1>5. onward \in [B -> B]
  <2>1. DOMAIN onward = B /\ onward = [x \in B |-> onward[x]]
    OBVIOUS
  <2> HIDE DEF onward, good
  <2> QED
    BY <1>4, <2>1
<1> HIDE DEF onward
<1>6. PICK r \in [Nat -> B] : r[0] = p /\ \A n \in Nat : r[n + 1] = onward[r[n]]
  <2>1. p \in B
    BY <1>1
  <2>2. PICK f : f = onward
    OBVIOUS
  <2>3. f \in [B -> B]
    BY <1>5, <2>2
  <2> HIDE DEF good
  <2>4. \E r \in [Nat -> B] : r[0] = p /\ \A n \in Nat : r[n + 1] = f[r[n]]
    BY <2>1, <2>3, <1>2
  <2> QED
    BY <2>2, <2>4
<1>7. r \in [Nat -> Configurations(T)]
  BY <1>1, BuchiIs
<1>8. IsRun(T, r)
  BY <1>4, <1>6 DEF IsRun
<1>9. VisitsForever(T, r)
  <2> DEFINE seen(n) == \E m \in Nat : m >= n /\ r[m].l \in T.accept
             K == {k \in Nat : \A n \in Nat : distance[r[n]] < k => seen(n)}
  <2>1. 0 \in K
    <3>1. \A n \in Nat : distance[r[n]] \in Nat
      BY <1>3, <1>6
    <3> QED
      BY <3>1
  <2>2. ASSUME NEW k \in Nat, k \in K PROVE k + 1 \in K
    <3> SUFFICES ASSUME NEW n \in Nat, distance[r[n]] < k + 1 PROVE seen(n)
      OBVIOUS
    <3>1. n + 1 \in Nat /\ r[n] \in B /\ r[n + 1] \in B
      BY <1>6
    <3>2. distance[r[n]] \in Nat /\ distance[r[n + 1]] \in Nat
      BY <1>3, <3>1
    <3>3. r[n + 1].l \in T.accept \/ distance[r[n + 1]] < distance[r[n]]
      BY <1>4, <1>6, <3>1
    <3>4. CASE r[n + 1].l \in T.accept
      BY <3>1, <3>4
    <3>5. CASE distance[r[n + 1]] < distance[r[n]]
      <4>1. distance[r[n + 1]] < k
        BY <3>2, <3>5
      <4>2. PICK m \in Nat : m >= n + 1 /\ r[m].l \in T.accept
        BY <2>2, <3>1, <4>1
      <4>3. m >= n
        BY <4>2
      <4> QED
        BY <4>2, <4>3
    <3> QED
      BY <3>3, <3>4, <3>5
  <2>3. Nat \subseteq K
    <3> HIDE DEF K
    <3> QED
      BY <2>1, <2>2, SetInduction
  <2> SUFFICES ASSUME NEW n \in Nat PROVE seen(n)
    BY DEF VisitsForever
  <2>4. distance[r[n]] \in Nat /\ distance[r[n]] + 1 \in Nat /\ distance[r[n]] < distance[r[n]] + 1
    BY <1>3, <1>6
  <2> QED
    BY <2>3, <2>4
<1> QED
  BY <1>6, <1>7, <1>8, <1>9 DEF HasAcceptingRun

THEOREM BuchiConfigurationsHaveRuns ==
    ASSUME NEW T, IsAutomaton(T), NEW p \in Configurations(T)
    PROVE  p \in BuchiConfigurations(T) <=> HasAcceptingRun(T, p)
  BY RunsAreKept, KeptHaveRuns DEF HasAcceptingRun

(***************************************************************************)
(* "The set of states that can infinitely often reach an accepting state": *)
(* whatever the automaton, a configuration with such a run is returned;    *)
(* and without invariants, only those are.                                 *)
(***************************************************************************)
THEOREM ReturnsExactly ==
    Spec => [](phase = "returned" => \A p \in Configurations(A) :
                  /\ HasAcceptingRun(A, p) => p.v \in Points(reach_a[p.l])
                  /\ NoInvariants(A) /\ p.v \in Points(reach_a[p.l]) => HasAcceptingRun(A, p))
<1> DEFINE Exact == phase = "returned" => \A p \in Configurations(A) :
                  /\ HasAcceptingRun(A, p) => p.v \in Points(reach_a[p.l])
                  /\ NoInvariants(A) /\ p.v \in Points(reach_a[p.l]) => HasAcceptingRun(A, p)
<1>1. TypeOK /\ ResultCovers /\ ResultIsSound => Exact
  <2> SUFFICES ASSUME TypeOK, ResultCovers, ResultIsSound, phase = "returned",
                      NEW p \in Configurations(A)
               PROVE  /\ HasAcceptingRun(A, p) => p.v \in Points(reach_a[p.l])
                      /\ NoInvariants(A) /\ p.v \in Points(reach_a[p.l]) => HasAcceptingRun(A, p)
    OBVIOUS
  <2>1. p \in BuchiConfigurations(A) <=> HasAcceptingRun(A, p)
    BY BuchiConfigurationsHaveRuns DEF TypeOK
  <2>2. p \in Result <=> p.v \in Points(reach_a[p.l])
    BY DEF Result
  <2>3. BuchiConfigurations(A) \subseteq Result
    BY DEF ResultCovers
  <2>4. NoInvariants(A) => Result \subseteq BuchiConfigurations(A)
    BY DEF ResultIsSound, ResultIsAccepting, NoInvariants
  <2> QED
    BY <2>1, <2>2, <2>3, <2>4
<1> HIDE DEF Exact
<1>2. Spec => []Exact
  BY <1>1, TypeCorrect, MissesNoRun, ReturnsAccepting, PTL
<1> QED
  BY <1>2 DEF Exact

=============================================================================
