---------------------------- MODULE SessionProofs ----------------------------
(***************************************************************************)
(* Theorems about MonitorSession, for every alphabet of locations, every   *)
(* choice of channels and slacks and any number of events.                 *)
(***************************************************************************)
EXTENDS MonitorSession, FiniteSetTheorems, SequenceTheorems, DataInduction

(***************************************************************************)
(* Counts of obligations are natural numbers.                              *)
(***************************************************************************)
LEMMA ActiveTyped ==
    ASSUME NEW F \in Frontiers
    PROVE  Active(F) \in Nat
  <1>1. F.pos \in SUBSET Locations /\ F.neg \in SUBSET Locations
    BY DEF Frontiers
  <1>2. IsFiniteSet(F.pos \cap Obligated) /\ IsFiniteSet(F.neg \cap Obligated)
    <2>1. F.pos \cap Obligated \in SUBSET Locations /\ F.neg \cap Obligated \in SUBSET Locations
      BY <1>1
    <2> QED
      BY <2>1, FS_Subset, SessionAssumption
  <1> QED
    BY <1>2, FS_CardinalityType DEF Active

(***************************************************************************)
(* Filtering passes a group on whose channel is on.                        *)
(***************************************************************************)
LEMMA ObligationSent ==
    ASSUME "Obligation" \in Channels,
           NEW before, NEW verdict, NEW F, NEW exact, NEW list
    PROVE  LET o == filter(Feedback(before, verdict, F, exact, list)).Obligation
           IN  /\ o.opened = Excess(Active(F), last_active)
               /\ o.satisfied = Excess(last_active, Active(F))
               /\ o.expired = IF expires(before, verdict) THEN 1 ELSE 0
  BY DEF filter, Feedback

-----------------------------------------------------------------------------
(***************************************************************************)
(* A native session never has a concrete monitor; counts are numbers.      *)
(***************************************************************************)
InStepInv ==
    /\ fed \in [interval : Nat, concrete : Nat]
    /\ backend = "native" => ~concrete
    /\ InStep

LEMMA InStepInductive == InStepInv /\ [Next]_vars => InStepInv'
<1> SUFFICES ASSUME InStepInv, [Next]_vars
             PROVE  InStepInv'
  OBVIOUS
<1> USE DEF InStepInv, InStep, anchor_inputs
<1>1. ASSUME NEW e \in Events, NEW G \in Frontiers, Reject(e, G)
      PROVE  InStepInv'
  BY <1>1 DEF Reject
<1>2. ASSUME NEW e \in Events, NEW G \in Frontiers, NEW F \in Frontiers,
             NEW list \in SlackLists, NEW fails \in BOOLEAN, Step(e, G, F, list, fails)
      PROVE  InStepInv'
  <2>1. /\ fed' = [interval |-> fed.interval + anchor_inputs + 1,
                   concrete |-> fed.concrete + (IF concrete THEN anchor_inputs ELSE 0)
                                             + (IF handles(e, fails) THEN 1 ELSE 0)]
        /\ backend' = "projected"
    BY <1>2, Zenon DEF Step
  <2>2. concrete' = keeps(e, fails)
    BY <1>2, Zenon DEF Step
  <2>3. concrete' => concrete /\ handles(e, fails)
    BY <2>2, Zenon DEF keeps, handles
  <2>4. fed' \in [interval : Nat, concrete : Nat]
    BY <2>1
  <2>5. concrete' => fed'.concrete = fed'.interval
    BY <2>1, <2>3
  <2> QED
    BY <2>1, <2>4, <2>5
<1>3. ASSUME NEW e \in Events, NEW G \in Frontiers, NEW F \in Frontiers, StepNative(e, G, F)
      PROVE  InStepInv'
  BY <1>3 DEF StepNative
<1>4. CASE UNCHANGED vars
  BY <1>4 DEF vars, monitors
<1> QED
  BY <1>1, <1>2, <1>3, <1>4 DEF Next

(***************************************************************************)
(* The concrete monitor of a session, as long as it has one, has handled   *)
(* every input the interval monitor has (step, ensure_anchor).             *)
(***************************************************************************)
THEOREM StaysInStep == Spec => []InStep
<1>1. ASSUME Init PROVE InStepInv
  <2>1. /\ concrete \in (IF backend = "projected" THEN BOOLEAN ELSE {FALSE})
        /\ fed = [interval |-> 0, concrete |-> 0]
    BY <1>1, Zenon DEF Init
  <2>2. backend = "native" => ~concrete
    BY <2>1
  <2> QED
    BY <2>1, <2>2 DEF InStepInv, InStep
<1>2. InStepInv => InStep
  BY DEF InStepInv
<1> QED
  BY <1>1, <1>2, InStepInductive, PTL DEF Spec
-----------------------------------------------------------------------------
(***************************************************************************)
(* What a frame adds to the sums.                                          *)
(***************************************************************************)
Sums == DOMAIN NothingYet

LEMMA SumsAfter ==
    ASSUME DOMAIN total = Sums, NEW verdict, NEW f, NEW G
    PROVE  LET t == Marked(Accumulated(verdict, f), G)
           IN  /\ DOMAIN t = Sums
               /\ t.opened = total.opened + f.Obligation.opened
               /\ t.satisfied = total.satisfied + f.Obligation.satisfied
               /\ t.expired = total.expired + f.Obligation.expired
               /\ t.verdicts = total.verdicts \cup {verdict}
               /\ t.anchor = IF anchored THEN total.anchor ELSE Answered(backend, answer, G)
  BY DEF Marked, Accumulated, Sums, NothingYet

LEMMA SumsAfterRejection ==
    ASSUME DOMAIN total = Sums, NEW G
    PROVE  LET t == Marked(total, G)
           IN  /\ DOMAIN t = Sums
               /\ t.opened = total.opened
               /\ t.satisfied = total.satisfied
               /\ t.expired = total.expired
               /\ t.verdicts = total.verdicts
               /\ t.anchor = IF anchored THEN total.anchor ELSE Answered(backend, answer, G)
  BY DEF Marked, Sums, NothingYet

(***************************************************************************)
(* A step changes the sums by the frame it sends.                          *)
(***************************************************************************)
LEMMA StepSums ==
    ASSUME DOMAIN total = Sums, "Obligation" \in Channels,
           NEW e, NEW G, NEW F, NEW list, NEW fails, Step(e, G, F, list, fails)
    PROVE  /\ DOMAIN total' = Sums
           /\ total'.opened = total.opened + Excess(Active(F), last_active)
           /\ total'.satisfied = total.satisfied + Excess(last_active, Active(F))
           /\ total'.expired = total.expired +
                 (IF expires(anchor_verdict(G), Answered(backend, Answered(backend, answer, G), F))
                  THEN 1 ELSE 0)
           /\ total'.verdicts = total.verdicts \cup
                 {Answered(backend, Answered(backend, answer, G), F)}
           /\ total'.anchor = IF anchored THEN total.anchor ELSE Answered(backend, answer, G)
  <1> DEFINE verdict == Answered(backend, Answered(backend, answer, G), F)
             sent == filter(Feedback(anchor_verdict(G), verdict, F, keeps(e, fails), list))
  <1>1. total' = Marked(Accumulated(verdict, sent), G)
    BY Zenon DEF Step
  <1>2. /\ sent.Obligation.opened = Excess(Active(F), last_active)
        /\ sent.Obligation.satisfied = Excess(last_active, Active(F))
        /\ sent.Obligation.expired = IF expires(anchor_verdict(G), verdict) THEN 1 ELSE 0
    BY ObligationSent, ZenonT(30)
  <1> HIDE DEF sent, verdict
  <1>3. LET t == Marked(Accumulated(verdict, sent), G)
        IN  /\ DOMAIN t = Sums
            /\ t.opened = total.opened + sent.Obligation.opened
            /\ t.satisfied = total.satisfied + sent.Obligation.satisfied
            /\ t.expired = total.expired + sent.Obligation.expired
            /\ t.verdicts = total.verdicts \cup {verdict}
            /\ t.anchor = IF anchored THEN total.anchor ELSE Answered(backend, answer, G)
    BY SumsAfter
  <1> QED
    BY <1>1, <1>2, <1>3, Zenon DEF verdict

LEMMA NativeSums ==
    ASSUME DOMAIN total = Sums, total.opened \in Int, total.satisfied \in Int,
           total.expired \in Int,
           NEW e, NEW G, NEW F, StepNative(e, G, F)
    PROVE  /\ DOMAIN total' = Sums
           /\ total'.opened = total.opened
           /\ total'.satisfied = total.satisfied
           /\ total'.expired = total.expired
           /\ total'.anchor = IF anchored THEN total.anchor ELSE Answered(backend, answer, G)
  <1> DEFINE verdict == Answered(backend, Answered(backend, answer, G), F)
  <1>1. total' = Marked(Accumulated(verdict, Silent), G)
    BY Zenon DEF StepNative
  <1> HIDE DEF verdict
  <1>2. /\ Silent.Obligation.opened = 0
        /\ Silent.Obligation.satisfied = 0
        /\ Silent.Obligation.expired = 0
    BY DEF Silent
  <1>3. LET t == Marked(Accumulated(verdict, Silent), G)
        IN  /\ DOMAIN t = Sums
            /\ t.opened = total.opened + Silent.Obligation.opened
            /\ t.satisfied = total.satisfied + Silent.Obligation.satisfied
            /\ t.expired = total.expired + Silent.Obligation.expired
            /\ t.anchor = IF anchored THEN total.anchor ELSE Answered(backend, answer, G)
    BY SumsAfter
  <1> QED
    BY <1>1, <1>2, <1>3

-----------------------------------------------------------------------------
(***************************************************************************)
(* The balance is inductive once its terms are numbers.                    *)
(***************************************************************************)
BalanceInv ==
    /\ DOMAIN total = Sums
    /\ last_active \in Nat
    /\ total.opened \in Int /\ total.satisfied \in Int /\ total.expired \in Int
    /\ ObligationsBalance

LEMMA BalanceInductive ==
    ASSUME "Obligation" \in Channels, BalanceInv, [Next]_vars
    PROVE  BalanceInv'
<1> USE DEF BalanceInv, ObligationsBalance
<1>1. ASSUME NEW e \in Events, NEW G \in Frontiers, Reject(e, G)
      PROVE  BalanceInv'
  <2>1. total' = Marked(total, G) /\ last_active' = last_active
    BY <1>1, Zenon DEF Reject
  <2> QED
    BY <2>1, SumsAfterRejection
<1>2. ASSUME NEW e \in Events, NEW G \in Frontiers, NEW F \in Frontiers,
             NEW list \in SlackLists, NEW fails \in BOOLEAN, Step(e, G, F, list, fails)
      PROVE  BalanceInv'
  <2>1. last_active' = Active(F)
    BY <1>2, Zenon DEF Step
  <2>2. Active(F) \in Nat
    BY ActiveTyped
  <2>3. /\ DOMAIN total' = Sums
        /\ total'.opened = total.opened + Excess(Active(F), last_active)
        /\ total'.satisfied = total.satisfied + Excess(last_active, Active(F))
        /\ total'.expired \in Int
    BY <1>2, StepSums
  <2>4. Excess(Active(F), last_active) - Excess(last_active, Active(F)) = Active(F) - last_active
    BY <2>2 DEF Excess
  <2>5. Excess(Active(F), last_active) \in Int /\ Excess(last_active, Active(F)) \in Int
    BY <2>2 DEF Excess
  <2> QED
    BY <2>1, <2>2, <2>3, <2>4, <2>5
<1>3. ASSUME NEW e \in Events, NEW G \in Frontiers, NEW F \in Frontiers, StepNative(e, G, F)
      PROVE  BalanceInv'
  <2>1. last_active' = last_active
    BY <1>3, Zenon DEF StepNative
  <2> QED
    BY <1>3, <2>1, NativeSums
<1>4. CASE UNCHANGED vars
  BY <1>4 DEF vars, memory
<1> QED
  BY <1>1, <1>2, <1>3, <1>4 DEF Next

(***************************************************************************)
(* Obligations reported as opened, less those reported as satisfied, are   *)
(* the active ones (step, opened_now and satisfied_now).                   *)
(***************************************************************************)
THEOREM ObligationsStayBalanced == Spec => []ObligationsBalance
<1>1. CASE "Obligation" \in Channels
  <2>1. ASSUME Init PROVE BalanceInv
    <3>1. total = NothingYet /\ last_active = 0
      BY <2>1, Zenon DEF Init
    <3> QED
      BY <3>1 DEF BalanceInv, ObligationsBalance, NothingYet, Sums
  <2>2. BalanceInv /\ [Next]_vars => BalanceInv'
    BY <1>1, BalanceInductive
  <2>3. BalanceInv => ObligationsBalance
    BY DEF BalanceInv
  <2> QED
    BY <2>1, <2>2, <2>3, PTL DEF Spec
<1>2. CASE "Obligation" \notin Channels
  <2>1. ObligationsBalance
    BY <1>2 DEF ObligationsBalance
  <2> QED
    BY <2>1, PTL
<1> QED
  BY <1>1, <1>2
-----------------------------------------------------------------------------
(***************************************************************************)
(* After the anchor the verdict is the one the frontier says, which is not *)
(* so of any order of answers, only of ones that follow each other; before *)
(* it the constructor's, which may be another when both sides are out.     *)
(***************************************************************************)
Said(b, F) == Answered(b, "INCONCLUSIVE", F)

LEMMA SaidAfter ==
    ASSUME NEW b, NEW F, NEW G, Follows(F, G)
    PROVE  /\ Answered(b, Said(b, F), G) = Said(b, G)
           /\ Answered(b, Constructed(F), G) = Said(b, G)
  BY DEF Said, Answered, Follows, Constructed

(***************************************************************************)
(* The projected monitor's answers: POSITIVE is final, and NEGATIVE gives  *)
(* way to POSITIVE only.                                                   *)
(***************************************************************************)
LEMMA SaidTurns ==
    ASSUME NEW F \in Frontiers, NEW G \in Frontiers, Follows(F, G)
    PROVE  /\ Said("projected", F) \in Verdicts
           /\ Said("projected", F) = "NEGATIVE" => F.pos = {}
           /\ Said("projected", F) = "POSITIVE" => Said("projected", G) = "POSITIVE"
           /\ F.pos = {} => Said("projected", F) # "INCONCLUSIVE" /\ G.pos = {}
           /\ F.pos = {} /\ Said("projected", F) # "NEGATIVE" =>
                 Said("projected", F) = "POSITIVE" /\ F.neg = {}
  BY DEF Said, Answered, Follows, Verdicts

(***************************************************************************)
(* Of a projected session: what the last verdict is, and that the positive *)
(* side has no state since any verdict was NEGATIVE.                       *)
(***************************************************************************)
Remembered ==
    /\ anchored => last_verdict \in total.verdicts \cup {total.anchor}
    /\ total.anchor = "NEGATIVE" \/ "NEGATIVE" \in total.verdicts => frontier.pos = {}

VerdictInv ==
    /\ BalanceInv
    /\ answer = IF anchored THEN Said(backend, frontier) ELSE Constructed(frontier)
    /\ last_verdict = IF anchored THEN answer ELSE "INCONCLUSIVE"
    /\ ~anchored => total.expired = 0 /\ total.anchor = "INCONCLUSIVE" /\ total.verdicts = {}
    /\ backend = "projected" => Remembered
    /\ frontier \in Frontiers
    /\ ExpiryCountsOnce

(***************************************************************************)
(* After the anchor, whether it was this step's or an earlier one's.       *)
(***************************************************************************)
LEMMA Anchored ==
    ASSUME VerdictInv, NEW G, anchor_frontier(G)
    PROVE  /\ Answered(backend, answer, G) = Said(backend, G)
           /\ anchor_verdict(G) = Said(backend, G)
<1>1. CASE anchored
  <2>1. G = frontier /\ answer = Said(backend, G) /\ anchor_verdict(G) = answer
    BY <1>1, Zenon DEF VerdictInv, anchor_frontier, anchor_verdict
  <2>2. Answered(backend, Said(backend, G), G) = Said(backend, G)
    BY DEF Said, Answered
  <2> QED
    BY <2>1, <2>2, Zenon
<1>2. CASE ~anchored
  <2>1. Follows(frontier, G) /\ answer = Constructed(frontier)
        /\ anchor_verdict(G) = Answered(backend, answer, G)
    BY <1>2, Zenon DEF VerdictInv, anchor_frontier, anchor_verdict
  <2> QED
    BY <2>1, SaidAfter, Zenon
<1> QED
  BY <1>1, <1>2

(***************************************************************************)
(* The anchor alone keeps what is remembered and what was counted.  "seen" *)
(* are the verdicts so far and "first" is the anchor's, after it.          *)
(***************************************************************************)
Counted(n, seen, first, said, F) ==
    /\ said \in seen \cup {first}
    /\ first = "NEGATIVE" \/ "NEGATIVE" \in seen => F.pos = {}
    /\ n = IF "NEGATIVE" \in seen /\ first # "NEGATIVE" THEN 1 ELSE 0

LEMMA CountedAtAnchor ==
    ASSUME "Obligation" \in Channels, VerdictInv, backend = "projected",
           NEW G \in Frontiers, anchor_frontier(G), NEW first,
           first = IF anchored THEN total.anchor ELSE Said("projected", G)
    PROVE  Counted(total.expired, total.verdicts, first, Said("projected", G), G)
<1>1. CASE anchored
  BY <1>1, Zenon DEF VerdictInv, Remembered, ExpiryCountsOnce, anchor_frontier, Counted
<1>2. CASE ~anchored
  <2>1. total.expired = 0 /\ total.verdicts = {} /\ first = Said("projected", G)
    BY <1>2, Zenon DEF VerdictInv
  <2>2. Said("projected", G) = "NEGATIVE" => G.pos = {}
    BY DEF Said, Answered
  <2> QED
    BY <2>1, <2>2 DEF Counted
<1> QED
  BY <1>1, <1>2

(***************************************************************************)
(* An event adds to the count what turned from INCONCLUSIVE to NEGATIVE.   *)
(***************************************************************************)
LEMMA CountedAtEvent ==
    ASSUME NEW n, NEW seen, NEW first, NEW G \in Frontiers, NEW F \in Frontiers,
           Follows(G, F), Counted(n, seen, first, Said("projected", G), G)
    PROVE  LET verdict == Said("projected", F)
           IN  Counted(n + (IF expires(Said("projected", G), verdict) THEN 1 ELSE 0),
                       seen \cup {verdict}, first, verdict, F)
<1> DEFINE before == Said("projected", G)
           verdict == Said("projected", F)
<1>1. /\ before \in Verdicts
      /\ before = "POSITIVE" => verdict = "POSITIVE"
      /\ G.pos = {} => before # "INCONCLUSIVE" /\ F.pos = {}
  BY SaidTurns
<1>2. verdict = "NEGATIVE" => F.pos = {}
  BY DEF Said, Answered
<1> HIDE DEF before, verdict
<1>3. Counted(n, seen, first, before, G)
  BY DEF before
<1>4. Counted(n + (IF expires(before, verdict) THEN 1 ELSE 0), seen \cup {verdict}, first,
              verdict, F)
  <2>1. CASE first = "NEGATIVE" \/ "NEGATIVE" \in seen
    BY <1>1, <1>3, <2>1 DEF Counted, expires
  <2>2. CASE first # "NEGATIVE" /\ "NEGATIVE" \notin seen
    <3>1. n = 0 /\ before # "NEGATIVE"
      BY <1>3, <2>2 DEF Counted
    <3>2. verdict = "NEGATIVE" => before = "INCONCLUSIVE"
      BY <1>1, <3>1 DEF Verdicts
    <3> QED
      BY <1>2, <2>2, <3>1, <3>2 DEF Counted, expires
  <2> QED
    BY <2>1, <2>2
<1> QED
  BY <1>4 DEF before, verdict

(***************************************************************************)
(* A step, an event or the anchor, that ends with frontier F.              *)
(***************************************************************************)
LEMMA VerdictSettled ==
    ASSUME "Obligation" \in Channels, NEW F \in Frontiers
    PROVE  /\ BalanceInv'
           /\ frontier' = F /\ anchored' = TRUE
           /\ answer' = Said(backend', F) /\ last_verdict' = answer'
           /\ backend' = "projected" =>
                 Counted(total'.expired, total'.verdicts, total'.anchor, Said("projected", F), F)
           => VerdictInv'
<1> SUFFICES ASSUME BalanceInv', frontier' = F, anchored' = TRUE,
                    answer' = Said(backend', F), last_verdict' = answer',
                    backend' = "projected" =>
                       Counted(total'.expired, total'.verdicts, total'.anchor,
                               Said("projected", F), F)
             PROVE  VerdictInv'
  OBVIOUS
<1>1. ASSUME backend' = "projected" PROVE Remembered' /\ ExpiryCountsOnce'
  <2>1. Follows(F, F)
    BY DEF Follows
  <2>2. F.pos = {} /\ Said("projected", F) # "NEGATIVE" =>
           Said("projected", F) = "POSITIVE" /\ F.neg = {}
    BY <2>1, SaidTurns
  <2>3. /\ last_verdict' \in total'.verdicts \cup {total'.anchor}
        /\ total'.anchor = "NEGATIVE" \/ "NEGATIVE" \in total'.verdicts => F.pos = {}
        /\ total'.expired = IF "NEGATIVE" \in total'.verdicts /\ total'.anchor # "NEGATIVE"
                            THEN 1 ELSE 0
    BY <1>1, Zenon DEF Counted
  <2>4. Remembered'
    BY <2>3 DEF Remembered
  <2>5. total'.expired = 1 => F.pos = {}
    BY <2>3
  <2> QED
    BY <1>1, <2>2, <2>3, <2>4, <2>5 DEF ExpiryCountsOnce, BothOut
<1>2. backend' # "projected" => ExpiryCountsOnce'
  BY DEF ExpiryCountsOnce
<1>3. /\ answer' = IF anchored' THEN Said(backend', frontier') ELSE Constructed(frontier')
      /\ last_verdict' = IF anchored' THEN answer' ELSE "INCONCLUSIVE"
      /\ ~anchored' => total'.expired = 0 /\ total'.anchor = "INCONCLUSIVE"
                          /\ total'.verdicts = {}
      /\ frontier' \in Frontiers
  OBVIOUS
<1>4. (backend' = "projected" => Remembered') /\ ExpiryCountsOnce'
  BY <1>1, <1>2
<1> QED
  BY <1>3, <1>4 DEF VerdictInv

LEMMA VerdictInductive ==
    ASSUME "Obligation" \in Channels, VerdictInv, [Next]_vars
    PROVE  VerdictInv'
<1>0. BalanceInv'
  BY BalanceInductive DEF VerdictInv
<1>1. ASSUME NEW e \in Events, NEW G \in Frontiers, Reject(e, G)
      PROVE  VerdictInv'
  <2>1. /\ total' = Marked(total, G) /\ frontier' = G /\ anchored' = TRUE
        /\ backend' = backend
        /\ answer' = Answered(backend, answer, G) /\ last_verdict' = anchor_verdict(G)
        /\ anchor_frontier(G)
    BY <1>1, Zenon DEF Reject
  <2>2. Answered(backend, answer, G) = Said(backend, G) /\ anchor_verdict(G) = Said(backend, G)
    BY <2>1, Anchored
  <2>3. /\ total'.expired = total.expired /\ total'.verdicts = total.verdicts
        /\ total'.anchor = IF anchored THEN total.anchor ELSE Said(backend, G)
    BY <2>1, <2>2, SumsAfterRejection DEF BalanceInv, VerdictInv
  <2>4. backend = "projected" =>
           Counted(total'.expired, total'.verdicts, total'.anchor, Said("projected", G), G)
    BY <2>1, <2>3, CountedAtAnchor, Zenon
  <2> QED
    BY <1>0, <2>1, <2>2, <2>4, VerdictSettled
<1>2. ASSUME NEW e \in Events, NEW G \in Frontiers, NEW F \in Frontiers,
             NEW list \in SlackLists, NEW fails \in BOOLEAN, Step(e, G, F, list, fails)
      PROVE  VerdictInv'
  <2>1. /\ frontier' = F /\ anchored' = TRUE /\ backend' = backend
        /\ answer' = Answered(backend, Answered(backend, answer, G), F) /\ last_verdict' = answer'
        /\ anchor_frontier(G) /\ Follows(G, F) /\ backend = "projected"
    BY <1>2, Zenon DEF Step
  <2>2. Answered(backend, answer, G) = Said(backend, G) /\ anchor_verdict(G) = Said(backend, G)
    BY <2>1, Anchored
  <2>3. Answered(backend, Answered(backend, answer, G), F) = Said(backend, F)
    BY <2>1, <2>2, SaidAfter
  <2>4. /\ total'.expired = total.expired +
              (IF expires(Said(backend, G), Said(backend, F)) THEN 1 ELSE 0)
        /\ total'.verdicts = total.verdicts \cup {Said(backend, F)}
        /\ total'.anchor = IF anchored THEN total.anchor ELSE Said(backend, G)
    BY <1>2, <2>2, <2>3, StepSums DEF BalanceInv, VerdictInv
  <2>5. Counted(total.expired, total.verdicts, total'.anchor, Said("projected", G), G)
    BY <2>1, <2>4, CountedAtAnchor, Zenon
  <2>6. Counted(total'.expired, total'.verdicts, total'.anchor, Said("projected", F), F)
    <3>1. LET n == total.expired
              verdict == Said("projected", F)
          IN  Counted(n + (IF expires(Said("projected", G), verdict) THEN 1 ELSE 0),
                      total.verdicts \cup {verdict}, total'.anchor, verdict, F)
      BY <2>1, <2>5, CountedAtEvent, Zenon
    <3> QED
      BY <2>1, <2>4, <3>1, Zenon
  <2> QED
    BY <1>0, <2>1, <2>3, <2>6, VerdictSettled
<1>3. ASSUME NEW e \in Events, NEW G \in Frontiers, NEW F \in Frontiers, StepNative(e, G, F)
      PROVE  VerdictInv'
  <2>1. /\ frontier' = F /\ anchored' = TRUE /\ backend' = backend
        /\ answer' = Answered(backend, Answered(backend, answer, G), F) /\ last_verdict' = answer'
        /\ anchor_frontier(G) /\ Follows(G, F) /\ backend = "native"
    BY <1>3, Zenon DEF StepNative
  <2>2. Answered(backend, answer, G) = Said(backend, G)
    BY <2>1, Anchored
  <2>3. Answered(backend, Answered(backend, answer, G), F) = Said(backend, F)
    BY <2>1, <2>2, SaidAfter
  <2> QED
    BY <1>0, <2>1, <2>3, VerdictSettled
<1>4. CASE UNCHANGED vars
  BY <1>0, <1>4 DEF VerdictInv, vars, monitors, memory, ExpiryCountsOnce, BothOut, Remembered
<1> QED
  BY <1>1, <1>2, <1>3, <1>4 DEF Next

(***************************************************************************)
(* A session reports an expiry exactly when a frame decided against the    *)
(* property and the anchor had not, and once, although neither monitor     *)
(* need stay in: the only answer after it is the POSITIVE of two sides     *)
(* that are out (step, expired_now).                                       *)
(***************************************************************************)
THEOREM ExpiresOnce == Spec => []ExpiryCountsOnce
<1>1. CASE "Obligation" \in Channels
  <2>1. ASSUME Init PROVE VerdictInv
    <3>1. /\ total = NothingYet /\ last_active = 0 /\ anchored = FALSE
          /\ last_verdict = "INCONCLUSIVE" /\ answer = Constructed(frontier)
          /\ frontier \in Frontiers
      BY <2>1, Zenon DEF Init
    <3> QED
      BY <3>1 DEF VerdictInv, BalanceInv, ObligationsBalance, ExpiryCountsOnce, Remembered,
                  NothingYet, Sums
  <2>2. VerdictInv /\ [Next]_vars => VerdictInv'
    BY <1>1, VerdictInductive
  <2>3. VerdictInv => ExpiryCountsOnce
    BY DEF VerdictInv
  <2> QED
    BY <2>1, <2>2, <2>3, PTL DEF Spec
<1>2. CASE "Obligation" \notin Channels
  <2>1. ExpiryCountsOnce
    BY <1>2 DEF ExpiryCountsOnce
  <2> QED
    BY <2>1, PTL
<1> QED
  BY <1>1, <1>2
-----------------------------------------------------------------------------
(***************************************************************************)
(* The frame of a step shows the bin that is remembered as seen, and       *)
(* whether its frontier is new.                                            *)
(***************************************************************************)
LEMMA ProgressSent ==
    ASSUME "PropertyProgress" \in Channels,
           NEW before, NEW verdict, NEW F, NEW exact, NEW list
    PROVE  LET whole == Feedback(before, verdict, F, exact, list)
               bin == progress_bin_for(verdict, whole.Zone.boundary)
           IN  filter(whole).PropertyProgress = [bins |-> <<bin>>, fresh |-> {bin} \ seen_bins]
  BY DEF filter, Feedback, fresh_bins

LEMMA NoveltySent ==
    ASSUME "Frontier" \in Channels,
           NEW before, NEW verdict, NEW F, NEW exact, NEW list
    PROVE  filter(Feedback(before, verdict, F, exact, list)).Frontier.novelty = novel(F)
  BY DEF filter, Feedback

LEMMA CountsAfter ==
    ASSUME DOMAIN total = Sums, NEW verdict, NEW f, NEW G
    PROVE  LET t == Marked(Accumulated(verdict, f), G)
           IN  /\ DOMAIN t = Sums
               /\ t.fresh = total.fresh + Cardinality(f.PropertyProgress.fresh)
               /\ t.bins = total.bins \cup {f.PropertyProgress.bins[i] :
                                               i \in DOMAIN f.PropertyProgress.bins}
               /\ t.novel = total.novel + (IF f.Frontier.novelty THEN 1 ELSE 0)
  BY DEF Marked, Accumulated, Sums, NothingYet

LEMMA CountsAfterRejection ==
    ASSUME DOMAIN total = Sums, NEW G
    PROVE  LET t == Marked(total, G)
           IN  DOMAIN t = Sums /\ t.fresh = total.fresh /\ t.bins = total.bins /\ t.novel = total.novel
  BY DEF Marked, Sums, NothingYet

LEMMA NativeCounts ==
    ASSUME DOMAIN total = Sums, NEW e, NEW G, NEW F, StepNative(e, G, F)
    PROVE  /\ DOMAIN total' = Sums /\ total'.bins = total.bins
           /\ total.fresh \in Nat => total'.fresh = total.fresh
           /\ total.novel \in Nat => total'.novel = total.novel
  <1> DEFINE verdict == Answered(backend, Answered(backend, answer, G), F)
  <1>1. total' = Marked(Accumulated(verdict, Silent), G)
    BY Zenon DEF StepNative
  <1> HIDE DEF verdict
  <1>2. /\ Silent.PropertyProgress = [bins |-> << >>, fresh |-> {}]
        /\ Silent.Frontier.novelty = FALSE
    BY DEF Silent
  <1>3. {Silent.PropertyProgress.bins[i] : i \in DOMAIN Silent.PropertyProgress.bins} = {}
    BY <1>2
  <1>4. Cardinality(Silent.PropertyProgress.fresh) = 0
    BY <1>2, FS_EmptySet
  <1>5. LET t == Marked(Accumulated(verdict, Silent), G)
        IN  /\ DOMAIN t = Sums
            /\ t.fresh = total.fresh + Cardinality(Silent.PropertyProgress.fresh)
            /\ t.bins = total.bins \cup {Silent.PropertyProgress.bins[i] :
                                            i \in DOMAIN Silent.PropertyProgress.bins}
            /\ t.novel = total.novel + (IF Silent.Frontier.novelty THEN 1 ELSE 0)
    BY CountsAfter
  <1>6. total.bins \cup {} = total.bins
    OBVIOUS
  <1>7. (IF Silent.Frontier.novelty THEN 1 ELSE 0) = 0
    BY <1>2, Zenon
  <1>8. DOMAIN total' = Sums /\ total'.bins = total.bins
    BY <1>1, <1>3, <1>5, <1>6, Zenon
  <1>9. total'.fresh = total.fresh + 0 /\ total'.novel = total.novel + 0
    BY <1>1, <1>4, <1>5, <1>7, Zenon
  <1> QED
    BY <1>8, <1>9

(***************************************************************************)
(* One more element counts one, an old one nothing.                        *)
(***************************************************************************)
LEMMA CountGrows ==
    ASSUME NEW S, IsFiniteSet(S), NEW x
    PROVE  /\ IsFiniteSet(S \cup {x})
           /\ Cardinality(S) \in Nat /\ Cardinality(S \cup {x}) \in Nat
           /\ Cardinality(S \cup {x}) = Cardinality(S) + (IF x \in S THEN 0 ELSE 1)
           /\ Cardinality({x} \ S) = IF x \in S THEN 0 ELSE 1
  <1>1. /\ IsFiniteSet(S \cup {x})
        /\ Cardinality(S \cup {x}) = IF x \in S THEN Cardinality(S) ELSE Cardinality(S) + 1
    BY FS_AddElement
  <1>2. Cardinality({x} \ S) = IF x \in S THEN 0 ELSE 1
    <2>1. CASE x \in S
      <3>1. {x} \ S = {}
        BY <2>1
      <3> QED
        BY <2>1, <3>1, FS_EmptySet
    <2>2. CASE x \notin S
      <3>1. {x} \ S = {x}
        BY <2>2
      <3> QED
        BY <2>2, <3>1, FS_Singleton
    <2> QED
      BY <2>1, <2>2
  <1> QED
    BY <1>1, <1>2, FS_CardinalityType

(***************************************************************************)
(* The bins the frames have shown are the ones the session has seen.       *)
(***************************************************************************)
CoverageInv ==
    /\ DOMAIN total = Sums
    /\ IsFiniteSet(seen_bins)
    /\ total.bins = seen_bins
    /\ total.fresh = Cardinality(seen_bins)

LEMMA CoverageInductive ==
    ASSUME "PropertyProgress" \in Channels, CoverageInv, [Next]_vars
    PROVE  CoverageInv'
<1> USE DEF CoverageInv
<1>0. total.fresh \in Nat
  BY FS_CardinalityType
<1>1. ASSUME NEW e \in Events, NEW G \in Frontiers, Reject(e, G)
      PROVE  CoverageInv'
  <2>1. total' = Marked(total, G) /\ seen_bins' = seen_bins
    BY <1>1, Zenon DEF Reject
  <2> QED
    BY <2>1, CountsAfterRejection
<1>2. ASSUME NEW e \in Events, NEW G \in Frontiers, NEW F \in Frontiers,
             NEW list \in SlackLists, NEW fails \in BOOLEAN, Step(e, G, F, list, fails)
      PROVE  CoverageInv'
  <2> DEFINE verdict == Answered(backend, Answered(backend, answer, G), F)
             whole == Feedback(anchor_verdict(G), verdict, F, keeps(e, fails), list)
             bin == progress_bin_for(verdict, whole.Zone.boundary)
             sent == filter(whole)
  <2>1. total' = Marked(Accumulated(verdict, sent), G) /\ seen_bins' = seen_bins \cup {bin}
    BY <1>2, Zenon DEF Step
  <2>2. sent.PropertyProgress = [bins |-> <<bin>>, fresh |-> {bin} \ seen_bins]
    BY ProgressSent
  <2> HIDE DEF sent, bin
  <2>3. /\ DOMAIN total' = Sums
        /\ total'.fresh = total.fresh + Cardinality(sent.PropertyProgress.fresh)
        /\ total'.bins = total.bins \cup {sent.PropertyProgress.bins[i] :
                                             i \in DOMAIN sent.PropertyProgress.bins}
        /\ total'.novel = total.novel + (IF sent.Frontier.novelty THEN 1 ELSE 0)
    BY <2>1, CountsAfter
  <2>4. {sent.PropertyProgress.bins[i] : i \in DOMAIN sent.PropertyProgress.bins} = {bin}
    BY <2>2
  <2>5. total'.bins = seen_bins'
    BY <2>1, <2>3, <2>4
  <2>6. Cardinality(sent.PropertyProgress.fresh) = IF bin \in seen_bins THEN 0 ELSE 1
    <3>1. sent.PropertyProgress.fresh = {bin} \ seen_bins
      BY <2>2
    <3>2. Cardinality({bin} \ seen_bins) = IF bin \in seen_bins THEN 0 ELSE 1
      BY CountGrows
    <3> QED
      BY <3>1, <3>2
  <2>7. /\ IsFiniteSet(seen_bins')
        /\ Cardinality(seen_bins') = Cardinality(seen_bins) + (IF bin \in seen_bins THEN 0 ELSE 1)
    BY <2>1, CountGrows
  <2> QED
    BY <1>0, <2>3, <2>5, <2>6, <2>7
<1>3. ASSUME NEW e \in Events, NEW G \in Frontiers, NEW F \in Frontiers, StepNative(e, G, F)
      PROVE  CoverageInv'
  <2>1. seen_bins' = seen_bins
    BY <1>3, Zenon DEF StepNative
  <2> QED
    BY <1>0, <1>3, <2>1, NativeCounts
<1>4. CASE UNCHANGED vars
  BY <1>4 DEF vars, memory
<1> QED
  BY <1>1, <1>2, <1>3, <1>4 DEF Next

(***************************************************************************)
(* What the frames announce as newly covered adds up to what they have     *)
(* shown (step, property_coverage_delta).                                  *)
(***************************************************************************)
THEOREM CoverageAddsUp == Spec => []CoverageCountsOnce
<1>1. CASE "PropertyProgress" \in Channels
  <2>1. ASSUME Init PROVE CoverageInv
    <3>1. total = NothingYet /\ seen_bins = {}
      BY <2>1, Zenon DEF Init
    <3> QED
      BY <3>1, FS_EmptySet DEF CoverageInv, NothingYet, Sums
  <2>2. CoverageInv /\ [Next]_vars => CoverageInv'
    BY <1>1, CoverageInductive
  <2>3. CoverageInv => CoverageCountsOnce
    BY DEF CoverageInv, CoverageCountsOnce
  <2> QED
    BY <2>1, <2>2, <2>3, PTL DEF Spec
<1>2. CASE "PropertyProgress" \notin Channels
  <2>1. CoverageCountsOnce
    BY <1>2 DEF CoverageCountsOnce
  <2> QED
    BY <2>1, PTL
<1> QED
  BY <1>1, <1>2
-----------------------------------------------------------------------------
(***************************************************************************)
(* A frontier that is remembered was visited at least once.                *)
(***************************************************************************)
NoveltyInv ==
    /\ DOMAIN total = Sums
    /\ IsFiniteSet(DOMAIN visits)
    /\ \A f \in DOMAIN visits : visits[f] \in Nat \ {0}
    /\ total.novel = Cardinality(DOMAIN visits)

LEMMA NoveltyInductive ==
    ASSUME "Frontier" \in Channels, NoveltyInv, [Next]_vars
    PROVE  NoveltyInv'
<1> USE DEF NoveltyInv
<1>0. total.novel \in Nat
  BY FS_CardinalityType
<1>1. ASSUME NEW e \in Events, NEW G \in Frontiers, Reject(e, G)
      PROVE  NoveltyInv'
  <2>1. total' = Marked(total, G) /\ visits' = visits
    BY <1>1, Zenon DEF Reject
  <2> QED
    BY <2>1, CountsAfterRejection
<1>2. ASSUME NEW e \in Events, NEW G \in Frontiers, NEW F \in Frontiers,
             NEW list \in SlackLists, NEW fails \in BOOLEAN, Step(e, G, F, list, fails)
      PROVE  NoveltyInv'
  <2> DEFINE verdict == Answered(backend, Answered(backend, answer, G), F)
             whole == Feedback(anchor_verdict(G), verdict, F, keeps(e, fails), list)
             sent == filter(whole)
  <2>1. /\ total' = Marked(Accumulated(verdict, sent), G)
        /\ visits' = [f \in DOMAIN visits \cup {F} |-> IF f = F THEN Visits(F) + 1 ELSE visits[f]]
    BY <1>2, Zenon DEF Step
  <2>2. sent.Frontier.novelty = novel(F)
    BY NoveltySent, Zenon
  <2> HIDE DEF sent
  <2>3. /\ DOMAIN total' = Sums
        /\ total'.fresh = total.fresh + Cardinality(sent.PropertyProgress.fresh)
        /\ total'.novel = total.novel + (IF sent.Frontier.novelty THEN 1 ELSE 0)
    BY <2>1, CountsAfter
  <2>4. (IF sent.Frontier.novelty THEN 1 ELSE 0) = IF F \in DOMAIN visits THEN 0 ELSE 1
    <3>1. novel(F) <=> F \notin DOMAIN visits
      BY DEF novel, Visits
    <3> QED
      BY <2>2, <3>1, Zenon
  <2>5. DOMAIN visits' = DOMAIN visits \cup {F}
    BY <2>1
  <2>6. \A f \in DOMAIN visits' : visits'[f] \in Nat \ {0}
    BY <2>1 DEF Visits
  <2>7. /\ IsFiniteSet(DOMAIN visits')
        /\ Cardinality(DOMAIN visits')
              = Cardinality(DOMAIN visits) + (IF F \in DOMAIN visits THEN 0 ELSE 1)
    <3> DEFINE known == DOMAIN visits
    <3>1. IsFiniteSet(known)
      OBVIOUS
    <3>2. DOMAIN visits' = known \cup {F}
      BY <2>5
    <3> HIDE DEF known
    <3>3. /\ IsFiniteSet(known \cup {F})
          /\ Cardinality(known \cup {F}) = Cardinality(known) + (IF F \in known THEN 0 ELSE 1)
      BY <3>1, CountGrows
    <3>4. known = DOMAIN visits
      BY DEF known
    <3> QED
      BY <3>2, <3>3, <3>4, Zenon
  <2>8. total'.novel = Cardinality(DOMAIN visits')
    BY <2>3, <2>4, <2>7
  <2> QED
    BY <2>3, <2>6, <2>7, <2>8
<1>3. ASSUME NEW e \in Events, NEW G \in Frontiers, NEW F \in Frontiers, StepNative(e, G, F)
      PROVE  NoveltyInv'
  <2>1. visits' = visits
    BY <1>3, Zenon DEF StepNative
  <2> QED
    BY <1>0, <1>3, <2>1, NativeCounts
<1>4. CASE UNCHANGED vars
  BY <1>4 DEF vars, memory
<1> QED
  BY <1>1, <1>2, <1>3, <1>4 DEF Next

(***************************************************************************)
(* The fuzzer is told of a frontier as new once, however often a session   *)
(* comes back to it (step, _frontier_visit_counts).                        *)
(***************************************************************************)
THEOREM NovelOnce == Spec => []NoveltyCountsOnce
<1>1. CASE "Frontier" \in Channels
  <2>1. ASSUME Init PROVE NoveltyInv
    <3>1. total = NothingYet /\ visits = << >>
      BY <2>1, Zenon DEF Init
    <3> QED
      BY <3>1, FS_EmptySet DEF NoveltyInv, NothingYet, Sums
  <2>2. NoveltyInv /\ [Next]_vars => NoveltyInv'
    BY <1>1, NoveltyInductive
  <2>3. NoveltyInv => NoveltyCountsOnce
    BY DEF NoveltyInv, NoveltyCountsOnce
  <2> QED
    BY <2>1, <2>2, <2>3, PTL DEF Spec
<1>2. CASE "Frontier" \notin Channels
  <2>1. NoveltyCountsOnce
    BY <1>2 DEF NoveltyCountsOnce
  <2> QED
    BY <2>1, PTL
<1> QED
  BY <1>1, <1>2

-----------------------------------------------------------------------------
(***************************************************************************)
(* Slacks.  accumulate_constraints_slack goes through the constraints one  *)
(* by one: the sums after each of them.                                    *)
(***************************************************************************)
Tallies == [min : Int, violated : Nat, near : Nat]

Summing(g, list) ==
    g = [S \in SUBSET DOMAIN list |->
            IF S = {} THEN NoSlack ELSE accumulate(g[S \ {Max(S)}], list[Max(S)])]

RunningSums(p, list) ==
    /\ p[0] = NoSlack
    /\ \A k \in 1 .. Len(list) : p[k] = accumulate(p[k - 1], list[k])
    /\ Summary(list) = p[Len(list)]

LEMMA MaxIs ==
    ASSUME NEW S \in SUBSET Int, NEW x, IsGreatest(x, S)
    PROVE  Max(S) = x
  BY GreatestIs, Zenon DEF Max

LEMMA AccumulateTyped ==
    ASSUME NEW sum \in Tallies, NEW slack \in Int
    PROVE  accumulate(sum, slack) \in Tallies
  BY DEF accumulate, Tallies

LEMMA SummaryRuns ==
    ASSUME NEW list \in Seq(Int)
    PROVE  \E p : RunningSums(p, list)
  <1> DEFINE n == Len(list)
             iter == CHOOSE g : Summing(g, list)
  <1>1. n \in Nat /\ DOMAIN list = 1 .. n /\ \A k \in 1 .. n : list[k] \in Int
    BY LenProperties, ElementOfSeq
  <1>2. Summary(list) = iter[DOMAIN list]
    BY Zenon DEF Summary, FoldLeft, MapThenFoldSet, Summing
  <1>3. \E g : Summing(g, list)
    <2> DEFINE step == [z \in Tallies \X (1 .. n) |-> accumulate(z[1], list[z[2]])]
    <2>1. step \in [Tallies \X (1 .. n) -> Tallies]
      BY <1>1, AccumulateTyped
    <2>2. NoSlack \in Tallies
      BY DEF NoSlack, Tallies
    <2>3. CanFold(n, Tallies, NoSlack, step)
      <3> HIDE DEF n, step
      <3> QED
        BY <1>1, <2>1, <2>2, FoldExists
    <2>4. PICK g \in [SUBSET (1 .. n) -> Tallies] : FoldsTo(g, n, NoSlack, step)
      BY <2>3 DEF CanFold
    <2>5. ASSUME NEW S \in SUBSET DOMAIN list
          PROVE  g[S] = IF S = {} THEN NoSlack ELSE accumulate(g[S \ {Max(S)}], list[Max(S)])
      <3>1. CASE S = {}
        BY <2>4, <3>1 DEF FoldsTo
      <3>2. CASE S # {}
        <4>1. PICK x : IsGreatest(x, S)
          <5> HIDE DEF n
          <5> QED
            BY <1>1, <3>2, GreatestExists
        <4>2. Max(S) = x
          <5>1. S \in SUBSET Int
            BY <1>1
          <5> QED
            BY <4>1, <5>1, MaxIs
        <4>3. x \in 1 .. n /\ S \ {x} \in SUBSET (1 .. n)
          BY <1>1, <4>1 DEF IsGreatest
        <4>4. g[S] = step[<<g[S \ {x}], x>>]
          BY <1>1, <2>4, <4>1 DEF FoldsTo
        <4>5. g[S \ {x}] \in Tallies
          BY <4>3
        <4> QED
          BY <3>2, <4>2, <4>3, <4>4, <4>5
      <3> QED
        BY <3>1, <3>2
    <2>6. g = [S \in SUBSET DOMAIN list |->
                  IF S = {} THEN NoSlack ELSE accumulate(g[S \ {Max(S)}], list[Max(S)])]
      <3>1. g = [S \in SUBSET DOMAIN list |-> g[S]]
        BY <1>1
      <3> HIDE DEF step, n
      <3> QED
        BY <2>5, <3>1, Zenon
    <2> QED
      BY <2>6 DEF Summing
  <1>4. Summing(iter, list)
    BY <1>3, Zenon
  <1> HIDE DEF iter
  <1>5. iter[{}] = NoSlack
    BY <1>4, Zenon DEF Summing
  <1>6. ASSUME NEW k \in 1 .. n PROVE iter[1 .. k] = accumulate(iter[1 .. k - 1], list[k])
    <2>1. /\ 1 .. k \in SUBSET DOMAIN list /\ 1 .. k # {} /\ (1 .. k) \ {k} = 1 .. k - 1
          /\ 1 .. k \in SUBSET Int /\ IsGreatest(k, 1 .. k)
      <3>1. k \in Nat \ {0} /\ k <= n
        BY <1>1
      <3>2. 1 .. k \in SUBSET DOMAIN list
        BY <1>1, <3>1
      <3> QED
        BY <3>1, <3>2, WithoutLast
    <2>2. Max(1 .. k) = k
      BY <2>1, MaxIs
    <2>3. iter[1 .. k] = accumulate(iter[(1 .. k) \ {Max(1 .. k)}], list[Max(1 .. k)])
      BY <1>4, <2>1, Zenon DEF Summing
    <2> QED
      BY <2>1, <2>2, <2>3
  <1> DEFINE p == [k \in 0 .. n |-> iter[1 .. k]]
  <1>7. p[0] = NoSlack
    <2>1. 1 .. 0 = {}
      OBVIOUS
    <2> QED
      BY <1>1, <1>5, <2>1
  <1>8. ASSUME NEW k \in 1 .. Len(list) PROVE p[k] = accumulate(p[k - 1], list[k])
    <2>1. p[k] = iter[1 .. k] /\ p[k - 1] = iter[1 .. k - 1]
      BY <1>1
    <2> QED
      BY <1>6, <2>1
  <1>9. Summary(list) = p[Len(list)]
    BY <1>1, <1>2
  <1> HIDE DEF p
  <1> QED
    BY <1>7, <1>8, <1>9 DEF RunningSums

(***************************************************************************)
(* Without a violated constraint the minimum so far is the least slack so  *)
(* far: none is negative, so -1 stands for "none yet" and nothing else.    *)
(***************************************************************************)
LeastUpTo(m, list, k) ==
    /\ m >= 0
    /\ \E i \in 1 .. k : list[i] = m
    /\ \A i \in 1 .. k : m <= list[i]

SumsLeast(sum, list, k) ==
    sum \in Tallies /\ (sum.violated = 0 => IF k = 0 THEN sum.min = -1 ELSE LeastUpTo(sum.min, list, k))

LEMMA StaysLeast ==
    ASSUME NEW list \in Seq(Int), NEW k \in 1 .. Len(list), NEW sum, SumsLeast(sum, list, k - 1)
    PROVE  SumsLeast(accumulate(sum, list[k]), list, k)
  <1>1. Len(list) \in Nat /\ \A i \in 1 .. Len(list) : list[i] \in Int
    BY LenProperties, ElementOfSeq
  <1>2. sum \in Tallies
    BY DEF SumsLeast
  <1> DEFINE new == accumulate(sum, list[k])
  <1>3. new \in Tallies
    BY <1>1, <1>2, AccumulateTyped
  <1>4. ASSUME new.violated = 0 PROVE LeastUpTo(new.min, list, k)
    <2>1. /\ sum.violated = 0 /\ list[k] >= 0
          /\ new.min = IF sum.min < 0 \/ list[k] < sum.min THEN list[k] ELSE sum.min
      BY <1>1, <1>2, <1>4 DEF accumulate, Tallies
    <2> HIDE DEF new
    <2>2. CASE k = 1
      <3>1. new.min = list[k]
        BY <2>1, <2>2 DEF SumsLeast
      <3> QED
        BY <1>1, <2>1, <2>2, <3>1 DEF LeastUpTo
    <2>3. CASE k # 1
      <3>1. LeastUpTo(sum.min, list, k - 1)
        BY <2>1, <2>3 DEF SumsLeast
      <3>2. sum.min \in Int /\ sum.min >= 0
        BY <1>2, <3>1 DEF Tallies, LeastUpTo
      <3>3. ASSUME NEW i \in 1 .. k, i # k PROVE i \in 1 .. k - 1
        BY <1>1, <3>3
      <3>4. \A i \in 1 .. k : new.min <= list[i]
        BY <1>1, <2>1, <3>1, <3>2, <3>3 DEF LeastUpTo
      <3>5. \E i \in 1 .. k : list[i] = new.min
        BY <1>1, <2>1, <3>1, <3>2 DEF LeastUpTo
      <3>6. new.min >= 0
        BY <1>1, <2>1, <3>2
      <3> QED
        BY <3>4, <3>5, <3>6 DEF LeastUpTo
    <2> QED
      BY <2>2, <2>3
  <1> HIDE DEF new
  <1>5. SumsLeast(new, list, k)
    BY <1>3, <1>4 DEF SumsLeast
  <1> QED
    BY <1>5 DEF new

LEMMA SummaryLeast ==
    ASSUME NEW list \in Seq(Int), list # << >>, Summary(list).violated = 0
    PROVE  Least(Summary(list).min, list)
  <1>1. PICK p : RunningSums(p, list)
    BY SummaryRuns
  <1>2. Len(list) \in Nat /\ Len(list) # 0 /\ DOMAIN list = 1 .. Len(list)
    BY LenProperties, EmptySeq
  <1> DEFINE T == {k \in Nat : k <= Len(list) => SumsLeast(p[k], list, k)}
  <1>3. 0 \in T
    <2>1. SumsLeast(NoSlack, list, 0)
      BY DEF SumsLeast, NoSlack, Tallies
    <2> QED
      BY <1>1, <2>1 DEF RunningSums
  <1>4. ASSUME NEW k \in Nat, k \in T PROVE k + 1 \in T
    <2> SUFFICES ASSUME k + 1 <= Len(list) PROVE SumsLeast(p[k + 1], list, k + 1)
      OBVIOUS
    <2>1. SumsLeast(p[k], list, k) /\ k + 1 \in 1 .. Len(list) /\ (k + 1) - 1 = k
      BY <1>2, <1>4
    <2>2. p[k + 1] = accumulate(p[k], list[k + 1])
      BY <1>1, <2>1 DEF RunningSums
    <2> QED
      BY <2>1, <2>2, StaysLeast
  <1>5. Nat \subseteq T
    <2> HIDE DEF T
    <2> QED
      BY <1>3, <1>4, SetInduction
  <1>6. SumsLeast(Summary(list), list, Len(list))
    BY <1>1, <1>2, <1>5 DEF RunningSums
  <1> QED
    BY <1>2, <1>6 DEF SumsLeast, LeastUpTo, Least

SentZone(before, verdict, F, exact, list, zone) ==
    /\ exact \in BOOLEAN
    /\ zone = filter(Feedback(before, verdict, F, exact, list)).Zone
    /\ zone.exact

ZoneOf(zone, list) == zone.violated = Summary(list).violated /\ zone.min = Summary(list).min

LEMMA ZoneSent ==
    ASSUME NEW before, NEW verdict, NEW F, NEW exact, NEW list, NEW zone,
           SentZone(before, verdict, F, exact, list, zone)
    PROVE  ZoneOf(zone, list)
  <1>0. /\ exact \in BOOLEAN /\ zone.exact
        /\ zone = filter(Feedback(before, verdict, F, exact, list)).Zone
    BY DEF SentZone
  <1>1. CASE "Zone" \in Channels
    <2>1. zone = Feedback(before, verdict, F, exact, list).Zone
      BY <1>0, <1>1, Zenon DEF filter, Feedback
    <2>2. zone.exact = exact
      BY <2>1 DEF Feedback
    <2> QED
      BY <1>0, <2>1, <2>2 DEF Feedback, ZoneOf
  <1>2. CASE "Zone" \notin Channels
    <2>1. zone = Silent.Zone
      BY <1>0, <1>2 DEF filter, Feedback
    <2> QED
      BY <1>0, <2>1 DEF Silent
  <1> QED
    BY <1>1, <1>2

(***************************************************************************)
(* Without a violated constraint the slack a frame reports is the least    *)
(* one, in whatever order the constraints come                             *)
(* (accumulate_constraints_slack).                                         *)
(***************************************************************************)
THEOREM ReportsTheLeastSlack == Spec => []SlackIsLeast
<1>1. Init => SlackIsLeast
  BY DEF Init, SlackIsLeast, Frame, Silent
<1>2. SlackIsLeast /\ [Next]_vars => SlackIsLeast'
  <2> SUFFICES ASSUME SlackIsLeast, [Next]_vars PROVE SlackIsLeast'
    OBVIOUS
  <2>1. ASSUME NEW e \in Events, NEW G \in Frontiers, Reject(e, G) PROVE SlackIsLeast'
    BY <2>1 DEF Reject, SlackIsLeast
  <2>2. ASSUME NEW e \in Events, NEW G \in Frontiers, NEW F \in Frontiers,
               NEW list \in SlackLists, NEW fails \in BOOLEAN, Step(e, G, F, list, fails)
        PROVE  SlackIsLeast'
    <3> DEFINE verdict == Answered(backend, Answered(backend, answer, G), F)
               sent == filter(Feedback(anchor_verdict(G), verdict, F, keeps(e, fails), list))
    <3>1. frame' = Frame(next_event_index, verdict, sent) /\ slacks' = list
      BY <2>2, Zenon DEF Step
    <3>2. frame'.feedback.Zone = sent.Zone
      BY <3>1, Zenon DEF Frame
    <3>3. keeps(e, fails) \in BOOLEAN
      BY Zenon DEF keeps
    <3>4. SUFFICES ASSUME sent.Zone.exact, sent.Zone.violated = 0, list # << >>
                   PROVE  Least(sent.Zone.min, list)
      BY <3>1, <3>2, Zenon DEF SlackIsLeast
    <3>5. /\ sent.Zone.violated = Summary(list).violated
          /\ sent.Zone.min = Summary(list).min
      <4>1. SentZone(anchor_verdict(G), verdict, F, keeps(e, fails), list, sent.Zone)
        BY <3>3, <3>4, Zenon DEF SentZone
      <4> HIDE DEF sent, verdict
      <4>2. ZoneOf(sent.Zone, list)
        BY <4>1, ZoneSent, Zenon
      <4> QED
        BY <4>2, Zenon DEF ZoneOf
    <3> HIDE DEF sent, verdict
    <3>6. list \in Seq(Int)
      BY SessionAssumption
    <3> QED
      BY <3>4, <3>5, <3>6, SummaryLeast, Zenon
  <2>3. ASSUME NEW e \in Events, NEW G \in Frontiers, NEW F \in Frontiers, StepNative(e, G, F)
        PROVE  SlackIsLeast'
    <3>1. frame' = Frame(next_event_index, Answered(backend, Answered(backend, answer, G), F),
                         Silent)
      BY <2>3, Zenon DEF StepNative
    <3> QED
      BY <3>1 DEF SlackIsLeast, Frame, Silent
  <2>4. CASE UNCHANGED vars
    BY <2>4, Zenon DEF vars, memory, SlackIsLeast
  <2> QED
    BY <2>1, <2>2, <2>3, <2>4, Zenon DEF Next
<1> QED
  BY <1>1, <1>2, PTL DEF Spec

=============================================================================
