--------------------------- MODULE FormulaCompiler ----------------------------
(***************************************************************************)
(* The compiler of MightyPPL, as the monitors use it (build_ta_from_main): *)
(* a formula is rewritten into negation normal form, its propositions and  *)
(* temporal subformulas are numbered, every temporal subformula becomes a  *)
(* tester automaton, and the automaton of the formula is their product,    *)
(* projected to the propositions.                                          *)
(***************************************************************************)
EXTENDS NegationNormalForm, TesterAutomata

(***************************************************************************)
(* Numbering: equal subformulas share a number, and "repeats" has those of *)
(* the temporal ones that are met more than once.                          *)
(***************************************************************************)
FirstMet(atoms) ==
    SelectSeq([i \in DOMAIN atoms |-> <<atoms[i], \A j \in 1 .. i - 1 : atoms[j] # atoms[i]>>],
              LAMBDA a : a[2])

Numbering(f) ==
    LET met == FirstMet(Atoms(f)) IN [id \in DOMAIN met |-> met[id][1]]

idOf(numbering, f) == CHOOSE id \in DOMAIN numbering : numbering[id] = f

repeats(f) ==
    LET atoms == Atoms(f)
    IN  {atoms[i] : i \in {j \in DOMAIN atoms : IsTemporal(atoms[j])
                                    /\ \E k \in 1 .. j - 1 : atoms[k] = atoms[j]}}

(***************************************************************************)
(* The labels of a formula in negation normal form.  Of a subformula that  *)
(* other subformulas ask as well it cannot be said that it is not asked.   *)
(***************************************************************************)
Asked(all, id) == {v \in all : id \in v}

\* Fault: a subformula that is met twice is treated like any other.
TemporalLabel_Unshared(asked, all, shared) == Label(asked, all \ asked, asked)

TemporalLabel(asked, all, shared) ==
    Label(asked, IF shared THEN all ELSE all \ asked, asked)

AndLabel(l, r) == Label(l.overline \cap r.overline, l.star \cap r.star, l.hat \cap r.hat)

OrLabel(l, r) ==
    Label(l.overline \cup r.overline, l.star \cap r.star,
          (l.hat \cap tilde(r)) \cup (r.hat \cap tilde(l))
              \cup (l.overline \cap r.overline \cap l.star \cap r.star))

NotLabel(l, all) == Label(all \ l.overline, l.star, all \ l.hat)

RECURSIVE GetBDD(_, _, _, _)
GetBDD(f, numbering, shared, all) ==
    LET bits == Asked(all, idOf(numbering, f))
        left == GetBDD(f.left, numbering, shared, all)
        right == GetBDD(f.right, numbering, shared, all)
    IN  CASE f.rule = "true" -> AtomTrue(all)
          [] f.rule = "false" -> AtomFalse(all)
          [] f.rule = "Idfr" -> Label(bits, all, bits)
          [] f.rule = "Not" -> NotLabel(GetBDD(f.sub, numbering, shared, all), all)
          [] f.rule = "And" -> AndLabel(left, right)
          [] f.rule = "Or" -> OrLabel(left, right)
          [] IsTemporal(f) -> TemporalLabel(bits, all, f \in shared)

(***************************************************************************)
(* The greatest common divisor of the constants, or 0.                     *)
(***************************************************************************)
Constants(numbering) ==
    {f.interval.bound : f \in {g \in Range(numbering) :
                                  IsTemporal(g) /\ g.interval.kind # "untimed"}} \ {0}

gcd(bounds) ==
    LET divides(n) == \A b \in bounds : b % n = 0
    IN  IF bounds = {} THEN 0 ELSE Max({n \in 1 .. Max(bounds) : divides(n)})

(***************************************************************************)
(* The components: the formula holds at the first event and is not asked   *)
(* again, time diverges, every asked subformula holds, and M, which allows *)
(* everything.                                                             *)
(***************************************************************************)
varphi(label) == Tester("s0", {"s1"}, {Free("s0", "s1", label.hat), Free("s1", "s1", label.star)})

\* Fault: it accepts where it waits for time to pass.
time_divergence_ta_Idle(unit, finite, all) ==
    Tester("ell_0", {"ell_0", "ell_1"},
           {Guarded("ell_1", "ell_1", At("<", unit), Keep, all),
            Guarded("ell_0", "ell_1", {}, Restart, all),
            Guarded("ell_1", "ell_0", At(">=", unit), Keep, all)})

time_divergence_ta(unit, finite, all) ==
    Tester("ell_0", IF finite THEN {"ell_0", "ell_1"} ELSE {"ell_0"},
           {Guarded("ell_1", "ell_1", At("<", unit), Keep, all),
            Guarded("ell_0", "ell_1", {}, Restart, all),
            Guarded("ell_1", "ell_0", At(">=", unit), Keep, all)})

model(all) == Tester("s0", {"s0"}, {Free("s0", "s0", all)})

build_ta_from_atom(f, finite, numbering, shared, all) ==
    LET label(g) == GetBDD(g, numbering, shared, all)
        r == label(f).overline
        nr == all \ r
        i == f.interval
        w == f.weak
    IN  CASE f.rule = "F" -> build_finally(i, w, finite, r, nr, all, label(f.sub))
          [] f.rule = "G" -> build_globally(i, w, finite, r, nr, all, label(f.sub))
          [] f.rule = "O" -> build_once(i, w, finite, r, nr, all, label(f.sub))
          [] f.rule = "H" -> build_historically(i, w, finite, r, nr, all, label(f.sub))
          [] f.rule = "U" -> build_until(i, w, finite, r, nr, label(f.left), label(f.right))
          [] f.rule = "R" -> build_release(i, w, finite, r, nr, label(f.left), label(f.right))
          [] f.rule = "S" -> build_since(i, w, finite, r, nr, label(f.left), label(f.right))
          [] f.rule = "T" -> build_trigger(i, w, finite, r, nr, label(f.left), label(f.right))

\* The temporal subformulas, each once.
CollectTemporal(numbering) == SelectSeq(numbering, IsTemporal)

Components(f, finite) ==
    LET numbering == Numbering(f)
        all == SUBSET DOMAIN numbering
        shared == repeats(f)
        temporals == CollectTemporal(numbering)
    IN  <<varphi(GetBDD(f, numbering, shared, all)),
          time_divergence_ta(gcd(Constants(numbering)), finite, all)>>
        \o [k \in DOMAIN temporals |->
               build_ta_from_atom(temporals[k], finite, numbering, shared, all)]
        \o <<model(all)>>

(***************************************************************************)
(* TAwithBDDEdges::intersection.  A location of the product has one of     *)
(* every component, and the component that is waited for: it has to accept *)
(* before the product waits for the next.                                  *)
(***************************************************************************)
Accepting(components, at, k) == at[k] \in components[k].accept

\* Fault: once a component accepts, the product goes round without the others.
Waited_Wrapping(components, finite, at, i) ==
    IF finite \/ ~Accepting(components, at, i) THEN i ELSE 1

Waited(components, finite, at, i) ==
    LET missing == {k \in i .. Len(components) : ~Accepting(components, at, k)}
    IN  IF finite THEN i ELSE IF missing = {} THEN 1 ELSE Min(missing)

\* One edge of every component, as long as their labels have a valuation in common.
Together(components, at) ==
    LET with(chosen, k) ==
          {<<Append(c[1], e), c[2] \cap e.label>> :
              c \in chosen, e \in {d \in components[k].edges : d.from = at[k]}}
        start == {<< <<e>>, e.label>> : e \in {d \in components[1].edges : d.from = at[1]}}
        possible(chosen) == {c \in chosen : c[2] # {}}
    IN  FoldLeft(LAMBDA chosen, k : possible(with(chosen, k)), possible(start),
                 [k \in 1 .. Len(components) - 1 |-> k + 1])

\* The clock of component k is clock k of the product.
ProductEdge(components, finite, l, chosen) ==
    LET edges == chosen[1]
    IN  [guard |-> UNION {{[c EXCEPT !.clock = k] : c \in edges[k].guard} : k \in DOMAIN edges},
         reset |-> {k \in DOMAIN edges : edges[k].reset # {}},
         label |-> chosen[2],
         to |-> [at |-> [k \in DOMAIN edges |-> edges[k].to],
                 i |-> Waited(components, finite, l.at, l.i)]]

EdgesFrom(components, finite, l) ==
    {ProductEdge(components, finite, l, chosen) : chosen \in Together(components, l.at)}

RECURSIVE Explore(_, _, _, _)
Explore(components, finite, fringe, edges) ==
    LET found == [l \in fringe |-> EdgesFrom(components, finite, l)]
        known == edges @@ found
        next == {e.to : e \in UNION Range(found)} \ DOMAIN known
    IN  IF next = {} THEN known ELSE Explore(components, finite, next, known)

accepting(components, finite, l) ==
    IF finite THEN \A k \in DOMAIN components : Accepting(components, l.at, k)
    ELSE l.i = 1 /\ Accepting(components, l.at, 1)

intersection(components, finite) ==
    LET initial == [at |-> [k \in DOMAIN components |-> components[k].initial], i |-> 1]
        edges == Explore(components, finite, {initial}, <<>>)
    IN  [initial |-> initial, edges |-> edges, clocks |-> DOMAIN components,
         accept |-> {l \in DOMAIN edges : accepting(components, finite, l)}]

(***************************************************************************)
(* A label of the projection is a set of letters, the propositions by name.*)
(***************************************************************************)
projection(numbering, A) ==
    LET letter(v) == {numbering[id].name : id \in {n \in v : ~IsTemporal(numbering[n])}}
        projected(e) == [e EXCEPT !.label = {letter(v) : v \in @}]
    IN  [A EXCEPT !.edges = [l \in DOMAIN @ |-> {projected(e) : e \in @[l]}]]

compile_one_formula(formula, finite) ==
    LET f == visitMain(formula)
    IN  projection(Numbering(f), intersection(Components(f, finite), finite))
==============================================================================
