-------------------------- MODULE ContextSelection --------------------------
(***************************************************************************)
(* What ContextCompiler.compile and ContextRepository.recall choose under  *)
(* a budget (kernel/context.py), and what they ought to choose.            *)
(*                                                                         *)
(* A candidate is an address, the class it is shown under and the units    *)
(* its entry adds to the canonical text of the Context.  Addresses are     *)
(* numbers, for the order of the strings they stand for.                   *)
(***************************************************************************)
EXTENDS Naturals, Sequences, FiniteSets, FiniteSetsExt, SequencesExt

CONSTANTS
    Envelope,        \* units of a Context without sources
    Samples,         \* candidates, of different addresses, to try the algorithms on
    Budgets,         \* the budgets callers compile for
    RecallLimits     \* the limits they recall under: [items, units]

ASSUME LimitsAreNat ==
    /\ Envelope \in Nat /\ Budgets \subseteq Nat \ {0}
    /\ RecallLimits \subseteq [items : Nat \ {0}, units : Nat]

(* _PRIORITY_ORDER *)
ClassRank == [host_control |-> 0, current_program |-> 1, current_evidence |-> 2,
              recent_interaction |-> 3, recalled_history |-> 4, advisory_memory |-> 5]

Classes == DOMAIN ClassRank
MandatoryClasses == {"host_control", "current_program"}

Candidates == [ref : Nat, class : Classes, units : Nat]

ASSUME SamplesDiffer ==
    /\ Samples \subseteq Candidates /\ IsFiniteSet(Samples)
    /\ \A c, d \in Samples : c.ref = d.ref => c = d

Before(a, b) ==
    \/ ClassRank[a.class] < ClassRank[b.class]
    \/ a.class = b.class /\ a.ref < b.ref

(* _sort_sources *)
InOrder(S) ==
    [i \in 1 .. Cardinality(S) |-> CHOOSE c \in S : Cardinality({d \in S : Before(d, c)}) = i - 1]

Units(S) == Envelope + FoldSet(LAMBDA c, sum : c.units + sum, 0, S)

Mandatory(S) == {c \in S : c.class \in MandatoryClasses}

-----------------------------------------------------------------------------
(* The algorithms *)

Nothing == [shown |-> <<>>, used |-> Envelope, left |-> {}, tries |-> 0]

Show(chosen, c) == [chosen EXCEPT !.shown = Append(@, c), !.used = @ + c.units]
Leave(chosen, c) == [chosen EXCEPT !.left = @ \cup {c}]

(* Mutant of Select: what follows the first that does not fit is left, too. *)
SelectPrefix(S, budget) ==
    FoldLeft(LAMBDA chosen, c :
                 IF chosen.left = {} /\ chosen.used + c.units <= budget
                 THEN Show(chosen, c) ELSE Leave(chosen, c),
             Nothing, InOrder(S))

(* consider_persisted and the loops around it: in order, whatever fits. *)
Select(S, budget) ==
    FoldLeft(LAMBDA chosen, c :
                 IF chosen.used + c.units <= budget THEN Show(chosen, c) ELSE Leave(chosen, c),
             Nothing, InOrder(S))

(* recall: the same under limits of its own; a candidate that is looked at  *)
(* and does not fit has used up one of the items that may be.               *)
Recall(S, limits) ==
    FoldLeft(LAMBDA chosen, c :
                 IF chosen.tries < limits.items
                 THEN LET tried == [chosen EXCEPT !.tries = @ + 1]
                      IN  IF tried.used + c.units <= limits.units THEN Show(tried, c) ELSE Leave(tried, c)
                 ELSE Leave(chosen, c),
             Nothing, InOrder(S))

(* compile: what is recalled is chosen first, then all that is to be shown. *)
Chosen(current, history, limits, budget) ==
    LET back == Recall(history, [limits EXCEPT !.units = IF @ < budget THEN @ ELSE budget])
        all  == Select(current \cup ToSet(back.shown), budget)
    IN  [shown |-> all.shown, left |-> all.left \cup back.left]

-----------------------------------------------------------------------------
(* What they ought to choose *)

(* S is preferred to T: the first candidate they differ in is in S. *)
Preferred(S, T) == \E c \in S \ T : \A d \in T \ S : Before(c, d)

(* The best of all choices that keep what is mandatory and fit. *)
IsBest(S, All, budget) ==
    LET Fits(T) == Mandatory(All) \subseteq T /\ Units(T) <= budget
    IN  /\ Fits(S)
        /\ \A T \in SUBSET All : T # S /\ Fits(T) => Preferred(S, T)

(* The first of them, in order. *)
First(n, S) == {c \in S : Cardinality({d \in S : Before(d, c)}) < n}

(* What is chosen is the best choice under the budget: the mandatory        *)
(* sources, then of each pair of choices that fit the one with the more     *)
(* authoritative source; and of the history, what was the best under the    *)
(* limits of recall.  Nothing that was asked for goes unmentioned.          *)
BestChoice(current, history, limits, budget) ==
    LET chosen == Chosen(current, history, limits, budget)
        shown  == ToSet(chosen.shown)
        units  == IF limits.units < budget THEN limits.units ELSE budget
    IN  /\ \E back \in SUBSET history :
              /\ history # {} => IsBest(back, First(limits.items, history), units)
              /\ IsBest(shown, current \cup back, budget)
        /\ chosen.left = (current \cup history) \ shown

(* It is so for every request that is not refused for its budgets. *)
ChoosesBest ==
    LET Past == {c \in Samples : c.class = "recalled_history"} IN
    \A current \in SUBSET (Samples \ Past), history \in SUBSET Past,
       limits \in RecallLimits, budget \in Budgets :
        (Units(Mandatory(current)) <= budget /\ (history # {} => Envelope <= limits.units))
            => BestChoice(current, history, limits, budget)
=============================================================================
