-------------------------- MODULE ProgramLifecycle --------------------------
(***************************************************************************)
(* What a durable Program promises to whoever looks at it from outside:    *)
(* it is created once and never disappears, its revision grows by exactly  *)
(* one per change, its status follows the lifecycle graph (so a terminal   *)
(* status is kept for ever), a WorkItem is opened once and satisfied once. *)
(* Crashes, retries, competing writers and damaged rows are not visible    *)
(* here: ProgramStore implements this specification.                       *)
(***************************************************************************)
EXTENDS ProgramStates

CONSTANT Programs     \* program identities

VARIABLE program      \* program[p]: the durable snapshot of p, or Absent

Absent == [NewProgram EXCEPT !.status = "absent"]

TypeOK == program \in [Programs -> Snapshots \cup {Absent}]

Init == program = [p \in Programs |-> Absent]

-----------------------------------------------------------------------------

Create(p) ==
    /\ program[p] = Absent
    /\ program' = [program EXCEPT ![p] = NewProgram]

Transition(p) ==
    /\ program[p] # Absent
    /\ \E target \in Allowed[program[p].status] :
          program' = [program EXCEPT ![p] = WithStatus(@, target)]

ChangeWork(p) ==
    /\ program[p].status \in WorkMutable
    /\ \E w \in WorkItems :
          \/ program[p].work[w] = "none" /\ program' = [program EXCEPT ![p] = WithWork(@, w, "open")]
          \/ program[p].work[w] = "open" /\ program' = [program EXCEPT ![p] = WithWork(@, w, "satisfied")]

(* A revision that leaves status and WorkItems alone (an Operation link). *)
Revise(p) ==
    /\ program[p] # Absent
    /\ program' = [program EXCEPT ![p] = Revised(@)]

Next == \E p \in Programs : Create(p) \/ Transition(p) \/ ChangeWork(p) \/ Revise(p)

Spec == Init /\ [][Next]_program
=============================================================================
