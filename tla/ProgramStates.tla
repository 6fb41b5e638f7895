---------------------------- MODULE ProgramStates ----------------------------
(***************************************************************************)
(* The pure state functions of a Program (kernel/program_state.py): the    *)
(* lifecycle graph, the WorkItem states, and the snapshot a Program Event  *)
(* carries.  Objective, constraints and the other payload fields never     *)
(* decide a transition and are left out; the order of WorkItems is not     *)
(* kept.                                                                   *)
(***************************************************************************)
EXTENDS Naturals

CONSTANT WorkItems      \* work item identities

Statuses == {"created", "active", "blocked", "completion_pending",
             "completed", "failed", "cancelled"}

Terminal == {"completed", "failed", "cancelled"}

(* The statuses that may follow a status. *)
Allowed == [s \in Statuses |->
    CASE s = "created"            -> {"active", "cancelled"}
      [] s = "active"             -> {"blocked", "completion_pending", "failed", "cancelled"}
      [] s = "blocked"            -> {"active", "failed", "cancelled"}
      [] s = "completion_pending" -> {"active", "blocked", "completed", "failed", "cancelled"}
      [] s \in Terminal           -> {}]

(* The statuses in which WorkItems may be added or satisfied. *)
WorkMutable == {"created", "active", "blocked"}

Snapshots == [revision : Nat,
              status   : Statuses,
              work     : [WorkItems -> {"none", "open", "satisfied"}]]

NewProgram == [revision |-> 0, status |-> "created",
               work |-> [w \in WorkItems |-> "none"]]

(* replace(program, ..., revision=program.revision + 1) *)
WithStatus(s, target)  == [revision |-> s.revision + 1, status |-> target, work |-> s.work]
WithWork(s, w, state)  == [revision |-> s.revision + 1, status |-> s.status,
                           work |-> [s.work EXCEPT ![w] = state]]
Revised(s)             == WithStatus(s, s.status)

=============================================================================
