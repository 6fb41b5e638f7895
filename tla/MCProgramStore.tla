---------------------------- MODULE MCProgramStore ----------------------------
(* TLC instance of ProgramStore: one caller that asks for changes of every  *)
(* kind, and one that competes with it for the first of them.              *)
EXTENDS ProgramStore, TLC

CONSTANTS w1, r1, r2

To(s) == [kind |-> "transition", target |-> s]
Kind(k) == [kind |-> k]

AnyChange ==
    {Kind("create"), Kind("revise"), Kind("certify"), Kind("reject")}
    \cup {To(s) : s \in {"active", "blocked", "completion_pending"}}
    \cup {[kind |-> k, item |-> w1] : k \in {"add_work", "satisfy_work"}}

MCChanges == r1 :> AnyChange @@ r2 :> {Kind("create"), To("active")}
===============================================================================
