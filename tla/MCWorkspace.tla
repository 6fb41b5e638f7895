----------------------------- MODULE MCWorkspace -----------------------------
(* Two paths, whose contents are in one directory and in another, and an   *)
(* imported bundle and Evidence with the same bytes.                       *)
EXTENDS Workspace, TLC

CONSTANTS c1, c2, c3, s1, s2, a, b, b1

Placement == c1 :> s1 @@ c2 :> s1 @@ c3 :> s2

MCPaths == <<a, b>>

MCLife == a :> <<c1, c3>> @@ b :> <<c2>>

MCHolds == b1 :> {c3}

=============================================================================
