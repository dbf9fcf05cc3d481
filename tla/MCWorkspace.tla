----------------------------- MODULE MCWorkspace -----------------------------
(* Values of the constants of Workspace and of EmailVerification for TLC, in   *)
(* one run: the two share nothing, so a behaviour moves one of them only.       *)
EXTENDS Workspace, EmailVerification

MCActors == {UserActor("ann", "ADMIN"), UserActor("bob", "MEMBER"),
             KeyActor("ci", {"comment:create", "label:manage", "project:create", "project:update"})}

Symmetry == Permutations(Requests) \cup Permutations(Sendings)

VARIABLE moves

Init == WorkspaceInit /\ VerificationInit /\ moves \in {"workspace", "verification"}

Next ==
    /\ UNCHANGED moves
    /\ \/ moves = "workspace" /\ WorkspaceNext /\ UNCHANGED verification
       \/ moves = "verification" /\ VerificationNext /\ UNCHANGED vars

Spec == Init /\ [][Next]_<<vars, verification, moves>>

TypeOK == WorkspaceTypeOK /\ VerificationTypeOK
=============================================================================
