------------------------------ MODULE MCPeople ------------------------------
(* Values of the constants of Accounts and of Organization for TLC, in one     *)
(* run: a user's credentials and an organization's people share nothing the    *)
(* modules model, so a behaviour moves one of them only.  So that one group of *)
(* permutations serves both, the run gives them the same model values: the     *)
(* API requests of one are those of the other, and the jobs of the first are   *)
(* named by the users other than the founder of the second.                    *)
EXTENDS Accounts, MCOrganization

organizationVars == vars

VARIABLE moves

BothInit ==
    /\ AccountsInit /\ Init
    /\ moves \in {"accounts", "organization"}
    /\ moves = "accounts" => organization = "none"

BothNext ==
    /\ UNCHANGED moves
    /\ \/ moves = "accounts" /\ AccountsNext /\ UNCHANGED organizationVars
       \/ moves = "organization" /\ Next /\ UNCHANGED accountVars

BothSpec == BothInit /\ [][BothNext]_<<accountVars, organizationVars, moves>>
=============================================================================
