---------------------------- MODULE MCTokenVault ----------------------------
(***************************************************************************)
(* Constants of the TLC runs of TokenVault.                                *)
(***************************************************************************)
EXTENDS VaultRefinement, TLC

\* One process serves everything.
OneProc == [t \in Task |-> CHOOSE v \in Proc : TRUE]

\* Two processes during a rollout: the requests are spread over them.
Spread ==
    CHOOSE h \in [Task -> Proc] :
        /\ \A v \in Proc : h[v] = v
        /\ Cardinality({h[r] : r \in Request}) = (IF Cardinality(Request) > 1 THEN 2 ELSE 1)

AllOps == {"proxy", "authz", "callback", "bootstrap"}
AllFaults == {"sigterm", "disconnect", "sql", "response_lost"}

RequestSymmetry == Permutations(Request)
=============================================================================
