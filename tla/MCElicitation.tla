--------------------------- MODULE MCElicitation ---------------------------
(***************************************************************************)
(* Constants of the TLC run of Elicitation.                                *)
(***************************************************************************)
EXTENDS Elicitation, TLC

CONSTANTS linear, other, read, write

Interactively(scopes, optional) ==
    [token |-> TRUE, authorize_url |-> "valid", redirect_uri |-> TRUE,
     scopes |-> scopes, optional_scopes |-> optional]

NonInteractive ==
    [token |-> TRUE, authorize_url |-> "unset", redirect_uri |-> FALSE,
     scopes |-> {read}, optional_scopes |-> {}]

\* linear as deployment.yaml has it, and a provider that can only be bootstrapped.
Deployed == linear :> Interactively({read}, {write}) @@ other :> NonInteractive

\* Other scopes for linear, and the other provider without a scope model.
Widened == linear :> Interactively({read, write}, {write}) @@ other :> Interactively({}, {})

\* AUTHORIZE_URL without REDIRECT_URI: no pod comes up with this.
Broken == linear :> [Interactively({read}, {write}) EXCEPT !.redirect_uri = FALSE]

\* AUTHORIZE_URL without its scheme, say: the pods come up and the page offers it.
Mistyped == linear :> [Interactively({read}, {}) EXCEPT !.authorize_url = "malformed"]

SomeEnvs == {Deployed, Widened, Broken, Mistyped}

ElicitationSymmetry == Permutations(Flow) \cup Permutations(Delivery)
=============================================================================
