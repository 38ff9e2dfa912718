------------------------------ MODULE FrontDoor ------------------------------
(***************************************************************************)
(* What the vault offers to a browser: the providers it is configured      *)
(* with (config.rs), the scopes its page lets the user tick (ui.rs) and    *)
(* the scopes it asks the provider for (oauth.rs).  The last two read the  *)
(* configuration each in their own way, and not in the same pod when one   *)
(* rollout passes between page and click.                                  *)
(*                                                                         *)
(* Comma-separated lists are sets; the client credentials of a provider    *)
(* are only set or not, and of its AUTHORIZE_URL it matters whether it     *)
(* parses: from_env keeps it as it is, and only start looks.               *)
(***************************************************************************)
CONSTANTS
    Provider,   \* names that PROVIDER_*_UPSTREAM_URL may bring
    Scope       \* names of OAuth scopes

Url == {"unset", "valid", "malformed"}

\* The environment, where it names a provider: are TOKEN_URL, CLIENT_ID and
\* CLIENT_SECRET all set, what is AUTHORIZE_URL, is REDIRECT_URI set, and the lists.
ProviderEnv ==
    [token : BOOLEAN, authorize_url : Url, redirect_uri : BOOLEAN,
     scopes : SUBSET Scope, optional_scopes : SUBSET Scope]

TokenConfig ==
    [authorize_url : Url, redirect_uri : BOOLEAN,
     scopes : SUBSET Scope, optional_scopes : SUBSET Scope]

\* Mutant: whoever sets AUTHORIZE_URL is taken to have set REDIRECT_URI.
CompleteWithoutReturn(e) == e.token

Complete(e) == e.token /\ (e.authorize_url # "unset" => e.redirect_uri)

\* from_env returns a configuration; otherwise the process ends.
Accepts(env) == DOMAIN env # {} /\ \A p \in DOMAIN env : Complete(env[p])

\* Without AUTHORIZE_URL, REDIRECT_URI and the default scopes are left out.
TokenOf(e) ==
    [authorize_url |-> e.authorize_url,
     redirect_uri |-> e.authorize_url # "unset" /\ e.redirect_uri,
     scopes |-> IF e.authorize_url = "unset" THEN {} ELSE e.scopes,
     optional_scopes |-> e.optional_scopes]

FromEnv(env) == [p \in DOMAIN env |-> TokenOf(env[p])]

\* The page has a form or a link for the provider.
Interactive(config, p) == p \in DOMAIN config /\ config[p].authorize_url # "unset"

\* start goes ahead: it can send the user away, and knows where to.
Startable(config, p) == Interactive(config, p) /\ config[p].redirect_uri

\* What start lets a query name.
Allowed(token) == token.scopes \cup token.optional_scopes

\* The checkboxes: the defaults, and the optional scopes that are not defaults.
Boxes(token) == token.scopes \cup (token.optional_scopes \ token.scopes)

\* start asks for what the query names, or for the defaults if it names nothing.
Requested(token, query) == IF query = {} THEN token.scopes ELSE query

=============================================================================
