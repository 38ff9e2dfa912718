---------------------------- MODULE Elicitation ----------------------------
(***************************************************************************)
(* The browser flow that obtains a credential, oauth.rs, and the table     *)
(* that ties its two halves together, pending_elicitations                 *)
(* (services/mcp-token-vault/migrations/0002, store.rs).                   *)
(*                                                                         *)
(* The page of ui.rs has a form per provider.  Its submission,             *)
(* GET /oauth/{provider}/start, purges what is left of old flows, records a *)
(* random state parameter with a PKCE verifier, and redirects the browser  *)
(* to the provider.  GET /cb/oauth/{provider}/callback, the only route     *)
(* without a login, consumes the state, exchanges the code with the        *)
(* verifier recorded for it and stores the credential.                     *)
(*                                                                         *)
(* A flow stands for its state parameter, for its verifier and for the     *)
(* authorization code the provider issued on its authorize request: the    *)
(* three are random and made for that flow.                                *)
(***************************************************************************)
EXTENDS FrontDoor, Naturals

CONSTANTS
    Flow,       \* runs of start, each with its own state parameter
    Delivery,   \* requests to the callback route: redirects, repeats, strays
    Envs,       \* the environments that commits give the pods
    None,       \* SQL NULL, Option::None
    Hour,       \* age after which purge_old_pending deletes a row
    MaxTime     \* bound: the clock stops here

ASSUME ElicitationAssumption ==
    /\ Hour \in Nat /\ MaxTime \in Nat
    /\ None \notin Flow /\ None \notin Provider /\ None \notin Nat /\ None \notin TokenConfig
    /\ \E env \in Envs : Accepts(env)
    /\ \A env \in Envs : env \in UNION {[P -> ProviderEnv] : P \in SUBSET Provider}

VARIABLES
    config,     \* the configuration of the newest pod
    leaving,    \* the configuration of the pod it replaces, while that still serves
    now,        \* the database's clock
    page,       \* page[f]: what the page on which f is started was made from
    query,      \* query[f]: the scopes the URL of f's start names
    conf,       \* conf[f]: what the pod that runs f's start knows of the provider
    asked,      \* asked[f]: the scopes of f's authorize request, until it is made
    start,      \* start[f]: how far the start handler of f has come
    provider,   \* provider[f]: the provider f was started for
    created,    \* created[f]: created_at of f's pending row, None if there is none
    code,       \* code[f]: f's authorization code at the provider
    pc,         \* pc[d]: the await delivery d is about to pass
    path,       \* path[d]: the provider in the URL of d
    param,      \* param[d]: the flow whose state parameter d carries
    presented,  \* presented[d]: the flow whose code d carries
    result,     \* result[d]: what d was answered
    stored      \* stored[p]: the flow whose tokens are p's credential

podVars == <<config, leaving>>
formVars == <<page, query, conf, asked>>
startVars == <<start, provider, formVars>>
urlVars == <<path, param, presented>>
vars == <<podVars, now, startVars, created, code, pc, urlVars, result, stored>>

Result == {"none", "unknown_state", "wrong_provider", "not_configured", "refused",
           "authorized", "gone"}

Configs == {FromEnv(env) : env \in {e \in Envs : Accepts(e)}}

TypeOK ==
    /\ config \in Configs
    /\ leaving \in SUBSET Configs
    /\ now \in 0 .. MaxTime
    /\ page \in [Flow -> TokenConfig \cup {None}]
    /\ query \in [Flow -> SUBSET Scope]
    /\ conf \in [Flow -> TokenConfig \cup {None}]
    /\ asked \in [Flow -> SUBSET Scope]
    /\ start \in [Flow -> {"new", "page", "purge", "insert", "redirected", "rejected"}]
    /\ provider \in [Flow -> Provider \cup {None}]
    /\ created \in [Flow -> (0 .. MaxTime) \cup {None}]
    /\ code \in [Flow -> {"none", "issued", "spent"}]
    /\ pc \in [Delivery -> {"idle", "take", "exchange", "store", "done"}]
    /\ path \in [Delivery -> Provider \cup {None}]
    /\ param \in [Delivery -> Flow \cup {None}]
    /\ presented \in [Delivery -> Flow \cup {None}]
    /\ result \in [Delivery -> Result]
    /\ stored \in [Provider -> Flow \cup {None}]

Init ==
    /\ config \in Configs
    /\ leaving = {}
    /\ now = 0
    /\ page = [f \in Flow |-> None]
    /\ query = [f \in Flow |-> {}]
    /\ conf = [f \in Flow |-> None]
    /\ asked = [f \in Flow |-> {}]
    /\ start = [f \in Flow |-> "new"]
    /\ provider = [f \in Flow |-> None]
    /\ created = [f \in Flow |-> None]
    /\ code = [f \in Flow |-> "none"]
    /\ pc = [d \in Delivery |-> "idle"]
    /\ path = [d \in Delivery |-> None]
    /\ param = [d \in Delivery |-> None]
    /\ presented = [d \in Delivery |-> None]
    /\ result = [d \in Delivery |-> "none"]
    /\ stored = [p \in Provider |-> None]

Pending(f) == created[f] # None

\* created_at < now() - interval '1 hour' does not hold.
Young(f) == created[f] + Hour >= now

-----------------------------------------------------------------------------
(* Commits.                                                                *)

\* The configurations of the pods that answer requests.
Serving == {config} \cup leaving

\* A pod of a new revision serves beside the old one; it never does if from_env bails.
Rollout(env) ==
    /\ leaving = {} /\ Accepts(env)
    /\ config' = FromEnv(env)
    /\ leaving' = {config}
    /\ UNCHANGED <<now, startVars, created, code, pc, urlVars, result, stored>>

Retire ==
    /\ leaving' = {}
    /\ UNCHANGED <<config, now, startVars, created, code, pc, urlVars, result, stored>>

-----------------------------------------------------------------------------
(* ui.rs, index, and oauth.rs, start_inner                                 *)

\* The browser loads the page.
OpenPage(f, c, p) ==
    /\ start[f] = "new"
    /\ c \in Serving /\ Interactive(c, p)
    /\ start' = [start EXCEPT ![f] = "page"]
    /\ provider' = [provider EXCEPT ![f] = p]
    /\ page' = [page EXCEPT ![f] = c[p]]
    /\ UNCHANGED <<podVars, now, query, conf, asked, created, code, pc, urlVars, result, stored>>

\* The form is submitted with some boxes ticked, the link is followed, or somebody
\* follows a link from elsewhere with any scopes or none in it.
Submits(f, p, q) ==
    \/ start[f] = "page" /\ provider[f] = p /\ q \subseteq Boxes(page[f])
    \/ start[f] = "new" /\ q \subseteq Scope

Start(f, c, p, q) ==
    /\ Submits(f, p, q) /\ c \in Serving
    /\ provider' = [provider EXCEPT ![f] = p]
    /\ IF Startable(c, p)
         THEN /\ start' = [start EXCEPT ![f] = "purge"]
              /\ conf' = [conf EXCEPT ![f] = c[p]]
              /\ query' = [query EXCEPT ![f] = q]
              /\ UNCHANGED page
         ELSE /\ start' = [start EXCEPT ![f] = "rejected"]
              /\ page' = [page EXCEPT ![f] = None]
              /\ UNCHANGED <<conf, query>>
    /\ UNCHANGED <<podVars, now, asked, created, code, pc, urlVars, result, stored>>

\* Mutant: a purge without its age condition.
PurgeEverything(f) ==
    /\ start[f] = "purge"
    /\ start' = [start EXCEPT ![f] = "insert"]
    /\ created' = [g \in Flow |-> None]
    /\ UNCHANGED <<podVars, now, provider, formVars, code, pc, urlVars, result, stored>>

Purge(f) ==
    /\ start[f] = "purge"
    /\ start' = [start EXCEPT ![f] = "insert"]
    /\ created' = [g \in Flow |-> IF Pending(g) /\ ~Young(g) THEN None ELSE created[g]]
    /\ UNCHANGED <<podVars, now, provider, formVars, code, pc, urlVars, result, stored>>

\* AUTHORIZE_URL is parsed, then the scopes are compared; what led to them is of no
\* use any more.
Redirect(f) ==
    /\ IF conf[f].authorize_url = "valid" /\ query[f] \subseteq Allowed(conf[f])
         THEN /\ start' = [start EXCEPT ![f] = "redirected"]
              /\ asked' = [asked EXCEPT ![f] = Requested(conf[f], query[f])]
         ELSE /\ start' = [start EXCEPT ![f] = "rejected"]
              /\ UNCHANGED asked
    /\ page' = [page EXCEPT ![f] = None]
    /\ query' = [query EXCEPT ![f] = {}]

\* Mutant: the row records when it expires, not when it was created.
InsertExpiry(f) ==
    /\ start[f] = "insert"
    /\ created' = [created EXCEPT ![f] = now + Hour]
    /\ Redirect(f)
    /\ UNCHANGED <<podVars, now, provider, conf, code, pc, urlVars, result, stored>>

\* insert_pending; AUTHORIZE_URL and the scopes asked for are only looked at
\* afterwards, so a flow that is rejected for them leaves its row behind.
Insert(f) ==
    /\ start[f] = "insert"
    /\ created' = [created EXCEPT ![f] = now]
    /\ Redirect(f)
    /\ UNCHANGED <<podVars, now, provider, conf, code, pc, urlVars, result, stored>>

\* The user consents; the provider issues a code, bound to f's code_challenge.
Consent(f) ==
    /\ start[f] = "redirected" /\ code[f] = "none"
    /\ code' = [code EXCEPT ![f] = "issued"]
    /\ asked' = [asked EXCEPT ![f] = {}]
    /\ UNCHANGED <<podVars, now, start, provider, page, query, conf, created, pc, urlVars,
                   result, stored>>

-----------------------------------------------------------------------------
(* oauth.rs, callback_inner                                                *)

\* A request to the callback route: the provider's redirect, the same once more,
\* or one that mixes up what different flows were given.
Deliver(d, p, f, c) ==
    /\ pc[d] = "idle" /\ start[f] = "redirected" /\ code[c] # "none"
    /\ pc' = [pc EXCEPT ![d] = "take"]
    /\ path' = [path EXCEPT ![d] = p]
    /\ param' = [param EXCEPT ![d] = f]
    /\ presented' = [presented EXCEPT ![d] = c]
    /\ UNCHANGED <<podVars, now, startVars, created, code, result, stored>>

Answer(d, r) ==
    /\ pc' = [pc EXCEPT ![d] = "done"]
    /\ result' = [result EXCEPT ![d] = r]

\* Mutant: the default scopes are taken where a response names none, and required as
\* REDIRECT_URI is.
RedeemsWithScopes(c, p) ==
    p \in DOMAIN c /\ c[p].redirect_uri /\ c[p].scopes # {}

\* What the pod has to know of a provider to redeem its codes.
Redeems(c, p) == p \in DOMAIN c /\ c[p].redirect_uri

\* Some pod goes on with the row it took.
Proceed(d) ==
    \E c \in Serving :
        IF Redeems(c, path[d]) THEN pc' = [pc EXCEPT ![d] = "exchange"] /\ UNCHANGED result
        ELSE Answer(d, "not_configured")

\* Mutants: the row is read and left, and the provider is not compared.
TakeByReading(d) ==
    /\ pc[d] = "take"
    /\ \/ ~Pending(param[d]) /\ Answer(d, "unknown_state")
       \/ Pending(param[d]) /\ provider[param[d]] # path[d] /\ Answer(d, "wrong_provider")
       \/ Pending(param[d]) /\ provider[param[d]] = path[d] /\ Proceed(d)
    /\ UNCHANGED <<podVars, now, startVars, created, code, urlVars, stored>>

TakeForAnyProvider(d) ==
    /\ pc[d] = "take"
    /\ created' = [created EXCEPT ![param[d]] = None]
    /\ \/ ~Pending(param[d]) /\ Answer(d, "unknown_state")
       \/ Pending(param[d]) /\ Proceed(d)
    /\ UNCHANGED <<podVars, now, startVars, code, urlVars, stored>>

\* take_pending, DELETE .. RETURNING, then the comparison of the providers and the
\* look at the configuration: a state that fails them is used up all the same.
Take(d) ==
    /\ pc[d] = "take"
    /\ created' = [created EXCEPT ![param[d]] = None]
    /\ \/ ~Pending(param[d]) /\ Answer(d, "unknown_state")
       \/ Pending(param[d]) /\ provider[param[d]] # path[d] /\ Answer(d, "wrong_provider")
       \/ Pending(param[d]) /\ provider[param[d]] = path[d] /\ Proceed(d)
    /\ UNCHANGED <<podVars, now, startVars, code, urlVars, stored>>

\* Mutant: the exchange does not send the verifier, so any code will do.
AcceptedWithoutVerifier(d) ==
    /\ code[presented[d]] = "issued"
    /\ provider[presented[d]] = path[d]

\* The token endpoint of path[d] accepts a code it issued and has not seen before,
\* with the verifier of the flow that asked for it.
Accepted(d) ==
    /\ code[presented[d]] = "issued"
    /\ provider[presented[d]] = path[d]
    /\ presented[d] = param[d]

\* The form carries the code of the URL and the verifier of the pending row.
Exchange(d) ==
    /\ pc[d] = "exchange"
    /\ Accepted(d)
    /\ code' = [code EXCEPT ![presented[d]] = "spent"]
    /\ pc' = [pc EXCEPT ![d] = "store"]
    /\ UNCHANGED <<podVars, now, startVars, created, urlVars, result, stored>>

\* Refused, or failed on the way there.
ExchangeRefused(d) ==
    /\ pc[d] = "exchange"
    /\ Answer(d, "refused")
    /\ UNCHANGED <<podVars, now, startVars, created, code, urlVars, stored>>

Store(d) ==
    /\ pc[d] = "store"
    /\ stored' = [stored EXCEPT ![path[d]] = presented[d]]
    /\ Answer(d, "authorized")
    /\ UNCHANGED <<podVars, now, startVars, created, code, urlVars>>

-----------------------------------------------------------------------------
Tick ==
    /\ now < MaxTime
    /\ now' = now + 1
    /\ UNCHANGED <<podVars, startVars, created, code, pc, urlVars, result, stored>>

\* The process stops, or the browser hangs up, at one of the handler's awaits.
Dropped(d) ==
    /\ pc[d] \in {"take", "exchange", "store"}
    /\ Answer(d, "gone")
    /\ UNCHANGED <<podVars, now, startVars, created, code, urlVars, stored>>

Next ==
    \/ \E f \in Flow :
          \/ \E c \in Serving, p \in Provider : OpenPage(f, c, p)
          \/ \E c \in Serving, p \in Provider, q \in SUBSET Scope : Start(f, c, p, q)
          \/ Purge(f)
          \/ Insert(f)
          \/ Consent(f)
    \/ \E d \in Delivery :
          \/ \E p \in Provider, f, c \in Flow : Deliver(d, p, f, c)
          \/ Take(d)
          \/ Exchange(d)
          \/ ExchangeRefused(d)
          \/ Store(d)
          \/ Dropped(d)
    \/ \E env \in Envs : Rollout(env)
    \/ Retire
    \/ Tick

Spec == Init /\ [][Next]_vars

-----------------------------------------------------------------------------
(* Properties                                                              *)

Redeeming(d) == pc[d] \in {"exchange", "store"} \/ result[d] \in {"refused", "authorized"}

\* The state table is the callback route's only protection (admin.rs, oauth_router):
\* however often and however interleaved a state is delivered, one delivery gets
\* past take_pending with it (store.rs, DELETE .. RETURNING).
StateIsSingleUse ==
    \A d, e \in Delivery : Redeeming(d) /\ Redeeming(e) /\ param[d] = param[e] => d = e

\* A verifier only goes to the token endpoint of the provider its flow was
\* started for (oauth.rs, the provider check after take_pending).
VerifierStaysWithItsProvider ==
    \A d \in Delivery : pc[d] = "exchange" => provider[param[d]] = path[d]

\* A stored credential is the end of a whole flow: the vault started it for that
\* provider, and its own state is used up, not the state of another open flow.
StoredEndsItsOwnFlow ==
    \A p \in Provider : stored[p] # None =>
        /\ provider[stored[p]] = p
        /\ code[stored[p]] = "spent"
        /\ ~Pending(stored[p])

\* Starting a flow does not break another that is under way: a row less than an
\* hour old is removed by a delivery that carries its state, and by nothing else
\* (store.rs, purge_old_pending).
YoungFlowSurvives ==
    [][\A f \in Flow : Pending(f) /\ Young(f) /\ created'[f] = None
          => \E d \in Delivery : pc[d] = "take" /\ pc'[d] # "take" /\ param[d] = f]_vars

\* A page offers what start then does.  Its form is turned away at once only if some
\* serving pod knows something else of the provider than the pod that made the page;
\* and where the two pods agree, an AUTHORIZE_URL that does not parse is the only
\* thing that can still stop it, and the request asks for what was ticked, or for the
\* page's defaults (config.rs, AUTHORIZE_URL requires REDIRECT_URI; ui.rs,
\* index_inner; oauth.rs, start_inner).
FormIsHonoured ==
    [][\A f \in Flow :
          /\ start[f] = "page" /\ start'[f] = "rejected"
               => \E c \in Serving : provider[f] \in DOMAIN c => c[provider[f]] # page[f]
          /\ start[f] = "insert" /\ start'[f] # "insert" /\ page[f] = conf[f]
               => IF conf[f].authorize_url = "malformed" THEN start'[f] = "rejected"
                  ELSE /\ start'[f] = "redirected"
                       /\ asked'[f] = IF query[f] = {} THEN page[f].scopes ELSE query[f]]_vars

\* A flow that was let start is not stranded between consent and code exchange for
\* want of configuration, whatever the route and order of its callback, unless a
\* commit changed the provider meanwhile (oauth.rs, start_inner and callback_inner;
\* config.rs, AUTHORIZE_URL requires REDIRECT_URI).
FlowFinishesAsItStarted ==
    [][\A d \in Delivery : result[d] = "none" /\ result'[d] = "not_configured"
          => \E c \in Serving : path[d] \in DOMAIN c => c[path[d]] # conf[param[d]]]_vars
=============================================================================
