# A verification of the willpxxr-live services

TLA+ models of the programs in this repository, the TLC runs that check them on small
instances, and TLAPS proofs of the properties that matter most. Most of the repository is
declarative (Terraform, Kubernetes manifests, vendored charts); the code with a state of its
own is `services/mcp-token-vault`, a Rust service that holds OAuth credentials and injects them
into MCP requests, and a handful of scripts and plugins that keep rotating tokens on the
client side. Modelled are the vault's credential lifecycle, its elicitation with the pages and the
configuration that lead to it, its startup during rollouts, the login script and the opencode plugin's login.

## The system

### The token vault (`services/mcp-token-vault/src`)

One process (`replicas: 1`, two while a rollout overlaps them), one Postgres database.

| part | state | operations | talks to |
|---|---|---|---|
| store (`store.rs`) | table `credentials`, one row per provider; table `pending_elicitations` | `get`, `upsert`, `insert_pending`, `take_pending`, `purge_old_pending` | everything below |
| refresh engine (`refresh.rs`, `state.rs`) | `refresh_lock`, one mutex per process for all providers | `current_access`, `refresh`, `run_loop` | token endpoint, store |
| proxy (`proxy.rs`) | - | forwards an MCP request with the credential; on 401, a forced refresh and one retry | refresh engine, upstream |
| ext_authz (`authz.rs`) | - | answers Envoy's check with a credential or an elicitation URL | refresh engine |
| admin API (`admin.rs`) | - | `POST /bootstrap`: store an operator's tokens, then refresh | store, refresh engine |
| elicitation (`oauth.rs`) | a pending row per flow | `start`, `callback` | token endpoint, store |
| startup (`main.rs`, `state.rs`, `config.rs`) | the configuration; the password of the database role | role bootstrap, migrations, four listeners, `shutdown` | database, Kubernetes |
| UI (`ui.rs`) | - | the page with a form per provider | store |
| encryption (`crypto.rs`) | the key a pod started with | seal and open columns | store |

What is hard about it: every handler is a future that stops at each `await` and can be dropped
there. Four kinds of tasks write the same row, two of them without the lock. A provider may
*rotate* the refresh token, that is, invalidate the one presented, so the row must follow the
provider's state through every interleaving and every failure. The lock spans an HTTP request
without a timeout, for all providers at once. And every commit rolls the pod: two pods share the table and the one
database role, whose password every start resets, and a browser's page, its form and its callback may meet different revisions.

What makes each part correct:

- *refresh engine*: single-flight refreshes, a lock that is always given back, no rotated token
  lost, no spent token presented, no refresh that is not needed, every waiter served;
- *proxy*: one retry after a 401, with a different token; every request answered;
- *elicitation*: a state parameter is redeemed once, for its own provider, with the code that was
  issued for it; starting a flow does not break another;
- *startup*: the role's password ends up as the one the serving pod uses; what is stored can be opened again after a reconnection;
- *configuration, scopes and pages*: what is ticked on a page is what is asked for, and a flow that was let start can be
  finished, also when page, start and callback meet different revisions.

### Around it

- `scripts/ai-gateway-login.sh` and `claude-code-api-key-helper.sh`: read a rotating refresh token
  from 1Password, spend it, write its successor back; sessions may overlap.
- `.opencode/plugins/ai-gateway.ts`: a loopback listener, a timeout and a check of the state
  parameter race to settle one login; a refresh hook.
- `gitops/.../hermes/configmap-plugin.yaml`: a cache of machine-to-machine tokens.
- `scripts/render-substrate.sh`, the substrate bootstrap jobs and the ArgoCD sync waves: batch
  work whose order matters.
- Terraform, CI workflows, packer, CEL policies, rendered manifests: input of other programs.

`PROJECT.json` lists every part with its status, and under `hazards` the places where the code can
go wrong in a way that a test would hardly reach, with the properties that watch them.

## Modules

| module | models | proofs |
|---|---|---|
| `CredentialRow` | a row of `credentials`, `needs_refresh`, `upsert` | |
| `AtomicCredential` | what the vault promises of its refresh tokens, without tasks, awaits or locks | |
| `TokenVault` | every task that reads or writes a row, the lock, the token endpoint, the faults | `TokenVaultProofs`, `AccessProofs`, `RotationProofs` |
| `VaultRefinement` | `TokenVault` as an implementation of `AtomicCredential` | `RefinementProofs` |
| `Startup` | pods that start, crash and are replaced over one database role, one Secret, one sealed row | `StartupProofs` |
| `FrontDoor` | what the environment configures, what a page offers, what `start` accepts and asks for | |
| `Elicitation` | pages, `start` and `callback` over `pending_elicitations`, and the rollouts under them | `ElicitationProofs` |
| `GatewayLogin` | sessions of `scripts/ai-gateway-login.sh` over 1Password and Auth0 | `LoginProofs` |
| `OpencodeAuth` | the login of `.opencode/plugins/ai-gateway.ts` | `OpencodeProofs` |
| `MCTokenVault`, `MCElicitation`, `MCStartup`, `MCGatewayLogin`, `MCOpencodeAuth` | constants and symmetries of the runs | |

### `CredentialRow`

A token is its origin, not a string: the *grant* (one consent of the user, numbered in the order
given) and the *generation* (how many pairs the provider had issued for that grant). `scopes` is
the grant whose scopes the column quotes. `expires_at` is `null`, `near` (within `REFRESH_SKEW`, or
past) or `far`. `Upserted(old, new)` is the `ON CONFLICT DO UPDATE` with its two `COALESCE`s.

### `TokenVault`

`pc[t]` is the `await` that task `t` is about to pass; one action is what the code does from there
to the next one. `got[t]` is the `Credential`, `TokenResponse` or request body the task carries across
awaits, and `holder[v]` is process `v`'s `refresh_lock`; a guard is dropped with the scope or the future that
owns it (`DropGuard`, in every action that leaves). The tasks:

| code | actions |
|---|---|
| `proxy::handle_inner` | `ProxyGet`, then `current_access`, then `UpstreamAnswers` or `Upstream401` (the forced second round) |
| `authz::resolve_credential` | `AuthzGet`, then `current_access` |
| `refresh::current_access` | `Load`, `AcquireLock`, `Recheck`, `refresh_unlocked`, `Reload` |
| `refresh::refresh_unlocked` | `RefreshGet`, `TokenEndpointGrants` or `TokenEndpointRefuses`, `RefreshStore` |
| `oauth::callback_inner`, after the state was taken | `CodeExchanged` or `CodeRefused`, `CallbackStore` |
| `admin::bootstrap` | `BootstrapRequest`, `BootstrapStore`, then `refresh::refresh` |
| `refresh::run_loop` | `LoopGet`, then `refresh::refresh`, `LoopWakes` |
| what stops a task | `Sigterm` (or a crash), `Disconnect`, `SqlFails`, `ResponseLost` |

The provider (external, modelled from what the vault sends it and accepts from it) keeps, per grant, how many pairs it has
issued and which generation of refresh token is valid: it may rotate the refresh token or not,
name scopes or not, choose any lifetime, refuse whatever it likes. `ResponseLost` is the case in which it
acted and the vault never hears. `Init` starts with no credential or with one an earlier process left.

One assumption is about the operator: every body of `POST /bootstrap` is the first pair of a fresh consent (`BootstrapRequest`).
Nothing in `admin.rs` looks at it. A body sent twice -- again after a 500, say -- would put a spent refresh token back over its successor if
`run_loop` had refreshed in between. `StoredRefreshIsCurrent`, `PresentedTokenIsCurrent`, `AccessNeverGoesBack`, `RetryChangesToken`,
`RotationIsLostInFlight`, `RefinesAtomicCredential` and their theorems rest on this assumption.

### `AtomicCredential` and `VaultRefinement`

`AtomicCredential` is the vault as its users may think of it: one refresh token per provider (`held`), which is always valid. A
consent gives a new grant (`Consent`), the vault may turn to any grant's valid token (`Adopt`), and a refresh that rotates
replaces the token at the provider and in the vault in one step (`Refresh`). `VaultRefinement` maps `TokenVault` to it: `Held` is
the row's refresh token, unless a task has received the successor of just that token and has not
stored it yet. So `TokenEndpointGrants` is where the abstract token changes, and `RefreshStore`, which changes the row, is
a stutter or, if it overtakes another consent, an `Adopt`. `Held` has a `CHOOSE`, and is right because
no two tasks carry successors of one grant, not even in two processes: the endpoint rotates the valid token only, so
a second successor cannot be issued before the first one is stored and presented in its turn.

### `Startup`

A pod is a slot with a `phase`: `waiting` for its container, `bootstrap` (about to run `bootstrap_role`), `probe` and `connect` (the
two handshakes of `connect`), `serving`. `env[p]` is what the container read from the Secret when it started, `role` the password
the database holds, `pool` who has a live connection, `row` the key that sealed each column, and `refreshing` the pods that are between the
read and the upsert of a refresh.

| code or cluster | actions |
|---|---|
| `state::build` | `Bootstrap`, `Handshake` (twice; a refused password ends the process) |
| the pool, while the pod serves | `Recycle`, `Acquire` |
| `oauth::callback_inner` and `admin::bootstrap`, the upsert | `Consent` (`Sealed`: which key the columns have afterwards) |
| `refresh::refresh_unlocked` | `RefreshRead` (`Readable`: `get` opens both columns), then `RefreshStore` or `RefreshFails` |
| `main`, `shutdown` | `Kill` (at once if the pod serves; if it starts, nothing handles SIGTERM and it goes on until it is killed) |
| the kubelet and the Deployment | `ContainerStart`, `Rollout`, `Delete`, `Crash` |
| 1Password and external-secrets | `Rotate` |

`straddled` is history: `db_url` changed while pods were being replaced and the pods that started around that are not all gone.
Without this exception `ServingPodCanLogIn` is false, and the `selfheal` run shows how.

`reconnected` is history as well: the user went through a consent, with a refresh token, at a pod with the Secret's `encryption_key`, while no pod with
another key was in the middle of a refresh; the key has not changed since, and nobody connected through a pod without it. `ReconnectHeals` says that this
one reconnection is enough for good. Each condition is needed: a pod with an older key that read the row before the consent stores over it afterwards and
seals with its own key, after which the user has to reconnect once more; and the Service may send the user to such a pod.

### `FrontDoor`

The configuration as `from_env` makes it of the environment: a provider is accepted or ends the process, and without `AUTHORIZE_URL` its
default scopes are dropped but not its optional ones. An `AUTHORIZE_URL` is unset, valid or malformed: `from_env` does not look, so a pod comes up with a malformed
one. `Startable` is what `start` tests before it records anything, `Boxes` what the page offers, `Allowed` what `start` accepts, `Requested` what it asks
for. That the page and `start` take the comma-separated lists apart alike is read off the code, not checked: here they are sets.

### `Elicitation`

A flow stands for its state parameter, its PKCE verifier and its authorization code. `OpenPage` is the page of `ui.rs`; `Start`, `Purge`,
`Insert` are `start_inner`, with `Redirect` for what comes after `insert_pending` and can still fail (the parse of `AUTHORIZE_URL`, the comparison of the scopes), called from the form with some of its boxes ticked or from a link from anywhere; `Take`, `Exchange`, `Store` are `callback_inner`,
for deliveries that repeat, mix up (any state with any code at any provider's route), come late or are dropped half-way. `Rollout` brings
a pod with another configuration beside the old one; until `Retire`, each request meets either.

`Elicitation` and `TokenVault` meet in one place: `Elicitation!Exchange`/`Store` are `TokenVault!CodeExchanged`/`CallbackStore`.
`TokenVault` lets a callback arrive at any time, which is more than what `Elicitation` lets through.

### `GatewayLogin`

One action per command of the script that touches the world: `Get` (`op item get`), `Rotate` or `Refuse` (`do_refresh`),
`FullLogin`, `Check` (the two tests before the write), `Write` (`op item edit` or `create`). `items` are the refresh tokens of the
1Password items that carry the title, a sequence because `create` does not mind a second one, after which
`get` and `edit` by title fail. Auth0 (external; `rotation_type = "rotating"` in `terraform/auth0.tf`) knows the login each token descends from;
presenting a rotated token is refused and may or may not revoke its family; a request may also fail before or after Auth0 acted. A session that ends is started again.
`alone` and `quiet` are history: nothing in the script reads them.

### `OpencodeAuth`

An attempt stands for its state parameter, its verifier and its code; `Foreign` is whoever else uses the callback URL: `oauth2c`, which
`scripts/ai-gateway-login.sh` runs with the same redirect URI and which takes and releases the port (`Borrow`), or a request with a strange state or none.
`Authorize` is `authorize` with `Bun.serve`, `Turned` and
`Accept` are the request handler up to its one `await`, `Redeem` is Auth0's side of it: both tokens, an access token alone (`partial`, which `oauthCredential`
turns down although the code is redeemed), or none. `Throw` is a `fetch` or `json` that throws, so that the handler ends without `finish`; `Finish` is what
follows the `await`, `Timeout` the `setTimeout`. `stop(true)` cuts connections, including, perhaps, the one whose handler calls it, since it runs in a microtask
before the response is sent (`Tell`). The refresh hook is not modelled: it has no state between its call and its return.

## Runs

All with `tlc -config <run>.cfg <module>`.

| run | question | bounds |
|---|---|---|
| `engine` | do overlapping writers lose a rotated refresh token, present a spent one, put an older access token back, or refresh again what was just refreshed? No. Are they together a vault that swaps tokens atomically? Yes. | 1 process, 2 requests of any kind and `run_loop`; 2 grants of 3 pairs; no faults |
| `faults` | does any interruption break single-flight, leave the lock held, or let the retry repeat the refused token? No. Is a rotated refresh token lost by anything but a refresh cut off before its upsert? No. | 2 processes, 2 requests, every fault; 1 grant of 2 pairs |
| `live` | is everybody answered if peers are, and every provider visited for ever? can anything but a hung token endpoint starve a waiter? does a hung refresh block a callback? Yes, no, no. | 1 process, 1 request of any kind, `run_loop` over 2 providers; clients that hang up, failing statements; 1 grant of 2 pairs |
| `elicit` | is a state redeemed once, at its own provider, with its own code, and does a flow survive others? is what was ticked asked for, unless a commit changed the provider or its `AUTHORIZE_URL` is malformed? does a flow finish under a configuration that stays? Yes. | 2 flows, 2 deliveries, 2 providers, 2 scopes, 2 hours; 2 good configurations, one with a malformed `AUTHORIZE_URL` and one that no pod comes up with |
| `startup` | can the newest pod log in and come back to the database after everything? Yes, unless `db_url` changed in the middle of a rollout. Does one reconnection under a new key keep the row readable? Yes, unless a refresh under an older key was in flight. | 2 pods, 2 passwords, 2 keys; rollouts, crashes and rotations without bound |
| `login` | is a stored token ever replaced by nothing? does one browser login last while nothing goes wrong? does one undisturbed session repair what went wrong? No, yes, yes. | 2 sessions for ever; 5 refresh tokens, 2 items; every fault |
| `opencode` | does every attempt settle, own the port exactly while it waits, and report success only when it has succeeded? are issued tokens dropped for any reason but a missing refresh token, the timeout, a reload or somebody else's redirect? Yes, no. | 2 attempts and somebody else, each redirect requested at most 3 times |
| `undone` | is a consent that the user saw stored still there afterwards? **No.** | |
| `shutdown` | is a rotated refresh token written back when the process is stopped? **No.** | |
| `scopes` | are the scopes shown those of the stored token? **No.** | |
| `selfheal` | does a rotation of `db_url` heal by itself? **Not if it falls into a rollout.** | 2 pods, 2 passwords |
| `login_reuse` | is a refresh token ever presented after it was consumed? **Yes, by sessions that overlap.** | |

Why the bounds are enough. Two requests beside `run_loop` are three tasks at one row: one in the
guarded region, one waiting for it, one writing without it, which is every role the code has. Two grants
give the old-over-new races, three pairs per grant let a token be two rotations behind, and both are counters of the
environment, so the model loses nothing but longer histories. Two providers show what sharing the
lock and the loop does. Two deliveries are one that a state was meant for and one that is not, in both orders; of the configurations, one
is that of `deployment.yaml` with a second provider that can only be bootstrapped, one widens the scopes and makes the second provider interactive without scopes, one has a malformed `AUTHORIZE_URL`, and one lacks `REDIRECT_URI`.
Two hours are an age at the boundary of the purge and one past it.
Two pods are what one replica has during a rollout; a third appears only if a commit comes before the last one's pod is gone, and for
`ServingPodCanLogIn` the theorem covers any number. Requests and grants are bounded and `run_loop` goes on for ever, so no
run of `TokenVault` ever stops; deadlock is checked there. `Elicitation` does stop when every flow and delivery
is done, and so does `OpencodeAuth` after its last attempt, hence `CHECK_DEADLOCK FALSE` there. In `Startup` the Secret can always change. In `GatewayLogin` a session can always
be started or interrupted; five tokens are two logins with three rotations between them, which lets both sessions be behind a third token,
and a second item is all it takes to make the title ambiguous. Two attempts at one port are the one that waits and one whose
timer is still armed and whose tab comes back; somebody else holds the port or sends a stray redirect. Three requests of one redirect are three handlers suspended
at once.

The five runs that expect a violation are the findings of `PROJECT.json`, each with the sentence of
the code or of WEP-0006 that it contradicts. They do not all weigh the same: `undone` and `shutdown` lose a grant, so the
user must consent again; `login_reuse` may lose one in the same way; `selfheal` leaves the vault without a database until somebody commits (the trace of the run: the newest pod has
read the old `db_url`, and a container of the older pod starts after the change and sets the new one; a slow older pod that sets the old one back does the same); `scopes`
shows the wrong scopes. Five more need no run, only two places of the code read together:

- WEP-0006:114 says the vault refreshes "ahead of `expires_at`"; `run_loop` refreshes every row at every interval, due or not.
- A bootstrap with an access token, no refresh token and no `expires_in` is accepted (`admin.rs:72`) and never served: without `expires_at` it always
  needs a refresh (`refresh.rs:24`), which it cannot have.
- "unknown or expired elicitation state" (`oauth.rs:163`): `take_pending` does not look at the age. A state older than an hour is redeemed unless another
  flow was started since, whose `purge_old_pending` removes it.
- `from_env` parses every `UPSTREAM_URL` (`config.rs:86`) and no `AUTHORIZE_URL`; `start` parses it after `insert_pending` (`oauth.rs:74`). With a typo in it the pod comes
  up, the page offers the provider, and every start fails and leaves a pending row, which the next start purges after an hour.
- "consumed only by the bootstrap CronJob" (`externalsecret-vault.yaml:28`): there is no such job, every pod runs `bootstrap_role` itself.

### Fairness

`Fairness` is weak for the steps that wait for nobody but the runtime and the database
(`LocalStep`) and strong for `AcquireLock`: tokio's mutex is a FIFO queue, so a waiter that sees the lock
released again and again gets it. Nothing bounds a peer: `state.rs` builds the HTTP client without a
timeout. So `PeersAnswer` is not part of the specification but a hypothesis of the
properties that need it, and `OnlyTheEndpointBlocks` and `CallbackIsNotBlocked` say what is left
without it. No fairness on arrivals, time and faults. `Startup` assumes that a container that may start does and its process runs on
(`Start`), that the Deployment controller and the kubelet act (`Delete`, `Kill`), and that a serving pod
asks its pool for a connection, as `run_loop` does every minute (`Acquire`); all weak. That commits, crashes and rotations end (`Calm`) is a
hypothesis of the properties that need it. `OpencodeAuth` assumes of its environment only that a timer that is set
fires; neither the user nor Auth0 has to answer.

## Proofs

`tlapm` on `TokenVaultProofs.tla`, `AccessProofs.tla`, `RotationProofs.tla`, `RefinementProofs.tla`, `StartupProofs.tla`,
`ElicitationProofs.tla`, `OpencodeProofs.tla` and `LoginProofs.tla`. They hold for every `MaxGrant`, `MaxGen`, number of
providers, requests, processes, pods, passwords, keys, flows, deliveries, configurations, login attempts, reloads, sessions and items,
from `BoundsAssumption`, `VaultAssumption`, `StartupAssumption`, `ElicitationAssumption`, `OpencodeAssumption` and `LoginAssumption` alone;
where a theorem needs one process or no faults, it says so, and why is below. What `BootstrapRequest` assumes of the operator is part of `Spec`, hence of the theorems about tokens.

| about the vault | processes | faults |
|---|---|---|
| `TypeCorrect`, `RefreshIsSingleFlight`, `LockIsReleased`, `RetryUsesAnotherToken`, `RotationDiesInFlight` | any | any |
| `RotationIsNotLost`, `VaultRefinesAtomicCredential` | any | none |
| `AccessGoesForward`, `NoRefreshIsWasted` | one | any |
| `SpentTokenIsNeverPresented` | one | none |

The four vault modules build on each other in the order of the list above.

**`TypeCorrect`, `RefreshIsSingleFlight`, `LockIsReleased`** - under every fault. The inductive invariant `Inv` is `TypeOK`, both
halves of the lock (`SingleFlight`: who is inside holds; `LockNeverLeaks`: who holds is inside), and
`HasRefreshToken`: a task whose request is out has a refresh token in hand. Neither half of the lock is
inductive alone: without the second, a stranger might hold the lock and drop it at will, and without the
first, a task might take it while another is inside. `HasRefreshToken` is what
types the provider's answer (its grant is a grant), and is what the early return of `refresh_unlocked` is for. For
the lock, a step is reduced to a *move* (`Moves`): it leaves the region and drops the guard, stays on
its side of it, or enters through a free lock. Each action is shown to be a move once,
and the lock argument is made once for all moves.

**Kinds of steps** - the other proofs about the vault do not look at the actions of `TokenVault`. `AccessProofs` shows once that each is a `TaskStep`
of one task, which is quiet, takes the row in hand (`TakesRow`), gets an answer of the token endpoint (`Issues`), gets a consent's tokens
(`Consents`) or stores what it has in hand (`Stores`), or else a `WorldStep`, in which time passes or tasks are dropped. Each
invariant is then shown to survive these kinds.

**`RetryUsesAnotherToken`** - `AccessInv` says where access tokens come from and get to: every token in a row or a hand was issued (`TokensAreKnown`), so what is issued
next is another one; only a proxied request carries one (`TokIsCarried`); a stored row has a kind (`KindInv`); what is about to be stored is new to the row, to
all requests and to all who store (`StoresNew`); so a forced refresh brings the request something else than what it carries (`RetryIsNew`). The last
is the property, but it needs the others: another task may store between the forced refresh and the reload.

**`AccessGoesForward`, `NoRefreshIsWasted`** - with one process. `OrderInv` adds what the lock gives: what a refresh is about to store is the newest pair of its grant (`RefreshIsNewest`), a consent in hand is
of a grant nobody else has heard of (`ConsentIsNew`), so a callback that stores without the lock puts nothing back, and a row found stale under the lock stays stale (`StaysStale`). With a second process both are false: a provider
that does not rotate accepts one refresh token in both, so two pairs of one grant are in hand and the older may be stored last; and the other process may refresh the row between the
second test of `current_access` and the read of `refresh_unlocked`.

**`RotationDiesInFlight`, `RotationIsNotLost`** - in any number of processes, although each has a lock of its own and callbacks and bootstraps use none.
`FreshInv` says what makes that harmless: a refresh token that is about to be stored is the valid one of its grant, and *nobody else has it* - it is not in the row and no other task presents
or stores it. So nobody can rotate it before it is stored, no store replaces a valid token by a spent one of its grant, and a second process that presents
the row's token meanwhile is refused. It survives every fault, since a task that is gone stores nothing. A row
therefore parts from its valid token only in the step that cuts off the refresh that spent it (`RotationIsLostInFlight`), and without faults there is no such step:
`RotationIsNotLost` needs that hypothesis, as the `shutdown` run shows, and no other.

**`SpentTokenIsNeverPresented`** - with one process and no faults, both of which are needed: after a cut-off refresh the row's token is spent, and two processes may
present the same token one after the other. With one process, two tasks past the lock are the same (`OneInside`, from `Inv`), so nobody rotates the token that another has in hand.

**`VaultRefinesAtomicCredential`** - without faults, in any number of processes. `FreshInv` is what the step simulation needs: no two tasks carry successors of one grant (`OneSuccessor`), so
`Held` is well defined; what a store puts in the row is the valid token of its grant, hence an `Adopt` or a stutter, and a callback's token is one too. One lemma per kind of step says
what happens to `Held` and which abstract action that is.

**`StartupTypeCorrect`, `NewestPodCanLogIn`** - for any number of pods. `ServingPodCanLogIn` is not inductive: it must know
that no pod anywhere in its start will still run `ALTER ROLE` with another password. `LoginInv` says that, unless `straddled`: every pod that
is starting has read the current `db_url`; once one is past `ALTER ROLE`, that is the role's password; and while any other pod is left, the newest pod that serves
has read the current one too, so that a late start of the other does it no harm.

**`ReconnectionHeals`** - for any number of pods, keys and refreshes. `ReconnectHeals` is not inductive: `HealedInv` says that, once reconnected, both columns are sealed with
the Secret's key and every pod between the read and the upsert of a refresh has it. Only pods that can read the row start a refresh, and those have the key; so whatever they store later is sealed with it, and the COALESCE keeps a
seal that is right.

**Elicitation** - all seven properties of the `elicit` run. `Inv` has a part for flows (`FlowInv`: what a page or a start knows of its provider has both a redirect URI and an
`AUTHORIZE_URL`, and its query is among the boxes of its page), one for deliveries (`DeliveryInv`: past `take_pending` the state is gone and the provider is right; past the exchange the code was the flow's
own), one for what is stored, and single use. A state that is used up stays so because only `Insert` records one, and only for a flow whose state nobody can
carry yet: that is what `DeliveryInv` says of `start`. `FormsAreHonoured`, `FlowsFinishAsStarted` and `YoungFlowsSurvive` are action properties and follow from
`Inv` for one step; the first two rest on `ConfigsTyped`, that is, on `from_env` refusing an `AUTHORIZE_URL` without `REDIRECT_URI` in every pod that serves.

**The opencode login** - the four invariants of the `opencode` run. `CountInv` says that every suspended handler, and the one whose code was redeemed or whose `fetch` threw after that,
answers to a request of its own; hence a refused exchange beside a redeemed code means a second request. `RejectedInv` extends
`TokensReachTheLogin` to attempts whose code is not redeemed *yet*: a rejection that none of the four reasons of `TokensAreDroppedAsNamed` explains came before any exchange and leaves
no handler that could still do one. `ListenerIsWaitedFor` is inductive by itself, and `SuccessIsTrue` rests on it: only the listener's own connections are told anything,
and who has the listener is still waiting.

**The login script** - all four properties of the `login` run, under every fault. `UndisturbedSessionsRepair` follows from `AloneInv`: a session that nothing has disturbed knows the items as
they are, and what it has received is still valid when it writes. `OneLoginIsEnough` is not inductive: `QuietInv` adds that, in a history without overlaps and faults, one session runs at a time, it comes to the browser
only if there is no item, and between sessions there is nothing at all or one login and one item with a valid token (`Orderly`). `CountInv` says that every login has issued a token, which
types the counter, and that what is about to be written is one, from which `StoredTokenStays` follows.

Left to TLC are the liveness properties, because the prover has neither `ENABLED` nor fairness: `RequestsAreAnswered`, `LoopVisitsEveryProvider`, `OnlyTheEndpointBlocks`,
`CallbackIsNotBlocked`, `VaultComesBack` and `LoginSettles`.

## What is left out

- Logging, HTML, headers, request bodies and their limits: no property tells them apart.
- How a request finds its provider: the first path segment (`proxy.rs`), or a provider name that occurs in a header value
  (`authz.rs`). The comment there says that names cannot collide, which is so as long as no provider's name occurs in another's or in an unrelated header;
  with one provider configured it is. It is a function of two strings, without state.
- The connect URL that the vault hands out when a credential is missing, also for providers whose `start` refuses.
- The kinds of failure inside one `?`: a handler fails, with the effects it has had so far.
- A statement that fails after it was committed, which is a crash between two steps for the caller.
- The metadata that the page shows; the migrations, which only add; the cipher, beyond that only the sealing key opens.
- `DATABASE_URL`s that name another role, and the admin connection's own password.
- Three and more writers without the lock, three processes: see the bounds.

## Plan

1. `VaultWithElicitation`: the two vault modules composed over one `stored` credential, with a failing exchange after the state was taken.
2. The refresh hook of `.opencode/plugins/ai-gateway.ts`, as a second actor over what `OpencodeAuth` leaves.
3. `HermesTokenCache` and the order of the substrate hooks, if they turn out to have enough state.
