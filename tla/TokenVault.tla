----------------------------- MODULE TokenVault -----------------------------
(***************************************************************************)
(* The credential lifecycle of services/mcp-token-vault: every task that   *)
(* reads or writes a row of the `credentials` table, at the granularity of *)
(* the await points of the code, and the OAuth token endpoint they talk    *)
(* to.  The tasks are                                                      *)
(*   - a proxied MCP request (proxy.rs) and an ext_authz check (authz.rs), *)
(*     both through refresh::current_access;                               *)
(*   - the provider's redirect after a consent (oauth.rs, callback);       *)
(*   - POST /bootstrap of the admin listener (admin.rs);                   *)
(*   - run_loop, the periodic refresh, one per vault process.              *)
(* refresh_lock is a mutex of the process, shared by all providers.        *)
(***************************************************************************)
EXTENDS CredentialRow, FiniteSets

CONSTANTS
    Proc,           \* vault processes; each is also the name of its run_loop
    Request,        \* HTTP requests the processes serve
    Home,           \* Home[t]: the process that runs task t
    NumProviders,   \* config.providers, in its order, is 1 .. NumProviders
    Ops,            \* which handlers the requests call
    Faults,         \* which faults may happen
    Nobody          \* refresh_lock is not held

Task == Request \cup Proc
Provider == 1 .. NumProviders

ASSUME VaultAssumption ==
    /\ NumProviders \in Nat \ {0}
    /\ Request \cap Proc = {}
    /\ Home \in [Task -> Proc]
    /\ \A v \in Proc : Home[v] = v
    /\ Ops \subseteq {"proxy", "authz", "callback", "bootstrap"}
    /\ Faults \subseteq {"sigterm", "disconnect", "sql", "response_lost"}
    /\ Nobody \notin Task

VARIABLES
    cred,       \* cred[p]: the row of provider p, principal 'default'
    granted,    \* granted[p]: consents given at provider p so far
    issued,     \* issued[p][g]: token pairs provider p issued for grant g
    current,    \* current[p][g]: generation of g's valid refresh token, 0 if none
    holder,     \* holder[v]: the task holding process v's refresh_lock
    pc,         \* pc[t]: the await task t is about to pass
    op,         \* op[t]: the handler task t runs
    prov,       \* prov[t]: the provider it runs for
    force,      \* force[t]: current_access's `force` argument
    got,        \* got[t]: the Credential, TokenResponse or body t has in hand
    tok,        \* tok[t]: the access token a proxied request carries upstream
    result      \* result[t]: how the request was answered

taskVars == <<op, prov, force, got, tok, result>>
oauthVars == <<granted, issued, current>>
vars == <<cred, granted, issued, current, holder, pc, op, prov, force, got, tok, result>>

-----------------------------------------------------------------------------
(* The awaits.  "locked" ones are passed with the MutexGuard alive.        *)
LockedPc == {"recheck", "refresh_get", "token_request", "refresh_store", "reload"}
FreePc == {"idle", "load", "wait_lock", "send", "resend", "callback_store",
           "bootstrap_store", "loop_get", "sleep", "done"}
\* the steps that are one SQL statement
SqlPc == {"load", "recheck", "refresh_get", "refresh_store", "reload",
          "callback_store", "bootstrap_store", "loop_get"}

Result == {"none", "served", "connect", "failed", "stored", "bad_request", "gone"}

TypeOK ==
    /\ cred \in [Provider -> Row]
    /\ granted \in [Provider -> 0 .. MaxGrant]
    /\ issued \in [Provider -> [1 .. MaxGrant -> 0 .. MaxGen]]
    /\ current \in [Provider -> [1 .. MaxGrant -> 0 .. MaxGen]]
    /\ holder \in [Proc -> Task \cup {Nobody}]
    /\ pc \in [Task -> LockedPc \cup FreePc]
    /\ op \in [Task -> {"none", "loop", "proxy", "authz", "callback", "bootstrap"}]
    /\ prov \in [Task -> Provider]
    /\ force \in [Task -> BOOLEAN]
    /\ got \in [Task -> Row]
    /\ tok \in [Task -> Token]
    /\ result \in [Task -> Result]

-----------------------------------------------------------------------------
\* A row left by an earlier life of the vault: one consent, its first pair.
FirstPair == [grant |-> 1, gen |-> 1]
ConnectedRow(e) == [kind |-> "oauth", access |-> FirstPair, refresh |-> FirstPair,
                    expires |-> e, scopes |-> 1]

Init ==
    /\ cred \in [Provider -> {NoRow} \cup
                             {ConnectedRow(e) : e \in IF MaxGrant > 0 /\ MaxGen > 0
                                                      THEN {"near", "far"} ELSE {}}]
    /\ granted = [p \in Provider |-> cred[p].access.grant]
    /\ issued = [p \in Provider |-> [g \in 1 .. MaxGrant |->
                                     IF g <= granted[p] THEN 1 ELSE 0]]
    /\ current = issued
    /\ holder = [v \in Proc |-> Nobody]
    /\ pc = [t \in Task |-> IF t \in Proc THEN "loop_get" ELSE "idle"]
    /\ op = [t \in Task |-> IF t \in Proc THEN "loop" ELSE "none"]
    /\ prov = [t \in Task |-> 1]
    /\ force = [t \in Task |-> FALSE]
    /\ got = [t \in Task |-> NoRow]
    /\ tok = [t \in Task |-> Null]
    /\ result = [t \in Task |-> "none"]

-----------------------------------------------------------------------------
(* Control shared by the handlers.                                         *)

At(t, label) == pc[t] = label
Goto(t, label) == pc' = [pc EXCEPT ![t] = label]

\* Mutant: a guard that outlives the handler.
GuardForgotten(t) == UNCHANGED holder

\* The MutexGuard goes out of scope, if t has one.
DropGuard(t) == holder' = [holder EXCEPT ![Home[t]] = IF @ = t THEN Nobody ELSE @]

\* Mutants: run_loop past its last provider, and never at it.
ProviderAfterLast(p) == p + 1
LastProviderSkipped(p) == IF p + 1 < NumProviders THEN p + 1 ELSE 1

\* `for pc in &providers` inside `loop`.
NextProvider(p) == IF p < NumProviders THEN p + 1 ELSE 1

\* Task t is over: a request is answered with r, run_loop turns to the next
\* provider or, after the last one, sleeps.  Everything t owns is dropped.
Leave(t, r) ==
    /\ IF t \in Proc
         THEN /\ Goto(t, IF prov[t] < NumProviders THEN "loop_get" ELSE "sleep")
              /\ prov' = [prov EXCEPT ![t] = NextProvider(@)]
              /\ UNCHANGED result
         ELSE /\ Goto(t, "done")
              /\ result' = [result EXCEPT ![t] = r]
              /\ UNCHANGED prov
    /\ DropGuard(t)
    /\ got' = [got EXCEPT ![t] = NoRow]
    /\ tok' = [tok EXCEPT ![t] = Null]
    /\ UNCHANGED <<op, force>>

\* An error leaves the handler through `?`: 502 of the proxy, 500 of the admin
\* API, the failure page of the callback, a logged warning of run_loop; the
\* ext_authz check answers every error with the elicitation URL.
Fail(t) == Leave(t, IF op[t] = "authz" THEN "connect" ELSE "failed")

\* Mutant: the guard is kept while the upstream is called.
ReturnAccessUnderGuard(t, a) ==
    IF a = Null THEN Fail(t)
    ELSE IF op[t] = "authz" THEN Leave(t, "served")
    ELSE /\ tok' = [tok EXCEPT ![t] = a]
         /\ Goto(t, IF force[t] THEN "resend" ELSE "send")
         /\ UNCHANGED <<holder, op, prov, force, got, result>>

\* current_access returns access token a to its caller; a missing one is an error.
ReturnAccess(t, a) ==
    IF a = Null THEN Fail(t)
    ELSE IF op[t] = "authz" THEN Leave(t, "served")
    ELSE /\ tok' = [tok EXCEPT ![t] = a]
         /\ Goto(t, IF force[t] THEN "resend" ELSE "send")
         /\ DropGuard(t)
         /\ UNCHANGED <<op, prov, force, got, result>>

UsesCurrentAccess(t) == op[t] \in {"proxy", "authz"}

\* force || access.is_none() || needs_refresh(expires_at)
Stale(t, row) == force[t] \/ row.access = Null \/ NeedsRefresh(row.expires)

-----------------------------------------------------------------------------
(* proxy.rs and authz.rs: the handlers read the row, then dispatch on kind. *)

Begin(t, o, p) ==
    /\ t \in Request /\ At(t, "idle") /\ o \in Ops
    /\ op' = [op EXCEPT ![t] = o]
    /\ prov' = [prov EXCEPT ![t] = p]

\* Reply of a request that is over as soon as it began.
ReplyNow(t, r) ==
    /\ Goto(t, "done")
    /\ result' = [result EXCEPT ![t] = r]
    /\ UNCHANGED <<cred, granted, issued, current, holder, force, got, tok>>

ProxyGet(t, p) ==
    /\ Begin(t, "proxy", p)
    /\ \/ cred[p].kind = "none" /\ ReplyNow(t, "connect")
       \/ /\ cred[p].kind = "oauth"
          /\ Goto(t, "load")
          /\ UNCHANGED <<cred, granted, issued, current, holder, force, got, tok, result>>
       \/ /\ cred[p].kind = "api_key"
          /\ IF cred[p].access = Null
               THEN ReplyNow(t, "failed")
               ELSE /\ Goto(t, "send")
                    /\ tok' = [tok EXCEPT ![t] = cred[p].access]
                    /\ UNCHANGED <<cred, granted, issued, current, holder, force, got, result>>

AuthzGet(t, p) ==
    /\ Begin(t, "authz", p)
    /\ \/ cred[p].kind = "none" /\ ReplyNow(t, "connect")
       \/ /\ cred[p].kind = "oauth"
          /\ Goto(t, "load")
          /\ UNCHANGED <<cred, granted, issued, current, holder, force, got, tok, result>>
       \/ /\ cred[p].kind = "api_key"
          /\ ReplyNow(t, IF cred[p].access = Null THEN "connect" ELSE "served")

-----------------------------------------------------------------------------
(* refresh.rs                                                              *)

\* current_access, first load: a fresh token is returned without the lock.
Load(t) ==
    /\ At(t, "load")
    /\ LET row == cred[prov[t]] IN
         IF row.kind = "oauth" /\ Stale(t, row)
           THEN Goto(t, "wait_lock") /\ UNCHANGED <<holder, taskVars>>
           ELSE ReturnAccess(t, row.access)
    /\ UNCHANGED <<cred, oauthVars>>

\* refresh_lock.lock().await returns; current_access loads the row again,
\* refresh goes straight to refresh_unlocked.
AcquireLock(t) ==
    /\ At(t, "wait_lock")
    /\ holder[Home[t]] = Nobody
    /\ holder' = [holder EXCEPT ![Home[t]] = t]
    /\ Goto(t, IF UsesCurrentAccess(t) THEN "recheck" ELSE "refresh_get")
    /\ UNCHANGED <<cred, oauthVars, taskVars>>

\* Mutants of the recheck: none at all, without `force`, with the guard already
\* dropped, and calling refresh, which locks again, for refresh_unlocked.
RecheckMissing(t) ==
    /\ At(t, "recheck")
    /\ Goto(t, "refresh_get")
    /\ UNCHANGED <<cred, oauthVars, holder, taskVars>>

RecheckUnforced(t) ==
    /\ At(t, "recheck")
    /\ Goto(t, IF cred[prov[t]].access = Null \/ NeedsRefresh(cred[prov[t]].expires)
               THEN "refresh_get" ELSE "reload")
    /\ UNCHANGED <<cred, oauthVars, holder, taskVars>>

RecheckDropsGuard(t) ==
    /\ At(t, "recheck")
    /\ Goto(t, IF Stale(t, cred[prov[t]]) THEN "refresh_get" ELSE "reload")
    /\ DropGuard(t)
    /\ UNCHANGED <<cred, oauthVars, taskVars>>

RecheckLocksAgain(t) ==
    /\ At(t, "recheck")
    /\ Goto(t, IF Stale(t, cred[prov[t]]) THEN "wait_lock" ELSE "reload")
    /\ UNCHANGED <<cred, oauthVars, holder, taskVars>>

\* current_access, second load: another task may have refreshed meanwhile.
Recheck(t) ==
    /\ At(t, "recheck")
    /\ Goto(t, IF Stale(t, cred[prov[t]]) THEN "refresh_get" ELSE "reload")
    /\ UNCHANGED <<cred, oauthVars, holder, taskVars>>

\* Mutant: the guard is dropped before the request, to not hold it over an await.
RefreshGetDropsGuard(t) ==
    /\ At(t, "refresh_get")
    /\ LET row == cred[prov[t]] IN
         \/ /\ row.kind # "oauth" \/ row.refresh = Null
            /\ Fail(t)
         \/ /\ row.kind = "oauth" /\ row.refresh # Null
            /\ got' = [got EXCEPT ![t] = row]
            /\ Goto(t, "token_request")
            /\ DropGuard(t)
            /\ UNCHANGED <<op, prov, force, tok, result>>
    /\ UNCHANGED <<cred, oauthVars>>

\* refresh_unlocked reads the row it will refresh and bails on anything that is
\* not an oauth row with a refresh token; otherwise the request goes out.
RefreshGet(t) ==
    /\ At(t, "refresh_get")
    /\ LET row == cred[prov[t]] IN
         \/ /\ row.kind # "oauth" \/ row.refresh = Null
            /\ Fail(t)
         \/ /\ row.kind = "oauth" /\ row.refresh # Null
            /\ got' = [got EXCEPT ![t] = row]
            /\ Goto(t, "token_request")
            /\ UNCHANGED <<holder, op, prov, force, tok, result>>
    /\ UNCHANGED <<cred, oauthVars>>

\* What refresh_unlocked hands to upsert: the response, with the scopes of the
\* row it read when the response names none.
Refreshed(t, g, n, rotates, e, scoped) ==
    [kind |-> "oauth", access |-> [grant |-> g, gen |-> n],
     refresh |-> IF rotates THEN [grant |-> g, gen |-> n] ELSE Null,
     expires |-> e, scopes |-> IF scoped THEN g ELSE got[t].scopes]

\* The refresh token presented is the valid one of its grant.
PresentsCurrent(t) ==
    got[t].refresh.gen = current[prov[t]][got[t].refresh.grant]

\* The token endpoint accepts the refresh token and issues the next pair of the
\* grant.  It may rotate the refresh token (the old one is then spent) or keep
\* it, name the scopes or not, and choose any lifetime.
Issue(p, g, rotates) ==
    /\ issued[p][g] < MaxGen
    /\ issued' = [issued EXCEPT ![p][g] = @ + 1]
    /\ current' = [current EXCEPT ![p][g] = IF rotates THEN issued[p][g] + 1 ELSE @]

TokenEndpointGrants(t) ==
    /\ At(t, "token_request") /\ PresentsCurrent(t)
    /\ \E rotates, scoped \in BOOLEAN, e \in {"near", "far"} :
         LET p == prov[t]
             g == got[t].refresh.grant IN
         /\ Issue(p, g, rotates)
         /\ got' = [got EXCEPT ![t] = Refreshed(t, g, issued[p][g] + 1, rotates, e, scoped)]
    /\ Goto(t, "refresh_store")
    /\ UNCHANGED <<cred, granted, holder, op, prov, force, tok, result>>

\* A spent refresh token is refused; so is any other at the provider's whim, and
\* an error of the transport before the endpoint acted is the same to the vault.
TokenEndpointRefuses(t) ==
    /\ At(t, "token_request")
    /\ Fail(t)
    /\ UNCHANGED <<cred, oauthVars>>

\* refresh_unlocked upserts the response; current_access then loads it back,
\* refresh returns to run_loop or to bootstrap.
RefreshStore(t) ==
    /\ At(t, "refresh_store")
    /\ cred' = [cred EXCEPT ![prov[t]] = Upserted(@, got[t])]
    /\ IF UsesCurrentAccess(t)
         THEN /\ got' = [got EXCEPT ![t] = NoRow]
              /\ Goto(t, "reload")
              /\ UNCHANGED <<holder, op, prov, force, tok, result>>
         ELSE Leave(t, "stored")
    /\ UNCHANGED oauthVars

\* current_access, last load, still under the guard.
Reload(t) ==
    /\ At(t, "reload")
    /\ ReturnAccess(t, cred[prov[t]].access)
    /\ UNCHANGED <<cred, oauthVars>>

-----------------------------------------------------------------------------
(* proxy.rs: one send, and one more after a 401 and a forced refresh.      *)

UpstreamAnswers(t) ==
    /\ pc[t] \in {"send", "resend"}
    /\ \E r \in {"served", "failed"} : Leave(t, r)
    /\ UNCHANGED <<cred, oauthVars>>

\* tok keeps the token the upstream refused until current_access returns another.
Upstream401(t) ==
    /\ At(t, "send")
    /\ force' = [force EXCEPT ![t] = TRUE]
    /\ Goto(t, "load")
    /\ UNCHANGED <<cred, oauthVars, holder, op, prov, got, tok, result>>

-----------------------------------------------------------------------------
(* oauth.rs, callback_inner, from the moment its elicitation state was     *)
(* taken: the code is exchanged for the first pair of a new grant, which   *)
(* is upserted without refresh_lock.                                       *)

\* A user consents at the provider: the next grant, its first pair.
NewGrant(p, withRefresh) ==
    /\ granted[p] < MaxGrant /\ MaxGen > 0
    /\ granted' = [granted EXCEPT ![p] = @ + 1]
    /\ issued' = [issued EXCEPT ![p][granted[p] + 1] = 1]
    /\ current' = [current EXCEPT ![p][granted[p] + 1] = IF withRefresh THEN 1 ELSE 0]

FirstTokenOf(p) == [grant |-> granted[p] + 1, gen |-> 1]

CodeExchanged(t, p) ==
    /\ Begin(t, "callback", p)
    /\ \E withRefresh, scoped \in BOOLEAN, e \in {"near", "far"} :
         /\ NewGrant(p, withRefresh)
         /\ got' = [got EXCEPT ![t] =
              [kind |-> "oauth", access |-> FirstTokenOf(p),
               refresh |-> IF withRefresh THEN FirstTokenOf(p) ELSE Null,
               expires |-> e, scopes |-> IF scoped THEN granted[p] + 1 ELSE 0]]
    /\ Goto(t, "callback_store")
    /\ UNCHANGED <<cred, holder, force, tok, result>>

CodeRefused(t, p) ==
    /\ Begin(t, "callback", p)
    /\ ReplyNow(t, "failed")

\* Mutant: the callback waits for the lock.
CallbackStoreLocks(t) ==
    /\ At(t, "callback_store")
    /\ holder[Home[t]] = Nobody
    /\ cred' = [cred EXCEPT ![prov[t]] = Upserted(@, got[t])]
    /\ Leave(t, "stored")
    /\ UNCHANGED oauthVars

CallbackStore(t) ==
    /\ At(t, "callback_store")
    /\ cred' = [cred EXCEPT ![prov[t]] = Upserted(@, got[t])]
    /\ Leave(t, "stored")
    /\ UNCHANGED oauthVars

-----------------------------------------------------------------------------
(* admin.rs, bootstrap: validate, upsert without refresh_lock, refresh.    *)

ValidBody(kind, withAccess, withRefresh) ==
    /\ kind = "oauth" => withAccess \/ withRefresh
    /\ kind = "api_key" => withAccess

\* The operator posts the first pair of a fresh consent, or part of it.  Assumed: nobody
\* posts a body a second time, which would put a token back that may be spent by then.
BootstrapRequest(t, p) ==
    /\ Begin(t, "bootstrap", p)
    /\ \E kind \in {"oauth", "api_key"}, withAccess, withRefresh, scoped \in BOOLEAN,
          e \in Expiry :
         \/ /\ ~ValidBody(kind, withAccess, withRefresh)
            /\ ReplyNow(t, "bad_request")
         \/ /\ ValidBody(kind, withAccess, withRefresh)
            /\ NewGrant(p, withRefresh)
            /\ got' = [got EXCEPT ![t] =
                 [kind |-> kind,
                  access |-> IF withAccess THEN FirstTokenOf(p) ELSE Null,
                  refresh |-> IF withRefresh THEN FirstTokenOf(p) ELSE Null,
                  expires |-> e, scopes |-> IF scoped THEN granted[p] + 1 ELSE 0]]
            /\ Goto(t, "bootstrap_store")
            /\ UNCHANGED <<cred, holder, force, tok, result>>

BootstrapStore(t) ==
    /\ At(t, "bootstrap_store")
    /\ cred' = [cred EXCEPT ![prov[t]] = Upserted(@, got[t])]
    /\ IF got[t].kind = "oauth" /\ got[t].refresh # Null
         THEN /\ Goto(t, "wait_lock")
              /\ got' = [got EXCEPT ![t] = NoRow]
              /\ UNCHANGED <<holder, op, prov, force, tok, result>>
         ELSE Leave(t, "stored")
    /\ UNCHANGED oauthVars

-----------------------------------------------------------------------------
(* refresh.rs, run_loop: every provider with an oauth row and a refresh    *)
(* token is refreshed, then the loop sleeps LOOP_INTERVAL.                 *)

\* Mutant: run_loop calls refresh_unlocked.
LoopGetUnlocked(v) ==
    /\ v \in Proc /\ At(v, "loop_get")
    /\ IF cred[prov[v]].kind = "oauth" /\ cred[prov[v]].refresh # Null
         THEN Goto(v, "refresh_get") /\ UNCHANGED <<holder, taskVars>>
         ELSE Leave(v, "stored")
    /\ UNCHANGED <<cred, oauthVars>>

LoopGet(v) ==
    /\ v \in Proc /\ At(v, "loop_get")
    /\ IF cred[prov[v]].kind = "oauth" /\ cred[prov[v]].refresh # Null
         THEN Goto(v, "wait_lock") /\ UNCHANGED <<holder, taskVars>>
         ELSE Leave(v, "stored")
    /\ UNCHANGED <<cred, oauthVars>>

LoopWakes(v) ==
    /\ v \in Proc /\ At(v, "sleep")
    /\ Goto(v, "loop_get")
    /\ UNCHANGED <<cred, oauthVars, holder, taskVars>>

-----------------------------------------------------------------------------
(* The world: time, and what can go wrong.                                 *)

\* expires_at comes within REFRESH_SKEW.
TimePasses(p) ==
    /\ cred[p].expires = "far"
    /\ cred' = [cred EXCEPT ![p].expires = "near"]
    /\ UNCHANGED <<oauthVars, holder, pc, taskVars>>

Running(t) == pc[t] \notin {"idle", "done"}

\* SIGTERM (or a crash): main returns, the runtime drops every task at its
\* await, and the restarted process begins its run_loop afresh.
Sigterm(v) ==
    LET killed == {t \in Request : Home[t] = v /\ Running(t)} IN
    /\ "sigterm" \in Faults
    /\ pc' = [t \in Task |-> IF t = v THEN "loop_get"
                             ELSE IF t \in killed THEN "done" ELSE pc[t]]
    /\ result' = [t \in Task |-> IF t \in killed THEN "gone" ELSE result[t]]
    /\ got' = [t \in Task |-> IF t = v \/ t \in killed THEN NoRow ELSE got[t]]
    /\ tok' = [t \in Task |-> IF t \in killed THEN Null ELSE tok[t]]
    /\ prov' = [prov EXCEPT ![v] = 1]
    /\ holder' = [holder EXCEPT ![v] = Nobody]
    /\ UNCHANGED <<cred, oauthVars, op, force>>

\* The client closes its connection: the server drops the handler's future at
\* the await it is at, and the guard with it.
Disconnect(t) ==
    /\ "disconnect" \in Faults
    /\ t \in Request /\ Running(t)
    /\ Leave(t, "gone")
    /\ UNCHANGED <<cred, oauthVars>>

\* A SQL statement fails: run_loop's own lookup reads it as nothing to refresh,
\* everything else returns the error.
SqlFails(t) ==
    /\ "sql" \in Faults
    /\ pc[t] \in SqlPc
    /\ Fail(t)
    /\ UNCHANGED <<cred, oauthVars>>

\* The token endpoint acts on the refresh request but its answer never arrives.
ResponseLost(t) ==
    /\ "response_lost" \in Faults
    /\ At(t, "token_request") /\ PresentsCurrent(t)
    /\ \E rotates \in BOOLEAN : Issue(prov[t], got[t].refresh.grant, rotates)
    /\ Fail(t)
    /\ UNCHANGED <<cred, granted>>

-----------------------------------------------------------------------------
Arrive(t) ==
    \E p \in Provider :
        \/ ProxyGet(t, p)
        \/ AuthzGet(t, p)
        \/ CodeExchanged(t, p)
        \/ CodeRefused(t, p)
        \/ BootstrapRequest(t, p)

\* Steps that wait for nobody but the scheduler and the database.
LocalStep(t) ==
    \/ Load(t)
    \/ Recheck(t)
    \/ RefreshGet(t)
    \/ RefreshStore(t)
    \/ Reload(t)
    \/ CallbackStore(t)
    \/ BootstrapStore(t)
    \/ LoopGet(t)
    \/ LoopWakes(t)

\* Steps that wait for a peer to answer.  state.rs builds the HTTP client
\* without a timeout, so nothing in the vault bounds them.
EndpointStep(t) == TokenEndpointGrants(t) \/ TokenEndpointRefuses(t)
UpstreamStep(t) == UpstreamAnswers(t) \/ Upstream401(t)

Fault ==
    \/ \E v \in Proc : Sigterm(v)
    \/ \E t \in Task : Disconnect(t) \/ SqlFails(t) \/ ResponseLost(t)

Next ==
    \/ \E t \in Task :
          \/ Arrive(t)
          \/ AcquireLock(t)
          \/ LocalStep(t)
          \/ EndpointStep(t)
          \/ UpstreamStep(t)
    \/ \E p \in Provider : TimePasses(p)
    \/ Fault

Spec == Init /\ [][Next]_vars

\* The runtime polls every ready task, the database answers, and tokio's mutex
\* is FIFO: a task that finds it released again and again gets it.
Fairness == \A t \in Task : WF_vars(LocalStep(t)) /\ SF_vars(AcquireLock(t))

FairSpec == Spec /\ Fairness

\* The token endpoints and the upstreams answer: an assumption about them that
\* nothing in the vault enforces, and a hypothesis of the properties that need it.
PeersAnswer == \A t \in Task : WF_vars(EndpointStep(t)) /\ WF_vars(UpstreamStep(t))

-----------------------------------------------------------------------------
(* Properties of the lock.                                                 *)

\* Refreshes are single-flight: from the recheck to the reload a task holds
\* its process's refresh_lock (refresh.rs, refresh and current_access).
SingleFlight == \A t \in Task : pc[t] \in LockedPc => holder[Home[t]] = t

\* The guard dies with the refresh: whatever ended it -- an early return, a `?`,
\* a dropped future, a SIGTERM -- a held refresh_lock is held by a task of that
\* process that is still inside the guarded region.
LockNeverLeaks ==
    \A v \in Proc : holder[v] # Nobody =>
        Home[holder[v]] = v /\ pc[holder[v]] \in LockedPc

-----------------------------------------------------------------------------
(* Properties of the tokens.                                               *)

\* The rotated token that task t has received and will store.
CarriesCurrent(t, p, g) ==
    /\ pc[t] = "refresh_store" /\ prov[t] = p
    /\ got[t].refresh.grant = g /\ got[t].refresh.gen = current[p][g]

\* The valid token of the row's grant is in the row, or in the hand of the refresh
\* that will put it there.
RotationIsHeld(p) ==
    LET r == cred[p].refresh IN
    r = Null \/ r.gen = current[p][r.grant] \/ \E t \in Task : CarriesCurrent(t, p, r.grant)

\* The refresh token in a row is the valid one of its grant, or the refresh that
\* spent it is about to store its successor (refresh.rs, refresh_unlocked).
StoredRefreshIsCurrent == \A p \in Provider : RotationIsHeld(p)

\* Whatever overlaps, in however many processes, a rotated refresh token is lost in
\* one way only: the refresh that rotated it is cut off before its upsert, by an
\* error or with its task (refresh.rs, from the token request to the upsert).
RotationIsLostInFlight ==
    [][\A p \in Provider : RotationIsHeld(p) /\ ~RotationIsHeld(p)' =>
          \E t \in Task : /\ prov[t] = p /\ pc[t] \in {"token_request", "refresh_store"}
                          /\ pc'[t] \notin LockedPc /\ UNCHANGED cred]_vars

\* The vault never presents a spent refresh token, which a provider that rotates
\* them may answer by revoking the grant (refresh.rs, the token request).
PresentedTokenIsCurrent == \A t \in Task : pc[t] = "token_request" => PresentsCurrent(t)

\* Writers that overlap never put back an older access token of the same grant
\* (store.rs, upsert, from refresh_unlocked, callback_inner and bootstrap).
AccessNeverGoesBack ==
    [][\A p \in Provider : cred'[p].access.grant = cred[p].access.grant
                              => cred'[p].access.gen >= cred[p].access.gen]_vars

\* The one retry after a 401 does not repeat the token that was just refused,
\* unless the credential is an api key, of which there is no other (proxy.rs,
\* handle_inner; refresh.rs, current_access with force).
RetryChangesToken ==
    [][\A t \in Request : pc'[t] = "resend" /\ pc[t] # "resend"
                              => tok'[t] # tok[t] \/ cred[prov[t]].kind = "api_key"]_vars

\* Requests that found the row stale together do not refresh one after the other:
\* whoever gets the lock later finds the refreshed row and leaves the token endpoint
\* alone (refresh.rs, the second test of current_access).  A first pair, which a
\* callback may store without the lock right after that test, is refreshed needlessly.
NoWastedRefresh ==
    [][\A t \in Request :
          pc[t] = "refresh_get" /\ pc'[t] = "token_request" /\ UsesCurrentAccess(t) /\ ~force[t]
              => cred[prov[t]].access.gen <= 1 \/ NeedsRefresh(cred[prov[t]].expires)]_vars

-----------------------------------------------------------------------------
(* Liveness.                                                               *)

\* If peers answer, so does the vault: every request that has begun gets through
\* any queue for the lock to an answer.
RequestsAreAnswered ==
    PeersAnswer => \A t \in Request : (pc[t] # "idle") ~> (pc[t] = "done")

\* If peers answer, run_loop comes to every provider again and again, whatever
\* failed at the one before it (refresh.rs, run_loop).
LoopVisitsEveryProvider ==
    PeersAnswer => \A v \in Proc, p \in Provider : []<>(pc[v] = "loop_get" /\ prov[v] = p)

\* If a task waits for refresh_lock forever, a refresh has hung at the token
\* endpoint: no slow upstream, client or failure can hold up the refreshes.
OnlyTheEndpointBlocks ==
    \A t \in Task : <>[](pc[t] = "wait_lock") => \E s \in Task : <>[](pc[s] = "token_request")

\* A consent waits for nobody: its callback comes to an end, stored or failed, even
\* while a refresh hangs and others queue for the lock.
CallbackIsNotBlocked ==
    \A t \in Request : (pc[t] = "callback_store") ~> (pc[t] = "done")

-----------------------------------------------------------------------------
(* What the documentation says and the code does not keep.                 *)

\* oauth.rs:12, "Credential stored. You can retry your request.": the refresh
\* token of a newer consent is not replaced by that of an older one.
ConnectIsNotUndone ==
    [][\A p \in Provider : cred'[p].refresh.grant >= cred[p].refresh.grant]_vars

\* WEP-0006, "write back rotated refresh tokens", on an orderly shutdown too.
RotatedTokenIsWrittenBack == StoredRefreshIsCurrent

\* store.rs:160, "Scopes the provider actually granted": the scopes shown beside
\* a credential are those of the grant its access token belongs to.
ScopesDescribeAccess ==
    \A p \in Provider : cred[p].scopes # 0 => cred[p].scopes = cred[p].access.grant
=============================================================================
