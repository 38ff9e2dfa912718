---------------------------- MODULE OpencodeAuth ----------------------------
(***************************************************************************)
(* The login of .opencode/plugins/ai-gateway.ts: `authorize` opens a       *)
(* listener on one fixed port and waits for the browser's redirect; the    *)
(* request handler, suspended while it exchanges the code, and a timeout   *)
(* race to settle the promise.  Attempts follow and overlap each other,    *)
(* tabs of older attempts come back late and are reloaded, and others use  *)
(* the same callback URL: oauth2c, for scripts/ai-gateway-login.sh, and    *)
(* whoever opens it by hand.                                               *)
(***************************************************************************)
EXTENDS Integers, FiniteSets

CONSTANTS
    Login,      \* attempts to log in; also names the state, verifier and code of each
    MaxReload,  \* bound: how often a redirect is requested
    Foreign,    \* whoever else uses the callback URL
    Nobody

ASSUME OpencodeAssumption ==
    /\ MaxReload \in Nat \ {0}
    /\ Nobody \notin Login /\ Foreign \notin Login /\ Foreign # Nobody

Caller == Login \cup {Foreign}

VARIABLES
    port,       \* who has CALLBACK_PORT: the listener of an attempt, somebody else's
    promise,    \* promise[l]: the credential promise of attempt l
    timer,      \* the attempts whose setTimeout is armed
    tab,        \* tab[l]: what the redirect of l carries: a code, an error, nothing yet
    requests,   \* requests[r]: how often the redirect of r was requested from an attempt
    exchange,   \* exchange[l]: suspended handlers of listener l, by token response
    tokens,     \* tokens[l]: what Auth0 has issued for the code of l
    page        \* page[r]: what the plugin told the tab of r

vars == <<port, promise, timer, tab, requests, exchange, tokens, page>>

Settled == {"resolved", "rejected"}
\* the token request is out; its response has both tokens, no refresh token, no token
Stage == {"sent", "issued", "partial", "refused"}

TypeOK ==
    /\ port \in Caller \cup {Nobody}
    /\ promise \in [Login -> {"new", "waiting"} \cup Settled]
    /\ timer \subseteq Login
    /\ tab \in [Login -> {"none", "code", "error"}]
    /\ requests \in [Caller -> 0 .. MaxReload]
    /\ exchange \in [Login -> [Stage -> 0 .. MaxReload]]
    /\ tokens \in [Login -> {"none", "issued", "partial"}]
    /\ page \in [Caller -> {"none", "success", "failure"}]

Init ==
    /\ port = Nobody /\ timer = {}
    /\ promise = [l \in Login |-> "new"]
    /\ tab = [l \in Login |-> "none"]
    /\ requests = [r \in Caller |-> 0]
    /\ exchange = [l \in Login |-> [g \in Stage |-> 0]]
    /\ tokens = [l \in Login |-> "none"]
    /\ page = [r \in Caller |-> "none"]

-----------------------------------------------------------------------------
\* A promise settles once.
Settle(l, p) == promise' = [promise EXCEPT ![l] = IF @ = "waiting" THEN p ELSE @]

\* Mutant of stop(true): whoever listens.
StopAny(l) == port' = Nobody

\* server.stop(true), of the listener of l and no other.
Stop(l) == port' = IF port = l THEN Nobody ELSE port

\* Mutant: stop() lets the suspended handlers answer.
TellLate(l, r, text) == page' = [page EXCEPT ![r] = text]

\* The listener of l answers the tab of r.  stop(true) has closed the connections of a
\* listener that is gone; it runs in a microtask, so even the response of the handler
\* that stops it may be cut.
Tell(l, r, text) ==
    \/ port = l /\ page' = [page EXCEPT ![r] = text]
    \/ UNCHANGED page

\* authorize: Bun.serve throws when somebody else has the port, which rejects the
\* promise before there is a timer.
Authorize(l) ==
    /\ promise[l] = "new"
    /\ IF port = Nobody
         THEN /\ port' = l
              /\ promise' = [promise EXCEPT ![l] = "waiting"]
              /\ timer' = timer \cup {l}
         ELSE /\ promise' = [promise EXCEPT ![l] = "rejected"]
              /\ UNCHANGED <<port, timer>>
    /\ UNCHANGED <<tab, requests, exchange, tokens, page>>

\* The user consents, or does not, in the tab of attempt l, whoever listens by now.
Consent(l) ==
    /\ promise[l] # "new" /\ tab[l] = "none"
    /\ \E c \in {"code", "error"} : tab' = [tab EXCEPT ![l] = c]
    /\ UNCHANGED <<port, promise, timer, requests, exchange, tokens, page>>

\* The browser requests the redirect of r from the listener of l; what it requests
\* beside /callback is answered 404 and changes nothing.
Requested(l, r) ==
    /\ port = l /\ (r \in Login => tab[r] # "none") /\ requests[r] < MaxReload
    /\ requests' = [requests EXCEPT ![r] = @ + 1]

\* Mutant: any path is taken for the redirect, /favicon.ico too.
TurnedByAnyPath(l, r) ==
    /\ \/ Requested(l, r) /\ (r = l => tab[r] = "error")
       \/ port = l /\ UNCHANGED requests
    /\ Settle(l, "rejected") /\ Stop(l) /\ Tell(l, r, "failure")
    /\ UNCHANGED <<timer, tab, exchange, tokens>>

\* The redirect of somebody else, whatever state it carries or none, or one without a
\* code, ends this attempt.
Turned(l, r) ==
    /\ Requested(l, r)
    /\ r = l => tab[r] = "error"
    /\ Settle(l, "rejected") /\ Stop(l) /\ Tell(l, r, "failure")
    /\ UNCHANGED <<timer, tab, exchange, tokens>>

\* The code of this attempt: the handler suspends at tokenRequest.
Accept(l) ==
    /\ Requested(l, l) /\ tab[l] = "code"
    /\ exchange' = [exchange EXCEPT ![l]["sent"] = @ + 1]
    /\ UNCHANGED <<port, promise, timer, tab, tokens, page>>

\* Mutant: the handler sends a refused request again.
RedeemRetries(l) ==
    /\ exchange[l]["sent"] > 0
    /\ exchange' = [exchange EXCEPT ![l]["refused"] = @ + 1]
    /\ UNCHANGED <<port, promise, timer, tab, requests, tokens, page>>

\* Auth0 answers: it redeems a code once, may fail for reasons of its own, and may
\* issue an access token alone.
Redeem(l) ==
    /\ exchange[l]["sent"] > 0
    /\ \E g \in {"issued", "partial", "refused"} :
         /\ g # "refused" => tokens[l] = "none"
         /\ exchange' = [exchange EXCEPT ![l]["sent"] = @ - 1, ![l][g] = @ + 1]
         /\ tokens' = IF g = "refused" THEN tokens ELSE [tokens EXCEPT ![l] = g]
    /\ UNCHANGED <<port, promise, timer, tab, requests, page>>

\* fetch or json throws, on the way to Auth0 or on the way back: the handler ends
\* without finish, the listener stays, and the browser gets Bun's own error page.
Throw(l) ==
    /\ exchange[l]["sent"] > 0
    /\ exchange' = [exchange EXCEPT ![l]["sent"] = @ - 1]
    /\ \/ UNCHANGED tokens
       \/ /\ tokens[l] = "none"
          /\ \E g \in {"issued", "partial"} : tokens' = [tokens EXCEPT ![l] = g]
    /\ UNCHANGED <<port, promise, timer, tab, requests, page>>

\* The handler resumes with a token response, in any order with other handlers
\* of the same listener and with the timeout; oauthCredential wants both tokens.
Finish(l, g) ==
    /\ g # "sent" /\ exchange[l][g] > 0
    /\ exchange' = [exchange EXCEPT ![l][g] = @ - 1]
    /\ Settle(l, IF g = "issued" THEN "resolved" ELSE "rejected")
    /\ Stop(l)
    /\ Tell(l, l, IF g = "issued" THEN "success" ELSE "failure")
    /\ UNCHANGED <<timer, tab, requests, tokens>>

\* Mutant: the timer stops the listener and leaves the promise.
TimeoutSilent(l) ==
    /\ l \in timer /\ timer' = timer \ {l}
    /\ Stop(l)
    /\ UNCHANGED <<promise, tab, requests, exchange, tokens, page>>

\* setTimeout fires, also after the login was settled.
Timeout(l) ==
    /\ l \in timer /\ timer' = timer \ {l}
    /\ Stop(l) /\ Settle(l, "rejected")
    /\ UNCHANGED <<tab, requests, exchange, tokens, page>>

\* oauth2c opens and closes a listener of its own on the port.
Borrow ==
    /\ \/ port = Nobody /\ port' = Foreign
       \/ port = Foreign /\ port' = Nobody
    /\ UNCHANGED <<promise, timer, tab, requests, exchange, tokens, page>>

Next ==
    \/ \E l \in Login :
          \/ Authorize(l)
          \/ Consent(l)
          \/ \E r \in Caller : Turned(l, r)
          \/ Accept(l)
          \/ Redeem(l)
          \/ Throw(l)
          \/ \E g \in Stage : Finish(l, g)
          \/ Timeout(l)
    \/ Borrow

\* A timer that is set fires.  Neither the user nor Auth0 has to answer.
Spec == Init /\ [][Next]_vars /\ \A l \in Login : WF_vars(Timeout(l))

-----------------------------------------------------------------------------
\* An attempt that waits has the listener, and a listener has an attempt that
\* waits: nobody waits for a redirect that cannot reach it, and the port is never
\* taken from the next attempt by one that is over (finish, setTimeout, Bun.serve).
ListenerIsWaitedFor == \A l \in Login : port = l <=> promise[l] = "waiting"

\* A browser that was told "Login successful" belongs to a login that succeeded,
\* however its reloads and the timeout raced the exchange (stop(true) in finish).
SuccessIsTrue == \A l \in Login : page[l] = "success" => promise[l] = "resolved"

\* A login for which Auth0 has issued tokens ends without them for one of four reasons
\* and no other: no refresh token came with them, the timeout fired, its redirect was
\* reloaded, or a redirect of somebody else arrived (oauthCredential, the comparison
\* of the states, the handler suspended at tokenRequest, setTimeout).
TokensReachTheLogin ==
    \A l \in Login : tokens[l] # "none" /\ promise[l] = "rejected" =>
        \/ tokens[l] = "partial"
        \/ l \notin timer
        \/ requests[l] > 1
        \/ \E r \in Caller \ {l} : requests[r] > 0

\* "the TUI prompt can otherwise hang forever": every login settles, and its port
\* becomes free, although neither the user nor Auth0 ever answers.
LoginSettles == \A l \in Login : (promise[l] = "waiting") ~> (promise[l] \in Settled)
=============================================================================
