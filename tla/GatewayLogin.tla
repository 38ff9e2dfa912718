---------------------------- MODULE GatewayLogin ----------------------------
(***************************************************************************)
(* scripts/ai-gateway-login.sh: sessions that read the gateway's rotating  *)
(* refresh token from a 1Password item, spend it at Auth0 (or send the     *)
(* user to the browser) and write its successor back.  The api-key helper  *)
(* of Claude Code runs it every few minutes and on every 401, in every     *)
(* shell, so sessions overlap; a session may be interrupted anywhere.      *)
(***************************************************************************)
EXTENDS Integers, Sequences, FiniteSets

CONSTANTS
    Session,    \* shells that run the script, again and again
    MaxToken,   \* bound: refresh tokens Auth0 issues
    MaxItem,    \* bound: items of that title
    Faults      \* subset of {"kill", "op", "lost", "lapse", "login"}

ASSUME LoginAssumption ==
    /\ MaxToken \in Nat /\ MaxItem \in Nat
    /\ Faults \subseteq {"kill", "op", "lost", "lapse", "login"}

VARIABLES
    items,      \* the 1Password items titled $TOKEN_ITEM: their refresh tokens
    family,     \* family[k]: the login that refresh token k descends from
    live,       \* the refresh tokens Auth0 would accept
    spent,      \* the refresh tokens that were rotated
    pc,         \* pc[s]: the command session s is about to run
    existing,   \* existing[s]: $existing_item is not empty
    stored,     \* stored[s]: $stored_refresh_token
    result,     \* result[s]: the refresh token in $result
    alone,      \* alone[s]: since s began, no fault and no step of another session
    quiet,      \* no fault and no overlap in the whole history
    logins      \* consents given in the browser

authVars == <<family, live, spent, logins>>
vars == <<items, family, live, spent, pc, existing, stored, result, alone, quiet, logins>>

Nothing == 0
Issued == 1 .. Len(family)

TypeOK ==
    /\ items \in Seq(Issued \cup {Nothing}) /\ Len(items) <= MaxItem
    /\ family \in Seq(1 .. MaxToken) /\ Len(family) <= MaxToken
    /\ live \subseteq Issued /\ spent \subseteq Issued
    /\ pc \in [Session -> {"idle", "get", "refresh", "login", "check", "write"}]
    /\ existing \in [Session -> BOOLEAN]
    /\ stored \in [Session -> Issued \cup {Nothing}]
    /\ result \in [Session -> Issued \cup {Nothing}]
    /\ alone \in [Session -> BOOLEAN] /\ quiet \in BOOLEAN
    /\ logins \in 0 .. MaxToken
    /\ \A s \in Session : pc[s] = "refresh" => stored[s] # Nothing

Init ==
    /\ items = <<>> /\ family = <<>> /\ live = {} /\ spent = {}
    /\ pc = [s \in Session |-> "idle"]
    /\ existing = [s \in Session |-> FALSE]
    /\ stored = [s \in Session |-> Nothing]
    /\ result = [s \in Session |-> Nothing]
    /\ alone = [s \in Session |-> TRUE]
    /\ quiet = TRUE /\ logins = 0

-----------------------------------------------------------------------------
At(s, label) == pc[s] = label
Goto(s, label) == pc' = [pc EXCEPT ![s] = label]

\* History: s takes a step, a faulty one or not, beside whoever is running.
Observe(s, faulty) ==
    /\ alone' = [u \in Session |->
                    IF u # s THEN alone[u] /\ pc[u] = "idle"
                    ELSE ~faulty /\ (pc[s] = "idle" \/ alone[s])]
    /\ quiet' = (quiet /\ ~faulty /\ \A u \in Session \ {s} : pc[u] = "idle")

Start(s) ==
    /\ At(s, "idle") /\ Goto(s, "get")
    /\ Observe(s, FALSE)
    /\ UNCHANGED <<items, authVars, existing, stored, result>>

\* Mutant: do_refresh is tried without testing that there is a token.
GetUntested(s) ==
    /\ At(s, "get") /\ Goto(s, "refresh")
    /\ existing' = [existing EXCEPT ![s] = Len(items) = 1]
    /\ stored' = [stored EXCEPT ![s] = IF Len(items) = 1 THEN items[1] ELSE Nothing]
    /\ Observe(s, FALSE)
    /\ UNCHANGED <<items, authVars, result>>

\* `op item get` fails without an item, with several of that title, and whenever
\* 1Password is locked or out of reach; the script reads all of it as a first run.
Get(s) ==
    /\ At(s, "get")
    /\ \E fails \in IF "op" \in Faults THEN BOOLEAN ELSE {FALSE} :
         LET found == Len(items) = 1 /\ ~fails IN
         /\ existing' = [existing EXCEPT ![s] = found]
         /\ stored' = [stored EXCEPT ![s] = IF found THEN items[1] ELSE Nothing]
         /\ Goto(s, IF found /\ items[1] # Nothing THEN "refresh" ELSE "login")
         /\ Observe(s, fails)
    /\ UNCHANGED <<items, authVars, result>>

\* Auth0 issues the next refresh token, of login f.
Issue(f) == Len(family) < MaxToken /\ family' = Append(family, f)

\* do_refresh: Auth0 rotates, and the answer may get lost on its way back.
Rotate(s) ==
    /\ At(s, "refresh") /\ stored[s] \in live
    /\ Issue(family[stored[s]])
    /\ live' = (live \ {stored[s]}) \cup {Len(family')}
    /\ spent' = spent \cup {stored[s]}
    /\ \/ /\ result' = [result EXCEPT ![s] = Len(family')]
          /\ Goto(s, "check") /\ Observe(s, FALSE)
       \/ /\ "lost" \in Faults /\ Goto(s, "login")
          /\ Observe(s, TRUE) /\ UNCHANGED result
    /\ UNCHANGED <<items, existing, stored, logins>>

\* A token that is no longer valid is refused, and presenting a spent one again may
\* cost the whole family; or Auth0 is not reached.  The script falls back to the
\* browser in every case.
Refuse(s) ==
    /\ At(s, "refresh") /\ Goto(s, "login")
    /\ stored[s] \notin live \/ "lost" \in Faults
    /\ \/ UNCHANGED live
       \/ /\ stored[s] \in spent
          /\ live' = {k \in live : family[k] # family[stored[s]]}
    /\ Observe(s, stored[s] \in live)
    /\ UNCHANGED <<items, family, spent, existing, stored, result, logins>>

\* do_full_login: a new login, whose first refresh token Auth0 may withhold.
FullLogin(s) ==
    /\ At(s, "login")
    /\ \/ /\ logins' = logins + 1
          /\ Issue(logins')
          /\ live' = live \cup {Len(family')}
          /\ result' = [result EXCEPT ![s] = Len(family')]
          /\ Observe(s, FALSE)
       \/ /\ "login" \in Faults /\ Observe(s, TRUE)
          /\ UNCHANGED <<family, live, result, logins>>
    /\ Goto(s, "check")
    /\ UNCHANGED <<items, spent, existing, stored>>

-----------------------------------------------------------------------------
\* The process ends, its shell variables with it.
Exit(s) ==
    /\ Goto(s, "idle")
    /\ existing' = [existing EXCEPT ![s] = FALSE]
    /\ stored' = [stored EXCEPT ![s] = Nothing]
    /\ result' = [result EXCEPT ![s] = Nothing]

\* Mutant: a response without a refresh token is written like any other.
CheckNothing(s) ==
    /\ At(s, "check") /\ Goto(s, "write")
    /\ Observe(s, FALSE)
    /\ UNCHANGED <<items, authVars, existing, stored, result>>

\* "not overwriting any existing stored refresh token with this"
Check(s) ==
    /\ At(s, "check")
    /\ IF result[s] = Nothing THEN Exit(s)
       ELSE Goto(s, "write") /\ UNCHANGED <<existing, stored, result>>
    /\ Observe(s, FALSE)
    /\ UNCHANGED <<items, authVars>>

\* build_template: the new pair in the fields of the item, refresh_token added to
\* a Login item that has none.
Template(s) == result[s]

\* Mutants: a new item each time, and the item as it was read.
CreateAlways(s) == Len(items) < MaxItem /\ items' = Append(items, Template(s))
EditKeepsOld(s) ==
    IF existing[s] THEN items' = <<stored[s]>> ELSE items' = Append(items, Template(s))

\* `op item edit` needs the title to name one item, `op item create` does not.
Save(s) ==
    IF existing[s] THEN Len(items) = 1 /\ items' = <<Template(s)>>
    ELSE Len(items) < MaxItem /\ items' = Append(items, Template(s))

Write(s) ==
    /\ At(s, "write") /\ Save(s) /\ Exit(s)
    /\ Observe(s, FALSE)
    /\ UNCHANGED authVars

\* `set -e`: the title has become ambiguous, or 1Password does not answer.
WriteFails(s) ==
    /\ At(s, "write")
    /\ (existing[s] /\ Len(items) # 1) \/ "op" \in Faults
    /\ Exit(s) /\ Observe(s, TRUE)
    /\ UNCHANGED <<items, authVars>>

\* The terminal is closed, the machine sleeps, the caller gives up.
Kill(s) ==
    /\ "kill" \in Faults /\ ~At(s, "idle")
    /\ Exit(s) /\ Observe(s, TRUE)
    /\ UNCHANGED <<items, authVars>>

\* A stored refresh token reaches its 30 days, or is revoked.
Lapse(k) ==
    /\ "lapse" \in Faults /\ k \in live
    /\ \A s \in Session : result[s] # k
    /\ live' = live \ {k}
    /\ alone' = [s \in Session |-> alone[s] /\ pc[s] = "idle"]
    /\ quiet' = FALSE
    /\ UNCHANGED <<items, family, spent, pc, existing, stored, result, logins>>

Next ==
    \/ \E s \in Session :
          \/ Start(s)
          \/ Get(s)
          \/ Rotate(s)
          \/ Refuse(s)
          \/ FullLogin(s)
          \/ Check(s)
          \/ Write(s)
          \/ WriteFails(s)
          \/ Kill(s)
    \/ \E k \in Issued : Lapse(k)

Spec == Init /\ [][Next]_vars

-----------------------------------------------------------------------------
\* "the new one always gets written back", "not overwriting any existing stored
\* refresh token with this": whatever fails, an item that held a refresh token
\* holds one afterwards (the tests after both calls of oauth2c).
TokenIsNotErased == [][\A i \in DOMAIN items : items[i] # Nothing => items'[i] # Nothing]_vars

\* Sessions that neither overlap nor fail need one browser login between them and
\* share one item, through any number of rotations ("On every later run it tries
\* the stored refresh token first, silently").
OneLoginIsEnough == quiet => logins <= 1 /\ Len(items) <= 1

\* Whatever overlaps, interruptions and losses came before, a session that runs
\* undisturbed over at most one item leaves that item with a valid refresh token.
UndisturbedSessionRepairs ==
    [][\A s \in Session :
          pc[s] = "write" /\ pc'[s] = "idle" /\ alone'[s] /\ Len(items) <= 1
              => Len(items') = 1 /\ items'[1] \in live']_vars

-----------------------------------------------------------------------------
\* "never reuse a refresh token after this script has consumed it"
NoReuse == [][\A s \in Session : pc[s] = "refresh" /\ pc'[s] \in {"check", "login"}
                                     => stored[s] \notin spent]_vars
=============================================================================
