---------------------------- MODULE AccessProofs ----------------------------
(***************************************************************************)
(* Where access tokens come from and where they go, whatever fails:        *)
(* RetryChangesToken for any number of processes, AccessNeverGoesBack and  *)
(* NoWastedRefresh for one, whose lock orders its refreshes.               *)
(***************************************************************************)
EXTENDS TokenVaultProofs

\* A task has in hand what it is about to present or to store.
Consenting(t) == pc[t] \in {"callback_store", "bootstrap_store"}
InHand(t) == Consenting(t) \/ pc[t] \in {"token_request", "refresh_store"}

\* A task has in hand what it will store.
Storing(t) == Consenting(t) \/ pc[t] = "refresh_store"

\* Token k of provider p has been issued: whatever is issued next is another one.
Known(p, k) == k = Null \/ (k.grant <= granted[p] /\ k.gen <= issued[p][k.grant])

TokensAreKnown ==
    /\ \A p \in Provider : Known(p, cred[p].access) /\ Known(p, cred[p].refresh)
    /\ \A t \in Task : Known(prov[t], tok[t])
    /\ \A t \in Task : InHand(t) =>
         Known(prov[t], got[t].access) /\ Known(prov[t], got[t].refresh)

\* Only a proxied request that is under way carries a token, and only requests ask
\* current_access for one.
TokIsCarried ==
    /\ \A t \in Task : pc[t] = "idle" => tok[t] = Null
    /\ \A v \in Proc : tok[v] = Null /\ op[v] = "loop"
                       /\ pc[v] \notin {"idle", "load", "recheck", "reload", "send"}

\* A row without a kind is no row, and no such row is stored.
KindInv ==
    /\ \A p \in Provider : cred[p].kind = "none" => cred[p].access = Null
    /\ \A t \in Task : Storing(t) => got[t].kind # "none"

\* An access token that is about to be stored has not been seen before: it is not
\* in the row, no request carries it, nobody else is about to store it.
StoresNew(t) ==
    Storing(t) /\ got[t].access # Null =>
        /\ cred[prov[t]].access # got[t].access
        /\ \A s \in Task : prov[s] = prov[t] =>
             /\ tok[s] # got[t].access
             /\ s # t /\ Storing(s) => got[s].access # got[t].access

\* What a forced refresh will return is not what the upstream has refused.
RetryIsNew(t) ==
    pc[t] = "reload" /\ force[t] =>
        cred[prov[t]].access = Null \/ cred[prov[t]].access # tok[t]

AccessInv ==
    /\ TokensAreKnown
    /\ TokIsCarried
    /\ KindInv
    /\ \A t \in Task : StoresNew(t) /\ RetryIsNew(t)

\* With one process: what a refresh is about to store is the newest pair of its
\* grant, a consent in hand is of a grant that nobody else has heard of, and a row
\* that was found stale under the lock is refreshed by nobody else.
RefreshIsNewest(t) ==
    pc[t] = "refresh_store" =>
        /\ got[t].access # Null
        /\ got[t].access.gen = issued[prov[t]][got[t].access.grant]

OfGrant(row, g) == row.access.grant = g \/ row.refresh.grant = g

\* g is the grant of the consent t has in hand.
ConsentOf(t, g) ==
    /\ g <= granted[prov[t]]
    /\ got[t].access = Null \/ got[t].access = [grant |-> g, gen |-> 1]
    /\ got[t].refresh = Null \/ got[t].refresh.grant = g
    /\ ~OfGrant(cred[prov[t]], g)
    /\ \A s \in Task \ {t} : InHand(s) /\ prov[s] = prov[t] => ~OfGrant(got[s], g)

ConsentIsNew(t) == Consenting(t) => \E g \in 1 .. MaxGrant : ConsentOf(t, g)

StaysStale(t) ==
    pc[t] = "refresh_get" /\ UsesCurrentAccess(t) /\ ~force[t] =>
        cred[prov[t]].access.gen <= 1 \/ NeedsRefresh(cred[prov[t]].expires)

OrderInv == \A t \in Task : RefreshIsNewest(t) /\ ConsentIsNew(t) /\ StaysStale(t)

-----------------------------------------------------------------------------
(* What a step of task t can do, in the terms of these invariants.         *)

OtherTasksKeep(t) ==
    \A s \in Task \ {t} :
        /\ pc'[s] = pc[s] /\ prov'[s] = prov[s] /\ got'[s] = got[s]
        /\ tok'[s] = tok[s] /\ force'[s] = force[s] /\ op'[s] = op[s]

\* A fault ends it in the middle of a refresh.
CutOff(t) == Faults # {} /\ pc'[t] \notin LockedPc

\* It only looks, or gives up.
Quiet(t) ==
    /\ UNCHANGED <<cred, granted, issued, current>>
    /\ ~InHand(t)'
    /\ pc[t] = "refresh_store" => CutOff(t)

\* It takes the row in hand.
TakesRow(t) ==
    /\ UNCHANGED <<cred, granted, issued, current, prov>>
    /\ pc[t] = "refresh_get" /\ pc'[t] = "token_request"
    /\ got'[t] = cred[prov[t]] /\ cred[prov[t]].refresh # Null

\* The token endpoint accepts the valid refresh token and issues a pair, which is
\* lost or in hand; the pair has a refresh token if the old one is spent.
Issues(t) ==
    LET p == prov[t]
        g == got[t].refresh.grant IN
    /\ pc[t] = "token_request" /\ got[t].refresh # Null /\ PresentsCurrent(t)
    /\ UNCHANGED <<cred, granted>>
    /\ issued[p][g] < MaxGen
    /\ issued' = [issued EXCEPT ![p][g] = @ + 1]
    /\ \E rotates \in BOOLEAN :
         /\ current' = [current EXCEPT ![p][g] = IF rotates THEN issued[p][g] + 1 ELSE @]
         /\ \/ ~InHand(t)' /\ CutOff(t)
            \/ /\ pc'[t] = "refresh_store" /\ prov'[t] = p
               /\ got'[t].kind # "none"
               /\ got'[t].access = [grant |-> g, gen |-> issued[p][g] + 1]
               /\ got'[t].refresh = IF rotates THEN got'[t].access ELSE Null

\* A new grant is given and its first tokens are in hand.
Consents(t) ==
    LET p == prov'[t] IN
    /\ pc[t] = "idle" /\ Consenting(t)'
    /\ UNCHANGED cred
    /\ granted[p] < MaxGrant /\ MaxGen > 0
    /\ granted' = [granted EXCEPT ![p] = @ + 1]
    /\ issued' = [issued EXCEPT ![p][granted[p] + 1] = 1]
    /\ got'[t].kind # "none"
    /\ got'[t].access \in {Null, FirstTokenOf(p)}
    /\ \E refreshable \in BOOLEAN :
         /\ current' = [current EXCEPT ![p][granted[p] + 1] = IF refreshable THEN 1 ELSE 0]
         /\ got'[t].refresh = IF refreshable THEN FirstTokenOf(p) ELSE Null

\* What was in hand is stored.
Stores(t) ==
    /\ Storing(t) /\ ~InHand(t)'
    /\ cred' = [cred EXCEPT ![prov[t]] = Upserted(@, got[t])]
    /\ UNCHANGED <<granted, issued, current>>

\* The token it carries afterwards, if any.
Carries(t) ==
    \/ tok'[t] = Null
    \/ tok'[t] = tok[t] /\ prov'[t] = prov[t]
    \/ UNCHANGED cred /\ ~InHand(t)' /\ tok'[t] = cred[prov'[t]].access

\* Where it comes from and where it may get to.
Arrives(t) ==
    /\ pc'[t] # "idle"
    /\ t \in Proc =>
         /\ tok'[t] = Null /\ op'[t] = "loop"
         /\ pc'[t] \notin {"idle", "load", "recheck", "reload", "send"}
    /\ pc'[t] = "reload" /\ force'[t] =>
         Stores(t) /\ pc[t] = "refresh_store" /\ tok'[t] = tok[t] /\ prov'[t] = prov[t]
    /\ pc'[t] = "refresh_get" /\ UsesCurrentAccess(t)' /\ ~force'[t] =>
         /\ UNCHANGED cred
         /\ cred[prov'[t]].access = Null \/ NeedsRefresh(cred[prov'[t]].expires)
    /\ pc'[t] = "resend" =>
         pc[t] = "resend" \/ tok'[t] # tok[t] \/ cred[prov[t]].kind = "api_key"

TaskStep(t) ==
    /\ OtherTasksKeep(t)
    /\ Quiet(t) \/ TakesRow(t) \/ Issues(t) \/ Consents(t) \/ Stores(t)
    /\ Carries(t)
    /\ Arrives(t)

-----------------------------------------------------------------------------
(* Every step of a task is one.                                            *)

LEMMA TokenOfRow ==
  ASSUME TypeOK
  PROVE  /\ \A p \in Provider : /\ cred[p].access \in Token /\ cred[p].refresh \in Token
                                /\ cred[p].kind \in Kind
         /\ \A t \in Task : /\ got[t].access \in Token /\ got[t].refresh \in Token
                            /\ tok[t] \in Token /\ prov[t] \in Provider
  BY DEF TypeOK, Row

LEMMA TokenGrant ==
  ASSUME NEW r \in Token
  PROVE  /\ r.grant \in Nat /\ r.gen \in Nat
         /\ r # Null => r.grant \in 1 .. MaxGrant /\ r.gen \in 1 .. MaxGen
         /\ r = Null => r.grant = 0
  BY BoundsAssumption DEF Token, Null

\* With one process there is one lock: two tasks are not both past it.
LEMMA OneInside ==
  ASSUME Inv, NEW v, Proc = {v}, NEW s \in Task, NEW t \in Task,
         pc[s] \in LockedPc, pc[t] \in LockedPc
  PROVE  s = t
  BY HomeTyped DEF Inv, LockInv, SingleFlight

LEMMA ProcIsLoop ==
  ASSUME AccessInv, NEW t \in Proc
  PROVE  /\ tok[t] = Null /\ op[t] = "loop"
         /\ pc[t] \notin {"idle", "load", "recheck", "reload", "send"}
         /\ ~UsesCurrentAccess(t)
  BY DEF AccessInv, TokIsCarried, UsesCurrentAccess

\* The end of a task.
LEMMA LeaveStep ==
  ASSUME TypeOK, AccessInv, NEW t \in Task, NEW r, Leave(t, r)
  PROVE  OtherTasksKeep(t) /\ ~InHand(t)' /\ pc'[t] \notin LockedPc /\ Carries(t) /\ Arrives(t)
<1>1. OtherTasksKeep(t)
  BY DEF Leave, Goto, OtherTasksKeep, TypeOK
<1>2. /\ pc'[t] \in {"loop_get", "sleep", "done"}
      /\ tok'[t] = Null /\ op'[t] = op[t]
  BY DEF Leave, Goto, TypeOK
<1>3. QED
  BY <1>1, <1>2, ProcIsLoop DEF InHand, Consenting, LockedPc, Carries, Arrives

LEMMA FailStep ==
  ASSUME TypeOK, AccessInv, NEW t \in Task, Fail(t)
  PROVE  OtherTasksKeep(t) /\ ~InHand(t)' /\ pc'[t] \notin LockedPc /\ Carries(t) /\ Arrives(t)
  BY LeaveStep DEF Fail

\* A step of t to l that keeps the token it carries.
LEMMA GotoStep ==
  ASSUME TypeOK, AccessInv, NEW t \in Task, NEW l, Goto(t, l),
         l \notin {"idle", "reload", "refresh_get", "resend"},
         t \in Proc => l \notin {"load", "recheck", "send"},
         \A s \in Task \ {t} : got'[s] = got[s] /\ force'[s] = force[s],
         UNCHANGED <<op, prov, tok>>
  PROVE  OtherTasksKeep(t) /\ pc'[t] = l /\ Carries(t) /\ Arrives(t)
<1>1. /\ pc'[t] = l
      /\ \A s \in Task \ {t} : pc'[s] = pc[s]
  BY DEF Goto, TypeOK
<1>2. QED
  BY <1>1, ProcIsLoop DEF OtherTasksKeep, Carries, Arrives

\* current_access returns.
LEMMA ReturnAccessStep ==
  ASSUME TypeOK, AccessInv, NEW t \in Task,
         ReturnAccess(t, cred[prov[t]].access),
         UNCHANGED <<cred, granted, issued, current>>, pc[t] \in {"load", "reload"},
         force[t] => \/ cred[prov[t]].kind = "api_key"
                     \/ cred[prov[t]].access = Null
                     \/ cred[prov[t]].access # tok[t]
  PROVE  TaskStep(t)
<1> DEFINE a == cred[prov[t]].access
<1>1. CASE Fail(t) \/ Leave(t, "served")
  BY <1>1, FailStep, LeaveStep DEF TaskStep, Quiet
<1>2. CASE /\ a # Null
           /\ tok' = [tok EXCEPT ![t] = a]
           /\ Goto(t, IF force[t] THEN "resend" ELSE "send")
           /\ UNCHANGED <<op, prov, force, got>>
  <2>1. /\ \A s \in Task \ {t} : pc'[s] = pc[s] /\ tok'[s] = tok[s]
        /\ pc'[t] \in {"resend", "send"}
        /\ pc'[t] = "resend" => force[t]
        /\ tok'[t] = a
    BY <1>2 DEF Goto, TypeOK
  <2>2. OtherTasksKeep(t) /\ ~InHand(t)' /\ Carries(t)
    BY <1>2, <2>1 DEF OtherTasksKeep, InHand, Consenting, Carries
  <2>3. t \notin Proc
    BY ProcIsLoop
  <2>4. Arrives(t)
    BY <1>2, <2>1, <2>3 DEF Arrives
  <2>5. QED
    BY <2>2, <2>4 DEF TaskStep, Quiet
<1>3. QED
  BY <1>1, <1>2 DEF ReturnAccess

LEMMA LookSteps ==
  ASSUME TypeOK, AccessInv, NEW t \in Task,
         \/ Load(t) \/ AcquireLock(t) \/ Recheck(t) \/ Reload(t) \/ LoopGet(t) \/ LoopWakes(t)
  PROVE  TaskStep(t)
<1> USE DEF TaskStep, Quiet, InHand, Consenting
<1>1. /\ UNCHANGED <<cred, granted, issued, current>>
      /\ UNCHANGED taskVars => UNCHANGED <<op, prov, force, got, tok>>
      /\ pc[t] # "refresh_store"
  BY DEF Load, AcquireLock, Recheck, Reload, LoopGet, LoopWakes, At, oauthVars, taskVars
<1>2. CASE Load(t)
  <2>1. CASE Goto(t, "wait_lock") /\ UNCHANGED taskVars
    BY <1>1, <2>1, GotoStep
  <2>2. CASE ~(cred[prov[t]].kind = "oauth" /\ Stale(t, cred[prov[t]]))
    <3>1. ASSUME force[t] PROVE cred[prov[t]].kind = "api_key" \/ cred[prov[t]].access = Null
      BY <2>2, <3>1, TokenOfRow DEF Stale, Kind, AccessInv, KindInv
    <3>2. ReturnAccess(t, cred[prov[t]].access) /\ pc[t] = "load"
      BY <1>2, <2>2 DEF Load, At
    <3>3. QED
      BY <1>1, <3>1, <3>2, ReturnAccessStep
  <2>3. QED
    BY <1>2, <2>1, <2>2 DEF Load
<1>3. CASE AcquireLock(t)
  <2>1. CASE UsesCurrentAccess(t)
    <3>1. Goto(t, "recheck") /\ t \notin Proc /\ UNCHANGED taskVars
      BY <1>3, <2>1, ProcIsLoop DEF AcquireLock
    <3>2. QED
      BY <1>1, <3>1, GotoStep
  <2>2. CASE ~UsesCurrentAccess(t)
    <3>1. Goto(t, "refresh_get") /\ UNCHANGED taskVars
      BY <1>3, <2>2 DEF AcquireLock
    <3>2. pc'[t] = "refresh_get" /\ OtherTasksKeep(t)
      BY <1>1, <3>1 DEF Goto, OtherTasksKeep, TypeOK
    <3>3. ~UsesCurrentAccess(t)'
      BY <1>1, <2>2, <3>1 DEF UsesCurrentAccess
    <3>4. QED
      BY <1>1, <3>1, <3>2, <3>3, ProcIsLoop DEF Carries, Arrives
  <2>3. QED
    BY <2>1, <2>2
<1>4. CASE Recheck(t)
  <2>1. t \notin Proc /\ UNCHANGED taskVars
    BY <1>4, ProcIsLoop DEF Recheck, At
  <2>2. /\ OtherTasksKeep(t)
        /\ \/ pc'[t] = "refresh_get" /\ Stale(t, cred[prov[t]])
           \/ pc'[t] = "reload" /\ ~force[t]
    BY <1>1, <1>4, <2>1 DEF Recheck, Goto, OtherTasksKeep, Stale, TypeOK
  <2>3. QED
    BY <1>1, <2>1, <2>2 DEF Carries, Arrives, Stale
<1>5. CASE Reload(t)
  <2>1. RetryIsNew(t) /\ pc[t] = "reload" /\ ReturnAccess(t, cred[prov[t]].access)
    BY <1>5 DEF AccessInv, Reload, At
  <2>2. QED
    BY <1>1, <2>1, ReturnAccessStep DEF RetryIsNew
<1>6. CASE LoopGet(t)
  <2>1. CASE Goto(t, "wait_lock") /\ UNCHANGED taskVars
    BY <1>1, <2>1, GotoStep
  <2>2. QED
    BY <1>1, <1>6, <2>1, LeaveStep DEF LoopGet
<1>7. CASE LoopWakes(t)
  <2>1. Goto(t, "loop_get") /\ UNCHANGED taskVars
    BY <1>7 DEF LoopWakes
  <2>2. QED
    BY <1>1, <2>1, GotoStep
<1>8. QED
  BY <1>2, <1>3, <1>4, <1>5, <1>6, <1>7

LEMMA UpstreamSteps ==
  ASSUME TypeOK, AccessInv, NEW t \in Task,
         \/ UpstreamStep(t) \/ TokenEndpointRefuses(t) \/ Disconnect(t) \/ SqlFails(t)
  PROVE  TaskStep(t)
<1> USE DEF TaskStep, Quiet
<1>1. UNCHANGED <<cred, granted, issued, current>>
  BY DEF UpstreamStep, UpstreamAnswers, Upstream401, TokenEndpointRefuses, Disconnect,
         SqlFails, oauthVars
<1>2. CASE Upstream401(t)
  <2>1. t \notin Proc
    BY <1>2, ProcIsLoop DEF Upstream401, At
  <2>2. \A s \in Task \ {t} : force'[s] = force[s]
    BY <1>2 DEF Upstream401, TypeOK
  <2>3. pc[t] = "send" /\ Goto(t, "load") /\ UNCHANGED <<op, prov, got, tok>>
    BY <1>2 DEF Upstream401, At
  <2>4. QED
    BY <1>1, <2>1, <2>2, <2>3, GotoStep DEF InHand, Consenting
<1>3. CASE UpstreamAnswers(t) \/ TokenEndpointRefuses(t) \/ Disconnect(t) \/ SqlFails(t)
  <2>1. pc[t] = "refresh_store" => Faults # {}
    BY <1>3 DEF UpstreamAnswers, TokenEndpointRefuses, Disconnect, SqlFails, At
  <2>2. QED
    BY <1>1, <1>3, <2>1, LeaveStep, FailStep
    DEF UpstreamAnswers, TokenEndpointRefuses, Disconnect, SqlFails, CutOff
<1>4. QED
  BY <1>2, <1>3 DEF UpstreamStep

LEMMA RefreshSteps ==
  ASSUME Inv, AccessInv, NEW t \in Task,
         RefreshGet(t) \/ TokenEndpointGrants(t) \/ ResponseLost(t)
  PROVE  TaskStep(t)
<1> USE DEF TaskStep
<1>1. TypeOK /\ HasRefreshToken(t)
  BY DEF Inv
<1>2. CASE RefreshGet(t)
  <2>1. pc[t] = "refresh_get" /\ UNCHANGED <<cred, granted, issued, current>>
    BY <1>2 DEF RefreshGet, At, oauthVars
  <2>2. CASE Fail(t)
    BY <1>1, <2>1, <2>2, FailStep DEF Quiet
  <2>3. CASE /\ cred[prov[t]].refresh # Null
             /\ got' = [got EXCEPT ![t] = cred[prov[t]]]
             /\ Goto(t, "token_request")
             /\ UNCHANGED <<op, prov, force, tok>>
    <3>1. /\ got'[t] = cred[prov[t]]
          /\ \A s \in Task \ {t} : got'[s] = got[s]
      BY <1>1, <2>3 DEF TypeOK
    <3>2. QED
      BY <1>1, <2>1, <2>3, <3>1, GotoStep DEF TakesRow
  <2>4. QED
    BY <1>2, <2>2, <2>3 DEF RefreshGet
<1>3. CASE ResponseLost(t)
  <2>1. /\ pc[t] = "token_request" /\ got[t].refresh # Null /\ PresentsCurrent(t)
        /\ UNCHANGED <<cred, granted>> /\ Fail(t) /\ Faults # {}
        /\ \E w \in BOOLEAN : Issue(prov[t], got[t].refresh.grant, w)
    BY <1>1, <1>3 DEF ResponseLost, At, HasRefreshToken
  <2>2. QED
    BY <1>1, <2>1, FailStep DEF Issues, Issue, CutOff
<1>4. CASE TokenEndpointGrants(t)
  <2> DEFINE p == prov[t]
             g == got[t].refresh.grant
  <2>1. PICK w \in BOOLEAN, scoped \in BOOLEAN, e \in {"near", "far"} :
          /\ Issue(p, g, w)
          /\ got' = [got EXCEPT ![t] = Refreshed(t, g, issued[p][g] + 1, w, e, scoped)]
    BY <1>4 DEF TokenEndpointGrants
  <2>2. /\ pc[t] = "token_request" /\ got[t].refresh # Null /\ PresentsCurrent(t)
        /\ UNCHANGED <<cred, granted, op, prov, force, tok>>
        /\ Goto(t, "refresh_store")
    BY <1>1, <1>4 DEF TokenEndpointGrants, At, HasRefreshToken
  <2>3. /\ got'[t] = Refreshed(t, g, issued[p][g] + 1, w, e, scoped)
        /\ \A s \in Task \ {t} : got'[s] = got[s]
    BY <1>1, <2>1 DEF TypeOK
  <2>4. /\ got'[t].kind # "none"
        /\ got'[t].access = [grant |-> g, gen |-> issued[p][g] + 1]
        /\ got'[t].refresh = IF w THEN got'[t].access ELSE Null
    BY <2>3 DEF Refreshed
  <2>5. OtherTasksKeep(t) /\ pc'[t] = "refresh_store" /\ Carries(t) /\ Arrives(t)
    BY <1>1, <2>2, <2>3, GotoStep
  <2>6. Issues(t)
    BY <2>1, <2>2, <2>4, <2>5 DEF Issues, Issue
  <2>7. QED
    BY <2>5, <2>6
<1>5. QED
  BY <1>2, <1>3, <1>4

LEMMA StoreSteps ==
  ASSUME TypeOK, AccessInv, NEW t \in Task,
         RefreshStore(t) \/ CallbackStore(t) \/ BootstrapStore(t)
  PROVE  TaskStep(t)
<1> USE DEF TaskStep
<1>1. /\ Storing(t)
      /\ cred' = [cred EXCEPT ![prov[t]] = Upserted(@, got[t])]
      /\ UNCHANGED <<granted, issued, current>>
  BY DEF RefreshStore, CallbackStore, BootstrapStore, At, Storing, Consenting, oauthVars
<1>2. CASE Leave(t, "stored")
  BY <1>1, <1>2, LeaveStep DEF Stores
<1>3. CASE /\ got' = [got EXCEPT ![t] = NoRow] /\ Goto(t, "wait_lock")
           /\ UNCHANGED <<op, prov, force, tok>>
  <2>1. \A s \in Task \ {t} : got'[s] = got[s]
    BY <1>3 DEF TypeOK
  <2>2. QED
    BY <1>1, <1>3, <2>1, GotoStep DEF Stores, InHand, Consenting
<1>4. CASE /\ RefreshStore(t) /\ UsesCurrentAccess(t)
           /\ got' = [got EXCEPT ![t] = NoRow] /\ Goto(t, "reload")
           /\ UNCHANGED <<op, prov, force, tok>>
  <2>1. t \notin Proc /\ pc[t] = "refresh_store"
    BY <1>4, ProcIsLoop DEF RefreshStore, At
  <2>2. OtherTasksKeep(t) /\ pc'[t] = "reload"
    BY <1>4 DEF OtherTasksKeep, Goto, TypeOK
  <2>3. Stores(t)
    BY <1>1, <2>2 DEF Stores, InHand, Consenting
  <2>4. Carries(t) /\ Arrives(t)
    BY <1>4, <2>1, <2>2, <2>3 DEF Carries, Arrives
  <2>5. QED
    BY <2>2, <2>3, <2>4
<1>5. QED
  BY <1>2, <1>3, <1>4 DEF RefreshStore, CallbackStore, BootstrapStore

\* A request that arrives at l with the token k in its hand.
LEMMA ArrivesAt ==
  ASSUME TypeOK, NEW t \in Request, NEW p \in Provider, NEW o, Begin(t, o, p), NEW l,
         Goto(t, l), l \in {"done", "load", "send", "callback_store", "bootstrap_store"},
         UNCHANGED force, \A s \in Task \ {t} : got'[s] = got[s] /\ tok'[s] = tok[s]
  PROVE  /\ OtherTasksKeep(t) /\ Arrives(t)
         /\ pc[t] = "idle" /\ pc'[t] = l /\ prov'[t] = p
<1>1. t \in Task /\ t \notin Proc
  BY VaultAssumption DEF Task
<1>2. /\ pc[t] = "idle" /\ pc'[t] = l /\ prov'[t] = p
      /\ \A s \in Task \ {t} : pc'[s] = pc[s] /\ prov'[s] = prov[s] /\ op'[s] = op[s]
  BY <1>1 DEF Begin, At, Goto, TypeOK
<1>3. QED
  BY <1>1, <1>2 DEF OtherTasksKeep, Arrives

LEMMA ArriveSteps ==
  ASSUME TypeOK, AccessInv, NEW t \in Task, Arrive(t)
  PROVE  TaskStep(t)
<1> USE DEF TaskStep
<1>1. PICK p \in Provider : \/ ProxyGet(t, p)
                            \/ AuthzGet(t, p)
                            \/ CodeExchanged(t, p)
                            \/ CodeRefused(t, p)
                            \/ BootstrapRequest(t, p)
  BY DEF Arrive
<1>2. PICK o : Begin(t, o, p)
  BY <1>1 DEF ProxyGet, AuthzGet, CodeExchanged, CodeRefused, BootstrapRequest
<1>3. t \in Request /\ tok[t] = Null
  BY <1>2 DEF Begin, At, AccessInv, TokIsCarried
<1>4. ASSUME NEW l \in {"done", "load"}, Goto(t, l),
             UNCHANGED <<cred, granted, issued, current, force, got, tok>>
      PROVE  TaskStep(t)
  BY <1>2, <1>3, <1>4, ArrivesAt DEF Quiet, InHand, Consenting, Carries
<1>5. ASSUME NEW r, ReplyNow(t, r) PROVE TaskStep(t)
  BY <1>4, <1>5 DEF ReplyNow
<1>6. ASSUME NEW l \in {"callback_store", "bootstrap_store"}, Goto(t, l),
             NEW w \in BOOLEAN, NewGrant(p, w), NEW row, row.kind # "none",
             row.access \in {Null, FirstTokenOf(p)},
             row.refresh = IF w THEN FirstTokenOf(p) ELSE Null,
             got' = [got EXCEPT ![t] = row], UNCHANGED <<cred, force, tok>>
      PROVE  TaskStep(t)
  <2>1. /\ got'[t] = row
        /\ \A s \in Task \ {t} : got'[s] = got[s]
    BY <1>6 DEF TypeOK
  <2>2. /\ OtherTasksKeep(t) /\ Arrives(t)
        /\ pc[t] = "idle" /\ pc'[t] = l /\ prov'[t] = p
    BY <1>2, <1>3, <1>6, <2>1, ArrivesAt
  <2>3. Consents(t)
    BY <1>6, <2>1, <2>2 DEF Consents, Consenting, NewGrant
  <2>4. QED
    BY <1>3, <1>6, <2>2, <2>3 DEF Carries
<1>7. CASE ProxyGet(t, p)
  <2>1. CASE \E r : ReplyNow(t, r)
    BY <1>5, <2>1
  <2>2. CASE Goto(t, "load") /\ UNCHANGED <<cred, granted, issued, current, force, got, tok>>
    BY <1>4, <2>2
  <2>3. CASE /\ Goto(t, "send")
             /\ tok' = [tok EXCEPT ![t] = cred[p].access]
             /\ UNCHANGED <<cred, granted, issued, current, force, got>>
    <3>1. /\ tok'[t] = cred[p].access
          /\ \A s \in Task \ {t} : tok'[s] = tok[s]
      BY <2>3 DEF TypeOK
    <3>2. QED
      BY <1>2, <1>3, <2>3, <3>1, ArrivesAt DEF Quiet, InHand, Consenting, Carries
  <2>4. QED
    BY <1>7, <2>1, <2>2, <2>3 DEF ProxyGet
<1>8. CASE AuthzGet(t, p)
  <2>1. CASE \E r : ReplyNow(t, r)
    BY <1>5, <2>1
  <2>2. CASE Goto(t, "load") /\ UNCHANGED <<cred, granted, issued, current, force, got, tok>>
    BY <1>4, <2>2
  <2>3. QED
    BY <1>8, <2>1, <2>2 DEF AuthzGet
<1>9. CASE CodeExchanged(t, p)
  <2>1. PICK w \in BOOLEAN, scoped \in BOOLEAN, e \in {"near", "far"} :
         /\ NewGrant(p, w)
         /\ got' = [got EXCEPT ![t] =
              [kind |-> "oauth", access |-> FirstTokenOf(p),
               refresh |-> IF w THEN FirstTokenOf(p) ELSE Null,
               expires |-> e, scopes |-> IF scoped THEN granted[p] + 1 ELSE 0]]
    BY <1>9 DEF CodeExchanged
  <2>2. Goto(t, "callback_store") /\ UNCHANGED <<cred, force, tok>>
    BY <1>9 DEF CodeExchanged
  <2>3. QED
    BY <1>6, <2>1, <2>2
<1>10. CASE CodeRefused(t, p)
  BY <1>5, <1>10 DEF CodeRefused
<1>11. CASE BootstrapRequest(t, p)
  <2>1. CASE \E r : ReplyNow(t, r)
    BY <1>5, <2>1
  <2>2. ASSUME NEW k \in {"oauth", "api_key"}, NEW a, NEW w \in BOOLEAN, NEW scoped, NEW e,
               NewGrant(p, w),
               got' = [got EXCEPT ![t] =
                 [kind |-> k,
                  access |-> IF a THEN FirstTokenOf(p) ELSE Null,
                  refresh |-> IF w THEN FirstTokenOf(p) ELSE Null,
                  expires |-> e, scopes |-> IF scoped THEN granted[p] + 1 ELSE 0]],
               Goto(t, "bootstrap_store"), UNCHANGED <<cred, force, tok>>
        PROVE  TaskStep(t)
    <3> DEFINE row == [kind |-> k,
                       access |-> IF a THEN FirstTokenOf(p) ELSE Null,
                       refresh |-> IF w THEN FirstTokenOf(p) ELSE Null,
                       expires |-> e, scopes |-> IF scoped THEN granted[p] + 1 ELSE 0]
    <3>1. /\ got' = [got EXCEPT ![t] = row] /\ row.kind # "none"
          /\ row.access \in {Null, FirstTokenOf(p)}
          /\ row.refresh = IF w THEN FirstTokenOf(p) ELSE Null
      BY <2>2
    <3> HIDE DEF row
    <3>2. QED
      BY <1>6, <2>2, <3>1
  <2>3. QED
    BY <1>11, <2>1, <2>2, SMTT(30) DEF BootstrapRequest
<1>12. QED
  BY <1>1, <1>7, <1>8, <1>9, <1>10, <1>11

-----------------------------------------------------------------------------
(* AccessInv survives every step.                                          *)

\* Of the grants that were given, the provider only ever issues more.
CountersGrow ==
    \A p \in Provider :
        /\ granted[p] <= granted'[p]
        /\ \A g \in 1 .. MaxGrant : g <= granted[p] => issued[p][g] <= issued'[p][g]

LEMMA CountersTyped ==
  ASSUME TypeOK, NEW p \in Provider
  PROVE  granted[p] \in Nat /\ \A g \in 1 .. MaxGrant : issued[p][g] \in Nat
  BY BoundsAssumption DEF TypeOK

LEMMA CountersTypedNext ==
  ASSUME TypeOK', NEW p \in Provider
  PROVE  granted'[p] \in Nat /\ \A g \in 1 .. MaxGrant : issued'[p][g] \in Nat
  BY BoundsAssumption DEF TypeOK

\* A token that has been issued stays so.
LEMMA KnownStays ==
  ASSUME TypeOK, TypeOK', CountersGrow, NEW p \in Provider, NEW k \in Token, Known(p, k)
  PROVE  Known(p, k)'
<1>1. CASE k = Null
  BY <1>1 DEF Known
<1>2. CASE k # Null
  <2>1. /\ k.grant \in 1 .. MaxGrant /\ k.gen \in Nat
        /\ k.grant <= granted[p] /\ k.gen <= issued[p][k.grant]
    BY <1>2, TokenGrant DEF Known
  <2>2. /\ granted[p] \in Nat /\ issued[p][k.grant] \in Nat
        /\ granted'[p] \in Nat /\ issued'[p][k.grant] \in Nat
    BY <2>1, CountersTyped, CountersTypedNext
  <2>3. granted[p] <= granted'[p] /\ issued[p][k.grant] <= issued'[p][k.grant]
    BY <2>1 DEF CountersGrow
  <2>4. k.grant <= granted'[p] /\ k.gen <= issued'[p][k.grant]
    BY <2>1, <2>2, <2>3
  <2>5. QED
    BY <2>4 DEF Known
<1>3. QED
  BY <1>1, <1>2

\* The counters after the next pair of a grant is issued, and after a consent.
LEMMA IssuesCounts ==
  ASSUME TypeOK, NEW t \in Task, Issues(t), NEW p, p = prov[t],
         NEW g, g = got[t].refresh.grant
  PROVE  /\ p \in Provider /\ g \in 1 .. MaxGrant
         /\ granted' = granted /\ CountersGrow
         /\ issued'[p][g] = issued[p][g] + 1
         /\ \A q \in Provider, h \in 1 .. MaxGrant :
              q # p \/ h # g => issued'[q][h] = issued[q][h]
<1>1. p \in Provider /\ g \in 1 .. MaxGrant
  BY TokenOfRow, TokenGrant DEF Issues
<1>2. granted' = granted /\ issued' = [issued EXCEPT ![p][g] = @ + 1]
  BY DEF Issues
<1>3. /\ issued'[p][g] = issued[p][g] + 1
      /\ \A q \in Provider, h \in 1 .. MaxGrant :
           q # p \/ h # g => issued'[q][h] = issued[q][h]
  BY <1>1, <1>2 DEF TypeOK
<1>4. CountersGrow
  <2>1. ASSUME NEW q \in Provider PROVE granted[q] <= granted'[q]
    BY <1>2, CountersTyped
  <2>2. ASSUME NEW q \in Provider, NEW h \in 1 .. MaxGrant
        PROVE  issued[q][h] <= issued'[q][h]
    <3>1. issued[q][h] \in Nat
      BY CountersTyped
    <3>2. QED
      BY <1>3, <3>1
  <2>3. QED
    BY <2>1, <2>2 DEF CountersGrow
<1>5. QED
  BY <1>1, <1>2, <1>3, <1>4

LEMMA ConsentCounts ==
  ASSUME TypeOK, TypeOK', NEW t \in Task, Consents(t), NEW p, p = prov'[t],
         NEW g, g = granted[p] + 1
  PROVE  /\ p \in Provider /\ g \in 1 .. MaxGrant /\ CountersGrow
         /\ granted'[p] = g /\ issued'[p][g] = 1
         /\ \A q \in Provider, h \in 1 .. MaxGrant :
              q # p \/ h # g => issued'[q][h] = issued[q][h]
<1>1. p \in Provider
  BY DEF TypeOK
<1>2. granted[p] \in Nat /\ g \in 1 .. MaxGrant
  BY <1>1, CountersTyped, BoundsAssumption DEF Consents
<1>3. granted' = [granted EXCEPT ![p] = g] /\ issued' = [issued EXCEPT ![p][g] = 1]
  BY DEF Consents
<1>4. /\ granted'[p] = g /\ \A q \in Provider : q # p => granted'[q] = granted[q]
      /\ issued'[p][g] = 1
      /\ \A q \in Provider, h \in 1 .. MaxGrant :
           q # p \/ h # g => issued'[q][h] = issued[q][h]
  <2>1. /\ granted \in [Provider -> 0 .. MaxGrant]
        /\ issued \in [Provider -> [1 .. MaxGrant -> 0 .. MaxGen]]
    BY DEF TypeOK
  <2>2. QED
    BY <1>1, <1>2, <1>3, <2>1
<1>5. CountersGrow
  BY <1>1, <1>2, <1>4, CountersTyped DEF CountersGrow
<1>6. QED
  BY <1>1, <1>2, <1>4, <1>5

LEMMA StepGrows ==
  ASSUME TypeOK, TypeOK', NEW t \in Task, TaskStep(t)
  PROVE  CountersGrow
<1>1. CASE UNCHANGED <<granted, issued>>
  BY <1>1, CountersTyped DEF CountersGrow
<1>2. QED
  BY <1>1, IssuesCounts, ConsentCounts DEF TaskStep, Quiet, TakesRow, Stores

\* What t takes in hand to store: its access token is new, and known from now on.
LEMMA NewInHand ==
  ASSUME TypeOK, TypeOK', AccessInv, NEW t \in Task, TaskStep(t), Storing(t)'
  PROVE  /\ UNCHANGED cred /\ got'[t].kind # "none"
         /\ got'[t].access # Null => ~Known(prov'[t], got'[t].access)
         /\ Known(prov[t], got[t].access)' /\ Known(prov[t], got[t].refresh)'
<1>1. Issues(t) \/ Consents(t)
  BY DEF TaskStep, Quiet, TakesRow, Stores, Storing, InHand, Consenting
<1>2. CASE Issues(t)
  <2> DEFINE p == prov[t]
             g == got[t].refresh.grant
             n == issued[p][g] + 1
             k == [grant |-> g, gen |-> n]
  <2>1. /\ UNCHANGED cred /\ got'[t].kind # "none" /\ prov'[t] = p
        /\ got'[t].access = k /\ got'[t].refresh \in {Null, k}
    BY <1>2 DEF Issues, Storing, InHand
  <2>2. /\ p \in Provider /\ g \in 1 .. MaxGrant
        /\ granted' = granted /\ issued'[p][g] = n
    BY <1>2, IssuesCounts
  <2>3. g <= granted[p]
    BY <1>2 DEF Issues, AccessInv, TokensAreKnown, Known, InHand
  <2>4. n \in Nat /\ ~(n <= issued[p][g]) /\ n <= n /\ n # 0
    BY <2>2, CountersTyped
  <2>5. k.grant = g /\ k.gen = n /\ k # Null
    BY <2>4 DEF Null
  <2> HIDE DEF k, n, g, p
  <2>6. ~Known(p, k) /\ k.grant <= granted'[p] /\ k.gen <= issued'[p][k.grant]
    BY <2>2, <2>3, <2>4, <2>5 DEF Known
  <2>7. QED
    BY <2>1, <2>6 DEF Known
<1>3. CASE Consents(t)
  <2> DEFINE p == prov'[t]
             g == granted[p] + 1
  <2>1. /\ UNCHANGED cred /\ got'[t].kind # "none"
        /\ got'[t].access \in {Null, FirstTokenOf(p)}
        /\ got'[t].refresh \in {Null, FirstTokenOf(p)}
    BY <1>3 DEF Consents
  <2>2. /\ p \in Provider /\ g \in 1 .. MaxGrant
        /\ granted'[p] = g /\ issued'[p][g] = 1
    BY <1>3, ConsentCounts
  <2>3. FirstTokenOf(p) = [grant |-> g, gen |-> 1]
    BY DEF FirstTokenOf
  <2>4. ~(g <= granted[p])
    BY <2>2, CountersTyped
  <2>5. FirstTokenOf(p) # Null /\ ~Known(p, FirstTokenOf(p))
    BY <2>3, <2>4 DEF Known, Null
  <2>6. /\ FirstTokenOf(p).grant <= granted'[p]
        /\ FirstTokenOf(p).gen <= issued'[p][FirstTokenOf(p).grant]
    BY <2>2, <2>3
  <2>7. Known(prov[t], got[t].access)' /\ Known(prov[t], got[t].refresh)'
    BY <2>1, <2>6 DEF Known
  <2>8. QED
    BY <2>1, <2>5, <2>7
<1>4. QED
  BY <1>1, <1>2, <1>3

\* What t stores.
LEMMA StoredRow ==
  ASSUME TypeOK, NEW t \in Task, Stores(t)
  PROVE  /\ prov[t] \in Provider
         /\ cred'[prov[t]].kind = got[t].kind
         /\ cred'[prov[t]].access = got[t].access
         /\ cred'[prov[t]].refresh \in {cred[prov[t]].refresh, got[t].refresh}
         /\ \A q \in Provider : q # prov[t] => cred'[q] = cred[q]
  BY DEF Stores, TypeOK, Upserted

LEMMA RowsChange ==
  ASSUME TypeOK, NEW t \in Task, TaskStep(t)
  PROVE  cred' = cred \/ Stores(t)
  BY DEF TaskStep, Quiet, TakesRow, Issues, Consents

LEMMA KnownNext ==
  ASSUME TypeOK, TypeOK', AccessInv, NEW t \in Task, TaskStep(t)
  PROVE  TokensAreKnown'
<1>1. CountersGrow
  BY StepGrows
<1>2. ASSUME NEW p \in Provider, NEW k \in Token, Known(p, k)
      PROVE  k = Null \/ (k.grant <= granted'[p] /\ k.gen <= issued'[p][k.grant])
  BY <1>1, <1>2, KnownStays DEF Known
<1>3. ASSUME NEW p \in Provider
      PROVE  Known(p, cred[p].access)' /\ Known(p, cred[p].refresh)'
  <2>1. Known(p, cred[p].access) /\ Known(p, cred[p].refresh)
    BY DEF AccessInv, TokensAreKnown
  <2>2. CASE cred'[p] = cred[p]
    BY <1>2, <2>1, <2>2, TokenOfRow DEF Known
  <2>3. CASE cred'[p] # cred[p]
    <3>1. Stores(t) /\ p = prov[t]
      BY <2>3, RowsChange, StoredRow
    <3>2. Known(p, got[t].access) /\ Known(p, got[t].refresh)
      BY <3>1 DEF Stores, Storing, InHand, AccessInv, TokensAreKnown
    <3>3. /\ cred'[p].access = got[t].access
          /\ cred'[p].refresh \in {cred[p].refresh, got[t].refresh}
      BY <3>1, StoredRow
    <3>4. QED
      BY <1>2, <2>1, <3>2, <3>3, TokenOfRow DEF Known
  <2>4. QED
    BY <2>2, <2>3
<1>4. ASSUME NEW s \in Task PROVE Known(prov[s], tok[s])'
  <2>1. \E p \in Provider, k \in Token : prov'[s] = p /\ tok'[s] = k /\ Known(p, k)
    <3>1. Known(prov[s], tok[s]) /\ prov[s] \in Provider /\ tok[s] \in Token
      BY TokenOfRow DEF AccessInv, TokensAreKnown
    <3>2. CASE tok'[s] = tok[s] /\ prov'[s] = prov[s]
      BY <3>1, <3>2
    <3>3. CASE s = t /\ tok'[s] = Null
      BY <3>3, TokenNull DEF Known, TypeOK
    <3>4. CASE s = t /\ tok'[s] = cred[prov'[s]].access
      <4>1. prov'[s] \in Provider
        BY DEF TypeOK
      <4>2. QED
        BY <3>4, <4>1, TokenOfRow DEF AccessInv, TokensAreKnown
    <3>5. QED
      BY <3>2, <3>3, <3>4 DEF TaskStep, OtherTasksKeep, Carries
  <2>2. QED
    BY <1>2, <2>1 DEF Known
<1>5. ASSUME NEW s \in Task, InHand(s)'
      PROVE  Known(prov[s], got[s].access)' /\ Known(prov[s], got[s].refresh)'
  <2>1. CASE s # t
    <3>1. InHand(s) /\ prov'[s] = prov[s] /\ got'[s] = got[s]
      BY <1>5, <2>1 DEF TaskStep, OtherTasksKeep, InHand, Consenting
    <3>2. Known(prov[s], got[s].access) /\ Known(prov[s], got[s].refresh)
      BY <3>1 DEF AccessInv, TokensAreKnown
    <3>3. QED
      BY <1>2, <3>1, <3>2, TokenOfRow DEF Known
  <2>2. CASE s = t /\ Storing(t)'
    BY <2>2, NewInHand
  <2>3. CASE s = t /\ ~Storing(t)'
    <3>1. TakesRow(t)
      BY <1>5, <2>3 DEF TaskStep, Quiet, Issues, Consents, Stores, InHand, Storing
    <3>2. /\ prov'[t] = prov[t] /\ got'[t] = cred[prov[t]] /\ prov[t] \in Provider
          /\ UNCHANGED <<granted, issued>>
      BY <3>1, TokenOfRow DEF TakesRow
    <3>3. QED
      BY <2>3, <3>2 DEF AccessInv, TokensAreKnown, Known
  <2>4. QED
    BY <2>1, <2>2, <2>3
<1>6. QED
  BY <1>3, <1>4, <1>5 DEF TokensAreKnown

LEMMA StoresNewNext ==
  ASSUME TypeOK, TypeOK', AccessInv, NEW t \in Task, TaskStep(t), NEW s \in Task
  PROVE  StoresNew(s)'
<1> SUFFICES ASSUME Storing(s)', got'[s].access # Null
             PROVE  /\ cred'[prov'[s]].access # got'[s].access
                    /\ \A u \in Task : prov'[u] = prov'[s] =>
                         /\ tok'[u] # got'[s].access
                         /\ u # s /\ Storing(u)' => got'[u].access # got'[s].access
  BY DEF StoresNew
<1> DEFINE a == got'[s].access
           p == prov'[s]
<1>1. \A u \in Task \ {t} : /\ prov'[u] = prov[u] /\ got'[u] = got[u] /\ tok'[u] = tok[u]
                            /\ Storing(u)' <=> Storing(u)
  BY DEF TaskStep, OtherTasksKeep, Storing, Consenting
<1>2. p \in Provider
  BY DEF TypeOK
<1>3. /\ \A q \in Provider : Known(q, cred[q].access)
      /\ \A u \in Task : Known(prov[u], tok[u])
      /\ \A u \in Task : Storing(u) => Known(prov[u], got[u].access)
  BY DEF AccessInv, TokensAreKnown, Storing, InHand
<1>4. CASE s = t
  <2>1. UNCHANGED cred /\ ~Known(p, a)
    BY <1>4, NewInHand
  <2>2. cred'[p].access # a
    BY <1>2, <1>3, <2>1
  <2>3. ASSUME NEW u \in Task, prov'[u] = p PROVE tok'[u] # a
    <3>1. CASE u = t
      <4>1. tok'[t] = Null \/ (tok'[t] = tok[t] /\ prov[t] = p)
        BY <1>4 DEF TaskStep, Carries, Storing, InHand
      <4>2. QED
        BY <1>3, <2>1, <3>1, <4>1
    <3>2. CASE u # t
      BY <1>1, <1>3, <2>1, <2>3, <3>2
    <3>3. QED
      BY <3>1, <3>2
  <2>4. ASSUME NEW u \in Task, prov'[u] = p, u # s, Storing(u)' PROVE got'[u].access # a
    BY <1>1, <1>3, <1>4, <2>1, <2>4
  <2>5. QED
    BY <2>2, <2>3, <2>4
<1>5. CASE s # t
  <2>1. Storing(s) /\ got[s].access = a /\ prov[s] = p /\ StoresNew(s)
    BY <1>1, <1>5 DEF AccessInv
  <2>2. /\ cred[p].access # a
        /\ \A u \in Task : prov[u] = p => /\ tok[u] # a
                                          /\ u # s /\ Storing(u) => got[u].access # a
    BY <2>1 DEF StoresNew
  <2>3. Known(p, a)
    BY <1>3, <2>1
  <2>4. cred'[p].access # a
    <3>1. CASE Stores(t) /\ prov[t] = p
      <4>1. Storing(t) /\ cred'[p].access = got[t].access
        BY <3>1, StoredRow DEF Stores
      <4>2. QED
        BY <1>5, <2>2, <3>1, <4>1
    <3>2. QED
      BY <1>2, <2>2, <3>1, RowsChange, StoredRow
  <2>5. ASSUME NEW u \in Task, prov'[u] = p PROVE tok'[u] # a
    <3>1. CASE u = t
      <4>1. CASE tok'[t] = Null
        BY <3>1, <4>1
      <4>2. CASE tok'[t] = tok[t] /\ prov'[t] = prov[t]
        BY <2>2, <2>5, <3>1, <4>2
      <4>3. CASE tok'[t] = cred[prov'[t]].access
        BY <2>2, <2>5, <3>1, <4>3
      <4>4. QED
        BY <4>1, <4>2, <4>3 DEF TaskStep, Carries
    <3>2. CASE u # t
      BY <1>1, <2>2, <2>5, <3>2
    <3>3. QED
      BY <3>1, <3>2
  <2>6. ASSUME NEW u \in Task, prov'[u] = p, u # s, Storing(u)' PROVE got'[u].access # a
    <3>1. CASE u = t
      BY <2>3, <2>6, <3>1, NewInHand
    <3>2. CASE u # t
      BY <1>1, <2>2, <2>6, <3>2
    <3>3. QED
      BY <3>1, <3>2
  <2>7. QED
    BY <2>4, <2>5, <2>6
<1>6. QED
  BY <1>4, <1>5

LEMMA RetryIsNewNext ==
  ASSUME TypeOK, AccessInv, NEW t \in Task, TaskStep(t), NEW s \in Task
  PROVE  RetryIsNew(s)'
<1> SUFFICES ASSUME pc'[s] = "reload", force'[s]
             PROVE  cred'[prov'[s]].access = Null \/ cred'[prov'[s]].access # tok'[s]
  BY DEF RetryIsNew
<1>1. prov[s] \in Provider
  BY TokenOfRow
<1>2. ASSUME Stores(t), prov[t] = prov[s], prov'[s] = prov[s], tok'[s] = tok[s]
      PROVE  cred'[prov'[s]].access = Null \/ cred'[prov'[s]].access # tok'[s]
  <2>1. Storing(t) /\ cred'[prov[s]].access = got[t].access
    BY <1>2, StoredRow DEF Stores
  <2>2. QED
    BY <1>2, <2>1 DEF AccessInv, StoresNew
<1>3. CASE s = t
  BY <1>2, <1>3 DEF TaskStep, Arrives
<1>4. CASE s # t
  <2>1. /\ pc[s] = "reload" /\ force[s] /\ RetryIsNew(s)
        /\ prov'[s] = prov[s] /\ tok'[s] = tok[s]
    BY <1>4 DEF TaskStep, OtherTasksKeep, AccessInv
  <2>2. QED
    BY <1>1, <1>2, <2>1, RowsChange, StoredRow DEF RetryIsNew
<1>5. QED
  BY <1>3, <1>4

LEMMA TaskStepKeepsAccess ==
  ASSUME TypeOK, TypeOK', AccessInv, NEW t \in Task, TaskStep(t)
  PROVE  AccessInv'
<1>1. TokensAreKnown'
  BY KnownNext
<1>2. TokIsCarried'
  <2>1. ASSUME NEW s \in Task, pc'[s] = "idle" PROVE tok'[s] = Null
    BY <2>1 DEF TaskStep, OtherTasksKeep, Arrives, AccessInv, TokIsCarried
  <2>2. ASSUME NEW u \in Proc
        PROVE  /\ tok'[u] = Null /\ op'[u] = "loop"
               /\ pc'[u] \notin {"idle", "load", "recheck", "reload", "send"}
    <3>1. u \in Task
      BY DEF Task
    <3>2. QED
      BY <3>1, ProcIsLoop DEF TaskStep, OtherTasksKeep, Arrives
  <2>3. QED
    BY <2>1, <2>2 DEF TokIsCarried
<1>3. KindInv'
  <2>1. ASSUME NEW p \in Provider, cred'[p].kind = "none" PROVE cred'[p].access = Null
    <3>1. CASE Stores(t) /\ prov[t] = p
      <4>1. Storing(t) /\ cred'[p].kind = got[t].kind
        BY <3>1, StoredRow DEF Stores
      <4>2. QED
        BY <2>1, <4>1 DEF AccessInv, KindInv
    <3>2. QED
      BY <2>1, <3>1, RowsChange, StoredRow DEF AccessInv, KindInv
  <2>2. ASSUME NEW s \in Task, Storing(s)' PROVE got'[s].kind # "none"
    <3>1. CASE s = t
      BY <2>2, <3>1, NewInHand
    <3>2. CASE s # t
      BY <2>2, <3>2 DEF TaskStep, OtherTasksKeep, Storing, Consenting, AccessInv, KindInv
    <3>3. QED
      BY <3>1, <3>2
  <2>3. QED
    BY <2>1, <2>2 DEF KindInv
<1>4. \A s \in Task : StoresNew(s)' /\ RetryIsNew(s)'
  BY StoresNewNext, RetryIsNewNext
<1>5. QED
  BY <1>1, <1>2, <1>3, <1>4 DEF AccessInv

-----------------------------------------------------------------------------
(* Time, a SIGTERM, a stutter: rows only age, a task is dropped or not.    *)

RowsAge ==
    \A p \in Provider :
        /\ cred'[p].kind = cred[p].kind
        /\ cred'[p].access = cred[p].access /\ cred'[p].refresh = cred[p].refresh
        /\ cred'[p].expires \in {cred[p].expires, "near"}

\* Task s is where it was, or gone.
Kept(s) ==
    /\ pc'[s] = pc[s] /\ prov'[s] = prov[s] /\ got'[s] = got[s]
    /\ tok'[s] = tok[s] /\ force'[s] = force[s] /\ op'[s] = op[s]

Dropped(s) == pc'[s] \in {"loop_get", "done"} /\ tok'[s] = Null /\ op'[s] = op[s]

WorldStep ==
    /\ RowsAge /\ UNCHANGED <<granted, issued, current>>
    /\ \/ \A s \in Task : Kept(s)
       \/ UNCHANGED cred /\ Faults # {} /\ \A s \in Task : Kept(s) \/ Dropped(s)

LEMMA WorldSteps ==
  ASSUME TypeOK, AccessInv,
         \/ \E p \in Provider : TimePasses(p)
         \/ \E v \in Proc : Sigterm(v)
         \/ UNCHANGED vars
  PROVE  WorldStep
<1> USE DEF WorldStep
<1>1. ASSUME NEW p \in Provider, TimePasses(p) PROVE WorldStep
  <2>1. RowsAge
    BY <1>1 DEF TimePasses, RowsAge, TypeOK, Row
  <2>2. QED
    BY <1>1, <2>1 DEF TimePasses, oauthVars, taskVars, Kept
<1>2. ASSUME NEW v \in Proc, Sigterm(v) PROVE WorldStep
  <2>1. RowsAge /\ Faults # {} /\ UNCHANGED <<cred, granted, issued, current, op, force>>
    BY <1>2 DEF Sigterm, RowsAge, oauthVars
  <2>2. v \in Task /\ tok[v] = Null
    BY ProcIsLoop DEF Task
  <2>3. ASSUME NEW s \in Task PROVE Kept(s) \/ Dropped(s)
    <3>1. CASE s = v
      <4>1. pc'[s] = "loop_get" /\ tok'[s] \in {Null, tok[s]}
        BY <1>2, <3>1 DEF Sigterm
      <4>2. QED
        BY <2>1, <2>2, <3>1, <4>1 DEF Dropped
    <3>2. CASE s # v /\ s \in {r \in Request : Home[r] = v /\ Running(r)}
      <4>1. pc'[s] = "done" /\ tok'[s] = Null
        BY <1>2, <3>2 DEF Sigterm
      <4>2. QED
        BY <2>1, <4>1 DEF Dropped
    <3>3. CASE s # v /\ s \notin {r \in Request : Home[r] = v /\ Running(r)}
      <4>1. /\ pc'[s] = pc[s] /\ got'[s] = got[s] /\ tok'[s] = tok[s]
            /\ prov'[s] = prov[s]
        BY <1>2, <3>3 DEF Sigterm, TypeOK
      <4>2. QED
        BY <2>1, <4>1 DEF Kept
    <3>4. QED
      BY <3>1, <3>2, <3>3
  <2>4. QED
    BY <2>1, <2>3
<1>3. CASE UNCHANGED vars
  BY <1>3 DEF vars, RowsAge, Kept
<1>4. QED
  BY <1>1, <1>2, <1>3

LEMMA WorldKeepsAccess ==
  ASSUME TypeOK, TypeOK', AccessInv, WorldStep
  PROVE  AccessInv'
<1>1. /\ UNCHANGED <<granted, issued>>
      /\ \A p \in Provider : /\ cred'[p].kind = cred[p].kind
                             /\ cred'[p].access = cred[p].access
                             /\ cred'[p].refresh = cred[p].refresh
  BY DEF WorldStep, RowsAge
<1>2. \A s \in Task : Kept(s) \/ Dropped(s)
  BY DEF WorldStep
<1>3. ASSUME NEW s \in Task
      PROVE  /\ prov[s] \in Provider /\ prov'[s] \in Provider
             /\ InHand(s)' => InHand(s) /\ Kept(s)
             /\ Storing(s)' => Storing(s) /\ Kept(s)
             /\ pc'[s] \in {"idle", "reload"} => Kept(s)
             /\ Kept(s) \/ tok'[s] = Null
  BY <1>2 DEF Kept, Dropped, InHand, Storing, Consenting, TypeOK
<1>4. TokensAreKnown'
  <2>1. \A p \in Provider : Known(p, cred[p].access)' /\ Known(p, cred[p].refresh)'
    BY <1>1 DEF AccessInv, TokensAreKnown, Known
  <2>2. \A s \in Task : Known(prov[s], tok[s])'
    BY <1>1, <1>3 DEF AccessInv, TokensAreKnown, Known, Kept
  <2>3. \A s \in Task : InHand(s)' =>
          Known(prov[s], got[s].access)' /\ Known(prov[s], got[s].refresh)'
    BY <1>1, <1>3 DEF AccessInv, TokensAreKnown, Known, Kept
  <2>4. QED
    BY <2>1, <2>2, <2>3 DEF TokensAreKnown
<1>5. TokIsCarried'
  <2>1. \A s \in Task : pc'[s] = "idle" => tok'[s] = Null
    BY <1>3 DEF AccessInv, TokIsCarried, Kept
  <2>2. ASSUME NEW v \in Proc
        PROVE  /\ tok'[v] = Null /\ op'[v] = "loop"
               /\ pc'[v] \notin {"idle", "load", "recheck", "reload", "send"}
    <3>1. v \in Task
      BY DEF Task
    <3>2. QED
      BY <1>2, <3>1, ProcIsLoop DEF Kept, Dropped
  <2>3. QED
    BY <2>1, <2>2 DEF TokIsCarried
<1>6. KindInv'
  BY <1>1, <1>3 DEF AccessInv, KindInv, Kept
<1>7. ASSUME NEW s \in Task PROVE StoresNew(s)'
  <2>1. SUFFICES ASSUME Storing(s)', got'[s].access # Null
                 PROVE  /\ cred'[prov'[s]].access # got'[s].access
                        /\ \A u \in Task : prov'[u] = prov'[s] =>
                             /\ tok'[u] # got'[s].access
                             /\ u # s /\ Storing(u)' => got'[u].access # got'[s].access
    BY DEF StoresNew
  <2>2. /\ Storing(s) /\ got'[s] = got[s] /\ prov'[s] = prov[s]
        /\ cred[prov[s]].access # got[s].access
        /\ \A u \in Task : prov[u] = prov[s] =>
             /\ tok[u] # got[s].access
             /\ u # s /\ Storing(u) => got[u].access # got[s].access
    BY <1>3, <2>1 DEF AccessInv, StoresNew, Kept
  <2>3. QED
    BY <1>1, <1>3, <2>1, <2>2 DEF Kept
<1>8. ASSUME NEW s \in Task PROVE RetryIsNew(s)'
  BY <1>1, <1>3 DEF AccessInv, RetryIsNew, Kept
<1>9. QED
  BY <1>4, <1>5, <1>6, <1>7, <1>8 DEF AccessInv

-----------------------------------------------------------------------------
LEMMA AccessInit == Init => AccessInv
<1> SUFFICES ASSUME Init PROVE AccessInv
  OBVIOUS
<1>1. \A t \in Task : pc[t] \in {"loop_get", "idle"} /\ tok[t] = Null
  BY DEF Init
<1>2. ASSUME NEW p \in Provider
      PROVE  /\ Known(p, cred[p].access) /\ Known(p, cred[p].refresh)
             /\ cred[p].kind = "none" => cred[p].access = Null
  <2>1. CASE cred[p] = NoRow
    BY <2>1 DEF NoRow, Known
  <2>2. CASE MaxGrant > 0 /\ \E e \in {"near", "far"} : cred[p] = ConnectedRow(e)
    <3>1. /\ cred[p].access = FirstPair /\ cred[p].refresh = FirstPair
          /\ cred[p].kind = "oauth"
      BY <2>2 DEF ConnectedRow
    <3>2. granted[p] = 1 /\ issued[p][1] = 1
      BY <2>2, <3>1, BoundsAssumption DEF Init, FirstPair
    <3>3. QED
      BY <3>1, <3>2 DEF Known, FirstPair
  <2>3. QED
    BY <2>1, <2>2 DEF Init
<1>3. TokensAreKnown
  BY <1>1, <1>2 DEF TokensAreKnown, InHand, Consenting, Known
<1>4. TokIsCarried
  BY <1>1 DEF TokIsCarried, Init, Task
<1>5. KindInv
  BY <1>1, <1>2 DEF KindInv, Storing, Consenting
<1>6. \A t \in Task : StoresNew(t) /\ RetryIsNew(t)
  BY <1>1 DEF StoresNew, RetryIsNew, Storing, Consenting
<1>7. QED
  BY <1>3, <1>4, <1>5, <1>6 DEF AccessInv

\* Every step is a task's or the world's.
LEMMA StepsAre ==
  ASSUME Inv, AccessInv, [Next]_vars
  PROVE  WorldStep \/ \E t \in Task : TaskStep(t)
<1> USE DEF Inv
<1>1. ASSUME NEW t \in Task,
             Arrive(t) \/ AcquireLock(t) \/ LocalStep(t) \/ EndpointStep(t) \/ UpstreamStep(t)
      PROVE  TaskStep(t)
  BY <1>1, ArriveSteps, LookSteps, UpstreamSteps, RefreshSteps, StoreSteps
  DEF LocalStep, EndpointStep
<1>2. ASSUME NEW t \in Task, Disconnect(t) \/ SqlFails(t) \/ ResponseLost(t)
      PROVE  TaskStep(t)
  BY <1>2, UpstreamSteps, RefreshSteps
<1>3. QED
  BY <1>1, <1>2, WorldSteps DEF Next, Fault

LEMMA AccessInvariance == Spec => []AccessInv
<1>1. Init => AccessInv
  BY AccessInit
<1>2. Inv /\ Inv' /\ AccessInv /\ [Next]_vars => AccessInv'
  BY StepsAre, TaskStepKeepsAccess, WorldKeepsAccess DEF Inv
<1>3. QED
  BY <1>1, <1>2, Invariance, PTL DEF Spec

\* Whatever the processes, the requests and the faults: the retry after a 401 carries
\* another token than the one the upstream refused, or an api key (proxy.rs,
\* handle_inner; refresh.rs, current_access with force).
THEOREM RetryUsesAnotherToken == Spec => RetryChangesToken
<1>1. Inv /\ AccessInv /\ [Next]_vars =>
        [\A t \in Request : pc'[t] = "resend" /\ pc[t] # "resend"
                              => tok'[t] # tok[t] \/ cred[prov[t]].kind = "api_key"]_vars
  <2> SUFFICES ASSUME Inv, AccessInv, [Next]_vars, NEW t \in Request,
                      pc'[t] = "resend", pc[t] # "resend"
               PROVE  tok'[t] # tok[t] \/ cred[prov[t]].kind = "api_key"
    OBVIOUS
  <2>1. t \in Task
    BY DEF Task
  <2>2. ~WorldStep
    BY <2>1 DEF WorldStep, Kept, Dropped
  <2>3. PICK s \in Task : TaskStep(s)
    BY <2>2, StepsAre
  <2>4. QED
    BY <2>1, <2>3 DEF TaskStep, OtherTasksKeep, Arrives
<1>2. QED
  BY <1>1, Invariance, AccessInvariance, PTL DEF Spec, RetryChangesToken

-----------------------------------------------------------------------------
(* With one process, whose lock lets one refresh through at a time.        *)

LEMMA KnownGrant ==
  ASSUME TypeOK, NEW p \in Provider, NEW k \in Token, Known(p, k)
  PROVE  k.grant \in Nat /\ k.grant <= granted[p]
  BY TokenGrant, CountersTyped DEF Known

\* A grant that has not been given is in no row and in nobody's hand.
LEMMA NextGrantIsNew ==
  ASSUME TypeOK, AccessInv, NEW p \in Provider, NEW g \in Nat, g > granted[p]
  PROVE  /\ ~OfGrant(cred[p], g)
         /\ \A s \in Task : InHand(s) /\ prov[s] = p => ~OfGrant(got[s], g)
<1>1. ASSUME NEW k \in Token, Known(p, k) PROVE k.grant # g
  BY <1>1, KnownGrant, CountersTyped
<1>2. QED
  BY <1>1, TokenOfRow DEF AccessInv, TokensAreKnown, OfGrant

LEMMA NewestNext ==
  ASSUME Inv, Inv', AccessInv, OrderInv, NEW v, Proc = {v}, NEW t \in Task, TaskStep(t),
         NEW s \in Task, pc'[s] = "refresh_store"
  PROVE  /\ got'[s].access # Null
         /\ got'[s].access.gen = issued'[prov'[s]][got'[s].access.grant]
<1> USE DEF Inv
<1>1. CASE s = t
  <2>1. Issues(t) /\ InHand(t)'
    BY <1>1 DEF TaskStep, Quiet, TakesRow, Consents, Stores, InHand, Consenting
  <2>2. /\ prov'[t] = prov[t]
        /\ got'[t].access = [grant |-> got[t].refresh.grant,
                             gen |-> issued[prov[t]][got[t].refresh.grant] + 1]
    BY <2>1 DEF Issues
  <2>3. /\ prov[t] \in Provider /\ got[t].refresh.grant \in 1 .. MaxGrant
        /\ issued'[prov[t]][got[t].refresh.grant]
             = issued[prov[t]][got[t].refresh.grant] + 1
    BY <2>1, IssuesCounts
  <2>4. QED
    BY <1>1, <2>2, <2>3 DEF Null
<1>2. CASE s # t
  <2> DEFINE k == got[s].access
  <2>1. /\ pc[s] = "refresh_store" /\ got'[s] = got[s] /\ prov'[s] = prov[s]
        /\ prov[s] \in Provider /\ k \in Token
    BY <1>2, TokenOfRow DEF TaskStep, OtherTasksKeep
  <2>2. k # Null /\ k.gen = issued[prov[s]][k.grant]
    BY <2>1 DEF OrderInv, RefreshIsNewest
  <2>3. k.grant \in 1 .. MaxGrant /\ k.grant <= granted[prov[s]]
    BY <2>1, <2>2, TokenGrant, KnownGrant DEF AccessInv, TokensAreKnown, InHand
  <2>4. ~Issues(t)
    BY <1>2, <2>1, OneInside DEF Issues, LockedPc
  <2>5. issued'[prov[s]][k.grant] = issued[prov[s]][k.grant]
    <3>1. CASE Consents(t)
      <4>1. prov'[t] = prov[s] => k.grant # granted[prov'[t]] + 1
        BY <2>1, <2>3, CountersTyped
      <4>2. QED
        BY <2>1, <2>3, <3>1, <4>1, ConsentCounts
    <3>2. QED
      BY <2>4, <3>1 DEF TaskStep, Quiet, TakesRow, Stores
  <2>6. QED
    BY <2>1, <2>2, <2>5
<1>3. QED
  BY <1>1, <1>2

\* A consent that t has just received is of a grant nobody has heard of.
LEMMA ConsentArrives ==
  ASSUME Inv, Inv', AccessInv, NEW t \in Task, TaskStep(t), Consenting(t)'
  PROVE  ConsentIsNew(t)'
<1> DEFINE p == prov'[t]
           g == granted[p] + 1
<1>1. Consents(t)
  BY DEF TaskStep, Quiet, TakesRow, Issues, Stores, InHand, Consenting
<1>2. p \in Provider /\ g \in 1 .. MaxGrant /\ granted'[p] = g /\ g > granted[p]
  BY <1>1, ConsentCounts, CountersTyped DEF Inv
<1>3. UNCHANGED cred /\ FirstTokenOf(p) = [grant |-> g, gen |-> 1]
  BY <1>1 DEF Consents, FirstTokenOf
<1>4. /\ got'[t].access \in {Null, [grant |-> g, gen |-> 1]}
      /\ got'[t].refresh \in {Null, [grant |-> g, gen |-> 1]}
  BY <1>1, <1>3 DEF Consents
<1>5. ~OfGrant(cred'[p], g)
  BY <1>2, <1>3, NextGrantIsNew DEF Inv
<1>6. ASSUME NEW s \in Task \ {t}, InHand(s)', prov'[s] = p PROVE ~OfGrant(got'[s], g)
  <2>1. InHand(s) /\ prov[s] = p /\ got'[s] = got[s]
    BY <1>6 DEF TaskStep, OtherTasksKeep, InHand, Consenting
  <2>2. QED
    BY <1>2, <2>1, NextGrantIsNew DEF Inv
<1>7. \E h \in 1 .. MaxGrant :
        /\ h <= granted'[p]
        /\ got'[t].access = Null \/ got'[t].access = [grant |-> h, gen |-> 1]
        /\ got'[t].refresh = Null \/ got'[t].refresh.grant = h
        /\ ~OfGrant(cred'[p], h)
        /\ \A s \in Task \ {t} : InHand(s)' /\ prov'[s] = p => ~OfGrant(got'[s], h)
  <2>1. g <= granted'[p]
    BY <1>2
  <2>2. got'[t].refresh = Null \/ got'[t].refresh.grant = g
    BY <1>4
  <2> HIDE DEF g, p
  <2>3. QED
    BY <1>2, <1>4, <1>5, <1>6, <2>1, <2>2
<1>8. QED
  BY <1>7 DEF ConsentIsNew, ConsentOf

\* A consent that s has had in hand remains so while t steps.
LEMMA ConsentRemains ==
  ASSUME Inv, Inv', AccessInv, NEW t \in Task, TaskStep(t), NEW s \in Task, s # t,
         Consenting(s)', ConsentIsNew(s)
  PROVE  ConsentIsNew(s)'
<1> DEFINE p == prov[s]
<1>1. /\ Consenting(s) /\ prov'[s] = p /\ got'[s] = got[s] /\ p \in Provider
  BY TokenOfRow DEF TaskStep, OtherTasksKeep, Consenting, Inv
<1>2. PICK g \in 1 .. MaxGrant : ConsentOf(s, g)
  BY <1>1 DEF ConsentIsNew
<1>3. /\ g <= granted[p] /\ ~OfGrant(cred[p], g)
      /\ got[s].access = Null \/ got[s].access = [grant |-> g, gen |-> 1]
      /\ got[s].refresh = Null \/ got[s].refresh.grant = g
      /\ \A u \in Task \ {s} : InHand(u) /\ prov[u] = p => ~OfGrant(got[u], g)
  BY <1>2 DEF ConsentOf
<1>4. g <= granted'[p]
  <2>1. granted[p] <= granted'[p]
    BY <1>1, StepGrows DEF CountersGrow, Inv
  <2>2. granted[p] \in Nat /\ granted'[p] \in Nat
    BY <1>1, CountersTyped, CountersTypedNext DEF Inv
  <2>3. QED
    BY <1>3, <2>1, <2>2
<1>5. ~OfGrant(cred'[p], g)
  <2>1. CASE cred'[p] = cred[p]
    BY <1>3, <2>1
  <2>2. CASE cred'[p] # cred[p]
    <3>1. Stores(t) /\ prov[t] = p
      BY <1>1, <2>2, RowsChange, StoredRow DEF Inv
    <3>2. ~OfGrant(got[t], g)
      BY <1>3, <3>1 DEF Stores, Storing, InHand
    <3>3. /\ cred'[p].access = got[t].access
          /\ cred'[p].refresh \in {cred[p].refresh, got[t].refresh}
      BY <3>1, StoredRow DEF Inv
    <3>4. QED
      BY <1>3, <3>2, <3>3 DEF OfGrant
  <2>3. QED
    BY <2>1, <2>2
<1>6. ASSUME NEW u \in Task \ {s}, InHand(u)', prov'[u] = p PROVE ~OfGrant(got'[u], g)
  <2>1. CASE u # t
    BY <1>3, <1>6, <2>1 DEF TaskStep, OtherTasksKeep, InHand, Consenting
  <2>2. CASE u = t /\ TakesRow(t)
    BY <1>3, <1>6, <2>2 DEF TakesRow
  <2>3. CASE u = t /\ Issues(t)
    <3>1. got[t].refresh.grant # g
      BY <1>3, <1>6, <2>3 DEF Issues, OfGrant, InHand
    <3>2. /\ got'[t].access.grant = got[t].refresh.grant
          /\ got'[t].refresh \in {Null, got'[t].access}
      BY <1>6, <2>3 DEF Issues
    <3>3. QED
      BY <2>3, <3>1, <3>2 DEF OfGrant, Null
  <2>4. CASE u = t /\ Consents(t)
    <3>1. /\ got'[t].access \in {Null, FirstTokenOf(p)}
          /\ got'[t].refresh \in {Null, FirstTokenOf(p)}
      BY <1>6, <2>4 DEF Consents
    <3>2. FirstTokenOf(p).grant # g /\ Null.grant # g
      BY <1>1, <1>3, CountersTyped DEF FirstTokenOf, Null, Inv
    <3>3. QED
      BY <2>4, <3>1, <3>2 DEF OfGrant
  <2>5. QED
    BY <1>6, <2>1, <2>2, <2>3, <2>4 DEF TaskStep, Quiet, Stores
<1>7. ConsentOf(s, g)'
  BY <1>1, <1>3, <1>4, <1>5, <1>6 DEF ConsentOf
<1>8. QED
  BY <1>2, <1>7 DEF ConsentIsNew

LEMMA StaleNext ==
  ASSUME Inv, AccessInv, OrderInv, NEW v, Proc = {v}, NEW t \in Task, TaskStep(t),
         NEW s \in Task
  PROVE  StaysStale(s)'
<1> SUFFICES ASSUME pc'[s] = "refresh_get", UsesCurrentAccess(s)', ~force'[s]
             PROVE  cred'[prov'[s]].access.gen <= 1 \/ NeedsRefresh(cred'[prov'[s]].expires)
  BY DEF StaysStale
<1>1. CASE s = t
  BY <1>1 DEF TaskStep, Arrives, Null
<1>2. CASE s # t
  <2>1. /\ pc[s] = "refresh_get" /\ UsesCurrentAccess(s) /\ ~force[s]
        /\ prov'[s] = prov[s] /\ prov[s] \in Provider
    BY <1>2, TokenOfRow DEF TaskStep, OtherTasksKeep, UsesCurrentAccess, Inv
  <2>2. cred[prov[s]].access.gen <= 1 \/ NeedsRefresh(cred[prov[s]].expires)
    BY <2>1 DEF OrderInv, StaysStale
  <2>3. CASE cred'[prov[s]] = cred[prov[s]]
    BY <2>1, <2>2, <2>3
  <2>4. CASE cred'[prov[s]] # cred[prov[s]]
    <3>1. Stores(t) /\ prov[t] = prov[s]
      BY <2>1, <2>4, RowsChange, StoredRow DEF Inv
    <3>2. Consenting(t)
      BY <1>2, <2>1, <3>1, OneInside DEF Stores, Storing, LockedPc
    <3>3. PICK g \in 1 .. MaxGrant : ConsentOf(t, g)
      BY <3>2 DEF OrderInv, ConsentIsNew
    <3>4. got[t].access.gen <= 1
      BY <3>3 DEF ConsentOf, Null
    <3>5. cred'[prov[s]].access = got[t].access
      BY <3>1, StoredRow DEF Inv
    <3>6. QED
      BY <2>1, <3>4, <3>5
  <2>5. QED
    BY <2>3, <2>4
<1>3. QED
  BY <1>1, <1>2

LEMMA WorldKeepsOrder ==
  ASSUME TypeOK, OrderInv, WorldStep
  PROVE  OrderInv'
<1>1. /\ UNCHANGED <<granted, issued>>
      /\ \A p \in Provider : /\ cred'[p].access = cred[p].access
                             /\ cred'[p].refresh = cred[p].refresh
                             /\ cred'[p].expires \in {cred[p].expires, "near"}
  BY DEF WorldStep, RowsAge
<1>2. ASSUME NEW s \in Task
      PROVE  /\ prov[s] \in Provider
             /\ InHand(s)' => InHand(s) /\ Kept(s)
             /\ pc'[s] \in {"refresh_get", "refresh_store"} => Kept(s)
  BY TokenOfRow DEF WorldStep, Kept, Dropped, InHand, Consenting
<1>3. ASSUME NEW s \in Task PROVE RefreshIsNewest(s)'
  BY <1>1, <1>2 DEF OrderInv, RefreshIsNewest, Kept
<1>4. ASSUME NEW s \in Task PROVE StaysStale(s)'
  BY <1>1, <1>2 DEF OrderInv, StaysStale, Kept, UsesCurrentAccess, NeedsRefresh
<1>5. ASSUME NEW s \in Task, Consenting(s)' PROVE ConsentIsNew(s)'
  <2>1. Consenting(s) /\ Kept(s) /\ prov[s] \in Provider
    BY <1>2, <1>5 DEF InHand, Kept, Consenting
  <2>2. PICK g \in 1 .. MaxGrant : ConsentOf(s, g)
    BY <2>1 DEF OrderInv, ConsentIsNew
  <2>3. \A u \in Task \ {s} : InHand(u)' /\ prov'[u] = prov[s] => ~OfGrant(got'[u], g)
    BY <1>2, <2>2 DEF ConsentOf, Kept
  <2>4. ConsentOf(s, g)'
    BY <1>1, <2>1, <2>2, <2>3 DEF ConsentOf, OfGrant, Kept
  <2>5. QED
    BY <2>2, <2>4 DEF ConsentIsNew
<1>6. QED
  BY <1>3, <1>4, <1>5 DEF OrderInv, ConsentIsNew

LEMMA OrderNext ==
  ASSUME Inv, Inv', AccessInv, OrderInv, NEW v, Proc = {v}, [Next]_vars
  PROVE  OrderInv'
<1>1. ASSUME NEW t \in Task, TaskStep(t) PROVE OrderInv'
  <2>1. \A s \in Task : RefreshIsNewest(s)'
    BY <1>1, NewestNext DEF RefreshIsNewest
  <2>2. ASSUME NEW s \in Task, Consenting(s)' PROVE ConsentIsNew(s)'
    BY <1>1, <2>2, ConsentArrives, ConsentRemains DEF OrderInv
  <2>3. \A s \in Task : StaysStale(s)'
    BY <1>1, StaleNext
  <2>4. QED
    BY <2>1, <2>2, <2>3 DEF OrderInv, ConsentIsNew
<1>2. QED
  BY <1>1, StepsAre, WorldKeepsOrder DEF Inv

LEMMA OrderInvariance ==
  ASSUME NEW CONSTANT v, Proc = {v}
  PROVE  Spec => []OrderInv
<1>1. Init => OrderInv
  BY DEF Init, OrderInv, RefreshIsNewest, ConsentIsNew, Consenting, StaysStale
<1>2. Inv /\ Inv' /\ AccessInv /\ OrderInv /\ [Next]_vars => OrderInv'
  BY OrderNext
<1>3. QED
  BY <1>1, <1>2, Invariance, AccessInvariance, PTL DEF Spec

\* In one process, whatever fails: refreshes, callbacks and bootstraps that overlap
\* never put an older access token of the same grant back in the row (refresh.rs,
\* refresh_unlocked; oauth.rs, callback_inner; admin.rs, bootstrap; store.rs, upsert).
THEOREM AccessGoesForward ==
  ASSUME NEW CONSTANT v, Proc = {v}
  PROVE  Spec => AccessNeverGoesBack
<1>1. Inv /\ AccessInv /\ OrderInv /\ [Next]_vars =>
        [\A p \in Provider : cred'[p].access.grant = cred[p].access.grant
                               => cred'[p].access.gen >= cred[p].access.gen]_vars
  <2> SUFFICES ASSUME Inv, AccessInv, OrderInv, [Next]_vars, NEW p \in Provider,
                      cred'[p].access.grant = cred[p].access.grant
               PROVE  cred'[p].access.gen >= cred[p].access.gen
    OBVIOUS
  <2>1. cred[p].access \in Token /\ cred[p].access.gen \in Nat
    BY TokenOfRow, TokenGrant DEF Inv
  <2>2. CASE cred'[p].access = cred[p].access
    BY <2>1, <2>2
  <2>3. CASE cred'[p].access # cred[p].access
    <3>1. PICK t \in Task : TaskStep(t)
      BY <2>3, StepsAre DEF WorldStep, RowsAge
    <3>2. Stores(t) /\ prov[t] = p /\ cred'[p].access = got[t].access
      BY <2>3, <3>1, RowsChange, StoredRow DEF Inv
    <3>3. CASE pc[t] = "refresh_store"
      <4>1. got[t].access # Null /\ got[t].access.gen = issued[p][got[t].access.grant]
        BY <3>2, <3>3 DEF OrderInv, RefreshIsNewest
      <4>2. got[t].access \in Token /\ got[t].access.grant \in 1 .. MaxGrant
        BY <4>1, TokenOfRow, TokenGrant DEF Inv
      <4>3. cred[p].access # Null /\ Known(p, cred[p].access)
        BY <2>3, <3>2, <4>2 DEF AccessInv, TokensAreKnown, Null
      <4>4. QED
        BY <2>1, <3>2, <4>1, <4>2, <4>3, CountersTyped DEF Known, Inv
    <3>4. CASE Consenting(t)
      <4>1. PICK g \in 1 .. MaxGrant : ConsentOf(t, g)
        BY <3>4 DEF OrderInv, ConsentIsNew
      <4>2. got[t].access = Null
        BY <3>2, <4>1 DEF ConsentOf, OfGrant
      <4>3. cred[p].access = Null
        BY <2>1, <3>2, <4>2, TokenGrant DEF Null
      <4>4. QED
        BY <2>3, <3>2, <4>2, <4>3
    <3>5. QED
      BY <3>2, <3>3, <3>4 DEF Stores, Storing
  <2>4. QED
    BY <2>2, <2>3
<1>2. QED
  BY <1>1, Invariance, AccessInvariance, OrderInvariance, PTL DEF Spec, AccessNeverGoesBack

\* In one process, whatever fails: a request that finds the row refreshed when it gets
\* the lock leaves the token endpoint alone (refresh.rs, the second test of
\* current_access).
THEOREM NoRefreshIsWasted ==
  ASSUME NEW CONSTANT v, Proc = {v}
  PROVE  Spec => NoWastedRefresh
<1>1. OrderInv /\ [Next]_vars =>
        [\A t \in Request :
            pc[t] = "refresh_get" /\ pc'[t] = "token_request" /\ UsesCurrentAccess(t) /\ ~force[t]
              => cred[prov[t]].access.gen <= 1 \/ NeedsRefresh(cred[prov[t]].expires)]_vars
  BY DEF OrderInv, StaysStale, Task
<1>2. QED
  BY <1>1, OrderInvariance, PTL DEF Spec, NoWastedRefresh

=============================================================================
