-------------------------- MODULE TokenVaultProofs --------------------------
(***************************************************************************)
(* Theorems about TokenVault, for any processes, requests and providers.   *)
(***************************************************************************)
EXTENDS TokenVault, TLAPS

Pc == LockedPc \cup FreePc
Op == {"none", "loop", "proxy", "authz", "callback", "bootstrap"}

\* TypeOK in the three parts that steps change or leave alone as a whole.
OauthTypes ==
    /\ granted \in [Provider -> 0 .. MaxGrant]
    /\ issued \in [Provider -> [1 .. MaxGrant -> 0 .. MaxGen]]
    /\ current \in [Provider -> [1 .. MaxGrant -> 0 .. MaxGen]]

TaskTypes ==
    /\ holder \in [Proc -> Task \cup {Nobody}]
    /\ pc \in [Task -> Pc]
    /\ op \in [Task -> Op]
    /\ prov \in [Task -> Provider]
    /\ force \in [Task -> BOOLEAN]
    /\ got \in [Task -> Row]
    /\ tok \in [Task -> Token]
    /\ result \in [Task -> Result]

-----------------------------------------------------------------------------
(* Types.                                                                  *)

LEMMA TokenNull == Null \in Token
  BY BoundsAssumption DEF Null, Token

LEMMA NoRowTyped == NoRow \in Row
  BY BoundsAssumption, TokenNull DEF NoRow, Row, Kind, Expiry

LEMMA UpsertedTyped ==
  ASSUME NEW old \in Row, NEW new \in Row
  PROVE  Upserted(old, new) \in Row
  BY DEF Upserted, Row

LEMMA NextProviderTyped ==
  ASSUME NEW p \in Provider
  PROVE  NextProvider(p) \in Provider
  BY VaultAssumption DEF NextProvider, Provider

LEMMA HomeTyped ==
  ASSUME NEW t \in Task
  PROVE  /\ Home[t] \in Proc
         /\ t \in Proc => Home[t] = t
         /\ t # Nobody
  BY VaultAssumption

\* What Leave leaves behind: the types, and the lock given back.
LEMMA LeaveTyped ==
  ASSUME TypeOK, NEW t \in Task, NEW r \in Result, Leave(t, r)
  PROVE  TaskTypes'
<1>1. holder' \in [Proc -> Task \cup {Nobody}]
  BY DEF Leave, DropGuard, TypeOK
<1>2. pc' \in [Task -> Pc]
  BY DEF Leave, Goto, TypeOK, Pc, FreePc
<1>3. prov' \in [Task -> Provider]
  BY NextProviderTyped DEF Leave, TypeOK
<1>4. got' \in [Task -> Row]
  BY NoRowTyped DEF Leave, TypeOK
<1>5. tok' \in [Task -> Token]
  BY TokenNull DEF Leave, TypeOK
<1>6. result' \in [Task -> Result]
  BY DEF Leave, TypeOK
<1>7. op' \in [Task -> Op] /\ force' \in [Task -> BOOLEAN]
  BY DEF Leave, TypeOK, Op
<1>8. QED
  BY <1>1, <1>2, <1>3, <1>4, <1>5, <1>6, <1>7 DEF TaskTypes

LEMMA FailIsLeave ==
  ASSUME NEW t \in Task, Fail(t)
  PROVE  \E r \in Result : Leave(t, r)
  BY DEF Fail, Result

LEMMA FailTyped ==
  ASSUME TypeOK, NEW t \in Task, Fail(t)
  PROVE  TaskTypes'
  BY FailIsLeave, LeaveTyped

LEMMA ReturnAccessTyped ==
  ASSUME TypeOK, NEW t \in Task, NEW a \in Token, ReturnAccess(t, a)
  PROVE  TaskTypes'
<1>1. CASE Fail(t)
  BY <1>1, FailTyped
<1>2. CASE Leave(t, "served")
  BY <1>2, LeaveTyped DEF Result
<1>3. CASE /\ tok' = [tok EXCEPT ![t] = a]
           /\ Goto(t, IF force[t] THEN "resend" ELSE "send")
           /\ DropGuard(t)
           /\ UNCHANGED <<op, prov, force, got, result>>
  BY <1>3 DEF TypeOK, TaskTypes, Goto, DropGuard, Pc, FreePc, Op
<1>4. QED
  BY <1>1, <1>2, <1>3 DEF ReturnAccess

LEMMA BeginTyped ==
  ASSUME TypeOK, NEW t \in Task, NEW o, NEW p \in Provider, Begin(t, o, p)
  PROVE  /\ op' \in [Task -> Op]
         /\ prov' \in [Task -> Provider]
  BY VaultAssumption DEF Begin, TypeOK, Op

LEMMA ReplyNowTyped ==
  ASSUME TypeOK, NEW t \in Task, NEW r \in Result, ReplyNow(t, r)
  PROVE  /\ cred' \in [Provider -> Row]
         /\ granted' \in [Provider -> 0 .. MaxGrant]
         /\ issued' \in [Provider -> [1 .. MaxGrant -> 0 .. MaxGen]]
         /\ current' \in [Provider -> [1 .. MaxGrant -> 0 .. MaxGen]]
         /\ holder' \in [Proc -> Task \cup {Nobody}]
         /\ pc' \in [Task -> Pc]
         /\ force' \in [Task -> BOOLEAN]
         /\ got' \in [Task -> Row]
         /\ tok' \in [Task -> Token]
         /\ result' \in [Task -> Result]
  BY DEF ReplyNow, Goto, TypeOK, Pc, FreePc

\* The provider's counters stay within their bounds.
LEMMA NewGrantTyped ==
  ASSUME TypeOK, NEW p \in Provider, NEW w \in BOOLEAN, NewGrant(p, w)
  PROVE  /\ OauthTypes'
         /\ FirstTokenOf(p) \in Token
         /\ granted[p] + 1 \in 1 .. MaxGrant
<1>1. granted[p] + 1 \in 1 .. MaxGrant /\ 1 \in 1 .. MaxGen
  BY BoundsAssumption DEF TypeOK, NewGrant
<1>2. granted' \in [Provider -> 0 .. MaxGrant]
  BY <1>1 DEF TypeOK, NewGrant
<1>3. issued' \in [Provider -> [1 .. MaxGrant -> 0 .. MaxGen]]
  BY <1>1 DEF TypeOK, NewGrant
<1>4. current' \in [Provider -> [1 .. MaxGrant -> 0 .. MaxGen]]
  <2> DEFINE n == IF w THEN 1 ELSE 0
  <2>1. n \in 0 .. MaxGen
    BY <1>1, BoundsAssumption
  <2>2. current' = [current EXCEPT ![p][granted[p] + 1] = n]
    BY DEF NewGrant
  <2> HIDE DEF n
  <2>3. QED
    BY <1>1, <2>1, <2>2 DEF TypeOK
<1>5. FirstTokenOf(p) \in Token
  BY <1>1 DEF FirstTokenOf, Token
<1>6. QED
  BY <1>1, <1>2, <1>3, <1>4, <1>5 DEF OauthTypes

\* The row a consent or a bootstrap is about to store.
LEMMA GrantRowTyped ==
  ASSUME TypeOK, NEW p \in Provider, NEW w \in BOOLEAN, NewGrant(p, w),
         NEW k \in {"oauth", "api_key"}, NEW a \in BOOLEAN, NEW scoped \in BOOLEAN,
         NEW e \in Expiry
  PROVE  [kind |-> k,
          access |-> IF a THEN FirstTokenOf(p) ELSE Null,
          refresh |-> IF w THEN FirstTokenOf(p) ELSE Null,
          expires |-> e,
          scopes |-> IF scoped THEN granted[p] + 1 ELSE 0] \in Row
<1>1. (IF a THEN FirstTokenOf(p) ELSE Null) \in Token
  BY NewGrantTyped, TokenNull
<1>2. (IF w THEN FirstTokenOf(p) ELSE Null) \in Token
  BY NewGrantTyped, TokenNull
<1>3. (IF scoped THEN granted[p] + 1 ELSE 0) \in 0 .. MaxGrant
  <2>1. granted[p] + 1 \in 1 .. MaxGrant
    BY NewGrantTyped
  <2>2. QED
    BY <2>1, BoundsAssumption
<1>4. QED
  BY <1>1, <1>2, <1>3 DEF Row, Kind

LEMMA IssueTyped ==
  ASSUME TypeOK, NEW p \in Provider, NEW g \in 1 .. MaxGrant, NEW w \in BOOLEAN, Issue(p, g, w)
  PROVE  /\ issued' \in [Provider -> [1 .. MaxGrant -> 0 .. MaxGen]]
         /\ current' \in [Provider -> [1 .. MaxGrant -> 0 .. MaxGen]]
         /\ issued[p][g] + 1 \in 1 .. MaxGen
<1>1. issued[p][g] + 1 \in 1 .. MaxGen
  BY BoundsAssumption DEF TypeOK, Issue
<1>2. issued' \in [Provider -> [1 .. MaxGrant -> 0 .. MaxGen]]
  BY <1>1 DEF TypeOK, Issue
<1>3. current' \in [Provider -> [1 .. MaxGrant -> 0 .. MaxGen]]
  <2> DEFINE n == IF w THEN issued[p][g] + 1 ELSE current[p][g]
  <2>1. n \in 0 .. MaxGen
    BY <1>1, BoundsAssumption DEF TypeOK
  <2>2. current' = [current EXCEPT ![p][g] = n]
    BY DEF Issue
  <2> HIDE DEF n
  <2>3. QED
    BY <2>1, <2>2 DEF TypeOK
<1>4. QED
  BY <1>1, <1>2, <1>3

THEOREM TypeInit == Init => TypeOK
<1> SUFFICES ASSUME Init PROVE TypeOK
  OBVIOUS
<1>1. /\ cred \in [Provider -> Row]
      /\ \A p \in Provider : cred[p].access.grant \in 0 .. MaxGrant
  <2>1. ASSUME MaxGrant > 0, MaxGen > 0, NEW e \in {"near", "far"}
        PROVE  ConnectedRow(e) \in Row /\ ConnectedRow(e).access.grant = 1
    BY <2>1, BoundsAssumption DEF ConnectedRow, FirstPair, Row, Kind, Token, Expiry
  <2>2. NoRow.access.grant = 0
    BY DEF NoRow, Null
  <2> DEFINE Start == {NoRow} \cup {ConnectedRow(e) : e \in IF MaxGrant > 0 /\ MaxGen > 0
                                                         THEN {"near", "far"} ELSE {}}
  <2>3. ASSUME NEW r \in Start
        PROVE  r \in Row /\ r.access.grant \in 0 .. MaxGrant
    <3>1. CASE r = NoRow
      BY <3>1, <2>2, NoRowTyped, BoundsAssumption
    <3>2. CASE r # NoRow
      <4>1. /\ MaxGrant > 0 /\ MaxGen > 0
            /\ \E e \in {"near", "far"} : r = ConnectedRow(e)
        BY <3>2
      <4>2. QED
        BY <4>1, <2>1, BoundsAssumption
    <3>3. QED
      BY <3>1, <3>2
  <2>4. cred \in [Provider -> Start]
    BY DEF Init
  <2> HIDE DEF Start
  <2>5. QED
    BY <2>3, <2>4
<1>2. granted \in [Provider -> 0 .. MaxGrant]
  BY <1>1 DEF Init
<1>3. ASSUME NEW p \in Provider, NEW g \in 1 .. MaxGrant, g <= granted[p]
      PROVE  1 \in 0 .. MaxGen
  <2>1. cred[p] # NoRow
    BY <1>3, BoundsAssumption DEF Init, NoRow, Null
  <2>2. QED
    BY <2>1, BoundsAssumption DEF Init
<1>4. /\ issued \in [Provider -> [1 .. MaxGrant -> 0 .. MaxGen]]
      /\ current \in [Provider -> [1 .. MaxGrant -> 0 .. MaxGen]]
  BY <1>3, BoundsAssumption DEF Init
<1>5. holder \in [Proc -> Task \cup {Nobody}]
  BY DEF Init
<1>6. /\ pc \in [Task -> LockedPc \cup FreePc]
      /\ op \in [Task -> {"none", "loop", "proxy", "authz", "callback", "bootstrap"}]
  BY DEF Init, FreePc
<1>7. prov \in [Task -> Provider]
  BY VaultAssumption DEF Init, Provider
<1>8. /\ force \in [Task -> BOOLEAN]
      /\ got \in [Task -> Row]
      /\ tok \in [Task -> Token]
      /\ result \in [Task -> Result]
  BY NoRowTyped, TokenNull DEF Init, Result
<1>9. QED
  BY <1>1, <1>2, <1>4, <1>5, <1>6, <1>7, <1>8 DEF TypeOK

\* One lemma per group of handlers: each of its steps keeps the types.
LEMMA TypeArrive ==
  ASSUME TypeOK, NEW t \in Task, NEW p \in Provider
  PROVE  /\ ProxyGet(t, p) => TypeOK'
         /\ AuthzGet(t, p) => TypeOK'
         /\ CodeExchanged(t, p) => TypeOK'
         /\ CodeRefused(t, p) => TypeOK'
         /\ BootstrapRequest(t, p) => TypeOK'
<1>1. ASSUME ProxyGet(t, p) PROVE TypeOK'
  <2>1. op' \in [Task -> Op] /\ prov' \in [Task -> Provider]
    BY <1>1, BeginTyped DEF ProxyGet
  <2>2. CASE ReplyNow(t, "connect") \/ ReplyNow(t, "failed")
    BY <2>1, <2>2, ReplyNowTyped DEF TypeOK, Result, Op, Pc
  <2>3. CASE /\ Goto(t, "load")
             /\ UNCHANGED <<cred, granted, issued, current, holder, force, got, tok, result>>
    BY <2>1, <2>3 DEF TypeOK, Goto, Op, Pc, FreePc
  <2>4. CASE /\ Goto(t, "send")
             /\ tok' = [tok EXCEPT ![t] = cred[p].access]
             /\ UNCHANGED <<cred, granted, issued, current, holder, force, got, result>>
    <3>1. cred[p].access \in Token
      BY DEF TypeOK, Row
    <3>2. QED
      BY <2>1, <2>4, <3>1 DEF TypeOK, Goto, Op, Pc, FreePc
  <2>5. QED
    BY <1>1, <2>2, <2>3, <2>4 DEF ProxyGet
<1>2. ASSUME AuthzGet(t, p) PROVE TypeOK'
  <2>1. op' \in [Task -> Op] /\ prov' \in [Task -> Provider]
    BY <1>2, BeginTyped DEF AuthzGet
  <2>2. CASE ReplyNow(t, "connect") \/ ReplyNow(t, "served")
    BY <2>1, <2>2, ReplyNowTyped DEF TypeOK, Result, Op, Pc
  <2>3. CASE /\ Goto(t, "load")
             /\ UNCHANGED <<cred, granted, issued, current, holder, force, got, tok, result>>
    BY <2>1, <2>3 DEF TypeOK, Goto, Op, Pc, FreePc
  <2>4. QED
    BY <1>2, <2>2, <2>3 DEF AuthzGet
<1>3. ASSUME CodeExchanged(t, p) PROVE TypeOK'
  <2>1. op' \in [Task -> Op] /\ prov' \in [Task -> Provider]
    BY <1>3, BeginTyped DEF CodeExchanged
  <2>2. PICK w \in BOOLEAN, scoped \in BOOLEAN, e \in {"near", "far"} :
          /\ NewGrant(p, w)
          /\ got' = [got EXCEPT ![t] =
              [kind |-> "oauth", access |-> FirstTokenOf(p),
               refresh |-> IF w THEN FirstTokenOf(p) ELSE Null,
               expires |-> e, scopes |-> IF scoped THEN granted[p] + 1 ELSE 0]]
    BY <1>3 DEF CodeExchanged
  <2> DEFINE row == [kind |-> "oauth",
                     access |-> IF TRUE THEN FirstTokenOf(p) ELSE Null,
                     refresh |-> IF w THEN FirstTokenOf(p) ELSE Null,
                     expires |-> e, scopes |-> IF scoped THEN granted[p] + 1 ELSE 0]
  <2>3. row \in Row
    <3>1. NewGrant(p, w) /\ e \in Expiry /\ "oauth" \in {"oauth", "api_key"} /\ TRUE \in BOOLEAN
      BY <2>2 DEF Expiry
    <3>2. QED
      BY <3>1, GrantRowTyped, ZenonT(40)
  <2>4. got' = [got EXCEPT ![t] = row]
    BY <2>2
  <2> HIDE DEF row
  <2>5. got' \in [Task -> Row]
    BY <2>3, <2>4 DEF TypeOK
  <2>6. OauthTypes'
    BY <2>2, NewGrantTyped
  <2>7. /\ Goto(t, "callback_store")
        /\ UNCHANGED <<cred, holder, force, tok, result>>
    BY <1>3 DEF CodeExchanged
  <2>8. QED
    BY <2>1, <2>5, <2>6, <2>7 DEF TypeOK, OauthTypes, Goto, Op, FreePc
<1>4. ASSUME CodeRefused(t, p) PROVE TypeOK'
  BY <1>4, BeginTyped, ReplyNowTyped DEF CodeRefused, TypeOK, Result, Op, Pc
<1>5. ASSUME BootstrapRequest(t, p) PROVE TypeOK'
  <2>1. op' \in [Task -> Op] /\ prov' \in [Task -> Provider]
    BY <1>5, BeginTyped DEF BootstrapRequest
  <2>2. CASE ReplyNow(t, "bad_request")
    BY <2>1, <2>2, ReplyNowTyped DEF TypeOK, Result, Op, Pc
  <2>3. ASSUME NEW kind \in {"oauth", "api_key"}, NEW a \in BOOLEAN, NEW w \in BOOLEAN,
               NEW scoped \in BOOLEAN, NEW e \in Expiry,
               NewGrant(p, w),
               got' = [got EXCEPT ![t] =
                 [kind |-> kind,
                  access |-> IF a THEN FirstTokenOf(p) ELSE Null,
                  refresh |-> IF w THEN FirstTokenOf(p) ELSE Null,
                  expires |-> e, scopes |-> IF scoped THEN granted[p] + 1 ELSE 0]],
               Goto(t, "bootstrap_store"),
               UNCHANGED <<cred, holder, force, tok, result>>
        PROVE  TypeOK'
    <3> DEFINE row == [kind |-> kind,
                       access |-> IF a THEN FirstTokenOf(p) ELSE Null,
                       refresh |-> IF w THEN FirstTokenOf(p) ELSE Null,
                       expires |-> e, scopes |-> IF scoped THEN granted[p] + 1 ELSE 0]
    <3>1. row \in Row
      BY <2>3, GrantRowTyped
    <3>2. got' = [got EXCEPT ![t] = row]
      BY <2>3
    <3> HIDE DEF row
    <3>3. got' \in [Task -> Row]
      BY <3>1, <3>2 DEF TypeOK
    <3>4. OauthTypes'
      BY <2>3, NewGrantTyped
    <3>5. QED
      BY <2>1, <2>3, <3>3, <3>4 DEF TypeOK, OauthTypes, Goto, Op, FreePc
  <2>4. QED
    BY <1>5, <2>2, <2>3 DEF BootstrapRequest
<1>6. QED
  BY <1>1, <1>2, <1>3, <1>4, <1>5

\* A task whose request is out has a refresh token to present: what refresh_unlocked
\* bails on otherwise.  Without it the token endpoint's steps have no type.
HasRefreshToken(t) == pc[t] = "token_request" => got[t].refresh # Null

LEMMA RefreshedTyped ==
  ASSUME TypeOK, NEW t \in Task, NEW g \in 1 .. MaxGrant, NEW n \in 1 .. MaxGen,
         NEW w \in BOOLEAN, NEW e \in {"near", "far"}, NEW scoped \in BOOLEAN
  PROVE  Refreshed(t, g, n, w, e, scoped) \in Row
<1>1. [grant |-> g, gen |-> n] \in Token
  BY DEF Token
<1>2. (IF w THEN [grant |-> g, gen |-> n] ELSE Null) \in Token
  BY <1>1, TokenNull
<1>3. (IF scoped THEN g ELSE got[t].scopes) \in 0 .. MaxGrant
  BY BoundsAssumption DEF TypeOK, Row
<1>4. QED
  BY <1>1, <1>2, <1>3 DEF Refreshed, Row, Kind, Expiry

LEMMA PresentedGrant ==
  ASSUME TypeOK, NEW t \in Task, HasRefreshToken(t), pc[t] = "token_request"
  PROVE  /\ prov[t] \in Provider
         /\ got[t].refresh.grant \in 1 .. MaxGrant
  BY DEF TypeOK, HasRefreshToken, Row, Token

LEMMA TypeRefresh ==
  ASSUME TypeOK, NEW t \in Task, HasRefreshToken(t)
  PROVE  /\ Load(t) => TypeOK'
         /\ AcquireLock(t) => TypeOK'
         /\ Recheck(t) => TypeOK'
         /\ RefreshGet(t) => TypeOK'
         /\ EndpointStep(t) => TypeOK'
         /\ RefreshStore(t) => TypeOK'
         /\ Reload(t) => TypeOK'
<1>1. prov[t] \in Provider /\ cred[prov[t]] \in Row /\ cred[prov[t]].access \in Token
  BY DEF TypeOK, Row
<1>2. ASSUME Load(t) PROVE TypeOK'
  <2>1. CASE Goto(t, "wait_lock") /\ UNCHANGED <<holder, taskVars>>
    BY <1>2, <2>1 DEF Load, TypeOK, Goto, FreePc, taskVars, oauthVars
  <2>2. CASE ReturnAccess(t, cred[prov[t]].access)
    BY <1>1, <1>2, <2>2, ReturnAccessTyped
       DEF Load, oauthVars, OauthTypes, TypeOK, TaskTypes, Pc, Op
  <2>3. QED
    BY <1>2, <2>1, <2>2 DEF Load
<1>3. ASSUME AcquireLock(t) PROVE TypeOK'
  BY <1>3, HomeTyped DEF AcquireLock, TypeOK, Goto, LockedPc, taskVars, oauthVars
<1>4. ASSUME Recheck(t) PROVE TypeOK'
  BY <1>4 DEF Recheck, TypeOK, Goto, LockedPc, taskVars, oauthVars
<1>5. ASSUME RefreshGet(t) PROVE TypeOK'
  <2>1. CASE Fail(t)
    BY <1>5, <2>1, FailTyped DEF RefreshGet, oauthVars, OauthTypes, TypeOK, TaskTypes, Pc, Op
  <2>2. CASE /\ got' = [got EXCEPT ![t] = cred[prov[t]]]
             /\ Goto(t, "token_request")
             /\ UNCHANGED <<holder, op, prov, force, tok, result>>
    BY <1>1, <1>5, <2>2 DEF RefreshGet, TypeOK, Goto, LockedPc, oauthVars
  <2>3. QED
    BY <1>5, <2>1, <2>2 DEF RefreshGet
<1>6. ASSUME EndpointStep(t) PROVE TypeOK'
  <2>1. CASE TokenEndpointGrants(t)
    <3>1. PICK w \in BOOLEAN, scoped \in BOOLEAN, e \in {"near", "far"} :
            /\ Issue(prov[t], got[t].refresh.grant, w)
            /\ got' = [got EXCEPT ![t] =
                 Refreshed(t, got[t].refresh.grant,
                           issued[prov[t]][got[t].refresh.grant] + 1, w, e, scoped)]
      BY <2>1 DEF TokenEndpointGrants
    <3>2. pc[t] = "token_request"
      BY <2>1 DEF TokenEndpointGrants, At
    <3>3. /\ issued' \in [Provider -> [1 .. MaxGrant -> 0 .. MaxGen]]
          /\ current' \in [Provider -> [1 .. MaxGrant -> 0 .. MaxGen]]
          /\ issued[prov[t]][got[t].refresh.grant] + 1 \in 1 .. MaxGen
      BY <3>1, <3>2, PresentedGrant, IssueTyped
    <3>4. got' \in [Task -> Row]
      <4> DEFINE g == got[t].refresh.grant
                 row == Refreshed(t, g, issued[prov[t]][g] + 1, w, e, scoped)
      <4>1. g \in 1 .. MaxGrant
        BY <3>2, PresentedGrant
      <4>2. row \in Row
        BY <3>3, <4>1, RefreshedTyped
      <4>3. got' = [got EXCEPT ![t] = row]
        BY <3>1
      <4> HIDE DEF row
      <4>4. QED
        BY <4>2, <4>3 DEF TypeOK
    <3>5. /\ Goto(t, "refresh_store")
          /\ UNCHANGED <<cred, granted, holder, op, prov, force, tok, result>>
      BY <2>1 DEF TokenEndpointGrants
    <3>6. QED
      BY <3>3, <3>4, <3>5 DEF TypeOK, Goto, LockedPc
  <2>2. CASE TokenEndpointRefuses(t)
    BY <2>2, FailTyped DEF TokenEndpointRefuses, oauthVars, OauthTypes, TypeOK, TaskTypes, Pc, Op
  <2>3. QED
    BY <1>6, <2>1, <2>2 DEF EndpointStep
<1>7. ASSUME RefreshStore(t) PROVE TypeOK'
  <2>1. cred' \in [Provider -> Row]
    <3>1. Upserted(cred[prov[t]], got[t]) \in Row
      BY <1>1, UpsertedTyped DEF TypeOK
    <3>2. QED
      BY <1>7, <3>1 DEF RefreshStore, TypeOK
  <2>2. OauthTypes'
    BY <1>7 DEF RefreshStore, oauthVars, OauthTypes, TypeOK, TaskTypes, Pc, Op
  <2>3. CASE Leave(t, "stored")
    BY <2>1, <2>2, <2>3, LeaveTyped DEF Result, TypeOK, TaskTypes, OauthTypes, Pc, Op
  <2>4. CASE /\ got' = [got EXCEPT ![t] = NoRow]
             /\ Goto(t, "reload")
             /\ UNCHANGED <<holder, op, prov, force, tok, result>>
    BY <2>1, <2>2, <2>4, NoRowTyped DEF TypeOK, OauthTypes, Goto, LockedPc
  <2>5. QED
    BY <1>7, <2>3, <2>4 DEF RefreshStore
<1>8. ASSUME Reload(t) PROVE TypeOK'
  BY <1>1, <1>8, ReturnAccessTyped DEF Reload, oauthVars, OauthTypes, TypeOK, TaskTypes, Pc, Op
<1>9. QED
  BY <1>2, <1>3, <1>4, <1>5, <1>6, <1>7, <1>8

LEMMA TypeOthers ==
  ASSUME TypeOK, NEW t \in Task, HasRefreshToken(t)
  PROVE  /\ UpstreamStep(t) => TypeOK'
         /\ CallbackStore(t) => TypeOK'
         /\ BootstrapStore(t) => TypeOK'
         /\ LoopGet(t) => TypeOK'
         /\ LoopWakes(t) => TypeOK'
         /\ Disconnect(t) => TypeOK'
         /\ SqlFails(t) => TypeOK'
         /\ ResponseLost(t) => TypeOK'
<1>1. Upserted(cred[prov[t]], got[t]) \in Row
  BY UpsertedTyped DEF TypeOK
<1>2. ASSUME UpstreamStep(t) PROVE TypeOK'
  <2>1. CASE UpstreamAnswers(t)
    <3>1. PICK r \in {"served", "failed"} : Leave(t, r)
      BY <2>1 DEF UpstreamAnswers
    <3>2. QED
      BY <2>1, <3>1, LeaveTyped
         DEF UpstreamAnswers, oauthVars, OauthTypes, Result, TypeOK, TaskTypes, Pc, Op
  <2>2. CASE Upstream401(t)
    BY <2>2 DEF Upstream401, TypeOK, Goto, FreePc, oauthVars
  <2>3. QED
    BY <1>2, <2>1, <2>2 DEF UpstreamStep
<1>3. ASSUME CallbackStore(t) PROVE TypeOK'
  <2>1. cred' \in [Provider -> Row]
    BY <1>1, <1>3 DEF CallbackStore, TypeOK
  <2>2. QED
    BY <1>3, <2>1, LeaveTyped
       DEF CallbackStore, oauthVars, OauthTypes, Result, TypeOK, TaskTypes, Pc, Op
<1>4. ASSUME BootstrapStore(t) PROVE TypeOK'
  <2>1. cred' \in [Provider -> Row]
    BY <1>1, <1>4 DEF BootstrapStore, TypeOK
  <2>2. OauthTypes'
    BY <1>4 DEF BootstrapStore, oauthVars, OauthTypes, TypeOK, TaskTypes, Pc, Op
  <2>3. CASE Leave(t, "stored")
    BY <2>1, <2>2, <2>3, LeaveTyped DEF Result, TypeOK, TaskTypes, OauthTypes, Pc, Op
  <2>4. CASE /\ Goto(t, "wait_lock")
             /\ got' = [got EXCEPT ![t] = NoRow]
             /\ UNCHANGED <<holder, op, prov, force, tok, result>>
    BY <2>1, <2>2, <2>4, NoRowTyped DEF TypeOK, OauthTypes, Goto, FreePc
  <2>5. QED
    BY <1>4, <2>3, <2>4 DEF BootstrapStore
<1>5. ASSUME LoopGet(t) PROVE TypeOK'
  <2>1. CASE Goto(t, "wait_lock") /\ UNCHANGED <<holder, taskVars>>
    BY <1>5, <2>1 DEF LoopGet, TypeOK, Goto, FreePc, taskVars, oauthVars
  <2>2. CASE Leave(t, "stored")
    BY <1>5, <2>2, LeaveTyped DEF LoopGet, oauthVars, OauthTypes, Result, TypeOK, TaskTypes, Pc, Op
  <2>3. QED
    BY <1>5, <2>1, <2>2 DEF LoopGet
<1>6. ASSUME LoopWakes(t) PROVE TypeOK'
  BY <1>6 DEF LoopWakes, TypeOK, Goto, FreePc, taskVars, oauthVars
<1>7. ASSUME Disconnect(t) PROVE TypeOK'
  BY <1>7, LeaveTyped DEF Disconnect, oauthVars, OauthTypes, Result, TypeOK, TaskTypes, Pc, Op
<1>8. ASSUME SqlFails(t) PROVE TypeOK'
  BY <1>8, FailTyped DEF SqlFails, oauthVars, OauthTypes, TypeOK, TaskTypes, Pc, Op
<1>9. ASSUME ResponseLost(t) PROVE TypeOK'
  <2>1. PICK w \in BOOLEAN : Issue(prov[t], got[t].refresh.grant, w)
    BY <1>9 DEF ResponseLost
  <2>2. /\ issued' \in [Provider -> [1 .. MaxGrant -> 0 .. MaxGen]]
        /\ current' \in [Provider -> [1 .. MaxGrant -> 0 .. MaxGen]]
    BY <1>9, <2>1, PresentedGrant, IssueTyped DEF ResponseLost, At
  <2>3. OauthTypes'
    BY <1>9, <2>2 DEF ResponseLost, OauthTypes, TypeOK, TaskTypes, Pc, Op
  <2>4. QED
    BY <1>9, <2>3, FailTyped DEF ResponseLost, TypeOK, TaskTypes, OauthTypes, Pc, Op
<1>10. QED
  BY <1>2, <1>3, <1>4, <1>5, <1>6, <1>7, <1>8, <1>9

LEMMA TypeSigterm ==
  ASSUME TypeOK, NEW v \in Proc, Sigterm(v)
  PROVE  TypeOK'
<1>1. pc' \in [Task -> LockedPc \cup FreePc] /\ result' \in [Task -> Result]
  BY DEF Sigterm, TypeOK, FreePc, Result
<1>2. got' \in [Task -> Row] /\ tok' \in [Task -> Token]
  BY NoRowTyped, TokenNull DEF Sigterm, TypeOK
<1>3. 1 \in Provider
  BY VaultAssumption DEF Provider
<1>4. prov' \in [Task -> Provider] /\ holder' \in [Proc -> Task \cup {Nobody}]
  BY <1>3 DEF Sigterm, TypeOK
<1>5. QED
  BY <1>1, <1>2, <1>4 DEF Sigterm, TypeOK, oauthVars

LEMMA TypeTime ==
  ASSUME TypeOK, NEW p \in Provider, TimePasses(p)
  PROVE  TypeOK'
<1>1. [cred[p] EXCEPT !.expires = "near"] \in Row
  <2>1. cred[p] \in Row /\ "near" \in Expiry
    BY DEF TypeOK, Expiry
  <2>2. QED
    BY <2>1 DEF Row
<1>2. QED
  BY <1>1 DEF TimePasses, TypeOK, taskVars, oauthVars

-----------------------------------------------------------------------------
(* The lock.  Every step of a task is a move: it leaves the guarded region *)
(* and drops the guard, or stays where it is with respect to it, or enters *)
(* it by taking a free lock.                                               *)

Moves(t, l) ==
    /\ Goto(t, l)
    /\ \/ l \notin LockedPc /\ DropGuard(t)
       \/ (l \in LockedPc <=> pc[t] \in LockedPc) /\ UNCHANGED holder
       \/ /\ l \in LockedPc /\ holder[Home[t]] = Nobody
          /\ holder' = [holder EXCEPT ![Home[t]] = t]
    /\ \A s \in Task \ {t} : got'[s] = got[s]
    /\ l = "token_request" => got'[t].refresh # Null

LockInv == SingleFlight /\ LockNeverLeaks
Inv == TypeOK /\ LockInv /\ \A t \in Task : HasRefreshToken(t)

LEMMA MovesKeepLock ==
  ASSUME TypeOK, LockInv, NEW t \in Task, NEW l \in Pc, Moves(t, l)
  PROVE  LockInv'
<1>1. /\ pc'[t] = l
      /\ \A s \in Task \ {t} : pc'[s] = pc[s]
  BY DEF Moves, Goto, TypeOK
<1>2. CASE l \notin LockedPc /\ DropGuard(t)
  <2>1. SingleFlight'
    BY <1>1, <1>2, HomeTyped DEF LockInv, SingleFlight, DropGuard, TypeOK
  <2>2. ASSUME NEW v \in Proc, holder'[v] # Nobody
        PROVE  Home[holder'[v]] = v /\ pc'[holder'[v]] \in LockedPc
    <3>1. holder'[v] = holder[v]
      BY <1>2, <2>2, HomeTyped DEF DropGuard, TypeOK
    <3>2. holder[v] \in Task /\ Home[holder[v]] = v /\ pc[holder[v]] \in LockedPc
      BY <2>2, <3>1 DEF LockInv, LockNeverLeaks, TypeOK
    <3>3. holder[v] # t
      BY <1>2, <2>2, <3>1, <3>2, HomeTyped DEF DropGuard, TypeOK
    <3>4. QED
      BY <1>1, <3>1, <3>2, <3>3
  <2>3. QED
    BY <2>1, <2>2 DEF LockInv, LockNeverLeaks
<1>3. CASE (l \in LockedPc <=> pc[t] \in LockedPc) /\ UNCHANGED holder
  <2>1. SingleFlight'
    BY <1>1, <1>3 DEF LockInv, SingleFlight
  <2>2. ASSUME NEW v \in Proc, holder'[v] # Nobody
        PROVE  Home[holder'[v]] = v /\ pc'[holder'[v]] \in LockedPc
    <3>1. holder[v] \in Task /\ Home[holder[v]] = v /\ pc[holder[v]] \in LockedPc
      BY <1>3, <2>2 DEF LockInv, LockNeverLeaks, TypeOK
    <3>2. QED
      BY <1>1, <1>3, <3>1
  <2>3. QED
    BY <2>1, <2>2 DEF LockInv, LockNeverLeaks
<1>4. CASE /\ l \in LockedPc /\ holder[Home[t]] = Nobody
           /\ holder' = [holder EXCEPT ![Home[t]] = t]
  <2>1. SingleFlight'
    BY <1>1, <1>4, HomeTyped DEF LockInv, SingleFlight, TypeOK
  <2>2. ASSUME NEW v \in Proc, holder'[v] # Nobody
        PROVE  Home[holder'[v]] = v /\ pc'[holder'[v]] \in LockedPc
    <3>1. CASE v = Home[t]
      BY <1>1, <1>4, <3>1, HomeTyped DEF TypeOK
    <3>2. CASE v # Home[t]
      <4>1. holder'[v] = holder[v]
        BY <1>4, <3>2 DEF TypeOK
      <4>2. holder[v] \in Task /\ Home[holder[v]] = v /\ pc[holder[v]] \in LockedPc
        BY <2>2, <4>1 DEF LockInv, LockNeverLeaks, TypeOK
      <4>3. QED
        BY <1>1, <3>2, <4>1, <4>2
    <3>3. QED
      BY <3>1, <3>2
  <2>3. QED
    BY <2>1, <2>2 DEF LockInv, LockNeverLeaks
<1>5. QED
  BY <1>2, <1>3, <1>4 DEF Moves

LEMMA MovesKeepToken ==
  ASSUME TypeOK, \A s \in Task : HasRefreshToken(s), NEW t \in Task, NEW l \in Pc, Moves(t, l)
  PROVE  \A s \in Task : HasRefreshToken(s)'
  BY DEF Moves, Goto, HasRefreshToken, TypeOK

LEMMA LeaveMoves ==
  ASSUME TypeOK, NEW t \in Task, NEW r, Leave(t, r)
  PROVE  \E l \in Pc : Moves(t, l)
<1> DEFINE l == IF t \in Proc THEN (IF prov[t] < NumProviders THEN "loop_get" ELSE "sleep")
                ELSE "done"
<1>1. l \in Pc /\ l \notin LockedPc /\ l # "token_request"
  BY DEF Pc, FreePc, LockedPc
<1>2. Goto(t, l) /\ DropGuard(t)
  BY DEF Leave
<1>3. \A s \in Task \ {t} : got'[s] = got[s]
  BY DEF Leave, TypeOK
<1> HIDE DEF l
<1>4. QED
  BY <1>1, <1>2, <1>3 DEF Moves

LEMMA FailMoves ==
  ASSUME TypeOK, NEW t \in Task, Fail(t)
  PROVE  \E l \in Pc : Moves(t, l)
  BY LeaveMoves DEF Fail

LEMMA ReturnAccessMoves ==
  ASSUME TypeOK, NEW t \in Task, NEW a, ReturnAccess(t, a)
  PROVE  \E l \in Pc : Moves(t, l)
<1>1. CASE Fail(t) \/ Leave(t, "served")
  BY <1>1, FailMoves, LeaveMoves
<1>2. CASE /\ Goto(t, IF force[t] THEN "resend" ELSE "send")
           /\ DropGuard(t)
           /\ UNCHANGED got
  BY <1>2 DEF Moves, Pc, FreePc, LockedPc
<1>3. QED
  BY <1>1, <1>2 DEF ReturnAccess

LEMMA ArriveMoves ==
  ASSUME TypeOK, NEW t \in Task, Arrive(t)
  PROVE  \E l \in Pc : Moves(t, l)
<1>1. PICK p \in Provider : \/ ProxyGet(t, p)
                            \/ AuthzGet(t, p)
                            \/ CodeExchanged(t, p)
                            \/ CodeRefused(t, p)
                            \/ BootstrapRequest(t, p)
  BY DEF Arrive
<1>2. pc[t] = "idle"
  BY <1>1 DEF ProxyGet, AuthzGet, CodeExchanged, CodeRefused, BootstrapRequest, Begin, At
<1>3. \E l \in {"done", "load", "send", "callback_store", "bootstrap_store"} :
         /\ Goto(t, l)
         /\ UNCHANGED holder
         /\ \A s \in Task \ {t} : got'[s] = got[s]
  <2>1. ASSUME NEW r, ReplyNow(t, r)
        PROVE  Goto(t, "done") /\ UNCHANGED <<holder, got>>
    BY <2>1 DEF ReplyNow
  <2>2. CASE ProxyGet(t, p)
    BY <2>1, <2>2 DEF ProxyGet
  <2>3. CASE AuthzGet(t, p)
    BY <2>1, <2>3 DEF AuthzGet
  <2>4. CASE CodeExchanged(t, p)
    BY <2>4 DEF CodeExchanged, TypeOK
  <2>5. CASE CodeRefused(t, p)
    BY <2>1, <2>5 DEF CodeRefused
  <2>6. CASE BootstrapRequest(t, p)
    BY <2>1, <2>6 DEF BootstrapRequest, TypeOK
  <2>7. QED
    BY <1>1, <2>2, <2>3, <2>4, <2>5, <2>6
<1>4. QED
  BY <1>2, <1>3 DEF Moves, Pc, FreePc, LockedPc

LEMMA StepMoves ==
  ASSUME TypeOK, NEW t \in Task,
         AcquireLock(t) \/ LocalStep(t) \/ EndpointStep(t) \/ UpstreamStep(t)
  PROVE  \E l \in Pc : Moves(t, l)
<1>1. CASE AcquireLock(t)
  BY <1>1 DEF AcquireLock, Moves, Pc, LockedPc, FreePc, taskVars
<1>2. CASE Load(t)
  <2>1. CASE Goto(t, "wait_lock") /\ UNCHANGED <<holder, taskVars>>
    BY <1>2, <2>1 DEF Load, At, Moves, Pc, LockedPc, FreePc, taskVars
  <2>2. QED
    BY <1>2, <2>1, ReturnAccessMoves DEF Load
<1>3. CASE Recheck(t)
  BY <1>3 DEF Recheck, At, Moves, Pc, LockedPc, FreePc, taskVars
<1>4. CASE RefreshGet(t)
  <2>1. CASE /\ cred[prov[t]].refresh # Null
             /\ got' = [got EXCEPT ![t] = cred[prov[t]]]
             /\ Goto(t, "token_request")
             /\ UNCHANGED holder
    BY <1>4, <2>1 DEF RefreshGet, At, Moves, Pc, LockedPc, TypeOK
  <2>2. QED
    BY <1>4, <2>1, FailMoves DEF RefreshGet
<1>5. CASE RefreshStore(t)
  <2>1. CASE /\ got' = [got EXCEPT ![t] = NoRow]
             /\ Goto(t, "reload")
             /\ UNCHANGED holder
    BY <1>5, <2>1 DEF RefreshStore, At, Moves, Pc, LockedPc, TypeOK
  <2>2. QED
    BY <1>5, <2>1, LeaveMoves DEF RefreshStore
<1>6. CASE Reload(t)
  BY <1>6, ReturnAccessMoves DEF Reload
<1>7. CASE CallbackStore(t)
  BY <1>7, LeaveMoves DEF CallbackStore
<1>8. CASE BootstrapStore(t)
  <2>1. CASE /\ Goto(t, "wait_lock")
             /\ got' = [got EXCEPT ![t] = NoRow]
             /\ UNCHANGED holder
    BY <1>8, <2>1 DEF BootstrapStore, At, Moves, Pc, LockedPc, FreePc, TypeOK
  <2>2. QED
    BY <1>8, <2>1, LeaveMoves DEF BootstrapStore
<1>9. CASE LoopGet(t)
  <2>1. CASE Goto(t, "wait_lock") /\ UNCHANGED <<holder, taskVars>>
    BY <1>9, <2>1 DEF LoopGet, At, Moves, Pc, LockedPc, FreePc, taskVars
  <2>2. QED
    BY <1>9, <2>1, LeaveMoves DEF LoopGet
<1>10. CASE LoopWakes(t)
  BY <1>10 DEF LoopWakes, At, Moves, Pc, LockedPc, FreePc, taskVars
<1>11. CASE TokenEndpointGrants(t)
  BY <1>11 DEF TokenEndpointGrants, At, Moves, Pc, LockedPc, TypeOK
<1>12. CASE TokenEndpointRefuses(t)
  BY <1>12, FailMoves DEF TokenEndpointRefuses
<1>13. CASE UpstreamAnswers(t)
  BY <1>13, LeaveMoves DEF UpstreamAnswers
<1>14. CASE Upstream401(t)
  BY <1>14 DEF Upstream401, At, Moves, Pc, LockedPc, FreePc
<1>15. QED
  BY <1>1, <1>2, <1>3, <1>4, <1>5, <1>6, <1>7, <1>8, <1>9, <1>10, <1>11, <1>12, <1>13, <1>14
  DEF LocalStep, EndpointStep, UpstreamStep

LEMMA FaultMoves ==
  ASSUME TypeOK, NEW t \in Task, Disconnect(t) \/ SqlFails(t) \/ ResponseLost(t)
  PROVE  \E l \in Pc : Moves(t, l)
  BY LeaveMoves, FailMoves DEF Disconnect, SqlFails, ResponseLost

LEMMA SigtermKeepsInv ==
  ASSUME Inv, NEW v \in Proc, Sigterm(v)
  PROVE  LockInv' /\ \A s \in Task : HasRefreshToken(s)'
<1>1. ASSUME NEW s \in Task
      PROVE  /\ Home[s] = v => pc'[s] \notin LockedPc
             /\ Home[s] # v => pc'[s] = pc[s] /\ got'[s] = got[s]
  BY <1>1, HomeTyped DEF Sigterm, Running, Inv, TypeOK, LockedPc, Task
<1>2. holder' = [holder EXCEPT ![v] = Nobody]
  BY DEF Sigterm
<1>3. SingleFlight'
  BY <1>1, <1>2, HomeTyped DEF Inv, LockInv, SingleFlight, TypeOK
<1>4. LockNeverLeaks'
  BY <1>1, <1>2, HomeTyped DEF Inv, LockInv, LockNeverLeaks, TypeOK
<1>5. \A s \in Task : HasRefreshToken(s)'
  BY <1>1 DEF Inv, HasRefreshToken, LockedPc
<1>6. QED
  BY <1>3, <1>4, <1>5 DEF LockInv

-----------------------------------------------------------------------------
(* The theorems.                                                           *)

LEMMA InvInit == Init => Inv
<1> SUFFICES ASSUME Init PROVE Inv
  OBVIOUS
<1>1. TypeOK
  BY TypeInit
<1>2. \A t \in Task : pc[t] \in {"loop_get", "idle"}
  BY DEF Init
<1>3. LockInv
  BY <1>2 DEF Init, LockInv, SingleFlight, LockNeverLeaks, LockedPc
<1>4. QED
  BY <1>1, <1>2, <1>3 DEF Inv, HasRefreshToken

LEMMA InvNext == Inv /\ [Next]_vars => Inv'
<1> SUFFICES ASSUME Inv, [Next]_vars PROVE Inv'
  OBVIOUS
<1> USE DEF Inv
<1>1. ASSUME NEW t \in Task, Arrive(t)
      PROVE  Inv'
  BY <1>1, TypeArrive, ArriveMoves, MovesKeepLock, MovesKeepToken DEF Arrive
<1>2. ASSUME NEW t \in Task, AcquireLock(t) \/ LocalStep(t) \/ EndpointStep(t) \/ UpstreamStep(t)
      PROVE  Inv'
  <2>1. TypeOK'
    BY <1>2, TypeRefresh, TypeOthers DEF LocalStep
  <2>2. QED
    BY <1>2, <2>1, StepMoves, MovesKeepLock, MovesKeepToken
<1>3. ASSUME NEW p \in Provider, TimePasses(p)
      PROVE  Inv'
  BY <1>3, TypeTime
  DEF TimePasses, taskVars, LockInv, SingleFlight, LockNeverLeaks, HasRefreshToken
<1>4. ASSUME NEW v \in Proc, Sigterm(v)
      PROVE  Inv'
  BY <1>4, TypeSigterm, SigtermKeepsInv
<1>5. ASSUME NEW t \in Task, Disconnect(t) \/ SqlFails(t) \/ ResponseLost(t)
      PROVE  Inv'
  <2>1. TypeOK'
    BY <1>5, TypeOthers
  <2>2. QED
    BY <1>5, <2>1, FaultMoves, MovesKeepLock, MovesKeepToken
<1>6. CASE UNCHANGED vars
  BY <1>6 DEF vars, TypeOK, LockInv, SingleFlight, LockNeverLeaks, HasRefreshToken
<1>7. QED
  BY <1>1, <1>2, <1>3, <1>4, <1>5, <1>6 DEF Next, Fault

LEMMA Invariance == Spec => []Inv
<1>1. Init => Inv
  BY InvInit
<1>2. Inv /\ [Next]_vars => Inv'
  BY InvNext
<1>3. QED
  BY <1>1, <1>2, PTL DEF Spec

\* Whatever the numbers of processes, requests and providers, and whichever faults
\* happen, the vault's rows, the provider's counters and the tasks keep their types.
THEOREM TypeCorrect == Spec => []TypeOK
<1>1. Inv => TypeOK
  BY DEF Inv
<1>2. QED
  BY <1>1, Invariance, PTL

\* Refreshes of a process are single-flight (refresh.rs, refresh and current_access),
\* under every fault the model knows.
THEOREM RefreshIsSingleFlight == Spec => []SingleFlight
<1>1. Inv => SingleFlight
  BY DEF Inv, LockInv
<1>2. QED
  BY <1>1, Invariance, PTL

\* No early return, error, dropped future or SIGTERM leaves refresh_lock held.
THEOREM LockIsReleased == Spec => []LockNeverLeaks
<1>1. Inv => LockNeverLeaks
  BY DEF Inv, LockInv
<1>2. QED
  BY <1>1, Invariance, PTL

=============================================================================
