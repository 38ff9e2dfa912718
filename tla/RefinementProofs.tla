-------------------------- MODULE RefinementProofs --------------------------
(***************************************************************************)
(* Vault processes whose tasks run to their end implement AtomicCredential *)
(* together, for any number of processes, requests, providers and grants:  *)
(* every step of TokenVault is a step of the abstract specification or     *)
(* leaves what it speaks of alone.                                         *)
(***************************************************************************)
EXTENDS RotationProofs, VaultRefinement

Refreshing(t) == pc[t] = "refresh_store"

\* t is about to store the successor of p's refresh token.
Succeeds(t, p) ==
    /\ Refreshing(t) /\ prov[t] = p
    /\ got[t].refresh # Null /\ got[t].refresh.grant = cred[p].refresh.grant

\* Whoever is about to store a valid refresh token of a grant is the only one that
\* has one of that grant in hand.
LEMMA OneOfItsGrant ==
  ASSUME TypeOK, FreshInv, NEW s \in Task, NEW t \in Task, s # t,
         Storing(s), InHand(t), got[s].refresh # Null, got[t].refresh # Null,
         prov[s] = prov[t], PresentsCurrent(t)
  PROVE  got[s].refresh.grant # got[t].refresh.grant
<1>1. /\ got[s].refresh \in Token /\ got[t].refresh \in Token
      /\ PresentsCurrent(s) /\ got[t].refresh # got[s].refresh
  BY TokenOfRow DEF FreshInv, StoresFresh
<1>2. got[s].refresh.grant = got[t].refresh.grant => got[s].refresh.gen = got[t].refresh.gen
  BY <1>1 DEF PresentsCurrent
<1>3. QED
  BY <1>1, <1>2, SameToken

LEMMA OneSuccessor ==
  ASSUME TypeOK, FreshInv, NEW p, NEW s \in Task, NEW t \in Task, Succeeds(s, p), Succeeds(t, p)
  PROVE  s = t
<1>1. /\ Storing(s) /\ Storing(t) /\ InHand(t) /\ prov[s] = prov[t]
      /\ got[s].refresh # Null /\ got[t].refresh # Null
      /\ got[s].refresh.grant = got[t].refresh.grant
  BY DEF Succeeds, Refreshing, Storing, InHand
<1>2. PresentsCurrent(t)
  BY <1>1 DEF FreshInv, StoresFresh
<1>3. QED
  BY <1>1, <1>2, OneOfItsGrant

LEMMA HeldAt ==
  ASSUME NEW p \in Provider
  PROVE  /\ (\A t \in Task : ~Succeeds(t, p)) => Held[p] = cred[p].refresh
         /\ \A t \in Task : Succeeds(t, p) /\ (\A s \in Task : Succeeds(s, p) => s = t) =>
              Held[p] = got[t].refresh
<1>1. ASSUME \A t \in Task : ~Succeeds(t, p) PROVE Held[p] = cred[p].refresh
  <2>1. Carried(p) = {}
    BY <1>1 DEF Carried, Succeeds, Refreshing
  <2>2. QED
    BY <2>1 DEF Held, TheOne
<1>2. ASSUME NEW t \in Task, Succeeds(t, p), \A s \in Task : Succeeds(s, p) => s = t
      PROVE  Held[p] = got[t].refresh
  <2>1. Carried(p) = {got[t].refresh}
    BY <1>2 DEF Carried, Succeeds, Refreshing
  <2>2. QED
    BY <2>1 DEF Held, TheOne
<1>3. QED
  BY <1>1, <1>2

LEMMA HeldAtPrimed ==
  ASSUME NEW p \in Provider
  PROVE  /\ (\A t \in Task : ~Succeeds(t, p)') => Held'[p] = cred'[p].refresh
         /\ \A t \in Task : Succeeds(t, p)' /\ (\A s \in Task : Succeeds(s, p)' => s = t) =>
              Held'[p] = got'[t].refresh
<1>1. ASSUME \A t \in Task : ~Succeeds(t, p)' PROVE Held'[p] = cred'[p].refresh
  <2>1. Carried(p)' = {}
    BY <1>1 DEF Carried, Succeeds, Refreshing
  <2>2. QED
    BY <2>1 DEF Held, TheOne
<1>2. ASSUME NEW t \in Task, Succeeds(t, p)', \A s \in Task : Succeeds(s, p)' => s = t
      PROVE  Held'[p] = got'[t].refresh
  <2>1. Carried(p)' = {got'[t].refresh}
    BY <1>2 DEF Carried, Succeeds, Refreshing
  <2>2. QED
    BY <2>1 DEF Held, TheOne
<1>3. QED
  BY <1>1, <1>2

\* The same are about to be stored beside the same token: the same is held.
LEMMA HeldKept ==
  ASSUME NEW p \in Provider, cred'[p].refresh = cred[p].refresh,
         \A t \in Task : /\ Succeeds(t, p)' <=> Succeeds(t, p)
                         /\ Succeeds(t, p) => got'[t].refresh = got[t].refresh
  PROVE  Held'[p] = Held[p]
<1>1. /\ Carried(p) = {got[t].refresh : t \in {s \in Task : Succeeds(s, p)}}
      /\ Carried(p)' = {got'[t].refresh : t \in {s \in Task : Succeeds(s, p)'}}
  BY DEF Carried, Succeeds, Refreshing
<1>2. Carried(p)' = Carried(p)
  BY <1>1
<1>3. QED
  BY <1>2 DEF Held

LEMMA HeldIsFunction ==
  /\ Held = [q \in Provider |-> Held[q]]
  /\ Held' = [q \in Provider |-> Held'[q]]
  BY DEF Held

\* Nothing changes for any task that is about to store what a refresh brought.
LEMMA HeldUnchanged ==
  ASSUME \A p \in Provider : cred'[p].refresh = cred[p].refresh,
         \A t \in Task : /\ Refreshing(t)' <=> Refreshing(t)
                         /\ Refreshing(t) => prov'[t] = prov[t] /\ got'[t] = got[t]
  PROVE  Held' = Held
<1>1. ASSUME NEW p \in Provider, NEW t \in Task
      PROVE  /\ Succeeds(t, p)' <=> Succeeds(t, p)
             /\ Succeeds(t, p) => got'[t].refresh = got[t].refresh
  BY <1>1 DEF Succeeds, Refreshing
<1>2. \A p \in Provider : Held'[p] = Held[p]
  BY <1>1, HeldKept
<1>3. QED
  BY <1>2, HeldIsFunction

-----------------------------------------------------------------------------
(* What each kind of step is to the abstract specification.                *)

\* It looks, gives up before a pair is issued, or takes the row in hand.
LEMMA LookingStutters ==
  ASSUME NEW t \in Task, OtherTasksKeep(t), Quiet(t) \/ TakesRow(t), Faults = {}
  PROVE  UNCHANGED Atomic!vars
<1>1. /\ UNCHANGED <<cred, granted, issued, current>>
      /\ ~Refreshing(t) /\ ~Refreshing(t)'
  BY DEF Quiet, TakesRow, CutOff, Refreshing, InHand
<1>2. Held' = Held
  BY <1>1, HeldUnchanged DEF OtherTasksKeep, Refreshing
<1>3. QED
  BY <1>1, <1>2 DEF Atomic!vars

\* The user consents: the abstract vault hears of it later.
LEMMA ConsentIsConsent ==
  ASSUME NEW t \in Task, OtherTasksKeep(t), Consents(t), prov'[t] \in Provider
  PROVE  Atomic!Next
<1> DEFINE p == prov'[t]
<1>1. ~Refreshing(t) /\ ~Refreshing(t)' /\ UNCHANGED cred
  BY DEF Consents, Consenting, Refreshing
<1>2. Held' = Held
  BY <1>1, HeldUnchanged DEF OtherTasksKeep, Refreshing
<1>3. Atomic!Consent(p)
  BY <1>2 DEF Consents, Atomic!Consent
<1>4. QED
  BY <1>3 DEF Atomic!Next

\* The token endpoint's answer is the abstract refresh.
LEMMA EndpointRefreshes ==
  ASSUME TypeOK, AccessInv, FreshInv, NEW t \in Task, OtherTasksKeep(t), Issues(t), Faults = {},
         NEW p \in Provider, p = prov[t]
  PROVE  Atomic!Next
<1> DEFINE g == got[t].refresh.grant
           n == issued[p][g] + 1
<1>1. PICK w \in BOOLEAN :
        /\ current' = [current EXCEPT ![p][g] = IF w THEN n ELSE @]
        /\ pc'[t] = "refresh_store" /\ prov'[t] = p
        /\ got'[t].refresh = IF w THEN [grant |-> g, gen |-> n] ELSE Null
  BY DEF Issues, CutOff
<1>2. /\ pc[t] = "token_request" /\ InHand(t) /\ got[t].refresh # Null
      /\ UNCHANGED <<cred, granted>> /\ PresentsCurrent(t)
      /\ issued' = [issued EXCEPT ![p][g] = @ + 1]
  BY DEF Issues, InHand
<1>3. p \in Provider /\ g \in 1 .. MaxGrant /\ g <= granted[p]
  BY <1>2, KnownRefresh, TokenOfRow
<1>4. g \in 1 .. granted[p] /\ current[p][g] # 0
  <2>1. got[t].refresh.gen \in 1 .. MaxGen
    BY <1>2, TokenOfRow, TokenGrant
  <2>2. granted[p] \in Nat
    BY <1>3, CountersTyped
  <2>3. QED
    BY <1>2, <1>3, <2>1, <2>2 DEF PresentsCurrent
<1>5. /\ current \in [Provider -> [1 .. MaxGrant -> 0 .. MaxGen]]
      /\ issued \in [Provider -> [1 .. MaxGrant -> 0 .. MaxGen]]
  BY DEF TypeOK
<1>6. issued'[p][g] = n
  BY <1>2, <1>3, <1>5
<1>7. \A s \in Task \ {t} : /\ Refreshing(s)' <=> Refreshing(s)
                            /\ prov'[s] = prov[s] /\ got'[s] = got[s]
  BY DEF OtherTasksKeep, Refreshing
<1>8. ASSUME NEW q \in Provider, NEW s \in Task \ {t}
      PROVE  Succeeds(s, q)' <=> Succeeds(s, q)
  BY <1>2, <1>7 DEF Succeeds
<1>9. \A q \in Provider : ~Succeeds(t, q)
  BY <1>2 DEF Succeeds, Refreshing
<1>10. \A q \in Provider : Succeeds(t, q)' <=> w /\ q = p /\ cred[q].refresh.grant = g
  <2>1. w => got'[t].refresh # Null /\ got'[t].refresh.grant = g
    BY <1>1, <1>3 DEF Null
  <2>2. QED
    BY <1>1, <1>2, <2>1 DEF Succeeds, Refreshing
<1>11. ASSUME NEW q \in Provider, ~Succeeds(t, q)' PROVE Held'[q] = Held[q]
  BY <1>2, <1>7, <1>8, <1>9, <1>11, HeldKept
<1>12. ASSUME Succeeds(t, p)'
       PROVE  Held[p].grant = g /\ Held'[p] = [grant |-> g, gen |-> n]
  <2>1. w /\ cred[p].refresh.grant = g
    BY <1>3, <1>10, <1>12
  <2>2. ASSUME NEW s \in Task PROVE ~Succeeds(s, p)
    <3>1. CASE s = t
      BY <1>3, <1>9, <3>1
    <3>2. CASE s # t
      <4>1. Succeeds(s, p) => Storing(s) /\ got[s].refresh # Null
                              /\ prov[s] = p /\ got[s].refresh.grant = g
        BY <2>1 DEF Succeeds, Refreshing, Storing
      <4>2. QED
        BY <1>2, <3>2, <4>1, OneOfItsGrant
    <3>3. QED
      BY <3>1, <3>2
  <2>3. \A s \in Task : Succeeds(s, p)' => s = t
    BY <1>3, <1>8, <2>2
  <2>4. Held[p] = cred[p].refresh /\ Held'[p] = got'[t].refresh
    BY <1>3, <1>12, <2>2, <2>3, HeldAt, HeldAtPrimed
  <2>5. QED
    BY <1>1, <2>1, <2>4
<1> HIDE DEF n
<1>13. CASE w
  <2>1. current' = [current EXCEPT ![p][g] = issued'[p][g]]
    BY <1>1, <1>6, <1>13
  <2>2. ASSUME NEW q \in Provider
        PROVE  Held'[q] = IF q = p /\ Held[q].grant = g THEN [grant |-> g, gen |-> n] ELSE Held[q]
    <3>1. CASE Succeeds(t, q)'
      BY <1>10, <1>12, <2>2, <3>1
    <3>2. CASE ~Succeeds(t, q)'
      <4>1. Held'[q] = Held[q]
        BY <1>11, <3>2
      <4>2. q = p => Held[q].grant # g
        <5>1. q = p => cred[q].refresh.grant # g
          BY <1>10, <1>13, <3>2
        <5>2. CASE \A s \in Task : ~Succeeds(s, q)
          BY <5>1, <5>2, HeldAt
        <5>3. CASE \E s \in Task : Succeeds(s, q)
          <6>1. PICK s \in Task : Succeeds(s, q)
            BY <5>3
          <6>2. Held[q] = got[s].refresh /\ got[s].refresh.grant = cred[q].refresh.grant
            BY <6>1, HeldAt, OneSuccessor DEF Succeeds
          <6>3. QED
            BY <5>1, <6>2
        <5>4. QED
          BY <5>2, <5>3
      <4>3. QED
        BY <4>1, <4>2
    <3>3. QED
      BY <3>1, <3>2
  <2>3. Held' = [Held EXCEPT ![p] = IF @.grant = g THEN [grant |-> g, gen |-> n] ELSE @]
    BY <2>2, HeldIsFunction
  <2>4. QED
    BY <1>2, <1>3, <1>4, <1>6, <2>1, <2>3 DEF Atomic!Next, Atomic!Refresh
<1>14. CASE ~w
  <2>1. current' = current
    BY <1>1, <1>3, <1>5, <1>14
  <2>2. \A q \in Provider : Held'[q] = Held[q]
    BY <1>10, <1>11, <1>14
  <2>3. Held' = Held
    BY <2>2, HeldIsFunction
  <2>4. QED
    BY <1>2, <1>3, <1>4, <2>1, <2>3 DEF Atomic!Next, Atomic!Refresh
<1>15. QED
  BY <1>13, <1>14

\* What a task stores is the valid token of a grant the user gave.
LEMMA StoredIsAdopted ==
  ASSUME TypeOK, AccessInv, FreshInv, NEW t \in Task, Storing(t), got[t].refresh # Null,
         \A q \in Provider : q # prov[t] => Held'[q] = Held[q],
         Held'[prov[t]] = got[t].refresh, UNCHANGED <<granted, issued, current>>
  PROVE  Atomic!Next
<1> DEFINE p == prov[t]
           g == got[t].refresh.grant
<1>1. /\ p \in Provider /\ got[t].refresh \in Token /\ InHand(t)
      /\ got[t].refresh.gen \in 1 .. MaxGen
  BY TokenOfRow, TokenGrant DEF Storing, InHand
<1>2. g \in 1 .. MaxGrant /\ g <= granted[p] /\ granted[p] \in Nat
  BY <1>1, KnownRefresh, CountersTyped
<1>3. got[t].refresh.gen = current[p][g]
  BY DEF FreshInv, StoresFresh, PresentsCurrent
<1>4. got[t].refresh = [grant |-> g, gen |-> current[p][g]]
  BY <1>1, <1>3 DEF Token, Null
<1>5. Held' = [Held EXCEPT ![p] = [grant |-> g, gen |-> current[p][g]]]
  BY <1>1, <1>4, HeldIsFunction
<1>6. current[p][g] # 0 /\ g \in 1 .. granted[p]
  BY <1>1, <1>2, <1>3
<1> HIDE DEF p, g
<1>7. Atomic!Adopt(p)
  BY <1>5, <1>6, Zenon DEF Atomic!Adopt
<1>8. QED
  BY <1>1, <1>7 DEF Atomic!Next

\* A store is seen as nothing, if the row now has what was held, or as turning
\* to the valid token of another grant.
LEMMA StoreAdopts ==
  ASSUME TypeOK, AccessInv, FreshInv, NEW t \in Task, OtherTasksKeep(t), Stores(t),
         NEW p \in Provider, p = prov[t]
  PROVE  Atomic!Next \/ UNCHANGED Atomic!vars
<1> DEFINE r == got[t].refresh
<1>1. /\ p \in Provider /\ Storing(t) /\ ~Refreshing(t)'
      /\ UNCHANGED <<granted, issued, current>>
      /\ \A q \in Provider : q # p => cred'[q] = cred[q]
      /\ cred'[p].refresh = IF r = Null THEN cred[p].refresh ELSE r
  BY DEF Stores, TypeOK, Upserted, Refreshing, InHand
<1>2. \A s \in Task \ {t} : /\ Refreshing(s)' <=> Refreshing(s)
                            /\ prov'[s] = prov[s] /\ got'[s] = got[s]
  BY DEF OtherTasksKeep, Refreshing
<1>3. ASSUME NEW q \in Provider, cred'[q].refresh = cred[q].refresh, ~Succeeds(t, q)
      PROVE  Held'[q] = Held[q]
  <2>1. ASSUME NEW s \in Task
        PROVE  /\ Succeeds(s, q)' <=> Succeeds(s, q)
               /\ Succeeds(s, q) => got'[s].refresh = got[s].refresh
    <3>1. CASE s = t
      BY <1>1, <1>3, <3>1 DEF Succeeds
    <3>2. CASE s # t
      BY <1>2, <1>3, <3>2 DEF Succeeds
    <3>3. QED
      BY <3>1, <3>2
  <2>2. QED
    BY <1>3, <2>1, HeldKept
<1>4. \A q \in Provider : q # p => Held'[q] = Held[q]
  BY <1>1, <1>3 DEF Succeeds
<1>5. CASE r = Null
  <2>1. Held'[p] = Held[p]
    BY <1>1, <1>3, <1>5 DEF Succeeds
  <2>2. Held' = Held
    BY <1>4, <2>1, HeldIsFunction
  <2>3. QED
    BY <1>1, <2>2 DEF Atomic!vars
<1>6. CASE r # Null
  <2>1. PresentsCurrent(t) /\ InHand(t)
    BY <1>1, <1>6 DEF FreshInv, StoresFresh, Storing, InHand
  <2>2. ASSUME NEW s \in Task PROVE ~Succeeds(s, p)'
    <3>1. CASE s = t
      BY <1>1, <3>1 DEF Succeeds
    <3>2. CASE s # t
      <4>1. Succeeds(s, p)' => Storing(s) /\ got[s].refresh # Null
                               /\ prov[s] = p /\ got[s].refresh.grant = r.grant
        BY <1>1, <1>2, <1>6, <3>2 DEF Succeeds, Refreshing, Storing
      <4>2. QED
        BY <1>6, <2>1, <3>2, <4>1, OneOfItsGrant
    <3>3. QED
      BY <3>1, <3>2
  <2>3. Held'[p] = r
    BY <1>1, <1>6, <2>2, HeldAtPrimed
  <2>4. QED
    BY <1>1, <1>4, <1>6, <2>3, StoredIsAdopted
<1>7. QED
  BY <1>5, <1>6

-----------------------------------------------------------------------------
LEMMA AtomicNext ==
  ASSUME Inv, Inv', AccessInv, FreshInv, Faults = {}, [Next]_vars
  PROVE  Atomic!Next \/ UNCHANGED Atomic!vars
<1>1. ASSUME NEW t \in Task, TaskStep(t) PROVE Atomic!Next \/ UNCHANGED Atomic!vars
  <2>1. prov[t] \in Provider /\ prov'[t] \in Provider
    BY DEF Inv, TypeOK
  <2>2. QED
    BY <1>1, <2>1, LookingStutters, ConsentIsConsent, EndpointRefreshes, StoreAdopts
    DEF TaskStep, Inv
<1>2. ASSUME WorldStep PROVE UNCHANGED Atomic!vars
  <2>1. Held' = Held
    BY <1>2, HeldUnchanged DEF WorldStep, RowsAge, Kept, Refreshing
  <2>2. QED
    BY <1>2, <2>1 DEF WorldStep, Atomic!vars
<1>3. QED
  BY <1>1, <1>2, StepsAre

LEMMA AtomicInit == Init => Atomic!Init
<1> SUFFICES ASSUME Init PROVE Atomic!Init
  OBVIOUS
<1>1. \A p \in Provider : Held[p] = cred[p].refresh
  BY HeldAt DEF Init, Succeeds, Refreshing
<1>2. ASSUME NEW p \in Provider
      PROVE  /\ cred[p].refresh \in {Null, FirstPair} \cap Token
             /\ cred[p].access.grant = cred[p].refresh.grant
  <2>1. CASE cred[p] = NoRow
    BY <2>1 DEF NoRow, Token
  <2>2. CASE MaxGrant > 0 /\ MaxGen > 0 /\ \E e \in {"near", "far"} : cred[p] = ConnectedRow(e)
    BY <2>2, BoundsAssumption DEF ConnectedRow, FirstPair, Token
  <2>3. QED
    BY <2>1, <2>2 DEF Init
<1>3. Held \in [Provider -> {Null, FirstPair} \cap Token]
  BY <1>1, <1>2, HeldIsFunction
<1>4. granted = [p \in Provider |-> Held[p].grant]
  BY <1>1, <1>2 DEF Init
<1>5. Atomic!Null = Null /\ Atomic!Token = Token
  BY DEF Null, Token, Atomic!Null, Atomic!Token
<1>6. QED
  BY <1>3, <1>4, <1>5 DEF Init, Atomic!Init, FirstPair

-----------------------------------------------------------------------------
\* For any number of processes, requests, providers, consents and refreshes, vault
\* processes whose tasks run to their end are together one holder that follows every
\* rotation at once and gives up a refresh token only for another valid one
\* (refresh.rs, refresh_unlocked; store.rs, upsert; oauth.rs, callback_inner;
\* admin.rs, bootstrap).
THEOREM VaultRefinesAtomicCredential ==
  ASSUME Faults = {}
  PROVE  Spec => RefinesAtomicCredential
<1>1. Init => Atomic!Init
  BY AtomicInit
<1>2. Inv /\ Inv' /\ AccessInv /\ FreshInv /\ [Next]_vars => [Atomic!Next]_(Atomic!vars)
  BY AtomicNext
<1>3. QED
  BY <1>1, <1>2, Invariance, AccessInvariance, FreshInvariance, PTL
  DEF Spec, RefinesAtomicCredential, Atomic!Spec
=============================================================================
