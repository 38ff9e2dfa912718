--------------------------- MODULE RotationProofs ---------------------------
(***************************************************************************)
(* How a rotated refresh token can be lost: by a refresh that is cut off,  *)
(* and by nothing else.  RotationIsLostInFlight for any number of          *)
(* processes and any faults; hence StoredRefreshIsCurrent without faults,  *)
(* and PresentedTokenIsCurrent if there is moreover one process.           *)
(***************************************************************************)
EXTENDS AccessProofs

\* What t is about to store is the valid refresh token of its grant, and nobody else
\* has it: it is not in the row, and no task will present it or store it.
StoresFresh(t) ==
    Storing(t) /\ got[t].refresh # Null =>
        /\ PresentsCurrent(t)
        /\ cred[prov[t]].refresh # got[t].refresh
        /\ \A s \in Task \ {t} : InHand(s) /\ prov[s] = prov[t] =>
             got[s].refresh # got[t].refresh

FreshInv == \A t \in Task : StoresFresh(t)

-----------------------------------------------------------------------------
\* A refresh token is made of its grant and its generation.
LEMMA SameToken ==
  ASSUME NEW k \in Token, NEW r \in Token, k # Null, r # Null,
         k.grant = r.grant, k.gen = r.gen
  PROVE  k = r
  BY DEF Token, Null

\* The grant of a token that is known and not Null has been given.
LEMMA KnownRefresh ==
  ASSUME TypeOK, AccessInv
  PROVE  /\ \A p \in Provider : cred[p].refresh # Null =>
              /\ cred[p].refresh.grant \in 1 .. MaxGrant
              /\ cred[p].refresh.grant <= granted[p]
         /\ \A t \in Task : InHand(t) /\ got[t].refresh # Null =>
              /\ got[t].refresh.grant \in 1 .. MaxGrant
              /\ got[t].refresh.grant <= granted[prov[t]]
  BY TokenOfRow, TokenGrant DEF AccessInv, TokensAreKnown, Known

\* The valid refresh token of a given grant changes by being presented.
LEMMA CurrentStays ==
  ASSUME TypeOK, TypeOK', NEW t \in Task, TaskStep(t),
         NEW q \in Provider, NEW h \in 1 .. MaxGrant, h <= granted[q],
         ~(Issues(t) /\ q = prov[t] /\ h = got[t].refresh.grant)
  PROVE  current'[q][h] = current[q][h]
<1>1. /\ current \in [Provider -> [1 .. MaxGrant -> 0 .. MaxGen]]
      /\ granted[q] \in Nat
  BY CountersTyped DEF TypeOK
<1>2. CASE UNCHANGED current
  BY <1>2
<1>3. CASE Issues(t)
  <2> DEFINE p == prov[t]
             g == got[t].refresh.grant
  <2>1. p \in Provider /\ g \in 1 .. MaxGrant
    BY <1>3, IssuesCounts
  <2>2. PICK w : current' = [current EXCEPT ![p][g] = w]
    BY <1>1, <1>3, <2>1 DEF Issues
  <2>3. q # p \/ h # g
    BY <1>3
  <2>4. QED
    BY <1>1, <2>1, <2>2, <2>3
<1>4. CASE Consents(t)
  <2> DEFINE p == prov'[t]
             g == granted[p] + 1
  <2>1. p \in Provider /\ g \in 1 .. MaxGrant
    BY <1>4, ConsentCounts
  <2>2. PICK w : current' = [current EXCEPT ![p][g] = w]
    BY <1>4 DEF Consents
  <2>3. q # p \/ h # g
    BY <1>1
  <2>4. QED
    BY <1>1, <2>1, <2>2, <2>3
<1>5. QED
  BY <1>2, <1>3, <1>4 DEF TaskStep, Quiet, TakesRow, Stores

\* A refresh token that t takes in hand to store is the valid one, and new.
LEMMA RefreshInHand ==
  ASSUME TypeOK, TypeOK', AccessInv, NEW t \in Task, TaskStep(t),
         Storing(t)', got'[t].refresh # Null
  PROVE  /\ UNCHANGED cred /\ PresentsCurrent(t)'
         /\ ~Known(prov'[t], got'[t].refresh)
<1>1. Issues(t) \/ Consents(t)
  BY DEF TaskStep, Quiet, TakesRow, Stores, Storing, InHand, Consenting
<1>2. current \in [Provider -> [1 .. MaxGrant -> 0 .. MaxGen]]
  BY DEF TypeOK
<1>3. CASE Issues(t)
  <2> DEFINE p == prov[t]
             g == got[t].refresh.grant
             n == issued[p][g] + 1
  <2>1. /\ p \in Provider /\ g \in 1 .. MaxGrant
    BY <1>3, IssuesCounts
  <2>2. /\ UNCHANGED cred /\ prov'[t] = p
        /\ got'[t].refresh = [grant |-> g, gen |-> n]
        /\ got'[t].access = got'[t].refresh
        /\ current' = [current EXCEPT ![p][g] = n]
    BY <1>3 DEF Issues, Storing, InHand
  <2>3. current'[p][g] = n
    BY <1>2, <2>1, <2>2
  <2>4. PresentsCurrent(t)'
    BY <2>2, <2>3 DEF PresentsCurrent
  <2>5. ~Known(prov'[t], got'[t].refresh)
    BY <2>2, NewInHand
  <2>6. QED
    BY <2>2, <2>4, <2>5
<1>4. CASE Consents(t)
  <2> DEFINE p == prov'[t]
             g == granted[p] + 1
  <2>1. p \in Provider /\ g \in 1 .. MaxGrant
    BY <1>4, ConsentCounts
  <2>2. /\ UNCHANGED cred
        /\ got'[t].refresh = [grant |-> g, gen |-> 1]
        /\ current' = [current EXCEPT ![p][g] = 1]
    BY <1>4 DEF Consents, FirstTokenOf
  <2>3. current'[p][g] = 1
    BY <1>2, <2>1, <2>2
  <2>4. PresentsCurrent(t)'
    BY <2>2, <2>3 DEF PresentsCurrent
  <2>5. ~(g <= granted[p])
    BY <2>1, CountersTyped
  <2>6. ~Known(p, got'[t].refresh)
    BY <2>2, <2>5 DEF Known
  <2>7. QED
    BY <2>2, <2>4, <2>6
<1>5. QED
  BY <1>1, <1>3, <1>4

-----------------------------------------------------------------------------
(* FreshInv survives every step.                                           *)

LEMMA TaskKeepsFresh ==
  ASSUME TypeOK, TypeOK', AccessInv, FreshInv, NEW t \in Task, TaskStep(t), NEW s \in Task
  PROVE  StoresFresh(s)'
<1> DEFINE r == got'[s].refresh
           p == prov'[s]
<1>1. SUFFICES ASSUME Storing(s)', r # Null
               PROVE  /\ PresentsCurrent(s)' /\ cred'[p].refresh # r
                      /\ \A u \in Task \ {s} : InHand(u)' /\ prov'[u] = p => got'[u].refresh # r
  BY DEF StoresFresh
<1>2. \A u \in Task \ {t} : /\ prov'[u] = prov[u] /\ got'[u] = got[u]
                            /\ Storing(u)' <=> Storing(u)
                            /\ InHand(u)' <=> InHand(u)
  BY DEF TaskStep, OtherTasksKeep, Storing, InHand, Consenting
<1>3. /\ \A q \in Provider : Known(q, cred[q].refresh)
      /\ \A u \in Task : InHand(u) => Known(prov[u], got[u].refresh)
  BY DEF AccessInv, TokensAreKnown
<1>4. p \in Provider
  BY DEF TypeOK
<1>5. CASE s = t
  <2>1. UNCHANGED cred /\ PresentsCurrent(t)' /\ ~Known(p, r)
    BY <1>1, <1>5, RefreshInHand
  <2>2. ASSUME NEW u \in Task \ {s}, InHand(u)', prov'[u] = p PROVE got'[u].refresh # r
    BY <1>2, <1>3, <1>5, <2>1, <2>2
  <2>3. QED
    BY <1>3, <1>4, <1>5, <2>1, <2>2
<1>6. CASE s # t
  <2>1. Storing(s) /\ InHand(s) /\ prov[s] = p /\ got[s].refresh = r
    BY <1>1, <1>2, <1>6 DEF Storing, InHand
  <2>2. /\ PresentsCurrent(s) /\ cred[p].refresh # r
        /\ \A u \in Task \ {s} : InHand(u) /\ prov[u] = p => got[u].refresh # r
    BY <1>1, <2>1 DEF FreshInv, StoresFresh
  <2>3. r \in Token /\ r.grant \in 1 .. MaxGrant /\ r.grant <= granted[p] /\ Known(p, r)
    BY <1>1, <1>3, <2>1, KnownRefresh, TokenOfRow
  <2>4. PresentsCurrent(s)'
    <3>1. ASSUME Issues(t), p = prov[t], r.grant = got[t].refresh.grant PROVE FALSE
      <4>1. /\ InHand(t) /\ PresentsCurrent(t)
            /\ got[t].refresh # Null /\ got[t].refresh \in Token
        BY <3>1, TokenOfRow DEF Issues, InHand
      <4>2. got[t].refresh.gen = r.gen
        BY <2>1, <2>2, <3>1, <4>1 DEF PresentsCurrent
      <4>3. got[t].refresh = r
        BY <1>1, <2>3, <3>1, <4>1, <4>2, SameToken
      <4>4. QED
        BY <1>6, <2>2, <3>1, <4>1, <4>3
    <3>2. current'[p][r.grant] = current[p][r.grant]
      BY <1>4, <2>3, <3>1, CurrentStays
    <3>3. QED
      BY <2>1, <2>2, <3>2 DEF PresentsCurrent
  <2>5. cred'[p].refresh # r
    <3>1. CASE Stores(t) /\ prov[t] = p
      <4>1. got[t].refresh # r
        BY <1>6, <2>2, <3>1 DEF Stores, Storing, InHand
      <4>2. cred'[p].refresh \in {cred[p].refresh, got[t].refresh}
        BY <3>1, StoredRow
      <4>3. QED
        BY <2>2, <4>1, <4>2
    <3>2. QED
      BY <1>4, <2>2, <3>1, RowsChange, StoredRow
  <2>6. ASSUME NEW u \in Task \ {s}, InHand(u)', prov'[u] = p PROVE got'[u].refresh # r
    <3>1. CASE u # t
      BY <1>2, <2>2, <2>6, <3>1
    <3>2. CASE u = t /\ Storing(t)'
      BY <1>1, <2>3, <2>6, <3>2, RefreshInHand
    <3>3. CASE u = t /\ ~Storing(t)'
      <4>1. TakesRow(t)
        BY <2>6, <3>3 DEF TaskStep, Quiet, Issues, Consents, Stores, InHand, Storing
      <4>2. QED
        BY <2>2, <2>6, <3>3, <4>1 DEF TakesRow
    <3>4. QED
      BY <3>1, <3>2, <3>3
  <2>7. QED
    BY <2>4, <2>5, <2>6
<1>7. QED
  BY <1>5, <1>6

LEMMA WorldKeepsFresh ==
  ASSUME TypeOK, FreshInv, WorldStep, NEW s \in Task
  PROVE  StoresFresh(s)'
<1>1. SUFFICES ASSUME Storing(s)', got'[s].refresh # Null
               PROVE  /\ PresentsCurrent(s)'
                      /\ cred'[prov'[s]].refresh # got'[s].refresh
                      /\ \A u \in Task \ {s} : InHand(u)' /\ prov'[u] = prov'[s] =>
                           got'[u].refresh # got'[s].refresh
  BY DEF StoresFresh
<1>2. \A u \in Task : InHand(u)' => InHand(u) /\ Kept(u)
  BY DEF WorldStep, Kept, Dropped, InHand, Consenting
<1>3. Storing(s) /\ Kept(s) /\ prov[s] \in Provider
  BY <1>1, <1>2, TokenOfRow DEF Storing, InHand, Consenting, Kept
<1>4. /\ PresentsCurrent(s)
      /\ cred[prov[s]].refresh # got[s].refresh
      /\ \A u \in Task \ {s} : InHand(u) /\ prov[u] = prov[s] =>
           got[u].refresh # got[s].refresh
  BY <1>1, <1>3 DEF FreshInv, StoresFresh, Kept
<1>5. UNCHANGED current /\ cred'[prov[s]].refresh = cred[prov[s]].refresh
  BY <1>3 DEF WorldStep, RowsAge
<1>6. PresentsCurrent(s)'
  BY <1>3, <1>4, <1>5 DEF PresentsCurrent, Kept
<1>7. QED
  BY <1>2, <1>3, <1>4, <1>5, <1>6 DEF Kept

LEMMA FreshInvariance == Spec => []FreshInv
<1>1. Init => FreshInv
  BY DEF Init, FreshInv, StoresFresh, Storing, Consenting
<1>2. Inv /\ Inv' /\ AccessInv /\ FreshInv /\ [Next]_vars => FreshInv'
  BY StepsAre, TaskKeepsFresh, WorldKeepsFresh DEF Inv, FreshInv
<1>3. QED
  BY <1>1, <1>2, Invariance, AccessInvariance, PTL DEF Spec

-----------------------------------------------------------------------------
(* How the row comes to hold a refresh token that is spent.                *)

\* A refresh of p is cut off between its request and its upsert.
CutOffAt(t, p) ==
    /\ prov[t] = p /\ pc[t] \in {"token_request", "refresh_store"}
    /\ CutOff(t) /\ UNCHANGED cred

LEMMA TaskLosesInFlight ==
  ASSUME TypeOK, TypeOK', AccessInv, FreshInv, NEW t \in Task, TaskStep(t),
         NEW p \in Provider, RotationIsHeld(p), ~RotationIsHeld(p)'
  PROVE  CutOffAt(t, p)
<1> DEFINE r == cred[p].refresh
           g == r.grant
<1>1. /\ cred'[p].refresh # Null
      /\ cred'[p].refresh.gen # current'[p][cred'[p].refresh.grant]
      /\ \A s \in Task : ~CarriesCurrent(s, p, cred[p].refresh.grant)'
  BY DEF RotationIsHeld
<1>2. \A s \in Task \ {t} : pc'[s] = pc[s] /\ prov'[s] = prov[s] /\ got'[s] = got[s]
  BY DEF TaskStep, OtherTasksKeep
<1>3. ASSUME Stores(t), prov[t] = p, got[t].refresh # Null PROVE FALSE
  <2>1. cred'[p].refresh = got[t].refresh /\ UNCHANGED current
    BY <1>3 DEF Stores, Upserted, TypeOK
  <2>2. PresentsCurrent(t)
    BY <1>3 DEF Stores, FreshInv, StoresFresh
  <2>3. QED
    BY <1>1, <1>3, <2>1, <2>2 DEF PresentsCurrent
<1>4. cred'[p].refresh = r
  <2>1. CASE Stores(t) /\ prov[t] = p
    BY <1>3, <2>1 DEF Stores, Upserted, TypeOK
  <2>2. CASE ~(Stores(t) /\ prov[t] = p)
    BY <2>2, RowsChange, StoredRow
  <2>3. QED
    BY <2>1, <2>2
<1>5. r # Null /\ g \in 1 .. MaxGrant /\ g <= granted[p] /\ g # 0
  BY <1>1, <1>4, KnownRefresh
<1>6. ASSUME NEW s \in Task, CarriesCurrent(s, p, g), current'[p][g] = current[p][g]
      PROVE  CutOffAt(t, p)
  <2>1. pc[s] = "refresh_store" /\ prov[s] = p /\ got[s].refresh.grant = g
    BY <1>6 DEF CarriesCurrent
  <2>2. s = t
    <3>1. ASSUME s # t PROVE CarriesCurrent(s, p, g)'
      BY <1>2, <1>4, <1>6, <3>1 DEF CarriesCurrent
    <3>2. QED
      BY <1>1, <1>4, <3>1
  <2>3. got[t].refresh # Null
    BY <1>5, <2>1, <2>2 DEF Null
  <2>4. Quiet(t)
    BY <1>3, <2>1, <2>2, <2>3 DEF TaskStep, TakesRow, Issues, Consents, Stores
  <2>5. QED
    BY <2>1, <2>2, <2>4 DEF Quiet, CutOffAt
<1>7. CASE ~(Issues(t) /\ p = prov[t] /\ g = got[t].refresh.grant)
  <2>1. current'[p][g] = current[p][g]
    BY <1>5, <1>7, CurrentStays
  <2>2. r.gen # current[p][g]
    BY <1>1, <1>4, <2>1
  <2>3. \E s \in Task : CarriesCurrent(s, p, g)
    BY <1>5, <2>2 DEF RotationIsHeld
  <2>4. QED
    BY <1>6, <2>1, <2>3
<1>8. CASE Issues(t) /\ p = prov[t] /\ g = got[t].refresh.grant
  <2> DEFINE n == issued[p][g] + 1
  <2>1. PICK rotates \in BOOLEAN :
          /\ current' = [current EXCEPT ![p][g] = IF rotates THEN n ELSE @]
          /\ \/ ~InHand(t)' /\ CutOff(t)
             \/ /\ pc'[t] = "refresh_store" /\ prov'[t] = p
                /\ got'[t].access = [grant |-> g, gen |-> n]
                /\ got'[t].refresh = IF rotates THEN got'[t].access ELSE Null
    BY <1>8 DEF Issues
  <2>2. pc[t] = "token_request" /\ UNCHANGED cred
    BY <1>8 DEF Issues
  <2>3. CASE CutOff(t)
    BY <1>8, <2>2, <2>3 DEF CutOffAt
  <2>4. current \in [Provider -> [1 .. MaxGrant -> 0 .. MaxGen]]
    BY DEF TypeOK
  <2>5. CASE rotates /\ ~CutOff(t)
    <3>1. current'[p][g] = n
      BY <1>5, <2>1, <2>4, <2>5
    <3>2. CarriesCurrent(t, p, g)'
      BY <1>4, <2>1, <2>5, <3>1 DEF CarriesCurrent
    <3>3. QED
      BY <1>1, <1>4, <3>2
  <2>6. CASE ~rotates
    <3>1. current'[p][g] = current[p][g]
      BY <1>5, <2>1, <2>4, <2>6
    <3>2. \E s \in Task : CarriesCurrent(s, p, g)
      BY <1>1, <1>4, <1>5, <3>1 DEF RotationIsHeld
    <3>3. QED
      BY <1>6, <3>1, <3>2
  <2>7. QED
    BY <2>3, <2>5, <2>6
<1>9. QED
  BY <1>7, <1>8

LEMMA WorldLosesInFlight ==
  ASSUME TypeOK, WorldStep, NEW p \in Provider, RotationIsHeld(p), ~RotationIsHeld(p)'
  PROVE  \E t \in Task : CutOffAt(t, p)
<1> DEFINE r == cred[p].refresh
<1>1. cred'[p].refresh = r /\ UNCHANGED current
  BY DEF WorldStep, RowsAge
<1>2. PICK t \in Task : CarriesCurrent(t, p, r.grant)
  BY <1>1 DEF RotationIsHeld
<1>3. ~Kept(t)
  <2>1. Kept(t) => CarriesCurrent(t, p, r.grant)'
    BY <1>1, <1>2 DEF CarriesCurrent, Kept
  <2>2. ~CarriesCurrent(t, p, r.grant)'
    BY <1>1 DEF RotationIsHeld
  <2>3. QED
    BY <2>1, <2>2
<1>4. UNCHANGED cred /\ Faults # {} /\ Dropped(t)
  BY <1>3 DEF WorldStep
<1>5. CutOffAt(t, p)
  BY <1>2, <1>4 DEF CutOffAt, CutOff, CarriesCurrent, Dropped, LockedPc
<1>6. QED
  BY <1>5

LEMMA LostInFlight ==
  ASSUME Inv, Inv', AccessInv, FreshInv, [Next]_vars,
         NEW p \in Provider, RotationIsHeld(p), ~RotationIsHeld(p)'
  PROVE  \E t \in Task : CutOffAt(t, p)
  BY StepsAre, TaskLosesInFlight, WorldLosesInFlight DEF Inv

\* With one process, what a task takes in hand to present is valid and stays so:
\* whoever could rotate it, or be about to store its successor, needs the lock too.
LEMMA PresentedNext ==
  ASSUME Inv, Inv', AccessInv, NEW v, Proc = {v}, StoredRefreshIsCurrent,
         PresentedTokenIsCurrent, [Next]_vars, Faults = {}
  PROVE  PresentedTokenIsCurrent'
<1>1. SUFFICES ASSUME NEW s \in Task, pc'[s] = "token_request" PROVE PresentsCurrent(s)'
  BY DEF PresentedTokenIsCurrent
<1>2. TypeOK /\ TypeOK'
  BY DEF Inv
<1>3. ASSUME NEW t \in Task, TaskStep(t), s # t PROVE PresentsCurrent(s)'
  <2>1. /\ pc[s] = "token_request" /\ PresentsCurrent(s) /\ InHand(s)
        /\ prov'[s] = prov[s] /\ got'[s] = got[s] /\ got[s].refresh # Null
    BY <1>1, <1>3
    DEF TaskStep, OtherTasksKeep, PresentedTokenIsCurrent, InHand, Inv, HasRefreshToken
  <2>2. /\ prov[s] \in Provider /\ got[s].refresh.grant \in 1 .. MaxGrant
        /\ got[s].refresh.grant <= granted[prov[s]]
    BY <1>2, <2>1, KnownRefresh, TokenOfRow
  <2>3. ~Issues(t)
    BY <1>3, <2>1, OneInside DEF Issues, LockedPc
  <2>4. current'[prov[s]][got[s].refresh.grant] = current[prov[s]][got[s].refresh.grant]
    BY <1>2, <1>3, <2>2, <2>3, CurrentStays
  <2>5. QED
    BY <2>1, <2>4 DEF PresentsCurrent
<1>4. ASSUME TaskStep(s) PROVE PresentsCurrent(s)'
  <2>1. TakesRow(s)
    BY <1>1, <1>4 DEF TaskStep, Quiet, Issues, Consents, Stores, InHand, Consenting
  <2>2. \A u \in Task : pc[u] # "refresh_store"
    BY <2>1, OneInside DEF TakesRow, LockedPc
  <2>3. prov[s] \in Provider
    BY <1>2, TokenOfRow
  <2>4. cred[prov[s]].refresh.gen = current[prov[s]][cred[prov[s]].refresh.grant]
    BY <2>1, <2>2, <2>3 DEF StoredRefreshIsCurrent, RotationIsHeld, CarriesCurrent, TakesRow
  <2>5. QED
    BY <2>1, <2>4 DEF TakesRow, PresentsCurrent
<1>5. ASSUME WorldStep PROVE PresentsCurrent(s)'
  BY <1>1, <1>5 DEF WorldStep, Kept, PresentedTokenIsCurrent, PresentsCurrent
<1>6. QED
  BY <1>2, <1>3, <1>4, <1>5, StepsAre

-----------------------------------------------------------------------------
(* The theorems.                                                           *)

\* Whatever overlaps, in any number of processes, and whatever fails: the row's
\* refresh token becomes a spent one only when a refresh that rotated it, or is
\* about to store its successor, is cut off (refresh.rs, refresh_unlocked).
THEOREM RotationDiesInFlight == Spec => RotationIsLostInFlight
<1>1. Inv /\ Inv' /\ AccessInv /\ FreshInv /\ [Next]_vars =>
        [\A p \in Provider : RotationIsHeld(p) /\ ~RotationIsHeld(p)' =>
           \E t \in Task : /\ prov[t] = p /\ pc[t] \in {"token_request", "refresh_store"}
                           /\ pc'[t] \notin LockedPc /\ UNCHANGED cred]_vars
  BY LostInFlight DEF CutOffAt, CutOff
<1>2. QED
  BY <1>1, Invariance, AccessInvariance, FreshInvariance, PTL DEF Spec, RotationIsLostInFlight

\* Processes whose tasks run to their end, however many, never lose a rotated refresh
\* token: the row has the valid one of its grant, or a refresh is about to store it,
\* whatever callbacks, bootstraps and the refreshes of other processes store meanwhile
\* (refresh.rs, refresh_unlocked; store.rs, upsert; oauth.rs, callback_inner).
THEOREM RotationIsNotLost ==
  ASSUME Faults = {}
  PROVE  Spec => []StoredRefreshIsCurrent
<1>1. Init => StoredRefreshIsCurrent
  <2> SUFFICES ASSUME Init, NEW p \in Provider PROVE RotationIsHeld(p)
    BY DEF StoredRefreshIsCurrent
  <2>1. CASE cred[p] = NoRow
    BY <2>1 DEF NoRow, RotationIsHeld
  <2>2. CASE MaxGrant > 0 /\ \E e \in {"near", "far"} : cred[p] = ConnectedRow(e)
    BY <2>2, BoundsAssumption DEF Init, ConnectedRow, FirstPair, RotationIsHeld
  <2>3. QED
    BY <2>1, <2>2 DEF Init
<1>2. Inv /\ Inv' /\ AccessInv /\ FreshInv /\ StoredRefreshIsCurrent /\ [Next]_vars =>
        StoredRefreshIsCurrent'
  BY LostInFlight DEF StoredRefreshIsCurrent, CutOffAt, CutOff
<1>3. QED
  BY <1>1, <1>2, Invariance, AccessInvariance, FreshInvariance, PTL DEF Spec

\* One process whose tasks run to their end never presents a refresh token that its
\* grant has outlived (refresh.rs, refresh_unlocked, the token request).
THEOREM SpentTokenIsNeverPresented ==
  ASSUME NEW CONSTANT v, Proc = {v}, Faults = {}
  PROVE  Spec => []PresentedTokenIsCurrent
<1>1. Init => PresentedTokenIsCurrent
  BY DEF Init, PresentedTokenIsCurrent
<1>2. Inv /\ Inv' /\ AccessInv /\ StoredRefreshIsCurrent /\ PresentedTokenIsCurrent
        /\ [Next]_vars => PresentedTokenIsCurrent'
  BY PresentedNext
<1>3. QED
  BY <1>1, <1>2, Invariance, AccessInvariance, RotationIsNotLost, PTL DEF Spec

=============================================================================
