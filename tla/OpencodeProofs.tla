--------------------------- MODULE OpencodeProofs ---------------------------
(***************************************************************************)
(* For any number of login attempts and reloads: who waits has the         *)
(* listener, who was told of a success has one, and issued tokens are      *)
(* dropped for the four reasons that TokensReachTheLogin names.            *)
(***************************************************************************)
EXTENDS OpencodeAuth, TLAPS

\* Every suspended handler stands for a request, and so does the one whose code was
\* redeemed; nothing is exchanged without a code, or before there is an attempt, and
\* half a response is half of what was issued.
CountInv(l) ==
    /\ exchange[l]["sent"] + exchange[l]["issued"] + exchange[l]["partial"]
         + exchange[l]["refused"] <= requests[l]
    /\ tokens[l] # "none" => exchange[l]["sent"] + exchange[l]["refused"] + 1 <= requests[l]
    /\ exchange[l]["sent"] > 0 \/ tokens[l] # "none" => tab[l] = "code"
    /\ exchange[l]["partial"] > 0 => tokens[l] = "partial"
    /\ promise[l] = "new" => l \notin timer

\* A rejection that none of the four reasons explains came before any code was
\* exchanged, and leaves no handler behind that might still do it.
RejectedInv(l) ==
    promise[l] = "rejected" =>
        \/ tokens[l] = "none" /\ exchange[l]["sent"] = 0
        \/ tokens[l] = "partial"
        \/ l \notin timer
        \/ requests[l] > 1
        \/ \E r \in Caller \ {l} : requests[r] > 0

Inv ==
    /\ \A l \in Login : CountInv(l) /\ RejectedInv(l)
    /\ ListenerIsWaitedFor
    /\ SuccessIsTrue

LEMMA InitHolds == Init => TypeOK /\ Inv
  BY OpencodeAssumption DEF Init, TypeOK, Inv, CountInv, RejectedInv, ListenerIsWaitedFor,
                            SuccessIsTrue, Stage, Settled, Caller

-----------------------------------------------------------------------------
(* Type correctness.                                                       *)

LEMMA NextTyped == TypeOK /\ Inv /\ [Next]_vars => TypeOK'
<1> SUFFICES ASSUME TypeOK, Inv, [Next]_vars PROVE TypeOK'
  OBVIOUS
<1> USE OpencodeAssumption
<1>1. CASE UNCHANGED vars
  BY <1>1 DEF vars, TypeOK
<1>2. ASSUME NEW l \in Login, Authorize(l) PROVE TypeOK'
  BY <1>2 DEF Authorize, TypeOK, Settled, Caller
<1>3. ASSUME NEW l \in Login, Consent(l) PROVE TypeOK'
  BY <1>3 DEF Consent, TypeOK
<1>4. ASSUME NEW l \in Login, NEW r \in Caller, Turned(l, r) PROVE TypeOK'
  <2>1. requests' \in [Caller -> 0 .. MaxReload]
    BY <1>4 DEF Turned, Requested, TypeOK
  <2>2. QED
    BY <1>4, <2>1 DEF Turned, Settle, Stop, Tell, TypeOK, Settled
<1>5. ASSUME NEW l \in Login, Accept(l) PROVE TypeOK'
  <2>1. requests[l] < MaxReload /\ requests' = [requests EXCEPT ![l] = @ + 1]
    BY <1>5 DEF Accept, Requested
  <2>2. exchange[l] \in [Stage -> 0 .. MaxReload] /\ requests[l] \in 0 .. MaxReload
    BY DEF TypeOK, Caller
  <2>3. exchange[l]["sent"] + 1 \in 0 .. MaxReload
    BY <2>1, <2>2 DEF Inv, CountInv, Stage
  <2>4. [exchange[l] EXCEPT !["sent"] = @ + 1] \in [Stage -> 0 .. MaxReload]
    BY <2>2, <2>3 DEF Stage
  <2>5. exchange' = [exchange EXCEPT ![l] = [exchange[l] EXCEPT !["sent"] = @ + 1]]
    BY <1>5 DEF Accept
  <2>6. exchange' \in [Login -> [Stage -> 0 .. MaxReload]]
    BY <2>4, <2>5 DEF TypeOK
  <2>7. requests' \in [Caller -> 0 .. MaxReload]
    <3>1. requests[l] + 1 \in 0 .. MaxReload
      BY <2>1, <2>2
    <3>2. requests' = [requests EXCEPT ![l] = requests[l] + 1]
      BY <2>1
    <3>3. QED
      BY <3>1, <3>2 DEF TypeOK
  <2>8. QED
    BY <1>5, <2>6, <2>7 DEF Accept, TypeOK
<1>6. ASSUME NEW l \in Login, Redeem(l) PROVE TypeOK'
  <2>1. PICK g \in {"issued", "partial", "refused"} :
          exchange' = [exchange EXCEPT ![l]["sent"] = @ - 1, ![l][g] = @ + 1]
    BY <1>6 DEF Redeem
  <2>2. exchange[l] \in [Stage -> 0 .. MaxReload] /\ requests[l] \in 0 .. MaxReload
    BY DEF TypeOK, Caller
  <2>3. exchange[l]["sent"] - 1 \in 0 .. MaxReload /\ exchange[l][g] + 1 \in 0 .. MaxReload
    BY <1>6, <2>2 DEF Redeem, Inv, CountInv, Stage
  <2> DEFINE after == [exchange[l] EXCEPT !["sent"] = @ - 1, ![g] = @ + 1]
  <2>4. after \in [Stage -> 0 .. MaxReload]
    BY <2>2, <2>3 DEF Stage
  <2>5. exchange' = [exchange EXCEPT ![l] = after]
    BY <2>1 DEF TypeOK
  <2> HIDE DEF after
  <2>6. exchange' \in [Login -> [Stage -> 0 .. MaxReload]]
    BY <2>4, <2>5 DEF TypeOK
  <2>7. QED
    BY <1>6, <2>6 DEF Redeem, TypeOK
<1>7. ASSUME NEW l \in Login, NEW g \in Stage, Finish(l, g) PROVE TypeOK'
  <2>1. exchange[l] \in [Stage -> 0 .. MaxReload]
    BY DEF TypeOK
  <2>2. [exchange[l] EXCEPT ![g] = @ - 1] \in [Stage -> 0 .. MaxReload]
    BY <1>7, <2>1 DEF Finish, Stage
  <2>3. exchange' = [exchange EXCEPT ![l] = [exchange[l] EXCEPT ![g] = @ - 1]]
    BY <1>7 DEF Finish
  <2>4. exchange' \in [Login -> [Stage -> 0 .. MaxReload]]
    BY <2>2, <2>3 DEF TypeOK
  <2>5. QED
    BY <1>7, <2>4 DEF Finish, Settle, Stop, Tell, TypeOK, Settled
<1>8. ASSUME NEW l \in Login, Timeout(l) PROVE TypeOK'
  BY <1>8 DEF Timeout, Settle, Stop, TypeOK, Settled
<1>9. ASSUME NEW l \in Login, Throw(l) PROVE TypeOK'
  <2>1. exchange[l] \in [Stage -> 0 .. MaxReload]
    BY DEF TypeOK
  <2>2. [exchange[l] EXCEPT !["sent"] = @ - 1] \in [Stage -> 0 .. MaxReload]
    BY <1>9, <2>1 DEF Throw, Stage
  <2>3. exchange' = [exchange EXCEPT ![l] = [exchange[l] EXCEPT !["sent"] = @ - 1]]
    BY <1>9 DEF Throw
  <2>4. exchange' \in [Login -> [Stage -> 0 .. MaxReload]]
    BY <2>2, <2>3 DEF TypeOK
  <2>5. QED
    BY <1>9, <2>4 DEF Throw, TypeOK
<1>10. CASE Borrow
  BY <1>10 DEF Borrow, TypeOK, Caller
<1>11. QED
  BY <1>1, <1>2, <1>3, <1>4, <1>5, <1>6, <1>7, <1>8, <1>9, <1>10 DEF Next

-----------------------------------------------------------------------------
(* The counts: what each step leaves of CountInv, one attempt k at a time. *)

\* The handlers of l alone have moved from one stage to another.
LEMMA CountKept ==
  ASSUME TypeOK, NEW k \in Login, CountInv(k),
         exchange'[k] = exchange[k], requests'[k] \in Nat, requests'[k] >= requests[k],
         tokens'[k] = tokens[k], tab[k] = "code" => tab'[k] = "code",
         promise'[k] = "new" => promise[k] = "new",
         promise'[k] = "new" => k \notin timer' \/ k \in timer
  PROVE  CountInv(k)'
<1>1. /\ exchange[k]["sent"] \in Int /\ exchange[k]["issued"] \in Int
      /\ exchange[k]["partial"] \in Int /\ exchange[k]["refused"] \in Int
      /\ requests[k] \in Int
  BY OpencodeAssumption DEF TypeOK, Stage, Caller
<1>2. QED
  BY <1>1 DEF CountInv

LEMMA CountNext == TypeOK /\ Inv /\ [Next]_vars => \A k \in Login : CountInv(k)'
<1> SUFFICES ASSUME TypeOK, Inv, [Next]_vars, NEW k \in Login PROVE CountInv(k)'
  OBVIOUS
<1> USE OpencodeAssumption
<1>a. CountInv(k)
  BY DEF Inv
<1>b. /\ exchange[k]["sent"] \in Nat /\ exchange[k]["issued"] \in Nat
      /\ exchange[k]["partial"] \in Nat /\ exchange[k]["refused"] \in Nat
      /\ requests[k] \in Nat
  BY DEF TypeOK, Stage, Caller
<1>1. CASE UNCHANGED vars
  BY <1>1, <1>a DEF vars, CountInv
<1>2. ASSUME NEW l \in Login, Authorize(l) PROVE CountInv(k)'
  BY <1>2, <1>a, <1>b, CountKept DEF Authorize, TypeOK
<1>3. ASSUME NEW l \in Login, Consent(l) PROVE CountInv(k)'
  BY <1>3, <1>a, <1>b, CountKept DEF Consent, TypeOK
<1>4. ASSUME NEW l \in Login, NEW r \in Caller, Turned(l, r) PROVE CountInv(k)'
  <2>1. requests'[k] \in Nat /\ requests'[k] >= requests[k]
    BY <1>4, <1>b DEF Turned, Requested, TypeOK, Caller
  <2>2. promise'[k] = "new" => promise[k] = "new"
    BY <1>4 DEF Turned, Settle, TypeOK
  <2>3. QED
    BY <1>4, <1>a, <2>1, <2>2, CountKept DEF Turned
<1>5. ASSUME NEW l \in Login, Accept(l) PROVE CountInv(k)'
  <2>1. CASE k = l
    <3>1. exchange'[k] = [exchange[k] EXCEPT !["sent"] = @ + 1]
      BY <1>5, <2>1 DEF Accept, TypeOK
    <3>2. /\ exchange'[k]["sent"] = exchange[k]["sent"] + 1
          /\ exchange'[k]["issued"] = exchange[k]["issued"]
          /\ exchange'[k]["partial"] = exchange[k]["partial"]
          /\ exchange'[k]["refused"] = exchange[k]["refused"]
      BY <3>1 DEF TypeOK, Stage
    <3>3. requests'[k] = requests[k] + 1
      BY <1>5, <2>1 DEF Accept, Requested, TypeOK, Caller
    <3>4. tab'[k] = "code" /\ tokens' = tokens /\ promise' = promise /\ timer' = timer
      BY <1>5, <2>1 DEF Accept
    <3>5. QED
      BY <1>a, <1>b, <3>2, <3>3, <3>4 DEF CountInv
  <2>2. CASE k # l
    BY <1>5, <2>2, <1>a, <1>b, CountKept DEF Accept, Requested, TypeOK, Caller
  <2>3. QED
    BY <2>1, <2>2
<1>6. ASSUME NEW l \in Login, Redeem(l) PROVE CountInv(k)'
  <2>1. PICK g \in {"issued", "partial", "refused"} :
          /\ g # "refused" => tokens[l] = "none"
          /\ exchange' = [exchange EXCEPT ![l]["sent"] = @ - 1, ![l][g] = @ + 1]
          /\ tokens' = IF g = "refused" THEN tokens ELSE [tokens EXCEPT ![l] = g]
    BY <1>6 DEF Redeem
  <2>2. UNCHANGED <<promise, timer, tab, requests>>
    BY <1>6 DEF Redeem
  <2>3. CASE k = l
    <3>1. exchange'[k] = [exchange[k] EXCEPT !["sent"] = @ - 1, ![g] = @ + 1]
      BY <2>1, <2>3 DEF TypeOK
    <3>2. /\ exchange'[k]["sent"] = exchange[k]["sent"] - 1
          /\ exchange'[k]["issued"] = exchange[k]["issued"] + (IF g = "issued" THEN 1 ELSE 0)
          /\ exchange'[k]["partial"] = exchange[k]["partial"] + (IF g = "partial" THEN 1 ELSE 0)
          /\ exchange'[k]["refused"] = exchange[k]["refused"] + (IF g = "refused" THEN 1 ELSE 0)
      BY <2>1, <3>1 DEF TypeOK, Stage
    <3>3. exchange[k]["sent"] > 0
      BY <1>6, <2>3 DEF Redeem
    <3>4. tokens'[k] = IF g = "refused" THEN tokens[k] ELSE g
      BY <2>1, <2>3 DEF TypeOK
    <3>5. tab'[k] = "code" /\ requests'[k] = requests[k]
      BY <1>a, <2>2, <3>3 DEF CountInv
    <3>6. /\ exchange'[k]["sent"] + exchange'[k]["issued"] + exchange'[k]["partial"]
               + exchange'[k]["refused"] <= requests'[k]
          /\ tokens'[k] # "none" =>
               exchange'[k]["sent"] + exchange'[k]["refused"] + 1 <= requests'[k]
      BY <1>a, <1>b, <2>1, <3>2, <3>3, <3>4, <3>5 DEF CountInv
    <3>7. exchange'[k]["partial"] > 0 => tokens'[k] = "partial"
      BY <1>a, <1>b, <2>1, <2>3, <3>2, <3>4 DEF CountInv
    <3>8. QED
      BY <1>a, <2>2, <3>5, <3>6, <3>7 DEF CountInv
  <2>4. CASE k # l
    BY <2>1, <2>2, <2>4, <1>a, <1>b, CountKept DEF TypeOK
  <2>5. QED
    BY <2>3, <2>4
<1>7. ASSUME NEW l \in Login, NEW g \in Stage, Finish(l, g) PROVE CountInv(k)'
  <2>1. UNCHANGED <<timer, tab, requests, tokens>>
    BY <1>7 DEF Finish
  <2>2. promise'[k] = "new" => promise[k] = "new"
    BY <1>7 DEF Finish, Settle, TypeOK
  <2>3. CASE k = l
    <3>1. exchange'[k] = [exchange[k] EXCEPT ![g] = @ - 1]
      BY <1>7, <2>3 DEF Finish, TypeOK
    <3>2. /\ exchange'[k]["sent"] = exchange[k]["sent"]
          /\ exchange'[k]["issued"] \in Int /\ exchange'[k]["issued"] <= exchange[k]["issued"]
          /\ exchange'[k]["partial"] \in Int /\ exchange'[k]["partial"] <= exchange[k]["partial"]
          /\ exchange'[k]["refused"] \in Int /\ exchange'[k]["refused"] <= exchange[k]["refused"]
      BY <1>7, <1>b, <3>1 DEF Finish, TypeOK, Stage
    <3>3. QED
      BY <1>a, <1>b, <2>1, <2>2, <3>2 DEF CountInv
  <2>4. CASE k # l
    BY <1>7, <2>1, <2>2, <2>4, <1>a, <1>b, CountKept DEF Finish, TypeOK
  <2>5. QED
    BY <2>3, <2>4
<1>8. ASSUME NEW l \in Login, Timeout(l) PROVE CountInv(k)'
  <2>1. promise'[k] = "new" => promise[k] = "new"
    BY <1>8 DEF Timeout, Settle, TypeOK
  <2>2. QED
    BY <1>8, <2>1, <1>a, <1>b, CountKept DEF Timeout
<1>9. ASSUME NEW l \in Login, Throw(l) PROVE CountInv(k)'
  <2>1. /\ exchange' = [exchange EXCEPT ![l]["sent"] = @ - 1]
        /\ exchange[l]["sent"] > 0
        /\ UNCHANGED <<promise, timer, tab, requests>>
    BY <1>9 DEF Throw
  <2>2. CASE k = l
    <3>1. exchange'[k] = [exchange[k] EXCEPT !["sent"] = @ - 1]
      BY <2>1, <2>2 DEF TypeOK
    <3>2. /\ exchange'[k]["sent"] = exchange[k]["sent"] - 1
          /\ exchange'[k]["issued"] = exchange[k]["issued"]
          /\ exchange'[k]["partial"] = exchange[k]["partial"]
          /\ exchange'[k]["refused"] = exchange[k]["refused"]
      BY <3>1 DEF TypeOK, Stage
    <3>3. tokens'[k] = tokens[k] \/ tokens[k] = "none"
      BY <1>9, <2>2 DEF Throw
    <3>4. QED
      BY <1>a, <1>b, <2>1, <2>2, <3>2, <3>3 DEF CountInv
  <2>3. CASE k # l
    <3>1. tokens'[k] = tokens[k] /\ exchange'[k] = exchange[k]
      BY <1>9, <2>1, <2>3 DEF Throw, TypeOK
    <3>2. QED
      BY <2>1, <3>1, <1>a, <1>b, CountKept
  <2>4. QED
    BY <2>2, <2>3
<1>10. CASE Borrow
  BY <1>10, <1>a, <1>b, CountKept DEF Borrow
<1>11. QED
  BY <1>1, <1>2, <1>3, <1>4, <1>5, <1>6, <1>7, <1>8, <1>9, <1>10 DEF Next

-----------------------------------------------------------------------------
(* Listener, promise and page.                                             *)

LEMMA ListenerNext == TypeOK /\ Inv /\ [Next]_vars => ListenerIsWaitedFor'
<1> SUFFICES ASSUME TypeOK, Inv, [Next]_vars PROVE ListenerIsWaitedFor'
  OBVIOUS
<1> USE OpencodeAssumption DEF ListenerIsWaitedFor, TypeOK, Caller
<1>a. ListenerIsWaitedFor
  BY DEF Inv
<1>1. CASE UNCHANGED vars
  BY <1>1, <1>a DEF vars
<1>2. ASSUME NEW l \in Login, Authorize(l) PROVE ListenerIsWaitedFor'
  BY <1>2, <1>a DEF Authorize
<1>3. ASSUME NEW l \in Login, Consent(l) PROVE ListenerIsWaitedFor'
  BY <1>3, <1>a DEF Consent
<1>4. ASSUME NEW l \in Login, NEW r \in Caller, Turned(l, r) PROVE ListenerIsWaitedFor'
  BY <1>4, <1>a DEF Turned, Settle, Stop
<1>5. ASSUME NEW l \in Login, Accept(l) PROVE ListenerIsWaitedFor'
  BY <1>5, <1>a DEF Accept
<1>6. ASSUME NEW l \in Login, Redeem(l) PROVE ListenerIsWaitedFor'
  BY <1>6, <1>a DEF Redeem
<1>7. ASSUME NEW l \in Login, NEW g \in Stage, Finish(l, g) PROVE ListenerIsWaitedFor'
  BY <1>7, <1>a DEF Finish, Settle, Stop
<1>8. ASSUME NEW l \in Login, Timeout(l) PROVE ListenerIsWaitedFor'
  BY <1>8, <1>a DEF Timeout, Settle, Stop
<1>9. ASSUME NEW l \in Login, Throw(l) PROVE ListenerIsWaitedFor'
  BY <1>9, <1>a DEF Throw
<1>10. CASE Borrow
  BY <1>10, <1>a DEF Borrow
<1>11. QED
  BY <1>1, <1>2, <1>3, <1>4, <1>5, <1>6, <1>7, <1>8, <1>9, <1>10 DEF Next

LEMMA SuccessNext == TypeOK /\ Inv /\ [Next]_vars => SuccessIsTrue'
<1> SUFFICES ASSUME TypeOK, Inv, [Next]_vars PROVE SuccessIsTrue'
  OBVIOUS
<1> USE DEF SuccessIsTrue, TypeOK, Caller
<1>a. SuccessIsTrue /\ ListenerIsWaitedFor
  BY DEF Inv
<1>1. CASE UNCHANGED vars
  BY <1>1, <1>a DEF vars
<1>2. ASSUME NEW l \in Login, Authorize(l) PROVE SuccessIsTrue'
  BY <1>2, <1>a DEF Authorize
<1>3. ASSUME NEW l \in Login, Consent(l) PROVE SuccessIsTrue'
  BY <1>3, <1>a DEF Consent
<1>4. ASSUME NEW l \in Login, NEW r \in Caller, Turned(l, r) PROVE SuccessIsTrue'
  BY <1>4, <1>a DEF Turned, Settle, Tell
<1>5. ASSUME NEW l \in Login, Accept(l) PROVE SuccessIsTrue'
  BY <1>5, <1>a DEF Accept
<1>6. ASSUME NEW l \in Login, Redeem(l) PROVE SuccessIsTrue'
  BY <1>6, <1>a DEF Redeem
<1>7. ASSUME NEW l \in Login, NEW g \in Stage, Finish(l, g) PROVE SuccessIsTrue'
  <2>1. \A k \in Login : promise[k] = "resolved" => promise'[k] = "resolved"
    BY <1>7 DEF Finish, Settle
  <2>2. ASSUME page' # page, g = "issued" PROVE promise'[l] = "resolved"
    BY <1>7, <1>a, <2>2 DEF Finish, Settle, Tell, ListenerIsWaitedFor
  <2>3. QED
    BY <1>7, <1>a, <2>1, <2>2 DEF Finish, Tell
<1>8. ASSUME NEW l \in Login, Timeout(l) PROVE SuccessIsTrue'
  BY <1>8, <1>a DEF Timeout, Settle
<1>9. ASSUME NEW l \in Login, Throw(l) PROVE SuccessIsTrue'
  BY <1>9, <1>a DEF Throw
<1>10. CASE Borrow
  BY <1>10, <1>a DEF Borrow
<1>11. QED
  BY <1>1, <1>2, <1>3, <1>4, <1>5, <1>6, <1>7, <1>8, <1>9, <1>10 DEF Next

-----------------------------------------------------------------------------
(* Rejections.                                                             *)

\* A rejection stays explained while its count of handlers and its timer do not grow.
LEMMA RejectedKept ==
  ASSUME TypeOK, NEW k \in Login, RejectedInv(k),
         promise'[k] = "rejected" => promise[k] = "rejected",
         tokens'[k] = tokens[k],
         exchange[k]["sent"] = 0 => exchange'[k]["sent"] = 0,
         k \in timer' => k \in timer,
         \A r \in Caller : requests'[r] \in Nat /\ requests'[r] >= requests[r]
  PROVE  RejectedInv(k)'
<1>1. \A r \in Caller : requests[r] \in Nat
  BY DEF TypeOK
<1>2. \A r \in Caller : requests[r] > 0 => requests'[r] > 0
  BY <1>1
<1>3. requests[k] > 1 => requests'[k] > 1
  BY <1>1 DEF Caller
<1>4. QED
  BY <1>2, <1>3 DEF RejectedInv

LEMMA RejectedNext == TypeOK /\ Inv /\ [Next]_vars => \A k \in Login : RejectedInv(k)'
<1> SUFFICES ASSUME TypeOK, Inv, [Next]_vars, NEW k \in Login PROVE RejectedInv(k)'
  OBVIOUS
<1> USE OpencodeAssumption
<1>a. RejectedInv(k) /\ CountInv(k) /\ ListenerIsWaitedFor
  BY DEF Inv
<1>b. \A r \in Caller : requests[r] \in Nat
  BY DEF TypeOK
<1>c. /\ exchange[k]["sent"] \in Nat /\ exchange[k]["issued"] \in Nat
      /\ exchange[k]["partial"] \in Nat /\ exchange[k]["refused"] \in Nat
      /\ requests[k] \in Nat
  BY DEF TypeOK, Stage, Caller
<1>1. CASE UNCHANGED vars
  BY <1>1, <1>a DEF vars, RejectedInv
<1>2. ASSUME NEW l \in Login, Authorize(l) PROVE RejectedInv(k)'
  <2>1. CASE k = l /\ port # Nobody
    BY <1>2, <2>1, <1>a DEF Authorize, CountInv, RejectedInv, TypeOK
  <2>2. CASE k = l /\ port = Nobody
    BY <1>2, <2>2 DEF Authorize, RejectedInv, TypeOK
  <2>3. CASE k # l
    BY <1>2, <2>3, <1>a, <1>b, RejectedKept DEF Authorize, TypeOK
  <2>4. QED
    BY <2>1, <2>2, <2>3
<1>3. ASSUME NEW l \in Login, Consent(l) PROVE RejectedInv(k)'
  BY <1>3, <1>a, <1>b, RejectedKept DEF Consent
<1>4. ASSUME NEW l \in Login, NEW r \in Caller, Turned(l, r) PROVE RejectedInv(k)'
  <2>1. \A s \in Caller : requests'[s] \in Nat /\ requests'[s] >= requests[s]
    BY <1>4, <1>b DEF Turned, Requested, TypeOK
  <2>2. requests'[r] > 0
    BY <1>4, <1>b DEF Turned, Requested, TypeOK
  <2>3. UNCHANGED <<timer, exchange, tokens>>
    BY <1>4 DEF Turned
  <2>4. CASE k = l /\ r # l
    BY <2>2, <2>4 DEF RejectedInv
  <2>5. CASE k = l /\ r = l
    <3>1. tab[k] = "error"
      BY <1>4, <2>5 DEF Turned
    <3>2. tokens[k] = "none" /\ exchange[k]["sent"] = 0
      BY <3>1, <1>a, <1>c DEF CountInv
    <3>3. QED
      BY <2>3, <3>2 DEF RejectedInv
  <2>6. CASE k # l
    BY <1>4, <2>1, <2>3, <2>6, <1>a, RejectedKept DEF Turned, Settle, TypeOK
  <2>7. QED
    BY <2>4, <2>5, <2>6
<1>5. ASSUME NEW l \in Login, Accept(l) PROVE RejectedInv(k)'
  <2>1. \A s \in Caller : requests'[s] \in Nat /\ requests'[s] >= requests[s]
    BY <1>5, <1>b DEF Accept, Requested, TypeOK
  <2>2. UNCHANGED <<timer, tokens, promise>>
    BY <1>5 DEF Accept
  <2>3. CASE k = l
    <3>1. promise[k] = "waiting"
      BY <1>5, <1>a, <2>3 DEF Accept, Requested, ListenerIsWaitedFor
    <3>2. QED
      BY <2>2, <3>1 DEF RejectedInv
  <2>4. CASE k # l
    BY <1>5, <2>1, <2>2, <2>4, <1>a, RejectedKept DEF Accept, TypeOK
  <2>5. QED
    BY <2>3, <2>4
<1>6. ASSUME NEW l \in Login, Redeem(l) \/ Throw(l) PROVE RejectedInv(k)'
  <2>1. /\ UNCHANGED <<promise, timer, requests>>
        /\ exchange[l]["sent"] > 0
        /\ tokens[l] # "none" => tokens' = tokens
    BY <1>6 DEF Redeem, Throw
  <2>2. CASE k = l
    BY <2>1, <2>2, <1>a, <1>c DEF RejectedInv
  <2>3. CASE k # l
    <3>1. exchange'[k] = exchange[k] /\ tokens'[k] = tokens[k]
      BY <1>6, <2>3 DEF Redeem, Throw, TypeOK
    <3>2. QED
      BY <2>1, <3>1, <1>a, <1>b, RejectedKept
  <2>4. QED
    BY <2>2, <2>3
<1>7. ASSUME NEW l \in Login, NEW g \in Stage, Finish(l, g) PROVE RejectedInv(k)'
  <2>1. UNCHANGED <<timer, requests, tokens>> /\ g \in {"issued", "partial", "refused"}
    BY <1>7 DEF Finish, Stage
  <2>2. exchange'[k]["sent"] = exchange[k]["sent"]
    <3>1. CASE k = l
      <4>1. exchange'[k] = [exchange[k] EXCEPT ![g] = @ - 1]
        BY <1>7, <3>1 DEF Finish, TypeOK
      <4>2. QED
        BY <2>1, <4>1 DEF TypeOK, Stage
    <3>2. CASE k # l
      BY <1>7, <3>2 DEF Finish, TypeOK
    <3>3. QED
      BY <3>1, <3>2
  <2>3. CASE k = l /\ promise[k] = "waiting" /\ g = "refused"
    <3>1. exchange[k]["refused"] > 0
      BY <1>7, <2>3 DEF Finish
    <3>2. requests[k] > 1 \/ (tokens[k] = "none" /\ exchange[k]["sent"] = 0)
      BY <3>1, <1>a, <1>c DEF CountInv
    <3>3. QED
      BY <2>1, <2>2, <3>2 DEF RejectedInv
  <2>4. CASE k = l /\ g = "partial"
    BY <1>7, <2>1, <2>4, <1>a DEF Finish, CountInv, RejectedInv
  <2>5. CASE ~ (k = l /\ promise[k] = "waiting" /\ g = "refused") /\ ~ (k = l /\ g = "partial")
    <3>1. promise'[k] = "rejected" => promise[k] = "rejected"
      BY <1>7, <2>1, <2>5 DEF Finish, Settle, TypeOK
    <3>2. QED
      BY <2>1, <2>2, <3>1, <1>a, <1>b, RejectedKept
  <2>6. QED
    BY <2>3, <2>4, <2>5
<1>8. ASSUME NEW l \in Login, Timeout(l) PROVE RejectedInv(k)'
  <2>1. CASE k = l
    BY <1>8, <2>1 DEF Timeout, RejectedInv
  <2>2. CASE k # l
    BY <1>8, <2>2, <1>a, <1>b, RejectedKept DEF Timeout, Settle, TypeOK
  <2>3. QED
    BY <2>1, <2>2
<1>9. CASE Borrow
  BY <1>9, <1>a, <1>b, RejectedKept DEF Borrow
<1>10. QED
  BY <1>1, <1>2, <1>3, <1>4, <1>5, <1>6, <1>7, <1>8, <1>9 DEF Next

-----------------------------------------------------------------------------
LEMMA Invariance == Spec => [](TypeOK /\ Inv)
<1>1. Init => TypeOK /\ Inv
  BY InitHolds
<1>2. TypeOK /\ Inv /\ [Next]_vars => TypeOK' /\ Inv'
  BY NextTyped, CountNext, ListenerNext, SuccessNext, RejectedNext DEF Inv
<1>3. QED
  BY <1>1, <1>2, PTL DEF Spec

\* The variables of the login keep their types, and no more handlers are suspended
\* than redirects were requested.
THEOREM OpencodeTypeCorrect == Spec => []TypeOK
<1>1. TypeOK /\ Inv => TypeOK
  OBVIOUS
<1>2. QED
  BY Invariance, <1>1, PTL

\* For any number of attempts, an attempt waits exactly while it has the listener:
\* no step of one attempt takes the port from the next (finish, setTimeout, Bun.serve).
THEOREM ListenersAreWaitedFor == Spec => []ListenerIsWaitedFor
<1>1. TypeOK /\ Inv => ListenerIsWaitedFor
  BY DEF Inv
<1>2. QED
  BY Invariance, <1>1, PTL

\* For any number of attempts and reloads, no browser is told of a success that the
\* login does not have (stop(true) before the promise settles).
THEOREM SuccessIsNeverFalse == Spec => []SuccessIsTrue
<1>1. TypeOK /\ Inv => SuccessIsTrue
  BY DEF Inv
<1>2. QED
  BY Invariance, <1>1, PTL

\* For any number of attempts and reloads, a login for which Auth0 has issued tokens
\* ends without them only if no refresh token came with them, the timeout fired, its
\* redirect was reloaded, or a redirect of somebody else arrived.
THEOREM TokensAreDroppedAsNamed == Spec => []TokensReachTheLogin
<1>1. TypeOK /\ Inv => TokensReachTheLogin
  BY DEF Inv, RejectedInv, TokensReachTheLogin, TypeOK
<1>2. QED
  BY Invariance, <1>1, PTL

=============================================================================
