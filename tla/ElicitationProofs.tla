-------------------------- MODULE ElicitationProofs --------------------------
(***************************************************************************)
(* For any flows, deliveries, providers, scopes and configurations: a      *)
(* state is redeemed once and at its own provider, what is stored ends its *)
(* own flow, and no flow is broken by another, by a choice of boxes or by  *)
(* a rollout that leaves its provider as it was.                           *)
(***************************************************************************)
EXTENDS Elicitation, TLAPS

\* What is known of a provider suffices to send a user there and back.
WaysKnown(token) ==
    token \in TokenConfig /\ token.authorize_url # "unset" /\ token.redirect_uri

\* A page and a flow that was let start know the ways; the flow was asked for what
\* its page offered, and has no code before its redirect.
FlowInv(f) ==
    /\ start[f] = "new" => page[f] = None
    /\ start[f] = "page" => WaysKnown(page[f])
    /\ start[f] \in {"purge", "insert", "redirected"} => WaysKnown(conf[f])
    /\ start[f] \in {"purge", "insert"} /\ page[f] # None => query[f] \subseteq Boxes(page[f])
    /\ code[f] # "none" => start[f] = "redirected"

\* A delivery carries what redirects gave out; past take_pending, its state is used
\* up and its provider is the right one; past the exchange, its code was its own.
DeliveryInv(d) ==
    /\ pc[d] # "done" => result[d] = "none"
    /\ pc[d] # "idle" =>
         /\ path[d] \in Provider /\ param[d] \in Flow /\ presented[d] \in Flow
         /\ start[param[d]] = "redirected"
    /\ pc[d] \in {"exchange", "store"} => provider[param[d]] = path[d]
    /\ pc[d] = "store" => presented[d] = param[d] /\ code[param[d]] = "spent"
    /\ Redeeming(d) => ~Pending(param[d])

\* Tokens are stored for flows that have left nothing behind.
StoredInv(p) ==
    stored[p] # None =>
        /\ start[stored[p]] = "redirected"
        /\ provider[stored[p]] = p
        /\ code[stored[p]] = "spent"
        /\ ~Pending(stored[p])

Inv ==
    /\ \A f \in Flow : FlowInv(f)
    /\ \A d \in Delivery : DeliveryInv(d)
    /\ \A p \in Provider : StoredInv(p)
    /\ StateIsSingleUse

-----------------------------------------------------------------------------
(* Configurations.                                                         *)

\* Every provider of a pod is typed, and an interactive one has a redirect URI: a pod
\* that lacks one for an AUTHORIZE_URL does not come up.
LEMMA ConfigsTyped ==
  ASSUME NEW c \in Configs, NEW p \in DOMAIN c
  PROVE  /\ c[p] \in TokenConfig
         /\ Interactive(c, p) => c[p].redirect_uri
<1>1. PICK env \in Envs : c = FromEnv(env) /\ Accepts(env)
  BY DEF Configs
<1>2. PICK P \in SUBSET Provider : env \in [P -> ProviderEnv]
  BY <1>1, ElicitationAssumption
<1>3. p \in P /\ env[p] \in ProviderEnv /\ Complete(env[p]) /\ c[p] = TokenOf(env[p])
  BY <1>1, <1>2 DEF FromEnv, Accepts
<1>4. QED
  BY <1>3 DEF TokenOf, TokenConfig, ProviderEnv, Url, Interactive, Complete

LEMMA ServingIsConfigs == TypeOK => Serving \subseteq Configs
  BY DEF TypeOK, Serving

LEMMA NoneApart ==
    /\ None \notin Flow /\ None \notin Provider /\ None \notin TokenConfig
    /\ None \notin 0 .. MaxTime
  BY ElicitationAssumption

-----------------------------------------------------------------------------
(* Type correctness.                                                       *)

LEMMA InitTyped == Init => TypeOK
  BY ElicitationAssumption DEF Init, TypeOK, Result

LEMMA PodStepTyped ==
  ASSUME TypeOK, (\E env \in Envs : Rollout(env)) \/ Retire \/ Tick
  PROVE  TypeOK'
<1>1. ASSUME NEW env \in Envs, Rollout(env) PROVE TypeOK'
  <2>1. FromEnv(env) \in Configs
    BY <1>1 DEF Rollout, Configs
  <2>2. config' \in Configs /\ leaving' \in SUBSET Configs
    BY <1>1, <2>1 DEF Rollout, TypeOK
  <2>3. QED
    BY <1>1, <2>2 DEF Rollout, TypeOK, startVars, formVars, urlVars
<1>2. CASE Retire
  BY <1>2 DEF Retire, TypeOK, startVars, formVars, urlVars
<1>3. CASE Tick
  BY <1>3, ElicitationAssumption DEF Tick, TypeOK, podVars, startVars, formVars, urlVars
<1>4. QED
  BY <1>1, <1>2, <1>3

LEMMA OpenPageTyped ==
  ASSUME TypeOK, NEW f \in Flow, NEW c \in Serving, NEW p \in Provider, OpenPage(f, c, p)
  PROVE  TypeOK'
<1>1. c[p] \in TokenConfig
  BY ServingIsConfigs, ConfigsTyped DEF OpenPage, Interactive
<1>2. QED
  BY <1>1 DEF OpenPage, TypeOK, podVars, urlVars

LEMMA StartTyped ==
  ASSUME TypeOK, NEW f \in Flow, NEW c \in Serving, NEW p \in Provider,
         NEW q \in SUBSET Scope, Start(f, c, p, q)
  PROVE  TypeOK'
<1>1. CASE Startable(c, p)
  <2>1. c[p] \in TokenConfig
    BY <1>1, ServingIsConfigs, ConfigsTyped DEF Startable, Interactive
  <2>2. QED
    BY <1>1, <2>1 DEF Start, TypeOK, podVars, urlVars
<1>2. CASE ~Startable(c, p)
  BY <1>2 DEF Start, TypeOK, podVars, urlVars
<1>3. QED
  BY <1>1, <1>2

LEMMA InsertTyped ==
  ASSUME TypeOK, NEW f \in Flow, FlowInv(f), Insert(f)
  PROVE  TypeOK'
<1>1. Requested(conf[f], query[f]) \in SUBSET Scope
  BY DEF FlowInv, WaysKnown, Insert, Requested, TokenConfig, TypeOK
<1>2. QED
  BY <1>1, ElicitationAssumption DEF Insert, Redirect, TypeOK, podVars, urlVars

LEMMA OtherFlowStepsTyped ==
  ASSUME TypeOK, NEW f \in Flow, Purge(f) \/ Consent(f)
  PROVE  TypeOK'
<1>1. CASE Purge(f)
  BY <1>1 DEF Purge, TypeOK, podVars, formVars, urlVars
<1>2. CASE Consent(f)
  BY <1>2 DEF Consent, TypeOK, podVars, urlVars
<1>3. QED
  BY <1>1, <1>2

LEMMA DeliveryStepsTyped ==
  ASSUME TypeOK, NEW d \in Delivery, DeliveryInv(d),
         \/ \E p \in Provider, f, c \in Flow : Deliver(d, p, f, c)
         \/ Take(d) \/ Exchange(d) \/ ExchangeRefused(d) \/ Store(d) \/ Dropped(d)
  PROVE  TypeOK'
<1>1. ASSUME NEW p \in Provider, NEW f \in Flow, NEW c \in Flow, Deliver(d, p, f, c)
      PROVE  TypeOK'
  BY <1>1 DEF Deliver, TypeOK, podVars, startVars, formVars
<1>2. CASE Take(d)
  <2>1. /\ pc' \in [Delivery -> {"idle", "take", "exchange", "store", "done"}]
        /\ result' \in [Delivery -> Result]
    BY <1>2 DEF Take, Proceed, Answer, Result, TypeOK
  <2>2. created' \in [Flow -> (0 .. MaxTime) \cup {None}]
    BY <1>2 DEF Take, TypeOK
  <2>3. QED
    BY <1>2, <2>1, <2>2 DEF Take, TypeOK, podVars, startVars, formVars, urlVars
<1>3. CASE Exchange(d)
  BY <1>3 DEF Exchange, TypeOK, podVars, startVars, formVars, urlVars
<1>4. CASE ExchangeRefused(d)
  BY <1>4 DEF ExchangeRefused, Answer, Result, TypeOK, podVars, startVars, formVars, urlVars
<1>5. CASE Store(d)
  BY <1>5 DEF Store, Answer, Result, DeliveryInv, TypeOK, podVars, startVars, formVars, urlVars
<1>6. CASE Dropped(d)
  BY <1>6 DEF Dropped, Answer, Result, TypeOK, podVars, startVars, formVars, urlVars
<1>7. QED
  BY <1>1, <1>2, <1>3, <1>4, <1>5, <1>6

LEMMA NextTyped == TypeOK /\ Inv /\ [Next]_vars => TypeOK'
<1> SUFFICES ASSUME TypeOK, Inv, [Next]_vars PROVE TypeOK'
  OBVIOUS
<1>1. CASE UNCHANGED vars
  BY <1>1 DEF vars, TypeOK, podVars, startVars, formVars, urlVars
<1>2. CASE Next
  BY <1>2, PodStepTyped, OpenPageTyped, StartTyped, InsertTyped, OtherFlowStepsTyped,
     DeliveryStepsTyped DEF Next, Inv
<1>3. QED
  BY <1>1, <1>2

-----------------------------------------------------------------------------
(* The invariant.                                                          *)

LEMMA InitInv == Init => Inv
  BY DEF Init, Inv, FlowInv, DeliveryInv, StoredInv, StateIsSingleUse, Redeeming, Pending

\* Nothing that the invariant speaks of changes.
LEMMA PodStepInv ==
  ASSUME Inv, (\E env \in Envs : Rollout(env)) \/ Retire \/ Tick \/ UNCHANGED vars
  PROVE  Inv'
<1>1. UNCHANGED <<startVars, created, code, pc, urlVars, result, stored>>
  BY DEF Rollout, Retire, Tick, vars, podVars
<1>2. QED
  BY <1>1 DEF Inv, FlowInv, DeliveryInv, StoredInv, StateIsSingleUse, Redeeming, Pending,
              startVars, formVars, urlVars

\* What the steps of a flow leave alone: deliveries, and flows that were redirected,
\* except that a code is issued or a state is purged.
LEMMA FlowStepInv ==
  ASSUME TypeOK, Inv, UNCHANGED <<pc, urlVars, result, stored>>,
         \A f \in Flow : FlowInv(f)',
         \A f \in Flow : start[f] = "redirected" =>
             /\ start'[f] = "redirected" /\ provider'[f] = provider[f]
             /\ code[f] # "none" => code'[f] = code[f]
             /\ ~Pending(f) => ~Pending(f)'
  PROVE  Inv'
<1>1. \A d \in Delivery : Redeeming(d)' <=> Redeeming(d)
  BY DEF Redeeming
<1>2. ASSUME NEW d \in Delivery PROVE DeliveryInv(d)'
  <2>1. DeliveryInv(d)
    BY DEF Inv
  <2>2. Redeeming(d) => pc[d] # "idle"
    BY <2>1 DEF DeliveryInv, Redeeming
  <2>3. QED
    BY <1>1, <2>1, <2>2 DEF DeliveryInv, urlVars
<1>3. ASSUME NEW p \in Provider PROVE StoredInv(p)'
  <2>1. StoredInv(p) /\ stored[p] \in Flow \cup {None}
    BY DEF Inv, TypeOK
  <2>2. QED
    BY <2>1 DEF StoredInv
<1>4. StateIsSingleUse'
  BY <1>1 DEF Inv, StateIsSingleUse, urlVars
<1>5. QED
  BY <1>2, <1>3, <1>4 DEF Inv

LEMMA OpenPageInv ==
  ASSUME TypeOK, Inv, NEW f \in Flow, NEW c \in Serving, NEW p \in Provider, OpenPage(f, c, p)
  PROVE  Inv'
<1>1. start[f] = "new" /\ start'[f] = "page" /\ \A g \in Flow : g # f => start'[g] = start[g]
  BY DEF OpenPage, TypeOK
<1>2. WaysKnown(page'[f])
  BY ServingIsConfigs, ConfigsTyped DEF OpenPage, Interactive, WaysKnown, TypeOK
<1>3. ASSUME NEW g \in Flow PROVE FlowInv(g)'
  <2>1. FlowInv(g)
    BY DEF Inv
  <2>2. QED
    BY <1>1, <1>2, <2>1 DEF OpenPage, FlowInv, TypeOK
<1>4. QED
  BY <1>1, <1>3, FlowStepInv DEF OpenPage, TypeOK, Pending

LEMMA StartInv ==
  ASSUME TypeOK, Inv, NEW f \in Flow, NEW c \in Serving, NEW p \in Provider,
         NEW q \in SUBSET Scope, Start(f, c, p, q)
  PROVE  Inv'
<1>1. /\ start[f] \in {"new", "page"} /\ start'[f] \in {"purge", "rejected"}
      /\ \A g \in Flow : g # f => start'[g] = start[g]
  BY DEF Start, Submits, TypeOK
<1>2. ASSUME NEW g \in Flow PROVE FlowInv(g)'
  <2>1. FlowInv(g)
    BY DEF Inv
  <2>2. CASE g # f
    BY <1>1, <2>1, <2>2 DEF Start, FlowInv, TypeOK
  <2>3. CASE g = f /\ ~Startable(c, p)
    BY <1>1, <2>1, <2>3 DEF Start, FlowInv, TypeOK
  <2>4. CASE g = f /\ Startable(c, p)
    <3>1. WaysKnown(conf'[f])
      BY <2>4, ServingIsConfigs, ConfigsTyped
         DEF Start, Startable, Interactive, WaysKnown, TypeOK
    <3>2. page'[f] # None => query'[f] \subseteq Boxes(page'[f])
      BY <2>1, <2>4 DEF FlowInv, Start, Submits, TypeOK
    <3>3. QED
      BY <1>1, <2>1, <2>4, <3>1, <3>2 DEF Start, FlowInv
  <2>5. QED
    BY <2>2, <2>3, <2>4
<1>3. QED
  BY <1>1, <1>2, FlowStepInv DEF Start, TypeOK, Pending

LEMMA PurgeInv ==
  ASSUME TypeOK, Inv, NEW f \in Flow, Purge(f)
  PROVE  Inv'
<1>1. /\ start[f] = "purge" /\ start'[f] = "insert"
      /\ \A g \in Flow : g # f => start'[g] = start[g]
      /\ \A g \in Flow : ~Pending(g) => ~Pending(g)'
  BY DEF Purge, TypeOK, Pending
<1>2. ASSUME NEW g \in Flow PROVE FlowInv(g)'
  <2>1. FlowInv(g)
    BY DEF Inv
  <2>2. QED
    BY <1>1, <2>1 DEF Purge, FlowInv, formVars
<1>3. QED
  BY <1>1, <1>2, FlowStepInv DEF Purge

LEMMA InsertInv ==
  ASSUME TypeOK, Inv, NEW f \in Flow, Insert(f)
  PROVE  Inv'
<1>1. /\ start[f] = "insert" /\ start'[f] \in {"redirected", "rejected"}
      /\ \A g \in Flow : g # f => start'[g] = start[g] /\ created'[g] = created[g]
  BY DEF Insert, Redirect, TypeOK
<1>2. ASSUME NEW g \in Flow PROVE FlowInv(g)'
  <2>1. FlowInv(g)
    BY DEF Inv
  <2>2. QED
    BY <1>1, <2>1 DEF Insert, Redirect, FlowInv, TypeOK
<1>3. QED
  BY <1>1, <1>2, FlowStepInv DEF Insert, Pending

LEMMA ConsentInv ==
  ASSUME TypeOK, Inv, NEW f \in Flow, Consent(f)
  PROVE  Inv'
<1>1. /\ start[f] = "redirected" /\ code[f] = "none"
      /\ \A g \in Flow : g # f => code'[g] = code[g]
  BY DEF Consent, TypeOK
<1>2. ASSUME NEW g \in Flow PROVE FlowInv(g)'
  <2>1. FlowInv(g)
    BY DEF Inv
  <2>2. QED
    BY <1>1, <2>1 DEF Consent, FlowInv, TypeOK
<1>3. QED
  BY <1>1, <1>2, FlowStepInv DEF Consent, Pending

\* A delivery that stops, with whatever answer: what remains was true before.
LEMMA AnswerInv ==
  ASSUME TypeOK, Inv, NEW d \in Delivery, NEW r \in Result, Answer(d, r),
         r = "refused" => pc[d] = "exchange",
         r = "authorized" => pc[d] = "store",
         pc[d] # "idle",
         UNCHANGED <<startVars, code, urlVars>>,
         \A f \in Flow : ~Pending(f) => ~Pending(f)',
         \A p \in Provider : StoredInv(p)'
  PROVE  Inv'
<1>1. /\ pc'[d] = "done" /\ result'[d] = r
      /\ \A e \in Delivery : e # d => pc'[e] = pc[e] /\ result'[e] = result[e]
  BY DEF Answer, TypeOK
<1>2. \A e \in Delivery : Redeeming(e)' => Redeeming(e)
  BY <1>1 DEF Redeeming
<1>3. ASSUME NEW e \in Delivery PROVE DeliveryInv(e)'
  <2>1. DeliveryInv(e)
    BY DEF Inv
  <2>2. Redeeming(e) => pc[e] # "idle"
    BY <2>1 DEF DeliveryInv, Redeeming
  <2>3. QED
    BY <1>1, <1>2, <2>1, <2>2 DEF DeliveryInv, startVars, urlVars
<1>4. \A f \in Flow : FlowInv(f)'
  BY DEF Inv, FlowInv, startVars, formVars
<1>5. StateIsSingleUse'
  BY <1>2 DEF Inv, StateIsSingleUse, urlVars
<1>6. QED
  BY <1>3, <1>4, <1>5 DEF Inv

LEMMA DeliverInv ==
  ASSUME TypeOK, Inv, NEW d \in Delivery, NEW p \in Provider, NEW f \in Flow, NEW c \in Flow,
         Deliver(d, p, f, c)
  PROVE  Inv'
<1>1. /\ pc[d] = "idle" /\ pc'[d] = "take" /\ result'[d] = "none"
      /\ path'[d] = p /\ param'[d] = f /\ presented'[d] = c /\ start[f] = "redirected"
  BY DEF Deliver, Inv, DeliveryInv, TypeOK
<1>2. \A e \in Delivery : e # d =>
         /\ pc'[e] = pc[e] /\ path'[e] = path[e] /\ param'[e] = param[e]
         /\ presented'[e] = presented[e] /\ result'[e] = result[e]
  BY DEF Deliver, TypeOK
<1>3. ~Redeeming(d)' /\ \A e \in Delivery : e # d => (Redeeming(e)' <=> Redeeming(e))
  BY <1>1, <1>2 DEF Redeeming
<1>4. ASSUME NEW e \in Delivery PROVE DeliveryInv(e)'
  <2>1. DeliveryInv(e)
    BY DEF Inv
  <2>2. QED
    BY <1>1, <1>2, <1>3, <2>1 DEF Deliver, DeliveryInv, Pending, startVars
<1>5. \A g \in Flow : FlowInv(g)'
  BY DEF Deliver, Inv, FlowInv, startVars, formVars
<1>6. \A q \in Provider : StoredInv(q)'
  BY DEF Deliver, Inv, StoredInv, Pending, startVars
<1>7. StateIsSingleUse'
  BY <1>2, <1>3 DEF Inv, StateIsSingleUse
<1>8. QED
  BY <1>4, <1>5, <1>6, <1>7 DEF Inv

\* take_pending: the state is used up whatever the answer is, and if the delivery
\* goes on, no other has got past it with that state.
LEMMA TakeInv ==
  ASSUME TypeOK, Inv, NEW d \in Delivery, Take(d)
  PROVE  Inv'
<1>1. /\ pc[d] = "take" /\ result[d] = "none" /\ param[d] \in Flow
      /\ created' = [created EXCEPT ![param[d]] = None]
      /\ UNCHANGED <<startVars, code, urlVars, stored>>
  BY DEF Take, Inv, DeliveryInv
<1>2. \A f \in Flow : ~Pending(f) => ~Pending(f)'
  BY <1>1 DEF Pending, TypeOK
<1>3. \A p \in Provider : StoredInv(p)'
  BY <1>1, <1>2 DEF Inv, StoredInv, TypeOK, startVars
<1>4. ASSUME NEW r \in {"unknown_state", "wrong_provider", "not_configured"}, Answer(d, r)
      PROVE  Inv'
  BY <1>1, <1>2, <1>3, <1>4, AnswerInv DEF Result
<1>5. ASSUME Pending(param[d]), provider[param[d]] = path[d],
             pc' = [pc EXCEPT ![d] = "exchange"], UNCHANGED result
      PROVE  Inv'
  <2>1. ~Redeeming(d) /\ \A e \in Delivery : e # d => (Redeeming(e)' <=> Redeeming(e))
    BY <1>1, <1>5 DEF Redeeming, TypeOK
  <2>2. \A e \in Delivery : Redeeming(e) => param[e] # param[d]
    BY <1>5 DEF Inv, DeliveryInv
  <2>3. StateIsSingleUse'
    BY <1>1, <2>1, <2>2 DEF Inv, StateIsSingleUse, urlVars
  <2>4. ~Pending(param[d])'
    BY <1>1 DEF Pending, TypeOK, urlVars
  <2>5. ASSUME NEW e \in Delivery PROVE DeliveryInv(e)'
    <3>1. DeliveryInv(e)
      BY DEF Inv
    <3>2. CASE e = d
      BY <1>1, <1>5, <2>4, <3>1, <3>2 DEF DeliveryInv, TypeOK, startVars, urlVars
    <3>3. CASE e # d
      <4>1. pc'[e] = pc[e] /\ (Redeeming(e) => pc[e] # "idle")
        BY <1>5, <3>1, <3>3 DEF DeliveryInv, Redeeming, TypeOK
      <4>2. QED
        BY <1>1, <1>2, <1>5, <2>1, <3>1, <3>3, <4>1 DEF DeliveryInv, startVars, urlVars
    <3>4. QED
      BY <3>2, <3>3
  <2>6. \A f \in Flow : FlowInv(f)'
    BY <1>1 DEF Inv, FlowInv, startVars, formVars
  <2>7. QED
    BY <1>3, <2>3, <2>5, <2>6 DEF Inv
<1>6. QED
  BY <1>4, <1>5 DEF Take, Proceed

\* The provider takes the code once, and only with the verifier of its own flow.
LEMMA ExchangeInv ==
  ASSUME TypeOK, Inv, NEW d \in Delivery, Exchange(d)
  PROVE  Inv'
<1>1. /\ pc[d] = "exchange" /\ param[d] \in Flow /\ presented[d] = param[d]
      /\ code[param[d]] = "issued"
      /\ UNCHANGED <<startVars, created, urlVars, result, stored>>
  BY DEF Exchange, Accepted, Inv, DeliveryInv
<1>2. pc'[d] = "store" /\ \A e \in Delivery : e # d => pc'[e] = pc[e]
  BY DEF Exchange, TypeOK
<1>3. code'[param[d]] = "spent" /\ \A f \in Flow : f # param[d] => code'[f] = code[f]
  BY <1>1 DEF Exchange, TypeOK
<1>4. \A e \in Delivery : Redeeming(e)' <=> Redeeming(e)
  BY <1>1, <1>2 DEF Redeeming
<1>5. ASSUME NEW e \in Delivery PROVE DeliveryInv(e)'
  <2>1. DeliveryInv(e) /\ DeliveryInv(d)
    BY DEF Inv
  <2>2. CASE e = d
    BY <1>1, <1>2, <1>3, <1>4, <2>1, <2>2 DEF DeliveryInv, Pending, startVars, urlVars
  <2>3. CASE e # d
    BY <1>1, <1>2, <1>3, <1>4, <2>1, <2>3 DEF DeliveryInv, Pending, startVars, urlVars
  <2>4. QED
    BY <2>2, <2>3
<1>6. \A f \in Flow : FlowInv(f)'
  BY <1>1, <1>3 DEF Inv, FlowInv, startVars, formVars
<1>7. \A p \in Provider : StoredInv(p)'
  BY <1>1, <1>3 DEF Inv, StoredInv, Pending, TypeOK, startVars
<1>8. StateIsSingleUse'
  BY <1>1, <1>4 DEF Inv, StateIsSingleUse, urlVars
<1>9. QED
  BY <1>5, <1>6, <1>7, <1>8 DEF Inv

LEMMA StoreInv ==
  ASSUME TypeOK, Inv, NEW d \in Delivery, Store(d)
  PROVE  Inv'
<1>1. /\ pc[d] = "store" /\ path[d] \in Provider /\ param[d] \in Flow
      /\ presented[d] = param[d] /\ start[param[d]] = "redirected"
      /\ provider[param[d]] = path[d] /\ code[param[d]] = "spent" /\ ~Pending(param[d])
  BY DEF Store, Inv, DeliveryInv, Redeeming
<1>2. \A p \in Provider : StoredInv(p)'
  BY <1>1 DEF Store, Inv, StoredInv, Pending, TypeOK, startVars
<1>3. QED
  BY <1>1, <1>2, AnswerInv DEF Store, Pending, Result

LEMMA DeliveryEndsInv ==
  ASSUME TypeOK, Inv, NEW d \in Delivery, ExchangeRefused(d) \/ Dropped(d)
  PROVE  Inv'
<1>1. /\ UNCHANGED <<startVars, created, code, urlVars, stored>>
      /\ \/ pc[d] = "exchange" /\ Answer(d, "refused")
         \/ pc[d] # "idle" /\ Answer(d, "gone")
  BY DEF ExchangeRefused, Dropped
<1>2. \A p \in Provider : StoredInv(p)'
  BY <1>1 DEF Inv, StoredInv, Pending, startVars
<1>3. QED
  BY <1>1, <1>2, AnswerInv DEF Pending, Result

LEMMA NextInv == TypeOK /\ Inv /\ [Next]_vars => Inv'
  BY PodStepInv, OpenPageInv, StartInv, PurgeInv, InsertInv, ConsentInv, DeliverInv, TakeInv,
     ExchangeInv, StoreInv, DeliveryEndsInv DEF Next

LEMMA Invariance == Spec => [](TypeOK /\ Inv)
<1>1. Init => TypeOK /\ Inv
  BY InitTyped, InitInv
<1>2. TypeOK /\ Inv /\ [Next]_vars => (TypeOK /\ Inv)'
  BY NextTyped, NextInv
<1>3. QED
  BY <1>1, <1>2, PTL DEF Spec

-----------------------------------------------------------------------------
(* The theorems.                                                           *)

\* Tables, pages, requests and pods keep their types, under any configurations.
THEOREM ElicitationTypeCorrect == Spec => []TypeOK
  BY Invariance, PTL

\* However many deliveries carry a state, one gets past take_pending with it
\* (store.rs, take_pending; admin.rs, oauth_router).
THEOREM StateIsRedeemedOnce == Spec => []StateIsSingleUse
<1>1. Inv => StateIsSingleUse
  BY DEF Inv
<1>2. QED
  BY <1>1, Invariance, PTL

\* No code_verifier reaches another provider's token endpoint (oauth.rs, the
\* comparison after take_pending).
THEOREM VerifierIsNotSentElsewhere == Spec => []VerifierStaysWithItsProvider
<1>1. Inv => VerifierStaysWithItsProvider
  BY DEF Inv, DeliveryInv, VerifierStaysWithItsProvider
<1>2. QED
  BY <1>1, Invariance, PTL

\* Whatever mixture of states and codes arrives at whatever route, what is stored for
\* a provider was started for it, and left no open state (oauth.rs, callback_inner).
THEOREM StoredIsItsOwnFlow == Spec => []StoredEndsItsOwnFlow
<1>1. Inv => StoredEndsItsOwnFlow
  BY DEF Inv, StoredInv, StoredEndsItsOwnFlow
<1>2. QED
  BY <1>1, Invariance, PTL

-----------------------------------------------------------------------------
(* The action properties.                                                  *)

FormStep ==
    \A f \in Flow :
        /\ start[f] = "page" /\ start'[f] = "rejected"
             => \E c \in Serving : provider[f] \in DOMAIN c => c[provider[f]] # page[f]
        /\ start[f] = "insert" /\ start'[f] # "insert" /\ page[f] = conf[f]
             => IF conf[f].authorize_url = "malformed" THEN start'[f] = "rejected"
                ELSE /\ start'[f] = "redirected"
                     /\ asked'[f] = IF query[f] = {} THEN page[f].scopes ELSE query[f]

FinishStep ==
    \A d \in Delivery : result[d] = "none" /\ result'[d] = "not_configured"
        => \E c \in Serving : path[d] \in DOMAIN c => c[path[d]] # conf[param[d]]

YoungStep ==
    \A f \in Flow : Pending(f) /\ Young(f) /\ created'[f] = None
        => \E d \in Delivery : pc[d] = "take" /\ pc'[d] # "take" /\ param[d] = f

\* A flow moves by its own steps.
LEMMA StartMovesByFlow ==
  ASSUME TypeOK, [Next]_vars, NEW f \in Flow, start'[f] # start[f]
  PROVE  \/ \E c \in Serving, p \in Provider : OpenPage(f, c, p)
         \/ \E c \in Serving, p \in Provider, q \in SUBSET Scope : Start(f, c, p, q)
         \/ Purge(f) \/ Insert(f)
<1>1. ~UNCHANGED start
  OBVIOUS
<1>2. \E g \in Flow :
         \/ \E c \in Serving, p \in Provider : OpenPage(g, c, p)
         \/ \E c \in Serving, p \in Provider, q \in SUBSET Scope : Start(g, c, p, q)
         \/ Purge(g) \/ Insert(g)
  BY <1>1 DEF Next, vars, startVars, Consent, Deliver, Take, Exchange, ExchangeRefused, Store,
              Dropped, Rollout, Retire, Tick
<1>3. PICK g \in Flow :
         /\ \/ \E c \in Serving, p \in Provider : OpenPage(g, c, p)
            \/ \E c \in Serving, p \in Provider, q \in SUBSET Scope : Start(g, c, p, q)
            \/ Purge(g) \/ Insert(g)
         /\ \A h \in Flow : h # g => start'[h] = start[h]
  BY <1>2 DEF OpenPage, Start, Purge, Insert, Redirect, TypeOK
<1>4. QED
  BY <1>3

\* A page knows the ways, so the pod that turns its form away does not know the same.
LEMMA PageStepHolds ==
  ASSUME TypeOK, Inv, [Next]_vars, NEW f \in Flow, start[f] = "page", start'[f] = "rejected"
  PROVE  \E c \in Serving : provider[f] \in DOMAIN c => c[provider[f]] # page[f]
<1>1. PICK c \in Serving, p \in Provider, q \in SUBSET Scope : Start(f, c, p, q)
  BY StartMovesByFlow DEF OpenPage, Purge, Insert
<1>2. provider[f] = p /\ ~Startable(c, p)
  BY <1>1 DEF Start, Submits, TypeOK
<1>3. WaysKnown(page[f])
  BY DEF Inv, FlowInv
<1>4. QED
  BY <1>2, <1>3 DEF Startable, Interactive, WaysKnown

LEMMA InsertStepHolds ==
  ASSUME TypeOK, Inv, [Next]_vars, NEW f \in Flow,
         start[f] = "insert", start'[f] # "insert", page[f] = conf[f]
  PROVE  IF conf[f].authorize_url = "malformed" THEN start'[f] = "rejected"
         ELSE /\ start'[f] = "redirected"
              /\ asked'[f] = IF query[f] = {} THEN page[f].scopes ELSE query[f]
<1>1. Insert(f)
  BY StartMovesByFlow DEF OpenPage, Start, Submits, Purge
<1>2. FlowInv(f)
  BY DEF Inv
<1>3. /\ query[f] \subseteq Allowed(conf[f])
      /\ conf[f].authorize_url \in {"valid", "malformed"}
  BY <1>2, NoneApart DEF FlowInv, WaysKnown, TokenConfig, Url, Boxes, Allowed
<1>4. QED
  BY <1>1, <1>3 DEF Insert, Redirect, Requested, TypeOK

LEMMA FormStepHolds == TypeOK /\ Inv /\ [Next]_vars => FormStep
  BY PageStepHolds, InsertStepHolds DEF FormStep

\* Only the look at the configuration after take_pending answers "not_configured".
LEMMA FinishStepHolds == TypeOK /\ Inv /\ [Next]_vars => FinishStep
<1> SUFFICES ASSUME TypeOK, Inv, [Next]_vars, NEW d \in Delivery,
                    result[d] = "none", result'[d] = "not_configured"
             PROVE  \E c \in Serving : path[d] \in DOMAIN c => c[path[d]] # conf[param[d]]
  BY DEF FinishStep
<1>1. Take(d)
  <2>1. \E e \in Delivery : Take(e) \/ ExchangeRefused(e) \/ Store(e) \/ Dropped(e)
    BY DEF Next, vars, podVars, startVars, OpenPage, Start, Purge, Insert, Consent, Deliver,
           Exchange, Rollout, Retire, Tick
  <2>2. QED
    BY <2>1 DEF Take, Proceed, ExchangeRefused, Store, Dropped, Answer, TypeOK
<1>2. provider[param[d]] = path[d] /\ Proceed(d)
  BY <1>1 DEF Take, Answer, TypeOK
<1>3. PICK c \in Serving : ~Redeems(c, path[d])
  BY <1>2 DEF Proceed
<1>4. DeliveryInv(d) /\ FlowInv(param[d])
  BY <1>1 DEF Inv, DeliveryInv, Take
<1>5. conf[param[d]].redirect_uri
  BY <1>1, <1>4 DEF DeliveryInv, FlowInv, WaysKnown, Take
<1>6. path[d] \in DOMAIN c => c[path[d]] # conf[param[d]]
  BY <1>3, <1>5 DEF Redeems
<1>7. QED
  BY <1>6

LEMMA YoungStepHolds == TypeOK /\ Inv /\ [Next]_vars => YoungStep
<1> SUFFICES ASSUME TypeOK, Inv, [Next]_vars, NEW f \in Flow,
                    Pending(f), Young(f), created'[f] = None
             PROVE  \E d \in Delivery : pc[d] = "take" /\ pc'[d] # "take" /\ param[d] = f
  BY DEF YoungStep
<1>1. created'[f] # created[f]
  BY DEF Pending
<1>2. \/ \E g \in Flow : Purge(g) \/ Insert(g)
      \/ \E d \in Delivery : Take(d)
  BY <1>1 DEF Next, vars, podVars, startVars, OpenPage, Start, Consent, Deliver,
              Exchange, ExchangeRefused, Store, Dropped, Rollout, Retire, Tick
<1>3. ASSUME NEW g \in Flow, Purge(g) PROVE FALSE
  BY <1>1, <1>3 DEF Purge
<1>4. ASSUME NEW g \in Flow, Insert(g) PROVE FALSE
  BY <1>1, <1>4, NoneApart DEF Insert, TypeOK
<1>5. ASSUME NEW d \in Delivery, Take(d)
      PROVE  pc[d] = "take" /\ pc'[d] # "take" /\ param[d] = f
  <2>1. param[d] = f
    BY <1>1, <1>5 DEF Take, TypeOK
  <2>2. pc'[d] # "take"
    BY <1>5 DEF Take, Proceed, Answer, TypeOK
  <2>3. QED
    BY <1>5, <2>1, <2>2 DEF Take
<1>6. QED
  BY <1>2, <1>3, <1>4, <1>5

\* A form is turned away only by a pod that knows another provider than its page, or
\* for an AUTHORIZE_URL that does not parse; otherwise what was ticked is asked for,
\* or the page's defaults.  It takes from_env's rule that AUTHORIZE_URL requires
\* REDIRECT_URI, at every pod (config.rs; ui.rs, index_inner; oauth.rs, start_inner).
THEOREM FormsAreHonoured == Spec => FormIsHonoured
<1>1. Spec => [][FormStep]_vars
  BY FormStepHolds, Invariance, PTL DEF Spec
<1>2. QED
  BY <1>1 DEF FormStep, FormIsHonoured

\* A callback fails for want of configuration only if a serving pod knows another
\* provider of that name than the one the flow was started with (config.rs, from_env;
\* oauth.rs, callback_inner).
THEOREM FlowsFinishAsStarted == Spec => FlowFinishesAsItStarted
<1>1. Spec => [][FinishStep]_vars
  BY FinishStepHolds, Invariance, PTL DEF Spec
<1>2. QED
  BY <1>1 DEF FinishStep, FlowFinishesAsItStarted

\* A pending row that is less than an hour old is deleted by a delivery of its own
\* state and by nothing else (store.rs, purge_old_pending and take_pending).
THEOREM YoungFlowsSurvive == Spec => YoungFlowSurvives
<1>1. Spec => [][YoungStep]_vars
  BY YoungStepHolds, Invariance, PTL DEF Spec
<1>2. QED
  BY <1>1 DEF YoungStep, YoungFlowSurvives
=============================================================================
