---------------------------- MODULE StartupProofs ----------------------------
(***************************************************************************)
(* For any number of pods and any values of the Secret: the newest pod,    *)
(* once it serves, can log in, unless db_url changed in the middle of a    *)
(* rollout that is not over; and what the user stored by reconnecting      *)
(* under the Secret's key stays readable for every pod that has the key.   *)
(***************************************************************************)
EXTENDS Startup, TLAPS

Phase == {"absent", "waiting", "bootstrap", "probe", "connect", "serving"}
Column == {"access", "refresh"}

\* Who starts has the Secret's password, who has bootstrapped has set it, and a
\* newest pod that serves has it too as long as another pod might still set it.
LoginInv ==
    ~straddled =>
        /\ \A p \in Pod : Starting(p) => env[p].db = secret.db
        /\ \A p \in Pod : phase[p] \in {"probe", "connect"} => role = secret.db
        /\ ServingPodCanLogIn
        /\ phase[newest] = "serving" /\ (\E p \in Pod \ {newest} : phase[p] # "absent")
             => env[newest].db = secret.db

\* Once the user has reconnected, both columns are sealed with the Secret's key, and
\* so will be what the refreshes that are under way store.
HealedInv ==
    reconnected =>
        /\ \A c \in Column : row[c] = secret.key
        /\ \A q \in refreshing : HasKey(q)

LEMMA NoSecretIsNone == NoSecret \notin Secret
  BY StartupAssumption DEF Secret, NoSecret

LEMMA InitTyped == Init => TypeOK
<1> SUFFICES ASSUME Init PROVE TypeOK
  OBVIOUS
<1>1. \A p \in Pod : env[p] = NoSecret /\ phase[p] \in {"absent", "waiting"}
  BY DEF Init
<1>2. \A p \in Pod : env[p] \in Secret <=> Starting(p) \/ phase[p] = "serving"
  BY <1>1, NoSecretIsNone DEF Starting
<1>3. QED
  BY <1>2 DEF Init, TypeOK

-----------------------------------------------------------------------------
(* Type correctness.                                                       *)

\* Nothing but p's own phase and what p holds changes.
LEMMA PodStepTyped ==
  ASSUME TypeOK, NEW p \in Pod, NEW ph \in Phase,
         phase' = [phase EXCEPT ![p] = ph],
         doomed' \in SUBSET doomed, ph = "absent" => p \notin doomed',
         NEW e \in Secret \cup {NoSecret}, env' = [env EXCEPT ![p] = e],
         e \in Secret <=> ph \in {"bootstrap", "probe", "connect", "serving"},
         pool' \in SUBSET (pool \cup {p}), p \in pool' => ph = "serving",
         role' \in Db \cup {None}, newest' \in Pod,
         refreshing' \in SUBSET refreshing, ph # "serving" => p \notin refreshing',
         UNCHANGED <<secret, row, reconnected>>, straddled' \in BOOLEAN
  PROVE  TypeOK'
<1>1. /\ phase' \in [Pod -> Phase] /\ phase'[p] = ph
      /\ env' \in [Pod -> Secret \cup {NoSecret}] /\ env'[p] = e
      /\ \A q \in Pod \ {p} : phase'[q] = phase[q] /\ env'[q] = env[q]
  BY DEF TypeOK, Phase
<1>2. doomed' \in SUBSET {q \in Pod : phase'[q] # "absent"}
  BY <1>1 DEF TypeOK
<1>3. \A q \in Pod : env'[q] \in Secret <=> Starting(q)' \/ phase'[q] = "serving"
  BY <1>1 DEF TypeOK, Starting
<1>4. pool' \in SUBSET {q \in Pod : phase'[q] = "serving"}
  BY <1>1 DEF TypeOK
<1>5. refreshing' \in SUBSET {q \in Pod : phase'[q] = "serving"}
  BY <1>1 DEF TypeOK
<1>6. QED
  BY <1>1, <1>2, <1>3, <1>4, <1>5 DEF TypeOK, Phase

LEMMA StraddledTyped == Straddles => straddled' \in BOOLEAN
  BY DEF Straddles

LEMMA SealedTyped ==
  ASSUME TypeOK, NEW p \in Pod, phase[p] = "serving", NEW w \in BOOLEAN
  PROVE  Sealed(p, w) \in [Column -> Key \cup {None}]
<1>1. env[p].key \in Key /\ row["refresh"] \in Key \cup {None}
  BY DEF TypeOK, Secret
<1>2. QED
  BY <1>1 DEF Sealed, Column

LEMMA NextTyped == TypeOK /\ [Next]_vars => TypeOK'
<1> SUFFICES ASSUME TypeOK, [Next]_vars PROVE TypeOK'
  OBVIOUS
<1>1. CASE UNCHANGED vars
  BY <1>1 DEF vars, rowVars, TypeOK, Starting
<1> SUFFICES ASSUME Next PROVE TypeOK'
  BY <1>1
<1> USE StraddledTyped DEF Next, rowVars
<1>2. CASE Rotate
  BY <1>2 DEF Rotate, TypeOK, Secret, Starting
<1>3. ASSUME NEW p \in Pod, Rollout(p) PROVE TypeOK'
  <2>1. phase[p] = "absent" /\ env[p] = NoSecret /\ env' = [env EXCEPT ![p] = NoSecret]
    BY <1>3 DEF Rollout, TypeOK, Starting
  <2>2. p \notin doomed /\ p \notin pool /\ p \notin refreshing
    BY <2>1 DEF TypeOK
  <2>3. QED
    BY <1>3, <2>1, <2>2, NoSecretIsNone, PodStepTyped DEF Rollout, Becomes, Phase, TypeOK
<1>4. ASSUME NEW p \in Pod, Ends(p, "waiting"), 
             UNCHANGED <<secret, role, newest, doomed, row, reconnected>>
      PROVE  TypeOK'
  BY <1>4, NoSecretIsNone, PodStepTyped DEF Ends, Becomes, Phase, TypeOK
<1>5. ASSUME NEW p \in Pod, Kill(p) PROVE TypeOK'
  BY <1>5, NoSecretIsNone, PodStepTyped DEF Kill, Ends, Becomes, Phase, TypeOK
<1>6. ASSUME NEW p \in Pod, Delete(p) PROVE TypeOK'
  BY <1>6 DEF Delete, TypeOK, Starting
<1>7. ASSUME NEW p \in Pod, ContainerStart(p) PROVE TypeOK'
  <2>1. p \notin pool /\ p \notin refreshing
    BY <1>7 DEF ContainerStart, TypeOK
  <2>2. QED
    BY <1>7, <2>1, PodStepTyped DEF ContainerStart, Becomes, Phase, TypeOK
<1>8. ASSUME NEW p \in Pod, Starting(p), NEW ph \in {"probe", "connect", "serving"}, Becomes(p, ph),
             pool' \in SUBSET (pool \cup {p}), p \in pool' => ph = "serving",
             role' \in Db \cup {None}, UNCHANGED <<secret, newest, doomed, env, rowVars>>
      PROVE  TypeOK'
  <2>1. env[p] \in Secret /\ env' = [env EXCEPT ![p] = env[p]]
    BY <1>8 DEF TypeOK
  <2>2. phase[p] # "absent" /\ ph # "absent" /\ p \notin refreshing
    BY <1>8 DEF TypeOK, Starting
  <2>3. QED
    BY <1>8, <2>1, <2>2, PodStepTyped DEF Becomes, Phase, TypeOK
<1>9. ASSUME NEW p \in Pod, Bootstrap(p) PROVE TypeOK'
  <2>1. Starting(p) /\ env[p].db \in Db /\ p \notin pool
    BY <1>9 DEF Bootstrap, TypeOK, Starting, Secret
  <2>2. QED
    BY <1>8, <1>9, <2>1 DEF Bootstrap
<1>10. ASSUME NEW p \in Pod, Handshake(p) PROVE TypeOK'
  <2>1. Starting(p) /\ p \notin pool
    BY <1>10 DEF Handshake, TypeOK, Starting
  <2>2. role \in Db \cup {None}
    BY DEF TypeOK
  <2>3. QED
    BY <1>4, <1>8, <1>10, <2>1, <2>2 DEF Handshake
<1>11. ASSUME NEW p \in Pod, Recycle(p) \/ Acquire(p) PROVE TypeOK'
  BY <1>11 DEF Recycle, Acquire, TypeOK, Starting
<1>12. ASSUME NEW p \in Pod, p \in pool, NEW w \in BOOLEAN, row' = Sealed(p, w),
              refreshing' \in SUBSET refreshing, reconnected' \in BOOLEAN,
              UNCHANGED <<secret, role, newest, phase, doomed, env, pool>>
       PROVE  TypeOK'
  <2>1. row' \in [Column -> Key \cup {None}]
    BY <1>12, SealedTyped DEF TypeOK
  <2>2. QED
    BY <1>12, <2>1 DEF TypeOK, Starting, Column
<1>13. ASSUME NEW p \in Pod, Crash(p) PROVE TypeOK'
  BY <1>4, <1>13 DEF Crash
<1>14. ASSUME NEW p \in Pod, NEW w \in BOOLEAN, Consent(p, w) PROVE TypeOK'
  BY <1>12, <1>14 DEF Consent, TypeOK
<1>15. ASSUME NEW p \in Pod, RefreshStore(p) PROVE TypeOK'
  BY <1>12, <1>15 DEF RefreshStore, TypeOK
<1>16. ASSUME NEW p \in Pod, RefreshRead(p) \/ RefreshFails(p) PROVE TypeOK'
  BY <1>16 DEF RefreshRead, RefreshFails, TypeOK, Starting
<1>17. QED
  BY <1>2, <1>3, <1>5, <1>6, <1>7, <1>9, <1>10, <1>11, <1>13, <1>14, <1>15, <1>16
     DEF Step, Disturbance, Start

-----------------------------------------------------------------------------
(* The password.                                                           *)

\* When the newest pod does not serve and nobody starts, nothing is promised.
LEMMA CleanIsEasy == Clean' => LoginInv'
  BY DEF Clean, LoginInv, ServingPodCanLogIn, Starting

\* A step after which nobody starts who did not, and nobody else serves.
LEMMA CalmStep ==
  ASSUME TypeOK, LoginInv, ~straddled, UNCHANGED <<secret, role, newest>>,
         \A p \in Pod : /\ phase'[p] \in {phase[p], "absent", "waiting"}
                        /\ phase'[p] \in {"absent", "waiting"} \/ env'[p] = env[p]
                        /\ p # newest /\ phase'[p] # "absent" => phase[p] # "absent"
  PROVE  LoginInv'
<1>1. newest \in Pod
  BY DEF TypeOK
<1>2. QED
  BY <1>1 DEF LoginInv, ServingPodCanLogIn, CanLogIn, Starting

LEMMA LoginNext == TypeOK /\ LoginInv /\ [Next]_vars => LoginInv'
<1> SUFFICES ASSUME TypeOK, LoginInv, [Next]_vars, ~straddled', ~Clean' PROVE LoginInv'
  BY CleanIsEasy DEF LoginInv
<1>1. CASE UNCHANGED vars
  BY <1>1 DEF vars, LoginInv, ServingPodCanLogIn, CanLogIn, Starting
<1> SUFFICES ASSUME Next PROVE LoginInv'
  BY <1>1
<1>2. ~straddled /\ (secret'.db = secret.db \/ Settled)
  BY DEF Next, Straddles
<1>3. newest \in Pod /\ phase \in [Pod -> Phase] /\ env \in [Pod -> Secret \cup {NoSecret}]
  BY DEF TypeOK, Phase
<1>4. CASE Rotate
  <2>1. CASE secret'.db = secret.db
    BY <1>2, <1>4, <2>1 DEF Rotate, LoginInv, ServingPodCanLogIn, CanLogIn, Starting
  <2>2. CASE Settled
    <3>1. \A p \in Pod : ~Starting(p)' /\ (p # newest => phase'[p] = "absent")
      BY <1>4, <2>2 DEF Rotate, Settled, Starting
    <3>2. ServingPodCanLogIn'
      BY <1>2, <1>4 DEF Rotate, LoginInv, ServingPodCanLogIn, CanLogIn
    <3>3. UNCHANGED newest
      BY <1>4 DEF Rotate
    <3>4. QED
      BY <3>1, <3>2, <3>3 DEF LoginInv, Starting
  <2>3. QED
    BY <1>2, <2>1, <2>2
<1>5. ASSUME NEW p \in Pod, Rollout(p) PROVE LoginInv'
  <2>1. phase'[newest'] = "waiting"
    BY <1>3, <1>5 DEF Rollout, Becomes
  <2>2. UNCHANGED <<secret, role, env>> /\ \A q \in Pod : q # p => phase'[q] = phase[q]
    BY <1>3, <1>5 DEF Rollout, Becomes
  <2>3. newest' = p
    BY <1>5 DEF Rollout
  <2>4. QED
    BY <1>2, <2>1, <2>2, <2>3 DEF LoginInv, ServingPodCanLogIn, Starting
<1>6. ASSUME NEW p \in Pod, NEW ph \in {"absent", "waiting"}, Ends(p, ph), phase[p] # "absent",
             UNCHANGED <<secret, role, newest>>
      PROVE  LoginInv'
  <2>1. phase'[p] = ph /\ \A q \in Pod : q # p => phase'[q] = phase[q] /\ env'[q] = env[q]
    BY <1>3, <1>6 DEF Ends, Becomes
  <2>2. QED
    BY <1>2, <1>6, <2>1, CalmStep
<1>7. ASSUME NEW p \in Pod, Crash(p) \/ Kill(p) PROVE LoginInv'
  <2>1. phase[p] # "absent"
    BY <1>7 DEF Crash, Kill, TypeOK
  <2>2. QED
    BY <1>6, <1>7, <2>1 DEF Crash, Kill
<1>8. ASSUME UNCHANGED <<secret, role, newest, phase, env>> PROVE LoginInv'
  BY <1>2, <1>8 DEF LoginInv, ServingPodCanLogIn, CanLogIn, Starting
<1>9. ASSUME NEW p \in Pod, ContainerStart(p) PROVE LoginInv'
  <2>1. /\ phase[p] = "waiting" /\ phase'[p] = "bootstrap" /\ env'[p] = secret
        /\ \A q \in Pod : q # p => phase'[q] = phase[q] /\ env'[q] = env[q]
        /\ UNCHANGED <<secret, role, newest>>
    BY <1>3, <1>9 DEF ContainerStart, Becomes
  <2>2. QED
    BY <1>2, <1>3, <2>1 DEF LoginInv, ServingPodCanLogIn, CanLogIn, Starting
<1>10. ASSUME NEW p \in Pod, Bootstrap(p) PROVE LoginInv'
  <2>1. /\ Starting(p) /\ phase[p] = "bootstrap" /\ phase'[p] = "probe" /\ role' = env[p].db
        /\ \A q \in Pod : q # p => phase'[q] = phase[q]
        /\ UNCHANGED <<secret, env, newest>>
    BY <1>3, <1>10 DEF Bootstrap, Becomes, Starting
  <2>2. role' = secret.db
    BY <1>2, <2>1 DEF LoginInv
  <2>3. phase'[newest] = "serving" => env[newest].db = secret.db
    BY <1>2, <1>3, <2>1 DEF LoginInv
  <2>4. QED
    BY <1>2, <1>3, <2>1, <2>2, <2>3 DEF LoginInv, ServingPodCanLogIn, CanLogIn, Starting
<1>11. ASSUME NEW p \in Pod, Handshake(p) PROVE LoginInv'
  <2>1. Starting(p) /\ phase[p] # "absent"
    BY <1>11 DEF Handshake, Starting
  <2>2. ASSUME CanLogIn(p), NEW ph \in {"connect", "serving"}, Becomes(p, ph),
               phase[p] \in {"probe", "connect"}, UNCHANGED <<secret, role, newest, env>>
        PROVE  LoginInv'
    <3>1. phase'[p] = ph /\ \A q \in Pod : q # p => phase'[q] = phase[q]
      BY <1>3, <2>2 DEF Becomes
    <3>2. QED
      BY <1>2, <1>3, <2>1, <2>2, <3>1 DEF LoginInv, ServingPodCanLogIn, CanLogIn, Starting
  <2>3. QED
    BY <1>6, <1>11, <2>1, <2>2 DEF Handshake
<1>12. QED
  BY <1>4, <1>5, <1>7, <1>8, <1>9, <1>10, <1>11
     DEF Next, Step, Disturbance, Start, Delete, Recycle, Acquire, Consent, RefreshRead,
         RefreshStore, RefreshFails

-----------------------------------------------------------------------------
(* The key.                                                                *)

\* Who holds the key that sealed the row keeps it while it serves.
LEMMA HealedKept ==
  ASSUME TypeOK, HealedInv, reconnected' => reconnected, secret'.key = secret.key,
         UNCHANGED row, refreshing' \in SUBSET refreshing,
         \A p \in refreshing' : env'[p] = env[p]
  PROVE  HealedInv'
  BY DEF HealedInv, HasKey

\* What a pod with the key stores over a row under that key is under it too.
LEMMA SealedUnderKey ==
  ASSUME NEW p \in Pod, NEW w \in BOOLEAN, HasKey(p), row' = Sealed(p, w),
         w \/ row["refresh"] = secret.key
  PROVE  \A c \in Column : row'[c] = secret.key
  BY DEF HasKey, Sealed, Column

LEMMA HealedNext == TypeOK /\ HealedInv /\ [Next]_vars => HealedInv'
<1> SUFFICES ASSUME TypeOK, HealedInv, [Next]_vars PROVE HealedInv'
  OBVIOUS
<1>1. CASE UNCHANGED vars
  BY <1>1, HealedKept DEF vars, rowVars
<1> SUFFICES ASSUME Next PROVE HealedInv'
  BY <1>1
<1> USE DEF rowVars
<1>2. CASE Rotate
  <2>1. CASE secret'.key = secret.key
    BY <1>2, <2>1, HealedKept DEF Rotate
  <2>2. CASE secret'.key # secret.key
    BY <1>2, <2>2 DEF Rotate, HealedInv
  <2>3. QED
    BY <2>1, <2>2
<1>3. ASSUME NEW p \in Pod, NEW ph \in Phase, Ends(p, ph), UNCHANGED <<secret, row, reconnected>>
      PROVE  HealedInv'
  BY <1>3, HealedKept DEF Ends, TypeOK
<1>4. ASSUME NEW p \in Pod, ContainerStart(p) PROVE HealedInv'
  <2>1. p \notin refreshing
    BY <1>4 DEF ContainerStart, TypeOK
  <2>2. QED
    BY <1>4, <2>1, HealedKept DEF ContainerStart, TypeOK
<1>5. ASSUME UNCHANGED <<secret, env, rowVars>> PROVE HealedInv'
  BY <1>5, HealedKept
<1>6. ASSUME NEW p \in Pod, Crash(p) \/ Kill(p) \/ Handshake(p) PROVE HealedInv'
  BY <1>3, <1>5, <1>6 DEF Crash, Kill, Handshake, Phase
<1>7. ASSUME NEW p \in Pod, NEW w \in BOOLEAN, Consent(p, w) PROVE HealedInv'
  <2> SUFFICES ASSUME reconnected' PROVE HealedInv'
    BY DEF HealedInv
  <2>1. HasKey(p) /\ (\A q \in refreshing : HasKey(q)) /\ (w \/ row["refresh"] = secret.key)
    BY <1>7 DEF Consent, HealedInv, Column
  <2>2. \A c \in Column : row'[c] = secret.key
    BY <1>7, <2>1, SealedUnderKey DEF Consent
  <2>3. QED
    BY <1>7, <2>1, <2>2 DEF Consent, HealedInv, HasKey
<1>8. ASSUME NEW p \in Pod, RefreshRead(p) PROVE HealedInv'
  <2> SUFFICES ASSUME reconnected' PROVE HealedInv'
    BY DEF HealedInv
  <2>1. reconnected /\ row["access"] = secret.key /\ secret.key # None
    BY <1>8, StartupAssumption DEF RefreshRead, HealedInv, Column, TypeOK, Secret
  <2>2. HasKey(p)
    BY <1>8, <2>1 DEF RefreshRead, Readable, HasKey, TypeOK
  <2>3. QED
    BY <1>8, <2>1, <2>2 DEF RefreshRead, HealedInv, HasKey
<1>9. ASSUME NEW p \in Pod, RefreshStore(p) PROVE HealedInv'
  <2> SUFFICES ASSUME reconnected' PROVE HealedInv'
    BY DEF HealedInv
  <2>1. /\ HasKey(p) /\ row["refresh"] = secret.key
        /\ \A q \in refreshing' : HasKey(q)
    BY <1>9 DEF RefreshStore, HealedInv, Column
  <2>2. PICK w \in BOOLEAN : row' = Sealed(p, w)
    BY <1>9 DEF RefreshStore
  <2>3. \A c \in Column : row'[c] = secret.key
    BY <2>1, <2>2, SealedUnderKey
  <2>4. QED
    BY <1>9, <2>1, <2>3 DEF RefreshStore, HealedInv, HasKey
<1>10. ASSUME NEW p \in Pod, RefreshFails(p) PROVE HealedInv'
  BY <1>10, HealedKept DEF RefreshFails
<1>11. QED
  BY <1>2, <1>4, <1>5, <1>6, <1>7, <1>8, <1>9, <1>10
     DEF Next, Step, Disturbance, Start, Rollout, Delete, Bootstrap, Recycle, Acquire

-----------------------------------------------------------------------------
(* The theorems.                                                           *)

\* Every pod that runs has read the Secret, and only pods that serve have a pool.
THEOREM StartupTypeCorrect == Spec => []TypeOK
  BY InitTyped, NextTyped, PTL DEF Spec

\* However many pods of however many rollouts overlap, crash and restart, and
\* whatever was rotated before: if db_url did not change in the middle of it, the
\* newest pod's password is the role's once it serves (store.rs, bootstrap_role).
THEOREM NewestPodCanLogIn == Spec => []ServingPodCanLogIn
<1>1. Init => LoginInv
  BY DEF Init, LoginInv, ServingPodCanLogIn, Starting
<1>2. LoginInv => ServingPodCanLogIn
  BY DEF LoginInv, ServingPodCanLogIn
<1>3. QED
  BY <1>1, <1>2, LoginNext, StartupTypeCorrect, PTL DEF Spec

\* After one reconnection under a new encryption_key, with no refresh under an older
\* key in flight, what is stored stays readable for every pod that has the key, for
\* any number of pods, keys, refreshes and rollouts, until the key changes again or
\* the user connects through a pod without it (store.rs, upsert and get; refresh.rs,
\* refresh_unlocked).
THEOREM ReconnectionHeals == Spec => []ReconnectHeals
<1>1. Init => HealedInv
  BY DEF Init, HealedInv
<1>2. TypeOK /\ HealedInv => ReconnectHeals
  BY DEF HealedInv, ReconnectHeals, HasKey, Readable, Column, TypeOK
<1>3. QED
  BY <1>1, <1>2, HealedNext, StartupTypeCorrect, PTL DEF Spec
=============================================================================
