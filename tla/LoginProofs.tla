---------------------------- MODULE LoginProofs ----------------------------
(***************************************************************************)
(* Theorems about GatewayLogin, for any number of sessions, tokens and     *)
(* items, and any faults.                                                  *)
(***************************************************************************)
EXTENDS GatewayLogin, SequenceTheorems, TLAPS

\* Every login has issued a token, and what is about to be written is one.
CountInv ==
    /\ logins <= Len(family)
    /\ \A s \in Session : pc[s] = "write" => result[s] # Nothing

\* A session that nothing has disturbed knows the items as they are, and what it
\* has received is still valid.
AloneInv(s) ==
    alone[s] =>
        /\ pc[s] \notin {"idle", "get"} => (existing[s] <=> Len(items) = 1)
        /\ pc[s] = "refresh" => existing[s] /\ stored[s] = items[1]
        /\ pc[s] \in {"check", "write"} => result[s] \in live

\* What a session leaves behind for the next one, and finds.
Orderly ==
    \/ Len(items) = 0 /\ logins = 0
    \/ Len(items) = 1 /\ items[1] \in live /\ logins = 1

QuietInv ==
    quiet =>
        /\ Len(items) <= 1 /\ logins <= 1
        /\ \A s, u \in Session : s # u => pc[s] = "idle" \/ pc[u] = "idle"
        /\ \A s \in Session : pc[s] # "idle" => alone[s]
        /\ \A s \in Session : pc[s] = "login" => Len(items) = 0
        /\ \A s \in Session : pc[s] \in {"check", "write"} => logins = 1
        /\ (\A s \in Session : pc[s] \notin {"check", "write"}) => Orderly

Inv ==
    /\ CountInv
    /\ \A s \in Session : AloneInv(s)
    /\ QuietInv

-----------------------------------------------------------------------------
(* Type correctness.                                                       *)

LEMMA Typed ==
  ASSUME TypeOK
  PROVE  /\ Len(family) \in Nat /\ Len(items) \in Nat /\ logins \in Nat /\ MaxToken \in Nat
         /\ Nothing \notin Issued
         /\ \A i \in 1 .. Len(items) : items[i] \in Issued \cup {Nothing}
         /\ DOMAIN items = 1 .. Len(items)
         /\ \A k \in Issued : family[k] \in 1 .. MaxToken
  BY LoginAssumption DEF TypeOK, Issued, Nothing

\* Auth0 issues a token: it is new, and the tokens there were are still there.
LEMMA IssueTyped ==
  ASSUME TypeOK, NEW f \in 1 .. MaxToken, Issue(f)
  PROVE  /\ family' \in Seq(1 .. MaxToken) /\ Len(family') = Len(family) + 1
         /\ Len(family') <= MaxToken
         /\ Issued \subseteq Issued' /\ Len(family') \in Issued' /\ Len(family') \notin Issued
<1>1. family \in Seq(1 .. MaxToken) /\ Len(family) \in Nat /\ Len(family) < MaxToken
  BY Typed DEF TypeOK, Issue
<1>2. family' \in Seq(1 .. MaxToken) /\ Len(family') = Len(family) + 1
  BY <1>1, AppendProperties DEF Issue
<1>3. QED
  BY <1>1, <1>2, LoginAssumption DEF Issued

\* Nothing that was issued ceases to be, so what is left alone keeps its type.
LEMMA UnchangedTyped ==
  ASSUME TypeOK, Issued \subseteq Issued'
  PROVE  /\ items \in Seq(Issued' \cup {Nothing})
         /\ live \subseteq Issued' /\ spent \subseteq Issued'
         /\ stored \in [Session -> Issued' \cup {Nothing}]
         /\ result \in [Session -> Issued' \cup {Nothing}]
<1>1. items \in Seq(Issued' \cup {Nothing})
  <2>1. items \in Seq(Issued \cup {Nothing}) /\ Issued \cup {Nothing} \subseteq Issued' \cup {Nothing}
    BY DEF TypeOK
  <2>2. QED
    BY <2>1, SeqMonotonic
<1>2. QED
  BY <1>1 DEF TypeOK

LEMMA ObserveTyped ==
  ASSUME NEW s \in Session, NEW b \in BOOLEAN, Observe(s, b), TypeOK
  PROVE  alone' \in [Session -> BOOLEAN] /\ quiet' \in BOOLEAN
<1>1. alone' \in [Session -> BOOLEAN]
  <2>1. \A u \in Session : alone[u] \in BOOLEAN
    BY DEF TypeOK
  <2>2. \A u \in Session : (IF u # s THEN alone[u] /\ pc[u] = "idle"
                            ELSE ~b /\ (pc[s] = "idle" \/ alone[s])) \in BOOLEAN
    BY <2>1
  <2>3. QED
    BY <2>2 DEF Observe
<1>2. quiet' \in BOOLEAN
  BY DEF Observe, TypeOK
<1>3. QED
  BY <1>1, <1>2

\* The variables of a shell that ends.
LEMMA ExitTyped ==
  ASSUME TypeOK, NEW s \in Session, Exit(s), UNCHANGED family
  PROVE  /\ pc' \in [Session -> {"idle", "get", "refresh", "login", "check", "write"}]
         /\ existing' \in [Session -> BOOLEAN]
         /\ stored' \in [Session -> Issued' \cup {Nothing}]
         /\ result' \in [Session -> Issued' \cup {Nothing}]
         /\ \A u \in Session : pc'[u] = "refresh" => stored'[u] # Nothing
<1>1. Issued' = Issued
  BY DEF Issued
<1>2. QED
  BY <1>1 DEF Exit, Goto, TypeOK

\* What a session writes is the item it has edited, or one more.
LEMMA SaveTyped ==
  ASSUME TypeOK, NEW s \in Session, Save(s), UNCHANGED family
  PROVE  items' \in Seq(Issued' \cup {Nothing}) /\ Len(items') <= MaxItem
<1>1. Issued' = Issued /\ result[s] \in Issued \cup {Nothing}
  BY DEF Issued, TypeOK
<1>2. CASE items' = <<result[s]>> /\ Len(items) = 1
  BY <1>1, <1>2 DEF TypeOK
<1>3. CASE items' = Append(items, result[s]) /\ Len(items) < MaxItem
  <2>1. items' \in Seq(Issued \cup {Nothing}) /\ Len(items') = Len(items) + 1
    BY <1>1, <1>3, AppendProperties DEF TypeOK
  <2>2. QED
    BY <1>1, <1>3, <2>1, Typed, LoginAssumption
<1>4. QED
  BY <1>2, <1>3 DEF Save, Template

LEMMA InitTyped == Init => TypeOK
<1> SUFFICES ASSUME Init PROVE TypeOK
  OBVIOUS
<1>1. items \in Seq(Issued \cup {Nothing}) /\ Len(items) = 0
  BY DEF Init
<1>2. family \in Seq(1 .. MaxToken) /\ Len(family) = 0
  BY DEF Init
<1>3. QED
  BY <1>1, <1>2, LoginAssumption DEF Init, TypeOK

LEMMA SessionTyped ==
  ASSUME TypeOK, CountInv, NEW s \in Session,
         \/ Start(s) \/ Get(s) \/ Rotate(s) \/ Refuse(s) \/ FullLogin(s)
         \/ Check(s) \/ Write(s) \/ WriteFails(s) \/ Kill(s)
  PROVE  TypeOK'
<1>1. CASE Start(s)
  <2>1. Issued' = Issued
    BY <1>1 DEF Start, authVars, Issued
  <2>2. alone' \in [Session -> BOOLEAN] /\ quiet' \in BOOLEAN
    BY <1>1, ObserveTyped DEF Start
  <2>3. QED
    BY <1>1, <2>1, <2>2 DEF Start, Goto, authVars, TypeOK
<1>2. CASE Get(s)
  <2>1. PICK fails \in BOOLEAN :
          LET found == Len(items) = 1 /\ ~fails IN
          /\ existing' = [existing EXCEPT ![s] = found]
          /\ stored' = [stored EXCEPT ![s] = IF found THEN items[1] ELSE Nothing]
          /\ Goto(s, IF found /\ items[1] # Nothing THEN "refresh" ELSE "login")
          /\ Observe(s, fails)
    BY <1>2 DEF Get
  <2> DEFINE found == Len(items) = 1 /\ ~fails
             k == IF found THEN items[1] ELSE Nothing
             l == IF found /\ items[1] # Nothing THEN "refresh" ELSE "login"
  <2>2. /\ k \in Issued \cup {Nothing} /\ (l = "refresh" => k # Nothing)
        /\ l \in {"refresh", "login"}
    BY Typed
  <2>3. existing' = [existing EXCEPT ![s] = found] /\ stored' = [stored EXCEPT ![s] = k]
        /\ pc' = [pc EXCEPT ![s] = l]
    BY <2>1 DEF Goto
  <2>4. found \in BOOLEAN
    OBVIOUS
  <2> HIDE DEF found, k, l
  <2>5. UNCHANGED <<items, family, live, spent, logins, result>> /\ Issued' = Issued
    BY <1>2 DEF Get, authVars, Issued
  <2>6. alone' \in [Session -> BOOLEAN] /\ quiet' \in BOOLEAN
    BY <2>1, ObserveTyped
  <2>7. existing' \in [Session -> BOOLEAN]
    BY <2>3, <2>4 DEF TypeOK
  <2>8. /\ stored' \in [Session -> Issued \cup {Nothing}]
        /\ pc' \in [Session -> {"idle", "get", "refresh", "login", "check", "write"}]
        /\ \A u \in Session : pc'[u] = "refresh" => stored'[u] # Nothing
    BY <2>2, <2>3 DEF TypeOK
  <2>9. QED
    BY <2>5, <2>6, <2>7, <2>8 DEF TypeOK
<1>3. CASE Rotate(s)
  <2>1. stored[s] \in Issued /\ family[stored[s]] \in 1 .. MaxToken
    BY <1>3, Typed DEF Rotate, TypeOK
  <2>2. /\ family' \in Seq(1 .. MaxToken) /\ Len(family') <= MaxToken
        /\ Issued \subseteq Issued' /\ Len(family') \in Issued'
    BY <1>3, <2>1, IssueTyped DEF Rotate
  <2>3. alone' \in [Session -> BOOLEAN] /\ quiet' \in BOOLEAN
    BY <1>3, ObserveTyped DEF Rotate
  <2>4. live' \subseteq Issued' /\ spent' \subseteq Issued'
    BY <1>3, <2>1, <2>2 DEF Rotate, TypeOK
  <2>5. /\ pc' \in [Session -> {"idle", "get", "refresh", "login", "check", "write"}]
        /\ \A u \in Session : pc'[u] = "refresh" => stored'[u] # Nothing
        /\ result' \in [Session -> Issued' \cup {Nothing}]
    <3>1. result \in [Session -> Issued' \cup {Nothing}]
      BY <2>2, UnchangedTyped
    <3>2. result' = result \/ result' = [result EXCEPT ![s] = Len(family')]
      BY <1>3 DEF Rotate
    <3>3. result' \in [Session -> Issued' \cup {Nothing}]
      BY <2>2, <3>1, <3>2
    <3>4. (\E l \in {"check", "login"} : pc' = [pc EXCEPT ![s] = l]) /\ stored' = stored
      BY <1>3 DEF Rotate, Goto
    <3>5. QED
      BY <3>3, <3>4 DEF TypeOK
  <2>6. UNCHANGED <<items, existing, stored, logins>>
    BY <1>3 DEF Rotate
  <2>7. QED
    BY <2>2, <2>3, <2>4, <2>5, <2>6, UnchangedTyped DEF TypeOK
<1>4. CASE Refuse(s)
  <2>1. Issued' = Issued /\ live' \subseteq live
    BY <1>4 DEF Refuse, Issued
  <2>2. alone' \in [Session -> BOOLEAN] /\ quiet' \in BOOLEAN
    <3>1. (stored[s] \in live) \in BOOLEAN
      OBVIOUS
    <3>2. QED
      BY <1>4, <3>1, ObserveTyped DEF Refuse
  <2>3. QED
    BY <1>4, <2>1, <2>2 DEF Refuse, Goto, TypeOK
<1>5. CASE FullLogin(s)
  <2>1. alone' \in [Session -> BOOLEAN] /\ quiet' \in BOOLEAN
    BY <1>5, ObserveTyped DEF FullLogin
  <2>2. pc' = [pc EXCEPT ![s] = "check"] /\ UNCHANGED <<items, spent, existing, stored>>
    BY <1>5 DEF FullLogin, Goto
  <2>3. CASE /\ logins' = logins + 1 /\ Issue(logins')
             /\ live' = live \cup {Len(family')}
             /\ result' = [result EXCEPT ![s] = Len(family')]
    <3>1. logins' \in 1 .. MaxToken
      BY <2>3, Typed DEF Issue, CountInv
    <3>2. /\ family' \in Seq(1 .. MaxToken) /\ Len(family') <= MaxToken
          /\ Issued \subseteq Issued' /\ Len(family') \in Issued'
      BY <2>3, <3>1, IssueTyped
    <3>3. QED
      BY <2>1, <2>2, <2>3, <3>1, <3>2, UnchangedTyped DEF TypeOK
  <2>4. CASE UNCHANGED <<family, live, result, logins>>
    <3>1. Issued' = Issued
      BY <2>4 DEF Issued
    <3>2. QED
      BY <2>1, <2>2, <2>4, <3>1 DEF TypeOK
  <2>5. QED
    BY <1>5, <2>3, <2>4 DEF FullLogin
<1>6. CASE Check(s)
  <2>1. alone' \in [Session -> BOOLEAN] /\ quiet' \in BOOLEAN
    BY <1>6, ObserveTyped DEF Check
  <2>2. UNCHANGED <<items, family, live, spent, logins>> /\ Issued' = Issued
    BY <1>6 DEF Check, authVars, Issued
  <2>3. CASE Exit(s)
    BY <2>1, <2>2, <2>3, ExitTyped DEF TypeOK
  <2>4. CASE Goto(s, "write") /\ UNCHANGED <<existing, stored, result>>
    BY <2>1, <2>2, <2>4 DEF Goto, TypeOK
  <2>5. QED
    BY <1>6, <2>3, <2>4 DEF Check
<1>7. CASE Write(s)
  <2>1. alone' \in [Session -> BOOLEAN] /\ quiet' \in BOOLEAN
    BY <1>7, ObserveTyped DEF Write
  <2>2. UNCHANGED <<family, live, spent, logins>> /\ Issued' = Issued
    BY <1>7 DEF Write, authVars, Issued
  <2>3. QED
    BY <1>7, <2>1, <2>2, ExitTyped, SaveTyped DEF Write, TypeOK
<1>8. CASE WriteFails(s) \/ Kill(s)
  <2>1. Exit(s) /\ Observe(s, TRUE) /\ UNCHANGED <<items, family, live, spent, logins>>
    BY <1>8 DEF WriteFails, Kill, authVars
  <2>2. Issued' = Issued
    BY <2>1 DEF Issued
  <2>3. QED
    BY <2>1, <2>2, ExitTyped, ObserveTyped DEF TypeOK
<1>9. QED
  BY <1>1, <1>2, <1>3, <1>4, <1>5, <1>6, <1>7, <1>8

LEMMA LapseTyped ==
  ASSUME TypeOK, NEW k, Lapse(k)
  PROVE  TypeOK'
<1>1. Issued' = Issued
  BY DEF Lapse, Issued
<1>2. alone' \in [Session -> BOOLEAN]
  <2>1. \A s \in Session : (alone[s] /\ pc[s] = "idle") \in BOOLEAN
    OBVIOUS
  <2>2. QED
    BY <2>1 DEF Lapse
<1>3. QED
  BY <1>1, <1>2 DEF Lapse, TypeOK

-----------------------------------------------------------------------------
(* Counting: only a browser login is counted, and it issues a token.       *)

LEMMA CountNext ==
  ASSUME TypeOK, CountInv, [Next]_vars
  PROVE  CountInv'
<1>1. CASE UNCHANGED vars
  BY <1>1 DEF vars, CountInv
<1>2. ASSUME NEW s \in Session,
             \/ Start(s) \/ Get(s) \/ Rotate(s) \/ Refuse(s) \/ FullLogin(s)
             \/ Check(s) \/ Write(s) \/ WriteFails(s) \/ Kill(s)
      PROVE  CountInv'
  <2>1. logins' <= Len(family')
    <3>1. CASE UNCHANGED <<family, logins>>
      BY <3>1 DEF CountInv
    <3>2. CASE Rotate(s)
      <4>1. family[stored[s]] \in 1 .. MaxToken /\ logins' = logins
        BY <3>2, Typed DEF Rotate, TypeOK
      <4>2. Len(family') = Len(family) + 1
        BY <3>2, <4>1, IssueTyped DEF Rotate
      <4>3. QED
        BY <4>1, <4>2, Typed DEF CountInv
    <3>3. CASE logins' = logins + 1 /\ Issue(logins')
      <4>1. logins' \in 1 .. MaxToken
        BY <3>3, Typed DEF Issue, CountInv
      <4>2. Len(family') = Len(family) + 1
        BY <3>3, <4>1, IssueTyped
      <4>3. QED
        BY <3>3, <4>2, Typed DEF CountInv
    <3>4. QED
      BY <1>2, <3>1, <3>2, <3>3
      DEF Start, Get, Refuse, FullLogin, Check, Write, WriteFails, Kill, authVars
  <2>2. ASSUME NEW u \in Session, pc'[u] = "write" PROVE result'[u] # Nothing
    BY <1>2, <2>2
    DEF Start, Get, Rotate, Refuse, FullLogin, Check, Write, WriteFails, Kill, Exit, Goto, At,
        CountInv, TypeOK
  <2>3. QED
    BY <2>1, <2>2 DEF CountInv
<1>3. ASSUME NEW k \in Issued, Lapse(k) PROVE CountInv'
  BY <1>3 DEF Lapse, CountInv
<1>4. QED
  BY <1>1, <1>2, <1>3 DEF Next

-----------------------------------------------------------------------------
(* A session that is not disturbed.                                        *)

\* A step of s disturbs whoever is running beside it.
LEMMA Disturbed ==
  ASSUME TypeOK, NEW s \in Session, NEW b \in BOOLEAN, Observe(s, b),
         NEW u \in Session, u # s, pc'[u] = pc[u]
  PROVE  AloneInv(u)'
  BY DEF Observe, AloneInv

\* A session that has just begun knows nothing yet, and one with a fault is not alone.
LEMMA NotAlone ==
  ASSUME TypeOK, NEW s \in Session, NEW b \in BOOLEAN, Observe(s, b),
         b \/ pc'[s] \in {"idle", "get"}
  PROVE  AloneInv(s)'
  BY DEF Observe, AloneInv

LEMMA AloneNext ==
  ASSUME TypeOK, \A u \in Session : AloneInv(u), [Next]_vars, NEW u \in Session
  PROVE  AloneInv(u)'
<1>1. CASE UNCHANGED vars
  BY <1>1 DEF vars, AloneInv
<1>2. ASSUME NEW k \in Issued, Lapse(k) PROVE AloneInv(u)'
  BY <1>2 DEF Lapse, AloneInv
<1>3. ASSUME NEW s \in Session, u # s,
             \/ Start(s) \/ Get(s) \/ Rotate(s) \/ Refuse(s) \/ FullLogin(s)
             \/ Check(s) \/ Write(s) \/ WriteFails(s) \/ Kill(s)
      PROVE  AloneInv(u)'
  <2>1. pc'[u] = pc[u]
    BY <1>3
    DEF Start, Get, Rotate, Refuse, FullLogin, Check, Write, WriteFails, Kill, Exit, Goto, TypeOK
  <2>2. \E b \in BOOLEAN : Observe(s, b)
    <3>1. CASE Get(s)
      BY <3>1 DEF Get
    <3>2. CASE Refuse(s)
      <4>1. (stored[s] \in live) \in BOOLEAN /\ Observe(s, stored[s] \in live)
        BY <3>2 DEF Refuse
      <4>2. QED
        BY <4>1
    <3>3. CASE Start(s) \/ Rotate(s) \/ FullLogin(s) \/ Check(s) \/ Write(s)
               \/ WriteFails(s) \/ Kill(s)
      <4>1. Observe(s, TRUE) \/ Observe(s, FALSE)
        BY <3>3 DEF Start, Rotate, FullLogin, Check, Write, WriteFails, Kill
      <4>2. QED
        BY <4>1
    <3>4. QED
      BY <1>3, <3>1, <3>2, <3>3
  <2>3. QED
    BY <1>3, <2>1, <2>2, Disturbed
<1>4. CASE Start(u) \/ WriteFails(u) \/ Kill(u) \/ Write(u)
  <2>1. \E b \in BOOLEAN : Observe(u, b) /\ pc'[u] \in {"idle", "get"}
    BY <1>4 DEF Start, Write, WriteFails, Kill, Exit, Goto, TypeOK
  <2>2. QED
    BY <2>1, NotAlone
<1>5. CASE Get(u)
  <2>1. PICK fails \in BOOLEAN :
          LET found == Len(items) = 1 /\ ~fails IN
          /\ existing' = [existing EXCEPT ![u] = found]
          /\ stored' = [stored EXCEPT ![u] = IF found THEN items[1] ELSE Nothing]
          /\ Goto(u, IF found /\ items[1] # Nothing THEN "refresh" ELSE "login")
          /\ Observe(u, fails)
    BY <1>5 DEF Get
  <2>2. CASE fails
    BY <2>1, <2>2, NotAlone
  <2>3. CASE ~fails
    <3>1. /\ existing'[u] <=> Len(items) = 1
          /\ Len(items) = 1 => stored'[u] = items[1]
          /\ pc'[u] \in {"refresh", "login"} /\ (pc'[u] = "refresh" => Len(items) = 1)
      BY <2>1, <2>3 DEF Goto, TypeOK
    <3>2. items' = items
      BY <1>5 DEF Get
    <3>3. QED
      BY <3>1, <3>2 DEF AloneInv
  <2>4. QED
    BY <2>2, <2>3
<1>6. CASE Rotate(u)
  <2>1. CASE Observe(u, TRUE)
    BY <2>1, NotAlone
  <2>2. CASE /\ result' = [result EXCEPT ![u] = Len(family')]
             /\ Goto(u, "check") /\ Observe(u, FALSE)
    <3>1. alone'[u] => alone[u]
      BY <1>6, <2>2 DEF Rotate, At, Observe
    <3>2. result'[u] \in live' /\ pc'[u] = "check" /\ UNCHANGED <<items, existing>>
      BY <1>6, <2>2 DEF Rotate, Goto, TypeOK
    <3>3. QED
      BY <1>6, <3>1, <3>2 DEF Rotate, At, AloneInv
  <2>3. QED
    BY <1>6, <2>1, <2>2 DEF Rotate
<1>7. CASE Refuse(u)
  <2>1. /\ pc'[u] = "login" /\ pc[u] = "refresh" /\ UNCHANGED <<items, existing>>
        /\ alone'[u] => alone[u]
    BY <1>7 DEF Refuse, Goto, At, Observe, TypeOK
  <2>2. QED
    BY <2>1 DEF AloneInv
<1>8. CASE FullLogin(u)
  <2>1. CASE Observe(u, TRUE)
    BY <2>1, NotAlone
  <2>2. CASE /\ live' = live \cup {Len(family')}
             /\ result' = [result EXCEPT ![u] = Len(family')] /\ Observe(u, FALSE)
    <3>1. alone'[u] => alone[u]
      BY <1>8, <2>2 DEF FullLogin, At, Observe
    <3>2. result'[u] \in live' /\ pc'[u] = "check" /\ UNCHANGED <<items, existing>>
      BY <1>8, <2>2 DEF FullLogin, Goto, TypeOK
    <3>3. QED
      BY <1>8, <3>1, <3>2 DEF FullLogin, At, AloneInv
  <2>3. QED
    BY <1>8, <2>1, <2>2 DEF FullLogin
<1>9. CASE Check(u)
  <2>1. CASE Exit(u)
    <3>1. Observe(u, FALSE) /\ pc'[u] = "idle"
      BY <1>9, <2>1 DEF Check, Exit, Goto, TypeOK
    <3>2. QED
      BY <3>1, NotAlone
  <2>2. CASE Goto(u, "write") /\ UNCHANGED <<existing, stored, result>>
    <3>1. /\ pc[u] = "check" /\ pc'[u] = "write"
          /\ UNCHANGED <<items, live, existing, result>>
          /\ alone'[u] => alone[u]
      BY <1>9, <2>2 DEF Check, Goto, At, Observe, authVars, TypeOK
    <3>2. QED
      BY <3>1 DEF AloneInv
  <2>3. QED
    BY <1>9, <2>1, <2>2 DEF Check
<1>10. QED
  BY <1>1, <1>2, <1>3, <1>4, <1>5, <1>6, <1>7, <1>8, <1>9 DEF Next

\* A session that knows the items leaves one, with its token.
LEMMA SavedAlone ==
  ASSUME TypeOK, NEW s \in Session, Save(s), existing[s] <=> Len(items) = 1, Len(items) <= 1
  PROVE  Len(items') = 1 /\ items'[1] = result[s]
<1>1. CASE existing[s]
  <2>1. items' = <<result[s]>>
    BY <1>1 DEF Save, Template
  <2>2. QED
    BY <2>1
<1>2. CASE ~existing[s]
  <2>1. Len(items) = 0 /\ items' = Append(items, result[s])
    BY <1>2, Typed DEF Save, Template
  <2>2. items \in Seq(Issued \cup {Nothing}) /\ result[s] \in Issued \cup {Nothing}
    BY DEF TypeOK
  <2>3. QED
    BY <2>1, <2>2, AppendProperties
<1>3. QED
  BY <1>1, <1>2

-----------------------------------------------------------------------------
(* A history without faults or overlaps.                                   *)

\* In such a history the step of s was no fault and found everybody else idle; what
\* is left to show of QuietInv is about s.
LEMMA QuietStep ==
  ASSUME TypeOK, QuietInv, NEW s \in Session, NEW b \in BOOLEAN, Observe(s, b),
         \A u \in Session \ {s} : pc'[u] = pc[u],
         quiet', quiet /\ ~b =>
           /\ Len(items') <= 1 /\ logins' <= 1
           /\ pc'[s] = "login" => Len(items') = 0
           /\ pc'[s] \in {"check", "write"} => logins' = 1
           /\ pc'[s] \notin {"check", "write"} => Orderly'
  PROVE  QuietInv'
<1>1. quiet /\ ~b /\ \A u \in Session \ {s} : pc[u] = "idle"
  BY DEF Observe
<1>2. alone'[s]
  BY <1>1 DEF Observe, QuietInv
<1>3. QED
  BY <1>1, <1>2 DEF QuietInv

\* What quiet means for the session that runs.
LEMMA QuietSession ==
  ASSUME TypeOK, Inv, quiet, NEW s \in Session
  PROVE  /\ Len(items) <= 1 /\ logins <= 1 /\ Len(items) \in Nat
         /\ pc[s] # "idle" => alone[s] /\ AloneInv(s)
         /\ pc[s] = "login" => Len(items) = 0
         /\ pc[s] \in {"check", "write"} => logins = 1
         /\ pc[s] \notin {"idle", "check", "write"} => Orderly
  BY Typed DEF Inv, QuietInv

LEMMA QuietNext ==
  ASSUME TypeOK, Inv, [Next]_vars
  PROVE  QuietInv'
<1>0. QuietInv
  BY DEF Inv
<1>1. CASE UNCHANGED vars
  BY <1>0, <1>1 DEF vars, QuietInv, Orderly
<1>2. ASSUME NEW k \in Issued, Lapse(k) PROVE QuietInv'
  BY <1>2 DEF Lapse, QuietInv
<1>3. ASSUME NEW s \in Session,
             \/ Start(s) \/ Get(s) \/ Rotate(s) \/ Refuse(s) \/ FullLogin(s)
             \/ Check(s) \/ Write(s) \/ WriteFails(s) \/ Kill(s)
      PROVE  QuietInv'
  <2>1. \A u \in Session \ {s} : pc'[u] = pc[u]
    BY <1>3
    DEF Start, Get, Rotate, Refuse, FullLogin, Check, Write, WriteFails, Kill, Exit, Goto, TypeOK
  <2>2. SUFFICES ASSUME quiet' PROVE QuietInv'
    BY DEF QuietInv
  <2>3. CASE Start(s)
    <3>1. Observe(s, FALSE) /\ UNCHANGED <<items, live, logins>> /\ pc'[s] = "get"
      BY <2>3 DEF Start, Goto, authVars, TypeOK
    <3>2. quiet /\ \A u \in Session : pc[u] = "idle"
      BY <2>2, <2>3, <3>1 DEF Observe, Start, At
    <3>3. Orderly /\ Len(items) <= 1 /\ logins <= 1
      BY <1>0, <3>2 DEF QuietInv
    <3>4. QED
      BY <1>0, <2>1, <2>2, <3>1, <3>3, QuietStep DEF Orderly
  <2>4. CASE Get(s)
    <3>1. PICK fails \in BOOLEAN :
            LET found == Len(items) = 1 /\ ~fails IN
            /\ Goto(s, IF found /\ items[1] # Nothing THEN "refresh" ELSE "login")
            /\ Observe(s, fails)
      BY <2>4 DEF Get
    <3>2. UNCHANGED <<items, live, logins>> /\ pc[s] = "get"
      BY <2>4 DEF Get, At, authVars
    <3>3. ASSUME quiet, ~fails
          PROVE  /\ Len(items') <= 1 /\ logins' <= 1 /\ Orderly'
                 /\ pc'[s] = "login" => Len(items') = 0
                 /\ pc'[s] \in {"refresh", "login"}
      <4>1. Orderly /\ Len(items) <= 1 /\ logins <= 1
        BY <3>2, <3>3, QuietSession
      <4>2. Len(items) = 1 => items[1] # Nothing
        BY <4>1, Typed DEF Orderly, TypeOK
      <4>3. QED
        BY <3>1, <3>2, <3>3, <4>1, <4>2 DEF Orderly, Goto, TypeOK
    <3>4. QED
      BY <1>0, <2>1, <2>2, <3>1, <3>3, QuietStep
  <2>5. CASE Rotate(s)
    <3>1. CASE Observe(s, TRUE)
      BY <2>2, <3>1 DEF Observe
    <3>2. CASE Goto(s, "check") /\ Observe(s, FALSE)
      <4>1. pc'[s] = "check" /\ UNCHANGED <<items, logins>> /\ pc[s] = "refresh"
        BY <2>5, <3>2 DEF Rotate, At, Goto, TypeOK
      <4>2. ASSUME quiet PROVE Len(items') <= 1 /\ logins' = 1 /\ logins' <= 1
        <5>1. Len(items) = 1 /\ Orderly
          BY <4>1, <4>2, QuietSession DEF AloneInv
        <5>2. logins = 1
          BY <5>1 DEF Orderly
        <5>3. QED
          BY <4>1, <5>1, <5>2
      <4>3. QED
        BY <1>0, <2>1, <2>2, <3>2, <4>1, <4>2, QuietStep
    <3>3. QED
      BY <2>5, <3>1, <3>2 DEF Rotate
  <2>6. CASE Refuse(s)
    <3>1. quiet /\ stored[s] \notin live /\ pc[s] = "refresh"
      BY <2>2, <2>6 DEF Refuse, Observe, At
    <3>2. Orderly /\ existing[s] /\ stored[s] = items[1] /\ Len(items) = 1
      BY <3>1, QuietSession DEF AloneInv
    <3>3. QED
      BY <3>1, <3>2 DEF Orderly
  <2>7. CASE FullLogin(s)
    <3>1. CASE Observe(s, TRUE)
      BY <2>2, <3>1 DEF Observe
    <3>2. CASE logins' = logins + 1 /\ Observe(s, FALSE)
      <4>1. pc'[s] = "check" /\ items' = items /\ pc[s] = "login"
        BY <2>7 DEF FullLogin, At, Goto, TypeOK
      <4>2. quiet => Len(items) = 0 /\ Orderly
        BY <4>1, QuietSession
      <4>3. quiet => Len(items') <= 1 /\ logins' = 1 /\ logins' <= 1
        BY <3>2, <4>1, <4>2, Typed DEF Orderly
      <4>4. QED
        BY <1>0, <2>1, <2>2, <3>2, <4>1, <4>3, QuietStep
    <3>3. QED
      BY <2>7, <3>1, <3>2 DEF FullLogin
  <2>8. CASE Check(s)
    <3>1. /\ Observe(s, FALSE) /\ UNCHANGED <<items, live, logins>> /\ pc[s] = "check"
          /\ result[s] # Nothing => pc'[s] = "write"
      BY <2>8 DEF Check, At, Goto, authVars, TypeOK
    <3>2. quiet => result[s] # Nothing /\ Len(items) <= 1 /\ logins = 1 /\ logins <= 1
      BY <3>1, QuietSession, Typed DEF AloneInv, TypeOK
    <3>3. QED
      BY <1>0, <2>1, <2>2, <3>1, <3>2, QuietStep
  <2>9. CASE Write(s)
    <3>1. /\ Save(s) /\ Observe(s, FALSE) /\ UNCHANGED <<live, logins>> /\ pc[s] = "write"
          /\ pc'[s] = "idle"
      BY <2>9 DEF Write, Exit, At, Goto, authVars, TypeOK
    <3>2. ASSUME quiet PROVE Len(items') = 1 /\ items'[1] \in live /\ logins = 1
      <4>1. /\ existing[s] <=> Len(items) = 1
            /\ result[s] \in live /\ Len(items) <= 1 /\ logins = 1
        BY <3>1, <3>2, QuietSession DEF AloneInv
      <4>2. Len(items') = 1 /\ items'[1] = result[s]
        BY <3>1, <4>1, SavedAlone
      <4>3. QED
        BY <4>1, <4>2
    <3>3. ASSUME quiet PROVE Len(items') <= 1 /\ logins' <= 1 /\ Orderly'
      <4>1. Len(items') = 1 /\ items'[1] \in live' /\ logins' = 1
        BY <3>1, <3>2, <3>3
      <4>2. QED
        BY <4>1 DEF Orderly
    <3>4. QED
      BY <1>0, <2>1, <2>2, <3>1, <3>3, QuietStep
  <2>10. CASE WriteFails(s) \/ Kill(s)
    BY <2>2, <2>10 DEF WriteFails, Kill, Observe
  <2>11. QED
    BY <1>3, <2>3, <2>4, <2>5, <2>6, <2>7, <2>8, <2>9, <2>10
<1>4. QED
  BY <1>1, <1>2, <1>3 DEF Next

-----------------------------------------------------------------------------
LEMMA InitHolds == Init => TypeOK /\ Inv
<1> SUFFICES ASSUME Init PROVE TypeOK /\ Inv
  OBVIOUS
<1>1. Len(items) = 0 /\ Len(family) = 0 /\ logins = 0 /\ \A s \in Session : pc[s] = "idle"
  BY DEF Init
<1>2. CountInv
  BY <1>1 DEF CountInv
<1>3. \A s \in Session : AloneInv(s)
  BY <1>1 DEF AloneInv
<1>4. QuietInv
  BY <1>1 DEF QuietInv, Orderly
<1>5. QED
  BY <1>2, <1>3, <1>4, InitTyped DEF Inv

LEMMA Invariance == Spec => [](TypeOK /\ Inv)
<1>1. TypeOK /\ Inv /\ [Next]_vars => TypeOK' /\ Inv'
  <2> SUFFICES ASSUME TypeOK, Inv, [Next]_vars PROVE TypeOK' /\ Inv'
    OBVIOUS
  <2>1. TypeOK'
    <3>1. CASE UNCHANGED vars
      BY <3>1 DEF vars, authVars, TypeOK, Issued
    <3>2. CASE Next
      BY <3>2, SessionTyped, LapseTyped DEF Next, Inv
    <3>3. QED
      BY <3>1, <3>2
  <2>2. Inv'
    BY CountNext, AloneNext, QuietNext DEF Inv
  <2>3. QED
    BY <2>1, <2>2
<1>2. QED
  BY InitHolds, <1>1, PTL DEF Spec

-----------------------------------------------------------------------------
(* The theorems.                                                           *)

\* Items, tokens, shell variables and histories keep their types, whatever fails;
\* do_refresh is only ever called with a token.
THEOREM LoginTypeCorrect == Spec => []TypeOK
<1>1. TypeOK /\ Inv => TypeOK
  OBVIOUS
<1>2. QED
  BY <1>1, Invariance, PTL

\* However many sessions run one after the other, they need one browser login and
\* one item between them, as long as none fails ("On every later run it tries the
\* stored refresh token first, silently").
THEOREM OneLoginSuffices == Spec => []OneLoginIsEnough
<1>1. TypeOK /\ Inv => OneLoginIsEnough
  BY DEF Inv, QuietInv, OneLoginIsEnough
<1>2. QED
  BY <1>1, Invariance, PTL

\* However many sessions overlap, and whatever fails, an item that holds a refresh
\* token holds one from then on ("not overwriting any existing stored refresh token
\* with this").
THEOREM StoredTokenStays == Spec => TokenIsNotErased
<1>1. TypeOK /\ Inv /\ [Next]_vars =>
        [\A i \in DOMAIN items : items[i] # Nothing => items'[i] # Nothing]_vars
  <2> SUFFICES ASSUME TypeOK, Inv, Next, NEW i \in DOMAIN items, items[i] # Nothing
               PROVE  items'[i] # Nothing
    OBVIOUS
  <2>1. CASE items' = items
    BY <2>1
  <2>2. ASSUME NEW s \in Session, Write(s) PROVE items'[i] # Nothing
    <3>1. result[s] # Nothing /\ result[s] \in Issued \cup {Nothing}
      BY <2>2 DEF Write, At, Inv, CountInv, TypeOK
    <3>2. CASE Len(items) = 1 /\ items' = <<result[s]>>
      BY <3>1, <3>2, Typed
    <3>3. CASE items' = Append(items, result[s])
      <4>1. items'[i] = items[i]
        BY <3>1, <3>3, Typed, AppendProperties DEF TypeOK
      <4>2. QED
        BY <4>1
    <3>4. QED
      BY <2>2, <3>2, <3>3 DEF Write, Save, Template
  <2>3. QED
    BY <2>1, <2>2
    DEF Next, Start, Get, Rotate, Refuse, FullLogin, Check, WriteFails, Kill, Lapse
<1>2. QED
  BY <1>1, Invariance, PTL DEF Spec, TokenIsNotErased

\* Whatever happened before, a session that nothing disturbs and that finds at most
\* one item leaves that item with a valid refresh token (the `op item` commands at
\* the end of the script, after do_refresh or do_full_login).
THEOREM UndisturbedSessionsRepair == Spec => UndisturbedSessionRepairs
<1>1. TypeOK /\ Inv /\ [Next]_vars =>
        [\A s \in Session :
           pc[s] = "write" /\ pc'[s] = "idle" /\ alone'[s] /\ Len(items) <= 1
             => Len(items') = 1 /\ items'[1] \in live']_vars
  <2> SUFFICES ASSUME TypeOK, Inv, Next, NEW s \in Session,
                      pc[s] = "write", pc'[s] = "idle", alone'[s], Len(items) <= 1
               PROVE  Len(items') = 1 /\ items'[1] \in live'
    OBVIOUS
  <2>1. Write(s) \/ WriteFails(s) \/ Kill(s)
    <3>1. ASSUME NEW k, Lapse(k) PROVE FALSE
      BY <3>1 DEF Lapse
    <3>2. ASSUME NEW u \in Session, u # s,
                 \/ Start(u) \/ Get(u) \/ Rotate(u) \/ Refuse(u) \/ FullLogin(u)
                 \/ Check(u) \/ Write(u) \/ WriteFails(u) \/ Kill(u)
          PROVE  FALSE
      <4>1. \E l : pc' = [pc EXCEPT ![u] = l]
        BY <3>2 DEF Start, Get, Rotate, Refuse, FullLogin, Check, Write, WriteFails, Kill,
                    Exit, Goto
      <4>2. QED
        BY <3>2, <4>1 DEF TypeOK
    <3>3. ~(Start(s) \/ Get(s) \/ Rotate(s) \/ Refuse(s) \/ FullLogin(s) \/ Check(s))
      BY DEF Start, Get, Rotate, Refuse, FullLogin, Check, At
    <3>4. QED
      BY <3>1, <3>2, <3>3 DEF Next
  <2>2. Write(s) /\ alone[s]
    BY <2>1 DEF Write, WriteFails, Kill, Observe
  <2>3. (existing[s] <=> Len(items) = 1) /\ result[s] \in live
    BY <2>2 DEF Inv, AloneInv
  <2>4. Len(items') = 1 /\ items'[1] = result[s]
    BY <2>2, <2>3, SavedAlone DEF Write
  <2>5. live' = live
    BY <2>2 DEF Write, authVars
  <2>6. QED
    BY <2>3, <2>4, <2>5
<1>2. QED
  BY <1>1, Invariance, PTL DEF Spec, UndisturbedSessionRepairs

=============================================================================
