-------------------------- MODULE AtomicCredential --------------------------
(***************************************************************************)
(* What the vault promises about the refresh tokens it holds, without      *)
(* tasks, awaits or locks: for each provider it holds at most one, and     *)
(* when the provider replaces a token, the vault holds the new one in the  *)
(* same instant.  It may turn to a token of another consent at any time,   *)
(* as long as that token is valid, and it never gives one up for nothing.  *)
(*                                                                         *)
(* This is the promise of vault processes whose tasks run to their end.    *)
(* VaultRefinement relates TokenVault to it.                               *)
(***************************************************************************)
EXTENDS CredentialRow

CONSTANT Provider

VARIABLES
    granted,    \* granted[p]: consents given at provider p so far
    issued,     \* issued[p][g]: token pairs provider p issued for grant g
    current,    \* current[p][g]: generation of g's valid refresh token, 0 if none
    held        \* held[p]: the refresh token the vault can present to p

vars == <<granted, issued, current, held>>

Init ==
    /\ held \in [Provider -> {Null, [grant |-> 1, gen |-> 1]} \cap Token]
    /\ granted = [p \in Provider |-> held[p].grant]
    /\ issued = [p \in Provider |-> [g \in 1 .. MaxGrant |-> IF g <= granted[p] THEN 1 ELSE 0]]
    /\ current = issued

\* A consent: the next grant, with a refresh token or without.
Consent(p) ==
    /\ granted[p] < MaxGrant
    /\ granted' = [granted EXCEPT ![p] = @ + 1]
    /\ issued' = [issued EXCEPT ![p][granted[p] + 1] = 1]
    /\ \E first \in {0, 1} : current' = [current EXCEPT ![p][granted[p] + 1] = first]
    /\ UNCHANGED held

\* The vault turns to the valid refresh token of some grant.
Adopt(p) ==
    /\ \E g \in 1 .. granted[p] :
         /\ current[p][g] # 0
         /\ held' = [held EXCEPT ![p] = [grant |-> g, gen |-> current[p][g]]]
    /\ UNCHANGED <<granted, issued, current>>

\* A refresh of grant g: the provider issues the next pair.  Either it keeps the
\* refresh token, or it rotates it and whoever holds g's holds the new one.
Refresh(p, g) ==
    /\ g \in 1 .. granted[p] /\ current[p][g] # 0
    /\ issued' = [issued EXCEPT ![p][g] = @ + 1]
    /\ \/ UNCHANGED <<current, held>>
       \/ /\ current' = [current EXCEPT ![p][g] = issued'[p][g]]
          /\ held' = [held EXCEPT ![p] = IF @.grant = g
                                           THEN [grant |-> g, gen |-> issued'[p][g]] ELSE @]
    /\ UNCHANGED granted

Next ==
    \E p \in Provider :
        \/ Consent(p)
        \/ Adopt(p)
        \/ \E g \in 1 .. MaxGrant : Refresh(p, g)

Spec == Init /\ [][Next]_vars

=============================================================================
