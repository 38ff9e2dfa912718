-------------------------- MODULE VaultRefinement ---------------------------
(***************************************************************************)
(* TokenVault as an implementation of AtomicCredential.  The token the     *)
(* vault holds is the one in the row, except while a refresh of the row's  *)
(* own grant has received the successor and not stored it yet: then it is  *)
(* the one that task has in hand.                                          *)
(***************************************************************************)
EXTENDS TokenVault

\* The successors of p's refresh token that are about to be stored.
Carried(p) ==
    {got[t].refresh : t \in {s \in Task : /\ pc[s] = "refresh_store" /\ prov[s] = p
                                          /\ got[s].refresh # Null
                                          /\ got[s].refresh.grant = cred[p].refresh.grant}}

TheOne(S) == CHOOSE r \in S : TRUE

Held == [p \in Provider |-> IF Carried(p) = {} THEN cred[p].refresh
                            ELSE TheOne(Carried(p))]

Atomic == INSTANCE AtomicCredential WITH held <- Held

\* Without faults, the readers and writers of all processes, which interleave at every
\* await, are, as far as the provider can tell, one holder that follows each
\* rotation in the same step and never lets go of its token (refresh.rs,
\* refresh_unlocked; store.rs, upsert; oauth.rs, callback_inner; admin.rs, bootstrap).
RefinesAtomicCredential == Atomic!Spec
=============================================================================
