--------------------------- MODULE CredentialRow ---------------------------
(***************************************************************************)
(* One row of the vault's `credentials` table                              *)
(* (services/mcp-token-vault/migrations/0001_init.sql) and the two pure    *)
(* pieces of code that decide what happens to it: the upsert of store.rs   *)
(* and the staleness test of refresh.rs.                                   *)
(*                                                                         *)
(* A token is not a string here but its origin: the grant (one consent of  *)
(* the user at the provider, numbered in the order they were given) and    *)
(* the generation (how many token pairs the provider had issued for that   *)
(* grant when it issued this one).  The text of `scopes` is the number of  *)
(* the grant whose granted scopes it quotes.  Encryption is transparent:   *)
(* every column is decrypted under the one key that encrypted it.          *)
(***************************************************************************)
EXTENDS Naturals

CONSTANTS
    MaxGrant,   \* bound: consents per provider
    MaxGen      \* bound: token pairs issued per grant

ASSUME BoundsAssumption == MaxGrant \in Nat /\ MaxGen \in Nat

\* SQL NULL in a token column, `None` in Credential.
Null == [grant |-> 0, gen |-> 0]

Token == {Null} \cup [grant : 1 .. MaxGrant, gen : 1 .. MaxGen]

\* "none" stands for the absence of a row; the table's CHECK allows the others.
Kind == {"none", "oauth", "api_key"}

\* expires_at: NULL, less than REFRESH_SKEW ahead (or past), or further ahead.
Expiry == {"null", "near", "far"}

\* scopes is the grant whose scopes the column quotes, 0 for NULL.
Row == [kind : Kind, access : Token, refresh : Token,
        expires : Expiry, scopes : 0 .. MaxGrant]

NoRow == [kind |-> "none", access |-> Null, refresh |-> Null,
          expires |-> "null", scopes |-> 0]

-----------------------------------------------------------------------------
(* refresh.rs, needs_refresh: a row without expires_at always needs one.   *)
NeedsRefresh(expires) == expires # "far"

\* Mutant: COALESCE with its arguments swapped.
UpsertedOldFirst(old, new) ==
    [kind    |-> new.kind,
     access  |-> new.access,
     refresh |-> IF old.refresh = Null THEN new.refresh ELSE old.refresh,
     expires |-> new.expires,
     scopes  |-> IF old.scopes = 0 THEN new.scopes ELSE old.scopes]

\* Mutant: refresh_token_enc = EXCLUDED.refresh_token_enc.
UpsertedWithoutCoalesce(old, new) ==
    [new EXCEPT !.scopes = IF @ = 0 THEN old.scopes ELSE @]

(* store.rs, upsert: INSERT .. ON CONFLICT DO UPDATE.  kind, access token  *)
(* and expiry are replaced; a NULL refresh token or NULL scopes keep what  *)
(* the row already had (COALESCE).                                         *)
Upserted(old, new) ==
    [kind    |-> new.kind,
     access  |-> new.access,
     refresh |-> IF new.refresh = Null THEN old.refresh ELSE new.refresh,
     expires |-> new.expires,
     scopes  |-> IF new.scopes = 0 THEN old.scopes ELSE new.scopes]

=============================================================================
