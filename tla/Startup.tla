------------------------------- MODULE Startup -------------------------------
(***************************************************************************)
(* How vault pods come up and what they share while they do: state.rs      *)
(* (build), store.rs (bootstrap_role, connect) and crypto.rs.  Every start *)
(* sets the password of the one database role to the pod's own             *)
(* DATABASE_URL, and a pod seals what it stores with its own               *)
(* VAULT_ENCRYPTION_KEY.  Both come from a Secret that may change at any   *)
(* time and that a container reads when it starts; the Deployment          *)
(* (replicas: 1, rolling update) replaces the pod on every commit.  The    *)
(* credentials table is one row of two sealed columns here: only the key   *)
(* that sealed a column matters.                                           *)
(***************************************************************************)
EXTENDS FiniteSets

CONSTANTS
    Pod,        \* slots for pods; a slot is used again once its pod is gone
    Db,         \* values of the Secret's db_url: the role's passwords
    Key,        \* values of the Secret's encryption_key
    None        \* no value: a role or a column that does not exist, a pod not running

ASSUME StartupAssumption == None \notin Db /\ None \notin Key

Secret == [db : Db, key : Key]
NoSecret == [db |-> None, key |-> None]

VARIABLES
    secret,     \* the Secret mcp-token-vault, kept by the external-secrets operator
    role,       \* the password of the vault's database role
    newest,     \* the pod of the newest revision of the Deployment
    phase,      \* phase[p]: the await pod p is about to pass in its start, or "serving"
    doomed,     \* the pods that were told to terminate
    env,        \* env[p]: what p's container read from the Secret
    pool,       \* the pods whose pool has a live connection
    row,        \* row[c]: the key that sealed column c
    refreshing, \* the pods that have read the row and not stored the refreshed tokens yet
    straddled,  \* history: db_url changed while pods were being replaced, and the
                \* pods that started around it are not all gone
    reconnected \* history: the user has reconnected, through a pod with the Secret's
                \* key, since that key arrived, and not through another pod since

rowVars == <<row, refreshing, reconnected>>
vars == <<secret, role, newest, phase, doomed, env, pool, rowVars, straddled>>

Starting(p) == phase[p] \in {"bootstrap", "probe", "connect"}

TypeOK ==
    /\ secret \in Secret
    /\ role \in Db \cup {None}
    /\ newest \in Pod
    /\ phase \in [Pod -> {"absent", "waiting", "bootstrap", "probe", "connect", "serving"}]
    /\ doomed \in SUBSET {p \in Pod : phase[p] # "absent"}
    /\ env \in [Pod -> Secret \cup {NoSecret}]
    /\ \A p \in Pod : env[p] \in Secret <=> Starting(p) \/ phase[p] = "serving"
    /\ pool \in SUBSET {p \in Pod : phase[p] = "serving"}
    /\ row \in [{"access", "refresh"} -> Key \cup {None}]
    /\ refreshing \in SUBSET {p \in Pod : phase[p] = "serving"}
    /\ straddled \in BOOLEAN /\ reconnected \in BOOLEAN

\* The first revision is applied to a database without the role.
Init ==
    /\ secret \in Secret
    /\ role = None
    /\ newest \in Pod
    /\ phase = [p \in Pod |-> IF p = newest THEN "waiting" ELSE "absent"]
    /\ doomed = {}
    /\ env = [p \in Pod |-> NoSecret]
    /\ pool = {}
    /\ row = [c \in {"access", "refresh"} |-> None]
    /\ refreshing = {}
    /\ straddled = FALSE /\ reconnected = FALSE

-----------------------------------------------------------------------------
(* The cluster.                                                            *)

Becomes(p, ph) == phase' = [phase EXCEPT ![p] = ph]

\* p's container ends and what it held is gone.
Ends(p, ph) ==
    /\ Becomes(p, ph)
    /\ env' = [env EXCEPT ![p] = NoSecret]
    /\ pool' = pool \ {p}
    /\ refreshing' = refreshing \ {p}

\* db_url or encryption_key is replaced in 1Password and arrives.
Rotate ==
    /\ \/ \E d \in Db : secret' = [secret EXCEPT !.db = d]
       \/ \E k \in Key : secret' = [secret EXCEPT !.key = k]
    /\ reconnected' = (reconnected /\ secret'.key = secret.key)
    /\ UNCHANGED <<role, newest, phase, doomed, env, pool, row, refreshing>>

\* A commit: the pod of the new revision comes beside the others.
Rollout(p) ==
    /\ phase[p] = "absent"
    /\ newest' = p
    /\ Becomes(p, "waiting")
    /\ UNCHANGED <<secret, role, doomed, env, pool, rowVars>>

\* The Deployment scales an older pod down once the newest is available, or if
\* the older one is not.
Delete(p) ==
    /\ p # newest /\ phase[p] # "absent" /\ p \notin doomed
    /\ phase[newest] = "serving" \/ phase[p] # "serving"
    /\ doomed' = doomed \cup {p}
    /\ UNCHANGED <<secret, role, newest, phase, env, pool, rowVars>>

\* The pod is gone: at once when it serves, since shutdown waits for SIGTERM, and
\* after the grace period when it starts, since nothing handles the signal yet.
Kill(p) ==
    /\ p \in doomed
    /\ Ends(p, "absent")
    /\ doomed' = doomed \ {p}
    /\ UNCHANGED <<secret, role, newest, row, reconnected>>

\* The kubelet starts the container, or starts it again after it exited.
ContainerStart(p) ==
    /\ phase[p] = "waiting" /\ p \notin doomed
    /\ Becomes(p, "bootstrap")
    /\ env' = [env EXCEPT ![p] = secret]
    /\ UNCHANGED <<secret, role, newest, doomed, pool, rowVars>>

CanLogIn(p) == env[p].db = role

\* The process exits for another reason than a refused password: the admin
\* connection, a migration or a port in its start, a panic, a drained node.
Crash(p) ==
    /\ \/ phase[p] \in {"bootstrap", "serving"}
       \/ phase[p] \in {"probe", "connect"} /\ CanLogIn(p)
    /\ Ends(p, "waiting")
    /\ UNCHANGED <<secret, role, newest, doomed, row, reconnected>>

-----------------------------------------------------------------------------
(* The process.                                                            *)

\* Mutant: the role is created, and left alone if it exists.
BootstrapCreatesOnly(p) ==
    /\ phase[p] = "bootstrap"
    /\ role' = IF role = None THEN env[p].db ELSE role
    /\ Becomes(p, "probe")
    /\ UNCHANGED <<secret, newest, doomed, env, pool, rowVars>>

\* build, bootstrap_role: CREATE ROLE unless it exists, then ALTER ROLE.
Bootstrap(p) ==
    /\ phase[p] = "bootstrap"
    /\ role' = env[p].db
    /\ Becomes(p, "probe")
    /\ UNCHANGED <<secret, newest, doomed, env, pool, rowVars>>

\* Mutant: the probe connection is handed to the pool.
HandshakeKeepsProbe(p) ==
    /\ phase[p] \in {"probe", "connect"} /\ CanLogIn(p)
    /\ Becomes(p, IF phase[p] = "probe" THEN "connect" ELSE "serving")
    /\ pool' = pool \cup {p}
    /\ UNCHANGED <<secret, role, newest, doomed, env, rowVars>>

\* connect: one direct handshake, then the pool's; then the migrations run, the
\* listeners are bound and healthz answers.  A refused password ends the process.
Handshake(p) ==
    \/ /\ phase[p] = "probe" /\ CanLogIn(p)
       /\ Becomes(p, "connect")
       /\ UNCHANGED <<secret, role, newest, doomed, env, pool, rowVars>>
    \/ /\ phase[p] = "connect" /\ CanLogIn(p)
       /\ Becomes(p, "serving")
       /\ pool' = pool \cup {p}
       /\ UNCHANGED <<secret, role, newest, doomed, env, rowVars>>
    \/ /\ phase[p] \in {"probe", "connect"} /\ ~CanLogIn(p)
       /\ Ends(p, "waiting")
       /\ UNCHANGED <<secret, role, newest, doomed, row, reconnected>>

\* The pool loses its connections: idle, too old, or closed by the database.
Recycle(p) ==
    /\ p \in pool
    /\ pool' = pool \ {p}
    /\ UNCHANGED <<secret, role, newest, phase, doomed, env, rowVars>>

\* Mutant: a refused password is answered with another bootstrap.
AcquireBootstraps(p) ==
    /\ phase[p] = "serving" /\ p \notin pool
    /\ role' = env[p].db
    /\ pool' = pool \cup {p}
    /\ UNCHANGED <<secret, newest, phase, doomed, env, rowVars>>

\* A statement needs a connection: the pool makes one, if the password still holds.
Acquire(p) ==
    /\ phase[p] = "serving" /\ p \notin pool
    /\ CanLogIn(p)
    /\ pool' = pool \cup {p}
    /\ UNCHANGED <<secret, role, newest, phase, doomed, env, rowVars>>

-----------------------------------------------------------------------------
(* What is stored under a key.                                             *)

\* get decrypts every column that is not NULL, and any failure fails it.
Readable(p) == \A c \in DOMAIN row : row[c] \in {None, env[p].key}

\* Mutant: COALESCE with its arguments swapped.
SealedOldFirst(p, withRefresh) ==
    [access |-> env[p].key,
     refresh |-> IF row["refresh"] # None THEN row["refresh"]
                 ELSE IF withRefresh THEN env[p].key ELSE None]

\* upsert seals what it is given; the refresh token keeps its old seal if none is.
Sealed(p, withRefresh) ==
    [access |-> env[p].key,
     refresh |-> IF withRefresh THEN env[p].key ELSE row["refresh"]]

HasKey(p) == env[p].key = secret.key

\* A callback or a bootstrap stores new tokens without looking at the old.
Consent(p, withRefresh) ==
    /\ p \in pool
    /\ row' = Sealed(p, withRefresh)
    /\ reconnected' =
         (HasKey(p) /\ (reconnected \/ (withRefresh /\ \A q \in refreshing : HasKey(q))))
    /\ UNCHANGED <<secret, role, newest, phase, doomed, env, pool, refreshing>>

\* refresh, under the process's lock: the row is read, ...
RefreshRead(p) ==
    /\ p \in pool /\ p \notin refreshing
    /\ Readable(p) /\ row["refresh"] # None
    /\ refreshing' = refreshing \cup {p}
    /\ UNCHANGED <<secret, role, newest, phase, doomed, env, pool, row, reconnected>>

\* ... the provider answers, and what it answered is stored over whatever is there.
RefreshStore(p) ==
    /\ p \in refreshing /\ p \in pool
    /\ \E rotates \in BOOLEAN : row' = Sealed(p, rotates)
    /\ refreshing' = refreshing \ {p}
    /\ UNCHANGED <<secret, role, newest, phase, doomed, env, pool, reconnected>>

\* The provider or the database fails.
RefreshFails(p) ==
    /\ p \in refreshing
    /\ refreshing' = refreshing \ {p}
    /\ UNCHANGED <<secret, role, newest, phase, doomed, env, pool, row, reconnected>>

-----------------------------------------------------------------------------
\* Nothing is being replaced: one pod, and it serves.
Settled == phase[newest] = "serving" /\ \A p \in Pod \ {newest} : phase[p] = "absent"

\* Nothing has read the Secret and not served yet, and the newest pod will read it.
Clean == phase[newest] # "serving" /\ \A p \in Pod : ~Starting(p)

Straddles ==
    straddled' = (~Clean' /\ (straddled \/ (secret'.db # secret.db /\ ~Settled)))

Start(p) == ContainerStart(p) \/ Bootstrap(p) \/ Handshake(p)

Disturbance ==
    \/ Rotate
    \/ \E p \in Pod : Rollout(p) \/ Crash(p)

Step ==
    \/ Disturbance
    \/ \E p \in Pod :
          \/ Start(p)
          \/ Delete(p) \/ Kill(p)
          \/ Recycle(p) \/ Acquire(p)
          \/ \E withRefresh \in BOOLEAN : Consent(p, withRefresh)
          \/ RefreshRead(p) \/ RefreshStore(p) \/ RefreshFails(p)

Next == Step /\ Straddles

Spec == Init /\ [][Next]_vars

\* A container that may start does, its process runs on, the controllers act, and
\* run_loop asks the pool for a connection at every interval.
Fairness ==
    \A p \in Pod : /\ WF_vars(Start(p) /\ Straddles)
                   /\ WF_vars(Delete(p) /\ Straddles)
                   /\ WF_vars(Kill(p) /\ Straddles)
                   /\ WF_vars(Acquire(p) /\ Straddles)

FairSpec == Spec /\ Fairness

-----------------------------------------------------------------------------
(* Properties.                                                             *)

\* While old and new pods overlap and each sets the role's password at its start,
\* the newest pod, once it serves, can still log in -- unless db_url changed in the
\* middle of a rollout.  healthz asks no database and nobody would restart the pod
\* (store.rs, bootstrap_role; admin.rs, healthz).
ServingPodCanLogIn == ~straddled /\ phase[newest] = "serving" => CanLogIn(newest)

Up == newest \in pool

\* At last no commit, no rotation and no crash.
Calm == <>[][~Disturbance]_vars

\* After any rollouts, crashes and rotations, a pod of the newest revision serves
\* and reaches the database again and again; if a rotation fell into a rollout, the
\* next rollout or restart repairs that (state.rs, build; store.rs, bootstrap_role).
VaultComesBack == Calm => <>[]straddled \/ []<>Up

\* After a new encryption_key, one reconnection makes the row readable for good: until
\* the key changes again or the user connects through a pod that still has an older
\* one, every pod with the new key can read what is stored, whatever is refreshed,
\* rolled out or crashes meanwhile -- provided no pod with an older key was in the
\* middle of a refresh, which would seal its tokens under that key (store.rs, upsert
\* and get; crypto.rs, decrypt; refresh.rs, refresh_unlocked).
ReconnectHeals ==
    reconnected => \A p \in Pod : phase[p] = "serving" /\ HasKey(p) => Readable(p)

\* store.rs:39-40, "Runs on every startup so GitOps rotation of db_url self-heals."
SelfHeals == Calm => []<>Up
=============================================================================
