--------------------------- MODULE CredentialVault ---------------------------
(***************************************************************************)
(* One user's stored credential bundle for one provider and everything     *)
(* that reads it and writes back later: saving, connection checks,         *)
(* catalog browsing and the creation of a Foundry dataset.                 *)
(*                                                                         *)
(* The database is PostgreSQL at READ COMMITTED.  The session maps a row   *)
(* to one object: a query that finds a row the session already holds       *)
(* returns that object with the values loaded first, and a flush writes    *)
(* only the columns whose value differs from the loaded one.               *)
(***************************************************************************)
EXTENDS Integers

CONSTANTS
    Provider,     \* "databricks", "foundry" or "postgres"
    Saves, Tests, Browses, Creates,   \* requests in flight of each kind
    Identities,   \* what a bundle authenticates as (workspace, token, compute)
    MaxRev,       \* bound on the revisions of the row
    Keys,         \* number of master keys, used one after another
    MaxWraps      \* api_token_max_wraps_per_key

VARIABLES
    row,     \* the user_secrets row
    rev,     \* the last updated_at that a save wrote
    active,  \* api_token_active_key_id
    wraps,   \* api_token_key_usage: key -> wrap_count
    wrapped, \* committed encryptions under each key
    cache,   \* revisions whose catalog answers are cached
    save, test, browse, create

vars == <<row, rev, active, wraps, wrapped, cache, save, test, browse, create>>
actors == <<save, test, browse, create>>

Policies == IF Provider = "databricks" THEN {"manual", "allow_start"} ELSE {"manual"}
Bundles == [ident : Identities, policy : Policies]
NoRow == [rev |-> 0]
Unloaded == [rev |-> -1]
Idle == [at |-> "idle"]
Exists == row # NoRow

Init ==
    /\ row = NoRow /\ rev = 0 /\ cache = {}
    /\ active = 1 /\ wraps = [k \in 1..Keys |-> 0] /\ wrapped = [k \in 1..Keys |-> 0]
    /\ save = [s \in Saves |-> Idle] /\ test = [t \in Tests |-> Idle]
    /\ browse = [b \in Browses |-> Idle] /\ create = [c \in Creates |-> Idle]

-----------------------------------------------------------------------------
(* Saving.  The row lock of the user is held between Lock and the end.     *)
user_locked == \E s \in Saves : save[s].at = "locked"

\* resets_consent: a databricks bundle with another identity falls back to manual startup.
resets_consent(v, old) ==
    IF Provider = "databricks" /\ old.rev > 0 /\ old.value.ident # v.ident
    THEN [v EXCEPT !.policy = "manual"] ELSE v

store_user_credentials_if_changed(s, v) ==
    LET seen == IF Provider = "databricks" THEN row ELSE Unloaded IN
    /\ save[s].at = "idle" /\ rev < MaxRev
    /\ save' = [save EXCEPT ![s] = [at |-> "waiting", value |-> resets_consent(v, seen), stored |-> seen]]
    /\ UNCHANGED <<row, rev, active, wraps, wrapped, cache, test, browse, create>>

secret_submit(s) == \E v \in Bundles : store_user_credentials_if_changed(s, v)

\* loaded(s): the object the second query returns: the first one, if the row is the same.
loaded(s) == IF save[s].stored.rev > 0 /\ Exists /\ save[s].stored.id = row.id THEN save[s].stored ELSE row

LockUser(s) ==
    /\ save[s].at = "waiting" /\ ~user_locked
    /\ save' = [save EXCEPT ![s].at = "locked", ![s].stored = loaded(s)]
    /\ UNCHANGED <<row, rev, active, wraps, wrapped, cache, test, browse, create>>

unchanged(s) == save[s].stored # NoRow /\ save[s].stored.value = save[s].value

ReturnUnchanged(s) ==
    /\ save[s].at = "locked" /\ unchanged(s)
    /\ save' = [save EXCEPT ![s] = Idle]
    /\ UNCHANGED <<row, rev, active, wraps, wrapped, cache, test, browse, create>>

wrong_reserve_master_key_use(k) == TRUE
_reserve_master_key_use(k) == wraps[k] < MaxWraps

KeyExhausted(s) ==
    /\ save[s].at = "locked" /\ ~unchanged(s) /\ ~_reserve_master_key_use(active)
    /\ save' = [save EXCEPT ![s] = Idle]
    /\ UNCHANGED <<row, rev, active, wraps, wrapped, cache, test, browse, create>>

(* The columns the flush writes: always those of the envelope, and of the  *)
(* others only the ones that change the loaded object.                     *)
Flushed(old, v) ==
    IF old = NoRow
    THEN [id |-> rev + 1, value |-> v, rev |-> rev + 1, key |-> active,
          status |-> "untested", measured |-> 0, check |-> "none"]
    ELSE [row EXCEPT !.value = v, !.rev = rev + 1, !.key = active,
             !.status = IF old.status = "untested" THEN @ ELSE "untested",
             !.measured = IF old.status = "untested" THEN @ ELSE 0,
             !.check = IF old.check = "none" THEN @ ELSE "none"]

_store_encrypted_value(s) ==
    /\ save[s].at = "locked" /\ ~unchanged(s) /\ _reserve_master_key_use(active)
    /\ row' = Flushed(save[s].stored, save[s].value)
    /\ rev' = rev + 1
    /\ wraps' = [wraps EXCEPT ![active] = @ + 1]
    /\ wrapped' = [wrapped EXCEPT ![active] = @ + 1]
    /\ cache' = {}
    /\ save' = [save EXCEPT ![s] = Idle]
    /\ UNCHANGED <<active, test, browse, create>>

delete_user_secret ==
    /\ Exists /\ ~user_locked
    /\ row' = NoRow /\ cache' = {}
    /\ UNCHANGED <<rev, active, wraps, wrapped, actors>>

secret_delete_submit == delete_user_secret

\* The operator configures a new key and restarts; the old ones still decrypt.
RotateKey ==
    /\ active < Keys /\ ~user_locked
    /\ active' = active + 1
    /\ UNCHANGED <<row, rev, wraps, wrapped, cache, actors>>

-----------------------------------------------------------------------------
\* decrypted: the revision that a decryption returns with the bundle.
decrypted == row.rev

(* A connection check: read and decrypt, claim, ask the provider, record.  *)
(* The automatic check after a save is one of these.                       *)
same_revision(x) == Exists /\ row.id = x.id /\ row.rev = x.rev

test_user_connection(t) ==
    /\ test[t].at = "idle" /\ Exists
    /\ test' = [test EXCEPT ![t] = [at |-> "read", id |-> row.id, rev |-> decrypted]]
    /\ UNCHANGED <<row, rev, active, wraps, wrapped, cache, save, browse, create>>

connection_test_submit(t) == test_user_connection(t)

ClaimCheck(t) ==
    /\ test[t].at = "read"
    /\ IF same_revision(test[t])
       THEN row' = [row EXCEPT !.check = t] /\ test' = [test EXCEPT ![t].at = "claimed"]
       ELSE row' = row /\ test' = [test EXCEPT ![t] = Idle]
    /\ UNCHANGED <<rev, active, wraps, wrapped, cache, save, browse, create>>

wrong_holds_check(t) == Exists /\ row.id = test[t].id /\ row.check = t
holds_check(t) == same_revision(test[t]) /\ row.check = t

RecordHealth(t) ==
    \E health \in {"connected", "failed", "untested"} :
        /\ test[t].at = "claimed"
        /\ row' = IF holds_check(t)
                  THEN [row EXCEPT !.status = health, !.measured = test[t].rev, !.check = "none"]
                  ELSE row
        /\ test' = [test EXCEPT ![t] = Idle]
        /\ UNCHANGED <<rev, active, wraps, wrapped, cache, save, browse, create>>

-----------------------------------------------------------------------------
(* Browsing a catalog: decrypt, for databricks read the revision again and *)
(* compare it before using SQL, fetch, store the answer in the cache.      *)
_read_cache == cache

BrowseDecrypt(b) ==
    /\ browse[b].at = "idle" /\ Exists /\ _read_cache = {}
    /\ browse' = [browse EXCEPT ![b] =
          [at |-> IF Provider = "databricks" THEN "decrypted" ELSE "ready", used |-> decrypted, generation |-> decrypted]]
    /\ UNCHANGED <<row, rev, active, wraps, wrapped, cache, save, test, create>>

_credentials_for(b) ==
    /\ browse[b].at = "decrypted"
    /\ browse' = [browse EXCEPT ![b] = IF Exists THEN [@ EXCEPT !.at = "ready", !.generation = row.rev]
                                       ELSE Idle]
    /\ UNCHANGED <<row, rev, active, wraps, wrapped, cache, save, test, create>>

\* require_current_generation, called before SQL is used; other providers have no check.
require_current_generation(b) ==
    Provider = "databricks" => Exists /\ row.rev = browse[b].generation

list_objects(b) ==
    /\ browse[b].at = "ready"
    /\ browse' = [browse EXCEPT ![b] = IF require_current_generation(b)
                                       THEN [@ EXCEPT !.at = "fetched"] ELSE Idle]
    /\ UNCHANGED <<row, rev, active, wraps, wrapped, cache, save, test, create>>

put(r) == cache' = {r}

_write_cache(b) ==
    /\ browse[b].at = "fetched"
    /\ put(browse[b].used)
    /\ browse' = [browse EXCEPT ![b] = Idle]
    /\ UNCHANGED <<row, rev, active, wraps, wrapped, save, test, create>>

\* An answer expires, or a publication by the owner invalidates it.
CacheDropped ==
    /\ cache # {} /\ cache' = {}
    /\ UNCHANGED <<row, rev, active, wraps, wrapped, actors>>

-----------------------------------------------------------------------------
(* Creating a Foundry dataset: the final comparison and the registration   *)
(* are one transaction under the user's row lock.                          *)
create_foundry_dataset(c) ==
    /\ Provider = "foundry" /\ create[c].at = "idle"
    /\ Exists /\ row.status \in {"connected", "untested"}
    /\ create' = [create EXCEPT ![c] = [at |-> "remote", id |-> row.id, rev |-> decrypted]]
    /\ UNCHANGED <<row, rev, active, wraps, wrapped, cache, save, test, browse>>

registers(c) == same_revision(create[c])

RegisterDataset(c) ==
    /\ create[c].at = "remote" /\ ~user_locked
    /\ IF registers(c)
       THEN /\ row' = [row EXCEPT !.status = "connected", !.measured = create[c].rev]
            /\ create' = [create EXCEPT ![c] = [at |-> "registered", used |-> create[c].rev, current |-> row.rev]]
       ELSE row' = row /\ create' = [create EXCEPT ![c] = Idle]
    /\ UNCHANGED <<rev, active, wraps, wrapped, cache, save, test, browse>>

Next ==
    \/ \E s \in Saves :
          \/ secret_submit(s)
          \/ LockUser(s) \/ ReturnUnchanged(s) \/ KeyExhausted(s) \/ _store_encrypted_value(s)
    \/ \E t \in Tests : connection_test_submit(t) \/ ClaimCheck(t) \/ RecordHealth(t)
    \/ \E b \in Browses : BrowseDecrypt(b) \/ _credentials_for(b) \/ list_objects(b) \/ _write_cache(b)
    \/ \E c \in Creates : create_foundry_dataset(c) \/ RegisterDataset(c)
    \/ secret_delete_submit \/ RotateKey \/ CacheDropped

Spec == Init /\ [][Next]_vars

-----------------------------------------------------------------------------
TypeOK ==
    /\ Exists => /\ row.value \in Bundles /\ row.rev \in 1..rev /\ row.key \in 1..active
                 /\ row.status \in {"untested", "connected", "failed"}
                 /\ row.check \in Tests \cup {"none"} /\ row.measured \in 0..rev
    /\ \A s, t \in Saves : save[s].at = "locked" /\ save[t].at = "locked" => s = t

(* ResultOfStoredRevision: a result that is recorded while the bundle      *)
(* stays as it is was measured with that bundle: a check or a dataset      *)
(* creation that outlived a replacement leaves no trace on the new one.    *)
ResultOfStoredRevision ==
    Exists /\ row' # NoRow /\ row'.rev = row.rev /\ row'.measured # row.measured
        => row'.measured = row'.rev

(* NoLostSave: a save that returns without an error leaves the submitted   *)
(* bundle stored at that moment, also when it reports that nothing changed.*)
NoLostSave ==
    \A s \in Saves : save[s].at = "locked" /\ save'[s].at = "idle"
        => (row' # NoRow /\ row'.value = save[s].value) \/ wraps[active] >= MaxWraps

(* WrapLimit: a master key never protects more bundles than configured.    *)
WrapLimit == \A k \in 1..Keys : wrapped[k] <= MaxWraps

(* ConsentReset: replacing the identity of a stored bundle never leaves    *)
(* automatic startup on.                                                   *)
ConsentReset ==
    Exists /\ row' # NoRow /\ row'.id = row.id /\ row'.value.ident # row.value.ident
        => row'.value.policy = "manual"

(* DatasetOfCurrent: a dataset is registered for the revision of the       *)
(* credentials that created it.                                            *)
DatasetOfCurrent == \A c \in Creates : create[c].at = "registered" => create[c].used = create[c].current

Safety == TypeOK /\ WrapLimit /\ DatasetOfCurrent

\* The databricks form reads the row before it waits for the lock, so what a save
\* concludes from that row needs that no other save was at work meanwhile.
OneSaver == \A s, t \in Saves : s = t

StepsSafe ==
    /\ ResultOfStoredRevision
    /\ (Provider = "databricks" => OneSaver) => NoLostSave /\ ConsentReset
=============================================================================
