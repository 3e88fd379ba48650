----------------------------- MODULE SigningKeys -----------------------------
(***************************************************************************)
(* The token issuer's signing keys (issuer/mod.rs, issuer/keys.rs): the    *)
(* signing_key table, the key cache of the running broker and the reloads  *)
(* that race to fill it, rotation by the admin lane and by the             *)
(* `rotate-signing-key` process, the hourly prune, the tokens signed and a *)
(* verifier that fetches the published key set (http/wellknown.rs).        *)
(*                                                                         *)
(* A key is its rowid.  A key has no state column: it is pending, signing, *)
(* published or retired by where the clock stands against its dates.       *)
(***************************************************************************)
EXTENDS Optional, Integers, FiniteSets

CONSTANTS
    Threads,         \* threads of the broker that work on the keys
    Cli,             \* the rotate-signing-key process
    PublishLead,     \* policy.publish_lead_secs
    Leads,           \* the activate_in_secs an administrator asks for; 0 is immediate
    MaxTtl,          \* policy.max_ttl_secs
    RetireMargin,    \* RETIRE_MARGIN_SECS
    ReloadInterval,  \* RELOAD_INTERVAL_SECS
    RefreshPeriod,   \* max-age of the published set: a verifier fetches it this often
    Lag,             \* bound: from reading the clock, or the rows, to using them
    MaxStale,        \* bound: the age of a cache whose reloads fail
    KeyFaults,          \* the failures that happen
    MaxKeys,         \* bound: rows
    MaxClock,         \* bound: the clock stops here
    MaxReboots      \* bound: crashes

KeyFaultKind ==
    {"read",   \* a reload cannot read the store
     "store",  \* a write is not committed
     "seed"}   \* after a restart a seed does not open with the keyfile

ASSUME SigningKeysAssumption ==
    /\ Cli \notin Threads
    /\ NULL \notin Nat
    /\ {PublishLead, MaxTtl, RetireMargin, ReloadInterval, RefreshPeriod, Lag, MaxStale,
        MaxKeys, MaxClock, MaxReboots} \subseteq Nat
    /\ PublishLead > 0
    /\ Leads \subseteq Nat
    /\ ReloadInterval <= MaxStale + 1
    /\ KeyFaults \subseteq KeyFaultKind

VARIABLES
    clock,
    rows,      \* signing_key, by rowid
    cache,     \* Issuer.cache of the broker; NULL before the first load
    job,       \* what each thread, and the process, is in the middle of
    boot,      \* "down", "empty" (bootstrap found no key) or "up"
    tokens,    \* until when what each key signed in its turn is accepted; 0 afterwards
    strays,    \* the same of what it signed because no newer key's seed would open
    verifier,  \* the key set a verifier fetched, and when
    ended,     \* the keys immediate rotations ended, and when the last one did
    reboots

signingVars == <<clock, rows, cache, job, boot, tokens, strays, verifier, ended, reboots>>

Processes == Threads \cup {Cli}
SigningKeyRow ==
    [created_at : Nat, activate_at : Nat, retire_at : Option(Nat),
     removed_at : Option(Nat), opens : BOOLEAN]

\* KeyCache: rows as they were read, and when they were put there.
KeySet == UNION {[K -> SigningKeyRow] : K \in SUBSET (1..MaxKeys)}
KeyCache == [keys : KeySet, loaded_at : Nat]

ASSUME CacheAssumption == NULL \notin KeyCache

Kids == DOMAIN rows

----------------------------------------------------------------------------
(***************************************************************************)
(* Keys of a set of rows: the store's, or a copy of them in the cache.     *)
(***************************************************************************)
\* CachedKey::published.
IsPublished(row, t) ==
    row.removed_at = NULL /\ (row.retire_at = NULL \/ row.retire_at > t)

PublishedAt(keys, t) == {k \in DOMAIN keys : IsPublished(keys[k], t)}

\* SIGNING_KEY_ORDER: activate_at DESC, created_at DESC, rowid DESC.
Newer(keys, j, k) ==
    \/ keys[j].activate_at > keys[k].activate_at
    \/ /\ keys[j].activate_at = keys[k].activate_at
       /\ \/ keys[j].created_at > keys[k].created_at
          \/ keys[j].created_at = keys[k].created_at /\ j > k

\* KeyCache::signing: the newest key that has activated, is published and has a seed.
Activated(keys, t) == {k \in PublishedAt(keys, t) : keys[k].activate_at <= t}

Signs(keys, k, t) ==
    /\ k \in Activated(keys, t)
    /\ keys[k].opens
    /\ \A j \in Activated(keys, t) : Newer(keys, j, k) => ~keys[j].opens

\* load_signing_keys: everything not removed.
Loaded == [k \in {j \in Kids : rows[j].removed_at = NULL} |-> rows[k]]

\* retired_signing_keys_due.
Due(t) ==
    {k \in Kids : /\ rows[k].removed_at = NULL
                  /\ rows[k].retire_at # NULL /\ rows[k].retire_at <= t}

----------------------------------------------------------------------------
(***************************************************************************)
(* Writes, each one transaction.                                           *)
(***************************************************************************)
\* insert_signing_key: the next rowid.
NewKid == Cardinality(Kids) + 1

WithKey(keys, created, activate) ==
    [k \in DOMAIN keys \cup {NewKid} |->
        IF k = NewKid
        THEN [created_at |-> created, activate_at |-> activate, retire_at |-> NULL,
              removed_at |-> NULL, opens |-> TRUE]
        ELSE keys[k]]

\* Mutant: a key that already has a date keeps it.
DatedOnce(row, t) ==
    IF row.removed_at = NULL /\ row.retire_at = NULL THEN [row EXCEPT !.retire_at = t] ELSE row

\* The two UPDATEs of rotate_signing_key: a row is given a date no later than t.
Dated(row, t) ==
    IF row.removed_at = NULL /\ (row.retire_at = NULL \/ row.retire_at > t)
    THEN [row EXCEPT !.retire_at = t]
    ELSE row

EndPending(row, created, activate) ==
    IF row.activate_at > activate THEN Dated(row, created) ELSE row

\* Issuer::rotate: the dates follow from the clock it read.
ActivateAt(created, lead) == created + lead

\* Mutant: the keys before it end when the new one takes over.
RetireAtTakeover(created, lead) ==
    IF lead = 0 THEN created ELSE ActivateAt(created, lead)

RetireAt(created, lead) ==
    IF lead = 0 THEN created ELSE ActivateAt(created, lead) + MaxTtl + RetireMargin

\* rotate_signing_key.
Rotated(created, lead) ==
    LET activate == ActivateAt(created, lead)
    IN  WithKey([k \in Kids |-> EndPending(Dated(rows[k], RetireAt(created, lead)),
                                           created, activate)],
                created, activate)

----------------------------------------------------------------------------
Idle == [stage |-> "idle"]

Job ==
    {Idle, [stage |-> "reload"]}
    \cup [stage : {"rotate"}, at : Nat, lead : Nat]
    \cup [stage : {"prune"}, at : Nat, left : SUBSET (1..MaxKeys), removed : BOOLEAN]

\* A reload that has read the rows and not yet put them in the cache.
Loading(p) == job[p].stage = "load"

SigningInit ==
    /\ clock = 0
    /\ rows = << >>
    /\ cache = NULL
    /\ job = [p \in Processes |-> Idle]
    /\ boot = "down"
    /\ tokens = [k \in 1..MaxKeys |-> 0] /\ strays = tokens
    /\ verifier = [keys |-> {}, at |-> 0]
    /\ ended = [keys |-> {}, at |-> 0]
    /\ reboots = 0

\* At the next second, of tokens accepted until then.
Unexpired(until) == [k \in DOMAIN until |-> IF until[k] > clock + 1 THEN until[k] ELSE 0]

\* Every operation is done within Lag of the clock, or the rows, it read; the
\* verifier refreshes in time; and the clock is a wall clock that moves forward.
ClockTick ==
    /\ clock < MaxClock
    /\ \A p \in Processes : "at" \in DOMAIN job[p] => clock - job[p].at < Lag
    /\ boot = "up" => clock - verifier.at < RefreshPeriod
    /\ clock' = clock + 1
    /\ tokens' = Unexpired(tokens) /\ strays' = Unexpired(strays)
    /\ UNCHANGED <<rows, cache, job, boot, verifier, ended, reboots>>

----------------------------------------------------------------------------
(***************************************************************************)
(* The broker's life: bootstrap, and a crash that loses what is in memory. *)
(***************************************************************************)
\* Issuer::open, then the list: with a key in it there is nothing to create.
BootOpen ==
    /\ boot = "down"
    /\ cache' = [keys |-> Loaded, loaded_at |-> clock]
    /\ boot' = IF Kids = {} THEN "empty" ELSE "up"
    /\ verifier' = [keys |-> PublishedAt(Loaded, clock), at |-> clock]
    /\ UNCHANGED <<clock, rows, job, tokens, strays, ended, reboots>>

\* InsertSigningKey and the reload.
BootInsert ==
    /\ boot = "empty"
    /\ NewKid <= MaxKeys
    /\ rows' = WithKey(rows, clock, clock)
    /\ cache' = [keys |-> Loaded', loaded_at |-> clock]
    /\ boot' = "up"
    /\ verifier' = [keys |-> PublishedAt(Loaded', clock), at |-> clock]
    /\ UNCHANGED <<clock, job, tokens, strays, ended, reboots>>

\* The keyfile of the next start may lack the keys that sealed some of the seeds.
Kill ==
    /\ boot # "down"
    /\ reboots < MaxReboots
    /\ reboots' = reboots + 1
    /\ boot' = "down"
    /\ cache' = NULL
    /\ job' = [p \in Processes |-> IF p = Cli THEN job[p] ELSE Idle]
    /\ \E lost \in IF "seed" \in KeyFaults THEN SUBSET Kids ELSE {{}} :
         rows' = [k \in Kids |-> [rows[k] EXCEPT !.opens = @ /\ k \notin lost]]
    /\ verifier' = [keys |-> {}, at |-> clock]
    /\ UNCHANGED <<clock, tokens, strays, ended>>

----------------------------------------------------------------------------
(***************************************************************************)
(* Reloads.  The rows are read under the reader's lock and put in the      *)
(* cache under the cache's: another thread may do both in between.         *)
(***************************************************************************)
\* with_keys finds the cache too old.
CacheAge == clock - cache.loaded_at

ReloadDue(p) == p \in Threads /\ boot = "up" /\ job[p] = Idle /\ CacheAge >= ReloadInterval

\* Issuer::reload, to the rows: for with_keys, and after a rotation or a prune.
ReloadRead(p) ==
    /\ ReloadDue(p) \/ job[p].stage = "reload"
    /\ job' = [job EXCEPT ![p] = [stage |-> "load", at |-> clock, keys |-> Loaded]]
    /\ UNCHANGED <<clock, rows, cache, boot, tokens, strays, verifier, ended, reboots>>

\* Issuer::reload, from KeyCache::build, which reads the clock again.
ReloadInstall(p) ==
    /\ Loading(p)
    /\ cache' = [keys |-> job[p].keys, loaded_at |-> clock]
    /\ job' = [job EXCEPT ![p] = Idle]
    /\ UNCHANGED <<clock, rows, boot, tokens, strays, verifier, ended, reboots>>

\* The keys already in memory keep serving.
ReloadFails(p) ==
    /\ "read" \in KeyFaults
    /\ job[p].stage = "reload"
    /\ job' = [job EXCEPT ![p] = Idle]
    /\ UNCHANGED <<clock, rows, cache, boot, tokens, strays, verifier, ended, reboots>>

----------------------------------------------------------------------------
(***************************************************************************)
(* Rotation.  The dates are computed from the clock before the write waits *)
(* its turn.                                                               *)
(***************************************************************************)
\* POST /admin/signing-keys/rotate: any lead up to a maximum, or the default.
AdminMayAsk(lead) == boot = "up" /\ lead \in Leads \cup {PublishLead}

\* rotate-signing-key [--now], with or without a broker running.
CliMayAsk(lead) == lead \in {0, PublishLead}

\* Issuer::rotate, to the write.
RotateStart(p, lead) ==
    /\ job[p] = Idle
    /\ NewKid + Cardinality({q \in Processes : job[q].stage = "rotate"}) <= MaxKeys
    /\ IF p = Cli THEN CliMayAsk(lead) ELSE AdminMayAsk(lead)
    /\ job' = [job EXCEPT ![p] = [stage |-> "rotate", at |-> clock, lead |-> lead]]
    /\ UNCHANGED <<clock, rows, cache, boot, tokens, strays, verifier, ended, reboots>>

\* The broker's thread then reloads its cache; the CLI's own cache ends with it.
RotateCommit(p) ==
    /\ job[p].stage = "rotate"
    /\ NewKid <= MaxKeys
    /\ rows' = Rotated(job[p].at, job[p].lead)
    /\ ended' = IF job[p].lead = 0 THEN [keys |-> Kids, at |-> clock] ELSE ended
    /\ job' = [job EXCEPT ![p] = IF p = Cli THEN Idle ELSE [stage |-> "reload"]]
    /\ UNCHANGED <<clock, cache, boot, tokens, strays, verifier, reboots>>

\* The key and its audit row commit together or not at all.
RotateFails(p) ==
    /\ job[p].stage = "rotate"
    /\ "store" \in KeyFaults \/ NewKid > MaxKeys
    /\ job' = [job EXCEPT ![p] = Idle]
    /\ UNCHANGED <<clock, rows, cache, boot, tokens, strays, verifier, ended, reboots>>

----------------------------------------------------------------------------
(***************************************************************************)
(* prune_retired: the due keys are read, then removed one transaction at a *)
(* time, each repeating the test.                                          *)
(***************************************************************************)
PruneStart(p) ==
    /\ p \in Threads /\ boot = "up"
    /\ job[p] = Idle
    /\ Due(clock) # {}
    /\ job' = [job EXCEPT ![p] =
                 [stage |-> "prune", at |-> clock, left |-> Due(clock), removed |-> FALSE]]
    /\ UNCHANGED <<clock, rows, cache, boot, tokens, strays, verifier, ended, reboots>>

\* remove_retired_signing_key, or its failure; a removal is followed by a reload.
PruneRemove(p, k) ==
    /\ job[p].stage = "prune"
    /\ k \in job[p].left
    /\ \E removed \in {k \in Due(job[p].at)} \cup {b \in {FALSE} : "store" \in KeyFaults} :
         LET rest == [job[p] EXCEPT !.left = @ \ {k}, !.removed = @ \/ removed]
         IN  /\ rows' = [rows EXCEPT ![k].removed_at = IF removed THEN job[p].at ELSE @]
             /\ job' = [job EXCEPT ![p] = IF rest.left # {} THEN rest
                                          ELSE IF rest.removed THEN [stage |-> "reload"]
                                          ELSE Idle]
    /\ UNCHANGED <<clock, cache, boot, tokens, strays, verifier, ended, reboots>>

----------------------------------------------------------------------------
(***************************************************************************)
(* Uses of the cache: with_keys reloads first, and goes on with the keys   *)
(* it has if that fails.                                                   *)
(***************************************************************************)
Usable ==
    /\ boot = "up"
    /\ \/ CacheAge < ReloadInterval
       \/ "read" \in KeyFaults /\ CacheAge <= MaxStale

\* Key k signed something accepted until then.
Signed(record, k, until) == [record EXCEPT ![k] = IF until > @ THEN until ELSE @]

\* sign_with_kid: the newest key there is, or an older one, dated or not, while no
\* newer one's seed opens.  RETIRE_MARGIN_SECS is the clock allowance verifiers
\* apply to exp.
Sign(ttl) ==
    /\ Usable
    /\ \E k \in DOMAIN cache.keys :
         LET until == clock + ttl + RetireMargin
             newest == \A j \in Activated(cache.keys, clock) : ~Newer(cache.keys, j, k)
         IN  /\ Signs(cache.keys, k, clock)
             /\ tokens' = IF newest THEN Signed(tokens, k, until) ELSE tokens
             /\ strays' = IF newest THEN strays ELSE Signed(strays, k, until)
    /\ UNCHANGED <<clock, rows, cache, job, boot, verifier, ended, reboots>>

\* Issuer::jwks.
Jwks == PublishedAt(cache.keys, clock)

\* A verifier fetches once the response it has is older than its max-age.
ResponseStale == clock - verifier.at >= RefreshPeriod

Fetch ==
    /\ Usable
    /\ ResponseStale
    /\ verifier' = [keys |-> Jwks, at |-> clock]
    /\ UNCHANGED <<clock, rows, cache, job, boot, tokens, strays, ended, reboots>>

\* What GET /admin/signing-keys shows of a key: the first one, newest first, that
\* is live and has started is the one "signing".
ShownState(k) ==
    IF rows[k].removed_at # NULL THEN "removed"
    ELSE IF k \notin PublishedAt(rows, clock) THEN "retired"
    ELSE IF k \notin Activated(rows, clock) THEN "pending"
    ELSE IF \A j \in Activated(rows, clock) : ~Newer(rows, j, k) THEN "signing"
    ELSE "published"

----------------------------------------------------------------------------
SigningNext ==
    \/ ClockTick \/ BootOpen \/ BootInsert \/ Kill \/ Fetch
    \/ \E ttl \in 1..MaxTtl : Sign(ttl)
    \/ \E p \in Processes :
         \/ ReloadRead(p) \/ ReloadInstall(p) \/ ReloadFails(p)
         \/ \E lead \in Leads \cup {0, PublishLead} : RotateStart(p, lead)
         \/ RotateCommit(p) \/ RotateFails(p)
         \/ PruneStart(p)
         \/ \E k \in 1..MaxKeys : PruneRemove(p, k)

SigningSpec == SigningInit /\ [][SigningNext]_signingVars

----------------------------------------------------------------------------
\* Every variable has its type: the rows are numbered as they are inserted, and
\* a cache holds a copy of some of them.
SigningTypeOK ==
    /\ clock \in 0..MaxClock /\ reboots \in 0..MaxReboots
    /\ boot \in {"down", "empty", "up"}
    /\ \E n \in 0..MaxKeys : Kids = 1..n
    /\ \A k \in Kids : rows[k] \in SigningKeyRow
    /\ cache = NULL <=> boot = "down"
    /\ cache # NULL => /\ cache.loaded_at \in 0..clock
                       /\ DOMAIN cache.keys \subseteq Kids
    /\ \A p \in Processes :
         /\ job[p].stage = "load" => DOMAIN job[p].keys \subseteq Kids
         /\ job[p].stage # "load" => job[p] \in Job
    /\ verifier.keys \subseteq Kids
    /\ {tokens, strays} \subseteq [1..MaxKeys -> Nat]
    /\ ended.keys \subseteq Kids /\ ended.at \in 0..clock

\* Rotation j was no ordinary one for key k: its lead was shorter than a cache may
\* be stale and a write slow, which the admin endpoint allows, or it raced with
\* the rotation that made k, took effect in the same second and, its clock read
\* earlier though its row came later, lost the tie.
Disturbs(j, k) ==
    /\ j > k
    /\ \/ /\ rows[j].activate_at > rows[j].created_at
          /\ rows[j].activate_at <= rows[j].created_at + MaxStale + 2 * Lag
       \/ /\ rows[j].activate_at = rows[k].activate_at
          /\ rows[j].created_at < rows[k].created_at

\* The keys that an immediate, a hasty or an overtaken rotation came after.
Disturbed == ended.keys \cup {k \in Kids : \E j \in Kids : Disturbs(j, k)}

\* "Removed once nothing signed by them can still be valid" (issuer/mod.rs): as
\* long as what a key signed in its turn may be presented the key is in the
\* published set, whoever rotated meanwhile and however stale the cache that
\* signed, unless a rotation disturbed it.  What an older key signed because the
\* newest seed was lost is in strays: FallbackVerifies, which does not hold.
TokensVerify ==
    \A k \in Kids \ Disturbed : tokens[k] > clock => IsPublished(rows[k], clock)

\* issuer/mod.rs, "removed once nothing signed by them can still be valid", of
\* every token: also of those an older key signed in place of the newest one.
FallbackVerifies ==
    \A k \in Kids \ Disturbed :
        tokens[k] > clock \/ strays[k] > clock => IsPublished(rows[k], clock)

\* The publish lead does its work: a verifier that refreshes its set in time
\* already has the key of every token it is shown, if the key was announced by
\* an ordinary rotation and signed in its turn.
VerifierAccepts ==
    boot = "up" =>
        \A k \in Kids \ Disturbed :
            /\ tokens[k] > clock
            /\ rows[k].activate_at - rows[k].created_at > RefreshPeriod + MaxStale + 2 * Lag
            => k \in verifier.keys

\* A rotation leaves no gap: a broker that has an activated key can sign, from
\* whatever copy of the rows it holds, as long as the seeds open.
NoSigningGap ==
    (boot = "up" /\ \A k \in Kids : rows[k].opens)
        => \/ \A k \in DOMAIN cache.keys : cache.keys[k].activate_at > clock
           \/ \E k \in DOMAIN cache.keys : Signs(cache.keys, k, clock)

\* The console and the signer read the same keys by two pieces of code: right
\* after a reload, with every seed open, the key shown as signing is the one that
\* signs, and none is shown only while none can sign.
ShownKeySigns ==
    (boot = "up" /\ cache.keys = Loaded /\ \A k \in Kids : rows[k].opens)
        => \A k \in Kids : ShownState(k) = "signing" <=>
             k \in DOMAIN cache.keys /\ Signs(cache.keys, k, clock)

\* An ordinary rotation disturbs nobody, whoever makes it and whatever reloads,
\* prunes, failures and restarts fall in between: not the holder of a token, not a
\* verifier that keeps its refresh period, not the broker that signs, not the
\* operator who looks at the keys.
RotationIsSeamless ==
    SigningTypeOK /\ TokensVerify /\ VerifierAccepts /\ NoSigningGap /\ ShownKeySigns

\* An immediate rotation reaches a running broker, be it made by another
\* process or overtaken by a reload that read the rows before it: past the
\* longest staleness no older key is published or signs any more.
EmergencyTakesEffect ==
    (Usable /\ clock > ended.at + MaxStale + Lag)
        => ended.keys \cap Jwks = {}
=============================================================================
