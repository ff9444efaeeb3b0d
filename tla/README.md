# A verification development of Paschal Beacon

Paschal is a dead-man's switch for letters. A *principal* writes letters, names
recipients and lets the server watch for proof of life. When proof of life stops,
or when the principal asks for it, the *vault* goes through a cooling-off period
and its letters are released to their recipients as claim tokens.

The directory holds TLA+ modules translated from the Rust code of the server,
configurations that model-check them with TLC, and proofs checked by TLAPS.
Line numbers are those of the commit beside which the directory is kept; paths
are relative to the repository (`PROJECT.json` prefixes them with `src/`).

## 1. The system

### Components

| component | where | state it keeps | operations |
|---|---|---|---|
| release pipeline | `crates/beacon-api/src/scheduler.rs` 376–695, `routes.rs` 1177–1330 | in memory: requests in flight, one sleeping timer per request-triggered event, the listing a poll loop works through; in the database: `vault.state`, `release_event`, `release_claim` | `force_release`, `run_drill`, `cancel_release`, `begin_release`, `elapse_release`, `release_elapse_tick`, `perform_release`, `deliver_letter` |
| vault and event rows | `crates/beacon-db/src/lib.rs`, `migrations/0011` | `vault`, `release_event` | the conditional and unconditional `UPDATE`s, `fetch_open_release`, `list_due_releases` |
| trigger score | `crates/beacon-core/src/lib.rs` 392–600, `scheduler.rs` `evaluate` | none (pure) | `score`, `should_alert`, `evaluate`, `can_transition` |
| signal aggregator | `scheduler.rs` 140–375 | in memory: the snapshot a tick works from | `aggregator_tick` every minute over every watchable vault |
| signal intake | `routes.rs` (heartbeat, Apple, bank, buddy) | `signal`, `signal_subscription`, `vault.last_attestation_at`, `buddy` | check-ins, pings, buddy answers |
| duress signal | `routes.rs` `arm_duress`, `revoke_duress`, `duress_webhook` | `duress_signal` | arm, trigger ("freeze" or "release"), disarm |
| scheduled letters | `scheduler.rs` 806–870 | `letter.scheduled_release_at` | `scheduled_release_tick` |
| post-mortem changes | `scheduler.rs` 600–640, 697–738; `routes.rs` 2130–2600 | co-stewards, pending recipient changes, event letters | invite, act, cancel, apply after a delay |
| subscription, retention, deletion | `scheduler.rs` 740–804, `routes.rs` | `subscription`, `principal.deleted_at` | subscribe, expire, purge |
| claims | `routes.rs` `claim_release`, `claim_attachment` | `release_claim.claimed_at` | redeem a token once |
| storage regions | `routes.rs` 494–561, `crates/blob-store` | blobs in a region, `vault.storage_region` | move, upload, read, delete |
| leader election | `scheduler.rs` 56–133 | a PostgreSQL advisory lock | contend, lead, lose the connection |
| sign-in | `auth.rs`, `passkey.rs`, `routes.rs` | magic links, challenges, sessions, `principal`, its Terms and its subscription | request, consume, sign up, sign out |
| passkeys and Private Vaults | `passkey.rs`, `routes.rs` | passkeys, recovery code and key, vault envelopes | register, delete, wrap, store, redeem |
| Private Letters | `routes.rs` 3185–3440, `beacon-db` 3386–3447 | `letter`, `zk_letter_heir_envelope` | seal in three modes, readdress, delete, erase, claim, recover |
| co-stewards and webhooks | `routes.rs` 2100–2360, 2700–2810 | `co_steward`, their sessions, `bank_dormancy_subscription` | invite, confirm, sign in, revoke, enrol |
| key file of the local KMS | `crates/crypto-stub` 90–180 | a file | make on first use, read, seal, open |
| schema migrations | `beacon-db` 80–312, `state.rs` 119–142 | `schema_migrations`, an advisory lock | apply, adopt, verify |
| rate limiter | `rate_limit.rs` | buckets in memory | take |
| media transform, CLI, web applications, shell | `paschal-transform`, `paschal-cli`, `apps/` | none of the server's | pure functions, I/O, clients |

### How they interact

Everything meets in PostgreSQL rows; there are no queues and, but for the
advisory locks of the leader and of the migrations, no locks. A handler or loop is a sequence of `await`ed
statements, each atomic on its own. Three kinds of tasks run at the same time:

* request handlers on every replica;
* the background workers (aggregator, poll loop, retention sweep, scheduled
  letters) of the leader. `leader_supervisor` never stops the workers it started,
  so a former leader keeps its own: two or more of each may run;
* one sleeping task per release begun by a request, in the process that served it.

`aggregator → claim_vault_cooling_off → release_event → poll loop →
claim_vault_for_release → perform_release → deliver_letter` is the path of a silent
principal; `force_release → begin_release → timer` the path of one who asks. The two
share `vault.state`, and that column is where they can hurt each other: two of its
writers compare-and-set it (`claim_vault_cooling_off`, `claim_vault_for_release`), the
others write it blindly (`set_vault_state`).

### What is hard in it

* *Interleaving*: timer and poll loops racing for the same deadline; two
  aggregators, a webhook and a request opening the same vault.
* *Stale reads*: the aggregator writes what it computed from an old snapshot;
  a cancel writes `ACTIVE` because it read `COOLING_OFF`; a timer fires for
  an event that was cancelled since.
* *Crash and partial failure*: between the claim and the event, between the claim
  and the last delivery; an in-memory timer lost to a restart.
* *Liveness*: every cooling-off must end; a real silence must trip the switch.
* *Numbers*: weights, thresholds and independence classes that decide whether
  it can trip at all.
* *Two stores*: a row and the bytes it names are written by different calls, in an
  order that decides whether a stop leaves garbage or a dangling row.
* *Look, then write*: seats, passkeys, recovery codes, webhooks and the key file are
  looked for before they are made, with nothing that makes the two one step.

`PROJECT.json` lists each hazard at its line, with the properties aimed at it.

### What makes each component correct

* Pipeline: a letter is handed out once per cooling-off, not before the deadline,
  never while the principal may still cancel; a release reported complete is
  complete; a cooling-off is durable and ends.
* Aggregator and score: one class of evidence is not enough; a check-in resets
  the countdown; more evidence never calms; silence in the end trips the switch;
  one event per opening, whoever opens.
* Duress: under duress the switch is frozen.
* Scheduled letters: a letter with a date goes out when it comes, or keeps its date where the subscription
  allows no release. Post-mortem changes: a
  redirect takes effect only after its hold and while nobody objected; an event letter
  fires once and is not lost on the way.
* Vault contents: an attachment's row names bytes that exist; a handler that runs alone
  leaves no bytes without a row; a token is only wasted on what was destroyed; the
  account is anonymised when everything is gone, and not after it was reprieved.
* Sign-in: a link or a challenge earns one session, however often it is presented; an
  account is whole. Passkeys: the code that is accepted is the code that opens.
* Private Letters: who claims a letter gets what its author was told is in place.
* Co-stewards: who may sign in answered the last invitation. Webhooks: an id that was
  told works. Key file: what was sealed can be opened after a restart.
* Leadership: one replica runs the workers, and a worker is left to nobody only where nobody lives or it
  panicked. Migrations: nodes
  that start together do not break one another's start.

## 2. The modules

| module | what it is |
|---|---|
| `BeaconDb` | one `vault` row, its `release_event` rows, one clock, and each SQL statement on them as one operator |
| `ReleasePipeline` | requests, timers, poll loops and `perform_release` over those rows; crashes and failing statements; its safety and liveness properties and its inductive invariant |
| `DeadMansSwitch` | the abstract specification: held, cooling, releasing, released, and what has been handed out |
| `ReleaseRefinement` | the mapping from the pipeline to `DeadMansSwitch` |
| `ReleasePipelineProofs` | the proofs about the pipeline and its refinement |
| `TriggerScore` | `score`, `should_alert`, `evaluate`, weights and classes as operators in exact arithmetic |
| `TriggerScoreProofs` | that more evidence makes for a higher score, and the lemmas the aggregator's proofs need |
| `SignalAggregator` | `aggregator_tick` and the handlers that feed it, the duress webhook |
| `BeaconSystem` | pipeline and aggregator over the same rows |
| `ScheduledLetters` | `scheduled_release_tick` over the pipeline: letters with a date, and time capsules |
| `PostMortem` | what co-stewards do to event letters once the vault has `RELEASED`: redirect, cancel, trigger; the applier of due redirects |
| `HeldLetters` | pipeline, scheduler and co-stewards over the same rows |
| `BeaconSystemProofs`, `HeldLettersProofs` | the proofs over those two compositions |
| `BlobStore` | keys, `put`, `get` and `delete` of the blob stores and the region router |
| `VaultContents` | letters, attachments and tokens of one vault: sealing, moving to another region, delivery and both claim handlers, over `BlobStore` |
| `Estate` | subscription, account deletion, the retention sweep and the deletion of a letter, over `VaultContents` |
| `SignIn` | making an account, links, challenges and sessions |
| `PrivateVaults` | passkeys, recovery codes and envelopes, over `SignIn` |
| `PrivateLetters` | letters of Private Vaults: sealing in three modes, claims, drills, erasure and recovery |
| `KeyFile` | the key file of the local KMS |
| `Circle` | co-steward invitations, seats and sign-in; enrolling the bank webhook |
| `Leadership` | `leader_supervisor` and its advisory lock |
| `Migrations` | nodes that apply or verify the migrations at start |
| `EstateProofs`, `AccessProofs`, `PartsProofs` | the proofs over those; `PartsProofs` for the leader election, the migrations, the key file and the circle |
| `MCReleasePipeline`, `MCTriggerScore`, `MCBeaconSystem`, `MCHeldLetters`, `MCHeldLiveness`, `MCAccess`, `MCServices` | small instances for TLC; `MCServices` puts the parts that share no state side by side: each history is of one part, so the state spaces add up |
| `ServicesProofs` | what is proved of those parts holds side by side too, and the scoring cannot oscillate |

Definitions whose name has a suffix (`ClaimVaultForRelease_AnyState`) are mutated forms:
plausible mistakes the checks must notice. No specification uses them.

### State and code

`BeaconDb`. `vaultState` is `vault.state`; `event[e]` the columns `is_drill` and
`cooling_off_ends_at` of the row `e`, rows being numbered in `triggered_at` order;
`released` and `cancelled` the rows with that timestamp set. `window` is a history variable:
it counts entries into `COOLING_OFF`, so that "once per cooling-off" can be said.
One vault is enough: every statement is keyed by a vault or an event id.
`CanTransition` is the table of `beacon-core`; no statement consults it, which is why it
occurs in a property only.

`ReleasePipeline`. `req[r]` is a handler between two of its statements, with what it
has read so far: `claim`/`create` are the statements of `begin_release_with_cool`,
`setActive`/`fetchOpen`/`markCancelled` those of `cancel_release`. `timer[e]` is the spawned
`tokio` task of event `e` (host and end of its sleep), `due[n]` the rest of the vector that
`release_elapse_tick` loops over on node `n`, `job[w]` the place of timer or poll loop `w` in
`elapse_release` and `perform_release`, `claims` the `release_claim` rows, each with the window
and the worker that issued it. `Crash(n)` empties all that node `n` holds in memory and
leaves the rows; `PerformFails` and `RequestFails` are the `?` of a failing statement, and
the handler the server drops when the client hangs up.

`SignalAggregator`. `agg[n]` is the tick of node `n`: `AggList` takes the snapshot
(`seen`, `last`, `now`), each later action is one statement of the loop's body with what the
snapshot held. `attested` is `last_attestation_at`; `buddy` and `bankSignal` are what
`latest_buddy_signal` and the bank rows amount to; `vouched` is a history variable used by
a property only. `opener` is the webhook handler in "release" mode.

`ScheduledLetters`. `date[l]` is `letter.scheduled_release_at` (`NoDate` is NULL); `sched[n]` is the
tick of node `n`: `rest` is what is left of the listing, `hand` the letter whose vault was found `ACTIVE` and whose
subscription is asked for (`ask`), whose `begin_release` is under way (`claim`, `create`) or whose date is about to be
cleared (`clear`). `subscription` is `subscription.state`, which the retention sweep may take from `CANCELED` to `EXPIRED` at any
moment and no route changes otherwise. A letter whose vault is not `ACTIVE`, whose subscription allows no release, or for which one of the two
reads fails, is passed over and keeps its date (`SchedSkips`, `SchedRefused`, `SchedFails`). The event
and the timer a release creates are those of the pipeline. `Capsule` are the `SCHEDULED_ONLY` letters, which
the listing finds and `perform_release` does not deliver.

`PostMortem`. An address is named by the change that gave it (0 is the principal's own), so that
`recipient[l]`, `letter.recipient_email`, tells where it came from. `change[c]` is a
`letter_recipient_change` row, `applied` and `withdrawn` are the rows with `applied_at` and
`cancelled_at`; `eventReleased` the letters with `event_released_at`. `visit[d]` is the request deputy `d`
has in flight and what it has read (the change to apply, the address, the event); `applier[n]` the rest
of the listing of node `n`'s `recipient_change_tick`; `eventClaims` the `release_claim` rows of event
letters, `by` being a history field. `authorise_postmortem` is read once, when the request arrives: a
revocation or a drill's return to `ACTIVE` after it does not stop the request, as in the code. `ServedBy` says
whose crash takes which deputy's request along.

`VaultContents`. `key[f]` is the `storage_key` of an attachment's row, `stored` what the stores hold; a key is named by
the number of its `put`, its region and whose bytes it holds. `upload[l]`, `mover[m]`, `sending` and `heir[f]` are handlers
between two statements, with what they have read. `token[t]` follows a token: issued, spent and under way (`opening`), then
`served` or `burnt`. `Estate` adds `reaper`, which is both the sweep and the request that deletes one letter, since they run the same
inner loop. `clashed` says that two handlers were at work at once, `stops` counts those that were interrupted: properties
of what a handler promises on its own are stated where neither happened, `RowsResolve` without either.

`SignIn`, `PrivateVaults`. `tab[t]` is a request from one browser tab; a ticket is a link or a challenge, and `minted` counts what each
earned. An envelope is named by what opens it: `wraps.code` is the recovery code the Recovery Key lies under, `verifier` the code
the server accepts. `crossed` says that two requests about passkeys overlapped, `marred` that the making of the account was stopped.

`PrivateLetters`. `heirEnvelope[z]` is the mode on the row, `promised[z]` the mode the author's 200 spoke of, `mailed[z]` who was
mailed half a key, `answer[z]` what the last claim got, whether it was
`early`, between the insert of the letter and that of its envelope, and whether it found the text `erased`; `outbox` is the rest of a release's listing. Expiry of a claim is left out.

`KeyFile`, `Circle`, `Leadership`, `Migrations`. `file` is what the key file holds, `sealed` the keys something was sealed under. `seat[e]` is a
`co_steward` row and names token and passphrase by the invitation they came with. `lockHolder` and `bootLock` are the sessions that have
the advisory locks; a lost session gives the lock away while its process goes on. `panicked` are the replicas whose worker ended while the
supervisor went on holding the lock. `inSchema` is what the schema has, `recorded` what
`schema_migrations` says, `byHand` how far psql had taken it; `Repeatable` are the migrations whose statements are
all `IF NOT EXISTS` or the like. `muddled`, `jostled`, `lost` and `strayed` are history variables like `clashed`.

Simplifications, all of detail and none of control:

* `RequestCreate` merges the event's insert with the spawn of the timer; between them
  is only an append to the transparency log.
* `Letter` is the set of letters a release delivers; capsules and event letters, which
  `perform_release` skips, are the sets of `ScheduledLetters` and `PostMortem`.
* Deputies redirect event letters only. The code also lets them redirect a letter whose date
  is still ahead (`routes.rs` 2499–2502); the statements that follow are the same.
* The reads a co-steward's request makes before its first write (session, letter, deputy, vault) are
  one step. A deputy has one request in flight at a time; two deputies make the races.
* `create_release_event` writes NULL for the deadline; the model writes an instant that never comes.
* Three places ask whether the subscription allows a release (`allows_release`): `force_release`, `run_drill`
  (`routes.rs` 1207, 1282) and `scheduled_release_tick` (`scheduler.rs` 835). `HeldLetters`, where the subscription is, has all three
  (`BeginsAllowed`, `SchedBegin`); the runs of the pipeline alone and of `BeaconSystem` are of vaults whose
  subscription allows it. The aggregator and the webhook open a vault without asking.
* Of the five workers of a replica `Leadership` follows one: each is a task of its own and panics by itself.
* In `Estate` and `PrivateLetters` a release is one event: how it comes about is the pipeline's.
* `KeyFile` and `PrivateVaults` name keys; what is computed with them is not modelled.
* The clock stops at `MaxClock`, which stands for every later instant; sleeps and
  deadlines beyond it end there (`WakeTime`, `EndsAt`).
* Rounding of `f32` is left out: contributions and weights are percentages and scores
  are compared by squares.
* Rate limits, mail, logs and the transparency log have no effect on the rows modelled.

## 3. The runs

Twelve runs; `tlc -config X.cfg M` repeats one. Seven pass:

| run | asks | instance |
|---|---|---|
| `pipeline_replicas` | Does a letter go out once per cooling-off and never within it, with two poll loops, two timers, drills and a crash or error? Is every cooling-off durable where nothing fails? Does the pipeline implement `DeadMansSwitch` where nobody cancels? | 2 nodes, 2 slots, 2 letters, 2 windows, 1 fault, clock 0..3, cooling-off longer than a drill's |
| `pipeline_liveness` | Does every cooling-off end, with cancels and timers lost to a crash? Is no token early, no release complete with a letter missing? | 1 node, 1 slot, 2 letters, 2 windows, 1 crash; fairness below; no symmetry |
| `system_races` | Is there one event per opening when request, webhook and two aggregators race, and does `PipelineInv` survive their company? | 2 nodes with an aggregator each, 1 slot, 1 fault |
| `system_trips` | Does silence with a buddy's word release the letters; does silence alone not; does a check-in keep the vault calm? | 1 node, every signal kind but panic release, gap 3, clock 0..5 |
| `held_letters` | Once a dated letter has had the vault released: can two deputies, an applier and a fault redirect an event letter silently, fire it twice, or lose it without a fault? Is `PostMortemInv` invariant? | 1 node, 2 deputies, 1 event letter, 2 redirects with a hold of 1, room for 3 events, 1 fault, a subscription that may expire, clock 0..3; symmetric deputies; 3.6 million states |
| `held_liveness` | Does a letter with a date go out, or keep its date where the subscription expires first, though two scheduled-release loops and a request of the principal race for the vault? Is every due redirect settled, whatever fails? | two plots (`MCHeldLiveness`): 2 nodes with a scheduled-release loop each, 1 slot, 1 dated letter, a subscription that is `CANCELED` and may expire at any moment; and 1 deputy who may be revoked, 1 redirect; in both room for 2 events, 1 fault, clock 0..3; fairness below; no symmetry |
| `services` | The other parts, a history of each at a time; see below | 1.8 million states; symmetric tabs |

The parts of `services`, by the value of `part`:

| part | properties | instance |
|---|---|---|
| `estate` | `RowsResolve`, `NoLeftovers`, `HeirsAreServed`, `ErasureComplete`, `CancelledMeansKept` | one letter with one attachment, two regions, two movers, a sweep, a deleter, one stop, days 1..2; two kinds of operation at a time (`Plots`), over the sealing |
| `door` | `OneSessionPerTicket`, `AccountWhole` | two tabs, three tickets that last one tick, one fault |
| `house` | `CodeOpensWraps`, `LastPasskeyStays` | the same over an account that exists, two passkeys, one Private Vault |
| `key` | `EverySealedOpens` | three callers, three keys, two troubles |
| `circle` | `SeatsInOrder`, `WebhookAnswers` | two guests, two addresses, three invitations, one seat, two hooks |
| `leader` | `WorkIsCoveredOnce` | three replicas, four upsets: lost connections, panics, deaths |
| `boot` | `BootsSucceed` | two nodes, four migrations of which two are recognised in a schema made by hand and one may be repeated, two deaths or lost locks; psql may have applied any number |
| `letters` | `HeirOpens` | one letter, two addresses, two releases or drills, one mishap |
| `recovery` | `RedeemWhole` | two letters sealed for their author, one mishap |
| `score` | `EvidenceEscalates` | every observation of four sources in three classes at five levels |

The bounds. Two of each racing actor is what a race needs: two timers exist as soon as
two windows do, and the interesting third party (poll loop, cancel, crash) is there too. A
second window is what "cancelled, opened again" and "drill, then release" need; a third
repeats them. Two letters let a delivery fail half-way. One fault at a time, at every point.
Two redirects of one letter make them compete for its address. The clock has just enough instants for a deadline to be ahead, present and past in every
window. What the bounds leave open for safety, the theorems close.
In `services` two requests of a kind make the race, three tickets or invitations let one be superseded and replaced, and a part meets
no other part because they share no row.

Five end in a violation; each checks one property that restates a sentence of the
repository and is paired with a finding in `PROJECT.json`:

| run | what the sentence says | what the code does |
|---|---|---|
| `cancelled_fires` | a cancelled release is abandoned (`scheduler.rs` 469–472) | the claim compares the vault's state only: the cancelled event's timer, still asleep, performs it if a new release is cooling off when it wakes, ahead of the new deadline |
| `aggregator_panics` | the aggregator evaluates every vault (`scheduler.rs` 6–8) | `list_vaults_in_states` does not select `storage_region`, `row_to_vault` reads it: the first row panics |
| `stale_aggregator` | `RELEASED` never goes back to `ACTIVE` (`beacon-core` 866) | the aggregator writes `SUSPICIOUS` over whatever began since its listing |
| `capsule_never_opens` | a time capsule fires on its date, whatever the vault's state (`migrations/0010` 22–25) | its date has the whole vault released without it, then is cleared; in a vault that is not `ACTIVE` nothing happens at all |
| `drill_hands_out` | a drill does not send the real letter (`docs/api.md` 503) | the claim of a drill of a Private Vault is answered with the heir's envelope, and with the operator's key or half of it (`routes.rs` 1883) |

`RegionListed` is the one constant that chooses between the code as it is (`FALSE`) and as
its author meant the row to be read (`TRUE`). Only `aggregator_panics` is run with
`FALSE`: there is nothing more to ask of an aggregator that dies on its first row.

Further disagreements read in the code while translating it, without a run of their own:

* The poll loop is said to recover releases whose timer was lost (`scheduler.rs` 493–496), but after
  the claim nothing looks for `RELEASING`: a crash in `perform_release` strands the release. `NoLimbo`
  therefore excuses faults.
* A check-in that is too old is said to escalate (`docs/how-it-works.md` 54); with the default weights
  (`beacon-core` 447) and the sources the aggregator observes, the score stays below the soft threshold.
* Under duress the switch is said to be frozen (`beacon-db` 2586–2587); only the aggregator's opening
  looks at duress, so a cooling-off that is already open fires.
* Co-stewards are said to be read-only while the principal is alive (`migrations/0012` 14–16), and
  `authorise_postmortem` takes `RELEASED` for "verifiably gone" (`routes.rs` 2380). A drill passes
  through `RELEASED`: for that moment deputies may redirect and trigger.
* `trigger_event_release` means to send to the latest confirmed address (`scheduler.rs` 609–610), but it
  looks at the latest pending change: if that one still waits, an older one whose hold is over is skipped,
  and the applier applies it after the letter has left.
* `scheduled_release_tick` clears the date although `begin_release` failed (`scheduler.rs` 845–850).
* `cancel_release` writes `ACTIVE` over `RELEASING` or `RELEASED` when the claim comes
  between its read and its write (`routes.rs` 1251); `can_transition` has no such edge.
* A crash between `claim_vault_cooling_off` and the insert of the event leaves
  `COOLING_OFF` without a deadline (`scheduler.rs` 407–415, against 413–414); so does a second
  cancel whose `fetch_open_release` finds a newer release's event. `CoolingOffIsDurable`
  is therefore stated for runs without faults and without cancels.
* `ACTIVE` goes straight to `ALERT` (`scheduler.rs` 345, against 7–8), and from `ALERT` half the
  threshold and a single class open the cooling-off (362, against
  `docs/architecture.md` 156–157).
* Apple and bank pings do not reset the countdown (`routes.rs` 982; `docs/how-it-works.md` 45, 50),
  nor does WELL clear earlier worried answers (`routes.rs` 1173; `how-it-works.md` 119).
* A single missed heartbeat counts in two independence classes where the principal
  subscribes to CDR too (`scheduler.rs` 236; `how-it-works.md` 60): with two classes required silence
  alone would trip, so `SilenceAloneNeverTrips` is checked for three, the default.
* Staleness grows from the first second, so a check-in protects for half the gap
  rather than the whole of it. `CheckInKeepsActive` states the half.
* `TRIGGER_THRESHOLD` is taken unchecked (`state.rs` 177, 0.7 when unset). Below 0.2 half of it (`scheduler.rs` 340) is less than the 0.1 at which `SUSPICIOUS` goes back to
  `ACTIVE` (355), and on steady evidence in between the vault changes its state with every tick. `EvaluateEscalates` has the threshold as its hypothesis.
* Contributions do not decay, though `docs/architecture.md` says exponentially.
* The embedded list of migrations ends at 0017; the code uses tables of 0018 to 0023. Only the first three are recognised in a
  schema psql made; several later ones cannot be run twice, so a database psql took further never starts a node (`BootsSucceed` says so).
* `seal_zk_letter` inserts the letter before it looks at the heir's options (`routes.rs` 3265, 3286): a 400 leaves a letter no heir
  can open, and a release in between spends the claim on it. Whether the mail with half a key went out is not asked, and `update_letter`
  gives a split letter to a recipient who has no half; `HeirOpens` excepts all three by name (`early`, `lostMail`, `readdressed`).
* `move_vault_region`, uploads and purges that overlap leave bytes no row names, and nothing looks for them; `delete_letter_handler` says
  "blob gone, then row" (`routes.rs` 3578) and `purge_attachment` removes the row first. `NoLeftovers` is stated for handlers that met nobody.
* Moving a vault to another region is said to be idempotent and crash-safe (`docs/api.md` 169). A move that stops between repointing a row and deleting
  the old blob leaves that blob for ever, though a comment has "a later move or a sweep" reclaim it (`routes.rs` 538): the second call
  finds the row in its new region, and no sweep looks for blobs. And a claim that read the row before finds nothing, its token spent.
* A subscription that was expired just before a crash is never listed again, so its letters are not purged; two overlapping sweeps can go
  on with a deletion that was asked again and cancelled. `ErasureComplete` and `CancelledMeansKept` excuse overlap.
* `anonymise_principal` leaves the sessions; no route cancels or reactivates a subscription.
* A passkey sign-up inserts the principal before it looks at the Terms (`passkey.rs` 55–63), and an error of `set_tos_accepted` is ignored.
* Two first registrations of a passkey that overlap orphan the recovery code (`passkey.rs` 218), as does one that stops after
  the verifier is stored; the last passkey can go while a Private Vault is being made; and what is counted is passkeys, not envelopes
  (673). The web client never calls the endpoint that stores the Recovery Key.
* The key file is written over when first calls overlap or a look-up fails for another reason than absence, and is empty after a crash between create
  and write (`crypto-stub` 114).
* A revoked co-steward is said to lose access immediately (`apps/principal/src/routes/co-stewards/+page.svelte` 64); the dashboard session lasts on.
  A co-steward's session is said not to be accepted for a principal's (`auth.rs`), and `principal_for_session` does not look at the role.
* Two enrolments of one bank webhook: one is told an id that was never stored (`routes.rs` 2743).
* A supervisor that lost its connection never contends again and never stops its workers, so they run beside a later leader's for good; one whose
  worker panicked keeps the lock, and nobody takes over. `WorkIsCoveredOnce` says that nothing else doubles or stops a worker.
* `docs/api.md` 205 has a dated letter fire on its date; once the subscription has expired it never does, and keeps its date for good
  (`scheduler.rs` 835). `DatedLetterLeaves` says so.
* A purged letter keeps its heir envelope, which is the same text sealed for the heir, in operator mode with the key (`beacon-db` 1256–1269): a claim that is
  still out is answered with it (`routes.rs` 1883). The sweep is said to purge "all ciphertext" (`beacon-db` 368–369), `purge_letter_ciphertext` to "Crypto-erase"
  (1254), and an erased letter "can no longer be opened" (`routes.rs` 3431). `answer[z].erased` marks such an answer; `HeirOpens` asks nothing of it, neither the envelope nor its absence.
* A letter that is deleted while `recovery_redeem` fetches them ends the whole request with an error (`passkey.rs` 600); `RedeemWhole` is about requests
  that answer.

### Fairness

`Fairness` (and `SysFairness`) is weak fairness of the clock, of each request in flight, each timer,
each poll loop, each performer, each aggregator, the webhook, each
scheduled-release loop, each applier and each co-steward's request in flight: the runtime
polls every task that can run, and the loops are `loop { tick; sleep }`. Nothing is assumed of
the principal, the buddies or the faults: no request is ever made to happen, no signal to arrive. No
strong fairness is used. The sweep does not have to expire a subscription. `DatedLetterLeaves` excuses faults: an error in `begin_release` costs the letter its
date; and it excuses a subscription that has come to allow no release, if the letter then keeps its date for ever. `DueChangeSettles` excuses nothing. `NoLimbo` allows for a process that died; `SilenceTrips` is stated for runs
where the silence, the buddy's answer and the absence of duress last.

## 4. The proofs

`ReleasePipelineProofs` proves for every number of nodes, requests, letters, windows and
faults, every clock bound and every mix of operations that `PipelineInv` is an inductive
invariant of `ReleasePipeline!Spec`, hence:

* `TypeCorrect`: `TypeOK`;
* `ExactlyOnce`: a letter goes out at most once per cooling-off window;
* `NoLeak`: no letter is out while its window is still cooling off;
* `NotBeforeDeadline`: no token precedes the deadline of its event;
* `NoHollowRelease`: `RELEASED` and `released_at` only with every letter out.

They hold in spite of cancels, crashes and failing statements. `PipelineInv` is `CoreInv`, which is about windows, deadlines and
deliveries, and `ReleasedMeansDelivered`, about the marks of a completed release; they are apart because the deputies of
`HeldLetters` set such a mark on an event of their own. `GuestKeeps` is what the two compositions need: `CoreInv` survives any
step of others that leaves clock, requests, polls and tokens alone and at most opens a window, adds, releases or closes events, or starts timers that sleep out the deadline. Assumptions:
`BoundsAssumption` and `PipelineAssumption` only (positive durations, natural bounds, node names that
are not event numbers).

The safety properties are not inductive. What is missing is *ownership*: `ExactlyOnce` says
nothing of a worker about to issue a token. `WindowInv` adds that a performing worker owns
the window in which it won the claim: no other performer has that window, the window is
not the one cooling off, and every token of the window is the worker's own, for its own
event, of a letter it no longer has to deliver. The only steps that create an owner are
`TimerWins` and `PollWins`; they need `COOLING_OFF`, and by the invariant the current window then has
neither owner nor token. `DueInv` carries the deadline from the request (`endsAt`) to the row, the
timer (`wake`) and the listing, and `DeliveryInv` says that what is not in `todo` is
handed out. The steps are sorted by what they do to ownership (`StepKinds`): quiet, winning,
issuing, finishing; one lemma each.

It proves `Refinement` too: where `"cancel" \notin Ops`, `Spec` implements
`DeadMansSwitch!Spec` under the mapping of `ReleaseRefinement`. The invariant it needs besides is
`UncancelledInv`: a performer's window is the current one and the vault's state is the one its
place in `perform_release` implies, which a cancel in flight would break. Each step is then
shown to be `Open`, `Fire`, `Hand`, `Complete`, `Return` or a stutter. With cancels the refinement is
false (`cancelled_fires` shows how).
And it proves `Durable`, `CoolingOffIsDurable` under the same hypothesis: by `DurableInv` a vault that cools off without a fault has
its request at the insert, or the last event is open and due in time. With cancels this is false too (section 3).

`BeaconSystemProofs` proves, for `SysSpec` with any number of nodes, aggregators, requests and faults and any weights:

* `PipelineHoldsUp`, `SystemTypes`: `PipelineInv` and the types survive the aggregators and the webhook. All these do to the rows is to write a
  watchable state, open, or add an event (`Company`, `CompanyKeeps`). An aggregator that writes a stale state breaks no promise
  about what is handed out; it breaks the course of the states (`stale_aggregator`).
* `OneEventEach`: `OneEventPerOpening`. A step that claims the opening adds one to the windows and one to those about to create, a step
  that creates moves one from there to the events, and nobody else joins them; so the sum never overtakes. Request slots are named
  apart from nodes and numbers (`SystemAssumption`), or two actors would be counted as one.
* `SilenceNeverTrips`: `SilenceAloneNeverTrips`, where `SilenceIsTooFew`: heartbeat and bank are fewer classes than `MinClasses`. Section 3
  says why it needs that hypothesis: with CDR subscribed and two classes it is false. `SilenceInv` says of a tick that what it read of
  the vault is no alert either, since it goes on with it after the vault has changed.
* `CheckInHolds`: `CheckInKeepsActive`, where `HalfGapIsCalm`: nearly half a gap of silence from heartbeat and bank scores under half of the
  threshold, which is a fact about the weights. `LightWeightsAreCalm` says for which: their squares add up to no more than the threshold's; the
  defaults' do. `CheckInInv` says that what a tick has listed is the last check-in before its listing, or a newer one is not before it.
* `RunsItsCourse`: `ReleaseRunsItsCourse`, where `Undisturbed`: nobody cancels or drills, and no aggregator gets past its listing. The run
  `stale_aggregator` violates this property; the theorem shows that of all the actors only the aggregator's `set_vault_state` does it, since
  requests, timers, pollers, panic releases and faults, in any number, keep to COOLING_OFF, RELEASING, RELEASED (`Course`). By `CourseInv` who performs has claimed the
  vault, and nothing is a drill's. The build as it stands is undisturbed, because its aggregator panics (`aggregator_panics`):
  mending the listing without the write would let the second fault out.

`TriggerScoreProofs` is about the operators: evidence that is at least as strong from each source has at least the score (`ScoreGrows`) and
the classes (`ClassesGrow`), so it alarms where the weaker does (`AlarmGrows`), and staleness grows with silence (`StalenessGrows`). The
score is compared squared, a sum of one square for each source (`SumOfSquares`), so the proofs need no induction over the sources.

`HeldLettersProofs` proves, over the composition `HeldSpec` of pipeline, scheduler and co-stewards and for every
number of deputies, appliers, letters, redirects and faults, that `PostMortemInv` is an inductive invariant, hence:

* `NeverSilently`: the address on an event letter's row, and the one it was sent to, are the principal's or
  come from a redirect of that letter whose hold ran out uncancelled;
* `FiresOnce`: an event letter is handed out at most once.

`NoSilentRedirect` speaks of rows and claims; what may still go wrong is in the hands of requests and listings. So
`HoldInv` adds that a trigger about to apply, and every entry of an applier's listing, is *ripe* (its hold is
over, which time only makes truer), `AddressInv` that an address already read for delivery was applied to that letter,
and `FiringInv` that between mark and claim one deputy owns the letter, and nobody after that. The statement
`apply_recipient_change` does the rest: it touches only what is pending (`ApplyKeeps`). Pipeline and scheduler
disturb none of it, since all they do to the rows it reads is to let the clock run and to insert events
(`PipelineCompany`, `SchedulerCompany`, `CompanyInv`). Assumptions: `BoundsAssumption` and `PostMortemAssumption` (natural
bounds and hold).

The other way round, `HeldInductive` shows that pipeline and scheduler suffer nothing from the co-stewards: `HeldInv` is `CoreInv`,
`StateMeansDelivered`, the scheduler's deadlines (`SchedInv`), the events deputies deliver for (`TriggerInv`), `PostMortemInv` and
`EventLetterNotLost`. From it:

* `HeldTypes`: the types; `NotLost`: `EventLetterNotLost`;
* `GuestsKeepPromises`: once per window, not early, not while it cools off, as in the pipeline alone;
* `StewardsComeAfter`: who may act as a co-steward does so after some release handed out every letter.

These assume `PipelineAssumption` as well. `ReleasedMeansDelivered` as a whole does not hold here and is not claimed: `released_at` of a deputy's event says nothing of the
other letters.

`EstateProofs` proves `RowsNeverDangle`, `RowsResolve` for `EstateSpec`, for any letters, attachments, movers, sweeps, stops and plots.
A row's key is not enough to know: a mover holds a key it will write and one it will delete, an upload one it will insert, a sweep one it read
from a row it removed. `StoreInv` says that the first two exist and hold the right bytes, that no two of them are the same, and that
none of those about to be deleted is on a row or about to be (`StoreInductive`). Fresh keys make it so: every `put` has its own number.

The promises of a handler that meets nobody need its whole course. `EstateInv` (`EstateInductive`) has a part that holds however many are
at work: types, `StoreInv`, what rows and tokens look like (`UploadRows`, `TokenRows`), the request on record (`AccountInv`); and a part under `Alone`, `Courses`,
which says at each statement of sealing, moving, reaping, claiming and sending what has been done and what is ahead. `Solo` joins them: while nothing
clashed at most one handler is at work, so a step of one disturbs the course of no other. `Accounted` is the heart of it: a blob in the store
is on a row or in the hands of the one handler that will see to it. Hence, for any letters, attachments, regions, movers and sweeps:

* `NothingLeftOver`, `EveryHeirServed`, `ErasedEntirely`: `NoLeftovers`, `HeirsAreServed`, `ErasureComplete`;
* `CancelledIsKept`: `CancelledMeansKept`, in spite of stops;
* `EstateTypes`.

Assumptions: `StoreAssumption`, `ContentsAssumption`, `EstateAssumption`, which bound the counters, give every attachment a letter, and keep the names of letters and attachments, and of sweeps and
deleters, apart: tokens and reapers are functions over both.

`AccessProofs` begins with the types (`AccessTypes`). Codes and wraps are ranges that grow (`RangeInv`); that there are no more sessions than
`MaxTickets + 1` takes a count: each session was earned by a link or a challenge, but for the one of the request that makes the account (`SessionInv`).
It proves `OneSession` for the sign-in and the passkey requests together, for any number of tabs, tickets and faults: `TicketInv` says that who is
past the consuming statement has the ticket alone, that it is shut, and that it has earned nothing yet.
It proves `HeirsOpen`, `HeirOpens` for `LettersSpec`, for any letters, addresses, releases, drills and mishaps. It relates two things told to two people, in
either order: the mode the author was told, and what a claim was answered with. `LettersInv` says that nothing is promised before the row is there and that only
the letter's deletion takes it away (`SealKeeps`, `PromiseKept`), that outbox, claim and answer name the recipient who was mailed while nobody changed
it (`MadeOut`), and that the row still has what was answered, unless the answer came before the envelope (`AnswerStands`); `HeirOpens` follows. `RecoveryIsWhole`, `RedeemWhole`, needs `RedeemInv` besides: no letter comes back from deletion or is sealed a second time, so what was listed and can still be read has
been fetched or will be.

`PrivateInductive` is about what the tickets lead to, for `AccessSpec`:

* `AccountIsWhole`: `AccountWhole`. The INSERT that succeeds chooses the one request that makes the account (`MakingInv`); what the
  account lacks is what that request has ahead of it.
* `CodesOpen`: `CodeOpensWraps`. The verifier is always of the latest code; while requests take turns nobody makes a second one,
  since who is about to make one found none and nobody else has (`CodeInv`).
* `LastOneStays`: the action property `LastPasskeyStays`. Between count and delete the other passkey stays where it is,
  and no Private Vault is made, unless requests overlap (`DropInv`).

Assumptions: `SignInAssumption`, `VaultAssumption`, `PrivateLettersAssumption`.

`PartsProofs` proves `SeatsKept` and `WebhookKept` of the circle; who is about to be counted in or told an id must have it from the row that is there.

The rest of it is about the parts that belong to a node. `SealedOpens`, for any number of callers: where nothing is muddled, one call at most makes a key, and
every key anybody read is the file's. `WorkersCovered`: the lock is with a supervisor that holds, a worker without the lock means a lost connection, and a supervisor that
holds or returned has its worker unless that panicked.
`BootsAlwaysSucceed`, for any number of nodes, migrations and deaths: by `BootInv` who applies has everything before its place on record,
and, while no lock was lost, has the lock, and what it saw of record and schema still holds when it acts on it. The types
of all four are theorems of their own (`LeaderTypes`, `MigrationsTypes`, `KeyTypes`, `CircleTypes`). Assumptions:
`LeadershipAssumption` and those of `Circle`, `KeyFile` and `Migrations`.

`ServicesProofs` is about `MCServices`, for every value of its constants:

* `PartsAreThemselves`: the composition implements each part's own specification, `EstateSpec`, `KeySpec`, `CircleSpec`, `LeaderSpec`, `MigrationsSpec`
  and `LettersSpec`. Sign-in and passkeys take their steps one kind at a time there, and may begin with an owner signed in, so they are
  shown to keep the invariants instead (`AccessHere`, `HouseHere`).
* `ServicesTypes`: `ServicesTypeOK`; `PromisesKept`: the other properties of the run.
* `EvaluateEscalates`: `EvidenceEscalates`, where the threshold is at least 0.2. Below that it is false: half of the threshold then lies under the score of 0.1
  at which a suspicious vault calms down, and the aggregator swings between `ACTIVE` and `SUSPICIOUS` (section 3). `EvaluateMonotone` is the heart of it.

Left to TLC:

* liveness (`NoLimbo`, `DeadlineSurvivesRestart`, `SilenceTrips`, `DatedLetterLeaves`, `DueChangeSettles`): fairness and `ENABLED` are out of
  the prover's reach;
* the runs that end in a violation: a counterexample needs no proof.

## 5. What would come next

1. Buddies: invitation, confirmation and revocation, as `Circle` does for co-stewards.
2. Giving a letter its date, another one or none while a tick has it in hand, and the deputies' redirection of dated letters.

## 6. What is not modelled

The ciphers and the media transform are functions of bytes; the CLI and the web applications are clients; configuration,
metrics, tracing, the wording of mails and static files have no state that a property here is about. The rate limiter counts in
floating point under one mutex and nothing depends on what it counts; it never evicts a bucket. Contacts, the transparency log, listings and
`export_letter` are rows one request writes or reads on its own. `MIGRATE_ON_BOOT=skip` touches nothing. The fields of a deputy's
redirection of dated letters, buddies' invitations and the editing of subscriptions are left out; `PROJECT.json` says so of each component.
