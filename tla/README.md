# secretd in TLA+

secretd is a desktop application that keeps secrets and an AWS sign-in in an
encrypted vault, and hands them to command line tools only when the user allows
it. A tool connects to a local socket and asks for a secret (`secretd get`) or
for role credentials (`secretd aws credentials`); unless an earlier decision
covers it, a window asks the user. This directory models that machinery in
TLA+, model-checks it with TLC, and proves its safety properties with TLAPS.

## Inventory

| Part | State | Operations | Talks to |
|---|---|---|---|
| `controller.rs`, secret requests | `pending`, `pending_resolutions`, `waiting_for_unlock`, `grants`, `audit` | `begin_request`, `respond`, `timeout_request`, `release_after_approval`, `lock`, `unlock`, `save_secret`, `delete_secret`, grant edits, `snapshot` | connection threads through one-shot channels, views through calls |
| `controller.rs`, AWS requests | `pending_aws`, `pending_aws_resolutions`, `aws_process_decisions`, `aws_process_denials` | `begin_aws_request`, `respond_aws`, `dismiss_aws_request`, `timeout_aws_request`, `set_aws_grant_level`, `extend_aws_grant`, revocations, pruning | the same |
| `grants.rs` | a `Vec<Grant>` with expiry times | `add`, `find`, `list`, `revoke`, `extend` | the wall clock |
| `ipc/server.rs` | listener thread, a thread per connection, `active` counter, endpoint file | `start`, accept loop, `close`, `handle_secret_request`, `handle_aws_request`, `begin_aws_login`, `run_aws_login` | controller (one mutex), broker, clients |
| `aws.rs`, `aws/browser.rs` | `AwsBroker.operation` mutex, `AwsSettings` (registration, token, targets), `AwsLoginStatus` | sign-in, token refresh, discovery, role credentials, browser callback | AWS over HTTPS, the vault through `persist_aws_session` |
| `vault.rs` | key, salt and payload in memory; the encrypted file | `create`, `unlock`, `lock`, `save_*`, `rename`, `delete`, `change_password`, `atomic_write` | the file system |
| `process.rs` | none | `inspect_process_tree`, `same_process`, `is_launchd_process`, `omit_secretd_client_processes`, `verify_connection_owner` | the operating system |
| `app.rs` | `MainView`: modal, inputs, revealed value; `RequestView`: the request on display | every controller call, `clear_sensitive`, `dismiss_oldest_request` | controller |
| `runtime.rs` | `Windows`: which are open, `closing_request` | event loop, `reconcile_windows`, `observe_closed_windows`, tray menu | views, controller |
| `ipc/client.rs`, `bin/secretd.rs` | none | one blocking request | server |

What is hard here is concurrency around one mutex. A connection thread enters
the controller, leaves it, sleeps on a channel with a timeout, and enters again;
the user interface and other threads run in between. Decisions settle several
sleeping threads at once, and must not miss one that arrives at the same time.
Time matters twice: the wall clock decides what has expired and may be set
back, `recv_timeout` races the user's answer. A credential request works for
minutes, outside the mutex, on settings it copied, while the user locks the
vault or changes the connection; a refresh token that AWS has replaced is spent
whether or not the new one was saved. The vault file is replaced in several
steps, any of which may fail or be the last. The main thread decides on windows
in one critical section and acts in another.

For each part, what makes it correct:

- **requests**: one verdict per request, recorded as it was answered; every
  request is answered; a value only on an approval or a covering grant; no
  request asks for what a decision already settles; nothing of one unlocked
  session reaches the next.
- **grants**: bounded lifetime; revoking ends the access; the boundary is a
  process of the requester's tree and never launchd.
- **AWS decisions**: additionally no scope is both granted and blocked, and the
  level that is handed out is that of a live grant.
- **AWS session**: one operation at a time, a rotated token is saved also when
  what it was rotated for fails, a session stays with its connection, the user's settings are not written over,
  no credentials are issued on a revoked grant, the sign-in status ends.
- **vault**: file and memory agree when a save succeeded; a crash leaves a file
  that can be opened; no secret disappears that was not deleted.
- **server**: slots are returned; every client that was let in hears something.
- **windows**: closing a window touches the request it showed and no other; a
  locked vault leaves nothing on display.

## Modules

```
WallClock            clock, durations, extension of an expiry
  GrantStore         grants.rs
    SecretAccess     secret requests ──── INSTANCE ──► ApprovalGate
      SecretAccessProofs
        GateProofs   SecretAccess implements ApprovalGate's safety part
      MCSecretAccess the instances for TLC
  AwsAccess          AWS requests ─────── INSTANCE ──► ApprovalGate
    AwsAccessProofs
      AwsGateProofs  AwsAccess implements ApprovalGate's safety part
    MCAwsAccess      the instances for TLC

AwsSession           what an approved AWS request does, and the sign-in
  AwsSessionProofs
  MCAwsSession       the instances for TLC

VaultStore           vault.rs and its file ─ INSTANCE ──► VaultRegister
  VaultProofs
  MainView           the main window over the vault
    MainViewProofs   (also extends VaultProofs)
    MCMainView       the instance for TLC

ProcessTree          process.rs
  RequestServer      the server's threads and the clients
    Desktop          the whole process: server, request window, event loop
      DesktopProofs
      MCDesktop      the instances for TLC
```

Three compositions correspond to three questions. Requests and grants
(`SecretAccess`, `AwsAccess`) are about what the controller decides; the session
and the vault are about what it does with a decision or a change; `Desktop` is
about the process around it, where a request is no more than its place in the
queue and what settled it.

**WallClock** holds `now_millis` and the durations. `ExtendedExpiry` is the rule
`extend` and `extend_aws_grant` share.

**GrantStore** is `grants.rs`: one operator per method. The order of the `Vec`
only decides which of several covering grants `find` returns, which no caller
tells apart, so the store is a set; the uuid stays, because without it two equal
grants would silently be one and `OneGrantPerScope` would say nothing.

**SecretAccess** has one action per controller method (a method holds the mutex
from start to end) and one per step of a connection thread. `handler[c]` is
where thread `c` is: `waiting` inside `recv_timeout`, `elapsed` between its
return and the next `lock()`, then one of four answers. `channel[c]` is the
content of the one-shot channel. Keys of `pending` and `pending_resolutions` are
inserted and removed together in every method, so both are the set `pending`.
A request has a connection's name rather than a uuid: a connection carries one
request. A slot is used again for a new connection once its thread has
answered. `audit[c]` is the *set* of activity entries about the slot's latest
request: this loses only how often one action was recorded, and keeps every
contradiction between two entries. `begin_request` is four actions, one per
outcome; `respond` is three, one per decision. A vault file that does not exist
yet is one without secrets, so `create_vault` is `Unlock`. `Save` leaves the
file as it was when writing fails, with the change already in memory.

**AwsAccess** is built the same way. Trees are sequences, because the *nearest*
granted ancestor decides the level. `retain` keeps at most one decision and one
denial per profile and process, so the records need no uuid. A thread that was
given a level is at the end of this module: what it does with it (operation
lock, token, sign-in, role credentials) is the AWS session. `DropTargets` is the
one effect of a sign-in on this part. Processes in `Mortal` may exit, which
`prune_exited_aws_grants` notices.

**ApprovalGate** is the abstract specification: per client a stage, a verdict
and an answer. Verdicts are final, a value needs an approving one, everyone is
answered. The refinement mappings read the verdict off the activity entries,
the channel and the thread; `void` is an outcome nobody decided (a timeout, a
missing name, and for AWS a lock, which records nothing).

**AwsSession** takes over where `AwsAccess` hands out a level. `pc[t]` is where a
thread is, `draft[t]` the `AwsSettings` it works on, `holder` the broker's
operation lock. Each critical section of the controller's mutex is one action;
so is each call to AWS or wait for the browser, between two of them. What AWS
answers is a set of *outcomes*: a result, the settings as `aws.rs` leaves them,
and what became of the refresh token: kept, replaced, or replaced in a reply
that was lost. Tokens are numbered in the order AWS issues them and carry, as
the model's own knowledge, the portal that issued them. `Persist` is
`persist_aws_session`, whose check of the connection is `Persistable` and whose
merge into the present settings is `Merged`; it comes before the result is
looked at, as in `handle_aws_request`. The aliases (`targets`) are accounts, one
alias each. `spoiled` remembers that the program reported a failure after which
a token may be lost, and is used by one property only. `granted[h]` is the grant
that approved helper `h`, as `AwsAccess` has it.

**VaultStore** is `vault.rs`, with the controller's edits of one secret. The
encrypted file is what its key decrypts to. `save_with` and `atomic_write` are
five steps with a failure of each: open the temporary file, write and sync it,
rename it, sync the directory, take over what was saved. `survivors` are the
files a power loss may leave, `visible` what readers see now: a rename is
immediate for readers and reaches the disk later. The mutex is held for the
whole operation, so operations do not interleave with each other, but the
process may be killed and the power may fail between any two steps. Saves of AWS
settings take the same path and are one step of `AwsSession`.

**VaultRegister** is the abstract specification of the file: a register that is
always a value somebody wrote as a whole.

**MainView** puts the forms of the main window over the vault: one action per
handler of `MainView`, with the input buffers, the open modal and the revealed
value, and the tray's Lock. A handler starts a vault operation and is answered
later; it keeps the main thread meanwhile. `clear_sensitive` is `ClearSensitive`.

**ProcessTree** is `inspect_process_tree` as a walk over a table of processes
that changes between two looks: processes exit, their children are adopted by
the root, and their IDs are used again.

**RequestServer** is the accept loop with its counter, one thread per
connection, the endpoint file, `close`, and the client. Both handlers go through
`request_process`, register with the controller and wait; that is one sequence
of stages here, `conn[c]`. A thread's reply or the end of its connection is what
the client hears.

**Desktop** adds the main thread: `RequestView` with the request it has on
display, and the event loop. `main` holds what is left of the current turn where
it leaves the mutex in between: `reconcile_windows` takes a snapshot and then
opens or closes, `dismiss_oldest_request` takes one and then denies.
`DesktopProofs` and the runs are about this composition.

In all modules process identity is exact: `same_process` never confuses two
processes. `verified` is a free Boolean of a request: what
`verify_connection_owner` found. Request names are normalised already.

## Runs

| Run | Instance | What it asks |
|---|---|---|
| `secret` | two connections, one secret, two tools under one shell, two grant ids, clock 0..3, grants of up to 2 units | type invariant and all safety invariants of secret requests |
| `secret_names` | two secrets, one tool, clock 0..1 that may be set back | under renames, deletes and failed saves: no approval strays to another name, and every new grant is the user's answer to a request for its name |
| `secret_progress` | two connections, a tool and an orphan below launchd | `ApprovalGate` with its liveness; every request is answered |
| `aws` | two connections: a shell, and a tool below it that may exit; one profile, clock 0..1 | all safety and action properties of AWS requests |
| `aws_profiles` | two connections of one tool, two profiles | a decision about one profile leaves requests for the other alone |
| `aws_progress` | two connections of one tool, a clock that may be set back | `ApprovalGate` with its liveness, when one timeout denies a sibling |
| `aws_launchd` | a client whose parent exited | **violated**: see Findings |
| `session` | a credential request and a sign-in, two portals, one account, three refresh tokens | status, tokens and settings stay consistent whatever AWS answers and the user does meanwhile; a success is in the file when it is reported; every operation ends |
| `session_revoked` | the same with two refresh tokens | **violated**: see Findings |
| `vault` | two names, one value, two passwords, two surviving files | failed and interrupted saves, renames and password changes; the file implements `VaultRegister`; a locked window is empty |
| `desktop` | two clients, one for AWS; two slots, one spawn that fails; four process IDs, trees of up to three | slots, trees, sleeping threads and dismissals with clients that leave, quits, crashes and restarts; every client hears |
| `desktop_close` | the same | **violated**: see Findings |

Bounds. Two connections are the smallest number with an interleaving, and
enough for every interaction in this code: a method touches one request and a
*set* of others, each of them in the same way. Two boundaries inside one another
(shell and tool) and two beside one another (two tools) are the ways two scopes
can relate. Two grant ids let a second grant be added while an expired one is
still stored; a third would have to be for a third scope. A unit of time stands
for any duration; a maximal grant of two units is longer than a default one or
an extension of one, so that extending, expiring and the cap all occur. `secret`
gives grants time to be extended twice and expire. Connections (and secrets or
profiles where there are two) are symmetric in the safety runs; the runs with
liveness use no symmetry. In most runs launchd is left out of the trees: no
approval can choose it, so it is just one more process there.
The proofs remove these bounds for the safety properties. Some properties are
proved and are in no run (`RulesAreAnswers`, `DecisionsStand`, `RevokeEndsScope` for
secrets and others, under "Proofs"): they are stated in the modules beside the checked ones.

The bounds of the other runs, by their constants. `MaxIssued` = 3 is the token a
session starts with, one from a rotation and one from a sign-in (or another
rotation), so that a second thread can rotate what a first one saved; two
portals let a user change the connection and change it back. One account is
enough: what discovery does to a target depends on that target's account alone.
`MaxSurvivors` bounds how many unsynced renames can pile up when the sync of the
directory fails; with two a power loss can go back to an older file than the one
before the last. One value is enough in `vault`: what an edit loses or swallows
is a name, and no operation compares values. `MaxLeaks` = 1 of two slots lets
one client be refused for a leaked slot while another is served. `Times` has two
values, so that two requests are equally old or one older. Four process IDs are
the root, the two clients and a parent that can exit and be replaced; `Limit` 3
is reached, in place of 12. Names, values and passwords are symmetric in `vault`,
which has no liveness.

Every run checks deadlock: there is none, the user can always lock, and a
desktop that ended can be started.

Fairness. In the access modules only the threads are fair: `WF_vars(ThreadStep(c))`. `recv_timeout`
returns at the latest after 2 (AWS: 10) minutes, and every controller method is
short, so a thread that wants the mutex gets it. Nothing is assumed of the user,
of other clients, or of the clock: `EveryRequestIsAnswered` holds when the user
never answers.

In `AwsSession` every thread is weakly fair: calls to AWS have timeouts, and the
wait for the browser ends after ten minutes (`Deadline`). The browser's callback
and the user are not fair. That a thread waiting for the operation lock gets it
is an assumption: `std::sync::Mutex` does not promise it. The model has finitely
many threads, each of which takes it once, so nobody is overtaken for ever there;
a tool that keeps asking could do that to a sign-in (a hazard in `PROJECT.json`). In `Desktop` the accept
loop and each connection thread are fair (reads, looks at processes and waits
have timeouts), the main thread's end after Quit is, and so is the listener's
end once the process is quitting, not before: a listener that never fails is no
error. The backlog is first come, first served, as the operating system has it.

## Findings

Three statements of the documentation do not hold of the code; each has a run.

`aws_launchd`: when nobody answers an AWS request, `timeout_aws_request` blocks
the requesting process itself, as the README says, but does not look at what
that process is. A tool whose parents have exited is a child of launchd, and
with secretd's own client left out of the tree the requester *is* launchd. The
denial then covers every process, and for 30 minutes every verified request for
the profile is refused without a window. Everywhere else the code refuses
launchd as a boundary (`controller.rs:985`, and the test
`aws_block_rejects_a_boundary_outside_the_verified_tree_or_launchd`). The run
shows it in three steps: ask, elapse, time out. The proofs say how far it goes:
launchd is never granted, and never blocked by the user's own answer
(`LaunchdAlwaysOrphan`), and where no requester is launchd itself the refuted
property holds (`LaunchdNoBoundaryWithoutOrphans`).

`session_revoked`: "Revoking or expiring a grant prevents secretd from issuing
another set automatically" (`README.md:95`). `handle_aws_request` looks at the
grants once, before it waits for the operation lock and perhaps ten minutes for
a sign-in. What it reads again under the lock are the settings, not the grant, so
a grant revoked in between still yields credentials. Locking the vault ends all
grants too, and stops the thread only if the vault is still locked when it looks.

`desktop_close`: "closing the approval window affect[s] only the current request"
(`README.md:109`). `dismiss_oldest_request` asks for the oldest request after the
window is gone. If the one on display was settled meanwhile by its timeout, or
one that sorts before it has arrived since it was drawn, another request is
denied, which the user may never have seen.

## What the code leaves open

Beside the findings there are losses the code accepts. Nothing in the repository
says otherwise, so no run refutes anything; the models have the behaviour, and no
property here should be read as excluding it. Each is a hazard in `PROJECT.json`.

- *Leftover grants.* When a deletion cannot be written, the secret is gone from
  memory and its grants stay (`DeleteSecret`); trying again does not find the secret.
  A temporary approval of a request whose secret was renamed or deleted meanwhile
  makes a grant for a name that is not in the vault (`AllowTemporarily`). Whoever saves
  that name next inherits the grant, and `AutoGrantsAreCovered` takes it for any
  other. What is proved bounds it: the user chose that name and that process
  (`GrantsComeFromTheUser`), in this unlocked session (`SessionsAreSeparate`).
- *Lost rotations.* A new refresh token is lost when the vault is locked before it
  is saved (`FailToSave`), and when a sign-in fails after its first discovery renewed
  the session (`SignInFails`: `run_aws_login` drops the settings). Both are reported,
  and `SessionSurvives` excepts them with `spoiled`; it speaks of the attempts whose
  token must be saved, the failed ones among them.
- *Late errors.* The sign-in button's thread reports without the operation lock
  (`Report`), so that an old error may stand over a newer sign-in until its next
  status. `StatusIsBacked` is about the other direction: no status in progress without
  a thread behind it.
- *Leaked slots.* A thread that cannot be started keeps its slot for good
  (`SpawnFails`, counted in `leaked`). `SlotsAreAccounted` says that nothing else does.

## Proofs

`SecretAccessProofs` proves for every value of the constants (any number of
connections, secrets, processes and grants, any tree, any clock) that the safety
properties of `SecretAccess` hold in every reachable state. The assumptions are
`DurationAssumption` (a grant has a positive maximal length, the default and the
extension fit in it) and `TreeAssumption` (the requester is in its own tree).

The argument is one inductive invariant, `Consistent`. None of the properties is
inductive by itself:

- `NoCoveredPending` is preserved by `AllowTemporarily` because that settles
  everything in the new scope, by `BeginQueued` because a request that a stored
  live grant covers is not queued, and by `Unlock` only because a locked vault
  has no grants: that is `SessionsAreSeparate`.
- `OneGrantPerScope` follows from `NoCoveredPending`: a grant is only added for
  a verified pending request, which no stored grant covers.
- `AnswersMatchActivity` needs to know what is in the channel when it is
  received: `ResolutionsMatchActivity`.
- that needs `NoLostResolution`: a pending request has an empty channel.
- `waiting ⊆ pending` makes `Unlock` notify exactly the requests it drops.

`StepKinds` splits a step by what it can disturb; `TypeStep`, `SessionStep`,
`ResolutionStep`, `CoverageStep`, `ScopeStep` and `ActivityStep` prove the parts,
and `ConsistentAlways` puts them together. The action properties follow from the
invariant before and after a step. `GrantLifeAlwaysBounded` is an invariant of
its own, under the condition that the clock is not set back.

Four more theorems come from following a grant back to its origin. A step that
opens a secret to a process it was not open to is one kind of step, the user's
temporary approval of a pending and verified request from below that process
(`GrantsAlwaysFromTheUser`); `AnswerStep` goes through the others, of which renaming
and a failed save are the ones to argue about. `LaunchdNeverBoundary` follows.
`NothingEverApprovedWhileLocked` needs the session part of the invariant:
`respond` looks at `waiting_for_unlock` and not at the vault. `extend` cuts the
new expiry to the maximum from *now*; that this is not a cut of what the grant
had, `ExtensionsNeverShorten`, rests on `GrantLifeIsBounded`, and so on a clock
that is not set back.

`GateProofs` proves `Spec => Gate!Safety`: under the refinement mapping every
step is a step of `ApprovalGate` or a stutter. `ViewIsLocal` says that a client's
view depends on its own variables; with `OneClient` a thread's step becomes a
step of the gate, and with `Verdict` a decision about a set of pending requests
becomes `Judge`. What that is worth is a second theorem, about `ApprovalGate`
alone: whoever keeps its steps hands out a value only on an approving verdict, and
the verdict on an open question stands (`PromiseIsKept`).
`ClientsGetWhatWasDecided` carries it back to the code through the mapping.

`AwsAccessProofs` does the same for `AwsAccess`, from `DurationAssumption` and
`TreeAssumption` (a tree is a non-empty sequence of processes). Its invariant,
also called `Consistent`, shows why the code needs no check it leaves out:

- `NoContradiction`: `remember_aws_denial` never looks at the grants. A denial is
  made for a verified pending request, on a process of that request's tree, and
  by `NoCoveredPending` no grant covers that request. The timeout needs
  `TreeFacts` too: the requester is a member of its own tree.
- `NoCoveredPending`: a request made while the vault is locked is queued without
  a look at the grants; `LockedHasNoGrants` says that there are none.
- `AnswersMatchActivity` needs `ResolutionsMatchActivity` and `NoLostResolution`,
  as above. `RespondingSettles` sums up what the three answers of the window do
  to the requests they settle; `Settled` draws the conclusion once.

`GrantsAlwaysInForce` is an action property: the nearest live grant gives the
level, and no denial covers what is granted. `AlwaysOneNearestGrant` says that there
is one whenever any covers the request: the least position in the tree exists by
well-founded induction (`FirstPosition`), and two grants there would be two for one
scope, which `AlwaysOneRulePerScope` excludes (a level is changed by replacing).
`RevocationEndsScope` follows from the same fact, and so it covers a grant whose
level or expiry was edited. `RulesAlwaysAnswers` goes back to the origin of grants
and denials, the timeout being the one that nobody decided. `AnswersNeverReplace`
states what makes `retain` in `respond_aws` and `remember_aws_denial` a precaution:
a rule they would take out covers the request that is being answered, and by
`NoCoveredPending` that request is not pending. `AwsGateProofs` proves
`Spec => Gate!Safety` again; its new case is `TimeoutRequest`, one client giving
up with its siblings denied in the same step.

`AwsSessionProofs` proves the four invariants and the action property of
`AwsSession`, for any number of threads, connections, accounts and tokens, from
`ThreadAssumption`, `IssuedAssumption` and `NoneAssumption` (the two kinds of
threads are disjoint, a token has been issued, the absent token and settings are
none). Two invariants do it:

- `Consistent`: the place of a thread and the operation lock determine each
  other (`OperationsHold`), and every token, saved or in a draft, was issued at
  the portal it is kept under (`SavedOwned`, `DraftsOwned`). `StatusIsBacked`
  follows from the place of the holder, `TokenMatchesPortal` from the comparison
  in `Persistable`. What AWS may answer enters through one lemma per call
  (`CredentialsAnswer`, `DiscoveryAnswers`), and steps are proved by kind:
  `Moving`, `Returning`, `Waiting`, `Saving`, `Receiving`.
- `Sound`, for `SessionAlwaysSurvives`: as long as no failure was reported, the
  file says what memory says, every draft has a token AWS still accepts, and if
  the *stored* one was replaced, then a thread is still to overwrite it
  (`StaleIsRepaired`). Its draft has the portal of the file, so `Persistable` will
  not refuse it; if the user changes the connection, the stale token is gone too.

From them follow that operations exclude each other from load to save
(`OperationsAlwaysExclude`), that no thread sends a token AWS has replaced
(`ReplacedTokensNeverSent`), and `SuccessAlwaysSaved`: credentials leave, and a
sign-in shows as logged in, only when the session they came from is in the vault
and its file. The last one is about a result that is looked at after `Persist`;
`OkAnswers` and `PersistSaves` follow an answer of AWS to that point.

`VaultProofs` proves `FileMatches`, `SecretsStay` and that the file implements
`VaultRegister`, from `SpecialValues`. Its invariant says what the write in
progress has to do with memory at each phase (`WriteConsistent`) and that no
damaged file can survive, which is where the sync before the rename is needed.
`PasswordAlwaysTheFiles` follows the key: memory has a new one only after the file,
and only a change of the password, or a power loss that undoes one, changes the
file's. It needs one invariant more, that a vault being created replaces no file
(`CreatesTheFile`). `RegisterKeepsWhole` is about any `VaultRegister`, and
`FileAlwaysWhole` brings it back to the file.
`MainViewProofs` first proves that every step of the window is a step of the
vault or leaves it alone (`ViewKeepsVault`: `ViewSpec => Spec`), so that the vault's
theorems carry over (`VaultUnderView`), and then `LockedShowsNothing`, whose
invariant `ViewConsistent` knows which handler waits for which vault operation.

`DesktopProofs` proves the types, the slot count and `DismissedOnlyByTheUser` for
any number of clients, slots and processes, from `ProcessAssumption`,
`ServerAssumption` and `AwsAssumption`. The slot count is an equation between a
number and the cardinality of a set that changes by one element at a time;
`StagesOK` and `SlotsOK` keep apart the connection being accepted, live threads and
leaked slots. That an observed tree never repeats a process is `WalksOK`: it holds
because of the check in `GoesOn`, whatever the process table does meanwhile.
Three theorems are about the threads that wait. `WaitersAlwaysWaitForSomebody`: a
thread waits exactly as long as its request is in the queue or its answer in the
channel, and never both, so no wakeup is lost or sent twice; `WaitingStays` and
`QueueMoves` sort the steps by what they do to either. `DecisionsAlwaysStand`: what
it was told is not changed by a later click, timeout, lock or closed window.
`NothingEverOutlivesTheDesktop`: after an end or a crash at any step no connection,
slot or request is left for the next process, and the endpoint file is absent or
stale; while one runs, the file is current.

Only model-checked: everything about fairness (`EveryRequestIsAnswered`, the
liveness half of `ImplementsGate`, `OperationsEnd`, `EveryClientHears`), which the
prover cannot express: it has no rule for `WF` and no `ENABLED`. Of the `violation`
runs, `aws_launchd` has a theorem about its boundary; the other two properties fail
in ordinary use, and no assumption on the constants would make them true.

## Plan

Most important first; what is done is marked.

1. `GrantStore`, `SecretAccess`, `ApprovalGate`: secret requests. *Done: checked and proved.*
2. `AwsAccess`: decisions, denials, levels. *Done: checked and proved.*
3. `AwsSession`: the operation lock, the sign-in, tokens that rotate. *Done: checked and proved.*
4. `VaultStore`, `VaultRegister`: the file and its crashes; `MainView` over it.
   *Done: checked and proved.*
5. `ProcessTree`, `RequestServer`: the walk, slots, shutdown. *Done: checked and
   proved as part of `Desktop`.*
6. `Desktop`: event loop and request window. *Done: checked and proved.*
7. That the controller's part in `RequestServer` (a place in the queue, and what settled
   it) is what `SecretAccess` and `AwsAccess` do: a common abstraction of the three, as
   a refinement. *Open.*

## Not modelled

Out of scope: cryptography, the file format, HTTP and JSON, rendering, themes and
toasts, icon and tooltips, paths, argument parsing and the detached launch, the
cap of 500 activity entries, poisoned mutexes.

Left out of modules that are otherwise there:

- `process.rs`: recognising launchd and the client by their names, and finding a
  connection's owner (`verified` stands for its result). `ProcessTree` has no start
  times; the access modules take identity as exact, which is what the start
  times are for.
- `aws.rs`: role and account names, and the content of credentials. A request that
  was allowed once is in `AwsSession` like one whose grant has ended. An alias form
  that is older than the discovered accounts is not in `SaveAliases`.
- `app.rs`: the AWS forms' buffers (their effect is in `AwsSession`), the grant
  editors' choices (`grant_process_choices`; their effect is in `SecretAccess` and
  `AwsAccess`).
- `ipc`: reading the endpoint file and connecting are one step; the token of the
  request is taken as right. One desktop process: a second one, started by hand,
  replaces the endpoint file, and the first to end removes it (a hazard in
  `PROJECT.json`).
- Waits have no common clock across modules: each ends, but whether their sum
  stays below the client's 25 minutes is not asked.
- The vault file's size limit, which is enforced on reading only.
