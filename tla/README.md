# GitBot in TLA+

A verification project for GitBot, a Go server that deploys pull requests of a
GitOps repository: a comment `#bot deploy <env>` locks the ArgoCD applications
that the pull request touches to its branch, `#bot rollback <env>`, a merge or a
decline gives them back.

## The system

### Components, their state and their operations

| Component | Source | State | Operations |
|---|---|---|---|
| Webhook handler | `internal/event/handler.go` | none | `Handle`: parse a webhook, enqueue it, answer 200 |
| In-memory queue | `internal/event/queue/memory.go` | a slice under a mutex | `Enqueue`, `Dequeue`, `NextItem`, `Size`, `IsEmpty` |
| Event worker | `internal/event/worker.go` | one goroutine, a quit channel | `Start` (the loop), `Stop`, `responseProvider` |
| Event service | `internal/event/service.go` | none | `Process`: decide, lock, unlock, compose the reply |
| Application slice | `internal/app/*.go` | three annotations and `targetRevision` of each ArgoCD Application, in the API server | `List`, `Update` (merge patch), `Clean` (JSON patch), `LockApp`, `UnlockApp`, `Sanitize`, path matching |
| Bitbucket provider | `internal/event/provider/bitbucket.go` | none (pull requests live at Bitbucket) | `ParseEvent`, `GetData` (diffstat, then commits behind), `WriteComment` |
| Server | `cmd/server/main.go` | goroutines, signal channel | start, graceful shutdown |
| Notifications | `internal/notification`, `internal/providers/argocd` | none | `HandleNotification`: read an application, comment on the pull request that holds it |
| Configuration | `internal/config` | read once | load, validate security rules |

What the table leaves out is not part of the running server; see
[Not modelled](#not-modelled).

### How they interact

HTTP handlers run concurrently and append to the queue; the worker's goroutine
polls it once a second. For each item it makes up to three attempts at
`GetData` (two remote calls), lists all applications once, decides, and then
writes application after application, one call for a lock and two for an
unlock, always from the copy it has listed. A deploy command that covers an app
of apps is put back into the queue after 30 seconds. At last the reply is
written as a comment. Nothing is persisted but the annotations, and nothing
orders the writes of two replicas. Notifications of ArgoCD come to handlers of
their own, which read an application and write a comment without regard to the
queue or the worker.

### What is hard, and what must hold

The full list of hazards, each at its line, is in `PROJECT.json`. In short:

- a command is many remote calls: it may fail or the process may end between
  any two of them, and a call may fail after it took effect. The branch that an
  application followed must never be lost, and annotations and branch must tell
  the same story (`HomeRecoverable`, `LockMatchesPullRequest`);
- decisions are taken on a copy: no application may be locked while another
  pull request holds it or one of the other applications of the command
  (`DeployExcludesOthers`, `ImplementsAppLock`);
- replies are composed before and during the writes and must be true when they
  are sent (`LockReplyTrue`, `UnlockReplyTrue`);
- a sync of an app of apps resets the branch of a locked child, which makes the
  lock void (`Sanitize`), and the repeated deploy command takes it again
  (`ChildFollowsParent`), without starving other events (`QueueServed`);
- closing events and deploy commands of one pull request race on their way into the
  queue and in it, and the diff may change between a lock and its unlock
  (`SettledHoldsNothing`, `RollbackFreesAll`);
- the gate of a deploy command rests on reviewers' counts that came with the
  webhook, and on a comparison of branches that may have failed or may be
  overtaken by the next merge (`LockedWhenReviewed`, `LockedUpToDate`);
- paths are searched for as texts, and a file may move between applications
  (`RelatedFound`);
- commands are repeated, interrupted and written again: the last one that is
  called a success must have completed what the others left (`SuccessComplete`);
- a notification reads and then writes while locks come and go (`NoticeTrue`);
- the process stops while events are accepted, waiting and in hand
  (`StopLosesAtMostOne`, `SignalExits`).

## Modules

| Module | Models | Correspondence |
|---|---|---|
| `Application` | `internal/app` without I/O | the record `Object` is an object of the API server (annotations `locked`, `pull-request`, `rollback`, and `targetRevision`; `"absent"` when the annotations are not there), `Application` the bot's record; operators have the names of the functions |
| `EventService` | the decisions of `service.go` | an event carries the command found in the comment, its environment and the reviewers' counts; replies are a status per application |
| `Worker` | `worker.go`, `handler.go`, and `Process`, `LockApp`, `UnlockApp`, `GetData` as sequences of remote calls | see below |
| `AppLock` | what the bot promises | applications are held by at most one pull request, taken only when free, released only for the holder's command |
| `MemoryQueue` | `queue/memory.go` | each method locks, reads the slice, writes it, unlocks, as steps of its own; clients are goroutines, `Operations` the methods each of them calls |
| `Fifo` | what a shared queue promises | a call takes effect at one moment between its invocation and its return |
| `Server` | `main.go`, `handler.go`, and the loops of `Start` and `Stop` | handlers (`request`), main's goroutine (`main`), the worker's (`worker`), the context's deadline (`expired`) and the quit channel |
| `PathMatch` | `cleanPaths` and `matchAppByRepoAndFiles` | a text is the sequence of its characters; `Names`, `PassesThrough` and `IsPath` say what the search means for directory names |
| `Bitbucket` | `provider/bitbucket.go` with the worker behind it | a payload has what `ParseEvent` reads; `opinion` and `diff` are the provider's reviews and diffs, `vouched` and `fresh` remember what two properties speak of |
| `Notification` | `notification.go`, the client of `providers/argocd`, beside the worker | `note` is each handler's notification between the read and the comment, `carriers` remembers whose lock the application carried since it came |
| `ConfigRules` | `validate` and `seRules` of `config/file.go` | functions of the file's contents |
| `MCWorker`, `MCBitbucket`, `MCNotification`, `MCMemoryQueue`, `MCServer` and the `.cfg` files | instances for TLC | |
| `WorkerProofs` | theorems about `Worker`: types, and that no home branch is lost | |
| `AppLockProofs` | theorems about `Worker`: locks, replies, successes, what a closed pull request and a rollback leave locked, and that it implements `AppLock` | |
| `BitbucketProofs` | theorems about `Bitbucket`: that it is a `Worker`, the gate of a deploy command, and which applications it finds | |
| `NotificationProofs` | theorems about `Notification`: where notifications go | |
| `PathMatchProofs`, `ConfigRulesProofs` | theorems about the functions; for texts, that a search is one of names | |
| `MemoryQueueProofs` | theorems about `MemoryQueue`: types, its mutex, and that it implements `Fifo` | |
| `ServerProofs` | theorems about `Server`: types, and what a shutdown may lose | |

`Worker` extends `EventService`, which extends `Application`; `Worker`
instantiates `AppLock` with a refinement mapping (`Lock`). Each member of
`Workers` is a replica: a process with its queue and its worker goroutine.
`cluster` is the API server's state and `pulls` the provider's; all other
variables are functions of the replica. `pc` says which remote call is next:

    idle -> files -> behind -> process -> lock   -> retry -> respond -> idle
                                       -> unlock <-> clean

One action is one remote call with all local computation that follows it.
`Webhook` is what happens at the provider (a comment, a merge) together with the
webhook sent of it, which is then on its way to a replica (`incoming`); `Handle` is the
handler's goroutine, which puts the event into the queue. With the disturbance
`"overtake"` any of the events on their way may be the next, without it they come in
the order in which they were sent. `overtaken` remembers the pull requests whose
closing event was put into the queue before an earlier event of theirs.
`Push`, `Advance`, `Resync` and `Crash` are the other surroundings;
`GetDataFails`, `LockAppFails`, `UnlockUpdateFails`, `UnlockCleanFails` are the
error paths, where a write may have taken effect or not. `Crash` is any end of
the process, among them the panic that a transport error of `GetFilesChanged` or
`WriteComment` causes (the missing response is dereferenced).

`MemoryQueue`, `Worker` and `Server` meet at the queue. `MemoryQueue` shows that each call of the queue
is one atomic step on a sequence; `Worker` and `Server` use it as that. `Worker`
follows an event through `Process` and ends a process anywhere (`Crash`); `Server`
abstracts `Process` to its three outcomes (no reply, a reply, a reply and the event
put back) and follows the process to its end. `Bitbucket` and `Notification` extend
`Worker`: the first constrains where its events and diffs come from, the second puts
handlers beside it that only read what the worker writes.

What is abstracted:

- comments are the command and the environment that the regular expression
  finds. `Worker` takes events from anywhere; in `Bitbucket` they come from
  payloads, and the reviewers' counts from what the participants think when the
  webhook is sent. A participant's `approved` flag is the opinion `"approved"`;
- in `Worker` the applications that a diff matches are a set per pull request,
  which a push changes in any way; `Bitbucket` computes them from files with
  `PathMatch`;
- all pull requests are of one repository; applications may be of others
  (`Manifests[a].repository`);
- a branch falls behind when another pull request is merged into its destination
  or when somebody's commits reach it (`Advance`); how many commits are missing is
  not told apart;
- `List` reads the applications of all namespaces (`argocd.go:25`), while `Update` and
  `Clean` write to the namespace `argocd` (`argocd.go:59-61`, `90-91`); the model
  identifies the two, which holds where all applications are in `argocd`. Elsewhere
  every write would fail with 404, or change another application of the same name;
- handlers of notifications share nothing but the cluster, so decoding the body
  is part of their first call; the wording of comments is left out;
- an item counts how often it was run (`run`, up to `MaxRun`), which only
  `DoubleLock` reads. With `MaxRun = 1` the count is constant.

The operators called mutants in the comments are the faults that show that a
property can fail: each is a changed copy of the definition it precedes.

## Runs

| Run | Instance | Shows |
|---|---|---|
| `core` | 1 replica, 2 applications (1 an app of apps, 2 its child, different environments), 2 pull requests that touch both; failing calls, crashes, late comments, syncs, commits on the destination branch | `HomeRecoverable`, `LockMatchesPullRequest`, `DeployExcludesOthers`, `LockReplyTrue`, `SuccessComplete`, `ImplementsAppLock`, `TypeOK` hold |
| `settle` | 1 replica, 2 webhooks on their way or waiting, handlers that overtake each other, pushes at any time, one pull request behind, another that merges elsewhere; no faults, no app of apps | `SettledHoldsNothing`, `LockMatchesPullRequest` hold |
| `live` | 1 replica, app of apps and child in one environment, syncs at any time, a handler of notifications about the child, fairness | `NoticeTrue`, `QueueServed` and `ChildFollowsParent` hold |
| `gate` | 1 replica, 1 pull request with a reviewer and another participant, 2 applications with similar paths, 3 diffs, a destination that moves | `RelatedFound`, `LockedWhenReviewed` and `LockedUpToDate` hold |
| `queue` | 2 handlers, the worker and main call the queue, 2 items | `HeldInside` and `ImplementsFifo` hold, and nobody waits for ever for the mutex (deadlock is checked) |
| `stop` | 3 webhooks, 1 of them put back, a signal at any time, fairness | `StopLosesAtMostOne` and `SignalExits` hold |
| `graceful` | the same | violates `StopsGracefully` |
| `replicas` | 2 replicas, 1 application, no faults | violates `HomeRecoverable` |
| `double` | app of apps, runs counted to 3 | violates `DoubleLock` |
| `rollback` | pushes | violates `RollbackFreesAll` |
| `reply` | an application of another pull request precedes one's own | violates `UnlockReplyTrue` |
| `behind` | a branch that is behind, failing calls | violates `LockedUpToDate` |

**Bounds.** `MaxQueue` is a bound of the surroundings, which the code does not have: a
webhook is sent to a replica only while fewer events than that are on their way to it
or in its queue. With 1, an item is in hand, one is on its way or waits, and one goes
back; the worker is sequential, so what waits
behind the next item can only be read later. `settle` uses 2, since the order of
a deploy command and a closing event of one pull request matters there, on the way
into the queue as well as in it. It
has no app of apps and no late comments: a deploy command for an app of apps that
is repeated after the merge, and one that is written after it, lock applications
again that no closing event will free (`double`). Two
applications are enough for a command to be interrupted between two of them and
for one of them to be foreign; two pull requests are enough to contend.

`gate` has one pull request: its properties relate a pull request to its own
reviews, branch and diff, and a second one adds nothing but other locks. The
participants are one who was asked and one who was not, so that counting the wrong
one shows. The diffs have a file that was added (no old path), one that was moved
from an application to none, and three entries with a page of two; the source
directory of the second application begins with the name of the first's, the first
has paths below its annotation, and the second has no annotation. `MCBitbucket` also
checks, for all paths of up to four characters out of the slash, the dot and two
letters, that searching the clean texts is searching whole names (`SearchIsByName`;
`SearchIsOfNames` proves it for all), and that the instance's files and paths are in
the usual notation (`TextsArePaths`, a hypothesis of `FilesFound`). `live` has one handler: handlers share nothing but
the cluster, which they do not write. The notification's calls may fail there, the
worker's do not.

In `queue`, `MaxItems` is looked at when `Enqueue` is called, so that three callers
can take the slice to four items; two handlers and the worker are enough for two
writers and a reader to overlap. In `stop`, two plain webhooks are enough to lose
two events if the order of the shutdown were wrong, and the third keeps the queue
filled. The module of `stop`, `MCServer`, also checks on small configuration files
that the rules of a valid one can be applied (`ConfigRules`).

**Deadlock.** `queue` checks for deadlock. The runs of `Worker` and `Server` set
`CHECK_DEADLOCK FALSE`: the server is idle when all pull requests are closed and no
webhook arrives, and a process that has exited takes no step.

`live` has the deploy commands of both pull requests and a rollback of the first
(`LiveEvents`); a closing event would release what the rollback releases, and the other
runs have them. `ChildFollowsParent` is about commands that cover the app of apps
and its child, as those of the instance do: in the code, a command for an environment
that the child is not of leaves the child alone.

**Fairness.** `FairSpec` asks for weak fairness of `Start(w)` only: the Go
scheduler runs the goroutine and its sleeps end. Since each remote call is one step,
it also assumes that remote calls return, with an answer or an error. The code does not
ensure that: the HTTP client of the provider has no timeout (`bitbucket.go:111`, `240`),
and with a call that hangs the worker serves nobody any more. Nothing is assumed of
webhooks, their handlers, syncs or pushes. `live` has no failing calls and no crashes. `Server`'s `FairSpec`
asks for main's goroutine and the context's timer, not for handlers or the worker,
which may hang.

### What the violations show

1. `replicas`: replica 1 unlocks an application with `Update`; before its
   `Clean`, replica 2 lists it as free and locks it; `Clean` then removes the
   annotations of the new lock. The application follows a feature branch and
   nothing knows the branch to go back to. The deployment runs one replica, but
   its rolling update starts the new one before the old one has ended.
2. `double`: a deploy command for an app of apps is put back each time, so it is
   run for ever ("Double lock" in the comments), also after the merge.
3. `rollback`: applications are found by the current diff, so one that a push
   took out of the diff stays locked while the reply says success. The same is
   true of a merge, which is why `SettledHoldsNothing` speaks of the final diff.
4. `reply`: the summary has a line per application found and is indexed by the
   place in the list of those to unlock.
5. `behind`: after the third failed comparison `CommitsBehind` is 0 and the
   deploy command passes, although the branch was never up to date.
6. `graceful`: `Stop` returns when the queue is empty, while the worker may have
   taken the last event; `main` exits three seconds later. What does hold is
   `StopLosesAtMostOne`.

While `ChildFollowsParent` was written, TLC showed that a child whose lock a sync
made void may be taken by another pull request, although its app of apps stays
locked; the property allows it.

What the models of this project say of the code without a run of their own:

- `GetFilesChanged` reads one page of the diffstat (`FirstPage`), so applications
  that only later entries touch are not found, against "Locks all related apps" of
  the repository's README (line 22). `RelatedFound` promises all related applications
  only for a diff that comes with one answer; `gate` has one that does not
  (`ThirdIsCut`);
- the handlers of two webhooks of one pull request may enqueue in either order. When the
  closing event overtakes a deploy command, the command locks applications of a closed
  pull request that no event frees. `SettledHoldsNothing` excepts such pull requests
  (`overtaken`);
- nothing bounds the queue: each deploy command for an app of apps stays in it for good;
- a path matches anywhere in a file's path, not only at its beginning, and the
  empty path (or `./`) matches every file while `.` matches none; an application
  without the annotation `manifest-generate-paths` has the paths `/base` and
  `/components` (`Paths`);
- the annotations of a lock that a sync made void stay until the next lock, since
  unlocking skips such an application; its notifications go on to that pull
  request. `NoticeTrue` speaks of the annotation for this reason;
- `HandleNotification` does not return after an error: a body with a field of
  another type is answered with 400 and its comment is written all the same;
- the commands `deploy-force` and those for one application, which the
  repository's README names, are not in the code: the regular expression stops after
  the environment, so `deploy dev app` deploys all of `dev`.

## Proofs

`WorkerProofs` proves with TLAPS, for all values of the constants (any number of
applications, pull requests, events, any disturbances):

- `TypeCorrect`: `Spec => []TypeOK`. `TypeOK` is inductive by itself; it says
  also that `todo` is a part of what was read and is empty outside the writes.
- `HomeSafe`: with at most one replica, `Spec => []HomeRecoverable`. The
  assumption is needed, see `replicas`. `HomeRecoverable` is not inductive: a
  write comes from a copy, so the invariant `HomeInv` adds what the copy knows
  (`CopiesKnowHome`: what is to be locked followed its home branch when it was
  read, and what is to be unlocked remembers it) and that between the two calls
  of an unlock the application is unlocked (`CleanFindsUnlocked`), the one part
  that two replicas break. TLC was used to check `HomeInv` before its proof.

`AppLockProofs` goes on from `HomeInv`, again with at most one replica:

- `LocksMatch`: `Spec => []LockMatchesPullRequest`;
- `DeployExclusive`: `Spec => []DeployExcludesOthers`;
- `Refinement`: `Spec => ImplementsAppLock`;
- `LockRepliesTrue`: `Spec => []LockReplyTrue`;
- `SuccessesComplete`: `Spec => []SuccessComplete`.

Their invariant `LockInv` adds to `HomeInv` that a lock in the cluster names a
pull request that merges into the home branch and whose branch the application
follows, unless a sync has reset it (`LocksOwned`), and that a worker's copy is
still true while it writes (`CopiesFresh`: what is to be locked is free, no
application of a deploy command is another's, and what is to be unlocked is
one's own or was freed by a sync). Both were checked with TLC before they were
proved. The refinement needs, for every action of `Worker`, the one step of
`AppLock` it is (`AbstractSteps`): a `LockApp` acquires, an `UnlockUpdate`
releases, a failing call does so or not and ends the command, a sync loses the
lock, a `Clean` and everything else changes nobody's hold. A `LockApp` for a pull
request whose source is the home branch itself is a stutter, since `Sanitize`
makes that lock void.

The replies need a second invariant over `LockInv`, `ReplyInv`: each line that the
reply has so far is true of the cluster (`LinesOf`), also while other applications
are still to be locked and while a sync resets one of them, and each application
that the command covers is done or still in `todo` while the reply says success
(`WorkOf`). Lines about an application are written when its call returns, so a
failing call that took effect is covered by `"lockError"`, of which the property
says nothing.

`ClosedHoldsNothing` proves `Spec => []SettledHoldsNothing` for any number of pull
requests and applications and any length of the queue, under `Undisturbed`. Each
part of it is needed: a closing event is sent once and never repeated, so a crash
that empties the queue, or a failing call, leaves locks behind; a comment on a closed
pull request locks after the closing event; a command for an app of apps is put back
behind it; and a second replica may lock while the first one serves it. Pushes,
commits on the destination and syncs may happen at any time, and handlers may overtake
each other; the property itself excepts pull requests whose closing event overtook an
earlier one of their own. The invariant
`SettleInv`, over `LockInv` and `ReplyInv`, has two parts besides the property. `Order`
says that nothing of a pull request stands behind its closing event, on the way, in the
queue or in the worker's hands, and that whatever waits of a closed one stands before a
closing event that has not been served: this is what makes the last command the one
that counts, however many wait. `Service` says that a closing event is served with
the final diff (no push follows the closing), that no command is put back, and that
`Clean` finds the annotations `Update` wrote. What is then left to show is that at the
end of the command `todo` is empty and all that the final diff matches is free
(`SettleOther`), which is `WorkOf` of `ReplyInv`. TLC checked `SettleInv` on the
instance of `settle` first.

`RollbacksFreeAll` proves `Spec => []RollbackFreesAll` with one replica and no pushes,
crashes, failing calls, late comments and syncs included. The property is the one that
`rollback` shows violated; the theorem says that the push there is the only cause.
The invariant `TouchInv` says that diffs stay as they were opened, that what a command
has read is that diff or, after failed attempts, nothing (and then it succeeds at
nothing), and that an application is locked only to a pull request that touches it
(`LocksTouched`).

`BitbucketProofs` proves `BitbucketImplementsWorker`, `BitbucketSpec => Spec`, so
that all theorems above hold of the composition, and for any number of replicas:

- `LocksUpToDate`: `BitbucketSpec => []LockedUpToDate`, if the git provider's calls
  do not fail (see `behind`). The invariant `FreshInv` says that a worker which is
  past the comparison and has it say "up to date" saw the branch so;
- `LocksReviewed`: `BitbucketSpec => []LockedWhenReviewed`. The invariant `VouchInv`
  follows the command from the payload through the queue, back to it (`Pending`) and
  to the writes (`Locking`): counts that let a deploy command pass are those of a
  payload that was sent while the reviews allowed it;
- `FilesFound`: `BitbucketSpec => []RelatedFound`, for all diffs and applications
  whose files and paths are written in the usual notation (`TextsArePaths`: no empty
  name and no name `.`, but for a leading `./`). The hypothesis is needed: the empty
  path matches every file and `.` none. Git's diffs name files so; what annotations and sources say is up
  to whoever writes them. The invariant `FilesOfDiff` says that after every
  step the applications found for a pull request are those its diff matches;
  `MatchedInNames`, from `SearchIsOfNames` below, turns texts into names, and
  `FirstPageOf` says when the first page is all of a diff.

`NotificationProofs` proves `NoticesTrue`, `NotifySpec => []NoticeTrue`, for any number
of handlers and replicas; the types of the cluster come from `Worker`, and the invariant `NoticeInv` adds that the pull request a handler is about to
write to was read since the notification came.

`PathMatchProofs` proves what `cleanPaths` does to every text, without bound:
`CleanBetweenSlashes`, `CleanTwice`, and `MatchBetweenSlashes` (where a file matches,
the place found begins and ends with a slash). `SearchIsOfNames` says what the search
of texts means, in both directions and for texts of any length: a cleaned path stands
in a cleaned file if and only if the path's names stand in a row among the file's.
`Names` reads a text character by character, a recursive function. The argument:

- `SetInduction` and `IntervalInduction` are induction over numbers stated for sets,
  from the library's theorem that the natural numbers are well-founded; with them
  `ReadingsExist` shows that the recursive function exists;
- a clean text spells its names (`CleanSpells`): a function `ends` gives the place of
  the slash behind each name (`Ends`). `PathRead` follows the reading character by
  character (`Reached`: complete names and the beginning of one), `CleanShift` says
  how far the clean text is shifted from the path;
- two texts that spell names contain each other if and only if their names do:
  names in a row stand at the same distances in both texts (`SameDistances`,
  `NamesThenTexts`), and a text found in another begins at the end of a name
  (`SlashEnds`), from where the next slash comes at the same place in both
  (`TextsThenNames`).

`ConfigRulesProofs` proves
`ValidRulesApply`: of a configuration that `validate` accepts, each rule that
`seRules` makes names files, somebody, and only actions the service has.

`MemoryQueueProofs` proves, for any number of goroutines and items:

- `QueueTypeCorrect`: `Spec => []TypeOK`;
- `MutexHeld`: `Spec => []HeldInside`;
- `FifoRefined`: `Spec => ImplementsFifo`. The invariant `QueueInv` adds that what a
  client has read is still the slice when it writes (`SeenCurrent`, which needs the
  mutex) and that a call keeps its method and item (`CallKept`); the last step of a
  method's body is the moment at which the call takes effect (`BodyEnds`).

`ServerProofs` proves, for any number of webhooks, `ServerTypeCorrect`
(`Spec => []TypeOK`) and `ShutdownLosesAtMostOne` (`Spec => []StopLosesAtMostOne`).
The property says nothing of how the shutdown got there, so the invariant `ServerInv` adds where an accepted event may be (`NothingForgotten`),
that events are put back only after they were processed (`PutBackServed`), that no
handler is active once `Stop` runs before the deadline (`HandlersDone`), and that
then all that waits after `Stop` was processed before (`QueueOver`).

The proofs about the worker rest on `ApplicationAssumption`, `EventAssumption` and
`WorkerAssumption`, the others on `QueueAssumption`, `ServerAssumption`,
`PathAssumption`, `BitbucketAssumption` and `NotificationAssumption`; they type the
constants, and `BitbucketAssumption` says besides that the events a worker may get
include all that payloads are parsed to and that `Touches` is what the first diffs
match. TLC evaluates all of them. The proofs go action by action.

All invariants that the passing runs check are proved, under the hypotheses named
above. Only model-checked are `QueueServed`, `ChildFollowsParent` and `SignalExits`:
liveness needs fairness and `ENABLED`, which are out of the prover's reach.

## Not modelled

- `cmd/server/main.go`: the routes and the status handler, which change no state, and
  the wiring. What happens at start and shutdown is in `Server`.
- `internal/config/service.go`: reading environment variables and the Kubernetes
  configuration is I/O; any error there ends the process before it serves. `validate`
  and `seRules` are modelled although `Load` has the calls commented out and the
  event service gets an empty list of rules, which it does not read.
- `LockApps` and `UnLockApps` (application slice), `GetAuthor` (provider) and
  `ConvertToRequest` of `providers/argocd` have no caller.
- `internal/hook` is an earlier webhook slice: it refers to packages that do not
  exist, so it cannot be built. `internal/comment` has no caller, `internal/cluster`
  is empty, `pkg/argocd` is mostly commented out and has no caller, `cmd/repair` is a
  stub, `internal/app/repair.go.tmp` is not compiled, and `pkg/utils` is a conditional
  without state. A model of any of them would be a model of no running program.
