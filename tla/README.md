# A verification project for tryout

tryout sells incident scenarios. A buyer pays through Stripe, is invited to a
private GitHub repository, is tutored by a language model, and may run an
*arena*: real cloud infrastructure that Terraform builds from a design the buyer
submits and that a reaper takes down again. This directory holds TLA+ modules of
the parts of the program that keep state and race for it, TLC configurations
that check them on small instances, and TLAPS proofs of what matters most for
every size.

## Running it

    tlc -workers 2 -config ArenaLifecycle_safety.cfg MCArenaLifecycle
    tlapm ArenaLifecycleProofs.tla

`PROJECT.json` lists every run with its module and configuration, the mutant that
shows each checked property can fail, the source lines every definition stands
for, the hazards, the findings and the theorems.

## Inventory

### The system's parts

| part | state it keeps | operations | what is hard |
|---|---|---|---|
| Arena environments API (`apps/api/src/arena/environments.service.ts`) | `arena_environments` | `create`, `mine` | a cap over all buyers with no constraint behind it; double clicks |
| Arena turns API (`turns.service.ts`) | `arena_turns` | `submit` | a rolling limit counted under concurrent submits; clocks read before and after a wait; a pool of connections that waiting submits use up |
| Arena runner and reaper (`arena-runner/runner.service.ts`, `main.ts`) | both tables, the cloud | `applyOnce`, `reapExpired` | jobs that overlap, are killed, and share one Terraform state |
| Terraform executor (`terraform-executor.ts`) | the state lock, the resources | `apply`, `destroy` | half-done applies and destroys, stale locks |
| Job schedules (`infra/terraform/arena.tf`) | none | one apply a minute, one reap a quarter of an hour | a job's timeout in the middle of anything |
| Purchases (`purchases/*.ts`) | `purchases` | `checkout`, `handleWebhook`, `retryInvite` | webhooks in any order and number, retries, calls that fail half way |
| Entitlement (`entitlement/*.ts`) | none | `assertOwnsListing` | which statuses let a buyer in |
| Tutor API (`tutor/*.ts`) | `tutor_messages`, `tutor_threads` | `postMessage`, `getThread` | a slow call between a check and its write |
| Tutor agent (`services/tutor-agent`) | none | one turn | whatever a model may write |
| Workload image (`apps/arena-workload`) | `workload_jobs` | `enqueue`, `claim`, `complete`, shutdown | several loops and instances, SIGTERM between two queries |
| Arena package (`packages/arena`) | none | `parseDesign`, `renderTfvars`, `parseTfvars`, `costFromUsage`, `scoreRun` | checks of one design in four places that must agree; metrics that are no numbers |
| Auth (`auth/*.ts`) | `users` | `signup`, `login`, the guard | a look-up and an INSERT; one GitHub name for all purchases |
| Scenario CLI (`tools/scenario-cli`) | a folder, a GitHub repository | `release`, `publish` | commands that fail half way and are run again; a folder that every stage reads anew; a test command that may fail by itself |
| Catalogue, LLM routers, web, infrastructure | none | requests | little that interleaves |

### How they interact

The three arena programs never call each other. The API inserts rows; the jobs,
separate Cloud Run executions, find them by polling; the cloud is reached through
one Terraform state per environment, whose lock is all that keeps an apply and a
destroy apart. Entitlement reads what Purchases writes and guards the arena and
the tutor. Stripe calls back, at least once and in any order. The tutor API calls
the agent and waits. The workload image runs inside an arena and shares nothing
with the rest but the idea of a Postgres queue. The arena package is called by the
turns API (parse, render) and by the runner (validate), and Terraform validates
once more. Checkouts write the GitHub name into the row that a signup inserted;
invites of every purchase read it. The scenario CLI runs on an author's machine and
shares with the API only the repositories it pushes.

### What makes each part correct

- **Environments**: the rows alive never exceed the cap; one row per buyer and
  listing, refused at the look-up and not by an exception; everybody is answered.
- **Turns**: no environment accepts more than the limit in an hour (a comment at
  `arena.constants.ts:12` calls it a limit per buyer; the code counts per environment,
  and so do the modules); a rejected design is free; a submit that hangs holds up
  those who need its lock, and others only when it and they have used up the pool.
- **Lifecycle**: a turn is applied at most once; nothing is built from variables
  the API did not write; a status is explained by a turn; a row marked destroyed
  has nothing left in the cloud; everything past its TTL goes at last.
- **Purchases**: access was paid for; a paid purchase gets its invite or a status
  that says it did not; a success is not taken back by a late failure; one
  purchase is charged once.
- **Queue**: one hand per job, no job lost, no request lost to a SIGTERM.
- **Designs**: what one check lets through no later check refuses, and Cloud Run
  accepts the bounds taken together; a refusal is readable on one line.
- **Scores**: no run passes on the absence of evidence; a price is a number that
  grows with use.
- **Accounts**: one account per mailbox, a token opens the right one; an invite
  goes to a name its buyer still had when the purchase was paid.
- **Releases**: what a release pushes is an exercise, unless the folder was edited
  behind the gate's back or the test command failed by itself; what is to be listed
  was pushed.
- **Tutor**: the daily limit bounds what the model costs; the agent is never told
  of a phase whose conversation it does not see.

## The modules

| module | models | proofs |
|---|---|---|
| `ArenaCap` | the abstract specification: places admitted under a cap, left once, never taken up again | |
| `HandOut` | the abstract specification: an item of work is given out once, to one worker, finished by that one only, and lost only with it | |
| `PurchaseAccess` | the abstract specification: access granted once and for a payment, ended by a refund, brought back only by an invite then under way | |
| `ArenaAdmission` | `EnvironmentsService.create`, statement by statement under its advisory lock | `ArenaAdmissionProofs` |
| `ArenaTurnLimit` | `TurnsService.submit` under its lock, on a clock, over each process's pool of connections | `ArenaTurnLimitProofs` |
| `ArenaLifecycle` | both services as atomic steps, with the runner, the reaper, Terraform and the cloud | `ArenaLifecycleProofs` |
| `Purchases` | one purchase: checkouts, Stripe, webhook deliveries, invites, refunds | `PurchasesProofs` |
| `WorkloadQueue` | requests, polling loops, the jobs table, instances and their signals | `WorkloadQueueProofs` |
| `TutorThread` | the posts of one user, the agent's turn inside | `TutorThreadProofs` |
| `Account` | signups, logins, and the GitHub name between checkouts and invites of several listings | `AccountProofs` |
| `ArenaDesign` | one design from text through parser, renderer, jsonb column and validations to Terraform | `FunctionsProofs` |
| `ArenaScore` | `costFromUsage` and `scoreRun` on numbers, NaN, Infinity and what is missing | `FunctionsProofs` |
| `ScenarioRelease` | `scenario release` and `publish`: validate, the gate's stages, copy, push, mark, seed, and the author's edits | `FunctionsProofs` |
| `MC...` | the small instances, their names and their symmetry | |

`ArenaAdmission` and `ArenaLifecycle` both implement `ArenaCap`. The first shows
that the statements of `create`, interleaved in every way the database allows,
amount to one atomic admission. That is what entitles the second to take `create`
as one step; there the question is whether what happens to an admitted
environment later keeps the promise too. `ArenaLifecycle` and `WorkloadQueue` both
implement `HandOut`: the turns that apply jobs claim and the jobs that polling loops
claim are the same promise on two tables, kept by a row lock and a status, while
`InHand` says in each what is in a worker's hands. `Purchases` implements
`PurchaseAccess`, which forgets Stripe's sessions, answers and the invite's statements
and keeps who is let in. In the same way `ArenaDesign` answers for
what `ArenaLifecycle` takes as inputs, whether a design parses and whether stored
variables validate, and `Account` for what `Purchases` leaves out, the name that an
invite goes to: `Purchases` has one purchase with all its faults, `Account` several
without.

### How state and actions correspond to the code

A table's rows are a function from row names to the column the properties look
at; a row that is not there has the value "none" (or 0). A request or job execution has a
program counter, and an action is what it does between two awaits, or the whole
of a transaction when nobody can see inside. Where a lock is held during a
transaction, taking it, each statement and the commit are actions of their own.
Guards are the code's conditions: a `WHERE`, an early return, an exception.

- `ArenaLifecycle`: `ClaimSelect`/`ClaimCommit` are `claimTurn` (two steps, for its
  row lock is held in between), `CheckStored` is `applyOnce`'s validation of the
  stored variables, `ApplyStart`, `ApplyRefused`, `ApplyOk` and `ApplyFail` the Terraform child,
  `RecordSuccess`/`RecordFailure` the two transactions that follow. `ReapSelect` is
  the reaper's one SELECT of a batch; `DestroyStart` to `MarkDestroyed` is the body of
  its loop. A crash may hit an execution anywhere, leaving the state lock stale.
- `ArenaAdmission`: the look at entitlement, the lock, the count, the look-up, the
  INSERT with its commit, and every way to leave early. The commit (`Insert`) and its
  answer (`Confirm`) are two steps, for a connection or process may be lost between
  them (`LoseAnswer`): the row stays, the request ends in an error, and the buyer who
  tries again is told that the environment exists. `Destroy` is the reaper's effect
  on a row.
- `ArenaTurnLimit`: `createdAt` is the time at which the transaction begins (the
  default `now()`), the hour is measured from the time the count runs. A row in the
  table and the call's answer are two steps here too, for accepted turns (`Insert`)
  and for rejected ones, whose INSERT is a transaction by itself (`Reject`): a row
  under an error can be left by either, and a submit sent again then counts twice.
  `packages/db/src/client.ts` opens one pool of postgres.js for each process, with the
  library's default of ten connections. `Reserved` are the submits whose
  `db.transaction` keeps one, from BEGIN until the end is answered; a look-up, a
  rejected INSERT and a BEGIN need one that is not kept (`HasConnection`); statements
  in a transaction use its own. `KeyOf` is `hashtext`, which may give two environments
  one lock.
- `Purchases`: a checkout's steps are its look-up, INSERT, expire, session, UPDATE;
  `session` is what Stripe knows, `row` what the table says, `invited` what GitHub did.
  A call that fails has done nothing (`CheckoutLost`) or all of its work
  (`CheckoutUnanswered`: a session nobody has the URL of, a row nobody was told of).
- `WorkloadQueue`: a query in flight and its effect in the database are two steps,
  since a signal may come between them; `up` follows shutdown through
  `server.close` and `sql.end`. A 500 for a job means no row (`EnqueueFails`) or one
  whose id nobody was told (`EnqueueUnanswered`).
- `TutorThread`: `given` and `history` are what a post has read of phase and
  messages, `place` the order in which posts are stored. A post stands for the two
  messages that one INSERT stores.
- `Account`: an action is one statement of signup, checkout or invite; login is
  one SELECT. A user's id is the signup that inserted the row. `namesSince` is
  history: the names a user had from the time a purchase was paid.
- `ArenaDesign`: an operator for each schema and function, named as in the code, and
  an action for each caller on the way of one design. `Other` stands for a value
  of the wrong type, a missing one, one outside an enumeration; CPU is counted in
  halves. Text is a sequence of ordinary and control characters; an error is the
  whole message that is stored or thrown, what stands around an echoed text included.
- `ArenaScore`: numbers are integers in the unit of their field, or `NaN` (a missing
  one too), or `Infinity`; `Plus`, `Times`, `Exceeds` are the arithmetic of such
  values. The monthly price is kept as the fraction it is.
- `ScenarioRelease`: a tree of files maps names to sets of snippets, a test suite is
  what it wants to find. Each stage is a step that reads the folder as it is then:
  validate, the gate's run on the skeleton, on the reference and on each mutation, the
  copy and commit of the template, each `gh` and `git` command. `Write` may come
  between any two, and `edited` remembers that it came during a command. The test
  command is green on a tree only if the tests hold there, but may be red on any
  (`Tests`): `gate.ts` takes every failure of the command, be it pip without a network
  or too much output, for failed tests. `fluked` remembers that this happened. A `gh`
  or `git` command may fail before or after its effect. `ignored` are the files that
  the template's `.gitignore` keeps out of the commit. The names in a manifest are
  those of files in the folder (no directories, no `..`), and a folder keeps the name
  of its repository.

## What the runs show

| run | question | expected |
|---|---|---|
| `lifecycle_safety` | Is a turn handed out once (`HandOut`), recorded, valid, explained and final, whatever overlaps or is killed; and does every turn end and every expired environment go, but for what a lost execution left behind? | holds |
| `lifecycle_drained` | If an environment has drained when its TTL passes, is a destroyed row clean, is `ArenaCap` implemented, cap included? | holds |
| `lifecycle_leak` | Is a destroyed row clean without that condition? | violated |
| `admission` | Do concurrent creates amount to admissions under the cap, never reach the unique constraint, and always answer? | holds |
| `turns` | Does every hour keep the limit, on rows whose times precede their insertion, and is everybody answered who neither needs a stopped submit's lock nor finds the pool used up by those who do? | holds |
| `purchases` | Does the purchase implement `PurchaseAccess`, is an answered payment in the table, one delivery at work, a found session expired, a sent invite true and kept, under every overlap; is a payment recognised and resolved while calls fail and Stripe repeats itself? | holds |
| `purchase_charge` | Can a purchase be charged twice? | violated |
| `queue` | Are jobs handed out once (`HandOut`), no request lost to a signal, a queue that drains? | holds |
| `queue_strand` | Can SIGTERM alone leave a job running with nothing running it? | violated |
| `tutor` | How far can the daily limit be overshot, and does a phase come with its conversation? | holds |
| `account` | Does a token open the account it was asked for, does a buyer keep a name, and does an invite go to one the buyer still had when the purchase was paid? | holds |
| `functions` | Do the checks of a design agree, are errors one line, does a verdict rest on evidence, is a price fair, does the gate reach a verdict on what validates, does a release of a folder left alone push an exercise? | holds |

### Bounds, and why they are enough

- `lifecycle_*`: two environments (three where places are reused), two turns of
  one and one of another, two apply jobs, one or two reapers. Two applies can
  meet in one environment, an apply and a destroy can, a batch can hold two
  environments, an environment can be created in a place that another left.
  `MaxCrashes = 1` puts one lost execution at every point. A batch of one makes
  the order of a batch matter: the oldest must go before the next is looked at.
- `admission`: a cap of two and five requests: a double click, two more buyers for
  the last place, one stranger, with connections lost at every step. Five requests
  never use up a pool of ten, so the pool is left out here; what happens when one is
  used up is the question of `turns`.
- `turns`: a limit of one, two submits, an hour of two ticks, a clock of four:
  rows leave the hour while another submit waits for the lock. A pool of two
  (`Connections`), which the submit that stops and the one that waits for it fill, so
  that a third call of their process, to another environment or with a design that does
  not parse, has to wait; one call on another process, which must not. The two
  environments have different lock numbers, so that the run can tell who may wait for
  whom. One number for two environments is left to the proofs, which hold for
  every `KeyOf`.
- `purchases`, `purchase_charge`: two checkouts are a stale session and its successor,
  or two that overlap; two handlers are a delivery and a retry, or two
  deliveries. `MaxFaults` puts up to two failures anywhere.
- `queue`: two jobs, an API instance with a loop and a worker with another (loops
  of one instance share nothing but its shutdown), and enough failures for both
  loops to meet one.
- `tutor`: three posts to one listing, so that one overlaps another and a third
  comes after, and one for each early return; a limit of one; days of two ticks.
- `account`: two signups for one mailbox or two, in either letter case, and a login;
  two checkouts of two listings with two names, so that the second changes the name
  under the first; two invites at once.
- `functions`: every number at, inside and past each of its bounds, the fields that
  constrain each other in all combinations, the others one at a time; a text limit of
  six with a marker of two, so that escapes reach and pass it; folders of two files
  and two snippets with every mutation, ignored or not; an author who runs
  two commands (`MaxRuns`) and edits at any time; a test command that may fail at any
  stage.
- `MaxRuns`, `MaxTime`, `MaxWait`, `MaxCrashes`, `MaxFaults`, `MaxSignals`, `AtOnce` appear in
  guards, each named in its module. The clocks need them, and without a bound on
  faults no liveness property could be stated. The theorems hold for all of them.

### Fairness, and why the code justifies it

- `ArenaLifecycle`: weak fairness of every apply and reap step: the scheduler
  starts both jobs for ever (`arena.tf`) and every child process has a timeout. One
  execution may be lost all the same; the properties say what its loss excuses.
  Strong fairness of `DestroyStart` and `DestroyOk`: a destroy that is tried again
  every quarter of an hour gets the state lock at last and succeeds at last. The
  first relies on applies ending, the second is an assumption about the cloud
  without which nothing could be said.
- `ArenaAdmission` and `ArenaTurnLimit`: a request runs on. In `ArenaTurnLimit`
  only the requests in `Brisk` do, and the others may stop with the lock and a
  connection in hand. `BriskAreAnswered` says what that costs the former: a submit in
  `Brisk` is answered, or for ever waits for the lock that a stopped one holds
  (`HeldUp`), or for ever finds every connection of its process kept by a submit that
  may have stopped or is held up (`Starved`). With ten connections, ten
  submits to one environment whose lock is stuck are enough for the second, and then
  nobody that the process serves is answered. What the property excludes is that
  submits which do not stop wait for each other: a count outside the transaction's own
  connection would do that, and is the mutant. A statement outside a transaction does
  not stop in the model, and other services of the process, whose statements share the
  pool, are not in it.
- `Purchases`: a handler that runs is run on (weak fairness); Stripe repeats an
  event until it is answered (strong fairness, since a handler must be free: separate
  deliveries are independent requests).
- `WorkloadQueue`: weak fairness of requests, loops and instances: the event loop
  runs and Cloud Run replaces a container that has gone. No fairness of faults.

### Findings

Three runs refute what a comment says.

- `lifecycle_leak`: `reapExpired` reads whether a turn is applying once, for a
  batch of destroys that take minutes each, and updates the row by its id alone;
  `claimTurn` looks at neither status nor TTL. A late turn is built between the
  destroy and the UPDATE (or after it), under a row that says destroyed, which
  the comment calls the one outcome that must never be produced.
- `purchase_charge`: a session that was paid before its event arrives cannot be
  expired. Checkout logs the refusal, creates a second session and hands it out.
- `queue_strand`: shutdown stops the polling but waits for no loop that is in a
  claim or a burn.

The same paths have further consequences that no run states. The environment
built late counts against the cap again. An apply killed at the job's timeout leaves
its turn applying, which the reaper takes as a reason to pass the environment by, for
ever; a state lock that it leaves behind keeps the destroy from ever starting, and a
batch full of such environments, which are the oldest, keeps every other from being
looked at. The liveness properties therefore except a turn whose own execution was
lost (`Stranded`: one for each lost execution), an environment with such a turn or a
stale lock, and a batch full of stale locks: nothing else that an execution leaves behind holds anybody up. They are
hazards with these lines in `PROJECT.json`.

The gate is not proof that what is pushed is an exercise. `cli.ts:89` calls it
fail-closed, which it is for a solution that fails. A skeleton or a mutation that
*passes* the tests is taken for red when the command fails for another reason, for
instance because its `pip install` found no network. And publish reads the folder
again when the gate has ended. `ReleasedIsAnExercise` states what remains; `scenario publish`
pushes without any gate, as it says, and the property is about `release`.

No `scenario release` ends without an error, even one that passes the gate: `seed.ts` asks for `schema.tracks`, and
`packages/db/src/schema.ts` has no such table any more. `SeedThrows` models it; the
repository is pushed and marked by then.

## What is proved

Every theorem is about the specification for all values of the constants, under
the assumptions that the module declares (bounds are natural numbers, sets of
requests are finite where they are counted, "no request" is not a request). Each
follows from an inductive invariant `IInv`: `InvInit`, one lemma per group of actions
or per action, `InvStep`, and a temporal step. `THEOREM`s hold without fairness.

- **`ArenaLifecycleProofs`**: `IInv` is `TypeOK`, `Hands` and `Rows`. `Hands` ties
  each execution's program counter to the status of the turn in its hands, which is
  what a property like `TurnHeldOnce` lacks to be inductive; `Rows` ties an
  environment's status and resources to its turns. For `DrainedSpec`, `DInv` adds
  that batches hold expired environments only and that the one just destroyed is
  clean; from it follow `ReapedEnvironmentsAreClean`, `CapHolds` and the
  refinement `LifecycleRefinesCap`, step by step. `Exclusive` (a held state lock has
  exactly one Terraform behind it) and two counts give `OneTerraformPerState`: at most
  one stale lock, and in `RecordsNeverMiss` at most one applying turn without an
  execution, for each execution lost. Counting needs a step that adds one element at
  most (`OneMore`) and sets that never grow otherwise. `TurnsRefineHandOut` maps an
  execution's hands to `HandOut`: claim's SELECT does nothing there, its commit takes,
  the record finishes, and a lost execution puts its turn down unfinished.
- **`ArenaAdmissionProofs`**: whoever is past the lock is its holder
  (`LockDiscipline`), and what the holder has counted and looked up is still true
  (`KnownWhileLocked`). The cap, the silence of the unique constraint and the
  refinement of `ArenaCap` follow; so do `AnswersStayTrue` (no answer contradicts the
  table; a row whose request was not told of it has the answer to its commit on the
  way, or lost under an error) and `LockIsNeverLeft`.
- **`ArenaTurnLimitProofs`**: the window property holds of *every* window, not only
  of those that begin at a row (`EveryWindow`); what the holder counted covers each window that
  its own row will be in, because no transaction lasts longer than `MaxWait`
  (`Timely`). This is where the length `Hour - MaxWait` comes from: a row's time
  precedes the count, so the code does not keep the limit for a full hour.
  `AnswersStayTrue` and `LocksAreNeverLeft` say the same here as in the admission, the
  latter whether or not two environments share a lock; for it to be inductive,
  `Admissible` has strangers and bad designs nowhere near a transaction. All of these hold
  whatever the size of the pool.
- **`PurchasesProofs`**: the row leaves pending once and for a paid session, so one
  delivery is let in. A refund is final once the invites under way have ended
  (`RefundStays`), since no transition leads out of it and no request is let into an
  invite. `FoundInv`: a checkout finds only sessions of checkouts that have ended, with
  a URL or an error, and these are never opened again. `OInv`: when checkouts do not overlap and no
  call fails, the recorded session is the only payable one. `AnswerInv` follows an
  event from the session that was paid to the row: what Stripe will not repeat has
  left pending (`NoPaymentForgotten`), and a row that is merely paid has the delivery
  that won it at work (`PaidHasItsDelivery`), which are the safety halves of
  `PaymentIsRecognised` and `PaidIsResolved`. `PurchaseRefinesAccess` takes each
  statement to a step of `PurchaseAccess` or to none.
- **`WorkloadQueueProofs`**: `Hands` ties a loop's place to its job's status;
  `Requests` ties a request to the state of its instance. `JobsRefineHandOut` is the
  refinement of `HandOut`: an instance that exits or is killed puts down what all of its
  loops hold in one step, and a claim that the database carried out although its
  answer was lost is wasted.
  `JobsAreLostByLossOnly` is what remains of the comment that `queue_strand` refutes:
  without a signal and a failure, a running job has its loop.
- **`TutorThreadProofs`**: a post is *charged* to the day from the guard on, stored or
  not (`Budget`). A day holds only charged posts, which bounds the overshoot by the
  number of posts at once and makes it nothing for posts one after another
  (`SerialPostsAreLimited`). A stored phase is that of a stored post
  (`PhaseFromThread`) and remains so for whoever has read it (`GivenFromThread`).
  `SerialPhasesAreKept` (`AtOnce = 1`) says that only overlap loses a phase; with
  `AtOnce = 2` TLC finds it lost.
- **`AccountProofs`**: rows have normalized addresses, a token names the row whose
  address and password were sent (`AuthInv`); whoever is past the look at the name has
  one, and no name is ever taken away (`BuyInv`); a paid purchase's present name is
  among `namesSince`, and so is the name an invite has read (`InviteInv`).
- **`FunctionsProofs`**: what each stage of a design holds is described by the check
  that let it through (`DesignInv`); the comparisons of `scoreRun` are exact on natural
  numbers, which is all that its validation leaves; a price is linear in what it
  meters. As long as the folder was not edited, a mutation still to be tried is one that
  validate has found in it; the gate's `ok` means that the solution has passed, and,
  without a fluke, that the template has failed and so has every mutation that was tried
  (`RightlyRed`); a commit about to be pushed is the folder's template. That is
  `GateKnows`; `ReleaseInv` adds that what is to be marked holds that commit.
  What `sanitizeText` makes of a text
  of any length is proved without an induction theorem: `EscapedUpTo` is a recursive
  function of the position, and a least position at which it goes wrong
  (`LeastNumber`) does not exist. `RefusalsStayOneLine` and `SanitizedTwice` follow.

A run repeats a theorem where it could fail for a reason of its own (a bound, an
instance, a mutant). Type correctness is proved for every state module and checked
by a run for the lifecycle; `CapHolds`, `LiveWithinCap`, `StrangersNeverLock`,
`HeldIsRunning` and `JobsMoveForward` are proved and no longer run, and
neither are `TurnHeldOnce`, `JobHeldOnce`, `AccessWasPaid` and `RefundIsFinal`, which say
less than the refinements that took their place. `TerraformRunsAlone`, `OnlyLossStrands`,
`PaidIsCarried`, `PhaseIsAsRead`, `AnswersAreTrue` and the two on locks were checked with
the same configurations before they were proved; each theorem states them for every
size. Every safety property that a run expects to hold is stated by a theorem.

### Only model-checked

Liveness (`EveryTurnEnds`, `ExpiredIsDestroyed`, `EveryRequestIsAnswered`,
`BriskAreAnswered`, `PaymentIsRecognised`, `PaidIsResolved`, `QueueDrains`,
`StoppedGoes`) is out of the proof system's reach and stays with TLC, as do the
three violations. `HandOut` and `PurchaseAccess` promise safety only for the same
reason: that what is offered is taken, and what is paid for is resolved, are
`QueueDrains` and `PaidIsResolved`.

## What is not modelled, and why

- Terraform's own behaviour beyond its lock and its outcomes: an apply or a
  destroy leaves everything, part or nothing behind.
- The order of the two messages of one post, which one INSERT gives one time.
- The phase that a slow turn of the tutor writes over that of a later one: the code
  lets it happen, and no property could say more than what it does.
- YAML's grammar, floating point (money, rates and metrics are integers of a small
  unit, so sums are exact), the figures of the rate table, bcrypt beyond the equality
  of passwords, the expiry of tokens.
- The `validate`, `gate` and `seed` commands on their own, which change nothing; the
  text of a mutation beyond which snippets it removes and brings.
- The catalogue, which only reads; the listing seed, one idempotent upsert run by hand;
  the LLM routers, one request to one provider each; the web, which keeps what it
  shows and sends what its forms hold; infrastructure, content, evals and load scripts.

## Plan

The order puts first what cannot be undone when it goes wrong: cloud resources
that nobody destroys, then money, then access, then cost.

1. Done, with their proofs: `ArenaLifecycle`, `ArenaCap`, `ArenaAdmission`,
   `ArenaTurnLimit`, `Purchases`, `WorkloadQueue`, `TutorThread`.
2. Done, with their proofs: `ArenaDesign`, `ArenaScore`, `ScenarioRelease`, `Account`.
3. Entitlement read by the arena and the tutor while a purchase is refunded: a
   composition of `Purchases` with the first statement of the others.
4. The tutor's web page: a message sent while the thread is loading, two tabs.
5. Done: `HandOut` and `PurchaseAccess` with their refinements; one Terraform per state;
   refusals of any length.
6. Proofs left: the exact condition under which a second session can be paid (today
   `NeverTwoPayable` assumes that no call fails and no checkouts overlap, which is
   sufficient); what a release that failed leaves in the repository; `ScenarioRelease`
   as an implementation of an abstract release.
