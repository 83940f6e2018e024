# OpenSDR: a TLA+ model of the outbound engine

OpenSDR (package `craftsman`) runs outbound sales campaigns: leads are imported,
verified, scored and enrolled in a sequence of steps, a scheduler advances them,
Celery workers research them and send e-mails from a pool of mailboxes, replies
are polled, classified and answered by a person or by Autopilot, and what
happens is pushed to webhooks and a CRM. State lives in Postgres, jobs in Redis,
and the hard parts are what happens between the two: tasks run at least once,
may run twice at the same time, hold database rows over calls of many seconds,
and may die at any point.

This directory holds TLA+ modules translated from the code, TLC configurations
that check them on small instances, and TLAPS proofs of the main safety
properties for every value of the constants.

    tlc -config SendPath_safety.cfg MCSendPath      # any row of the run table
    tlapm CrmPush_proofs.tla                        # under a minute; the longest, Inbox_proofs, several

`PROJECT.json` lists the components, the runs, for each checked property a
mutant of the code that breaks it, the source lines behind each definition, the
hazards and the theorems.

## Inventory

Paths are relative to `src/craftsman/`.

| component | state it keeps | operations | talks to |
|---|---|---|---|
| State machine, `sequencer/machine.py` | none | `next_state` | everybody who writes `enrollments.state` |
| Tick, `sequencer/tick.py`, `sequencer_tick` | `enrollments` (state, current_step, next_action_at) | lock due rows, apply timer, dispatch, expire touch tasks, commit | publishes jobs before it commits |
| Research, `research_enrollment` | `companies.research_brief`, enrollment | research, write outcome | LLM, tick |
| Send path, `generate_and_send`, `sender/smtp.py` | `messages` (outbound), `sent_today` of campaign and org, enrollment, `review_queue` | checks, reserve, claim, deliver, finalize, retry | tick, caps, suppression, SMTP, sweep |
| Recovery, `sequencer/redrive.py` | enrollment, outbound rows | redrive by a person, sweep of unsent claims | send path, review queue |
| Suppression, `compliance/suppression.py` | `suppressions` | add, check, erase a person | send path, drafts, inbox |
| Job queue, `workers/celery_app.py` | Redis, `dead_letter_tasks` | deliver, redeliver, retry, dead-letter, schedule (beat) | all tasks |
| Reply drafts and Autopilot, `sender/reply.py`, `inbox/autopilot.py`, `generate_reply_draft` | `reply_drafts`, outbound rows of replies | generate, decide, claim, send, discard | poll, inbox API, SMTP, sweep |
| Inbox, `inbox/poller.py`, `inbox/pipeline.py` | inbound `messages`, enrollment | fetch, match, classify, apply, escalate | send path, drafts, bandit, touch tasks |
| Touch tasks, `sequencer/touch.py`, `generate_touch_task` | `touch_tasks`, enrollment | create, complete, skip, cancel, expire | tick, inbox, tasks API |
| Bandit, `bandit/` | `variants` (alpha, beta, active), `messages.bandit_settled_at` | choose, reward, settle, guardrail, edit of an arm | send path, inbox, beat |
| Mailboxes, `sender/limiter.py`, `sender/warmup.py`, `deliverability/` | `mailboxes` counters, warmup stage and health, `domain_stats`, Redis rate slots, placement runs | pick, count, bounce, degrade, pause, reset, add, edit, test placement | send path, inbox, beat, API |
| Webhooks, `webhooks/` | `webhook_endpoints`, `webhook_deliveries` | edit, emit, attempt, retry, give up, ping | every component that emits events |
| CRM, `crm/sync.py` | `crm_connections` (watermark), `crm_links` | push activities, import lists | beat, API |
| Leads, `ingest/`, `scoring/icp.py`, `enrich_lead` | `leads`, suppressions, enrichment budget | gate, import, verify, enrich, score, erase | API, workers, campaigns |
| Campaigns and signals, `api/routers/campaigns.py`, `scoring/rules.py`, `scoring/collectors.py` | `campaigns`, `sequence_steps`, `signal_rules`, `signals`, `collector_state`, `enrollments`, dry runs | edit steps, activate, pause, sweep signals, dry-run | beat, API, tick |
| Meetings, `meetings/` | `meetings`, enrollment | webhook booked, cancelled, rescheduled | inbox, sequencer |
| Access, `core/tenancy.py`, `api/auth.py`, `sso/`, `api/routers/users.py`, `keys.py` | `users`, `api_keys` (with `last_used_at`), login codes | authenticate, edit users, mint and revoke keys, log in by SSO | every request |
| Copywriter, LLM, research clients, metrics, migrations, web app | - | text, services, routing | left out, see below |

What is hard, and what makes each part correct:

- **Tick.** It publishes jobs while its transaction is open. Correct: every lead
  the sequence has not finished is either due, or has a job, task or claim that
  will move it on.
- **Send path.** Three commits, an SMTP call between them, and duplicate jobs.
  Correct: one e-mail per claim of a (lead, step), `sent_at` only on what was
  sent, steps in order, no claim left open, nothing to a suppressed lead.
- **Caps.** Two conditional updates of counters that are reset at midnight while
  tasks hold slots. Correct: no more than the cap goes out in a day.
- **Recovery.** A sweep and a person act on rows whose task may still be alive.
  Correct: neither steals from a live task nor loses a lead.
- **Reply drafts.** Workers, Autopilot and people compete for one draft, and
  replies of a thread for one automatic answer. Correct: one mail per draft, one
  automatic answer per thread, nothing after suppression, no draft stuck.
- **Inbox.** Mail is marked read on the server before rows are committed, and
  writes the same enrollment a running send task will write. Correct: no reply
  is lost, and a lead who answered or opted out gets no further step.
- **Touch tasks.** A person, the inbox and the expiry sweep resolve the same
  task. Correct: a task is resolved once and the enrollment moves once.
- **Bandit.** A reply and the hourly settlement both account for a message, and
  the guardrail switches arms off. Correct: each message counts once, for the
  arm it was written from, and an arm remains.
- **Mailboxes.** A sender, a poll of bounces and the daily reset write counters
  and health they loaded long before. Correct: counters of boxes nobody disputed
  are exact, nothing is sent over a cap, a paused domain stays paused.
- **Webhooks.** Rows and jobs are published inside open transactions; nothing
  sweeps pending rows. Correct: no more attempts than the budget, a delivery is
  resolved once, none is given up in silence.
- **CRM.** Runs overlap, and activities commit with stamps older than the
  watermark. Correct: what lies behind a watermark was pushed or tried.
- **Leads.** Imports, workers, scores and opt-outs hold the same lead at once.
  Correct: a suppressed person stays suppressed, the budget is not exceeded,
  data an operator typed is not overwritten, every lead is tried.
- **Campaigns.** Edits look for enrollments and commit later; sweeps overlap.
  Correct: a sequence is frozen once a lead is in it, steps are numbered without
  gaps, nobody is enrolled who was never above a threshold.
- **Access.** The stamp of `last_used_at` locks the key's row for the length of
  the request, on an event loop others need. Correct: an org keeps an owner, an
  identity its user, a login code makes one session, requests end.
- **Meetings, erasure of mail**: events out of order, deletion of rows a task
  holds; modelled in part.

## Plan

In the order of importance; all but the last is done.

1. `Machine`, `Sequencer`: the transition table, tick, research, jobs, redrive.
2. `SendPath` (extends `Sequencer`) with the abstract `Outbox`.
3. `ReplyDraft`, against the same `Outbox`.
4. `ReplyDraft_proofs`; the theorems about `SendPath` are part of `Inbox_proofs`.
5. `TouchTasks` (extends `SendPath`): creation, resolution, cancellation, expiry.
6. `Inbox` (extends `TouchTasks`): poll, match, classify, configured escalation
   rules, reclassify, bookings, composed with every other writer of an enrollment;
   `Inbox_proofs`, which covers the whole chain `SendPath`, `TouchTasks`, `Inbox`.
7. `Webhooks` and `Bandit`, two parts that share nothing and whose proofs share
   `WebhooksBandit_proofs`; `CrmPush` with `CrmPush_proofs`, `Mailboxes` with
   `Mailboxes_proofs`, `Leads` with `Leads_proofs`, `Campaigns` with
   `Campaigns_proofs`, `Access` with `Access_proofs`.
8. Left: `Meetings` rows and the order of their webhooks; erasure of a lead's
   mail against its running tasks.

Runs stay near a million states: one or two of each actor, one of the rarer
ones, two or three steps, and a shared bound on failures and rare requests. One
run per module, for safety and liveness together where both fit.

## Modules

| module | models | code behind it |
|---|---|---|
| `Machine` | the transition table and `next_state` | `sequencer/machine.py` |
| `Sequencer` | enrollments, tick, research task, job queue, redrive | `sequencer/tick.py`, `redrive.py`, `workers/tasks.py`, `celery_app.py` |
| `SendPath` | `generate_and_send`, slots, daily reset, sweep, suppression; extends `Sequencer` | `workers/tasks.py`, `sender/smtp.py`, `redrive.py` |
| `TouchTasks` | `generate_touch_task`, completion, skip, expiry, cancellation; extends `SendPath` | `workers/tasks.py`, `sequencer/touch.py`, `tick.py`, `api/routers/tasks.py` |
| `Inbox` | poll, classification, escalation rules, a person's verdict, bookings; extends `TouchTasks` | `inbox/`, `workers/tasks.py`, `api/routers/inbox.py`, `meetings.py` |
| `Outbox` | abstract: a row is opened, mailed at most once, done or cancelled | - |
| `ReplyDraft` | drafting, Autopilot, dispatch, inbox clicks, sweep | `workers/tasks.py`, `sender/reply.py`, `inbox/autopilot.py`, `api/routers/inbox.py` |
| `Webhooks` | endpoints and their edits, emission, delivery, retries | `webhooks/`, `api/routers/webhooks.py`, `workers/tasks.py` |
| `CrmPush` | the push of activities to the CRM | `crm/sync.py`, `api/routers/crm.py`, `workers/tasks.py` |
| `Mailboxes` | the pool of boxes: picking, counting, bounces, reset, placement tests | `sender/smtp.py`, `limiter.py`, `warmup.py`, `deliverability/health.py`, `placement.py`, `api/routers/mailboxes.py` |
| `Bandit` | arms, trials, rewards, settlement, guardrail | `bandit/settle.py`, `thompson.py`, `api/routers/campaigns.py` |
| `Leads` | gate, imports, verification, enrichment, scoring, suppression, erasure | `ingest/`, `crm/sync.py`, `scoring/enroll.py`, `compliance/suppression.py`, `workers/tasks.py` |
| `Campaigns` | steps, activation, pause, signals and rules, dry runs | `api/routers/campaigns.py`, `scoring/`, `workers/tasks.py` |
| `Access` | requests, keys, users, SSO logins, the event loop | `api/auth.py`, `api/routers/users.py`, `keys.py`, `sso.py`, `sso/oidc.py`, `core/tenancy.py`, `core/db.py` |
| `*_proofs` | theorems about `ReplyDraft`, `Webhooks`, `Bandit`, `CrmPush`, `Mailboxes`, `Campaigns`, `Access`, `Leads`, and in `Inbox_proofs` about `SendPath` and `Inbox` with its touch tasks | - |
| `MC*` | values of the constants for TLC | - |

Definitions called a mutant in their comment are wrong on purpose: each changes
one definition as a plausible bug would, and shows that a property notices.

**One idea runs through all of them.** Sessions are opened with
`expire_on_commit=False` and rows carry no version: a handler computes from rows
as it loaded them and at its commit writes the columns that differ, over whatever
the row holds by then. Most modules therefore have a *loaded* copy of each row
in the handler's state, and a history variable for the rows two handlers had in
hand at once (`crossed`, `disturbed`, `mixed`, `raced`, `contested`). The
properties hold for all other rows. So they do not catch the lost update
itself: where two handlers overlap on a row the code protects nothing, and the
properties promise nothing. What they show is that nothing else breaks, over any
number of steps of handlers that do not overlap. Four properties count the race
and do not excuse it: `CapLedger`, `OneMailPerDraft`, `OneAutoReply` and
`TaskResolvedOnce` bound what goes wrong by the number of events that caused it.

### Sequencer

`enr[e]` is the row of lead `e`: its state, `current_step` and whether
`next_action_at` is set (`due`). Time is left out: a tick may find any row due
that has a `next_action_at`.

A transaction is one step with two exceptions. *The tick* locks rows one after
the other (`SKIP LOCKED`), publishes a job for each and commits at the end:
`tick[e]` holds the row as it will be committed, other writers wait
(`Write` requires the row unlocked) and readers see the old row. *A task* keeps
the row it loaded across LLM and SMTP calls and later writes values computed
from it: sessions are opened with `expire_on_commit=False` and rows have no
version column, so `Finalize` and `FinishResearch` set the state from the state
they loaded, whatever the row holds by then.

`queue` counts the copies of each job in Redis. `Crash` puts the job back when
the worker process is gone (`acks_late`) or drops it when only the child was
killed (Celery acknowledges it, as `task_reject_on_worker_lost` is not set).
`Redeliver` is the visibility timeout of Redis, one hour by default and never
configured, which a retry countdown of an hour reaches. `RedisLost` empties it.
`dropped` is history: the leads one of whose jobs came to nothing.

### SendPath

`worker[w]` runs a task whose program counter is the last commit or call it
passed: `generate`, `reserved` (slots committed), `claimed` (outbound row
committed with `sent_at` NULL), `delivered`. `msg` is the outbound row of each
(lead, step), unique by `uq_outbound_step`. `DeliverFailed` has two outcomes:
the server refused the e-mail, or it took it and the reply was lost, which the
client cannot tell apart. `SweepUnsent` is `redrive_unsent_claims` for one
claim; its cutoff of 15 minutes is modelled as "no worker still sends it", since
the SMTP timeouts are far shorter. History variables count e-mails: `wire`
under the present row, `delivered` ever, `todays` against today's cap, `late`
after suppression, and `misfreed`, the slots given back that were not free.

### TouchTasks

`task` is the `touch_tasks` row of each (lead, step), unique by
`uq_touch_task_step`. A worker at `touch` has loaded a ready lead and waits for
the LLM; `CreateTask` is its only commit. The tick expires the open task of a
step with `skip_on_expire`: it reads the task as open and writes `expired` with
its commit (`Expiring`), whatever became of the task in between. A complete or
skip request is two steps, `Click` (load and check) and `Resolve` (write), so
two of them, or one and the expiry, overlap. `Inbox` counts in `settled` how
often each task was resolved, and in `rivals` how often one more actor loaded
it as open, or cancelled it, while another was about to resolve it
(`Holders`). `TaskResolvedOnce` allows each task one resolution and one more for
each rival. Whoever begins with a task already resolved is no rival, so the
property fails when the status is not asked: by a request (the mutant), by the
expiry of the tick, or by a cancellation (both tried by hand). Endpoints that look at an open
task of a suppressed lead cancel it and leave the lead alone
(`CancelSuppressed`).

Rows have no version, so an update computed from an outdated row overwrites the
newer one. `crossed` is history: the leads this has happened to. What is said
of the rows of a lead (`TaskMatchesLead`, `WaitingStaysArmed`,
`FinishedStaysFinished`) is said of all other leads.

### Inbox

A mail of a lead goes from `unsent` to `unseen` (on the server), `seen`
(fetched, being classified), and ends `stored`, `ignored` (no outbound row has
its Message-ID) or `lost` (the poll died after the server had marked it seen).
`poll` holds the mail and the enrollment loaded for it; when the classifier
answers, `Classify` does all that `apply_classification` and
`execute_escalation` do to lead, tasks, suppression list and review queue.
SQLAlchemy writes the columns that differ from the loaded row, which is
`Merge`. `Rules` are the operator's escalation rules, matched before the
built-in ones (`Matches`, `Escalation`). A booking and a person's verdict are one short request each. A poll
handles one mail; several in one poll share a transaction in the code, which
lengthens the time between load and commit, left arbitrary here anyway.

### ReplyDraft

All replies of one thread. `proc[p]` is a worker or an API request; the draft
row is `none`, `generating`, `pending`, `sending` or resolved, with the
`auto_sent` flag that `uq_auto_reply_per_thread` makes unique. The campaign's
Autopilot flag is copied into the process when it loads the campaign. `unsent`
counts outbound rows of replies that were committed with no `sent_at`, which
the sweep takes for claims of the send path. History: `mails` per draft, `wire`
under the present dispatch, `unconfirmed` for mails written off as failed.

Between the commit of a draft's claim and the `try` around the LLM call, and in
the policy of Autopilot before its own `try`, an exception meets no handler: the
job is used up and the row stays `generating` (`GenerateStranded`). `CommitFailed`
is the same for a dispatch, whose handlers cannot write either. `stranded` is
history: the drafts a task or dispatch left behind in this way, or by dying.

### Outbox

What both promise: a row is opened, at most one mail goes out under it, and it
ends sent, with its mail out, or is cancelled and may be opened again. A sent
row is never opened again. `SendPath` implements it with the status of the
message row, `ReplyDraft` with `sending` as an open row (`OutboxRow`). A
cancelled row may have had its mail out: that is what the code can and does do,
and what `send_dup_death` shows from the other side.

### Webhooks

`tx[t]` is a handler that emits: `emit` inserts a row for each subscribed
endpoint and publishes its job in the same breath, before the transaction ends.
`row[d]` is "open" until then. A worker is `posting` after it loaded the row,
`answered` when the receiver spoke, and commits the count with the verdict; a
failed attempt is published again afterwards (`retrying`), so a death between
the two leaves a pending row without a job. `stranded` and `duplicated` are the
history of jobs that came to nothing and of deliveries with two jobs at once:
backoffs longer than the visibility timeout are delivered twice.

### CrmPush

A run is `next` between two connections and `pushing` within one: it drew its
boundary `until` when it started, collects the committed activities between the
watermark and the boundary, appends them one call at a time and keeps the new
watermark in `moved` until its one commit. `late` are activities that became
visible behind a boundary already drawn, because their transaction committed
later or the lead was linked later.

### Mailboxes

`session[s]` is an open session: the boxes as loaded, as changed in memory, the
ones flushed and so locked, and its increments of the domain's rollup. A sender
picks a box below its cap and outside its rate slot, delivers, counts; a poll
counts bounces, degrades and pauses; the reset at night clears counters,
advances warmup and lifts `degraded`; a placement run mails every seed from a
box. Caps follow the warmup stage and are halved for a degraded box. An exchange
that fails after the server took the mail (`LostReply`) is handled as one that was
refused, by all three kinds of sender: the mail is out and the box is not charged.
`uncounted` is history: those mails, and the mail of a sender that died before it
had recorded it. `CountersExact` accounts for every mail with it, and `CapHeld`
lets a box pass its cap by as many and no more.

### Bandit

`message[m]` holds the arm and the skeleton it was drafted from. The settlement
selects overdue messages (`FOR UPDATE SKIP LOCKED`), counts them as failures,
runs the guardrail and commits; a reply records a success or failure for a
message row it read before it asked the classifier. An operator adds arms,
switches them and edits their text.

### Leads

A lead is its address; its `id` is the import that created it, so that erasing
and importing again makes a different lead. Imports read the suppression list
and known leads first and insert later (the unique address fails the whole
batch of the second of two); they publish a job for each new lead before they
commit. A worker verifies, reserves calls from the day's budget
in its transaction, asks the providers and writes what it found if the field
was empty. Scores and suppressions change the status column, erasure deletes.

### Campaigns

`edit[e]` is a request that adds, deletes or re-channels a step: it looks for
enrollments (`Frozen`) when it starts, writes under the unique constraint on
`step_order`, commits later. `act[a]` is an activation across its scoring,
`sweep[w]` a run of `collect_signals` across its fetches, `dry[d]` a dry run and
its job. A page has versions; the collector keeps the last fingerprint.

### Access

The process has one event loop. `req[r]` is authenticated on it, runs in a
thread or, if the endpoint is async, on the loop, and is closed by the loop.
The first query of a request flushes the stamp of `last_used_at`, which locks
the key's row (`lock`) until the transaction ends. `LoopBlocks` is an async
endpoint that meets a locked row: nothing else of the process runs until the
holder is done, which may itself need the loop. The lockout guard reads the
owners at `Query` and writes at `Commit`; the lock makes two requests of one key
follow each other, and only those.

## What is checked

| run | instance | shows |
|---|---|---|
| `send_safety` | 1 lead, 2 e-mail steps and a task step, 2 workers, 1 retry, 1 unhandled failure of any kind and 1 redrive, 1 midnight, org cap 1 below campaign cap 2; 228 000 states | type invariant and `ClaimsOwned` (a claim has one owner, and what went out is what its program counter says), `OneDeliveryPerClaim`, `CapLedger`, `SuppressionStops`, `ScheduleKept` (a waiting lead has a timer, a lead is stranded only for a named cause), `StepsInOrder`, `OneTaskAtATime`, `TerminalIsFinal`, and the refinement `OutboxPromise` |
| `inbox` | 1 lead, 3 steps (e-mail, a task that expires, a task that holds), 1 worker, 1 mail of any label, 1 configured rule, bookings, 1 request and 1 click, a death, loss of Redis or redrive; fair; 259 000 states, the slowest run, 3 minutes | `InboxInv` (types, `TaskMatchesLead`, `WaitingStaysArmed`), `TaskResolvedOnce`, `FinishedStaysFinished`, `ClaimsResolve`, `ExpiringStepsMoveOn` |
| `draft_safety` | 2 replies, 2 processes, 2 clicks, 1 switch, 1 unhandled failure, symmetric; 666 000 states | `OneMailPerDraft`, `OneAutoReply`, `DraftsOwned`, `SuppressionStops`, `ResolvedIsFinal`, `OutboxPromise` |
| `draft_live` | 2 replies, 2 processes, 1 unhandled failure of any kind, fair; 112 000 states | `DraftsSettle` |
| `webhooks` | 1 endpoint, 1 delivery of 3 attempts, 1 emitter, 2 workers, 1 edit, 2 faults; fair; 244 000 states | `WebhooksInv` (`BudgetHolds`, `NoneForgotten`), `ResolvedOnce`, `Settles` |
| `crm_push` | 1 connection, 1 lead, 2 activities, a beat run and a button run, 3 points of time, 1 fault; fair; 359 000 states | `CrmPushInv` (`WatermarkCovers`, `PushedOnceUndisturbed`), `EventuallyTried` |
| `mailboxes` | 2 boxes of 1 domain, one in warmup, a sender, a poll, the reset, a placement run of 1 seed; 2 mails or 3 bounces, 2 rare events, lost replies at any time; 584 000 states | `MailboxesInv` (`CountersExact`, `SeedsAccounted`), `PauseHolds`, `CapHeld` |
| `bandit` | 2 arms, 3 messages, 1 settler, 1 reply, guardrail after 2 trials, 1 edit or death, symmetric; 450 000 states | `BanditInv` (`PosteriorExact`, `SettledOnce`), `ArmRemains` |
| `leads` | 2 addresses, a CSV and a CRM import, 2 workers, 1 activation, 1 opt-out, budget of 1 call, 2 rare events, symmetric; 1 080 000 states | `LeadsInv` (`SuppressionSticks`, `BudgetExact`, `EveryLeadTried`), `OperatorDataKept` |
| `campaigns` | 2 campaigns, 1 lead, 1 planned step, 2 editors, 1 activation at a time, 2 sweeps, 1 feed entry, 1 dry run, 4 requests or faults, symmetric; 3 470 000 states | `CampaignsInv` (`StepsInOrder`, `SignalsExact`, `DryRunBounded`), `SequenceFrozen`, `EnrolledOnMerit` |
| `access` | 4 users of 2 orgs, 2 keys, 2 requests, 3 logins of 2 identities, 3 events; fair; 450 000 states | `AccessInv` (`OwnerRemains`, `LinkedForGood`, `SessionsExact`), `RequestsEnd` |
| `send_dup_death` | as small as the behaviour allows | what a comment says and the code does not do, below |

*Why the bounds are enough.* Every conflict in this code is between two parties
over one row: two copies of a job, a task and the sweep, a task and a person,
two leads and a counter. One retry suffices for a second attempt and for the
retries to run out; two steps of a kind for their order, one of the other; a cap of 1 makes the last
slot the first; one midnight separates the day of a slot from the day it is
given back. One unhandled failure (death, loss, redelivery, exception) leaves
one thing to recover (`MaxEvents` bounds it together with redrives and other
rare events), and handled failures (`smtp_error`, `lost_reply`,
`no_capacity`, `bad_copy`, `blocked`) are not bounded at all. Symmetry is used
only where no liveness is checked. Deadlock is not checked: a sequence that is
over, or a lead that is stranded, is a state in which the system rightly (or by
a known defect) does nothing more.

*Fairness.* Beat runs the tick, the poll and the sweep again and again; workers
take queued jobs; the LLM, database and SMTP calls of a running task return
(each has a timeout). Hence weak fairness of those actions, one by one for each
lead, worker and claim. In `Webhooks` workers go on while there are jobs and
handlers end their transactions; in `CrmPush` beat starts its task, runs go on
and time passes; in `Access` the loop, the threads and the services they call
come to an end if the database lets them. People, failures, edits and midnight
get none.

*Ledgers.* The caps, the single automatic reply and the single mail do not hold
outright in this code (a slot is given back on the wrong day, a lost SMTP reply
looks like a failure), nor does the single resolution of a task. `CapLedger`,
`CapHeld`, `OneAutoReply`, `OneMailPerDraft` and `TaskResolvedOnce` say how much
they can be exceeded and by which events alone, which is stronger than a property
that excludes those events.

## Where code and words disagree

The first has a run of the table; each of the others a configuration beside it,
to be run by hand, whose counterexample shows it.

- `workers/tasks.py:241-244`, "a worker killed mid-send never produces a
  duplicate email". Killed after the server took the e-mail and before `sent_at`
  is committed, the claim is swept 15 minutes later and the step sent again
  (`SendPath_dup_death`, `NoDuplicateEmail`).
- `sequencer/tick.py:131-132`, the worker "owns the next schedule either way, so
  next_action_at is cleared on dispatch". A worker that takes the job before the
  tick commits reads the lead as it was, returns, and after the commit nothing
  selects the lead again (`SendPath_dispatch`, `DispatchIsAnswered`).
- `api/routers/campaigns.py:688-689`, the kill switch is "instant: the flag is
  read fresh at every policy evaluation". It is read before the LLM call
  (`ReplyDraft_kill`, `KillSwitchIsFresh`).
- `inbox/pipeline.py:211-212`, replies "get a validated draft queued". The job
  is published before the poll commits the reply; a worker that is first finds
  nothing (`ReplyDraft_no_draft`, `ReplyGetsDraft`).
- `README.md:53`, "interested replies stop the sequence". There is no transition
  from `ready`: a reply stored after the timer fired and before the step is over
  is skipped with a log line, and the step goes out (`Inbox_reply`,
  `RepliesStopTheSequence`).
- `APPLICATION_OVERVIEW.md:318-319`, "`ooo` -> `ooo_rescheduled` -> timer ->
  resumes the already-queued drip on the return date". A lead waiting for a
  person has no timer, and a note without a date sets none: it stays rescheduled
  for ever, its task cancelled (`Inbox_ooo`, `OutOfOfficeResumes`). The same
  happens to a rescheduled lead whose next reply is an objection: no transition,
  and `next_action_at` is cleared.
- `deliverability/health.py` (nothing automatic revives a paused domain) and
  `sender/smtp.py` (a straggler bounce never demotes a paused box). A poll that
  loaded the box before the pause writes `degraded` over it (`Mailboxes_pause`,
  `PausedStaysPaused`).
- `api/routers/campaigns.py`, `update_variant`: the posterior "measured replies to
  this exact skeleton". Mails sent before an edit settle after it (`Bandit_copy`,
  `PosteriorMeasuresCopy`).
- `scoring/rules.py:9`, a signal "can never do more than a human clicking Activate
  would". The score it acts on may be that of another campaign
  (`Campaigns_signal`, `SignalDoesNoMore`).
- `plans/m0.1-auth.md:56-57`, `last_used_at` is "best-effort, no extra round trip
  blocking the request". The stamp holds the key's row for the whole request; an
  async endpoint that meets it stops the event loop its holder may need
  (`Access_hang`, `StampIsBestEffort`).

Three more are stated without a configuration: `PushedAtMostOnce` (`CrmPush`;
`crm/sync.py:14-16`, overlapping runs push twice), `PingsAreTried` (`Webhooks`; a
ping of an inactive endpoint fails untried) and `EmittersUnharmed` (`Webhooks`;
`webhooks/events.py:84-86`, a database error in `emit` ends the emitter's
transaction).

Others are visible in the models as the terms of the ledgers and the histories:

- *Sending.* A slot reserved before midnight and given back after it (`misfreed`;
  `sender/smtp.py:139`); the lost SMTP reply taken for a failure at
  `workers/tasks.py:276` and `sender/reply.py:200` (`lost_reply`, `unconfirmed`,
  `autoUnconfirmed`), against `workers/tasks.py:277`, "in-process failure means it
  did NOT send"; the retries of a lead refused by a cap, which end within
  three hours and not at midnight (`dropped` in `PresendBlocked`); jobs of
  dispatched leads lost with Redis, which no sweep re-derives (`RedisLost`);
  `skip` on a lead at step 0, which attempts the failed step 1 again (`Redrive`);
  a draft left `sending` when its last commit fails (`CommitFailed`); a draft left
  `generating` by an exception no handler surrounds (`GenerateStranded`), against
  `workers/tasks.py:510-511`, "only a hard crash leaves a stuck 'generating' row"; a campaign
  slot given back for a reply that never took one (`freed`).
- *Inbox and tasks.* Two requests that both loaded a task as open both resolve it
  (`rivals`), against `sequencer/touch.py:40`, "a resolved task can never advance a
  sequence twice": the invariant `\A k \in Keys : settled[k] <= 1`, run by hand in
  place of `TaskResolvedOnce`, is violated; a reply lost with the poll that fetched it
  (`PollFails`); a suppressed lead whose cancelled task leaves it waiting for a
  person for ever (`CancelSuppressed`).
- *Mailboxes.* A box sends beyond its cap by each mail whose reply was lost
  (`uncounted`), whether of a task, an inbox reply (`sender/reply.py:200`) or a
  placement run (`placement.py:168`); the domain's rollup and the boxes' counters differ after two
  overlapping writers; a redelivered placement run mails its seeds again; the
  limiter reads and sets its slot in two calls; a degraded box with a limit of
  zero may send one; the reset comes every 86400 seconds, not at midnight; two
  `add_mailbox` requests can pass one quota.
- *Leads.* A lead whose job ran before its import committed stays `new` for ever;
  the CRM import updates and links suppressed leads, though its comment says
  otherwise; enrichment holds the organisation's row over the providers' calls,
  and a database error in it makes the final commit raise; `erase_lead` leaves
  `crm_links` behind.
- *Campaigns.* An edit that looked before an enrollment commits changes a frozen
  sequence; overlapping deletions leave a gap in the order; an activation writes
  over a pause made meanwhile; overlapping sweeps emit one signal twice; a dry
  run whose job is lost stays `running`.
- *Access.* Two owners demoting each other under different keys leave none, and
  so does a disable of a viewer that overlaps its promotion; two first logins of
  one address relink its user, and one of a disabled user links it and is refused;
  conflicts of provisioning are 500s; a login code can be handed out before its
  transaction commits.

## What is proved

| theorem | says |
|---|---|
| `Inbox_proofs!TypeCorrect` | `Spec => []TypeOK`, of `SendPath`, as the next seven rows are |
| `ClaimsAreOwned` | `Spec => []ClaimsOwned`, the inductive invariant |
| `OneDelivery`, `SentMeansDelivered` | `[]OneDeliveryPerClaim`, `[]SentWasDelivered` |
| `SuppressionHolds`, `CapsHold`, `OrderHolds` | `[]SuppressionStops`, `[]CapLedger`, `[]StepsInOrder` |
| `ScheduleStands`, `ScheduleHolds` | `[]ScheduleInv`, the inductive invariant, and `[]ScheduleKept` |
| `OneStands`, `OneTaskHolds` | `[](Undisturbed => OneInv)`, the inductive invariant, and `[]OneTaskAtATime` |
| `TerminalHolds` | `Spec => TerminalIsFinal` |
| `ImplementsOutbox` | `Spec => OutboxPromise` |
| `ReplyDraft_proofs!TypeCorrect` | `Spec => []TypeOK` |
| `DraftsHaveOwners` | `[]DraftsOwned`, the inductive invariant |
| `MailsAreAccounted` | every mail is that of the present claim or was written off |
| `OneMail`, `OneAuto` | `[]OneMailPerDraft`, `[]OneAutoReply` |
| `SuppressionHolds`, `ResolvedStays` | `[]SuppressionStops`, `Spec => ResolvedIsFinal` |
| `ImplementsOutbox` | `Spec => OutboxPromise` |
| `WebhooksBandit_proofs!TypeCorrect` | `Spec => []TypeOK`, of `Webhooks`, as the next two rows are |
| `BudgetIsKept`, `NoneIsForgotten`, `WebhooksHold` | `[]BudgetHolds`, `[]NoneForgotten`, `[]WebhooksInv` |
| `ResolvedIsFinal` | `Spec => ResolvedOnce` |
| `WebhooksBandit_proofs!BanditStands` | `BanditSpec => []BanditInv` (types, `PosteriorExact`, `SettledOnce`) |
| `ArmsRemain` | `BanditSpec => ArmRemains` |
| `CrmPush_proofs!TypeCorrect` | `Spec => []TypeOK` |
| `Covers`, `NothingLostOrRepeated` | `[]WatermarkCovers`, `[]CrmPushInv` |
| `Access_proofs!TypeCorrect` | `Spec => []TypeOK` |
| `AccessIsKept` | `[]AccessInv`: `OwnerRemains`, `LinkedForGood`, `SessionsExact` |
| `Mailboxes_proofs!MailboxesStand` | `Spec => []Ind`, the inductive invariant |
| `MailboxesHold`, `PausesHold` | `[]MailboxesInv` (types, `CountersExact`, `SeedsAccounted`), `[]PauseHolds` |
| `CapsHold` | `Spec => CapHeld` |
| `Campaigns_proofs!TypeCorrect` | `Spec => []TypeOK` |
| `MeritHolds`, `SequenceStays`, `StepsStayInOrder` | `[]EnrolledOnMerit`, `[]SequenceFrozen`, `[]StepsInOrder` |
| `CampaignsHold` | `[]CampaignsInv`, with `SignalsExact` and `DryRunBounded` |
| `Leads_proofs!AlwaysTyped` | `Spec => []Typed`, with the shape of every transaction |
| `RowsStand` | `[]RowsInv`: what is linked, enrolled, loaded or inserted, by which import |
| `SuppressionHolds`, `BudgetHolds`, `JobsHold` | `[]SuppressionSticks`, `[]BudgetExact`, `[]EveryLeadTried` |
| `LeadsHold` | `Spec => []LeadsInv`, the three and `TypeOK` |
| `OperatorDataStands` | `Spec => OperatorDataKept` |
| `Inbox_proofs!InboxTyped` | `InboxSpec => []InboxTypeOK` |
| `InboxStands`, `InboxHolds` | `[]InboxInd`, the inductive invariant, and `[]InboxInv`: `TaskMatchesLead`, `WaitingStaysArmed` |
| `ResolvedOnce`, `FinishedStays` | `InboxSpec => []TaskResolvedOnce`, `InboxSpec => FinishedStaysFinished` |

They hold for any number of leads, workers, replies, processes, mailboxes, domains, seeds, endpoints,
deliveries, emitters, connections, users, keys, campaigns, editors, sweeps, addresses, imports,
opt-outs, requests, mails, arms, settlers and rules, any caps, budget, sequence and bounds, under the assumptions the modules name (`SequencerAssumption`, `SendPathAssumption`,
`ReplyDraftAssumption`, `WebhooksAssumption`, `BanditAssumption`, `CrmPushAssumption`, `AccessAssumption`,
`MailboxesAssumption`, `CampaignsAssumption`, `LeadsAssumption`, `TouchTasksAssumption`,
`InboxAssumption`): types of the constants, at least one arm, names that stand for one thing,
sets that are counted finite, one user for an address of an organisation, and a
first step and campaign.

*Send path.* `OneDeliveryPerClaim` alone is not inductive: from a state in which
two tasks own one row, or a task delivers under a row another has finalized, one
step breaks it. `ClaimsOwned` adds what makes it so: a task between its claim
and its end owns its row (the unique index lets only one insert it, and the
sweep leaves rows of live tasks alone), and `wire` is 1 exactly from `Deliver`
on. Each action is a step of the proof; those that touch neither `msg`, `wire`
nor a sending task follow from one frame lemma. The refinement then maps
`Claim`, `Deliver`, `Finalize` to `Open`, `Mail`, `Done`, and `DeliverFailed`
and `SweepUnsent` to `Cancel`.

Five more invariants of the send path are proved on top, each inductive:

- `LateInv`: of a suppressed lead, what went out late plus the tasks now past
  their check (`Owing`, a finite set) is at most `past`; of others nothing is late.
- `SlotInv`: the slots of today that running tasks hold, the claims of today not
  yet mailed and the mails of today are together covered by each counter plus
  what was misfreed, and no counter exceeds its cap. It needs that a task and its
  row agree on their day, and that at midnight neither is of the day to come.
- `ScheduleInv`: a row the tick has locked is moved by that tick alone, a queued
  or waiting row is armed, and a lead handed out has a job, a task or a claim
  unless the loss is on record in `dropped`.
- `OrderInv`: every step behind a lead's present one is sent, between steps the
  present one too, and a task works on a step its row has reached. A task's
  commit overwrites the row as it loaded it, so the proof also needs
  `ClaimsOwned` and `LockedRows`.
- `OneInv`: a lead has nothing, one job or one task, and its row is in the state
  that job or task expects; a claim belongs to a running task. It holds until
  `Undisturbed` fails, and gives both `OneTaskAtATime` and `TerminalIsFinal`:
  a task that runs has a row that is not terminal.

*Drafts.* `DraftsOwned` plays the same part with the conditional update of
`_claim` instead of the index, and says too that a thread has at most one
`auto_sent` flag. The ledger `mails[d] = wire[d] + unconfirmed[d]` (and the
same for automatic mails, which needs the flag) is proved from it; with
`wire \in 0..1` it gives the two bounds. `SuppressionStops` counts dispatches past
their check, by a click or by a job, as `LateInv` does above; that a resolved
draft is final follows from who may own which status.

*Webhooks.* A row of an open transaction belongs to that transaction alone, and
no job of it has got further than to find nothing. Two jobs of one delivery at
once are always on record as `duplicated`, so of any other delivery the one job
works on the row as it is: still pending or deleted, with one attempt less than
the job is making. Then the POSTs received are the attempts counted, plus one
while the job has its answer in hand, plus at most one for each worker that died
in between. A row that may still be tried has attempts left, and each row not
resolved has a queued job or a worker that is not done with it, or is
`stranded`. `ResolvedOnce` follows, because the only job that could write a
resolved row would be a second one.

*CRM.* What lies behind a watermark was pushed or was late. The invariant says it
of the watermark a run will write as well: an activity between the old and the
new one is either still in the run's hand or pushed. That a connection nobody
disturbed pushes once needs that an activity in a run's hand was not pushed
before, and that the run's start is still the row's watermark.

*Access.* `OwnerRemains` needs the request that will take an owner away: it has
looked, it holds its key's row, and somebody else is left; of an organisation not
`contested` there is one such request. `LinkedForGood` needs that a first login
waits only while no user has its identity, `SessionsExact` that the request which
burned a code is the only one that may make a session from it.

*Campaigns.* Once somebody is enrolled in a campaign, no edit is open that looked
before, so the structure is the planned one. While no two edits overlapped, the
orders are a bijection onto 1..n and what the one open edit read still fits the
rows: removing an order and closing the gap, or adding the next, keeps the
bijection (`AddNumbers`, `DeleteNumbers`). A sweep's additions carry the reason
they were made for; a sweep that is alone compares with the baseline in the row,
and no version after that baseline has a signal; items of a dry run and leads
still to do never exceed the sample times its deliveries.

*Leads.* Every step moves one transaction, ends one, commits one or erases a lead
(`ActMoves`), and a commit touches each row in one of three ways: it inserts it,
writes the columns that differ over it, or leaves it (`CommitsFacts`). On these
two lemmas rest four inductive invariants. `RowsInv`: a row, committed or loaded,
is of an import that is done, so no import that commits has the `id` of a lead
that is there. `SuppressedInv`: an address on the list that did not cross a
transaction is in nobody's hands but as suppressed, and one that is being put
there is in the hands of that transaction alone, with the row as it is.
`TriedInv`: `EveryLeadTried` for imports that have published and not committed
yet, too, and a worker past verification has tried its lead, so that one that
ends loses nothing. `TitleInv`: a worker that has a lead alone sees the title it
has now; a value fills a column the worker saw empty, so one that was supplied
stays. `BudgetInv` says that one transaction at a time holds the row of the org.

*Inbox.* The theorems are about `InboxSpec`, in which the send path, the touch
tasks and the inbox all write the same rows. `TaskMatchesLead` and
`WaitingStaysArmed` are not inductive: a tick holds rows it read some time ago, a
touch job may wake after its lead has moved, a poll writes from an old row.
`InboxInd` adds what makes them so:

- `TickedRows`: what a running tick holds of a lead is one step of the tick from
  the committed row.
- `RightChannel`: a touch job works on a task step, a send task on an e-mail step.
- `BriefFirst`: only a lead whose company has a brief has left the queue, so that
  a redrive, a reply or a booking never meets one that is queued.
- `InStep`, for every lead no two writers crossed on and while nobody has
  redriven: the open task is for the lead's present step, every task step behind
  it had its task, and no job works on a step the lead has not reached. A late
  `CreateTask` then finds that its task exists.

A step of the composition, whoever takes it, makes one of a few moves of a lead
(`InboxMoves`): it stays, a send commits, a step passes, a task starts to wait or
is resolved, the lead leaves, or the step is one of those `crossed` and the
redrives are excused for. One lemma for each action says which; one lemma for
each move says that it keeps `InboxInd`. `FinishedStaysFinished` is read off the
moves.

`TaskResolvedOnce` has an inductive invariant of its own, `SettledInv`: a task not
resolved yet has `settled` zero, and the resolutions done and those under way
(`settled[k] + Holders(k)`) never exceed `1 + rivals[k]`. Only an open task is
taken up, so the first to take it up finds both zero; each other raises `rivals`.
One lemma for each kind of action says which tasks it resolves and which it takes
up (`ResolvingStep`), and that there is no third way to change the number of
holders.

*Mailboxes.* None of the properties is inductive, because a session may write
long after it read. `Ind` says what every open session will do to the counters:

- `Typed`: a session changes only the health and the bounces of the rows it holds
  (`Writes`), never takes a pause back, and a row it has not flushed is as loaded.
- `SentInv`: of a box that is not `disturbed` one sender, or the reset, has the
  row, with the `sent_today` the table has; mails are that counter, those still to
  be recorded, at most one, and the `uncounted`; the
  slot let one sender through; a picked row is below its cap.
- `HealthInv`: the same of polls and the reset for bounces and health, so that
  what a poll will write over a paused box is a pause.
- `SeedsInv`: what the placement run has behind it is answered, what it has still
  to do was mailed at most once for each time the run died.
- `PauseInv`: `PauseHolds`, and for a poll whose commit will take a domain to the
  threshold, that this commit pauses every box of it. The lock on the domain's row
  keeps two polls from each bringing half of the bounces, which neither would see.

`CapHeld` follows: the sender that delivers has the row alone, so nothing is
still to be recorded, and mails are `sent_today`, by which the row was picked,
and the `uncounted`.

*Bandit.* The inductive invariant is `BanditIInv`, three parts.
- `BanditTyped`: a session that has judged its messages holds exactly their arms,
  each raised by the number of its messages and otherwise as it was loaded
  (`Raised`), and a mail in a session is sent, so that its arm no longer changes.
- `LearnInv`: of what is not `disturbed` one session has the row (`OneHas`); an
  undisturbed message in a session that judged it is still pending (`MessageExact`);
  an undisturbed arm counts its outcomes and is as the session loaded it
  (`ArmExact`). A disturbed message has a disturbed arm, so the messages of an
  undisturbed arm all settle once, and a commit adds to the arm as many as it adds
  to the count (`MoreCounted`).
- `ArmInv`: unless `skewed`, one settler is at work, and what it is about to switch
  off leaves an arm. When it decides, that is `GuardrailLeavesOne`: `FarBehind` is
  a strict order (`BehindIsTransitive`) and the arms are finite, so one of them is
  behind none; the guardrail compares means of the session's own rows.

*Only model-checked.* Liveness (`ClaimsResolve`, `ExpiringStepsMoveOn`,
`DraftsSettle`, `Settles`, `EventuallyTried`, `RequestsEnd`), which the provers
cannot reach.

## What is not modelled

- What the LLM writes and the validator's rules: the models have their verdict,
  as a choice. So with the answers of research and enrichment providers.
- The choice of a mailbox by the send path: in `SendPath` a send may always meet
  "no capacity"; `Mailboxes` models the choice and the counting on their own. The
  rate slot of a domain, which is off by default, is left out.
- Clock time, but for the order of midnight, timers, cutoffs and watermarks.
- The rows of meetings and the order in which their webhooks arrive: only what a
  booking does to an enrollment.
- The deletion of a lead's messages against tasks that hold them: `Leads` erases
  the lead, its address and its list entry.
- Scopes of keys and the cryptography of tokens and unsubscribe links.
- Routing, schemas, migrations, metrics, DNS, the web app: no state shared with
  the above.
