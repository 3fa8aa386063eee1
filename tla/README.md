# Formal models of the Cut Through Faster programs

TLA+ specifications of the parts of this repository whose correctness depends
on the order in which independent things happen: webhooks, staff, cron runs,
caches, retries and failures. TLC checks them on small instances; TLAPS proves
the most important properties for instances of any size.

    cd tla
    tlc -workers 2 -config MCLiveCall.cfg MCLiveCall      # any run of PROJECT.json
    tlapm LiveCallProofs.tla                              # any *Proofs module

`PROJECT.json` lists the components, the runs and their properties, a mutant
that breaks each property, the source lines every definition stands for, the
hazards, the findings and the theorems.

## 1. The system

Four programs share this repository.

| program | what it is | state |
|---|---|---|
| `app/` | the control platform: a Cloudflare Worker, a D1 database and a React page | D1 (`app/migrations`), the Cache API, sessions in cookies |
| `demo/` | demonstration pages for prospects, Next.js on Supabase | Supabase (`demo/migrations`) |
| `demo/heartbeat/` | a scheduled Worker: keeps the database awake, works through the callback queue | the table `leads` |
| `infra/`, `ctf-website/` | scripts for n8n, a static site | none of their own |

Nothing in these programs holds a lock. A request or a cron run executes on its
own, every statement to D1 or Supabase is atomic, and everything between two
statements interleaves with every other request. What protects the data is the
text of single statements (`INSERT OR IGNORE`, `ON CONFLICT ... CASE`,
`COALESCE`, `PATCH ... WHERE status = `), and that is what the models keep
word for word.

### Inventory

| component | state | operations | interacts with | what is hard | what makes it correct |
|---|---|---|---|---|---|
| Live calls: `worker/routes/webhook.ts`, `calls.ts`, `lib/vapi.ts` | `calls`, `transcript_lines`, `webhook_events` | webhook delivery, takeover, hang-up | Vapi (messages, control URL), statistics | duplicated, late and reordered deliveries; handlers that die; staff racing webhooks | no line twice, no step back, one end time, everything answered 200 is applied |
| Statistics: `routes/metrics.ts`, `lib/statsCache.ts` | `organizations.stats_version`, Cache API entries | ask, compute, store, bump | live calls | late cache writes, reads during writes, failed bumps | an answer is not older than what was announced |
| Callback queue: `heartbeat/src/callbacks.ts` | `leads.callback_*`; `inProgress`, `due` and `budget` in memory | follow up, skip, claim, dial, save, email | Vapi, Resend, the team's `contacted_at` | overlapping runs, calls that may have gone out, runs that die | nobody is dialled twice without cause, everybody is settled and reported once |
| Sign-in: `lib/auth.ts`, `lib/twoFactor.ts`, `lib/totp.ts`, `routes/auth.ts`, `routes/twoFactor.ts` | `sessions`, `users`, challenges, backup codes | login, challenge, verify, resend, enrol, disable, step up, logout, password change | team and platform administration | verification against rows read earlier, one-use codes | no session outlives what ended it, no code works twice |
| Team: `routes/users.ts`, `lib/permissions.ts` | `users` | create, update, reset, disable | sign-in, platform | check-then-act on owners and seats, stale writes | an organization keeps an owner; a disabled member has no session |
| Platform administration: `routes/platform.ts`, `lib/platform.ts`, `lib/notices.ts` | `organizations.status`, `platform_hold`, step-up stamps, `audit_log` | activate, block, hold, enable, step up, overview, activity | sign-in, team, console | two administrators at once | a block is not undone by something older |
| Request gate: `worker/index.ts` | none | order of the gates of `handleApi` | the screens of the page | which refusal comes first | whoever follows the screens gets through |
| Rate limiter: `lib/rateLimit.ts` | `rate_limits` | consume | all routes | window boundaries | at most the limit per window |
| Signup and Google sign-in: `routes/signup.ts`, `routes/googleAuth.ts`, `lib/google.ts` | `oauth_states`, `users`, `organizations`, `terms_acceptances` | start, callback, consent | Google, sign-in | replayed and crossed callbacks, changed and respelled addresses | an attempt makes one organization and signs in who began it |
| Screens: `app/src/App.tsx`, `pages/` | the page's copy of the session, the stage of each form | load, sign in, accept, change password, enrol, use | request gate | the copy is older than the tables | nothing offered is refused; nobody is stuck on a screen |
| Console: `pages/AdminConsole.tsx` | the polled list, one dialog, the pages of the activity | choose, confirm, step up, act, show older | platform administration | late answers, orders that outlive their request | the list gets only newer; a confirmed action is settled |
| Dashboard: `pages/Dashboard.tsx`, `hooks/`, `lib/api.ts` | cursor, timers, the pages of the history | poll, show the transcript, filter, load more | live calls | a late answer after a newer one | lines and calls shown once and in order |
| Demo pages: `demo/src/app/demo`, `lib/prospects.ts`, `api/demo` | `prospects`, `demo_events`; the panel of each tab | open, pick, talk, stop, log | Vapi's web SDK | two tabs, attempts that overlap, events without an answer | a link is spent once and the funnel's pairs are complete |
| Contact form and outreach: `demo/src/app/api/lead`, `lib/leads.ts`, `scripts/import-outreach.mjs`, `api/unsubscribe`, `lib/analytics.ts` | `leads`, `outreach`, `email_suppression` | ask for a call, import, unsubscribe, read page by page | callback queue | copies of one request, a sheet that is older than the table | a request is one lead; an opt-out stays |
| Billing, local time: `lib/billing.ts`, `lib/time.ts`, `heartbeat/src/sast.ts` | none | pure functions | statistics, callbacks | rounding, boundaries of days | agree with their definition |

## 2. Plan

Written, in this order:

1. `LiveCall` with the abstract `CallRecord`, and `LiveCallProofs`.
2. `Callbacks`, and `CallbacksProofs`.
3. `StatsCache` with the abstract `Statistics`, and `StatsCacheProofs`.
4. `Accounts`, and `AccountsProofs`.
5. `LiveFeed`.
6. `SignIn`: the statements behind `BeginSignIn`, `OpenSession` and `EndSession`, by which `Accounts` stands in for it; `SignInProofs`.
7. `DemoCall`; `CallPagesProofs` for it and `LiveFeed`.
8. `Leads`, `Outreach` and `GoogleSignUp`, composed by `MCPublic`; `PublicProofs`.
9. `Admission`, `Console`, `ActivityFeed` and `CallHistory`, composed by `MCScreens`; `ScreensProofs`.

Left: the team panel and the notices would make a module beside `Console`. Every
safety property of the runs is proved; what is left to prove is how `SignIn`
fills in the sign-in of `Accounts`, step by step.

## 3. The modules

### LiveCall, CallRecord, LiveCallProofs, MCLiveCall

One telephone call. The variables `call`, `transcript`, `webhookEvents` and
`statsVersion` are the tables; `pc` and `job` say where each handler is and
what it holds between two statements (`job.pending` the lines still to append,
`job.sawTakeover` what `finalizeCall` read); `onLine` and `deliveries` stand
for Vapi. Times are not numbers: an end time is named after the writer whose
clock it is (`Stamp`), which is all the `COALESCE`s tell apart, and a duration
after the end it counts to.

| actions | code |
|---|---|
| `RecordEvent`, `IgnoreUnknownOrg`, `UpsertCall`, `BumpStats`, `CountLines`, `AppendLine`, `ReadForFinalize`, `FinalizeCall` | `handleVapiWebhook` and what it calls, statement by statement |
| `StartTakeover`, `TransferCall`, `MarkTransferring`, `NoteInTranscript` | `handleTakeover` |
| `StartEndCall`, `HangUp`, `MarkEnded`, `BumpEnded`, `NoteInTranscript` | `handleEndCall` |
| `HandlerDies`, `RequestDies` | an exception or a stopped isolate between any two statements |
| `CallerHangsUp` | the call itself |

The upsert and the SELECT behind it are one action: the SELECT's result is used
for the row's id alone, which never changes. `CallRecord` is the promise: a call
becomes known, gains transcript lines, and closes once at an end time that
stays, with an outcome that a later report may correct.

### Callbacks, CallbacksProofs, MCCallbacks

The table `leads`, the runs of `runCallbacks` that cron starts every five
minutes, and the telephone calls Vapi placed. A run is a small program counter
(`phase`, `step`) with the rows it read (`todo`, `row`): rows are copies, so a
run decides by what it read and only `updateLead` (a PATCH that asks for the
status the row was read with) sees the table as it is. A verdict is decided in
one action, written in another (`Patch`) and emailed in a third (`TellKamva`).

Time is counted in cron intervals. Ages of timestamps grow with `Tick`; a run
keeps the `now` it started with, and `late` is how far it has fallen behind.
"Within the last 24 hours" ends by `DayPasses`, at any time after the shorter
waits. `OutsideHours` or `ReadStale` is a free choice: every run may be inside
or outside calling hours.

### StatsCache, Statistics, StatsCacheProofs, MCStatsCache

One organization and one set of the other key parts. What `buildMetrics` reads
is the set of changes each of its statements saw; the key is the version, the
only part that changes under it. `puts` are cache writes handed to `waitUntil`,
which land late or never; entries go whenever they like. `Statistics` says what
an answer may be: every reading holds all that was announced when the question
was asked, and nothing unwritten.

### LiveFeed, CallPagesProofs, MCLiveFeed

The live panel of one browser tab. JavaScript runs one task at a time, so an
action is a task: an answer that arrives (`LiveArrives`, `TranscriptArrives`), a
timer, a visibility change, a render, and the effects of a render, which React
runs in a later task. That gap is where the refs of `useTranscript` already
belong to the new call and the poll still to the old one. `request[p]` is the
one request of poll `p` that nobody has aborted; `Run` shows what `run()` does to
the one before it, including the timer that the aborted run sets in its
`finally`. An answer has two parts, headers and body, because `request()` of
`api.ts` treats the loss of the second as an answer of null (`BodyLost`).
Delays are left out, so a timer may fire at any time and the back-off is not
visible; an answer 401, upon which the page is left, ends a behaviour. What the
`SELECT` gives is stated by its result: `Additions` are the lines behind the
cursor, up to a page of them, and the answer lists them `InOrder`.

### Accounts, AccountsProofs, MCAccounts

One organization, its logins, and the handlers of the Team panel and the CTF
console. A slot is a request: it begins by reading (`BeginUpdate`,
`BeginOrgAction`, `BeginAccountAction`, `BeginCreate`, `BeginSignIn`), may read
again (`CountOwners`, `CountSeats`, `ListMembers`), and writes in a statement or
batch of its own. Whatever a body leaves out, `handleUpdateTeamMember` writes
back as it read it, so the values written are simply some role and some
`disabled`.

No write of these handlers repeats the check its reads were for, so two of them
that overlap on one row can lose an update: an owner's change of a telephone
number writes `disabled = 0` over a hold placed meanwhile, `enable` lifts a block,
`activate` reopens a blocked organization. The history variable `lost` collects
the rows this has happened to, and every property is about the others: it says
that a lost update is the only way to break it, and of which row. `late` names
the sessions that outlived their login, because the handler died before its
`DELETE` or a sign-in crossed it; `requireAuth` deletes them when they are used.

### SignIn, SignInProofs, MCSignIn

One login seen from closer: its row of `users`, its sessions, challenges and
backup codes, and every handler that reads or writes them. Requests are
numbered, and whatever a request makes (a password, a secret, a challenge, a
session, a set of backup codes) carries its number, so "the old password" is a
number the row no longer has. A handler keeps the row that `requireAuth` or its
own SELECT read (`request[r].user`, `.row`) and goes from place to place
(`request[r].at`), one statement at a time.

| actions | code |
|---|---|
| `BeginLogin`, `Rehash`, `StartChallenge`, `OpenSession` | `handleLogin`, the end of `handleGoogleCallback`, `startChallenge` |
| `BeginAnswer`, `ReadUser`, `Fail`, `SpendStep`, `ConsumeBackupCode`, `DiscardChallenge` | `handleChallengeVerify`, `handleChallengeResend` |
| `BeginChangePassword`, `WritePassword`, `Logout` | `handleChangePassword`, `handleLogout` |
| `BeginEnrollStart` ... `ReplaceBackupCodes`, `BeginDisable`, `WriteDisabled` | `routes/twoFactor.ts` |
| `BeginStepUp`, `SpendStepUp`, `StampSession` | the step-up of `platform.ts` |
| `ResetPassword`, `DisableLogin`, `Tick`, `Expire`, `Prune`, `HandlerDies` | others, clocks, failures |

As in `Accounts`, a statement that writes over a column which changed since it
was read is recorded (`overtaken`, `raced`, `late`), and the properties are
about everything else: they say which interleavings the code excludes and name
the ones it does not.

### DemoCall, CallPagesProofs, MCDemoCall

One demo link, of each of its three kinds, and the tabs open on it. `tab[t]` is
`DemoPanel` with its refs; an attempt (`tab[t].try[k]`) is `handleStart` from
await to await, and there may be several of them because "Try again" is offered
while a call that timed out is still being set up. `sdk[t]` is the Vapi web SDK,
external, with the order of reports that the page's handlers are written for.
`left` is the clock of the countdown that runs, which keeps the length the call
began with; `cap` is what the next call will have. `beside` is a history variable:
the click that began the attempt on the panel found a call on the line.
`events` are the `call_started` requests, with the statements of the route;
`link.used` is `demo_used_at`, `rows` the funnel.

### Leads, Outreach, GoogleSignUp, PublicProofs, MCPublic

What may be begun without a session. `Leads` is `POST /api/lead` from statement
to statement. `Outreach` is one table with three programs on it: the import, which
reads the founder's sheet once and then writes row after row; the unsubscribe
link, two statements; and the dashboard's read, page after page by offset. A row
is on the page its rank by id puts it on; what has been read is kept as a set, so
a row read twice does not show.
`GoogleSignUp` has attempts (a browser, `oauth_states`, Google's answer) and
callbacks, which may be repeated, late, or carry the code of another attempt; the
last part of `handleGoogleCallback` is `SignIn`'s. The three share no table, so
`MCPublic` composes them side by side, and a run explores each of its `Parts` by
itself.

### Admission, Console, ActivityFeed, CallHistory, ScreensProofs, MCScreens

The page. `Admission` is one person in front of the gate: `Gate` is `handleApi`
with its refusals in their order, `Screen` is `App.tsx` with its screens in
theirs, `Offered` what each screen lets a person ask for; `page.me` is the copy
of the session by which the page decides. `Console` is the polled list of
clients and the dialog over it, whose orders go on at the server when the
browser has given them up (`heard`). `ActivityFeed` is the activity below, page
by page, while the log grows. `CallHistory` is the history of the dashboard,
whose loads, unlike a poll's, are never aborted (`asked`); `IsPage` says which
sequence answers a query, newest first and one row more than the page to know of
more. Each of the four sees
the others through tables only, which have modules of their own; `MCScreens`
explores each of its `Parts` by itself while the others rest in a state in which
nothing that is fair is enabled.

## 4. Runs

| run | instance | what it shows |
|---|---|---|
| `livecall` | three messages (a live line; a status update about the end without length, verdict or assistant; the report), two workers, one member of staff, two deliveries of each message, one failure, fairness | answered means applied; no line twice; an ended row is settled; bumps follow changes; takeovers are left only by an end; `CallRecord` is implemented; what is over is closed in the end |
| `livecall_duration` | as `livecall` | violated: see findings |
| `callbacks` | one lead, two runs that overlap, two failures, two interventions from outside | no second call without an unanswered first; "no answer twice" is true; one email per lead, none missing |
| `callbacks_fair` | two leads, maybe with one number, one run at a time, one failure, fairness | every lead is settled |
| `statscache` | two changes, one dashboard asking repeatedly, two statements per answer | `Statistics` is implemented |
| `livefeed` | two calls, two lines, one line to a page, one lost answer or hidden tab, one order of staff | the panel shows the lines of its call, in order and without a gap, and catches up |
| `accounts` | two logins, two requests at once | holds, blocks, owners and sessions, up to a lost update of one login |
| `signin` | one login with any factor, three requests | codes are spent once, old passwords end, attempts are counted, a factor was proven |
| `demo` | one person on a link of each kind: three clicks on one page, or one on each of two | every call of the funnel is closed once; a link is spent by its call; the public limits are overrun by overlap only; no conversation stays up, and no panel stays but after a click beside a call |
| `public` | three parts, one at a time | a repeat is one lead; an opt-out stays and is told truly; no row is skipped; an attempt is one organization and signs in who began it; the blocked stay out |
| `screens` | four parts, one at a time, fairness | nothing offered is refused; everyone gets in; the list of clients only gets newer; a confirmed action is settled; activity and history are whole |
| `admission_console` | the way in alone | violated: see findings |

### Bounds

- `MaxDeliveries = 2`: the first delivery and a retry or a duplicate. A third
  is answered `duplicate` in the same way as the second.
- `MaxFailures`: how many handlers die or requests fail. One is enough for
  every single-failure path of `LiveCall`; `Callbacks` has two because a lost
  answer followed by a dead run is the interesting case.
- `MaxRun`: how many cron intervals a run may take. `MaxRun = 1` with two runs
  means at most two overlap. The proofs hold for every `MaxRun` and any number
  of runs, as long as a retry waits for more than two of them
  (`RetryOutlastsRuns`: an hour in the code, twelve intervals) and at most one
  run starts while another places its calls (`seen`, the guard of `StartRun`:
  three rows of at most five requests of ten seconds each are half a cron
  interval). Both are assumptions about the environment that the code relies on
  and does not enforce. Without the second, three runs suffice for a call too
  many: one that read a due row before it was claimed places the call after
  another has put the row back, while a third still holds the copy from before,
  since `updateLead` compares only the status.
- The waiting times of `Callbacks` are scaled: what matters is their order
  (lost before stuck, retry after both) and that each exceeds twice the length of a run,
  as ten minutes, thirty minutes and an hour do in the code.
- `MaxOutside`: leads contacted by the team or grown too old.
- `MaxTrouble`, `MaxOrders`, `MaxLines` of `LiveFeed`: one disturbance and one
  order at any moment, and two lines in all, which is a second page for one
  call or a line for each of two.
- `OneLoss` of `MCAccounts` is a state constraint: behaviours are not followed
  beyond a lost update of the founder or the organization, nor beyond a second
  one. The state in which it happens is still checked. Two logins are an owner
  and somebody who may become one; the number of requests is not bounded.
- In `StatsCache` the number of changes bounds the version.
- `MaxRequests = 3` of `SignIn`: a request that opens a challenge and two that
  answer it at once, or one that changes what two others read. `MaxStep = 1`:
  codes of three steps, so that a code is valid before, at and after its step.
  `MAX_CHALLENGE_ATTEMPTS = 2`, five in the code: one wrong answer is counted and
  the next is the last. With a higher limit a stale answer takes back more than
  one, which is why `AttemptsAreCounted` allows each `MAX_CHALLENGE_ATTEMPTS - 1`.
- `DemoCall`: two pages of one person with a click each, so that `CallerCap = 1` is
  overrun from two pages at once; or three clicks on one page, which reach
  `DailyCap = 2`, and also an attempt begun over a call that came up during the one
  before. `VisitBounds` names the two cases, by loads and clicks of each page. Three clicks are enough for the panels: the third is the
  first that can follow an attempt refused beside a running call, and four on one
  page with one length (a check made by hand) show nothing new. Two lengths, so that
  the answer of the gate differs from what the page was loaded with.
- `MCPublic`: three requests from two senders for two numbers, limits of two,
  one window that passes; two contacts with one address, two edits, two clicks,
  pages of one row; two attempts and two callbacks of two Google accounts, one of
  which changed its address to that of an existing login, while the other's
  address is another spelling of the first. The address spellings and accounts
  are the cases of `googleAuth.ts`.
- `MCScreens`: three disturbances of the way in (mistypings, lost answers, acts of
  others), so that one gate can be met again behind another with an answer lost in
  between; two failed sign-ins until the limit; four moves at the console; four old
  entries, pages of two and three events; three calls and one more, pages of one,
  two loads at once and one click.

### Fairness

`LiveCall`: a handler that has started goes on (the runtime executes it), every
call ends (the assistant's maximum duration), and Vapi delivers each message at
least once. Staff need do nothing. `Callbacks`: cron goes on firing, a started
run goes on, calls end and summaries come, and a run finds calling hours again
and again (strong fairness of `ReadStale`, since calling hours come and go).

`LiveFeed`: the browser runs what is due, the server answers, and an answer is
not for ever slower than the next abort (strong fairness of `LiveArrives` and
`TranscriptArrives`). The last is an assumption about the network: after a tab
was hidden and shown again, the timer of the aborted run stays beside the new
request, and if every answer takes longer than the interval each is aborted by
the next. With weak fairness TLC shows that cycle.

`DemoCall`: the visitor answers the microphone prompt, the gate answers within its
timeout, the SDK reports on a call being set up or stopped, the countdown ticks
while the panel is live, and Vapi ends a call at the `maxDurationSeconds` it was
told (`DemoPanel.tsx:836-839`). The last is assumed only while the panel is not
live: where the page counts, the page must end the call. Nobody need click.
`Admission`: the browser loads, the window of failed sign-ins passes, CTF activates
a client, and the person does what the screen offers and reloads when it did not
work: `EveryoneGetsIn` is about a person who goes on, and would say nothing of one
who does not. `Console`: requests are handled and answered, the app shows its next
code, and an admin who does not cancel confirms again. `ActivityFeed`,
`CallHistory`, `SignIn`, `Accounts` and the parts of `MCPublic` are checked for
safety only and assume no fairness.

Deadlock is checked except in the `LiveCall` runs, where everything is over
once the call has ended and the deliveries are used up, and in those of
the page, the logins and the public routes, where a page can be hidden or closed
for good, a blocked organization has nothing left to do, and every request there
may be can have been answered.

## 5. Findings

With a run that shows them:

- `livecall_duration` (`DurationMatchesEnd`): `calls.ts:271-272` says a race
  between a hang-up and the status update "cannot skew duration". `finalizeCall`
  keeps the first end time but overwrites `duration_s` with a length that runs to
  its own clock (`webhook.ts:209-211, 234`).
- `admission_console` (`ConsoleOpens`): `app/README.md:346-352` says that the
  console opens for an admin once an authenticator app is enrolled.
  `SecurityPanel` offers the enrolment only to a login without any method (`:246`)
  and hides the way to turn another one off (`:306`), so a login with codes by email
  that becomes an admin stays outside.

Met while modelling, without a run of their own. Where a property would be broken
by one of these, its comment names the exception and the model keeps a history
variable for it; without the exception TLC shows the behaviour.

Calls and callbacks:

- Somebody Hope has spoken to is dialled again if a second request is reached
  while the first row waits for its summary: `callbacks.ts:440` asks for completed
  rows only, against `:62`.
- The daily cap of `callbacks.ts:562` is a budget read at the start of a run; two
  runs that overlap spend it twice.

Logins:

- `lib/twoFactor.ts:210-211` says a code cannot be spent twice by requests that
  arrive together; the `UPDATE` behind it does not compare (`overtaken` has
  `"step"`). The step-up of the console does.
- `handleTotpEnrollConfirm` checks a code without the last step and stores its
  step, which may move `totp_last_counter` back (`routes/twoFactor.ts:93-110`).
- A challenge that is open when the password changes still opens a session
  (`late`), against the comment of `routes/auth.ts:179-180`.
- A login its client disabled, disabled and enabled again by CTF, is enabled
  (`platform.ts:610`), against `:545-546`.
- `signup.ts:36-38` and `googleAuth.ts:127-128` say the accepted versions of the
  policies are stored with the state; the payload holds a name and a note, and
  consent is recorded for the versions at the callback. `AcceptTerms` likewise.
- Two sign-ups of one business name that overlap both read the slug as free; the
  second one's batch fails, against `signup.ts:117-119`. A retry succeeds.
- Two Google accounts that present one address at once can both be bound to its
  login, the second over the first (`googleAuth.ts:164-172`); `OneAccountEach`
  excludes it.
- `FindUser` has no order: if an account is linked to one login and its address is
  that of another, either may be found, and for the second the `UPDATE` throws.

The page:

- An answer about the old call that arrives between a render and its effects
  moves the cursor of the new call (`useTranscript.ts:31`), whose lines up to it
  are never fetched, against `:7` (`~switched` in `HeldToCursor`).
- A body lost after its headers becomes null (`api.ts:94`) and replaces data
  that `usePoll.ts:24-25` says stays on screen.
- Loads of the history that overlap are taken in any order, and a list that a
  failed change of filter has left keeps a "Load more" of the other filter
  (`crossed` in `HistoryIsWhole`; compare `calls.ts:107`). A call that follows
  another at once does not refresh the history.
- "Retry" of the activity, pressed twice, lets an older first page replace
  the list (`twice` in `ActivityIsWhole`).
- A step-up whose answer is lost leaves the dialog asking for a code although the
  window is open, and the same code is refused until the app shows the next.
- The spinner of `AcceptTerms` stays if a version is deployed between the accept and
  the refresh; "Sign out" of `PendingApproval` clears the page only
  (`App.tsx:218`); after a suspension the dashboard stays on stale data.
- "Mark all read" (`platform.ts:344`) marks notices that came after the list was
  shown.

The public pages:

- Two copies of one request that run at once are both saved and emailed
  (`leads.ts:54-58` is about copies one after the other).
- An import, or a row inserted, during the dashboard's read can show a row twice:
  "pages do not overlap" (`analytics.ts:109`) holds for skipping only.
- A call that starts after a second attempt has begun leaves the panel to that
  attempt (`DemoPanel.tsx:431-432`), and a second attempt has no timeout while the
  first `vapi.start` hangs.
- Three clicks can leave the page on "Connecting to Hope" for ever: a call that timed
  out comes up while the second attempt waits for the microphone, which is then
  refused; `:402` shows `mic_denied` over the running call. The third attempt's
  `vapi.start` has a call already and returns, clearing the timeout (`:441`), and
  when Vapi reports that call's end and then the closing line as an error, `:241-243`
  leaves "connecting" as it is. `PanelsMoveOn` excepts attempts begun over a call,
  and fails without that exception.
- In the same way a second attempt that fails over a running call takes the panel off
  `live` and stops the countdown (`:282-283`), so that the page no longer "stops on
  schedule" (`:277-278`): only Vapi's own limit is left, and there is no "End call".
- `DemoPanel.tsx:694-695` tells the visitor of a failed call that the demo "has not
  been used up", also when the claim was made; `:261` says the click retries the
  import, but the rejected promise is kept.

## 6. Proofs

Each proof assumes only the named assumptions on the constants, one of the name
of each module (`LiveCallAssumption`, ...), and besides them `OneAccountEach` of
`GoogleSignUp`, `NullIsNoCode` of `SignIn` and `RetryOutlastsRuns` of
`Callbacks`; TLC evaluates them all in the runs.

`LiveCallProofs` proves for any messages, workers, staff and bounds: types,
`EndedIsSettled`, `StatsVersionFollowsData`, and that `LiveCall` implements
`CallRecord`. The inductive invariant `IInv` adds to the types what a worker's
place says about the rest of the state (`PlaceInv`: a handler past its upsert
has a row to work on, a handler in `finalize` holds a message about the end) and
that an end time and an outcome are recorded together (`ClosedInv`). Without the
first, `FinalizeCall` could close a call that is not there; without the second,
closing would not be a step of `CallRecord`. `SettlingInv` strengthens
`EndedIsSettled` by the exact places from which the end time is still coming.
For `AnsweredIsApplied` and `NoRetryDuplicatesLines`, `AppliedInv` follows a
message through its handler: it is in the hands of one worker at most, the lines
already written and those still pending make up its own, and once nobody holds it
and no handler died over it, all of its effect is there. `TransferringOnlyEnds`
is an action property and follows from `IInv` step by step.

`StatsCacheProofs` proves types, `EntriesAreCurrent` and that `StatsCache`
implements `Statistics`. `EntriesAreCurrent` alone is not inductive: the entry
a request will store comes from readings made earlier. `IInv` therefore says of
every request that the readings it has made contain whatever was announced by
its version and whatever was announced when it asked (`GoodRequest`), of every
entry that its version has been reached (`GoodEntry`), and of every change that
its bump came after its write and not beyond the version (`VersionInv`). Then a
bump, which produces a version nobody has used, disturbs nothing (`TablesGrow`).

`AccountsProofs` proves every property of the run `accounts` for any number of
logins and requests: the types, `Enforced`, `BlockedAreBarred`, `SignedOut`,
`BlockIsPermanent` and `KeepsAnOwner`. The run stops behind the second lost
update; the theorems do not. None of the invariants is inductive without
`RequestInv`, which says what the checks of a handler have let through: an
update holds a row without a hold, an action on a login one that was not
blocked, an action on the organization one that was not blocked, a new login an
active organization. A write that would break a promise therefore finds a row
other than the one it was read for, which is what `lost` records; `RowStep` is
that argument, made once for the four actions that write one row and the one
that inserts it. `KeepsAnOwner` needs `CountInv` besides: an update that takes an
owner away has counted another one.

`PublicProofs` proves the three properties of `GoogleSignUp` for any
attempts, callbacks, accounts and limits. A callback decides in one statement and
writes in another, so `HandlerInv` says what each place implies of the tables: a
callback past `Redeem` is the only one of its attempt (`Apart`), one that was
identified carries the code of its own attempt, one that passed `CheckBlocked` is
for an address that was not barred when it came, one that found a login found one
that is its account's or nobody's. All of it survives the steps of others because
tables only grow in the ways of `TablesGrow`: a login that exists keeps its
organization, and one linked to an account stays linked to it. The last needs
`OneAccountEach`, and nothing else does.

It proves `RepeatsAreOneLead` for any requests, numbers and senders,
and `ToldMeansOut` and `OptOutStays` for any contacts and bounds. In `Leads` a
request that came after a copy cannot reach `Save` within the window, since the
copy is among the rows that `LookForRepeat` reads (`KnownInv`, `SavedInv`). In `Outreach` a
row the import did not find is still not there when it is inserted, since nobody
else inserts (`SearchInv`), and an address is on the list before its rows are
written (`ClickInv`). `NoRowIsSkipped` rests on `ReadInv`: a row that was there
when the read began and is not among those read is at the offset or behind it.
Insertions only move rows back, and a page that is not full has everything from
its offset on (`ShortPageIsLast`).

`CallbacksProofs` proves `RetriedOnlyAfterNoAnswer`, `NoAnswerMeansTwice` and
`KamvaIsTold` for any leads, runs, attempts, failures and waiting times. A PATCH
asks only for the status, so it cannot tell one call in progress from the next
call of the same lead, and the three are true because no run still holds a row of
the attempt before when the lead is claimed again. `FollowedInv` says so: a
run with a row to follow up holds the call the table names, or the row waits
longer than the run can still take, or it is settled. `DueInv` allows a run that
still plans to call such a lead only beside one other run, and that is where
`seen` is needed. `CallerInv` says that one run at most is about to call a lead and
only while the row is its own, `LeadInv` that a lead in the queue has only calls
nobody answered, `CopyInv` what a copy has in common with the row, `HeardInv` what
a verdict rests on, and `MailInv` that one run at most is about to write to Kamva.

`SignInProofs` proves the four properties of the run `signin` for any requests,
steps and limits. `RequestInv` says what a handler holds at each place, above all
that a code it is about to spend was later than the last step when it read.
`CodesAreSpentOnce` needs `SpentInv` (while no step was spent over a changed row,
no accepted code of the secret is later than the last step), `SecretInv` and
`BackupInv` (what is not stored yet has no codes, what was spent is gone);
`AttemptsAreCounted` needs `AttemptsInv`, which bounds the answers a challenge took
by those it counts and those that stale writes took back.

`ScreensProofs` proves `NothingOfferedIsRefused` for any number of disturbances:
by its types each screen fixes the answers of `handleMe`, hence the gates, and
`ConsoleInv` adds that an open console belongs to somebody with the app. It
proves `ActivityIsWhole` for any log, page and number of entries: a request for an
older page is below exactly what is shown (`LoadInv`), a page begins right below
its cursor (`PageInv`), and two runs of ids that meet are one (`Joined`).
`ListOnlyGetsNewer` is an action property: by `ListInv` one request for the list is
under way at most, for the month chosen, and its answer is no older than what is
shown; `DialogInv` says that one order at most is waited for. `HistoryIsWhole`
rests on `ShownInv` (the list is whole for the filter it was begun with),
`AnsweredInv` (a page holds what came next below its cursor when it was read) and
`OnlyInv` (unless loads cross, the one under way is for the list on the page).

`CallPagesProofs` proves `LinesAreOfThisCall` and `HeldToCursor` of `LiveFeed` for any
calls, lines, page and disturbances. Neither is inductive, because between a
render and its effects the refs belong to the new call while the poll is still
the old one's: `EffectsInv` says how far the two may be apart, `MountInv` that
there is no request without a call, and `FollowingInv` that when they agree the
request under way is for the lines right behind those shown. It proves
`CallsAreClosed` and `LinksAreLimited` of `DemoCall` for any tabs, callers, clicks
and limits. `PanelInv` says of every tab that an open call is on its line, or was
when the page closed, and that an attempt still waiting beside a call is of another
click; a line that is up without an open call was logged as ended. `LinkInv` counts a
request that has passed the gate as if its row were there, for everyone and for
each caller, so that the insert, which the code does last, changes no sum.

Only model-checked: liveness (`OverIsRecorded`, `AllSettled`, `CatchesUp`,
`PanelsMoveOn`, `EveryoneGetsIn`, `ConfirmedIsSettled`), which is out of the prover's
reach under fairness. Sums over a set (the lines of all calls) are bounds of
the models and would need induction; no proof uses them.

## 7. Not modelled

- Billing and local time: pure functions of a call or an instant, pinned by unit
  tests at their boundaries. Secrets and encoding, the n8n scripts and the
  marketing site have no protocol state.
- The team panel and the notices of CTF: a list, forms, and a bell over the
  handlers of `Accounts`.
- In the gate, transport security, the origin check and the routing of a path to
  its handler; the idle limit of an admin's session.
- Within modelled components: request validation and refusals that change
  nothing, audit rows, the wording of emails and transcript lines, captions and
  announcements, telephone formats, the nightly deletion of old `webhook_events`
  (older than any retry of Vapi's), the arithmetic of the statistics, names,
  telephone numbers and the text of passwords.
