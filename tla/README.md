# StaticLayer in TLA+

StaticLayer is a comment system for static sites: one Cloudflare Worker and one
D1 database answer a widget that any page can embed. This directory holds TLA+
models of it, TLC configurations that check them on small instances, and
proofs of the main theorems that TLAPS checks for every value of the constants.

Run from this directory:

    tlc -workers 2 -config AntiReplay.cfg MCAntiReplay      # a model check
    tlapm AntiReplayProofs.tla                              # a proof module

`PROJECT.json` lists the components, the runs, the mutants (each property with
a plausible bug of the code that would break it), the source lines behind each
definition, the hazards, the findings and the theorems.

## The system

| component | state | operations |
|---|---|---|
| anti-replay core (`challenge.ts`, `antiabuse.ts`, the POST handlers) | `used_challenges(challenge_id, used_at)` | GET a challenge (signed, not stored), POST comment, like, flag, reaction, poll vote |
| retention (`retention.ts`, cron in `index.ts`) | - | delete rows of `used_challenges` older than 24 h |
| comments (`comments.ts`) | `comments` | submit, reply; likes and flags have a table each |
| moderation (`admin-comments.ts`) | - | bulk approve/unapprove/delete, patch, delete, owner reply |
| moderation configuration (`admin-config.ts`, `moderation-lists.ts`, `blocked-terms.ts`, `settings.ts`) | `settings`, `moderation_lists`, `blocked_terms` | put settings, add/delete list entries and terms |
| public list (`comments-read.ts`, `edge-cache.ts`) | `caches.default`, per data centre | read through, put, purge |
| reactions (`reactions.ts`) | `reactions` | react, with an escalating difficulty and a minimum interval |
| polls (`polls.ts`, `admin-polls.ts`) | `polls`, `poll_votes` | vote, revoke; create, patch, delete a poll |
| schema (`schema.ts`) | one flag per isolate | create tables, add columns |
| admin session (`session.ts`, `auth.ts`, `admin-access.ts`, `github-oauth.ts`) | none on the server: signed cookies | sign in, sign out, session, SSO start and callback |
| admin console (`admin.js`) | its views and forms, the selections, the csrf value | load a view, tick, edit, write |
| widget (`widget.js`) | the page; `localStorage` | load the list, solve, wait, like, report, reply, post, react, vote |
| deployment engine, CLI | the Cloudflare account | observe, diff, validate, apply, verify |
| installers (`installer`, `installer-worker`) | sessions and OAuth states, in a map or in KV | start, OAuth, paste a token, deploy, revoke |

**Interactions.** The widget asks for a challenge, solves it and posts. The
handler checks the challenge, reads what it needs with one query at a time (each
`await` lets every other request run), and writes in one D1 batch, which is a
transaction. Handlers share nothing but the database and the edge cache: they
run in many isolates, whose clocks are close and not equal. The cron runs the
retention next to them. A writer purges the edge cache after its write; a GET
fills the cache after its query. The console and the widget are pages: each
answer meets a page that has moved on since the question. The installers run the
engine with a token they found in a session, and end that session afterwards.

**What is hard.** No handler holds a lock from its first query to its batch.
Requests are retried, repeated and lost; an isolate may end between two awaits;
every cache call is best effort; expiry, retention and staleness are decided by
different clocks; a page reads a token or a list, waits, and goes by what it
read. `PROJECT.json` lists the hazards one by one, at the line where
each bites, with the properties that cover it.

**What makes each part correct.** Anti-replay: a solved challenge buys one
thing (the code keeps this of the string that names the challenge, not of the
challenge), and a failure never burns it. Comments: a thread stays on one article,
and what is stored was justified by the configuration. Public list: how old a
served list may be, and for which reasons. Polls: one ballot per browser where
the owner asks for it. Likes: a returning browser likes a comment once, and its
pages remember it. Reactions: a minimum interval between two. Deployment: a rerun
after any failure ends in the desired state, and never says so when it does not.
Installers: a token is revoked only if it came from a consent, and a spent one is
in no session. Console: what it shows is what the tables hold, what it writes is
what it showed, and it knows whether it is signed in.

## Modules

| module | what it is |
|---|---|
| `SingleUse` | the promise of the anti-replay core, without clocks, tables or requests |
| `AntiReplay` | the core: issue, the five POST handlers, the cron, skewed clocks; implements `SingleUse` |
| `Encoding` | the bytes that a proof of work and the signature of a challenge are computed on |
| `AntiReplayProofs` | the theorems of `AntiReplay` and of `Encoding` |
| `Comments` | the comments table, submissions, moderation and the moderation configuration |
| `CommentsProofs` | its theorems |
| `PublicList` | the edge cache and its readers, composed with every step of `Comments` |
| `PublicListProofs` | its theorems, and that it implements `Comments` |
| `BallotBox` | the promise of the polls: whole ballots, cast once, one at a time under a voter's token |
| `PollVotes` | polls, ballots, the voter token and the browsers; implements `BallotBox` |
| `PollVotesProofs` | its theorems |
| `Engagement` | the handlers of likes, flags, reactions and comments, as the widget meets them |
| `Widget` | the pages of the comments widget in one browser, composed with `Engagement` |
| `WidgetProofs` | its theorems, and those of `Engagement` |
| `Deploy` | the desired-state engine, the commands and installers that run it, and the Cloudflare account |
| `DeployProofs` | its theorems |
| `Installers` | the sessions, OAuth states and tokens of the local and of the hosted installer |
| `InstallersProofs` | its theorems |
| `AdminSession` | signing in and out: cookies, csrf values, the OAuth state, tabs |
| `Console` | what the tabs of the console show and write, composed with `AdminSession` |
| `ConsoleProofs` | its theorems, and those of `AdminSession` |
| `MC...` | for each checked module: symmetry for TLC, and the plans or the constraint that bound it |

### AntiReplay

`usedAt` is `used_challenges`; `expiresAt` is what the server signed into a
challenge (the server stores nothing, the widget sends it back). A request in
flight is a record with the endpoint, the challenge, the clock reading `nowSec`
of its handler and its position. `Receive` is everything up to the last await
before the batch: the time gate for all, the expiry check for comments and
reactions only (`ChecksExpiry`), as in the code. `SendBatch` is that await; for
a reaction it is also the `SELECT` that short-cuts a replay, and a poll vote
reads its clock again there. The batch is `Commit`, `AlreadyUsed` or
`StorageError`: `INSERT OR IGNORE` into `used_challenges`, and the row stored
only `WHERE changes() = 1`; likes and flags have in addition a `UNIQUE
challenge_id` that makes the batch throw. `Drop` is a refusal by a later check
or the death of the isolate. `PurgeUsedChallenges` is the cron, from any clock
and at any time. `accepted` and `acceptedAt` are history.

A challenge is 32 bytes, and a request names it by 43 base64url characters, which
carry two bits more. `base64UrlToBytes` drops those bits, so four strings name one
challenge. What is signed, and what is worked on, are the bytes; the keys of
`used_challenges` and every `UNIQUE challenge_id` are the string as it was sent.
So expiry and gate belong to a `Challenge`, and `usedAt`, `accepted` and all that
follows from them to a `ChallengeIdB64`: a challenge with some value of the spare bits
(`SpareBits`). What the tables guarantee, they guarantee of a string, and so do the
properties of the passing run. What SECURITY.md and README.md promise of a challenge
(`EveryProofOnce`) does not hold. In the other modules, a challenge that a row is
stored with is such a string.

Time is in seconds and `now` is true time, which no handler reads: every reading
is within `SkewSeconds` of it. `HandlingSeconds` bounds the life of a handler;
the platform's limits justify it.

### Encoding

No state: the five encoders of the protocol as operators from a payload to a
sequence of bytes, field by field as the code writes them. A text is its UTF-8
bytes; what an encoder throws for is outside its set of payloads; a setter of
`DataView` cuts its argument to its width. `Canonical` is what each endpoint hashes:
a reaction is proved as a comment without nickname and body, so its emoji is in no
payload. The limits are constants, assumed to be what makes the lengths fit
(`LimitsAssumption`); `Sorted` is the sort of the options, of which only what any sort
does is assumed: the comment in the code says byte-wise, the comparison goes by
UTF-16 units, and no property depends on which it is.

### Comments

One record per handler: a submission walks through its queries (`ReadSettings`,
`ReadLists`, `ReadTerms`, `CheckParent`, `Store`); a moderation selects the
articles of its comments, writes, then purges the list of each article, one
`PurgeNext` at a time. `Abandon` lets any handler stop between two steps. The
names of the actions are those of the handlers; `Decide` is `decide()` in
`moderation-lists.ts`, `GoodParent` the parent check, `PathsToPurge` the paths a
handler collected, `Listed` the `WHERE` of the public list. `seen` is history:
the configurations in force while a submission ran.

### PublicList

EXTENDS `Comments` with the cache entry of each article and the GETs in flight.
`Purge` refines `PurgeNext`: the delete removes the entry, or fails and nobody
notices. `Die` refines `Abandon`: the purges a dead handler owed never run. Each
list carries its `age` (the `s-maxage`) and a history: for how long it has not
been the article's list, and why no purge removed it.

### PollVotes

`polls` and `votes` are the tables, `used` is `used_challenges`. A ballot is the
set of rows stored with one challenge: one row per chosen option, of which only
the first, the anchor, carries the voter's hash. `stored` is
`localStorage['sl-voter-token']`, one key for every poll of a site; `pages` are
the mounts of a poll widget, each with the copy of the token it read then
(`Mount`) or was given later (`Answer`). `posted` holds the votes that reached a
handler, any of which may be delivered again.

`Load` is a vote handler up to the guard: the poll exists, is open and takes the
options; what it read stays with the handler, and the batch does not look again.
With the guard the handler goes through `FirstVote` (a fresh token) or
`KnownVoter` (the `SELECT` finds nothing); without it the vote goes straight to
its batch. `StoreBallot` is the batch: consume the challenge, insert every row,
or nothing at all if the challenge is used or the `UNIQUE` index objects.
`Answer` delivers an issued token. `ChangeVotes` and `Revoke` are the two halves
of `/api/polls/revoke`. `Abandon` is a refusal, an error of D1, a dead isolate
or a lost answer. `DeletePoll` may run on a poll that is gone already, for its
existence check is an earlier query, and removes votes that came in late.

Left out: the article a poll is limited to, wording and order of the options,
the difference between an `option` and an `options` array of one, and that the
cron forgets challenges after a day, which is the subject of `AntiReplay`.

### Engagement and Widget

`Engagement` is the Worker. A handler in `request` walks through its queries:
`LookUp` (the comment is approved), `Admit` (the clock is read, the gate and the
proof checked), `Guard` (a known voter must not have liked the comment, an
unknown one gets a token), `Interval` (the newest stamp of the article), the
batch (`StoreLike`, `StoreFlag`, `StoreComment`, `StoreReaction`) and `Count`, the
fresh numbers of the answer, which may fail after the like was stored. A voter is
a number; `minted` is the last one given out. `Moderate` is the moderator between
any two queries. What a genuine challenge buys, and how often, is in `AntiReplay`.

`Widget` is the browser. `kept` is the token in `localStorage`, which each page
reads once, when it is opened. A `job` is what a click waits for: the challenge
(`Issue`), the work (`Solved`), for some forms the gate (`GateOver`), the answer,
and for a comment the load of the list that follows. A job of a comment's button
loses its button when the list is drawn again (`attached`), and its whole page
when that is opened anew. With a token the list is made for this browser, in two
queries (`ReadList`, `ReadVoted`); without one it may be any earlier list
(`ReadCached`, on the authority of `PublicList`). The clock runs in ticks finer
than a second, because the browser waits in milliseconds from the start of its
fetch and the server compares whole seconds. `excuse` is history: why this
browser may have become two voters.

Left out: drawing and translations, the pages of replies, a storage that throws
(private mode), `unmount()` on a page that stays, and the difficulty of reactions
that rises with their number.

### Deploy

The account has one database and one worker that matter, those of the configured
names, so `database` is an id or `None` and `worker` is the id its `DB` binding
holds with the value of each secret, or `None`. A run of the engine is a record
that walks through `observe` (`ListDatabases`, `GetWorker`, `ListSecrets`), plans
(`Diff`, and the check of the secret values, in `Plan`), applies (`CreateDatabase`,
`DeployWorker`, `SetSecretsBulk`) and observes again to verify (`Check`); an
installer then publishes (`EnableWorkersDev`). `Start` takes the command: `init`,
`repair` (forced) and `status` of the CLI, `plan` (dry run) and `install` (forced)
of the two installers, which share this code line by line. `at` is the place in
`runEngine`; `verifying` separates its two observations; `have` are the secrets a
value was supplied for, all of them in the CLI and the installers.

Each API call is a step, and everybody else acts between two of them. A call may
fail without effect (`Fail`, which is also the end of the process), take effect
and lose its answer (the second half of `Done`), or report a success that is none
(`Pretended`: the "lies" of `mock-api.ts`). `RemoveDatabase` and `RemoveWorker`
are the owner at the dashboard. Two histories say what a run may be excused for:
`disturbed`, somebody else changed the database or the worker while it ran, and
`deceived`, it was told of a success that was none.

Taken from how the code uses the API: a name has one database, an upload replaces
the bindings and keeps the secrets, a bulk call sets all its secrets or none and
leaves the others, and reading calls tell the truth. A secret's value is named by
the run that brought it. The three secrets an installer generates are always
wanted together, so `Admin` stands for all three, and the others of `Secret` for
`GITHUB_CLIENT_SECRET`. Left out: what is in an upload besides the database
(variables, cron triggers, rate limit, code), and the check that the code is not
empty.

### Installers

Two programs with the same routes: `hosted` says which one, and is fixed at the
start. The local one keeps its sessions in a map, so a handler that waited sees
the object as it is now (`LocalView`); the hosted one keeps them in KV, so it has
the copy it read before (`HostedView`) and puts the whole of it back (`Assigns`).
`kept` are the sessions in the map or the store, `session` the objects: a local
handler may hold one that has left the map. The callback checks and deletes the
state, in one step or two, buys the token, and only then looks for its session;
`ConnectToken` and `Connected` are a pasted token around the check of it;
`Deploy` to `Drop` are the deploy around the engine, whose success is all that
matters here (`EngineSucceeds`, `Fail`). After a deploy the token is revoked if
the session says it came from a consent, then the session goes. `Worth` is
Cloudflare's view of each token. Two histories: `disturbed`, another handler
changed the session of a deploy, and `raced`, two callbacks held one state.

A body arrives with its request, KV answers a read with the last write, and a
token from a consent may live for any time up to the session's. `/api/auth/local`
is `Start`.

### AdminSession and Console

The Worker keeps no session: it checks what it signed. A session is known by its
csrf value (`Key`); `signed` says when each began, and nothing prolongs it
(`Verified`). The browser has two cookies, with their `Max-Age`; a tab has a view
and the csrf value it was given. A `call` carries the cookies of the moment it was
sent; its answer sets cookies first (`TakeCookie`) and reaches the page later
(`LoggedIn`, `Restored`), or never: a page that was left does not hear it
(`TakenUnheard`), any call may be lost (`Lost`). `SignOut` does not wait for its
answer, as in `admin.js`. A login is followed by a form post that loads the page
anew (`Reload`). The GitHub start, the consent and the callback are
`GithubStart`, `Consent`, `HandleCallback` and `Returned`. `cookie` is what was set
last; what the browser sends and has is `SessionCookie`, which ends with the session.
`excuse` says why a tab may be mistaken about its session: two of its own sign-ins or
sign-outs crossed, one was lost, another tab signed in or out, or the session reached
its expiry while the tab showed it or was being told of it (`SessionTick`). In the last
case the code leaves the console on the page, for it has no timer, and refuses what it
sends; any page that learns of a session later learns of one that is not over.

`Console` extends this with the tables (`db`) and five views: queue, published,
polls, lists and settings. A load is sent, served (`Serve`, the query) and shown
(`Render`), in any order with the others of its tab; a write is clicked from what
the tab shows, handled, and followed by the loads that `admin.js` makes after it
(`Reloads`). `selected` survives a reload of its list. `PUT settings` stores
field after field and stops at the first bad one. `stale` and `ghosts` are
history: the views somebody else has changed, that were loaded out of order or
whose answer was lost, and the comments that left a list while ticked. The
settings have two fields that stand for all: one with a range, and one that may
be stored blank (the list of reactions).

One disagreement is in the code, and `ViewsMatch` names it (`OffShownAsDefault`). An
empty list turns reactions off: so says `settings.ts:9`, so says the form
(`admin.html:379`), and so the Worker goes by it (`reactions.ts:61-80`). But GET
settings (`admin-config.ts:156-168`, with `settingString` of `settings.ts:79-84`)
answers with the default list in its place. The console then shows as enabled what is
off, and the next save of the form turns it on again.

Left out: search, paging (a page number the server clamps and the pager does not
learn of), the list of pages, the bulk bar that stays when the list under it is
empty, the Cloudflare Access login (which signs in as a password does), the
telegram test, the widget builder, export and the update check.

## Runs

| run | what it shows |
|---|---|
| `antireplay` | Two requests, any endpoints, retries and repeats, failing batches, the cron at any moment, clocks one second off. One challenge with two spellings. At most one comment or reaction per string, ever (`ExpiringProofOnce`); the cron never forgets a string that could still pass the expiry check (`ReplayGateHeld`); a consumed string always paid for a row (`NothingBurned`); a string that buys twice does so a retention window later (`SpacedByRetention`), which a poll vote does: `polls.ts` checks no expiry, although README.md:54, `retention.ts:14-15` and SECURITY_REVIEW.md:184-185 take replays after the cron for impossible; `SingleUse` is implemented, with the strings for its proofs. Its module also evaluates what is proved of `Encoding` on short payloads (`EncodingsChecked`). |
| `respelled` | *Violation.* SECURITY.md and README.md say a solved challenge is consumed at most once. Named by a second string that decodes to the same bytes, it is accepted again by the same endpoint while it is fresh: the check is on the bytes, the table on the string. |
| `comments` | Two handlers, two comments, two articles: replies race with the moderation of their parent, and a thread stays on one article (`OneArticlePerThread`); no write changes a list without owing that list a purge (`ListChangeOwesPurge`). Or one submission, while the owner changes mode, lists and terms up to three times between its queries: what is stored was justified at moments of its run (`StoredWasJustified`). |
| `thread_hides` | *Violation.* Unapproving the root of a thread of three hides its reply and leaves the reply to that reply in the public list: the query looks one level up. |
| `public_list` | Every writer of `Comments`, two GETs and the cache in every order, with failing and lost cache calls: a served list is never older than the TTL plus one GET (`BoundedStaleness`); an outdated one is excused by a pending purge, a purge that overtook a fill, or a lost purge (`StaleOnlyIfExcused`); a deleted comment leaves the cached list for good although every purge may fail (`DeletedLeaves`). |
| `poll_votes` | One poll, two browsers, three votes delivered any number of times, two handlers at once, the owner changing or deleting the poll under them, tokens lost on the way: a ballot is stored whole or not at all (`WholeBallots`), only its own browser takes it back (`OwnBallotsOnly`), and a poll holds one ballot per token (`ImplementsBallotBox`). |
| `poll_returning` | *Violation.* The README says that with the guard a returning visitor cannot vote twice. One browser votes in poll 1, mounted beside poll 2 before either had a token, so that both get one: the second answer replaces the first under the shared key, and after a reload the browser votes in poll 1 again. |
| `deploy` | Two runs of the engine with any commands and any wanted secrets, one lost or untrue answer, one removal, in every order. An undisturbed run that reports success has left the database, the worker, its binding and every wanted secret in place, also after the failed run before it (`SuccessMeansReady`); a verification fails only for a cause (`VerifyFailsForCause`); an undisturbed rerun or repair makes no second database, redeploys only if it is forced to and sets no secret again, so it changes nothing where nothing is missing (`OnlyWhatIsMissing`, the I10 of SECURITY_REVIEW.md); a password the installer had to set and shows is the one in force (`NewPasswordWorks`). |
| `installer_password` | *Violation.* `deploy.ts` says the password is shown only when it was applied. After a first install, a second one that adds `GITHUB_CLIENT_SECRET` sets that secret alone and shows a fresh `ADMIN_SECRET` that was never sent anywhere. |
| `installers` | One operator, any number of tabs, either installer; two handlers at a time. A pasted token is never revoked, whatever replaces whatever in the session of a running deploy (`PastedNeverRevoked`); an undisturbed deploy ends its session and revokes its consent (`DeployEndsSession`); a spent consent is in no session, even one a slower handler brought back (`SpentTokenUnreachable`); a state lets one callback through, but for the window between get and delete in KV (`StateUsedOnce`). |
| `widget` | Two pages of one browser, two things under way, handlers that interleave, fail and lose their answers, a moderator. The interval between reactions holds but for handlers that overlap (`IntervalHeld`); a comment liked twice has one of three causes (`TwiceLikedIsExcused`), else its like is shown by every personal list (`LikeRemembered`), which never goes back behind the load that asked for it (`ListNeverGoesBack`); a form that waits is not refused by the gate, signed and checked by one clock (`FormsPassTheGate`; likes, reports and replies do not wait); no button is stuck or used twice at a time (`BusyMeansPending`). |
| `console` | Two tabs of the owner, two calls, every order of answers, an expiring session. A tab at rest shows the console exactly when the browser has a session that is not over, but for named causes (`ConsoleKnowsItsSession`); a GitHub start signs in once (`StartSignsInOnce`); views at rest match the tables, but for named causes and for reactions that are off and shown as the default list (`ViewsMatch`); a refused save, which may have stored its first fields, is one of the causes; a write touches only what its tab showed or had ticked (`HitsWhatWasShown`). |

**Bounds.** `antireplay` has one challenge, because challenges do not interact:
every row, gate and counter belongs to one of them, and two of its four strings.
Its constraint `RespelledEarly` lets the second string be used in the first
seconds only, until both have bought something; from then on it would multiply
the states, and nothing that is kept of one string depends on another. Two
requests are enough for every race, since a batch is atomic and a property relates
two acceptances. The time constants keep the proportions that matter: gate < TTL <
retention, with `RetentionSeconds` at exactly the least value
`RetentionAssumption` allows (2 + 1 + 4*1 = 7), which is harder than the code's
24 h against 5 min; `MaxTime` lets the cron drop a row and its string be accepted
again (the mutant of `SpacedByRetention` needs that). `respelled` needs no time
beyond the gate. `comments` has a parent and a reply, two handlers to race and two articles to
confuse; three comments are needed only for the third level of `thread_hides`.
Its constraint `Bounds` keeps two questions apart: threads under two handlers, with
nothing on the lists, and one submission alone under changes of the
configuration; nothing a submission reads of it depends on another, and three
changes (`MaxChanges`) show a different configuration to each of its three queries.
`public_list` needs a writer, whose next write is later than its last purge, and
two GETs, for two fills of one entry; the TTL is two ticks so that an entry can be
fresh, older and gone. `poll_votes` needs two tokens and three challenges for a second
vote, and a third after a revocation; two handlers race. One change of the poll
(`MaxPatches`) shows every pair of its settings to a handler. The constraint
`Bounds` keeps the two questions apart that need the most states: a change of
the poll is combined with two votes of any options, and three votes choose all
options in a poll nobody changes. `poll_returning` needs two polls and three
mounts, and no concurrent handlers: the fault is in the browser. `deploy` needs
two runs, for a race and for a rerun, and two databases, for a binding to the
wrong one; `MaxFaults` and `MaxRemovals` allow one of each, and failures without
effect are not bounded. `installer_password` needs no fault and one database. `installers` needs two
sessions, for one that expires and one that replaces it, two consents and a pasted
token to replace one another, and one state for two callbacks; two handlers race,
and one tick (`MaxTime`, with both lifetimes at one) separates alive from expired.

`widget` and `console` would be too large with everything allowed at once. In both
a behaviour follows one of the `Plans`, chosen at the start: which actions the
visitor or the owner may do, how many of them, how far the clock runs, which views
are followed. A plan holds what interacts: likes with new pages and sorts, likes
with posts, likes with replies, reports with sorts, reactions with time; signing in
and out, signing out under a write, moderation with its selections, pins and
replies, lists, polls, settings. Three actions are enough for a write between
another's question and its answer. In `widget` a second has two ticks and the
margin of the wait is one of them, the least that could be too little; in
`console` a session lives for two ticks and a state cookie for one. `MaxId`
allows an entry to be removed and added again, and the two members of `Slot` two
loads of one view to overtake each other.

**Fairness.** Only `public_list` assumes any (`LiveSpec`), for `DeletedLeaves`:
weak fairness of `Tick` (time passes) and, for each GET, of `Put \/ PutFails` (the
platform ends every handler, one way or the other). Nothing is assumed of purges,
evictions or writers: the property holds by expiry alone, as in the code.

**Deadlock.** `AntiReplay` stops at `MaxTime` with nothing left to issue,
`PollVotes` when every poll, challenge and mount of the instance is used up,
`Deploy` when all commands have ended, `Installers` when sessions, states and
time are used up, `Widget` and `Console` at the end of their plan. Their runs do
not check deadlock; those of `Comments` and `PublicList` do.

## Proofs

`AntiReplayProofs` proves, for every set of challenges, spellings and requests and all time
constants that satisfy `ClockAssumption` (they are numbers) and
`RetentionAssumption` (the retention window covers a challenge's life, one
handler and four clock errors; 24 h against 5 min in the code): `TypeCorrect`,
`ProofOnce`, `GateHeld`, `NeverBurned`, `Spaced` and `Refines` (the core
implements `SingleUse`), all of them of one string. They say nothing of a challenge
as a whole, beyond that it has as many strings as the spare bits have values. The
properties are not inductive: that a row is still
there follows from where the clock readings can lie. `Inv` adds exactly that: a
challenge was issued before now (`IssuedInPast`); a request in flight is younger
than `HandlingSeconds`, arrived after its challenge was issued, and if it passed
the expiry check it read a time before the expiry (`RequestsTimed`); a stamp is
not before the issue, nor long before its row (`StampsTimed`); what was accepted
is still consumed, or long past (`AcceptedTimed`). The purge step is where these
meet: a row it drops is so old that neither a fresh reading of the expiry nor a
request in flight can be left.

The same module proves, for every limit below the width of its length and every
set of texts, what `AntiReplay` takes for granted when it calls a challenge or a
proof genuine. `CommentDetermined`, `PollDetermined` and `ActionDetermined`: two
payloads with the same bytes are one. `ChoicesDetermined`: of a vote for several
options the bytes forget the order, and nothing else. `ChallengeDetermined`: a
signature covers every field of a challenge, except that the difficulties 0 and
256, both legal, share a byte (the comment in `challenge.ts` makes no exception;
256 asks for a digest of zeros). `EndpointsApart`: work done for one endpoint is
none for another, although no byte says which encoder wrote it. This one is not
obvious: a like or flag has an action where the others have the first byte of a
length, which is 0 because the host context is shorter than 256 bytes; a vote
for several options has their number where a comment or single vote has such a
byte; and a comment whose body's length of four bytes were taken for an option's
of two would be two bytes too long. All of them rest on `Cancel` and on the
encodings of integers, read from the front.

`CommentsProofs` proves, for any number of comments, articles, handlers and
configuration changes: `TypeCorrect`, `ThreadsOnOneArticle`,
`ListChangesOwePurges`, `SubmissionsWarranted` and `StoredJustified`. The
invariant says that rows have minted ids (an id is never used again, so a
deleted parent cannot come back on another article) and what each handler still
knows to be true when it writes: the parent of a reply, and the articles of the
comments of a moderation, if those still exist. `ListChangesOwePurges` uses
both: a write changes the list of no article but the ones it looked up, because
replies are on their parent's article. For `StoredJustified` the invariant is
`HandlersWarranted`: each answer a submission was given is the one of some
configuration that was in force since it started. It is one configuration for
each answer and never one for all of them, because the mode, the lists and the
terms are read by three queries; that is as much as the code promises when the
owner changes them under a submission.

`DeployProofs` proves, for any number of runs, databases and secrets, lost or
untrue answers and removals: `TypeCorrect` (which includes that no upload ever
lacks its database id, the case in which `buildMetadata` would throw),
`SuccessIsReady`, `NoFalseAlarm`, `RerunsAreIdempotent` and `NewPasswordInForce`.
Success is reported several calls after the last change of the run, so nothing of it
is inductive. `Inv` says for each run what it still knows if nobody disturbed it:
what it has observed so far (`Observation`); that whatever it has yet to do is
missing, or it is forced to do it (`Missing`), which is why reruns are idempotent; that
a secret it planned is unset or its own (`OwnSecrets`), which is why the password
shown is in force; and that whatever is no longer to do is there (`Progress`),
which holds unless the API lied and is what the verification rediscovers. `Shape`
is the control of a run without the account: in particular that the database
comes before the worker in what is left to do. `Others` shows once that a step of
one run keeps all this for every other run or disturbs it, so each action needs
only its own run's side (`StepPreserves`).

`PublicListProofs` proves, for any number of readers, writers and articles and any
TTL: `ListImplementsComments` (a behaviour of the list is one of `Comments`, so
the theorems above hold of it too), `ListTypeCorrect`, `StalenessBounded` and
`StaleIsExcused`. Staleness is relative to an age nobody reads, so the invariant
adds `Ages` (a list has been outdated for no longer than its entry has lived and
its GET took, and a GET in flight is younger than `HandlingSeconds`) and `Excused`
(an outdated list, cached or in flight, is excused already or awaits a purge that
some handler owes).

`PollVotesProofs` proves, for any number of polls, browsers, pages and handlers:
`PollTypeCorrect`, `BallotsWhole`, `OwnBallots` and `ImplementsBox`. The invariant has
three parts. `Posts`: what was posted under a challenge was posted once, by one
browser. `Ballots`: the rows stored of a vote are exactly its ballot, with one
anchor. `Tokens`: a token, wherever it is (stored, in a page, in a handler, in
an answer, on an anchor), belongs to one browser; this is why a revocation finds
only its own. The refinement goes step by step: the batch of a vote is `Cast` or
a stutter, a revocation takes back ballots of one token, the end of a poll clears
it, and everything else stutters.

`InstallersProofs` proves, for any number of sessions, handlers, consents and
pasted tokens, at either installer: `InstallersTypeCorrect`, `PastedSafe`,
`SpentUnreachable`, `StatesUsedOnce` and `DeploysEndSessions`. `Kinds` says that the
kind of a session, and of every copy of it that a handler holds, matches its
token; this is the whole reason why no pasted token is revoked. `Places` says where
a consent can be: with one callback, then in one session and with the deploys of
that session. `Once` is the same for a state, and `Aware` what a deploy whose
session nobody changed still knows of it.

`WidgetProofs` proves, for any number of comments, pages, jobs and voters, any wait,
margin and interval, and any plan of the visitor: `WidgetTypeCorrect`,
`IntervalAlwaysHeld`, `FormsPass`, `ListsInOrder`, `OneLikeEach`, `LikesShown` and
`BusyIsPending`. `Typed` comes first: it links each job to the handler in its slot
and says what a handler can be at each place, and that nobody knows a voter
that was not minted. Each property then has its own invariant.

- `IntervalInv`: no row is from the future (`Rows`, which also says that a table with
  rows has a last stamp), and a reaction that passed the check keeps its distance
  from the rows its handler has seen (`Spacing`). Rows it has not seen were stored
  by overlapping handlers; they are the ones `IntervalHeld` leaves out.
- `GateInv`: a form that waits is posted `WaitTicks` after its fetch began, and a
  challenge signed within the margin is then old enough, whatever two roundings cut off.
- `ListInv`: nobody knows a later list than the table's, and a load made for this
  browser is read after it began.
- `Solo`, as long as there is no `excuse`: each page has the kept token or has missed
  it; each like in flight was sent with the kept token; while no token is kept
  at most one like is in flight, and the rows are its own. So all rows are one
  voter's, and the index on comment and voter makes them one for each comment.
  `LikesShown` adds what each load will find of the likes the page was told of.
- `BusyInv`: a button is disabled exactly when one attached job holds it. It needs
  finitely many jobs (an assumption of the theorem), since it counts them.

`ConsoleProofs` proves, for any number of tabs, calls, loads, sessions and comments,
any lifetimes and any plan of the owner: `ConsoleTypeCorrect`,
`ConsoleStartSignsInOnce`, `ConsoleKnowsSession`, `ConsoleHitsWhatWasShown` and
`ConsoleViewsMatch`. `Typed` says of each call what it was given and what it may say
at each place. Each property has its own invariant again.

- `StartInv`: while a start has a state, nobody else knows it (`GivenOnce`); one callback
  at most comes back with it, and once it has signed the browser in, its cookie is gone
  and no callback brings it again (`SpentOnce`), unless two callbacks held it at a time.
- `KnowInv`: a tab without an excuse hears one sign-in call at most (`Signers`); what that
  call has found is the session that the browser still has, or that it has none
  (`Honest`); when there is none under way, what the tab shows agrees with that (`Settled`).
  A tick keeps both, because a session that ends excuses whoever shows it or is about to
  be told of it (`TickKnows`), and whoever is told later is told by `Verified`.
- `HitsInv`: a ticked comment is shown in the list it belongs to, or is gone for good, or
  is known to have left its list, or a bulk write that is done will clear it (`Seen`); a
  load that is still clean brings the tables as they are (`Current`); an entry that was
  ever shown has an id that no other entry has or will have (`Identified`).
- `ViewsInv`: a view without an excuse matches the tables, or shows the default list for
  reactions that are off (`Agrees`), or is being loaded again,
  or waits for the answer of a write that will load it again (`Awaited`); a save that
  nobody disturbed has stored what it has written so far (`SaveStored`).

Only model-checked: `DeletedLeaves` (liveness), and that the violations happen. There is
no induction over data and no RECURSIVE operator in any module; the ten options of a
vote are written out.

## Not modelled

- Cryptography: a signature or proof of work is genuine, or the request is a
  refusal that changes nothing. Rate limits, honeypot, size limits and the
  difficulty are refusals too.
- Inside the list: like counts and the reader's own likes lag by design; the cut
  at 500 rows; the `max-age=60` of the browser's own cache, which nobody can
  purge and which comes on top of `BoundedStaleness`; the owner flag.
- The schema: one batch of `CREATE ... IF NOT EXISTS` and three `ALTER`s whose every
  error is swallowed, with a flag per isolate. The modules start with their tables
  in place. What a failed `ALTER` leaves behind has no promise to check.
- SHA-256 and HMAC, out of the tools' reach; base64url but for the strings of a challenge
  id, JSON and the search for a nonce; the decoder of payloads, which only the tests
  use.
- Notifications, update check, HTTP plumbing: best effort or stateless.
- Demo, site, integrations and scripts: static pages and a nightly reset; no state
  that the rest depends on.
- What each module leaves out of its component is said in its section above.

## Plan

1. *Done:* all modules above with their runs; the proofs of `AntiReplay`,
   `Encoding`, `Comments`, `PublicList`, `PollVotes`, `Deploy`, `Installers`, `Widget` and
   `Console`, with a theorem for every property of their runs but the liveness one.
2. The paging of the console and of replies, and the Access login.
3. The texts of the protocol that are not bytes: base64url and the nonce as a number
   or a decimal string, against reference definitions.
