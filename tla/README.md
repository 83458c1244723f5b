# OpenVibe.News: specifications, model checking and proofs

TLA+ modules of the parts of OpenVibe.News that keep state, the TLC configurations that check them
on small instances, and proofs, checked by TLAPS, that hold for every instance. Paths are relative
to the repository; `stories.js` and the like are under `server/domain/`.

## 1. The system

News turns items published by OpenVibe.Sources into clusters, lets editors (and OpenVibe.AI, with a
person's review) write stories that cite them, publishes the stories, has OpenVibe.AI write briefs
of clusters, and tells OpenVibe.Search and OpenVibe.Community what became of the stories. All of its
lasting state is in PostgreSQL; what is in memory is a pull in flight, deliveries being handled, a
queue of thread updates, AI runs being waited for, the menu's card and the rate limits. A write is a
transaction (`db.tx`), often preceded by reads and early refusals in the route.

| Component | State | Operations | Talks to |
|---|---|---|---|
| Story desk (`stories.js`) | a story's source table (numbers, detachment), timeline, immutable revisions, editorial flags, publication state | create, attach, detach, addTimeline, removeTimeline, revise, aiDraft, review, addFlag, publish, unpublish, retract, onUpstreamChange | called by the routes and, inside the ingest transaction, by ingestion; calls the gate, Search sync, sharing and discussion |
| Publication gate and Search (`publication.js`) | what Search was told (outbox) | decide, documentFor, syncIndex, afterChange | called by every write that can change the gate's answer |
| Review log (`review-kind.js`) | append-only reviews | approved, latestByKind, labelsFor | asked by the gate, the pages and the reviewers' queue |
| Clusters (`clusters.js`) | clusters, merged_into, item membership, stored core terms, audit | assign, merge, split, resplit, reverse, recompute, the wire's reports | called by ingestion and editors, and by `scripts/resplit-clusters.js` |
| Ingestion (`source-items.js`) | source items, pull cursor, run log | dedupe, apply, applyRemoval, pull | reads Sources; calls clusters and the desk in its transaction |
| Events consumer (`http/events.js`) | inbox receipts | the webhook | reads Sources, calls ingestion and the account erase |
| Worker (`worker.js`) | timers | the pull and brief ticks | calls pull and the brief sweep |
| Discussion (`discussion.js`, `clients/community.js`) | a thread id per story; an in-memory queue | watch, follow, threadFor, setThreadVisibility | called by the desk and by ingestion, after the commit; calls Community |
| AI briefs (`briefs.js`, `clients/ai.js`) | briefs of clusters and their reviews | make, review, sweep, the queue, the sitemap's list | reads clusters, calls AI |
| Sharing and audience (`sharing.js`) | share rows, the story's audience column | register, syncAudience, onAudienceChange; the sheet of openvibe-sdk | called by the desk's transactions and by owners |
| Account data (`account-data.js`), profile cache (`clients/network.js`) | drafts, cached names, share rows of a person | erase; resolve, remember | called by the webhook and by pages |
| Menu card (`menu-card.js`) | one card in memory | load | reads the lists |
| Identity (`auth/`, `access.js`) | none | resolve, guard, isEditor, isAiEditor | asked by every route |
| Routes (`http/api.js`, `http/editor.js`, `http/public.js`), limits (`http/actor-limits.js`) | counters per caller; brief runs this hour | every writing route | calls all of the above |
| Process (`index.js`) | requests under way | start, drain, close | stops the rest |
| Topics, front page, reading, rendering, feeds, storage, configuration | topics; otherwise reads | | |

### What is hard

- **Between a check and its transaction.** A route reads the story, the operation refuses early on
  that row, and its transaction runs later. Another editor, the AI or an upstream change may have
  committed in between.
- **Two writers of one story.** Editors, AI deliveries, AI drafts that were minutes in a run, and
  the revision the system prepares itself when a source changes.
- **Upstream changes of a source that a revision cites but the working table no longer has.**
- **A source that arrives twice, late, out of order or never,** by two ways (webhook and pull) that
  read Sources at different times; and a process that stops between any two steps.
- **Long editing histories of clusters:** merges reversed in another order, splits reversed after
  others joined, a regrouping that runs as several transactions; clusters that grow by a rule which
  counts over the reports they already have.
- **AI runs of unknown length** over a cluster read before them, and reviews of a text that may be
  replaced while the reviewer reads it.
- **One rule written twice:** the page, the queue and the sitemap each decide by a query of their
  own whether a brief is current; the page asks the share row and the lists ask a column.
- **Effects after the commit** that are best effort and held in memory (the thread's visibility).
- **One person by many ways:** a browser, services and apps act for the same subject.

### What makes each part correct

- Desk: numbers never reused, every claim traces to the revision's own sources, no lost edit, the
  system never rewrites text, no unreviewed AI text public, a removed source stays flagged until a
  publication with a note answers it, text the gate holds is in the reviewers' queue.
- Search: lists exactly what the gate says of the story now, which is the revision shown or nothing.
- Clusters: no item lost in a closed cluster, merges always resolve, the audit explains every
  membership, a reversal undoes exactly its row, a report joins its own story and no other.
- Ingestion: an acknowledged delivery is stored, the cursor never passes what is not stored, the
  store mirrors published states forward only, an outage is announced once, and the store converges.
- Discussion: the thread is shown exactly while the story is open.
- Briefs: what is indexed was written from the reports shown, a current brief is queued or indexed or
  has been decided on, and the sweep catches up with every recent cluster its list holds.
- Sharing: lists and pages agree; only publication or the owner opens a story; the erased hold nothing.
- Requests: work is signed by those entitled to it, limits count people, and hold no
  more against them than what was asked.

## 2. The modules

`Stories` is the desk; `StoryIndex` and `Discussion` extend it and compose its actions with Search
and with Community. `Clusters` extends `Matching`. Three abstract modules say what a reader or an editor
is promised, without the code's tables: `StoryIndex` implements `Edition`, `Clusters` implements
`Moves` and `Ingest` implements `Mirror`. `Briefs`, `Sharing` and `Service` stand alone. Each `MC*`
module holds the values TLC is given. The `*Proofs` module of each component holds its theorems.
Definitions whose comment begins with "Mutant" are plausible mistakes in the definition that follows;
a property counts only if the mistake breaks it.

### Stories

One story and the items it can cite. A paragraph is the set of source numbers it cites and a text a
set of paragraphs; wording, slugs, topics, perspectives and dates are left out. `number`, `attached`
and `timeline` are the links and timeline rows; `revs` the revisions with their snapshots;
`upflags` the open `source_updated` and `source_removed` flags; `draftNote` an open correction or
update flag.

A request whose early checks passed waits in `checked`; `attach`, `addTimeline`, `revise`,
`aiDraft` and `publish` are its transactions, with the checks the transaction makes again, and
anything may happen in between. Equal requests are kept once, and a transaction may leave its
request behind for another one like it (two editors who read the same base). Operations without a
check that matters (detach, unpublish, retract, review, addFlag) are one step. `detach` is three
statements outside a transaction and may stop after the first. `aiDraft` keeps of the model's text
the citations of the sources it was given (`draftFromOutput`); a paragraph left without one is
dropped. `onUpstreamChange` opens the flag and prepares the system's revision in the ingest
transaction; a prepared revision that would change nothing may be left out, as the code's revise may
answer "unchanged".

History variables: `unseen` (items removed upstream while the desk had them detached, though the
revision published then rested on them: `RestsOn`, cited or on its timeline) and `notes` (revisions
published with a note). An update while detached, or a removal of a detached item the published
revision does not rest on, leaves no mark: whoever cites such an item later is held to the rule.

### StoryIndex and Edition

`told` is the revision Search was last told to list, 0 for none. Publication actions, upstream
changes and reviews call `syncIndex` where the code does. `review` decides by the story row its
route read, so a story that has been public may be synced or not; `late` records that a review of a
published story was not followed by a sync.

`labelsFor` and `pendingReviews` are the public labels and the reviewers' queue. They read the
latest review of each kind, while the gate (`approved` in `Stories`) reads the latest of either;
`HeldTextIsQueued` relates the two.

`Edition` is the story as a reader may count on it: issues are written and never change, a reviewer
passes an issue, what a machine had a hand in is shown only once that very issue was passed, and what
is listed is, after every step, the issue shown or nothing. The mapping takes `revs` for the issues,
whoever was ever approved (`approvedEver`) for those passed, the public revision of a published story
(`shown`) for the one shown and `told` for the one listed. The desk's tables, requests and flags are
not part of it: every step on them must be one of `Edition`'s or invisible (`ImplementsEdition`).

### Discussion

`flushing` is the in-memory queue of watched writes, each with whether the story was open before
it; `follow` compares with the present state and makes at most one call; `threadFor` runs after the
page that found the story open. A call may fail and the process may restart at any point; `missed`
records that a call was lost or a closed story got a thread, until the next successful call.

### Matching, Clusters and Moves

`Matching` is the rule by which a report joins a cluster: `commonWords` leaves out an outlet's
boilerplate and the words of the month, `coreMin` says how many of a cluster's reports must carry a
word, `joins` compares what is left. A report is its set of terms and its set of entities; how they
are cut out of a headline is left out. In `Clusters`, an item joins an open cluster that matches
best by this rule over `core`, the members its stored counts were built from, or starts one.
`wire` is the list of reports the front page shows of a cluster. `resplit` reads, computes the groups
and splits them off one transaction each (`job`); `Early` says which duplicates were published before
their original, for which the code's order of grouping gives another answer.

`Moves` is what an editor is promised: a report enters an open story, and then only a recorded move
takes it elsewhere, to a story that is open. The record only grows, names exactly the reports each
move took, and lets a move be taken back once; what returns is what is still where the move put it,
and a story closes only when nothing is left in it. `moveOf` reads an audit row as such a move: merges
and reversed splits bring reports into the row's cluster, splits and reversed merges out of it.
Regrouping, removals, stored terms and `merged_into` have no place in it and must follow from moves or
change nothing (`ImplementsMoves`).

### Ingest and Mirror

An item in Sources is its revision, whether it was removed and its place in the change order.
Events delivers any event any number of times and in any order; a created or updated item is read
from Sources before the transaction (`handling`), a removal is applied from its payload. The pull
reads a page (`Batch`: the changes next after the cursor), applies it item by item in the order they
changed and then moves the cursor. `skipped` records revisions that
were rejected (no title) or whose application failed in the pull: both are logged and passed.
`Mirror` is the abstract promise: a stored item is a state Sources has published, it moves forward
only, and a removal is final. `Abstract == INSTANCE Mirror WITH past <- past, row <- row`, and
`ImplementsMirror` is its specification.

### Briefs

The neutral summary of each cluster. `ver[c]` is the cluster's `updated_at`, advanced by every
change of its reports (arrivals, removals, merges, and updates of an item, which leave the set of
reports as it was: `Update`); a brief stores the version and the number of reports it was made from. A
maker is a sweep or a reader: `started` reads the cluster, `reports_read` its reports, and the run
then ends in `put`, in nothing cited, or in AI's refusal, which stops a sweep. A sweep lists the due
clusters once and walks its list with what it read then. What is due is of the last 72 hours by the
latest report (`recent`, `Ages`; future-dated reports keep a cluster recent: `dated`), and of all that
is due (`Due`) the list holds the newest `Shortlist`, in the model any so many, since dates are not
ordered there. Several sweeps may run, as `briefTick` does not wait for the one before. A review reads
the stored brief (`review_reads`) and is inserted later (`review_inserts`), and counts for the text it
read only. `indexed` is the page's rule, `matches`, `pendingReviews` and `reviewed` the queries of the
queue and the sitemap, which count reports without the page's date limit; `ahead` are the reports it
matters for.

### Sharing

A story's state, the column `audience` the lists, feeds and sitemaps read, and its share row, which
pages ask through `canView`. The desk registers a row at creation and moves both with
`syncAudience`; the owner's sheet moves both through `onAudienceChange`. `papers` are the requests for
access and the transfers of a story, each as the set of people it names: they stay on file when they
are answered, and only an account deletion removes them. A transfer is offered (`offer`) and accepted
(`accept`), and the owner who gives a story away may keep access. An account deletion erases
a person's rows in one transaction or not at all (`erasable`: no member, request or transfer of
others only refers to a share row that goes), and Events delivers it until it is answered; a profile
lookup under way (`lookups`) may end after it. The card is loaded by one request for all, its age
counted from the start of the load; `missing` measures how long a story has been off the lists.

### Service

A request is a credential, the subject and origin its headers claim, and a route. `resolve` makes a
viewer of it as `auth/viewer.js` does for the API and for pages, `guard` checks a service token's
capability, `Take` counts it under its actor and its route's budget, and the handler's own check
(`mayWork`) and work or refusal follow as a separate step: a stop of the process may come in
between. `last` is the work a step did, with the credential it was asked with and the name it was
signed with. `Minute` closes the limiter's windows, which are aligned to the clock, and ages the
hour of `runs`, which is not; `asked[k]` is a history variable, the brief runs started at most
`k` minutes ago. `Stop`, `Drained`, `Close` and `Boot` are `index.js`; a new process
starts with empty counters.

Taken from the way the code uses them, as their source is not in the repository: a transaction of
`openvibe-sdk/db` is one atomic step; `inbox.once` commits the receipt with the change; the
`openvibe-publishing/ingest` pull moves the cursor past a page after its items were applied, failed
or were rejected; Sources lists removed items when asked with `include_removed=1` and orders a page
by change; Events retries what is not answered 2xx, and may give up (it does not give up deletions);
the rules of the share sheet and of `canView`, and fixed windows of the limiter, are those of
openvibe-sdk as News configures them.

## 3. The runs

| Run | Instance | Shows |
|---|---|---|
| `desk` | two sources, one of them dated and changing upstream (an update, a removal), the other there to be exchanged for it; editors and the AI, 2 revisions, texts resting on `[1]` or on `[2]` | `NumbersNeverReused`, `CitedRemovalFlagged`, `NoLostEdit`, `EveryClaimTraces`, `RemovalNeedsNote` |
| `search_current` | one source, editors and AI, 2 revisions, 2 reviews, updates and removals | `NothingUnreviewedPublic`, `SystemKeepsText`, `SearchIsCurrent`, `HeldTextIsQueued`, `ImplementsEdition` |
| `thread_follows` | two sources, 2 revisions, 2 writes waiting, failures and restarts | `ThreadFollows`, `NoThreadForDrafts` |
| `clusters_edit` | four items of two stories that share words, 3 clusters, 3 audit rows | `ItemsInOpenClusters`, `ResolveEnds`, `AuditExplainsMembership`, `CoreIsCurrent`, `SharedStoryJoins`, `ReverseUndoes`, `JoinsOwnStory`, `ImplementsMoves` |
| `ingest_store` | one item, 3 upstream revisions, webhooks, failures, rejections, a restart | `TypeOK`, `AckedIsApplied`, `CursorCovers`, `ImplementsMirror` |
| `ingest_converges` | two items on one page, one delivered and one left to the pull, which may fail, a restart | `OneEventPerOutage`, `LiveConverges` |
| `briefs` | two clusters, five reports, one of them future-dated, a cluster that grows old; a sweep that writes one brief at a time, a reader, two reviewers in turn | `TypeOK`, `IndexedMatchesReports`, `ListedIsIndexable`, `NothingOverlooked`, `SweepCatchesUp` |
| `readers` | one story, an editor and another person, a card kept for 2 ticks | `TypeOK`, `ListsAgreeWithPages`, `CardIsRecent`, `ErasedHoldNothing`, `OnlyOwnersOpen` |
| `service` | an editor, a reader, OpenVibe.AI, an app of the reader; four routes, limits of one, two brief runs an hour, an hour of two minutes | `RightfulWork`, `PaceHeld`, `BriefRunsHeld`, `ReadersServed` |
| `retracted_republished` | one source, two requests | finding 1 |
| `removal_overtaken` | one item, webhooks | finding 2 |
| `erasure_refused` | one story, its owner and a person its sheet, a request or a transfer names | finding 3 |

The type invariants of `Stories`, `Clusters` and `Service` are proved (section 5) and not run, and so is
`OnlyPublishedListed`, which `ImplementsEdition` contains. Every safety property of the passing runs is
proved as well; the two liveness properties (`LiveConverges`, `SweepCatchesUp`) are only run.

### Bounds

- Two revisions are enough for a published text and its refresh or its replacement: a revision that
  rests on another source can be saved before the first source, attached again, is removed. Two
  sources are the least in which one is exchanged for the other. In `desk` one of them changes
  upstream (`Changing`), so that it can be changed first and then removed; both are removed in
  `thread_follows`.
- One waiting request at a time is enough for a stale request, because the request it races with
  need not wait; an equal request may wait behind it.
- Two reviews: an approval and its withdrawal, before or after the publication, by either kind.
- Three clusters and three audit rows: a merge, a split and a reversal. Four items: three reports of
  one story, so that `coreMin` asks for more than one of them, and one of another story that shares
  a word with each; a join between a split and its reversal leaves others where they were.
- Three upstream revisions of one item: created, updated, removed, with a copy of each read before
  the next. Two items: in `ingest_converges` both fit one page, so that one may fail
  before the other is applied.
- `MaxCrash = 1`: what a restart loses is the same every time.
- One change of the cluster under test (`MaxVer = 1`): what can go wrong is a run or a list from
  before it ending after it. A list of two holds all that is due, as `SweepCatchesUp` asks. One review
  is under way at a time (`MaxReviewing = 1`): two at once, the only way to `overtaken`, are in the
  proof of `NothingOverlooked` and not in the run. One sweep and one reader make two runs of one brief
  at once; a second, unchanging cluster competes for the sweep's limit of one.
- A card of two ticks: a load that takes one tick and one that takes the card's whole life.
- Limits of one and an hour of two minutes: the second request is one too many, in the same minute,
  across minutes, by another way, or after a restart. Two brief runs an hour are the least with which
  one window of an hour can hold runs of two of the counter's hours.

`SYMMETRY` is used only where no configured value tells items apart and no liveness property is
checked.

### Fairness

- `Ingest`: the timer keeps starting pulls (weak fairness of `StartPull`), a pull which holds a page
  goes on (`ApplyNext`, `PageDone`), Sources, asked again and again, answers again and again (strong
  fairness of `ReadPage`, which competes with `PullFails`), and a handler holding an item finishes
  (success or failure). Nothing is assumed of Events: it may never deliver, and it may give up. The
  worker's `pullTick` re-arms its timer after success and failure alike.
- `Briefs`: each sweep starts again and goes on (`briefTick` re-arms as `pullTick` does), every run
  ends (`clients/ai.js` has a deadline), and AI, asked again and again for a cluster, writes its
  brief in the end (strong fairness of `sweepStores` for each cluster). The last is needed: the
  sweep stops at a refusal, so a cluster AI always refuses keeps those after it waiting. Nothing is
  assumed of readers, reviewers or clusters, nor that time passes for one (`Ages`): a cluster that
  stays due long enough for AI to answer is caught up with, one that grows old first may not be.
- `Sharing`: Events delivers a deletion until it is answered (strong fairness of `erase`); that is
  what finding 3 refutes.

### Switches

`Delivered` (the items whose events are delivered), `Failing` (the items whose application may throw
in the pull) and `Untitled` (whether Sources may list an item without a title). In
`ingest_converges` one of the two items of a page may fail: it does not converge until it changes
again, by design of the pull, and `LiveConverges` excepts just that revision of it (`skipped`); the
other must converge. `Untitled` is FALSE there: rejections are in `ingest_store`.

## 4. Findings

1. `publish` refuses a retracted story on the row the route read (`stories.js:493`), not on the row
   its transaction reads: a request that read the story while it was published publishes it after
   another editor retracted it.
2. `applyRemoval` (`source-items.js:203`) ignores the removal of an item never stored and leaves no
   trace. A copy fetched for an earlier event and applied afterwards stores the removed item as
   live, and a pull whose cursor is past the removal does not see it again.
3. `shareErase` (`server/account-data.js:42`) deletes a person's share rows while memberships, access
   requests or transfers of others reference them without a cascade
   (`migrations/0007_sharing.sql:27,35,42`). The deletion of an owner who shared a story with someone
   is refused, rolled back and delivered again for ever.

Seen while modelling, in the modules but not kept as runs.

Stories and reviews:
- `storiesCiting` (`stories.js:72`) looks at links that are not detached, so a published revision
  citing a source detached since gets no flag when the source is removed (against README.md:139-140).
  `CitedRemovalFlagged` and `SearchIsCurrent` hold with exactly this exception (`unseen`), which an
  update of a detached item or an item cited only later does not claim.
- A retracted story can be unpublished and from there published again (`stories.js:544`, against
  README.md:138 "it is final").
- An approval by the AI editor counts like a person's (`review-kind.js:40`, against
  README.md:167-168).
- A person approves, then the AI editor rejects: the gate refuses, the text is in no queue, and its
  page still says "Reviewed by a person" (`stories.js:595`, `review-kind.js:66-73` against `:95-100`);
  `HeldTextIsQueued` names the exception. Unpublished stories are left out of the queue, and so is
  the newest revision of a published one.
- A review that read the story before it was published does not re-sync Search (`stories.js:631`,
  `late` in `SearchIsCurrent`); a page that read the story as open can make a public thread after
  its retraction (`server/http/public.js:283`, `missed` in `ThreadFollows`).
- Publishing an older revision again may leave a page that shows a source as changed upstream while
  its `source_updated` flag was resolved before.

Clusters and ingestion:
- A rejected item is recorded as a run of origin `pull` (`source-items.js:163`), which the next
  failing pull reads as the previous pull (`:285`): an outage can be announced twice (`:288` says
  once). `OneEventPerOutage` names the exception and is run without rejections.
- A duplicate counts in a cluster's size but adds nothing to its terms (`clusters.js:79-84`,
  `:206-214`), so duplicates dilute the core. A live duplicate of a removed original is shown nowhere
  on the wire.
- A duplicate that joins its original's cluster between `resplit`'s reads and its splits is left
  behind (`clusters.js:428`).
- An item that fails in the pull is passed (`source-items.js:279`, `skipped` in `CursorCovers`).

Briefs:
- The AI editor approves a brief while a person's review of the text before it is under way; inserted
  after the approval, that review is the latest and of an older text. The page says noindex again
  (`briefs.js:48`, `:116`), while the queue, which reads each kind's latest, counts the brief as
  approved (`:155`): it is neither indexed nor queued until it is written anew, against `:138-140` ("its
  approval publishes and indexes the brief and leaves the queue"). `NothingOverlooked` names this
  (`overtaken`).
- With a future-dated report the page of an approved brief is indexable while the queue and the
  sitemap, which count it, list it in neither.
- A review carries no version of the text from the browser: it is of the text stored when it
  arrives. A brief is rewritten at a reader's request even when it is fresh and approved.
- The sweep lists only clusters with a report of the last 72 hours (`briefs.js:64`). A brief that is
  stale when its cluster grows older than that, because AI was down so long or because a slow reader's
  run stored an older text late, is swept no more: it stays noindex until a reader asks for it.
- The list ends at 200 clusters (`briefs.js:65`), the newest first. While more are due, those beyond are
  not swept, even when all listed are fresh. `SweepCatchesUp` names both limits.
- `briefTick` does not wait for the sweep before it.

Sharing:
- Every publication makes a story public again, whatever its owner chose (`syncAudience` in publish).
- A deletion is refused not only for present members: someone's request for access that was dismissed,
  or a transfer between two former owners, stays on file and blocks the
  erasure of its story's owner as long as they keep their accounts.
- A story whose owner was erased has no row: its page is open once it is live, and later publications
  leave it out of the lists. A narrowed story becomes open that way.
- Narrowing by the sheet does not sync Search; `GET /stories/:id`, comments and the front page's
  counts do not ask the audience.

Requests and the process:
- The brief runs of readers are counted per process, in an hour that starts with its first run: two
  full hours' worth but one fit into an hour that starts after that run (`BriefRunsHeld`).
- OpenVibe.AI delivering drafts that name a person uses up that person's budget, and by naming
  several it is held by none of its own.
- A request with AI origin and no person may record an AI editor's review (`access.js:9-10` says AI
  origin creates drafts "and nothing else").
- The API lets a service acting for a person ask for a review of a brief, which `briefs.js:125` then
  refuses.
- `worker.stop()` does not clear the two first ticks (`worker.js:40`, `:45`), so a process stopped in
  its first seconds still begins a pull or a sweep.

## 5. The proofs

`StoriesProofs` proves of `Stories`, for every finite set of items, every set of texts and writers
and all bounds (`ItemAssumption`, `TextsAssumption`, `WritersAssumption`, `ScopeAssumption`,
`BoundsAssumption`):

| Theorem | States |
|---|---|
| `TypeCorrect` | `Spec => []TypeOK` |
| `NumbersNeverReusedHolds` | `Spec => []NumbersNeverReused` |
| `EveryClaimTracesHolds` | `Spec => []EveryClaimTraces` |
| `SystemKeepsTextHolds`, `NoLostEditHolds` | what revisions say by author |
| `NothingUnreviewedPublicHolds` | `Spec => []NothingUnreviewedPublic` |
| `CitedRemovalFlaggedHolds` | `Spec => []CitedRemovalFlagged` |
| `RemovalNeedsNoteHolds` | `Spec => RemovalNeedsNote`, an action property |

Two lemmas carry the argument: `RevsEffect` (every step leaves the revisions alone, saves one or
prepares one) and `PublicEffect` (every step publishes, reviews, or is quiet and closes no flag).
From them, `RevsGrow` says that a revision once saved stays as it was, `ReviewsStable` that an
approval on record stays, and `RestsStable` that what a revision rests on does not change.

- `TypeOK` is inductive.
- `NumbersNeverReused` is inductive over `TypeOK`: `attach` is the only step that assigns a number,
  and it assigns one past the highest.
- `EveryClaimTraces` is not inductive: a save checks its citations against the table, so the sources
  attached must be known to be numbered. It is strengthened with `AttachedNumbered`.
- `SystemKeepsText` and `NoLostEdit` are one induction on what the last revision is.
- `NothingUnreviewedPublic` uses `approved` at publication and `ReviewsStable` afterwards; a later
  rejection does not take the approval off the record, which is why it speaks of an approving review
  and not of the latest.
- `CitedRemovalFlagged`: only a removal makes an item not live. It opens the flag, or finds the item
  detached; then it is `unseen` if the published revision rests on it, and otherwise nothing public
  rests on it, and no later publication will, as the gate refuses a text that cites a removed item. Only
  a publication closes a flag, and it publishes a revision that no longer rests on the item.

`StoryIndexProofs` and `DiscussionProofs` prove of the compositions with Search and with Community, for
any number of sources an indexable story needs (`IndexAssumption`) and any length of the queue
(`QueueAssumption`):

| Theorem | States |
|---|---|
| `IndexedStoryIsAStory`, `DiscussedStoryIsAStory` | `IndexSpec => Spec`, `DiscussionSpec => Spec`: what `StoriesProofs` proves holds of both compositions |
| `OnlyPublishedListedHolds` | `IndexSpec => []OnlyPublishedListed` |
| `StoryImplementsEdition` | `IndexSpec => ImplementsEdition`, a refinement |
| `SearchIsCurrentHolds` | `IndexSpec => []SearchIsCurrent` |
| `HeldTextIsQueuedHolds` | `IndexSpec => []HeldTextIsQueued` |
| `NoThreadForDraftsHolds` | `DiscussionSpec => []NoThreadForDrafts` |
| `ThreadFollowsHolds` | `DiscussionSpec => []ThreadFollows` |

- `OnlyPublishedListed` and `SearchIsCurrent` are inductive over `TypeOK`. The work is in
  `DocumentKept`: the steps after which the code does not call `syncIndex` leave the gate's answer as
  it was, because they touch neither what is public, nor the reviews, nor an item it rests on.
- `HeldTextIsQueued` relates three readings of one log and follows from its type: the latest row of
  either kind is the latest of its kind (`LatestRow`).
- `StoryImplementsEdition` maps every step of the desk, the gate and Search to one of `Edition`:
  saves and prepared revisions write an issue (`SaveWrites`), a publication shows one (`PublishShows`),
  a review passes one or none (`ReviewApproves`), and everything else hides or relists (`QuietHides`).
  It needs `NothingUnreviewedPublic`'s argument at the publication and `OnlyPublishedListed` after every
  step, as Search may be told late but never of an issue that is not shown.
- `NoThreadForDrafts` is strengthened with the pages that are resolving a thread (`OncePublic`).
- `ThreadFollows` is not inductive: between a write and its follow the thread is wrong. `ThreadCovered`
  says that what the thread shows, or what a call is about to make it show, is what the story asks for
  or a write still waiting saw another state than the present one and will notice. A removal upstream
  is followed only for items the story links, so one it does not link must not close it; that needs
  `NumbersNeverReused`, from `StoriesProofs`.

`ClustersProofs` proves of `Clusters`, for every finite set of reports and words, every number of
clusters and every table of which reports are duplicates (`ItemAssumption`, `WordsAssumption`,
`LimitsAssumption`, `DuplicatesAssumption`, `WithdrawnAssumption`, `BoundsAssumption`):

| Theorem | States |
|---|---|
| `TypeCorrect` | `Spec => []TypeOK` |
| `ItemsInOpenClustersHolds` | `Spec => []ItemsInOpenClusters` |
| `CoreIsCurrentHolds` | `Spec => []CoreIsCurrent` |
| `AuditExplainsMembershipHolds` | `Spec => []AuditExplainsMembership` |
| `ReverseUndoesHolds` | `Spec => ReverseUndoes`, an action property |
| `JoinsOwnStoryHolds` | `Spec => JoinsOwnStory`, an action property |
| `SharedStoryJoinsHolds` | `Spec => []SharedStoryJoins` |
| `MergesNeverCycle` | `Spec => []NoCycle` |
| `ResolveEndsHolds` | `Spec => []ResolveEnds` |
| `ClustersImplementMoves` | `Spec => ImplementsMoves`, a refinement |

- `IInv` adds to the shapes of the tables that every placed report is in an open cluster (`InOpen`)
  and that whatever names a report (a duplicate, a removal, an audit row) names a placed one
  (`Known`); a reversal, which reads its row from the audit, needs both. All theorems rest on it.
- `CoreIsCurrent`: each step rebuilds a cluster's stored words, closes it, or leaves alone both what
  is stored and what is counted (`CoresKept`), case by case; only a duplicate joins uncounted.
- `AuditExplainsMembership` is proved as `Explained`, of one report: a move appends a row with exactly
  the reports it moved (`MovesExplain`).
- `JoinsOwnStory` needs `CoreIsCurrent`, as the rule reads the stored words and the property speaks of
  the present reports. `EnoughIsAThird` and `MostIsEnough` are the arithmetic of `coreMin`;
  `SharedStoryJoins` follows from the second in any state.
- `MergesNeverCycle`: the invariant is that some numbering of the clusters rises along every merge. A
  merge of `d` into `c` gives a new one, with `c` above all; only open clusters are merged, so no merge
  leads out of `c`. Reversing a merge removes a link and keeps the numbering.
- `ResolveEnds` is proved for any number of clusters: `resolve` (`clusters.js:247`) follows at most 50
  merges, so it reaches the end of every chain unless more than 50 clusters are merged away, which the
  property excepts. Each hop before the end leaves another merged cluster behind, so that a path with
  no end after 50 hops would have more merged clusters than there are. The path is a recursive function;
  it is evaluated by an argument on the least number at which it would differ.
- `ClustersImplementMoves`: `RecordTyped`, `RecordAppends` and `MoveSays` say what an audit row is as a
  move, `MoveRecorded` and `ReversalRecorded` that a row is appended as `Moves` wants it and that a
  reversal marks the row it takes back. Then one lemma for each way to move reports (`MergeIsMove`,
  `SplitIsMove`, for the regrouping's splits too, `ReverseMergeTakesBack`, `ReverseSplitTakesBack`),
  and `IngestEnters`. A reversed merge opens the cluster its reports return to; a reversed split is
  refused unless both clusters are open, and dissolves the split-off one only when nothing is left in
  it: just what `Moves` asks of a story that opens or closes.

`IngestProofs` proves of `Ingest`, for every finite set of items, page size and bound
(`SwitchAssumption`, `BoundsAssumption`):

| Theorem | States |
|---|---|
| `TypeCorrect` | `Spec => []TypeOK` |
| `StoreImplementsMirror` | `Spec => ImplementsMirror` |
| `NoAckedDeliveryLost` | `Spec => []AckedIsApplied` |
| `CursorNeverAhead` | `Spec => []CursorCovers` |
| `OutageRelayedOnce` | `Spec => []OneEventPerOutage` |

- `Published` is what everything rests on: whatever is stored, announced, in a handler or in a page is
  a state Sources has gone through, so nothing is newer than Sources and nothing removed that is live
  there. The refinement follows: a step of `Ingest` publishes, stores a published state that is not
  older, or stutters (`StepMirrors`).
- `AckedIsApplied` is inductive over it: the store only moves forward (`Forward`).
- `CursorCovers` is not inductive, since the cursor moves after the page was applied. `PageCovers` says
  of the page in flight what the cursor will say once it is past it. It needs that a page is applied
  in the order of its changes and that no change before its end is left out of it (`PageReaches`).
- `OneEventPerOutage` needs to know that nothing is relayed yet after a run that did not fail, except
  after a rejection, which is recorded as a run of the pull's own in the middle of an outage and has the
  next failure relayed again (section 4). `Relayed` says so.

`BriefsProofs` proves of `Briefs`, for every finite set of reports, all clusters, sweeps and readers
(`ReportsAssumption`, `PartiesAssumption`, `BoundsAssumption`):

| Theorem | States |
|---|---|
| `TypeCorrect` | `Spec => []TypeOK` |
| `IndexedIsCurrent` | `Spec => []IndexedMatchesReports` |
| `ListedIsIndexed` | `Spec => []ListedIsIndexable` |
| `NothingIsOverlooked` | `Spec => []NothingOverlooked` |

- The rule compares a count of reports and a version, the property the reports themselves. `Timely`
  closes the gap with the order in which a run reads: the version first. While the cluster is at that
  version still, no report has left, so those written from are among those it has (`Holds`), and as
  many as there are can only be the same ones (`CurrentIsWhole`). Reports that come of age advance no
  version, which is why the rule needs the count besides.
- `ListedIsIndexed` uses the same fact for the sitemap, which counts future-dated reports too.
- `NothingOverlooked` relates the queue, which asks each kind's latest review, to the page, which asks
  the latest of all, and both to reviews recorded late. `ReviewsOK` has what it needs: a text has a
  decision only when a review was recorded since it was stored, which `put` must restore for the new
  text.

`SharingProofs` proves of `Sharing`, for all stories and people and any life of the card
(`PeopleAssumption`, `TtlAssumption`):

| Theorem | States |
|---|---|
| `TypeCorrect` | `Spec => []TypeOK` |
| `RowAndColumnInStep` | `Spec => []InStep` |
| `ListsAgree` | `Spec => []ListsAgreeWithPages` |
| `ErasedStayErased` | `Spec => []ErasedHoldNothing` |
| `CardNeverOld` | `Spec => []CardIsRecent` |
| `OnlyOwnersOpenHolds` | `Spec => OnlyOwnersOpen`, an action property |

- `ListsAgreeWithPages` speaks of live stories and is not inductive: a publication keeps row and
  column as they are when the row says public already, so they must have agreed while the story was a
  draft. `InStep` adds that a row and its column say the same in every state, and that a story not yet
  made has neither.
- `ErasedHoldNothing` is strengthened with the profile lookups under way (`NothingLeft`): whoever is
  asked for then may come back by name, and nobody else is asked for again. Whoever has left can be
  filed on no new request or transfer (`FilingKeeps`), nor be handed a story (`AcceptHands`,
  `AcceptKeeps`).
- `CardIsRecent`: a story may leave the lists while the load that will show it runs. `CardFollows`
  bounds the time each of its stories has been off the lists by the age of the card, and of the load.
- `OnlyOwnersOpen` rests on `InStep` and goes through the steps that open nothing.

`ServiceProofs` proves of `Service`, for all people, services, apps, capabilities, routes and limits
(`ServiceAssumption`, `LimitsAssumption`):

| Theorem | States |
|---|---|
| `WorkIsRightful` | `Spec => []RightfulWork` |
| `PaceIsHeld` | `Spec => []PaceHeld` |
| `BriefRunsAreHeld` | `Spec => []BriefRunsHeld` |
| `ReadersAreServed` | `Spec => []ReadersServed` |
| `TypeCorrect` | `Spec => []TypeOK` |

- `RightfulWork` speaks of the work just done and the handler works in a step of its own, so the
  invariant must say what waits for it: `AtTheDoor` says that each request under way has a viewer its
  credential may be (`ViewerOf`) and, with a service token, passed the guard of its route.
  `SignedRightfully` then follows the handler's check case by case.
- `PaceHeld` bounds a history variable; `Counted` adds that the limiter's own counters are within
  their limits and never below it. It needs that persons are counted under themselves (`ActorOf`).
- `TypeOK` adds to both `Clocked`, which has the phase of the process, its clock and its brief runs.
- `BriefRunsHeld` and `ReadersServed`: the runs of an hour that is not aligned to the counter's fall
  into two of its hours. `RunsInHours` says it of every window of `k` minutes. While the counter's
  hour is no older than that, all its runs are in the window, so that a full counter means a full
  window (`ReadersServed`). When it is older, the run that started it is not in the window; hence no
  window holds both hours whole, and `BriefRunsHeld` is strict. With one run less it would not hold.

Only model-checked:
- Liveness (`LiveConverges`, `SweepCatchesUp`) and the fairness it rests on: `ENABLED` and
  leads-to under fairness are outside what TLAPS proves with the backends used here.
- The three properties of section 4 that do not hold.

Both sides of the proofs have bounds as constants (revisions, writes waiting, audit rows, restarts), and
nothing is assumed of them but that they are numbers; of the code's own limits only the 50 of `resolve`
enters a property.

## 6. Not modelled

- PostgreSQL's isolation: transactions are atomic steps. What its isolation level lets two of them
  see of each other is decided in openvibe-sdk, whose source is not in the repository.
- How a headline is cut into terms and entities (`signature`), and the wording of anything.
- An editor's noindex, the word minimum, product events, IndexNow, perspectives, topics, slugs.
- The other tones of a brief and the comparison of outlets: made the same way and never indexed.
- Rendering, feeds' formats, the front page, topics: reads and pure functions. The limits of reading
  routes, CSRF tokens, sessions, readiness, configuration and telemetry: local to one request or
  outside News' state.
- Link tokens and notifications of the sheet, and how requests for access and transfers are answered or
  expire, which are openvibe-sdk's; that they stay on file is modelled.
- The card's fallback to briefs when no story is listed.
- Events of other categories, upstream fetch failures and the display cache of source names.
- Liveness is checked by TLC only (section 5).

## 7. Plan

Done: every module of section 2, the proof of every safety property its runs check, and the three
refinements.

Left:
1. Two ingestions at once (`clusters.js:219`), which depends on the isolation the database layer gives
   and waits for its source. The other hazards no property covers are those where the code itself has
   the gap; the properties name each as an exception (`missed`, `overtaken`, `renamed`, duplicates).
2. An abstract specification of a brief's life (asked for, written, reviewed, indexed) that `Briefs`
   implements, from `Timely` and `NothingOverlooked`.
