# korg: a TLA+ verification project

korg is one person's planning system: work items, sprint proposals, programs,
recurring schedules, a kanban board, captured links, agent handoffs and daily
reports, held in one PostgreSQL database and reached by a REST API, an MCP
server and a SvelteKit web client; an OAuth gate lets outside apps call a part of
it. This directory holds TLA+ models of the parts whose behaviour depends on the
*order* of operations or on a computation that is easy to get wrong at its edges,
TLC configurations that check them on small instances, and TLAPS proofs.

File paths below are relative to the repository; `core/` stands for
`crates/korg-core/src/` and `repo/` for `crates/korg-core/src/repo/`.

## 1. Inventory

Every korg entity is a row of `node` (kind, project, archived, tags,
`awaiting_since`) plus a row of its own table; entities are joined by rows of
`relationship (left_id, relationship, right_id, rank)`. All write paths live in
`core/repo/*`: REST (`korg-api`), MCP (`korg-mcp`) and the web client are three
fronts over the same functions, each of which is one transaction (READ
COMMITTED) unless said otherwise below.

| component | state | operations | properties that make it correct | module |
|---|---|---|---|---|
| vocabularies (`core/vocab.rs`) | none | closed status sets and their partitions | every status written is of its kind's set | `Vocab` |
| work items (`repo/work_items.rs`) | status, soak fields, project, area | create, patch (settles the marker, advances schedules) | status changes are logged; answered asks cleared; the area fits the project | `Planning`, `Filing` |
| proposals (`repo/proposals.rs`) | status, `covers` edges | create with bundle, patch (lifts programs) | covers is single-project; a start reaches the programs above | `Planning` |
| programs (`repo/programs.rs`) | status, `includes`, `soaks` edges | create, patch (soaking gate), lift | queued/soaking are facts about the slices; declared statuses stand | `Planning`, `PlanningRaces` |
| relationships (`repo/relationships.rs`, `core/relationships.rs`) | edges | relate (direction-deduplicated, re-ranks, lifts), unrelate, neighbors | edge rules of each kind | `Planning`, `Captures` |
| awaiting lane (`repo/awaiting.rs`) | `awaiting_since` | set/clear, settle from update paths, list | an answered ask never returns | `Planning` |
| cards (`repo/cards.rs`) | status, project, archived | create, patch | same marker rule | `Planning`, `Filing` |
| links, handoffs (`repo/links.rs`, `handoffs.rs`) | columns, disposition, owners | create, patch, delete (links, guarded) | a delete takes no reference along that it could see | `Captures` |
| comments (`repo/comments.rs`) | comments of a node | add, edit (row lock), delete | the feed says of a comment what happened to it | `Captures` |
| activity feed (`repo/activity.rs`) | append-only feed | record in each write, paged read | one entry per effective write; paging misses nothing | `Captures` |
| transition log and flow (`repo/common.rs`, `repo/flow.rs`) | `node_status_transition` | append on change; fold into daily counts | the log gives back the past; the sums balance | `Planning`, `Flow` |
| schedules (`repo/schedules.rs`) | cadence, anchor, status, `last_wi` | create, patch, materialize, anchor advance on completion | at most one outstanding item; a one-shot fires once | `Schedules` |
| reports (`repo/reports.rs`) | report per (source, day), finding edges, source declarations | upsert, review, declare, freshness verdict | findings follow the last write; a silent source is told | `Reports`, `Freshness` |
| projects, areas (`repo/projects.rs`, `areas.rs`, `selectors.rs`) | name/area tree, places, notes | create, patch, archive, rename, delete area, list | archiving forgets nothing; no item has another project's area | `Filing` |
| attachments (`repo/attachments.rs`, `korg-img/src/store.rs`, `korg-api/src/img.rs`) | row, `has_attachment` edges, a directory of blobs on disk | upload, link, discard, hourly sweep of edge-less uploads | an image a client was answered about has its bytes; an orphan is collected | `Attachments` |
| image conversion (`korg-img/src/lib.rs`) | none | refuse, scale, encode, list, serve | every size is served from a file that is there | `Images` |
| board, planning (`repo/board.rs`, `planning.rs`) | none (reads) | some fifteen statements put together | a quiet board adds up; a torn one hides no blocker | `Board` |
| OAuth gate: grants (`crates/korg-gate/src/store.rs`) | registered clients, refresh tokens (JSON file), codes | register, authorize, exchange, refresh, save, open | a token is spent once; what was acknowledged survives a restart | `GateStore`, `Grants` |
| OAuth gate: door (`crates/korg-gate/src/oauth.rs`, `proxy.rs`, `allowlist.rs`, `door.rs`) | lockout, access tokens, open calls (memory) | sign in, exchange and rotate for a resource, forward, filter | only ruled calls go out, successful lists come back filtered; bounded tries | `Door` |
| operation registry, database pool (`core/ops.rs`, `db.rs`) | none | dispatch table shared by REST and MCP | pure dispatch | - |
| REST, MCP, migrate, test support, web, deploy | none beyond the above | transport, SQL migrations, one-off import, UI | transport | - |

**Interactions.** `update_proposal`, `relate` and `create_program` call
`promote_programs_over`; every update path of work items, proposals, programs
and schedules calls `record_transition` and `settle_awaiting`; `update_work_item`
calls `advance_completed_anchor` of the schedules; `materialize_schedule` creates
work items and a `materializes` edge; attachments are linked to any node by
`relate`; `create_report` maintains `finding` edges; the board reads what all of
them wrote; the gate proxies a public subset of MCP tools to `korg-mcp` and to a
second upstream, klams.

**What is hard.** Every handler is a read-modify-write over several rows under
READ COMMITTED, and few of them take a row lock. The marker, the log, the feed
and the lift are side effects that each path must remember. Deletions count
references, then delete by cascade. The sweeper deletes rows and then files
without a common transaction. Schedules combine a clock, a gate before the
transaction and a second gate under a lock. Rows are dated when their
transaction began and committed in any order. Reads put several statements
together outside any transaction. The gate keeps half its state in memory and
half in a file. `PROJECT.json` lists each hazard at its line, with the properties
that would catch it.

## 2. Modules

| module | models | composed with |
|---|---|---|
| `Vocab` | the status sets of `core/vocab.rs` and the cuts of them that the write paths consult | extended by `Planning`, `Schedules` |
| `Planning` | the planning graph, one atomic action per repo function | |
| `PlanningRaces` | the same functions as PostgreSQL runs them: a client's transaction is a read, a write and a commit, and transactions overlap | extends `Planning` |
| `Board` | `board_rollup` statement by statement, with calls between the statements | extends `Planning` |
| `Schedules` | recurring schedules, the items they materialize, racing clients and a day clock | extends `Vocab` |
| `Attachments` | image rows and edges in the database, image bytes on disk, two sweepers, crashes | with `Images` in `MCAttachments` |
| `Images` | what an upload is turned into and what a request is served | with `Attachments` in `MCAttachments` |
| `Captures` | links, handoffs, comments, edges, the activity feed and its reader | |
| `Reports` | reports of a day, their findings, declarations of a source | with `Freshness` in `MCReports` |
| `Freshness` | the verdict on a source | with `Reports` in `MCReports` |
| `Filing` | projects, areas, and what is filed under them | |
| `Flow` | the flow series over the writers of the log | |
| `Grants` | what the gate promises of a sign-in: the abstract specification | implemented by `GateStore` |
| `GateStore` | the gate's persisted grants, its state file, restarts, failed saves and lost answers | instantiates `Grants` |
| `Door` | sign-in and lockout, tokens and doors, checked calls and filtered answers | |
| `MC...` | request sets, instances and symmetries that the configurations name | extend the module they instantiate |
| `PlanningProofs` | theorems about `Planning`, `PlanningRaces` and `Board` | extends the last two |
| `CalendarProofs` | theorems about `Schedules` and `Flow`, the two models with days | extends both |
| `AttachmentsProofs`, `ReportsProofs` | theorems about these modules and the pure ones they are checked with | extend `MCAttachments`, `MCReports` |
| `CapturesProofs`, `FilingProofs`, `GateStoreProofs`, `DoorProofs` | theorems about the module they are named after | extend it |

Definitions called a *faulty variant* are used by no action: each is a plausible
bug that the property named in `PROJECT.json` finds.

### Planning

`status`, `project`, `archived`, `awaiting` and `soakFields` are columns of
`node` and of the kind's own table; `includes`, `covers` and `soaks` are the rows
of `relationship` with those labels; `logged` is what the last transaction
inserted into `node_status_transition`. Every action carries the side effects of
its function: `UpdateProposal`, `RelateIncludes` and `CreateProgram` the lift of
`promote_programs_over`, every update of a work item, proposal or program the
transition row and the settling of the marker. A request is a record in which
`Keep` stands for a field the caller left out, so a patch that repeats a status,
or sets a status and the archived flag together, is a request like any other.

Left out because no guard of these functions reads them: titles, notes, tags,
ranks, and the edge labels that have a module of their own or no rule.

### PlanningRaces

The variables of `Planning` hold what is committed and `tx[c]` what client `c`'s
open transaction has read and will write. A statement sees what is committed when
it starts plus its own transaction's writes; a row that is written stays locked
until the commit. The lift's UPDATE joins on the ids its CTE found: after waiting
for a row it checks the id again and not the status, so the commit applies the
lift to whatever the program has become. `Concurrent` names the kinds of call
that run beside each other in an instance; any other kind runs, but alone.
`AloneIsAtomic` ties the two levels together: whatever a call that overlapped
nothing leaves behind is one step of `Planning`. Calls disagree about statuses
only, so the patches of the transactions set a status and nothing else
(`StatusAlone`); a whole patch is a step of `Planning`.

### Board

`ReadPrograms` and the disjuncts of `ReadRest` are the statements of
`board_rollup`, of the list reads it calls and of `board_blockers`, in their
order; each stores what it returned in `board`. `Commit` is any action of
`Planning`, or a relate or unrelate of `depends_on`, between two of them. What
the function computes from its rows is the section "Assembly". `quiet` says that
nothing was committed during the read and `lasting` what has been held up, and by
what, ever since it began; both are auxiliary. Orders, titles, comments, reports
and schedules of the board are left out. The run reads boards of a graph that is
built already (`Populated` in `MCBoard`); the theorems start from the empty one
and are about every graph the calls can build.

### Schedules

`materialize_schedule` is four steps: the gate outside the transaction, the start
of the transaction (which fixes its `now()`), the row lock with the second gate,
and the commit. `update_work_item` is the row write and the commit with the
restart of anchors. `Abort` ends any of them. Time is counted in days and a
cadence is its interval. `Tick` waits for open transactions, which take
milliseconds, but not for a caller between its first gate and its transaction.
`fired` and `event` are auxiliary: they count and date what the properties are
about and no action reads them. `event` is the day a recurrence counts from: a
completion, or the anchor that was set by hand, which may lie in the future.

### Attachments and Images

`UploadRecord` is the commit of `create_attachment`, `UploadWrite` one file of
`Store::write_inner`, `UploadUndoBytes` and `UploadUndoRow` the two compensations.
`DiscardRow`/`DiscardBytes` are `delete_image`; `LinkInsert`/`LinkCommit` are
`link_image` or a `relate`, apart because the foreign-key check holds the image's
row in between; `SweepFind`/`SweepDelete`/`SweepBytes` are the DELETE's snapshot,
the DELETE, and the loop over the returned ids. One sweeper is the hourly task,
the other is `POST /api/img/sweep`. `Crash` ends everything in flight and keeps
committed rows and written files. `mishaps` counts crashes, failed file
operations and lost compensations up to `MaxMishaps`. An image id is used once, as a
`BIGSERIAL` is; TLC's set of ids runs out and the model then really stops, which
is why its configuration does not check deadlock.

`Images` is a pure module: `Prepare` what an upload is recorded as, `Written` the
files it becomes, `AttachmentVariants` what the listing says of the row and
`ServedBlob` which file the serve route opens. No flag says that a variant was not
stored; both sides derive it from the original's dimensions, and the property
puts writer and reader together. An image is its dimensions, its alpha channel,
its number of bytes and the number of bytes an encoder makes of it (a free
choice). `MCAttachments` joins the two: the parts of an image that are on disk
are the files `Images` says they are.

Left out: statistics, file names, the project an image inherits, the deletion of
an owner, and pixels.

### Captures

Each call is a transaction of several steps, with the locks PostgreSQL takes: a
key share on the rows its inserts refer to (`Key`), the rows it writes (`Written`,
`Detail`, `OnComment`, `OnEdge`), a row it deletes (`Gone`). `RollBack` drops a
call at any step, as a closed connection or a deadlock's victim is. `CountEdges`
and `CountComments` are the two counts of `refuse_if_referenced`, `DeleteNode` and
`Cascade` the DELETE and what it takes along. `BeginEdit` to `CommitEdit` is any
patch with its fingerprint before and after; `ReadComment` takes the row lock of
`update_comment`. `feed` is a set of rows: each bears the time its transaction
began and its number within the transaction, which together order a listing, and
`Place` is how many rows of the listing are newer. The reader pages by offset: a
page is the rows whose place is within it. `late` collects what has been committed
since a delete counted; no action reads it.

A node has two columns, one of its own table and one of `node`; the other
columns behave like one or the other.

### Reports and Freshness

`RunLook`, `RunWrite` (or `RunConflicts` at the unique key of the day),
`RunPrune` and `RunCommit` are the statements of `create_report`;
`DeclareLook` and `DeclareWrite` those of `set_report_source`, whose `FOR UPDATE`
locks nothing when the source has no row yet. `entries`, `latest`, `first` and
`raced` are auxiliary. `Freshness` is the query of `list_report_sources` as
operators: the median gap of the recent reports, whether it has been earned, the
cadence in use, the grace, the word, the days overdue. `MCReports` judges every
declaration row that the races of `Reports` can leave, over every history of
reports up to `LastDay`. Days and cadences are numbers there, and one value stands
for `NULL` in both modules (`MCReportsAssumption`).

The other report reads (`list_reports`, `get_report`) are left out.

### Filing

`UpdateProject`/`CommitProject` are `update_project`, with the clearing of places
when the project is archived; `ListProjects`/`CountHidden` the two statements of a
listing; `DeleteArea`/`CountFiled`/`CommitUnarea` the guarded delete of an area,
whose `ON DELETE SET NULL` unfiles items. `CreateItem` and `MoveItem` start with
the look-ups that are made before the transaction; `ReadItem`, `WriteHome`,
`WriteArea` and `CommitMove` are the statements inside `update_work_item`. `touched`
and `late` are auxiliary. An open call is a record of the same fields whatever its
kind; what a call does not use is as in `Idle`.

Left out: machines (single-statement puts without a rule), the form of paths, and
the suggestions in error messages.

### Flow

`CreateBegin`/`CreateCommit`, `PatchBegin`/`PatchRead`/`PatchCommit` (of up to as
many overlapping patches as there are writers) and `SetArchived` are the writers as
far as the series can tell. A creation (`create_work_item`, or `materialize_schedule`,
which may wait for the schedule's row) is one transaction; `pending` is the row it
has not committed yet. An item and a transition row bear the time their transaction
began, and nothing is logged before migration 0026 (`LogStart`). The rest of the
module is the SQL of `work_item_flow`: the un-walk of each item's status to the
end of a day, the closures of a day, the durable halves, the baseline. `past`
keeps what the statuses really were; `tangled` the items that have a transition
dated on another day than it was committed, or out of order; `belated` the items
that are dated on an earlier day than they were committed, for which the backlog of
the days between is not claimed to be what it was; `reborn` those that were created
closed or left `closed`, whose sums are not claimed to balance (section 5).

### GateStore and Grants

Every method of `Store` holds one mutex from its first look to its save, so it is
one action; `mem` is `Inner.persisted` and `disk` is `state.json`. A save works,
or fails after memory has changed (`SaveFails`); an answer may get lost. `Restart`
reads the file and forgets the codes. `held` is the token the app was last
answered with and `astray` the sign-ins whose last call failed to save or lost
its answer: those apps do not hold what the gate holds, and they sign in again.

`Grants` is the promise without clients, file or codes: a sign-in renews with the
token it was told, which is then worth nothing; a token is forgotten only when it
has expired; a restart gives back what the app was told unless the app is astray.
`KeepsThePromise` maps `GateStore` to it.

The comparisons that refuse a request (PKCE, redirect URI) change nothing except
that a code is spent (`CodeSpent`).

### Door

`Submit` is `authorize_submit` up to the look at the lockout, `Admit` and `Fail`
what happens when the passphrase has been looked at, in a critical section of its
own; `WaitOver` is the passing of `until`. `Exchange` and `Rotate` are `/token`
with a resource that names the token's door, another one, none, or nothing known.
`Post` is `post_mcp` (method, tool, arguments, routing headers, and the rewriting of
`origin` and `author`), `Answer` what becomes of the answer to a `tools/list`. As in
`post_mcp`, the request decides with the status of the answer whether it is
filtered: with an id and a success it is, over JSON and SSE; without an id, or with
any other status, it is streamed back. `DenyByDefault` speaks of the filtered
answers, and of every message that goes out; section 5 lists what is not filtered.
A message is a record of what the gate looks at. Saving and eviction are
`GateStore`'s: here a save succeeds. `Restart` forgets codes, access tokens, the
lockout and open calls.

Left out: HTTP plumbing, parsing of the configuration, the metadata documents,
and the GET and DELETE of the stream.

## 3. Runs

Each passing run explores all reachable states of its instance.

| run | question | bounds, and why they are enough |
|---|---|---|
| `planning_promotion` | Does `soaking` stay true of the slices, do declared statuses stand, is every moved status logged? | Two programs over two slices: a lift can reach one of two, a slice can be shared, and a second slice can be in flight. One soaked item, so that soaking can be entered. Statuses that play the same part in the rules are represented by one. |
| `planning_card_marker` | Does leaving the lane clear the marker of cards and captures? **Violated.** | One node of each; a marker depends on its node alone. |
| `races_slices` | Does the lift still reach every queued program when slice patches overlap? Do the statements of each handler add up to the atomic action? | Two clients; a third transaction would have to wait for or follow one of them. Two slices, so that two starts meet in one program. All other kinds of call run too, alone. |
| `schedules_races` | At most one open copy, one firing of a one-shot, and the cadence kept, with racing and forced callers? | Two clients (one in each gate), three items (an old one, an open one, a surplus one), five days and an interval of two. Finished items stay finished (`Reopen` is false). |
| `attachments_lifecycle` | Do answered images keep their bytes and serve both sizes, is nothing stranded without a failure, is every orphan collected? | Two images, since a sweep takes several; two owners, since one edge may go while another stays; two mishaps, since a failed write and a failed compensation are two. Edges of 2 and 4 and sides up to 7: below, at and above both, and a ratio that rounds to nothing. |
| `captures_feed` | Does the feed tell what happened, does a page turn miss anything, what does a delete take along? | Two clients, one link (older than the log or yet to be made), one handoff, two comments, three calls: a delete, the late reference, and a call before them. Pages of one, so that every row is at a page's edge. |
| `reports_runs` | Are the findings one run's, are changes logged, is a silent source told and an on-demand one left alone? | Two clients and three runs of a day: two that overlap and one that created the report. Histories of up to seven days: more than the window of five, and as long as three cadences of two. |
| `filing_calls` | Do listings add up, does archiving forget a place, does an area always fit its project, what does deleting an area unfile? | Two clients, two projects, two areas, an item and a card, four calls: enough to make two areas, file an item and move it. |
| `flow_series` | Is the un-walked backlog what it was, do the sums add up, do past days stand? | One item, its creation and two clients' patches of it, which overlap and may span midnight, three transitions, days of two ticks, before, on and after the day the log starts in. Items do not influence each other's rows. |
| `board_reads` | Does an undisturbed board account for everything once, does a torn one hide a blocker, does leaving the lane settle the marker? | From a built-up graph of one program, two slices and two items with dependencies between them, up to two calls anywhere between the statements. |
| `gate_grants` | Do answered grants survive, does rotation keep one token, does a granted client stay, is the promise kept? | A table of two and four registrations: full, with one or no evictable client. Three tokens per sign-in: an exchange and two rotations. |
| `door_calls` | Does only what is ruled in pass, does a token keep its door, do refusals cost nothing, are tries bounded? | Two overlapping sign-ins and both doors; one free failure and six failures, past the ceiling of the wait; two pairs of tokens per sign-in; messages and answers that differ wherever the gate looks, `tools/list` without an id, unsuccessful answers that list tools and arrays in SSE events among them. |

**Deadlock** is not checked where a bounded supply (ids, calls, days) runs out and
the model then really stops.

**Fairness.** Only `Attachments!FairSpec` assumes any. Time passes, so an image
grows old. A statement that was sent is answered, so uploads and relates proceed.
The hourly loop keeps running: `spawn_sweeper` loops for as long as the process
lives, logs an error rather than ending, and its first tick after a restart is
immediate. The DELETE is woken when the rows it waits for are released; since
others may take them again first, this is strong fairness. Even so, relates that
overlap forever on one row of the DELETE would keep it waiting, and
`OrphansCollected` therefore assumes that at some moments no relate is open.
Crashes are bounded, or the sweeper might never finish; nothing else about the
failures is assumed.

## 4. Proofs

TLAPS checks these for all values of the constants, under the named assumptions
of each module: kinds of nodes are disjoint (`KindsDisjoint`), what stands for
"absent" and "keep" is no value of a column, requests are of their types, bounds
are natural numbers, `SignIn`, `Existing` and `Project` are finite, the log of
`Flow` starts at the horizon (`FlowAssumption`), and the transactions of
`PlanningRaces` patch statuses (`StatusAlone`). One assumption is
arithmetic: the lockout's waits `LockoutBase * 2 ^ n` are positive numbers for `n`
up to 16, which the provers do not compute; TLC evaluates it. Every property of a
passing run is stated by a theorem, except for one (below).

| theorem | says | argument |
|---|---|---|
| `PlanningTypeCorrect` | every node keeps to its kind's statuses, every edge to its end kinds | inductive as it stands; one lemma per kind that a status update of that kind keeps the others |
| `SoakingIsIdle` | `[]SoakingMeansIdle` | inductive with `TypeOK`; the one hard case is the start of a slice, where the lift takes every soaking program over that slice along |
| `DeclarationsStand`, `QueuedIsHonest`, `LaneExitsSettle`, `ChangesAreLogged` | `DeclaredStatusStands`, `QueuedStaysHonest`, `LaneExitSettles`, `EveryChangeLogged` | from `GraphInv` (types, marks on existing nodes only, edges to slices that exist), by one lemma per action on how it moves statuses, markers and the log |
| `RacesTypeCorrect` | the same while statements interleave, and what every open transaction holds | one lemma per kind of transaction |
| `AloneCallsAreAtomic` | `AloneIsAtomic`: a call that met no other is one step of `Planning`, for any `Concurrent` | `AloneInv`: a call that has met no other has the database to itself, and what it has read is so (`UpToDate`). Needed because a commit writes what was read statements ago |
| `RacingSlicesStayHonest`, `RacingSlicesLeaveSoakingIdle` | `QueuedStaysHonest` and `[]SoakingMeansIdle` where slice patches and single statements overlap (`SlicesOverlap`) | `SliceInv`: what a started slice has found to lift is still all there is to lift over it. What relates and soaking patches beside them would break is in section 5 |
| `OverlappingCreatesAreAtomic` | `RaceSpec => Spec` where `create_program`s and single statements overlap (`CreatesOverlap`): the racing model implements the atomic one | `CreateInv`: what an open creation has found stands until it commits. With it each commit maps to an action of `Planning` and every other step to a stutter |
| `LastingBlockersShown` | `[]LastingBlockersAreShown` | `BoardInv`: what has held up what since the read began still does, and each statement that is through has returned its part |
| `QuietBoards` | `[]QuietBoardsAddUp` | `Whole`: finitely many nodes exist, and edges join nodes that do; `PeaceInv`: while nothing was committed, each statement has returned what it would return now. The sums are cardinalities of sets shown to be apart (`CountApart`) or matched one to one (`CountAlike`) |
| `SchedulesTypeCorrect` | types, and that a call is about rows that exist | |
| `OneShotFiresOnce` | `[]OnceFiresOnce` | `OnceInv`: whoever holds a schedule's lock has passed the gate on its present row, and only one client holds it. The second gate sees the `done` that an earlier firing set |
| `OneOutstandingItem` | `[]AtMostOneOutstanding`, where finished items stay finished (`~Reopen`) | `OutstandingInv`: an unfinished item of a schedule is its `last_wi_id`, and while a client is firing there is none |
| `RecurrencesAreSpaced` | `DrillsAreSpaced` | `SpacedInv`: an anchor is never behind the event it stands for, no transaction spans midnight, and what fires unforced was due on the row it has locked |
| `UnwalkIsHistory` | `[]BacklogIsHistory` | `UnwalkInv`: for each item and each day that is over, either nothing was logged since and the item, and whoever has read it since, has the status it had then, or the first move logged since comes from that status; `TimelyInv`: nothing is dated in the future, and an item that is not `belated` was there at the end of each day it is dated by. Items dated by a day they were not there for (`Backdated`) have no status of that day; of them the invariant says that they un-walk to one they can have been created with (`Thens`), which `FlowBalances` needs |
| `SplitAgrees`, `PastStands` | `[]DurableSplitAgrees`, `PastDaysStand` | the same invariants; a row that is not misdated is dated today, so no step adds a move or a closure to a day that is over; nor does a creation add an item to one, unless the item is `belated` |
| `FlowBalances` | `[]BalancesOnceClosed` | day by day the backlog changes by arrivals less closures, which telescopes over a window; `ClosedOnceInv`: an item that never left `closed` has one closure at most, dated when it became closed; `FiniteInv`: finitely many items exist. The lemmas on sums of functions over finite sets are proved with it |
| `AttachmentsTypeCorrect` | types; an edge, committed or open, is to a row that exists | the row lock: a delete waits for open edges |
| `AnsweredKeepTheirBytes` | `[]AnsweredImagesHaveBytes` | `BytesInv`: whatever has its bytes removed next has no row, an upload that has come so far has the files so far, and an id in neither has none |
| `AnsweredServeEverySize` | `[]EverySizeIsServed`, for images of any size and any caps | `BytesInv`, and lemmas on `Images`: what is written, listed and served of a variant is decided alike from the original's dimensions |
| `StrandingNeedsAMishap` | `[]StrandedOnlyByMishap` | `StrandInv`: an upload that is running holds its row unless it was discarded, one that fails does so by a mishap or a discard, and a sweep has found only images older than any upload |
| `DeletesTakeOnlyLateReferences` | `DeleteTakesOnlyLateReferences` | `DeleteInv`: from each count on, a reference that was not counted is in `late`, through every commit of every other call |
| `FeedKeepsTheThread` | `[]FeedTellsTheThread` | `FeedInv`: each comment was told of as often as it came and went (`ThreadTold`), what a call has locked is as it found it (`Holds`), and no two calls hold locks that clash (`LocksApart`) |
| `EveryEditIsLogged` | `EditsAreLogged` | `FeedInv`: under the row lock the text read is the text written over |
| `ReadersMissNothing` | `[]PagesMissNothing` | `ReaderInv`: a row due to the reader has been seen or its place is at or below the offset. Rows that come push others down and none up, and a page has at most `PageSize` rows, which is a cardinality lemma on places |
| `ReportsTypeCorrect` | types of reports, findings, declarations and calls | |
| `FindingsOfTheLatestRun`, `UneditedReports` | `[]FindingsAreTheLatestRuns`, `[]UneditedReadsAsCreated` | `RunInv`: one run at a time has written the row of a slot; what it pruned, and that the report it found is still there, stand until it commits |
| `ContradictionsAreBornRaced` | `[]ContradictionOnlyAtBirth` | `DeclInv`: a declaration that found a row holds it, so what it found still stands; only one that found none writes over a row it has not seen |
| `OnDemandNeverAlarms` | `[]OnDemandIsNeverDue` | by cases on the verdict, for every row that declarations can leave |
| `SilentSourcesTold` | `[]SilentSourcesAreTold` | for a least span of two cadences or more. Lemmas on the median: it is between two gaps of the window, and of an earned daily series with one day missed it is a day |
| `FilingTypeCorrect` | types of rows, of marks and of the calls of every kind | |
| `FilingFits` | `AreasFitUnlessOvertaken` | `FitInv`: what a call will file fits the project it will file it under, if the item it has read fitted; and an area that is made keeps its project |
| `DeletionsSawNothing` | `DeletingUnfilesOnlyLateItems` | `LateInv`: what is under an area that a delete has counted was filed since it counted |
| `ListingsAreWhole` | `[]ListingsAddUp` | `ListInv`: the rows of an open listing are right of every project not touched since; the count is a cardinality of finitely many projects |
| `ArchivesRemember` | `ArchivingRecordsPlaces` | the only step that ends a project call and changes a project is its commit; the rest is the types of patches |
| `GateTypeCorrect` | memory and file are within the table's bound | cardinality lemmas; that a set of clients has an oldest member is proved from the well-foundedness of inclusion between finite sets |
| `GrantsSurviveAlways`, `RotationIsFinal`, `GrantedClientsAreNeverEvicted` | `[]GrantsSurvive`, `[]OneTokenPerSignIn`, `GrantedClientsStay` | one inductive invariant, `GrantInv`: with the two properties, a code that can be exchanged has no token yet, a held token was minted, and a client whose registration was answered is in the file while it is in memory |
| `GateKeepsThePromise` | `KeepsThePromise`: `GateStore` implements `Grants` | initial states map to initial states; with the invariant above, each action maps to a renewal, a forgetting, an expiry, a restoring, or a stutter |
| `DoorTypeCorrect` | types of sign-ins, tokens, the lockout and calls | |
| `GateDeniesByDefault` | `[]DenyByDefault` | a lemma that whatever is forwarded is ruled in, by cases on what is rewritten; for the answer, that the filter leaves the door's tools and the arrays of SSE events |
| `TokensOpenTheirDoor`, `MistakesAreFree` | `[]TokensKeepTheirDoor`, `MistakesKeepTheGrant` | `GrantInv`: the door of a sign-in is the one asked for, one that has no door has neither code nor token, and the grant of the last forwarded message has been minted at its door |
| `GuessesAreBounded` | `[]TriesAreBounded` | `TriesInv`: while no wait runs the tries are within the free ones and the waits gone by; while one runs, the tries together with the sign-ins that passed the look before it are within one round more. Cardinality lemmas for the set of open sign-ins |

Why an invariant is needed at all: none of the properties about runs, deletes,
moves, pages or tries survives a step on its own, since what a call will write was
decided several steps before; the invariants say what of it still holds.

Inductions over data (the size of a set, the length of a window, the days of a
series) go by least counterexample, since no installed prover takes a predicate as
a parameter: inclusion of finite sets and the order of the naturals are
well-founded, so a set of counterexamples that is not empty has a least one
(`WFMin`), and that is refuted.

**Model-checked only.** `OrphansCollected` is liveness under fairness, which is out
of this prover's reach, as is `ENABLED`. No module uses a RECURSIVE operator.

## 5. Where code and documentation differ

With a run that shows it:

- **Markers of cards and captures** (`planning_card_marker`). `update_card`,
  `update_link` and `update_handoff` never settle the marker; the table in
  `docs/api.md` says a card that is `Done` or `Cut`, and any archived node, has.

Seen while modelling, without a run of their own; the properties are stated so
that they hold beside these:

- *Attaching while starting.* `relate` looks for a started slice and
  `update_proposal` for an edge, neither sees the other's uncommitted write, and
  the program stays `queued` over an active slice. `races_slices` lets relates
  run only alone.
- *A lift without a start.* `promote_programs_over` asks whether the slice counts
  as started, not whether it just did. Re-ranking an edge over a `done` slice, or
  patching it `done` again, takes a `soaking` program to `active`.
- *A lift over a declaration.* A program parked while a lift that has found it
  waits for its row goes `active` all the same (the EvalPlanQual rule above).
- *The soaking gate.* Entered beside a slice that starts, it can admit a program
  to `soaking` over an active slice: `check_soaking_entry` locks nothing.
- *The log under races.* Two overlapping patches of one row each log the status
  they read first, so a row may name a change that did not happen.
- *`queued` by hand.* `update_program` checks no transition but the one into
  soaking, so `queued` can be set over slices that have begun.
- *`covers` across projects.* Checked when the edge is made, not when either end
  is filed elsewhere later.
- *Reopening while materializing.* The second gate reads the last item without
  locking it, so a copy can be filed beside one that is being reopened.
- *Anchors.* Any patch of a status to a finished one restarts the anchor, also
  of an item that is already finished, and so pulls back an anchor that was
  deferred by hand. An item finished while its schedule is paused restarts
  nothing.
- *Materialized columns.* Type and size of the new item come from the schedule row
  as it was before the transaction, the rest from the locked row.
- *Broken images with an owner.* The comments in `img.rs` and `attachments.rs`
  count on an image without bytes being edge-less; an upload that names its owner
  commits the edge with the row.
- *A sweep that takes an owned image.* The DELETE looks for edges on its first
  snapshot and then waits for the relate that adds one.
- *Discard during upload.* An image with an owner can be discarded while its bytes
  are being written; a file written after the removal stays. `early` excludes
  these images from `StrandedOnlyByMishap`.
- *Orphaned images.* The lifetime counts from the creation of the image, so one
  that loses its owner after a day is taken by the next sweep and not 24 hours
  later.
- *Deletes that count first.* `delete_link` takes along a comment or an edge that
  was committed after it had counted, and `delete_area` unfiles an item that was
  filed after it had; neither says so.
- *First declarations that overlap.* Two of them can leave a source on-demand and on
  a cadence, which each alone would be refused; every verdict then treats it as
  on-demand (`OnDemandIsNeverDue`).
- *Retired sources.* Their freshness is `retired`, and the days overdue are still
  counted.
- *Torn boards.* A proposal that moves between two statements of the board can be
  in a panel and in what is omitted, or in neither.
- *Tool lists that are not filtered.* The head of `proxy.rs` says a `tools/list`
  answer is filtered whether it is JSON or SSE. Three pass as they came: one whose
  status is not a success (`proxy.rs:232`), one to a `tools/list` without an id
  (`proxy.rs:205`), and an SSE event whose data is a JSON array, taken for
  something that is not the answer (`proxy.rs:532`).
- *Creations that span midnight.* `create_work_item` (`work_items.rs:126`) and
  `materialize_schedule`, which waits for a row after it has begun
  (`schedules.rs:797`), date the item by the start of their transaction. One that
  commits on the next day adds an item to the arrivals and the backlog of a day that
  is over and ended without it. `BacklogIsHistory` and the backlog half of
  `PastDaysStand` hold while there was none (`belated`). Patches that span midnight
  are left out likewise (`tangled`).
- *The balance of the series.* `flow.rs:110` says that `backlog_before` and the
  differences of arrivals and closures add up to the last backlog. They do not where
  an item was created closed (an arrival that no closure takes back) or reopened
  (a closure that counts although it was undone); `BalancesOnceClosed` leaves those out (`reborn`),
  and misdated rows with them.
- *Eviction between code and exchange.* `exchange_code` does not look at the client
  table, so a sign-in can be completed for a client that was evicted meanwhile.

## 6. Not modelled, and what is left

In `PROJECT.json` every part has a status and the reason. Outside any model:

- the operation registry and the database pool: constant tables and set-up code
  without state;
- the REST and MCP transports: serialization over the functions modelled here;
- the one-off import: run once, by hand, with nothing beside it;
- the web client, apart from its paging of the activity feed;
- text search, previews, routes, `list_reports` and `get_report`: joins and ranking
  of text, with no state of their own;
- machines: single-statement puts;
- pixels, encoders, file names and the form of paths;
- the gate's configuration, metadata documents, and GET and DELETE of a stream.

Left to do: the deletion of an owner composed with `Attachments`; the months and
quarters of a cadence, which `Schedules` counts as days; and for `PlanningRaces`,
how far the lift stays right beside relates, which takes a weaker
`QueuedStaysHonest` (section 5, *attaching while starting*).
