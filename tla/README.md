# Formal models of the AI-as-an-Infrastructure site

The repository is a book published as a web site: a Go server that embeds the
built pages and adds comments, bookmarks, notes and view counts over
PostgreSQL; a React reader that hydrates the pages and runs their Python cells
and interactive figures; and a build that compiles Markdown into both. This
directory holds TLA+ models of the parts that keep state or decide something,
the TLC configurations that check them, and TLAPS proofs of what matters most.
Paths below are relative to `src/`.

`tlc -config X.cfg M` runs a check, `tlapm M_proofs.tla` checks a proof.
`PROJECT.json` lists the runs, the mutations each property is known to detect,
the source lines of each definition, the hazards and the theorems.

## 1. Inventory

| Component | State | Operations | What is hard | Module |
|---|---|---|---|---|
| Comment API and store: `internal/api/api.go`, `internal/store/comments.go`, `migrations/0001*` | `comments`, `reactions`; per request: the statement it is at and what it has read | create, update, delete, react, list | one goroutine per request, several SQL statements per request, no transaction: check-then-act everywhere; statements that fail, or fail after committing | CommentsAPI |
| Account API and store: `internal/api/account.go`, `internal/store/account.go`, `migrations/0002*` | `bookmarks`, `notes`, `page_stats`, `page_visitors`; browsers' sessions and visitor cookies | record view, toggle bookmark, create, delete and list notes | the same, and a cookie that takes effect only when an answer arrives | Account |
| Routing: `main.go` (`serve`, `serveStatic`), `route.go` | none: the embedded files and a table of redirects | answer a URL, name a URL's template | seven kinds of redirects that feed one another, first match wins; two independent descriptions of one dispatch | Routing |
| Server lifecycle and its deployment: `main.go` (`run`), `internal/store/store.go`, `deploy/base/deployment.yaml` | processes, their pools and listeners, the endpoints the ingress routes to | start, migrate, serve, probe, drain, stop; release | two releases overlap, the ingress learns late, requests are in flight at the signal, the database goes away | Release |
| Agent documents: `agentweb.go` | documents generated at start-up | serve a document, negotiate Markdown | outside code does the negotiating | (paths only, in Routing) |
| Authentication: `internal/authn` | session and CSRF cookies | user of a request, CSRF check | outside code keeps the sessions | (its answers, in CommentsAPI and Account) |
| Comment section: `app/src/comments.tsx` | two lists, composers, popover, requests in flight | load, post, edit, delete, react, note, compose | answers overtake one another or are lost; no list is patched in place; an answer closes whatever composer is open | CommentsView, Composers |
| Anchors and marks: `app/src/anchor.ts`, `comments.tsx` | text nodes, marks | build an anchor from a selection, find it, draw it | repeated phrases; each mark takes part of a node away | Marks |
| Account widgets: `app/src/account.tsx` | shared `/api/me` promise, tab lists, bookmark button | open a tab, toggle | answers out of order | AccountWidgets |
| Reader shell and search: `app/src/Reader.tsx`, `search-*.ts` | viewport class, drawers, held page, search dialog, active heading | toggle, resize, search, scroll | state that outlives the width it was made for; events dropped while a frame is due | Shell |
| Runnable cells: `app/src/runtime/live.ts` | interpreter and font promises, interpreter globals, what each cell shows | Run, Reset | overlapping asynchronous runs in one shared interpreter; loads that fail | RunnableCells |
| Figure runtime: `app/src/figures/runtime/*` | mounted hosts, transport position, scheduled frame | mount, play, pause, step, seek, set | modules that arrive late, frames that outlive a pause, figures that fail half-way | FigureRuntime |
| Simulators of schedulers: `kv-block-lifecycle.ts`, `paged-kv-batching.ts`, `continuous-batching.ts`, `pipeline-schedule.ts`, `rl-rollout-schedule.ts`, `moe-dispatch.ts`, `review-backlog.ts` | pools, queues, devices, buffers | simulate | reference counts through eviction, preemption, failure and cancellation; orders that may wait for one another; capacities at their limit | KVBlocks, PagedBatching, ContinuousBatching, PipelineSchedule, RolloutSchedule, MoeDispatch, ReviewBacklog |
| Simulators of protocols: `effect-crash-recovery.ts`, `lease-fencing.ts`, `run-lifecycle.ts`, `resume-cursor.ts` | journal, lease, run, cursor | simulate, tell the outcome | a crash between two entries, a lease that lapses under a paused holder; the text told must be what happened | EffectCrash, LeaseFencing, RunLifecycle, ResumeCursor |
| Simulators of agents: `context-compaction.ts`, `agent-turn-loop.ts`, `tree-search.ts` | context, log, frontier | simulate | budgets; two implementations of one search | ContextCompaction, AgentTurnLoop, TreeSearch |
| Figures of formulas, data and scenes: the rest of `app/src/figures` | parameters | evaluate, draw | real arithmetic | not modelled |
| Book compiler and development server: `app/src/build.ts`, `pipeline/*`, `dev.ts` | numbers, labels, first uses, cited sources | compile a book, a page, an index; an author edits | what one page leaves for the next; a bibliography shared by requests; labels loaded once while pages are edited | Book |
| Landing page, images, telemetry, content | | | | not modelled |

How they interact: a browser asks the router; the router hands `/api/` (and,
with login configured, four OIDC routes) to the API, everything else to
redirects and files. Both API halves share one pool and one identity. The
comment section and the account widgets talk to the API only by HTTP, with one
`/api/me` request between them. Cells and figures never talk to the server
after their code is loaded. On a page the components share the document and no
state that two of them write, except the article: marks are drawn in it, and
only the effect that draws them reads it.

What makes each component correct:

* Comments: threads are one level deep; only authors edit and only authors or
  admins delete; a list shows every live comment; of racing deletes one wins;
  a reaction is a reader's own; what readers see is one conversation.
* Account: a page has no more visitors than views; an answer counts the page as
  it was when the view was sent, and that view and its visitor besides; notes
  are private; a bookmark moves only by its reader's toggle.
* Routing: redirects end, in one hop where the rules say so, and at something
  that is there; a file has one URL; the reported template agrees with the
  answer and is bounded by the build.
* Releases: readers are always routed to a server that listens, and an answer
  begun is finished; a release that can start comes to run alone.
* Book: every link lands; a page served while writing is the page a build
  would write, but for references to sections and figures relabelled since the
  server was started.
* Page: a write answered is in every list asked for since; a text is sent
  once, as what it was begun as; marks are those a fresh page would draw;
  the widgets show what was asked last; the search has one of its items
  selected; a cell shows its own figures; a figure
  has one loop of frames and a picture of where it is; nothing scrolls under
  an overlay; every run and playback ends.
* Simulators: memory is accounted for; nothing is overbooked or idle; devices
  never wait for each other; the told ends are the real ones; budgets hold;
  every simulation ends with everybody served.

## 2. Modules

Each module translates the code named in its header; `PROJECT.json` "map"
gives the lines of every definition. A mutation of a definition (`X_Name`, after
a comment `Mutant:`) stands before it and is used by no run.

### CommentsAPI, Discussion

`CommentsAPI` is the schema and the SQL statements as operators on `rows` and
`reactions` (soft deletion, the `where` clauses, conflict and foreign-key
outcomes, the tombstone logic of `ListByPage`), and the handlers that issue them: `Call` picks a route and does what the handler does before its
first statement; each further action is one statement (`CheckParent`,
`CheckRate`, `Insert`, `OwnedComment`, `WriteBody`, `MarkDeleted`, `ToggleOn`,
`ToggleOff`, `ReadRows`, `ReadReactions`), for any number of request slots, so
any two requests interleave between statements. A statement in `Faults` may
fail without effect (`StatementFails`) or report an error after it committed
(`Outcome`). A count that fails lets the create go on (`RateUnknown`), as in
the code. `Deliver` ends a request. Anchors, names, avatars, and the order of
replies are columns no statement's outcome depends on and are left out.
Transactions are left out because there are none; a single statement is atomic
under PostgreSQL's read-committed isolation.

`Discussion` is what a reader is promised: posting, replying, editing and
removing as single steps. `CommentsAPI` implements it under the mapping at its
end (`Discusses`): content is the live rows, roots the top-level rows whether
or not they are deleted, since a thread stays open after its first comment is
removed.

### Account

The same treatment of views, bookmarks and notes, with the browsers in the
model: a request carries the cookie its browser had when it was sent, and
`Deliver` installs a new one. A request may be refused before its first statement
(`NoUser`: no session, or a bad CSRF token; `Malformed`: a body or a language that
will not do); a reader without a session who asks for notes is answered an empty
list, as nobody's (`ReadNoNotes`). A view carries `before`, what the tables counted
of the page when it was sent: the code has no such thing, and nothing reads it but
`SelfCounted`. Lists of bookmarks and of one's own comments, and counts asked for
without a view, read once and change nothing; they are left out.

### The site: Routing, Book, Release, composed in Site

`Routing`: a URL is a sequence of segments, each a name with an optional old
chapter number and suffixes; a trailing slash is an empty last segment.
`Served` is `serve` and `serveStatic` in order; `RouteOf` is `routeOf`,
translated independently from `route.go`. The behaviour is a browser that asks
and follows redirects. Cache and compression headers, the probes (which are not
traced and never reach `routeOf`), and Markdown negotiation are left out.
`BuildAssumption` is what the router relies on the build for: pages are not
called as assets or `.gz` siblings are, no chapter is a directory, nothing is at
`/api`, `/v1` or where the server has documents and routes of its own. The Go
code does not check it; without it some of the properties fail (a page called
`x.gz` would be served and reported as unknown).

`Book`: a page is what its passes see, the section, figures and references it
has. The build writes the pages of each language in order with one context
(`WritePage`), then the development server answers pages and the index of
search, in either language, while an author edits. An edit rewrites any page of a
language, the lists at the end included: whether it is numbered, its section, its
figures and its references (`Edit`). Manifests, cross-reference tables and the
bibliography are loaded once, when the server starts, as in `dev.ts:27-31`, so after an
edit its labels are those of an earlier text. `Built` is what a build of what is on
disk would write now, with labels of its own, and `Relabelled` the sections and figures
whose labels the two disagree on. Edits of `book.yml`, the glossary and the
bibliography, of which the server sees nothing, removed files, on which it fails,
captions, and the title and number at the head of a page are left out. `Manifest` is what the
compiler relies on a `book.yml` for (`compile.ts:150`, "book order ends with the
back matter"): the lists of terms and of sources are there, and no page after one of
them uses a term or cites a source. Nothing else is asked of a book: pages may be
missing, unnumbered, or have a section or a figure of another.

`Release`: pods named after the release they run, each a process of `run`:
`Boot` (pool, migrations, listener), `Probe` (`/readyz` and its ping), the stop
(`preStop`'s sleep, then `Sigterm`, the drain of `RunServer`, `Exit` with its
deferred `pool.Close`). `Surge` and `StopOld` are what a rolling update with
`maxSurge: 1` and `maxUnavailable: 0` may do; the ingress follows the endpoints
late (`Sync`); readers' requests, outages and crashes are the environment.

`Site` composes the three; `MCSite` is a site to check.

### The page: composed in Page

`CommentsView`: list requests are numbered as they are sent; the server serves
a request (`Serve`) and the page takes the answer (`Show`) in any order; a write
is sent, carried out or refused, answered or lost. A list is abstracted to the
set of this reader's writes it shows. Which handlers look at a status, and which
parse an answer, is modelled by kind of write (`Refused`).

`Composers`: the places where the reader types, the texts in them, the
selection's popover, and what an answer to one write does to the composers that
are open by then.

`Marks`: an article is a sequence of letters with places where its text nodes
end; a selection's text and context are stored, found again (`FindAnchor`), and
drawn as marks that divide the nodes (`MarkRange`), after every list that
comes (`Redraw`). The book may be published again with another text.

`AccountWidgets`: the menu's tabs against the lists that come for them, the
bookmark button against its toggles.

`RunnableCells`: the page's interpreter and font as promises in their states, a
run as the stretches between its awaits, Reset at any time, and the interpreter
globals that survive a run (`open` figures, `style`, `added`). A program is
reduced to what it asks for and how it ends.

`FigureRuntime`: `mountFigures` and `mount` with everything that may fail, and
the transport, whose clock is counted in parts of a unit so that a discrete
timeline has positions between two pictures.

`Shell`: the three classes of viewport, drawers and columns, `Hold` (the effect
of `overlayOpen`, run with every event), the search dialog, and `OnScroll` and
`Update`, the flag and the frame by which the active heading follows. `early` says,
for `SelectionWithin` only, that the last thing to move the search's selection was an
ArrowDown while nothing was listed.

`Page` composes them, with the assumptions their proofs need about the
constants: bounds are numbers, programs are what a cell makes of them, each
setting of a figure has a length and there is a longest, the search field may be
empty, the text of an article is a sequence and a selection is of at least one
letter of it. `MCPage` is a page to check.

### The simulators: composed in Simulators

Each module is the function `simulate` (or what stands for it) of one figure, one
action per step of its loop; what the figure is called with is the variable
`par`, and `Param` says what it may be in the source. `Lists` is what the
simulators share of `filter` and `reduce`. `Serving` is the abstract scheduler: first come, first served, a bounded
batch, only the last taken put back. `KVBlocks` and `PagedBatching` implement it
(`Schedules`). Several figures compute a thing twice, once by simulation and
once by a formula or in words (`EffectCrash`, `LeaseFencing`, `RunLifecycle`,
`ResumeCursor`, `ContextCompaction`, `TreeSearch`); those modules play the steps
and compare.

`CapacityFigures` puts `KVBlocks`, `PagedBatching`, `ContinuousBatching`,
`MoeDispatch` and `ReviewBacklog` side by side over one set of variables, and
`Simulators` adds the rest; a behaviour is of one figure. What the
figures are run on are constants of these modules, with assumptions as wide as the
source allows, so that what is proved holds for every workload; `MCSimulators`
gives the workloads to check.

## 3. Checks

A behaviour of a composed run is a behaviour of one component, chosen by the
first state (`part`, `figure`, `about`); the properties say which component they
are about. Components are composed this way because they share no state that two
of them write; the composition the code does have, of statements and requests,
of browsers and server, of pods, ingress and readers, is inside the modules.

All bounds are constants, named in the modules (`HasRoom`, `MaxTime`, `MaxRuns`,
`MaxViews`, `MaxIds`, `MaxIter`, `MaxEdits`, `MaxReleases`, `Horizon`, ...).

| Run | Instance | Shows |
|---|---|---|
| Comments (MCCommentsAPI) | 2 requests; either 3 comments, 2 pages, one author, rate limit 1, 3 instants, a parent look-up that may fail; or 1 comment, 3 readers (one an admin, the others interchangeable), every other statement failing | `OneLevelReplies`, `ListComplete`, `RateBound`, `DeleteWinsOnce`, `AuthorizedChanges`, `ReactionsByReader`, and `Discusses`: the split into statements implements the one-step conversation |
| Account (MCAccount) | either 1 browser with its views in flight, or 2 browsers, 2 readers, 2 notes, 2 requests; failing statements, lost answers | `VisitorsWithinViews`, `SelfCounted`, `NotesPrivate`, `BookmarksByReader` |
| Site (MCSite) | some 2000 URLs, 3 server set-ups; all pairs of 3 texts of 2 chapters in 2 languages, 1 edit of any page to one of 3 texts; 3 releases, 1 outage or crash, requests of up to 5 ticks | `OneSpelling`, `SlashesLand`, `UnknownIffNotFound`, `OneHop`, `LinksLand`, `DevAsBuilt`, `ReleaseServes`, `AllEnd` |
| Page (MCPage) | 3 writes of different kinds; 2 texts and 2 posts over 2 passages and 2 comments; 2 articles of 4 and 5 letters; 3 toggles; 2 cells and 2 runs of 7 programs; a figure with 2 timelines; 2 sections, 3 queries | `ReadsYourWrites`, `OwnWriteShown`, `SentAsBegun`, `MarksOfLists`, `FoundAgain`, `WidgetsTrue`, `StyledWithFont`, `CellShowsItsRun`, `NoStaleProgress`, `OneLoop`, `PictureTold`, `OverlaysHold`, `ShellFollows`, `RunsEnd` |
| Simulators (MCSimulators) | fourteen figures over every setting of their controls or every short workload | `MemoryHolds`, `CapacityUsed`, `DevicesScheduled`, `ProtocolsTold`, `BudgetsKept`, `Schedules`, `AllDrain` |

Why the bounds are enough. Every race in the API is between a check and one
later statement of another request: two slots show it, three rows make a
reply to a reply expressible, one row is all that edits and deletions of it
need. An instant is one rate window: with window 0 a comment counts exactly at
the instant it was created, which keeps both sides of the `>=` in
`CountRecentByAuthor` in reach; the limit is 1, so its being exceeded takes two
comments, and the bound is met at 2. Cells share nothing but the
interpreter and its two promises, so two cells and two runs give every
overlap. Two texts and two posts let an answer meet a composer begun after it.
Articles of five letters have a passage that stands twice, a node boundary
inside a passage, and room for two marks in one node. A release overlaps at most
the one before and the one after it, so three are enough, with pods that can and
cannot start among them; a tick is 2.5 seconds, so `preStop`, drain and grace are
2, 4 and 12, a request may outlast the drain, and the ingress lags up to its
tick. `KVBlocks` runs the workload the figure has, at every capacity its slider
offers, as do `LeaseFencing`, `RunLifecycle`, `ResumeCursor`, `EffectCrash`,
`AgentTurnLoop` and `ContextCompaction` with the controls theirs have (a few
values of the wide sliders): those are not samples. The seeded draws of the
other figures are replaced by every short trace. Three texts that an edit may give a
page add, rename and take away a section and figures, take over another page's, make a
page count or not, and refer to what is gone; the theorem is for any edits.

Deadlock is checked in Comments, Account and Simulators. It is not in Page and
Site, where a behaviour really ends: a page whose writes are done, a browser
that has its answer.

### Fairness

Safety only for the API and account modules: nothing in the server promises
that a client calls. Page: every request settles (fetch resolves or rejects),
so weak fairness of each write's and each list request's progress; the event
loop reaches every continuation of a run; a frame and a timer that are due fire,
as in a tab on show. The reader's clicks are not assumed. Site: the server
answers and the browser follows, so weak fairness of the router's step; the
deployment controller, the kubelet, the ingress, a process and time go on, so
weak fairness of each of their steps, and `ReleaseEnds` assumes in its premise
that the database stays up eventually. Simulators: `simulate` is a loop in a
function, so its step is taken until it is over (`Loops`, which is weak fairness
of the step with the condition that enables it spelled out).

### Disagreements between the code and what it says

Seven runs check what the repository states and find it violated; each names
its source in `PROJECT.json` "findings".

* `ToggleAsDocumented`: the toggle's delete is a second statement; of two
  concurrent toggles both may be answered "removed" and one changed nothing.
* `CountedOnceAsDocumented`: views an anonymous browser sends before its first
  answer draw an id each, so one browser is several visitors.
* `MarkSurvivesAsDocumented`: the text nodes are collected once for all marks
  and `surroundContents` shortens them, so of two comments further on in one
  node one has no mark, and is not listed as moved either.
* `RendersShown`: play at the end of a timeline puts the clock back without
  drawing, so a discrete timeline shows its last picture until the first step.
* `HeldMeanwhileAsDocumented`: a drawer's state outlives the width at which it
  is rendered; a window widened with a drawer open shows none and cannot be
  scrolled until a button or key that happens to change the state.
* `SelectionAsDocumented`: an ArrowDown in the search dialog before the index has
  come selects -1, and nothing puts it back when the items arrive: none is
  highlighted and Enter opens none. `SelectionWithin` says that this is the only way
  out of the items, and until when.
* `SearchAsDocumented`: the development server's index of search "mirrors" the
  build's only as far as labels loaded when it started and the citations of earlier
  answers let it (`dev.ts:72-74`): a page is given two figures that a later page had,
  and the index refers to them by the later page's numbers. `DevAsBuilt` says how far
  pages and index agree with a build.

Seen while modelling, without a run of their own:

* The count and the insert of a comment are two statements, so concurrent posts
  exceed "rateMax comments per window" (`api.go:105-106`). `RateBound` bounds it
  exactly, as long as the count is answered: one comment past the limit for each
  further concurrent request.
* `/en/index` is served with status 200 from the file that `/en/` serves
  (`main.go:295` tries `name+".html"`), against "One page must not be reachable
  under two spellings" (`main.go:280`). `OneSpelling` states what holds for every
  file but a directory's index.
* `/en/search.json.gz/` is redirected to `/en/search.json.gz`, which is not
  found, because the directory form asks `exists` and the file form
  `writeFile`; `SlashesLand` names the exception.
* The comment of the catch in `client.ts` says that a figure that fails leaves
  its static picture; one whose own `render` throws has lost it by then
  (`StaticKept` of FigureRuntime).
* In `rl-rollout-schedule.ts` a trajectory can lag by more than the bound of one
  update when one that started later overtakes it; `LagBound` states what holds.
* A hit of the search that is in the page that is open leaves the dialog open over
  it.
* Each change of the reader's settings writes the whole record as this tab has
  it, so a choice made in another tab meanwhile is undone.
* `/readyz` pings the database, so an outage of the database takes the whole
  book out of the ingress, pages that need no database included.
* `deploy/publish.sh` waits for workflows called `render` and `docker`; the
  workflows of `.github/workflows` are called otherwise, so the script can only
  time out. `release.yml:9` keeps it as a manual way.

## 4. Proofs

A run shows a property on an instance; the theorems below show it for every value
of the constants, of the specification the run checks: any number of readers,
comments, request slots, cells, programs, releases, any book and any URL. Eight
modules hold them. Each states a strengthened invariant (`IInv`, `PageInv`,
`SiteInv`, `MemoryInv`, `CapacityInv`), that it holds initially, that each action keeps it (one lemma for each
action or group of actions), and that it implies the property.

`CommentsAPI_proofs`:

* `TypeCorrect`, `RepliesStayOneLevel`. `OneLevelReplies` is not inductive: the
  insert relies on a look-up made one or two statements before. `IInv` adds
  that a request at a statement holds a request of the route the statement is
  of (`Routed`), that a create past its look-up still has a valid parent
  (`ParentChecked`), and that no row comes from the future (`PastRows`).
  `ParentChecked` survives the other requests' statements because they keep
  every row's page and parent (`RowsKept`: one lemma per statement).
* `OnlyOwnersWrite`. The write was authorised by a row read earlier;
  `OwnerChecked` says the authorisation still stands, because authors never
  change, and `WriteFollowsCheck` that no request comes to a write but by the
  check.
* `ListsAreComplete`. `SeenClosed`: the rows a list has read contain the parent
  of every reply among them, since `OneLevelReplies` held when they were read.
* `DeletesWinOnce`. `DeletedRows`: the row of a confirmed delete is marked
  deleted, and no statement takes the mark back, so a second delete misses it.
* `ReactionsOfTheirReaders`, an action property from the same invariant.
* `RateBounded`. Comments in a reader's window and creates of theirs past the
  count stay together within the limit less one and the number of request slots.
  Only an insert makes a row (`NoNewRows`), and it uses up a create that was
  counted (`InsertFollowsCount`). The hypothesis `"count" \notin Faults` is the
  code's own: `api.go:241` ignores an error of the count and lets the create go on.
* `ServiceDiscusses`: the service implements `Discussion`. Every look-up maps to a
  stutter and every write to one step, whose guard holds by `IInv`.

`Account_proofs`:

* `VisitorsStayWithinViews`. A view is counted by one statement and its visitor
  added by the next, so what is inductive is that visitors and requests between
  the two fit together within the views (`Reserved`); a statement that fails in
  between only leaves a view without its visitor.
* `ReadersCountThemselves`. Counts only grow (`Grows`), so what the tables counted when
  a view was sent they count still (`Grown`), after its first statement with one view
  more (`Counted`) and after its second with its visitor; the third reads no less than
  that, and what it read stays within the tables (`CountsStay`).
* `NotesStayPrivate`, `BookmarksOfTheirReaders`: `RequestOK` says what a request at
  each statement has done and read.

`Page_proofs`, the invariant of the open page. `PageInv` is one conjunct for each
component, for the behaviours that are of it. `OwnSteps` says that a step of the
page is a step of its component.

* Lists: a list on show came from a request in flight, so the invariant is carried
  by the requests: what a request was served holds every write settled before it
  was sent (`ServedSettled`), numbers only grow (`Numbered`), and an answered
  write was carried out before it was answered (`Progressed`).
* Composers: a text is in one place (`OncePlaced`,
  `OncePosted`, `OneOrOther`) and on the page (`TextsShown`), so what its composer
  is about cannot change under it.
* Account widgets: the latest request for a list is for the tab on show
  (`LatestOfTab`); a toggle that is alone under way is the only one, and what it
  was served stays true (`AloneTrue`), which makes the button right (`SureTrue`).
* Cells: the promise of the font is kept only after the
  font is added (`FontsAdded`); a run that found its cell quiet started after all
  earlier ones in it had ended (`AloneSince`).
* Figures: before the mount nothing plays
  (`QuietBefore`), and a host is imported for only while it is not ready
  (`NotTwice`); the picture and what was announced follow the position through
  every handler of the transport (`PictureFollows`, `AnnouncedAtRest`).
* Shell: both drawers are never open, shown or not, and the page is held for
  either (`Held`); `onScroll`'s flag is up exactly while a frame is due (`Framed`);
  nothing is listed when an ArrowDown makes the selection -1, and `early` marks it
  until what next moves it (`SelectionWithin`).
* Marks. `MarksAreOfLists`: in `MarksInv` the marks on show and the comments listed
  as moved are functions of the article and the lists (`MarksAre`, `MovedAre`),
  whatever was drawn before, and every anchor, on the server or the page, is of a
  passage of some version of the article (`GoodMark`). Each mark is drawn in nodes
  that those before it have shortened: `LeftAll` says, by induction over the marks,
  that what is left of a node is what comes before the letters marked in it, so
  that a mark is its passage less what follows an earlier mark in the same node
  (`DrawIs`). That nodes have no letter in common is a lemma about the articles
  (`NodesApart`). `PassagesFoundAgain`: an anchor was made outside the marks that
  were on show; where none of them is before the end of the context, the text
  outside them agrees with the article that far (`AnchorFits`), so the stored
  context scores best where the passage was selected (`BestIs`).

`Site_proofs`, the invariant of the site. The router's properties are about the
function `Served`, for a URL whatever it is, so the invariant is only that the
answer is `Served` of the URL asked for and that this is a sequence of segments
(`RouterInv`), which needs that redirects lead to such sequences
(`RedirectsToPaths`). The rest is lemmas about the operators:

* `FilesHaveOneUrl`, from `ServedClean`, the clean URL being undone by `CutExt`.
* `ReportedAsServed`: `routeOf` asks in another order and of other files than
  `serve`; `ResolvesWhatIsServed` shows that they agree, `Templates` that no other
  template is taken for that of what there is not.
* `SlashesAreServed`: nothing that comes before the files in `serve` is in the way
  of the URL with its slash added (`SlashAdded`) or taken away (`SlashTaken`), and
  a redirect of the table is no such redirect (`MovesAway`: no rule leads to what
  it matches but with another name of the chapter).
* `OldLinksTakeOneHop`: the first rule to match is an exception (`FirstRule`), and
  none matches where it leads (`RuleDirs`); no file adds a slash to it.
* `LinksOfTheBuildLand` and `AnsweredAsBuilt`, by `BookInv`. The compiler's loops over
  the references of a page and the pages of a book are recursive functions, and what
  they have done after `n` steps is shown by induction (`NatInd`): a page shows each
  reference as a link of its kind (`InlinesAre`), and the context after `n` pages has
  the terms and sources of those pages, each term with a page that uses it
  (`PassKnows`). The lists come last, so they have an entry for all of it
  (`BuildWrites`), and each link lands (`BuildLands`); that labels differ is counting
  (`NumApart`, `FigNApart`). `BookInv` says that the pages written are those of one
  pass over the book as it was loaded, and the context the one that pass is in
  (`Writes`). That an answer is the build's page needs that a page does not depend on
  its context, but for the two lists (`CompiledAlike`), and that two passes which start
  with different citations write the same but for the list of sources
  (`PassesAlike`), which `compilePage` clears them for. The labels an answer is made
  with are those of the book as it was loaded (`AsLoaded`), the build's those of what
  is on disk; a page compiled with other labels differs in the references to what they
  disagree on and leaves the same for the pages after it (`InlinesOnChange`,
  `CompiledOnChange`, `PassesOnChange`, `LoadedAsBuilt`).
* `ReadersAreServed`, by `ReleaseInv`: endpoints are of pods that serve, the
  ingress drops a pod before its sleep is over (`Dropped`), and a request under way
  with a stopping pod has no more left than its length and the lag allow
  (`InService`), so that what is cut took longer than the drain (`CutLate`).

`Lists_proofs`: what filtering, flattening, reversing, adding up, cutting and
requeuing do to a list of any length, for the proofs that need it. The library's
induction theorems take an operator and cannot be used with these provers, but
induction over a set can: `NatInd` and `SeqInd` follow from the theorem that the
naturals are well-founded.

`CapacityFigures_proofs`, `KVBlocks_proofs` and `Simulators_proofs`, the figures that
schedule under a limit, for every workload:

* `MemoryIsKept`. `MemoryHolds` speaks of the states it is checked in, one figure at a
  time; inductive is what holds at every step of the loop between them. For
  `PagedBatching`, `PagedInv`: where each request is, by its status, and that the
  queues are in order of arrival (`PagedQueues`); that only the batch has tables
  (`PagedTables`); how many blocks a table has, by what was stored and by the place
  of the growth loop (`PagedHeld`); that a block is in the table of its owner, or
  free (`PagedPool`). For `KVBlocks`, `KVInv`:
  besides its queues (`KVQueues`), who holds and who has reserved
  (`KVIdle`), what a running and an admitted request has stored and will take
  (`KVServed`, `KVAdmitted`), that a plan which was made can be served
  (`KVFeasible`), and of the cached prompt that it is full, that a table has its
  blocks only at their own places, and that no other block is in two tables
  (`KVPrefix`). Each of them is needed by another: a roll-back may take back what
  was planned only because nothing of it was committed, and a preemption frees
  the blocks whose holders it takes away only because holders and tables agree
  (`Refcounts`).
* `CapacityIsUsed`. `SlotsInv`: requests of each policy are admitted in a row, so a
  queue is the requests between two numbers (`SlotsTyped`), all of a static cohort
  before the one at hand are over, and iteration-level batching has taken no request
  later (`CohortAt`). `ExpertsInv`: the claims made are those of the assignments so
  far, and a buffer's count is the number of claims that are in it. `BacklogInv`: a
  queue is a run of whole cohorts but for its head, and what is decided, passed and
  waiting adds up to what arrived; letting claims pass leaves fewer to decide, never
  more decisions.
* `SchedulersServe`: both schedulers implement `Serving`. Arrivals, admissions,
  preemptions, roll-backs, cancellations and releases are each one step of it or
  none, by the order of the queues in `KVInv` and `PagedInv`; everything else is a
  stutter.

The assumptions of the proofs are the named `ASSUME`s of the modules, which TLC
evaluates on each run: `ApiAssumption`, `AccountAssumption`, `KindAssumption`,
those of `Page` and `Site` above (`BooksAssumption` is the `Manifest` of section 2, and that an edit leaves a page a page), those of the simulators (`ParamsAssumption`,
`MemoryAssumption`, `BatchingAssumption`, `DispatchAssumption`, `BacklogAssumption`:
a workload is one that the source can produce, of any length), and
`ReleasesAssumption`: `Lag < Pause` and
`Lag + Drain <= Grace`, the times of `deployment.yaml` and `main.go` with an
ingress that learns of a pod before `preStop`'s sleep is over.

Only model-checked:

* `DevicesScheduled`: the bubble and the peak of a schedule are totals over the passes
  of all devices, and that no device waits for another for ever is an argument about
  all the orders at once.
* `ProtocolsTold`, `BudgetsKept`: the figures behind them play scripts of the source,
  some over a few values of their controls, and the run goes through all of these but
  for a coarser grid of the widest sliders and the draws of the tree.
* `OwnWriteShown`, `RunsEnd`, `AllEnd`, `AllDrain`: liveness under fairness is out
  of the prover's reach.

## 5. Not modelled

The reasons are in `PROJECT.json` "components". In short: authentication,
telemetry, the migrations' lock and Markdown negotiation live in modules outside
the repository; content is data; `publish.sh` is a straight line of external
commands. Most of the implementation's lines are figures (some 61 thousand of 72
thousand), and most of those draw: they place labels, wrap text and evaluate
formulas over real numbers, with no state but their parameters. The figures that
simulate something are modelled, except three whose every step follows from a
real-valued estimate (`progressive-rollout.ts`, `load-latency-knee.ts`,
`speculative-sampling.ts`) and five that draw a handful of written scenes. So the
modelled share of the lines is small, although nearly all lines that keep state are
in it.

## 6. Plan

What is left of the models is small: the passes of the compiler over one page
(as functions over short token sequences), the figure `progressive-rollout.ts`
with its intervals as any that narrow, and the settings kept by several tabs.

Proofs left: the totals of `PipelineSchedule` (`DevicesScheduled`), which take sums
over the passes of all devices, and `RolloutSchedule`, whose queue is of the kind
`BacklogInv` deals with.
