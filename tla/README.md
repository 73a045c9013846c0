# CCOESL, specified

TLA+ modules, TLC runs and TLAPS proofs for CCOESL, a desktop in a browser
page. Its apps are WebAssembly guests that a shell draws; its server keeps the
files, the desktops and the jobs. Paths below are relative to `src/`.

## The system

A page runs one thread. Each frame, `Desktop::ui` (`crates/ccosel-shell`)
takes what the network brought since the last one, runs every window's app for
one frame, collects the calls they made, and posts them in one `/rpc` request.
Whatever the server does happens between frames, concurrently with it, and is
answered in any order or not at all. Nothing draws unless something asks for a
frame.

| Component | State | Operations | Meets the others through |
|---|---|---|---|
| Transport (`ccosel-transport`) | calls, groups of callers of one request, argument index both ways, staged requests, sequence number | `enqueue`, `flush`, `cancel`, `forget_instance`, `tick`, `on_replies`, `fail_all_in_flight` | event sinks of windows, the wire |
| SDK request cache (`ccosel-sdk`, `RpcCtx`) | entries per query, index by call, commands, outbox, cancellations, call counter | `get`, `invalidate`, `send`, `outcome`, `deliver`, `begin_frame`, `flush` | the transport, through the host's frame loop |
| Frame loop and wire (`ccosel-shell`: `desktop.rs`, `app_window.rs`, `http_wire.rs`; server `rpc.rs`) | windows and their sinks, requests under way | one frame; a POST sent, answered, lost; a batch run | everything |
| Files app (`apps/file-browser`) | folder shown, deletion watched | list, refresh, retry, enter, leave, delete, close | its request cache |
| Desktop session (`session.rs`, `desktop.rs`) | `Autosave`, launches under way, `restoring` | load, restore, launch, autosave, reload | the shell's own calls, the server's desktop store |
| Desktop store (server `desktop.rs`) | one file per user | load, save | RPC |
| Web copies (server `web_copy.rs`) | the cache folder, the map of jobs, each job's result | `status`, `wait`, the worker, eviction | worker threads, the files underneath |
| Build jobs, scratch folders (server `build_api.rs`, `scratch.rs`), the compiler app | jobs by folder and generation; folders with their last use | start, poll, sweep, touch | RPC, worker threads |
| App passwords (`app_passwords.rs`), the Account app | records in memory and on disk; what a window lists and shows | create, revoke, verify; make, copy, forget | WebDAV, RPC |
| Sign-in throttle (`app_passwords.rs`, `dav.rs`) | failures per login and per address, by time window | look, check the password, count | every WebDAV request |
| Sign-in (`auth.rs`, `idp.rs`) | logins under way, sessions, the browser's cookies | login, callback, sign-out, expiry, sweep | the identity provider, every request |
| Provisioning (`keycloak.rs`) | the password file, one container and volume, its realm and client | `provision`, call by call | docker, Keycloak, servers of other checkouts |
| Access rules, the jail (`access.rs`, `fs_api.rs`) | the file tree and the `.access` files in it | read, list, search; write, make, remove, rename | RPC, uploads, WebDAV |
| WebDAV (`dav.rs`) | none of its own | PUT, MKCOL, DELETE, MOVE, COPY | the file tree |
| Uploads (`upload.rs`, `upload_api.rs`), ignore rules (`ccosel-gitignore`) | the uploads in the status bar, drops not yet routed | pick, drop, filter, send file by file, drain | windows, `/upload` |
| Docs app | views, two caches, one editor, what is pending | open, edit, save, create, leave | its request cache, a text field |
| Viewer app | the file shown, its view, its requests and timer | search, open, ask again, show | its request cache, web copies |
| Frames (`ccosel-sdk` ui and recorder, `ccosel-host` replay, `app_window.rs`) | a frame's commands, ids and scopes; responses; clicks | record, validate, replay, act on clicks | apps and the page |
| Text fields (SDK, host) | a text, a version and the edits waiting, on both sides | type, set, sync | frames |
| Window placement, players (`chrome.rs`, `media.rs`, `desktop.rs`) | each window's rects, whether it is maximised or minimised; a player per slot | maximise, minimise, restore, size, close; lay out and remove players | the desktop session |
| Server and Clock apps | what they show | poll | RPC |
| Connection estimate, image information, statistics, codecs | mostly none | pure functions | |

### What is hard

* *Late, lost and reordered answers.* A call can be cancelled, time out, have
  its window closed, or be made again under the same id, while its request is
  on the way; identical queries share one request; a POST may fail before or
  after the server did its work.
* *Two caches over one answer.* The app's request cache and the shell's table
  each have their own idea of which calls are under way, and must agree at the
  end of each frame.
* *Writes that cross.* Saves of a desktop, deletions and listings travel in
  POSTs that nothing orders.
* *Frames that do not come.* Work done at the end of a frame waits for the
  next one, which nothing may have asked for.
* *Counting what is on its way.* Restored windows open in any order, fail, and
  mix with windows the user opens.
* *Threads over one folder.* Requests and workers of web copies, builds and
  scratch folders look, decide and act in separate steps, with evictions,
  sweeps and restarts in between.
* *Looking before acting.* A request checks permissions, existence or a block, and
  acts in a later step; a folder is changed entry by entry.
* *Stopping halfway.* A server stops between any two calls to docker, or between
  a change in memory and its save; the next start must make do with what is left.
* *Waiting for someone else.* A callback and a sign-out ask the provider while
  pages go on, reload, and sign in again.
* *Frames that do not count.* An app fails in a frame, or sends one the host
  refuses, right after the click it was to hear of.
* *Text kept twice.* The app and the shell each hold a text field's text, and
  exchange only differences and versions: edits that arrive after the app has
  replaced the text, frames drawn twice, a field drawn in another place.

The properties that make each component correct:

* Transport: each call has exactly one fate; a call hears only the answer to its
  own request; a closed window hears nothing; the maps agree after every
  method; no call waits for ever.
* Request cache and frame loop: no call is lost or orphaned between app, table and
  network; what is cached for a query answers that query; a write reported as
  done was done once; a listing asked for after a deletion shows it.
* Desktop session: nothing is saved before the load or while windows are opening;
  the remembered desktop gains and loses only what the user opened and closed;
  a changed desktop is saved; restoring ends.
* Web copies: one worker per copy; no answer or cached copy older than its file;
  a cache within its limit.
* Builds: a build shown for a press is of the project as it was then, or later; a
  folder is not deleted under a build, and is in the end; polling stops.
* Docs: a file is never given another document's text; nothing typed is lost but
  by the user's choice; a write that ends, well or not, lets another begin.
* File operations: what a caller may not read is as if it were not there; nothing
  changes that a caller may not write; a folder operation that starts is
  done whole, unless its source and destination cross; what is asked to be new
  costs no file.
* Sign-in: a login gives one session; signed out is signed out, and shows.
* Provisioning: whatever is left by earlier starts, a start nobody disturbs
  succeeds, and nobody is locked out of the shared server, unless an earlier build
  gave it a password that the first checkout to start does not have.
* App passwords: what was answered holds over failed saves and restarts. Throttle:
  nobody is refused but for failures of the window at hand.
* Uploads: what the user is told is true, told once, and told in the end; a
  project is sent as git would take it.
* Viewer: a table is shown as it was saved; every file is shown in the end, or why
  not.
* Frames: what the SDK records the host accepts, and draws as it was recorded;
  each click is acted on and heard of once.
* Window placement: a window comes back to where it was; a player goes only with
  its slot.
* Text fields: the app's text is the one shown, once nothing is on its way; what
  the user typed is undone by nothing but a set.

## Modules

| Module | Models | How it corresponds |
|---|---|---|
| `PendingTable` | struct `Transport` | the table as a record and each method's effect on it as an operator from a table to a table; `(method, args)` is a request; a deadline is the time left until it |
| `Transport` | the transport used through its methods in any order | one action per public method; adds sinks (`alive`), the wire, time, and the history of events per call |
| `CallLedger` | what is promised of a call | abstract: unmade, pending, answered once or dropped; every pending call settles |
| `PendingTableProofs` | | what each method keeps of any table: the lemmas of the three systems that run one |
| `PageProofs` | | the proofs about `Transport` and `Frames` |
| `RpcCtx` | struct `RpcCtx` | the cache as a record, its methods as operators; the frame in which an entry was last used is the number of frames since |
| `RpcSystem` | frame loop, Files windows, wire, `/rpc` handler | composes `PendingTable` (one table) and `RpcCtx` (one cache per window); a frame is `StartFrame` and one `Draw` per window, the last of which flushes |
| `RpcProofs` | | the proofs about `RpcSystem` and the cache's methods in it |
| `DesktopSession` | load, restore, autosave, minimised windows, desktop store | composes `PendingTable` with the session; a layout is a set of `[app, min]`; a frame is the steps of `Desktop::ui` in turn (`p1`, `f2`, `p3`, `f4`, `p5`, `f6` of `Frame`) |
| `SessionProofs` | | the proofs about `DesktopSession` and `Windows` |
| `WebCopies` | `WebCopies`, its jobs and workers | one action per step between which another thread can run: the look in the cache, the lock on the jobs, the worker's decide, convert, keep, list, remove, finish |
| `Builds` | the Compiler app, build jobs, scratch folders | a frame of a window (`Poll`, after `Press` or `Open`), the RPC that starts or looks at a job (`Compile`), a job's thread step by step, touches and sweeps of folders, restarts |
| `TextField` | `Text` (SDK), `TextState` (host) | the two records and what each method does to them, as operators; a text is a value, a difference the pair of texts it was taken between |
| `TextSync` | `text_field()`, `Recorder`, `Replayer::text_edit`, `AppWindow::ui` | an app with one `Text` and the shell; drawing it is `StartDraw`, a `Take` per edit waiting, and `Draw`, in which the user types; a failed frame is `Redraw` |
| `Docs` | the Docs app (`App::update`), `read_file`, `write_file` | a frame is `Frame`: `Poll`, `Asked`, `Taken`, `Apply` are `poll_pending`, the reads and loads of drawing, the editor's edits, and `apply` |
| `Jail` | `Perms`, rules inherited along a path, and the checks of `fs_api.rs` | pure operators over a disk (a tree and the rules of its folders); `Shown` is all that listing, reading and searching tell a caller of a path |
| `FileServer` | requests of RPC, WebDAV and uploads over one disk | over `Jail`; each request is its checks (`WriteCheck`, `Preflight` and the like) and its act in two steps, and DELETE, MOVE and COPY of a folder a step per entry after `Preflight` |
| `FileServerProofs` | | the proofs about `FileServer` and the operators of `Jail` |
| `SignIn` | `Auth`'s two maps, the handlers, the pages of a browser and the Account app's sign-out | one action per handler or page event; `callback()` and `sign_out()` are a step before the provider is asked and one after (`Exchange`, `Ended`) |
| `SignInProofs` | | the proofs about `SignIn` |
| `Keycloak` | `provision()` | a program counter per server, a step per call to file system, docker or Keycloak; `Stop` anywhere |
| `AppServerProofs` | | the proofs about `Keycloak`, `Builds`, `WebCopies`, `TextSync` and `Docs` |
| `AppPasswords` | the store, its RPC methods, Account windows | a save is part of the change it belongs to, and may fail; a window's call is sent, done and answered apart |
| `Throttle` | `sign_in()` of WebDAV and `Throttle` | the steps of a request between two locks: note the time, look, check the password, count |
| `Uploads` | pickers, drops, the task of each upload, draining | one action per `await` of a task; `RouteDrops` and `DrainUploads` are the frame's |
| `PartsProofs` | | the proofs about `AppPasswords`, `Throttle`, `Uploads`, `Viewer` and `ProjectFiles` |
| `ProjectFiles` | `project_files()` and `ccosel-gitignore` | `Parse`, `IsIgnored`, `Sends` as operators; a picked folder is a set of `.gitignore` files with their lines |
| `Viewer` | `App::update` of the Viewer | `Update` draws one frame, with its requests; `Timer` is the wake-up it asked for; the table parser is `Parsed` over characters by class |
| `Frames` | `Ui`, `Recorder`, `validate()`, the replayer, `AppWindow::ui` | the app's calls one at a time, then `Frame`, which validates, replays and acts on the click of that frame |
| `Windows` | `chrome.rs`, `media.rs` and their part of `Desktop::ui` | `Repaint` and `Press` are one frame of the desktop, without and with a press |
| `MC*` | | small sets for TLC; no definition of the model is replaced |

`PendingTable` and `RpcCtx` hold values, not variables, so that a single
definition of the table serves `Transport`, where it is proved about,
and the two systems that run one.

Parts that share no variable with another are checked side by side: `MCApps`,
`MCParts` and `MCShell` each extend several modules, and a behaviour chooses at its start which
of them it is one of (`part`), while the others stay as they began. The
states of the parts add up instead of multiplying, and the properties of each
speak of its own behaviours.

A property that is the conjunction of named parts is checked as one:
`IInv` (type, consistency of the table, one fate), `HearsOnlyOwn`
(closed windows hear nothing, answers are own), `RpcInv` (calls accounted
for, caches consistent, answers own), `SessionInv` (restoring is counted, nothing is saved
too early, saves keep what was loaded), `NothingStale` (answers and copies current), `DocsKeepTexts`
(editor in step, files keep their own text), `BuildsAreOwn` (a build is as fresh as its press, a
build keeps its folder). The invariant of each module includes what its type says beyond the
names of its values.

Definitions whose comment starts with "Mutant", or says "as it would be", are deliberately wrong versions
of the definition that follows them. Each property is checked to fail when its
mutant takes the right definition's place, so that each says something about
the code.

### What was abstracted

* A payload is the request it answers and, in `RpcSystem`, the number of
  deletions done in the folder it lists. A reply that does not decode is a
  failed reply. Which failure an event carries matters only in `Transport`.
* Deadlines and delays are small numbers of ticks. What matters is that a
  reply can come before, at or after a deadline, and a save before or after
  another's deadline.
* A saved desktop is the set of its windows with whether each is minimised: places
  are in `Windows`, stacking is left out.
* A media file is its version. What is decided or made of it carries the
  version it was read from, which is how staleness is told.
* The server's wait for a copy (`wait`) differs from `status` only in how
  long it waits, so a request's poll may find its job done or running.
* In `Docs` the editor's field is reduced to what `InStepHolds` says of it (an
  edit reaches the app when the field is drawn next, unless the app has set the
  text), whose condition `EditorInStep` checks in turn. A text says of which
  document it is. The window is alone with its files.
* A difference applied to the text it was taken from gives the other text;
  applied to any other text it gives one of no use (`Mixed`). A frame that
  fails is taken to fail before it draws the field; a wasm trap halfway leaves
  an instance nobody can say much about.
* A path is a sequence of names, and the tree has no links (nobody can make one through
  the server, so that looking at both names of a link is one check).
* A person, a session, a state token or a code is a number or a model value, and the
  code's guards against guessing one are not modelled.
* A password hash is the password it was made of. A text half written is
  `Torn`: nobody's password.
* A PUT makes or empties its file when it opens it, and its body comes in one go or
  breaks off: a part of it is the text `Part`.
* Of `dav-server`, which is outside the repository, three things are taken as known: it goes through folders entry
  by entry, it removes what is at the destination first if it may be overwritten, and it leaves
  the destination out of a COPY of a folder into itself.
* A name pattern of an ignore rule is the set of the names it matches; `**` is what
  it has besides. Sizes, progress in bytes and wording are left out.
* An id in `Frames` is the path of salts it is hashed from, so two ids collide only if their paths
  do (raw ids aside, which an app chooses). Widgets that behave alike are one.
* A rect in `Windows` is a place and a size; the whole desktop is the size "full".
  Dragging is its outcome.

## Runs

| Run | Question | Bounds |
|---|---|---|
| `transport` | the table under its methods in any order: its invariants, and that it keeps the ledger's promise, in which every call settles | 2 windows, a merged query and a write, 1 id per window (so that every second call of it repeats an id), 3 calls, deadlines of 1 and 2 ticks |
| `rpc_system` | two Files windows through the whole path | 2 folders, 3 calls, a deadline of 1 tick, entries swept after 1 idle frame |
| `desktop_session` | load, restore, autosave, minimising | 2 windows, 2 user acts or reloads, a save delay of 1 tick, at most 6 calls, deadlines of 1 tick |
| `web_copies` | two requests and their workers over a changing file | 1 file, 2 versions (one shown as it is, one converted), 3 jobs, a cache of 4 with copies of 2 and decisions of 1, 1 restart |
| `file_server` | what callers are shown, and what their requests change | 2 clients of 2 users and an anonymous one, 9 paths, 2 disks with rules on their folders, 2 requests in all |
| `sign_in` | signing in and out through the provider | 2 tabs at 1 address, 1 person, 2 logins and 2 codes, 1 tick (every lifetime is 1), 1 lost call or restart |
| `parts` | provisioning; app passwords; throttle; uploads; Viewer | 2 servers, 3 starts, 1 failure, any stops, 2 passwords of earlier builds with each checkout holding either or none and the volume made with either or none; 2 Account windows, a limit of 2 passwords, 2 made, 1 fault; 2 requests of 1 login from 2 addresses, 2 failures in a window of 2 ticks, 2 ticks, 3 wrong passwords; 2 windows, 2 files (one ignored by git and refused by the server), 2 uploads, 1 failure; tables of up to 2 cells of up to 2 characters, a file of every other kind, 1 lost call |
| `apps` | a text field; a Docs window over two documents; a Compiler window | 2 ids, 2 texts and a mixed one, versions up to 3; 2 documents, one of them new, 2 texts each, 3 clicks; 1 project and 1 uploaded one, 3 presses, 1 restart, a build ends within 1 tick, a folder lasts 2, a result 3 |
| `shell` | frames of an app; window placement and players; a project's ignore rules | apps that draw 4 widgets and nothing nested, or up to 2, 1 and 0 at the depths, a limit of 2; 1 app, 2 windows, 3 user acts, 2 changes of what an app draws, 2 places, 2 sizes, windows remembered in every state; 6 patterns, files of up to 2 lines in the root and one folder, paths of up to 3 names |
| `stale_listing` | a sentence of the Files app (expected to fail) | 1 folder, 4 calls |
| `minimised_forgotten` | a layout has every open window (expected to fail) | as `desktop_session` |
| `unsaved_typed` | leaving the editor loses nothing unsaved (expected to fail) | 3 texts, 4 clicks |

Why the bounds are enough. Three calls make every case of the table: two that
share a request and a third that repeats an id, joins, or comes when one of
the others has gone. Groups, the index and the staged list hold no more than
those at once, and no operator counts. In `rpc_system` each window lists in its
first frame and the third call is a deletion, a listing after a refresh, or a
listing after a folder change, with both others still anywhere between cache
and server. With one tick of patience a reply comes before, in, or after the
frame of its deadline. Two user acts and a remembered desktop of up to two
windows make restores that overlap with openings, closings and a reload; two
saves cross with them. With a cache of 4, two plans and one copy just fit, so
a worker that decided about the old name after the change makes a second copy,
which evicts, and the evictions of two workers overlap. In `apps` one window of the Compiler
is enough for what a window shows of its own builds, because windows meet only
in the job table, by folder and generation, and a window opened again after
being closed is another one there; `MCBuildAgain.cfg` has two. The times keep the
order of the code's (10 minutes for a build, 30 for a result, 60 for a folder)
as far as the properties use it: a build ends before its folder's time does, and a
result lasts longer than the time between two polls.
With versions up to 3 two edits can wait for a field while the app sets its
text, or has the frame that set it drawn again; the proofs have no bound. Three
clicks in a Docs window are enough to create a document, go to another, and edit it while
the first is on its way; two texts tell an edited
one from a saved one, and `unsaved_typed` needs a third, and a fourth click to leave by.

In `file_server` every operation is requested by either client on every path of both disks,
and any two of them cross at every step. In one disk a folder has a nested one, empty, that only one
user may write in; in the other one of two folders that one user may write in has a nested one only
the other may see, and there is a home. In `sign_in` a second login is enough to load an old callback, or come back to
a tab that has been signed out by another. With three starts of two servers one can be stopped,
leave anything behind, and cross another before the third starts alone; two old passwords make a volume
that the first to start has the password of, another checkout has, or none. Two app passwords reach
the limit; two requests of the throttle see each other's failure counted in the window before,
in this one, or after its end. Two characters make a cell with a doubled quote, a quoted
separator and a quoted line break; two cells make a row or a column of them. Frames
nest one level past a limit of 2. Three acts maximise or minimise a
remembered window and bring it back, with one more in between. Two lines make a pattern and one that takes it back, in one
file or in two.

`MaxRestarts`, `MaxStops`, `MaxVersion`, `MaxActs` and `MaxCalls` are guards on the
environment's steps; no step of the code is cut short by one (a page that has
made all its calls draws no frame that would make another, which in
`DesktopSession` is the guard `nextCall <= MaxCalls + 1` on the frame that has been computed).
A window of `RpcSystem` sends at most a deletion and a listing in one `update()`, so
`Enqueued` hands over an outbox of at most two calls. The two callers in
`web_copies` are symmetric; no run that checks liveness uses symmetry.

Only `sign_in`, in which a page can always be loaded again, checks for deadlock: elsewhere a page with
nothing to draw and nothing under way really stops, and so does a server nobody asks.

The environment is held to what makes a property meaningful, and each such condition is named:

* `disturbed` in `FileServer` marks a request between whose look and act another one changed
  the disk. The file operations take no lock (`fs_api.rs:213`), so such a request may act on what
  it looked at too early; `StartedCompletes`, `OnlyWritable` and `NewKeepsFiles` speak of the others, and
  `OnlyCreates` shows what happens to one.
* `Crossed` and `Stray` in `FileServer` are the jobs that `StartedCompletes` does not promise to do. A MOVE into what is moved,
  or a MOVE or COPY onto a folder around its source, is let start and refused after its destination has been cleared: the
  property says that this is all that happens, and `RefusedWhole` shows it. A COPY with a file in the place of
  a home folder is stopped halfway, which `HomeCopied` shows. MOVE and COPY are asked of any two
  paths whose result has its place in `Paths` (`Fits`).
* `spoiled` in `Keycloak` marks a start that another server or a failure disturbed, and `Torn` a password file
  read while it was being written, or stopped between creating and writing it. `LockedOut` is the case of earlier builds
  in which the checkout that made the machine's file did not have the volume's password: `AllAgree` shows it.
  Everything else earlier builds can have left (`EarlierBuild`) is a start state of both properties.
* `DeepWindows` and `Unshowable` are FALSE in `shell`: TRUE lets an app open a window at the depth
  limit, and send frames that show nothing. Two findings are what happens then.
* `late` in `Windows` marks a window its app sized on its way back from full size, the
  case of `KeepsItsCorner`; and nobody clicks on maximise in the one frame after
  un-maximising (`Pressable`), in which egui has not put the window back yet.

### Fairness

* `Transport`: time goes on (`WF(Elapse)`) and the desktop ticks the table
  (`WF(Tick)`). `Desktop::ui` calls `tick` in every frame; that a frame comes at
  a deadline is an assumption (see the hazard at `desktop.rs:474`: nothing
  asks for it). No reply is assumed ever to come.
* `DesktopSession`: a frame asked for is drawn (the browser's promise), time
  goes on, a launch finishes one way or the other, and each POST is answered
  or fails. It assumes nothing of the user.
* `Builds`: a window that is shown is drawn and polls (the app asks for a frame
  every 250 ms), a poll is answered or fails, a thread goes on, the sweep comes
  every minute, and time passes. Cargo itself need not end. Counting the
  packages is taken to be short, as the comment at `build_api.rs:135` says.
* `Docs`: a frame that would draw something new is drawn (the shell asks for one
  when an answer or an edit comes), and a write is answered or fails at its
  deadline.
* `Uploads`: a task goes on (what it awaits is answered, well or not), and frames in which
  dropped files are routed and finished uploads drained come (the task asks for one when it ends).
* `Viewer`: a frame that is due is drawn, the timer the app set fires, a conversion ends, and each request is
  answered or lost.
* `SignIn`: a frame follows the answer to a sign-out, in which the Account app asks who is signed in, and the
  server answers it unless the call is lost.
* The others are checked for safety only.

## What the checks found

Sentences of the repository that the code does not keep; `PROJECT.json` has the details
under `findings`. Three are runs of their own:

1. *A deletion that stays on screen* (`stale_listing`). After a deletion the
   Files app lists the folder again, but the transport joins that query to an
   identical one already under way, from another window, whose answer may have
   been taken before the deletion.
2. *A minimised window that is forgotten* (`minimised_forgotten`). A window opened minimised has never been
   drawn, so it has no place yet, and the layout leaves it out: the next save forgets it.
3. *Typing that counts as saved* (`unsaved_typed`). When a save lands the Docs app
   takes the editor's text of that moment for the saved one, so what was added
   since the save was sent can be left, and lost, without a question.

The others are shown by configurations kept beside the modules, to be run as
`tlc -config <file>.cfg <module>` (and, if it has several properties, only the one in question left in it):

| Configuration | Module | What it shows |
|---|---|---|
| `MCReorderedSaves` | `MCDesktopSession` | two saves can be under way at once, and the server keeps the one it handles last |
| `MCSaveStillHappens` | `MCDesktopSession` | autosave runs after the flush of its frame and asks for no other, so an idle desktop is not saved |
| `MCBuildAgain` | `Builds` | windows count their generations each from 0 but share the job table: a first Build can show the result of another window's, from before the project changed |
| `MCShellFindings` (`ClicksActedOnce`) | `MCShell` | after a click, a frame that shows nothing leaves the click in place, and it is acted on again |
| `MCShellFindings` (`BalancedAccepted`) | `MCShell` | a window opened at the depth limit is recorded, and the whole frame refused |
| `MCShellFindings` (`TitlesDistinct`) | `MCShell` | two windows of one app can have the same number in their titles |
| `MCShellFindings` (`KeepsItsCorner`) | `MCShell` | a window sized on its way back from full size loses its corner |
| `MCPlayers` | `MCShell` | a player scrolled out of its window is removed, and stops |
| `MCPartsFindings` (`AllAgree`) | `MCParts` | when the volume has the password of one checkout and another starts first, the other's becomes the machine's for good (`keycloak.rs:220`), and no server can provision the Keycloak they share |
| `MCPartsFindings` (`UnshowableIsTrue`) | `MCParts` | a text whose request was lost is said to be a file that cannot be shown |
| `MCFileFindings` (`RefusedWhole`) | `MCFileServer` | a folder moved onto one around it, or into itself onto what is there, is refused (`fs_api.rs:531`) when the destination has been removed: the first loses the source too |
| `MCFileFindings` (`OnlyCreates`) | `MCFileServer` | a `create_only` write overwrites a file made after it looked (`fs_api.rs:213`) |
| `MCFileFindings` (`HomeCopied`) | `MCFileServer` | a copy of `/home` that was let start is stopped halfway by a file with the name of another user's home |

## Proofs

`PageProofs` proves two parts. The first is `Transport`, for any windows, ids, requests, policy and number of
calls, from `PolicyAssumption` (merged requests are requests, each request has
a deadline in `Nat`):

* `Inductive`: `Spec => []IInv`, and from it `TypeCorrect`,
  `TableIsConsistent` and `OneFatePerCall`;
* `ImplementsLedger`: under the mapping at the end of `Transport` (a call is
  pending while the table has it, dropped or answered by its history) each
  step of the transport is one of `CallLedger` or a stutter;
* `ClosedWindowHearsNothing` and `AnswersAreOwn`, the two action properties, and
  `HearsOnlyOwnHolds`, which is both.

The inductive invariant. That no call has two fates (`ExactlyOneFate`) is not
inductive by itself: a step that completes a set of keys must not complete the
same call twice, which needs that a call is under one key only
(`NumbersUnique`), and a new call must start with no history
(`UnmadeUntouched`). That a call hears the answer to its own request needs
that each group's request, staged or on the wire, asks for what its members
asked (`Served`), which after a reply is taken needs that no other request has
the same sequence number (`SentOnce`). The rest is the consistency of the maps
(`GroupsPartition`, `IndexExact`, `GroupsAgree`, `StagedWanted`), each of which
one of the others leans on when a group is emptied or joined. The proof follows the
code: lemmas for what `Without`, `Insert` and `ResolveIn` do to a consistent
table, then to a served one, then one step per action.

The second part of `PageProofs` is `Frames`, for any limit of depth and any apps (`FramesAssumption`): `FramesBalanced`,
`FramesClicks` and `FramesFaithful`, the first
for apps that open no window in scopes nested to the limit (`~DeepWindows`), the second where no frame shows nothing
after a click (`~Unshowable`), the two cases that the findings are about, and the third for all. The host works through a stream with two stacks, one
in `validate()` and one in `match_scopes()`, and `Pairings` says without one what a stream must be. The proof goes along the stream,
over the natural numbers: what is open after a command (`OpenIs`) is what was opened before it and has not been closed, in
order; the pairs found so far cross nothing (`PairsAre`); and the two stacks hold the same scopes (`Agree`). The other way, a
pairing of the whole stream says what the stack must be at each command (`Follows`), so that the check never fails.
That the host accepts what the SDK records is `RecInv`: what `validate()` has open is what the Ui's at work have
emitted. For the clicks, `ClickInv`: a click is in the responses of at most one frame to come.

That what the host draws is what was recorded (`ReplayFaithful`) is proved in two halves that meet in a stream that pairs up.
The host's: `Render` is a recursive function over the spans of a stream, and each step of it draws shorter ones, so it is
well defined and is what `DrawSpan` says (`RenderIs`, by induction on the length, over the natural numbers); and what a span gives is, by the same
induction, the widgets in it that are in no closed menu, in order, each within the scopes open around it (`SpanDrawn`).
`Spans` has only those spans that a scope does not straddle, the only ones the code comes to (`Ready`). The recorder's: a widget knows its scopes by its id alone,
as an id is the path of salts it is hashed from. `Stream` says of what was recorded that a scope's id begins the ids of what
is in it and of nothing else, and that no id is given twice; `AtWork`, that the scopes at work stand in that order, each with a next
salt that it has given nothing yet. Each of Ui's calls keeps both, in and out of the depth limit (`PathInv`). Without the next
salts it would not be inductive: two widgets could have one id.

`AppServerProofs` proves five parts, two of them of apps. For `TextSync`, for any ids, texts and number of edits, from
`SyncAssumption` (the texts named are texts) and for an app that sets its `Text`
whenever it draws it in another place (`SetsOnMove`; without it `InStep`
fails, which the name field of Docs does, drawn inside
the id of each folder): `IInvHolds`, and from it `InStepHolds` and
`ShownKeptHolds`.

The inductive invariant. That both sides agree when no edit is waiting says
nothing of the states in which one is, so `EditsLead` says that the edits
waiting form a chain from the app's text to the shell's, each with a newer
version: taking the first edit shortens the chain (`TailLeads`), which is why
the version check leaves none out and each is applied to the text it was made
of, and typing extends it (`AppendLeads`). A set starts a new chain, and needs
that the shell takes it: its version is new to the shell (`SetsAreNew`).
A frame drawn again must not start one: its set has been taken
(`LastWasTaken`). A field the shell has not seen is empty on both sides
(`StartsEmpty`).

For `Docs`, any documents, texts and clicks (`DocsAssumption`): `DocsInvariant`, `TextsKept` and `LeavesClean`. A file is never given
another document's text because every text on its way names its document, in each place it passes through: the
answers to reads and what the app shows of them (`ReadsOwn`), writes on their way (`WriteOK`), a text that
waits to be written, and the files. The editor has one owner at a time,
the document of the view, and leaving the view leaves no editor; what the editor holds
differs from the app's text by no more than the edit not taken yet (`EditorOK`). So a click that leaves
asks or saves for the right text: in the frame of the click the edit is taken before the click is looked at
(`ClicksLeaveClean`). That a text counts as saved when its save lands, though more has been typed since, is not
against it: see `unsaved_typed`.

`RpcProofs` proves, for any folders, windows drawn in any order (`Order` names each at least
once), patience, sweep age and number of calls, from `SystemAssumption` (listings are the merged
requests, deletions are not): `RpcInvariant`, and from it `RpcInvHolds` and `DeletionsHold`.

The inductive invariant of the call's way (`RpcIInv`). That cache and table agree
at the end of a frame needs to be followed through the frame, in the middle of which the cache has made
calls and taken some back that the table has not heard of: `Within` says that the cache waits on the calls
it had in the table and on those in its outbox, but for the cancelled ones, and that the outbox is
numbered in order. Each method of the cache (`get`, `invalidate`, `send`, `outcome`, `deliver`,
`begin_frame`) keeps `Within`, whatever the app does, so `HostWindow` gives the table the calls
and the cancellations it needs. Between the table and the app nothing is between two places: a window's
queue holds the events of calls that the table has dropped (`WinsOK`). On the other side
`TableServed` says, of the staged requests and of those in any post, in the server's hands or in a reply,
that each asks for what its group's members asked; `PostsOK` says that a sequence number is
sent once. `VerOK`, that the deletions done and those yet to be served are no more than the requests made, is what
bounds the versions a listing can carry. Windows that have closed leave the table at the end of the frame.

A deletion reported done was done (`DeletionsInv`, inductive beside `RpcIInv`). A deletion
is told along three places, an event of the queue, a command of the cache, and the report: `CommandsOK`
says that each speaks of the call the app made, `RepliesOK` that no two replies on their way report one deletion,
and `ToldOK` that what has been told is reported by no reply still on its way. A deletion is never
merged, so that a reply has one caller (`Merged` in the assumption), and it is this that
keeps two windows from being told of one deletion.

`SessionProofs` proves, for any finite set of apps, any remembered desktops and delays, and at least one call:
`SessionInvariant` and `SessionKept`. The inductive invariant, `SInv`, is stated for a page in the middle of a frame,
with `gone`, the windows that will have been removed by its end: each step of `Desktop::ui` keeps
`FrameInv`. That nothing is saved too early needs that the count of
remembered windows is the cardinality of those on their way (`Counted`), each of which is
in one place only (`OnWayOnce`), since a window that lands is subtracted once; that
a save keeps what was loaded needs that each remembered window is open, on its way or gone
(`Coming`), and that what the table holds of a save was so when it was made (`SavesOK`).

For `Windows` it proves, for any apps, places, sizes and presses, `WindowsInvariant`, `WindowsGoBack` and `PlayersGoOn`, from
`WindowsAssumption` (a remembered window has a rect of the desktop, "full" is no size of a rect). That
a window is at home (`GoesBack`) says nothing of how it gets there. After it was maximised its old rect is given back in two frames, the size
in one and the place in the next, since egui may push it aside meanwhile: `PlaceInv` says that such a window has its size already and will have
its place (`OnItsWay`), and that a window at full size has a rect to go back to, in one place only (`Coherent`). The proof follows
`show_window()`: the app's sizing, the user's drag, `Placement::place`, and the title bar's buttons each keep it. The windows
an app sizes on the way back are excepted, and `KeepsItsCorner` shows why. A player's window is shown in each frame
in which it is not minimised, so what it has is what its app draws (`Shows`).

`SignInProofs` proves, for any tabs, addresses, people, lifetimes and faults: `SignInInvariant`,
`OneSession` and `SignedOut`. A login is at one place only, pending, being exchanged, or in a session
(`LoginsUsedOnce` in `SInv`); that it gives no second session needs that a callback takes
its login out of the pending ones before it asks the provider, and that a code gives one
token and is spent from then on (`CodesOK`, `SessionsOK`). That a session signed out of does
not return is that its code is spent and its token named by no exchange (`Gone`), which each page that has seen
itself signed out keeps (`PagesOK`), with cookies that name only codes given out (`CookiesOK`).

The other three parts of `AppServerProofs` are of the server. For `Keycloak`, any servers and number of starts and failures:
`PasswordsAgreeHolds`: whatever earlier builds left, and whoever starts, stops or crosses whom, the password file holds the admin password of the
Keycloak they share, unless it was read while it was being written, or is `LockedOut`. A volume of an earlier build needs
that the file is what the checkout that made it found, if it found anything (`FoundIsKept`). The inductive invariant `KInv` adds to it that only one
server is ever between creating the file and writing it (`OneWriter`: the file is created only if it is not there, and
never removed), and that a server that goes on with a password, other than a torn one,
has the one in the file (`HoldsFile`). It assumes `KeycloakAssumption` (the special values are no servers' passwords).
`LoneStarts`: with the same exceptions, a start that nothing disturbs ends with login on. `LoneInv` says what such a start has
found or made at each step and still finds (`Ahead`), which nobody takes from it because
the others are at their beginnings (`OthersEarly`), and that a container of this version was
published only once Keycloak had its admin (`HasAdmin`).

For `Builds`, any windows, projects, limits, presses and restarts: `BuildsInvariant` and `BuildsOwn`. What a window is
shown of its own build is as fresh as its press (`FreshWindow`) because a job cannot carry a press that
has not been made (`PressedBefore`: a window's generation and life are those of the last press, and no job or request
at the server has a later one), so that a job found under a window's own key and life was begun at its
press or after (`JobFresh`), and an answer was taken from such a job (`AnswerFresh`). A build keeps its folder because
it has less time left than its folder has (`Outlasts`): each start uses
the folder. This needs `BuildLimit < Ttl`, which the constants of the code keep (`BUILD_TIMEOUT` is 10 minutes,
`TTL_SECS` an hour).

For `WebCopies`, any files, requests, jobs, sizes, changes and stops (`CopiesAssumption`): `CopiesInvariant`, `OneWorker`,
`CopiesCurrent` and `EvictionEnds`. A worker has the job that the map has for its key (`WorkerOK`), and the map has one job per key,
so two workers never make one copy. Nothing is stale because a key is older than whatever is read under it: what is kept under a
key was read at its version or later (`CacheRead`), and the job a request holds is at work on the file as it was
when asked or later, or has such a result (`HoldsOK`), as a job stays held, and is not used again, until its
last request has looked. That the limit is kept needs, while any worker is about to remove, that the cache fits, or that
some worker has still to list the folder, or has listed all that is in it now (`Evicts`); and that a worker that
has listed all of it removes enough, counting from the oldest file it leaves (`EvictsEnough`).

`PartsProofs` proves five parts, for any windows, users, files, limits and faults. `Throttle`: `ThrottleInvariant` and `Refusals`.
That a refusal has a cause needs, of each key, that what is counted is no more than the wrong passwords
since the key's window began (`CountedHappened`), and that the requests let through, whose failures may still be
counted, leave the bound as it is (`FewOver`): checks overlap, so the count can exceed the limit,
but only by those (for which the requests under way must be finitely many, in the assumption).
`AppPasswords`: `StoreInvariant` and `StoreKept`. The store in memory and the one on disk differ in nothing but which passwords
have been used (`Alike`), since every other change that fails to be saved is undone; so a restart loses
nothing that was answered (`AsTold`). `Uploads`: `UploadsInvariant` and `NoticesAreTrue`. Of the files an upload is for, those
whose turn has been are stored or counted as failed, and the others are left (`FilesOK`), at every `await` of its task.

`Viewer`, for any documents and characters (`ViewerAssumption`): `ViewerInvariant` and `TablesRead`, which says that a table is
shown with the rows it was saved with. A cell is read back from the characters it is written as (`CellRead`, quoted or plain),
whatever follows it being a separator or the end of the line; then a row (`RowRead`), and a table (`TableRead`), each by
induction over the natural numbers on how much has been read. A cell that is not quoted holds
no special character, and it is this that keeps a carriage return in a cell from being taken for the end of a line.

`ProjectFiles`, for any names, patterns and folders (`ProjectAssumption`): `ProjectInvariant` and `ProjectAsGit`, which says that what is sent is
what git would not ignore. The matcher finds a fit exactly if there is one (`MatchesIs`, by induction on what is left of the pattern
and of the path); the rules are the lines of all files in order of depth, as a file of a deeper folder speaks later (`Ranked`, `RulesAre`);
and the last rule that applies decides (`LastDecides`, `DecideIs`). It needs that a folder has one `.gitignore` (`PInv`).

`FileServerProofs` proves, for any paths, users, texts, rules, disks and any number of requests at once:
`FileServerInvariant`, and from it `StartedAlwaysCompletes`, `ChangesByRights`, `NewKeeps` and `HiddenIsMissing`.
It assumes `JailAssumption` (paths are sequences of names with all that leads to them, special names are apart) and
`ServerAssumption` (there is a client; disks are well formed). That a file operation that was let start
is done whole cannot be seen from the files alone: a check that passed says nothing of the files a step later. So
`FileServerInv` keeps the disk on which a request began (`before`) and says, of every request whoever crosses it,
that its checks passed there (`Sound`); and of one that nobody disturbed, how the disk of now differs from that
one (`Stands`). While a job clears its target, what is outside it is as before, and what is in it is as
before or gone (`Clearing`); then it is all gone (`Emptied`); what a copy has brought so far is
there, with the folders it is in, and without rules (`Partway`); and at the end it is what was asked, or for
a job whose source and destination cross what was there without its destination (`Ended`). Of a COPY into
itself the proof needs that what is left to copy is never where it goes (`ToCopy`), so that it is as it was and its place is
empty (`CopyPlace`); of one onto a folder
around it, that its source has gone with the destination, so that nothing is found to copy (`CopyCrossed`).

The difficulty is that rights are inherited. A folder that goes takes its rules with it, and what
its rules let a caller write is now decided by the folder above: so each step must show that what preflight found on
`before` still holds of a disk with some rules gone. `PermsInherit` says what a path's rights are when the rules
between it and a folder above are none, `RemovableAll` that a folder that may be removed may be written in everywhere,
up to the folder it is in, so that removing any of it leaves the rest removable (`ClearingMay`), and
`TargetMay` that what is put in the emptied place may be written by the rules above it. `SourceRead` is that a folder that
may be read to the bottom can be read entry by entry, since a file has its folder's rules; one in the place of a home
folder does not (`Stray`), which is the case `StartedCompletes` excepts and `HomeCopied` shows. `HiddenIsMissing` needs no invariant but
that the disk is well formed: it is that each answer about a path reads the disk only where its caller may.

Only model-checked:

* liveness, which is out of the prover's reach (the ledger's own fairness, `RestoreFinishes`, `SignOutLeaves`, `UploadsEnd`, `ShowsInTheEnd`, `WritesEnd`, `PollingEnds`,
  `NothingLingers`);
* what a run shows to be violated (`OwnDeletionShown` and the other findings).

## Not modelled

`PROJECT.json` lists every component, with what is left out of each. Left out for good: byte codecs, image
metadata, the decisions over media formats, drawing and browser glue, the build tooling, and statistics. They are
pure functions over bytes or pixels, or have next to no state of their own. Within the modelled parts:
the Files app's search, places and access rights; symbolic links; what `dav-server` does besides the
operations above (locks, properties); `.part.` files of the web-copy cache, and a copy larger than the cache;
the temporary file of a saved desktop; stacking of windows; the download routes; Keycloak run as a child process
(`start_local`), which uses the same password file, then provisions without docker; table files whose last line does not end.

## Plan

Modelled and checked: everything in the module table. What is left, most important first:

1. Two Docs windows over one document, and creation as the two steps of the server's `create_only`.
2. A copy larger than the whole cache with a caller that polls; `.part.` files left by a stopped server.
3. The server's save of a desktop as write and rename, with two saves at once.
4. Download routes and the streaming of a file that changes; the connection estimate.
