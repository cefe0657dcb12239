# SlaveTatsUI: models and proofs

SlaveTatsUI is an SKSE plugin: a menu inside Skyrim that shows the overlay slots
of the player's body areas, applies a tattoo of a catalog to a slot, edits its
color and alpha, and removes it. The tattoos themselves are kept by SlaveTatsNG
and JContainers, two other plugins it calls. Paths below are relative to `src/`.

## Inventory

| Part | State it keeps | Operations | Talks to | Hard part |
|---|---|---|---|---|
| Slot workflow model, `src/native/NativeSlotWorkflowModel` | screen, area, one snapshot and page per area, target, preview, edit session, error, one pending and one active ticket per kind | about twenty gestures, four `take*`, four `complete*` | catalog browser (area filter) | tickets superseded by newer ones, stale answers, retries after a partial success |
| Slot workflow runtime, `src/native/NativeSlotWorkflowRuntime` | `m_inFlight` | `pump`, a scheduled task per ticket | the model, the SKSE task queue, the service | the scheduler or an operation may throw at any point |
| Menu, `src/native/OfficialMenuFrameworkAdapter`, `NativeMenu` | the open window | one render pass per frame, hotkey, close | all models | which gesture is enabled when; frames between the steps of a task |
| Tattoo service, `src/core/SlaveTatsService` | none | argument and dependency checks | the runtime | – |
| Tattoo runtime, `src/runtime/SlaveTatsRuntime`, `UpdateTattooAppearanceOrchestration` | bound interfaces; the store is outside | query, apply, remove, update appearance | SlaveTatsNG, JContainers | one step of several failing; a patched shared template; stale handles; slots other mods took |
| Thumbnails, `src/native/NativeThumbnailController`, `NativeThumbnailRuntime`, `D3D11NativeThumbnailSource` | visible page, generation, revision, queue, loads in flight, negative results | `synchronize`, `pump`, `complete`, `clear` | texture cache, SKSE task queue | the lock is released around cache lookups; loads finish for pages left meanwhile |
| Texture cache and resolver, `src/textures` | recently used textures, negative entries with a time to live | `get`, `getOrLoad`, `pruneExpired` | DirectX | eviction and expiry at the limits |
| Catalog browser, `src/native/NativeCatalogBrowserModel` | snapshot, filter, page; the page number box of the picker | setters, paging, `refresh` | the repository, the menu | filters that no longer exist after a refresh, page bounds, a number typed over several frames |
| Tattoo repository, scanning and parsing, `src/repository` | an immutable catalog that is swapped | load, `query`, contextual facets | start-up, the browser | malformed entries, the order of texts that fold alike |
| Hotkey, `src/runtime/HotkeyBinding` | key, lock; the file outlives the process | load, select, matches, save | input events, the launcher | a save that fails or is cut short by the end of the process |
| Start-up, `src/main.cpp`, `ApplicationRuntime` | which interfaces are bound | `SKSEPluginLoad`, message handlers | SKSE, SlaveTatsNG, JContainers | messages in any order, twice or never |

What makes each part correct:

* **Slot workflow.** Every ticket is answered or superseded by a newer one; a busy
  screen has an operation and the operation is the one shown; a mutation runs once
  for one confirmation; a retry after a partial success does not write again; the
  page shown exists.
* **Tattoo runtime.** A failed operation can be repeated as a whole; a success is
  stored and visible; slots of other mods and objects behind stale handles are left
  alone; the shared template is restored.
* **Thumbnails.** No view waits for a load nobody will do; the last page asked for
  wins; at most one load at a time; a broken file is not retried for ever.
* **Catalog.** The page shown is what the repository answers to the filters of now;
  filters that are offered lead somewhere; paging shows every match once; nothing but
  the user's gestures, a new catalog or another area moves the browser.
* **Hotkey.** A start finds the key last reported as saved; the other settings of the
  file survive a save that can read it; a key that is being saved does not act yet.
* **Start-up.** The service is called only with the last interface of SlaveTatsNG, of
  the version required, and the last JContainers root of the version required.

## Modules

* `SlotTypes` – areas, slots, snapshots, requests and answers (`TattooModels.h`).
* `SlotWorkflow` – the workflow model, its coordinator and the gestures of each
  screen. One action per public function of the model, with the function's guard;
  the four completions share `Complete`, which starts by dropping a superseded
  answer. `pending` and `active` are the `m_pending*` and `m_active*` members,
  indexed by the kind of ticket, with 0 for "no active generation". `Pump` is the
  start of a frame (`renderFoundation`), `Gesture` the rest of it; the gestures of a
  screen are those the renderer enables there.
* `ConfirmedMutation` – the abstract protocol the workflow promises about the
  actor: confirmed, run at most once, as confirmed, one at a time. `SlotWorkflow`
  implements it under the mapping `AbstractPhase`, `AbstractMutation`.
* `SlotBackend` – the service and the runtime, one action per call to SlaveTatsNG or
  JContainers, in the order of the code, with every early return. The store is
  external and modelled by what the code relies on: which handle is applied where,
  what the handle's object holds, what a synchronization shows. `FailingCall` names
  the calls that may fail. Other mods act between two operations (`Environment`).
* `SlotSystem` – the two composed: the operation of a task is the sequence of backend
  calls, with frames in between. It implements `SlotWorkflow`, in which the answer
  of an operation is left open.
* `TextureCache` – the recency list of `TextureCache.h`, as operators on sequences.
* `TexturePaths` – the three normal forms of a texture's path: that of the views
  (`canonicalizeTexturePath`), that the cards compare by, and that of files and cache
  keys (`TextureResolver::normalize`, `normalizePath`); what a loose file and the
  archive answer together.
* `ThumbnailFrames` – which textures a frame of each screen asks for, and under which
  epoch. `MCThumbnails` builds the frames of its instances with it.
* `Thumbnails` – `NativeThumbnailController`, the runtime that pumps it and the D3D11
  source. `shown` is `m_epoch` with the paths of `m_views`, `pending` the pair
  `m_pendingEpoch`, `m_pendingPaths`, and `call[c]` where a drawing thread is in
  `synchronize` and `pump`: a critical section of the controller's lock is one
  action, and the lookups between two of them are actions of their own. A load is a
  member of `tasks` with the stage of `load` it reached; the stage `insert` stands
  for the source's lock, which keeps lookups, prunes and other loads out.
  `queueIfEligibleLocked` is the last thing its callers do, so `QueueIfEligible`
  reads the values the step gives the other variables.
* `ThumbnailLocks` – the same calls lock by lock: one step finer than `Thumbnails`,
  without its data, to ask who waits for whom.
* `Catalog` – how source files become a catalog, and how it answers filters: pure
  operators. An entry keeps the index it has in its file, malformed ones are skipped.
* `CatalogBrowser` – the store, `NativeCatalogBrowserModel` and the frames of the picker.
  The browser's functions are operators on its record, because a frame calls several
  of them; an action is a part of `renderFoundation`: `BeginFrame` notices a new
  snapshot and sets the area, and the rest of the frame is one gesture or none. The
  page number box is `box`, `focused` and `text`: what it shows, whether it has the
  keyboard, what was typed.
* `CatalogCursor` – what any browser of pages promises: other criteria start at the
  first page, a turn stays within the results. `CatalogBrowser` implements it.
* `HotkeyBinding` – load, select, matches and save. A save is three steps (open, which
  empties the file; write into the buffer; close), each of which may fail or be the
  last the process does. Reading comes before opening and fails on its own: `OpenUnread`
  goes on with the hotkey alone. `op` is the load or selection that holds the lock.
* `Plugin` – `SKSEPluginLoad`, the three message handlers, the window and the checks
  of the service, over `HotkeyBinding`; the process may end at any point and start
  again, and the user may edit the file in between. A message of JContainers has a root
  of another version, which changes nothing (`RootRefused`), or one of the version
  required (`RootBound`), which is bound or takes the service back. `offered` remembers
  the last interface and the last root of the version required; `session.functions` is
  the root whose functions are in use.
* `Subsequences` – the elements of a sequence at some of its indices, in their order:
  what remains of a container after a loop that skips elements.
* `MC*` – instances for TLC. `*Proofs` – theorems about the module they are named
  after (`SlotWorkflow`, `SlotBackend`, `SlotSystem`, `CatalogBrowser`, `Plugin`,
  `Thumbnails`, `ThumbnailLocks`, `Subsequences`).

Every handler of the workflow model is one action: the model has no lock, and the
code relies on the renderer and the SKSE task queue running on one thread. A task
is not atomic here, though: frames may fall between its calls and between the
operation and its completion, so nothing depends on how they are scheduled.

### Abstractions

A color and an alpha are one value of `0..MaxColor`; clamping, the raw zero that is
reported as white, and the range check of the service act on it. The other material
fields are one value, the tattoo's own or the request's defaults. The actor is
always the player. Of the service's error codes the workflow tells only
`synchronizeFailed` from the rest, so there are two. Texts are left out.
A texture in the cache is its key; times are left out, so a prune may find any
entries expired. A task the scheduler refuses never runs and one it accepts runs
once, so the flag that lets only one of them complete a request is left out.
Logging of failed textures is left out.
Texts of the catalog are values with a folded form, a rank in the order of strings and
the set of texts they hit in a search. A tattoo's name stands for its name and texture
path, a source's pack for the stem and the name of its file. What makes an entry
malformed and which files a directory holds are inputs. Paths of textures are sequences
of characters over a small alphabet, because their spelling is what the properties are
about.
The hotkey's field is a value with a kind (null, number, name, other); the other
settings of the file are one flag. The functions of JContainers are the root they came
from, and every message comes with data. Start-up loads the catalog once per process; the
browser's model allows two, so that a snapshot may replace another one.
A handle of 0 means "no handle" in the code; a managed slot never has it, because
`querySlots` calls a slot managed only if its handle is not 0.

## Runs

| Run | Question | Bounds |
|---|---|---|
| `slot_workflow` | tickets, screens, retries, pages and the confirmed-mutation protocol under every interleaving | two areas, body with two pages and feet with one, two tattoos, five tickets |
| `slot_workflow_live` | a confirmed mutation ends | the same, four tickets |
| `slot_backend` | partial failures, other mods, stale handles | one slot in each of two areas, three handles, every call may fail, one change by other mods |
| `slot_system` | what is shown against what is stored | as above with four tickets and seven of the calls failing |
| `thumbnails` | queue, requests in flight, the last page asked for, stale loads | two drawing threads; three frames of the picker, the slots and a preview, page size 3, with one texture in two spellings and a path that leads outside; three visible, two in the cache, three synchronizations, a reset, a device that is lost |
| `thumbnails_live` | every visible thumbnail settles | one drawing thread, five frames over four textures, page size 2, three in the cache, three synchronizations |
| `thumbnail_locks` | nobody waits in a circle | three threads with any call each, pages of up to two paths |
| `catalog_browser` | the page against the filters, filters against facets, paging, the page box, the cursor | two sources, two areas, sections in two spellings and an empty one, malformed entries and an unreadable file; page size 2, two searches, the numbers -1, 2 and 9 typed, two loads |
| `plugin` | the hotkey's file over ends of the process, presses during a save, messages in any order | key codes 0..3, two keys on offer, two versions, files with every kind of field and none; four JContainers roots, two of them complete, one without an interface, one of another version |
| `apply_retry`, `edit_material`, `lost_refresh` | disagreements between a document and the code, below | as the runs of the same module |

Why the bounds are enough: a mutation needs one ticket and its completion one query,
so five tickets hold a query, a mutation, its retry and the refreshes of two areas,
which is every superseding pattern the code distinguishes (it compares a generation
with the last one only). Two areas are needed for an answer that arrives for an area
left meanwhile, two pages for paging. Three handles allow one worn in each area and
one to replace either. `MaxColor = 1` with a raw color of 2 has a value that is
clamped; the range 0..2 of the backend adds the zero that reads as white.
`MaxGeneration` stops gestures that would issue a ticket, never a completion. The number
of slots of an area is a constant, as the process reads it once
(`OverlaySlotConfiguration.cpp`, 59-70).

The full catalog has five tattoos of the body on three pages of two, so a page has a
neighbour on either side and the last one is not full; the broken one loses a source
and its sections, so filters set under the one are not offered under the other. The
empty and the searched text, a section spelled in two ways and one that is empty are the
cases `Fold` tells apart. The numbers typed lie before, on and after the pages.
`catalog_browser` and `plugin` are otherwise unbounded: `MaxLoads` is the only counter.
In `plugin` two keys of the combo and one that is not in it tell a replaced key from
the one in force; the number 5 is beyond the key codes and is cut to 1.

In the game one thread draws, nothing calls `reset` or `retryDeviceUnavailable`, and
a device is there for good or never. `thumbnails` checks what the controller is built
and tested for: callers that overlap, a reset, a device that comes and goes.
Three revisions hold a page shown, one being looked up and one that supersedes it,
which is all the code compares; the frames share a texture, so that a load may end for
a path that came back, and they alternate between two epochs. `thumbnails_live` is
the game's configuration. A circle of waiting threads needs two of them, since there
are two locks; the third one shows that a bystander does not matter.

**Fairness.** `BusyScreenEnds` needs that a window that is open keeps being drawn
(strong fairness of `Pump`, since the user may close and reopen it), that a frame
ends, and that SKSE runs a task it accepted and the task finishes. Nothing is
assumed of the user: a window closed for good is the escape in the property,
because only a frame takes a pending ticket. `ThumbnailsSettle` needs that frames go
on while the window is open (weak fairness of `Draw`) and that the scheduler runs
what it accepted and the load ends; that a load succeeds, or that the scheduler
accepts, is not assumed. The bound on synchronizations stands for a user who stays
on a page in the end.

Nothing is live about the catalog and the hotkey: their operations return.

## What the documents say and the code does not do

* `apply_retry`: an application has no synchronize-only mode at all; confirming it again
  after its synchronization failed adds the tattoo a second time (ROADMAP.md:22).
* `edit_material`: saving a color or an alpha writes the default glow, glossiness,
  specular strength and emissive multiplier over the tattoo's own (ROADMAP.md:21).
* `lost_refresh`: the refresh after a success is superseded by selecting an area that
  has no snapshot, and the first area is not queried again.

Others were met that no run shows, because a model of them would say no more than the
lines do.

Slot workflow and backend (dates name the design documents in `docs/superpowers/specs`):

* A synchronize-only retry of a removal keeps its mode only while the last error shown
  is `synchronizeFailed`; one other failure and the next retry is a full removal, where
  ROADMAP.md:22 forbids silently repeating writes.
* A mutation that was stored but not synchronized schedules no refresh, and the error of
  a query for an area left meanwhile is shown (2026-08-29 slot-first workflow, lines 193
  and 142). `cancelPreview` goes to the slots, where the document has the picker.
* The template of an application is looked up by section and name only. With two tattoos
  that share both but not the area, the wrong one is applied, to a slot that was not
  checked, and neither `ExternalUntouched` nor `SuccessIsStored` holds: the run's catalog
  and the theorems assume `NamesDiffer`.
* `jcmini::Init` reports success although a function was not found.
* A JContainers root of another version leaves the earlier binding in use (`main.cpp`,
  230-235), where an interface of SlaveTatsNG of another version takes it back. That
  version is kept "so the UI can display a meaningful error" (`main.cpp`, 219), and
  nothing displays it.

Catalog:

* A section filter that is kept because it folds like one on offer makes the combo show
  "All sections" while the list is filtered, and an entry whose section is empty cannot
  be filtered for.
* A glow slightly below 2^64 wraps to a negative number (`TattooSourceParser.cpp`, 68-80).

Thumbnails:

* The failures of textures are forgotten whenever the epoch changes, and the slot
  screens have epochs of their own, so a broken texture is loaded again each time the
  catalog is opened.
* A page published between the last check of a load and its upload does not stop the
  upload, only its publication; and the cache may evict a texture that is visible.
* A loose file that cannot be read falls back to the archive, and is shown as missing if
  that has none, where 2026-08-26 current-page thumbnails has `broken`.

Hotkey:

* A number of 2^32 or more is cut to 32 bits: the range check in `HotkeyBinding.cpp`,
  81-92, does not see an unsigned one.
* A file that is there and cannot be read is overwritten with the hotkey alone, and the
  save is reported as a success (lines 146-159): the other settings are lost, which
  `HotkeyBindingTests.cpp` expects to be preserved and only tries with files it can read.
* A small save sits in the stream's buffer until it is closed, so an error of that write
  is reported as success (lines 154-159; README.md:61 says "saved immediately").
* Opening the window by the hotkey does not refresh the workflow, which 2026-09-12
  prismaui retirement, 73-76, says and `NativeMenuTests` denies.

## Proofs

TLAPS proves the following from the named assumptions of the modules, which say what
the constants are and, where noted, more. Each argument rests on an inductive
invariant (`IInv`, unless named otherwise below), and there is a theorem for each
property that follows from it. The theorems cover every invariant, every action property
and every refinement that a passing run checks.

### Slot workflow

`SlotWorkflowProofs` proves, for all areas, slot counts, tattoos, handles,
appearances, page sizes and bounds, from the named assumptions of `SlotTypes` and
`SlotWorkflow` (they only say that the constants have the expected types and that
`None` is none of the values):

* `TypeCorrect`, type correctness;
* `TicketsLive`, `BusyScreens`, `ShownExecuted`, `PagesInRange`, `RetryRemembered` and
  `LoadingReal`: the invariants `TicketLive`, `BusyScreenHasOperation`,
  `ShownIsExecuted`, `PageInRange`, `RetryIsRemembered` and `LoadingIsReal`;
* `SessionSticks`, an action property;
* `ImplementsProtocol`, the refinement of `ConfirmedMutation`.

About mutations, the inductive invariant `IInv` adds three facts without which a
step could break them: tickets have generations other than 0 (else "no active
generation" would equal a ticket's), a mutation in the queue or in a task is always
the active one (only queries are superseded), and an edit session exists only on
the two screens that show it (else `beginEditAppearance` could replace one). The
step is split by what it can do to the tickets: an idle step (`IdleStep`), a
confirmation (`ConfirmStep`), a step that touches no mutation (`StandStill`), a
ticket taken (`ScheduleStep`) and a completion (`CompleteStep`); each gesture is
shown to be one of the first two.

About queries (`QueryInv`), it adds that no ticket is younger than the last generation
(so a ticket that is issued differs from all others), that the query in the queue is the
one the model waits for (`QueryAwaited`), that a removal is only handed out when no query
is left (`RemovalAfterQueries`: `takeSlotQueryTicket` comes first in a frame, and the query
it hands out occupies the task), and that all screens but the list of slots belong to an
area that was answered (`SlotsKnown`). The first three give `RetryIsRemembered`.
`LoadingIsReal` is split into "there is an error or a query" (`ErrorOrQuery`) and "the
query is for the area selected" (`QueryIsForSelected`), since a change of area may leave an
older query only if the new area needs none.

The refinement follows from the invariant: the
screen tells the abstract phase (`AbstractState`).

### Tattoo runtime

`SlotBackendProofs` proves, for all areas, slots, handles and sets of failing calls, type
correctness, `TemplatesRestored`, `UpdateIsShown`, `StaleHandleUntouched` and
`FailureChangesNothing`, and from `NamesDiffer` (no two tattoos share a section and a
name) also `SuccessIsStored` and `ExternalUntouched`. `IInv` adds to the types that worn
handles are distinct (else writing through one would change two places), what each stage
of an operation has established about its slot and handle (`Control`), that a template
is patched only between the two stages around its use, and which places are marked for
an update. Under `NamesDiffer` it also says how far the operation has changed the actor
from what it was at the start; the theorems about success and about other mods need it.
`FailureChangesNothing` does not depend on names: it follows from an invariant of its
own, that the actor is as it was at the start until the one call that may be reverted.
`EditedIsStored`, an invariant beside `IInv`, says that an edit that got as far as the color
holds it, at a handle that is still worn, until it is answered; the system needs it.

### The system

`SlotSystemProofs` composes the two invariants. The constants are those of both modules;
`BackendAssumption` repeats, for the instance, what `SlotBackend` assumes of its own.

* `ImplementsWorkflow`: the system implements `SlotWorkflow`, whose operation answers in
  one step with any result. A call of the operation is a stutter and its return the
  answer; that the result is one the workflow expects (a query's slots are those of the
  area asked for) comes from the backend's types.
* `ImplementsBackend`: the system implements `SlotBackend`. The workflow has to ask only
  for what the backend takes: a slot of the area, a tattoo that declares it, a color in
  range. `ChoicesFit` is the invariant that says so about the user's choices. With this
  theorem every result about the backend holds in the system.
* `StoredAsPreviewed` and `RetriesAreEnough`, for catalogs in which no two tattoos share a
  section and a name (`NamesDiffer`): `AppliedAsPreviewed` and
  `RetryOnlyNeedsSynchronizing`. Both speak of the store and the screen at different times,
  so the inductive invariant (`Agreement`) follows what was stored from the call through
  the task's answer, the screen that remembers the failure and the ticket of the retry. As
  long as other mods do not act, no operation in between changes it, since one runs at a
  time and a query only reads.

### Catalog browser

`CatalogBrowserProofs` proves, for all catalogs, foldings, orders of texts and page sizes,
each invariant and action property of `catalog_browser`, and the refinement of
`CatalogCursor`.

`IInv` says that a catalog is finite and no two entries are alike in source and index
(`WellFormed`), that every function of the browser ends in `query` with the filter it
leaves (`Fresh`), and that a source and a section that are set are on offer (`Offered`),
so that a tattoo passes all filters but the search. `PageFresh`, `NoDeadEnd`,
`BrowsingKept`, `FiltersKept` and the refinement follow: a function that goes back to the
first page renews the cursor's criteria, and the other ones turn a page or stand still.

`MatchesOnOnePage` needs the order of the catalog. The keys are compared first difference
first (`LessOrders`); from `RankAssumption`, by which sources have different ranks, no two
entries of a catalog have the same key. Thus the order is total, the n-th entry exists
and is unique for every n below the number of matches, and the pages cut these numbers
without a gap. `CardsCompatible` needs that a card is a match of a filter whose area is
the one selected, and `JumpsWhereTyped` that the number typed stays in the box as long as
the page does; `ScreenInv` says both.

### Plugin and hotkey

`PluginProofs` proves, for all key ranges, combos, labels and files, type correctness,
`NoKeyResurrected`, `SettingsSurvive`, `PressesAcknowledged`, `BoundBeforeCalled`, and
that a selection that failed leaves the key as it was (`KeyAcknowledged`). `IInv` says
what the file holds at each step of a save: while it is open it is empty, and what
is in the buffer is the new key with the settings that were read. `SettingsSurvive` is
about a save that reads the file, writes it and is not cut short; `settings` says that
none has done otherwise since the file had settings to keep. For `BoundBeforeCalled`,
`Binding` relates what is bound to what was offered: the interface is the last one, if
its version is the one required, and while JContainers is ready the functions in use are
those of the last root of the version required. A root that cannot be bound leaves the
functions of an earlier one behind, which is why readiness has to be taken back with it.

### Thumbnails

`ThumbnailsProofs` proves, for any threads, pages, spellings and bounds, each invariant and
action property of `thumbnails`. The invariant `ThumbnailInv` has these parts.

* The lookups (`LookupInv`): each has a revision of its own, up to the last one, and the
  latest is the pending one. A page that is published by the latest lookup was pending, so
  it is that of the last frame: `PendingIsLookedUp`, `LastFrameWins`.
* The loads (`LoadInv`): the request in flight has exactly one bearer, a thread that
  schedules it or a task: `OneLoad`.
* The views (`ViewInv`): `QueueSound` and `NoViewStranded` are inductive together with
  `LoadsShown`, by which a request of this page loads its view and the path of a request has
  not failed. Each operation of the controller (publishing a page, taking from the queue,
  completing, the device's return, `reset`) has a lemma that says what it does to queue,
  views and request, and the actions of the threads and tasks cite them. `SettledStays` is
  proved along with it.
* `PendingIsNew` (what is looked up is not what is shown) and `UploadsAreNamed` (only a path
  that leads somewhere is uploaded) make the types (`TypeOK`) and the second half of
  `AskedIsShown` inductive.

`AskedIsShown` also says that the view a card finds is of the texture its path names. This
is `KeyIsKept`, a fact about spellings: folding the characters of a path as the views do
keeps where it is cut, which of its parts are names, whether it is refused, and its key
in the cache.

What the queue keeps when a path leaves it, and which parts of a path are names, are
selections from a sequence. The library writes them as recursive definitions, about which
the prover shows nothing. `Subsequences` writes them by the indices that are kept, and
`SubsequencesProofs` shows that the result has the elements at those indices, in their
order and each as often as it is kept.

### Locks

`ThumbnailLocksProofs` proves, for any number of threads and visible paths, type
correctness and `NoLockCycle`: a section that locks within another one holds the source's
lock and asks for the controller's, so a holder of the controller's lock asks for
nothing, and nobody asks for a lock it holds.

### Only model-checked

The two liveness properties, `BusyScreenEnds` and `ThumbnailsSettle`: the prover has no
rules for fairness and `ENABLED`. The three disagreements are counterexamples, which only
TLC finds.

## Plan

1. `AppliedAsPreviewed` and the backend's theorems without `NamesDiffer`: what remains true
   when tattoos share their names is known for `FailureChangesNothing` only.
2. The hazards without a property: what the screens show after a mutation that was not
   synchronized, and a texture that is loaded again in every epoch.
3. A type invariant of `CatalogBrowser`: so far `IInv` and `ScreenInv` type the parts its
   functions rely on.

## Not modelled

Drawing and layout, what makes an entry of a file malformed, the enumeration of a
directory, decoding and uploading of textures (calls to DirectX without a state of their
own), logging, and `queryAvailable`, which the menu never calls. `include` holds third
party headers: `SKSEMenuFramework.h` alone is 11,216 of the repository's 19,152 lines.
Of what remains, `OfficialMenuFrameworkAdapter` is mostly layout; its conditions and the
order of its calls are in `SlotWorkflow`, `CatalogBrowser`, `Plugin` and
`ThumbnailFrames`.
