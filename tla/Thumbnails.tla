----------------------------- MODULE Thumbnails -----------------------------
(***************************************************************************)
(* The thumbnails of the visible page: NativeThumbnailController, the      *)
(* runtime that pumps it and the D3D11 source that loads textures.         *)
(*                                                                         *)
(* A caller draws frames: it synchronizes the page it shows, pumps the     *)
(* queue and reads the views.  The scheduler runs the loads elsewhere.     *)
(* Two locks order them: the controller's, which an action holds for as    *)
(* long as it takes, and the source's, which an upload keeps from its last *)
(* check to the end.  A synchronization holds neither between its steps.   *)
(*                                                                         *)
(* A texture is its key in the cache.  A request the scheduler refuses     *)
(* never runs and one it accepts runs once, so the flag that lets only one *)
(* of them complete it is left out.                                        *)
(***************************************************************************)
EXTENDS FiniteSets, TextureCache, TexturePaths

CONSTANTS
  Epoch,             \* catalog snapshots and slot areas
  Drawing,           \* what a frame may ask for: an epoch, or None, and paths
                     \* as the catalog and the slots spell them
  Caller,            \* the threads that draw; one in the game
  MaxVisible, Capacity,
  MaxRevision, MaxResets, MaxDeviceChanges  \* bounds

RawPath == UNION {ToSet(f.paths) : f \in Drawing}
Canonical == [r \in RawPath |-> CanonicalPath(r)]
Path == {Canonical[r] : r \in RawPath}
Key == [p \in Path |-> CacheKey(p)]

\* A path is shown once, in source order, and only the first MaxVisible are.
VisiblePaths(raw) ==
  LET paths == [i \in DOMAIN raw |-> Canonical[raw[i]]]
      firsts == {i \in DOMAIN raw : \A j \in 1 .. i - 1 : paths[j] # paths[i]}
  IN  At(paths, {i \in firsts : Cardinality({j \in firsts : j < i}) < MaxVisible})

PageOf(f) == [epoch |-> f.epoch, paths |-> VisiblePaths(f.paths)]

\* The page before any other: that of a picker without a catalog.
EmptyPage == [epoch |-> None, paths |-> <<>>]

Page == {PageOf(f) : f \in Drawing} \cup {EmptyPage}

ASSUME NoneAssumption ==
  /\ None \notin Path /\ None \notin Epoch /\ None \notin Page
  /\ \A p \in Path : Key[p] = None => Refused(p)
ASSUME DrawingAssumption ==
  \A f \in Drawing : f.epoch \in Epoch \cup {None} /\ f.paths \in Seq(Seq(Character))
ASSUME BoundsAssumption ==
  {MaxVisible, Capacity, MaxRevision, MaxResets, MaxDeviceChanges} \subseteq Nat

Failure == {"missing", "broken"}
Status == {"placeholder", "loading", "ready"} \cup Failure
Result == {"ready", "deviceUnavailable", "cancelled"} \cup Failure

VARIABLES
  shown,        \* the page published: its epoch and paths
  views,        \* [visible path -> its status]
  generation,   \* of the page published
  pending,      \* the page whose lookup is under way, or None
  revision,     \* of the last synchronization
  queue,        \* the paths waiting for a load
  inFlight,     \* the request handed out, in a set of one, or {}
  negative,     \* [Path -> the failure remembered, or None]
  unavailable,  \* the paths whose load found no device
  call,         \* [Caller -> what the thread does]
  tasks,        \* the loads scheduled, with the stage each is in
  cache,        \* the source's textures, last used first
  device,       \* whether the source has a device
  asked,        \* the frame last drawn, or None if it was given up
                \* (a history value)
  resets, deviceChanges  \* counted against their bounds

pageVars == <<shown, views, generation, pending, revision>>
workVars == <<queue, inFlight, negative, unavailable>>
envVars == <<device, resets, deviceChanges>>
vars == <<pageVars, workVars, call, tasks, cache, asked, envVars>>

Idle == [step |-> "idle"]

Init ==
  /\ shown = EmptyPage /\ views = <<>> /\ generation = 0
  /\ pending = None /\ revision = 0
  /\ queue = <<>> /\ inFlight = {}
  /\ negative = [p \in Path |-> None] /\ unavailable = {}
  /\ call = [c \in Caller |-> Idle]
  /\ tasks = {} /\ cache = <<>>
  /\ device = TRUE /\ asked = None
  /\ resets = 0 /\ deviceChanges = 0

Loading(requests) == {r.path : r \in requests}

\* Mutant: a path that is being loaded is queued as well.
QueueIfPlaceholder(waiting, paths) ==
  queue' = waiting \o Passing(paths, LAMBDA p : p \in DOMAIN views'
                                         /\ views'[p] = "placeholder"
                                         /\ negative'[p] = None
                                         /\ p \notin unavailable'
                                         /\ ~Contains(waiting, p))

\* Mutant: a path that is not a placeholder is queued as well.
QueueUnlessFailed(waiting, paths) ==
  queue' = waiting \o Passing(paths, LAMBDA p : p \in DOMAIN views'
                                         /\ negative'[p] = None
                                         /\ p \notin unavailable'
                                         /\ ~Contains(waiting, p)
                                         /\ p \notin Loading(inFlight'))

\* queueIfEligibleLocked for each of the paths, at the end of a handler.
QueueIfEligible(waiting, paths) ==
  LET Eligible(p) ==
        /\ p \in DOMAIN views' /\ views'[p] = "placeholder"
        /\ negative'[p] = None /\ p \notin unavailable'
        /\ ~Contains(waiting, p)
        /\ p \notin Loading(inFlight')
  IN  queue' = waiting \o Passing(paths, Eligible)

\* The source's lock is kept by an upload.
SourceFree == \A t \in tasks : t.stage # "insert"

Hit(path) == Key[path] # None /\ Contains(cache, Key[path])

-----------------------------------------------------------------------------
(* NativeThumbnailRuntime::synchronize.                                    *)

Goes(c, step) == call' = [call EXCEPT ![c] = [step |-> step]]

\* The page is published already; a lookup for another page is obsolete.
SamePage(c, page) ==
  /\ shown = page
  /\ IF pending \in {None, page}
     THEN UNCHANGED <<pending, revision>>
     ELSE pending' = None /\ revision' = revision + 1
  /\ Goes(c, "pump")
  /\ UNCHANGED <<shown, views, generation>>

\* Another thread is looking it up.
SamePending(c, page) ==
  /\ shown # page /\ pending = page
  /\ Goes(c, "pump")
  /\ UNCHANGED pageVars

StartLookup(c, page) ==
  /\ shown # page /\ pending # page
  /\ revision < MaxRevision
  /\ revision' = revision + 1
  /\ pending' = page
  /\ call' = [call EXCEPT ![c] =
       [step |-> "lookup", revision |-> revision + 1, page |-> page,
        device |-> device, todo |-> page.paths, found |-> {}]]
  /\ UNCHANGED <<shown, views, generation>>

Synchronize(c) ==
  /\ call[c].step = "idle"
  /\ \E f \in Drawing :
       /\ \/ SamePage(c, PageOf(f)) \/ SamePending(c, PageOf(f))
          \/ StartLookup(c, PageOf(f))
       /\ asked' = f
  /\ UNCHANGED <<workVars, tasks, cache, envVars>>

\* Without a device nothing is looked up.
Lookup(c) ==
  /\ call[c].step = "lookup" /\ call[c].todo # <<>>
  /\ LET path == Head(call[c].todo)
         hit == call[c].device /\ Hit(path)
     IN  /\ call[c].device => SourceFree
         /\ cache' = IF hit THEN Touch(cache, Key[path]) ELSE cache
         /\ call' = [call EXCEPT ![c].todo = Tail(@),
                                 ![c].found = @ \cup IF hit THEN {path} ELSE {}]
  /\ UNCHANGED <<pageVars, workVars, tasks, asked, envVars>>

\* Mutant: a lookup publishes its page whatever was asked for since.
AnyLookup(c) == TRUE

IsLatest(c) == call[c].revision = revision

\* Mutant: the page stays pending.
KeepPending(c) == UNCHANGED <<pending, asked>>

GiveUp(c) ==
  IF IsLatest(c) THEN pending' = None /\ asked' = None
  ELSE UNCHANGED <<pending, asked>>

\* The exception ends the frame.  The bound keeps it from ending the last.
LookupThrows(c) ==
  /\ call[c].step = "lookup" /\ call[c].todo # <<>>
  /\ revision < MaxRevision
  /\ GiveUp(c)
  /\ Goes(c, "idle")
  /\ UNCHANGED <<shown, views, generation, revision, workVars, tasks, cache, envVars>>

PublishedStatus(path, found) ==
  IF negative'[path] # None THEN negative'[path]
  ELSE IF path \in found THEN "ready" ELSE "placeholder"

Publish(page, found) ==
  /\ IF shown.epoch # page.epoch
     THEN negative' = [p \in Path |-> None] /\ unavailable' = {}
     ELSE UNCHANGED <<negative, unavailable>>
  /\ shown' = page
  /\ generation' = generation + 1
  /\ views' = [p \in ToSet(page.paths) |-> PublishedStatus(p, found)]
  /\ UNCHANGED inFlight
  /\ QueueIfEligible(<<>>, page.paths)

EndLookup(c) ==
  /\ call[c].step = "lookup" /\ call[c].todo = <<>>
  /\ IF IsLatest(c)
     THEN /\ pending' = None
          /\ Publish(call[c].page, call[c].found)
     ELSE UNCHANGED <<pending, shown, generation, views, workVars>>
  /\ Goes(c, "pump")
  /\ UNCHANGED <<revision, tasks, cache, asked, envVars>>

-----------------------------------------------------------------------------
(* complete, isCurrent and takeNextRequest.                                *)

SameRequest(r, s) == r.generation = s.generation /\ r.path = s.path

InFlight(request) == \E r \in inFlight : SameRequest(r, request)

IsCurrent(request) == InFlight(request) /\ request.generation = generation

\* The view keeps what it shows of the path, and may be queued again.
Abandon(path) ==
  /\ UNCHANGED <<views, negative, unavailable>>
  /\ IF path \in DOMAIN views THEN QueueIfEligible(queue, <<path>>)
     ELSE UNCHANGED queue

Show(path, status) ==
  views' = IF path \in DOMAIN views THEN [views EXCEPT ![path] = status] ELSE views

Settle(request, result) ==
  CASE result = "ready" ->
         Show(request.path, "ready") /\ UNCHANGED <<queue, negative, unavailable>>
    [] result \in Failure ->
         /\ negative' = [negative EXCEPT ![request.path] = result]
         /\ Show(request.path, result)
         /\ UNCHANGED <<queue, unavailable>>
    [] result = "deviceUnavailable" ->
         /\ unavailable' = unavailable \cup {request.path}
         /\ Show(request.path, "placeholder")
         /\ UNCHANGED <<queue, negative>>
    [] result = "cancelled" ->
         /\ Show(request.path, "placeholder")
         /\ UNCHANGED <<negative, unavailable>>
         /\ QueueIfEligible(queue, <<request.path>>)

\* Mutant: a load that ends for another page leaves its path waiting.
CompleteForgets(request, result) ==
  IF ~InFlight(request)
  THEN UNCHANGED <<views, workVars>>
  ELSE /\ inFlight' = {}
       /\ IF request.generation # generation
          THEN UNCHANGED <<views, queue, negative, unavailable>>
          ELSE Settle(request, result)

Complete(request, result) ==
  IF ~InFlight(request)
  THEN UNCHANGED <<views, workVars>>
  ELSE /\ inFlight' = {}
       /\ IF request.generation # generation
          THEN Abandon(request.path)
          ELSE Settle(request, result)

-----------------------------------------------------------------------------
(* NativeThumbnailRuntime::pump.                                           *)

\* Entries expire; nothing is requested without a device.
PumpPrunes(c) ==
  /\ call[c].step = "pump"
  /\ SourceFree
  /\ \E expired \in SUBSET ToSet(cache) : cache' = Prune(cache, expired)
  /\ Goes(c, IF device THEN "take" ELSE "idle")
  /\ UNCHANGED <<pageVars, workVars, tasks, asked, envVars>>

\* Nothing waits, or a request is out.
TakesNothing(c) ==
  /\ call[c].step = "take"
  /\ inFlight # {} \/ queue = <<>>
  /\ Goes(c, "idle")
  /\ UNCHANGED <<pageVars, workVars, tasks, cache, asked, envVars>>

TakeNextRequest(c) ==
  /\ call[c].step = "take"
  /\ inFlight = {} /\ queue # <<>>
  /\ LET request == [generation |-> generation, path |-> Head(queue)]
     IN  /\ inFlight' = {request}
         /\ call' = [call EXCEPT ![c] = [step |-> "schedule", request |-> request]]
         /\ Show(request.path, "loading")
  /\ queue' = Tail(queue)
  /\ UNCHANGED <<shown, generation, pending, revision, negative, unavailable, tasks,
                 cache, asked, envVars>>

SchedulerAccepts(c) ==
  /\ call[c].step = "schedule"
  /\ tasks' = tasks \cup {[request |-> call[c].request, stage |-> "start"]}
  /\ Goes(c, "idle")
  /\ UNCHANGED <<pageVars, workVars, cache, asked, envVars>>

\* Mutant: the request stays in flight.
SchedulerThrowsSilently(c) ==
  /\ call[c].step = "schedule"
  /\ Goes(c, "idle")
  /\ UNCHANGED <<pageVars, workVars, tasks, cache, asked, envVars>>

SchedulerThrows(c) ==
  /\ call[c].step = "schedule"
  /\ Complete(call[c].request, "broken")
  /\ Goes(c, "idle")
  /\ UNCHANGED <<shown, generation, pending, revision, tasks, cache, asked, envVars>>

-----------------------------------------------------------------------------
(* The scheduled task: D3D11NativeThumbnailSource::load, then complete.    *)

Moves(t, stage) ==
  tasks' = (tasks \ {t}) \cup {[request |-> t.request, stage |-> stage]}

Answers(t, result) ==
  tasks' = (tasks \ {t}) \cup
             {[request |-> t.request, stage |-> "complete", result |-> result]}

LoadUnchanged == UNCHANGED <<pageVars, workVars, call, asked, envVars>>

LoadBegins(t) ==
  /\ t.stage = "start"
  /\ IF ~device THEN Answers(t, "deviceUnavailable")
     ELSE IF ~IsCurrent(t.request) THEN Answers(t, "cancelled")
     ELSE Moves(t, "find")
  /\ LoadUnchanged /\ UNCHANGED cache

LoadFinds(t) ==
  /\ t.stage = "find" /\ SourceFree
  /\ IF Hit(t.request.path)
     THEN cache' = Touch(cache, Key[t.request.path]) /\ Answers(t, "ready")
     ELSE UNCHANGED cache /\ Moves(t, "resolve")
  /\ LoadUnchanged

\* Reading the file may throw.
LoadResolves(t) ==
  /\ t.stage = "resolve"
  /\ \/ Answers(t, "broken")
     \/ \E loose \in LooseAnswer, archive \in Answer :
          LET answer == Resolve(t.request.path, loose, archive)
          IN  IF answer # "bytes" THEN Answers(t, ResolveFailure(answer))
              ELSE IF IsCurrent(t.request) THEN Moves(t, "upload")
              ELSE Answers(t, "cancelled")
  /\ LoadUnchanged /\ UNCHANGED cache

\* From here on the load keeps the source's lock.
LoadLocks(t) ==
  /\ t.stage = "upload" /\ SourceFree
  /\ IF IsCurrent(t.request) THEN Moves(t, "insert") ELSE Answers(t, "cancelled")
  /\ LoadUnchanged /\ UNCHANGED cache

LoadUploads(t) ==
  /\ t.stage = "insert"
  /\ \/ Answers(t, "broken") /\ UNCHANGED cache
     \/ /\ Answers(t, "ready")
        /\ cache' = IF Hit(t.request.path) THEN Touch(cache, Key[t.request.path])
                    ELSE Insert(cache, Key[t.request.path], Capacity)
  /\ LoadUnchanged

LoadCompletes(t) ==
  /\ t.stage = "complete"
  /\ Complete(t.request, t.result)
  /\ tasks' = tasks \ {t}
  /\ UNCHANGED <<shown, generation, pending, revision, call, cache, asked, envVars>>

-----------------------------------------------------------------------------
(* reset, a lost device and its retry.                                     *)

\* Mutant: clearing forgets the request that is out.
ClearInFlight == inFlight' = {}

KeepInFlight == UNCHANGED inFlight

\* The bound on the revision leaves one for a page to be shown.
Clear(c) ==
  /\ call[c].step = "idle"
  /\ resets < MaxResets /\ revision + 1 < MaxRevision
  /\ resets' = resets + 1
  /\ shown' = EmptyPage /\ views' = <<>> /\ generation' = generation + 1
  /\ pending' = None /\ revision' = revision + 1
  /\ queue' = <<>> /\ KeepInFlight
  /\ negative' = [p \in Path |-> None] /\ unavailable' = {}
  /\ asked' = None
  /\ Goes(c, "clearSource")
  /\ UNCHANGED <<tasks, cache, device, deviceChanges>>

ClearSource(c) ==
  /\ call[c].step = "clearSource"
  /\ SourceFree
  /\ cache' = <<>>
  /\ Goes(c, "idle")
  /\ UNCHANGED <<pageVars, workVars, tasks, asked, envVars>>

RetryDeviceUnavailable ==
  /\ unavailable # {}
  /\ unavailable' = {}
  /\ UNCHANGED <<pageVars, inFlight, negative, call, tasks, cache, asked, envVars>>
  /\ QueueIfEligible(queue, Passing(shown.paths, LAMBDA p : p \in unavailable))

DeviceChanges ==
  /\ deviceChanges < MaxDeviceChanges
  /\ device' = ~device
  /\ deviceChanges' = deviceChanges + 1
  /\ UNCHANGED <<pageVars, workVars, call, tasks, cache, asked, resets>>

-----------------------------------------------------------------------------
Draw(c) ==
  \/ Synchronize(c)
  \/ Lookup(c) \/ EndLookup(c)
  \/ PumpPrunes(c)
  \/ TakesNothing(c) \/ TakeNextRequest(c)
  \/ SchedulerAccepts(c) \/ SchedulerThrows(c)

Load(t) ==
  \/ LoadBegins(t) \/ LoadFinds(t) \/ LoadResolves(t)
  \/ LoadLocks(t) \/ LoadUploads(t) \/ LoadCompletes(t)

Next ==
  \/ \E c \in Caller : Draw(c) \/ LookupThrows(c) \/ Clear(c) \/ ClearSource(c)
  \/ \E t \in tasks : Load(t)
  \/ RetryDeviceUnavailable
  \/ DeviceChanges

Spec == Init /\ [][Next]_vars

\* The window is open, so frames go on, and the scheduler runs what it accepted.
Fairness ==
  /\ \A c \in Caller : WF_vars(Draw(c))
  /\ WF_vars(\E t \in tasks : Load(t))

LiveSpec == Spec /\ Fairness

-----------------------------------------------------------------------------
(* Properties.                                                             *)

Request == [generation : Nat, path : Path]

CallType ==
  [step : {"idle", "pump", "take", "clearSource"}]
    \cup [step : {"schedule"}, request : Request]
    \cup [step : {"lookup"}, revision : Nat, page : Page, device : BOOLEAN,
          todo : Seq(Path), found : SUBSET Path]

TaskType ==
  [request : Request, stage : {"start", "find", "resolve", "upload", "insert"}]
    \cup [request : Request, stage : {"complete"}, result : Result]

\* Every member keeps its type; there is a view for each path of the page, and the
\* cache (TextureCache.h) holds every key once and not more than its capacity.
TypeOK ==
  /\ shown \in Page
  /\ views \in [ToSet(shown.paths) -> Status]
  /\ generation \in Nat /\ revision \in Nat
  /\ pending \in Page \cup {None}
  /\ queue \in Seq(Path)
  /\ inFlight \subseteq Request /\ Cardinality(inFlight) <= 1
  /\ negative \in [Path -> Failure \cup {None}]
  /\ unavailable \subseteq Path
  /\ call \in [Caller -> CallType]
  /\ tasks \subseteq TaskType
  /\ cache \in Seq({Key[p] : p \in Path} \ {None})
  /\ IsInjective(cache) /\ Len(cache) <= Capacity
  /\ device \in BOOLEAN /\ asked \in Drawing \cup {None}
  /\ resets \in 0 .. MaxResets /\ deviceChanges \in 0 .. MaxDeviceChanges

\* What waits for a load is a placeholder of the page, once, that did not fail
\* before and is not being loaded (queueIfEligibleLocked, whatever moved since).
QueueSound ==
  /\ IsInjective(queue)
  /\ \A p \in ToSet(queue) :
       /\ p \in DOMAIN views /\ views[p] = "placeholder"
       /\ negative[p] = None /\ p \notin unavailable
       /\ p \notin Loading(inFlight)

\* No view waits for a load nobody will do: a placeholder is in the queue, lacks a
\* device, or its path is being loaded for an earlier page; a view that loads is
\* the request in flight.
NoViewStranded ==
  \A p \in DOMAIN views :
    /\ views[p] = "placeholder" =>
         \/ Contains(queue, p) \/ p \in unavailable
         \/ \E r \in inFlight : r.path = p /\ r.generation # generation
    /\ views[p] = "loading" =>
         \E r \in inFlight : r.path = p /\ r.generation = generation

\* The requests handed out and not yet answered.
Outstanding ==
  {t.request : t \in tasks}
    \cup {call[c].request : c \in {d \in Caller : call[d].step = "schedule"}}

\* At most one load is under way and it is the request in flight, so a request
\* never stays in flight without one, whoever threw and even across a reset.
OneLoad ==
  /\ Outstanding = inFlight
  /\ Cardinality(tasks) + Cardinality({c \in Caller : call[c].step = "schedule"}) <= 1

\* A frame that returns because its page is being looked up can rely on it: the
\* lookup goes on, and it is the latest.
PendingIsLookedUp ==
  pending # None =>
    \E c \in Caller :
      call[c].step = "lookup" /\ IsLatest(c) /\ call[c].page = pending

\* The view a card is drawn with (findCatalogThumbnailViewIndex).
CardViews(raw) == {p \in DOMAIN views : EquivalentPaths(raw, p)}

\* The last frame wins: its page is being looked up, or it is shown.
LastFrameWins ==
  asked # None =>
    IF pending # None THEN pending = PageOf(asked) ELSE shown = PageOf(asked)

\* The last frame wins, and when it is shown each card, however its path is
\* spelled, finds one view, which is of the texture its path names.
AskedIsShown ==
  /\ LastFrameWins
  /\ asked # None /\ pending = None =>
       \A i \in DOMAIN asked.paths :
         i <= MaxVisible =>
           \E p \in DOMAIN views : /\ CardViews(asked.paths[i]) = {p}
                                   /\ Key[p] = CacheKey(asked.paths[i])

\* While a page stays, a view that settled keeps its thumbnail or its failure.
SettledStays ==
  [][shown' = shown =>
       \A p \in DOMAIN views :
         views[p] \in {"ready"} \cup Failure => views'[p] = views[p]]_vars

\* Every thumbnail that is visible ends as ready, missing or broken, or its page
\* is left.
ThumbnailsSettle ==
  \A p \in Path :
    (p \in DOMAIN views /\ views[p] = "placeholder") ~>
      (p \notin DOMAIN views \/ views[p] \in {"ready"} \cup Failure)
=============================================================================
