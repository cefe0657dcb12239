--------------------------- MODULE CatalogBrowser ---------------------------
(***************************************************************************)
(* The picker: TattooCatalogStore, NativeCatalogBrowserModel and the       *)
(* frames of the picker screen (OfficialMenuFrameworkAdapter).             *)
(*                                                                         *)
(* The store is swapped by a load of the catalog; the browser notices in   *)
(* the next frame of the picker.  The browser's functions are operators on *)
(* its record, because a frame calls several of them.  A frame takes at    *)
(* most one gesture; a window that is closed draws none.                   *)
(***************************************************************************)
EXTENDS Catalog

CONSTANTS
  Area,       \* the areas of the workflow, as areaName spells them
  Disk,       \* directories a load may find
  Search,     \* searches the user may type
  Number,     \* page numbers the user may type
  MaxLoads    \* bound on the loads of the catalog

ASSUME AreaAssumption == Area \subseteq Text \ {""} /\ Area # {}
ASSUME SearchAssumption == Search \subseteq Text
ASSUME NumberAssumption == Number \subseteq Int
ASSUME DiskAssumption ==
  \A dir \in Disk : /\ DOMAIN dir \subseteq Source
                    /\ \A s \in Readable(dir) :
                         dir[s] \in Seq(Fields \cup {Malformed})
                    /\ IsFiniteSet(Parse(dir))
ASSUME MaxLoadsAssumption == MaxLoads \in Nat

VARIABLES
  store,         \* the snapshot published, or None
  loads,         \* loads tried
  browser,       \* the browser: its snapshot, filter and page
  screen,        \* the screen of the workflow, as far as the picker goes
  drawing,       \* a frame of the picker has begun
  selectedArea,  \* the area of the workflow
  box,           \* the page number box (CatalogBrowserPageInputState)
  focused,       \* the box has the keyboard
  text,          \* the number typed in it, or None
  typedHere      \* it was typed at the page shown (a history value)

storeVars == <<store, loads>>
screenVars == <<screen, selectedArea>>
focusVars == <<focused, text, typedHere>>
vars == <<storeVars, browser, screenVars, drawing, box, focusVars>>

NoFilter == [search |-> "", source |-> "", section |-> "", area |-> "",
             index |-> 0]
NoPage == [entries |-> <<>>, total |-> 0, matched |-> 0, index |-> 0,
           count |-> 0]

Init ==
  /\ store = None /\ loads = 0
  /\ browser = [snapshot |-> None, filter |-> NoFilter, page |-> NoPage]
  /\ screen = "slots" /\ drawing = FALSE /\ selectedArea \in Area
  /\ box = [pending |-> 0, committed |-> 0, count |-> 0, editing |-> FALSE]
  /\ focused = FALSE /\ text = None /\ typedHere = FALSE

-----------------------------------------------------------------------------
(* NativeCatalogBrowserModel.                                              *)

\* query
Requery(b) ==
  IF b.snapshot = None THEN [b EXCEPT !.page = NoPage]
  ELSE LET page == Query(b.snapshot.entries, b.filter)
       IN  [b EXCEPT !.page = page, !.filter.index = page.index]

\* Mutant: a snapshot is taken as new in every frame.
RefreshAlways(b, snapshot) ==
  Requery([b EXCEPT !.snapshot = snapshot, !.filter = NoFilter])

Refresh(b, snapshot) ==
  IF snapshot = b.snapshot THEN b
  ELSE Requery([b EXCEPT !.snapshot = snapshot, !.filter = NoFilter])

SourceOffered(b, f) == f.source \in FacetSources(b.snapshot.entries, f)
SectionOffered(b, f) ==
  \E t \in FacetSections(b.snapshot.entries, f) : Fold[t] = Fold[f.section]

\* Mutant: the section is looked up under a source that is gone.
ReconcileAtOnce(b) ==
  LET f == b.filter IN
  IF b.snapshot = None
    THEN [b EXCEPT !.filter.source = "", !.filter.section = ""]
    ELSE [b EXCEPT
           !.filter.source = IF SourceOffered(b, f) THEN @ ELSE "",
           !.filter.section = IF SectionOffered(b, f) THEN @ ELSE ""]

\* reconcileContextualFilters: first the source, then the section under the
\* source that is left.
Reconcile(b) ==
  IF b.snapshot = None
  THEN [b EXCEPT !.filter.source = "", !.filter.section = ""]
  ELSE LET sourced == IF SourceOffered(b, b.filter) THEN b.filter
                      ELSE [b.filter EXCEPT !.source = ""]
       IN  [b EXCEPT !.filter = IF SectionOffered(b, sourced) THEN sourced
                                ELSE [sourced EXCEPT !.section = ""]]

SetSearch(b, value) ==
  Requery([b EXCEPT !.filter.search = value, !.filter.index = 0])

\* Mutant: the page index stays.
SetSourceKeepsIndex(b, value) ==
  Requery(Reconcile([b EXCEPT !.filter.source = value]))

SetSource(b, value) ==
  Requery(Reconcile([b EXCEPT !.filter.source = value, !.filter.index = 0]))

SetSection(b, value) ==
  Requery(Reconcile([b EXCEPT !.filter.section = value, !.filter.index = 0]))

SetArea(b, value) ==
  Requery(Reconcile([b EXCEPT !.filter.area = value, !.filter.index = 0]))

PreviousPage(b) ==
  IF b.filter.index = 0 THEN b
  ELSE Requery([b EXCEPT !.filter.index = @ - 1])

\* Mutant: the page is not looked up.
NextPageOnly(b) ==
  IF b.page.count = 0 \/ b.filter.index + 1 >= b.page.count THEN b
  ELSE [b EXCEPT !.filter.index = @ + 1]

NextPage(b) ==
  IF b.page.count = 0 \/ b.filter.index + 1 >= b.page.count THEN b
  ELSE Requery([b EXCEPT !.filter.index = @ + 1])

SetPageNumber(b, number) ==
  Requery([b EXCEPT !.filter.index = IF number = 0 THEN 0 ELSE number - 1])

-----------------------------------------------------------------------------
(* CatalogBrowserPageInputState.                                           *)

PageNumber(page) == IF page.count = 0 THEN 0 ELSE page.index + 1

\* Mutant: the number shown is always that of the page.
SynchronizeAlways(x, page) ==
  [pending |-> PageNumber(page), committed |-> PageNumber(page),
   count |-> page.count, editing |-> x.editing /\ page.count # 0]

\* synchronize: a number that is being edited stays while the page does.
Synchronize(x, page) ==
  [pending |-> IF \/ ~x.editing
                  \/ PageNumber(page) # x.committed \/ page.count # x.count
                 THEN PageNumber(page) ELSE x.pending,
   committed |-> PageNumber(page),
   count |-> page.count,
   editing |-> x.editing /\ page.count # 0]

\* finishFrame of a frame that commits no number.
FinishFrame(x, active) == [x EXCEPT !.editing = active /\ x.count # 0]

-----------------------------------------------------------------------------
(* The store and the workflow around the picker.                           *)

\* TattooCatalogStore::refresh
PublishCatalog(dir) ==
  /\ loads < MaxLoads /\ loads' = loads + 1
  /\ store' = [version |-> loads', entries |-> LoadCatalog(dir).entries,
               issues |-> LoadCatalog(dir).issues]
  /\ UNCHANGED <<browser, screenVars, drawing, box, focusVars>>

\* A scan that meets an error publishes nothing.
LoadFails ==
  /\ loads < MaxLoads /\ loads' = loads + 1
  /\ UNCHANGED <<store, browser, screenVars, drawing, box, focusVars>>

SelectArea(area) ==
  /\ screen = "slots" /\ selectedArea' = area
  /\ UNCHANGED <<storeVars, browser, screen, drawing, box, focusVars>>

\* NativeSlotWorkflowModel::openPicker
OpenPicker ==
  /\ screen = "slots" /\ screen' = "picker"
  /\ browser' = IF Fold[browser.filter.area] = Fold[selectedArea] THEN browser
                ELSE SetArea(browser, selectedArea)
  /\ UNCHANGED <<storeVars, drawing, selectedArea, box, focusVars>>

\* The preview is cancelled, or its tattoo is applied.
LeavePreview ==
  /\ screen = "preview" /\ screen' = "slots"
  /\ UNCHANGED <<storeVars, browser, drawing, selectedArea, box, focusVars>>

-----------------------------------------------------------------------------
(* renderFoundation on the picker screen.                                  *)

\* Mutant: the area is not set again after a new snapshot.
BeginFrameRefreshOnly ==
  /\ screen = "picker" /\ ~drawing /\ drawing' = TRUE
  /\ browser' = Refresh(browser, store)
  /\ typedHere' = (typedHere /\ browser'.page.index = browser.page.index
                             /\ browser'.page.count = browser.page.count)
  /\ UNCHANGED <<storeVars, screenVars, box, focused, text>>

BeginFrame ==
  /\ screen = "picker" /\ ~drawing /\ drawing' = TRUE
  /\ LET refreshed == Refresh(browser, store)
     IN  browser' = IF refreshed.filter.area = selectedArea THEN refreshed
                    ELSE SetArea(refreshed, selectedArea)
  /\ typedHere' = (typedHere /\ browser'.page.index = browser.page.index
                             /\ browser'.page.count = browser.page.count)
  /\ UNCHANGED <<storeVars, screenVars, box, focused, text>>

\* The end of a frame that draws the box for a page and leaves it alone.
EndFrame(page) ==
  /\ drawing /\ drawing' = FALSE
  /\ box' = FinishFrame(Synchronize(box, page), FALSE)
  /\ UNCHANGED <<storeVars, selectedArea, focusVars>>

\* A gesture beside the box first takes the keyboard from it.
Gesture(page) == ~focused /\ EndFrame(page)

Changed(new) == browser' = new /\ UNCHANGED screen

Facets == IF browser.snapshot = None THEN [sources |-> {}, sections |-> {}]
          ELSE [sources |-> FacetSources(browser.snapshot.entries, browser.filter),
                sections |-> FacetSections(browser.snapshot.entries, browser.filter)]

Draw == Gesture(browser.page) /\ UNCHANGED <<browser, screen>>

EnterSearch(value) ==
  /\ Changed(SetSearch(browser, value))
  /\ Gesture(browser'.page)

ChooseSource(value) ==
  /\ Changed(SetSource(browser, value))
  /\ Gesture(browser'.page)

ChooseSection(value) ==
  /\ Changed(SetSection(browser, value))
  /\ Gesture(browser'.page)

\* A card is clicked; the workflow takes a tattoo of its area only.
ClickCard(d) ==
  /\ Gesture(browser.page)
  /\ screen' = IF Fold[d.fields.area] = Fold[selectedArea] THEN "preview"
               ELSE screen
  /\ UNCHANGED browser

\* The box is drawn after the one button and before the other.
ClickPrevious ==
  /\ browser.page.count # 0 /\ browser.page.index # 0
  /\ Changed(PreviousPage(browser))
  /\ Gesture(browser'.page)

ClickNext ==
  /\ browser.page.count # 0 /\ browser.page.index + 1 < browser.page.count
  /\ Changed(NextPage(browser))
  /\ Gesture(browser.page)

ClickCancel ==
  /\ Gesture(browser.page)
  /\ screen' = "slots" /\ UNCHANGED browser

\* What InputInt leaves in the box: it may write the text again.
Drawn(x) == {x} \cup (IF text = None THEN {} ELSE {[x EXCEPT !.pending = text]})

\* The box has the keyboard, or gets it.
KeepFocus ==
  /\ drawing /\ drawing' = FALSE
  /\ focused' = TRUE
  /\ \E x \in Drawn(Synchronize(box, browser.page)) : box' = FinishFrame(x, TRUE)
  /\ UNCHANGED <<storeVars, browser, screenVars, text, typedHere>>

TypeNumber(n) ==
  /\ drawing /\ drawing' = FALSE
  /\ focused /\ text' = n /\ typedHere' = TRUE
  /\ box' = FinishFrame([Synchronize(box, browser.page) EXCEPT !.pending = n], TRUE)
  /\ UNCHANGED <<storeVars, browser, screenVars, focused>>

\* The box loses the keyboard; a number that was typed is committed.
LeaveBox ==
  /\ focused /\ drawing /\ drawing' = FALSE
  /\ \E x \in Drawn(Synchronize(box, browser.page)) :
       /\ box' = FinishFrame(x, FALSE)
       /\ browser' = IF text = None \/ x.count = 0 THEN browser
                     ELSE SetPageNumber(browser, IF x.pending > 0 THEN x.pending
                                                 ELSE 0)
  /\ focused' = FALSE /\ text' = None /\ typedHere' = FALSE
  /\ UNCHANGED <<storeVars, screenVars>>

\* The window is closed by the hotkey while the box has the keyboard.
CloseWindow ==
  /\ focused /\ ~drawing
  /\ focused' = FALSE /\ text' = None /\ typedHere' = FALSE
  /\ UNCHANGED <<storeVars, browser, screenVars, drawing, box>>

Filtering ==
  \/ \E value \in Search : EnterSearch(value)
  \/ \E value \in Facets.sources \cup {""} : ChooseSource(value)
  \/ \E value \in Facets.sections \cup {""} : ChooseSection(value)

Cards == {browser.page.entries[i] : i \in DOMAIN browser.page.entries}

Next ==
  \/ \E dir \in Disk : PublishCatalog(dir)
  \/ LoadFails
  \/ \E area \in Area : SelectArea(area)
  \/ OpenPicker \/ LeavePreview
  \/ BeginFrame
  \/ Draw \/ Filtering
  \/ \E d \in Cards : ClickCard(d)
  \/ ClickPrevious \/ ClickNext \/ ClickCancel
  \/ KeepFocus \/ (\E n \in Number : TypeNumber(n)) \/ LeaveBox \/ CloseWindow

Spec == Init /\ [][Next]_vars

-----------------------------------------------------------------------------
(* Properties.                                                             *)

\* What is drawn is what the repository answers to the filters of now, and
\* both agree on the page: no filter, page turn or new catalog leaves an
\* old page behind (query, lines 142-151).
PageFresh ==
  /\ browser.page = IF browser.snapshot = None THEN NoPage
                    ELSE Query(browser.snapshot.entries, browser.filter)
  /\ browser.filter.index = browser.page.index

\* Without a search, the filters never hide all tattoos of an area that has
\* some: what the facets offer and what the query matches agree.
NoDeadEnd ==
  (/\ browser.snapshot # None /\ browser.filter.search = ""
   /\ \E d \in browser.snapshot.entries : Same(browser.filter.area, d.fields.area))
    => browser.page.matched > 0

\* Turning through the pages shows every match once (query, lines 140-159).
MatchesOnOnePage ==
  browser.snapshot # None =>
    LET entries == browser.snapshot.entries
        pages == {[index |-> i,
                   entries |-> Query(entries, [browser.filter EXCEPT !.index = i]).entries] :
                    i \in 0 .. browser.page.count - 1}
    IN  \A d \in Matching(entries, browser.filter) :
          Cardinality({q \in pages \X (1 .. PageSize) :
                         /\ q[2] \in DOMAIN q[1].entries
                         /\ q[1].entries[q[2]] = d}) = 1

\* A card of the picker is one the workflow accepts: its area is the one
\* selected, after a new snapshot too (lines 1502-1506, 218-222).
CardsCompatible ==
  screen = "picker" =>
    \A d \in Cards : Fold[d.fields.area] = Fold[selectedArea]

\* Frames, cards, closing and coming back leave the filters and the page
\* alone, as long as the catalog and the area are the same.
BrowsingKept ==
  [][(/\ \/ BeginFrame \/ Draw \/ ClickCancel \/ OpenPicker \/ LeavePreview
         \/ KeepFocus \/ CloseWindow \/ \E d \in Cards : ClickCard(d)
      /\ browser.snapshot = store /\ browser.filter.area = selectedArea)
     => UNCHANGED browser]_vars

\* A change of the area or the source drops a filter only if it is not
\* offered any more; the section is judged under the source that is left.
FiltersKept ==
  [][browser'.snapshot = browser.snapshot /\ browser.snapshot # None =>
       LET old == browser.filter  new == browser'.filter
           entries == browser.snapshot.entries
           Offered(t) == \E u \in FacetSections(entries, new) : Fold[u] = Fold[t]
           moved == new.area # old.area
       IN  /\ moved /\ old.source \in FacetSources(entries, new)
                => new.source = old.source
           /\ (moved \/ new.source # old.source) /\ Offered(old.section)
                => new.section = old.section]_vars

\* A number is left in the box while it is typed, and leads to the page it
\* names, or the nearest one, if the pages are still those it was typed for.
JumpsWhereTyped ==
  [][LeaveBox /\ typedHere =>
       browser'.page.index = ClampIndex(IF text > 0 THEN text - 1 ELSE 0,
                                        browser.page.count)]_vars

\* The browser keeps what CatalogCursor promises: other filters and other
\* catalogs start at the first page, and a turn stays within the results.
Cursor ==
  INSTANCE CatalogCursor WITH
    criteria <- [snapshot |-> browser.snapshot,
                 filter |-> [browser.filter EXCEPT !.index = 0]],
    index <- browser.page.index,
    count <- browser.page.count

CursorSpec == Cursor!Spec
=============================================================================
