----------------------------- MODULE PanelTabs -----------------------------
(***************************************************************************)
(* The tabs of one side, kept three times over: CController has the panels *)
(* and which of them is active, CPanelWidget a model and a column layout   *)
(* for each of them, by position, and the QTabBar their ids. Besides, the  *)
(* controller writes the tabs to the settings as they change, for what     *)
(* follows a crash.                                                        *)
(*                                                                         *)
(* What one event of the UI thread does is a function of the side's state. *)
(***************************************************************************)
EXTENDS Integers, Sequences, SequencesExt

CONSTANTS
  Paths,          (* the folders tabs can be in                             *)
  Layouts,        (* the layouts the columns can be given                   *)
  Unset,          (* a column layout that was never stored; also no tab     *)
  MaxTabs,        (* bound: tabs open at a time                             *)
  MaxOpened,      (* bound: tabs opened in one run of the program           *)
  MaxClosed       (* bound: paths of closed tabs kept                       *)

ASSUME TabsAssumption == MaxTabs \in Nat \ {0} /\ MaxOpened \in Nat /\ MaxTabs <= MaxOpened
ASSUME ClosedAssumption == MaxClosed \in Nat
ASSUME LayoutsAssumption == Layouts # {} /\ Unset \notin Layouts \cup (1..MaxOpened)

VARIABLES
  side,           (* the tabs as the three of them keep them, see Side      *)
  recentlyClosed, (* _recentlyClosedTabsPaths                               *)
  opened,         (* _nextTabId                                             *)
  settings,       (* what savePanelState has written                        *)
  pending,        (* the tabs whose new folder has not been listed yet      *)
  given           (* the layout the user gave each tab, kept for the        *)
                  (* property alone                                         *)

vars == <<side, recentlyClosed, opened, settings, pending, given>>

Id == 1..MaxOpened
Tab == [id : Id, path : Paths]
Triplet == [rows : Id \cup {Unset}, header : Layouts \cup {Unset}]
Side == [tabs : Seq(Tab), activeTab : Nat,                             (* CController *)
         triplets : Seq(Triplet), shown : Nat, header : Layouts,       (* CPanelWidget *)
         bar : Seq(Id), current : Nat]                                 (* QTabBar *)

-----------------------------------------------------------------------------
(* CController.                                                            *)

tabIndexById(s, id) == CHOOSE i \in DOMAIN s.tabs : s.tabs[i].id = id
activeTabId(s) == s.tabs[s.activeTab].id

(* What is written; it is compared with what was written last, so that it   *)
(* is always as if it were written.                                         *)
savePanelState(s) ==
  [paths |-> [i \in DOMAIN s.tabs |-> s.tabs[i].path], active |-> s.activeTab]

addTab(s, id, path, activate) ==
  [s EXCEPT !.tabs = Append(@, [id |-> id, path |-> path]),
            !.activeTab = IF activate THEN Len(s.tabs) + 1 ELSE @]

(* The active tab keeps active; when it was the one, its successor is, or   *)
(* the last tab.                                                            *)
closeTab(s, id) ==
  LET idx == tabIndexById(s, id)
      lastLeft == Len(s.tabs) - 1
  IN [s EXCEPT !.tabs = RemoveAt(@, idx),
               !.activeTab = IF @ > idx \/ @ > lastLeft THEN @ - 1 ELSE @]

setActiveTab(s, id) == [s EXCEPT !.activeTab = tabIndexById(s, id)]

(* Where a position ends up when another is moved, here and in the widget.  *)
AfterMove(position, from, to) ==
  IF position = from THEN to
  ELSE IF from < position /\ to >= position THEN position - 1
  ELSE IF from > position /\ to <= position THEN position + 1
  ELSE position

Moved(seq, from, to) == InsertAt(RemoveAt(seq, from), to, seq[from])

moveTabPosition(s, id, to) ==
  LET from == tabIndexById(s, id) IN
  [s EXCEPT !.tabs = Moved(@, from, to), !.activeTab = AfterMove(@, from, to)]

-----------------------------------------------------------------------------
(* CPanelWidget. Its models are filled from the controller's active tab.    *)

fillFromPanel(s) == [s EXCEPT !.triplets[s.shown].rows = activeTabId(s)]

(* The layout in force is kept with the tab that is left.                   *)
saveHeader(s) == [s EXCEPT !.triplets[s.shown].header = s.header]

activateTab(s, index) ==
  fillFromPanel([s EXCEPT !.shown = index,
                          !.header = IF s.triplets[index].header # Unset
                                     THEN s.triplets[index].header ELSE @])

onTabBarCurrentChanged(s, index) ==
  activateTab(setActiveTab(saveHeader(s), s.bar[index]), index)

(* QTabBar::setCurrentIndex, which says so when the tab is another one.     *)
setCurrentIndex(s, index) ==
  IF index = s.current THEN s
  ELSE onTabBarCurrentChanged([s EXCEPT !.current = index], index)

openPathInNewTab(s, id, path, activate) ==
  LET added == [addTab(s, id, path, activate) EXCEPT
                  !.triplets = Append(@, [rows |-> Unset, header |-> s.header]),
                  !.bar = Append(@, id)]
  IN IF activate THEN setCurrentIndex(added, Len(added.bar)) ELSE added

(* Mutant: only a switch keeps the layout in force.                         *)
closeTabById_Forgetful(s, id) ==
  LET index == CHOOSE i \in DOMAIN s.bar : s.bar[i] = id
      closed == closeTab(s, id)
      left == [closed EXCEPT !.triplets = RemoveAt(@, index), !.bar = RemoveAt(@, index)]
      landed == CHOOSE i \in DOMAIN left.bar : left.bar[i] = activeTabId(closed)
  IN activateTab([left EXCEPT !.current = landed], landed)

(* The widget activates a tab in any case, also when it closed another one,  *)
(* whose layout in force must have been kept by then.                       *)
closeTabById(s, id) ==
  LET index == CHOOSE i \in DOMAIN s.bar : s.bar[i] = id
      kept == IF index # s.shown THEN saveHeader(s) ELSE s
      closed == closeTab(kept, id)
      left == [closed EXCEPT !.triplets = RemoveAt(@, index), !.bar = RemoveAt(@, index)]
      landed == CHOOSE i \in DOMAIN left.bar : left.bar[i] = activeTabId(closed)
  IN activateTab([left EXCEPT !.current = landed], landed)

(* The bar has moved the tab when it says so.                               *)
onTabBarTabMoved(s, from, to) ==
  LET moved == [s EXCEPT !.triplets = Moved(@, from, to), !.shown = AfterMove(@, from, to),
                         !.bar = Moved(@, from, to), !.current = AfterMove(@, from, to)]
  IN moveTabPosition(moved, moved.bar[to], to)

-----------------------------------------------------------------------------
(* A run begins with what the settings hold: restorePanelState, then        *)
(* initPanel. The widget knows no layouts but the one of its header.        *)
SideOf(saved, layout) ==
  LET tabs == [i \in DOMAIN saved.paths |-> [id |-> i, path |-> saved.paths[i]]] IN
  fillFromPanel(
    [tabs |-> tabs, activeTab |-> saved.active,
     triplets |-> [i \in DOMAIN tabs |-> [rows |-> Unset, header |-> Unset]],
     shown |-> saved.active, header |-> layout,
     bar |-> [i \in DOMAIN tabs |-> i], current |-> saved.active])

Starts(saved) ==
  /\ recentlyClosed = <<>>
  /\ opened = Len(saved.paths)
  /\ settings = saved
  /\ pending = DOMAIN saved.paths
  /\ given = [id \in Id |-> Unset]
  /\ \E layout \in Layouts : side = SideOf(saved, layout)

(* The first run finds one tab at most, the legacy single path.             *)
Init == \E path \in Paths : Starts([paths |-> <<path>>, active |-> 1])

Saved == settings' = savePanelState(side')

open(path, activate) ==
  /\ Len(side.tabs) < MaxTabs /\ opened < MaxOpened
  /\ opened' = opened + 1
  /\ side' = openPathInNewTab(side, opened', path, activate)
  /\ pending' = pending \cup {opened'}
  /\ given' = [given EXCEPT ![opened'] = side.header]
  /\ Saved

openTab(path, activate) == open(path, activate) /\ UNCHANGED recentlyClosed

duplicateTab(index) == openTab(side.tabs[index].path, FALSE)

reopenLastClosedTab ==
  /\ recentlyClosed # <<>>
  /\ recentlyClosed' = Front(recentlyClosed)
  /\ open(Last(recentlyClosed), TRUE)

(* Ids are resolved anew for each of them, since those before shifted them. *)
closeTabsById(s, ids) ==
  LET after[n \in 0..Len(ids)] == IF n = 0 THEN s ELSE closeTabById(after[n - 1], ids[n])
  IN after

close(ids) ==
  /\ Len(side.tabs) > Len(ids) /\ Len(recentlyClosed) + Len(ids) <= MaxClosed
  /\ side' = closeTabsById(side, ids)[Len(ids)]
  /\ recentlyClosed' = recentlyClosed \o [i \in DOMAIN ids |-> side.tabs[tabIndexById(side, ids[i])].path]
  /\ pending' = pending \ Range(ids)
  /\ given' = [id \in Id |-> IF id \in Range(ids) THEN Unset ELSE given[id]]
  /\ Saved
  /\ UNCHANGED opened

onTabBarCloseRequested(index) == close(<<side.bar[index]>>)

closeAllOtherTabs(index) ==
  /\ Len(side.bar) > 1
  /\ close(RemoveAt(side.bar, index))

switchToTab(index) ==
  /\ index # side.current
  /\ side' = setCurrentIndex(side, index)
  /\ Saved
  /\ UNCHANGED <<recentlyClosed, opened, pending, given>>

(* A tab that is dragged was pressed first, but shortcuts may switch then.  *)
moveTab(from, to) ==
  /\ from # to
  /\ side' = onTabBarTabMoved(side, from, to)
  /\ Saved
  /\ UNCHANGED <<recentlyClosed, opened, pending, given>>

resizeColumns(layout) ==
  /\ layout # side.header
  /\ side' = [side EXCEPT !.header = layout]
  /\ given' = [given EXCEPT ![activeTabId(side)] = layout]
  /\ UNCHANGED <<recentlyClosed, opened, settings, pending>>

(* The user goes elsewhere, or a tab in the background loses its folder;    *)
(* nothing is saved until the new one is listed.                            *)
changePath(index, path) ==
  /\ path # side.tabs[index].path
  /\ side' = [side EXCEPT !.tabs[index].path = path]
  /\ pending' = pending \cup {side.tabs[index].id}
  /\ UNCHANGED <<recentlyClosed, opened, settings, given>>

(* A listing of any tab was published, after a navigation or a refresh. The *)
(* controller hears of it first and saves; the widget fills its view if it  *)
(* is the tab on screen.                                                    *)
onPanelContentsChanged(id) ==
  /\ pending' = pending \ {id}
  /\ side' = IF id = side.bar[side.shown] THEN fillFromPanel(side) ELSE side
  /\ Saved
  /\ UNCHANGED <<recentlyClosed, opened, given>>

(* The program ends, by a crash or after shutdown has saved once more, and  *)
(* is started again.                                                        *)
restart ==
  \E saved \in {settings, savePanelState(side)} :
    /\ recentlyClosed' = <<>>
    /\ opened' = Len(saved.paths)
    /\ settings' = saved
    /\ pending' = DOMAIN saved.paths
    /\ given' = [id \in Id |-> Unset]
    /\ side' = SideOf(saved, side.header)

Next ==
  \/ \E path \in Paths, activate \in BOOLEAN : openTab(path, activate)
  \/ reopenLastClosedTab
  \/ \E index \in DOMAIN side.tabs :
       \/ duplicateTab(index) \/ onTabBarCloseRequested(index) \/ closeAllOtherTabs(index)
       \/ switchToTab(index)
       \/ \E to \in DOMAIN side.tabs : moveTab(index, to)
       \/ \E path \in Paths : changePath(index, path)
  \/ \E layout \in Layouts : resizeColumns(layout)
  \/ \E id \in Range(side.bar) : onPanelContentsChanged(id)
  \/ restart

Spec == Init /\ [][Next]_vars

-----------------------------------------------------------------------------
TabsTypeOK ==
  /\ side \in Side
  /\ side.activeTab \in DOMAIN side.tabs /\ side.shown \in DOMAIN side.triplets
  /\ side.current \in DOMAIN side.bar
  /\ recentlyClosed \in Seq(Paths) /\ opened \in Id
  /\ settings \in [paths : Seq(Paths), active : Nat] /\ settings.active \in DOMAIN settings.paths
  /\ pending \subseteq {side.tabs[i].id : i \in DOMAIN side.tabs}
  /\ given \in [Id -> Layouts \cup {Unset}]

(* The three of them have the same tabs in the same order and show the same. *)
SameTabs ==
  /\ side.bar = [i \in DOMAIN side.tabs |-> side.tabs[i].id]
  /\ Len(side.triplets) = Len(side.tabs)
  /\ side.shown = side.activeTab /\ side.current = side.activeTab
  /\ \A i, j \in DOMAIN side.bar : side.bar[i] = side.bar[j] => i = j

(* The model of a tab never holds what another tab lists.                   *)
OwnRows ==
  /\ \A i \in DOMAIN side.triplets : side.triplets[i].rows \in {Unset, side.bar[i]}
  /\ side.triplets[side.shown].rows # Unset

(* A tab has the layout the user gave it, on screen and when it comes back.  *)
OwnLayout ==
  \A i \in DOMAIN side.bar :
    given[side.bar[i]] # Unset
      => given[side.bar[i]] = IF i = side.shown THEN side.header ELSE side.triplets[i].header

(* A crash costs no tab, and no more than a folder that was not listed yet.  *)
SavedTabs ==
  /\ settings.active = side.activeTab
  /\ Len(settings.paths) = Len(side.tabs)
  /\ \A i \in DOMAIN side.tabs :
       side.tabs[i].id \notin pending => settings.paths[i] = side.tabs[i].path

(* Whatever is opened, closed, moved and switched to, with tabs that list in  *)
(* the background: every tab keeps its place, its rows, its columns and its   *)
(* entry in the settings (CController's tab list, ccontroller.cpp:136-250,    *)
(* and CPanelWidget's, cpanelwidget.cpp:310-560).                             *)
TabsAreThemselves ==
  /\ TabsTypeOK
  /\ SameTabs
  /\ OwnRows
  /\ OwnLayout
  /\ SavedTabs
=============================================================================
