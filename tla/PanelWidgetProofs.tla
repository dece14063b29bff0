-------------------------- MODULE PanelWidgetProofs --------------------------
(***************************************************************************)
(* Theorems about what CPanelWidget shows. PanelTabs: for any folders, any  *)
(* layouts and any number of tabs. PanelCursor, at the end: for any tree of *)
(* folders and files and any number of commands and changes.               *)
(***************************************************************************)
EXTENDS PanelTabs, PanelCursor, NumbersAndSequences, FiniteSetTheorems, TLAPS

-----------------------------------------------------------------------------
(* Positions that a move changes.                                          *)

(* Moving back undoes a move of positions.                                  *)
LEMMA MovingBack ==
  ASSUME NEW n \in Nat, NEW from \in 1..n, NEW to \in 1..n, NEW k \in 1..n
  PROVE  /\ AfterMove(k, from, to) \in 1..n
         /\ AfterMove(AfterMove(k, from, to), to, from) = k
BY DEF AfterMove

(* Every element of a sequence is found where its position has moved to.    *)
LEMMA MovedIn ==
  ASSUME NEW T, NEW seq \in Seq(T), NEW from \in 1..Len(seq), NEW to \in 1..Len(seq)
  PROVE  /\ Moved(seq, from, to) \in Seq(T)
         /\ Len(Moved(seq, from, to)) = Len(seq)
         /\ \A k \in 1..Len(seq) : Moved(seq, from, to)[AfterMove(k, from, to)] = seq[k]
<1> DEFINE rest == RemoveAt(seq, from)
<1>1. /\ rest \in Seq(T) /\ Len(rest) = Len(seq) - 1
      /\ \A k \in 1..(Len(seq) - 1) : rest[k] = seq[IF k < from THEN k ELSE k + 1]
  BY RemovedFrom
<1>2. to \in 1..(Len(rest) + 1) /\ seq[from] \in T
  BY <1>1
<1>3. Moved(seq, from, to) = InsertAt(rest, to, seq[from])
  BY DEF Moved
<1> HIDE DEF rest
<1>4. /\ Moved(seq, from, to) \in Seq(T) /\ Len(Moved(seq, from, to)) = Len(rest) + 1
      /\ Moved(seq, from, to)[to] = seq[from]
      /\ \A k \in 1..Len(rest) : Moved(seq, from, to)[IF k < to THEN k ELSE k + 1] = rest[k]
  <2>1. rest \in Seq(T)
    BY <1>1
  <2>2. InsertAt(rest, to, seq[from]) \in Seq(T)
        /\ Len(InsertAt(rest, to, seq[from])) = Len(rest) + 1
        /\ InsertAt(rest, to, seq[from])[to] = seq[from]
        /\ \A k \in 1..Len(rest) :
             InsertAt(rest, to, seq[from])[IF k < to THEN k ELSE k + 1] = rest[k]
    BY <1>2, <2>1, InsertedInto
  <2> QED
    BY <1>3, <2>2
<1>5. ASSUME NEW k \in 1..Len(seq)
      PROVE  Moved(seq, from, to)[AfterMove(k, from, to)] = seq[k]
  <2>1. CASE k = from
    BY <1>4, <2>1 DEF AfterMove
  <2>2. CASE k # from
    <3> DEFINE j == IF k < from THEN k ELSE k - 1
    <3>1. j \in 1..Len(rest) /\ k = (IF j < from THEN j ELSE j + 1)
      BY <1>1, <2>2
    <3>2. AfterMove(k, from, to) = (IF j < to THEN j ELSE j + 1)
      BY <2>2 DEF AfterMove
    <3> HIDE DEF j
    <3> QED
      BY <1>1, <1>4, <3>1, <3>2
  <2> QED
    BY <2>1, <2>2
<1> QED
  BY <1>1, <1>4, <1>5

-----------------------------------------------------------------------------
(* What the three keep of one side. A side is paired when the widget and the *)
(* bar have the controller's tabs, and consistent when they also show the    *)
(* active one.                                                              *)

Paired(s) ==
  /\ s \in Side /\ s.activeTab \in 1..Len(s.tabs)
  /\ Len(s.bar) = Len(s.tabs) /\ Len(s.triplets) = Len(s.tabs)
  /\ \A i \in 1..Len(s.tabs) :
       s.bar[i] = s.tabs[i].id /\ s.triplets[i].rows \in {Unset, s.tabs[i].id}
  /\ \A i, j \in 1..Len(s.tabs) : s.tabs[i].id = s.tabs[j].id => i = j

Consistent(s) ==
  /\ Paired(s)
  /\ s.shown = s.activeTab /\ s.current = s.activeTab
  /\ s.triplets[s.activeTab].rows # Unset

(* The layout a tab has, or will have when it is shown again.               *)
LayoutOf(s, i) == IF i = s.shown THEN s.header ELSE s.triplets[i].header

HasLayouts(s, g) ==
  \A i \in 1..Len(s.tabs) : g[s.tabs[i].id] # Unset => g[s.tabs[i].id] = LayoutOf(s, i)

SameTabsAndBar(r, s) ==
  r.tabs = s.tabs /\ r.activeTab = s.activeTab /\ r.bar = s.bar /\ r.current = s.current

(* The members of a side.                                                   *)
LEMMA SideMembers ==
  ASSUME NEW s \in Side
  PROVE  /\ s.tabs \in Seq(Tab) /\ s.activeTab \in Nat /\ s.triplets \in Seq(Triplet)
         /\ s.shown \in Nat /\ s.header \in Layouts /\ s.bar \in Seq(Id) /\ s.current \in Nat
         /\ Len(s.tabs) \in Nat /\ Len(s.triplets) \in Nat /\ Len(s.bar) \in Nat
         /\ \A i \in 1..Len(s.tabs) :
              s.tabs[i] \in Tab /\ s.tabs[i].id \in Id /\ s.tabs[i].path \in Paths
         /\ \A i \in 1..Len(s.triplets) :
              /\ s.triplets[i] \in Triplet
              /\ s.triplets[i].rows \in Id \cup {Unset}
              /\ s.triplets[i].header \in Layouts \cup {Unset}
         /\ \A i \in 1..Len(s.bar) : s.bar[i] \in Id
<1>1. /\ s.tabs \in Seq(Tab) /\ s.activeTab \in Nat /\ s.triplets \in Seq(Triplet)
      /\ s.shown \in Nat /\ s.header \in Layouts /\ s.bar \in Seq(Id) /\ s.current \in Nat
  BY DEF Side
<1>2. \A i \in 1..Len(s.tabs) :
        s.tabs[i] \in Tab /\ s.tabs[i].id \in Id /\ s.tabs[i].path \in Paths
  <2>1. \A i \in 1..Len(s.tabs) : s.tabs[i] \in Tab
    BY <1>1
  <2> QED
    BY <2>1 DEF Tab
<1>3. \A i \in 1..Len(s.triplets) :
        /\ s.triplets[i] \in Triplet
        /\ s.triplets[i].rows \in Id \cup {Unset}
        /\ s.triplets[i].header \in Layouts \cup {Unset}
  <2>1. \A i \in 1..Len(s.triplets) : s.triplets[i] \in Triplet
    BY <1>1
  <2> QED
    BY <2>1 DEF Triplet
<1> QED
  BY <1>1, <1>2, <1>3

(* Filling concerns the rows of the model on screen alone.                  *)
LEMMA Filling ==
  ASSUME NEW s \in Side, s.shown \in 1..Len(s.triplets), s.activeTab \in 1..Len(s.tabs),
         NEW r, r = fillFromPanel(s)
  PROVE  /\ r \in Side /\ SameTabsAndBar(r, s)
         /\ r.shown = s.shown /\ r.header = s.header /\ Len(r.triplets) = Len(s.triplets)
         /\ \A i \in 1..Len(s.triplets) :
              /\ r.triplets[i].header = s.triplets[i].header
              /\ r.triplets[i].rows = IF i = s.shown THEN s.tabs[s.activeTab].id
                                      ELSE s.triplets[i].rows
<1> DEFINE filled == [s.triplets[s.shown] EXCEPT !.rows = s.tabs[s.activeTab].id]
           models == [s.triplets EXCEPT ![s.shown] = filled]
<1>1. /\ filled \in Triplet /\ filled.rows = s.tabs[s.activeTab].id
      /\ filled.header = s.triplets[s.shown].header
  BY SideMembers DEF Triplet
<1>2. r = [s EXCEPT !.triplets = models]
  BY DEF fillFromPanel, activeTabId
<1> HIDE DEF filled
<1>3. /\ models \in Seq(Triplet) /\ Len(models) = Len(s.triplets)
      /\ \A i \in 1..Len(s.triplets) :
           models[i] = IF i = s.shown THEN filled ELSE s.triplets[i]
  BY <1>1, SideMembers
<1> HIDE DEF models
<1>4. /\ r \in Side /\ SameTabsAndBar(r, s) /\ r.shown = s.shown /\ r.header = s.header
      /\ r.triplets = models
  BY <1>2, <1>3 DEF Side, SameTabsAndBar
<1> QED
  BY <1>1, <1>3, <1>4

(* Keeping the layout in force concerns the one stored for the tab on screen.*)
LEMMA KeepingTheLayout ==
  ASSUME NEW s \in Side, s.shown \in 1..Len(s.triplets), NEW r, r = saveHeader(s)
  PROVE  /\ r \in Side /\ SameTabsAndBar(r, s)
         /\ r.shown = s.shown /\ r.header = s.header /\ Len(r.triplets) = Len(s.triplets)
         /\ \A i \in 1..Len(s.triplets) :
              /\ r.triplets[i].rows = s.triplets[i].rows
              /\ r.triplets[i].header = IF i = s.shown THEN s.header ELSE s.triplets[i].header
<1> DEFINE kept == [s.triplets[s.shown] EXCEPT !.header = s.header]
           models == [s.triplets EXCEPT ![s.shown] = kept]
<1>1. /\ kept \in Triplet /\ kept.header = s.header
      /\ kept.rows = s.triplets[s.shown].rows
  BY SideMembers DEF Triplet
<1>2. r = [s EXCEPT !.triplets = models]
  BY DEF saveHeader
<1> HIDE DEF kept
<1>3. /\ models \in Seq(Triplet) /\ Len(models) = Len(s.triplets)
      /\ \A i \in 1..Len(s.triplets) :
           models[i] = IF i = s.shown THEN kept ELSE s.triplets[i]
  BY <1>1, SideMembers
<1> HIDE DEF models
<1>4. /\ r \in Side /\ SameTabsAndBar(r, s) /\ r.shown = s.shown /\ r.header = s.header
      /\ r.triplets = models
  BY <1>2, <1>3 DEF Side, SameTabsAndBar
<1> QED
  BY <1>1, <1>3, <1>4

(* The active tab of a paired side, once activated, is on screen with its    *)
(* rows; it gets the layout stored for it, if any, and the stored ones stay. *)
LEMMA Activation ==
  ASSUME NEW s, Paired(s), s.current = s.activeTab,
         NEW r, r = activateTab(s, s.activeTab)
  PROVE  /\ Consistent(r) /\ SameTabsAndBar(r, s)
         /\ \A i \in 1..Len(s.tabs) : r.triplets[i].header = s.triplets[i].header
         /\ r.header = IF s.triplets[s.activeTab].header # Unset
                       THEN s.triplets[s.activeTab].header ELSE s.header
<1> DEFINE a == s.activeTab
           layout == IF s.triplets[a].header # Unset THEN s.triplets[a].header ELSE s.header
           t == [s EXCEPT !.shown = a, !.header = layout]
<1>1. /\ s \in Side /\ a \in 1..Len(s.tabs) /\ a \in Nat /\ Len(s.triplets) = Len(s.tabs)
      /\ layout \in Layouts
  BY SideMembers DEF Paired
<1>2. t \in Side /\ SameTabsAndBar(t, s) /\ t.triplets = s.triplets /\ t.shown = a
      /\ t.header = layout
  BY <1>1 DEF Side, SameTabsAndBar
<1>3. r = fillFromPanel(t)
  BY DEF activateTab
<1> HIDE DEF layout, t
<1>4. /\ r \in Side /\ SameTabsAndBar(r, t) /\ r.shown = a /\ r.header = layout
      /\ Len(r.triplets) = Len(s.triplets)
      /\ \A i \in 1..Len(s.triplets) :
           /\ r.triplets[i].header = s.triplets[i].header
           /\ r.triplets[i].rows = IF i = a THEN s.tabs[a].id ELSE s.triplets[i].rows
  <2>1. t.shown \in 1..Len(t.triplets) /\ t.activeTab \in 1..Len(t.tabs)
    BY <1>1, <1>2 DEF SameTabsAndBar
  <2>2. /\ r \in Side /\ SameTabsAndBar(r, t) /\ r.shown = t.shown /\ r.header = t.header
        /\ Len(r.triplets) = Len(t.triplets)
        /\ \A i \in 1..Len(t.triplets) :
             /\ r.triplets[i].header = t.triplets[i].header
             /\ r.triplets[i].rows = IF i = t.shown THEN t.tabs[t.activeTab].id
                                     ELSE t.triplets[i].rows
    BY <1>2, <1>3, <2>1, Filling
  <2> QED
    BY <1>2, <2>2 DEF SameTabsAndBar
<1>5. SameTabsAndBar(r, s)
  BY <1>2, <1>4 DEF SameTabsAndBar
<1>6. s.tabs[a].id # Unset
  BY <1>1, SideMembers, LayoutsAssumption DEF Id
<1>7. Paired(r)
  <2>1. /\ r.tabs = s.tabs /\ r.activeTab = a /\ r.bar = s.bar
    BY <1>5 DEF SameTabsAndBar
  <2>2. /\ Len(s.bar) = Len(s.tabs)
        /\ \A i \in 1..Len(s.tabs) :
             s.bar[i] = s.tabs[i].id /\ s.triplets[i].rows \in {Unset, s.tabs[i].id}
        /\ \A i, j \in 1..Len(s.tabs) : s.tabs[i].id = s.tabs[j].id => i = j
    BY DEF Paired
  <2>3. \A i \in 1..Len(s.tabs) : r.triplets[i].rows \in {Unset, s.tabs[i].id}
    BY <1>1, <1>4, <2>2
  <2> QED
    BY <1>1, <1>4, <2>1, <2>2, <2>3 DEF Paired
<1>8. Consistent(r)
  BY <1>1, <1>4, <1>5, <1>6, <1>7 DEF Consistent, SameTabsAndBar
<1> QED
  BY <1>1, <1>4, <1>5, <1>8 DEF layout

-----------------------------------------------------------------------------
(* What an event makes of a side.                                          *)

(* Ids are distinct, so that an id leads to its tab, in the controller's list *)
(* and in the bar.                                                          *)
LEMMA IdsLeadToTabs ==
  ASSUME NEW s, Paired(s), NEW i \in 1..Len(s.tabs)
  PROVE  /\ tabIndexById(s, s.tabs[i].id) = i
         /\ (CHOOSE j \in DOMAIN s.bar : s.bar[j] = s.tabs[i].id) = i
<1>1. DOMAIN s.tabs = 1..Len(s.tabs) /\ DOMAIN s.bar = 1..Len(s.tabs)
  BY SideMembers DEF Paired
<1>2. \A j \in 1..Len(s.tabs) : s.tabs[j].id = s.tabs[i].id <=> j = i
  BY DEF Paired
<1>3. \A j \in 1..Len(s.tabs) : s.bar[j] = s.tabs[i].id <=> j = i
  BY <1>2 DEF Paired
<1> QED
  BY <1>1, <1>2, <1>3 DEF tabIndexById

(* If the layouts stored are those the user gave, whichever tab is activated *)
(* the layouts are those.                                                   *)
StoresLayouts(s, g) ==
  \A i \in 1..Len(s.tabs) : g[s.tabs[i].id] # Unset => g[s.tabs[i].id] = s.triplets[i].header

LEMMA ActivationKeepsLayouts ==
  ASSUME NEW s, Paired(s), s.current = s.activeTab, NEW g, StoresLayouts(s, g),
         NEW r, r = activateTab(s, s.activeTab)
  PROVE  HasLayouts(r, g)
<1>1. /\ Consistent(r) /\ SameTabsAndBar(r, s)
      /\ \A i \in 1..Len(s.tabs) : r.triplets[i].header = s.triplets[i].header
      /\ r.header = IF s.triplets[s.activeTab].header # Unset
                    THEN s.triplets[s.activeTab].header ELSE s.header
  BY Activation
<1> QED
  BY <1>1 DEF HasLayouts, StoresLayouts, LayoutOf, Consistent, SameTabsAndBar

(* A switch shows the other tab, with its own layout.                       *)
LEMMA Switching ==
  ASSUME NEW s, Paired(s), s.shown \in 1..Len(s.tabs),
         NEW index \in 1..Len(s.tabs), index # s.current, NEW r, r = setCurrentIndex(s, index)
  PROVE  /\ Consistent(r) /\ r.tabs = s.tabs /\ r.bar = s.bar /\ r.activeTab = index
         /\ \A g : HasLayouts(s, g) => HasLayouts(r, g)
<1> DEFINE t == [s EXCEPT !.current = index]
           k == saveHeader(t)
           u == setActiveTab(k, t.bar[index])
<1>1. /\ s \in Side /\ index \in Nat /\ Len(s.triplets) = Len(s.tabs)
      /\ s.bar[index] = s.tabs[index].id
  BY SideMembers DEF Paired
<1>2. /\ t \in Side /\ t.tabs = s.tabs /\ t.activeTab = s.activeTab /\ t.bar = s.bar
      /\ t.triplets = s.triplets /\ t.shown = s.shown /\ t.header = s.header /\ t.current = index
  BY <1>1 DEF Side
<1>3. r = activateTab(u, index)
  BY DEF setCurrentIndex, onTabBarCurrentChanged
<1> HIDE DEF t
<1>4. /\ k \in Side /\ k.tabs = s.tabs /\ k.activeTab = s.activeTab /\ k.bar = s.bar
      /\ k.current = index /\ k.shown = s.shown /\ k.header = s.header
      /\ Len(k.triplets) = Len(s.triplets)
      /\ \A i \in 1..Len(s.triplets) :
           /\ k.triplets[i].rows = s.triplets[i].rows
           /\ k.triplets[i].header = LayoutOf(s, i)
  <2>1. t.shown \in 1..Len(t.triplets)
    BY <1>1, <1>2
  <2>2. /\ k \in Side /\ SameTabsAndBar(k, t) /\ k.shown = t.shown /\ k.header = t.header
        /\ Len(k.triplets) = Len(t.triplets)
        /\ \A i \in 1..Len(t.triplets) :
             /\ k.triplets[i].rows = t.triplets[i].rows
             /\ k.triplets[i].header = IF i = t.shown THEN t.header ELSE t.triplets[i].header
    BY <1>2, <2>1, KeepingTheLayout
  <2> QED
    BY <1>2, <2>2 DEF SameTabsAndBar, LayoutOf
<1> HIDE DEF k
<1>5. Paired(k)
  BY <1>1, <1>4 DEF Paired
<1>6. u = [k EXCEPT !.activeTab = index]
  BY <1>1, <1>2, <1>4, <1>5, IdsLeadToTabs DEF setActiveTab
<1> HIDE DEF u
<1>7. /\ u \in Side /\ u.tabs = s.tabs /\ u.activeTab = index /\ u.bar = s.bar
      /\ u.current = index /\ u.triplets = k.triplets
  BY <1>1, <1>4, <1>6 DEF Side
<1>8. Paired(u)
  BY <1>1, <1>4, <1>5, <1>7 DEF Paired
<1>9. Consistent(r) /\ SameTabsAndBar(r, u)
  BY <1>3, <1>7, <1>8, Activation
<1>10. ASSUME NEW g, HasLayouts(s, g)
       PROVE  HasLayouts(r, g)
  <2>1. StoresLayouts(u, g)
    BY <1>1, <1>4, <1>7, <1>10 DEF StoresLayouts, HasLayouts
  <2> QED
    BY <1>3, <1>7, <1>8, <2>1, ActivationKeepsLayouts
<1> QED
  BY <1>7, <1>9, <1>10 DEF SameTabsAndBar

(* The sequences the three keep, without the element of the tab that closes. *)
LEMMA ClosingLeaves ==
  ASSUME NEW s, Paired(s), NEW i \in 1..Len(s.tabs), Len(s.tabs) > 1,
         NEW active \in 1..(Len(s.tabs) - 1), NEW r \in Side,
         r.tabs = RemoveAt(s.tabs, i), r.activeTab = active,
         r.triplets = RemoveAt(s.triplets, i), r.bar = RemoveAt(s.bar, i)
  PROVE  /\ Paired(r)
         /\ \A g : (\A j \in 1..Len(s.tabs) \ {i} :
                      g[s.tabs[j].id] # Unset => g[s.tabs[j].id] = s.triplets[j].header)
                     => StoresLayouts(r, g)
<1> DEFINE n == Len(s.tabs)
           From(k) == IF k < i THEN k ELSE k + 1
<1>1. /\ n \in Nat /\ Len(s.triplets) = n /\ Len(s.bar) = n
      /\ s.tabs \in Seq(Tab) /\ s.triplets \in Seq(Triplet) /\ s.bar \in Seq(Id)
  BY SideMembers DEF Paired
<1>2. Len(r.tabs) = n - 1 /\ \A k \in 1..(n - 1) : r.tabs[k] = s.tabs[From(k)]
  <2>1. s.tabs \in Seq(Tab) /\ i \in 1..Len(s.tabs)
    BY <1>1
  <2>2. /\ Len(RemoveAt(s.tabs, i)) = Len(s.tabs) - 1
        /\ \A k \in 1..(Len(s.tabs) - 1) :
             RemoveAt(s.tabs, i)[k] = s.tabs[IF k < i THEN k ELSE k + 1]
    BY <2>1, RemovedFrom
  <2> QED
    BY <2>2
<1>3. Len(r.triplets) = n - 1 /\ \A k \in 1..(n - 1) : r.triplets[k] = s.triplets[From(k)]
  <2>1. s.triplets \in Seq(Triplet) /\ i \in 1..Len(s.triplets)
    BY <1>1
  <2>2. /\ Len(RemoveAt(s.triplets, i)) = Len(s.triplets) - 1
        /\ \A k \in 1..(Len(s.triplets) - 1) :
             RemoveAt(s.triplets, i)[k] = s.triplets[IF k < i THEN k ELSE k + 1]
    BY <2>1, RemovedFrom
  <2> QED
    BY <1>1, <2>2
<1>4. Len(r.bar) = n - 1 /\ \A k \in 1..(n - 1) : r.bar[k] = s.bar[From(k)]
  <2>1. s.bar \in Seq(Id) /\ i \in 1..Len(s.bar)
    BY <1>1
  <2>2. /\ Len(RemoveAt(s.bar, i)) = Len(s.bar) - 1
        /\ \A k \in 1..(Len(s.bar) - 1) :
             RemoveAt(s.bar, i)[k] = s.bar[IF k < i THEN k ELSE k + 1]
    BY <2>1, RemovedFrom
  <2> QED
    BY <1>1, <2>2
<1>5. \A k \in 1..(n - 1) : From(k) \in 1..n \ {i}
  BY <1>1
<1>6. \A j, k \in 1..(n - 1) : From(j) = From(k) => j = k
  BY <1>1
<1> HIDE DEF n, From
<1>7. \A k \in 1..(n - 1) : r.bar[k] = r.tabs[k].id /\ r.triplets[k].rows \in {Unset, r.tabs[k].id}
  <2>1. \A k \in 1..n : s.bar[k] = s.tabs[k].id /\ s.triplets[k].rows \in {Unset, s.tabs[k].id}
    BY DEF Paired, n
  <2> QED
    BY <1>2, <1>3, <1>4, <1>5, <2>1
<1>8. \A j, k \in 1..(n - 1) : r.tabs[j].id = r.tabs[k].id => j = k
  <2>1. \A j, k \in 1..n : s.tabs[j].id = s.tabs[k].id => j = k
    BY DEF Paired, n
  <2>2. ASSUME NEW j \in 1..(n - 1), NEW k \in 1..(n - 1), r.tabs[j].id = r.tabs[k].id
        PROVE  j = k
    <3>1. From(j) \in 1..n /\ From(k) \in 1..n
      BY <1>5
    <3>2. s.tabs[From(j)].id = s.tabs[From(k)].id
      BY <1>2, <2>2
    <3>3. From(j) = From(k)
      BY <2>1, <3>1, <3>2
    <3> QED
      BY <1>6, <3>3
  <2> QED
    BY <2>2
<1>9. r.activeTab \in 1..(n - 1)
  BY DEF n
<1>10. Paired(r)
  BY <1>2, <1>3, <1>4, <1>7, <1>8, <1>9 DEF Paired
<1>11. ASSUME NEW g, \A j \in 1..Len(s.tabs) \ {i} :
                       g[s.tabs[j].id] # Unset => g[s.tabs[j].id] = s.triplets[j].header
       PROVE  StoresLayouts(r, g)
  <2>1. \A j \in 1..n \ {i} : g[s.tabs[j].id] # Unset => g[s.tabs[j].id] = s.triplets[j].header
    BY <1>11 DEF n
  <2>2. ASSUME NEW k \in 1..(n - 1), g[r.tabs[k].id] # Unset
        PROVE  g[r.tabs[k].id] = r.triplets[k].header
    <3>1. /\ From(k) \in 1..n \ {i} /\ r.tabs[k] = s.tabs[From(k)]
          /\ r.triplets[k] = s.triplets[From(k)]
      BY <1>2, <1>3, <1>5
    <3> QED
      BY <2>1, <2>2, <3>1
  <2> QED
    BY <1>2, <2>2 DEF StoresLayouts
<1> QED
  BY <1>10, <1>11

(* Closing a tab takes it out of the three, and nothing else.               *)
LEMMA Closing ==
  ASSUME NEW s, Consistent(s), NEW i \in 1..Len(s.tabs), Len(s.tabs) > 1,
         NEW r, r = closeTabById(s, s.tabs[i].id)
  PROVE  /\ Consistent(r) /\ r.tabs = RemoveAt(s.tabs, i)
         /\ \A g : HasLayouts(s, g) => HasLayouts(r, g)
<1> DEFINE id == s.tabs[i].id
           n == Len(s.tabs)
           active == IF s.activeTab > i \/ s.activeTab > n - 1 THEN s.activeTab - 1 ELSE s.activeTab
           kept == IF i # s.shown THEN saveHeader(s) ELSE s
           closed == closeTab(kept, id)
           remaining == [closed EXCEPT !.triplets = RemoveAt(@, i), !.bar = RemoveAt(@, i)]
           landed == CHOOSE j \in DOMAIN remaining.bar : remaining.bar[j] = activeTabId(closed)
           q == [remaining EXCEPT !.current = landed]
<1>1. /\ Paired(s) /\ s \in Side /\ n \in Nat /\ Len(s.triplets) = n /\ Len(s.bar) = n
      /\ s.shown = s.activeTab /\ s.activeTab \in 1..n
  BY SideMembers DEF Consistent, Paired
<1>2. r = activateTab(q, landed)
  BY <1>1, IdsLeadToTabs DEF closeTabById
<1>3. /\ kept \in Side /\ kept.tabs = s.tabs /\ kept.activeTab = s.activeTab /\ kept.bar = s.bar
      /\ Len(kept.triplets) = n
      /\ \A k \in 1..n : kept.triplets[k].rows = s.triplets[k].rows
      /\ \A k \in 1..n \ {i} : kept.triplets[k].header = LayoutOf(s, k)
  <2>1. CASE i = s.shown
    BY <1>1, <2>1 DEF LayoutOf
  <2>2. CASE i # s.shown
    <3>1. kept = saveHeader(s) /\ s.shown \in 1..Len(s.triplets)
      BY <1>1, <2>2
    <3> HIDE DEF kept
    <3>2. /\ kept \in Side /\ SameTabsAndBar(kept, s)
          /\ Len(kept.triplets) = Len(s.triplets)
          /\ \A k \in 1..Len(s.triplets) :
               /\ kept.triplets[k].rows = s.triplets[k].rows
               /\ kept.triplets[k].header = IF k = s.shown THEN s.header ELSE s.triplets[k].header
      BY <1>1, <3>1, KeepingTheLayout
    <3> QED
      BY <1>1, <3>2 DEF LayoutOf, SameTabsAndBar
  <2> QED
    BY <2>1, <2>2
<1> HIDE DEF kept
<1>4. Paired(kept)
  BY <1>1, <1>3 DEF Paired
<1>5. tabIndexById(kept, id) = i
  BY <1>1, <1>3, <1>4, IdsLeadToTabs
<1>6. closed = [kept EXCEPT !.tabs = RemoveAt(@, i), !.activeTab = active]
  BY <1>3, <1>5 DEF closeTab
<1> HIDE DEF closed
<1>7. active \in 1..(n - 1) /\ active \in Nat
  BY <1>1
<1> HIDE DEF active
<1>8. /\ RemoveAt(kept.tabs, i) \in Seq(Tab) /\ RemoveAt(kept.triplets, i) \in Seq(Triplet)
      /\ RemoveAt(kept.bar, i) \in Seq(Id)
  <2>1. /\ kept.tabs \in Seq(Tab) /\ kept.triplets \in Seq(Triplet) /\ kept.bar \in Seq(Id)
    BY <1>3, SideMembers
  <2>2. i \in 1..Len(kept.tabs) /\ i \in 1..Len(kept.triplets) /\ i \in 1..Len(kept.bar)
    BY <1>1, <1>3
  <2> QED
    BY <2>1, <2>2, RemovedFrom
<1>9. /\ remaining \in Side /\ remaining.tabs = RemoveAt(kept.tabs, i)
      /\ remaining.activeTab = active /\ remaining.triplets = RemoveAt(kept.triplets, i)
      /\ remaining.bar = RemoveAt(kept.bar, i)
      /\ closed.tabs = remaining.tabs /\ closed.activeTab = active
  BY <1>3, <1>6, <1>7, <1>8 DEF Side
<1> HIDE DEF remaining
<1>10. /\ Paired(remaining)
       /\ \A g : (\A j \in 1..Len(kept.tabs) \ {i} :
                    g[kept.tabs[j].id] # Unset => g[kept.tabs[j].id] = kept.triplets[j].header)
                   => StoresLayouts(remaining, g)
  <2>1. i \in 1..Len(kept.tabs) /\ Len(kept.tabs) > 1 /\ active \in 1..(Len(kept.tabs) - 1)
    BY <1>3, <1>7
  <2> QED
    BY <1>4, <1>9, <2>1, ClosingLeaves
<1>11. landed = active
  <2>1. active \in 1..Len(remaining.tabs)
    BY <1>9, <1>10 DEF Paired
  <2>2. activeTabId(closed) = remaining.tabs[active].id
    BY <1>9 DEF activeTabId
  <2> QED
    BY <1>10, <2>1, <2>2, IdsLeadToTabs
<1> HIDE DEF landed
<1>12. /\ q \in Side /\ q.tabs = remaining.tabs /\ q.activeTab = active /\ q.bar = remaining.bar
       /\ q.triplets = remaining.triplets /\ q.current = active
  BY <1>7, <1>9, <1>11 DEF Side
<1> HIDE DEF q
<1>13. Paired(q)
  BY <1>9, <1>10, <1>12 DEF Paired
<1>14. r = activateTab(q, q.activeTab) /\ q.current = q.activeTab
  BY <1>2, <1>11, <1>12
<1>15. Consistent(r) /\ r.tabs = RemoveAt(s.tabs, i)
  BY <1>3, <1>9, <1>12, <1>13, <1>14, Activation DEF SameTabsAndBar
<1>16. ASSUME NEW g, HasLayouts(s, g)
       PROVE  HasLayouts(r, g)
  <2>1. \A j \in 1..Len(kept.tabs) \ {i} :
          g[kept.tabs[j].id] # Unset => g[kept.tabs[j].id] = kept.triplets[j].header
    BY <1>3, <1>16 DEF HasLayouts
  <2>2. StoresLayouts(remaining, g)
    BY <1>10, <2>1
  <2>3. StoresLayouts(q, g)
    BY <1>12, <2>2 DEF StoresLayouts
  <2> QED
    BY <1>13, <1>14, <2>3, ActivationKeepsLayouts
<1> QED
  BY <1>15, <1>16

(* Moving a tab moves it in the three alike.                                *)
HaveMoved(r, s, from, to) ==
  /\ Len(r.tabs) = Len(s.tabs)
  /\ \A k \in 1..Len(s.tabs) : r.tabs[AfterMove(k, from, to)] = s.tabs[k]
  /\ \A k \in 1..Len(s.tabs) : \E j \in 1..Len(s.tabs) :
       k = AfterMove(j, from, to) /\ r.tabs[k] = s.tabs[j]

LEMMA Moving ==
  ASSUME NEW s, Consistent(s), NEW from \in 1..Len(s.tabs), NEW to \in 1..Len(s.tabs),
         NEW r, r = onTabBarTabMoved(s, from, to)
  PROVE  /\ Consistent(r) /\ HaveMoved(r, s, from, to)
         /\ \A g : HasLayouts(s, g) => HasLayouts(r, g)
<1> DEFINE n == Len(s.tabs)
           Spot(k) == AfterMove(k, from, to)
           moved == [s EXCEPT !.triplets = Moved(@, from, to), !.shown = Spot(@),
                              !.bar = Moved(@, from, to), !.current = Spot(@)]
<1>1. /\ Paired(s) /\ s \in Side /\ n \in Nat /\ Len(s.triplets) = n /\ Len(s.bar) = n
      /\ s.shown = s.activeTab /\ s.current = s.activeTab /\ s.activeTab \in 1..n
      /\ s.tabs \in Seq(Tab) /\ s.triplets \in Seq(Triplet) /\ s.bar \in Seq(Id)
  BY SideMembers DEF Consistent, Paired
<1>2. /\ \A k \in 1..n : Spot(k) \in 1..n /\ \E j \in 1..n : k = Spot(j)
      /\ \A j, k \in 1..n : Spot(j) = Spot(k) => j = k
  <2>1. n \in Nat /\ from \in 1..n /\ to \in 1..n
    BY <1>1
  <2> HIDE DEF n
  <2>2. \A k \in 1..n : AfterMove(k, from, to) \in 1..n
                        /\ AfterMove(AfterMove(k, from, to), to, from) = k
    BY <2>1, MovingBack
  <2>3. \A k \in 1..n : AfterMove(k, to, from) \in 1..n
                        /\ AfterMove(AfterMove(k, to, from), from, to) = k
    BY <2>1, MovingBack
  <2> QED
    BY <2>2, <2>3, Zenon
<1>3. \A j, k \in 1..n : Spot(j) = Spot(k) => j = k
  BY <1>2
<1>4. Spot(from) = to /\ Spot(s.activeTab) \in 1..n
  <2>1. Spot(s.activeTab) \in 1..n
    BY <1>1, <1>2, Zenon
  <2> QED
    BY <2>1 DEF AfterMove
<1>5. /\ Moved(s.tabs, from, to) \in Seq(Tab) /\ Len(Moved(s.tabs, from, to)) = n
      /\ \A k \in 1..n : Moved(s.tabs, from, to)[Spot(k)] = s.tabs[k]
  BY <1>1, MovedIn
<1>6. /\ Moved(s.triplets, from, to) \in Seq(Triplet) /\ Len(Moved(s.triplets, from, to)) = n
      /\ \A k \in 1..n : Moved(s.triplets, from, to)[Spot(k)] = s.triplets[k]
  <2>1. s.triplets \in Seq(Triplet) /\ from \in 1..Len(s.triplets) /\ to \in 1..Len(s.triplets)
    BY <1>1
  <2>2. /\ Moved(s.triplets, from, to) \in Seq(Triplet)
        /\ Len(Moved(s.triplets, from, to)) = Len(s.triplets)
        /\ \A k \in 1..Len(s.triplets) : Moved(s.triplets, from, to)[Spot(k)] = s.triplets[k]
    BY <2>1, MovedIn
  <2> QED
    BY <1>1, <2>2
<1>7. /\ Moved(s.bar, from, to) \in Seq(Id) /\ Len(Moved(s.bar, from, to)) = n
      /\ \A k \in 1..n : Moved(s.bar, from, to)[Spot(k)] = s.bar[k]
  <2>1. s.bar \in Seq(Id) /\ from \in 1..Len(s.bar) /\ to \in 1..Len(s.bar)
    BY <1>1
  <2>2. /\ Moved(s.bar, from, to) \in Seq(Id)
        /\ Len(Moved(s.bar, from, to)) = Len(s.bar)
        /\ \A k \in 1..Len(s.bar) : Moved(s.bar, from, to)[Spot(k)] = s.bar[k]
    BY <2>1, MovedIn
  <2> QED
    BY <1>1, <2>2
<1>8. /\ moved.tabs = s.tabs /\ moved.activeTab = s.activeTab
      /\ moved.bar = Moved(s.bar, from, to) /\ moved \in Side
      /\ moved.triplets = Moved(s.triplets, from, to) /\ moved.shown = Spot(s.activeTab)
      /\ moved.current = Spot(s.activeTab) /\ moved.header = s.header
  <2>1. Spot(s.shown) \in Nat /\ Spot(s.current) \in Nat
    <3>1. Spot(s.shown) = Spot(s.activeTab) /\ Spot(s.current) = Spot(s.activeTab)
      BY <1>1, Zenon
    <3> HIDE DEF Spot
    <3> QED
      BY <1>1, <1>4, <3>1
  <2> HIDE DEF Spot
  <2> QED
    BY <1>1, <1>6, <1>7, <2>1 DEF Side
<1>9. r = moveTabPosition(moved, moved.bar[to], to)
  BY DEF onTabBarTabMoved
<1> HIDE DEF moved
<1>10. tabIndexById(moved, moved.bar[to]) = from
  <2>1. moved.bar[to] = s.tabs[from].id
    BY <1>1, <1>4, <1>7, <1>8 DEF Paired
  <2>2. tabIndexById(moved, s.tabs[from].id) = tabIndexById(s, s.tabs[from].id)
    BY <1>8 DEF tabIndexById
  <2> QED
    BY <1>1, <2>1, <2>2, IdsLeadToTabs
<1>11. r = [moved EXCEPT !.tabs = Moved(@, from, to), !.activeTab = Spot(@)]
  BY <1>9, <1>10 DEF moveTabPosition
<1>12. /\ r \in Side /\ r.tabs = Moved(s.tabs, from, to) /\ r.activeTab = Spot(s.activeTab)
       /\ r.bar = moved.bar /\ r.triplets = moved.triplets /\ r.shown = moved.shown
       /\ r.current = moved.current /\ r.header = s.header
  <2>1. Spot(s.activeTab) \in Nat
    <3> HIDE DEF Spot
    <3> QED
      BY <1>1, <1>4
  <2> HIDE DEF Spot
  <2>2. /\ moved \in Side /\ moved.tabs = s.tabs /\ moved.activeTab = s.activeTab
        /\ moved.header = s.header /\ Moved(s.tabs, from, to) \in Seq(Tab)
    BY <1>5, <1>8
  <2> QED
    BY <1>11, <2>1, <2>2 DEF Side
<1>13. /\ \A k \in 1..n : r.tabs[Spot(k)] = s.tabs[k]
       /\ \A k \in 1..n : r.bar[Spot(k)] = s.bar[k]
       /\ \A k \in 1..n : r.triplets[Spot(k)] = s.triplets[k]
  BY <1>5, <1>6, <1>7, <1>8, <1>12
<1>14. Len(r.tabs) = n /\ Len(r.bar) = n /\ Len(r.triplets) = n
  BY <1>5, <1>6, <1>7, <1>8, <1>12
<1> HIDE DEF n, Spot
<1>15. /\ \A k \in 1..n : s.bar[k] = s.tabs[k].id /\ s.triplets[k].rows \in {Unset, s.tabs[k].id}
       /\ \A j, k \in 1..n : s.tabs[j].id = s.tabs[k].id => j = k
       /\ s.triplets[s.activeTab].rows # Unset
  BY DEF Consistent, Paired, n
<1>16. \A k \in 1..n : r.bar[k] = r.tabs[k].id /\ r.triplets[k].rows \in {Unset, r.tabs[k].id}
  <2> SUFFICES ASSUME NEW k \in 1..n
               PROVE  r.bar[k] = r.tabs[k].id /\ r.triplets[k].rows \in {Unset, r.tabs[k].id}
    OBVIOUS
  <2>1. PICK j \in 1..n : k = Spot(j)
    BY <1>2
  <2> QED
    BY <1>13, <1>15, <2>1
<1>17. \A j, k \in 1..n : r.tabs[j].id = r.tabs[k].id => j = k
  <2> SUFFICES ASSUME NEW j \in 1..n, NEW k \in 1..n, r.tabs[j].id = r.tabs[k].id
               PROVE  j = k
    OBVIOUS
  <2>1. PICK a \in 1..n : j = Spot(a)
    BY <1>2
  <2>2. PICK b \in 1..n : k = Spot(b)
    BY <1>2
  <2>3. s.tabs[a].id = s.tabs[b].id
    BY <1>13, <2>1, <2>2
  <2> QED
    BY <1>15, <2>1, <2>2, <2>3
<1>18. Consistent(r)
  <2>1. r.activeTab \in 1..n
    BY <1>1, <1>2, <1>12
  <2>2. r.triplets[r.activeTab].rows # Unset
    BY <1>1, <1>12, <1>13, <1>15
  <2>3. r.shown = r.activeTab /\ r.current = r.activeTab
    BY <1>8, <1>12
  <2>4. Paired(r)
    BY <1>12, <1>14, <1>16, <1>17, <2>1 DEF Paired
  <2> QED
    BY <2>2, <2>3, <2>4 DEF Consistent
<1>19. ASSUME NEW g, HasLayouts(s, g)
       PROVE  HasLayouts(r, g)
  <2>1. ASSUME NEW k \in 1..n
        PROVE  LayoutOf(r, Spot(k)) = LayoutOf(s, k)
    <3>1. s.shown \in 1..n /\ r.shown = Spot(s.shown)
      BY <1>1, <1>8, <1>12
    <3>2. Spot(k) = r.shown <=> k = s.shown
      BY <1>3, <3>1
    <3>3. r.triplets[Spot(k)] = s.triplets[k] /\ r.header = s.header
      BY <1>12, <1>13
    <3> QED
      BY <3>2, <3>3 DEF LayoutOf
  <2>2. \A k \in 1..n : g[s.tabs[k].id] # Unset => g[s.tabs[k].id] = LayoutOf(s, k)
    BY <1>19 DEF HasLayouts, n
  <2>3. ASSUME NEW k \in 1..n, g[r.tabs[k].id] # Unset
        PROVE  g[r.tabs[k].id] = LayoutOf(r, k)
    <3>1. PICK j \in 1..n : k = Spot(j)
      BY <1>2
    <3> QED
      BY <1>13, <2>1, <2>2, <2>3, <3>1
  <2> QED
    BY <1>14, <2>3 DEF HasLayouts
<1>20. \A k \in 1..n : \E j \in 1..n : k = Spot(j) /\ r.tabs[k] = s.tabs[j]
  <2> SUFFICES ASSUME NEW k \in 1..n
               PROVE  \E j \in 1..n : k = Spot(j) /\ r.tabs[k] = s.tabs[j]
    OBVIOUS
  <2>1. PICK j \in 1..n : k = Spot(j)
    BY <1>2
  <2>2. r.tabs[k] = s.tabs[j]
    BY <1>13, <2>1
  <2> QED
    BY <2>1, <2>2
<1> QED
  BY <1>13, <1>14, <1>18, <1>19, <1>20 DEF HaveMoved, n, Spot

(* A tab that is opened comes last, in all three, with the layout in force.  *)
LEMMA Opening ==
  ASSUME NEW s, Consistent(s), NEW id \in Id, \A i \in 1..Len(s.tabs) : s.tabs[i].id # id,
         NEW path \in Paths, NEW activate \in BOOLEAN,
         NEW r, r = openPathInNewTab(s, id, path, activate)
  PROVE  /\ Consistent(r) /\ r.tabs = Append(s.tabs, [id |-> id, path |-> path])
         /\ \A g, h : /\ HasLayouts(s, g) /\ h[id] = s.header
                      /\ \A i \in 1..Len(s.tabs) : h[s.tabs[i].id] = g[s.tabs[i].id]
                      => HasLayouts(r, h)
<1> DEFINE n == Len(s.tabs)
           tab == [id |-> id, path |-> path]
           model == [rows |-> Unset, header |-> s.header]
           active == IF activate THEN n + 1 ELSE s.activeTab
           t == [addTab(s, id, path, activate) EXCEPT !.triplets = Append(@, model),
                                                      !.bar = Append(@, id)]
<1>1. /\ Paired(s) /\ s \in Side /\ n \in Nat /\ Len(s.triplets) = n /\ Len(s.bar) = n
      /\ s.shown = s.activeTab /\ s.current = s.activeTab /\ s.activeTab \in 1..n
      /\ s.tabs \in Seq(Tab) /\ s.triplets \in Seq(Triplet) /\ s.bar \in Seq(Id)
      /\ s.header \in Layouts
  BY SideMembers DEF Consistent, Paired
<1>2. tab \in Tab /\ tab.id = id /\ model \in Triplet /\ model.rows = Unset /\ model.header = s.header
  BY <1>1 DEF Tab, Triplet
<1>3. addTab(s, id, path, activate) = [s EXCEPT !.tabs = Append(@, tab), !.activeTab = active]
  BY DEF addTab
<1>4. active \in 1..(n + 1) /\ active \in Nat
  BY <1>1
<1> HIDE DEF tab, model, active
<1>5. /\ t \in Side /\ t.tabs = Append(s.tabs, tab) /\ t.activeTab = active
      /\ t.triplets = Append(s.triplets, model) /\ t.bar = Append(s.bar, id)
      /\ t.shown = s.shown /\ t.header = s.header /\ t.current = s.current
  <2>1. Append(s.tabs, tab) \in Seq(Tab) /\ Append(s.triplets, model) \in Seq(Triplet)
        /\ Append(s.bar, id) \in Seq(Id)
    BY <1>1, <1>2
  <2> QED
    BY <1>1, <1>3, <1>4, <2>1 DEF Side
<1>6. r = IF activate THEN setCurrentIndex(t, Len(t.bar)) ELSE t
  BY DEF openPathInNewTab, tab, model
<1> HIDE DEF t
<1>7. /\ Len(t.tabs) = n + 1 /\ t.tabs[n + 1] = tab /\ \A k \in 1..n : t.tabs[k] = s.tabs[k]
      /\ Len(t.triplets) = n + 1 /\ t.triplets[n + 1] = model
      /\ \A k \in 1..n : t.triplets[k] = s.triplets[k]
      /\ Len(t.bar) = n + 1 /\ t.bar[n + 1] = id /\ \A k \in 1..n : t.bar[k] = s.bar[k]
  <2>1. /\ Len(t.tabs) = n + 1 /\ t.tabs[n + 1] = tab
        /\ \A k \in 1..n : t.tabs[k] = s.tabs[k]
    BY <1>1, <1>5
  <2>2. /\ Len(t.triplets) = n + 1 /\ t.triplets[n + 1] = model
        /\ \A k \in 1..n : t.triplets[k] = s.triplets[k]
    BY <1>1, <1>5
  <2>3. Len(t.bar) = n + 1 /\ t.bar[n + 1] = id /\ \A k \in 1..n : t.bar[k] = s.bar[k]
    BY <1>1, <1>5
  <2> QED
    BY <2>1, <2>2, <2>3
<1>8. \A k \in 1..(n + 1) : k \in 1..n \/ k = n + 1
  BY <1>1
<1>9. /\ \A k \in 1..n : s.bar[k] = s.tabs[k].id /\ s.triplets[k].rows \in {Unset, s.tabs[k].id}
      /\ \A j, k \in 1..n : s.tabs[j].id = s.tabs[k].id => j = k
      /\ \A k \in 1..n : s.tabs[k].id # id
      /\ s.triplets[s.activeTab].rows # Unset
  BY DEF Consistent, Paired
<1> HIDE DEF n
<1>10. Paired(t)
  <2>1. \A k \in 1..(n + 1) : t.bar[k] = t.tabs[k].id /\ t.triplets[k].rows \in {Unset, t.tabs[k].id}
    BY <1>2, <1>7, <1>8, <1>9
  <2>2. \A j, k \in 1..(n + 1) : t.tabs[j].id = t.tabs[k].id => j = k
    BY <1>2, <1>7, <1>8, <1>9
  <2> QED
    BY <1>4, <1>5, <1>7, <2>1, <2>2 DEF Paired
<1>11. ASSUME NEW g, NEW h, HasLayouts(s, g), h[id] = s.header,
              \A i \in 1..Len(s.tabs) : h[s.tabs[i].id] = g[s.tabs[i].id]
       PROVE  HasLayouts(t, h)
  <2>1. s.shown \in 1..n /\ ~ (n + 1 \in 1..n)
    BY <1>1
  <2>2. \A k \in 1..n : h[s.tabs[k].id] # Unset => h[s.tabs[k].id] = LayoutOf(s, k)
    BY <1>11 DEF HasLayouts, n
  <2>3. \A k \in 1..n : LayoutOf(t, k) = LayoutOf(s, k)
    BY <1>5, <1>7 DEF LayoutOf
  <2>4. LayoutOf(t, n + 1) = s.header
    BY <1>2, <1>5, <1>7, <2>1 DEF LayoutOf
  <2>5. \A k \in 1..(n + 1) : h[t.tabs[k].id] # Unset => h[t.tabs[k].id] = LayoutOf(t, k)
    BY <1>2, <1>7, <1>8, <1>11, <2>2, <2>3, <2>4
  <2> QED
    BY <1>7, <2>5 DEF HasLayouts
<1>12. Consistent(r) /\ r.tabs = t.tabs /\ \A h : HasLayouts(t, h) => HasLayouts(r, h)
  <2>1. CASE activate
    <3>1. /\ t.shown \in 1..Len(t.tabs) /\ n + 1 \in 1..Len(t.tabs) /\ n + 1 # t.current
      BY <1>1, <1>5, <1>7 DEF n
    <3>2. r = setCurrentIndex(t, n + 1)
      BY <1>6, <1>7, <2>1
    <3> QED
      BY <1>10, <3>1, <3>2, Switching
  <2>2. CASE ~ activate
    <3>1. r = t /\ t.activeTab = s.activeTab
      BY <1>5, <1>6, <2>2 DEF active
    <3>2. Consistent(t)
      BY <1>1, <1>5, <1>7, <1>9, <1>10, <3>1 DEF Consistent
    <3> QED
      BY <3>1, <3>2
  <2> QED
    BY <2>1, <2>2
<1> QED
  BY <1>5, <1>11, <1>12 DEF tab

(* The side a run begins with.                                              *)
LEMMA Beginning ==
  ASSUME NEW saved, saved.paths \in Seq(Paths), saved.active \in 1..Len(saved.paths),
         Len(saved.paths) <= MaxOpened, NEW layout \in Layouts,
         NEW r, r = SideOf(saved, layout)
  PROVE  /\ Consistent(r) /\ Len(r.tabs) = Len(saved.paths) /\ r.activeTab = saved.active
         /\ r.header = layout
         /\ \A i \in 1..Len(saved.paths) : r.tabs[i] = [id |-> i, path |-> saved.paths[i]]
<1> DEFINE n == Len(saved.paths)
           tabs == [i \in 1..n |-> [id |-> i, path |-> saved.paths[i]]]
           models == [i \in 1..n |-> [rows |-> Unset, header |-> Unset]]
           bar == [i \in 1..n |-> i]
           t == [tabs |-> tabs, activeTab |-> saved.active, triplets |-> models,
                 shown |-> saved.active, header |-> layout, bar |-> bar, current |-> saved.active]
<1>1. n \in Nat /\ n <= MaxOpened /\ saved.active \in Nat /\ DOMAIN saved.paths = 1..n
      /\ \A i \in 1..n : i \in Id /\ saved.paths[i] \in Paths
  BY TabsAssumption DEF Id
<1>2. tabs \in Seq(Tab) /\ DOMAIN tabs = 1..n /\ Len(tabs) = n
  <2>1. \A i \in 1..n : [id |-> i, path |-> saved.paths[i]] \in Tab
    BY <1>1 DEF Tab
  <2> HIDE DEF n
  <2> QED
    BY <1>1, <2>1
<1>3. models \in Seq(Triplet) /\ Len(models) = n
  <2>1. [rows |-> Unset, header |-> Unset] \in Triplet
    BY DEF Triplet
  <2> HIDE DEF n
  <2> QED
    BY <1>1, <2>1
<1>4. bar \in Seq(Id) /\ Len(bar) = n
  <2> HIDE DEF n
  <2> QED
    BY <1>1
<1>5. r = fillFromPanel(t)
  BY <1>1, <1>2 DEF SideOf
<1>6. /\ \A i \in 1..n : tabs[i].id = i /\ bar[i] = i /\ models[i].rows = Unset
      /\ \A i \in 1..n : tabs[i] = [id |-> i, path |-> saved.paths[i]]
  OBVIOUS
<1> HIDE DEF n, tabs, models, bar
<1>7. /\ t \in Side /\ t.tabs = tabs /\ t.activeTab = saved.active /\ t.triplets = models
      /\ t.shown = saved.active /\ t.header = layout /\ t.bar = bar /\ t.current = saved.active
  BY <1>1, <1>2, <1>3, <1>4 DEF Side
<1> HIDE DEF t
<1>8. saved.active \in 1..n
  BY DEF n
<1>9. /\ r \in Side /\ SameTabsAndBar(r, t) /\ r.shown = saved.active /\ r.header = layout
      /\ Len(r.triplets) = n
      /\ \A i \in 1..n :
           r.triplets[i].rows = IF i = saved.active THEN tabs[saved.active].id ELSE Unset
  <2>1. t.shown \in 1..Len(t.triplets) /\ t.activeTab \in 1..Len(t.tabs)
    BY <1>2, <1>3, <1>7, <1>8
  <2>2. /\ r \in Side /\ SameTabsAndBar(r, t)
        /\ r.shown = t.shown /\ r.header = t.header /\ Len(r.triplets) = Len(t.triplets)
        /\ \A i \in 1..Len(t.triplets) :
             r.triplets[i].rows = IF i = t.shown THEN t.tabs[t.activeTab].id
                                  ELSE t.triplets[i].rows
    BY <1>5, <1>7, <2>1, Filling
  <2> QED
    BY <1>3, <1>6, <1>7, <2>2
<1>10. /\ r.tabs = tabs /\ r.activeTab = saved.active /\ r.bar = bar /\ r.current = saved.active
  BY <1>7, <1>9 DEF SameTabsAndBar
<1>11. tabs[saved.active].id # Unset
  BY <1>1, <1>6, <1>8, LayoutsAssumption DEF Id
<1>12. Paired(r)
  BY <1>2, <1>4, <1>6, <1>8, <1>9, <1>10 DEF Paired
<1>13. Consistent(r)
  BY <1>8, <1>9, <1>10, <1>11, <1>12 DEF Consistent
<1> QED
  BY <1>2, <1>6, <1>9, <1>10, <1>13 DEF n

(* The tabs of one side are those of another but for the ones gone.         *)
Leaves(r, s, gone) ==
  /\ \A j \in 1..Len(r.tabs) : \E i \in 1..Len(s.tabs) :
       r.tabs[j] = s.tabs[i] /\ s.tabs[i].id \notin gone
  /\ \A i \in 1..Len(s.tabs) : s.tabs[i].id \notin gone =>
       \E j \in 1..Len(r.tabs) : r.tabs[j] = s.tabs[i]

LEMMA LeavingTwice ==
  ASSUME NEW s, NEW p, NEW q, NEW A, NEW B, Leaves(p, s, A), Leaves(q, p, B)
  PROVE  Leaves(q, s, A \cup B)
<1>1. ASSUME NEW j \in 1..Len(q.tabs)
      PROVE  \E i \in 1..Len(s.tabs) : q.tabs[j] = s.tabs[i] /\ s.tabs[i].id \notin A \cup B
  <2>1. PICK k \in 1..Len(p.tabs) : q.tabs[j] = p.tabs[k] /\ p.tabs[k].id \notin B
    BY DEF Leaves
  <2>2. PICK i \in 1..Len(s.tabs) : p.tabs[k] = s.tabs[i] /\ s.tabs[i].id \notin A
    BY DEF Leaves
  <2> QED
    BY <2>1, <2>2
<1>2. ASSUME NEW i \in 1..Len(s.tabs), s.tabs[i].id \notin A \cup B
      PROVE  \E j \in 1..Len(q.tabs) : q.tabs[j] = s.tabs[i]
  <2>1. PICK k \in 1..Len(p.tabs) : p.tabs[k] = s.tabs[i]
    BY <1>2 DEF Leaves
  <2>2. PICK j \in 1..Len(q.tabs) : q.tabs[j] = p.tabs[k]
    BY <1>2, <2>1 DEF Leaves
  <2> QED
    BY <2>1, <2>2
<1> QED
  BY <1>1, <1>2 DEF Leaves

LEMMA ClosingLeavesTheOthers ==
  ASSUME NEW s, Paired(s), NEW i \in 1..Len(s.tabs), NEW r, r.tabs = RemoveAt(s.tabs, i)
  PROVE  Len(r.tabs) = Len(s.tabs) - 1 /\ Leaves(r, s, {s.tabs[i].id})
<1> DEFINE n == Len(s.tabs)
           From(k) == IF k < i THEN k ELSE k + 1
<1>1. n \in Nat /\ s.tabs \in Seq(Tab)
  BY SideMembers DEF Paired
<1>2. Len(r.tabs) = n - 1 /\ \A k \in 1..(n - 1) : r.tabs[k] = s.tabs[From(k)]
  BY <1>1, RemovedFrom
<1>3. \A k \in 1..(n - 1) : From(k) \in 1..n \ {i}
  BY <1>1
<1>4. ASSUME NEW k \in 1..n \ {i}
      PROVE  \E j \in 1..(n - 1) : From(j) = k
  <2> DEFINE j == IF k < i THEN k ELSE k - 1
  <2>1. j \in 1..(n - 1) /\ From(j) = k
    BY <1>1
  <2> QED
    BY <2>1
<1>5. \A j, k \in 1..n : s.tabs[j].id = s.tabs[k].id => j = k
  BY DEF Paired
<1> HIDE DEF n, From
<1>6. i \in 1..n
  BY DEF n
<1>7. ASSUME NEW j \in 1..(n - 1)
      PROVE  \E k \in 1..n : r.tabs[j] = s.tabs[k] /\ s.tabs[k].id \notin {s.tabs[i].id}
  <2>1. From(j) \in 1..n /\ From(j) # i /\ r.tabs[j] = s.tabs[From(j)]
    BY <1>2, <1>3
  <2>2. s.tabs[From(j)].id # s.tabs[i].id
    BY <1>5, <1>6, <2>1
  <2> QED
    BY <2>1, <2>2
<1>8. ASSUME NEW k \in 1..n, s.tabs[k].id \notin {s.tabs[i].id}
      PROVE  \E j \in 1..(n - 1) : r.tabs[j] = s.tabs[k]
  <2>1. k # i
    BY <1>8
  <2>2. PICK j \in 1..(n - 1) : From(j) = k
    BY <1>4, <2>1
  <2>3. r.tabs[j] = s.tabs[k]
    BY <1>2, <2>2
  <2> QED
    BY <2>3
<1>9. Leaves(r, s, {s.tabs[i].id})
  BY <1>2, <1>7, <1>8 DEF Leaves, n
<1> QED
  BY <1>2, <1>9 DEF n

(* Each tab is closed in what closing those before it has left.             *)
ClosingSteps(s, ids, m, f) ==
  [n \in 0..m |-> IF n = 0 THEN s ELSE closeTabById(f[n - 1], ids[n])]

LEMMA ClosingIsStepwise ==
  ASSUME NEW s, NEW ids, Len(ids) \in Nat
  PROVE  /\ closeTabsById(s, ids)[0] = s
         /\ \A n \in 1..Len(ids) :
              closeTabsById(s, ids)[n] = closeTabById(closeTabsById(s, ids)[n - 1], ids[n])
<1> DEFINE N == Len(ids)
           S == {m \in 0..N : \E f : f = ClosingSteps(s, ids, m, f)}
           after == closeTabsById(s, ids)
<1>1. 0 \in S
  <2> DEFINE f == [n \in 0..0 |-> s]
  <2>1. f = ClosingSteps(s, ids, 0, f)
    BY DEF ClosingSteps
  <2> QED
    BY <2>1
<1>2. ASSUME NEW m \in 1..N, m - 1 \in S
      PROVE  m \in S
  <2>1. PICK f : f = ClosingSteps(s, ids, m - 1, f)
    BY <1>2
  <2>2. /\ f[0] = s
        /\ \A n \in 1..(m - 1) : f[n] = closeTabById(f[n - 1], ids[n])
    <3> DEFINE h == f
    <3>1. f = [n \in 0..(m - 1) |-> IF n = 0 THEN s ELSE closeTabById(h[n - 1], ids[n])]
      BY <2>1 DEF ClosingSteps
    <3> HIDE DEF h
    <3>2. \A n \in 0..(m - 1) : f[n] = IF n = 0 THEN s ELSE closeTabById(h[n - 1], ids[n])
      BY <3>1
    <3>3. 0 \in 0..(m - 1) /\ \A n \in 1..(m - 1) : n \in 0..(m - 1) /\ n # 0
      OBVIOUS
    <3> QED
      BY <3>2, <3>3 DEF h
  <2> DEFINE g == [n \in 0..m |-> IF n = m THEN closeTabById(f[m - 1], ids[m]) ELSE f[n]]
             Body(n) == IF n = 0 THEN s ELSE closeTabById(g[n - 1], ids[n])
  <2>3. ASSUME NEW n \in 0..m
        PROVE  g[n] = Body(n)
    <3>1. CASE n = m
      <4>1. g[m - 1] = f[m - 1] /\ m # 0
        OBVIOUS
      <4> QED
        BY <3>1, <4>1
    <3>2. CASE n # m /\ n # 0
      <4>1. n \in 1..(m - 1) /\ g[n] = f[n] /\ g[n - 1] = f[n - 1]
        BY <3>2
      <4> QED
        BY <2>2, <3>2, <4>1
    <3>3. CASE n = 0
      <4>1. g[0] = f[0]
        OBVIOUS
      <4> QED
        BY <2>2, <3>3, <4>1
    <3> QED
      BY <3>1, <3>2, <3>3
  <2>4. g = [n \in 0..m |-> g[n]]
    OBVIOUS
  <2> HIDE DEF g
  <2>5. g = ClosingSteps(s, ids, m, g)
    BY <2>3, <2>4 DEF ClosingSteps
  <2> QED
    BY <2>5
<1>3. \E f : f = ClosingSteps(s, ids, N, f)
  <2>1. 0..N \subseteq S
    <3> HIDE DEF S
    <3> QED
      BY <1>1, <1>2, UpTo
  <2> QED
    BY <2>1
<1>4. after = CHOOSE f : f = ClosingSteps(s, ids, N, f)
  BY DEF closeTabsById, ClosingSteps
<1> HIDE DEF after
<1>5. after = ClosingSteps(s, ids, N, after)
  BY <1>3, <1>4
<1>6. \A n \in 0..N : after[n] = IF n = 0 THEN s ELSE closeTabById(after[n - 1], ids[n])
  <2> DEFINE h == after
  <2>1. after = [n \in 0..N |-> IF n = 0 THEN s ELSE closeTabById(h[n - 1], ids[n])]
    BY <1>5 DEF ClosingSteps
  <2> HIDE DEF h
  <2>2. \A n \in 0..N : after[n] = IF n = 0 THEN s ELSE closeTabById(h[n - 1], ids[n])
    BY <2>1
  <2> QED
    BY <2>2 DEF h
<1>7. 0 \in 0..N /\ \A n \in 1..N : n \in 0..N /\ n # 0
  OBVIOUS
<1> QED
  BY <1>6, <1>7 DEF after

(* Closing some of the tabs leaves the others, with their layouts.          *)
LEMMA ClosingSome ==
  ASSUME NEW s, Consistent(s), NEW ids \in Seq(Id), Len(ids) < Len(s.tabs),
         \A k \in 1..Len(ids) : \E i \in 1..Len(s.tabs) : ids[k] = s.tabs[i].id,
         \A j, k \in 1..Len(ids) : ids[j] = ids[k] => j = k,
         NEW r, r = closeTabsById(s, ids)[Len(ids)]
  PROVE  /\ Consistent(r) /\ Len(r.tabs) = Len(s.tabs) - Len(ids)
         /\ Leaves(r, s, {ids[k] : k \in 1..Len(ids)})
         /\ \A g : HasLayouts(s, g) => HasLayouts(r, g)
<1> DEFINE N == Len(ids)
           after == closeTabsById(s, ids)
           Gone(n) == {ids[k] : k \in 1..n}
           Right(n) == /\ Consistent(after[n]) /\ Len(after[n].tabs) = Len(s.tabs) - n
                       /\ Leaves(after[n], s, Gone(n))
                       /\ \A g : HasLayouts(s, g) => HasLayouts(after[n], g)
           S == {n \in 0..N : Right(n)}
<1>1. N \in Nat /\ Len(s.tabs) \in Nat /\ N < Len(s.tabs)
  BY SideMembers DEF Consistent, Paired
<1>2. after[0] = s /\ \A n \in 1..N : after[n] = closeTabById(after[n - 1], ids[n])
  BY <1>1, ClosingIsStepwise
<1> HIDE DEF after
<1>3. 0 \in S
  <2>1. Gone(0) = {}
    OBVIOUS
  <2>2. Leaves(s, s, {})
    BY DEF Leaves
  <2>3. Len(s.tabs) - 0 = Len(s.tabs)
    BY <1>1
  <2> HIDE DEF Gone
  <2>4. Right(0)
    BY <1>2, <2>1, <2>2, <2>3
  <2> HIDE DEF Right
  <2> QED
    BY <1>1, <2>4
<1>4. ASSUME NEW n \in 1..N, n - 1 \in S
      PROVE  n \in S
  <2> DEFINE p == after[n - 1]
             q == after[n]
  <2>1. /\ Consistent(p) /\ Len(p.tabs) = Len(s.tabs) - (n - 1)
        /\ Leaves(p, s, Gone(n - 1))
        /\ \A g : HasLayouts(s, g) => HasLayouts(p, g)
    BY <1>4
  <2>2. PICK i \in 1..Len(s.tabs) : ids[n] = s.tabs[i].id
    BY <1>1
  <2>3. ids[n] \notin Gone(n - 1)
    <3> SUFFICES ASSUME NEW k \in 1..(n - 1), ids[k] = ids[n]
                 PROVE  FALSE
      OBVIOUS
    <3>1. k \in 1..N /\ n \in 1..N /\ k # n
      BY <1>1
    <3> QED
      BY <3>1
  <2>4. Gone(n) = Gone(n - 1) \cup {ids[n]}
    <3>1. 1..n = (1..(n - 1)) \cup {n}
      BY <1>1
    <3> QED
      BY <3>1
  <2> HIDE DEF Gone
  <2>5. PICK j \in 1..Len(p.tabs) : p.tabs[j] = s.tabs[i]
    BY <2>1, <2>2, <2>3 DEF Leaves
  <2>6. q = closeTabById(p, p.tabs[j].id) /\ Len(p.tabs) > 1
    BY <1>1, <1>2, <2>1, <2>2, <2>5
  <2> HIDE DEF p, q
  <2>7. /\ Consistent(q) /\ q.tabs = RemoveAt(p.tabs, j)
        /\ \A g : HasLayouts(p, g) => HasLayouts(q, g)
    <3>1. Consistent(p) /\ Len(p.tabs) > 1 /\ q = closeTabById(p, p.tabs[j].id)
      BY <2>1, <2>6
    <3> QED
      BY <3>1, Closing
  <2>8. Len(q.tabs) = Len(p.tabs) - 1 /\ Leaves(q, p, {ids[n]})
    <3>1. Paired(p) /\ p.tabs[j].id = ids[n]
      BY <2>1, <2>2, <2>5 DEF Consistent
    <3>2. Len(q.tabs) = Len(p.tabs) - 1 /\ Leaves(q, p, {p.tabs[j].id})
      BY <2>7, <3>1, ClosingLeavesTheOthers
    <3> QED
      BY <3>1, <3>2
  <2>9. Leaves(q, s, Gone(n))
    <3>1. Leaves(p, s, Gone(n - 1)) /\ Leaves(q, p, {ids[n]})
      BY <2>1, <2>8
    <3>2. Leaves(q, s, Gone(n - 1) \cup {ids[n]})
      BY <3>1, LeavingTwice
    <3> QED
      BY <2>4, <3>2
  <2>10. Len(q.tabs) = Len(s.tabs) - n
    BY <1>1, <2>1, <2>8
  <2>11. \A g : HasLayouts(s, g) => HasLayouts(q, g)
    BY <2>1, <2>7
  <2>12. Right(n)
    BY <2>7, <2>9, <2>10, <2>11 DEF q
  <2>13. n \in 0..N
    BY <1>1
  <2> HIDE DEF Right
  <2> QED
    BY <2>12, <2>13
<1>5. N \in S
  <2> HIDE DEF S
  <2>1. 0..N \subseteq S
    BY <1>1, <1>3, <1>4, UpTo
  <2> QED
    BY <1>1, <2>1
<1>6. Right(N)
  <2> HIDE DEF Right
  <2> QED
    BY <1>5
<1> QED
  BY <1>6 DEF after

-----------------------------------------------------------------------------
(* The invariant: a side that is consistent; ids that were handed out stay   *)
(* so; what is saved and what waits for a listing are of the tabs there are. *)

SavedState == [paths : Seq(Paths), active : Nat]

IsSaved ==
  /\ settings \in SavedState
  /\ settings.active = side.activeTab /\ Len(settings.paths) = Len(side.tabs)
  /\ \A i \in 1..Len(side.tabs) :
       side.tabs[i].id \notin pending => settings.paths[i] = side.tabs[i].path

PendingAreTabs == \A id \in pending : \E i \in 1..Len(side.tabs) : id = side.tabs[i].id

IdsAreUsed ==
  /\ opened \in Id /\ Len(side.tabs) <= MaxTabs
  /\ \A i \in 1..Len(side.tabs) : side.tabs[i].id <= opened

GivenIsKept == given \in [Id -> Layouts \cup {Unset}] /\ HasLayouts(side, given)

TabsInv ==
  /\ Consistent(side) /\ GivenIsKept
  /\ IdsAreUsed /\ PendingAreTabs /\ IsSaved
  /\ recentlyClosed \in Seq(Paths)

(* The invariant says what is to be shown.                                  *)
LEMMA TabsInvSuffices == TabsInv => TabsAreThemselves
<1> SUFFICES ASSUME TabsInv PROVE TabsAreThemselves
  OBVIOUS
<1> DEFINE n == Len(side.tabs)
<1>1. /\ side \in Side /\ n \in Nat /\ Len(side.triplets) = n /\ Len(side.bar) = n
      /\ side.shown = side.activeTab /\ side.current = side.activeTab /\ side.activeTab \in 1..n
      /\ side.tabs \in Seq(Tab) /\ side.triplets \in Seq(Triplet) /\ side.bar \in Seq(Id)
      /\ \A i \in 1..n : side.tabs[i].id \in Id
  BY SideMembers DEF TabsInv, Consistent, Paired
<1>2. DOMAIN side.tabs = 1..n /\ DOMAIN side.triplets = 1..n /\ DOMAIN side.bar = 1..n
  BY <1>1
<1>3. /\ \A i \in 1..n : /\ side.bar[i] = side.tabs[i].id
                         /\ side.triplets[i].rows \in {Unset, side.tabs[i].id}
      /\ \A i, j \in 1..n : side.tabs[i].id = side.tabs[j].id => i = j
      /\ side.triplets[side.activeTab].rows # Unset
  BY DEF TabsInv, Consistent, Paired
<1>4. DOMAIN settings.paths = 1..n /\ settings.paths \in Seq(Paths)
  <2>1. settings.paths \in Seq(Paths) /\ Len(settings.paths) = n
    BY DEF TabsInv, IsSaved, SavedState
  <2> HIDE DEF n
  <2> QED
    BY <2>1
<1> HIDE DEF n
<1>5. TabsTypeOK
  <2>1. pending \subseteq {side.tabs[i].id : i \in DOMAIN side.tabs}
    BY <1>2 DEF TabsInv, PendingAreTabs, n
  <2>2. settings \in [paths : Seq(Paths), active : Nat] /\ settings.active \in DOMAIN settings.paths
    BY <1>1, <1>4 DEF TabsInv, IsSaved, SavedState
  <2> QED
    BY <1>1, <1>2, <2>1, <2>2 DEF TabsInv, TabsTypeOK, IdsAreUsed, GivenIsKept
<1>6. SameTabs
  <2>1. side.bar = [i \in 1..n |-> side.tabs[i].id]
    BY <1>1, <1>2, <1>3
  <2>2. \A i, j \in 1..n : side.bar[i] = side.bar[j] => i = j
    BY <1>3
  <2>3. Len(side.triplets) = Len(side.tabs)
    BY <1>1 DEF n
  <2> QED
    BY <1>1, <1>2, <2>1, <2>2, <2>3 DEF SameTabs
<1>7. OwnRows
  BY <1>1, <1>2, <1>3 DEF OwnRows
<1>8. OwnLayout
  <2>1. \A i \in 1..n : given[side.tabs[i].id] # Unset => given[side.tabs[i].id] = LayoutOf(side, i)
    BY DEF TabsInv, GivenIsKept, HasLayouts, n
  <2> QED
    BY <1>2, <1>3, <2>1 DEF OwnLayout, LayoutOf
<1>9. SavedTabs
  BY <1>2 DEF TabsInv, IsSaved, SavedTabs, n
<1> QED
  BY <1>5, <1>6, <1>7, <1>8, <1>9 DEF TabsAreThemselves

(* What is saved is of the tabs as they are.                                *)
LEMMA Saving ==
  ASSUME NEW s, Consistent(s), NEW saved, saved = savePanelState(s)
  PROVE  /\ saved \in SavedState /\ saved.active = s.activeTab /\ Len(saved.paths) = Len(s.tabs)
         /\ \A i \in 1..Len(s.tabs) : saved.paths[i] = s.tabs[i].path
<1> DEFINE n == Len(s.tabs)
           paths == [i \in 1..n |-> s.tabs[i].path]
<1>1. n \in Nat /\ DOMAIN s.tabs = 1..n /\ s.activeTab \in Nat
      /\ \A i \in 1..n : s.tabs[i].path \in Paths
  BY SideMembers DEF Consistent, Paired
<1>2. saved = [paths |-> paths, active |-> s.activeTab]
  BY <1>1 DEF savePanelState
<1>3. paths \in Seq(Paths) /\ Len(paths) = n
  <2> HIDE DEF n
  <2> QED
    BY <1>1
<1> QED
  BY <1>1, <1>2, <1>3 DEF SavedState

(* The first run.                                                           *)
LEMMA TabsInit == Init => TabsInv
<1> SUFFICES ASSUME NEW path \in Paths, Starts([paths |-> <<path>>, active |-> 1])
             PROVE  TabsInv
  BY DEF Init
<1> DEFINE saved == [paths |-> <<path>>, active |-> 1]
<1>1. /\ saved \in SavedState /\ saved.paths \in Seq(Paths) /\ Len(saved.paths) = 1
      /\ saved.active \in 1..Len(saved.paths) /\ saved.active = 1
  BY DEF SavedState
<1>2. MaxOpened \in Nat /\ 1 <= MaxOpened /\ 1 <= MaxTabs
  BY TabsAssumption
<1>3. PICK layout \in Layouts : side = SideOf(saved, layout)
  BY DEF Starts
<1>4. /\ recentlyClosed = <<>> /\ opened = 1 /\ settings = saved /\ pending = DOMAIN saved.paths
      /\ given = [id \in Id |-> Unset]
  BY <1>1 DEF Starts
<1> HIDE DEF saved
<1>5. /\ Consistent(side) /\ Len(side.tabs) = 1 /\ side.activeTab = 1
      /\ \A i \in 1..1 : side.tabs[i] = [id |-> i, path |-> saved.paths[i]]
  <2>1. /\ saved.paths \in Seq(Paths) /\ saved.active \in 1..Len(saved.paths)
        /\ Len(saved.paths) <= MaxOpened
    BY <1>1, <1>2
  <2>2. /\ Consistent(side) /\ Len(side.tabs) = Len(saved.paths) /\ side.activeTab = saved.active
        /\ \A i \in 1..Len(saved.paths) : side.tabs[i] = [id |-> i, path |-> saved.paths[i]]
    BY <1>3, <2>1, Beginning
  <2> QED
    BY <1>1, <2>2
<1>6. side.tabs[1].id = 1 /\ side.tabs[1].path = saved.paths[1]
  BY <1>5
<1>7. 1 \in Id /\ DOMAIN saved.paths = {1}
  BY <1>1, <1>2 DEF Id
<1>8. GivenIsKept
  BY <1>4, <1>5, <1>6, <1>7 DEF GivenIsKept, HasLayouts
<1>9. IdsAreUsed /\ PendingAreTabs /\ IsSaved
  BY <1>1, <1>2, <1>4, <1>5, <1>6, <1>7 DEF IdsAreUsed, PendingAreTabs, IsSaved
<1> QED
  BY <1>4, <1>5, <1>8, <1>9 DEF TabsInv

-----------------------------------------------------------------------------
(* Every event keeps the invariant.                                        *)

(* What was just saved is saved.                                            *)
LEMMA SavedIsSaved == Consistent(side)' /\ Saved => IsSaved'
<1> SUFFICES ASSUME Consistent(side)', Saved
             PROVE  IsSaved'
  OBVIOUS
<1>1. Consistent(side') /\ settings' = savePanelState(side')
  BY DEF Saved
<1>2. /\ settings' \in SavedState /\ settings'.active = side'.activeTab
      /\ Len(settings'.paths) = Len(side'.tabs)
      /\ \A i \in 1..Len(side'.tabs) : settings'.paths[i] = side'.tabs[i].path
  BY <1>1, Saving
<1> QED
  BY <1>2 DEF IsSaved

LEMMA OpeningStep ==
  ASSUME TabsInv, NEW path \in Paths, NEW activate \in BOOLEAN, open(path, activate),
         recentlyClosed' \in Seq(Paths)
  PROVE  TabsInv'
<1> DEFINE n == Len(side.tabs)
           tab == [id |-> opened', path |-> path]
<1>1. /\ Consistent(side) /\ side \in Side /\ n \in Nat /\ side.tabs \in Seq(Tab)
      /\ side.header \in Layouts /\ \A i \in 1..n : side.tabs[i].id \in Id
  BY SideMembers DEF TabsInv, Consistent, Paired
<1>2. /\ n < MaxTabs /\ opened < MaxOpened /\ opened' = opened + 1
      /\ side' = openPathInNewTab(side, opened', path, activate)
      /\ pending' = pending \cup {opened'}
      /\ given' = [given EXCEPT ![opened'] = side.header] /\ Saved
  BY DEF open
<1>3. /\ opened \in Id /\ opened' \in Id /\ given \in [Id -> Layouts \cup {Unset}]
      /\ \A i \in 1..n : side.tabs[i].id <= opened /\ side.tabs[i].id # opened'
  BY <1>1, <1>2, TabsAssumption DEF TabsInv, IdsAreUsed, GivenIsKept, Id
<1>4. /\ Consistent(side') /\ side'.tabs = Append(side.tabs, tab)
      /\ \A g, h : /\ HasLayouts(side, g) /\ h[opened'] = side.header
                   /\ \A i \in 1..Len(side.tabs) : h[side.tabs[i].id] = g[side.tabs[i].id]
                   => HasLayouts(side', h)
  <2>1. \A i \in 1..Len(side.tabs) : side.tabs[i].id # opened'
    BY <1>3
  <2>2. side' = openPathInNewTab(side, opened', path, activate) /\ opened' \in Id
    BY <1>2, <1>3
  <2> QED
    BY <1>1, <2>1, <2>2, Opening
<1>5. HasLayouts(side', given')
  <2>1. given'[opened'] = side.header
    BY <1>2, <1>3
  <2>2. \A i \in 1..Len(side.tabs) : given'[side.tabs[i].id] = given[side.tabs[i].id]
    BY <1>1, <1>2, <1>3
  <2>3. HasLayouts(side, given)
    BY DEF TabsInv, GivenIsKept
  <2> QED
    BY <1>4, <2>1, <2>2, <2>3
<1>6. GivenIsKept'
  <2>1. given' \in [Id -> Layouts \cup {Unset}]
    BY <1>1, <1>2, <1>3
  <2> QED
    BY <1>5, <2>1 DEF GivenIsKept
<1>7. /\ Len(side'.tabs) = n + 1 /\ side'.tabs[n + 1] = tab
      /\ \A i \in 1..n : side'.tabs[i] = side.tabs[i]
  <2> HIDE DEF tab
  <2>1. tab \in Tab
    BY <1>3 DEF tab, Tab
  <2> QED
    BY <1>1, <1>4, <2>1
<1>8. \A i \in 1..(n + 1) : i \in 1..n \/ i = n + 1
  BY <1>1
<1> HIDE DEF n
<1>9. IdsAreUsed'
  <2>1. n + 1 <= MaxTabs
    BY <1>1, <1>2, TabsAssumption
  <2>2. opened <= opened'
    BY <1>2, <1>3 DEF Id
  <2>3. \A i \in 1..n : side.tabs[i].id \in Nat /\ opened \in Nat
    BY <1>1, <1>3 DEF Id
  <2>4. \A i \in 1..n : side'.tabs[i].id <= opened'
    BY <1>2, <1>3, <1>7, <2>3
  <2>5. side'.tabs[n + 1].id <= opened'
    BY <1>3, <1>7 DEF Id
  <2> QED
    BY <1>3, <1>7, <1>8, <2>1, <2>4, <2>5 DEF IdsAreUsed
<1>10. PendingAreTabs'
  <2>1. \A id \in pending : \E i \in 1..n : id = side'.tabs[i].id
    BY <1>7 DEF TabsInv, PendingAreTabs, n
  <2>2. \A i \in 1..n : i \in 1..(n + 1)
    BY <1>1
  <2>3. opened' = side'.tabs[n + 1].id /\ n + 1 \in 1..(n + 1)
    BY <1>1, <1>7
  <2> QED
    BY <1>2, <1>7, <2>1, <2>2, <2>3 DEF PendingAreTabs
<1>11. IsSaved'
  BY <1>2, <1>4, SavedIsSaved
<1> QED
  BY <1>4, <1>6, <1>9, <1>10, <1>11 DEF TabsInv

LEMMA ClosingStep ==
  ASSUME TabsInv, NEW ids \in Seq(Id), close(ids),
         \A k \in 1..Len(ids) : \E i \in 1..Len(side.tabs) : ids[k] = side.tabs[i].id,
         \A j, k \in 1..Len(ids) : ids[j] = ids[k] => j = k
  PROVE  TabsInv'
<1> DEFINE n == Len(side.tabs)
           gone == {ids[k] : k \in 1..Len(ids)}
<1>1. /\ Consistent(side) /\ Paired(side) /\ side \in Side /\ n \in Nat /\ side.tabs \in Seq(Tab)
      /\ \A i \in 1..n : side.tabs[i].id \in Id /\ side.tabs[i].path \in Paths
  BY SideMembers DEF TabsInv, Consistent, Paired
<1>2. DOMAIN ids = 1..Len(ids) /\ Len(ids) \in Nat /\ Range(ids) = gone
  BY DEF Range
<1>3. /\ n > Len(ids) /\ side' = closeTabsById(side, ids)[Len(ids)]
      /\ recentlyClosed' = recentlyClosed
           \o [k \in DOMAIN ids |-> side.tabs[tabIndexById(side, ids[k])].path]
      /\ pending' = pending \ gone /\ opened' = opened
      /\ given' = [id \in Id |-> IF id \in gone THEN Unset ELSE given[id]] /\ Saved
  BY <1>2 DEF close
<1>4. /\ Consistent(side') /\ Len(side'.tabs) = n - Len(ids) /\ Leaves(side', side, gone)
      /\ \A g : HasLayouts(side, g) => HasLayouts(side', g)
  BY ZenonT(40), <1>1, <1>2, <1>3, ClosingSome
<1> HIDE DEF gone
<1>5. \A j \in 1..Len(side'.tabs) : \E i \in 1..n :
        side'.tabs[j] = side.tabs[i] /\ side.tabs[i].id \notin gone
  BY <1>4 DEF Leaves
<1>6. GivenIsKept'
  <2>1. given \in [Id -> Layouts \cup {Unset}] /\ HasLayouts(side, given)
    BY DEF TabsInv, GivenIsKept
  <2>2. given' \in [Id -> Layouts \cup {Unset}]
    BY <1>3, <2>1
  <2>3. \A j \in 1..Len(side'.tabs) : given'[side'.tabs[j].id] = given[side'.tabs[j].id]
    BY <1>1, <1>3, <1>5
  <2>4. HasLayouts(side', given)
    BY <1>4, <2>1
  <2>5. HasLayouts(side', given')
    BY <2>3, <2>4 DEF HasLayouts
  <2> QED
    BY <2>2, <2>5 DEF GivenIsKept
<1>7. IdsAreUsed'
  <2>1. opened' \in Id /\ n <= MaxTabs /\ \A i \in 1..n : side.tabs[i].id <= opened
    BY <1>3 DEF TabsInv, IdsAreUsed
  <2>2. Len(side'.tabs) <= MaxTabs
    BY <1>1, <1>2, <1>4, <2>1, TabsAssumption
  <2>3. \A j \in 1..Len(side'.tabs) : side'.tabs[j].id <= opened
    BY <1>5, <2>1
  <2> QED
    BY <1>3, <2>1, <2>2, <2>3 DEF IdsAreUsed
<1>8. PendingAreTabs'
  <2> SUFFICES ASSUME NEW id \in pending'
               PROVE  \E j \in 1..Len(side'.tabs) : id = side'.tabs[j].id
    BY DEF PendingAreTabs
  <2>1. id \in pending /\ id \notin gone
    BY <1>3
  <2>2. PICK i \in 1..n : id = side.tabs[i].id
    BY <2>1 DEF TabsInv, PendingAreTabs
  <2>3. PICK j \in 1..Len(side'.tabs) : side'.tabs[j] = side.tabs[i]
    BY <1>4, <2>1, <2>2 DEF Leaves
  <2> QED
    BY <2>2, <2>3
<1>9. IsSaved'
  BY <1>3, <1>4, SavedIsSaved
<1>10. recentlyClosed' \in Seq(Paths)
  <2> DEFINE closed == [k \in 1..Len(ids) |-> side.tabs[tabIndexById(side, ids[k])].path]
  <2>1. ASSUME NEW k \in 1..Len(ids)
        PROVE  side.tabs[tabIndexById(side, ids[k])].path \in Paths
    <3>1. PICK i \in 1..n : ids[k] = side.tabs[i].id
      OBVIOUS
    <3>2. tabIndexById(side, side.tabs[i].id) = i
      BY <1>1, IdsLeadToTabs
    <3> QED
      BY <1>1, <3>1, <3>2
  <2>2. closed \in Seq(Paths)
    BY <1>2, <2>1
  <2>3. recentlyClosed \in Seq(Paths) /\ recentlyClosed' = recentlyClosed \o closed
    BY <1>2, <1>3 DEF TabsInv
  <2> HIDE DEF closed
  <2> QED
    BY <2>2, <2>3
<1> QED
  BY <1>4, <1>6, <1>7, <1>8, <1>9, <1>10 DEF TabsInv

(* The ids of all tabs but one.                                             *)
LEMMA ClosingAllOthersStep ==
  ASSUME TabsInv, NEW index \in 1..Len(side.tabs), closeAllOtherTabs(index)
  PROVE  TabsInv'
<1> DEFINE n == Len(side.tabs)
           ids == RemoveAt(side.bar, index)
           From(k) == IF k < index THEN k ELSE k + 1
<1>1. /\ n \in Nat /\ side.bar \in Seq(Id) /\ Len(side.bar) = n /\ index \in 1..Len(side.bar)
  BY SideMembers DEF TabsInv, Consistent, Paired
<1>2. /\ \A k \in 1..n : side.bar[k] = side.tabs[k].id
      /\ \A j, k \in 1..n : side.tabs[j].id = side.tabs[k].id => j = k
  BY DEF TabsInv, Consistent, Paired
<1>3. /\ ids \in Seq(Id) /\ Len(ids) = Len(side.bar) - 1
      /\ \A k \in 1..(Len(side.bar) - 1) : ids[k] = side.bar[IF k < index THEN k ELSE k + 1]
  BY <1>1, RemovedFrom
<1>4. Len(ids) = n - 1 /\ \A k \in 1..Len(ids) : ids[k] = side.bar[From(k)]
  BY <1>1, <1>3
<1>5. /\ \A k \in 1..(n - 1) : From(k) \in 1..n
      /\ \A j, k \in 1..(n - 1) : From(j) = From(k) => j = k
  BY <1>1
<1>6. close(ids)
  BY DEF closeAllOtherTabs
<1> HIDE DEF ids, From, n
<1>7. ASSUME NEW k \in 1..Len(ids)
      PROVE  From(k) \in 1..n /\ ids[k] = side.tabs[From(k)].id
  BY <1>2, <1>4, <1>5
<1>8. \A k \in 1..Len(ids) : \E i \in 1..Len(side.tabs) : ids[k] = side.tabs[i].id
  BY <1>7 DEF n
<1>9. ASSUME NEW j \in 1..Len(ids), NEW k \in 1..Len(ids), ids[j] = ids[k]
      PROVE  j = k
  <2>1. From(j) = From(k)
    <3>1. /\ From(j) \in 1..n /\ ids[j] = side.tabs[From(j)].id
          /\ From(k) \in 1..n /\ ids[k] = side.tabs[From(k)].id
      BY <1>7
    <3> QED
      BY <1>2, <1>9, <3>1
  <2> QED
    BY <1>4, <1>5, <2>1
<1> QED
  BY <1>3, <1>6, <1>8, <1>9, ClosingStep

LEMMA ClosingOneStep ==
  ASSUME TabsInv, NEW index \in 1..Len(side.tabs), onTabBarCloseRequested(index)
  PROVE  TabsInv'
<1> DEFINE ids == <<side.bar[index]>>
<1>1. side.bar[index] \in Id /\ side.bar[index] = side.tabs[index].id
  BY SideMembers DEF TabsInv, Consistent, Paired
<1>2. /\ ids \in Seq(Id) /\ Len(ids) = 1 /\ ids[1] = side.bar[index]
      /\ \A k \in 1..Len(ids) : k = 1
  BY <1>1
<1>3. close(ids)
  BY DEF onTabBarCloseRequested
<1> HIDE DEF ids
<1>4. /\ \A k \in 1..Len(ids) : \E i \in 1..Len(side.tabs) : ids[k] = side.tabs[i].id
      /\ \A j, k \in 1..Len(ids) : ids[j] = ids[k] => j = k
  BY <1>1, <1>2
<1> QED
  BY <1>2, <1>3, <1>4, ClosingStep

LEMMA SwitchingStep ==
  ASSUME TabsInv, NEW index \in 1..Len(side.tabs), switchToTab(index)
  PROVE  TabsInv'
<1>1. /\ index # side.current /\ side' = setCurrentIndex(side, index) /\ Saved
      /\ UNCHANGED <<recentlyClosed, opened, pending, given>>
  BY DEF switchToTab
<1>2. Paired(side) /\ side.shown \in 1..Len(side.tabs)
  BY DEF TabsInv, Consistent, Paired
<1>3. Consistent(side') /\ side'.tabs = side.tabs /\ \A g : HasLayouts(side, g) => HasLayouts(side', g)
  BY <1>1, <1>2, Switching
<1>4. IsSaved'
  BY <1>1, <1>3, SavedIsSaved
<1>5. GivenIsKept'
  BY <1>1, <1>3 DEF TabsInv, GivenIsKept
<1>6. IdsAreUsed' /\ PendingAreTabs'
  BY <1>1, <1>3 DEF TabsInv, IdsAreUsed, PendingAreTabs
<1> QED
  BY <1>1, <1>3, <1>4, <1>5, <1>6 DEF TabsInv

LEMMA MovingStep ==
  ASSUME TabsInv, NEW from \in 1..Len(side.tabs), NEW to \in 1..Len(side.tabs), moveTab(from, to)
  PROVE  TabsInv'
<1> DEFINE n == Len(side.tabs)
<1>1. /\ side' = onTabBarTabMoved(side, from, to) /\ Saved
      /\ UNCHANGED <<recentlyClosed, opened, pending, given>>
  BY DEF moveTab
<1>2. n \in Nat /\ Consistent(side)
  BY SideMembers DEF TabsInv, Consistent, Paired
<1>3. /\ Consistent(side') /\ Len(side'.tabs) = n
      /\ \A k \in 1..n : side'.tabs[AfterMove(k, from, to)] = side.tabs[k]
      /\ \A k \in 1..n : \E j \in 1..n : k = AfterMove(j, from, to) /\ side'.tabs[k] = side.tabs[j]
      /\ \A g : HasLayouts(side, g) => HasLayouts(side', g)
  <2>1. Consistent(side) /\ side' = onTabBarTabMoved(side, from, to)
    BY <1>1, <1>2
  <2>2. /\ Consistent(side') /\ HaveMoved(side', side, from, to)
        /\ \A g : HasLayouts(side, g) => HasLayouts(side', g)
    BY <2>1, Moving
  <2> QED
    BY <2>2 DEF HaveMoved
<1>4. IsSaved'
  BY <1>1, <1>3, SavedIsSaved
<1>5. GivenIsKept'
  BY <1>1, <1>3 DEF TabsInv, GivenIsKept
<1>6. IdsAreUsed'
  <2>1. \A k \in 1..n : \E j \in 1..n : side'.tabs[k] = side.tabs[j]
    BY <1>3
  <2> QED
    BY <1>1, <1>3, <2>1 DEF TabsInv, IdsAreUsed
<1>7. PendingAreTabs'
  <2> SUFFICES ASSUME NEW id \in pending'
               PROVE  \E j \in 1..Len(side'.tabs) : id = side'.tabs[j].id
    BY DEF PendingAreTabs
  <2>1. PICK k \in 1..n : id = side.tabs[k].id
    BY <1>1 DEF TabsInv, PendingAreTabs
  <2>2. AfterMove(k, from, to) \in 1..n
    <3>1. from \in 1..n /\ to \in 1..n
      OBVIOUS
    <3> HIDE DEF n
    <3> QED
      BY <1>2, <3>1, MovingBack
  <2>3. id = side'.tabs[AfterMove(k, from, to)].id
    BY <1>3, <2>1
  <2> QED
    BY <1>3, <2>2, <2>3
<1> QED
  BY <1>1, <1>3, <1>4, <1>5, <1>6, <1>7 DEF TabsInv

LEMMA ResizingStep ==
  ASSUME TabsInv, NEW layout \in Layouts, resizeColumns(layout)
  PROVE  TabsInv'
<1> DEFINE a == side.activeTab
           id == side.tabs[a].id
<1>1. /\ side' = [side EXCEPT !.header = layout] /\ given' = [given EXCEPT ![id] = layout]
      /\ UNCHANGED <<recentlyClosed, opened, settings, pending>>
  BY DEF resizeColumns, activeTabId
<1>2. /\ side \in Side /\ a \in 1..Len(side.tabs) /\ id \in Id /\ side.shown = a
      /\ \A i \in 1..Len(side.tabs) : side.tabs[i].id \in Id
      /\ \A i, j \in 1..Len(side.tabs) : side.tabs[i].id = side.tabs[j].id => i = j
  BY SideMembers DEF TabsInv, Consistent, Paired
<1>3. /\ side' \in Side /\ SameTabsAndBar(side', side) /\ side'.shown = side.shown
      /\ side'.triplets = side.triplets /\ side'.header = layout
  BY <1>1, <1>2 DEF Side, SameTabsAndBar
<1>4. Consistent(side')
  BY <1>3 DEF TabsInv, Consistent, Paired, SameTabsAndBar
<1>5. given \in [Id -> Layouts \cup {Unset}] /\ HasLayouts(side, given)
  BY DEF TabsInv, GivenIsKept
<1>6. given' \in [Id -> Layouts \cup {Unset}]
  BY <1>1, <1>2, <1>5
<1>7. ASSUME NEW i \in 1..Len(side.tabs), given'[side.tabs[i].id] # Unset
      PROVE  given'[side.tabs[i].id] = LayoutOf(side', i)
  <2>1. CASE i = a
    BY <1>1, <1>2, <1>3, <1>5, <2>1 DEF LayoutOf
  <2>2. CASE i # a
    <3>1. given'[side.tabs[i].id] = given[side.tabs[i].id]
      BY <1>1, <1>2, <1>5, <2>2
    <3>2. LayoutOf(side', i) = LayoutOf(side, i)
      BY <1>2, <1>3, <2>2 DEF LayoutOf
    <3> QED
      BY <1>5, <1>7, <3>1, <3>2 DEF HasLayouts
  <2> QED
    BY <2>1, <2>2
<1>8. GivenIsKept'
  BY <1>3, <1>6, <1>7 DEF GivenIsKept, HasLayouts, SameTabsAndBar
<1>9. IdsAreUsed' /\ PendingAreTabs' /\ IsSaved'
  BY <1>1, <1>3 DEF TabsInv, IdsAreUsed, PendingAreTabs, IsSaved, SameTabsAndBar
<1> QED
  BY <1>1, <1>4, <1>8, <1>9 DEF TabsInv

LEMMA ChangingPathStep ==
  ASSUME TabsInv, NEW index \in 1..Len(side.tabs), NEW path \in Paths, changePath(index, path)
  PROVE  TabsInv'
<1> DEFINE n == Len(side.tabs)
           tab == [side.tabs[index] EXCEPT !.path = path]
           tabs == [side.tabs EXCEPT ![index] = tab]
<1>1. /\ side' = [side EXCEPT !.tabs = tabs]
      /\ pending' = pending \cup {side.tabs[index].id}
      /\ UNCHANGED <<recentlyClosed, opened, settings, given>>
  BY DEF changePath
<1>2. /\ Consistent(side) /\ side \in Side /\ n \in Nat /\ side.tabs \in Seq(Tab)
      /\ side.tabs[index] \in Tab
  BY SideMembers DEF TabsInv, Consistent, Paired
<1>3. tab \in Tab /\ tab.id = side.tabs[index].id
  BY <1>2 DEF Tab
<1> HIDE DEF tab
<1>4. /\ tabs \in Seq(Tab) /\ Len(tabs) = n
      /\ \A i \in 1..n : tabs[i] = IF i = index THEN tab ELSE side.tabs[i]
  BY <1>2, <1>3
<1> HIDE DEF tabs
<1>5. /\ side' \in Side /\ side'.tabs = tabs /\ side'.activeTab = side.activeTab
      /\ side'.triplets = side.triplets /\ side'.shown = side.shown /\ side'.header = side.header
      /\ side'.bar = side.bar /\ side'.current = side.current
  BY <1>1, <1>2, <1>4 DEF Side
<1>6. \A i \in 1..n : side'.tabs[i].id = side.tabs[i].id
  BY <1>3, <1>4, <1>5
<1>7. Len(side'.tabs) = n
  BY <1>4, <1>5
<1>8. Consistent(side')
  <2>1. /\ side.activeTab \in 1..n /\ Len(side.bar) = n /\ Len(side.triplets) = n
        /\ \A i \in 1..n :
             side.bar[i] = side.tabs[i].id /\ side.triplets[i].rows \in {Unset, side.tabs[i].id}
        /\ \A i, j \in 1..n : side.tabs[i].id = side.tabs[j].id => i = j
    BY <1>2 DEF Consistent, Paired
  <2>2. \A i \in 1..n : side'.bar[i] = side'.tabs[i].id
                        /\ side'.triplets[i].rows \in {Unset, side'.tabs[i].id}
    BY <1>5, <1>6, <2>1
  <2>3. \A i, j \in 1..n : side'.tabs[i].id = side'.tabs[j].id => i = j
    BY <1>6, <2>1
  <2>4. Paired(side')
    BY <1>5, <1>7, <2>1, <2>2, <2>3 DEF Paired
  <2> QED
    BY <1>2, <1>5, <2>4 DEF Consistent
<1>9. GivenIsKept'
  <2>1. \A i \in 1..n : LayoutOf(side', i) = LayoutOf(side, i)
    BY <1>5 DEF LayoutOf
  <2> QED
    BY <1>1, <1>6, <1>7, <2>1 DEF TabsInv, GivenIsKept, HasLayouts
<1>10. IdsAreUsed'
  BY <1>1, <1>6, <1>7 DEF TabsInv, IdsAreUsed
<1>11. PendingAreTabs'
  <2>1. \A id \in pending' : \E i \in 1..n : id = side.tabs[i].id
    BY <1>1 DEF TabsInv, PendingAreTabs
  <2> QED
    BY <1>6, <1>7, <2>1 DEF PendingAreTabs
<1>12. IsSaved'
  <2>1. ASSUME NEW i \in 1..n, side'.tabs[i].id \notin pending'
        PROVE  settings'.paths[i] = side'.tabs[i].path
    <3>1. i # index /\ side.tabs[i].id \notin pending
      BY <1>1, <1>6, <2>1
    <3>2. side'.tabs[i] = side.tabs[i]
      BY <1>4, <1>5, <3>1
    <3> QED
      BY <1>1, <3>1, <3>2 DEF TabsInv, IsSaved
  <2> QED
    BY <1>1, <1>5, <1>7, <2>1 DEF TabsInv, IsSaved
<1> QED
  BY <1>1, <1>8, <1>9, <1>10, <1>11, <1>12 DEF TabsInv

LEMMA ListingStep ==
  ASSUME TabsInv, NEW id \in Range(side.bar), onPanelContentsChanged(id)
  PROVE  TabsInv'
<1>1. /\ pending' = pending \ {id} /\ side' \in {side, fillFromPanel(side)} /\ Saved
      /\ UNCHANGED <<recentlyClosed, opened, given>>
  BY DEF onPanelContentsChanged
<1>2. /\ Consistent(side) /\ Paired(side) /\ side \in Side /\ side.activeTab \in 1..Len(side.tabs)
      /\ side.shown = side.activeTab /\ side.shown \in 1..Len(side.triplets)
      /\ Len(side.triplets) = Len(side.tabs)
      /\ \A i \in 1..Len(side.tabs) : side.tabs[i].id \in Id
  BY SideMembers DEF TabsInv, Consistent, Paired
<1>3. Consistent(side') /\ side'.tabs = side.tabs /\ \A g : HasLayouts(side, g) => HasLayouts(side', g)
  <2>1. CASE side' = side
    BY <1>2, <2>1
  <2>2. CASE side' = fillFromPanel(side)
    <3>1. /\ side' \in Side /\ SameTabsAndBar(side', side)
          /\ side'.shown = side.shown /\ side'.header = side.header
          /\ Len(side'.triplets) = Len(side.triplets)
          /\ \A i \in 1..Len(side.triplets) :
               /\ side'.triplets[i].header = side.triplets[i].header
               /\ side'.triplets[i].rows = IF i = side.shown THEN side.tabs[side.activeTab].id
                                           ELSE side.triplets[i].rows
      BY <1>2, <2>2, Filling
    <3>2. Paired(side')
      BY <1>2, <3>1 DEF Paired, SameTabsAndBar
    <3>3. side.tabs[side.activeTab].id # Unset
      BY <1>2, LayoutsAssumption DEF Id
    <3>4. Consistent(side')
      BY <1>2, <3>1, <3>2, <3>3 DEF Consistent, SameTabsAndBar
    <3>5. \A i \in 1..Len(side.tabs) : LayoutOf(side', i) = LayoutOf(side, i)
      BY <1>2, <3>1 DEF LayoutOf
    <3>6. \A g : HasLayouts(side, g) => HasLayouts(side', g)
      BY <3>1, <3>5 DEF HasLayouts, SameTabsAndBar
    <3> QED
      BY <3>1, <3>4, <3>6 DEF SameTabsAndBar
  <2> QED
    BY <1>1, <2>1, <2>2
<1>4. IsSaved'
  BY <1>1, <1>3, SavedIsSaved
<1>5. GivenIsKept'
  BY <1>1, <1>3 DEF TabsInv, GivenIsKept
<1>6. IdsAreUsed' /\ PendingAreTabs'
  BY <1>1, <1>3 DEF TabsInv, IdsAreUsed, PendingAreTabs
<1> QED
  BY <1>1, <1>3, <1>4, <1>5, <1>6 DEF TabsInv

LEMMA RestartingStep ==
  ASSUME TabsInv, restart
  PROVE  TabsInv'
<1>1. PICK saved \in {settings, savePanelState(side)} :
        /\ recentlyClosed' = <<>> /\ opened' = Len(saved.paths) /\ settings' = saved
        /\ pending' = DOMAIN saved.paths /\ given' = [id \in Id |-> Unset]
        /\ side' = SideOf(saved, side.header)
  BY DEF restart
<1> DEFINE n == Len(saved.paths)
<1>2. /\ Consistent(side) /\ side.header \in Layouts /\ Len(side.tabs) \in Nat
      /\ side.activeTab \in 1..Len(side.tabs) /\ Len(side.tabs) <= MaxTabs
  BY SideMembers DEF TabsInv, Consistent, Paired, IdsAreUsed
<1>3. saved \in SavedState /\ saved.active = side.activeTab /\ n = Len(side.tabs)
  <2>1. CASE saved = settings
    BY <2>1 DEF TabsInv, IsSaved
  <2>2. CASE saved = savePanelState(side)
    BY <1>2, <2>2, Saving
  <2> QED
    BY <2>1, <2>2
<1>4. /\ saved.paths \in Seq(Paths) /\ saved.active \in 1..n /\ n \in 1..MaxOpened /\ n <= MaxTabs
      /\ n \in Nat
  BY <1>2, <1>3, TabsAssumption DEF SavedState
<1>5. /\ Consistent(side') /\ Len(side'.tabs) = n /\ side'.activeTab = saved.active
      /\ \A i \in 1..n : side'.tabs[i] = [id |-> i, path |-> saved.paths[i]]
  <2>1. Len(saved.paths) <= MaxOpened
    BY <1>4
  <2> QED
    BY <1>1, <1>2, <1>4, <2>1, Beginning
<1>6. DOMAIN saved.paths = 1..n
  BY <1>4
<1> HIDE DEF n
<1>7. \A i \in 1..n : side'.tabs[i].id = i /\ side'.tabs[i].path = saved.paths[i] /\ i \in Id
  <2> SUFFICES ASSUME NEW i \in 1..n
               PROVE  side'.tabs[i].id = i /\ side'.tabs[i].path = saved.paths[i] /\ i \in Id
    OBVIOUS
  <2>1. side'.tabs[i] = [id |-> i, path |-> saved.paths[i]]
    BY <1>5
  <2>2. i \in Id
    BY <1>4, TabsAssumption DEF Id
  <2> QED
    BY <2>1, <2>2
<1>8. GivenIsKept'
  BY <1>1, <1>5, <1>7 DEF GivenIsKept, HasLayouts
<1>9. IdsAreUsed'
  BY <1>1, <1>4, <1>5, <1>7 DEF IdsAreUsed, Id, n
<1>10. PendingAreTabs'
  BY <1>1, <1>5, <1>6, <1>7 DEF PendingAreTabs
<1>11. IsSaved'
  BY <1>1, <1>3, <1>5, <1>6, <1>7 DEF IsSaved, n
<1> QED
  BY <1>1, <1>5, <1>8, <1>9, <1>10, <1>11 DEF TabsInv

LEMMA TabsStep == TabsInv /\ [Next]_vars => TabsInv'
<1> SUFFICES ASSUME TabsInv, [Next]_vars
             PROVE  TabsInv'
  OBVIOUS
<1>1. /\ DOMAIN side.tabs = 1..Len(side.tabs) /\ recentlyClosed \in Seq(Paths)
      /\ \A i \in 1..Len(side.tabs) : side.tabs[i].path \in Paths
  BY SideMembers DEF TabsInv, Consistent, Paired
<1>2. ASSUME NEW path \in Paths, NEW activate \in BOOLEAN, openTab(path, activate)
      PROVE  TabsInv'
  BY <1>1, <1>2, OpeningStep DEF openTab
<1>3. CASE reopenLastClosedTab
  <2>1. /\ recentlyClosed # <<>> /\ recentlyClosed' = Front(recentlyClosed)
        /\ open(Last(recentlyClosed), TRUE)
    BY <1>3 DEF reopenLastClosedTab
  <2>2. Front(recentlyClosed) \in Seq(Paths) /\ Last(recentlyClosed) \in Paths
    <3>1. Len(recentlyClosed) \in 1..Len(recentlyClosed)
      BY <1>1, <2>1
    <3> QED
      BY <1>1, <3>1 DEF Front, Last
  <2> QED
    BY <2>1, <2>2, OpeningStep
<1>4. ASSUME NEW index \in DOMAIN side.tabs
      PROVE  /\ duplicateTab(index) => TabsInv'
             /\ onTabBarCloseRequested(index) => TabsInv'
             /\ closeAllOtherTabs(index) => TabsInv'
             /\ switchToTab(index) => TabsInv'
             /\ \A to \in DOMAIN side.tabs : moveTab(index, to) => TabsInv'
             /\ \A path \in Paths : changePath(index, path) => TabsInv'
  <2>1. index \in 1..Len(side.tabs)
    BY <1>1
  <2>2. CASE duplicateTab(index)
    <3>1. openTab(side.tabs[index].path, FALSE)
      BY <2>2 DEF duplicateTab
    <3> QED
      BY <1>1, <1>2, <2>1, <3>1
  <2> QED
    BY <1>1, <2>1, <2>2, ClosingOneStep, ClosingAllOthersStep, SwitchingStep, MovingStep,
       ChangingPathStep
<1>5. ASSUME NEW layout \in Layouts, resizeColumns(layout)
      PROVE  TabsInv'
  BY <1>5, ResizingStep
<1>6. ASSUME NEW id \in Range(side.bar), onPanelContentsChanged(id)
      PROVE  TabsInv'
  BY <1>6, ListingStep
<1>7. CASE restart
  BY <1>7, RestartingStep
<1>8. CASE UNCHANGED vars
  BY <1>8 DEF vars, TabsInv, GivenIsKept, IdsAreUsed, PendingAreTabs, IsSaved
<1> QED
  BY <1>2, <1>3, <1>4, <1>5, <1>6, <1>7, <1>8 DEF Next

(* However many tabs are opened, closed, moved, switched to and listed in the *)
(* background, and over any number of crashes: the controller, the widget and *)
(* the bar have the same tabs, each with its own rows, columns and entry in   *)
(* the settings (ccontroller.cpp:136-250, cpanelwidget.cpp:310-560).          *)
THEOREM TabsStayThemselves == Spec => []TabsAreThemselves
<1>1. Init => TabsInv
  BY TabsInit
<1>2. TabsInv /\ [Next]_vars => TabsInv'
  BY TabsStep
<1>3. TabsInv => TabsAreThemselves
  BY TabsInvSuffices
<1> QED
  BY <1>1, <1>2, <1>3, PTL DEF Spec

-----------------------------------------------------------------------------
(* PanelCursor: the way up from an item.                                   *)

Walks(i, j, n) ==
  {s \in [0..n -> Items] :
     /\ s[0] = i /\ s[n] = j
     /\ \A k \in 1..n : s[k - 1] # Root /\ s[k] = ParentOf[s[k - 1]]}
WayUp(i) == {j \in Items : \E n \in Nat : Walks(i, j, n) # {}}

LEMMA ParentsAreFolders == \A i \in Items \ {Root} : ParentOf[i] \in Folders /\ ParentOf[i] \in Items
  BY TreeAssumption DEF Items

(* It is the item, and the way up from its parent.                           *)
LEMMA OneStepUp ==
  ASSUME NEW i \in Items
  PROVE  WayUp(i) = IF i = Root THEN {i} ELSE {i} \cup WayUp(ParentOf[i])
<1>1. i \in WayUp(i)
  <2> DEFINE s == [k \in 0..0 |-> i]
  <2>1. s \in Walks(i, i, 0)
    BY DEF Walks
  <2> QED
    BY <2>1 DEF WayUp
<1>2. ASSUME i # Root, NEW j \in WayUp(ParentOf[i])
      PROVE  j \in WayUp(i)
  <2>1. PICK n \in Nat : Walks(ParentOf[i], j, n) # {}
    BY DEF WayUp
  <2> PICK s \in Walks(ParentOf[i], j, n) : TRUE
    BY <2>1
  <2>2. /\ s \in [0..n -> Items] /\ s[0] = ParentOf[i] /\ s[n] = j
        /\ \A k \in 1..n : s[k - 1] # Root /\ s[k] = ParentOf[s[k - 1]]
    BY DEF Walks
  <2> DEFINE t == [k \in 0..(n + 1) |-> IF k = 0 THEN i ELSE s[k - 1]]
  <2>3. t \in [0..(n + 1) -> Items] /\ t[0] = i /\ t[n + 1] = j
    BY <2>2
  <2>4. ASSUME NEW k \in 1..(n + 1)
        PROVE  t[k - 1] # Root /\ t[k] = ParentOf[t[k - 1]]
    <3>1. CASE k = 1
      BY <1>2, <2>2, <3>1
    <3>2. CASE k # 1
      <4>1. k - 1 \in 1..n /\ t[k] = s[k - 1] /\ t[k - 1] = s[(k - 1) - 1]
        BY <3>2
      <4> QED
        BY <2>2, <4>1
    <3> QED
      BY <3>1, <3>2
  <2> HIDE DEF t
  <2>5. t \in Walks(i, j, n + 1) /\ n + 1 \in Nat /\ j \in Items
    BY <2>3, <2>4 DEF Walks, WayUp
  <2> QED
    BY <2>5 DEF WayUp
<1>3. ASSUME NEW j \in WayUp(i), j # i
      PROVE  i # Root /\ j \in WayUp(ParentOf[i])
  <2>1. PICK n \in Nat : Walks(i, j, n) # {}
    BY DEF WayUp
  <2> PICK s \in Walks(i, j, n) : TRUE
    BY <2>1
  <2>2. /\ s \in [0..n -> Items] /\ s[0] = i /\ s[n] = j
        /\ \A k \in 1..n : s[k - 1] # Root /\ s[k] = ParentOf[s[k - 1]]
    BY DEF Walks
  <2>3. n \in 1..n /\ 1 \in 1..n
    BY <1>3, <2>2
  <2>4. i # Root /\ s[1] = ParentOf[i]
    BY <2>2, <2>3
  <2> DEFINE t == [k \in 0..(n - 1) |-> s[k + 1]]
  <2>5. t \in [0..(n - 1) -> Items] /\ t[0] = ParentOf[i] /\ t[n - 1] = j
    BY <2>2, <2>3, <2>4
  <2>6. ASSUME NEW k \in 1..(n - 1)
        PROVE  t[k - 1] # Root /\ t[k] = ParentOf[t[k - 1]]
    <3>1. k + 1 \in 1..n /\ t[k] = s[k + 1] /\ t[k - 1] = s[(k + 1) - 1]
      OBVIOUS
    <3> QED
      BY <2>2, <3>1
  <2> HIDE DEF t
  <2>7. t \in Walks(ParentOf[i], j, n - 1) /\ n - 1 \in Nat /\ j \in Items
    BY <2>3, <2>5, <2>6 DEF Walks, WayUp
  <2> QED
    BY <2>4, <2>7 DEF WayUp
<1> QED
  BY <1>1, <1>2, <1>3

LEMMA AncestorsAreStepwise ==
  ASSUME NEW i \in Items
  PROVE  AncestorsOf[i] = IF i = Root THEN {i} ELSE {i} \cup AncestorsOf[ParentOf[i]]
<1> DEFINE Body(g) == [k \in Items |-> IF k = Root THEN {k} ELSE {k} \cup g[ParentOf[k]]]
           f == [k \in Items |-> WayUp(k)]
<1>1. f = Body(f)
  <2>1. \A k \in Items : k # Root => f[ParentOf[k]] = WayUp(ParentOf[k])
    BY ParentsAreFolders
  <2>2. \A k \in Items : f[k] = Body(f)[k]
    BY <2>1, OneStepUp
  <2> HIDE DEF f
  <2>3. f = [k \in Items |-> f[k]]
    BY DEF f
  <2> QED
    BY <2>2, <2>3
<1> HIDE DEF f
<1>2. AncestorsOf = CHOOSE g : g = Body(g)
  BY DEF AncestorsOf
<1> HIDE DEF Body
<1>3. AncestorsOf = Body(AncestorsOf)
  BY <1>1, <1>2
<1> QED
  BY <1>3 DEF Body

(* It leads through folders to the root, and whatever is there of it, one is  *)
(* the nearest.                                                            *)
LEMMA TheWayUp ==
  ASSUME NEW i \in Items
  PROVE  /\ i \in AncestorsOf[i] /\ Root \in AncestorsOf[i]
         /\ i \in Folders => AncestorsOf[i] \subseteq Folders
         /\ \A S : Root \in S =>
              \E f \in AncestorsOf[i] \cap S : \A g \in AncestorsOf[i] \cap S : g \in AncestorsOf[f]
<1> DEFINE Good(k) == /\ k \in AncestorsOf[k] /\ Root \in AncestorsOf[k]
                      /\ k \in Folders => AncestorsOf[k] \subseteq Folders
                      /\ \A S : Root \in S =>
                           \E f \in AncestorsOf[k] \cap S :
                             \A g \in AncestorsOf[k] \cap S : g \in AncestorsOf[f]
           Bad == {k \in Items : ~ Good(k)}
           Places == {Place[k] : k \in Bad}
<1>1. \A k \in Items : Place[k] \in Nat
  BY TreeAssumption
<1>2. ASSUME NEW k \in Items, k = Root \/ Good(ParentOf[k])
      PROVE  Good(k)
  <2>1. CASE k = Root
    <3>1. AncestorsOf[k] = {k}
      BY <2>1, AncestorsAreStepwise
    <3> QED
      BY <2>1, <3>1
  <2>2. CASE k # Root
    <3> DEFINE p == ParentOf[k]
    <3>1. AncestorsOf[k] = {k} \cup AncestorsOf[p] /\ p \in Folders
      BY <2>2, AncestorsAreStepwise, ParentsAreFolders
    <3>2. Good(p)
      BY <1>2, <2>2
    <3> HIDE DEF p
    <3>3. ASSUME NEW S, Root \in S
          PROVE  \E f \in AncestorsOf[k] \cap S : \A g \in AncestorsOf[k] \cap S : g \in AncestorsOf[f]
      <4>1. CASE k \in S
        BY <3>1, <4>1
      <4>2. CASE k \notin S
        BY <3>1, <3>2, <3>3, <4>2
      <4> QED
        BY <4>1, <4>2
    <3> QED
      BY <3>1, <3>2, <3>3
  <2> QED
    BY <2>1, <2>2
<1> HIDE DEF Good
<1>3. Bad = {}
  <2> SUFFICES ASSUME Bad # {}
               PROVE  FALSE
    OBVIOUS
  <2>1. Places \subseteq Nat /\ Places # {}
    BY <1>1
  <2>2. PICK n \in Places : \A m \in Places : n <= m
    BY <2>1, LeastElement
  <2>3. PICK k \in Bad : \A j \in Bad : Place[k] <= Place[j]
    BY <2>2
  <2>4. k # Root /\ ParentOf[k] \in Bad
    BY <1>2, ParentsAreFolders
  <2>5. Place[ParentOf[k]] < Place[k]
    BY <2>4, TreeAssumption
  <2> QED
    BY <1>1, <2>3, <2>4, <2>5
<1>4. Good(i)
  BY <1>3
<1> QED
  BY <1>4 DEF Good

LEMMA LandingIsAFolder ==
  ASSUME Root \in present, NEW path \in Folders
  PROVE  Landing(path) \in Folders /\ Landing(path) \in present
<1> DEFINE there == AncestorsOf[path] \cap present
<1>1. path \in Items
  BY DEF Items
<1>2. AncestorsOf[path] \subseteq Folders /\ \E f \in there : \A g \in there : g \in AncestorsOf[f]
  BY <1>1, TheWayUp
<1>3. Landing(path) \in there
  BY <1>2 DEF Landing
<1> QED
  BY <1>2, <1>3
-----------------------------------------------------------------------------
(* What is kept of a queue.                                                *)

Causes == {"Other", "CdUp", "Forward"}
Notices ==
  [kind : {"Invalidated", "Recover"}] \cup [kind : {"Changed"}, cause : Causes]
  \cup [kind : {"Item"}, folder : Folders, item : Items \cup {None}]

LEMMA KeptAreNotices ==
  ASSUME NEW q \in Seq(Notices), NEW kinds
  PROVE  Kept(q, kinds) \in Seq(Notices) /\ (q = <<>> => Kept(q, kinds) = <<>>)
<1> DEFINE N == Len(q)
           Choice(n, s) == IF q[n].kind \in kinds THEN Append(s, q[n]) ELSE s
           step == [n \in 1..N |-> [s \in Seq(Notices) |-> Choice(n, s)]]
           Body(g) == [n \in 0..N |->
                         IF n = 0 THEN <<>>
                         ELSE IF q[n].kind \in kinds THEN Append(g[n - 1], q[n]) ELSE g[n - 1]]
           kept == CHOOSE g : g = Body(g)
<1>1. N \in Nat /\ <<>> \in Seq(Notices)
  OBVIOUS
<1>2. \A n \in 1..N, s \in Seq(Notices) : Choice(n, s) \in Seq(Notices)
  OBVIOUS
<1>3. step \in [1..N -> [Seq(Notices) -> Seq(Notices)]]
  BY <1>2
<1>4. \A n \in 1..N, s \in Seq(Notices) : step[n][s] = Choice(n, s)
  OBVIOUS
<1> HIDE DEF step
<1>5. PICK f \in [0..N -> Seq(Notices)] : Computes(f, N, <<>>, step)
  BY <1>1, <1>3, PrimitiveRecursion
<1>6. f = Body(f)
  <2>1. \A n \in 1..N : f[n] = Choice(n, f[n - 1])
    <3> SUFFICES ASSUME NEW n \in 1..N
                 PROVE  f[n] = Choice(n, f[n - 1])
      OBVIOUS
    <3>1. n - 1 \in 0..N
      BY <1>1
    <3>2. f[n - 1] \in Seq(Notices) /\ f[n] = step[n][f[n - 1]]
      BY <1>5, <3>1 DEF Computes
    <3> QED
      BY <1>4, <3>2
  <2>2. \A n \in 0..N : f[n] = Body(f)[n]
    <3> SUFFICES ASSUME NEW n \in 0..N
                 PROVE  f[n] = Body(f)[n]
      OBVIOUS
    <3>1. CASE n = 0
      BY <1>5, <3>1 DEF Computes
    <3>2. CASE n # 0
      <4>1. n \in 1..N
        BY <1>1, <3>2
      <4> QED
        BY <2>1, <3>2, <4>1
    <3> QED
      BY <3>1, <3>2
  <2>3. f = [n \in 0..N |-> f[n]]
    OBVIOUS
  <2> HIDE DEF N
  <2> QED
    BY <2>2, <2>3
<1>7. Kept(q, kinds) = kept[N]
  BY DEF Kept
<1> HIDE DEF kept, Body
<1>8. kept = Body(kept)
  BY <1>6 DEF kept
<1>9. \A n \in 0..N : kept[n] = Body(kept)[n]
  BY <1>8
<1> USE DEF Body
<1>10. kept[0] = <<>>
  <2>1. 0 \in 0..N
    BY <1>1
  <2> QED
    BY <1>9, <2>1
<1>11. \A n \in 1..N : kept[n - 1] \in Seq(Notices) => kept[n] \in Seq(Notices)
  <2> SUFFICES ASSUME NEW n \in 1..N, kept[n - 1] \in Seq(Notices)
               PROVE  kept[n] \in Seq(Notices)
    OBVIOUS
  <2>1. n \in 0..N /\ n # 0
    BY <1>1
  <2>2. kept[n] = Choice(n, kept[n - 1])
    BY <1>9, <2>1
  <2> QED
    BY <1>2, <2>2
<1> DEFINE Good == {n \in 0..N : kept[n] \in Seq(Notices)}
<1>12. 0..N \subseteq Good
  <2>1. 0 \in Good
    BY SMTT(30), <1>1, <1>10
  <2>2. \A n \in 1..N : n - 1 \in Good => n \in Good
    BY <1>1, <1>11
  <2> HIDE DEF Good
  <2> QED
    BY <1>1, <2>1, <2>2, UpTo
<1>13. N \in 0..N /\ (q = <<>> => N = 0)
  BY <1>1
<1> QED
  BY <1>7, <1>10, <1>12, <1>13

-----------------------------------------------------------------------------
(* The rows.                                                               *)

(* Every row up to the last has an item.                                    *)
LEMMA RowsAreTaken ==
  ASSUME NEW set \in SUBSET Items, NEW row \in 0..(Cardinality(set) - 1)
  PROVE  At(row, set) \in set
<1> DEFINE n == Cardinality(set)
           Before(i) == {other \in set : Place[other] < Place[i]}
           rank == [i \in set |-> Row(i, set)]
           numbers == 0..(n - 1)
<1>1. IsFiniteSet(set) /\ n \in Nat /\ \A i \in set : Place[i] \in Nat
  BY TreeAssumption, FS_Subset, FS_CardinalityType
<1>2. \A i, j \in set : i # j => Place[i] # Place[j]
  BY TreeAssumption
<1>3. \A i \in set : Row(i, set) = Cardinality(Before(i)) /\ Before(i) \subseteq set /\ i \notin Before(i)
  BY <1>1 DEF Row
<1> HIDE DEF Before
<1>4. ASSUME NEW S, S \subseteq set, NEW i \in set, i \notin S
      PROVE  IsFiniteSet(S) /\ Cardinality(S) \in Nat /\ Cardinality(S \cup {i}) = Cardinality(S) + 1
             /\ Cardinality(S) < n
  <2>1. IsFiniteSet(S) /\ Cardinality(S) \in Nat
    BY <1>1, <1>4, FS_Subset, FS_CardinalityType
  <2>2. Cardinality(S \cup {i}) = Cardinality(S) + 1
    BY <1>4, <2>1, FS_AddElement
  <2>3. Cardinality(S \cup {i}) <= n
    <3>1. S \cup {i} \in SUBSET set
      BY <1>4
    <3> QED
      BY <1>1, <3>1, FS_Subset
  <2> QED
    BY <1>1, <2>1, <2>2, <2>3
<1>5. rank \in [set -> numbers]
  <2>1. ASSUME NEW i \in set
        PROVE  Cardinality(Before(i)) \in numbers
    <3>1. Cardinality(Before(i)) \in Nat /\ Cardinality(Before(i)) < n
      BY <1>3, <1>4
    <3> QED
      BY <1>1, <3>1
  <2> QED
    BY <1>3, <2>1
<1>6. ASSUME NEW i \in set, NEW j \in set, Place[i] < Place[j]
      PROVE  rank[i] # rank[j]
  <2>1. Before(i) \cup {i} \in SUBSET Before(j)
    BY <1>1, <1>6 DEF Before
  <2>2. Cardinality(Before(i) \cup {i}) = Cardinality(Before(i)) + 1 /\ Cardinality(Before(i)) \in Nat
    BY <1>3, <1>4
  <2>3. IsFiniteSet(Before(j)) /\ Cardinality(Before(j)) \in Nat
    BY <1>3, <1>4
  <2>4. Cardinality(Before(i) \cup {i}) <= Cardinality(Before(j))
    BY <2>1, <2>3, FS_Subset
  <2> QED
    BY <1>3, <2>2, <2>3, <2>4
<1>7. rank \in Injection(set, numbers)
  <2>1. \A i, j \in set : rank[i] = rank[j] => i = j
    BY <1>1, <1>2, <1>6
  <2> HIDE DEF rank
  <2> QED
    BY <1>5, <2>1 DEF Injection, IsInjective
<1>8. Cardinality(numbers) = n /\ IsFiniteSet(numbers)
  BY <1>1, FS_Interval
<1>9. rank \in Surjection(set, numbers)
  BY <1>1, <1>7, <1>8, FS_Injection
<1>10. PICK i \in set : rank[i] = row
  BY <1>9 DEF Surjection
<1>11. Row(i, set) = row
  BY <1>10
<1> QED
  BY <1>11 DEF At
-----------------------------------------------------------------------------
(* What is known of the cursor. Where it is not yet where it is expected,    *)
(* an update is under way, or a notice that will bring it there or show       *)
(* something else.                                                         *)

Listings == [path : Folders, listing : SUBSET Items] \cup {Blank}
Memories == [Folders -> Items \cup {None}]
Updates ==
  [stage : {"None", "Queued", "Enumerate", "Publish"}, cause : Causes, listing : SUBSET Items]

CursorTypeOK ==
  /\ present \subseteq Items /\ Root \in present /\ currentDir \in Folders
  /\ items \in Listings /\ rows \in Listings /\ update \in Updates
  /\ queue \in Seq(Notices) /\ batch \in Seq(Notices) /\ ticking \in BOOLEAN
  /\ currentItem \in Memories /\ wanted \in Memories
  /\ cursor \in rows.listing \cup {None}

IsAbout(notice, folder, item) == notice.kind = "Item" /\ notice.folder = folder /\ notice.item = item
Announces(q, folder, item) ==
  \E i \in 1..Len(q) : q[i].kind # "Item" \/ IsAbout(q[i], folder, item)

ExpectedElsewhere ==
  rows.path = currentDir /\ wanted[currentDir] \in rows.listing /\ cursor # wanted[currentDir]

ExpectedIsRemembered == \A f \in Folders : wanted[f] \in {None, currentItem[f]}

CursorInv ==
  /\ CursorTypeOK
  /\ ~ticking => batch = <<>>
  /\ ExpectedIsRemembered
  /\ ExpectedElsewhere =>
       \/ update.stage # "None"
       \/ Announces(queue, currentDir, wanted[currentDir])
       \/ Announces(batch, currentDir, wanted[currentDir])

LEMMA WhatListingsHold ==
  ASSUME CursorTypeOK
  PROVE  /\ None \notin Items /\ None \notin Folders /\ Folders \subseteq Items
         /\ Blank.path = None /\ Blank.listing = {} /\ Blank \in Listings
         /\ items.listing \subseteq Items /\ rows.listing \subseteq Items
         /\ items.path \in Folders \cup {None} /\ rows.path \in Folders \cup {None}
         /\ list \in Listings /\ (list.path = currentDir \/ list = Blank)
<1>1. None \notin Items /\ Folders \subseteq Items
  BY TreeAssumption DEF Items
<1>2. Blank.path = None /\ Blank.listing = {} /\ Blank \in Listings
  BY DEF Blank, Listings
<1>3. \A l \in Listings : l.listing \subseteq Items /\ l.path \in Folders \cup {None}
  BY <1>2 DEF Listings
<1>4. list \in Listings /\ (list.path = currentDir \/ list = Blank)
  BY <1>2 DEF CursorTypeOK, list, belongsToCurrentView
<1> QED
  BY <1>1, <1>2, <1>3, <1>4 DEF CursorTypeOK

(* A listing of a folder is of items.                                       *)
LEMMA ListingsAreOfItems ==
  ASSUME present \subseteq Items, NEW folder \in Folders
  PROVE  listing(folder) \subseteq Items
<1>1. CdUp(folder) \subseteq Items
  BY ParentsAreFolders DEF CdUp, Items
<1> QED
  BY <1>1 DEF listing

(* An appended notice is announced with all the others.                     *)
LEMMA AppendedIsAnnounced ==
  ASSUME NEW q \in Seq(Notices), NEW notice \in Notices, NEW folder, NEW item
  PROVE  /\ Append(q, notice) \in Seq(Notices)
         /\ Announces(q, folder, item) => Announces(Append(q, notice), folder, item)
         /\ notice.kind # "Item" \/ IsAbout(notice, folder, item)
              => Announces(Append(q, notice), folder, item)
<1> DEFINE r == Append(q, notice)
           n == Len(q)
<1>1. /\ n \in Nat /\ Len(r) = n + 1 /\ r[n + 1] = notice /\ r \in Seq(Notices)
      /\ \A i \in 1..n : r[i] = q[i]
  OBVIOUS
<1>2. n + 1 \in 1..(n + 1) /\ \A i \in 1..n : i \in 1..(n + 1)
  BY <1>1
<1> HIDE DEF r, n
<1>3. Announces(q, folder, item) => Announces(r, folder, item)
  BY <1>1, <1>2 DEF Announces, n
<1>4. notice.kind # "Item" \/ IsAbout(notice, folder, item) => Announces(r, folder, item)
  BY <1>1, <1>2 DEF Announces
<1> QED
  BY <1>1, <1>3, <1>4 DEF r

LEMMA ContentsNoticeIsAnnounced ==
  ASSUME NEW q \in Seq(Notices), NEW notice \in Notices, notice.kind = "Changed",
         NEW folder, NEW item
  PROVE  /\ withContentsNotice(q, notice) \in Seq(Notices)
         /\ Announces(withContentsNotice(q, notice), folder, item)
<1>1. Kept(q, {"Item", "Recover"}) \in Seq(Notices)
  BY KeptAreNotices
<1> QED
  BY <1>1, AppendedIsAnnounced DEF withContentsNotice

(* When the first notice of a batch is dealt with, the others are left.       *)
LEMMA TheOthersAreLeft ==
  ASSUME NEW q \in Seq(Notices), q # <<>>, NEW folder, NEW item
  PROVE  /\ Tail(q) \in Seq(Notices) /\ Head(q) \in Notices
         /\ Announces(q, folder, item) => \/ Announces(Tail(q), folder, item)
                                          \/ Head(q).kind # "Item"
                                          \/ IsAbout(Head(q), folder, item)
<1> DEFINE t == Tail(q)
           n == Len(q)
<1>1. /\ n \in Nat /\ n > 0 /\ Head(q) = q[1] /\ t \in Seq(Notices) /\ Len(t) = n - 1
      /\ q[1] \in Notices /\ \A i \in 1..(n - 1) : t[i] = q[i + 1]
  OBVIOUS
<1>2. ASSUME NEW i \in 1..n
      PROVE  i = 1 \/ (i - 1 \in 1..(n - 1) /\ (i - 1) + 1 = i)
  BY <1>1
<1> HIDE DEF t, n
<1>3. ASSUME NEW i \in 1..n, i # 1
      PROVE  i - 1 \in 1..Len(t) /\ t[i - 1] = q[i]
  BY <1>1, <1>2, <1>3
<1>4. ASSUME Announces(q, folder, item)
      PROVE  Announces(t, folder, item) \/ q[1].kind # "Item" \/ IsAbout(q[1], folder, item)
  <2>1. PICK i \in 1..n : q[i].kind # "Item" \/ IsAbout(q[i], folder, item)
    BY <1>4 DEF Announces, n
  <2>2. CASE i = 1
    BY <2>1, <2>2
  <2>3. CASE i # 1
    BY <1>3, <2>1, <2>3 DEF Announces
  <2> QED
    BY <2>2, <2>3
<1> QED
  BY <1>1, <1>4 DEF t
-----------------------------------------------------------------------------
(* Navigation.                                                             *)

LEMMA AnUpdateBegins ==
  ASSUME CursorTypeOK, NEW folder \in Folders, NEW cause \in Causes, beginFileListUpdate(folder, cause)
  PROVE  /\ currentDir' \in Folders /\ update' \in Updates /\ update'.stage # "None"
         /\ queue' \in Seq(Notices) /\ batch' \in Seq(Notices) /\ (batch = <<>> => batch' = <<>>)
<1>1. /\ currentDir' = folder /\ update' = NewUpdate(cause) /\ batch' = OnlyItems(batch)
      /\ queue' = IF items.path = folder THEN OnlyItems(queue)
                  ELSE Append(OnlyItems(queue), [kind |-> "Invalidated"])
  BY DEF beginFileListUpdate
<1>2. update' \in Updates /\ update'.stage # "None"
  BY <1>1 DEF NewUpdate, NoUpdate, Updates, Causes
<1>3. /\ OnlyItems(queue) \in Seq(Notices) /\ OnlyItems(batch) \in Seq(Notices)
      /\ batch = <<>> => OnlyItems(batch) = <<>>
  BY KeptAreNotices DEF OnlyItems, CursorTypeOK
<1>4. [kind |-> "Invalidated"] \in Notices
  BY DEF Notices
<1>5. Append(OnlyItems(queue), [kind |-> "Invalidated"]) \in Seq(Notices)
  BY <1>3, <1>4
<1> QED
  BY <1>1, <1>2, <1>3, <1>5

(* A navigation records the same of what is remembered and of what is         *)
(* expected.                                                               *)
LEMMA ANavigationRemembers ==
  ASSUME CursorTypeOK, NEW memory \in Memories, NEW expected \in Memories,
         \A f \in Folders : expected[f] \in {None, memory[f]},
         NEW new \in Folders, NEW cause
  PROVE  /\ Remembered(memory, new, cause) \in Memories /\ Remembered(expected, new, cause) \in Memories
         /\ \A f \in Folders :
              Remembered(expected, new, cause)[f] \in {None, Remembered(memory, new, cause)[f]}
<1>1. /\ currentDir \in Items \cup {None} /\ new \in Items \cup {None}
      /\ \A i \in items.listing \ {Root} : ParentOf[i] \in Folders
  BY WhatListingsHold, ParentsAreFolders DEF CursorTypeOK
<1>2. ASSUME NEW folder \in Folders, NEW item \in Items \cup {None}
      PROVE  LET m == [memory EXCEPT ![folder] = item] e == [expected EXCEPT ![folder] = item]
             IN m \in Memories /\ e \in Memories /\ \A f \in Folders : e[f] \in {None, m[f]}
  BY DEF Memories
<1>3. CASE cause = "CdUp"
  BY <1>1, <1>2, <1>3 DEF Remembered
<1>4. CASE cause # "CdUp" /\ belongsToCurrentView /\ new \in items.listing \ {Root}
  BY <1>1, <1>2, <1>4 DEF Remembered
<1>5. CASE cause # "CdUp" /\ ~ (belongsToCurrentView /\ new \in items.listing \ {Root})
  BY <1>5 DEF Remembered
<1> QED
  BY <1>3, <1>4, <1>5

(* As long as an update is under way the cursor may be anywhere.             *)
LEMMA UntilTheListingArrives ==
  ASSUME CursorInv, currentDir' \in Folders, update' \in Updates, update'.stage # "None",
         queue' \in Seq(Notices), batch' \in Seq(Notices), ticking' \in BOOLEAN, ~ticking' => batch' = <<>>,
         currentItem' \in Memories, wanted' \in Memories, ExpectedIsRemembered',
         UNCHANGED <<present, items, rows, cursor>>
  PROVE  CursorInv'
BY DEF CursorInv, CursorTypeOK

LEMMA SettingThePath ==
  ASSUME CursorInv, NEW path \in Folders, NEW cause \in Causes, setPath(path, cause),
         UNCHANGED <<present, items, ticking, rows, cursor>>
  PROVE  CursorInv'
<1> DEFINE new == Landing(path)
<1>1. CursorTypeOK /\ ExpectedIsRemembered /\ (~ticking => batch = <<>>)
  BY DEF CursorInv
<1>2. new \in Folders
  BY <1>1, LandingIsAFolder DEF CursorTypeOK
<1>3. /\ beginFileListUpdate(new, cause)
      /\ currentItem' = Remembered(currentItem, new, cause) /\ wanted' = Remembered(wanted, new, cause)
  BY DEF setPath
<1> HIDE DEF new
<1>4. /\ currentDir' \in Folders /\ update' \in Updates /\ update'.stage # "None"
      /\ queue' \in Seq(Notices) /\ batch' \in Seq(Notices) /\ (batch = <<>> => batch' = <<>>)
  BY <1>1, <1>2, <1>3, AnUpdateBegins
<1>5. currentItem \in Memories /\ wanted \in Memories /\ ticking \in BOOLEAN
  BY <1>1 DEF CursorTypeOK
<1>6. currentItem' \in Memories /\ wanted' \in Memories /\ ExpectedIsRemembered'
  BY <1>1, <1>2, <1>3, <1>5, ANavigationRemembers DEF ExpectedIsRemembered
<1> QED
  BY <1>1, <1>4, <1>5, <1>6, UntilTheListingArrives

LEMMA NavigationStep ==
  ASSUME CursorInv,
         \/ \E path \in Folders : goTo(path)
         \/ itemActivated
         \/ navigateUp
         \/ recoverFromInaccessiblePathIfCurrent
  PROVE  CursorInv'
<1>1. CursorTypeOK /\ ExpectedIsRemembered /\ (~ticking => batch = <<>>)
  BY DEF CursorInv
<1>2. CASE \E path \in Folders : goTo(path)
  <2>1. PICK path \in Folders : goTo(path)
    BY <1>2
  <2>2. setPath(path, "Other") /\ UNCHANGED <<present, items, ticking, rows, cursor>>
    BY <2>1 DEF goTo, Command, viewVars
  <2> QED
    BY <2>2, SettingThePath DEF Causes
<1>3. CASE itemActivated
  <2>1. cursor \in Folders /\ UNCHANGED <<present, items, ticking, rows, cursor>>
    BY <1>3 DEF itemActivated, Command, viewVars
  <2>2. \E cause \in Causes : setPath(cursor, cause)
    BY <1>3 DEF itemActivated, Causes
  <2> QED
    BY <2>1, <2>2, SettingThePath
<1>4. CASE navigateUp
  <2>1. UNCHANGED <<present, items, ticking, rows, cursor>>
    BY <1>4 DEF navigateUp, Command, viewVars
  <2>2. CASE currentDir # Root
    <3>1. setPath(ParentOf[currentDir], "CdUp")
      BY <1>4, <2>2 DEF navigateUp
    <3>2. ParentOf[currentDir] \in Folders
      BY <1>1, <2>2, ParentsAreFolders, WhatListingsHold DEF CursorTypeOK
    <3> QED
      BY <2>1, <3>1, <3>2, SettingThePath DEF Causes
  <2>3. CASE currentDir = Root
    <3>1. /\ queue' = withContentsNotice(queue, Changed("Other"))
          /\ UNCHANGED <<currentDir, update, batch, currentItem, wanted>>
      BY <1>4, <2>3 DEF navigateUp, memoryVars
    <3>2. Changed("Other") \in Notices /\ Changed("Other").kind = "Changed"
      BY DEF Changed, Notices, Causes
    <3>3. queue \in Seq(Notices)
      BY <1>1 DEF CursorTypeOK
    <3>4. queue' \in Seq(Notices) /\ Announces(queue', currentDir, wanted[currentDir])
      BY <3>1, <3>2, <3>3, ContentsNoticeIsAnnounced
    <3>5. CursorTypeOK'
      BY <1>1, <2>1, <3>1, <3>4 DEF CursorTypeOK
    <3>6. ExpectedIsRemembered'
      BY <1>1, <3>1 DEF ExpectedIsRemembered
    <3> QED
      BY <1>1, <2>1, <3>1, <3>4, <3>5, <3>6 DEF CursorInv
  <2> QED
    BY <2>2, <2>3
<1>5. CASE recoverFromInaccessiblePathIfCurrent
  <2>1. setPath(currentDir, "Other") /\ UNCHANGED <<present, items, ticking, rows, cursor>>
    BY <1>5 DEF recoverFromInaccessiblePathIfCurrent, Delivery, viewVars
  <2>2. currentDir \in Folders
    BY <1>1 DEF CursorTypeOK
  <2> QED
    BY <2>1, <2>2, SettingThePath DEF Causes
<1> QED
  BY <1>2, <1>3, <1>4, <1>5

LEMMA GoToItemStep ==
  ASSUME CursorInv, NEW item \in Items \ {Root}, goToItem(item)
  PROVE  CursorInv'
<1> DEFINE folder == ParentOf[item]
           memory == [currentItem EXCEPT ![folder] = item]
           expected == [wanted EXCEPT ![folder] = item]
<1>1. /\ CursorTypeOK /\ ExpectedIsRemembered /\ (~ticking => batch = <<>>)
      /\ currentItem \in Memories /\ wanted \in Memories /\ ticking \in BOOLEAN
  BY DEF CursorInv, CursorTypeOK
<1>2. /\ beginFileListUpdate(folder, "Other")
      /\ currentItem' = Remembered(memory, folder, "Other") /\ wanted' = Remembered(expected, folder, "Other")
      /\ UNCHANGED <<present, items, ticking, rows, cursor>>
  BY DEF goToItem, Command, viewVars
<1>3. folder \in Folders
  BY ParentsAreFolders
<1> HIDE DEF folder
<1>4. /\ currentDir' \in Folders /\ update' \in Updates /\ update'.stage # "None"
      /\ queue' \in Seq(Notices) /\ batch' \in Seq(Notices) /\ (batch = <<>> => batch' = <<>>)
  BY <1>1, <1>2, <1>3, AnUpdateBegins DEF Causes
<1>5. /\ memory \in Memories /\ expected \in Memories
      /\ \A f \in Folders : expected[f] \in {None, memory[f]}
  BY <1>1, <1>3 DEF Memories, ExpectedIsRemembered
<1> HIDE DEF memory, expected
<1>6. currentItem' \in Memories /\ wanted' \in Memories /\ ExpectedIsRemembered'
  BY <1>1, <1>2, <1>3, <1>5, ANavigationRemembers DEF ExpectedIsRemembered
<1> QED
  BY <1>1, <1>2, <1>4, <1>6, UntilTheListingArrives

LEMMA RefreshStep ==
  ASSUME CursorInv, refresh \/ refreshIfWatcherDetectedChanges
  PROVE  CursorInv'
<1>1. /\ CursorTypeOK /\ ExpectedIsRemembered /\ (~ticking => batch = <<>>)
      /\ currentItem \in Memories /\ wanted \in Memories /\ ticking \in BOOLEAN /\ currentDir \in Folders
  BY DEF CursorInv, CursorTypeOK
<1>2. UNCHANGED <<present, items, rows, cursor, currentItem, wanted>>
  BY DEF refresh, refreshIfWatcherDetectedChanges, Command, viewVars, memoryVars
<1>3. ticking' \in BOOLEAN /\ (~ticking' => batch = <<>>)
  BY <1>1 DEF refresh, refreshIfWatcherDetectedChanges, Command
<1>4. CASE beginFileListUpdate(currentDir, "Other")
  <2>1. /\ currentDir' \in Folders /\ update' \in Updates /\ update'.stage # "None"
        /\ queue' \in Seq(Notices) /\ batch' \in Seq(Notices) /\ (batch = <<>> => batch' = <<>>)
    BY <1>1, <1>4, AnUpdateBegins DEF Causes
  <2>2. ExpectedIsRemembered'
    BY <1>1, <1>2 DEF ExpectedIsRemembered
  <2> QED
    BY <1>1, <1>2, <1>3, <2>1, <2>2, UntilTheListingArrives
<1>5. CASE UNCHANGED <<currentDir, update, queue, batch>>
  BY <1>1, <1>2, <1>3, <1>5 DEF CursorInv, CursorTypeOK, ExpectedIsRemembered, ExpectedElsewhere
<1> QED
  BY <1>4, <1>5 DEF refresh, refreshIfWatcherDetectedChanges
-----------------------------------------------------------------------------
(* What records an item for the current folder.                             *)

(* When what is expected is recorded with it, only what the rows show can      *)
(* break the rest.                                                         *)
LEMMA RecordingAnItem ==
  ASSUME CursorInv, NEW item \in Items \cup {None}, NEW expected \in {None, item},
         currentItem' = [currentItem EXCEPT ![currentDir] = item],
         wanted' = [wanted EXCEPT ![currentDir] = expected],
         UNCHANGED currentDir
  PROVE  /\ currentItem' \in Memories /\ wanted' \in Memories /\ ExpectedIsRemembered'
         /\ wanted'[currentDir] = expected /\ currentItem'[currentDir] = item
<1>1. /\ currentItem \in Memories /\ wanted \in Memories /\ currentDir \in Folders
      /\ ExpectedIsRemembered
  BY DEF CursorInv, CursorTypeOK
<1>2. currentItem' \in Memories /\ wanted' \in Memories
  BY <1>1 DEF Memories
<1>3. /\ wanted'[currentDir] = expected /\ currentItem'[currentDir] = item
      /\ \A f \in Folders \ {currentDir} : wanted'[f] = wanted[f] /\ currentItem'[f] = currentItem[f]
  BY <1>1 DEF Memories
<1>4. \A f \in Folders : wanted'[f] \in {None, currentItem'[f]}
  BY <1>1, <1>3 DEF ExpectedIsRemembered
<1> QED
  BY <1>2, <1>3, <1>4 DEF ExpectedIsRemembered

LEMMA MoveCursorStep ==
  ASSUME CursorInv, NEW item \in rows.listing, moveCursor(item)
  PROVE  CursorInv'
<1> DEFINE expected == IF rows.path = currentDir THEN item ELSE None
<1>1. CursorTypeOK /\ ExpectedIsRemembered /\ (~ticking => batch = <<>>) /\ item \in Items
  BY WhatListingsHold DEF CursorInv
<1>2. /\ cursor' = item /\ currentItem' = [currentItem EXCEPT ![currentDir] = item]
      /\ wanted' = [wanted EXCEPT ![currentDir] = expected]
      /\ UNCHANGED <<present, items, ticking, currentDir, update, queue, batch, rows>>
  BY DEF moveCursor, Command
<1>3. /\ currentItem' \in Memories /\ wanted' \in Memories /\ ExpectedIsRemembered'
      /\ wanted'[currentDir] = expected
  BY <1>1, <1>2, RecordingAnItem
<1>4. CursorTypeOK'
  BY <1>1, <1>2, <1>3 DEF CursorTypeOK
<1>5. ~ ExpectedElsewhere'
  BY <1>2, <1>3 DEF ExpectedElsewhere
<1> QED
  BY <1>1, <1>2, <1>3, <1>4, <1>5 DEF CursorInv

(* A created or renamed entry is recorded, and if it may be shown already, a   *)
(* notice of it is sent.                                                   *)
LEMMA ANoticeIsSent ==
  ASSUME CursorInv, NEW item \in Items, setCurrentItemHashForCurrentFolder(item, TRUE),
         wanted' = [wanted EXCEPT ![currentDir] = item],
         present' \subseteq Items, Root \in present',
         UNCHANGED <<items, ticking, currentDir, update, batch, rows, cursor>>
  PROVE  CursorInv'
<1> DEFINE notice == [kind |-> "Item", folder |-> currentDir, item |-> item]
<1>1. /\ CursorTypeOK /\ (~ticking => batch = <<>>) /\ queue \in Seq(Notices)
      /\ currentDir \in Folders
  BY DEF CursorInv, CursorTypeOK
<1>2. /\ currentItem' = [currentItem EXCEPT ![currentDir] = item]
      /\ queue' = Append(queue, notice)
  BY DEF setCurrentItemHashForCurrentFolder
<1>3. /\ currentItem' \in Memories /\ wanted' \in Memories /\ ExpectedIsRemembered'
      /\ wanted'[currentDir] = item
  BY <1>2, RecordingAnItem
<1>4. notice \in Notices /\ IsAbout(notice, currentDir, item)
  BY <1>1 DEF Notices, IsAbout
<1>5. queue' \in Seq(Notices) /\ Announces(queue', currentDir, item)
  BY <1>1, <1>2, <1>4, AppendedIsAnnounced
<1>6. CursorTypeOK'
  BY <1>1, <1>3, <1>5 DEF CursorTypeOK
<1> QED
  BY <1>1, <1>3, <1>5, <1>6 DEF CursorInv

LEMMA CreateFolderStep ==
  ASSUME CursorInv, NEW item \in Folders \ {Root}, createFolder(item)
  PROVE  CursorInv'
<1>1. /\ CursorTypeOK /\ ExpectedIsRemembered /\ (~ticking => batch = <<>>)
      /\ queue \in Seq(Notices) /\ currentDir \in Folders /\ item \in Items
      /\ present \subseteq Items /\ Root \in present
      /\ currentItem \in Memories /\ wanted \in Memories
  BY WhatListingsHold DEF CursorInv, CursorTypeOK
<1>2. UNCHANGED <<items, ticking, currentDir, update, batch, rows, cursor>>
  BY DEF createFolder, MemoryCommand, Command, viewVars
<1>3. ASSUME NEW expected \in {None, item}, setCurrentItemHashForCurrentFolder(item, FALSE),
             wanted' = [wanted EXCEPT ![currentDir] = expected], expected \notin rows.listing,
             present' \subseteq Items, Root \in present'
      PROVE  CursorInv'
  <2>1. currentItem' = [currentItem EXCEPT ![currentDir] = item] /\ queue' = queue
    BY <1>3 DEF setCurrentItemHashForCurrentFolder
  <2>2. /\ currentItem' \in Memories /\ wanted' \in Memories /\ ExpectedIsRemembered'
        /\ wanted'[currentDir] = expected
    BY <1>1, <1>2, <1>3, <2>1, RecordingAnItem
  <2>3. CursorTypeOK'
    BY <1>1, <1>2, <1>3, <2>1, <2>2 DEF CursorTypeOK
  <2>4. ~ ExpectedElsewhere'
    BY <1>2, <1>3, <2>2 DEF ExpectedElsewhere
  <2> QED
    BY <1>1, <1>2, <2>2, <2>3, <2>4 DEF CursorInv
<1>4. CASE /\ item \in present /\ setCurrentItemHashForCurrentFolder(item, FALSE)
           /\ wanted' = [wanted EXCEPT ![currentDir] = None] /\ UNCHANGED present
  <2>1. None \notin rows.listing
    BY <1>1, WhatListingsHold
  <2> QED
    BY <1>1, <1>3, <1>4, <2>1
<1>5. CASE /\ item \notin present /\ present' = present \cup {item}
           /\ setCurrentItemHashForCurrentFolder(item, FALSE)
           /\ wanted' = [wanted EXCEPT ![currentDir] = IF item \in rows.listing THEN None ELSE item]
  <2> DEFINE expected == IF item \in rows.listing THEN None ELSE item
  <2>1. expected \in {None, item} /\ expected \notin rows.listing
    BY <1>1, WhatListingsHold
  <2> HIDE DEF expected
  <2>2. wanted' = [wanted EXCEPT ![currentDir] = expected]
    BY <1>5 DEF expected
  <2> QED
    BY <1>1, <1>3, <1>5, <2>1, <2>2
<1>6. CASE /\ item \notin present
           /\ setCurrentItemHashForCurrentFolder(currentItem[currentDir], TRUE)
           /\ UNCHANGED <<present, wanted>>
  <2> DEFINE notice == [kind |-> "Item", folder |-> currentDir, item |-> currentItem[currentDir]]
  <2>1. /\ currentItem' = [currentItem EXCEPT ![currentDir] = currentItem[currentDir]]
        /\ queue' = Append(queue, notice)
    BY <1>6 DEF setCurrentItemHashForCurrentFolder
  <2>2. currentItem' = currentItem
    BY <1>1, <2>1 DEF Memories
  <2>3. notice \in Notices
    BY <1>1 DEF Notices, Memories
  <2>4. /\ queue' \in Seq(Notices)
        /\ Announces(queue, currentDir, wanted[currentDir]) => Announces(queue', currentDir, wanted[currentDir])
    BY <1>1, <2>1, <2>3, AppendedIsAnnounced
  <2>5. CursorTypeOK'
    BY <1>1, <1>2, <1>6, <2>2, <2>4 DEF CursorTypeOK
  <2> QED
    BY <1>1, <1>2, <1>6, <2>2, <2>4, <2>5 DEF CursorInv, ExpectedIsRemembered, ExpectedElsewhere
<1> QED
  BY <1>4, <1>5, <1>6 DEF createFolder

LEMMA CreateFileStep ==
  ASSUME CursorInv,
         \/ \E item \in Files : createFile(item)
         \/ \E item, renamed \in Files : renameItem(item, renamed)
  PROVE  CursorInv'
<1>1. /\ present \subseteq Items /\ Root \in present /\ Files \subseteq Items /\ Root \notin Files
  BY TreeAssumption DEF CursorInv, CursorTypeOK, Items
<1>2. CASE \E item \in Files : createFile(item)
  <2>1. PICK item \in Files : createFile(item)
    BY <1>2
  <2>2. /\ setCurrentItemHashForCurrentFolder(item, TRUE)
        /\ wanted' = [wanted EXCEPT ![currentDir] = item] /\ present' = present \cup {item}
        /\ UNCHANGED <<items, ticking, currentDir, update, batch, rows, cursor>>
    BY <2>1 DEF createFile, MemoryCommand, Command, viewVars
  <2> QED
    BY <1>1, <2>2, ANoticeIsSent
<1>3. CASE \E item, renamed \in Files : renameItem(item, renamed)
  <2>1. PICK item \in Files, renamed \in Files : renameItem(item, renamed)
    BY <1>3
  <2>2. /\ setCurrentItemHashForCurrentFolder(renamed, TRUE)
        /\ wanted' = [wanted EXCEPT ![currentDir] = renamed]
        /\ present' = (present \ {item}) \cup {renamed}
        /\ UNCHANGED <<items, ticking, currentDir, update, batch, rows, cursor>>
    BY <2>1 DEF renameItem, MemoryCommand, Command, viewVars
  <2> QED
    BY <1>1, <2>2, ANoticeIsSent
<1> QED
  BY <1>2, <1>3

-----------------------------------------------------------------------------
(* The worker pool, and other programs.                                     *)

LEMMA CursorWorkerStep ==
  ASSUME CursorInv, worker
  PROVE  CursorInv'
<1>1. /\ CursorTypeOK /\ ExpectedIsRemembered /\ (~ticking => batch = <<>>)
      /\ queue \in Seq(Notices) /\ update \in Updates /\ currentDir \in Folders
      /\ present \subseteq Items
  BY DEF CursorInv, CursorTypeOK
<1>2. /\ UNCHANGED <<present, currentDir, batch, ticking, rows, cursor, currentItem, wanted>>
      /\ ExpectedIsRemembered'
  BY <1>1 DEF worker, startUpdate, enumerate, publishFileListIfCurrent, WorkerStep, viewVars, memoryVars,
              ExpectedIsRemembered
<1>3. NoUpdate \in Updates
  BY DEF NoUpdate, Updates, Causes
<1>4. ASSUME items' \in Listings, update' \in Updates, queue' \in Seq(Notices),
             update'.stage # "None" \/ Announces(queue', currentDir, wanted[currentDir])
      PROVE  CursorInv'
  BY <1>1, <1>2, <1>4 DEF CursorInv, CursorTypeOK
<1>5. CASE startUpdate
  <2>1. items' \in Listings
    BY <1>1, <1>5 DEF startUpdate, CursorTypeOK
  <2>2. CASE currentDir \in present
    <3>1. update' = [update EXCEPT !.stage = "Enumerate"] /\ queue' = queue
      BY <1>5, <2>2 DEF startUpdate
    <3>2. update' \in Updates /\ update'.stage = "Enumerate"
      BY <1>1, <3>1 DEF Updates
    <3> QED
      BY <1>1, <1>4, <2>1, <3>1, <3>2
  <2>3. CASE currentDir \notin present
    <3>1. update' = NoUpdate /\ queue' = Append(queue, [kind |-> "Recover"])
      BY <1>5, <2>3 DEF startUpdate
    <3>2. [kind |-> "Recover"] \in Notices /\ [kind |-> "Recover"].kind = "Recover"
      BY DEF Notices
    <3>3. queue' \in Seq(Notices) /\ Announces(queue', currentDir, wanted[currentDir])
      BY <1>1, <3>1, <3>2, AppendedIsAnnounced
    <3> QED
      BY <1>3, <1>4, <2>1, <3>1, <3>3
  <2> QED
    BY <2>2, <2>3
<1>6. CASE enumerate
  <2> DEFINE found == IF currentDir \in present THEN listing(currentDir) ELSE {}
  <2>1. update' = [update EXCEPT !.stage = "Publish", !.listing = found] /\ queue' = queue
        /\ items' = items
    BY <1>6 DEF enumerate
  <2>2. found \subseteq Items
    BY <1>1, ListingsAreOfItems
  <2> HIDE DEF found
  <2>3. update' \in Updates /\ update'.stage = "Publish"
    BY <1>1, <2>1, <2>2 DEF Updates
  <2> QED
    BY <1>1, <1>4, <2>1, <2>3 DEF CursorTypeOK
<1>7. CASE publishFileListIfCurrent
  <2>1. /\ items' = [path |-> currentDir, listing |-> update.listing]
        /\ queue' = withContentsNotice(queue, Changed(update.cause)) /\ update' = NoUpdate
    BY <1>7 DEF publishFileListIfCurrent
  <2>2. items' \in Listings
    BY <1>1, <2>1 DEF Listings, Updates
  <2>3. Changed(update.cause) \in Notices /\ Changed(update.cause).kind = "Changed"
    BY <1>1 DEF Changed, Notices, Updates
  <2>4. queue' \in Seq(Notices) /\ Announces(queue', currentDir, wanted[currentDir])
    BY <1>1, <2>1, <2>3, ContentsNoticeIsAnnounced
  <2> QED
    BY <1>3, <1>4, <2>1, <2>2, <2>4
<1> QED
  BY <1>5, <1>6, <1>7 DEF worker

LEMMA CursorOthersStep ==
  ASSUME CursorInv, others
  PROVE  CursorInv'
<1>1. present \subseteq Items /\ Root \in present
  BY DEF CursorInv, CursorTypeOK
<1>2. UNCHANGED <<currentDir, items, update, queue, batch, ticking, rows, cursor, currentItem, wanted>>
  BY DEF others, uiVars, viewVars, memoryVars
<1>3. PICK item \in Items \ {Root} :
        IF item \in present THEN present' = present \ Below(item)
        ELSE ParentOf[item] \in present /\ present' = present \cup {item}
  BY DEF others
<1>4. Root \notin Below(item)
  <2>1. Root \in Items
    BY TreeAssumption DEF Items
  <2>2. AncestorsOf[Root] = {Root}
    BY <2>1, AncestorsAreStepwise
  <2> QED
    BY <2>2 DEF Below
<1>5. present' \subseteq Items /\ Root \in present'
  BY <1>1, <1>3, <1>4
<1> QED
  BY <1>2, <1>5 DEF CursorInv, CursorTypeOK, ExpectedIsRemembered, ExpectedElsewhere
-----------------------------------------------------------------------------
(* The tick.                                                               *)

LEMMA TickStartsStep ==
  ASSUME CursorInv, tickStarts
  PROVE  CursorInv'
<1>1. /\ ticking' = TRUE /\ batch' = queue /\ queue' = <<>> /\ batch = <<>>
      /\ UNCHANGED <<present, currentDir, items, update, rows, cursor, currentItem, wanted>>
  BY DEF tickStarts, CursorInv, viewVars, memoryVars
<1>2. CursorTypeOK'
  BY <1>1 DEF CursorInv, CursorTypeOK
<1>3. ~ Announces(batch, currentDir, wanted[currentDir])
  BY <1>1 DEF Announces
<1> QED
  BY <1>1, <1>2, <1>3 DEF CursorInv, ExpectedIsRemembered, ExpectedElsewhere

(* Where the cursor goes it is on a row, and on the item remembered if that   *)
(* is shown and may be gone to.                                             *)
LEMMA WhereTheCursorGoes ==
  ASSUME CursorTypeOK, NEW cause, NEW shown \in SUBSET Items, shown # {}
  PROVE  /\ CursorAfter(cause, shown) \in shown
         /\ (cause # "Forward" \/ respect) /\ currentItem[currentDir] \in shown
              => CursorAfter(cause, shown) = currentItem[currentDir]
<1> DEFINE last == Cardinality(shown) - 1
           row == IF RowOfCursor < last THEN RowOfCursor ELSE last
<1>1. Cardinality(shown) \in Nat /\ Cardinality(shown) # 0
  <2>1. IsFiniteSet(shown)
    BY TreeAssumption, FS_Subset
  <2> QED
    BY <2>1, FS_CardinalityType, FS_EmptySet
<1>2. RowOfCursor \in Nat
  <2> DEFINE before == {other \in rows.listing : Place[other] < Place[cursor]}
  <2>1. before \in SUBSET Items
    BY WhatListingsHold
  <2>2. IsFiniteSet(before)
    BY <2>1, TreeAssumption, FS_Subset
  <2>3. Cardinality(before) \in Nat
    BY <2>2, FS_CardinalityType
  <2> QED
    BY <2>3 DEF RowOfCursor, Row
<1>3. row \in 0..(Cardinality(shown) - 1) /\ 0 \in 0..(Cardinality(shown) - 1)
  BY <1>1, <1>2
<1>4. At(row, shown) \in shown /\ At(0, shown) \in shown
  BY <1>3, RowsAreTaken
<1>5. CursorAfter(cause, shown)
        = IF (cause # "Forward" \/ respect) /\ currentItem[currentDir] \in shown
          THEN currentItem[currentDir]
          ELSE IF cursor # None /\ cause = "Other" THEN At(row, shown) ELSE At(0, shown)
  BY DEF CursorAfter
<1> QED
  BY <1>4, <1>5

LEMMA FillStep ==
  ASSUME CursorInv, fillFromList
  PROVE  CursorInv'
<1> DEFINE shown == list.listing
           cause == Head(batch).cause
           stays == wanted[currentDir] \in shown /\ (cause # "Forward" \/ respect)
           at == cursor'
<1>1. /\ CursorTypeOK /\ ExpectedIsRemembered /\ ticking /\ currentDir \in Folders
      /\ currentItem \in Memories /\ wanted \in Memories
      /\ batch \in Seq(Notices) /\ batch # <<>>
  BY DEF CursorInv, CursorTypeOK, fillFromList, Delivery
<1>2. /\ rows' = list /\ at = CursorAfter(cause, shown) /\ batch' = Tail(batch)
      /\ UNCHANGED <<present, items, ticking, currentDir, update, queue>>
  BY DEF fillFromList, Delivery
<1>3. /\ shown \in SUBSET Items /\ list \in Listings /\ None \notin Items
  <2>1. list.listing \subseteq Items
    BY <1>1, WhatListingsHold DEF Listings
  <2> QED
    BY <1>1, <2>1, WhatListingsHold
<1>4. batch' \in Seq(Notices)
  BY <1>1, <1>2, TheOthersAreLeft
<1>5. CASE shown = {}
  <2>1. at = None /\ UNCHANGED <<currentItem, wanted>>
    BY <1>2, <1>5 DEF CursorAfter, fillFromList, memoryVars
  <2>2. CursorTypeOK'
    BY <1>1, <1>2, <1>3, <1>4, <2>1 DEF CursorTypeOK
  <2>3. ~ ExpectedElsewhere'
    BY <1>2, <1>5 DEF ExpectedElsewhere
  <2> QED
    BY <1>1, <1>2, <2>1, <2>2, <2>3 DEF CursorInv, ExpectedIsRemembered
<1>6. CASE shown # {}
  <2> DEFINE expected == IF stays THEN wanted[currentDir] ELSE at
  <2>1. /\ currentItem' = [currentItem EXCEPT ![currentDir] = at]
        /\ wanted' = [wanted EXCEPT ![currentDir] = IF stays THEN @ ELSE at]
    BY <1>6 DEF fillFromList
  <2>2. /\ at \in shown
        /\ (cause # "Forward" \/ respect) /\ currentItem[currentDir] \in shown
             => at = currentItem[currentDir]
    BY <1>1, <1>2, <1>3, <1>6, WhereTheCursorGoes
  <2>3. stays => wanted[currentDir] = at
    <3>1. wanted[currentDir] \in {None, currentItem[currentDir]}
      BY <1>1 DEF ExpectedIsRemembered
    <3> QED
      BY <1>3, <2>2, <3>1
  <2>4. wanted' = [wanted EXCEPT ![currentDir] = at]
    <3> HIDE DEF stays, at
    <3> QED
      BY <1>1, <2>1, <2>3 DEF Memories
  <2> HIDE DEF at, shown, stays
  <2>5. at \in Items \cup {None} /\ at \in {None, at}
    BY <1>3, <2>2
  <2>6. /\ currentItem' \in Memories /\ wanted' \in Memories /\ ExpectedIsRemembered'
        /\ wanted'[currentDir] = at
    BY <1>2, <2>1, <2>4, <2>5, RecordingAnItem
  <2>7. CursorTypeOK'
    BY <1>1, <1>2, <1>3, <1>4, <2>2, <2>6 DEF CursorTypeOK, at, shown
  <2>8. ~ ExpectedElsewhere'
    BY <1>2, <2>6 DEF ExpectedElsewhere, at
  <2> QED
    BY <1>1, <1>2, <2>6, <2>7, <2>8 DEF CursorInv
<1> QED
  BY <1>5, <1>6

LEMMA InvalidatedStep ==
  ASSUME CursorInv, onPanelContentsInvalidated
  PROVE  CursorInv'
<1>1. /\ CursorTypeOK /\ ExpectedIsRemembered /\ ticking /\ currentDir \in Folders
      /\ batch \in Seq(Notices) /\ batch # <<>>
  BY DEF CursorInv, CursorTypeOK, onPanelContentsInvalidated, Delivery
<1>2. /\ rows' = Blank /\ cursor' = None /\ batch' = Tail(batch)
      /\ UNCHANGED <<present, items, ticking, currentDir, update, queue, currentItem, wanted>>
  BY DEF onPanelContentsInvalidated, Delivery, memoryVars
<1>3. batch' \in Seq(Notices)
  BY <1>1, <1>2, TheOthersAreLeft
<1>4. Blank \in Listings /\ Blank.path # currentDir
  BY <1>1, WhatListingsHold
<1>5. CursorTypeOK'
  BY <1>1, <1>2, <1>3, <1>4 DEF CursorTypeOK
<1>6. ~ ExpectedElsewhere'
  BY <1>2, <1>4 DEF ExpectedElsewhere
<1> QED
  BY <1>1, <1>2, <1>5, <1>6 DEF CursorInv, ExpectedIsRemembered

(* The notice of an item that is expected brings the cursor there if the rows *)
(* show it, so that without it nothing is missed.                            *)
LEMMA ItemStep ==
  ASSUME CursorInv, onCurrentItemChanged
  PROVE  CursorInv'
<1> DEFINE notice == Head(batch)
           moves == notice.folder = currentDir /\ notice.item \in rows.listing \ {cursor}
<1>1. /\ CursorTypeOK /\ ExpectedIsRemembered /\ ticking /\ currentDir \in Folders
      /\ batch \in Seq(Notices) /\ batch # <<>> /\ notice.kind = "Item"
  BY DEF CursorInv, CursorTypeOK, onCurrentItemChanged, Delivery
<1>2. /\ batch' = Tail(batch)
      /\ UNCHANGED <<present, items, ticking, currentDir, update, queue, rows>>
  BY DEF onCurrentItemChanged, Delivery
<1>3. /\ batch' \in Seq(Notices)
      /\ Announces(batch, currentDir, wanted[currentDir])
           => \/ Announces(batch', currentDir, wanted[currentDir])
              \/ IsAbout(notice, currentDir, wanted[currentDir])
  BY <1>1, <1>2, TheOthersAreLeft
<1>4. CASE moves
  <2> DEFINE item == notice.item
  <2>1. /\ cursor' = item /\ currentItem' = [currentItem EXCEPT ![currentDir] = item]
        /\ wanted' = [wanted EXCEPT ![currentDir] = item]
    BY <1>4 DEF onCurrentItemChanged
  <2>2. item \in rows.listing /\ item \in Items
    BY <1>1, <1>4, WhatListingsHold
  <2> HIDE DEF item
  <2>3. item \in Items \cup {None} /\ item \in {None, item}
    BY <2>2
  <2>4. /\ currentItem' \in Memories /\ wanted' \in Memories /\ ExpectedIsRemembered'
        /\ wanted'[currentDir] = item
    BY <1>2, <2>1, <2>3, RecordingAnItem
  <2>5. CursorTypeOK'
    BY <1>1, <1>2, <1>3, <2>1, <2>2, <2>4 DEF CursorTypeOK
  <2>6. ~ ExpectedElsewhere'
    BY <1>2, <2>1, <2>4 DEF ExpectedElsewhere
  <2> QED
    BY <1>1, <1>2, <2>4, <2>5, <2>6 DEF CursorInv
<1>5. CASE ~ moves
  <2>1. UNCHANGED <<cursor, currentItem, wanted>>
    BY <1>5 DEF onCurrentItemChanged, memoryVars
  <2>2. ExpectedElsewhere => ~ IsAbout(notice, currentDir, wanted[currentDir])
    BY <1>5 DEF ExpectedElsewhere, IsAbout
  <2>3. CursorTypeOK'
    BY <1>1, <1>2, <1>3, <2>1 DEF CursorTypeOK
  <2>4. ExpectedElsewhere' => ExpectedElsewhere
    BY <1>2, <2>1 DEF ExpectedElsewhere
  <2> HIDE DEF notice, moves
  <2> QED
    BY <1>1, <1>2, <1>3, <2>1, <2>2, <2>3, <2>4 DEF CursorInv, ExpectedIsRemembered
<1> QED
  BY <1>4, <1>5

-----------------------------------------------------------------------------
(* The theorem.                                                            *)

LEMMA CursorStarts == CursorInit => CursorInv
<1> SUFFICES ASSUME CursorInit
             PROVE  CursorInv
  OBVIOUS
<1>1. /\ present \subseteq Items /\ Root \in present /\ currentDir \in Folders
      /\ items = Blank /\ rows = Blank /\ cursor = None /\ update = NewUpdate("Other")
      /\ queue = <<[kind |-> "Invalidated"]>> /\ batch = <<>> /\ ticking = FALSE
      /\ wanted = currentItem
  BY TreesAssumption DEF CursorInit
<1>2. PICK saved \in listing(currentDir) \cup {None} :
        currentItem = [f \in Folders |-> IF f = currentDir THEN saved ELSE None]
  BY DEF CursorInit
<1>3. saved \in Items \cup {None}
  BY <1>1, ListingsAreOfItems
<1>4. currentItem \in Memories
  BY <1>2, <1>3 DEF Memories
<1>5. update \in Updates /\ update.stage = "Queued"
  BY <1>1 DEF NewUpdate, NoUpdate, Updates, Causes
<1>6. [kind |-> "Invalidated"] \in Notices /\ Blank \in Listings
  BY DEF Notices, Listings
<1>7. queue \in Seq(Notices) /\ batch \in Seq(Notices)
  BY <1>1, <1>6
<1>8. CursorTypeOK
  BY <1>1, <1>4, <1>5, <1>6, <1>7 DEF CursorTypeOK
<1> QED
  BY <1>1, <1>5, <1>8 DEF CursorInv, ExpectedIsRemembered

LEMMA CursorInductive == CursorInv /\ [CursorNext]_cursorVars => CursorInv'
<1> SUFFICES ASSUME CursorInv, [CursorNext]_cursorVars
             PROVE  CursorInv'
  OBVIOUS
<1>1. CASE command
  <2>1. CASE (\E path \in Folders : goTo(path)) \/ itemActivated \/ navigateUp
    BY <2>1, NavigationStep
  <2>2. CASE refresh
    BY <2>2, RefreshStep
  <2>3. CASE \E item \in Items \ {Root} : goToItem(item)
    BY <2>3, GoToItemStep
  <2>4. CASE \E item \in rows.listing : moveCursor(item)
    BY <2>4, MoveCursorStep
  <2>5. CASE \E item \in Folders \ {Root} : createFolder(item)
    BY <2>5, CreateFolderStep
  <2>6. CASE \/ \E item \in Files : createFile(item)
             \/ \E item, renamed \in Files : renameItem(item, renamed)
    BY <2>6, CreateFileStep
  <2> QED
    BY <1>1, <2>1, <2>2, <2>3, <2>4, <2>5, <2>6 DEF command
<1>2. CASE worker
  BY <1>2, CursorWorkerStep
<1>3. CASE uiThreadTimerTick
  <2>1. CASE tickStarts
    BY <2>1, TickStartsStep
  <2>2. CASE fillFromList
    BY <2>2, FillStep
  <2>3. CASE onPanelContentsInvalidated
    BY <2>3, InvalidatedStep
  <2>4. CASE onCurrentItemChanged
    BY <2>4, ItemStep
  <2>5. CASE recoverFromInaccessiblePathIfCurrent
    BY <2>5, NavigationStep
  <2>6. CASE refreshIfWatcherDetectedChanges
    BY <2>6, RefreshStep
  <2> QED
    BY <1>3, <2>1, <2>2, <2>3, <2>4, <2>5, <2>6 DEF uiThreadTimerTick
<1>4. CASE others
  BY <1>4, CursorOthersStep
<1>5. CASE UNCHANGED cursorVars
  BY <1>5 DEF cursorVars, uiVars, viewVars, memoryVars, CursorInv, CursorTypeOK, ExpectedIsRemembered,
              ExpectedElsewhere
<1> QED
  BY <1>1, <1>2, <1>3, <1>4, <1>5 DEF CursorNext

(* When nothing is left to come, it is where it is expected, and that is what *)
(* is remembered.                                                          *)
LEMMA NothingIsLeftToCome == CursorInv => CursorIsWhereItShouldBe
<1> SUFFICES ASSUME CursorInv, Settled, rows.path = currentDir, wanted[currentDir] \in rows.listing
             PROVE  cursor = wanted[currentDir] /\ currentItem[currentDir] = cursor
  BY DEF CursorIsWhereItShouldBe
<1>1. update.stage = "None" /\ queue = <<>> /\ batch = <<>>
  BY DEF Settled, CursorInv
<1>2. ~ Announces(queue, currentDir, wanted[currentDir]) /\ ~ Announces(batch, currentDir, wanted[currentDir])
  BY <1>1 DEF Announces
<1>3. cursor = wanted[currentDir]
  BY <1>1, <1>2 DEF CursorInv, ExpectedElsewhere
<1>4. wanted[currentDir] # None
  BY WhatListingsHold DEF CursorInv
<1>5. wanted[currentDir] \in {None, currentItem[currentDir]}
  BY DEF CursorInv, CursorTypeOK, ExpectedIsRemembered
<1> QED
  BY <1>3, <1>4, <1>5

(* For any tree of folders and files, any setting, and any number of commands *)
(* and changes by others: when nothing is under way, the cursor is on the     *)
(* item it was last brought to in the folder shown, if that is shown, and     *)
(* that item is the one remembered (cpanelwidget.cpp:574-608,                *)
(* cpanel.cpp:160-168, ccontroller.cpp:567-620).                            *)
THEOREM TheCursorIsWhereItShouldBe == CursorSpec => []CursorIsWhereItShouldBe
<1>1. CursorInit => CursorInv
  BY CursorStarts
<1>2. CursorInv /\ [CursorNext]_cursorVars => CursorInv'
  BY CursorInductive
<1>3. CursorInv => CursorIsWhereItShouldBe
  BY NothingIsLeftToCome
<1> QED
  BY <1>1, <1>2, <1>3, PTL DEF CursorSpec
==============================================================================
