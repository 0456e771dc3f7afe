------------------------------ MODULE MenuTabs ------------------------------
(***************************************************************************)
(* The tab navigator of the mobile app (app/(tabs)/_layout.tsx) and the   *)
(* only state any of its screens holds: selectedCategory of MenuScreen    *)
(* (app/(tabs)/index.tsx).                                                 *)
(*                                                                         *)
(* Tabs declares four screens; the navigator mounts a screen the first    *)
(* time its tab is focused and keeps it mounted.  A tap on a category     *)
(* chip calls setSelectedCategory(category), which React queues; the next *)
(* render of MenuScreen applies the queued updates in order, each         *)
(* replacing the value, and highlights the chip equal to the result.      *)
(* The menu grid is MENU_ITEMS whatever the category (no filter), and the *)
(* "Add to Cart" buttons have no handler.                                  *)
(***************************************************************************)
EXTENDS Naturals, Sequences

CONSTANT MaxQueued   \* bound on the updates queued between two renders

\* The Tabs.Screen children of TabLayout.
TabNames == {"index", "cart", "orders", "profile"}

\* The chips of MenuScreen: ['All', 'Popular', 'Vegetarian', 'Spicy'].
Categories == {"All", "Popular", "Vegetarian", "Spicy"}

VARIABLES
    focused,   \* the tab whose screen is shown
    mounted,   \* the screens the navigator has mounted
    selected,  \* MenuScreen's selectedCategory as of its last render
    queue      \* setSelectedCategory updates not rendered yet

vars == <<focused, mounted, selected, queue>>

TypeOK ==
    /\ focused \in TabNames
    /\ mounted \in SUBSET TabNames
    /\ selected \in Categories
    /\ queue \in Seq(Categories)

\* The app opens on the first tab, MenuScreen, with useState('All').
Init ==
    /\ focused = "index"
    /\ mounted = {"index"}
    /\ selected = "All"
    /\ queue = <<>>

\* A press on a tab of the tab bar focuses its screen, mounting it if needed.
FocusTab(t) ==
    /\ focused' = t
    /\ mounted' = mounted \cup {t}
    /\ UNCHANGED <<selected, queue>>

\* onPress={() => setSelectedCategory(category)}: only while the menu is shown.
PressCategory(c) ==
    /\ focused = "index"
    /\ Len(queue) < MaxQueued
    /\ queue' = Append(queue, c)
    /\ UNCHANGED <<focused, mounted, selected>>

\* React re-renders MenuScreen: useState returns the value left by applying
\* every queued update in order, i.e. the last one; the chips are redrawn.
RenderMenu ==
    /\ queue # <<>>
    /\ selected' = queue[Len(queue)]
    /\ queue' = <<>>
    /\ UNCHANGED <<focused, mounted>>

Next ==
    \/ \E t \in TabNames : FocusTab(t)
    \/ \E c \in Categories : PressCategory(c)
    \/ RenderMenu

Spec == Init /\ [][Next]_vars /\ WF_vars(RenderMenu)
=============================================================================
