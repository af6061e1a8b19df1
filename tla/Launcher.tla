------------------------------ MODULE Launcher ------------------------------
(***************************************************************************)
(* The launcher of the SDL frontend (frontend/main.cpp): the library read  *)
(* from disk, the list that tab, system and search select from it, the     *)
(* selected entry, favorites and recents.  A file is a path; the catalog   *)
(* has every file in the order of the titles.                              *)
(***************************************************************************)
EXTENDS Integers, Sequences, Functions

CONSTANTS Catalog, KindOf,  \* the paths by title; path to system
          Roots,            \* the directories searched, as a sequence of sets of paths
          Named, NoPath,    \* the ROM on the command line, or NoPath
          Queries, Matches, \* searches; query to the paths it matches
          MaxRecents, Cards, \* launcher_visible: cards that fit
          MaxMoves

(* An empty search matches every game.                                      *)
ASSUME LauncherAssumption ==
  /\ Catalog \in Seq(Range(Catalog)) /\ Roots \in Seq(Range(Roots))
  /\ NoPath \notin Range(Catalog)
  /\ MaxRecents \in Nat /\ Cards \in Nat \ {0}

VARIABLES disk,      \* the files there are
          roms, list, index, scroll, \* list: indices into roms; index from 1
          filter, system, tab, search,
          focus, typing, \* launcher_focus, search_focus
          favorites, recents,
          shown,     \* ui_mode is Launcher
          moves

library == <<roms, list, index, scroll>>
tabs == <<filter, system, tab>>
marks == <<favorites, recents>>
launcherVars == <<disk, library, tabs, search, focus, typing, marks, shown, moves>>

(* Where a sequence has x first, or 0; those of its elements in a set.      *)
Place(s, x) ==
  IF \E n \in 1..Len(s) : s[n] = x
  THEN CHOOSE n \in 1..Len(s) : s[n] = x /\ \A k \in 1..(n - 1) : s[k] # x
  ELSE 0
Among(s, S) ==
  LET kept[n \in 0..Len(s)] ==
        IF n = 0 THEN <<>> ELSE IF s[n] \in S THEN Append(kept[n - 1], s[n]) ELSE kept[n - 1]
  IN  kept[Len(s)]

(***************************************************************************)
(* scan_roms and the ROM named on the command line: a file under two roots *)
(* is listed twice.                                                        *)
(***************************************************************************)
Scan(files) ==
  LET Copies(p) == [n \in 1..Len(Among(Roots, {r \in Range(Roots) : p \in r})) |-> p]
      listed[i \in 0..Len(Catalog)] ==
        IF i = 0 THEN <<>>
        ELSE listed[i - 1] \o (IF Catalog[i] \in files THEN Copies(Catalog[i]) ELSE <<>>)
      found == listed[Len(Catalog)]
  IN  IF Named \in files /\ Named \notin Range(found) THEN <<Named>> \o found ELSE found

(* build_launcher_list                                                      *)
Built(rs, fl, sy, q, fav, rec) ==
  LET all == [i \in 1..Len(rs) |-> i]
      included == {i \in 1..Len(rs) : rs[i] \in Matches[q] /\ (sy = "all" \/ KindOf[rs[i]] = sy)}
      seen == Among(rec, {rs[i] : i \in included})
  IN  CASE fl = "recents"   -> [n \in 1..Len(seen) |-> Place(rs, seen[n])]
        [] fl = "favorites" -> Among(all, {i \in included : rs[i] \in fav})
        [] OTHER            -> Among(all, included)

SelectedRom(l, n) == IF n \in 1..Len(l) THEN l[n] ELSE 0

(* select_launcher_rom and normalize_launcher: the list l, the entry that   *)
(* shows the ROM, else the entry at the old place                           *)
Kept(l, rom, n) ==
  IF Place(l, rom) # 0 THEN Place(l, rom) ELSE IF n > Len(l) THEN Len(l) ELSE IF n < 1 THEN 1 ELSE n
Select(l, rom, n, sc) ==
  /\ list' = l
  /\ index' = (IF l = <<>> THEN 1 ELSE Kept(l, rom, n))
  /\ scroll' = (IF l = <<>> THEN 1 ELSE IF sc > Kept(l, rom, n) THEN Kept(l, rom, n) ELSE sc)
Rebuild == Select(Built(roms, filter', system', search', favorites', recents'),
                  SelectedRom(list, index), index, scroll)

(* refresh_roms: the selection is kept by path                              *)
Refresh ==
  LET rs == Scan(disk)
      old == SelectedRom(list, index)
      path == IF old = 0 THEN Named ELSE roms[old]
      tabOf == IF system # "all" THEN system ELSE filter
  IN  /\ roms' = rs /\ tab' = tabOf
      /\ Select(Built(rs, filter, system, search, favorites, recents),
                Place(rs, path), 1, 1)
      /\ UNCHANGED <<filter, system, search, marks>>

LauncherInit ==
  /\ disk \in SUBSET Range(Catalog) /\ favorites = {} /\ recents = <<>>
  /\ filter = "all" /\ system = "all" /\ tab = "all" /\ search = ""
  /\ roms = Scan(disk)
  /\ list = Built(roms, "all", "all", "", {}, <<>>)
  /\ index = (IF list = <<>> THEN 1 ELSE Kept(list, Place(roms, Named), 1))
  /\ scroll = 1 /\ focus = "shelf" /\ typing = FALSE /\ shown = TRUE /\ moves = 0

Move == moves < MaxMoves /\ moves' = moves + 1
Here == Move /\ shown /\ UNCHANGED disk
Focus(f) == focus' = f /\ typing' = (f = "search")

\* the library tabs in order
TabOrder == <<"all", "recents", "favorites", "gb", "gbc", "gba">>
SetTab(t) ==
  /\ tab' = t
  /\ filter' = (IF t \in {"recents", "favorites"} THEN t ELSE "all")
  /\ system' = (IF t \in {"gb", "gbc", "gba"} THEN t ELSE "all")
ApplyTab(t) == SetTab(t) /\ UNCHANGED <<roms, search, marks>> /\ Rebuild
CycleTab(delta) == ApplyTab(TabOrder[(((Place(TabOrder, tab) - 1 + delta) % 6) + 1)])

ToggleFavorite_KeepsList ==
  LET p == roms[SelectedRom(list, index)]
  IN  /\ UNCHANGED <<library, tabs, search, recents>>
      /\ favorites' = (IF SelectedRom(list, index) = 0 THEN favorites
                       ELSE IF p \in favorites THEN favorites \ {p} ELSE favorites \union {p})
ToggleFavorite ==
  LET p == roms[SelectedRom(list, index)]
  IN  /\ UNCHANGED <<roms, tabs, search, recents>>
      /\ IF SelectedRom(list, index) = 0 THEN UNCHANGED <<list, index, scroll, favorites>>
         ELSE /\ favorites' = (IF p \in favorites THEN favorites \ {p} ELSE favorites \union {p})
              /\ Rebuild

(* launch_selected: a file that can be read becomes the most recent one and *)
(* hides the launcher                                                       *)
LaunchSelected ==
  LET p == roms[SelectedRom(list, index)]
      recent == <<p>> \o Among(recents, Range(recents) \ {p})
  IN  /\ UNCHANGED <<library, tabs, search, favorites>>
      /\ IF list # <<>> /\ p \in disk
         THEN /\ recents' = SubSeq(recent, 1, IF Len(recent) > MaxRecents THEN MaxRecents ELSE Len(recent))
              /\ shown' = FALSE
         ELSE UNCHANGED <<recents, shown>>

(* move_launcher                                                            *)
MoveSelection(delta) ==
  LET n == index + delta
      to == IF n < 1 THEN 1 ELSE IF n > Len(list) THEN Len(list) ELSE n
  IN  /\ UNCHANGED <<roms, list, tabs, search, marks>>
      /\ IF list = <<>> THEN UNCHANGED <<index, scroll>>
         ELSE /\ index' = to
              /\ scroll' = (IF to < scroll THEN to
                            ELSE IF to >= scroll + Cards THEN to - Cards + 1 ELSE scroll)

(* move_launcher_focus_vertical, move_launcher_focus_horizontal             *)
Vertical ==
  /\ Here /\ UNCHANGED <<library, tabs, search, marks, shown>>
  /\ \/ Focus(IF focus = "tabs" THEN "filter" ELSE IF focus = "shelf" THEN "tabs"
              ELSE IF focus \in {"play", "favorite", "override"} THEN "shelf" ELSE focus)
     \/ Focus(IF focus \in {"search", "filter", "settings"} THEN "tabs"
              ELSE IF focus = "tabs" THEN "shelf" ELSE IF focus = "shelf" THEN "play" ELSE focus)
Rows == {<<"search", "filter", "settings">>, <<"play", "favorite", "override">>}
Horizontal(delta) ==
  /\ Here /\ UNCHANGED shown
  /\ \/ focus = "tabs" /\ CycleTab(delta) /\ UNCHANGED <<focus, typing>>
     \/ focus = "shelf" /\ MoveSelection(delta) /\ UNCHANGED <<focus, typing>>
     \/ /\ \E row \in Rows, i, j \in 1..3 : row[i] = focus /\ j = i + delta /\ Focus(row[j])
        /\ UNCHANGED <<library, tabs, search, marks>>
Activate ==
  /\ Here
  /\ \/ focus = "filter" /\ CycleTab(1) /\ UNCHANGED <<focus, typing, shown>>
     \/ focus = "tabs" /\ ApplyTab(tab) /\ UNCHANGED <<focus, typing, shown>>
     \/ focus \in {"shelf", "play"} /\ LaunchSelected /\ UNCHANGED <<focus, typing>>
     \/ focus = "favorite" /\ ToggleFavorite /\ UNCHANGED <<focus, typing, shown>>
     \/ /\ focus = "settings" /\ shown' = FALSE /\ Focus("shelf")
        /\ UNCHANGED <<library, tabs, search, marks>>

(***************************************************************************)
(* Keys and buttons of their own: TAB, PAGEUP and PAGEDOWN, F, R, and the  *)
(* search box; the mouse selects a card, and over a tab it changes the     *)
(* shown tab only.                                                         *)
(***************************************************************************)
NextTab(delta) == Here /\ Focus("tabs") /\ CycleTab(delta) /\ UNCHANGED shown
FavoriteKey == Here /\ ~typing /\ ToggleFavorite /\ UNCHANGED <<focus, typing, shown>>
RefreshKey == Here /\ ~typing /\ Refresh /\ UNCHANGED <<focus, typing, shown>>
Searching ==
  /\ Here /\ (Focus("search") \/ (typing /\ search = "" /\ Focus("shelf")))
  /\ UNCHANGED <<library, tabs, search, marks, shown>>
TypeSearch(q) ==
  /\ Here /\ typing /\ search' = q
  /\ UNCHANGED <<roms, tabs, marks, focus, typing, shown>> /\ Rebuild
Hover(t) == Here /\ tab' = t /\ Focus("tabs") /\ UNCHANGED <<library, filter, system, search, marks, shown>>
PointAt(n) ==
  /\ Here /\ n \in 1..Len(list) /\ n >= scroll /\ index' = n /\ Focus("shelf")
  /\ UNCHANGED <<roms, list, scroll, tabs, search, marks, shown>>

(* Leaving for a menu or the game, coming back with F7 or the menu          *)
LeaveLauncher ==
  /\ Here /\ shown' = FALSE /\ typing' = FALSE
  /\ UNCHANGED <<library, tabs, search, focus, marks>>
ShowLauncher == Move /\ shown' = TRUE /\ Focus("shelf") /\ Refresh /\ UNCHANGED disk
ChangeDisk ==
  /\ Move /\ disk' \in SUBSET Range(Catalog) \ {disk}
  /\ UNCHANGED <<library, tabs, search, focus, typing, marks, shown>>

LauncherNext ==
  \/ Vertical \/ Activate \/ FavoriteKey \/ RefreshKey \/ Searching
  \/ LeaveLauncher \/ ShowLauncher \/ ChangeDisk
  \/ \E d \in {1, -1} : Horizontal(d) \/ NextTab(d)
  \/ \E q \in Queries : TypeSearch(q)
  \/ \E t \in Range(TabOrder) : Hover(t)
  \/ \E n \in 1..Len(list) : PointAt(n)

(* While the launcher is shown the list has exactly the games that tab,     *)
(* system and search select, the selection is one of them and not before    *)
(* the first visible card, and a step that changes the list keeps the       *)
(* selected game as long as the list still has it: in the recents, which    *)
(* have the first of the copies of a game, if it was the first.             *)
Found == {roms[list[n]] : n \in 1..Len(list)}
Chosen == {p \in Range(roms) : /\ p \in Matches[search] /\ system \in {"all", KindOf[p]}
                               /\ filter = "favorites" => p \in favorites
                               /\ filter = "recents" => p \in Range(recents)}
Choice == IF index \in 1..Len(list) THEN roms[list[index]] ELSE NoPath
ListExact == /\ Found = Chosen
             /\ list = <<>> \/ Choice # NoPath
             /\ scroll =< index
ChoiceKept ==
  list' # list /\ Choice # NoPath /\ (filter' = "recents" => Place(roms, Choice) = list[index]) =>
    Choice' = Choice \/ Choice \notin Found'
LauncherKeeps == [][(shown' => ListExact') /\ ChoiceKept]_launcherVars
=============================================================================
