---------------------------- MODULE SettingsMenu ----------------------------
(***************************************************************************)
(* The settings menu (menus.cpp, natives.cpp:319-443, cookie.cpp:272-314): *)
(* plugins add items, each with an AutoMenuData on the heap whose address  *)
(* is the item's info string; players open the menu and, for a prefab      *)
(* item, a submenu that carries the same address; a plugin that is         *)
(* destroyed has its items removed, found by their text.                   *)
(*                                                                         *)
(* All of it runs on the game thread, a call at a time.  A player who      *)
(* picks an item picks one the menu has at that moment, and a menu that is *)
(* displayed replaces the one the player had: that is SourceMod's part.    *)
(* Which value a pick saves, and how, is in CookieManager.                 *)
(***************************************************************************)
EXTENDS Naturals, Sequences, SequencesExt, FiniteSets

CONSTANTS
    Plugins, Clients,
    TextsOf(_),     \* the texts a plugin gives its items
    MaxData,        \* bound: items added in all
    MaxLoads        \* bound: plugins loaded in all

MenuAssumption ==
    /\ IsFiniteSet(Plugins) /\ \A p \in Plugins : IsFiniteSet(TextsOf(p))
    /\ MaxData \in Nat /\ MaxLoads \in Nat

Texts == UNION {TextsOf(p) : p \in Plugins}

VARIABLES
    loaded,         \* the plugins that are loaded
    clientMenu,     \* its items: [display, data], data an AutoMenuData
    data,           \* every AutoMenuData allocated, numbered from 1: its plugin
                    \* and its handler's isAutoMenu
    live,           \* those not deleted
    SettingsMenuItems,  \* the plugin property: the texts of its items
    menu,           \* what each player has on the screen
    undefined,      \* whether a deleted AutoMenuData has been read
    loads

plugins == <<loaded, loads, SettingsMenuItems>>
vars == <<plugins, clientMenu, data, live, menu, undefined>>

NoMenu == [kind |-> "none", data |-> 0]

-----------------------------------------------------------------------------
(* Plugins                                                                 *)

LoadPlugin(p) ==
    /\ p \notin loaded
    /\ loads < MaxLoads /\ loads' = loads + 1
    /\ loaded' = loaded \cup {p}
    /\ UNCHANGED <<SettingsMenuItems, clientMenu, data, live, menu, undefined>>

(* The item is appended and its text tracked.                              *)
Add(p, text, d) ==
    /\ p \in loaded /\ Len(data) < MaxData
    /\ data' = Append(data, d)
    /\ live' = live \cup {Len(data) + 1}
    /\ clientMenu' = Append(clientMenu, [display |-> text, data |-> Len(data) + 1])
    /\ SettingsMenuItems' = [SettingsMenuItems EXCEPT ![p] = Append(@, text)]
    /\ UNCHANGED <<loaded, loads, menu, undefined>>

(* SetCookieMenuItem                                                       *)
AddSettingsMenuItem(p, text) == Add(p, text, [plugin |-> p, isAutoMenu |-> FALSE])

(* SetCookiePrefabMenu                                                     *)
AddSettingsPrefabMenuItem(p, text) ==
    Add(p, text, [plugin |-> p, isAutoMenu |-> TRUE])

(* The first item with the text, and its data, go; none: nothing happens   *)
BugRemoveTextLeak(left, text) ==
    LET at == {i \in 1 .. Len(left.items) : left.items[i].display = text}
    IN  IF at = {} THEN left
        ELSE LET i == CHOOSE i \in at : \A j \in at : i <= j
             IN  [items |-> SelectSeq(left.items, LAMBDA x : x.display # text),
                  live |-> left.live \ {left.items[i].data}]
BugRemoveTextNext(left, text) ==
    LET at == {i \in 1 .. Len(left.items) : left.items[i].display = text}
    IN  IF at = {} THEN left
        ELSE LET i == CHOOSE i \in at : \A j \in at : i <= j
                 k == IF i < Len(left.items) THEN i + 1 ELSE i
             IN  [items |-> RemoveAt(left.items, k),
                  live |-> left.live \ {left.items[k].data}]
RemoveText(left, text) ==
    LET at == {i \in 1 .. Len(left.items) : left.items[i].display = text}
    IN  IF at = {} THEN left
        ELSE LET i == CHOOSE i \in at : \A j \in at : i <= j
             IN  [items |-> RemoveAt(left.items, i),
                  live |-> left.live \ {left.items[i].data}]

OnPluginDestroyed(p) ==
    /\ p \in loaded
    /\ LET left == FoldLeft(RemoveText, [items |-> clientMenu, live |-> live],
                            SettingsMenuItems[p])
       IN  clientMenu' = left.items /\ live' = left.live
    /\ SettingsMenuItems' = [SettingsMenuItems EXCEPT ![p] = <<>>]
    /\ loaded' = loaded \ {p}
    /\ UNCHANGED <<loads, data, menu, undefined>>

-----------------------------------------------------------------------------
(* Players                                                                 *)

Show(c, m) == menu' = [menu EXCEPT ![c] = m]

ShowSettingsMenu(c) ==
    /\ Show(c, [kind |-> "settings", data |-> 0])
    /\ UNCHANGED <<plugins, clientMenu, data, live, undefined>>

(* ClientMenuHandler::OnMenuSelect: the callback, and for a prefab item    *)
(* the submenu, whose two items carry the same info                        *)
SelectItem(c, i) ==
    /\ menu[c].kind = "settings"
    /\ LET d == clientMenu[i].data
       IN  /\ undefined' = (undefined \/ d \notin live)
           /\ Show(c, IF data[d].isAutoMenu THEN [kind |-> "submenu", data |-> d]
                      ELSE NoMenu)
    /\ UNCHANGED <<plugins, clientMenu, data, live>>

(* AutoMenuHandler::OnMenuSelect, which saves the pick in data->pCookie,   *)
(* then OnMenuEnd                                                          *)
SelectOption(c) ==
    /\ menu[c].kind = "submenu"
    /\ undefined' = (undefined \/ menu[c].data \notin live)
    /\ Show(c, NoMenu)
    /\ UNCHANGED <<plugins, clientMenu, data, live>>

(* OnMenuEnd of a menu that is closed, or whose player leaves              *)
Close(c) ==
    /\ menu[c] # NoMenu
    /\ Show(c, NoMenu)
    /\ UNCHANGED <<plugins, clientMenu, data, live, undefined>>

-----------------------------------------------------------------------------
Init ==
    /\ loaded = {} /\ loads = 0
    /\ clientMenu = <<>> /\ data = <<>> /\ live = {}
    /\ SettingsMenuItems = [p \in Plugins |-> <<>>]
    /\ menu = [c \in Clients |-> NoMenu]
    /\ undefined = FALSE

Next ==
    \/ \E p \in Plugins :
          \/ LoadPlugin(p) \/ OnPluginDestroyed(p)
          \/ \E text \in TextsOf(p) :
                AddSettingsMenuItem(p, text) \/ AddSettingsPrefabMenuItem(p, text)
    \/ \E c \in Clients :
          \/ ShowSettingsMenu(c) \/ SelectOption(c) \/ Close(c)
          \/ \E i \in 1 .. Len(clientMenu) : SelectItem(c, i)

Spec == Init /\ [][Next]_vars

-----------------------------------------------------------------------------
CountIn(seq, Test(_)) == Cardinality({i \in 1 .. Len(seq) : Test(seq[i])})

Owner(item) == data[item.data].plugin

(* The variables have their types.                                         *)
TypeOK ==
    /\ loaded \subseteq Plugins
    /\ clientMenu \in Seq([display : Texts, data : 1 .. Len(data)])
    /\ live \subseteq 1 .. Len(data)
    /\ SettingsMenuItems \in [Plugins -> Seq(Texts)]
    /\ \A p \in Plugins \ loaded : SettingsMenuItems[p] = <<>>
    /\ undefined \in BOOLEAN

(* The menu's items and the AutoMenuData that are not deleted are the same *)
(* ones: drawing or choosing an item reads nothing that is freed, and      *)
(* nothing is kept for an item that is gone (cookie.cpp:295-306,           *)
(* menus.cpp:43, 97).                                                      *)
ItemsAreLive ==
    /\ live = {clientMenu[i].data : i \in 1 .. Len(clientMenu)}
    /\ Cardinality(live) = Len(clientMenu)

(* As many items have a text as loaded plugins track it, so when the last  *)
(* plugin has gone the menu is empty, whoever's items were removed for     *)
(* whom (cookie.cpp:284-310).                                              *)
ItemsAreTracked ==
    \A text \in Texts :
        CountIn(clientMenu, LAMBDA item : item.display = text)
            = Cardinality({x \in Plugins \X (1 .. MaxData) :
                  /\ x[2] <= Len(SettingsMenuItems[x[1]])
                  /\ SettingsMenuItems[x[1]][x[2]] = text})

(* The menu, the data of its items and what plugins track of them agree,   *)
(* whichever plugins have come and gone (cookie.cpp:272-314).              *)
SettingsMenuInv == TypeOK /\ ItemsAreLive /\ ItemsAreTracked

(* A plugin that is destroyed takes its items with it and nobody else's    *)
(* ("remove from this plugins list", cookie.cpp:287), among the items whose*)
(* text only one plugin uses.  Those with a text in common may go for      *)
(* another's (cookie.cpp:295).                                             *)
Alone(item) ==
    \A p \in Plugins : item.display \in TextsOf(p) => p = Owner(item)
OwnItemsGo ==
    [][\A p \in loaded \ loaded' :
          SelectSeq(clientMenu', Alone)
            = SelectSeq(clientMenu, LAMBDA item : Alone(item) /\ Owner(item) # p)]_vars
=============================================================================
