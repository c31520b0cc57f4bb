----------------------------- MODULE Navigation -----------------------------
(***************************************************************************)
(* The frame around the pages of the single-page application: the routes,  *)
(* the links that the sidebar, the drawer, the bottom bar and the search   *)
(* overlay offer to each role, and the groups of the sidebar, which open   *)
(* by themselves when one of their pages is first visited and otherwise by *)
(* hand.  A path is the sequence of its segments.                          *)
(***************************************************************************)
EXTENDS Naturals, Sequences, SequencesExt

Roles == {"USER", "ADMIN", "SUPER_ADMIN"}

App == <<"app">>
Admin == <<"admin">>
Settings == <<"app", "settings">>
Search == <<"app", "search">>
Turnover == <<"app", "turnover">>  \* redirects to the analytics
AppPage(name) == <<"app", name>>
AdminPage(name) == <<"admin", name>>

-----------------------------------------------------------------------------
(* The tables                                                              *)

Items ==
    [planning |-> {AppPage(n) : n \in {"goals", "calendar", "worklog", "communication"}},
     operations |-> {AppPage(n) : n \in {"team", "finance", "income-simulator"}},
     growth |-> {AppPage(n) : n \in {"knowledge", "reviews", "analytics"}},
     system |-> {Settings}]

Groups == DOMAIN Items

AdminItems == {Admin, AdminPage("users"), AdminPage("invitations")}

AdminNavigation(role) ==
    AdminItems \cup {Settings} \cup (IF role = "SUPER_ADMIN" THEN {AdminPage("admins")} ELSE {})

\* the bottom bar of narrow screens
MobileItems(role) ==
    IF role = "USER" THEN {App, AppPage("worklog"), AppPage("calendar"), Settings}
    ELSE AdminNavigation(role)

\* where a result of the search overlay leads, and its link to all results
ResultRoutes == {AppPage(n) : n \in {"goals", "calendar", "team", "knowledge"}} \cup {Search}

RoleHome(role) == IF role = "USER" THEN App ELSE Admin

UserRoutes == {App, Search, Turnover} \cup UNION {Items[g] : g \in Groups}
AllRoutes == UserRoutes \cup AdminItems \cup {AdminPage("admins")}

\* the roles that the RoleRoutes around a route admit
Admits(path) ==
    CASE path = Settings -> Roles
      [] path = AdminPage("admins") -> {"SUPER_ADMIN"}
      [] path \in AdminItems -> {"ADMIN", "SUPER_ADMIN"}
      [] path \in UserRoutes \ {Settings} -> {"USER"}
      [] OTHER -> {}

\* the roles for which the shell around a route is mounted; the page of the
\* administrators has a RoleRoute of its own within
AdmitsShell(path) == Admits(IF path = AdminPage("admins") THEN Admin ELSE path)

\* the return address that the login accepts
IsAllowedPath(path, role) ==
    IF role = "USER" THEN IsPrefix(App, path)
    ELSE IF IsPrefix(Admin, path) THEN role = "SUPER_ADMIN" \/ path # AdminPage("admins")
    ELSE path = Settings

\* RoleRoute, the redirect of an old address, and the one of an unknown path
Lands(role, path) ==
    IF role \notin Admits(path) THEN RoleHome(role)
    ELSE IF path = Turnover THEN AppPage("analytics")
    ELSE path

\* where a login may lead
Returns ==
    [role \in Roles |-> {Lands(role, path) : path \in {p \in AllRoutes : IsAllowedPath(p, role)}}]

IsActive(path, href) == IF href \in {App, Admin} THEN path = href ELSE IsPrefix(href, path)

\* currentUserGroup; it is asked for administrators as well
ActiveGroups ==
    [route \in AllRoutes |-> {g \in Groups : \E item \in Items[g] : IsActive(route, item)}]

-----------------------------------------------------------------------------

VARIABLES
    role, path,
    expandedGroups,  \* kept in the local storage by an effect
    visitedGroups,   \* of this shell
    collapsed,       \* the sidebar is a rail; kept in the local storage
    drawerOpen,
    folded,          \* history: groups folded by hand after their visit
    astray           \* history: the last link followed led somewhere else

navigationVars ==
    <<role, path, expandedGroups, visitedGroups, collapsed, drawerOpen, folded, astray>>

NavigationTypeOK ==
    /\ role \in Roles /\ path \in AllRoutes
    /\ expandedGroups \subseteq Groups /\ visitedGroups \subseteq Groups /\ folded \subseteq Groups
    /\ collapsed \in BOOLEAN /\ drawerOpen \in BOOLEAN /\ astray \in BOOLEAN

\* A shell mounts: after a login, a reload, or a redirect of the RoleRoute around
\* the shell, which unmounts the one before; the storage has its groups.
ShellMounts(r, p, groups) ==
    /\ role' = r /\ path' = p
    /\ visitedGroups' = ActiveGroups[p]
    /\ expandedGroups' = groups \cup ActiveGroups[p]
    /\ drawerOpen' = FALSE
    /\ folded' = {}

NavigationInit ==
    /\ role = "USER" /\ path = App
    /\ expandedGroups = {} /\ visitedGroups = {} /\ folded = {}
    /\ collapsed = FALSE /\ drawerOpen = FALSE /\ astray = FALSE

\* Variant: a group opens on every visit.
ShellShowsAll(p) ==
    /\ path' = p
    /\ visitedGroups' = visitedGroups \cup ActiveGroups[p]
    /\ expandedGroups' = expandedGroups \cup ActiveGroups[p]

\* The shell stays; a group opens on the first visit of one of its pages.
ShellShows(p) ==
    /\ path' = p
    /\ visitedGroups' = visitedGroups \cup ActiveGroups[p]
    /\ expandedGroups' = expandedGroups \cup (ActiveGroups[p] \ visitedGroups)

\* readExpandedGroups keeps the known groups of what another tab, or an
\* earlier version, has left in the storage.
Reload ==
    /\ \E groups \in SUBSET Groups : ShellMounts(role, path, groups)
    /\ UNCHANGED <<collapsed, astray>>

SignIn ==
    /\ \E r \in Roles : \E p \in Returns[r] : ShellMounts(r, p, expandedGroups)
    /\ UNCHANGED <<collapsed, astray>>

\* An address under the shell, or under the one of other roles
Arrives(r, p) ==
    /\ IF r \in AdmitsShell(p)
       THEN role' = r /\ ShellShows(Lands(r, p)) /\ UNCHANGED <<drawerOpen, folded>>
       ELSE ShellMounts(r, RoleHome(r), expandedGroups)
    /\ UNCHANGED collapsed

\* The account menu: the shell of a page that both roles may see stays.
SwitchAccount(r) == Arrives(r, path) /\ UNCHANGED astray

Follow(link) ==
    /\ ShellShows(Lands(role, link))
    /\ astray' = (path' # link)
    /\ UNCHANGED <<role, collapsed, folded>>

\* NavItem, in the sidebar or the drawer, and in the bottom bar
SidebarLink ==
    /\ \E link \in IF role # "USER" THEN AdminNavigation(role)
                   ELSE {App} \cup (IF collapsed /\ ~drawerOpen THEN {}
                                    ELSE UNION {Items[g] : g \in expandedGroups}) :
        Follow(link)
    /\ drawerOpen' = FALSE

MobileLink ==
    /\ ~drawerOpen
    /\ \E link \in MobileItems(role) : Follow(link)
    /\ UNCHANGED drawerOpen

\* The link of the brand leaves the drawer open.
BrandLink == Follow(RoleHome(role)) /\ UNCHANGED drawerOpen

\* A step in the history of the browser (an address typed loads the page anew)
Visited(p) == Arrives(role, p) /\ astray' = FALSE

\* The search overlay, which is opened from the top bar, closes with a result.
SearchResult ==
    /\ role = "USER" /\ ~drawerOpen
    /\ \E link \in ResultRoutes : Follow(link)
    /\ UNCHANGED drawerOpen

\* SidebarGroup
ToggleGroup(g) ==
    /\ role = "USER" /\ (~collapsed \/ drawerOpen)
    /\ expandedGroups' = IF g \in expandedGroups THEN expandedGroups \ {g} ELSE expandedGroups \cup {g}
    /\ folded' = IF g \in expandedGroups THEN folded \cup ({g} \cap visitedGroups) ELSE folded \ {g}
    /\ UNCHANGED <<role, path, visitedGroups, collapsed, drawerOpen, astray>>

\* CollapsedUserNavigation
OpenGroup(g) ==
    /\ role = "USER" /\ collapsed
    /\ expandedGroups' = expandedGroups \cup {g}
    /\ folded' = folded \ {g}
    /\ collapsed' = FALSE
    /\ UNCHANGED <<role, path, visitedGroups, drawerOpen, astray>>

ToggleCollapsed ==
    /\ collapsed' = ~collapsed
    /\ UNCHANGED <<role, path, expandedGroups, visitedGroups, drawerOpen, folded, astray>>

\* The drawer closes with its button, the overlay behind it or Escape.
ToggleDrawer ==
    /\ drawerOpen' = ~drawerOpen
    /\ UNCHANGED <<role, path, expandedGroups, visitedGroups, collapsed, folded, astray>>

NavigationNext ==
    \/ Reload \/ SignIn
    \/ \E r \in Roles : SwitchAccount(r)
    \/ SidebarLink \/ MobileLink \/ BrandLink
    \/ \E p \in AllRoutes : Visited(p)
    \/ SearchResult
    \/ \E g \in Groups : ToggleGroup(g) \/ OpenGroup(g)
    \/ ToggleCollapsed \/ ToggleDrawer

NavigationSpec == NavigationInit /\ [][NavigationNext]_navigationVars

-----------------------------------------------------------------------------
(* Properties                                                              *)

\* of the route that is shown, and of the one that none shows
ReturnsAreAdmitted ==
    \A r \in Roles, p \in {path, Turnover} : IsAllowedPath(p, r) <=> r \in Admits(p)

\* A group that its reader folded stays folded until the reader opens it, as
\* long as the shell lives, whatever pages of it are visited, with the
\* drawer, the rail and the bottom bar all changing the same set; and every
\* link offered to a role leads to its page, past the guards of the routes,
\* which admit the same roles as the check of the login's return address.
ReaderIsLed ==
    /\ folded \cap expandedGroups = {}
    /\ ~astray
    /\ ReturnsAreAdmitted
=============================================================================
