------------------------------- MODULE Session -------------------------------
(***************************************************************************)
(* Who is signed in, where that leads, and the theme of the page: the      *)
(* session query (lib/session.ts), the redirects of the routes, the menu   *)
(* of the sidebars (SidebarUserMenu.tsx) and lib/theme.ts.  A request for  *)
(* the session carries the cookie of its moment, its answer is applied     *)
(* later and replaces what logging out put into the cache; it may fail, as *)
(* may the request to log out, whose handlers do nothing then.  The theme  *)
(* is kept in localStorage; the menu, while it is mounted, copies it to    *)
(* the document.                                                           *)
(***************************************************************************)
EXTENDS Integers

CONSTANTS
    MaxClicks   \* bound on what the user does

Themes == {"light", "dark", "system"}

VARIABLES
    cookie,     \* the browser's session cookie: "none", "user" or "admin"
    session,    \* the cached session: "loading", "failed" or as cookie
    fetch,      \* the request for it: "idle", "asked", or its answer
    token,      \* the cookie that request was sent with
    route,      \* "login", "agents", "my-settings" or "admin"
    open,       \* the menu
    leaving,    \* a logout is on its way
    stored,     \* the theme in localStorage
    systemDark,
    theme,      \* the menu's theme, "unmounted" without a menu
    dark,       \* the document's class
    out,        \* ghost: the user has logged out
    crossing,   \* ghost: since then a session request of before is on its way ...
    revived,    \* ghost: ... or was the last to be answered, with the old user
    missed,     \* ghost: the system changed with no menu there
    clicks

auth == <<cookie, session, fetch, token, leaving, out, crossing, revived>>
look == <<stored, systemDark, theme, dark, missed>>
vars == <<auth, route, open, look, clicks>>

Click == clicks < MaxClicks /\ clicks' = clicks + 1
Nobody == {"none", "failed"}         \* data is null, or undefined

----------------------------------------------------------------------------
resolveTheme(t, sys) == IF t = "system" THEN sys ELSE t = "dark"

(* The redirects of the routes, with the session there is.                  *)
Redirect(r, s) ==
    IF s = "loading" THEN r
    ELSE IF s \in Nobody THEN "login"
    ELSE IF r = "login" \/ (r = "admin" /\ s # "admin") THEN "my-settings"
    ELSE r

(* A sidebar with its menu is there on every page but the login page.       *)
HasMenu(r, s) == s \in {"user", "admin"} /\ r # "login"

(* Mounting the menu reads the theme and applies it.                        *)
Render(r, s) ==
    LET to == Redirect(r, s) IN
    /\ route' = to
    /\ IF HasMenu(to, s)
         THEN /\ theme' = IF theme = "unmounted" THEN stored ELSE theme
              /\ dark' = IF theme = "unmounted" THEN resolveTheme(stored, systemDark) ELSE dark
              /\ missed' = IF theme = "unmounted" THEN FALSE ELSE missed
         ELSE theme' = "unmounted" /\ UNCHANGED <<dark, missed>>

(* themeInitScript, before anything is rendered.                            *)
Init ==
    /\ cookie \in {"none", "user", "admin"} /\ session = "loading" /\ fetch = "asked" /\ token = cookie
    /\ route \in {"login", "agents", "my-settings", "admin"}
    /\ open = FALSE /\ leaving = FALSE
    /\ stored \in Themes /\ systemDark \in BOOLEAN
    /\ theme = "unmounted" /\ dark = resolveTheme(stored, systemDark)
    /\ out = FALSE /\ crossing = FALSE /\ revived = FALSE /\ missed = FALSE /\ clicks = 0

(* useSession: a 401, which an expired cookie gets too, is answered by null. *)
Answer ==
    /\ fetch = "asked"
    /\ fetch' = token \/ (cookie = "none" /\ fetch' = "none")
    /\ UNCHANGED <<cookie, session, token, route, open, leaving, look, out, crossing, revived, clicks>>

AnswerFails ==
    /\ Click /\ fetch = "asked" /\ fetch' = "failed"
    /\ UNCHANGED <<cookie, session, token, route, open, leaving, look, out, crossing, revived>>

(* A failure is not tried again, and keeps the data there are.              *)
Apply ==
    LET new == IF fetch = "failed" /\ session # "loading" THEN session ELSE fetch IN
    /\ fetch \notin {"idle", "asked"}
    /\ session' = new /\ fetch' = "idle" /\ token' = "none"
    /\ Render(route, new)
    /\ open' = (open /\ HasMenu(route', new))
    /\ crossing' = FALSE
    /\ revived' = IF fetch = "failed" THEN revived ELSE crossing /\ fetch # "none"
    /\ UNCHANGED <<cookie, leaving, stored, systemDark, out, clicks>>

(* A page is mounted when the session is a minute old, or without data.     *)
Refetch ==
    /\ fetch = "idle" /\ session # "loading"
    /\ fetch' = "asked" /\ token' = cookie
    /\ session' = IF session = "failed" THEN "loading" ELSE session
    /\ UNCHANGED <<cookie, route, open, leaving, look, out, crossing, revived, clicks>>

(* The session runs out on the server.                                      *)
Expires ==
    /\ Click /\ cookie # "none" /\ cookie' = "none"
    /\ UNCHANGED <<session, fetch, token, route, open, leaving, look, out, crossing, revived>>

(* The login page leads to the server and from there to a new page.         *)
SignIn(who) ==
    /\ Click /\ route = "login" /\ session \in Nobody /\ ~leaving
    /\ cookie' = who /\ session' = "loading" /\ fetch' = "asked" /\ token' = who
    /\ out' = FALSE /\ crossing' = FALSE /\ revived' = FALSE
    /\ UNCHANGED <<route, open, leaving, look>>

Visit(r) ==
    /\ Click /\ session \in {"user", "admin"} /\ r # route
    /\ Render(r, session)
    /\ open' = FALSE
    /\ UNCHANGED <<auth, stored, systemDark>>

ToggleMenu ==
    /\ Click /\ theme # "unmounted"
    /\ open' = ~open
    /\ UNCHANGED <<auth, route, look>>

(* What the open menu offers: themes, the settings and the way out.         *)
MenuItems == open

(* onLogout of the menu and handleLogout of the settings page: the request, *)
(* and, once answered, the cache and the route.  The answer deletes the     *)
(* cookie.                                                                  *)
onLogout ==
    /\ Click /\ ~leaving
    /\ MenuItems \/ (route = "my-settings" /\ theme # "unmounted")
    /\ open' = FALSE
    /\ leaving' = TRUE
    /\ UNCHANGED <<cookie, session, fetch, token, route, look, out, crossing, revived>>

(* Mutant: the session is left in the cache.                                *)
MutLoggedOut ==
    /\ leaving
    /\ leaving' = FALSE /\ cookie' = "none"
    /\ Render("login", session)
    /\ open' = FALSE
    /\ out' = TRUE /\ crossing' = (fetch # "idle") /\ revived' = FALSE
    /\ UNCHANGED <<session, fetch, token, stored, systemDark, clicks>>

LoggedOut ==
    /\ leaving
    /\ leaving' = FALSE /\ cookie' = "none"
    /\ session' = "none"
    /\ Render("login", "none")
    /\ open' = FALSE
    /\ out' = TRUE /\ crossing' = (fetch # "idle") /\ revived' = FALSE
    /\ UNCHANGED <<fetch, token, stored, systemDark, clicks>>

(* It fails, or only the body of its answer does, and the page stays as it  *)
(* was: the handler has no catch.                                           *)
LogoutFails ==
    /\ Click /\ leaving
    /\ leaving' = FALSE
    /\ cookie' \in {cookie, "none"}
    /\ UNCHANGED <<session, fetch, token, route, open, look, out, crossing, revived>>

----------------------------------------------------------------------------
(* setTheme, from the menu.                                                 *)
setTheme(t) ==
    /\ Click /\ MenuItems
    /\ stored' = t /\ theme' = t
    /\ dark' = resolveTheme(t, systemDark)
    /\ UNCHANGED <<auth, route, open, systemDark, missed>>

(* Mutant: the listener looks at the theme of the first render.             *)
MutSystemChanges ==
    /\ Click /\ systemDark' = ~systemDark
    /\ dark' = IF theme # "unmounted" THEN systemDark' ELSE dark
    /\ missed' = (missed \/ theme = "unmounted")
    /\ UNCHANGED <<auth, route, open, stored, theme>>

(* The system's preference changes: the listener of a mounted menu follows, *)
(* if the theme of its ref is the system's.                                 *)
SystemChanges ==
    /\ Click /\ systemDark' = ~systemDark
    /\ dark' = IF theme = "system" THEN systemDark' ELSE dark
    /\ missed' = (missed \/ theme = "unmounted")
    /\ UNCHANGED <<auth, route, open, stored, theme>>

Next ==
    \/ Answer \/ AnswerFails \/ Apply \/ Refetch \/ Expires
    \/ ToggleMenu \/ onLogout \/ LoggedOut \/ LogoutFails \/ SystemChanges
    \/ \E who \in {"user", "admin"} : SignIn(who)
    \/ \E r \in {"agents", "my-settings", "admin", "login"} : Visit(r)
    \/ \E t \in Themes : setTheme(t)

Spec == Init /\ [][Next]_vars

----------------------------------------------------------------------------
(* The types; a menu is open only where there is one.                       *)
Who == {"none", "user", "admin"}
TypeOK ==
    /\ cookie \in Who /\ token \in Who /\ session \in Who \cup {"loading", "failed"}
    /\ fetch \in Who \cup {"idle", "asked", "failed"}
    /\ route \in {"login", "agents", "my-settings", "admin"}
    /\ stored \in Themes /\ theme \in Themes \cup {"unmounted"}
    /\ (open => theme # "unmounted") /\ clicks \in 0..MaxClicks

(* A logout that was answered leads to the login page, and no redirect,     *)
(* refetch, failure or click leads away from it before the next sign-in.    *)
(* The exception is the answer to a session request that was sent before    *)
(* the logout was answered: it replaces the null that the logout put into   *)
(* the cache, and the old user stays on the pages until the next session    *)
(* request is answered.                                                     *)
SignedOutStaysOut == out /\ ~revived => route = "login"

(* The document shows the stored theme, resolved by the system's            *)
(* preference, through any changes of either, of pages and of users; unless *)
(* the system changed while no menu was there to notice.                    *)
ThemeShown == ~missed => dark = resolveTheme(stored, systemDark)

----------------------------------------------------------------------------
(* Why the two hold.  After a logout only a request of before can have an   *)
(* answer that names a user: the cookie is gone, so one sent later is       *)
(* answered by null, whatever the page is.  A mounted menu has the stored   *)
(* theme.                                                                   *)
NothingComesBack ==
    out => /\ cookie = "none"
           /\ ~crossing => token = "none" /\ fetch \in {"idle", "asked", "none", "failed"}
           /\ session # "loading" /\ session # "failed"
           /\ ~revived => session = "none" /\ route = "login"
MenuHasStored == theme # "unmounted" => theme = stored

Flags ==
    /\ open \in BOOLEAN /\ systemDark \in BOOLEAN /\ dark \in BOOLEAN
    /\ leaving \in BOOLEAN /\ out \in BOOLEAN /\ crossing \in BOOLEAN /\ revived \in BOOLEAN /\ missed \in BOOLEAN
    /\ fetch = "idle" => token = "none"

Inv ==
    /\ TypeOK /\ Flags
    /\ NothingComesBack /\ MenuHasStored /\ ThemeShown

=============================================================================
