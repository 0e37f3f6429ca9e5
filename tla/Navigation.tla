------------------------------ MODULE Navigation ------------------------------
(***************************************************************************)
(* Where a browser ends up: the middleware, the guards of the dashboard's  *)
(* shell and the login and register pages send it from one address to      *)
(* another until a page stays.  The middleware sees the session cookie,    *)
(* the pages see the session in the browser's storage; signing in writes   *)
(* both, but a cookie expires on its own.                                  *)
(*                                                                         *)
(* lib/auth and lib/access-control, the storage and the roles of each      *)
(* path, are not part of the repository and are external.                  *)
(*                                                                         *)
(* The operators named Bug... are faulty variants of definitions after     *)
(* them; no specification uses them.                                       *)
(***************************************************************************)
CONSTANTS
    Paths,          \* addresses that the user may ask for
    RolesForPath,   \* the roles of the paths that are restricted
    RedirectOf,     \* legacy and doubled addresses, and what they stand for
    NoSession

WorkspaceRole == {"OWNER", "ADMIN", "STAFF", "DELIVERY_MANAGER", "VIEWER"}
AuthRoute == {"/login", "/register"}
Unauthorized == "/dashboard/unauthorized"
Home == "/dashboard"

ASSUME NavigationAssumption ==
    /\ DOMAIN RolesForPath \subseteq Paths \ {Unauthorized}
    /\ \A p \in DOMAIN RolesForPath : RolesForPath[p] \subseteq WorkspaceRole
    /\ DOMAIN RedirectOf \subseteq Paths \ (AuthRoute \cup {Home, Unauthorized, "/"})
    /\ \A p \in DOMAIN RedirectOf :
           RedirectOf[p] \in Paths \ (AuthRoute \cup {"/"} \cup DOMAIN RedirectOf)
    /\ AuthRoute \cup {Home, Unauthorized, "/"} \subseteq Paths
    /\ NoSession \notin WorkspaceRole \cup {"unreadable"} \cup Paths

VARIABLES
    at,         \* the address, its next parameter, and who has to act
    stored,     \* the role of the session in the browser's storage
    cookie,     \* the role in the session cookie
    wanted      \* the page that the user asked for

navVars == <<at, stored, cookie, wanted>>

NoNext == NoSession
Session == WorkspaceRole \cup {NoSession, "unreadable"}

NavigationTypeOK ==
    /\ at \in [path : Paths, next : Paths \cup {NoNext},
               phase : {"middleware", "page", "settled"}]
    /\ stored \in Session /\ cookie \in Session
    /\ wanted \in Paths

(* A new browser, or one that has a cookie whose role cannot be read.      *)
NavigationInit ==
    /\ at = [path |-> "/login", next |-> NoNext, phase |-> "middleware"]
    /\ stored = NoSession
    /\ cookie \in {NoSession, "unreadable"}
    /\ wanted = Home

-----------------------------------------------------------------------------

Protected(path) == path \notin AuthRoute \cup DOMAIN RedirectOf \cup {"/"}
Restricted(path) == path \in DOMAIN RolesForPath
Redirects(path, next) ==
    at' = [path |-> path, next |-> next, phase |-> "middleware"]
Stays(phase) == at' = [at EXCEPT !.phase = phase]
Destination(next) == IF next = NoNext THEN Home ELSE next

BugNextDropped(path) == Redirects("/login", Home)

SignIn(path) == Redirects("/login", path)

BugRefusedSignsIn(path) == SignIn(path)

Refuse(path) == Redirects(Unauthorized, NoNext)

(* middleware(): one redirect, or the page is served. *)
Middleware ==
    /\ at.phase = "middleware"
    /\ \/ /\ at.path = "/"
          /\ IF cookie # NoSession THEN Redirects(Home, NoNext) ELSE SignIn(Home)
       \/ /\ at.path \in DOMAIN RedirectOf
          /\ Redirects(RedirectOf[at.path], NoNext)
       \/ /\ Protected(at.path)
          /\ IF cookie = NoSession \/ (Restricted(at.path) /\ cookie = "unreadable")
             THEN SignIn(at.path)
             ELSE IF Restricted(at.path) /\ cookie \notin RolesForPath[at.path]
             THEN Refuse(at.path)
             ELSE Stays("page")
       \/ /\ at.path \in AuthRoute
          /\ IF cookie # NoSession THEN Redirects(Destination(at.next), NoNext)
             ELSE Stays("page")
    /\ UNCHANGED <<stored, cookie, wanted>>

(* The effects of LoginPage and of RegisterPage: a stored session goes on. *)
AuthPage ==
    /\ at.phase = "page" /\ at.path \in AuthRoute
    /\ IF stored # NoSession THEN Redirects(Destination(at.next), NoNext)
       ELSE Stays("settled")
    /\ UNCHANGED <<stored, cookie, wanted>>

(* The effects of DashboardShell and of useRouteAccessGuard. *)
ShellPage ==
    /\ at.phase = "page" /\ Protected(at.path)
    /\ IF stored = NoSession THEN SignIn(at.path)
       ELSE IF Restricted(at.path) /\ stored \notin RolesForPath[at.path]
       THEN Refuse(at.path)
       ELSE Stays("settled")
    /\ UNCHANGED <<stored, cookie, wanted>>

(* onSubmit of the two pages: both copies of the session are written.      *)
Submit ==
    /\ at.phase = "settled" /\ at.path \in AuthRoute
    /\ \E role \in WorkspaceRole : stored' = role /\ cookie' = role
    /\ Redirects(Destination(at.next), NoNext)
    /\ UNCHANGED wanted

-----------------------------------------------------------------------------
(* The user and the browser *)

Canonical(path) == IF path \in DOMAIN RedirectOf THEN RedirectOf[path]
                   ELSE IF path = "/" THEN Home ELSE path
Visit ==
    /\ at.phase = "settled"
    /\ \E path \in Paths, next \in (Paths \ AuthRoute) \cup {NoNext} :
           /\ next # NoNext => path \in AuthRoute
           /\ Redirects(path, next)
           /\ wanted' = Canonical(IF path \in AuthRoute THEN Destination(next) ELSE path)
    /\ UNCHANGED <<stored, cookie>>
Logout ==
    /\ at.phase = "settled"
    /\ stored' = NoSession /\ cookie' = NoSession
    /\ UNCHANGED <<at, wanted>>
CookieExpires ==
    /\ cookie' = NoSession
    /\ UNCHANGED <<at, stored, wanted>>

NavStep == Middleware \/ AuthPage \/ ShellPage
NavNext == NavStep \/ Submit \/ Visit \/ Logout \/ CookieExpires
NavSpec == NavigationInit /\ [][NavNext]_navVars
(* Next.js runs the middleware and the effects of a page that is shown.    *)
NavFairSpec == NavSpec /\ WF_navVars(NavStep)

-----------------------------------------------------------------------------

(* As long as the cookie and the stored session say the same, and the      *)
(* cookie can be read, no redirects of the middleware and of the pages     *)
(* chase each other (middleware.ts:48-116, DashboardShell.tsx:24-31,       *)
(* useRouteAccessGuard.ts:13-32, login/page.tsx:69-73).                    *)
SessionsAgree == cookie = stored /\ cookie # "unreadable"
RedirectsEnd == at.phase = "middleware" ~> (at.phase = "settled" \/ ~SessionsAgree)

(* A dashboard page that stays is the one that was asked for, through the  *)
(* legacy addresses, the login page and its next parameter; or it says     *)
(* that the role is not allowed there (middleware.ts:52-110).              *)
ArrivesWhereAsked ==
    at.phase = "settled" /\ Protected(at.path) =>
        \/ at.path = wanted
        \/ at.path = Unauthorized /\ Restricted(wanted)
===============================================================================
