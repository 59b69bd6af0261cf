---------------------------- MODULE AdminAccess ----------------------------
(***************************************************************************)
(* Who gets at the admin panel: the configuration a process was started    *)
(* with (Configuration), the checks of internal/admin/admin.go, and one    *)
(* browser with its tabs, from the URL with ?token= to the calls of the    *)
(* embedded page (internal/admin/static/app.js), while the operator edits  *)
(* the configuration, rotates the token and restarts.                      *)
(*                                                                         *)
(* The browser's rules are external: a cookie is shared by its tabs, a     *)
(* sessionStorage belongs to one, and an address is kept until it changes. *)
(***************************************************************************)
EXTENDS Configuration

CONSTANTS Tabs,         \* tabs of the browser
          FileChoices,  \* what the operator may write
          EnvChoices,   \* what the operator may export
          MaxBoots      \* bound: processes

ASSUME ChoicesAssumption == FileChoices \subseteq Files /\ EnvChoices \subseteq Envs
ASSUME MaxBootsAssumption == MaxBoots \in Nat

VARIABLES file, env,    \* as the operator left them
          boots,        \* processes so far
          process,      \* "down", "refused", "up", "panicked"
          started,      \* what the process was started with
          cookie,       \* bragent_admin_token
          url,          \* the token in the address of a tab
          stored,       \* bragent.admin.token in its sessionStorage
          page,         \* what it shows
          last,         \* the last request of the browser
          (* Not of the code.                                              *)
          told,         \* the tokens somebody typed into this browser
          authed        \* it was let in with the token now in force

config     == <<file, env, boots, process, started>>
browser    == <<cookie, url, stored, page, told, authed, last>>
accessVars == <<config, browser>>

running == Load(started.file, started.env)
Token   == running.token

NoRequest == [accepted |-> FALSE, knew |-> FALSE, authed |-> FALSE]
Pages     == {"none", "refused", "html", "panel", "asks for a token"}

AccessTypeOK ==
    /\ file \in FileChoices /\ env \in EnvChoices
    /\ boots \in 0 .. MaxBoots
    /\ process \in {"down", "refused", "up", "panicked"}
    /\ started \in [file : FileChoices, env : EnvChoices]
    /\ cookie \in Tokens \cup {Empty}
    /\ url \in [Tabs -> Tokens \cup {Empty}] /\ stored \in [Tabs -> Tokens \cup {Empty}]
    /\ page \in [Tabs -> Pages]
    /\ \A t \in Tabs : page[t] = "panel" => stored[t] # Empty /\ url[t] = Empty
    /\ told \subseteq Tokens /\ authed \in BOOLEAN
    /\ last \in [accepted : BOOLEAN, knew : BOOLEAN, authed : BOOLEAN]

ClosedTabs == /\ url' = [t \in Tabs |-> Empty]
              /\ stored' = [t \in Tabs |-> Empty]
              /\ page' = [t \in Tabs |-> "none"]

AccessInit ==
    /\ file \in FileChoices /\ env \in EnvChoices
    /\ boots = 0 /\ process = "down"
    /\ started = [file |-> file, env |-> env]
    /\ cookie = Empty /\ told = {} /\ authed = FALSE
    /\ url = [t \in Tabs |-> Empty] /\ stored = [t \in Tabs |-> Empty]
    /\ page = [t \in Tabs |-> "none"]
    /\ last = NoRequest

-----------------------------------------------------------------------------
Edit ==
    /\ file' \in FileChoices /\ env' \in EnvChoices
    /\ UNCHANGED <<boots, process, started, browser>>

(* Requests in flight end with the process they were sent to.              *)
Restart ==
    /\ boots < MaxBoots
    /\ boots' = boots + 1
    /\ started' = [file |-> file, env |-> env]
    /\ process' = IF Boots(running') THEN "up" ELSE "refused"
    /\ authed' = (authed /\ running'.admin /\ Token' = Token)
    /\ UNCHANGED <<file, env, cookie, url, stored, page, told, last>>

(* time.NewTicker of an interval that is not positive.                     *)
RefreshLoop ==
    /\ process = "up" /\ running.interval = "not positive"
    /\ process' = "panicked"
    /\ UNCHANGED <<file, env, boots, started, browser>>

-----------------------------------------------------------------------------
(* Deliberately wrong: a browser that has a cookie was let in before.      *)
AuthorisedByCookie(header, query) == Token # Empty /\ (Token \in {header, query} \/ cookie # Empty)

Authorised(header, query) ==
    /\ Token # Empty
    /\ Token \in {header, cookie, query}

(* Deliberately wrong: set the cookie only when there is none.             *)
CookieOnce(ok) == IF ok /\ cookie = Empty THEN Token ELSE cookie

(* Deliberately wrong: set the cookie before the check.                    *)
CookieFirst(ok) == Token

EnsureCookie(ok) == IF ok THEN Token ELSE cookie

(* A request to /admin: where it is not mounted there is nothing.          *)
Serving == process = "up" /\ running.admin

Request(header, query) ==
    /\ Serving
    /\ last' = [accepted |-> Authorised(header, query),
                knew     |-> Token \in told \cup {query},
                authed   |-> authed]
    /\ cookie' = EnsureCookie(last'.accepted)

(* GET /admin/, with ?token= or without: a new address in a tab.           *)
Open(t, token) ==
    /\ Request(Empty, token)
    /\ url' = [url EXCEPT ![t] = token]
    /\ page' = [page EXCEPT ![t] = IF last'.accepted THEN "html" ELSE "refused"]
    /\ told' = told \cup ({token} \ {Empty})
    /\ authed' = (authed \/ token = Token)
    /\ UNCHANGED <<config, stored>>

Reload(t) ==
    /\ page[t] # "none"
    /\ Request(Empty, url[t])
    /\ page' = [page EXCEPT ![t] = IF last'.accepted THEN "html" ELSE "refused"]
    /\ authed' = (authed \/ url[t] = Token)
    /\ UNCHANGED <<config, url, stored, told>>

(* Deliberately wrong: app.js goes on without a token.                     *)
Shows(token) == "panel"

Panel(token) == IF token = Empty THEN "asks for a token" ELSE "panel"

(* app.js, fetched with the cookie alone: it moves the token from the      *)
(* address into the sessionStorage, and goes on with what is there.        *)
Script(t) ==
    LET token == IF url[t] # Empty THEN url[t] ELSE stored[t]
    IN /\ page[t] = "html"
       /\ Request(Empty, Empty)
       /\ IF last'.accepted
          THEN /\ stored' = [stored EXCEPT ![t] = token]
               /\ url' = [url EXCEPT ![t] = Empty]
               /\ page' = [page EXCEPT ![t] = Panel(token)]
          ELSE UNCHANGED <<url, stored, page>>
       /\ UNCHANGED <<config, told, authed>>

(* A call of the panel: products, preview chat, audit.                     *)
Api(t) ==
    /\ page[t] = "panel"
    /\ Request(stored[t], Empty)
    /\ UNCHANGED <<config, url, stored, page, told, authed>>

CloseTab(t) ==
    /\ url' = [url EXCEPT ![t] = Empty]
    /\ stored' = [stored EXCEPT ![t] = Empty]
    /\ page' = [page EXCEPT ![t] = "none"]
    /\ UNCHANGED <<config, cookie, told, authed, last>>

(* The cookie has no MaxAge.                                               *)
CloseBrowser ==
    /\ ClosedTabs
    /\ cookie' = Empty /\ told' = {} /\ authed' = FALSE
    /\ last' = NoRequest
    /\ UNCHANGED config

AccessNext ==
    \/ Edit \/ Restart \/ RefreshLoop
    \/ \E t \in Tabs :
          \/ \E token \in Tokens \cup {Empty} : Open(t, token)
          \/ Reload(t) \/ Script(t) \/ Api(t) \/ CloseTab(t)
    \/ CloseBrowser

AccessSpec == AccessInit /\ [][AccessNext]_accessVars

-----------------------------------------------------------------------------
(***************************************************************************)
(* Properties.                                                             *)
(***************************************************************************)

(* admin.go:94-106, config.go:34-36: nobody gets in who was not told the   *)
(* token in force: not with an empty one, not with the one before it was   *)
(* rotated, and not for something a refused request left behind.           *)
OnlyTheTold == last.accepted => last.knew

(* admin.go:98-103, deployment.md:308-311: once a browser was let in with  *)
(* a token, every reload, script and call of any of its tabs is, until the *)
(* token is rotated; and the new token puts everything right at once.      *)
StaysIn == last.authed => last.accepted

(* Both sides of the door.                                                 *)
PanelIsGuarded == AccessTypeOK /\ OnlyTheTold /\ StaysIn

-----------------------------------------------------------------------------
(* What comments of the source say and the code does not keep.             *)

(* admin.go:101-103: "one-time URL bootstrap ... the cookie inherits the   *)
(* auth for everything afterward".  A second tab gets the page and then    *)
(* asks for the token, which app.js looks for in the tab's own storage.    *)
OneBootstrap == \A t \in Tabs : page[t] = "asks for a token" => ~authed

(* config.go:122-126: the environment overrides "sensitive or environment- *)
(* specific TOML values" unless "Set-but-empty".  The demo is not turned   *)
(* off by BRAGENT_DEMO_ENABLED=false.                                      *)
DemoFollowsEnv ==
    process = "up" /\ started.env.demo # "" => (running.demo <=> started.env.demo = "true")

(* config.go:194-197: the disclosure's timing is validated "on emission so *)
(* config typos surface at boot ... rather than silently producing invalid *)
(* envelopes".  Nothing validates it.                                      *)
TyposSurface == process = "up" => running.timing = "in the enum"

(* config.go:1: the package "loads and validates" the configuration.  An   *)
(* interval of 0s gets through, and ends the process with a panic.         *)
ValidatedRuns == process # "panicked"
=============================================================================
