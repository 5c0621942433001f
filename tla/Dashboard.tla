----------------------------- MODULE Dashboard ------------------------------
(***************************************************************************)
(* The operator's page in front of GET /api/overview: the composition of   *)
(* the server's cache (OverviewCache), the browser's HTTP cache, and the   *)
(* page, which puts an overview in place of what it shows whenever one     *)
(* arrives.                                                                *)
(*                                                                         *)
(* The server allows the browser to keep its answer: for two seconds it is *)
(* used without asking, and for thirty more while a new one is fetched     *)
(* behind it.  Nothing in the page tells the browser not to.               *)
(*                                                                         *)
(* Every reader of OverviewCache is a request of this browser.  What the   *)
(* page shows of a change is how often: the team a creation adds may be    *)
(* listed twice.                                                           *)
(***************************************************************************)
EXTENDS OverviewCache

CONSTANTS
  Creations,   \* the mutations that create a team
  Removals,    \* that remove one
  PortChanges  \* that assign, return, bounce or set up a port

VARIABLES
  page,  \* data: how often each change is shown
  http,  \* the browser's copy of the last answer, and its age
  load,  \* what each request is for
  told   \* the mutations whose success the page was told of

server == vars
dashboard == <<vars, page, http, load, told>>

NoCopy == [age |-> "none", shows |-> {}]

\* The demo data and the demo mode are left out.
PageInit ==
  /\ Init
  /\ page = [m \in Mutations |-> 0]
  /\ http = NoCopy
  /\ load = [r \in Readers |-> "none"]
  /\ told = {}

-----------------------------------------------------------------------------
\* Mistake: the overview is added to what the page shows.
ListedBeside(overview) ==
  [m \in Mutations |-> IF m \in overview /\ page[m] = 0 THEN 1 ELSE page[m]]

\* getDashboard and setData: the overview replaces what the page showed.
Listed(overview) == [m \in Mutations |-> IF m \in overview THEN 1 ELSE 0]

\* The request goes to the server; until its answer the page shows `shown'.
FromServer(r, shown) ==
  /\ http.age # "fresh"
  /\ Get(r)
  /\ load' = [load EXCEPT ![r] = "page"]
  /\ page' = shown
  /\ UNCHANGED http

\* Within max-age the browser answers by itself.
FromBrowser ==
  /\ http.age = "fresh"
  /\ page' = Listed(http.shows)
  /\ UNCHANGED <<server, http, load>>

\* Within stale-while-revalidate it may, and fetches a new copy behind it,
\* which the page is not shown.
FromBrowserRevalidating(r) ==
  /\ http.age = "stale"
  /\ Get(r)
  /\ load' = [load EXCEPT ![r] = "revalidation"]
  /\ page' = Listed(http.shows)
  /\ UNCHANGED http

Reload(r, shown) ==
  FromServer(r, shown) \/ FromBrowser \/ FromBrowserRevalidating(r)

\* refresh: the page is opened, or the operator presses the button; requests
\* may overlap.
Load(r) == Reload(r, page) /\ UNCHANGED told

\* The answers arrive in any order.
Arrive(r) ==
  /\ Leave(r)
  /\ http' = [age |-> "fresh", shows |-> reader[r].got]
  /\ page' = IF load[r] = "page" THEN Listed(reader[r].got) ELSE page
  /\ load' = [load EXCEPT ![r] = "none"]
  /\ UNCHANGED told

GrowsOld ==
  /\ http.age # "none"
  /\ http' = IF http.age = "fresh" THEN [http EXCEPT !.age = "stale"] ELSE NoCopy
  /\ UNCHANGED <<server, page, load, told>>

(***************************************************************************)
(* The page is told, once, that a change of its own succeeded.             *)
(***************************************************************************)
\* Mistake: the page does not tell the answers it has handled from others.
AnsweredAgain(m) ==
  /\ m \in acked
  /\ told' = told \cup {m}

Answered(m) ==
  /\ m \in acked \ told
  /\ told' = told \cup {m}

\* createTeam appends the team, whether or not an overview has listed it
\* already, and reads nothing.
ConfirmCreation(m) ==
  /\ m \in Creations
  /\ Answered(m)
  /\ page' = [page EXCEPT ![m] = @ + 1]
  /\ UNCHANGED <<server, http, load>>

\* disconnectTeam filters the team out and reads the overview again.
ConfirmRemoval(m, r) ==
  /\ m \in Removals
  /\ Answered(m)
  /\ Reload(r, [page EXCEPT ![m] = 1])

\* The port's inspector only reads the overview again.
ConfirmPortChange(m, r) ==
  /\ m \in PortChanges
  /\ Answered(m)
  /\ Reload(r, page)

\* The server's own steps.  A request that failed leaves the page as it was,
\* and so does a refused change: the page shows an error beside it.
Serve ==
  /\ \/ \E b \in Builds : BuildSucceeds(b) \/ BuildFails(b)
     \/ Expire
     \/ \E m \in Mutations : Change(m) \/ Acknowledge(m) \/ Refuse(m)
  /\ load' = [r \in Readers |-> IF reader'[r].pc = "idle" THEN "none" ELSE load[r]]
  /\ UNCHANGED <<page, http, told>>

PageNext ==
  \/ \E r \in Readers : Load(r) \/ Arrive(r)
  \/ \E m \in Mutations :
       \/ ConfirmCreation(m)
       \/ \E r \in Readers : ConfirmRemoval(m, r) \/ ConfirmPortChange(m, r)
  \/ GrowsOld
  \/ Serve

PageSpec == PageInit /\ [][PageNext]_dashboard

\* Builds settle and time passes (FairSpec); answers sent arrive.
FairPageSpec ==
  /\ PageSpec
  /\ WF_dashboard(GrowsOld)
  /\ WF_dashboard(Serve /\ Expire)
  /\ \A b \in Builds : WF_dashboard(Serve /\ (BuildSucceeds(b) \/ BuildFails(b)))
  /\ \A r \in Readers : WF_dashboard(Arrive(r))

-----------------------------------------------------------------------------
\* The page shows nothing that did not happen: no change the server has not
\* made, and a team listed twice only once its creation was answered, the
\* first time by an overview that overtook that answer.
PageHonest ==
  /\ page \in [Mutations -> 0 .. 2]
  /\ \A m \in Mutations :
       /\ page[m] > 0 => m \in made
       /\ page[m] = 2 => m \in told \cap Creations

\* Nothing is on its way to the page.
Quiet == \A r \in Readers : reader[r].pc = "idle"

\* An overview read after a change shows it: with every answer handled, the
\* page shows the changes it was told of.
ShowsOwnChanges == Quiet => \A m \in told : page[m] > 0

KeepLoading == WF_dashboard(\E r \in Readers : Load(r))

\* Answers overtaken by older ones, old copies in two caches, teams listed
\* twice: while the operator refreshes, and builds succeed, the page comes to
\* show each change that was made, once.
PageCatchesUp ==
  KeepLoading /\ BuildsSucceed =>
    <>[](\A m \in Mutations : page[m] = IF m \in made THEN 1 ELSE 0)

-----------------------------------------------------------------------------
\* What every step preserves: no copy of an overview, wherever it is held,
\* shows what was not made.
DashboardInv ==
  /\ CacheInv
  /\ http \in [age : {"none", "fresh", "stale"}, shows : SUBSET made]
  /\ cache.shows \subseteq made
  /\ \A b \in Builds : begun[b].shows \subseteq made
  /\ \A r \in Readers : reader[r].got \subseteq made
  /\ told \subseteq acked
  /\ PageHonest
=============================================================================
