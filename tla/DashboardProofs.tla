-------------------------- MODULE DashboardProofs ---------------------------
(***************************************************************************)
(* The page and the browser's cache only read: behind them the server      *)
(* behaves as OverviewCache, so what is proved of it holds of the          *)
(* composition, and the page shows nothing that did not happen.            *)
(***************************************************************************)
EXTENDS Dashboard, OverviewCacheProofs

\* Reading the overview again asks the server, or leaves it alone.
LEMMA ReloadServer ==
  ASSUME NEW r \in Readers, NEW shown, Reload(r, shown)
  PROVE  Get(r) \/ UNCHANGED server
BY DEF Reload, FromServer, FromBrowser, FromBrowserRevalidating

\* What it puts on the page: what it already shows, or the browser's copy.
LEMMA ReloadPage ==
  ASSUME NEW r \in Readers, NEW shown, Reload(r, shown)
  PROVE  (page' = shown \/ page' = Listed(http.shows)) /\ UNCHANGED http
BY DEF Reload, FromServer, FromBrowser, FromBrowserRevalidating

\* A step of the composition is a step of the server, or leaves it alone.
LEMMA ServerStep ==
  ASSUME [PageNext]_dashboard
  PROVE  [Next]_vars
<1>1. CASE \E r \in Readers : Load(r)
  BY <1>1, ReloadServer DEF Load, Next, server
<1>2. CASE \E r \in Readers : Arrive(r)
  BY <1>2 DEF Arrive, Next
<1>3. CASE \E m \in Mutations : ConfirmCreation(m)
  BY <1>3 DEF ConfirmCreation, server
<1>4. CASE GrowsOld
  BY <1>4 DEF GrowsOld, server
<1>5. CASE Serve
  BY <1>5 DEF Serve, Next
<1>6. CASE UNCHANGED dashboard
  BY <1>6 DEF dashboard
<1>7. CASE \E m \in Mutations, r \in Readers : ConfirmRemoval(m, r)
  BY <1>7, ReloadServer DEF ConfirmRemoval, Next, server
<1>8. CASE \E m \in Mutations, r \in Readers : ConfirmPortChange(m, r)
  BY <1>8, ReloadServer DEF ConfirmPortChange, Next, server
<1>9. QED
  BY <1>1, <1>2, <1>3, <1>4, <1>5, <1>6, <1>7, <1>8 DEF PageNext

\* The page and the browser's cache do not change how the server behaves.
THEOREM ServerTheorem == PageSpec => Spec
<1>1. PageInit => Init
  BY DEF PageInit
<1>2. QED
  BY <1>1, ServerStep, PTL DEF PageSpec, Spec

-----------------------------------------------------------------------------
\* A step of the server adds to what is made, and keeps its copies honest.
LEMMA ServerHonest ==
  ASSUME DashboardInv, [Next]_vars
  PROVE  /\ made \subseteq made' /\ acked \subseteq acked'
         /\ cache'.shows \subseteq made'
         /\ \A b \in Builds : begun'[b].shows \subseteq made'
         /\ \A r \in Readers : reader'[r].got \subseteq made'
<1>1. CASE \E r \in Readers : Get(r)
  <2>1. PICK r \in Readers : Get(r)
    BY <1>1
  <2>2. \A b \in Builds : begun'[b].shows \subseteq made
    BY <2>1 DEF Get, GetMiss, GetHit, GetStale, Refresh, DashboardInv, CacheInv, TypeOK
  <2>3. \A q \in Readers : reader'[q].got \subseteq made
    BY <2>1 DEF Get, GetMiss, GetHit, GetStale, Given, DashboardInv, CacheInv, TypeOK
  <2>4. QED
    BY <2>1, <2>2, <2>3 DEF Get, mutations, DashboardInv
<1>2. CASE \E r \in Readers : Leave(r)
  <2>1. PICK r \in Readers : Leave(r)
    BY <1>2
  <2>2. \A q \in Readers : reader'[q].got \subseteq made
    BY <2>1 DEF Leave, NoReader, DashboardInv, CacheInv, TypeOK
  <2>3. QED
    BY <2>1, <2>2 DEF Leave, mutations, DashboardInv
<1>3. CASE \E b \in Builds : BuildSucceeds(b)
  <2>1. PICK b \in Builds : BuildSucceeds(b)
    BY <1>3
  <2>2. \A a \in Builds : begun'[a].shows \subseteq made
    BY <2>1 DEF BuildSucceeds, Settled, NotBegun, DashboardInv, CacheInv, TypeOK
  <2>3. \A q \in Readers : reader'[q].got \subseteq made
    BY <2>1 DEF BuildSucceeds, DashboardInv, CacheInv, TypeOK
  <2>4. cache'.shows \subseteq made
    BY <2>1 DEF BuildSucceeds, Store, DashboardInv
  <2>5. QED
    BY <2>1, <2>2, <2>3, <2>4 DEF BuildSucceeds, mutations
<1>4. CASE \E b \in Builds : BuildFails(b)
  <2>1. PICK b \in Builds : BuildFails(b)
    BY <1>4
  <2>2. \A a \in Builds : begun'[a].shows \subseteq made
    BY <2>1 DEF BuildFails, Settled, NotBegun, DashboardInv, CacheInv, TypeOK
  <2>3. \A q \in Readers : reader'[q].got \subseteq made
    BY <2>1 DEF BuildFails, NoReader, DashboardInv
  <2>4. QED
    BY <2>1, <2>2, <2>3 DEF BuildFails, mutations, DashboardInv
<1>5. CASE Expire
  BY <1>5 DEF Expire, mutations, DashboardInv, CacheInv, TypeOK
<1>6. CASE \E m \in Mutations : Change(m) \/ Refuse(m)
  BY <1>6 DEF Change, Refuse, DashboardInv
<1>7. CASE \E m \in Mutations : Acknowledge(m)
  BY <1>7 DEF Acknowledge, Invalidate, NoCache, DashboardInv
<1>8. CASE UNCHANGED vars
  BY <1>8 DEF vars, mutations, DashboardInv
<1>9. QED
  BY <1>1, <1>2, <1>3, <1>4, <1>5, <1>6, <1>7, <1>8 DEF Next

\* An overview that is honest puts an honest page up.
LEMMA ListedHonest ==
  ASSUME NEW overview \in SUBSET made', page' = Listed(overview)
  PROVE  PageHonest'
BY DEF Listed, PageHonest

\* What the page already shows stays honest.
LEMMA KeptHonest ==
  ASSUME PageHonest, made \subseteq made', told \subseteq told', page' = page
  PROVE  PageHonest'
BY DEF PageHonest

\* A change answered the first time is listed at most twice, and only a
\* creation that often.
LEMMA EditedHonest ==
  ASSUME PageHonest, made \subseteq made', NEW m \in Mutations \ told, m \in made,
         told' = told \cup {m},
         NEW count \in 0 .. 2, count = 2 => m \in Creations,
         page' = [page EXCEPT ![m] = count]
  PROVE  PageHonest'
BY DEF PageHonest

LEMMA DashboardStep ==
  ASSUME DashboardInv, [PageNext]_dashboard
  PROVE  DashboardInv'
<1>1. [Next]_vars
  BY ServerStep
<1>2. /\ made \subseteq made' /\ acked \subseteq acked'
      /\ cache'.shows \subseteq made'
      /\ \A b \in Builds : begun'[b].shows \subseteq made'
      /\ \A r \in Readers : reader'[r].got \subseteq made'
  BY <1>1, ServerHonest
<1>3. CacheInv'
  BY <1>1, NextCacheInv DEF DashboardInv
<1>4. SUFFICES /\ http' \in [age : {"none", "fresh", "stale"}, shows : SUBSET made']
               /\ told' \subseteq acked'
               /\ PageHonest'
  BY <1>2, <1>3 DEF DashboardInv
<1>5. ASSUME NEW r \in Readers, Load(r)
      PROVE  /\ http' \in [age : {"none", "fresh", "stale"}, shows : SUBSET made']
             /\ told' \subseteq acked'
             /\ PageHonest'
  <2>1. UNCHANGED <<http, told>> /\ (page' = page \/ page' = Listed(http.shows))
    BY <1>5, ReloadPage DEF Load
  <2>2. PageHonest'
    BY <1>2, <2>1, ListedHonest, KeptHonest DEF DashboardInv
  <2>3. QED
    BY <1>2, <2>1, <2>2 DEF DashboardInv
<1>6. ASSUME NEW r \in Readers, Arrive(r)
      PROVE  /\ http' \in [age : {"none", "fresh", "stale"}, shows : SUBSET made']
             /\ told' \subseteq acked'
             /\ PageHonest'
  <2>1. reader[r].got \in SUBSET made'
    BY <1>2 DEF DashboardInv
  <2>2. PageHonest'
    BY <1>2, <1>6, <2>1, ListedHonest, KeptHonest DEF Arrive, DashboardInv
  <2>3. QED
    BY <1>2, <1>6, <2>1, <2>2 DEF Arrive, DashboardInv
<1>7. ASSUME NEW m \in Mutations,
             \/ ConfirmCreation(m)
             \/ \E r \in Readers : ConfirmRemoval(m, r) \/ ConfirmPortChange(m, r)
      PROVE  /\ http' \in [age : {"none", "fresh", "stale"}, shows : SUBSET made']
             /\ told' \subseteq acked'
             /\ PageHonest'
  <2>1. Answered(m)
    BY <1>7 DEF ConfirmCreation, ConfirmRemoval, ConfirmPortChange
  <2>2. /\ m \in made /\ m \notin told /\ told' = told \cup {m}
        /\ told' \subseteq acked' /\ told \subseteq told'
        /\ page[m] \in 0 .. 1
    BY <1>2, <2>1 DEF Answered, DashboardInv, CacheInv, TypeOK, PageHonest
  <2>3. UNCHANGED http /\ http.shows \in SUBSET made'
    BY <1>2, <1>7, ReloadPage
       DEF ConfirmCreation, ConfirmRemoval, ConfirmPortChange, DashboardInv
  <2>4. CASE ConfirmCreation(m)
    <3>1. /\ page' = [page EXCEPT ![m] = page[m] + 1] /\ m \in Creations
          /\ page[m] + 1 \in 0 .. 2
      BY <2>2, <2>4 DEF ConfirmCreation
    <3>2. QED
      BY <1>2, <2>2, <2>3, <3>1, EditedHonest DEF DashboardInv
  <2>5. CASE page' = [page EXCEPT ![m] = 1]
    <3>1. 1 \in 0 .. 2 /\ 1 # 2
      OBVIOUS
    <3>2. PageHonest'
      BY <1>2, <2>2, <2>5, <3>1, EditedHonest DEF DashboardInv
    <3>3. QED
      BY <2>2, <2>3, <3>2 DEF DashboardInv
  <2>6. CASE page' = page \/ page' = Listed(http.shows)
    BY <1>2, <2>2, <2>3, <2>6, ListedHonest, KeptHonest DEF DashboardInv
  <2>7. QED
    BY <1>7, <2>4, <2>5, <2>6, ReloadPage DEF ConfirmRemoval, ConfirmPortChange
<1>8. CASE GrowsOld
  BY <1>2, <1>8, KeptHonest DEF GrowsOld, NoCopy, DashboardInv
<1>9. CASE Serve
  BY <1>2, <1>9, KeptHonest DEF Serve, DashboardInv
<1>10. CASE UNCHANGED dashboard
  BY <1>2, <1>10, KeptHonest DEF dashboard, DashboardInv
<1>11. QED
  BY <1>5, <1>6, <1>7, <1>8, <1>9, <1>10 DEF PageNext

\* Nothing that did not happen is shown by the page, or held in any copy of an
\* overview, for any number of changes, requests and builds.
THEOREM DashboardInvariance == PageSpec => []DashboardInv
<1>1. PageInit => DashboardInv
  BY InitCacheInv
     DEF PageInit, Init, DashboardInv, PageHonest, NoCopy, NoCache, NotBegun, NoReader
<1>2. QED
  BY <1>1, DashboardStep, PTL DEF PageSpec

\* The page shows nothing that was not made, and nothing more than twice
\* (refresh, createTeam, disconnectTeam).
THEOREM HonestTheorem == PageSpec => []PageHonest
<1>1. DashboardInv => PageHonest
  BY DEF DashboardInv
<1>2. QED
  BY <1>1, DashboardInvariance, PTL

\* With the page among its readers, the server's shared build is still one that
\* has not settled (refreshOverview).
THEOREM ServedTyped == PageSpec => []TypeOK
<1>1. DashboardInv => TypeOK
  BY DEF DashboardInv, CacheInv
<1>2. QED
  BY <1>1, DashboardInvariance, PTL

\* Every answer the server sends the page shows what had been acknowledged when
\* the page asked: what the page misses, it misses by the browser's cache.
THEOREM ServedCurrent == PageSpec => []ReadYourWrites
<1>1. DashboardInv => ReadYourWrites
  BY DEF DashboardInv, CacheInv
<1>2. QED
  BY <1>1, DashboardInvariance, PTL
=============================================================================
