--------------------------- MODULE OverviewCache ---------------------------
(***************************************************************************)
(* GET /api/overview.  The answer is built from the database and every     *)
(* device, which takes many awaits, so it is cached for a while; an old    *)
(* one is still served while a new one is built in the background, and     *)
(* requests share the build under way.  A request that changes the field   *)
(* invalidates the cache before it is answered, if it succeeds.            *)
(*                                                                         *)
(* An overview stands for the set of changes it is sure to show: those     *)
(* made before its build began.  A build under way is a promise, and       *)
(* Builds are the identities of promises not settled yet.                  *)
(***************************************************************************)
EXTENDS Integers

CONSTANTS
  Mutations,   \* requests that change the field, each sent once
  Readers,     \* clients asking for the overview, one request at a time
  Builds,      \* builds under way; bounds how many there are at once
  NoBuild

ASSUME BuildAssumption == NoBuild \notin Builds

VARIABLES
  made,        \* the mutations whose changes are in the database and devices
  acked,       \* the mutations answered with success
  refused,     \* the mutations answered with an error
  cache,       \* overviewCache
  refresh,     \* overviewRefresh
  generation,  \* overviewGeneration
  running,     \* builds not settled yet
  begun,       \* their generation, and what they are sure to show
  reader       \* what each reader waits for or was last given

mutations == <<made, acked, refused>>
vars == <<mutations, cache, refresh, generation, running, begun, reader>>

NoCache == [held |-> FALSE, fresh |-> FALSE, shows |-> {}]

NotBegun == [generation |-> 0, shows |-> {}]

NoReader == [pc |-> "idle", build |-> NoBuild, floor |-> {}, got |-> {}]

Init ==
  /\ made = {} /\ acked = {} /\ refused = {}
  /\ cache = NoCache
  /\ refresh = NoBuild
  /\ generation = 0
  /\ running = {}
  /\ begun = [b \in Builds |-> NotBegun]
  /\ reader = [r \in Readers |-> NoReader]

(***************************************************************************)
(* Reading.                                                                *)
(***************************************************************************)
\* refreshOverview returns build b: the one under way, or a new one.
Refresh(b) ==
  \/ /\ b \in Builds
     /\ refresh = b
     /\ UNCHANGED <<refresh, running, begun>>
  \/ /\ refresh = NoBuild
     /\ b \in Builds \ running
     /\ refresh' = b
     /\ running' = running \cup {b}
     /\ begun' = [begun EXCEPT ![b] = [generation |-> generation, shows |-> made]]

\* A reader's floor is what was acknowledged to anybody when it asked.
Given(overview) ==
  [pc |-> "answered", build |-> NoBuild, floor |-> acked, got |-> overview]

GetMiss(r) ==
  /\ ~cache.held
  /\ \E b \in Builds :
       /\ Refresh(b)
       /\ reader' = [reader EXCEPT ![r] = [pc |-> "waiting", build |-> b,
                                           floor |-> acked, got |-> {}]]

GetHit(r) ==
  /\ cache.held /\ cache.fresh
  /\ reader' = [reader EXCEPT ![r] = Given(cache.shows)]
  /\ UNCHANGED <<refresh, running, begun>>

\* Mistake: an old overview is served without building a new one.
GetStaleOnly(r) ==
  /\ cache.held /\ ~cache.fresh
  /\ reader' = [reader EXCEPT ![r] = Given(cache.shows)]
  /\ UNCHANGED <<refresh, running, begun>>

GetStale(r) ==
  /\ cache.held /\ ~cache.fresh
  /\ \E b \in Builds : Refresh(b)
  /\ reader' = [reader EXCEPT ![r] = Given(cache.shows)]

Get(r) ==
  /\ reader[r].pc = "idle"
  /\ GetMiss(r) \/ GetHit(r) \/ GetStale(r)
  /\ UNCHANGED <<mutations, cache, generation>>

\* The client has its answer and may ask again.
Leave(r) ==
  /\ reader[r].pc = "answered"
  /\ reader' = [reader EXCEPT ![r] = NoReader]
  /\ UNCHANGED <<mutations, cache, refresh, generation, running, begun>>

\* Mistakes: the slot of the shared build is emptied by any build that settles;
\* or never, so that later requests join a promise settled long ago.
SettledAny(b) ==
  /\ running' = running \ {b}
  /\ begun' = [begun EXCEPT ![b] = NotBegun]
  /\ refresh' = NoBuild

SettledNever(b) ==
  /\ running' = running \ {b}
  /\ begun' = [begun EXCEPT ![b] = NotBegun]
  /\ UNCHANGED refresh

\* The finally of refreshOverview.
Settled(b) ==
  /\ running' = running \ {b}
  /\ begun' = [begun EXCEPT ![b] = NotBegun]
  /\ refresh' = IF refresh = b THEN NoBuild ELSE refresh

\* Mistake: an overview is cached whatever was changed while it was built.
StoreAlways(b) == cache' = [held |-> TRUE, fresh |-> TRUE, shows |-> begun[b].shows]

\* Its then: an overview of an earlier generation is not cached.
Store(b) ==
  cache' = IF begun[b].generation = generation
             THEN [held |-> TRUE, fresh |-> TRUE, shows |-> begun[b].shows]
             ELSE cache

BuildSucceeds(b) ==
  /\ b \in running
  /\ Store(b)
  /\ Settled(b)
  /\ reader' = [r \in Readers |->
                  IF reader[r].build = b
                    THEN [reader[r] EXCEPT !.pc = "answered", !.build = NoBuild,
                                           !.got = begun[b].shows]
                    ELSE reader[r]]
  /\ UNCHANGED <<mutations, generation>>

\* A switch that answered before rejects the read of its ports.
BuildFails(b) ==
  /\ b \in running
  /\ Settled(b)
  /\ reader' = [r \in Readers |->
                  IF reader[r].build = b THEN NoReader ELSE reader[r]]
  /\ UNCHANGED <<mutations, cache, generation>>

\* overviewCacheTtlMs have passed since the overview was cached.
Expire ==
  /\ cache.held /\ cache.fresh
  /\ cache' = [cache EXCEPT !.fresh = FALSE]
  /\ UNCHANGED <<mutations, refresh, generation, running, begun, reader>>

(***************************************************************************)
(* Changing.  Between the change and the answer there are awaits: of later *)
(* writes, or of the reads a PATCH answers with.                           *)
(***************************************************************************)
Change(m) ==
  /\ m \notin made
  /\ made' = made \cup {m}
  /\ UNCHANGED <<acked, refused, cache, refresh, generation, running, begun, reader>>

\* Mistake: requests that come later still join the build under way.
InvalidateCacheOnly ==
  /\ generation' = generation + 1
  /\ cache' = NoCache
  /\ UNCHANGED refresh

Invalidate ==
  /\ generation' = generation + 1
  /\ cache' = NoCache
  /\ refresh' = NoBuild

Acknowledge(m) ==
  /\ m \in made \ (acked \cup refused)
  /\ acked' = acked \cup {m}
  /\ Invalidate
  /\ UNCHANGED <<made, refused, running, begun, reader>>

\* A later step fails: the change is made, but nothing is invalidated.
Refuse(m) ==
  /\ m \in made \ (acked \cup refused)
  /\ refused' = refused \cup {m}
  /\ UNCHANGED <<made, acked, cache, refresh, generation, running, begun, reader>>

Next ==
  \/ \E r \in Readers : Get(r) \/ Leave(r)
  \/ \E b \in Builds : BuildSucceeds(b) \/ BuildFails(b)
  \/ Expire
  \/ \E m \in Mutations : Change(m) \/ Acknowledge(m) \/ Refuse(m)

Spec == Init /\ [][Next]_vars

\* Device reads have timeouts, so every build settles; time passes.
FairSpec ==
  /\ Spec
  /\ WF_vars(Expire)
  /\ \A b \in Builds : WF_vars(BuildSucceeds(b) \/ BuildFails(b))

-----------------------------------------------------------------------------
\* The shared build, if any, has not settled.
TypeOK ==
  /\ made \subseteq Mutations /\ acked \subseteq made /\ refused \subseteq made
  /\ cache \in [held : BOOLEAN, fresh : BOOLEAN, shows : SUBSET Mutations]
  /\ running \subseteq Builds
  /\ refresh \in running \cup {NoBuild}
  /\ generation \in Nat
  /\ begun \in [Builds -> [generation : Nat, shows : SUBSET Mutations]]
  /\ reader \in [Readers -> [pc    : {"idle", "waiting", "answered"},
                             build : Builds \cup {NoBuild},
                             floor : SUBSET Mutations,
                             got   : SUBSET Mutations]]

\* Nobody is given an overview without a change acknowledged, to anybody,
\* before the overview was asked for: however long a build takes, whichever
\* builds and invalidations it overlaps with, from the cache or not.
ReadYourWrites ==
  \A r \in Readers : reader[r].pc = "answered" => reader[r].floor \subseteq reader[r].got

\* The devices are read for at most one overview per generation: the end of
\* an outdated build does not let a second one of the new generation begin.
OneBuildPerGeneration ==
  \A a, b \in running : begun[a].generation = begun[b].generation => a = b

KeepAsking == []<><<\E r \in Readers : Get(r)>>_vars

BuildsSucceed == <>[][\A b \in Builds : ~BuildFails(b)]_vars

\* A refused request may have changed the field and leaves the old overview
\* cached.  While clients keep asking and builds succeed, the cache catches up.
CatchesUp ==
  KeepAsking /\ BuildsSucceed => <>[](cache.held => cache.shows = made)

-----------------------------------------------------------------------------
(***************************************************************************)
(* The inductive invariant behind ReadYourWrites: what is cached, and what *)
(* the shared build will show, holds every acknowledged change; a build of *)
(* the present generation is the shared one; and a reader waits for a      *)
(* build that shows what it may expect.                                    *)
(***************************************************************************)
CurrentBuildsShared ==
  \A b \in running :
    /\ begun[b].generation <= generation
    /\ begun[b].generation = generation => b = refresh

SharedBuildCurrent ==
  refresh # NoBuild =>
    begun[refresh].generation = generation /\ acked \subseteq begun[refresh].shows

WaitersServed ==
  \A r \in Readers : reader[r].pc = "waiting" =>
    /\ reader[r].build \in running
    /\ reader[r].floor \subseteq begun[reader[r].build].shows

ReadersAtRest ==
  \A r \in Readers : reader[r].pc # "waiting" => reader[r].build = NoBuild

\* What every step preserves: nothing outdated is cached, shared or waited for.
CacheInv ==
  /\ TypeOK
  /\ cache.held => acked \subseteq cache.shows
  /\ CurrentBuildsShared
  /\ SharedBuildCurrent
  /\ WaitersServed
  /\ ReadersAtRest
  /\ ReadYourWrites
  /\ OneBuildPerGeneration
=============================================================================
