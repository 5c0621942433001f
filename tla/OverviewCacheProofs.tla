------------------------ MODULE OverviewCacheProofs -------------------------
(***************************************************************************)
(* CacheInv is an invariant of OverviewCache for any mutations, readers    *)
(* and builds; its parts ReadYourWrites and OneBuildPerGeneration follow.  *)
(***************************************************************************)
EXTENDS OverviewCache, TLAPS

\* The start-up state.
LEMMA InitCacheInv == Init => CacheInv
BY DEF Init, CacheInv, TypeOK, NoCache, NotBegun, NoReader, CurrentBuildsShared,
       SharedBuildCurrent, WaitersServed, ReadersAtRest, ReadYourWrites,
       OneBuildPerGeneration

\* The build a request is given shows everything acknowledged so far, and
\* those under way stay as they are.
LEMMA RefreshInv ==
  ASSUME CacheInv, NEW b \in Builds, Refresh(b), UNCHANGED <<acked, made, generation>>
  PROVE  /\ CurrentBuildsShared' /\ SharedBuildCurrent' /\ OneBuildPerGeneration'
         /\ running \subseteq running' /\ \A a \in running : begun'[a] = begun[a]
         /\ b \in running' /\ acked \subseteq begun'[b].shows
         /\ running' \subseteq Builds /\ refresh' \in running'
         /\ begun' \in [Builds -> [generation : Nat, shows : SUBSET Mutations]]
<1>1. CASE refresh = b /\ UNCHANGED <<refresh, running, begun>>
  BY <1>1, BuildAssumption
     DEF CacheInv, TypeOK, CurrentBuildsShared, SharedBuildCurrent,
         OneBuildPerGeneration
<1>2. CASE /\ refresh = NoBuild
           /\ b \in Builds \ running
           /\ refresh' = b
           /\ running' = running \cup {b}
           /\ begun' = [begun EXCEPT ![b] = [generation |-> generation,
                                             shows |-> made]]
  <2>1. /\ begun'[b] = [generation |-> generation, shows |-> made]
        /\ \A a \in running : begun'[a] = begun[a]
    BY <1>2 DEF CacheInv, TypeOK
  <2>2. \A a \in running : begun[a].generation # generation
    BY <1>2, BuildAssumption DEF CacheInv, TypeOK, CurrentBuildsShared
  <2>3. CurrentBuildsShared' /\ SharedBuildCurrent'
    BY <1>2, <2>1, <2>2 DEF CacheInv, TypeOK, CurrentBuildsShared, SharedBuildCurrent
  <2>4. OneBuildPerGeneration'
    BY <1>2, <2>1, <2>2 DEF CacheInv, OneBuildPerGeneration
  <2>5. begun' \in [Builds -> [generation : Nat, shows : SUBSET Mutations]]
    BY <1>2 DEF CacheInv, TypeOK
  <2>6. QED
    BY <1>2, <2>1, <2>3, <2>4, <2>5 DEF CacheInv, TypeOK
<1>3. QED
  BY <1>1, <1>2 DEF Refresh

\* A request for the overview, from the cache or not.
LEMMA GetInv ==
  ASSUME CacheInv, NEW r \in Readers, Get(r)
  PROVE  CacheInv'
<1>1. UNCHANGED <<mutations, cache, generation>>
  BY DEF Get
<1>2. CASE GetMiss(r)
  <2>1. PICK b \in Builds :
          /\ Refresh(b)
          /\ reader' = [reader EXCEPT ![r] = [pc |-> "waiting", build |-> b,
                                              floor |-> acked, got |-> {}]]
    BY <1>2 DEF GetMiss
  <2>2. /\ CurrentBuildsShared' /\ SharedBuildCurrent' /\ OneBuildPerGeneration'
        /\ running \subseteq running' /\ \A a \in running : begun'[a] = begun[a]
        /\ b \in running' /\ acked \subseteq begun'[b].shows
        /\ running' \subseteq Builds /\ refresh' \in running'
        /\ begun' \in [Builds -> [generation : Nat, shows : SUBSET Mutations]]
    BY <1>1, <2>1, RefreshInv DEF mutations
  <2>3. TypeOK'
    BY <1>1, <2>1, <2>2 DEF CacheInv, TypeOK, mutations
  <2>4. WaitersServed'
    <3> SUFFICES ASSUME NEW q \in Readers, reader'[q].pc = "waiting"
                 PROVE  /\ reader'[q].build \in running'
                        /\ reader'[q].floor \subseteq begun'[reader'[q].build].shows
      BY DEF WaitersServed
    <3>1. CASE q = r
      BY <1>1, <2>1, <2>2, <3>1 DEF CacheInv, TypeOK
    <3>2. CASE q # r
      BY <2>1, <2>2, <3>2 DEF CacheInv, TypeOK, WaitersServed
    <3>3. QED
      BY <3>1, <3>2
  <2>5. ReadYourWrites' /\ ReadersAtRest'
    BY <2>1 DEF CacheInv, TypeOK, ReadYourWrites, ReadersAtRest
  <2>6. QED
    BY <1>1, <2>2, <2>3, <2>4, <2>5 DEF CacheInv, mutations
<1>3. ASSUME /\ cache.held
             /\ reader' = [reader EXCEPT ![r] = Given(cache.shows)]
             /\ \/ UNCHANGED <<refresh, running, begun>>
                \/ \E b \in Builds : Refresh(b)
      PROVE  CacheInv'
  <2>1. /\ CurrentBuildsShared' /\ SharedBuildCurrent' /\ OneBuildPerGeneration'
        /\ running \subseteq running' /\ \A a \in running : begun'[a] = begun[a]
        /\ running' \subseteq Builds /\ refresh' \in running' \cup {NoBuild}
        /\ begun' \in [Builds -> [generation : Nat, shows : SUBSET Mutations]]
    <3>1. CASE UNCHANGED <<refresh, running, begun>>
      BY <1>1, <3>1 DEF CacheInv, TypeOK, mutations, CurrentBuildsShared,
                        SharedBuildCurrent, OneBuildPerGeneration
    <3>2. CASE \E b \in Builds : Refresh(b)
      BY <1>1, <3>2, RefreshInv DEF mutations
    <3>3. QED
      BY <1>3, <3>1, <3>2
  <2>2. TypeOK' /\ ReadYourWrites' /\ ReadersAtRest'
    BY <1>1, <1>3, <2>1
       DEF CacheInv, TypeOK, mutations, Given, ReadYourWrites, ReadersAtRest
  <2>3. WaitersServed'
    BY <1>1, <1>3, <2>1 DEF CacheInv, TypeOK, Given, WaitersServed
  <2>4. QED
    BY <1>1, <2>1, <2>2, <2>3 DEF CacheInv, mutations
<1>4. CASE GetHit(r) \/ GetStale(r)
  BY <1>3, <1>4 DEF GetHit, GetStale
<1>5. QED
  BY <1>2, <1>4 DEF Get

\* The end of a build, whatever is cached and given to the readers.
LEMMA SettledInv ==
  ASSUME CacheInv, NEW b \in running, Settled(b), UNCHANGED <<acked, generation>>
  PROVE  /\ CurrentBuildsShared' /\ SharedBuildCurrent' /\ OneBuildPerGeneration'
         /\ running' \subseteq Builds /\ refresh' \in running' \cup {NoBuild}
         /\ begun' \in [Builds -> [generation : Nat, shows : SUBSET Mutations]]
         /\ running' = running \ {b} /\ \A a \in running' : begun'[a] = begun[a]
<1>1. \A a \in running' : begun'[a] = begun[a]
  BY DEF CacheInv, TypeOK, Settled
<1>2. begun' \in [Builds -> [generation : Nat, shows : SUBSET Mutations]]
  BY DEF CacheInv, TypeOK, Settled, NotBegun
<1>3. /\ running' = running \ {b} /\ running' \subseteq Builds
      /\ refresh' \in running' \cup {NoBuild}
      /\ refresh' # NoBuild => refresh' = refresh
      /\ refresh \in running' => refresh' = refresh
  BY BuildAssumption DEF CacheInv, TypeOK, Settled
<1>4. CurrentBuildsShared' /\ SharedBuildCurrent' /\ OneBuildPerGeneration'
  BY <1>1, <1>3 DEF CacheInv, CurrentBuildsShared, SharedBuildCurrent,
                    OneBuildPerGeneration
<1>5. QED
  BY <1>1, <1>2, <1>3, <1>4

\* A build ends well: those who wait for it are given what it shows.
LEMMA BuildSucceedsInv ==
  ASSUME CacheInv, NEW b \in Builds, BuildSucceeds(b)
  PROVE  CacheInv'
<1>1. b \in running /\ Store(b) /\ Settled(b) /\ UNCHANGED <<mutations, generation>>
  BY DEF BuildSucceeds
<1>2. reader' = [r \in Readers |->
                   IF reader[r].build = b
                     THEN [reader[r] EXCEPT !.pc = "answered", !.build = NoBuild,
                                            !.got = begun[b].shows]
                     ELSE reader[r]]
  BY DEF BuildSucceeds
<1>3. /\ CurrentBuildsShared' /\ SharedBuildCurrent' /\ OneBuildPerGeneration'
      /\ running' \subseteq Builds /\ refresh' \in running' \cup {NoBuild}
      /\ begun' \in [Builds -> [generation : Nat, shows : SUBSET Mutations]]
      /\ running' = running \ {b} /\ \A a \in running' : begun'[a] = begun[a]
  BY <1>1, SettledInv DEF mutations
<1>4. begun[b].generation = generation => acked \subseteq begun[b].shows
  BY <1>1, BuildAssumption
     DEF CacheInv, TypeOK, CurrentBuildsShared, SharedBuildCurrent
<1>5. /\ cache' \in [held : BOOLEAN, fresh : BOOLEAN, shows : SUBSET Mutations]
      /\ cache'.held => acked \subseteq cache'.shows
  BY <1>1, <1>4 DEF CacheInv, TypeOK, Store
<1>6. TypeOK'
  <2>1. begun[b].shows \in SUBSET Mutations
    BY DEF CacheInv, TypeOK
  <2>2. reader' \in [Readers -> [pc    : {"idle", "waiting", "answered"},
                                 build : Builds \cup {NoBuild},
                                 floor : SUBSET Mutations,
                                 got   : SUBSET Mutations]]
    <3>1. ASSUME NEW r \in Readers
          PROVE  reader'[r] \in [pc    : {"idle", "waiting", "answered"},
                                 build : Builds \cup {NoBuild},
                                 floor : SUBSET Mutations,
                                 got   : SUBSET Mutations]
      <4>1. reader[r] \in [pc    : {"idle", "waiting", "answered"},
                           build : Builds \cup {NoBuild},
                           floor : SUBSET Mutations,
                           got   : SUBSET Mutations]
        BY DEF CacheInv, TypeOK
      <4>2. CASE reader[r].build = b
        BY <1>2, <2>1, <4>1, <4>2
      <4>3. CASE reader[r].build # b
        BY <1>2, <4>1, <4>3
      <4>4. QED
        BY <4>2, <4>3
    <3>2. QED
      BY <1>2, <3>1
  <2>3. QED
    BY <1>1, <1>3, <1>5, <2>2 DEF CacheInv, TypeOK, mutations
<1>7. WaitersServed'
  <2> SUFFICES ASSUME NEW r \in Readers, reader'[r].pc = "waiting"
               PROVE  /\ reader'[r].build \in running'
                      /\ reader'[r].floor \subseteq begun'[reader'[r].build].shows
    BY DEF WaitersServed
  <2>1. reader'[r] = reader[r] /\ reader[r].build # b
    BY <1>2 DEF CacheInv, TypeOK
  <2>2. QED
    BY <1>3, <2>1 DEF CacheInv, WaitersServed
<1>8. ReadersAtRest'
  BY <1>2 DEF CacheInv, TypeOK, ReadersAtRest
<1>9. ReadYourWrites'
  <2> SUFFICES ASSUME NEW r \in Readers, reader'[r].pc = "answered"
               PROVE  reader'[r].floor \subseteq reader'[r].got
    BY DEF ReadYourWrites
  <2>1. CASE reader[r].build = b /\ reader[r].pc = "waiting"
    BY <1>2, <2>1 DEF CacheInv, TypeOK, WaitersServed
  <2>2. CASE reader[r].build # b
    BY <1>2, <2>2 DEF CacheInv, TypeOK, ReadYourWrites
  <2>3. reader[r].pc # "waiting" => reader[r].build = NoBuild
    BY DEF CacheInv, ReadersAtRest
  <2>4. QED
    BY <2>1, <2>2, <2>3, BuildAssumption
<1>10. QED
  BY <1>1, <1>3, <1>5, <1>6, <1>7, <1>8, <1>9 DEF CacheInv, mutations

\* A build is rejected, and with it those who wait for it.
LEMMA BuildFailsInv ==
  ASSUME CacheInv, NEW b \in Builds, BuildFails(b)
  PROVE  CacheInv'
<1>1. b \in running /\ Settled(b) /\ UNCHANGED <<mutations, cache, generation>>
  BY DEF BuildFails
<1>2. reader' = [r \in Readers |-> IF reader[r].build = b THEN NoReader ELSE reader[r]]
  BY DEF BuildFails
<1>3. /\ CurrentBuildsShared' /\ SharedBuildCurrent' /\ OneBuildPerGeneration'
      /\ running' \subseteq Builds /\ refresh' \in running' \cup {NoBuild}
      /\ begun' \in [Builds -> [generation : Nat, shows : SUBSET Mutations]]
      /\ running' = running \ {b} /\ \A a \in running' : begun'[a] = begun[a]
  BY <1>1, SettledInv DEF mutations
<1>4. TypeOK'
  BY <1>1, <1>2, <1>3 DEF CacheInv, TypeOK, mutations, NoReader
<1>5. WaitersServed'
  <2> SUFFICES ASSUME NEW r \in Readers, reader'[r].pc = "waiting"
               PROVE  /\ reader'[r].build \in running'
                      /\ reader'[r].floor \subseteq begun'[reader'[r].build].shows
    BY DEF WaitersServed
  <2>1. reader'[r] = reader[r] /\ reader[r].build # b
    BY <1>2 DEF NoReader
  <2>2. QED
    BY <1>3, <2>1 DEF CacheInv, WaitersServed
<1>6. ReadersAtRest' /\ ReadYourWrites'
  BY <1>2 DEF CacheInv, TypeOK, ReadersAtRest, ReadYourWrites, NoReader
<1>7. QED
  BY <1>1, <1>3, <1>4, <1>5, <1>6 DEF CacheInv, mutations

\* An acknowledged change empties the cache and the shared slot, so that no
\* build under way is of the new generation.
LEMMA AcknowledgeInv ==
  ASSUME CacheInv, NEW m \in Mutations, Acknowledge(m)
  PROVE  CacheInv'
<1>1. /\ acked' = acked \cup {m} /\ m \in made
      /\ generation' = generation + 1
      /\ cache' = NoCache
      /\ refresh' = NoBuild
      /\ UNCHANGED <<made, refused, running, begun, reader>>
  BY DEF Acknowledge, Invalidate
<1>2. TypeOK'
  BY <1>1 DEF CacheInv, TypeOK, NoCache
<1>3. CurrentBuildsShared'
  BY <1>1 DEF CacheInv, TypeOK, CurrentBuildsShared
<1>4. SharedBuildCurrent' /\ WaitersServed' /\ ReadersAtRest' /\ ReadYourWrites'
      /\ OneBuildPerGeneration'
  BY <1>1 DEF CacheInv, SharedBuildCurrent, WaitersServed, ReadersAtRest,
              ReadYourWrites, OneBuildPerGeneration
<1>5. QED
  BY <1>1, <1>2, <1>3, <1>4 DEF CacheInv, NoCache

\* A reader takes its answer away.
LEMMA LeaveInv ==
  ASSUME CacheInv, NEW r \in Readers, Leave(r)
  PROVE  CacheInv'
<1>1. /\ UNCHANGED <<mutations, cache, refresh, generation, running, begun>>
      /\ reader' = [reader EXCEPT ![r] = NoReader]
  BY DEF Leave
<1>2. TypeOK'
  BY <1>1 DEF CacheInv, TypeOK, NoReader, mutations
<1>3. WaitersServed' /\ ReadersAtRest' /\ ReadYourWrites'
  BY <1>1 DEF CacheInv, TypeOK, NoReader, WaitersServed, ReadersAtRest, ReadYourWrites
<1>4. QED
  BY <1>1, <1>2, <1>3
     DEF CacheInv, mutations, CurrentBuildsShared, SharedBuildCurrent,
         OneBuildPerGeneration

\* The steps that leave builds and readers alone.
LEMMA OtherInv ==
  ASSUME CacheInv,
         \/ Expire
         \/ \E m \in Mutations : Change(m) \/ Refuse(m)
         \/ UNCHANGED vars
  PROVE  CacheInv'
<1>1. /\ UNCHANGED <<acked, refresh, generation, running, begun, reader>>
      /\ cache' \in [held : BOOLEAN, fresh : BOOLEAN, shows : SUBSET Mutations]
      /\ cache'.held => cache.held /\ cache'.shows = cache.shows
  BY DEF Expire, Change, Refuse, vars, mutations, CacheInv, TypeOK
<1>2. TypeOK'
  <2>1. made' \subseteq Mutations /\ acked' \subseteq made' /\ refused' \subseteq made'
    BY DEF Expire, Change, Refuse, vars, mutations, CacheInv, TypeOK
  <2>2. QED
    BY <1>1, <2>1 DEF CacheInv, TypeOK
<1>3. QED
  BY <1>1, <1>2 DEF CacheInv, CurrentBuildsShared, SharedBuildCurrent,
     WaitersServed, ReadersAtRest, ReadYourWrites, OneBuildPerGeneration

\* Every step of the server.
LEMMA NextCacheInv ==
  ASSUME CacheInv, [Next]_vars
  PROVE  CacheInv'
<1>1. CASE \E r \in Readers : Get(r) \/ Leave(r)
  BY <1>1, GetInv, LeaveInv
<1>2. CASE \E b \in Builds : BuildSucceeds(b) \/ BuildFails(b)
  BY <1>2, BuildSucceedsInv, BuildFailsInv
<1>3. CASE \E m \in Mutations : Acknowledge(m)
  BY <1>3, AcknowledgeInv
<1>4. CASE Expire \/ (\E m \in Mutations : Change(m) \/ Refuse(m)) \/ UNCHANGED vars
  BY <1>4, OtherInv
<1>5. QED
  BY <1>1, <1>2, <1>3, <1>4 DEF Next

\* Nothing outdated is ever cached, shared or waited for (buildApp).
THEOREM CacheInvariance == Spec => []CacheInv
BY InitCacheInv, NextCacheInv, PTL DEF Spec

\* The shared build never settles without giving up its place, and builds,
\* caches and answers hold only changes (refreshOverview, buildApp).
THEOREM TypeTheorem == Spec => []TypeOK
<1>1. CacheInv => TypeOK
  BY DEF CacheInv
<1>2. QED
  BY CacheInvariance, <1>1, PTL

\* No reader is given an overview without a change acknowledged before it asked.
THEOREM ReadYourWritesTheorem == Spec => []ReadYourWrites
<1>1. CacheInv => ReadYourWrites
  BY DEF CacheInv
<1>2. QED
  BY CacheInvariance, <1>1, PTL

\* At most one build per generation reads the devices.
THEOREM OneBuildTheorem == Spec => []OneBuildPerGeneration
<1>1. CacheInv => OneBuildPerGeneration
  BY DEF CacheInv
<1>2. QED
  BY CacheInvariance, <1>1, PTL
=============================================================================
