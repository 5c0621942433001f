------------------------ MODULE FieldProgressProofs -------------------------
(***************************************************************************)
(* How far requests get, whatever overlaps and whatever fails: each one    *)
(* comes closer to its end, somebody is always served, a removal settles   *)
(* its network, and a create that ends well has reached the trunks.        *)
(***************************************************************************)
EXTENDS FieldTrunkProofs

(***************************************************************************)
(* Where a request goes from each of its waits.                            *)
(***************************************************************************)
SameLoops(k, j) == k.todo = j.todo /\ k.slots = j.slots /\ k.seen = j.seen

NextWaits ==
  {<<"connect.find", "assign.read">>, <<"assign.read", "assign.vlan">>,
   <<"assign.vlan", "assign.undo">>, <<"assign.vlan", "bounce">>,
   <<"return.read", "return.vlan">>, <<"return.vlan", "return.enable">>,
   <<"return.enable", "return.flush">>, <<"return.flush", "remove.clear">>,
   <<"return.flush", "bounce">>, <<"role.read", "role.write">>,
   <<"enable.read", "enable.write">>, <<"bounce.read", "bounce">>}

FewerPorts(k, j) ==
  /\ \E p \in j.todo : k.todo = j.todo \ {p}
  /\ k.slots = j.slots /\ k.seen = j.seen

GoesOn(k, j) ==
  \/ k.pc = "idle"
  \/ <<j.pc, k.pc>> \in NextWaits /\ SameLoops(k, j)
  \/ j.pc = "return.flush" /\ k.pc = "return.read" /\ FewerPorts(k, j)
  \/ /\ j.pc = "create.scan" /\ k.pc = "create.scan"
     /\ \E s \in j.slots : k.slots = j.slots \ {s}
     /\ k.todo = j.todo /\ k.seen = j.seen
  \/ /\ j.pc = "create.scan" /\ k.pc = "create.config"
     /\ k.slots = {} /\ k.todo = j.todo /\ k.seen = j.seen
  \/ /\ j.pc = "refresh" /\ k.pc = "refresh"
     /\ k.todo = j.todo /\ k.slots = j.slots
     /\ \E n \in Listed(j) : k.seen = [j.seen EXCEPT ![n] = "-"]
  \/ <<j.pc, k.pc>> \in {<<"create.config", "create.trunk">>,
                         <<"remove.clear", "remove.trunk">>}
  \/ Syncs(j) /\ k.pc = j.pc /\ FewerPorts(k, j)

LEMMA FinishGoesOn ==
  ASSUME IInv, NEW w \in Workers, Finish(w)
  PROVE  GoesOn(job'[w], job[w])
BY OnlyJob DEF Finish, Idle, GoesOn

\* From one wait to the next, the locals its loops use untouched.
LEMMA WaitGoesOn ==
  ASSUME IInv, NEW w \in Workers, NEW k, Become(w, k),
         <<job[w].pc, k.pc>> \in NextWaits, SameLoops(k, job[w])
  PROVE  GoesOn(job'[w], job[w])
BY OnlyJob DEF GoesOn

LEMMA PcGoesOn ==
  ASSUME IInv, NEW w \in Workers, NEW pc, Become(w, [job[w] EXCEPT !.pc = pc]),
         <<job[w].pc, pc>> \in NextWaits
  PROVE  GoesOn(job'[w], job[w])
<1> DEFINE k == [job[w] EXCEPT !.pc = pc]
<1>1. k.pc = pc /\ SameLoops(k, job[w])
  BY Unchanged DEF Job, SameLoops
<1>2. Become(w, k)
  OBVIOUS
<1> HIDE DEF k
<1>3. QED
  BY <1>1, <1>2, WaitGoesOn

LEMMA PortReadGoesOn ==
  ASSUME IInv, NEW w \in Workers,
         AssignCheck(w) \/ ReturnCheck(w) \/ RoleCheck(w) \/ PortRead(w) \/ PortUnreadable(w)
  PROVE  GoesOn(job'[w], job[w])
<1>1. job[w] \in Job
  BY Unchanged
<1>2. CASE AssignCheck(w) /\ ~Finish(w)
  <2>1. PICK v : Become(w, [job[w] EXCEPT !.pc = "assign.vlan", !.vlan = v])
    BY <1>2 DEF AssignCheck
  <2> DEFINE k == [job[w] EXCEPT !.pc = "assign.vlan", !.vlan = v]
  <2>2. k.pc = "assign.vlan" /\ SameLoops(k, job[w]) /\ Become(w, k)
    BY <1>1, <2>1 DEF Job, SameLoops
  <2> HIDE DEF k
  <2>3. QED
    BY <1>2, <2>2, WaitGoesOn DEF AssignCheck, Ready, NextWaits
<1>3. CASE ReturnCheck(w) /\ ~Finish(w)
  BY <1>3, PcGoesOn DEF ReturnCheck, Abort, Ready, NextWaits
<1>4. CASE RoleCheck(w) /\ ~Finish(w)
  <2>1. PICK n, V :
          Become(w, [job[w] EXCEPT !.pc = "role.write", !.net = n, !.vlans = V])
    BY <1>4 DEF RoleCheck
  <2> DEFINE k == [job[w] EXCEPT !.pc = "role.write", !.net = n, !.vlans = V]
  <2>2. k.pc = "role.write" /\ SameLoops(k, job[w]) /\ Become(w, k)
    BY <1>1, <2>1 DEF Job, SameLoops
  <2> HIDE DEF k
  <2>3. QED
    BY <1>4, <2>2, WaitGoesOn DEF RoleCheck, Ready, NextWaits
<1>5. CASE PortRead(w)
  BY <1>5, PcGoesOn DEF PortRead, Ready, NextWaits
<1>6. QED
  BY <1>2, <1>3, <1>4, <1>5, FinishGoesOn DEF PortUnreadable, Abort

LEMMA ScanGoesOn ==
  ASSUME IInv, NEW w \in Workers, CreateScan(w)
  PROVE  GoesOn(job'[w], job[w])
<1>1. job[w] \in Job /\ job[w].pc = "create.scan"
  BY Unchanged DEF CreateScan, Ready
<1>2. PICK s \in job[w].slots :
        \/ Become(w, [job[w] EXCEPT !.pc = "create.config", !.slots = {}, !.number = None])
        \/ Finish(w)
        \/ Become(w, [job[w] EXCEPT !.slots = @ \ {s}])
  BY DEF CreateScan, IsLeast
<1>3. CASE Become(w, [job[w] EXCEPT !.pc = "create.config", !.slots = {}, !.number = None])
  <2> DEFINE k == [job[w] EXCEPT !.pc = "create.config", !.slots = {}, !.number = None]
  <2>1. /\ k.pc = "create.config" /\ k.slots = {} /\ k.todo = job[w].todo
        /\ k.seen = job[w].seen /\ Become(w, k)
    BY <1>1, <1>3 DEF Job
  <2> HIDE DEF k
  <2>2. QED
    BY <1>1, <2>1, OnlyJob DEF GoesOn
<1>4. CASE Become(w, [job[w] EXCEPT !.slots = @ \ {s}])
  <2> DEFINE k == [job[w] EXCEPT !.slots = @ \ {s}]
  <2>1. /\ k.pc = "create.scan" /\ k.slots = job[w].slots \ {s} /\ k.todo = job[w].todo
        /\ k.seen = job[w].seen /\ Become(w, k)
    BY <1>1, <1>4 DEF Job
  <2> HIDE DEF k
  <2>2. QED
    BY <1>1, <2>1, OnlyJob DEF GoesOn
<1>5. QED
  BY <1>2, <1>3, <1>4, FinishGoesOn

LEMMA RefreshGoesOn ==
  ASSUME IInv, NEW w \in Workers, RefreshRow(w)
  PROVE  GoesOn(job'[w], job[w])
<1>1. job[w] \in Job /\ job[w].pc = "refresh"
  BY Unchanged DEF RefreshRow, Ready
<1>2. PICK n \in Listed(job[w]) : Finish(w) \/ Become(w, [job[w] EXCEPT !.seen[n] = "-"])
  BY DEF RefreshRow
<1>3. CASE Become(w, [job[w] EXCEPT !.seen[n] = "-"])
  <2> DEFINE k == [job[w] EXCEPT !.seen[n] = "-"]
  <2>1. /\ k.pc = "refresh" /\ k.slots = job[w].slots /\ k.todo = job[w].todo
        /\ k.seen = [job[w].seen EXCEPT ![n] = "-"] /\ Become(w, k)
    BY <1>1, <1>3 DEF Job
  <2> HIDE DEF k
  <2>2. QED
    BY <1>1, <2>1, OnlyJob DEF GoesOn
<1>4. QED
  BY <1>2, <1>3, FinishGoesOn

LEMMA ConnectGoesOn ==
  ASSUME IInv, NEW w \in Workers, ConnectFound(w) \/ ConnectLost(w)
  PROVE  GoesOn(job'[w], job[w])
<1>1. CASE ConnectFound(w) /\ ~Finish(w)
  <2>1. PICK p \in Ports :
          Become(w, [job[w] EXCEPT !.pc = "assign.read", !.port = p, !.flag = TRUE])
    BY <1>1 DEF ConnectFound
  <2> DEFINE k == [job[w] EXCEPT !.pc = "assign.read", !.port = p, !.flag = TRUE]
  <2>2. k.pc = "assign.read" /\ SameLoops(k, job[w]) /\ Become(w, k)
    BY <2>1, Unchanged DEF Job, SameLoops
  <2> HIDE DEF k
  <2>3. QED
    BY <1>1, <2>2, WaitGoesOn DEF ConnectFound, Ready, NextWaits
<1>2. QED
  BY <1>1, FinishGoesOn DEF ConnectLost

LEMMA PortWriteAdvances ==
  ASSUME IInv, NEW w \in Workers, NEW o \in Outcomes, PortWrites(w, o)
  PROVE  GoesOn(job'[w], job[w])
<1>1. job[w] \in Job
  BY Unchanged
<1>2. CASE ReturnFlush(w, o) /\ NextPort(w, job[w])
  <2>1. job[w].pc = "return.flush"
    BY <1>2 DEF ReturnFlush, Ready
  <2>2. CASE Become(w, [job[w] EXCEPT !.pc = "remove.clear", !.port = None])
    <3> DEFINE k == [job[w] EXCEPT !.pc = "remove.clear", !.port = None]
    <3>1. k.pc = "remove.clear" /\ SameLoops(k, job[w]) /\ Become(w, k)
      BY <1>1, <2>2 DEF Job, SameLoops
    <3> HIDE DEF k
    <3>2. QED
      BY <2>1, <3>1, WaitGoesOn DEF NextWaits
  <2>3. ASSUME NEW p \in job[w].todo,
               Become(w, [job[w] EXCEPT !.pc = "return.read", !.port = p, !.todo = @ \ {p}])
        PROVE  GoesOn(job'[w], job[w])
    <3> DEFINE k == [job[w] EXCEPT !.pc = "return.read", !.port = p, !.todo = @ \ {p}]
    <3>1. /\ k.pc = "return.read" /\ k.todo = job[w].todo \ {p} /\ k.slots = job[w].slots
          /\ k.seen = job[w].seen /\ Become(w, k)
      BY <1>1, <2>3 DEF Job
    <3> HIDE DEF k
    <3>2. QED
      BY <2>1, <3>1, OnlyJob DEF GoesOn, FewerPorts
  <2>4. QED
    BY <1>2, <2>2, <2>3 DEF NextPort, IsLeast
<1>3. CASE ~Finish(w) /\ ~(ReturnFlush(w, o) /\ NextPort(w, job[w]))
  BY <1>3, PcGoesOn
     DEF PortWrites, AssignWritten, AssignUndone, ReturnVlan, ReturnEnable, ReturnWritten,
         ReturnFlush, RoleWritten, LastWrite, Abort, Ready, NextWaits
<1>4. QED
  BY <1>2, <1>3, FinishGoesOn

LEMMA SyncAdvances ==
  ASSUME IInv, NEW w \in Workers, NEW o \in Outcomes,
         CreateTrunked(w, o) \/ RemoveTrunked(w, o)
  PROVE  GoesOn(job'[w], job[w])
<1>1. Syncs(job[w]) /\ job[w] \in Job
  BY Unchanged DEF CreateTrunked, RemoveTrunked, Ready, Syncs
<1>2. CASE NextTrunk(w)
  <2>1. PICK p \in job[w].todo : Become(w, [job[w] EXCEPT !.port = p, !.todo = @ \ {p}])
    BY <1>2 DEF NextTrunk, IsLeast
  <2> DEFINE k == [job[w] EXCEPT !.port = p, !.todo = @ \ {p}]
  <2>2. /\ k.pc = job[w].pc /\ k.todo = job[w].todo \ {p} /\ k.slots = job[w].slots
        /\ k.seen = job[w].seen /\ Become(w, k)
    BY <1>1, <2>1 DEF Job
  <2> HIDE DEF k
  <2>3. QED
    BY <1>1, <2>2, OnlyJob DEF GoesOn, FewerPorts
<1>3. QED
  BY <1>2, FinishGoesOn DEF CreateTrunked, RemoveTrunked, CreateEnd, RemoveEnd

LEMMA RadioGoesOn ==
  ASSUME IInv, NEW w \in Workers, CreateConfigured(w) \/ RemoveCleared(w)
  PROVE  GoesOn(job'[w], job[w])
<1>1. CASE ~Finish(w)
  <2>1. PICK pc, L :
          /\ BeginSync(w, pc, L)
          /\ <<job[w].pc, pc>> \in {<<"create.config", "create.trunk">>,
                                    <<"remove.clear", "remove.trunk">>}
    BY <1>1 DEF CreateConfigured, RemoveCleared, CreateEnd, RemoveEnd, Abort, Ready
  <2>2. PICK p \in Ports :
          Become(w, [job[w] EXCEPT !.pc = pc, !.port = p, !.todo = Trunks \ {p},
                                   !.vlans = AllocatedVlans(L)])
    BY <2>1 DEF BeginSync
  <2> DEFINE k == [job[w] EXCEPT !.pc = pc, !.port = p, !.todo = Trunks \ {p},
                                 !.vlans = AllocatedVlans(L)]
  <2>3. k.pc = pc /\ Become(w, k)
    BY <2>2, Unchanged DEF Job
  <2> HIDE DEF k
  <2>4. QED
    BY <2>1, <2>3, OnlyJob DEF GoesOn
<1>2. QED
  BY <1>1, FinishGoesOn

LEMMA ProgressGoesOn ==
  ASSUME IInv, NEW w \in Workers, Progress(w)
  PROVE  RadioChecks(w) \/ RadioPosts(w) \/ GoesOn(job'[w], job[w])
BY PortReadGoesOn, ScanGoesOn, RefreshGoesOn, ConnectGoesOn, PortWriteAdvances,
   SyncAdvances, RadioGoesOn
   DEF Progress, ReadSettles, RadioMoves, WriteSettles, PortWrites

(***************************************************************************)
(* Each of these brings a request closer to its end.                       *)
(***************************************************************************)
LEMMA NextWaitCloser ==
  ASSUME NEW j, NEW k, <<j.pc, k.pc>> \in NextWaits, SameLoops(k, j)
  PROVE  Closer(k, j)
<1>1. Part(k.pc) = 2 /\ Part(j.pc) = 2
  BY DEF NextWaits, Part
<1>2. WaitsLeft(k.pc) < WaitsLeft(j.pc)
  <2>1. CASE j.pc \in {"connect.find", "assign.read", "assign.vlan"}
    BY <2>1 DEF NextWaits, WaitsLeft
  <2>2. CASE j.pc \in {"return.read", "return.vlan", "return.enable", "return.flush"}
    BY <2>2 DEF NextWaits, WaitsLeft
  <2>3. CASE j.pc \in {"role.read", "enable.read", "bounce.read"}
    BY <2>3 DEF NextWaits, WaitsLeft
  <2>4. QED
    BY <2>1, <2>2, <2>3 DEF NextWaits
<1>3. NoMore(LeftTo(k), LeftTo(j))
  BY DEF SameLoops, NoMore, LeftTo, Listed
<1>4. QED
  BY <1>1, <1>2, <1>3 DEF Closer

LEMMA LessCloser ==
  ASSUME NEW j, NEW k, Part(k.pc) = Part(j.pc),
         NoMore(LeftTo(k), LeftTo(j)), LeftTo(k) # LeftTo(j)
  PROVE  Closer(k, j)
BY DEF Closer

LEMMA FewerPortsCloser ==
  ASSUME NEW j, NEW k, Part(k.pc) = Part(j.pc), FewerPorts(k, j)
  PROVE  Closer(k, j)
<1>1. NoMore(LeftTo(k), LeftTo(j)) /\ LeftTo(k).todo # LeftTo(j).todo
  BY DEF FewerPorts, NoMore, LeftTo, Listed
<1>2. QED
  BY <1>1, LessCloser

LEMMA GoesOnCloser ==
  ASSUME NEW j \in Job, NEW k \in Job, GoesOn(k, j)
  PROVE  Closer(k, j)
<1>1. CASE k.pc = "idle"
  BY <1>1 DEF Closer
<1>2. CASE <<j.pc, k.pc>> \in NextWaits /\ SameLoops(k, j)
  BY <1>2, NextWaitCloser
<1>3. CASE j.pc = "return.flush" /\ k.pc = "return.read" /\ FewerPorts(k, j)
  BY <1>3, FewerPortsCloser DEF Part
<1>4. CASE /\ j.pc = "create.scan" /\ k.pc = "create.scan"
           /\ \E s \in j.slots : k.slots = j.slots \ {s}
           /\ k.todo = j.todo /\ k.seen = j.seen
  <2>1. NoMore(LeftTo(k), LeftTo(j)) /\ LeftTo(k).slots # LeftTo(j).slots
    BY <1>4 DEF NoMore, LeftTo, Listed
  <2>2. QED
    BY <1>4, <2>1, LessCloser
<1>5. CASE /\ j.pc = "create.scan" /\ k.pc = "create.config"
           /\ k.slots = {} /\ k.todo = j.todo /\ k.seen = j.seen
  <2>1. NoMore(LeftTo(k), LeftTo(j))
    BY <1>5 DEF NoMore, LeftTo, Listed
  <2>2. Part(k.pc) = Part(j.pc) /\ WaitsLeft(k.pc) < WaitsLeft(j.pc)
    BY <1>5 DEF Part, WaitsLeft
  <2>3. QED
    BY <2>1, <2>2 DEF Closer
<1>6. CASE /\ j.pc = "refresh" /\ k.pc = "refresh"
           /\ k.todo = j.todo /\ k.slots = j.slots
           /\ \E n \in Listed(j) : k.seen = [j.seen EXCEPT ![n] = "-"]
  <2>1. PICK n \in Listed(j) : k.seen = [j.seen EXCEPT ![n] = "-"]
    BY <1>6
  <2>2. n \in Ids /\ j.seen \in [Ids -> Statuses \cup {"-"}]
    BY DEF Listed, Job
  <2>3. Listed(k) = Listed(j) \ {n}
    BY <2>1, <2>2 DEF Listed
  <2>4. NoMore(LeftTo(k), LeftTo(j)) /\ LeftTo(k).rows # LeftTo(j).rows
    BY <1>6, <2>3 DEF NoMore, LeftTo
  <2>5. QED
    BY <1>6, <2>4, LessCloser
<1>7. CASE <<j.pc, k.pc>> \in {<<"create.config", "create.trunk">>,
                               <<"remove.clear", "remove.trunk">>}
  BY <1>7 DEF Closer, Part
<1>8. CASE Syncs(j) /\ k.pc = j.pc /\ FewerPorts(k, j)
  BY <1>8, FewerPortsCloser
<1>9. QED
  BY <1>1, <1>2, <1>3, <1>4, <1>5, <1>6, <1>7, <1>8 DEF GoesOn

(***************************************************************************)
(* The radio is at a later stage only while somebody waits for it.         *)
(***************************************************************************)
\* What w waits for settles, and no part of a radio write is done.
Elsewhere(w) == ~OnRadio(job[w]) /\ stage' = stage

LEMMA StepElsewhere ==
  ASSUME IInv, NEW w \in Workers, Request(w) \/ Progress(w)
  PROVE  \/ RadioChecks(w) \/ RadioPosts(w)
         \/ (CreateConfigured(w) \/ RemoveCleared(w)) /\ OnRadio(job[w]) /\ stage' = "status"
         \/ Elsewhere(w)
<1>1. CASE Request(w)
  BY <1>1, RequestWaits DEF Elsewhere, OnRadio, RadioWaits, hardware, radio
<1>2. CASE ReadSettles(w)
  <2>1. stage' = stage
    BY <1>2
       DEF ReadSettles, AssignCheck, ReturnCheck, RoleCheck, PortRead, PortUnreadable,
           CreateScan, RefreshRow, ConnectFound, ConnectLost, hardware, radio
  <2>2. QED
    BY <1>2, <2>1, ReadWaitsOn DEF Elsewhere, OnRadio, RadioWaits, ReadWaits
<1>3. CASE CreateConfigured(w) \/ RemoveCleared(w)
  BY <1>3 DEF CreateConfigured, RemoveCleared, RadioConfirms, RadioRejects, Ready,
              OnRadio, RadioWaits
<1>4. ASSUME NEW o \in Outcomes, WriteSettles(w, o)
      PROVE  Elsewhere(w)
  <2>1. CASE PortWrites(w, o)
    BY <2>1, PortWriteGoesOn
       DEF Elsewhere, OnRadio, RadioWaits, ClientWaits, SwitchSettles, radio
  <2>2. CASE CreateTrunked(w, o) \/ RemoveTrunked(w, o)
    BY <2>2 DEF CreateTrunked, RemoveTrunked, Ready, Elsewhere, OnRadio, RadioWaits,
                SwitchSettles, radio
  <2>3. QED
    BY <1>4, <2>1, <2>2 DEF WriteSettles, PortWrites
<1>5. QED
  BY <1>1, <1>2, <1>3, <1>4 DEF Progress, RadioMoves

LEMMA OthersWait ==
  ASSUME IInv, NEW w \in Workers, Request(w) \/ Progress(w)
  PROVE  \A v \in Workers \ {w} : job'[v] = job[v]
<1>1. CASE RadioChecks(w) \/ RadioPosts(w)
  BY <1>1 DEF RadioChecks, RadioPosts, requests
<1>2. CASE Become(w, job'[w])
  BY <1>2, Unchanged DEF Become
<1>3. QED
  BY <1>1, <1>2, StepBecomes

LEMMA AtWorkNext ==
  ASSUME IInv, RadioAtWork, [Next]_vars
  PROVE  RadioAtWork'
<1>1. ASSUME UNCHANGED <<job, stage>>
      PROVE  RadioAtWork'
  BY <1>1 DEF RadioAtWork, OnRadio
<1>2. ASSUME NEW w \in Workers, Request(w) \/ Progress(w)
      PROVE  RadioAtWork'
  <2>1. CASE RadioChecks(w) \/ RadioPosts(w)
    BY <2>1 DEF RadioChecks, RadioPosts, AtStage, requests, RadioAtWork, OnRadio
  <2>2. CASE Elsewhere(w)
    BY <1>2, <2>2, OthersWait DEF Elsewhere, RadioAtWork, OnRadio
  <2>3. QED
    BY <1>2, <2>1, <2>2, StepElsewhere DEF RadioAtWork
<1>3. CASE Crash
  BY <1>3 DEF Crash, RadioAtWork
<1>4. QED
  BY <1>1, <1>2, <1>3
     DEF Next, RadioApplies, RadioDrops, vars, requests, hardware, radio

(***************************************************************************)
(* Every step advances.                                                    *)
(***************************************************************************)
Advance ==
  /\ \A w \in Workers :
       job[w].pc # "idle" /\ job'[w] # job[w] => Closer(job'[w], job[w])
  /\ job' = job /\ stage' # stage =>
       <<stage, stage'>> \in {<<"status", "post">>, <<"post", "apply">>}

LEMMA StageAdvances ==
  ASSUME IInv, NEW w \in Workers, Request(w) \/ Progress(w), job' = job, stage' # stage
  PROVE  <<stage, stage'>> \in {<<"status", "post">>, <<"post", "apply">>}
<1>1. CASE RadioChecks(w) \/ RadioPosts(w)
  BY <1>1 DEF RadioChecks, RadioPosts, AtStage
<1>2. CASE CreateConfigured(w) \/ RemoveCleared(w)
  <2>1. job[w].pc \in {"create.config", "remove.clear"}
    BY <1>2 DEF CreateConfigured, RemoveCleared, Ready
  <2>2. GoesOn(job[w], job[w])
    BY <1>2, RadioGoesOn
  <2>3. FALSE
    BY <2>1, <2>2 DEF GoesOn, NextWaits, Syncs
  <2>4. QED
    BY <2>3
<1>3. QED
  BY <1>1, <1>2, StepElsewhere DEF Elsewhere

LEMMA StepAdvances ==
  ASSUME IInv, IInv', NEW w \in Workers, Request(w) \/ Progress(w)
  PROVE  Advance
<1>1. \A v \in Workers \ {w} : job'[v] = job[v]
  BY OthersWait
<1>2. ASSUME job[w].pc # "idle", job'[w] # job[w]
      PROVE  Closer(job'[w], job[w])
  <2>1. Progress(w)
    BY <1>2, RequestWaits
  <2>2. job'[w] \in Job /\ job[w] \in Job
    BY DEF IInv, TypeOK, StateTypeOK
  <2>3. ~RadioChecks(w) /\ ~RadioPosts(w)
    BY <1>2 DEF RadioChecks, RadioPosts, requests
  <2>4. QED
    BY <2>1, <2>2, <2>3, ProgressGoesOn, GoesOnCloser
<1>3. QED
  BY <1>1, <1>2, StageAdvances DEF Advance

LEMMA CrashAdvances ==
  ASSUME IInv, RadioAtWork, Crash
  PROVE  Advance
<1>1. \A w \in Workers : job'[w].pc = "idle"
  BY DEF Crash, Idle
<1>2. job' = job => stage' = stage
  BY <1>1 DEF Crash, RadioAtWork, OnRadio, RadioWaits
<1>3. QED
  BY <1>1, <1>2 DEF Advance, Closer

LEMMA NextAdvances ==
  ASSUME IInv, RadioAtWork, [Next]_vars
  PROVE  [Advance]_vars
<1>1. IInv'
  BY NextInv
<1>2. CASE RadioApplies \/ RadioDrops \/ UNCHANGED vars
  <2>1. UNCHANGED <<job, stage>>
    BY <1>2 DEF RadioApplies, RadioDrops, vars, requests, hardware, radio
  <2>2. QED
    BY <2>1 DEF Advance
<1>3. QED
  BY <1>1, <1>2, StepAdvances, CrashAdvances DEF Next

\* Whatever overlaps and fails, no request loops for ever over ports, slots or
\* rows or waits twice for the same thing: each of its steps brings it closer to
\* its end, also within a radio write, and nobody else's step takes it back.
THEOREM AdvanceTheorem == Spec => RequestsAdvance
<1>1. Init => RadioAtWork
  BY DEF Init, StateInit, RadioAtWork
<1>2. IInv /\ RadioAtWork /\ [Next]_vars => RadioAtWork'
  BY AtWorkNext
<1>3. IInv /\ RadioAtWork /\ [Next]_vars => [Advance]_vars
  BY NextAdvances
<1>4. Spec => [][Advance]_vars
  BY <1>1, <1>2, <1>3, Invariance, PTL DEF Spec
<1>5. QED
  BY <1>4 DEF RequestsAdvance, Advance

(***************************************************************************)
(* Somebody is served.                                                     *)
(***************************************************************************)
LEMMA SwitchQueuesNext ==
  ASSUME IInv, SwitchQueueOK, [Next]_vars
  PROVE  SwitchQueueOK'
<1>1. ASSUME UNCHANGED <<job, swq>>
      PROVE  SwitchQueueOK'
  BY <1>1 DEF SwitchQueueOK, OnSwitch
<1>2. ASSUME NEW w \in Workers, Request(w) \/ Progress(w)
      PROVE  SwitchQueueOK'
  <2>1. CASE RadioChecks(w) \/ RadioPosts(w)
    BY <1>1, <2>1 DEF RadioChecks, RadioPosts, requests
  <2>2. CASE Served(w) /\ Become(w, job'[w])
    <3>1. IInv'
      BY NextInv
    <3>2. QED
      BY <2>2, <3>1, QueuesStep
  <2>3. QED
    BY <1>2, <2>1, <2>2, StepBecomes
<1>3. CASE Crash
  <2>1. /\ \A w \in Workers : job'[w].pc = "idle"
        /\ \A s \in Switches : 1 .. Len(swq'[s]) = {}
    BY <1>3 DEF Crash, Idle
  <2>2. QED
    BY <2>1 DEF SwitchQueueOK, OnSwitch, SwitchWaits, VlanWaits
<1>4. QED
  BY <1>1, <1>2, <1>3 DEF Next, RadioApplies, RadioDrops, vars, requests

LEMMA HeadWaits ==
  ASSUME NEW q \in Seq(Workers), NEW i \in 1 .. Len(q)
  PROVE  q # <<>> /\ Head(q) \in Workers /\ 1 \in 1 .. Len(q) /\ q[1] = Head(q)
BY EmptySeq, HeadTailProperties, LenProperties

LEMMA SomebodyServed ==
  ASSUME IInv, SwitchQueueOK, NEW w \in Workers, job[w].pc # "idle"
  PROVE  \E v \in Workers :
           Ready(v, job[v].pc) /\ (v = w \/ SameQueue(job[v], job[w]))
<1>1. CASE OnSwitch(job[w])
  <2>1. PICK s \in Switches : s = SwitchOf[job[w].port]
    BY <1>1, PortOfWait
  <2>2. PICK i \in 1 .. Len(swq[s]) : swq[s][i] = w
    BY <1>1, <2>1 DEF SwitchQueueOK
  <2>3. swq[s] \in Seq(Workers)
    BY DEF IInv, TypeOK, StateTypeOK
  <2>4. PICK v \in Workers : Serves(swq[s], v) /\ swq[s][1] = v /\ 1 \in 1 .. Len(swq[s])
    BY <2>3, HeadWaits DEF Serves
  <2>5. OnSwitch(job[v]) /\ SwitchOf[job[v].port] = s
    BY <2>4 DEF SwitchQueueOK
  <2>6. ~OnRadio(job[v])
    BY <2>5 DEF OnSwitch, OnRadio, RadioWaits, SwitchWaits, VlanWaits
  <2>7. QED
    BY <1>1, <2>1, <2>4, <2>5, <2>6 DEF Ready, SameQueue
<1>2. CASE OnRadio(job[w])
  <2>1. PICK i \in 1 .. Len(apq) : apq[i] = w
    BY <1>2 DEF IInv, RequestsOK, RadioQueueOK
  <2>2. apq \in Seq(Workers)
    BY DEF IInv, TypeOK, StateTypeOK
  <2>3. PICK v \in Workers : Serves(apq, v) /\ apq[1] = v /\ 1 \in 1 .. Len(apq)
    BY <2>2, HeadWaits DEF Serves
  <2>4. OnRadio(job[v])
    BY <2>3 DEF IInv, RequestsOK, RadioQueueOK
  <2>5. ~OnSwitch(job[v])
    BY <2>4 DEF OnSwitch, OnRadio, RadioWaits, SwitchWaits, VlanWaits
  <2>6. QED
    BY <1>2, <2>3, <2>4, <2>5 DEF Ready, SameQueue
<1>3. CASE ~OnSwitch(job[w]) /\ ~OnRadio(job[w])
  BY <1>3 DEF Ready
<1>4. QED
  BY <1>1, <1>2, <1>3

\* The write queues never deadlock: whatever is in flight and has failed, in the
\* queue of each waiting request some request is served, and no request waits in
\* two queues.
THEOREM NobodyStuckTheorem == Spec => []NobodyStuck
<1>1. Init => SwitchQueueOK
  BY TrunkInit DEF TrunkInv
<1>2. IInv /\ SwitchQueueOK /\ [Next]_vars => SwitchQueueOK'
  BY SwitchQueuesNext
<1>3. IInv /\ SwitchQueueOK => NobodyStuck
  BY SomebodyServed DEF NobodyStuck
<1>4. QED
  BY <1>1, <1>2, <1>3, Invariance, PTL DEF Spec

(***************************************************************************)
(* How a removal ends.                                                     *)
(***************************************************************************)
Settled(n) == n \notin live \/ status[n] = "error"

LEMMA AbortSettles ==
  ASSUME IInv, NEW w \in Workers, NEW n \in Ids, job[w].net = n, Abort(w), live' = live
  PROVE  Settled(n)'
<1>1. n # None
  BY IdAssumption DEF None
<1>2. SetStatus(n, "error")
  BY <1>1 DEF Abort
<1>3. QED
  BY <1>2, Unchanged DEF SetStatus, Settled

\* The request goes on as j, and still removes n.
LEMMA StillRemoves ==
  ASSUME IInv, NEW w \in Workers, NEW n, NEW j, Become(w, j), j.net = n,
         j.pc \in ReturnWaits \cup {"remove.clear"}
  PROVE  Removing(w, n)'
BY OnlyJob DEF Removing, ReturnWaits

LEMMA RemovalGoesOn ==
  ASSUME IInv, NEW w \in Workers, NEW n, Removing(w, n), NEW pc \in ReturnWaits,
         Become(w, [job[w] EXCEPT !.pc = pc])
  PROVE  Removing(w, n)'
<1> DEFINE j == [job[w] EXCEPT !.pc = pc]
<1>1. j.pc = pc /\ j.net = n /\ Become(w, j)
  BY Unchanged DEF Job, Removing
<1> HIDE DEF j
<1>2. QED
  BY <1>1, StillRemoves

LEMMA NextPortRemoves ==
  ASSUME IInv, NEW w \in Workers, NEW n, Removing(w, n), NextPort(w, job[w])
  PROVE  Removing(w, n)'
<1>1. job[w] \in Job /\ job[w].net = n
  BY Unchanged DEF Removing
<1>2. CASE Become(w, [job[w] EXCEPT !.pc = "remove.clear", !.port = None])
  <2> DEFINE j == [job[w] EXCEPT !.pc = "remove.clear", !.port = None]
  <2>1. j.pc = "remove.clear" /\ j.net = n /\ Become(w, j)
    BY <1>1, <1>2 DEF Job
  <2> HIDE DEF j
  <2>2. QED
    BY <2>1, StillRemoves
<1>3. ASSUME NEW p,
             Become(w, [job[w] EXCEPT !.pc = "return.read", !.port = p, !.todo = @ \ {p}])
      PROVE  Removing(w, n)'
  <2> DEFINE j == [job[w] EXCEPT !.pc = "return.read", !.port = p, !.todo = @ \ {p}]
  <2>1. j.pc = "return.read" /\ j.net = n /\ Become(w, j)
    BY <1>1, <1>3 DEF Job
  <2> HIDE DEF j
  <2>2. QED
    BY <2>1, StillRemoves DEF ReturnWaits
<1>4. QED
  BY <1>2, <1>3 DEF NextPort

LEMMA RemovalStep ==
  ASSUME IInv, NEW w \in Workers, NEW n \in Ids, Removing(w, n), Progress(w)
  PROVE  Removing(w, n)' \/ Settled(n)'
<1>1. job[w].pc \in ReturnWaits \cup {"remove.clear"} /\ job[w].net = n /\ n # None
  BY IdAssumption DEF Removing, ReturnWaits, None
<1>2. CASE ReturnCheck(w)
  BY <1>1, <1>2, RemovalGoesOn, AbortSettles DEF ReturnCheck, ReturnWaits
<1>3. CASE PortUnreadable(w)
  <2>1. job[w].pc = "return.read"
    BY <1>1, <1>3 DEF PortUnreadable, Ready, ReturnWaits
  <2>2. QED
    BY <1>1, <1>3, <2>1, AbortSettles DEF PortUnreadable
<1>4. ASSUME NEW o \in Outcomes, ReturnVlan(w, o) \/ ReturnEnable(w, o)
      PROVE  Removing(w, n)' \/ Settled(n)'
  BY <1>1, <1>4, RemovalGoesOn, AbortSettles
     DEF ReturnVlan, ReturnEnable, ReturnWritten, ReturnWaits
<1>5. ASSUME NEW o \in Outcomes, ReturnFlush(w, o)
      PROVE  Removing(w, n)' \/ Settled(n)'
  <2>1. NextPort(w, job[w]) \/ (Abort(w) /\ live' = live)
    BY <1>1, <1>5 DEF ReturnFlush
  <2>2. QED
    BY <1>1, <2>1, NextPortRemoves, AbortSettles
<1>6. CASE RemoveCleared(w)
  <2>1. DeleteRow(n) \/ (Abort(w) /\ live' = live)
    BY <1>1, <1>6 DEF RemoveCleared
  <2>2. QED
    BY <1>1, <2>1, AbortSettles DEF DeleteRow, Settled
<1>7. CASE RadioChecks(w) \/ RadioPosts(w)
  BY <1>7 DEF RadioChecks, RadioPosts, requests, Removing
<1>8. QED
  <2>1. ReadSettles(w) => ReturnCheck(w) \/ PortUnreadable(w)
    BY <1>1
       DEF ReadSettles, AssignCheck, RoleCheck, PortRead, CreateScan, RefreshRow,
           ConnectFound, ConnectLost, Ready, ReturnWaits
  <2>2. ASSUME NEW o \in Outcomes, WriteSettles(w, o)
        PROVE  ReturnVlan(w, o) \/ ReturnEnable(w, o) \/ ReturnFlush(w, o)
    BY <1>1, <2>2
       DEF WriteSettles, AssignWritten, AssignUndone, RoleWritten, LastWrite,
           CreateTrunked, RemoveTrunked, Ready, ReturnWaits
  <2>3. ~CreateConfigured(w)
    BY <1>1 DEF CreateConfigured, Ready, ReturnWaits
  <2>4. QED
    BY <1>2, <1>3, <1>4, <1>5, <1>6, <1>7, <2>1, <2>2, <2>3 DEF Progress, RadioMoves

Removals ==
  \A w \in Workers, n \in Ids : Removing(w, n) => Removing(w, n)' \/ Settled(n)'

LEMMA NextRemovals ==
  ASSUME IInv, "crash" \notin Ops, Next
  PROVE  Removals
<1>1. ASSUME NEW w \in Workers, Request(w) \/ Progress(w)
      PROVE  Removals
  <2>1. \A v \in Workers \ {w} : job'[v] = job[v]
    BY <1>1, OthersWait
  <2>2. ASSUME NEW n \in Ids, Removing(w, n)
        PROVE  Removing(w, n)' \/ Settled(n)'
    <3>1. Progress(w)
      BY <1>1, <2>2, RequestWaits DEF Removing
    <3>2. QED
      BY <2>2, <3>1, RemovalStep
  <2>3. QED
    BY <2>1, <2>2 DEF Removals, Removing
<1>2. CASE RadioApplies \/ RadioDrops
  BY <1>2 DEF RadioApplies, RadioDrops, requests, Removals, Removing
<1>3. ~Crash
  BY DEF Crash
<1>4. QED
  BY <1>1, <1>2, <1>3 DEF Next

\* Unless the server crashes, a removal ends only with its network gone or marked
\* for the operator, whatever fails on its ports, trunks and radio and whatever
\* else is asked meanwhile, another removal of the network included.
THEOREM RemovalTheorem == "crash" \notin Ops => (Spec => [][Removals]_vars)
<1> SUFFICES ASSUME "crash" \notin Ops
             PROVE  Spec => [][Removals]_vars
  OBVIOUS
<1>1. IInv /\ [Next]_vars => [Removals]_vars
  BY NextRemovals
<1>2. QED
  BY <1>1, Invariance, PTL DEF Spec

(***************************************************************************)
(* A create that ends well has reached the trunks.                         *)
(***************************************************************************)
\* No switch write stops half-way, and nobody asks for a role or a refresh.
Plain ==
  /\ "torn" \notin Faults
  /\ Ops \cap {"role", "refresh", "crash"} = {}

Up(n) == status[n] \in {"waiting-for-robot", "online"}

Reaches == CreatesReach /\ UpCarried

\* No row is changed but by being deleted or losing a status that says it is up.
NoNewUp ==
  \A n \in live' :
    \/ n \in live /\ net'[n] = net[n] /\ (Up(n)' => Up(n))
    \/ n \notin used /\ ~Up(n)'

LEMMA CreatesGranted ==
  ASSUME IInv, NEW v \in Workers, job[v].pc = "create.trunk"
  PROVE  job[v].net \in used
BY DEF IInv, RequestsOK, JobsOK, JobOK, NetWaits, Granted

LEMMA UpLive ==
  ASSUME IInv, NoNewUp, NEW n \in live', n \in used \/ Up(n)'
  PROVE  n \in live /\ net'[n] = net[n] /\ (Up(n)' => Up(n))
BY DEF NoNewUp

\* A step that has to do with no sync.
LEMMA NoSyncReaches ==
  ASSUME IInv, Reaches, NEW w \in Workers, QueuesKept(w),
         ~Syncs(job[w]), ~Syncs(job'[w]), TrunkVlansKept, NoNewUp
  PROVE  Reaches'
<1>1. \A v \in Workers : Syncs(job'[v]) => v # w /\ job'[v] = job[v]
  BY DEF QueuesKept
<1>2. ASSUME NEW v \in Workers, job'[v].pc = "create.trunk", job'[v].net \in live'
      PROVE  /\ Lists(v, job[v].net)'
             /\ \A u \in Workers : Syncs(job'[u]) => Lists(u, job[v].net)' \/ Behind(v, u)'
             /\ \A p \in Trunks' : p < job'[v].port => Carries(p, job[v].net)'
  <2>1. v # w /\ job'[v] = job[v] /\ job[v].pc = "create.trunk"
    BY <1>1, <1>2 DEF Syncs
  <2>2. PICK n : n = job[v].net /\ n \in live /\ net'[n] = net[n]
    BY <1>2, <2>1, CreatesGranted, UpLive
  <2>3. /\ Lists(v, n)
        /\ \A u \in Workers : Syncs(job[u]) => Lists(u, n) \/ Behind(v, u)
        /\ \A p \in Trunks : p < job[v].port => Carries(p, n)
    BY <2>1, <2>2 DEF Reaches, CreatesReach
  <2>4. ASSUME NEW u \in Workers, Syncs(job'[u])
        PROVE  Lists(u, n)' \/ Behind(v, u)'
    <3>1. u # w /\ job'[u] = job[u]
      BY <1>1, <2>4
    <3>2. CASE Lists(u, n)
      BY <2>2, <3>1, <3>2 DEF Lists
    <3>3. CASE Behind(v, u)
      BY <2>1, <2>4, <3>1, <3>3, BehindKept
    <3>4. QED
      BY <2>3, <2>4, <3>1, <3>2, <3>3
  <2>5. QED
    BY <2>1, <2>2, <2>3, <2>4 DEF Lists, Carries, TrunkVlansKept
<1>3. ASSUME NEW n \in live', Up(n)'
      PROVE  /\ \A v \in Workers : Syncs(job'[v]) => Lists(v, n)'
             /\ \A p \in Trunks' : Carries(p, n)'
  <2>1. n \in live /\ net'[n] = net[n] /\ Up(n)
    BY <1>3, UpLive
  <2>2. /\ \A v \in Workers : Syncs(job[v]) => Lists(v, n)
        /\ \A p \in Trunks : Carries(p, n)
    BY <2>1 DEF Reaches, UpCarried, Up
  <2>3. QED
    BY <1>1, <2>1, <2>2 DEF Lists, Carries, TrunkVlansKept
<1>4. CreatesReach'
  <2>1. ASSUME NEW v \in Workers, job'[v].pc = "create.trunk"
        PROVE  job'[v].net = job[v].net
    BY <1>1, <2>1 DEF Syncs
  <2>2. QED
    BY <1>2, <2>1 DEF CreatesReach, Syncs
<1>5. UpCarried'
  BY <1>3 DEF UpCarried, Up, Syncs
<1>6. QED
  BY <1>4, <1>5 DEF Reaches

\* A sync that has just begun has the VLANs of all rows, and is behind all others.
LEMMA SyncBeginsReaches ==
  ASSUME IInv, SyncsOnTrunks, Reaches, NEW w \in Workers, QueuesKept(w),
         ~Syncs(job[w]), Syncs(job'[w]), job'[w].port \in Trunks,
         \A p \in Trunks : job'[w].port <= p,
         job'[w].vlans = AllocatedVlans(live)', TrunkVlansKept, NoNewUp
  PROVE  Reaches'
<1>1. /\ \A p \in Trunks : p \in Nat
      /\ \A v \in Workers \ {w} : job'[v] = job[v]
  BY TopologyAssumption DEF Trunks, QueuesKept
<1>2. \A n \in live' : Lists(w, n)'
  BY DEF Lists, AllocatedVlans
<1>3. ASSUME NEW u \in Workers \ {w}, Syncs(job[u])
      PROVE  Behind(w, u)'
  <2>1. job[u].port \in Trunks
    BY <1>3 DEF SyncsOnTrunks, OnTrunks
  <2>2. job'[w].port < job[u].port \/ job'[w].port = job[u].port
    BY <1>1, <2>1
  <2>3. QED
    BY <1>3, <2>2, JoinsBehind
<1>4. ASSUME NEW v \in Workers \ {w}, job'[v].pc = "create.trunk", job'[v].net \in live'
      PROVE  /\ Lists(v, job[v].net)'
             /\ \A u \in Workers : Syncs(job'[u]) => Lists(u, job[v].net)' \/ Behind(v, u)'
             /\ \A p \in Trunks' : p < job'[v].port => Carries(p, job[v].net)'
  <2>1. job'[v] = job[v] /\ job[v].pc = "create.trunk"
    BY <1>1, <1>4
  <2>2. PICK n : n = job[v].net /\ n \in live /\ net'[n] = net[n]
    BY <1>4, <2>1, CreatesGranted, UpLive
  <2>3. /\ Lists(v, n)
        /\ \A u \in Workers : Syncs(job[u]) => Lists(u, n) \/ Behind(v, u)
        /\ \A p \in Trunks : p < job[v].port => Carries(p, n)
    BY <2>1, <2>2 DEF Reaches, CreatesReach
  <2>4. ASSUME NEW u \in Workers \ {w}, Syncs(job'[u])
        PROVE  Lists(u, n)' \/ Behind(v, u)'
    <3>1. job'[u] = job[u]
      BY <1>1
    <3>2. CASE Lists(u, n)
      BY <2>2, <3>1, <3>2 DEF Lists
    <3>3. CASE Behind(v, u)
      BY <2>1, <2>4, <3>1, <3>3, BehindKept
    <3>4. QED
      BY <2>3, <2>4, <3>1, <3>2, <3>3
  <2>5. Lists(w, n)'
    BY <1>2, <1>4, <2>1, <2>2
  <2>6. QED
    BY <2>1, <2>2, <2>3, <2>4, <2>5 DEF Lists, Carries, TrunkVlansKept
<1>5. ASSUME job'[w].pc = "create.trunk", NEW n \in live'
      PROVE  /\ \A u \in Workers : Syncs(job'[u]) => Lists(u, n)' \/ Behind(w, u)'
             /\ \A p \in Trunks' : ~(p < job'[w].port)
  <2>1. \A u \in Workers : Syncs(job'[u]) => Lists(u, n)' \/ Behind(w, u)'
    BY <1>1, <1>2, <1>3
  <2>2. job'[w].port \in Nat /\ Trunks' = Trunks
    BY <1>1 DEF TrunkVlansKept
  <2>3. QED
    BY <1>1, <2>1, <2>2
<1>6. ASSUME NEW n \in live', Up(n)'
      PROVE  /\ \A v \in Workers : Syncs(job'[v]) => Lists(v, n)'
             /\ \A p \in Trunks' : Carries(p, n)'
  <2>1. n \in live /\ net'[n] = net[n] /\ Up(n)
    BY <1>6, UpLive
  <2>2. /\ \A v \in Workers : Syncs(job[v]) => Lists(v, n)
        /\ \A p \in Trunks : Carries(p, n)
    BY <2>1 DEF Reaches, UpCarried, Up
  <2>3. QED
    BY <1>1, <1>2, <2>1, <2>2 DEF Lists, Carries, TrunkVlansKept
<1>7. CreatesReach'
  <2>1. ASSUME NEW v \in Workers, job'[v].pc = "create.trunk", NEW n \in live',
               n = job'[v].net
        PROVE  /\ Lists(v, n)'
               /\ \A u \in Workers : Syncs(job'[u]) => Lists(u, n)' \/ Behind(v, u)'
               /\ \A p \in Trunks' : p < job'[v].port => Carries(p, n)'
    BY <1>1, <1>2, <1>4, <1>5, <2>1
  <2>2. QED
    BY <2>1 DEF CreatesReach, Syncs, Lists, Carries
<1>8. UpCarried'
  BY <1>6 DEF UpCarried, Up, Syncs
<1>9. QED
  BY <1>7, <1>8 DEF Reaches

(***************************************************************************)
(* A sync write: the trunk has the list of its request, or is as it was.   *)
(***************************************************************************)
Rewrites(w) ==
  /\ Syncs(job[w]) /\ UNCHANGED <<live, net>> /\ Trunks' = Trunks
  /\ sw'[job[w].port].tagged \in {sw[job[w].port].tagged, job[w].vlans}
  /\ \A p \in Trunks \ {job[w].port} : sw'[p] = sw[p]

\* w goes on to a later trunk with the list it has, or ends.
VisitsOn(w) ==
  Syncs(job'[w]) =>
    /\ job'[w].vlans = job[w].vlans
    /\ job'[w].port \in Trunks /\ job[w].port < job'[w].port

\* What another create relies on stays so.
LEMMA OthersReach ==
  ASSUME IInv, SyncsOnTrunks, Reaches, NEW w \in Workers, QueuesKept(w), Rewrites(w),
         VisitsOn(w), NEW v \in Workers \ {w}, job[v].pc = "create.trunk",
         NEW n \in live, n = job[v].net
  PROVE  /\ Lists(v, n)'
         /\ \A u \in Workers : Syncs(job'[u]) => Lists(u, n)' \/ Behind(v, u)'
         /\ \A p \in Trunks : p < job'[v].port => Carries(p, n)'
<1>1. /\ \A p \in Trunks : p \in Nat
      /\ \A u \in Workers \ {w} : job'[u] = job[u]
      /\ Syncs(job[v]) /\ job[v].port \in Trunks /\ job[w].port \in Trunks
      /\ net' = net
  BY TopologyAssumption DEF Trunks, QueuesKept, Syncs, Rewrites, SyncsOnTrunks, OnTrunks
<1>2. /\ Lists(v, n)
      /\ \A u \in Workers : Syncs(job[u]) => Lists(u, n) \/ Behind(v, u)
      /\ \A p \in Trunks : p < job[v].port => Carries(p, n)
  BY DEF Reaches, CreatesReach
<1>3. Lists(w, n) \/ Behind(v, w)
  BY <1>2 DEF Rewrites
<1>4. ASSUME NEW u \in Workers, Syncs(job'[u])
      PROVE  Lists(u, n)' \/ Behind(v, u)'
  <2>1. CASE u # w
    <3>1. job'[u] = job[u]
      BY <1>1, <2>1
    <3>2. CASE Lists(u, n)
      BY <1>1, <3>1, <3>2 DEF Lists
    <3>3. CASE Behind(v, u)
      BY <1>4, <2>1, <3>1, <3>3, BehindKept
    <3>4. QED
      BY <1>2, <1>4, <3>1, <3>2, <3>3
  <2>2. CASE u = w /\ Lists(w, n)
    BY <1>1, <1>4, <2>2 DEF Lists, VisitsOn
  <2>3. CASE u = w /\ Behind(v, w)
    <3>1. job[v].port <= job[w].port
      BY <1>1, <2>3 DEF Behind
    <3>2. job[v].port < job'[w].port
      BY <1>1, <1>4, <2>3, <3>1 DEF VisitsOn
    <3>3. QED
      BY <1>1, <2>3, <3>2 DEF Behind, Syncs
  <2>4. QED
    BY <1>3, <2>1, <2>2, <2>3
<1>5. ASSUME NEW p \in Trunks, p < job[v].port
      PROVE  Carries(p, n)'
  <2>1. CASE p # job[w].port
    BY <1>1, <1>2, <1>5, <2>1 DEF Carries, Rewrites
  <2>2. CASE p = job[w].port
    <3>1. ~Behind(v, w)
      BY <1>1, <1>5, <2>2 DEF Behind
    <3>2. Lists(w, n) /\ Carries(p, n)
      BY <1>2, <1>3, <1>5, <3>1
    <3>3. QED
      BY <1>1, <2>2, <3>2 DEF Carries, Lists, Rewrites
  <2>3. QED
    BY <2>1, <2>2
<1>6. QED
  BY <1>1, <1>2, <1>4, <1>5 DEF Lists

\* A network that was shown as up stays on the trunks.
LEMMA UpStays ==
  ASSUME SyncsOnTrunks, Reaches, NEW w \in Workers, QueuesKept(w), Rewrites(w),
         VisitsOn(w), NEW n \in live, Up(n)
  PROVE  /\ \A v \in Workers : Syncs(job'[v]) => Lists(v, n)'
         /\ \A p \in Trunks : Carries(p, n)'
<1>1. /\ \A v \in Workers : Syncs(job[v]) => Lists(v, n)
      /\ \A p \in Trunks : Carries(p, n)
  BY DEF Reaches, UpCarried, Up
<1>2. Lists(w, n) /\ job[w].port \in Trunks /\ net' = net
  BY <1>1 DEF Rewrites, SyncsOnTrunks, OnTrunks
<1>3. QED
  BY <1>1, <1>2 DEF Lists, Carries, Rewrites, VisitsOn, QueuesKept

\* Where the other creates are, after a sync write.
OthersReached(w) ==
  \A v \in Workers \ {w}, n \in live :
    job'[v].pc = "create.trunk" /\ n = job'[v].net =>
      /\ Lists(v, n)'
      /\ \A u \in Workers : Syncs(job'[u]) => Lists(u, n)' \/ Behind(v, u)'
      /\ \A p \in Trunks : p < job'[v].port => Carries(p, n)'

LEMMA OthersKept ==
  ASSUME IInv, SyncsOnTrunks, Reaches, NEW w \in Workers, QueuesKept(w), Rewrites(w),
         VisitsOn(w)
  PROVE  OthersReached(w)
<1>1. \A v \in Workers \ {w} : job'[v] = job[v]
  BY DEF QueuesKept
<1>2. QED
  BY <1>1, OthersReach DEF OthersReached

\* A sync ends before its trunks, or a removal's at the last one.
LEMMA SyncStopsReaches ==
  ASSUME IInv, SyncsOnTrunks, Reaches, NEW w \in Workers, QueuesKept(w), Rewrites(w),
         ~Syncs(job'[w]), \A n \in live : Up(n)' => Up(n)
  PROVE  Reaches'
<1>1. VisitsOn(w) /\ live' = live /\ Trunks' = Trunks
  BY DEF VisitsOn, Rewrites
<1>2. OthersReached(w)
  BY <1>1, OthersKept
<1>3. CreatesReach'
  BY <1>1, <1>2 DEF OthersReached, CreatesReach, Syncs
<1>4. ASSUME NEW n \in live', Up(n)'
      PROVE  /\ \A v \in Workers : Syncs(job'[v]) => Lists(v, n)'
             /\ \A p \in Trunks' : Carries(p, n)'
  BY <1>1, <1>4, UpStays
<1>5. UpCarried'
  BY <1>4 DEF UpCarried, Up, Syncs
<1>6. QED
  BY <1>3, <1>5 DEF Reaches

\* It goes on with the next one.
LEMMA SyncGoesOnReaches ==
  ASSUME IInv, SyncsOnTrunks, Reaches, NEW w \in Workers, QueuesKept(w), Rewrites(w),
         sw'[job[w].port].tagged = job[w].vlans, status' = status,
         job'[w].pc = job[w].pc, job'[w].net = job[w].net, VisitsOn(w),
         \A p \in Trunks : job'[w].port <= p \/ p <= job[w].port
  PROVE  Reaches'
<1>1. /\ \A p \in Trunks : p \in Nat
      /\ \A u \in Workers \ {w} : job'[u] = job[u]
      /\ Syncs(job[w]) /\ Syncs(job'[w]) /\ job[w].port \in Trunks /\ live' = live
      /\ net' = net /\ Trunks' = Trunks
      /\ job'[w].vlans = job[w].vlans
      /\ job'[w].port \in Trunks /\ job[w].port < job'[w].port
  BY TopologyAssumption
     DEF Trunks, QueuesKept, Syncs, Rewrites, SyncsOnTrunks, OnTrunks, VisitsOn
<1>2. OthersReached(w)
  BY OthersKept
<1>3. ASSUME job[w].pc = "create.trunk", NEW n \in live, n = job[w].net
      PROVE  /\ Lists(w, n)'
             /\ \A u \in Workers : Syncs(job'[u]) => Lists(u, n)' \/ Behind(w, u)'
             /\ \A p \in Trunks : p < job'[w].port => Carries(p, n)'
  <2>1. /\ Lists(w, n)
        /\ \A u \in Workers : Syncs(job[u]) => Lists(u, n) \/ Behind(w, u)
        /\ \A p \in Trunks : p < job[w].port => Carries(p, n)
    BY <1>3 DEF Reaches, CreatesReach
  <2>2. Lists(w, n)'
    BY <1>1, <2>1 DEF Lists
  <2>3. ASSUME NEW u \in Workers \ {w}, Syncs(job'[u])
        PROVE  Lists(u, n)' \/ Behind(w, u)'
    <3>1. job'[u] = job[u] /\ job[u].port \in Trunks /\ Syncs(job[u])
      BY <1>1, <2>3 DEF SyncsOnTrunks, OnTrunks
    <3>2. CASE Lists(u, n)
      BY <1>1, <3>1, <3>2 DEF Lists
    <3>3. CASE Behind(w, u)
      <4>1. ~Before(swq[SwitchOf[job[u].port]], u, w) \/ job[w].port # job[u].port
        BY <1>1, SyncWaits DEF QueuesKept
      <4>2. job[w].port < job[u].port
        BY <3>3, <4>1 DEF Behind
      <4>3. job'[w].port <= job[u].port
        BY <1>1, <3>1, <4>2
      <4>4. job'[w].port < job[u].port \/ job'[w].port = job[u].port
        BY <1>1, <3>1, <4>3
      <4>5. QED
        BY <1>1, <3>1, <4>4, JoinsBehind
    <3>4. QED
      BY <2>1, <3>1, <3>2, <3>3
  <2>4. ASSUME NEW p \in Trunks, p < job'[w].port
        PROVE  Carries(p, n)'
    <3>1. p < job[w].port \/ p = job[w].port
      BY <1>1, <2>4
    <3>2. CASE p < job[w].port
      <4>1. p # job[w].port
        BY <1>1, <3>2
      <4>2. QED
        BY <1>1, <2>1, <3>2, <4>1 DEF Carries, Rewrites
    <3>3. CASE p = job[w].port
      BY <1>1, <2>1, <3>3 DEF Carries, Lists
    <3>4. QED
      BY <3>1, <3>2, <3>3
  <2>5. QED
    BY <2>2, <2>3, <2>4
<1>4. CreatesReach'
  BY <1>1, <1>2, <1>3 DEF OthersReached, CreatesReach, Syncs
<1>5. ASSUME NEW n \in live', Up(n)'
      PROVE  /\ \A v \in Workers : Syncs(job'[v]) => Lists(v, n)'
             /\ \A p \in Trunks' : Carries(p, n)'
  <2>1. n \in live /\ Up(n)
    BY <1>1, <1>5 DEF Up
  <2>2. QED
    BY <1>1, <2>1, UpStays
<1>6. UpCarried'
  BY <1>5 DEF UpCarried, Up, Syncs
<1>7. QED
  BY <1>4, <1>6 DEF Reaches

\* It was the last one: nothing is left that lists less.
LEMMA SyncEndsReaches ==
  ASSUME IInv, SyncsOnTrunks, Reaches, NEW w \in Workers, QueuesKept(w), Rewrites(w),
         sw'[job[w].port].tagged = job[w].vlans, job[w].todo = {}, ~Syncs(job'[w]),
         \A n \in live : Up(n)' => Up(n) \/ (job[w].pc = "create.trunk" /\ n = job[w].net)
  PROVE  Reaches'
<1>1. /\ \A p \in Trunks : p \in Nat
      /\ \A u \in Workers \ {w} : job'[u] = job[u]
      /\ Syncs(job[w]) /\ job[w].port \in Trunks /\ live' = live
      /\ net' = net /\ Trunks' = Trunks
  BY TopologyAssumption
     DEF Trunks, QueuesKept, Syncs, Rewrites, SyncsOnTrunks, OnTrunks
<1>2. \A p \in Trunks : p <= job[w].port
  <2>1. {p \in Trunks : p > job[w].port} = {}
    BY <1>1 DEF SyncsOnTrunks, OnTrunks
  <2>2. QED
    BY <1>1, <2>1
<1>3. VisitsOn(w)
  BY DEF VisitsOn
<1>4. CreatesReach'
  BY <1>1, <1>3, OthersKept DEF OthersReached, CreatesReach, Syncs
<1>5. ASSUME NEW n \in live, job[w].pc = "create.trunk", n = job[w].net
      PROVE  /\ \A v \in Workers : Syncs(job'[v]) => Lists(v, n)'
             /\ \A p \in Trunks : Carries(p, n)'
  <2>1. /\ Lists(w, n)
        /\ \A u \in Workers : Syncs(job[u]) => Lists(u, n) \/ Behind(w, u)
        /\ \A p \in Trunks : p < job[w].port => Carries(p, n)
    BY <1>5 DEF Reaches, CreatesReach
  <2>2. ASSUME NEW v \in Workers, Syncs(job'[v])
        PROVE  Lists(v, n)'
    <3>1. job'[v] = job[v] /\ Syncs(job[v]) /\ job[v].port \in Trunks
      BY <1>1, <2>2 DEF SyncsOnTrunks, OnTrunks
    <3>2. ~Before(swq[SwitchOf[job[v].port]], v, w) \/ job[w].port # job[v].port
      BY <1>1, SyncWaits DEF QueuesKept
    <3>3. ~(job[w].port < job[v].port)
      BY <1>1, <1>2, <3>1
    <3>4. Lists(v, n)
      BY <2>1, <3>1, <3>2, <3>3 DEF Behind
    <3>5. QED
      BY <1>1, <3>1, <3>4 DEF Lists
  <2>3. ASSUME NEW p \in Trunks
        PROVE  Carries(p, n)'
    <3>1. CASE p = job[w].port
      BY <1>1, <2>1, <3>1 DEF Carries, Lists
    <3>2. CASE p # job[w].port
      <4>1. p < job[w].port
        BY <1>1, <1>2, <3>2
      <4>2. QED
        BY <1>1, <2>1, <3>2, <4>1 DEF Carries, Rewrites
    <3>3. QED
      BY <3>1, <3>2
  <2>4. QED
    BY <2>2, <2>3
<1>6. ASSUME NEW n \in live', Up(n)'
      PROVE  /\ \A v \in Workers : Syncs(job'[v]) => Lists(v, n)'
             /\ \A p \in Trunks' : Carries(p, n)'
  BY <1>1, <1>3, <1>5, <1>6, UpStays
<1>7. UpCarried'
  BY <1>6 DEF UpCarried, Up, Syncs
<1>8. QED
  BY <1>4, <1>7 DEF Reaches

\* Without trunks there is nothing to reach.
LEMMA NoTrunkReaches ==
  ASSUME SyncsOnTrunks, Trunks = {}
  PROVE  Reaches
<1>1. \A v \in Workers : ~Syncs(job[v])
  BY DEF SyncsOnTrunks, OnTrunks
<1>2. QED
  BY <1>1 DEF Reaches, CreatesReach, UpCarried, Syncs

(***************************************************************************)
(* The steps, when no client asks for a refresh or a role.                 *)
(***************************************************************************)
Disturbing == {"refresh", "role.read", "role.write"}

\* What w goes on with asks for no role, and is no refresh.
GoesOnPlain(w) == job'[w].role # "ap-trunk" /\ job'[w].pc \notin Disturbing

LEMMA RequestPlain ==
  ASSUME IInv, Plain, NEW w \in Workers, Request(w)
  PROVE  GoesOnPlain(w)
<1>1. job \in [Workers -> Job]
  BY Unchanged
<1>2. ASSUME NEW p, NEW n, NEW b, AssignStart(w, p, n, b)
      PROVE  GoesOnPlain(w)
  BY <1>1, <1>2 DEF AssignStart, Become, Idle, GoesOnPlain, Disturbing
<1>3. ASSUME NEW p, NEW b, ReturnStart(w, p, b)
      PROVE  GoesOnPlain(w)
  BY <1>1, <1>3 DEF ReturnStart, Become, Idle, GoesOnPlain, Disturbing
<1>4. ASSUME NEW p, NEW e, EnableStart(w, p, e)
      PROVE  GoesOnPlain(w)
  BY <1>1, <1>4 DEF EnableStart, Become, Idle, GoesOnPlain, Disturbing
<1>5. ASSUME NEW p, BounceStart(w, p)
      PROVE  GoesOnPlain(w)
  BY <1>1, <1>5 DEF BounceStart, Become, Idle, GoesOnPlain, Disturbing
<1>6. ASSUME NEW number, NEW S, CreateStart(w, number, S)
      PROVE  GoesOnPlain(w)
  BY <1>1, <1>6 DEF CreateStart, Become, Idle, GoesOnPlain, Disturbing
<1>7. ASSUME NEW number, ConnectStart(w, number)
      PROVE  GoesOnPlain(w)
  BY <1>1, <1>7 DEF ConnectStart, Become, Idle, GoesOnPlain, Disturbing
<1>8. ASSUME NEW n \in Ids, RemoveStart(w, n)
      PROVE  GoesOnPlain(w)
  <2> DEFINE j == [Idle EXCEPT !.net = n, !.todo = {p \in Ports : owner[p] = n}]
  <2>1. j \in Job /\ j.role = "client"
    BY IdleOK DEF Job, Idle
  <2>2. NextPort(w, j)
    BY <1>8 DEF RemoveStart
  <2> HIDE DEF j
  <2>3. QED
    BY <2>1, <2>2, NextPortWaits, NextPortJob DEF GoesOnPlain, Disturbing
<1>9. QED
  BY <1>2, <1>3, <1>4, <1>5, <1>6, <1>7, <1>8
     DEF Request, PortRequest, TeamRequest, Plain

LEMMA ProgressPlain ==
  ASSUME IInv, SyncsOnTrunks, Undisturbed, NEW w \in Workers, Progress(w)
  PROVE  GoesOnPlain(w)
<1>1. job[w].pc \notin Disturbing /\ job[w].role # "ap-trunk"
  BY DEF Undisturbed, SyncsOnTrunks, OnTrunks, Disturbing
<1>2. job'[w].role \in {job[w].role, "client"}
  BY ProgressJob DEF GoesOnAs
<1>3. CASE RadioChecks(w) \/ RadioPosts(w)
  BY <1>1, <1>3 DEF RadioChecks, RadioPosts, requests, GoesOnPlain
<1>4. CASE GoesOn(job'[w], job[w])
  BY <1>1, <1>2, <1>4 DEF GoesOn, NextWaits, Syncs, GoesOnPlain, Disturbing
<1>5. QED
  BY <1>3, <1>4, ProgressGoesOn

LEMMA ReachStep ==
  ASSUME IInv, IInv', ReachInv, NEW w \in Workers, Served(w), Become(w, job'[w]),
         Trunks' = Trunks, OnTrunks(job[w])', GoesOnPlain(w),
         QueuesKept(w) => Reaches' \/ Trunks = {}
  PROVE  ReachInv'
<1>1. SwitchQueueOK' /\ QueuesKept(w)
  BY QueuesStep DEF ReachInv
<1>2. SyncsOnTrunks'
  BY <1>1, OnTrunksStep DEF ReachInv
<1>3. Trunks = {} => Reaches'
  <2>1. (SyncsOnTrunks /\ Trunks = {} => Reaches)'
    BY NoTrunkReaches, PTL
  <2>2. QED
    BY <1>2, <2>1
<1>4. Undisturbed'
  BY <1>1 DEF ReachInv, Undisturbed, QueuesKept, GoesOnPlain, Disturbing
<1>5. QED
  BY <1>1, <1>2, <1>3, <1>4 DEF ReachInv, Reaches

\* A step of a request that neither comes from a sync nor begins one.
LEMMA OtherReach ==
  ASSUME IInv, IInv', ReachInv, NEW w \in Workers, Served(w), Become(w, job'[w]),
         ~Syncs(job[w]), ~Syncs(job'[w]), TrunkVlansKept, NoNewUp, GoesOnPlain(w),
         job'[w].pc \in ClientWaits => job'[w].port \notin Trunks
  PROVE  ReachInv'
<1>1. Trunks' = Trunks
  BY DEF TrunkVlansKept
<1>2. OnTrunks(job[w])'
  BY <1>1 DEF OnTrunks, Syncs, ClientWaits, GoesOnPlain
<1>3. ASSUME QueuesKept(w)
      PROVE  Reaches'
  BY <1>3, NoSyncReaches DEF ReachInv, Reaches
<1>4. QED
  BY <1>1, <1>2, <1>3, ReachStep

LEMMA SameRowsNoNewUp ==
  ASSUME UNCHANGED <<live, net>>, \A n \in live : Up(n)' => Up(n)
  PROVE  NoNewUp
BY DEF NoNewUp

LEMMA AbortNoNewUp ==
  ASSUME IInv, NEW w \in Workers, Abort(w)
  PROVE  \A n \in live : Up(n)' => Up(n)
BY Unchanged DEF Abort, SetStatus, Up

LEMMA RequestReach ==
  ASSUME IInv, IInv', ReachInv, Plain, NEW w \in Workers, Request(w)
  PROVE  ReachInv'
<1>1. /\ job[w].pc = "idle" /\ job'[w].pc \in StartWaits
      /\ UNCHANGED <<live, net, status, role, sw>>
  BY RequestWaits DEF database, hardware
<1>2. /\ ~Syncs(job[w]) /\ ~Syncs(job'[w]) /\ job'[w].pc \notin ClientWaits
      /\ TrunkVlansKept
  BY <1>1 DEF Syncs, StartWaits, ReadWaits, ClientWaits, TrunkVlansKept, Trunks
<1>3. Served(w) /\ Become(w, job'[w])
  <2>1. ~RadioChecks(w) /\ ~RadioPosts(w)
    BY <1>1 DEF RadioChecks, RadioPosts, AtStage, OnRadio, RadioWaits
  <2>2. QED
    BY <2>1, StepBecomes
<1>4. NoNewUp
  BY <1>1, SameRowsNoNewUp DEF Up
<1>5. QED
  BY <1>1, <1>2, <1>3, <1>4, RequestPlain, OtherReach

LEMMA ScanNoNewUp ==
  ASSUME IInv, NEW w \in Workers, CreateScan(w)
  PROVE  NoNewUp
<1>1. job[w].net \in Ids \ used /\ live \subseteq used
  BY Unchanged DEF CreateScan, Ready, IInv, RequestsOK, JobsOK, JobOK
<1>2. \/ UNCHANGED <<live, net, status>>
      \/ \E s, v : Inserts(job[w].net, job[w].number, s, v)
  BY DEF CreateScan
<1>3. ASSUME NEW s, NEW v, Inserts(job[w].net, job[w].number, s, v)
      PROVE  NoNewUp
  <2>1. /\ live' = live \cup {job[w].net}
        /\ \A n \in live : net'[n] = net[n] /\ status'[n] = status[n]
        /\ status'[job[w].net] = "provisioning"
    BY <1>1, <1>3 DEF Inserts, IInv, TypeOK, StateTypeOK
  <2>2. QED
    BY <1>1, <2>1 DEF NoNewUp, Up
<1>4. QED
  BY <1>2, <1>3, SameRowsNoNewUp DEF Up

LEMMA ReadReach ==
  ASSUME IInv, IInv', ReachInv, NEW w \in Workers, ReadSettles(w)
  PROVE  ReachInv'
<1>1. /\ job[w].pc \in ReadWaits /\ UNCHANGED <<role, sw>>
      /\ job'[w].pc \notin {"create.trunk", "remove.trunk"}
      /\ job'[w].pc \in ClientWaits =>
           job'[w].port = job[w].port /\ Assignable(job[w].port)
  BY ReadWaitsOn DEF ReadGoesOn
<1>2. /\ ~Syncs(job[w]) /\ ~Syncs(job'[w]) /\ TrunkVlansKept
      /\ job'[w].pc \in ClientWaits => job'[w].port \notin Trunks
  BY <1>1 DEF Syncs, ReadWaits, TrunkVlansKept, Trunks, Assignable
<1>3. Served(w) /\ Become(w, job'[w])
  <2>1. ~RadioChecks(w) /\ ~RadioPosts(w)
    BY <1>1 DEF RadioChecks, RadioPosts, AtStage, OnRadio, RadioWaits, ReadWaits
  <2>2. QED
    BY <2>1, StepBecomes DEF Progress
<1>4. NoNewUp
  <2>1. ~RefreshRow(w)
    BY DEF RefreshRow, Ready, ReachInv, Undisturbed
  <2>2. CASE UNCHANGED <<live, net, status>>
    BY <2>2, SameRowsNoNewUp DEF Up
  <2>3. CASE Abort(w) /\ UNCHANGED <<live, net>>
    BY <2>3, AbortNoNewUp, SameRowsNoNewUp
  <2>4. QED
    BY <2>1, <2>2, <2>3, ScanNoNewUp
       DEF ReadSettles, AssignCheck, ReturnCheck, RoleCheck, PortRead, PortUnreadable,
           ConnectFound, ConnectLost, database
<1>5. QED
  BY <1>1, <1>2, <1>3, <1>4, ProgressPlain, OtherReach DEF ReachInv, Progress

\* What a write that was not cut short may leave of a port.
LEMMA PlainWrite ==
  ASSUME IInv, Plain, NEW w \in Workers, NEW o \in Outcomes, SwitchSettles(w, o),
         job[w].pc \in SwitchWaits
  PROVE  /\ job[w].port \in Ports
         /\ \A q \in Ports \ {job[w].port} : sw'[q] = sw[q]
         /\ \/ sw'[job[w].port] \in {sw[job[w].port], Written(sw[job[w].port], job[w])}
            \/ /\ job[w].pc = "bounce"
               /\ sw'[job[w].port] = [sw[job[w].port] EXCEPT !.enabled = FALSE]
         /\ o = "ok" => sw'[job[w].port] = Written(sw[job[w].port], job[w])
<1> DEFINE p == job[w].port
           old == sw[p]
           new == Written(old, job[w])
<1>1. p \in Ports /\ sw \in [Ports -> PortState]
  BY Unchanged DEF IInv, RequestsOK, JobsOK, JobOK, PortWaits
<1>2. o \in {"ok", "lost", "late"}
  BY OutcomesKnown, FaultAssumption DEF Plain, Outcomes
<1>3. PICK port \in PortsAfter(job[w], o) : sw' = [sw EXCEPT ![p] = port]
  BY DEF SwitchSettles
<1>4. /\ o = "ok" => PortsAfter(job[w], o) = {new}
      /\ o = "lost" => PortsAfter(job[w], o) = {old}
      /\ o = "late" => PortsAfter(job[w], o) =
           {IF job[w].pc = "bounce" THEN [old EXCEPT !.enabled = FALSE] ELSE new}
  BY DEF PortsAfter
<1> HIDE DEF new, old
<1>5. sw'[p] = port /\ \A q \in Ports \ {p} : sw'[q] = sw[q]
  BY <1>1, <1>3
<1>6. o = "ok" => port = new
  BY <1>3, <1>4
<1>7. \/ port \in {old, new}
      \/ job[w].pc = "bounce" /\ port = [old EXCEPT !.enabled = FALSE]
  BY <1>2, <1>3, <1>4
<1>8. QED
  BY <1>1, <1>5, <1>6, <1>7 DEF new, old

\* A write that is for one port only leaves every trunk's VLANs.
LEMMA PortWriteLeavesTrunks ==
  ASSUME IInv, ReachInv, Plain, NEW w \in Workers, NEW o \in Outcomes, PortWrites(w, o)
  PROVE  TrunkVlansKept
<1>1. /\ job[w].pc \in ClientWaits \cup {"enable.write", "bounce"}
      /\ SwitchSettles(w, o) /\ WriteGoesOn(w, o)
  BY PortWriteGoesOn DEF ReachInv, Undisturbed
<1>2. /\ job[w].port \in Ports
      /\ \A q \in Ports \ {job[w].port} : sw'[q] = sw[q]
      /\ \/ sw'[job[w].port] \in {sw[job[w].port], Written(sw[job[w].port], job[w])}
         \/ sw'[job[w].port] = [sw[job[w].port] EXCEPT !.enabled = FALSE]
  BY <1>1, PlainWrite DEF ClientWaits, SwitchWaits, VlanWaits
<1>3. role \in [Ports -> Role] /\ sw \in [Ports -> PortState]
  BY DEF IInv, TypeOK, StateTypeOK
<1>4. CASE job[w].pc \in ClientWaits
  <2>1. job[w].port \notin Trunks
    BY <1>4 DEF ReachInv, SyncsOnTrunks, OnTrunks, ClientWaits
  <2>2. role' = role \/ \E r \in {"client", job[w].role} :
                          role' = [role EXCEPT ![job[w].port] = r]
    BY <1>1 DEF WriteGoesOn
  <2>3. job[w].role # "ap-trunk"
    BY DEF ReachInv, SyncsOnTrunks, OnTrunks
  <2>4. \A q \in Ports : role'[q] = "ap-trunk" <=> role[q] = "ap-trunk"
    BY <1>2, <1>3, <2>1, <2>2, <2>3 DEF Trunks
  <2>5. Trunks' = Trunks
    BY <2>4 DEF Trunks
  <2>6. \A q \in Trunks : q \in Ports \ {job[w].port}
    BY <2>1 DEF Trunks
  <2>7. QED
    BY <1>2, <2>5, <2>6 DEF TrunkVlansKept
<1>5. CASE job[w].pc \in {"enable.write", "bounce"}
  <2>1. role' = role
    BY <1>1, <1>5 DEF WriteGoesOn, ClientWaits
  <2>2. /\ Written(sw[job[w].port], job[w]).vlan = sw[job[w].port].vlan
        /\ Written(sw[job[w].port], job[w]).tagged = sw[job[w].port].tagged
    BY <1>2, <1>3, <1>5 DEF Written, PortState
  <2>3. \A q \in Ports : sw'[q].vlan = sw[q].vlan /\ sw'[q].tagged = sw[q].tagged
    BY <1>2, <1>3, <2>2 DEF PortState
  <2>4. QED
    BY <2>1, <2>3 DEF TrunkVlansKept, Trunks
<1>6. QED
  BY <1>1, <1>4, <1>5

LEMMA PortWriteReach ==
  ASSUME IInv, IInv', ReachInv, Plain, NEW w \in Workers, NEW o \in Outcomes,
         PortWrites(w, o)
  PROVE  ReachInv'
<1>1. /\ job[w].pc \in ClientWaits \cup {"enable.write", "bounce"}
      /\ SwitchSettles(w, o) /\ WriteGoesOn(w, o)
  BY PortWriteGoesOn DEF ReachInv, Undisturbed
<1>2. /\ ~Syncs(job[w]) /\ ~Syncs(job'[w]) /\ UNCHANGED <<live, net>>
      /\ job'[w].pc \in ClientWaits => job'[w].port \notin Trunks
  BY <1>1 DEF WriteGoesOn, Syncs, ClientWaits, ReachInv, SyncsOnTrunks, OnTrunks
<1>3. Served(w) /\ Become(w, job'[w])
  <2>1. ~RadioChecks(w) /\ ~RadioPosts(w)
    BY <1>1 DEF RadioChecks, RadioPosts, AtStage, OnRadio, RadioWaits, ClientWaits
  <2>2. QED
    BY <2>1, StepBecomes DEF Progress, WriteSettles, PortWrites
<1>4. NoNewUp
  <2>1. status' = status \/ Abort(w)
    BY DEF PortWrites, AssignWritten, AssignUndone, ReturnVlan, ReturnEnable,
           ReturnWritten, ReturnFlush, RoleWritten, LastWrite, database
  <2>2. QED
    BY <1>2, <2>1, AbortNoNewUp, SameRowsNoNewUp DEF Up
<1>5. GoesOnPlain(w)
  BY ProgressPlain DEF ReachInv, Progress, WriteSettles, PortWrites
<1>6. QED
  BY <1>2, <1>3, <1>4, <1>5, PortWriteLeavesTrunks, OtherReach

LEMMA SyncWriteReach ==
  ASSUME IInv, IInv', ReachInv, Plain, NEW w \in Workers, NEW o \in Outcomes,
         CreateTrunked(w, o) \/ RemoveTrunked(w, o)
  PROVE  ReachInv'
<1>1. /\ job[w].pc \in {"create.trunk", "remove.trunk"} /\ SwitchSettles(w, o)
      /\ UNCHANGED <<live, net, role>>
  BY DEF CreateTrunked, RemoveTrunked, Ready
<1>2. Syncs(job[w]) /\ job[w].pc \in SwitchWaits /\ Trunks' = Trunks
  BY <1>1 DEF Syncs, SwitchWaits, VlanWaits, Trunks
<1>3. /\ Rewrites(w)
      /\ o = "ok" => sw'[job[w].port].tagged = job[w].vlans
  <2>1. sw \in [Ports -> PortState]
    BY Unchanged
  <2>2. Written(sw[job[w].port], job[w]) = Trunk(sw[job[w].port], Management, job[w].vlans)
    BY <1>1 DEF Written
  <2>3. /\ job[w].port \in Ports
        /\ \A q \in Ports \ {job[w].port} : sw'[q] = sw[q]
        /\ sw'[job[w].port] \in {sw[job[w].port], Written(sw[job[w].port], job[w])}
        /\ o = "ok" => sw'[job[w].port] = Written(sw[job[w].port], job[w])
    BY <1>1, <1>2, PlainWrite
  <2>4. Written(sw[job[w].port], job[w]).tagged = job[w].vlans
    BY <2>1, <2>2, <2>3 DEF Trunk, PortState
  <2>5. QED
    BY <1>1, <1>2, <2>3, <2>4 DEF Rewrites, Trunks
<1>4. Served(w) /\ Become(w, job'[w])
  <2>1. ~RadioChecks(w) /\ ~RadioPosts(w)
    BY <1>1 DEF RadioChecks, RadioPosts, AtStage, OnRadio, RadioWaits
  <2>2. QED
    BY <2>1, StepBecomes DEF Progress, WriteSettles
<1>5. GoesOnPlain(w)
  BY ProgressPlain DEF ReachInv, Progress, WriteSettles
<1>6. CASE NextTrunk(w) /\ o = "ok" /\ status' = status
  <2>1. OnTrunks(job[w])'
    BY <1>2, <1>5, <1>6, NextTrunkJob DEF ReachInv, OnTrunks, Syncs, GoesOnPlain
  <2>2. VisitsOn(w)
    BY <1>2, <1>6, NextTrunkJob DEF ReachInv, VisitsOn
  <2>3. ASSUME QueuesKept(w)
        PROVE  Reaches'
    BY <1>2, <1>3, <1>6, <2>2, <2>3, NextTrunkJob, SyncGoesOnReaches DEF ReachInv, Reaches
  <2>4. QED
    BY <1>2, <1>4, <1>5, <2>1, <2>3, ReachStep
<1>7. CASE Finish(w)
  <2>1. ~Syncs(job'[w]) /\ OnTrunks(job[w])'
    BY <1>7, OnlyJob DEF Finish, Syncs, OnTrunks, Idle
  <2>2. \/ \A n \in live : Up(n)' => Up(n)
        \/ /\ o = "ok" /\ job[w].todo = {}
           /\ \A n \in live : Up(n)' => Up(n) \/ (job[w].pc = "create.trunk" /\ n = job[w].net)
    <3>1. CASE status' = status
      BY <3>1 DEF Up
    <3>2. ASSUME NEW s, CreateEnd(w, s)
          PROVE  \A n \in live : Up(n)' => Up(n) \/ (n = job[w].net /\ Up(n)')
      BY <3>2, Unchanged DEF CreateEnd, SetStatus, Up
    <3>3. CASE CreateEnd(w, "error")
      <4>1. \A n \in live : Up(n)' => Up(n)
        BY <3>3, Unchanged DEF CreateEnd, SetStatus, Up
      <4>2. QED
        BY <4>1
    <3>4. CASE /\ o = "ok" /\ job[w].todo = {} /\ CreateEnd(w, "waiting-for-robot")
               /\ status' # status
      <4>1. job[w].pc = "create.trunk"
        BY <3>4 DEF CreateTrunked, RemoveTrunked, Ready
      <4>2. QED
        BY <3>2, <3>4, <4>1
    <3>5. NextTrunk(w) \/ status' = status \/ CreateEnd(w, "error")
            \/ (o = "ok" /\ job[w].todo = {} /\ CreateEnd(w, "waiting-for-robot"))
      BY DEF CreateTrunked, RemoveTrunked
    <3>6. ~NextTrunk(w)
      BY <1>2, <2>1, NextTrunkJob DEF ReachInv
    <3>7. QED
      BY <3>1, <3>3, <3>4, <3>5, <3>6
  <2>3. ASSUME QueuesKept(w)
        PROVE  Reaches'
    BY <1>3, <2>1, <2>2, <2>3, SyncStopsReaches, SyncEndsReaches DEF ReachInv, Reaches
  <2>4. QED
    BY <1>2, <1>4, <1>5, <2>1, <2>3, ReachStep
<1>8. QED
  BY <1>6, <1>7 DEF CreateTrunked, RemoveTrunked, CreateEnd, RemoveEnd

LEMMA BeginSyncReach ==
  ASSUME IInv, IInv', ReachInv, NEW w \in Workers,
         NEW pc \in {"create.trunk", "remove.trunk"}, BeginSync(w, pc, live'),
         OnRadio(job[w]), Served(w), Become(w, job'[w]), GoesOnPlain(w),
         live' \subseteq live, UNCHANGED <<net, role, status, sw>>
  PROVE  ReachInv'
<1>1. /\ Trunks' = Trunks /\ TrunkVlansKept
      /\ AllocatedVlans(live)' = AllocatedVlans(live')
  BY DEF Trunks, TrunkVlansKept, AllocatedVlans
<1>2. OnTrunks(job[w])'
  BY <1>1, BeginSyncJob DEF OnTrunks, GoesOnPlain
<1>3. Syncs(job'[w]) /\ ~Syncs(job[w])
  BY BeginSyncJob DEF Syncs, OnRadio, RadioWaits
<1>4. NoNewUp
  BY DEF NoNewUp, Up
<1>5. ASSUME QueuesKept(w)
      PROVE  Reaches'
  BY <1>1, <1>3, <1>4, <1>5, BeginSyncJob, SyncBeginsReaches DEF ReachInv, Reaches
<1>6. QED
  BY <1>1, <1>2, <1>5, ReachStep

LEMMA RadioReach ==
  ASSUME IInv, IInv', ReachInv, NEW w \in Workers, CreateConfigured(w) \/ RemoveCleared(w)
  PROVE  ReachInv'
<1>1. /\ job[w].pc \in {"create.config", "remove.clear"} /\ UNCHANGED <<net, role, sw>>
  BY DEF CreateConfigured, RemoveCleared, Ready, RadioConfirms, RadioRejects
<1>2. OnRadio(job[w]) /\ Served(w) /\ Become(w, job'[w])
  <2>1. stage' = "status"
    BY DEF CreateConfigured, RemoveCleared, RadioConfirms, RadioRejects
  <2>2. ~RadioChecks(w) /\ ~RadioPosts(w)
    BY <2>1 DEF RadioChecks, RadioPosts
  <2>3. QED
    BY <1>1, <2>2, StepBecomes DEF Progress, RadioMoves, OnRadio, RadioWaits
<1>3. GoesOnPlain(w)
  BY ProgressPlain DEF ReachInv, Progress, RadioMoves
<1>4. Trunks' = Trunks /\ TrunkVlansKept
  BY <1>1 DEF Trunks, TrunkVlansKept
<1>5. ASSUME Finish(w)
      PROVE  ~Syncs(job'[w]) /\ OnTrunks(job[w])' /\ job'[w].pc = "idle"
  BY <1>5, OnlyJob DEF Finish, Syncs, OnTrunks, Idle
<1>6. ASSUME Finish(w), Trunks = {}
      PROVE  ReachInv'
  BY <1>2, <1>3, <1>4, <1>5, <1>6, ReachStep
<1>7. ASSUME Finish(w), live' = live, \A n \in live : Up(n)' => Up(n)
      PROVE  ReachInv'
  <2>1. ~Syncs(job[w]) /\ job'[w].pc \notin ClientWaits
    BY <1>1, <1>5, <1>7 DEF Syncs, ClientWaits
  <2>2. NoNewUp
    BY <1>1, <1>7, SameRowsNoNewUp
  <2>3. QED
    BY <1>2, <1>3, <1>4, <1>5, <1>7, <2>1, <2>2, OtherReach
<1>8. CASE CreateConfigured(w)
  <2>1. live' = live
    BY <1>8 DEF CreateConfigured
  <2>2. \/ BeginSync(w, "create.trunk", live') /\ status' = status
        \/ Finish(w) /\ Trunks = {}
        \/ CreateEnd(w, "error")
    BY <1>8, <2>1 DEF CreateConfigured, CreateEnd
  <2>3. ASSUME CreateEnd(w, "error")
        PROVE  Finish(w) /\ \A n \in live : Up(n)' => Up(n)
    BY <2>3, Unchanged DEF CreateEnd, SetStatus, Up
  <2>4. QED
    BY <1>1, <1>2, <1>3, <1>6, <1>7, <2>1, <2>2, <2>3, BeginSyncReach
<1>9. CASE RemoveCleared(w)
  <2>1. \/ BeginSync(w, "remove.trunk", live') /\ status' = status /\ live' \subseteq live
        \/ Finish(w) /\ Trunks = {}
        \/ Abort(w) /\ live' = live
    BY <1>9 DEF RemoveCleared, RemoveEnd, DeleteRow
  <2>2. Abort(w) => Finish(w)
    BY DEF Abort
  <2>3. QED
    BY <1>1, <1>2, <1>3, <1>6, <1>7, <2>1, <2>2, AbortNoNewUp, BeginSyncReach
<1>10. QED
  BY <1>8, <1>9

(***************************************************************************)
(* The theorem.                                                            *)
(***************************************************************************)
LEMMA ReachSteady ==
  ASSUME ReachInv, UNCHANGED <<job, swq, live, net, status, role, sw>>
  PROVE  ReachInv'
<1>1. Trunks' = Trunks
  BY DEF Trunks
<1>2. SwitchQueueOK' /\ SyncsOnTrunks' /\ Undisturbed'
  BY <1>1 DEF ReachInv, SwitchQueueOK, SyncsOnTrunks, OnTrunks, Undisturbed, Syncs, OnSwitch
<1>3. CreatesReach' /\ UpCarried'
  BY <1>1 DEF ReachInv, CreatesReach, UpCarried, Lists, Carries, Behind, Before, Syncs
<1>4. QED
  BY <1>2, <1>3 DEF ReachInv

LEMMA ReachNext ==
  ASSUME IInv, ReachInv, Plain, [Next]_vars
  PROVE  ReachInv'
<1>1. IInv'
  BY NextInv
<1>2. CASE \/ UNCHANGED vars \/ RadioApplies \/ RadioDrops
           \/ \E w \in Workers : RadioChecks(w) \/ RadioPosts(w)
  <2>1. UNCHANGED <<job, swq, live, net, status, role, sw>>
    BY <1>2 DEF vars, database, hardware, requests, RadioApplies, RadioDrops, RadioChecks,
                RadioPosts
  <2>2. QED
    BY <2>1, ReachSteady
<1>3. ~Crash
  BY DEF Crash, Plain
<1>4. ASSUME NEW w \in Workers, Request(w) \/ Progress(w)
      PROVE  ReachInv'
  <2>1. ASSUME NEW o \in Outcomes, WriteSettles(w, o)
        PROVE  ReachInv'
    BY <1>1, <2>1, PortWriteReach, SyncWriteReach DEF WriteSettles, PortWrites
  <2>2. QED
    BY <1>1, <1>2, <1>4, <2>1, RequestReach, ReadReach, RadioReach DEF Progress, RadioMoves
<1>5. QED
  BY <1>2, <1>3, <1>4 DEF Next

LEMMA ReachInit == Init => ReachInv
<1> SUFFICES ASSUME Init
             PROVE  ReachInv
  OBVIOUS
<1>1. live = {} /\ \A w \in Workers : job[w].pc = "idle"
  BY DEF Init, StateInit, Idle
<1>2. SwitchQueueOK /\ SyncsOnTrunks
  BY TrunkInit DEF TrunkInv
<1>3. QED
  BY <1>1, <1>2 DEF ReachInv, Undisturbed, CreatesReach, UpCarried

\* TeamNetworkService: no sync that is left takes from a trunk the VLAN of a network
\* whose create has come past it, or has ended well, if writes fail as a whole (or
\* after the fact) and nobody asks for a role or a refresh or restarts the server.
THEOREM ReachInvariance == Plain => (Spec => []ReachInv)
<1> SUFFICES ASSUME Plain
             PROVE  Spec => []ReachInv
  OBVIOUS
<1>1. IInv /\ ReachInv /\ [Next]_vars => ReachInv'
  BY ReachNext
<1>2. QED
  BY <1>1, ReachInit, Invariance, PTL DEF Spec

\* TeamNetworkService: a network is shown as up only while every AP trunk carries its
\* VLAN, whatever creates and removals overlap over however many switches and
\* whichever of their writes are rejected, under the same conditions.
THEOREM ReachTheorem == Plain => (Spec => []UpMeansTrunked)
<1>1. UpCarried => UpMeansTrunked
  BY DEF UpCarried, UpMeansTrunked, Carries
<1>2. ReachInv => UpMeansTrunked
  BY <1>1 DEF ReachInv
<1>3. QED
  BY <1>2, ReachInvariance, PTL
=============================================================================
