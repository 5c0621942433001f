-------------------------- MODULE FieldSerialProofs --------------------------
(***************************************************************************)
(* What holds of FieldNetwork when the server handles one request at a     *)
(* time, for any field and any requests: a returned port is reset, a freed *)
(* VLAN is clean, client ports are isolated, and a network shown as up is  *)
(* on the air.  Each theorem names the failures it must exclude.           *)
(***************************************************************************)
EXTENDS FieldLeaseProofs

\* Requests do not overlap.
OneWorker == \A v, w \in Workers : v = w

\* A rejected switch write changed nothing, and the server does not crash.
WritesClean == Faults \subseteq {"lost"} /\ "crash" \notin Ops

\* A rejected radio write changed nothing, and the server does not crash.
RadioClean == RadioFaults \subseteq {"lost"} /\ "crash" \notin Ops

(***************************************************************************)
(* The request goes on.                                                    *)
(***************************************************************************)
\* The job the worker goes on with is the only one.
LEMMA OnlyJob ==
  ASSUME IInv, NEW w \in Workers, NEW j, Become(w, j)
  PROVE  job'[w] = j
BY Unchanged DEF Become

\* Where a request waits that relies on nothing SoleJobOK speaks of.
FreeWaits == {"idle", "enable.read", "enable.write", "bounce.read", "bounce",
              "connect.find", "create.scan", "create.config", "refresh", "role.read"}

LEMMA FreeSole ==
  ASSUME NEW w \in Workers, job'[w].pc \in FreeWaits
  PROVE  SoleJobOK(job[w])'
BY DEF FreeWaits, SoleJobOK, Removes, ReturnWaits

LEMMA FinishSole ==
  ASSUME IInv, NEW w \in Workers, Finish(w)
  PROVE  SoleJobOK(job[w])'
BY OnlyJob, FreeSole DEF Finish, Idle, FreeWaits

LEMMA SoleStep ==
  ASSUME OneWorker, NEW w \in Workers, SoleJobOK(job[w])', TrunksKept'
  PROVE  SoleInv'
BY DEF OneWorker, SoleInv

\* A removal goes on with the ports its list still has, or with the slot.
LEMMA NextPortSole ==
  ASSUME IInv, NEW w \in Workers, NEW j \in Job, NextPort(w, j), j.net \in live',
         \A p \in Ports : owner'[p] = j.net => p \in j.todo
  PROVE  SoleJobOK(job[w])'
<1>1. CASE j.todo = {} /\ Become(w, [j EXCEPT !.pc = "remove.clear", !.port = None])
  <2> DEFINE k == [j EXCEPT !.pc = "remove.clear", !.port = None]
  <2>1. k.pc = "remove.clear" /\ k.port = None /\ k.net = j.net /\ k.todo = {}
    BY <1>1 DEF Job
  <2>2. job'[w] = k
    BY <1>1, OnlyJob
  <2> HIDE DEF k
  <2>3. \A p \in Ports : owner'[p] # j.net
    BY <1>1
  <2>4. QED
    BY <2>1, <2>2, <2>3 DEF SoleJobOK, Removes, ReturnWaits
<1>2. ASSUME NEW p \in Ports,
             Become(w, [j EXCEPT !.pc = "return.read", !.port = p, !.todo = @ \ {p}])
      PROVE  SoleJobOK(job[w])'
  <2> DEFINE k == [j EXCEPT !.pc = "return.read", !.port = p, !.todo = @ \ {p}]
  <2>1. k.pc = "return.read" /\ k.port = p /\ k.net = j.net /\ k.todo = j.todo \ {p}
    BY DEF Job
  <2>2. job'[w] = k
    BY <1>2, OnlyJob
  <2> HIDE DEF k
  <2>3. \A q \in Ports : owner'[q] = j.net => q = p \/ q \in j.todo \ {p}
    OBVIOUS
  <2>4. QED
    BY <2>1, <2>2, <2>3 DEF SoleJobOK, Removes, ReturnWaits
<1>3. QED
  BY <1>1, <1>2 DEF NextPort

\* A sync visits AP trunks only.
LEMMA BeginSyncSole ==
  ASSUME IInv, NEW w \in Workers, NEW pc \in {"create.trunk", "remove.trunk"}, NEW L,
         BeginSync(w, pc, L), UNCHANGED role
  PROVE  SoleJobOK(job[w])'
<1>1. PICK p \in Ports :
        /\ p \in Trunks
        /\ Become(w, [job[w] EXCEPT !.pc = pc, !.port = p, !.todo = Trunks \ {p},
                                    !.vlans = AllocatedVlans(L)])
  BY DEF BeginSync, IsLeast
<1>2. job'[w].pc = pc /\ job'[w].port = p /\ job'[w].todo = Trunks \ {p}
  BY <1>1, OnlyJob, Unchanged DEF Job
<1>3. Trunks' = Trunks
  BY DEF Trunks
<1>4. QED
  BY <1>1, <1>2, <1>3 DEF SoleJobOK, Removes, ReturnWaits

LEMMA NextTrunkSole ==
  ASSUME IInv, SoleInv, NEW w \in Workers, NextTrunk(w), UNCHANGED role,
         job[w].pc \in {"create.trunk", "remove.trunk"}
  PROVE  SoleJobOK(job[w])'
<1>1. PICK p \in Ports :
        p \in job[w].todo /\ Become(w, [job[w] EXCEPT !.port = p, !.todo = @ \ {p}])
  BY DEF NextTrunk, IsLeast
<1>2. job'[w].pc = job[w].pc /\ job'[w].port = p /\ job'[w].todo = job[w].todo \ {p}
  BY <1>1, OnlyJob, Unchanged DEF Job
<1>3. Trunks' = Trunks /\ job[w].todo \subseteq Trunks
  BY DEF Trunks, SoleInv, SoleJobOK
<1>4. QED
  BY <1>1, <1>2, <1>3 DEF SoleJobOK, Removes, ReturnWaits

(***************************************************************************)
(* What a write leaves of its port.                                        *)
(***************************************************************************)
\* A write that succeeds was carried out, and its readback passed.
LEMMA WriteOk ==
  ASSUME IInv, NEW w \in Workers, job[w].pc \in SwitchWaits, SwitchSettles(w, "ok")
  PROVE  /\ job[w].port \in Ports
         /\ sw' = [sw EXCEPT ![job[w].port] = Written(sw[job[w].port], job[w])]
         /\ Confirmable(job[w])
         /\ sw'[job[w].port] = Written(sw[job[w].port], job[w])
<1>1. job[w].port \in Ports /\ sw \in [Ports -> PortState]
  BY Unchanged DEF IInv, RequestsOK, JobsOK, JobOK, PortWaits
<1>2. PortsAfter(job[w], "ok") = {Written(sw[job[w].port], job[w])}
  BY Zenon DEF PortsAfter
<1>3. Confirmable(job[w])
  BY FaultAssumption DEF SwitchSettles, MayEnd
<1>4. QED
  BY <1>1, <1>2, <1>3 DEF SwitchSettles

\* A confirmed access write was to a port not built as a trunk.
LEMMA AccessOk ==
  ASSUME IInv, NEW w \in Workers, NEW p \in Ports, p = job[w].port,
         SwitchSettles(w, "ok"),
         \/ job[w].pc \in {"assign.vlan", "return.vlan"}
         \/ job[w].pc = "role.write" /\ job[w].role # "ap-trunk"
  PROVE  PortRole[p] # "ap-trunk" /\ InMode(p, "access")'
<1> DEFINE new == Written(sw[p], job[w])
<1>1. Confirmable(job[w]) /\ sw'[p] = new /\ sw[p] \in PortState
  BY WriteOk, Unchanged DEF SwitchWaits, VlanWaits
<1>2. new.tagged = {}
  BY <1>1 DEF Written, RoleConfigured, Access, PortState
<1>3. Shows(PortRole[p], new, "access")
  BY <1>1 DEF Confirmable, ModeAsked, VlanWaits
<1>4. QED
  BY <1>1, <1>2, <1>3 DEF Shows, InMode

(***************************************************************************)
(* One step of the request at a time.                                      *)
(***************************************************************************)
LEMMA RequestSole ==
  ASSUME IInv, OneWorker, SoleInv, NEW w \in Workers, Request(w)
  PROVE  SoleInv'
<1>1. UNCHANGED <<database, hardware>>
  BY DEF Request, PortRequest, TeamRequest, AssignStart, ReturnStart, RoleStart,
         EnableStart, BounceStart, CreateStart, RemoveStart, RefreshStart, ConnectStart
<1>2. TrunksKept' /\ owner' = owner /\ live' = live
  BY <1>1 DEF database, SoleInv, TrunksKept
<1>3. ASSUME NEW p \in Ports, NEW n \in Ids, NEW b \in BOOLEAN, AssignStart(w, p, n, b)
      PROVE  SoleJobOK(job[w])'
  <2>1. job'[w].pc = "assign.read" /\ job'[w].net = n /\ n \in live
    BY <1>3, OnlyJob DEF AssignStart, Idle
  <2>2. QED
    BY <1>2, <2>1 DEF SoleJobOK, Removes, ReturnWaits
<1>4. ASSUME NEW p \in Ports, NEW b \in BOOLEAN, ReturnStart(w, p, b)
      PROVE  SoleJobOK(job[w])'
  <2>1. job'[w].pc = "return.read" /\ job'[w].net = None
    BY <1>4, OnlyJob DEF ReturnStart, Idle
  <2>2. QED
    BY <2>1 DEF SoleJobOK, Removes
<1>5. ASSUME NEW n \in Ids, RemoveStart(w, n)
      PROVE  SoleJobOK(job[w])'
  <2> DEFINE j == [Idle EXCEPT !.net = n, !.todo = {p \in Ports : owner[p] = n}]
  <2>1. j \in Job /\ j.net = n /\ j.todo = {p \in Ports : owner[p] = n}
    BY IdleOK DEF Job, Idle
  <2>2. NextPort(w, j) /\ n \in live
    BY <1>5 DEF RemoveStart
  <2> HIDE DEF j
  <2>3. j.net \in live' /\ \A p \in Ports : owner'[p] = j.net => p \in j.todo
    BY <1>2, <2>1, <2>2
  <2>4. QED
    BY <2>1, <2>2, <2>3, NextPortSole
<1>6. ASSUME NEW p \in Ports, NEW r \in AskedRoles, RoleStart(w, p, r)
      PROVE  SoleJobOK(job[w])'
  <2>1. job'[w].pc = "role.read"
    BY <1>6, OnlyJob DEF RoleStart, Idle
  <2>2. QED
    BY <2>1, FreeSole DEF FreeWaits
<1>7. ASSUME NEW p \in Ports, NEW e \in BOOLEAN, EnableStart(w, p, e)
      PROVE  SoleJobOK(job[w])'
  <2>1. job'[w].pc = "enable.read"
    BY <1>7, OnlyJob DEF EnableStart, Idle
  <2>2. QED
    BY <2>1, FreeSole DEF FreeWaits
<1>8. ASSUME NEW p \in Ports, BounceStart(w, p)
      PROVE  SoleJobOK(job[w])'
  <2>1. job'[w].pc = "bounce.read"
    BY <1>8, OnlyJob DEF BounceStart, Idle
  <2>2. QED
    BY <2>1, FreeSole DEF FreeWaits
<1>9. ASSUME NEW number, NEW S, CreateStart(w, number, S)
       PROVE  SoleJobOK(job[w])'
  <2>1. job'[w].pc = "create.scan"
    BY <1>9, OnlyJob DEF CreateStart, Idle
  <2>2. QED
    BY <2>1, FreeSole DEF FreeWaits
<1>10. ASSUME NEW number, ConnectStart(w, number)
       PROVE  SoleJobOK(job[w])'
  <2>1. job'[w].pc = "connect.find"
    BY <1>10, OnlyJob DEF ConnectStart, Idle
  <2>2. QED
    BY <2>1, FreeSole DEF FreeWaits
<1>11. ASSUME RefreshStart(w)
       PROVE  SoleJobOK(job[w])'
  <2>1. job'[w].pc = "refresh"
    BY <1>11, OnlyJob DEF RefreshStart, Idle
  <2>2. QED
    BY <2>1, FreeSole DEF FreeWaits
<1>12. SoleJobOK(job[w])'
  BY <1>3, <1>4, <1>5, <1>6, <1>7, <1>8, <1>9, <1>10, <1>11
     DEF Request, PortRequest, TeamRequest
<1>13. QED
  BY <1>2, <1>12, SoleStep

LEMMA ReadSole ==
  ASSUME IInv, OneWorker, SoleInv, NEW w \in Workers, ReadSettles(w)
  PROVE  SoleInv'
<1>1. UNCHANGED <<role, owner, sw>> /\ live \subseteq live'
  BY DEF ReadSettles, AssignCheck, ReturnCheck, RoleCheck, PortRead, PortUnreadable,
         CreateScan, Inserts, RefreshRow, ConnectFound, ConnectLost, database, hardware
<1>2. TrunksKept' /\ SoleJobOK(job[w]) /\ job[w] \in Job
  BY <1>1, Unchanged DEF SoleInv, TrunksKept
<1> SUFFICES SoleJobOK(job[w])'
  BY <1>2, SoleStep
<1>3. CASE Finish(w)
  BY <1>3, FinishSole
<1>4. CASE AssignCheck(w) /\ ~Finish(w)
  <2> DEFINE p == job[w].port
             v == IF InMode(p, "access") /\ sw[p].vlan # None
                    THEN sw[p].vlan ELSE Onboarding
             j == [job[w] EXCEPT !.pc = "assign.vlan", !.vlan = v]
  <2>1. j.pc = "assign.vlan" /\ j.net = job[w].net /\ j.port = p
    BY <1>2 DEF Job
  <2>2. Become(w, j) /\ job[w].net \in live /\ Assignable(p)
    BY <1>2, <1>4 DEF AssignCheck, Ready, SoleJobOK
  <2> HIDE DEF j
  <2>3. job'[w] = j
    BY <2>2, OnlyJob
  <2>4. QED
    BY <1>1, <2>1, <2>2, <2>3 DEF SoleJobOK, Removes, ReturnWaits, Assignable
<1>5. CASE ReturnCheck(w) /\ ~Finish(w)
  <2>1. /\ Become(w, [job[w] EXCEPT !.pc = "return.vlan"]) /\ Assignable(job[w].port)
        /\ job[w].pc = "return.read"
    BY <1>5 DEF ReturnCheck, Abort, Ready
  <2>2. /\ job'[w].pc = "return.vlan" /\ job'[w].net = job[w].net
        /\ job'[w].port = job[w].port /\ job'[w].todo = job[w].todo
    BY <1>2, <2>1, OnlyJob DEF Job
  <2>3. QED
    BY <1>1, <1>2, <2>1, <2>2 DEF SoleJobOK, Removes, ReturnWaits, Assignable
<1>6. CASE RoleCheck(w) /\ ~Finish(w)
  <2> DEFINE V == IF job[w].role = "ap-trunk" THEN AllocatedVlans(live) ELSE {}
             j == [job[w] EXCEPT !.pc = "role.write", !.net = owner[job[w].port],
                                 !.vlans = V]
  <2>1. j.pc = "role.write" /\ j.net = owner[job[w].port] /\ j.port = job[w].port
    BY <1>2 DEF Job
  <2>2. Become(w, j)
    BY <1>6 DEF RoleCheck
  <2> HIDE DEF j
  <2>3. job'[w] = j
    BY <2>2, OnlyJob
  <2>4. QED
    BY <1>1, <2>1, <2>3 DEF SoleJobOK, Removes, ReturnWaits
<1>7. CASE PortRead(w)
  <2>1. PICK pc \in {"enable.write", "bounce"} :
          Become(w, [job[w] EXCEPT !.pc = pc])
    BY <1>7 DEF PortRead
  <2>2. job'[w].pc = pc
    BY <1>2, <2>1, OnlyJob DEF Job
  <2>3. QED
    BY <2>2, FreeSole DEF FreeWaits
<1>8. CASE CreateScan(w) /\ ~Finish(w)
  <2>1. PICK s \in Slots :
          \/ Become(w, [job[w] EXCEPT !.pc = "create.config", !.slots = {},
                                      !.number = None])
          \/ Become(w, [job[w] EXCEPT !.slots = @ \ {s}])
    BY <1>8 DEF CreateScan
  <2>2. job[w].pc = "create.scan"
    BY <1>8 DEF CreateScan, Ready
  <2>3. job'[w].pc \in {"create.config", "create.scan"}
    BY <1>2, <2>1, <2>2, OnlyJob DEF Job
  <2>4. QED
    BY <2>3, FreeSole DEF FreeWaits
<1>9. CASE RefreshRow(w) /\ ~Finish(w)
  <2>1. PICK n \in Ids : Become(w, [job[w] EXCEPT !.seen[n] = "-"])
    BY <1>9 DEF RefreshRow, Listed
  <2>2. job[w].pc = "refresh"
    BY <1>9 DEF RefreshRow, Ready
  <2>3. job'[w].pc = "refresh"
    BY <1>2, <2>1, <2>2, OnlyJob DEF Job
  <2>4. QED
    BY <2>3, FreeSole DEF FreeWaits
<1>10. CASE ConnectFound(w) /\ ~Finish(w)
  <2>1. PICK p \in Ports :
          /\ job[w].net \in live
          /\ Become(w, [job[w] EXCEPT !.pc = "assign.read", !.port = p, !.flag = TRUE])
    BY <1>10 DEF ConnectFound
  <2> DEFINE j == [job[w] EXCEPT !.pc = "assign.read", !.port = p, !.flag = TRUE]
  <2>2. j.pc = "assign.read" /\ j.net = job[w].net
    BY <1>2 DEF Job
  <2>3. Become(w, j)
    BY <2>1
  <2> HIDE DEF j
  <2>4. job'[w] = j /\ job[w].net \in live'
    BY <1>1, <2>1, <2>3, OnlyJob
  <2>5. QED
    BY <2>2, <2>4 DEF SoleJobOK, Removes, ReturnWaits
<1>11. QED
  BY <1>3, <1>4, <1>5, <1>6, <1>7, <1>8, <1>9, <1>10
     DEF ReadSettles, PortUnreadable, ConnectLost, Abort

\* What every switch write starts from; p is the port it is about.
LEMMA WriteStarts ==
  ASSUME IInv, SoleInv, NEW w \in Workers, job[w].pc \in SwitchWaits
  PROVE  /\ job[w].port \in Ports /\ job[w] \in Job /\ SoleJobOK(job[w])
         /\ sw \in [Ports -> PortState] /\ role \in [Ports -> Role]
         /\ owner \in [Ports -> Ids \cup {None}]
BY Unchanged DEF IInv, RequestsOK, JobsOK, JobOK, PortWaits, TypeOK, StateTypeOK, SoleInv

LEMMA KeptTrunks ==
  ASSUME SoleInv, UNCHANGED role
  PROVE  TrunksKept'
BY DEF SoleInv, TrunksKept

LEMMA OtherTrunks ==
  ASSUME IInv, SoleInv, NEW p \in Ports, NEW r, role' = [role EXCEPT ![p] = r],
         PortRole[p] # "ap-trunk" \/ r = "ap-trunk"
  PROVE  TrunksKept'
BY DEF SoleInv, TrunksKept, IInv, TypeOK, StateTypeOK

LEMMA AssignWrittenSole ==
  ASSUME IInv, OneWorker, SoleInv, NEW w \in Workers, NEW o \in Outcomes,
         AssignWritten(w, o)
  PROVE  SoleInv'
<1>1. /\ job[w].pc = "assign.vlan" /\ job[w].pc \in SwitchWaits /\ SwitchSettles(w, o)
  BY DEF AssignWritten, Ready, SwitchWaits, VlanWaits
<1>2. PICK p \in Ports : p = job[w].port
  BY <1>1, WriteStarts
<1>3. job[w].net \in live /\ job[w] \in Job
  BY <1>1, WriteStarts DEF SoleJobOK
<1>4. CASE o # "ok"
  BY <1>4, KeptTrunks, FinishSole, SoleStep DEF AssignWritten
<1>5. CASE o = "ok"
  <2>1. PortRole[p] # "ap-trunk"
    BY <1>1, <1>2, <1>5, AccessOk
  <2>2. role' = [role EXCEPT ![p] = "client"]
    BY <1>2, <1>3, <1>5 DEF AssignWritten, ForeignKeyHolds, UpsertPort
  <2>3. Finish(w) \/ Become(w, [job[w] EXCEPT !.pc = "bounce"])
    BY <1>3, <1>5 DEF AssignWritten, ForeignKeyHolds
  <2>4. job'[w].pc = "bounce" \/ Finish(w)
    BY <1>3, <2>3, OnlyJob DEF Job
  <2>5. SoleJobOK(job[w])'
    BY <2>4, FinishSole, FreeSole DEF FreeWaits
  <2>6. QED
    BY <2>1, <2>2, <2>5, OtherTrunks, SoleStep
<1>6. QED
  BY <1>4, <1>5

\* A return goes on when its port does what it wrote.
LEMMA ReturnGoesOn ==
  ASSUME NEW w \in Workers, NEW p \in Ports, p = job[w].port,
         job[w].pc \in {"return.vlan", "return.enable"}, SoleJobOK(job[w]),
         UNCHANGED <<owner, live>>,
         job'[w].pc \in {"return.enable", "return.flush"},
         job'[w].port = p, job'[w].net = job[w].net, job'[w].todo = job[w].todo,
         InMode(p, "access")', sw'[p].vlan = Onboarding,
         job'[w].pc = "return.flush" => sw'[p].enabled
  PROVE  SoleJobOK(job[w])'
<1>1. InMode(job[w].port, "access")'
  BY DEF InMode
<1>2. Removes(job[w])' => Removes(job[w])
  BY DEF Removes, ReturnWaits
<1>3. Removes(job[w])' =>
        /\ job'[w].net \in live'
        /\ \A q \in Ports : owner'[q] = job'[w].net => q = job'[w].port \/ q \in job'[w].todo
  BY <1>2 DEF SoleJobOK
<1>4. QED
  BY <1>1, <1>3 DEF SoleJobOK

LEMMA ReturnVlanSole ==
  ASSUME IInv, OneWorker, SoleInv, NEW w \in Workers, NEW o \in Outcomes,
         ReturnVlan(w, o)
  PROVE  SoleInv'
<1>1. /\ job[w].pc = "return.vlan" /\ job[w].pc \in SwitchWaits /\ SwitchSettles(w, o)
      /\ UNCHANGED <<role, owner, live>>
  BY DEF ReturnVlan, ReturnWritten, Ready, SwitchWaits, VlanWaits
<1>2. PICK p \in Ports : p = job[w].port
  BY <1>1, WriteStarts
<1>3. SoleJobOK(job[w]) /\ job[w] \in Job
  BY <1>1, WriteStarts
<1>4. CASE o # "ok"
  BY <1>1, <1>4, KeptTrunks, FinishSole, SoleStep DEF ReturnVlan, ReturnWritten, Abort
<1>5. CASE o = "ok"
  <2> DEFINE j == [job[w] EXCEPT !.pc = "return.enable"]
  <2>1. j.pc = "return.enable" /\ j.net = job[w].net /\ j.port = p /\ j.todo = job[w].todo
    BY <1>2, <1>3 DEF Job
  <2>2. Become(w, j)
    BY <1>5 DEF ReturnVlan, ReturnWritten
  <2> HIDE DEF j
  <2>3. job'[w] = j
    BY <2>2, OnlyJob
  <2>4. InMode(p, "access")'
    BY <1>1, <1>2, <1>5, AccessOk
  <2>5. sw'[p].vlan = Onboarding
    <3>1. sw'[p] = Written(sw[p], job[w]) /\ sw[p] \in PortState
      BY <1>1, <1>2, <1>5, WriteOk, WriteStarts
    <3>2. Written(sw[p], job[w]) = Access(sw[p], Onboarding)
      BY <1>1, Zenon DEF Written
    <3>3. QED
      BY <3>1, <3>2 DEF Access, PortState
  <2>6. SoleJobOK(job[w])'
    BY <1>1, <1>2, <1>3, <2>1, <2>3, <2>4, <2>5, ReturnGoesOn
  <2>7. QED
    BY <1>1, <2>6, KeptTrunks, SoleStep
<1>6. QED
  BY <1>4, <1>5

LEMMA ReturnEnableSole ==
  ASSUME IInv, OneWorker, SoleInv, NEW w \in Workers, NEW o \in Outcomes,
         ReturnEnable(w, o)
  PROVE  SoleInv'
<1>1. /\ job[w].pc = "return.enable" /\ job[w].pc \in SwitchWaits /\ SwitchSettles(w, o)
      /\ UNCHANGED <<role, owner, live>>
  BY DEF ReturnEnable, ReturnWritten, Ready, SwitchWaits, VlanWaits
<1>2. PICK p \in Ports : p = job[w].port
  BY <1>1, WriteStarts
<1>3. SoleJobOK(job[w]) /\ job[w] \in Job
  BY <1>1, WriteStarts
<1>4. CASE o # "ok"
  BY <1>1, <1>4, KeptTrunks, FinishSole, SoleStep DEF ReturnEnable, ReturnWritten, Abort
<1>5. CASE o = "ok"
  <2> DEFINE j == [job[w] EXCEPT !.pc = "return.flush"]
  <2>1. j.pc = "return.flush" /\ j.net = job[w].net /\ j.port = p /\ j.todo = job[w].todo
    BY <1>2, <1>3 DEF Job
  <2>2. Become(w, j)
    BY <1>5 DEF ReturnEnable, ReturnWritten
  <2> HIDE DEF j
  <2>3. job'[w] = j
    BY <2>2, OnlyJob
  <2>4. sw'[p] = [sw[p] EXCEPT !.enabled = TRUE] /\ sw[p] \in PortState
    BY <1>1, <1>2, <1>5, WriteOk, WriteStarts DEF Written
  <2>5. InMode(p, "access") /\ sw[p].vlan = Onboarding
    BY <1>1, <1>2, <1>3 DEF SoleJobOK
  <2>6. InMode(p, "access")' /\ sw'[p].vlan = Onboarding /\ sw'[p].enabled
    BY <2>4, <2>5 DEF InMode, Shows, PortState
  <2>7. SoleJobOK(job[w])'
    BY <1>1, <1>2, <1>3, <2>1, <2>3, <2>6, ReturnGoesOn
  <2>8. QED
    BY <1>1, <2>7, KeptTrunks, SoleStep
<1>6. QED
  BY <1>4, <1>5

LEMMA ReturnFlushSole ==
  ASSUME IInv, OneWorker, SoleInv, NEW w \in Workers, NEW o \in Outcomes,
         ReturnFlush(w, o)
  PROVE  SoleInv'
<1>1. /\ job[w].pc = "return.flush" /\ job[w].pc \in SwitchWaits /\ SwitchSettles(w, o)
      /\ live' = live
  BY DEF ReturnFlush, Ready, SwitchWaits, VlanWaits
<1>2. PICK p \in Ports : p = job[w].port
  BY <1>1, WriteStarts
<1>3. SoleJobOK(job[w]) /\ job[w] \in Job /\ owner \in [Ports -> Ids \cup {None}]
  BY <1>1, WriteStarts
<1>4. CASE o # "ok"
  BY <1>4, KeptTrunks, FinishSole, SoleStep DEF ReturnFlush, Abort
<1>5. CASE o = "ok"
  <2>1. PortRole[p] # "ap-trunk"
    BY <1>1, <1>2, <1>3 DEF SoleJobOK, InMode, Shows
  <2>2. role' = [role EXCEPT ![p] = "client"] /\ owner' = [owner EXCEPT ![p] = None]
    BY <1>2, <1>5 DEF ReturnFlush, UpsertPort
  <2>3. CASE job[w].net # None /\ NextPort(w, job[w])
    <3>1. Removes(job[w])
      BY <1>1, <2>3 DEF Removes, ReturnWaits
    <3>2. \A q \in Ports : owner'[q] = job[w].net => q \in job[w].todo
      BY <1>2, <1>3, <2>2, <2>3, <3>1 DEF SoleJobOK
    <3>3. job[w].net \in live'
      BY <1>1, <1>3, <3>1 DEF SoleJobOK
    <3>4. SoleJobOK(job[w])'
      BY <1>3, <2>3, <3>2, <3>3, NextPortSole
    <3>5. QED
      BY <2>1, <2>2, <3>4, OtherTrunks, SoleStep
  <2>4. CASE Finish(w) \/ Become(w, [job[w] EXCEPT !.pc = "bounce"])
    <3>1. job'[w].pc = "bounce" \/ Finish(w)
      BY <1>3, <2>4, OnlyJob DEF Job
    <3>2. SoleJobOK(job[w])'
      BY <3>1, FinishSole, FreeSole DEF FreeWaits
    <3>3. QED
      BY <2>1, <2>2, <3>2, OtherTrunks, SoleStep
  <2>5. QED
    BY <1>5, <2>3, <2>4 DEF ReturnFlush
<1>6. QED
  BY <1>4, <1>5

LEMMA RoleWrittenSole ==
  ASSUME IInv, OneWorker, SoleInv, NEW w \in Workers, NEW o \in Outcomes,
         RoleWritten(w, o)
  PROVE  SoleInv'
<1>1. /\ job[w].pc = "role.write" /\ job[w].pc \in SwitchWaits /\ SwitchSettles(w, o)
      /\ Finish(w)
  BY DEF RoleWritten, Ready, SwitchWaits, VlanWaits
<1>2. PICK p \in Ports : p = job[w].port
  BY <1>1, WriteStarts
<1>3. CASE UNCHANGED role
  BY <1>1, <1>3, KeptTrunks, FinishSole, SoleStep
<1>4. CASE o = "ok" /\ role' = [role EXCEPT ![p] = job[w].role]
  <2>1. PortRole[p] # "ap-trunk" \/ job[w].role = "ap-trunk"
    BY <1>1, <1>2, <1>4, AccessOk
  <2>2. TrunksKept'
    BY <1>4, <2>1, OtherTrunks
  <2>3. QED
    BY <1>1, <2>2, FinishSole, SoleStep
<1>5. QED
  BY <1>2, <1>3, <1>4 DEF RoleWritten, UpsertPort

LEMMA TrunkedSole ==
  ASSUME IInv, OneWorker, SoleInv, NEW w \in Workers, NEW o \in Outcomes,
         CreateTrunked(w, o) \/ RemoveTrunked(w, o)
  PROVE  SoleInv'
<1>1. job[w].pc \in {"create.trunk", "remove.trunk"} /\ UNCHANGED role
  BY DEF CreateTrunked, RemoveTrunked, Ready
<1>2. Finish(w) \/ NextTrunk(w)
  BY DEF CreateTrunked, RemoveTrunked, CreateEnd, RemoveEnd
<1>3. QED
  BY <1>1, <1>2, NextTrunkSole, KeptTrunks, FinishSole, SoleStep

LEMMA WriteSole ==
  ASSUME IInv, OneWorker, SoleInv, NEW w \in Workers, NEW o \in Outcomes,
         WriteSettles(w, o)
  PROVE  SoleInv'
<1>1. ~AssignUndone(w, o)
  BY DEF AssignUndone, Ready, SoleInv, SoleJobOK
<1>2. CASE LastWrite(w, o)
  BY <1>2, KeptTrunks, FinishSole, SoleStep DEF LastWrite, database
<1>3. QED
  BY <1>1, <1>2, AssignWrittenSole, ReturnVlanSole, ReturnEnableSole, ReturnFlushSole,
     RoleWrittenSole, TrunkedSole DEF WriteSettles

(***************************************************************************)
(* The radio, the restart, and every step.                                 *)
(***************************************************************************)
LEMMA RadioSole ==
  ASSUME IInv, OneWorker, SoleInv, NEW w \in Workers, RadioMoves(w)
  PROVE  SoleInv'
<1>1. CASE RadioChecks(w) \/ RadioPosts(w)
  <2>1. UNCHANGED <<live, role, owner, sw, job>>
    BY <1>1 DEF RadioChecks, RadioPosts, database, requests
  <2>2. QED
    BY <2>1 DEF SoleInv, SoleJobOK, TrunksKept, Assignable, InMode, Trunks
<1>2. CASE CreateConfigured(w) \/ RemoveCleared(w)
  <2>1. UNCHANGED role
    BY <1>2 DEF CreateConfigured, RemoveCleared
  <2>2. PICK pc \in {"create.trunk", "remove.trunk"}, L \in SUBSET Ids :
          Finish(w) \/ BeginSync(w, pc, L)
    BY <1>2, Unchanged
       DEF CreateConfigured, RemoveCleared, CreateEnd, RemoveEnd, Abort
  <2>3. SoleJobOK(job[w])'
    BY <2>1, <2>2, FinishSole, BeginSyncSole
  <2>4. QED
    BY <2>1, <2>3, KeptTrunks, SoleStep
<1>3. QED
  BY <1>1, <1>2 DEF RadioMoves

LEMMA DeviceSole ==
  ASSUME SoleInv, UNCHANGED <<live, role, owner, sw, job>>
  PROVE  SoleInv'
BY DEF SoleInv, SoleJobOK, TrunksKept, Assignable, InMode, Trunks

LEMMA CrashSole ==
  ASSUME Crash
  PROVE  SoleInv'
<1>1. \A w \in Workers : job'[w].pc \in FreeWaits
  BY DEF Crash, Idle, FreeWaits
<1>2. TrunksKept'
  BY DEF Crash, TrunksKept
<1>3. QED
  BY <1>1, <1>2, FreeSole DEF SoleInv

LEMMA SoleNext ==
  ASSUME IInv, OneWorker, SoleInv, [Next]_vars
  PROVE  SoleInv'
<1>1. CASE RadioApplies \/ RadioDrops \/ UNCHANGED vars
  BY <1>1, DeviceSole
     DEF RadioApplies, RadioDrops, vars, database, hardware, requests
<1>2. QED
  BY <1>1, RequestSole, ReadSole, WriteSole, RadioSole, CrashSole DEF Next, Progress

LEMMA SoleInit == Init => SoleInv
<1>1. ASSUME Init
      PROVE  SoleInv
  <2>1. \A w \in Workers : job[w].pc = "idle"
    BY <1>1 DEF Init, StateInit, Idle
  <2>2. role = PortRole
    BY <1>1 DEF Init, StateInit
  <2>3. QED
    BY <2>1, <2>2 DEF SoleInv, SoleJobOK, Removes, ReturnWaits, TrunksKept
<1>2. QED
  BY <1>1

LEMMA SoleInvariance == OneWorker => (Spec => []SoleInv)
<1> SUFFICES ASSUME OneWorker
             PROVE  Spec => []SoleInv
  OBVIOUS
<1>1. IInv /\ SoleInv /\ [Next]_vars => SoleInv'
  BY SoleNext
<1>2. QED
  BY <1>1, SoleInit, Invariance, PTL DEF Spec

(***************************************************************************)
(* What a return leaves.                                                   *)
(***************************************************************************)
\* The steps that give or take a port's team.
LEMMA OwnerMoves ==
  ASSUME [Next]_vars, owner' # owner
  PROVE  \E w \in Workers :
           \/ RemoveCleared(w)
           \/ \E o \in Outcomes :
                AssignWritten(w, o) \/ ReturnFlush(w, o) \/ RoleWritten(w, o)
<1>1. ASSUME NEW w \in Workers, Request(w)
      PROVE  FALSE
  BY <1>1
     DEF Request, PortRequest, TeamRequest, AssignStart, ReturnStart, RoleStart,
         EnableStart, BounceStart, CreateStart, RemoveStart, RefreshStart,
         ConnectStart, database
<1>2. ASSUME NEW w \in Workers, ReadSettles(w)
      PROVE  FALSE
  BY <1>2
     DEF ReadSettles, AssignCheck, ReturnCheck, RoleCheck, PortRead, PortUnreadable,
         CreateScan, RefreshRow, ConnectFound, ConnectLost, database
<1>3. ASSUME NEW w \in Workers, RadioMoves(w)
      PROVE  RemoveCleared(w)
  BY <1>3 DEF RadioMoves, RadioChecks, RadioPosts, CreateConfigured, database
<1>4. ASSUME NEW w \in Workers, NEW o \in Outcomes, WriteSettles(w, o)
      PROVE  AssignWritten(w, o) \/ ReturnFlush(w, o) \/ RoleWritten(w, o)
  BY <1>4
     DEF WriteSettles, AssignUndone, ReturnVlan, ReturnEnable, ReturnWritten,
         LastWrite, CreateTrunked, RemoveTrunked, database
<1>5. ~(RadioApplies \/ RadioDrops \/ Crash \/ UNCHANGED vars)
  BY DEF RadioApplies, RadioDrops, Crash, vars, database
<1>6. QED
  BY <1>1, <1>2, <1>3, <1>4, <1>5 DEF Next, Progress

\* When the row of a network goes, no port is assigned to it any more.
LEMMA NoOwnerLeft ==
  ASSUME SoleInv, NEW w \in Workers, job[w].pc = "remove.clear", NEW p \in Ports
  PROVE  job[w].net = None \/ owner[p] # job[w].net
BY TopologyAssumption DEF SoleInv, SoleJobOK, Removes, None

\* PortAssignmentService: whatever write or read failed on the way, and however
\* often the server crashed, a port loses its team only when it is back on the
\* onboarding VLAN and enabled, if requests do not overlap.
THEOREM ResetTheorem == OneWorker => (Spec => ReturnResetsPort)
<1> SUFFICES ASSUME OneWorker
             PROVE  Spec => ReturnResetsPort
  OBVIOUS
<1> DEFINE Reset ==
      \A p \in Ports : owner[p] # None /\ owner'[p] = None =>
        InMode(p, "access")' /\ sw'[p].vlan = Onboarding /\ sw'[p].enabled
<1>1. ASSUME IInv, SoleInv, [Next]_vars
      PROVE  Reset
  <2> SUFFICES ASSUME NEW p \in Ports, owner[p] # None, owner'[p] = None
               PROVE  InMode(p, "access")' /\ sw'[p].vlan = Onboarding /\ sw'[p].enabled
    OBVIOUS
  <2>1. PICK w \in Workers :
          \/ RemoveCleared(w)
          \/ \E o \in Outcomes :
               AssignWritten(w, o) \/ ReturnFlush(w, o) \/ RoleWritten(w, o)
    BY <1>1, OwnerMoves
  <2>2. SoleJobOK(job[w]) /\ owner \in [Ports -> Ids \cup {None}] /\ None \notin live
    BY <1>1, Unchanged, IdAssumption DEF SoleInv, None
  <2>3. ~RemoveCleared(w)
    BY <1>1, <2>2, NoOwnerLeft DEF RemoveCleared, DeleteRow, Ready
  <2>4. ASSUME NEW o \in Outcomes, AssignWritten(w, o)
        PROVE  FALSE
    BY <2>2, <2>4 DEF AssignWritten, Ready, SoleJobOK, UpsertPort
  <2>5. ASSUME NEW o \in Outcomes, RoleWritten(w, o)
        PROVE  FALSE
    BY <2>2, <2>5 DEF RoleWritten, Ready, SoleJobOK, UpsertPort
  <2>6. ASSUME NEW o \in Outcomes, ReturnFlush(w, o)
        PROVE  InMode(p, "access")' /\ sw'[p].vlan = Onboarding /\ sw'[p].enabled
    <3>1. o = "ok" /\ job[w].pc = "return.flush" /\ job[w].port = p
      BY <2>2, <2>6 DEF ReturnFlush, Ready, UpsertPort
    <3>2. SwitchSettles(w, "ok")
      BY <2>6, <3>1 DEF ReturnFlush
    <3>3. sw'[p] = sw[p]
      BY <1>1, <3>1, <3>2, WriteOk DEF Written, SwitchWaits, VlanWaits
    <3>4. InMode(p, "access") /\ sw[p].vlan = Onboarding /\ sw[p].enabled
      BY <2>2, <3>1 DEF SoleJobOK
    <3>5. QED
      BY <3>3, <3>4 DEF InMode
  <2>7. QED
    BY <2>1, <2>3, <2>4, <2>5, <2>6
<1>2. IInv /\ SoleInv /\ [Next]_vars => Reset
  BY <1>1
<1>3. QED
  BY <1>2, SoleInvariance, Invariance, PTL DEF Spec, ReturnResetsPort

(***************************************************************************)
(* Where ports rest when a rejected write changed nothing.                 *)
(***************************************************************************)
\* A write leaves its port as it was, or as it should be; then it succeeds
\* unless the readback insists on the other mode.
LEMMA WriteClean ==
  ASSUME IInv, WritesClean, NEW w \in Workers, NEW o \in Outcomes,
         NEW p \in Ports, p = job[w].port, job[w].pc \in SwitchWaits,
         SwitchSettles(w, o)
  PROVE  \/ o # "ok" /\ sw' = sw
         \/ /\ sw' = [sw EXCEPT ![p] = Written(sw[p], job[w])]
            /\ o = "ok" <=> Confirmable(job[w])
<1>1. sw \in [Ports -> PortState]
  BY Unchanged
<1>2. CASE o \in Faults
  <2>1. o = "lost"
    BY <1>2 DEF WritesClean
  <2>2. PortsAfter(job[w], o) = {sw[p]}
    BY <2>1, Zenon DEF PortsAfter
  <2>3. QED
    BY <1>1, <2>1, <2>2 DEF SwitchSettles
<1>3. CASE o = "ok" /\ Confirmable(job[w])
  <2>1. PortsAfter(job[w], o) = {Written(sw[p], job[w])}
    BY <1>3, Zenon DEF PortsAfter
  <2>2. QED
    BY <1>3, <2>1 DEF SwitchSettles
<1>4. CASE o = "late" /\ ~Confirmable(job[w])
  <2>1. job[w].pc # "bounce"
    BY <1>4 DEF Confirmable, VlanWaits
  <2>2. PortsAfter(job[w], o) = {Written(sw[p], job[w])}
    BY <1>4, <2>1, Zenon DEF PortsAfter
  <2>3. QED
    BY <1>4, <2>2 DEF SwitchSettles
<1>5. QED
  BY <1>2, <1>3, <1>4 DEF SwitchSettles, MayEnd

\* What each write makes of its port's VLAN.
LEMMA WrittenVlan ==
  ASSUME NEW port \in PortState, NEW j
  PROVE  /\ j.pc = "return.vlan" => Written(port, j).vlan = Onboarding
         /\ j.pc = "role.write" =>
              Written(port, j).vlan =
                IF j.role \in {"client", "unused"} THEN Onboarding ELSE Management
         /\ j.pc \in {"create.trunk", "remove.trunk"} =>
              Written(port, j).vlan = Management
         /\ j.pc \in SwitchWaits \ VlanWaits => Written(port, j).vlan = port.vlan
<1>1. j.pc \in SwitchWaits \ VlanWaits =>
        Written(port, j) \in {port, [port EXCEPT !.enabled = TRUE],
                              [port EXCEPT !.enabled = j.flag]}
  BY Zenon DEF Written, SwitchWaits, VlanWaits
<1>2. QED
  BY <1>1 DEF Written, RoleConfigured, Access, Trunk, PortState

\* A port is left to itself.
Untouched(p) == sw'[p].vlan = sw[p].vlan /\ owner'[p] = owner[p] /\ role'[p] = role[p]

\* What a switch write and the statement after it make of their port.
Rests(w, p) ==
  \/ Untouched(p)
  \/ sw'[p].vlan = Onboarding
  \/ owner'[p] \in live /\ sw'[p].vlan = net[owner'[p]].vlan
  \/ /\ sw'[p].vlan = Management
     /\ \/ role'[p] \notin {"client", "unused"}
        \/ PortRole[p] = "ap-trunk"
        \/ job[w].pc = "role.write" /\ job[w].role = "ap-trunk"

LEMMA AssignRests ==
  ASSUME IInv, SoleInv, WritesClean, NEW w \in Workers, NEW o \in Outcomes,
         AssignWritten(w, o), NEW p \in Ports, p = job[w].port
  PROVE  Rests(w, p) /\ \A q \in Ports \ {p} : Untouched(q)
<1>1. /\ job[w].pc = "assign.vlan" /\ job[w].pc \in SwitchWaits /\ SwitchSettles(w, o)
  BY DEF AssignWritten, Ready, SwitchWaits, VlanWaits
<1>2. /\ job[w].net \in live /\ job[w] \in Job /\ Assignable(p)
      /\ sw \in [Ports -> PortState] /\ role \in [Ports -> Role]
      /\ owner \in [Ports -> Ids \cup {None}]
  BY <1>1, WriteStarts DEF SoleJobOK
<1>3. CASE o # "ok" /\ sw' = sw
  BY <1>3 DEF AssignWritten, Rests, Untouched
<1>4. CASE sw' = [sw EXCEPT ![p] = Written(sw[p], job[w])] /\ (o = "ok" <=> Confirmable(job[w]))
  <2>1. Written(sw[p], job[w]) = Access(sw[p], net[job[w].net].vlan)
    BY <1>1, Zenon DEF Written
  <2>2. sw'[p].vlan = net[job[w].net].vlan
    BY <1>2, <1>4, <2>1 DEF Access, PortState
  <2>3. PortRole[p] # "ap-trunk"
    BY <1>2 DEF Assignable, SoleInv, TrunksKept
  <2>4. Confirmable(job[w])
    BY <1>1, <1>2, <2>1, <2>3 DEF Confirmable, ModeAsked, Shows, Access, PortState
  <2>5. owner' = [owner EXCEPT ![p] = job[w].net] /\ role' = [role EXCEPT ![p] = "client"]
    BY <1>2, <1>4, <2>4 DEF AssignWritten, ForeignKeyHolds, UpsertPort
  <2>6. QED
    BY <1>2, <1>4, <2>2, <2>5 DEF Rests, Untouched
<1>5. QED
  BY <1>1, <1>3, <1>4, WriteClean

LEMMA ReturnRests ==
  ASSUME IInv, SoleInv, WritesClean, NEW w \in Workers, NEW o \in Outcomes,
         ReturnVlan(w, o) \/ ReturnEnable(w, o) \/ ReturnFlush(w, o),
         NEW p \in Ports, p = job[w].port
  PROVE  Rests(w, p) /\ \A q \in Ports \ {p} : Untouched(q)
<1>1. /\ job[w].pc \in {"return.vlan", "return.enable", "return.flush"}
      /\ job[w].pc \in SwitchWaits /\ SwitchSettles(w, o)
  BY DEF ReturnVlan, ReturnEnable, ReturnWritten, ReturnFlush, Ready, SwitchWaits, VlanWaits
<1>2. /\ job[w] \in Job /\ SoleJobOK(job[w])
      /\ sw \in [Ports -> PortState] /\ role \in [Ports -> Role]
      /\ owner \in [Ports -> Ids \cup {None}]
  BY <1>1, WriteStarts
<1>3. /\ \A q \in Ports \ {p} : role'[q] = role[q] /\ owner'[q] = owner[q]
      /\ job[w].pc # "return.flush" => UNCHANGED <<role, owner>>
      /\ o # "ok" => UNCHANGED <<role, owner>>
  BY <1>2 DEF ReturnVlan, ReturnEnable, ReturnWritten, ReturnFlush, UpsertPort, Ready
<1>4. CASE o # "ok" /\ sw' = sw
  BY <1>3, <1>4 DEF Rests, Untouched
<1>5. CASE sw' = [sw EXCEPT ![p] = Written(sw[p], job[w])]
  <2>1. sw'[p] = Written(sw[p], job[w]) /\ sw[p] \in PortState
    BY <1>2, <1>5
  <2>2. CASE job[w].pc = "return.vlan"
    BY <1>3, <1>5, <2>1, <2>2, WrittenVlan DEF Rests, Untouched
  <2>3. CASE job[w].pc = "return.enable"
    <3>1. sw'[p].vlan = sw[p].vlan
      BY <2>1, <2>3, WrittenVlan DEF SwitchWaits, VlanWaits
    <3>2. QED
      BY <1>3, <1>5, <2>3, <3>1 DEF Rests, Untouched
  <2>4. CASE job[w].pc = "return.flush"
    <3>1. sw'[p].vlan = sw[p].vlan
      BY <2>1, <2>4, WrittenVlan DEF SwitchWaits, VlanWaits
    <3>2. sw[p].vlan = Onboarding
      BY <1>2, <2>4 DEF SoleJobOK
    <3>3. QED
      BY <1>3, <1>5, <3>1, <3>2 DEF Rests, Untouched
  <2>5. QED
    BY <1>1, <2>2, <2>3, <2>4
<1>6. QED
  BY <1>1, <1>4, <1>5, WriteClean

LEMMA RoleRests ==
  ASSUME IInv, SoleInv, WritesClean, NEW w \in Workers, NEW o \in Outcomes,
         RoleWritten(w, o), NEW p \in Ports, p = job[w].port
  PROVE  Rests(w, p) /\ \A q \in Ports \ {p} : Untouched(q)
<1>1. job[w].pc = "role.write" /\ job[w].pc \in SwitchWaits /\ SwitchSettles(w, o)
  BY DEF RoleWritten, Ready, SwitchWaits, VlanWaits
<1>2. /\ job[w] \in Job /\ job[w].net = owner[p] /\ ForeignKeyHolds(owner[p])
      /\ sw \in [Ports -> PortState] /\ role \in [Ports -> Role]
      /\ owner \in [Ports -> Ids \cup {None}]
  BY <1>1, WriteStarts DEF SoleJobOK, ForeignKeyHolds, IInv, AssignmentIntegrity
<1>3. \/ o # "ok" /\ UNCHANGED <<role, owner>>
      \/ o = "ok" /\ owner' = owner /\ role' = [role EXCEPT ![p] = job[w].role]
  BY <1>2 DEF RoleWritten, UpsertPort
<1>4. CASE o # "ok" /\ sw' = sw
  BY <1>3, <1>4 DEF Rests, Untouched
<1>5. CASE /\ sw' = [sw EXCEPT ![p] = Written(sw[p], job[w])]
           /\ o = "ok" <=> Confirmable(job[w])
  <2>1. /\ sw'[p].vlan = IF job[w].role \in {"client", "unused"} THEN Onboarding ELSE Management
        /\ sw[p] \in PortState
    BY <1>1, <1>2, <1>5, WrittenVlan
  <2>2. \A q \in Ports \ {p} : Untouched(q)
    BY <1>2, <1>3, <1>5 DEF Untouched
  <2>3. CASE o = "ok"
    BY <1>1, <1>2, <1>3, <2>1, <2>2, <2>3 DEF Rests
  <2>4. CASE o # "ok"
    <3>1. ~Confirmable(job[w])
      BY <1>5, <2>4
    <3>2. job[w].role = "ap-trunk" \/ Written(sw[p], job[w]).tagged = {}
      BY <1>1, <2>1 DEF Written, RoleConfigured, Access, PortState
    <3>3. job[w].role = "ap-trunk" \/ PortRole[p] = "ap-trunk"
      BY <1>1, <3>1, <3>2 DEF Confirmable, ModeAsked, Shows
    <3>4. QED
      BY <1>1, <2>1, <2>2, <3>3 DEF Rests
  <2>5. QED
    BY <2>3, <2>4
<1>6. QED
  BY <1>1, <1>4, <1>5, WriteClean

LEMMA TrunkRests ==
  ASSUME IInv, SoleInv, WritesClean, NEW w \in Workers, NEW o \in Outcomes,
         CreateTrunked(w, o) \/ RemoveTrunked(w, o), NEW p \in Ports, p = job[w].port
  PROVE  Rests(w, p) /\ \A q \in Ports \ {p} : Untouched(q)
<1>1. /\ job[w].pc \in {"create.trunk", "remove.trunk"} /\ job[w].pc \in SwitchWaits
      /\ SwitchSettles(w, o) /\ UNCHANGED <<role, owner>>
  BY DEF CreateTrunked, RemoveTrunked, Ready, SwitchWaits, VlanWaits
<1>2. role[p] = "ap-trunk" /\ sw \in [Ports -> PortState]
  BY <1>1, WriteStarts DEF SoleJobOK, Trunks
<1>3. CASE sw' = sw
  BY <1>1, <1>3 DEF Rests, Untouched
<1>4. CASE sw' = [sw EXCEPT ![p] = Written(sw[p], job[w])]
  <2>1. sw'[p].vlan = Management
    BY <1>1, <1>2, <1>4, WrittenVlan
  <2>2. QED
    BY <1>1, <1>2, <1>4, <2>1 DEF Rests, Untouched
<1>5. QED
  BY <1>1, <1>3, <1>4, WriteClean

LEMMA LastRests ==
  ASSUME IInv, SoleInv, WritesClean, NEW w \in Workers, NEW o \in Outcomes,
         LastWrite(w, o), NEW p \in Ports, p = job[w].port
  PROVE  Rests(w, p) /\ \A q \in Ports \ {p} : Untouched(q)
<1>1. /\ job[w].pc \in {"enable.write", "bounce"} /\ job[w].pc \in SwitchWaits
      /\ SwitchSettles(w, o) /\ UNCHANGED <<role, owner>>
  BY DEF LastWrite, Ready, SwitchWaits, VlanWaits, database
<1>2. sw \in [Ports -> PortState]
  BY <1>1, WriteStarts
<1>3. CASE sw' = sw
  BY <1>1, <1>3 DEF Rests, Untouched
<1>4. CASE sw' = [sw EXCEPT ![p] = Written(sw[p], job[w])]
  <2>1. sw'[p].vlan = sw[p].vlan
    BY <1>1, <1>2, <1>4, WrittenVlan DEF SwitchWaits, VlanWaits
  <2>2. QED
    BY <1>1, <1>2, <1>4, <2>1 DEF Rests, Untouched
<1>5. QED
  BY <1>1, <1>3, <1>4, WriteClean

\* A switch write settles: one port is at rest, the others are left alone.
LEMMA WriteRests ==
  ASSUME IInv, SoleInv, WritesClean, NEW w \in Workers, NEW o \in Outcomes,
         WriteSettles(w, o)
  PROVE  /\ UNCHANGED <<live, net>>
         /\ \E p \in Ports : Rests(w, p) /\ \A q \in Ports \ {p} : Untouched(q)
<1>1. job[w].pc \in SwitchWaits /\ UNCHANGED <<live, net>> /\ ~AssignUndone(w, o)
  BY DEF WriteSettles, AssignWritten, AssignUndone, ReturnVlan, ReturnEnable,
         ReturnWritten, ReturnFlush, RoleWritten, LastWrite, CreateTrunked,
         RemoveTrunked, database, SoleInv, SoleJobOK, Ready, SwitchWaits, VlanWaits
<1>2. PICK p \in Ports : p = job[w].port
  BY <1>1, WriteStarts
<1>3. QED
  BY <1>1, <1>2, AssignRests, ReturnRests, RoleRests, TrunkRests, LastRests
     DEF WriteSettles

\* No other step moves a port, gives it another team or takes its team's row.
LEMMA OthersRest ==
  ASSUME IInv, SoleInv, WritesClean, [Next]_vars,
         ~\E w \in Workers, o \in Outcomes : WriteSettles(w, o)
  PROVE  /\ UNCHANGED <<sw, role, owner>>
         /\ \A p \in Ports : owner[p] \in live =>
              owner[p] \in live' /\ net'[owner[p]] = net[owner[p]]
<1>1. ASSUME NEW w \in Workers, CreateScan(w)
      PROVE  /\ UNCHANGED <<sw, role, owner>>
             /\ \A n \in live : n \in live' /\ net'[n] = net[n]
  <2>1. job[w].net \notin live
    BY <1>1, Unchanged DEF CreateScan, Ready, IInv, RequestsOK, JobsOK, JobOK
  <2>2. net \in [Ids -> Network]
    BY DEF IInv, TypeOK, StateTypeOK
  <2>3. \/ UNCHANGED <<live, net>>
        \/ /\ live' = live \cup {job[w].net}
           /\ \E lease : net' = [net EXCEPT ![job[w].net] = lease]
    BY <1>1 DEF CreateScan, Inserts
  <2>4. UNCHANGED <<sw, role, owner>>
    BY <1>1 DEF CreateScan, hardware
  <2>5. \A n \in live : n \in Ids
    BY Unchanged
  <2>6. QED
    BY <2>1, <2>2, <2>3, <2>4, <2>5
<1>2. ASSUME NEW w \in Workers, RemoveCleared(w)
      PROVE  /\ UNCHANGED <<sw, role, owner>>
             /\ \A p \in Ports : owner[p] \in live =>
                  owner[p] \in live' /\ net'[owner[p]] = net[owner[p]]
  <2>1. job[w].pc = "remove.clear"
    BY <1>2 DEF RemoveCleared, Ready
  <2>2. \A p \in Ports : job[w].net = None \/ owner[p] # job[w].net
    BY <2>1, NoOwnerLeft
  <2>3. /\ owner \in [Ports -> Ids \cup {None}] /\ live \subseteq Ids /\ None \notin Ids
    BY Unchanged, IdAssumption DEF None
  <2>4. UNCHANGED <<sw, role, net>> /\ (UNCHANGED <<live, owner>> \/ DeleteRow(job[w].net))
    BY <1>2 DEF RemoveCleared, RadioConfirms, RadioRejects
  <2>5. CASE DeleteRow(job[w].net)
    <3>1. \A p \in Ports : owner'[p] = owner[p]
      BY <2>2, <2>5 DEF DeleteRow
    <3>2. owner' = owner
      BY <2>3, <2>5, <3>1 DEF DeleteRow
    <3>3. QED
      BY <2>2, <2>3, <2>4, <2>5, <3>2 DEF DeleteRow
  <2>6. QED
    BY <2>4, <2>5
<1>3. ASSUME NEW w \in Workers, Request(w)
      PROVE  UNCHANGED <<sw, role, owner, live, net>>
  BY <1>3
     DEF Request, PortRequest, TeamRequest, AssignStart, ReturnStart, RoleStart,
         EnableStart, BounceStart, CreateStart, RemoveStart, RefreshStart,
         ConnectStart, database, hardware
<1>4. ASSUME NEW w \in Workers, ReadSettles(w), ~CreateScan(w)
      PROVE  UNCHANGED <<sw, role, owner, live, net>>
  BY <1>4
     DEF ReadSettles, AssignCheck, ReturnCheck, RoleCheck, PortRead, PortUnreadable,
         RefreshRow, ConnectFound, ConnectLost, database, hardware
<1>5. ASSUME NEW w \in Workers, RadioMoves(w), ~RemoveCleared(w)
      PROVE  UNCHANGED <<sw, role, owner, live, net>>
  BY <1>5 DEF RadioMoves, RadioChecks, RadioPosts, CreateConfigured, RadioConfirms,
              RadioRejects, database
<1>6. CASE RadioApplies \/ RadioDrops \/ UNCHANGED vars
  BY <1>6 DEF RadioApplies, RadioDrops, vars, database, hardware
<1>7. ~Crash
  BY DEF Crash, WritesClean
<1>8. QED
  BY <1>1, <1>2, <1>3, <1>4, <1>5, <1>6, <1>7 DEF Next, Progress

LEMMA PlacedNext ==
  ASSUME IInv, SoleInv, WritesClean, PortsPlaced, [Next]_vars
  PROVE  PortsPlaced'
<1>1. CASE ~\E w \in Workers, o \in Outcomes : WriteSettles(w, o)
  BY <1>1, OthersRest DEF PortsPlaced, OnOwnVlan
<1>2. ASSUME NEW w \in Workers, NEW o \in Outcomes, WriteSettles(w, o)
      PROVE  PortsPlaced'
  BY <1>2, WriteRests DEF PortsPlaced, OnOwnVlan, Rests, Untouched
<1>3. QED
  BY <1>1, <1>2

LEMMA PlacedInvariance == OneWorker /\ WritesClean => (Spec => []PortsPlaced)
<1> SUFFICES ASSUME OneWorker, WritesClean
             PROVE  Spec => []PortsPlaced
  OBVIOUS
<1>1. Init => PortsPlaced
  BY DEF Init, StateInit, PortsPlaced, OnOwnVlan, RoleConfigured, Access, Trunk
<1>2. IInv /\ SoleInv /\ PortsPlaced /\ [Next]_vars => PortsPlaced'
  BY PlacedNext
<1>3. QED
  BY <1>1, <1>2, SoleInvariance, Invariance, PTL DEF Spec

\* TeamNetworkService: a VLAN becomes free for the next network only when no
\* port at all is on it, if requests do not overlap and a rejected switch write
\* changed nothing; the radio may fail in every way.
THEOREM FreedTheorem == OneWorker /\ WritesClean => (Spec => VlanFreedClean)
<1> SUFFICES ASSUME OneWorker, WritesClean
             PROVE  Spec => VlanFreedClean
  OBVIOUS
<1> DEFINE Freed ==
      \A n \in live \ live' : \A p \in Ports :
        InMode(p, "access")' => sw'[p].vlan # net[n].vlan
<1>1. ASSUME IInv, SoleInv, RowsApart, PortsPlaced, [Next]_vars
      PROVE  Freed
  <2> SUFFICES ASSUME NEW n \in live, n \notin live', NEW p \in Ports
               PROVE  sw'[p].vlan # net[n].vlan
    OBVIOUS
  <2>1. \A v \in Workers, o \in Outcomes : ~WriteSettles(v, o)
    BY <1>1, WriteRests
  <2>2. sw' = sw /\ (owner[p] \in live => owner[p] \in live')
    BY <1>1, <2>1, OthersRest
  <2>3. net[n].vlan \notin {Onboarding, Management}
    BY <1>1 DEF IInv, RequestsOK, RowsGranted, Granted
  <2>4. QED
    BY <1>1, <2>2, <2>3 DEF PortsPlaced, OnOwnVlan, RowsApart
<1>2. IInv /\ SoleInv /\ RowsApart /\ PortsPlaced /\ [Next]_vars => Freed
  BY <1>1
<1>3. QED
  BY <1>2, SoleInvariance, RowsApartInvariant, PlacedInvariance, Invariance, PTL
     DEF Spec, VlanFreedClean

(***************************************************************************)
(* Isolation of the client ports.                                          *)
(***************************************************************************)
\* No client asks for a second kind of trunk.
NoTrunkAsked == "ap-trunk" \notin AskedRoles

\* The role a request names is the one it was sent with, and a request comes
\* to its trunks only as the create that has configured the radio.
LEMMA NextPortJob ==
  ASSUME IInv, NEW w \in Workers, NEW j \in Job, NextPort(w, j)
  PROVE  job'[w].role = j.role /\ job'[w].pc # "create.trunk"
<1>1. CASE Become(w, [j EXCEPT !.pc = "remove.clear", !.port = None])
  <2> DEFINE k == [j EXCEPT !.pc = "remove.clear", !.port = None]
  <2>1. k.role = j.role /\ k.pc = "remove.clear"
    BY DEF Job
  <2>2. job'[w] = k
    BY <1>1, OnlyJob
  <2> HIDE DEF k
  <2>3. QED
    BY <2>1, <2>2
<1>2. ASSUME NEW p \in Ports,
             Become(w, [j EXCEPT !.pc = "return.read", !.port = p, !.todo = @ \ {p}])
      PROVE  job'[w].role = j.role /\ job'[w].pc # "create.trunk"
  <2> DEFINE k == [j EXCEPT !.pc = "return.read", !.port = p, !.todo = @ \ {p}]
  <2>1. k.role = j.role /\ k.pc = "return.read"
    BY DEF Job
  <2>2. job'[w] = k
    BY <1>2, OnlyJob
  <2> HIDE DEF k
  <2>3. QED
    BY <2>1, <2>2
<1>3. QED
  BY <1>1, <1>2 DEF NextPort

StartsAs(w) ==
  job'[w].role \in AskedRoles \cup {"client"} /\ job'[w].pc # "create.trunk"

LEMMA RequestJob ==
  ASSUME IInv, NEW w \in Workers, Request(w)
  PROVE  StartsAs(w)
<1>1. job \in [Workers -> Job]
  BY Unchanged
<1>2. ASSUME NEW p \in Ports, NEW n \in Ids, NEW b \in BOOLEAN, AssignStart(w, p, n, b)
      PROVE  StartsAs(w)
  BY <1>1, <1>2 DEF AssignStart, Become, Idle, StartsAs
<1>3. ASSUME NEW p \in Ports, NEW b \in BOOLEAN, ReturnStart(w, p, b)
      PROVE  StartsAs(w)
  BY <1>1, <1>3 DEF ReturnStart, Become, Idle, StartsAs
<1>4. ASSUME NEW p \in Ports, NEW r \in AskedRoles, RoleStart(w, p, r)
      PROVE  StartsAs(w)
  BY <1>1, <1>4 DEF RoleStart, Become, Idle, StartsAs
<1>5. ASSUME NEW p \in Ports, NEW e \in BOOLEAN, EnableStart(w, p, e)
      PROVE  StartsAs(w)
  BY <1>1, <1>5 DEF EnableStart, Become, Idle, StartsAs
<1>6. ASSUME NEW p \in Ports, BounceStart(w, p)
      PROVE  StartsAs(w)
  BY <1>1, <1>6 DEF BounceStart, Become, Idle, StartsAs
<1>7. ASSUME NEW number, NEW S, CreateStart(w, number, S)
      PROVE  StartsAs(w)
  BY <1>1, <1>7 DEF CreateStart, Become, Idle, StartsAs
<1>8. ASSUME NEW n \in Ids, RemoveStart(w, n)
      PROVE  StartsAs(w)
  <2> DEFINE j == [Idle EXCEPT !.net = n, !.todo = {p \in Ports : owner[p] = n}]
  <2>1. j \in Job /\ j.role = "client"
    BY IdleOK DEF Job, Idle
  <2>2. NextPort(w, j)
    BY <1>8 DEF RemoveStart
  <2> HIDE DEF j
  <2>3. QED
    BY <2>1, <2>2, NextPortJob DEF StartsAs
<1>9. CASE RefreshStart(w)
  BY <1>1, <1>9 DEF RefreshStart, Become, Idle, StartsAs
<1>10. ASSUME NEW number, ConnectStart(w, number)
       PROVE  StartsAs(w)
  BY <1>1, <1>10 DEF ConnectStart, Become, Idle, StartsAs
<1>11. QED
  BY <1>2, <1>3, <1>4, <1>5, <1>6, <1>7, <1>8, <1>9, <1>10
     DEF Request, PortRequest, TeamRequest

GoesOnAs(w) ==
  /\ job'[w].role \in {job[w].role, "client"}
  /\ job'[w].pc = "create.trunk" =>
       /\ job'[w].net = job[w].net
       /\ CreateConfigured(w) \/ \E o \in Outcomes : CreateTrunked(w, o)

LEMMA ProgressJob ==
  ASSUME IInv, NEW w \in Workers, Progress(w)
  PROVE  GoesOnAs(w)
<1>1. job[w] \in Job
  BY Unchanged
<1>2. CASE Finish(w)
  BY <1>2, OnlyJob DEF Finish, Idle, GoesOnAs
<1>3. ASSUME NEW pc, pc # "create.trunk",
             Become(w, [job[w] EXCEPT !.pc = pc])
      PROVE  GoesOnAs(w)
  <2> DEFINE j == [job[w] EXCEPT !.pc = pc]
  <2>1. j.role = job[w].role /\ j.pc = pc
    BY <1>1 DEF Job
  <2>2. Become(w, j)
    BY <1>3
  <2> HIDE DEF j
  <2>3. QED
    BY <1>3, <2>1, <2>2, OnlyJob DEF GoesOnAs
<1>4. CASE AssignCheck(w) /\ ~Finish(w)
  <2>1. PICK v : Become(w, [job[w] EXCEPT !.pc = "assign.vlan", !.vlan = v])
    BY <1>4 DEF AssignCheck
  <2> DEFINE j == [job[w] EXCEPT !.pc = "assign.vlan", !.vlan = v]
  <2>2. j.role = job[w].role /\ j.pc = "assign.vlan"
    BY <1>1 DEF Job
  <2>3. Become(w, j)
    BY <2>1
  <2> HIDE DEF j
  <2>4. QED
    BY <2>2, <2>3, OnlyJob DEF GoesOnAs
<1>5. CASE RoleCheck(w) /\ ~Finish(w)
  <2>1. PICK n, V :
          Become(w, [job[w] EXCEPT !.pc = "role.write", !.net = n, !.vlans = V])
    BY <1>5 DEF RoleCheck
  <2> DEFINE j == [job[w] EXCEPT !.pc = "role.write", !.net = n, !.vlans = V]
  <2>2. j.role = job[w].role /\ j.pc = "role.write"
    BY <1>1 DEF Job
  <2>3. Become(w, j)
    BY <2>1
  <2> HIDE DEF j
  <2>4. QED
    BY <2>2, <2>3, OnlyJob DEF GoesOnAs
<1>6. CASE CreateScan(w) /\ ~Finish(w)
  <2>1. PICK s \in Slots :
          \/ Become(w, [job[w] EXCEPT !.pc = "create.config", !.slots = {},
                                      !.number = None])
          \/ Become(w, [job[w] EXCEPT !.slots = @ \ {s}])
    BY <1>6 DEF CreateScan
  <2>2. CASE Become(w, [job[w] EXCEPT !.slots = @ \ {s}])
    <3> DEFINE j == [job[w] EXCEPT !.slots = @ \ {s}]
    <3>1. j.role = job[w].role /\ j.pc = "create.scan" /\ Become(w, j)
      BY <1>1, <1>6, <2>2 DEF Job, CreateScan, Ready
    <3> HIDE DEF j
    <3>2. QED
      BY <3>1, OnlyJob DEF GoesOnAs
  <2>3. CASE Become(w, [job[w] EXCEPT !.pc = "create.config", !.slots = {},
                                      !.number = None])
    <3> DEFINE j == [job[w] EXCEPT !.pc = "create.config", !.slots = {}, !.number = None]
    <3>1. j.role = job[w].role /\ j.pc = "create.config" /\ Become(w, j)
      BY <1>1, <2>3 DEF Job
    <3> HIDE DEF j
    <3>2. QED
      BY <3>1, OnlyJob DEF GoesOnAs
  <2>4. QED
    BY <2>1, <2>2, <2>3
<1>7. CASE RefreshRow(w) /\ ~Finish(w)
  <2>1. PICK n \in Ids : Become(w, [job[w] EXCEPT !.seen[n] = "-"])
    BY <1>7 DEF RefreshRow, Listed
  <2> DEFINE j == [job[w] EXCEPT !.seen[n] = "-"]
  <2>2. j.role = job[w].role /\ j.pc = "refresh"
    BY <1>1, <1>7 DEF Job, RefreshRow, Ready
  <2>3. Become(w, j)
    BY <2>1
  <2> HIDE DEF j
  <2>4. QED
    BY <2>2, <2>3, OnlyJob DEF GoesOnAs
<1>8. CASE ConnectFound(w) /\ ~Finish(w)
  <2>1. PICK p \in Ports :
          Become(w, [job[w] EXCEPT !.pc = "assign.read", !.port = p, !.flag = TRUE])
    BY <1>8 DEF ConnectFound
  <2> DEFINE j == [job[w] EXCEPT !.pc = "assign.read", !.port = p, !.flag = TRUE]
  <2>2. j.role = job[w].role /\ j.pc = "assign.read"
    BY <1>1 DEF Job
  <2>3. Become(w, j)
    BY <2>1
  <2> HIDE DEF j
  <2>4. QED
    BY <2>2, <2>3, OnlyJob DEF GoesOnAs
<1>9. CASE RadioChecks(w) \/ RadioPosts(w)
  BY <1>9
     DEF RadioChecks, RadioPosts, requests, AtStage, OnRadio, RadioWaits, GoesOnAs
<1>10. CASE (CreateConfigured(w) \/ RemoveCleared(w)) /\ ~Finish(w)
  <2>1. PICK pc, L :
          /\ BeginSync(w, pc, L)
          /\ pc = "create.trunk" => CreateConfigured(w)
    BY <1>10 DEF CreateConfigured, RemoveCleared, CreateEnd, RemoveEnd, Abort
  <2>2. PICK p \in Ports :
          Become(w, [job[w] EXCEPT !.pc = pc, !.port = p, !.todo = Trunks \ {p},
                                   !.vlans = AllocatedVlans(L)])
    BY <2>1 DEF BeginSync
  <2> DEFINE j == [job[w] EXCEPT !.pc = pc, !.port = p, !.todo = Trunks \ {p},
                                   !.vlans = AllocatedVlans(L)]
  <2>3. j.role = job[w].role /\ j.net = job[w].net /\ j.pc = pc
    BY <1>1 DEF Job
  <2>4. Become(w, j)
    BY <2>2
  <2> HIDE DEF j
  <2>5. QED
    BY <2>3, <2>4, OnlyJob, <2>1 DEF GoesOnAs
<1>11. ASSUME NEW o \in Outcomes, CreateTrunked(w, o) \/ RemoveTrunked(w, o), ~Finish(w)
       PROVE  GoesOnAs(w)
  <2>1. PICK p \in Ports : Become(w, [job[w] EXCEPT !.port = p, !.todo = @ \ {p}])
    BY <1>11 DEF CreateTrunked, RemoveTrunked, NextTrunk, CreateEnd, RemoveEnd
  <2> DEFINE j == [job[w] EXCEPT !.port = p, !.todo = @ \ {p}]
  <2>2. j.role = job[w].role /\ j.net = job[w].net /\ j.pc = job[w].pc
    BY <1>1 DEF Job
  <2>3. Become(w, j)
    BY <2>1
  <2> HIDE DEF j
  <2>4. QED
    BY <2>2, <2>3, OnlyJob, <1>11 DEF GoesOnAs, RemoveTrunked, Ready
<1>12. ASSUME NEW o \in Outcomes, ReturnFlush(w, o)
       PROVE  GoesOnAs(w)
  <2>1. Finish(w) \/ NextPort(w, job[w]) \/ Become(w, [job[w] EXCEPT !.pc = "bounce"])
    BY <1>12 DEF ReturnFlush, Abort
  <2>2. QED
    BY <1>1, <1>2, <1>3, <2>1, NextPortJob DEF GoesOnAs
<1>13. CASE ReturnCheck(w) \/ PortRead(w)
  BY <1>2, <1>3, <1>13 DEF ReturnCheck, PortRead, Abort
<1>14. ASSUME NEW o \in Outcomes,
              AssignWritten(w, o) \/ ReturnVlan(w, o) \/ ReturnEnable(w, o)
       PROVE  GoesOnAs(w)
  BY <1>2, <1>3, <1>14
     DEF AssignWritten, ReturnVlan, ReturnEnable, ReturnWritten, Abort
<1>15. CASE \/ PortUnreadable(w) \/ ConnectLost(w)
            \/ \E o \in Outcomes : AssignUndone(w, o) \/ RoleWritten(w, o) \/ LastWrite(w, o)
  BY <1>2, <1>15
     DEF PortUnreadable, ConnectLost, AssignUndone, RoleWritten, LastWrite, Abort
<1>16. QED
  BY <1>2, <1>4, <1>5, <1>6, <1>7, <1>8, <1>9, <1>10, <1>11, <1>12, <1>13, <1>14, <1>15
     DEF Progress, ReadSettles, RadioMoves, WriteSettles

LEMMA FixedNext ==
  ASSUME IInv, OneWorker, SoleInv, WritesClean, NoTrunkAsked, TrunksFixed, [Next]_vars
  PROVE  TrunksFixed'
<1>1. \A w \in Workers : job'[w].role # "ap-trunk"
  <2>1. CASE RadioApplies \/ RadioDrops \/ UNCHANGED vars
    BY <2>1 DEF TrunksFixed, RadioApplies, RadioDrops, vars, requests
  <2>2. ASSUME NEW w \in Workers, Request(w) \/ Progress(w)
        PROVE  job'[w].role # "ap-trunk"
    BY <2>2, RequestJob, ProgressJob DEF TrunksFixed, NoTrunkAsked, StartsAs, GoesOnAs
  <2>3. ~Crash
    BY DEF Crash, WritesClean
  <2>4. QED
    BY <2>1, <2>2, <2>3 DEF Next, OneWorker
<1>2. ASSUME NEW w \in Workers, NEW o \in Outcomes, WriteSettles(w, o), NEW p \in Ports
      PROVE  role'[p] = "ap-trunk" => role[p] = "ap-trunk"
  <2>1. job[w].role # "ap-trunk" /\ role \in [Ports -> Role]
    BY DEF TrunksFixed, IInv, TypeOK, StateTypeOK
  <2>2. \/ role' = role
        \/ \E q, r : r # "ap-trunk" /\ role' = [role EXCEPT ![q] = r]
    BY <1>2, <2>1
       DEF WriteSettles, AssignWritten, AssignUndone, ReturnVlan, ReturnEnable,
           ReturnWritten, ReturnFlush, RoleWritten, LastWrite, CreateTrunked,
           RemoveTrunked, UpsertPort, database
  <2>3. QED
    BY <2>1, <2>2
<1>3. \A p \in Ports : role'[p] = "ap-trunk" => role[p] = "ap-trunk"
  BY <1>2, OthersRest
<1>4. QED
  BY <1>1, <1>3 DEF TrunksFixed

LEMMA ClientsNext ==
  ASSUME IInv, SoleInv, WritesClean, TrunksFixed, ClientsPlaced, [Next]_vars
  PROVE  ClientsPlaced'
<1>1. CASE ~\E w \in Workers, o \in Outcomes : WriteSettles(w, o)
  BY <1>1, OthersRest DEF ClientsPlaced, OnOwnVlan, Assignable
<1>2. ASSUME NEW w \in Workers, NEW o \in Outcomes, WriteSettles(w, o)
      PROVE  ClientsPlaced'
  <2>1. job[w].role # "ap-trunk"
    BY DEF TrunksFixed
  <2>2. QED
    BY <1>2, <2>1, WriteRests DEF ClientsPlaced, OnOwnVlan, Rests, Untouched, Assignable
<1>3. QED
  BY <1>1, <1>2

\* PortAssignmentService: between requests every client port is on the
\* onboarding VLAN or with its team, if requests do not overlap, a rejected
\* switch write changed nothing and no client asks for another AP trunk.
THEOREM IsolationTheorem ==
  OneWorker /\ WritesClean /\ NoTrunkAsked => (Spec => []PortsIsolated)
<1> SUFFICES ASSUME OneWorker, WritesClean, NoTrunkAsked
             PROVE  Spec => []PortsIsolated
  OBVIOUS
<1>1. Init => TrunksFixed /\ ClientsPlaced
  BY DEF Init, StateInit, TrunksFixed, ClientsPlaced, OnOwnVlan, Assignable, Idle,
         RoleConfigured, Access, Trunk
<1>2. IInv /\ SoleInv /\ TrunksFixed /\ ClientsPlaced /\ [Next]_vars
        => TrunksFixed' /\ ClientsPlaced'
  BY FixedNext, ClientsNext
<1>3. ClientsPlaced => PortsIsolated
  BY DEF ClientsPlaced, PortsIsolated, OnOwnVlan, InMode, Shows
<1>4. QED
  BY <1>1, <1>2, <1>3, SoleInvariance, Invariance, PTL DEF Spec

(***************************************************************************)
(* What the radio shows of a network that counts as up.                    *)
(***************************************************************************)
LEMMA RadioInit == Init => RadioInv
<1>1. ASSUME Init
      PROVE  RadioInv
  <2>1. live = {} /\ stage = "status" /\ want = ap /\ known = ap
    BY <1>1 DEF Init, StateInit
  <2>2. \A w \in Workers : job[w].pc = "idle"
    BY <1>1 DEF Init, StateInit, Idle
  <2>3. QED
    BY <2>1, <2>2 DEF RadioInv, RadioSettled, RadioAtWork, UpOnAir
<1>2. QED
  BY <1>1

IsUp(s) == s \in {"waiting-for-robot", "online"}

\* While the one request is not at the radio, the radio rests.
LEMMA RadioRests ==
  ASSUME OneWorker, RadioInv, NEW w \in Workers, ~OnRadio(job[w])
  PROVE  /\ stage = "status" /\ want = ap /\ known = ap
         /\ \A n \in live : IsUp(status[n]) => ap[net[n].slot] = n
         /\ job[w].pc = "create.trunk" => ap[net[job[w].net].slot] = job[w].net
BY DEF OneWorker, RadioInv, RadioSettled, RadioAtWork, UpOnAir, IsUp

\* It goes on resting when no network counts as up that is not on the air.
LEMMA RestingStep ==
  ASSUME OneWorker, RadioInv, NEW w \in Workers, ~OnRadio(job[w]), UNCHANGED radio,
         \A n \in live' : IsUp(status'[n]) => ap[net'[n].slot] = n,
         job'[w].pc = "create.trunk" => ap[net'[job'[w].net].slot] = job'[w].net
  PROVE  RadioInv'
BY RadioRests
   DEF OneWorker, RadioInv, RadioSettled, RadioAtWork, UpOnAir, IsUp, radio

LEMMA RequestRadio ==
  ASSUME IInv, OneWorker, RadioInv, NEW w \in Workers, Request(w)
  PROVE  RadioInv'
<1>1. UNCHANGED <<database, hardware>> /\ ~OnRadio(job[w])
  BY DEF Request, PortRequest, TeamRequest, AssignStart, ReturnStart, RoleStart,
         EnableStart, BounceStart, CreateStart, RemoveStart, RefreshStart, ConnectStart,
         Ready, OnRadio, RadioWaits
<1>2. job'[w].pc # "create.trunk"
  BY RequestJob DEF StartsAs
<1>3. QED
  BY <1>1, <1>2, RadioRests, RestingStep DEF database, hardware

LEMMA StatusSet ==
  ASSUME IInv, NEW m, NEW s, SetStatus(m, s), NEW n \in Ids
  PROVE  status'[n] = status[n] \/ (n = m /\ status'[n] = s)
BY Unchanged DEF SetStatus

LEMMA AbortStatus ==
  ASSUME IInv, NEW w \in Workers, Abort(w), NEW n \in Ids
  PROVE  status'[n] = status[n] \/ status'[n] = "error"
<1>1. CASE UNCHANGED status
  BY <1>1
<1>2. CASE SetStatus(job[w].net, "error")
  BY <1>2, StatusSet
<1>3. QED
  BY <1>1, <1>2 DEF Abort

\* What a read makes of the status column: marked, or as the station answered.
LEMMA ReadStatus ==
  ASSUME IInv, RowsApart, NEW w \in Workers, ReadSettles(w), NEW n \in live',
         IsUp(status'[n])
  PROVE  /\ n \in live /\ net'[n] = net[n]
         /\ IsUp(status[n]) \/ ap[net[n].slot] = n
<1>1. CASE CreateScan(w)
  <2>1. CASE UNCHANGED <<live, net, status>>
    BY <2>1
  <2>2. ASSUME NEW s \in Slots, NEW v \in Pool, Inserts(job[w].net, job[w].number, s, v)
        PROVE  n \in live /\ net'[n] = net[n] /\ IsUp(status[n])
    <3>1. /\ live' = live \cup {job[w].net}
          /\ net' = [net EXCEPT ![job[w].net] =
                       [number |-> job[w].number, vlan |-> v, slot |-> s]]
          /\ status' = [status EXCEPT ![job[w].net] = "provisioning"]
      BY <2>2 DEF Inserts
    <3>2. status \in [Ids -> Statuses] /\ job[w].net \in Ids /\ live \subseteq Ids
      BY <1>1, Unchanged DEF CreateScan, Ready, IInv, RequestsOK, JobsOK, JobOK
    <3>3. n # job[w].net
      BY <3>1, <3>2 DEF IsUp
    <3>4. net \in [Ids -> Network]
      BY DEF IInv, TypeOK, StateTypeOK
    <3>5. QED
      BY <3>1, <3>2, <3>3, <3>4
  <2>3. QED
    BY <1>1, <2>1, <2>2 DEF CreateScan
<1>2. CASE RefreshRow(w)
  <2>1. live' = live /\ net' = net /\ n \in Ids /\ status \in [Ids -> Statuses]
    BY <1>2, Unchanged DEF RefreshRow
  <2>2. CASE status'[n] = status[n]
    BY <2>1, <2>2
  <2>3. CASE status'[n] # status[n]
    <3>1. \/ \E s \in StationStatuses(net[n].slot) : status'[n] = s
          \/ status'[n] = "error"
      BY <1>2, <2>1, <2>3 DEF RefreshRow, SetStatus
    <3>2. ap[net[n].slot] # None
      BY <3>1 DEF StationStatuses, IsUp
    <3>3. net[n].slot \in Slots
      BY <2>1 DEF IInv, RequestsOK, RowsGranted, Granted
    <3>4. ap[net[n].slot] \in live /\ net[ap[net[n].slot]].slot = net[n].slot
      BY <3>2, <3>3 DEF IInv, HardwareOK, DocOK
    <3>5. QED
      BY <2>1, <3>4 DEF RowsApart
  <2>4. QED
    BY <2>2, <2>3
<1>3. CASE ReturnCheck(w)
  <2>1. live' = live /\ net' = net /\ n \in Ids
    BY <1>3, Unchanged DEF ReturnCheck
  <2>2. status'[n] \in {status[n], "error"}
    BY <1>3, <2>1, AbortStatus DEF ReturnCheck
  <2>3. QED
    BY <2>1, <2>2 DEF IsUp
<1>4. CASE PortUnreadable(w)
  <2>1. live' = live /\ net' = net /\ n \in Ids
    BY <1>4, Unchanged DEF PortUnreadable
  <2>2. status'[n] \in {status[n], "error"}
    BY <1>4, <2>1, AbortStatus DEF PortUnreadable
  <2>3. QED
    BY <2>1, <2>2 DEF IsUp
<1>5. CASE AssignCheck(w) \/ RoleCheck(w) \/ PortRead(w) \/ ConnectFound(w) \/ ConnectLost(w)
  BY <1>5 DEF AssignCheck, RoleCheck, PortRead, ConnectFound, ConnectLost, database
<1>6. QED
  BY <1>1, <1>2, <1>3, <1>4, <1>5 DEF ReadSettles

LEMMA ReadRadio ==
  ASSUME IInv, OneWorker, RowsApart, RadioInv, NEW w \in Workers, ReadSettles(w)
  PROVE  RadioInv'
<1>1. UNCHANGED radio /\ ~OnRadio(job[w])
  BY DEF ReadSettles, AssignCheck, ReturnCheck, RoleCheck, PortRead, PortUnreadable,
         CreateScan, RefreshRow, ConnectFound, ConnectLost, Ready, OnRadio, RadioWaits,
         hardware
<1>2. \A n \in live' : IsUp(status'[n]) => ap[net'[n].slot] = n
  BY <1>1, ReadStatus, RadioRests
<1>3. job'[w].pc # "create.trunk"
  <2>1. ~CreateConfigured(w) /\ \A o \in Outcomes : ~CreateTrunked(w, o)
    BY DEF ReadSettles, AssignCheck, ReturnCheck, RoleCheck, PortRead, PortUnreadable,
           CreateScan, RefreshRow, ConnectFound, ConnectLost, Ready, CreateConfigured,
           CreateTrunked
  <2>2. QED
    BY <2>1, ProgressJob DEF Progress, GoesOnAs
<1>4. QED
  BY <1>1, <1>2, <1>3, RestingStep

LEMMA WriteRadio ==
  ASSUME IInv, OneWorker, RadioInv, NEW w \in Workers, NEW o \in Outcomes,
         WriteSettles(w, o)
  PROVE  RadioInv'
<1>1. UNCHANGED <<radio, live, net>> /\ ~OnRadio(job[w])
  BY DEF WriteSettles, AssignWritten, AssignUndone, ReturnVlan, ReturnEnable,
         ReturnWritten, ReturnFlush, RoleWritten, LastWrite, CreateTrunked, RemoveTrunked,
         SwitchSettles, Ready, OnRadio, RadioWaits, database, VlanWaits, SwitchWaits
<1>2. job[w].pc = "create.trunk" => ap[net[job[w].net].slot] = job[w].net
  BY <1>1, RadioRests
<1>3. job'[w].pc = "create.trunk" => ap[net'[job'[w].net].slot] = job'[w].net
  <2>1. ~CreateConfigured(w)
    BY <1>1 DEF CreateConfigured, Ready, OnRadio, RadioWaits
  <2>2. job'[w].pc = "create.trunk" =>
          job'[w].net = job[w].net /\ job[w].pc = "create.trunk"
    BY <2>1, ProgressJob DEF Progress, GoesOnAs, CreateTrunked, Ready
  <2>3. QED
    BY <1>1, <1>2, <2>2
<1>4. ASSUME NEW n \in live', IsUp(status'[n])
      PROVE  ap[net'[n].slot] = n
  <2>1. n \in live /\ n \in Ids /\ net' = net
    BY <1>1, <1>4, Unchanged
  <2>2. \/ status'[n] \in {status[n], "error"}
        \/ n = job[w].net /\ job[w].pc = "create.trunk"
    <3>1. CASE UNCHANGED status \/ Abort(w)
      BY <2>1, <3>1, AbortStatus
    <3>2. CASE CreateTrunked(w, o) /\ ~UNCHANGED status
      BY <2>1, <3>2, StatusSet DEF CreateTrunked, CreateEnd, Ready
    <3>3. QED
      BY <3>1, <3>2
         DEF WriteSettles, AssignWritten, AssignUndone, ReturnVlan, ReturnEnable,
             ReturnWritten, ReturnFlush, RoleWritten, LastWrite, RemoveTrunked, database
  <2>3. QED
    BY <1>1, <1>2, <1>4, <2>1, <2>2, RadioRests DEF IsUp
<1>5. QED
  BY <1>1, <1>3, <1>4, RestingStep

LEMMA RestsAfter ==
  ASSUME OneWorker, NEW w \in Workers, stage' = "status", want' = ap', known' = ap',
         \A n \in live' : IsUp(status'[n]) => ap'[net'[n].slot] = n,
         job'[w].pc = "create.trunk" => ap'[net'[job'[w].net].slot] = job'[w].net
  PROVE  RadioInv'
BY DEF OneWorker, RadioInv, RadioSettled, RadioAtWork, UpOnAir, IsUp

\* The network of a radio write has its row: nobody else removes it.
LEMMA AtRadio ==
  ASSUME IInv, SoleInv, NEW w \in Workers, OnRadio(job[w])
  PROVE  /\ job[w].net \in live /\ SlotOf(job[w]) \in Slots
         /\ NextDocument(job[w])[SlotOf(job[w])] =
              IF job[w].pc = "create.config" THEN job[w].net ELSE None
         /\ \A s \in Slots \ {SlotOf(job[w])} : NextDocument(job[w])[s] = known[s]
<1>1. job[w].pc \in {"create.config", "remove.clear"} /\ JobOK(job[w]) /\ SoleJobOK(job[w])
  BY DEF OnRadio, RadioWaits, IInv, RequestsOK, JobsOK, SoleInv
<1>2. Granted(job[w].net) /\ used \subseteq Ids
  BY <1>1, Unchanged DEF JobOK, NetWaits
<1>3. job[w].net \in live
  BY <1>1, <1>2, IdAssumption
     DEF JobOK, SoleJobOK, Removes, Granted, None
<1>4. known \in [Slots -> Ids \cup {None}]
  BY DEF IInv, HardwareOK, Document
<1>5. SlotOf(job[w]) \in Slots
  BY <1>2 DEF Granted, SlotOf
<1>6. QED
  BY <1>3, <1>4, <1>5 DEF NextDocument

\* The document of the one request keeps every network that counts as up, but
\* the one it is there to take off the air.
LEMMA PostedKeeps ==
  ASSUME IInv, OneWorker, SoleInv, RowsApart, RadioInv, NEW w \in Workers,
         OnRadio(job[w]), NEW n \in live, IsUp(status[n])
  PROVE  \/ NextDocument(job[w])[net[n].slot] = n
         \/ job[w].pc = "remove.clear" /\ job[w].net = n
<1>1. CASE n = job[w].net
  BY <1>1, AtRadio DEF OnRadio, RadioWaits, SlotOf
<1>2. CASE n # job[w].net
  <2>1. net[n].slot \in Slots \ {SlotOf(job[w])}
    BY <1>2, AtRadio DEF RowsApart, SlotOf, IInv, RequestsOK, RowsGranted, Granted
  <2>2. ap[net[n].slot] = n
    BY <1>2 DEF RadioInv, UpOnAir, IsUp, OneWorker
  <2>3. ap = known \/ ap = NextDocument(job[w])
    BY DEF RadioInv, RadioSettled, OneWorker
  <2>4. QED
    BY <2>1, <2>2, <2>3, AtRadio
<1>3. QED
  BY <1>1, <1>2

LEMMA ChecksRadio ==
  ASSUME IInv, OneWorker, RadioInv, NEW w \in Workers, RadioChecks(w) \/ RadioPosts(w)
  PROVE  RadioInv'
<1>1. /\ OnRadio(job[w]) /\ stage # "apply"
      /\ UNCHANGED <<live, net, status, job, ap, known>>
  BY DEF RadioChecks, RadioPosts, AtStage, database, requests
<1>2. want = ap /\ known = ap
  BY <1>1 DEF RadioInv, RadioSettled
<1>3. RadioSettled'
  BY <1>1, <1>2
     DEF RadioChecks, RadioPosts, RadioSettled, NextDocument, SlotOf, OnRadio
<1>4. RadioAtWork'
  BY <1>1 DEF RadioAtWork, OnRadio
<1>5. UpOnAir'
  BY <1>1 DEF RadioInv, UpOnAir
<1>6. QED
  BY <1>3, <1>4, <1>5 DEF RadioInv

LEMMA ConfirmsRadio ==
  ASSUME IInv, OneWorker, RadioClean, SoleInv, RowsApart, RadioInv, NEW w \in Workers,
         CreateConfigured(w) \/ RemoveCleared(w), RadioConfirms(w)
  PROVE  RadioInv'
<1>1. /\ OnRadio(job[w]) /\ ap = NextDocument(job[w])
      /\ stage' = "status" /\ want' = ap' /\ known' = ap' /\ ap' = ap /\ net' = net
  BY DEF RadioConfirms, AtStage, CreateConfigured, RemoveCleared
<1>2. CASE CreateConfigured(w)
  <2>1. job[w].pc = "create.config" /\ live' = live
    BY <1>2 DEF CreateConfigured, Ready
  <2>2. ap[net[job[w].net].slot] = job[w].net
    BY <1>1, <2>1, AtRadio DEF SlotOf
  <2>3. ASSUME NEW n \in live', IsUp(status'[n])
        PROVE  ap'[net'[n].slot] = n
    <3>1. n \in live /\ n \in Ids
      BY <2>1, <2>3, Unchanged
    <3>2. status'[n] = status[n] \/ n = job[w].net
      <4>1. UNCHANGED status \/ \E s : SetStatus(job[w].net, s)
        BY <1>2 DEF CreateConfigured, CreateEnd
      <4>2. QED
        BY <3>1, <4>1, StatusSet
    <3>3. QED
      BY <1>1, <2>1, <2>2, <2>3, <3>1, <3>2, PostedKeeps
  <2>4. job'[w].pc = "create.trunk" => job'[w].net = job[w].net
    BY <1>2, ProgressJob DEF Progress, RadioMoves, GoesOnAs
  <2>5. QED
    BY <1>1, <2>2, <2>3, <2>4, RestsAfter
<1>3. CASE RemoveCleared(w)
  <2>1. job[w].pc = "remove.clear" /\ stage = "apply"
    BY <1>3 DEF RemoveCleared, Ready, RadioConfirms, AtStage
  <2>2. live' = live \ {job[w].net} /\ status' = status
    BY <1>3, <2>1 DEF RemoveCleared, DeleteRow, RadioRejects, AtStage, RadioClean
  <2>3. \A n \in live' : IsUp(status'[n]) => ap'[net'[n].slot] = n
    BY <1>1, <2>2, PostedKeeps
  <2>4. job'[w].pc # "create.trunk"
    BY <1>3, <2>1, ProgressJob
       DEF Progress, RadioMoves, GoesOnAs, CreateConfigured, CreateTrunked, Ready
  <2>5. QED
    BY <1>1, <2>3, <2>4, RestsAfter
<1>4. QED
  BY <1>2, <1>3

LEMMA RejectsRadio ==
  ASSUME IInv, OneWorker, RadioClean, RadioInv, NEW w \in Workers,
         CreateConfigured(w) \/ RemoveCleared(w), RadioRejects(w), ~RadioConfirms(w)
  PROVE  RadioInv'
<1>1. stage # "apply"
  BY DEF RadioRejects, RadioClean, AtStage
<1>2. want = ap /\ known = ap /\ \A n \in live : IsUp(status[n]) => ap[net[n].slot] = n
  BY <1>1 DEF RadioInv, RadioSettled, UpOnAir, IsUp
<1>3. /\ stage' = "status" /\ UNCHANGED <<want, ap, known, live, net>> /\ Finish(w)
      /\ UNCHANGED status \/ Abort(w) \/ SetStatus(job[w].net, "error")
  BY DEF RadioRejects, CreateConfigured, RemoveCleared, CreateEnd, Abort
<1>4. \A n \in live' : IsUp(status'[n]) => IsUp(status[n])
  BY <1>3, AbortStatus, StatusSet, Unchanged DEF IsUp
<1>5. job'[w].pc # "create.trunk"
  BY <1>3, OnlyJob DEF Finish, Idle
<1>6. QED
  BY <1>2, <1>3, <1>4, <1>5, RestsAfter

LEMMA AppliesRadio ==
  ASSUME IInv, OneWorker, SoleInv, RowsApart, RadioInv, RadioApplies
  PROVE  RadioInv'
<1>1. /\ want # ap /\ ap' = want
      /\ UNCHANGED <<live, net, status, job, want, known, stage>>
  BY DEF RadioApplies, database, requests
<1>2. stage = "apply"
  BY <1>1 DEF RadioInv, RadioSettled
<1>3. PICK w \in Workers : OnRadio(job[w]) /\ want = NextDocument(job[w])
  BY <1>2 DEF RadioInv, RadioSettled
<1>4. RadioSettled'
  BY <1>1, <1>2, <1>3 DEF RadioSettled, NextDocument, SlotOf, OnRadio
<1>5. RadioAtWork'
  BY <1>1 DEF RadioInv, RadioAtWork, OnRadio
<1>6. UpOnAir'
  <2>1. \A v \in Workers : job[v].pc # "create.trunk"
    BY <1>3 DEF OneWorker, OnRadio, RadioWaits
  <2>2. QED
    BY <1>1, <1>2, <1>3, <2>1, PostedKeeps DEF UpOnAir, IsUp
<1>7. QED
  BY <1>4, <1>5, <1>6 DEF RadioInv

LEMMA RadioNext ==
  ASSUME IInv, OneWorker, RadioClean, SoleInv, RowsApart, RadioInv, [Next]_vars
  PROVE  RadioInv'
<1>1. ASSUME NEW w \in Workers, RadioMoves(w)
      PROVE  RadioInv'
  BY <1>1, ChecksRadio, ConfirmsRadio, RejectsRadio
     DEF RadioMoves, CreateConfigured, RemoveCleared
<1>2. ASSUME NEW w \in Workers, Request(w) \/ Progress(w)
      PROVE  RadioInv'
  BY <1>1, <1>2, RequestRadio, ReadRadio, WriteRadio DEF Progress
<1>3. ~RadioDrops /\ ~Crash
  BY DEF RadioDrops, Crash, RadioClean
<1>4. CASE UNCHANGED vars
  BY <1>4
     DEF RadioInv, RadioSettled, RadioAtWork, UpOnAir, vars, database, hardware, radio,
         requests, OnRadio, NextDocument, SlotOf
<1>5. QED
  BY <1>2, <1>3, <1>4, AppliesRadio DEF Next

\* TeamNetworkService: between requests a network that is shown as up is on the
\* air, if requests do not overlap and a rejected radio write changed nothing;
\* the switches may fail in every way.
THEOREM UpTheorem == OneWorker /\ RadioClean => (Spec => []UpMeansOnAir)
<1> SUFFICES ASSUME OneWorker, RadioClean
             PROVE  Spec => []UpMeansOnAir
  OBVIOUS
<1>1. IInv /\ SoleInv /\ RowsApart /\ RadioInv /\ [Next]_vars => RadioInv'
  BY RadioNext
<1>2. RadioInv => UpMeansOnAir
  BY DEF RadioInv, UpOnAir, UpMeansOnAir, Quiet
<1>3. QED
  BY <1>1, <1>2, RadioInit, SoleInvariance, RowsApartInvariant, Invariance, PTL DEF Spec

\* All of it at once: what the server can rely on between the awaits of the one
\* request it handles, if a rejected write, of a switch or of the radio, changed
\* nothing and no client asks for another AP trunk.
THEOREM SerialTheorem ==
  OneWorker /\ WritesClean /\ RadioClean /\ NoTrunkAsked => (Spec => []SerialInv)
<1> SUFFICES ASSUME OneWorker, WritesClean, RadioClean, NoTrunkAsked
             PROVE  Spec => []SerialInv
  OBVIOUS
<1>1. Init => TrunksFixed /\ ClientsPlaced
  BY DEF Init, StateInit, TrunksFixed, ClientsPlaced, OnOwnVlan, Assignable, Idle,
         RoleConfigured, Access, Trunk
<1>2. IInv /\ SoleInv /\ TrunksFixed /\ ClientsPlaced /\ [Next]_vars
        => TrunksFixed' /\ ClientsPlaced'
  BY FixedNext, ClientsNext
<1>3. IInv /\ SoleInv /\ RowsApart /\ RadioInv /\ [Next]_vars => RadioInv'
  BY RadioNext
<1>4. SoleInv /\ PortsPlaced /\ TrunksFixed /\ ClientsPlaced /\ RadioInv => SerialInv
  BY DEF SerialInv
<1>5. QED
  BY <1>1, <1>2, <1>3, <1>4, RadioInit, SoleInvariance, PlacedInvariance,
     RowsApartInvariant, Invariance, PTL DEF Spec
=============================================================================
