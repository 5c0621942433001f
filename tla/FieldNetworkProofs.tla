------------------------- MODULE FieldNetworkProofs -------------------------
(***************************************************************************)
(* Proofs about FieldNetwork, for every topology, VLAN plan, number of     *)
(* requests in flight, failure behaviour and choice of requests.           *)
(***************************************************************************)
EXTENDS FieldInvariant, SequenceTheorems, TLAPS

(***************************************************************************)
(* Requests and queues.                                                    *)
(***************************************************************************)
\* What a request waits for may be served now.
Served(w) ==
  /\ OnSwitch(job[w]) => Serves(swq[SwitchOf[job[w].port]], w)
  /\ OnRadio(job[w]) => Serves(apq, w)

LEMMA BecomeType ==
  ASSUME NEW w \in Workers, NEW j \in Job, StateTypeOK, Served(w), Become(w, j)
  PROVE  /\ job' \in [Workers -> Job]
         /\ swq' \in [Switches -> Seq(Workers)]
         /\ apq' \in Seq(Workers)
<1>1. job' \in [Workers -> Job]
  BY DEF Become, StateTypeOK
<1>2. \A s \in Switches : Dequeued(s, w) \in Seq(Workers)
  BY HeadTailProperties DEF Dequeued, Served, Serves, StateTypeOK
<1>3. swq' \in [Switches -> Seq(Workers)]
  BY <1>2, AppendProperties DEF Become
<1>4. apq' \in Seq(Workers)
  BY HeadTailProperties, AppendProperties DEF Become, Served, Serves, StateTypeOK
<1>5. QED
  BY <1>1, <1>3, <1>4


\* The radio queue keeps its order when w leaves the head, when w joins the
\* tail, and when it does both; a create joins before any removal names its id.
LEMMA BecomeRadioQueue ==
  ASSUME NEW w \in Workers, NEW j \in Job, StateTypeOK, RadioQueueOK,
         Served(w), Become(w, j),
         j.pc = "create.config" => \A v \in Workers \ {w} : job[v].net # j.net
  PROVE  RadioQueueOK'
<1> DEFINE rest == IF OnRadio(job[w]) THEN Tail(apq) ELSE apq
<1>1. /\ rest \in Seq(Workers)
      /\ apq' = IF OnRadio(j) THEN Append(rest, w) ELSE rest
      /\ job' = [job EXCEPT ![w] = j]
      /\ job \in [Workers -> Job]
      /\ apq \in Seq(Workers)
  BY HeadTailProperties DEF Become, StateTypeOK, Served, Serves
<1>2. PICK d \in {0, 1} :
        /\ Len(rest) = Len(apq) - d
        /\ \A i \in 1 .. Len(rest) : rest[i] = apq[i + d]
        /\ d = 1 => Len(apq) > 0 /\ apq[1] = w
        /\ d = 0 <=> ~OnRadio(job[w])
  <2>1. CASE OnRadio(job[w])
    <3>1. apq # <<>> /\ Head(apq) = w
      BY <2>1 DEF Served, Serves
    <3>2. Len(apq) > 0 /\ apq[1] = w
      BY <1>1, <3>1
    <3>3. QED
      BY <1>1, <2>1, <3>1, <3>2, HeadTailProperties
  <2>2. CASE ~OnRadio(job[w])
    BY <1>1, <2>2
  <2>3. QED
    BY <2>1, <2>2
<1> HIDE DEF rest
<1>3. \A i \in 1 .. Len(rest) :
        /\ i + d \in 1 .. Len(apq)
        /\ rest[i] \in Workers \ {w}
        /\ OnRadio(job[rest[i]])
        /\ job'[rest[i]] = job[rest[i]]
  <2> SUFFICES ASSUME NEW i \in 1 .. Len(rest)
               PROVE  /\ i + d \in 1 .. Len(apq)
                      /\ rest[i] \in Workers \ {w}
                      /\ OnRadio(job[rest[i]])
                      /\ job'[rest[i]] = job[rest[i]]
    OBVIOUS
  <2>1. i + d \in 1 .. Len(apq) /\ rest[i] = apq[i + d] /\ rest[i] \in Workers
    BY <1>1, <1>2
  <2>2. OnRadio(job[rest[i]])
    BY <2>1 DEF RadioQueueOK
  <2>3. rest[i] # w
    <3>1. CASE d = 0
      BY <3>1, <1>2, <2>2
    <3>2. CASE d = 1
      BY <3>2, <1>2, <2>1 DEF RadioQueueOK
    <3>3. QED
      BY <3>1, <3>2
  <2>4. QED
    BY <1>1, <2>1, <2>2, <2>3
<1>4. \A v \in Workers \ {w} :
        OnRadio(job[v]) => \E i \in 1 .. Len(rest) : rest[i] = v
  <2> SUFFICES ASSUME NEW v \in Workers \ {w}, OnRadio(job[v])
               PROVE  \E i \in 1 .. Len(rest) : rest[i] = v
    OBVIOUS
  <2>1. PICK k \in 1 .. Len(apq) : apq[k] = v
    BY DEF RadioQueueOK
  <2>2. k - d \in 1 .. Len(rest) /\ rest[k - d] = v
    BY <1>1, <1>2, <2>1
  <2>3. QED
    BY <2>2
<1>5. \A i, k \in 1 .. Len(rest) : rest[i] = rest[k] => i = k
  BY <1>1, <1>2, <1>3 DEF RadioQueueOK
<1>6. \A i, k \in 1 .. Len(rest) :
        /\ job[rest[i]].pc = "remove.clear"
        /\ job[rest[k]].pc = "create.config"
        /\ job[rest[i]].net = job[rest[k]].net
        => k < i
  <2> SUFFICES ASSUME NEW i \in 1 .. Len(rest), NEW k \in 1 .. Len(rest),
                      job[rest[i]].pc = "remove.clear",
                      job[rest[k]].pc = "create.config",
                      job[rest[i]].net = job[rest[k]].net
               PROVE  k < i
    OBVIOUS
  <2>1. /\ i + d \in 1 .. Len(apq) /\ rest[i] = apq[i + d]
        /\ k + d \in 1 .. Len(apq) /\ rest[k] = apq[k + d]
    BY <1>2, <1>3
  <2>2. k + d < i + d
    BY <2>1 DEF RadioQueueOK
  <2>3. QED
    BY <2>2
<1>7. CASE ~OnRadio(j)
  <2>1. apq' = rest
    BY <1>1, <1>7
  <2>2. job'[w] = j
    BY <1>1
  <2>3. \A v \in Workers : OnRadio(job'[v]) => \E i \in 1 .. Len(apq') : apq'[i] = v
    BY <1>1, <1>4, <1>7, <2>1, <2>2
  <2>4. \A i \in 1 .. Len(apq') : OnRadio(job'[apq'[i]])
    BY <1>3, <2>1
  <2>5. \A i, k \in 1 .. Len(apq') : apq'[i] = apq'[k] => i = k
    BY <1>5, <2>1
  <2>6. \A i, k \in 1 .. Len(apq') :
          /\ job'[apq'[i]].pc = "remove.clear"
          /\ job'[apq'[k]].pc = "create.config"
          /\ job'[apq'[i]].net = job'[apq'[k]].net
          => k < i
    <3> SUFFICES ASSUME NEW i \in 1 .. Len(rest), NEW k \in 1 .. Len(rest),
                        job'[rest[i]].pc = "remove.clear",
                        job'[rest[k]].pc = "create.config",
                        job'[rest[i]].net = job'[rest[k]].net
                 PROVE  k < i
      BY <2>1
    <3>1. job'[rest[i]] = job[rest[i]] /\ job'[rest[k]] = job[rest[k]]
      BY <1>3
    <3>2. QED
      BY <1>6, <3>1
  <2>7. QED
    BY <2>3, <2>4, <2>5, <2>6 DEF RadioQueueOK, OnRadio
<1>8. CASE OnRadio(j)
  <2>1. /\ Len(apq') = Len(rest) + 1
        /\ \A i \in 1 .. Len(rest) : apq'[i] = rest[i]
        /\ apq'[Len(rest) + 1] = w
        /\ Len(rest) \in Nat
    BY <1>1, <1>8, AppendProperties, LenProperties
  <2>2. job'[w] = j
    BY <1>1
  <2>3. \A i \in 1 .. Len(apq') : i \in 1 .. Len(rest) \/ i = Len(rest) + 1
    BY <2>1
  <2>4. \A i \in 1 .. Len(apq') : OnRadio(job'[apq'[i]])
    BY <1>3, <1>8, <2>1, <2>2, <2>3
  <2>5. \A v \in Workers : OnRadio(job'[v]) => \E i \in 1 .. Len(apq') : apq'[i] = v
    <3> SUFFICES ASSUME NEW v \in Workers, OnRadio(job'[v])
                 PROVE  \E i \in 1 .. Len(apq') : apq'[i] = v
      OBVIOUS
    <3>1. CASE v = w
      BY <3>1, <2>1
    <3>2. CASE v # w
      <4>1. PICK i \in 1 .. Len(rest) : rest[i] = v
        BY <1>1, <1>4, <3>2
      <4>2. i \in 1 .. Len(apq') /\ apq'[i] = v
        BY <2>1, <4>1
      <4>3. QED
        BY <4>2
    <3>3. QED
      BY <3>1, <3>2
  <2>6. \A i, k \in 1 .. Len(apq') : apq'[i] = apq'[k] => i = k
    BY <1>3, <1>5, <2>1, <2>3
  <2>7. \A i, k \in 1 .. Len(apq') :
          /\ job'[apq'[i]].pc = "remove.clear"
          /\ job'[apq'[k]].pc = "create.config"
          /\ job'[apq'[i]].net = job'[apq'[k]].net
          => k < i
    <3> SUFFICES ASSUME NEW i \in 1 .. Len(apq'), NEW k \in 1 .. Len(apq'),
                        job'[apq'[i]].pc = "remove.clear",
                        job'[apq'[k]].pc = "create.config",
                        job'[apq'[i]].net = job'[apq'[k]].net
                 PROVE  k < i
      OBVIOUS
    <3>1. CASE i \in 1 .. Len(rest) /\ k \in 1 .. Len(rest)
      <4>1. apq'[i] = rest[i] /\ apq'[k] = rest[k]
        BY <3>1, <2>1
      <4>2. job'[rest[i]] = job[rest[i]] /\ job'[rest[k]] = job[rest[k]]
        BY <3>1, <1>3
      <4>3. QED
        BY <4>1, <4>2, <3>1, <1>6
    <3>2. CASE i = Len(rest) + 1 /\ k \in 1 .. Len(rest)
      BY <3>2, <2>1
    <3>3. CASE k = Len(rest) + 1
      <4>1. j.pc = "create.config" /\ i # k
        BY <3>3, <2>1, <2>2
      <4>2. i \in 1 .. Len(rest) /\ apq'[i] \in Workers \ {w}
        BY <4>1, <3>3, <2>1, <2>3, <1>3
      <4>3. job[apq'[i]].net # j.net /\ job'[apq'[i]].net = job[apq'[i]].net
        BY <4>1, <4>2, <1>3, <2>1
      <4>4. QED
        BY <4>3, <3>3, <2>1, <2>2
    <3>4. QED
      BY <2>3, <3>1, <3>2, <3>3
  <2>8. QED
    BY <2>4, <2>5, <2>6, <2>7 DEF RadioQueueOK
<1>9. QED
  BY <1>7, <1>8

LEMMA IdleOK == Idle \in Job /\ JobOK(Idle)
BY ConfigAssumption
   DEF Idle, Job, JobOK, Role, Vlans, Statuses, None, ReadWaits, ReturnWaits,
       PortWaits, NetWaits, SwitchWaits, VlanWaits

(***************************************************************************)
(* A step of w that leaves the rows alone keeps the requests in order when *)
(* the job w goes on with relies on nothing it may not rely on.            *)
(***************************************************************************)
LEMMA SteadyStep ==
  ASSUME NEW w \in Workers, NEW j \in Job, StateTypeOK, RequestsOK,
         Served(w), Become(w, j), JobOK(j), j.pc # "create.config",
         UNCHANGED <<live, net, used>>,
         \/ j.net \in used \cup {None, job[w].net}
         \/ j.pc = "create.scan",
         j.pc = "create.scan" =>
           \/ job[w].pc = "create.scan" /\ j.net = job[w].net
           \/ \A v \in Workers \ {w} : job[v].net # j.net
  PROVE  /\ RequestsOK'
         /\ job' \in [Workers -> Job]
         /\ swq' \in [Switches -> Seq(Workers)]
         /\ apq' \in Seq(Workers)
<1>1. /\ job' \in [Workers -> Job]
      /\ swq' \in [Switches -> Seq(Workers)]
      /\ apq' \in Seq(Workers)
  BY BecomeType
<1>2. job' = [job EXCEPT ![w] = j] /\ job \in [Workers -> Job]
  BY DEF Become, StateTypeOK
<1>3. RadioQueueOK'
  BY BecomeRadioQueue DEF RequestsOK
<1>4. RowsGranted'
  BY DEF RequestsOK, RowsGranted, Granted
<1>5. JobsOK'
  <2>1. JobOK(j)'
    BY DEF JobOK, Granted
  <2>2. \A v \in Workers : JobOK(job[v])'
    BY <1>2, <2>1 DEF RequestsOK, JobsOK, JobOK, Granted
  <2>3. QED
    BY <2>2 DEF JobsOK
<1>6. FreshApart'
  <2> SUFFICES ASSUME NEW v \in Workers, NEW u \in Workers, v # u,
                      job'[u].pc = "create.scan"
               PROVE  job'[v].net # job'[u].net
    BY DEF FreshApart
  <2>1. CASE u = w
    BY <1>2, <2>1 DEF RequestsOK, FreshApart
  <2>2. CASE v = w
    <3>1. job'[u] = job[u] /\ job'[v] = j
      BY <1>2, <2>2
    <3>2. job[u].net \in Ids \ used /\ job[w].net # job[u].net
      BY <2>2, <3>1 DEF RequestsOK, JobsOK, JobOK, FreshApart
    <3>3. job[u].net # None
      BY <3>2, IdAssumption DEF None
    <3>4. QED
      BY <2>2, <3>1, <3>2, <3>3
  <2>3. CASE v # w /\ u # w
    BY <1>2, <2>3 DEF RequestsOK, FreshApart
  <2>4. QED
    BY <2>1, <2>2, <2>3
<1>7. QED
  BY <1>1, <1>3, <1>4, <1>5, <1>6 DEF RequestsOK

LEMMA SteadyFinish ==
  ASSUME NEW w \in Workers, StateTypeOK, RequestsOK, Served(w), Finish(w),
         UNCHANGED <<live, net, used>>
  PROVE  /\ RequestsOK'
         /\ job' \in [Workers -> Job]
         /\ swq' \in [Switches -> Seq(Workers)]
         /\ apq' \in Seq(Workers)
<1>1. Idle.pc = "idle" /\ Idle.net = None
  BY DEF Idle
<1>2. QED
  BY <1>1, IdleOK, SteadyStep DEF Finish

(***************************************************************************)
(* Devices.                                                                *)
(***************************************************************************)
LEMMA WrittenType ==
  ASSUME NEW port \in PortState, NEW j \in Job,
         j.pc = "assign.vlan" => net[j.net].vlan \in Pool
  PROVE  Written(port, j) \in PortState
BY ConfigAssumption
   DEF Written, RoleConfigured, Access, Trunk, PortState, Job, Vlans

LEMMA OutcomesKnown == Outcomes \subseteq {"ok", "lost", "late", "torn"}
BY FaultAssumption DEF Outcomes

LEMMA PortsAfterType ==
  ASSUME StateTypeOK, JobsOK, NEW w \in Workers,
         NEW o \in {"ok", "lost", "late", "torn"}, job[w].port \in Ports
  PROVE  PortsAfter(job[w], o) \subseteq PortState
<1> DEFINE old == sw[job[w].port]
           new == Written(old, job[w])
<1>1. old \in PortState /\ job[w] \in Job
  BY DEF StateTypeOK
<1>2. job[w].pc = "assign.vlan" => net[job[w].net].vlan \in Pool
  BY DEF JobsOK, JobOK, Granted, NetWaits
<1>3. new \in PortState
  BY <1>1, <1>2, WrittenType
<1>4. [old EXCEPT !.enabled = FALSE] \in PortState
  BY <1>1 DEF PortState
<1>5. PortsAfter(job[w], o) \subseteq {old, new, [old EXCEPT !.enabled = FALSE]}
                                      \cup Mixtures(old, new)
  BY DEF PortsAfter
<1> HIDE DEF old, new
<1>6. new.vlan \in Vlans \cup {None} /\ Vlans \cup {None} \subseteq Nat
  <2>1. new.vlan \in Vlans \cup {None}
    BY <1>3 DEF PortState
  <2>2. QED
    BY <2>1, ConfigAssumption DEF Vlans, None
<1>7. Mixtures(old, new) \subseteq PortState
  <2>1. /\ old.vlan \in Vlans \cup {None} /\ old.tagged \subseteq Nat
        /\ new.tagged \subseteq Nat /\ old.enabled \in BOOLEAN
    BY <1>1, <1>3 DEF PortState
  <2>2. /\ {None, old.vlan, new.vlan} \subseteq Vlans \cup {None}
        /\ old.tagged \cup new.tagged \cup {new.vlan} \subseteq Nat
    BY <1>6, <2>1
  <2>3. QED
    BY <2>1, <2>2 DEF Mixtures, PortState
<1>8. QED
  BY <1>1, <1>3, <1>4, <1>5, <1>7

LEMMA SwitchSettlesInv ==
  ASSUME IInv, NEW w \in Workers, NEW o \in Outcomes,
         job[w].pc \in SwitchWaits, SwitchSettles(w, o), UNCHANGED <<live, net>>
  PROVE  HardwareOK'
<1>1. job[w].port \in Ports
  BY DEF IInv, RequestsOK, JobsOK, JobOK, PortWaits
<1>2. PortsAfter(job[w], o) \subseteq PortState
  BY <1>1, PortsAfterType, OutcomesKnown DEF IInv, TypeOK, RequestsOK
<1>3. sw' \in [Ports -> PortState] /\ UNCHANGED radio
  BY <1>2 DEF SwitchSettles, IInv, HardwareOK
<1>4. QED
  BY <1>3 DEF radio, IInv, HardwareOK, DocOK

\* The document a create or a removal sends is a lawful one.
LEMMA NextDocumentOK ==
  ASSUME IInv, NEW w \in Workers, job[w].pc \in RadioWaits
  PROVE  NextDocument(job[w]) \in Document /\ DocOK(NextDocument(job[w]))
<1> DEFINE s == SlotOf(job[w])
           n == IF job[w].pc = "create.config" THEN job[w].net ELSE None
<1>1. s \in Slots /\ s = net[job[w].net].slot /\ job[w].net \in Ids
  BY DEF SlotOf, IInv, RequestsOK, JobsOK, JobOK, NetWaits, RadioWaits, Granted,
         TypeOK, StateTypeOK
<1>2. n \in Ids \cup {None} /\ (n # None => n \in live /\ net[n].slot = s)
  BY <1>1 DEF IInv, RequestsOK, JobsOK, JobOK
<1>3. NextDocument(job[w]) = [known EXCEPT ![s] = n]
  BY DEF NextDocument
<1>4. known \in [Slots -> Ids \cup {None}] /\ DocOK(known)
  BY DEF IInv, HardwareOK, Document
<1> HIDE DEF s, n
<1>5. QED
  BY <1>1, <1>2, <1>3, <1>4 DEF Document, DocOK

LEMMA RadioSettlesInv ==
  ASSUME IInv, NEW w \in Workers, RadioConfirms(w) \/ RadioRejects(w),
         UNCHANGED <<live, net>>
  PROVE  HardwareOK'
BY DEF RadioConfirms, RadioRejects, Stages, IInv, HardwareOK, DocOK

(***************************************************************************)
(* A step that leaves the rows alone preserves the invariant when it keeps *)
(* every key a row needs and writes at most one port row, a lawful one.    *)
(***************************************************************************)
PortRowLawful ==
  \/ UNCHANGED <<role, owner>>
  \/ \E p \in Ports, n \in Ids \cup {None}, r \in Role :
       UpsertPort(p, n, r) /\ ForeignKeyHolds(n) /\ (n = None \/ r = "client")

LEMMA SteadyInv ==
  ASSUME IInv, UNCHANGED <<live, net, used>>, PortRowLawful,
         live \subseteq cred', cred' \subseteq Ids,
         status' \in [Ids -> Statuses],
         HardwareOK',
         RequestsOK', job' \in [Workers -> Job],
         swq' \in [Switches -> Seq(Workers)], apq' \in Seq(Workers)
  PROVE  IInv'
<1>1. role' \in [Ports -> Role] /\ owner' \in [Ports -> Ids \cup {None}]
  BY DEF PortRowLawful, UpsertPort, IInv, TypeOK, StateTypeOK
<1>2. AssignmentIntegrity'
  <2>1. CASE UNCHANGED <<role, owner>>
    BY <2>1 DEF IInv, AssignmentIntegrity
  <2>2. CASE ~UNCHANGED <<role, owner>>
    <3>1. PICK p \in Ports, n \in Ids \cup {None}, r \in Role :
            UpsertPort(p, n, r) /\ ForeignKeyHolds(n) /\ (n = None \/ r = "client")
      BY <2>2 DEF PortRowLawful
    <3>2. QED
      BY <3>1 DEF UpsertPort, ForeignKeyHolds, IInv, TypeOK, StateTypeOK,
                  AssignmentIntegrity
  <2>3. QED
    BY <2>1, <2>2
<1>3. QED
  BY <1>1, <1>2 DEF IInv, TypeOK, StateTypeOK, HardwareOK, KeysKept

LEMMA SetStatusType ==
  ASSUME status \in [Ids -> Statuses], NEW n, NEW s \in Statuses, SetStatus(n, s)
  PROVE  status' \in [Ids -> Statuses]
BY DEF SetStatus

\* The request of w ends, with at most its status, a port row and a key changed.
LEMMA FinishInv ==
  ASSUME IInv, NEW w \in Workers, Served(w), Finish(w),
         UNCHANGED <<live, net, used>>, PortRowLawful,
         live \subseteq cred', cred' \subseteq Ids,
         status' \in [Ids -> Statuses],
         HardwareOK'
  PROVE  IInv'
<1>1. /\ RequestsOK'
      /\ job' \in [Workers -> Job]
      /\ swq' \in [Switches -> Seq(Workers)]
      /\ apq' \in Seq(Workers)
  BY SteadyFinish DEF IInv, TypeOK
<1>2. QED
  BY <1>1, SteadyInv

\* The request of w goes on as j, about the same network or one with a row.
LEMMA GoOnInv ==
  ASSUME IInv, NEW w \in Workers, NEW j \in Job, Served(w), Become(w, j),
         JobOK(j), j.pc \notin {"create.config", "create.scan"},
         j.net \in used \cup {None, job[w].net},
         UNCHANGED <<live, net, used>>, PortRowLawful,
         live \subseteq cred', cred' \subseteq Ids,
         status' \in [Ids -> Statuses],
         HardwareOK'
  PROVE  IInv'
<1>1. /\ RequestsOK'
      /\ job' \in [Workers -> Job]
      /\ swq' \in [Switches -> Seq(Workers)]
      /\ apq' \in Seq(Workers)
  BY SteadyStep DEF IInv, TypeOK
<1>2. QED
  BY <1>1, SteadyInv

\* What IInv says of the variables a request rarely changes.
LEMMA Unchanged ==
  ASSUME IInv
  PROVE  /\ live \subseteq cred /\ cred \subseteq Ids
         /\ status \in [Ids -> Statuses]
         /\ sw \in [Ports -> PortState]
         /\ live' = live /\ net' = net /\ hardware' = hardware => HardwareOK'
         /\ job \in [Workers -> Job]
         /\ live \subseteq used /\ used \subseteq Ids
         /\ owner \in [Ports -> Ids \cup {None}]
         /\ \A p \in Ports : owner[p] \in live \cup {None}
BY DEF IInv, TypeOK, StateTypeOK, HardwareOK, DocOK, KeysKept, AssignmentIntegrity,
       hardware, radio

(***************************************************************************)
(* assignToTeam.                                                           *)
(***************************************************************************)
LEMMA AssignStartInv ==
  ASSUME IInv, NEW w \in Workers, NEW p \in Ports, NEW n \in Ids,
         NEW b \in BOOLEAN, AssignStart(w, p, n, b)
  PROVE  IInv'
<1> DEFINE j == [Idle EXCEPT !.pc = "assign.read", !.net = n, !.port = p, !.flag = b]
<1>1. j \in Job /\ j.pc = "assign.read" /\ j.net = n /\ j.port = p
  BY IdleOK DEF Job, Idle, ReadWaits
<1>2. n \in used /\ Granted(n)
  BY Unchanged DEF AssignStart, IInv, RequestsOK, RowsGranted
<1> HIDE DEF j
<1>3. JobOK(j)
  BY <1>1, <1>2 DEF JobOK, ReturnWaits
<1>4. Served(w) /\ Become(w, j) /\ UNCHANGED <<database, hardware>>
  BY DEF AssignStart, Ready, Served, j
<1>5. QED
  BY <1>1, <1>2, <1>3, <1>4, Unchanged, GoOnInv
     DEF database, hardware, PortRowLawful

LEMMA AssignCheckInv ==
  ASSUME IInv, NEW w \in Workers, AssignCheck(w)
  PROVE  IInv'
<1>1. Served(w) /\ job[w].pc = "assign.read" /\ UNCHANGED <<database, hardware>>
  BY DEF AssignCheck, Ready, Served
<1>2. CASE Finish(w)
  BY <1>1, <1>2, Unchanged, FinishInv DEF database, hardware, PortRowLawful
<1>3. CASE ~Finish(w)
  <2> DEFINE p == job[w].port
             v == IF InMode(p, "access") /\ sw[p].vlan # None
                    THEN sw[p].vlan ELSE Onboarding
             j == [job[w] EXCEPT !.pc = "assign.vlan", !.vlan = v]
  <2>1. p \in Ports /\ Granted(job[w].net)
    BY <1>1 DEF IInv, RequestsOK, JobsOK, JobOK, PortWaits, NetWaits
  <2>2. sw[p] \in PortState /\ v \in Vlans
    BY <2>1, Unchanged DEF PortState, Vlans
  <2>3. j \in Job /\ j.pc = "assign.vlan" /\ j.net = job[w].net /\ j.port = p
    BY <2>2, Unchanged DEF Job, SwitchWaits, VlanWaits
  <2>4. Become(w, j)
    BY <1>3 DEF AssignCheck
  <2> HIDE DEF j
  <2>5. JobOK(j)
    BY <2>1, <2>3 DEF JobOK, ReturnWaits
  <2>6. QED
    BY <1>1, <2>3, <2>4, <2>5, Unchanged, GoOnInv
       DEF database, hardware, PortRowLawful
<1>4. QED
  BY <1>2, <1>3

LEMMA AssignWrittenInv ==
  ASSUME IInv, NEW w \in Workers, NEW o \in Outcomes, AssignWritten(w, o)
  PROVE  IInv'
<1> DEFINE jb == [job[w] EXCEPT !.pc = "bounce"]
           ju == [job[w] EXCEPT !.pc = "assign.undo"]
<1>1. /\ Served(w) /\ job[w].pc = "assign.vlan" /\ SwitchSettles(w, o)
      /\ UNCHANGED <<live, net, status, cred, used>>
  BY DEF AssignWritten, Ready, Served
<1>2. HardwareOK'
  BY <1>1, SwitchSettlesInv DEF SwitchWaits, VlanWaits
<1>3. job[w].port \in Ports /\ Granted(job[w].net)
  BY <1>1 DEF IInv, RequestsOK, JobsOK, JobOK, PortWaits, NetWaits, SwitchWaits, VlanWaits
<1>4. /\ jb \in Job /\ jb.pc = "bounce" /\ jb.net = job[w].net /\ jb.port = job[w].port
      /\ ju \in Job /\ ju.pc = "assign.undo" /\ ju.net = job[w].net /\ ju.port = job[w].port
  BY Unchanged DEF Job, SwitchWaits, VlanWaits
<1>5. PortRowLawful
  BY <1>3, Unchanged DEF AssignWritten, PortRowLawful, Granted, Role
<1>6. Become(w, jb) \/ Become(w, ju) \/ Finish(w)
  BY DEF AssignWritten
<1> HIDE DEF jb, ju
<1>7. JobOK(jb) /\ JobOK(ju)
  BY <1>3, <1>4 DEF JobOK, ReturnWaits, NetWaits
<1>8. CASE Become(w, jb)
  BY <1>1, <1>2, <1>4, <1>5, <1>7, <1>8, Unchanged, GoOnInv
<1>9. CASE Become(w, ju)
  BY <1>1, <1>2, <1>4, <1>5, <1>7, <1>9, Unchanged, GoOnInv
<1>10. CASE Finish(w)
  BY <1>1, <1>2, <1>5, <1>10, Unchanged, FinishInv
<1>11. QED
  BY <1>6, <1>8, <1>9, <1>10

LEMMA AssignUndoneInv ==
  ASSUME IInv, NEW w \in Workers, NEW o \in Outcomes, AssignUndone(w, o)
  PROVE  IInv'
<1>1. /\ Served(w) /\ job[w].pc = "assign.undo" /\ SwitchSettles(w, o)
      /\ Finish(w) /\ UNCHANGED database
  BY DEF AssignUndone, Ready, Served
<1>2. HardwareOK'
  BY <1>1, SwitchSettlesInv DEF database, SwitchWaits, VlanWaits
<1>3. QED
  BY <1>1, <1>2, Unchanged, FinishInv DEF database, PortRowLawful

(***************************************************************************)
(* returnToOnboarding.                                                     *)
(***************************************************************************)
LEMMA AbortType ==
  ASSUME IInv, NEW w \in Workers, Abort(w)
  PROVE  Finish(w) /\ status' \in [Ids -> Statuses]
BY Unchanged, SetStatusType DEF Abort, Statuses

LEMMA ReturnStartInv ==
  ASSUME IInv, NEW w \in Workers, NEW p \in Ports, NEW b \in BOOLEAN,
         ReturnStart(w, p, b)
  PROVE  IInv'
<1> DEFINE j == [Idle EXCEPT !.pc = "return.read", !.port = p, !.flag = b]
<1>1. j \in Job /\ j.pc = "return.read" /\ j.net = None /\ j.port = p
  BY IdleOK DEF Job, Idle, ReadWaits
<1>2. Served(w) /\ Become(w, j) /\ UNCHANGED <<database, hardware>>
  BY DEF ReturnStart, Ready, Served
<1> HIDE DEF j
<1>3. JobOK(j)
  BY <1>1 DEF JobOK, NetWaits
<1>4. QED
  BY <1>1, <1>2, <1>3, Unchanged, GoOnInv DEF database, hardware, PortRowLawful

\* A return on its way to its next write is still about the same port.
LEMMA ReturnJob ==
  ASSUME IInv, NEW w \in Workers, NEW pc \in ReturnWaits \cup {"bounce"},
         job[w].pc \in ReturnWaits
  PROVE  LET j == [job[w] EXCEPT !.pc = pc]
         IN  j \in Job /\ j.pc = pc /\ j.net = job[w].net /\ JobOK(j)
<1> DEFINE j == [job[w] EXCEPT !.pc = pc]
<1>1. j \in Job /\ j.pc = pc /\ j.net = job[w].net /\ j.port = job[w].port
  BY Unchanged DEF Job, ReturnWaits, SwitchWaits, VlanWaits, ReadWaits
<1>2. job[w].port \in Ports /\ (job[w].net = None \/ Granted(job[w].net))
  BY DEF IInv, RequestsOK, JobsOK, JobOK, PortWaits
<1> HIDE DEF j
<1>3. JobOK(j)
  BY <1>1, <1>2 DEF JobOK, NetWaits, ReturnWaits
<1>4. QED
  BY <1>1, <1>3 DEF j

LEMMA ReturnCheckInv ==
  ASSUME IInv, NEW w \in Workers, ReturnCheck(w)
  PROVE  IInv'
<1> DEFINE j == [job[w] EXCEPT !.pc = "return.vlan"]
<1>1. /\ Served(w) /\ job[w].pc = "return.read"
      /\ UNCHANGED <<live, net, cred, used, role, owner, hardware>>
  BY DEF ReturnCheck, Ready, Served, hardware
<1>2. j \in Job /\ j.pc = "return.vlan" /\ j.net = job[w].net /\ JobOK(j)
  BY <1>1, ReturnJob DEF ReturnWaits
<1>3. (Become(w, j) /\ UNCHANGED status) \/ Abort(w)
  BY DEF ReturnCheck
<1> HIDE DEF j
<1>4. CASE Become(w, j) /\ UNCHANGED status
  BY <1>1, <1>2, <1>4, Unchanged, GoOnInv DEF PortRowLawful
<1>5. CASE Abort(w)
  BY <1>1, <1>5, AbortType, Unchanged, FinishInv DEF PortRowLawful
<1>6. QED
  BY <1>3, <1>4, <1>5

LEMMA ReturnWrittenInv ==
  ASSUME IInv, NEW w \in Workers, NEW o \in Outcomes, NEW pc \in ReturnWaits \ {"return.read"},
         NEW next \in ReturnWaits, ReturnWritten(w, o, pc, next)
  PROVE  IInv'
<1> DEFINE j == [job[w] EXCEPT !.pc = next]
<1>1. /\ Served(w) /\ job[w].pc = pc /\ SwitchSettles(w, o)
      /\ UNCHANGED <<live, net, cred, used, role, owner>>
  BY DEF ReturnWritten, Ready, Served
<1>2. HardwareOK'
  BY <1>1, SwitchSettlesInv DEF SwitchWaits, VlanWaits, ReturnWaits
<1>3. j \in Job /\ j.pc = next /\ j.net = job[w].net /\ JobOK(j)
  BY <1>1, ReturnJob
<1>4. (Become(w, j) /\ UNCHANGED status) \/ Abort(w)
  BY DEF ReturnWritten
<1> HIDE DEF j
<1>5. CASE Become(w, j) /\ UNCHANGED status
  BY <1>1, <1>2, <1>3, <1>5, Unchanged, GoOnInv DEF PortRowLawful, ReturnWaits
<1>6. CASE Abort(w)
  BY <1>1, <1>2, <1>6, AbortType, Unchanged, FinishInv DEF PortRowLawful
<1>7. QED
  BY <1>4, <1>5, <1>6

\* A removal goes on to its next port, or to the slot.
LEMMA NextPortInv ==
  ASSUME IInv, NEW w \in Workers, NEW j \in Job, Served(w), NextPort(w, j),
         Granted(j.net), UNCHANGED <<live, net, used, cred, status>>,
         PortRowLawful,
         HardwareOK'
  PROVE  IInv'
<1>1. CASE Become(w, [j EXCEPT !.pc = "remove.clear", !.port = None])
  <2> DEFINE k == [j EXCEPT !.pc = "remove.clear", !.port = None]
  <2>1. k \in Job /\ k.pc = "remove.clear" /\ k.net = j.net
    BY DEF Job, RadioWaits
  <2>2. Become(w, k)
    BY <1>1
  <2> HIDE DEF k
  <2>3. JobOK(k) /\ k.net \in used
    BY <2>1 DEF JobOK, PortWaits, SwitchWaits, VlanWaits, ReturnWaits, Granted
  <2>4. QED
    BY <2>1, <2>2, <2>3, Unchanged, GoOnInv
<1>2. ASSUME NEW p \in Ports,
             Become(w, [j EXCEPT !.pc = "return.read", !.port = p, !.todo = @ \ {p}])
      PROVE  IInv'
  <2> DEFINE k == [j EXCEPT !.pc = "return.read", !.port = p, !.todo = @ \ {p}]
  <2>1. k \in Job /\ k.pc = "return.read" /\ k.net = j.net /\ k.port = p
    BY DEF Job, ReadWaits
  <2>2. Become(w, k)
    BY <1>2
  <2> HIDE DEF k
  <2>3. JobOK(k) /\ k.net \in used
    BY <2>1 DEF JobOK, NetWaits, Granted
  <2>4. QED
    BY <2>1, <2>2, <2>3, Unchanged, GoOnInv
<1>3. QED
  BY <1>1, <1>2 DEF NextPort

LEMMA ReturnFlushInv ==
  ASSUME IInv, NEW w \in Workers, NEW o \in Outcomes, ReturnFlush(w, o)
  PROVE  IInv'
<1> DEFINE jb == [job[w] EXCEPT !.pc = "bounce"]
<1>1. /\ Served(w) /\ job[w].pc = "return.flush" /\ SwitchSettles(w, o)
      /\ UNCHANGED <<live, net, cred, used>>
  BY DEF ReturnFlush, Ready, Served
<1>2. HardwareOK'
  BY <1>1, SwitchSettlesInv DEF SwitchWaits, VlanWaits
<1>3. jb \in Job /\ jb.pc = "bounce" /\ jb.net = job[w].net /\ JobOK(jb)
  BY <1>1, ReturnJob DEF ReturnWaits
<1>4. job[w].port \in Ports /\ (job[w].net = None \/ Granted(job[w].net))
  BY <1>1 DEF IInv, RequestsOK, JobsOK, JobOK, PortWaits, ReturnWaits
<1>5. PortRowLawful
  BY <1>4 DEF ReturnFlush, PortRowLawful, ForeignKeyHolds, Role
<1>6. CASE Abort(w)
  BY <1>1, <1>2, <1>5, <1>6, AbortType, Unchanged, FinishInv
<1>7. CASE ~Abort(w)
  <2>1. /\ UNCHANGED status
        /\ \/ job[w].net # None /\ NextPort(w, job[w])
           \/ Become(w, jb)
           \/ Finish(w)
    BY <1>7 DEF ReturnFlush
  <2> HIDE DEF jb
  <2>2. CASE job[w].net # None /\ NextPort(w, job[w])
    BY <1>1, <1>2, <1>4, <1>5, <2>1, <2>2, Unchanged, NextPortInv
  <2>3. CASE Become(w, jb)
    BY <1>1, <1>2, <1>3, <1>5, <2>1, <2>3, Unchanged, GoOnInv
  <2>4. CASE Finish(w)
    BY <1>1, <1>2, <1>5, <2>1, <2>4, Unchanged, FinishInv
  <2>5. QED
    BY <2>1, <2>2, <2>3, <2>4
<1>8. QED
  BY <1>6, <1>7

(***************************************************************************)
(* setRole, setEnabled, bounce and unreadable ports.                       *)
(***************************************************************************)
LEMMA RoleStartInv ==
  ASSUME IInv, NEW w \in Workers, NEW p \in Ports, NEW r \in Role, RoleStart(w, p, r)
  PROVE  IInv'
<1> DEFINE j == [Idle EXCEPT !.pc = "role.read", !.port = p, !.role = r]
<1>1. j \in Job /\ j.pc = "role.read" /\ j.net = None /\ j.port = p
  BY IdleOK DEF Job, Idle, ReadWaits
<1>2. Served(w) /\ Become(w, j) /\ UNCHANGED <<database, hardware>>
  BY DEF RoleStart, Ready, Served
<1> HIDE DEF j
<1>3. JobOK(j)
  BY <1>1 DEF JobOK, NetWaits, ReturnWaits
<1>4. QED
  BY <1>1, <1>2, <1>3, Unchanged, GoOnInv DEF database, hardware, PortRowLawful

LEMMA RoleCheckInv ==
  ASSUME IInv, NEW w \in Workers, RoleCheck(w)
  PROVE  IInv'
<1>1. Served(w) /\ job[w].pc = "role.read" /\ UNCHANGED <<database, hardware>>
  BY DEF RoleCheck, Ready, Served
<1>2. CASE Finish(w)
  BY <1>1, <1>2, Unchanged, FinishInv DEF database, hardware, PortRowLawful
<1>3. CASE ~Finish(w)
  <2> DEFINE p == job[w].port
             V == IF job[w].role = "ap-trunk" THEN AllocatedVlans(live) ELSE {}
  <2>1. p \in Ports /\ owner[p] \in live \cup {None} /\ owner[p] \in Ids \cup {None}
    BY <1>1, Unchanged DEF IInv, RequestsOK, JobsOK, JobOK, PortWaits
  <2>2. owner[p] = None \/ job[w].role = "client"
    BY <1>3 DEF RoleCheck
  <2>3. V \subseteq Nat
    BY ConfigAssumption
       DEF AllocatedVlans, IInv, RequestsOK, RowsGranted, Granted
  <2> HIDE DEF V
  <2> DEFINE j == [job[w] EXCEPT !.pc = "role.write", !.net = owner[p], !.vlans = V]
  <2>4. /\ j \in Job /\ j.pc = "role.write" /\ j.net = owner[p] /\ j.port = p
        /\ j.role = job[w].role
    BY <2>1, <2>3, Unchanged DEF Job, SwitchWaits, VlanWaits
  <2>5. Become(w, j)
    BY <1>3 DEF RoleCheck, V
  <2> HIDE DEF j
  <2>6. JobOK(j) /\ j.net \in used \cup {None}
    BY <2>1, <2>2, <2>4, Unchanged
       DEF JobOK, NetWaits, IInv, RequestsOK, RowsGranted
  <2>7. QED
    BY <1>1, <2>4, <2>5, <2>6, Unchanged, GoOnInv
       DEF database, hardware, PortRowLawful
<1>4. QED
  BY <1>2, <1>3

LEMMA RoleWrittenInv ==
  ASSUME IInv, NEW w \in Workers, NEW o \in Outcomes, RoleWritten(w, o)
  PROVE  IInv'
<1>1. /\ Served(w) /\ job[w].pc = "role.write" /\ SwitchSettles(w, o)
      /\ Finish(w) /\ UNCHANGED <<live, net, status, cred, used>>
  BY DEF RoleWritten, Ready, Served
<1>2. HardwareOK'
  BY <1>1, SwitchSettlesInv DEF SwitchWaits, VlanWaits
<1>3. /\ job[w].port \in Ports
      /\ job[w].net = None \/ Granted(job[w].net)
      /\ job[w].net = None \/ job[w].role = "client"
      /\ job[w].role \in Role
  BY <1>1, Unchanged
     DEF IInv, RequestsOK, JobsOK, JobOK, PortWaits, SwitchWaits, VlanWaits, Job
<1>4. job[w].net \in Ids \cup {None}
  BY <1>3, Unchanged DEF Granted
<1>5. PortRowLawful
  BY <1>3, <1>4 DEF RoleWritten, PortRowLawful
<1>6. QED
  BY <1>1, <1>2, <1>5, Unchanged, FinishInv

\* A request that names a port and no network.
LEMMA PortOnlyInv ==
  ASSUME IInv, NEW w \in Workers, NEW j \in Job, Served(w), Become(w, j),
         j.pc \in PortWaits \ (NetWaits \cup {"role.write"}), j.port \in Ports,
         j.net = None, UNCHANGED <<database, hardware>>
  PROVE  IInv'
<1>1. JobOK(j) /\ j.pc \notin {"create.config", "create.scan"}
  BY DEF JobOK, PortWaits, ReturnWaits, NetWaits, SwitchWaits, VlanWaits
<1>2. QED
  BY <1>1, Unchanged, GoOnInv DEF database, hardware, PortRowLawful

LEMMA EnableStartInv ==
  ASSUME IInv, NEW w \in Workers, NEW p \in Ports, NEW e \in BOOLEAN,
         EnableStart(w, p, e)
  PROVE  IInv'
<1> DEFINE j == [Idle EXCEPT !.pc = "enable.read", !.port = p, !.flag = e]
<1>1. j \in Job /\ j.pc = "enable.read" /\ j.net = None /\ j.port = p
  BY IdleOK DEF Job, Idle, ReadWaits
<1>2. Served(w) /\ Become(w, j) /\ UNCHANGED <<database, hardware>>
  BY DEF EnableStart, Ready, Served
<1> HIDE DEF j
<1>3. QED
  BY <1>1, <1>2, PortOnlyInv DEF PortWaits, NetWaits

LEMMA BounceStartInv ==
  ASSUME IInv, NEW w \in Workers, NEW p \in Ports, BounceStart(w, p)
  PROVE  IInv'
<1> DEFINE j == [Idle EXCEPT !.pc = "bounce.read", !.port = p]
<1>1. j \in Job /\ j.pc = "bounce.read" /\ j.net = None /\ j.port = p
  BY IdleOK DEF Job, Idle, ReadWaits
<1>2. Served(w) /\ Become(w, j) /\ UNCHANGED <<database, hardware>>
  BY DEF BounceStart, Ready, Served
<1> HIDE DEF j
<1>3. QED
  BY <1>1, <1>2, PortOnlyInv DEF PortWaits, NetWaits

LEMMA PortReadInv ==
  ASSUME IInv, NEW w \in Workers, PortRead(w)
  PROVE  IInv'
<1>1. PICK pc \in {"enable.write", "bounce"} :
        /\ Served(w) /\ job[w].pc \in {"enable.read", "bounce.read"}
        /\ Become(w, [job[w] EXCEPT !.pc = pc]) /\ UNCHANGED <<database, hardware>>
  BY DEF PortRead, Ready, Served
<1> DEFINE j == [job[w] EXCEPT !.pc = pc]
<1>2. j \in Job /\ j.pc = pc /\ j.net = job[w].net /\ j.port = job[w].port
  BY Unchanged DEF Job, SwitchWaits, VlanWaits
<1>3. job[w].port \in Ports
  BY <1>1 DEF IInv, RequestsOK, JobsOK, JobOK, PortWaits
<1> HIDE DEF j
<1>4. JobOK(j)
  BY <1>2, <1>3 DEF JobOK, NetWaits, ReturnWaits
<1>5. QED
  BY <1>1, <1>2, <1>4, Unchanged, GoOnInv DEF database, hardware, PortRowLawful, j

LEMMA LastWriteInv ==
  ASSUME IInv, NEW w \in Workers, NEW o \in Outcomes, LastWrite(w, o)
  PROVE  IInv'
<1>1. /\ Served(w) /\ job[w].pc \in SwitchWaits /\ SwitchSettles(w, o)
      /\ Finish(w) /\ UNCHANGED database
  BY DEF LastWrite, Ready, Served, SwitchWaits, VlanWaits
<1>2. HardwareOK'
  BY <1>1, SwitchSettlesInv DEF database
<1>3. QED
  BY <1>1, <1>2, Unchanged, FinishInv DEF database, PortRowLawful

LEMMA PortUnreadableInv ==
  ASSUME IInv, NEW w \in Workers, PortUnreadable(w)
  PROVE  IInv'
<1>1. Served(w) /\ UNCHANGED <<live, net, cred, used, role, owner, hardware>>
  BY DEF PortUnreadable, Ready, Served, hardware
<1>2. Finish(w) /\ status' \in [Ids -> Statuses]
  BY AbortType, Unchanged DEF PortUnreadable
<1>3. QED
  BY <1>1, <1>2, Unchanged, FinishInv DEF PortRowLawful

(***************************************************************************)
(* create.                                                                 *)
(***************************************************************************)
LEMMA CreateStartInv ==
  ASSUME IInv, NEW w \in Workers, NEW number \in Numbers, NEW S \in SUBSET Slots,
         CreateStart(w, number, S)
  PROVE  IInv'
<1>1. PICK n \in Ids :
        /\ n \in FreshIds
        /\ Become(w, [Idle EXCEPT !.pc = "create.scan", !.net = n,
                                  !.number = number, !.slots = S])
  BY DEF CreateStart, IsLeast
<1> DEFINE j == [Idle EXCEPT !.pc = "create.scan", !.net = n,
                             !.number = number, !.slots = S]
<1>2. j \in Job /\ j.pc = "create.scan" /\ j.net = n
  BY IdleOK DEF Job, Idle, ReadWaits
<1>3. Served(w) /\ UNCHANGED <<database, hardware>>
  BY DEF CreateStart, Ready, Served
<1>4. n \in Ids \ used /\ \A v \in Workers : job[v].net # n
  BY <1>1 DEF FreshIds
<1> HIDE DEF j
<1>5. JobOK(j)
  BY <1>2, <1>4 DEF JobOK, PortWaits, NetWaits, ReturnWaits, SwitchWaits, VlanWaits
<1>6. Become(w, j) /\ UNCHANGED <<live, net, used>>
  BY <1>1, <1>3 DEF database, j
<1>7. /\ RequestsOK'
      /\ job' \in [Workers -> Job]
      /\ swq' \in [Switches -> Seq(Workers)]
      /\ apq' \in Seq(Workers)
  BY <1>2, <1>3, <1>4, <1>5, <1>6, SteadyStep DEF IInv, TypeOK
<1>8. QED
  BY <1>3, <1>7, Unchanged, SteadyInv DEF database, hardware, PortRowLawful

\* The row is inserted: the id leaves the hands of its create for good.
LEMMA InsertInv ==
  ASSUME IInv, NEW w \in Workers, NEW j \in Job, NEW s \in Slots, NEW v,
         Served(w), job[w].pc = "create.scan", Become(w, j),
         j.pc = "create.config", j.net = job[w].net,
         Inserts(j.net, job[w].number, s, v),
         cred' = cred \cup {j.net}, used' = used \cup {j.net},
         UNCHANGED <<role, owner, hardware>>
  PROVE  IInv'
<1> DEFINE n == j.net
<1>1. /\ n \in Ids \ used
      /\ \A u \in Workers \ {w} : job[u].net # n
  BY DEF IInv, RequestsOK, JobsOK, JobOK, FreshApart
<1>2. /\ job' \in [Workers -> Job]
      /\ swq' \in [Switches -> Seq(Workers)]
      /\ apq' \in Seq(Workers)
      /\ job' = [job EXCEPT ![w] = j]
      /\ job \in [Workers -> Job]
  BY BecomeType DEF IInv, TypeOK, StateTypeOK, Become
<1>3. v \in Pool \ {Onboarding, Management} /\ v \in Nat
  BY ConfigAssumption DEF Inserts, Allocates, IsLeast
<1>4. /\ live' = live \cup {n}
      /\ net' = [net EXCEPT ![n] = [number |-> job[w].number, vlan |-> v, slot |-> s]]
      /\ status' = [status EXCEPT ![n] = "provisioning"]
  BY DEF Inserts
<1>5. net' \in [Ids -> Network]
  <2>1. job[w].number \in Numbers \cup {None}
    BY <1>2 DEF Job
  <2>2. [number |-> job[w].number, vlan |-> v, slot |-> s] \in Network
    BY <1>3, <2>1 DEF Network
  <2>3. QED
    BY <1>4, <2>2 DEF IInv, TypeOK, StateTypeOK
<1>6. status' \in [Ids -> Statuses]
  BY <1>4, Unchanged DEF Statuses
<1>7. Granted(n)' /\ \A m \in used : Granted(m) => Granted(m)'
  BY <1>1, <1>3, <1>4 DEF Granted, IInv, TypeOK, StateTypeOK
<1>8. RowsGranted'
  BY <1>4, <1>7, Unchanged DEF RowsGranted, IInv, RequestsOK
<1>9. JobsOK'
  <2> SUFFICES ASSUME NEW u \in Workers PROVE JobOK(job[u])'
    BY DEF JobsOK
  <2>1. CASE u = w
    BY <1>2, <1>4, <1>7, <2>1
       DEF JobOK, PortWaits, NetWaits, ReturnWaits, SwitchWaits, VlanWaits
  <2>2. CASE u # w
    <3>1. job'[u] = job[u] /\ JobOK(job[u]) /\ job[u].net # n
      BY <1>1, <1>2, <2>2 DEF IInv, RequestsOK, JobsOK
    <3>2. Granted(job[u].net) => Granted(job[u].net)'
      BY <1>7, <3>1 DEF Granted
    <3>3. QED
      BY <1>4, <3>1, <3>2 DEF JobOK
  <2>3. QED
    BY <2>1, <2>2
<1>10. FreshApart'
  BY <1>1, <1>2 DEF FreshApart, IInv, RequestsOK
<1>11. RadioQueueOK'
  BY <1>1, BecomeRadioQueue DEF IInv, TypeOK, RequestsOK
<1>12. AssignmentIntegrity' /\ KeysKept'
  BY <1>4 DEF IInv, AssignmentIntegrity, KeysKept
<1>13. HardwareOK'
  <2>1. \A m \in live : m \in live' /\ net'[m] = net[m]
    BY <1>1, <1>4, Unchanged DEF IInv, TypeOK, StateTypeOK
  <2>2. QED
    BY <2>1 DEF IInv, HardwareOK, DocOK, hardware, radio
<1>14. QED
  BY <1>1, <1>2, <1>4, <1>5, <1>6, <1>8, <1>9, <1>10, <1>11, <1>12, <1>13
     DEF IInv, TypeOK, StateTypeOK, HardwareOK, RequestsOK

\* The insert fails: the id is spent and its key stays behind.
LEMMA WasteInv ==
  ASSUME IInv, NEW w \in Workers, Served(w), job[w].pc = "create.scan", Finish(w),
         cred' = cred \cup {job[w].net}, used' = used \cup {job[w].net},
         UNCHANGED <<live, net, status, role, owner, hardware>>
  PROVE  IInv'
<1> DEFINE n == job[w].net
<1>1. /\ n \in Ids \ used
      /\ \A u \in Workers \ {w} : job[u].net # n
  BY DEF IInv, RequestsOK, JobsOK, JobOK, FreshApart
<1>2. Become(w, Idle) /\ Idle \in Job /\ JobOK(Idle) /\ Idle.pc = "idle" /\ Idle.net = None
  BY IdleOK DEF Finish, Idle
<1>3. /\ job' \in [Workers -> Job]
      /\ swq' \in [Switches -> Seq(Workers)]
      /\ apq' \in Seq(Workers)
      /\ job' = [job EXCEPT ![w] = Idle]
      /\ job \in [Workers -> Job]
  BY <1>2, BecomeType DEF IInv, TypeOK, StateTypeOK, Become
<1>4. \A m \in used : Granted(m) => Granted(m)'
  BY DEF Granted
<1>5. RowsGranted'
  BY <1>4, Unchanged DEF RowsGranted, IInv, RequestsOK
<1>6. JobsOK'
  <2> SUFFICES ASSUME NEW u \in Workers PROVE JobOK(job[u])'
    BY DEF JobsOK
  <2>1. CASE u = w
    BY <1>2, <1>3, <2>1
       DEF JobOK, PortWaits, NetWaits, ReturnWaits, SwitchWaits, VlanWaits
  <2>2. CASE u # w
    <3>1. job'[u] = job[u] /\ JobOK(job[u]) /\ job[u].net # n
      BY <1>1, <1>3, <2>2 DEF IInv, RequestsOK, JobsOK
    <3>2. Granted(job[u].net) => Granted(job[u].net)'
      BY <1>4, <3>1 DEF Granted
    <3>3. QED
      BY <3>1, <3>2 DEF JobOK
  <2>3. QED
    BY <2>1, <2>2
<1>7. FreshApart'
  <2> SUFFICES ASSUME NEW u \in Workers, NEW v \in Workers, v # u,
                      job'[u].pc = "create.scan"
               PROVE  job'[v].net # job'[u].net
    BY DEF FreshApart
  <2>1. u # w /\ job'[u] = job[u]
    BY <1>2, <1>3
  <2>2. job[u].net # None
    BY <2>1, IdAssumption DEF None, IInv, RequestsOK, JobsOK, JobOK
  <2>3. QED
    BY <1>2, <1>3, <2>1, <2>2 DEF FreshApart, IInv, RequestsOK
<1>8. RadioQueueOK'
  BY <1>2, BecomeRadioQueue DEF IInv, TypeOK, RequestsOK
<1>9. HardwareOK'
  BY Unchanged
<1>10. QED
  BY <1>1, <1>3, <1>5, <1>6, <1>7, <1>8, <1>9
     DEF IInv, TypeOK, StateTypeOK, HardwareOK, RequestsOK, AssignmentIntegrity, KeysKept

LEMMA CreateScanInv ==
  ASSUME IInv, NEW w \in Workers, CreateScan(w)
  PROVE  IInv'
<1> DEFINE jc == [job[w] EXCEPT !.pc = "create.config", !.slots = {}, !.number = None]
<1>1. Served(w) /\ job[w].pc = "create.scan" /\ UNCHANGED <<role, owner, hardware>>
  BY DEF CreateScan, Ready, Served
<1>2. PICK s \in Slots :
        \/ /\ cred' = cred \cup {job[w].net}
           /\ used' = used \cup {job[w].net}
           /\ \/ /\ \E v \in Pool : Inserts(job[w].net, job[w].number, s, v)
                 /\ Become(w, jc)
              \/ Finish(w) /\ UNCHANGED <<live, net, status>>
        \/ /\ UNCHANGED <<live, net, status, cred, used>>
           /\ \/ Finish(w)
              \/ Become(w, [job[w] EXCEPT !.slots = @ \ {s}])
  BY DEF CreateScan
<1> DEFINE jn == [job[w] EXCEPT !.slots = @ \ {s}]
<1>3. /\ jc \in Job /\ jc.pc = "create.config" /\ jc.net = job[w].net
      /\ jn \in Job /\ jn.pc = "create.scan" /\ jn.net = job[w].net
  BY <1>1, Unchanged DEF Job, RadioWaits
<1>4. ASSUME NEW v \in Pool, Inserts(job[w].net, job[w].number, s, v), Become(w, jc),
             cred' = cred \cup {job[w].net}, used' = used \cup {job[w].net}
      PROVE  IInv'
  <2> HIDE DEF jc
  <2>1. QED
    BY <1>1, <1>3, <1>4, InsertInv
<1>5. CASE /\ cred' = cred \cup {job[w].net} /\ used' = used \cup {job[w].net}
           /\ Finish(w) /\ UNCHANGED <<live, net, status>>
  BY <1>1, <1>5, WasteInv
<1>6. CASE Finish(w) /\ UNCHANGED <<live, net, status, cred, used>>
  BY <1>1, <1>6, Unchanged, FinishInv DEF hardware, PortRowLawful
<1>7. CASE Become(w, jn) /\ UNCHANGED <<live, net, status, cred, used>>
  <2> HIDE DEF jn
  <2>1. JobOK(jn)
    BY <1>1, <1>3 DEF JobOK, PortWaits, NetWaits, ReturnWaits, SwitchWaits, VlanWaits,
                      IInv, RequestsOK, JobsOK
  <2>2. /\ RequestsOK'
        /\ job' \in [Workers -> Job]
        /\ swq' \in [Switches -> Seq(Workers)]
        /\ apq' \in Seq(Workers)
    BY <1>1, <1>3, <1>7, <2>1, SteadyStep DEF IInv, TypeOK
  <2>3. QED
    BY <1>1, <1>7, <2>2, Unchanged, SteadyInv DEF hardware, PortRowLawful
<1>8. QED
  BY <1>2, <1>4, <1>5, <1>6, <1>7

LEMMA TrunkVlans ==
  ASSUME IInv, NEW L \in SUBSET live
  PROVE  AllocatedVlans(L) \subseteq Nat
BY ConfigAssumption DEF AllocatedVlans, IInv, RequestsOK, RowsGranted, Granted

LEMMA NextTrunkInv ==
  ASSUME IInv, NEW w \in Workers, Served(w), NextTrunk(w),
         job[w].pc \in {"create.trunk", "remove.trunk"},
         UNCHANGED database,
         HardwareOK'
  PROVE  IInv'
<1>1. PICK p \in Ports : Become(w, [job[w] EXCEPT !.port = p, !.todo = @ \ {p}])
  BY DEF NextTrunk
<1> DEFINE j == [job[w] EXCEPT !.port = p, !.todo = @ \ {p}]
<1>2. j \in Job /\ j.pc = job[w].pc /\ j.net = job[w].net /\ j.port = p
  BY Unchanged DEF Job
<1>3. Become(w, j)
  BY <1>1
<1> HIDE DEF j
<1>4. JobOK(j)
  BY <1>2 DEF JobOK, ReturnWaits, NetWaits, IInv, RequestsOK, JobsOK
<1>5. QED
  BY <1>2, <1>3, <1>4, Unchanged, GoOnInv DEF database, PortRowLawful

LEMMA CreateEndInv ==
  ASSUME IInv, NEW w \in Workers, NEW s \in Statuses, Served(w), CreateEnd(w, s),
         UNCHANGED <<live, net, cred, used, role, owner>>,
         HardwareOK'
  PROVE  IInv'
BY Unchanged, SetStatusType, FinishInv DEF CreateEnd, PortRowLawful

LEMMA CreateConfiguredInv ==
  ASSUME IInv, NEW w \in Workers, CreateConfigured(w)
  PROVE  IInv'
<1>1. /\ Served(w) /\ job[w].pc = "create.config"
      /\ RadioConfirms(w) \/ RadioRejects(w)
      /\ UNCHANGED <<live, net, cred, used, role, owner>>
  BY DEF CreateConfigured, Ready, Served
<1>2. HardwareOK'
  BY <1>1, RadioSettlesInv
<1>3. ASSUME NEW p \in Ports, UNCHANGED status,
             Become(w, [job[w] EXCEPT !.pc = "create.trunk", !.port = p,
                                      !.todo = Trunks \ {p},
                                      !.vlans = AllocatedVlans(live)])
      PROVE  IInv'
  <2> DEFINE V == AllocatedVlans(live)
             T == Trunks \ {p}
  <2>1. /\ V \in SUBSET Nat /\ T \in SUBSET Ports /\ Granted(job[w].net)
        /\ job[w] \in Job
    BY <1>1, TrunkVlans, Unchanged DEF Trunks, IInv, RequestsOK, JobsOK, JobOK, NetWaits
  <2> HIDE DEF V, T
  <2> DEFINE j == [job[w] EXCEPT !.pc = "create.trunk", !.port = p,
                                 !.todo = T, !.vlans = V]
  <2>2. j \in Job /\ j.pc = "create.trunk" /\ j.net = job[w].net /\ j.port = p
    BY <1>3, <2>1 DEF Job, SwitchWaits, VlanWaits
  <2>3. Become(w, j)
    BY <1>3 DEF V, T
  <2> HIDE DEF j
  <2>4. JobOK(j)
    BY <2>1, <2>2, <1>3 DEF JobOK, ReturnWaits
  <2>5. QED
    BY <1>1, <1>2, <1>3, <2>1, <2>2, <2>3, <2>4, Unchanged, GoOnInv DEF PortRowLawful
<1>4. ASSUME NEW s \in {"waiting-for-robot", "error"}, CreateEnd(w, s)
      PROVE  IInv'
  BY <1>1, <1>2, <1>4, CreateEndInv DEF Statuses
<1>5. QED
  BY <1>3, <1>4 DEF CreateConfigured, BeginSync

LEMMA CreateTrunkedInv ==
  ASSUME IInv, NEW w \in Workers, NEW o \in Outcomes, CreateTrunked(w, o)
  PROVE  IInv'
<1>1. /\ Served(w) /\ job[w].pc = "create.trunk" /\ SwitchSettles(w, o)
      /\ UNCHANGED <<live, net, cred, used, role, owner>>
  BY DEF CreateTrunked, Ready, Served
<1>2. HardwareOK'
  BY <1>1, SwitchSettlesInv DEF SwitchWaits, VlanWaits
<1>3. CASE NextTrunk(w) /\ UNCHANGED status
  BY <1>1, <1>2, <1>3, NextTrunkInv DEF database
<1>4. ASSUME NEW s \in {"waiting-for-robot", "error"}, CreateEnd(w, s)
      PROVE  IInv'
  BY <1>1, <1>2, <1>4, CreateEndInv DEF Statuses
<1>5. QED
  BY <1>3, <1>4 DEF CreateTrunked

(***************************************************************************)
(* remove.                                                                 *)
(***************************************************************************)
LEMMA RemoveStartInv ==
  ASSUME IInv, NEW w \in Workers, NEW n \in Ids, RemoveStart(w, n)
  PROVE  IInv'
<1> DEFINE T == {p \in Ports : owner[p] = n}
           j == [Idle EXCEPT !.net = n, !.todo = T]
<1>1. Served(w) /\ NextPort(w, j) /\ n \in live /\ UNCHANGED <<database, hardware>>
  BY DEF RemoveStart, Ready, Served
<1>2. T \in SUBSET Ports
  OBVIOUS
<1> HIDE DEF T
<1>3. j \in Job /\ j.net = n
  BY <1>2, IdleOK DEF Job, Idle
<1>4. Granted(n)
  BY <1>1 DEF IInv, RequestsOK, RowsGranted
<1> HIDE DEF j
<1>5. QED
  BY <1>1, <1>3, <1>4, Unchanged, NextPortInv DEF database, hardware, PortRowLawful

\* When the removal of n is served at the radio, no create of n is behind it.
LEMMA RemoverServed ==
  ASSUME IInv, NEW w \in Workers, Served(w), job[w].pc = "remove.clear",
         NEW v \in Workers, job[v].pc = "create.config"
  PROVE  job[v].net # job[w].net
<1>1. apq # <<>> /\ Head(apq) = w /\ apq \in Seq(Workers)
  BY DEF Served, Serves, OnRadio, RadioWaits, IInv, TypeOK, StateTypeOK
<1>2. 1 \in 1 .. Len(apq) /\ apq[1] = w
  BY <1>1
<1>3. PICK k \in 1 .. Len(apq) : apq[k] = v
  BY DEF IInv, RequestsOK, RadioQueueOK, OnRadio, RadioWaits
<1>4. ~(k < 1)
  BY <1>1, <1>3
<1>5. QED
  BY <1>2, <1>3, <1>4 DEF IInv, RequestsOK, RadioQueueOK

\* The row is deleted, and w goes on to the trunks or ends.
LEMMA DeleteInv ==
  ASSUME IInv, NEW w \in Workers, NEW j \in Job, Served(w),
         job[w].pc = "remove.clear", Become(w, j), JobOK(j)',
         j.pc \notin {"create.scan", "create.config"},
         j.net \in {None, job[w].net}, DeleteRow(job[w].net),
         cred' \in {cred, cred \ {job[w].net}},
         UNCHANGED <<net, used, role, status>>,
         HardwareOK'
  PROVE  IInv'
<1> DEFINE n == job[w].net
<1>1. /\ job' \in [Workers -> Job]
      /\ swq' \in [Switches -> Seq(Workers)]
      /\ apq' \in Seq(Workers)
      /\ job' = [job EXCEPT ![w] = j]
      /\ job \in [Workers -> Job]
  BY BecomeType DEF IInv, TypeOK, StateTypeOK, Become
<1>2. /\ live' = live \ {n}
      /\ owner' = [p \in Ports |-> IF owner[p] = n THEN None ELSE owner[p]]
  BY DEF DeleteRow
<1>3. \A m : Granted(m)' <=> Granted(m)
  BY DEF Granted
<1>4. RowsGranted'
  BY <1>2, <1>3 DEF RowsGranted, IInv, RequestsOK
<1>5. JobsOK'
  <2> SUFFICES ASSUME NEW u \in Workers PROVE JobOK(job[u])'
    BY DEF JobsOK
  <2>1. CASE u = w
    <3>1. job'[u] = j
      BY <1>1, <2>1
    <3>2. QED
      BY <3>1 DEF JobOK
  <2>2. CASE u # w
    <3>1. job'[u] = job[u] /\ JobOK(job[u])
      BY <1>1, <2>2 DEF IInv, RequestsOK, JobsOK
    <3>2. job[u].pc = "create.config" => job[u].net \in live'
      BY <1>2, <3>1, RemoverServed DEF JobOK
    <3>3. QED
      BY <1>2, <1>3, <3>1, <3>2 DEF JobOK
  <2>3. QED
    BY <2>1, <2>2
<1>6. FreshApart'
  <2> SUFFICES ASSUME NEW u \in Workers, NEW v \in Workers, v # u,
                      job'[u].pc = "create.scan"
               PROVE  job'[v].net # job'[u].net
    BY DEF FreshApart
  <2>1. u # w /\ job'[u] = job[u]
    BY <1>1
  <2>2. job[u].net # None
    BY <2>1, IdAssumption DEF None, IInv, RequestsOK, JobsOK, JobOK
  <2>3. QED
    BY <1>1, <2>1, <2>2 DEF FreshApart, IInv, RequestsOK
<1>7. RadioQueueOK'
  BY BecomeRadioQueue DEF IInv, TypeOK, RequestsOK
<1>8. owner' \in [Ports -> Ids \cup {None}] /\ AssignmentIntegrity'
  BY <1>2, Unchanged DEF AssignmentIntegrity, IInv
<1>9. KeysKept' /\ cred' \subseteq Ids /\ live' \subseteq used'
  BY <1>2, Unchanged DEF KeysKept, IInv
<1>10. QED
  BY <1>1, <1>4, <1>5, <1>6, <1>7, <1>8, <1>9
     DEF IInv, TypeOK, StateTypeOK, HardwareOK, RequestsOK

\* Once the removal's document is on the air, no document names the network.
LEMMA ClearedDocuments ==
  ASSUME IInv, NEW w \in Workers, job[w].pc = "remove.clear", RadioConfirms(w),
         live' = live \ {job[w].net}, net' = net
  PROVE  HardwareOK'
<1> DEFINE n == job[w].net
           s == SlotOf(job[w])
<1>1. s \in Slots /\ s = net[n].slot
  BY DEF SlotOf, IInv, RequestsOK, JobsOK, JobOK, NetWaits, Granted
<1>2. /\ ap = [known EXCEPT ![s] = None] /\ want = ap
      /\ known' = ap /\ ap' = ap /\ want' = ap /\ sw' = sw /\ stage' = "status"
  BY DEF RadioConfirms, NextDocument
<1>3. ap \in [Slots -> Ids \cup {None}] /\ known \in [Slots -> Ids \cup {None}]
  BY DEF IInv, HardwareOK, Document
<1>4. \A t \in Slots : ap[t] # n \/ n = None
  BY <1>1, <1>2, <1>3 DEF IInv, HardwareOK, DocOK
<1>5. \A t \in Slots : ap[t] # None => ap[t] \in live' /\ net'[ap[t]].slot = t
  BY <1>4 DEF IInv, HardwareOK, DocOK
<1>6. QED
  BY <1>2, <1>5 DEF IInv, HardwareOK, DocOK, Stages

LEMMA RemoveClearedInv ==
  ASSUME IInv, NEW w \in Workers, RemoveCleared(w)
  PROVE  IInv'
<1> DEFINE n == job[w].net
<1>1. /\ Served(w) /\ job[w].pc = "remove.clear"
      /\ UNCHANGED <<net, used, role>>
  BY DEF RemoveCleared, Ready, Served
<1>2. DeleteRow(n) /\ RadioConfirms(w) => HardwareOK'
  BY <1>1, ClearedDocuments DEF DeleteRow
<1>3. Granted(n) /\ job[w] \in Job
  BY <1>1, Unchanged DEF IInv, RequestsOK, JobsOK, JobOK, NetWaits
<1>4. CASE RadioRejects(w) /\ Abort(w) /\ UNCHANGED <<live, owner, cred>>
  <2>1. HardwareOK'
    BY <1>1, <1>4, RadioSettlesInv
  <2>2. QED
    BY <1>1, <1>4, <2>1, AbortType, Unchanged, FinishInv DEF PortRowLawful
<1>5. CASE RadioConfirms(w) /\ DeleteRow(n) /\ RemoveEnd(w) /\ UNCHANGED status
  <2>1. Become(w, Idle) /\ Idle \in Job /\ Idle.pc = "idle" /\ Idle.net = None
    BY <1>5, IdleOK DEF RemoveEnd, Finish, Idle
  <2>2. JobOK(Idle)'
    BY <2>1 DEF JobOK, PortWaits, NetWaits, ReturnWaits, SwitchWaits, VlanWaits
  <2>3. QED
    BY <1>1, <1>2, <1>5, <2>1, <2>2, DeleteInv DEF RemoveEnd
<1>6. ASSUME NEW p \in Ports, RadioConfirms(w), DeleteRow(n),
             UNCHANGED <<cred, status>>,
             Become(w, [job[w] EXCEPT !.pc = "remove.trunk", !.port = p,
                                      !.todo = Trunks \ {p},
                                      !.vlans = AllocatedVlans(live \ {n})])
      PROVE  IInv'
  <2> DEFINE V == AllocatedVlans(live \ {n})
             T == Trunks \ {p}
  <2>1. V \in SUBSET Nat /\ T \in SUBSET Ports
    BY TrunkVlans DEF Trunks
  <2> HIDE DEF V, T
  <2>2. PICK j : j = [job[w] EXCEPT !.pc = "remove.trunk", !.port = p,
                                    !.todo = T, !.vlans = V]
    OBVIOUS
  <2>3. j \in Job /\ j.pc = "remove.trunk" /\ j.net = n /\ j.port = p
    BY <1>3, <1>6, <2>1, <2>2 DEF Job, SwitchWaits, VlanWaits
  <2>4. Become(w, j)
    BY <1>6, <2>2 DEF V, T
  <2>5. JobOK(j)'
    BY <1>1, <1>3, <1>6, <2>3 DEF JobOK, ReturnWaits, Granted, DeleteRow
  <2>6. QED
    BY <1>1, <1>2, <1>6, <2>3, <2>4, <2>5, DeleteInv
<1>7. QED
  BY <1>4, <1>5, <1>6 DEF RemoveCleared, BeginSync

LEMMA RemoveTrunkedInv ==
  ASSUME IInv, NEW w \in Workers, NEW o \in Outcomes, RemoveTrunked(w, o)
  PROVE  IInv'
<1>1. /\ Served(w) /\ job[w].pc = "remove.trunk" /\ SwitchSettles(w, o)
      /\ UNCHANGED <<live, net, status, used, role, owner>>
  BY DEF RemoveTrunked, Ready, Served
<1>2. HardwareOK'
  BY <1>1, SwitchSettlesInv DEF SwitchWaits, VlanWaits
<1>3. CASE NextTrunk(w) /\ UNCHANGED cred
  BY <1>1, <1>2, <1>3, NextTrunkInv DEF database
<1>4. CASE Finish(w) /\ UNCHANGED cred
  BY <1>1, <1>2, <1>4, Unchanged, FinishInv DEF PortRowLawful
<1>5. CASE RemoveEnd(w)
  <2>1. job[w].net \notin live
    BY <1>1 DEF IInv, RequestsOK, JobsOK, JobOK
  <2>2. Finish(w) /\ live \subseteq cred' /\ cred' \subseteq Ids
    BY <1>5, <2>1, Unchanged DEF RemoveEnd
  <2>3. QED
    BY <1>1, <1>2, <2>2, Unchanged, FinishInv DEF PortRowLawful
<1>6. QED
  BY <1>3, <1>4, <1>5 DEF RemoveTrunked

(***************************************************************************)
(* refreshStatuses.                                                        *)
(***************************************************************************)
LEMMA RefreshStartInv ==
  ASSUME IInv, NEW w \in Workers, RefreshStart(w)
  PROVE  IInv'
<1> DEFINE f == [n \in Ids |-> IF n \in live THEN status[n] ELSE "-"]
           j == [Idle EXCEPT !.pc = "refresh", !.seen = f]
<1>1. f \in [Ids -> Statuses \cup {"-"}]
  BY Unchanged
<1> HIDE DEF f
<1>2. j \in Job /\ j.pc = "refresh" /\ j.net = None
  BY <1>1, IdleOK DEF Job, Idle, ReadWaits
<1>3. Served(w) /\ Become(w, j) /\ UNCHANGED <<database, hardware>>
  BY DEF RefreshStart, Ready, Served, f
<1> HIDE DEF j
<1>4. JobOK(j)
  BY <1>2 DEF JobOK, PortWaits, NetWaits, ReturnWaits, SwitchWaits, VlanWaits
<1>5. QED
  BY <1>2, <1>3, <1>4, Unchanged, GoOnInv DEF database, hardware, PortRowLawful

LEMMA RefreshRowInv ==
  ASSUME IInv, NEW w \in Workers, RefreshRow(w)
  PROVE  IInv'
<1>1. /\ Served(w) /\ job[w].pc = "refresh"
      /\ UNCHANGED <<live, net, cred, used, role, owner, hardware>>
  BY DEF RefreshRow, Ready, Served, hardware
<1>2. PICK n \in Ids :
        /\ \/ \E s \in StationStatuses(net[n].slot) :
                IF job[w].seen[n] # s THEN SetStatus(n, s) ELSE UNCHANGED status
           \/ SetStatus(n, "error")
        /\ Finish(w) \/ Become(w, [job[w] EXCEPT !.seen[n] = "-"])
  BY DEF RefreshRow, Listed
<1>3. status' \in [Ids -> Statuses]
  BY <1>2, SetStatusType, Unchanged DEF StationStatuses, Statuses
<1>4. CASE Finish(w)
  BY <1>1, <1>3, <1>4, Unchanged, FinishInv DEF PortRowLawful
<1>5. CASE Become(w, [job[w] EXCEPT !.seen[n] = "-"])
  <2> DEFINE j == [job[w] EXCEPT !.seen[n] = "-"]
  <2>1. j \in Job /\ j.pc = "refresh" /\ j.net = job[w].net
    BY <1>1, Unchanged DEF Job
  <2>2. Become(w, j)
    BY <1>5
  <2> HIDE DEF j
  <2>3. JobOK(j)
    BY <2>1 DEF JobOK, PortWaits, NetWaits, ReturnWaits, SwitchWaits, VlanWaits
  <2>4. QED
    BY <1>1, <1>3, <2>1, <2>2, <2>3, Unchanged, GoOnInv DEF PortRowLawful
<1>6. QED
  BY <1>2, <1>4, <1>5

(***************************************************************************)
(* The radio, between the requests' own steps.                             *)
(***************************************************************************)
LEMMA DeviceInv ==
  ASSUME IInv, UNCHANGED <<database, requests>>, HardwareOK'
  PROVE  IInv'
<1>1. UNCHANGED <<live, net, used, job, apq>>
  BY DEF database, requests
<1>2. RequestsOK'
  BY <1>1 DEF IInv, RequestsOK, RowsGranted, Granted, JobsOK, JobOK, FreshApart,
              RadioQueueOK
<1>3. QED
  BY <1>2 DEF database, requests, IInv, TypeOK, StateTypeOK, HardwareOK,
              AssignmentIntegrity, KeysKept

LEMMA RadioStepInv ==
  ASSUME IInv,
         \/ \E w \in Workers : RadioChecks(w) \/ RadioPosts(w)
         \/ RadioApplies \/ RadioDrops
  PROVE  IInv'
<1>1. ASSUME NEW w \in Workers, RadioChecks(w)
      PROVE  IInv'
  <2>1. HardwareOK'
    BY <1>1 DEF RadioChecks, database, Stages, IInv, HardwareOK, DocOK
  <2>2. QED
    BY <1>1, <2>1, DeviceInv DEF RadioChecks
<1>2. ASSUME NEW w \in Workers, RadioPosts(w)
      PROVE  IInv'
  <2>1. NextDocument(job[w]) \in Document /\ DocOK(NextDocument(job[w]))
    BY <1>2, NextDocumentOK DEF RadioPosts, AtStage, OnRadio
  <2>2. /\ want' = NextDocument(job[w]) /\ stage' = "apply"
        /\ UNCHANGED <<live, net, sw, ap, known>>
    BY <1>2 DEF RadioPosts, database
  <2>3. HardwareOK'
    BY <2>1, <2>2 DEF Stages, IInv, HardwareOK, DocOK
  <2>4. QED
    BY <1>2, <2>3, DeviceInv DEF RadioPosts
<1>3. CASE RadioApplies
  <2>1. HardwareOK'
    BY <1>3 DEF RadioApplies, database, IInv, HardwareOK, DocOK
  <2>2. QED
    BY <1>3, <2>1, DeviceInv DEF RadioApplies
<1>4. CASE RadioDrops
  <2>1. HardwareOK'
    BY <1>4 DEF RadioDrops, database, IInv, HardwareOK, DocOK
  <2>2. QED
    BY <1>4, <2>1, DeviceInv DEF RadioDrops
<1>5. QED
  BY <1>1, <1>2, <1>3, <1>4

(***************************************************************************)
(* The captive portal.                                                     *)
(***************************************************************************)
LEMMA ConnectStartInv ==
  ASSUME IInv, NEW w \in Workers, NEW number, ConnectStart(w, number)
  PROVE  IInv'
<1>1. PICK n \in live : Become(w, [Idle EXCEPT !.pc = "connect.find", !.net = n])
  BY DEF ConnectStart
<1> DEFINE j == [Idle EXCEPT !.pc = "connect.find", !.net = n]
<1>2. n \in Ids /\ n \in used
  BY Unchanged
<1>3. j \in Job /\ j.pc = "connect.find" /\ j.net = n
  BY <1>2, IdleOK DEF Job, Idle, ReadWaits
<1>4. Served(w) /\ Become(w, j) /\ UNCHANGED <<database, hardware>>
  BY <1>1 DEF ConnectStart, Ready, Served
<1> HIDE DEF j
<1>5. JobOK(j)
  BY <1>3 DEF JobOK, PortWaits, NetWaits, ReturnWaits, SwitchWaits, VlanWaits
<1>6. QED
  BY <1>2, <1>3, <1>4, <1>5, Unchanged, GoOnInv DEF database, PortRowLawful

LEMMA ConnectInv ==
  ASSUME IInv, NEW w \in Workers, ConnectFound(w) \/ ConnectLost(w)
  PROVE  IInv'
<1>1. Served(w) /\ job[w].pc = "connect.find" /\ UNCHANGED <<database, hardware>>
  BY DEF ConnectFound, ConnectLost, Ready, Served
<1>2. CASE Finish(w)
  BY <1>1, <1>2, Unchanged, FinishInv DEF database, PortRowLawful
<1>3. ASSUME NEW p \in Ports, job[w].net \in live,
             Become(w, [job[w] EXCEPT !.pc = "assign.read", !.port = p, !.flag = TRUE])
      PROVE  IInv'
  <2> DEFINE j == [job[w] EXCEPT !.pc = "assign.read", !.port = p, !.flag = TRUE]
  <2>1. j \in Job /\ j.pc = "assign.read" /\ j.net = job[w].net /\ j.port = p
    BY Unchanged DEF Job, ReadWaits
  <2>2. Become(w, j)
    BY <1>3
  <2>3. j.net \in used /\ Granted(j.net)
    BY <1>3, <2>1, Unchanged DEF IInv, RequestsOK, RowsGranted
  <2> HIDE DEF j
  <2>4. JobOK(j)
    BY <2>1, <2>3 DEF JobOK, ReturnWaits
  <2>5. QED
    BY <1>1, <2>1, <2>2, <2>3, <2>4, Unchanged, GoOnInv DEF database, PortRowLawful
<1>4. QED
  BY <1>2, <1>3 DEF ConnectFound, ConnectLost

(***************************************************************************)
(* A crash and the restart.                                                *)
(***************************************************************************)
LEMMA CrashInv ==
  ASSUME IInv, Crash
  PROVE  IInv'
<1>1. \A p \in Ports : CutShort(p) \subseteq PortState
  <2> SUFFICES ASSUME NEW p \in Ports PROVE CutShort(p) \subseteq PortState
    OBVIOUS
  <2>1. sw[p] \in PortState
    BY Unchanged
  <2>2. CASE swq[SwitchOf[p]] # <<>> /\ job[Head(swq[SwitchOf[p]])].port = p
    <3>1. Head(swq[SwitchOf[p]]) \in Workers
      BY <2>2, TopologyAssumption DEF IInv, TypeOK, StateTypeOK
    <3>2. \A o \in {"lost", "late", "torn"} :
            PortsAfter(job[Head(swq[SwitchOf[p]])], o) \subseteq PortState
      BY <2>2, <3>1, PortsAfterType DEF IInv, TypeOK, RequestsOK
    <3>3. QED
      BY <2>2, <3>2 DEF CutShort
  <2>3. CASE ~(swq[SwitchOf[p]] # <<>> /\ job[Head(swq[SwitchOf[p]])].port = p)
    BY <2>1, <2>3 DEF CutShort
  <2>4. QED
    BY <2>2, <2>3
<1>2. sw' \in [Ports -> PortState]
  BY <1>1 DEF Crash
<1>3. HardwareOK'
  <2>1. \A s \in Slots : InitialConfigurations[s] # None =>
          InitialConfigurations[s] \in live /\ net[InitialConfigurations[s]].slot = s
    BY DEF InitialConfigurations
  <2>2. InitialConfigurations \in [Slots -> Ids \cup {None}]
    BY <2>1, Unchanged DEF InitialConfigurations
  <2>3. /\ known' = InitialConfigurations /\ stage' = "status"
        /\ UNCHANGED <<live, net, ap, want>>
    BY DEF Crash
  <2>4. QED
    BY <1>2, <2>1, <2>2, <2>3 DEF IInv, HardwareOK, DocOK, Document, Stages
<1>4. /\ role' = PortRole /\ job' = [w \in Workers |-> Idle]
      /\ swq' = [s \in Switches |-> <<>>] /\ apq' = <<>>
      /\ UNCHANGED <<live, net, status, cred, used, owner>>
      /\ StartupAccepts
  BY DEF Crash
<1>5. role' \in [Ports -> Role] /\ AssignmentIntegrity'
  BY <1>4, RoleAssumption DEF StartupAccepts, IInv, AssignmentIntegrity
<1>6. JobsOK' /\ FreshApart' /\ RadioQueueOK'
  <2>1. Idle.pc = "idle"
    BY DEF Idle
  <2>2. \A w \in Workers : job'[w] = Idle
    BY <1>4
  <2>3. JobsOK'
    BY <2>1, <2>2 DEF JobsOK, JobOK, PortWaits, NetWaits, ReturnWaits, SwitchWaits, VlanWaits
  <2>4. RadioQueueOK'
    BY <1>4, <2>1, <2>2 DEF RadioQueueOK, OnRadio, RadioWaits
  <2>5. FreshApart'
    BY <2>1, <2>2 DEF FreshApart
  <2>6. QED
    BY <2>3, <2>4, <2>5
<1>7. RowsGranted'
  BY <1>4 DEF RowsGranted, Granted, IInv, RequestsOK
<1>8. job' \in [Workers -> Job] /\ swq' \in [Switches -> Seq(Workers)] /\ apq' \in Seq(Workers)
  BY <1>4, IdleOK
<1>9. QED
  BY <1>2, <1>3, <1>4, <1>5, <1>6, <1>7, <1>8
     DEF IInv, TypeOK, StateTypeOK, HardwareOK, RequestsOK, KeysKept

(***************************************************************************)
(* The inductive invariant.                                                *)
(***************************************************************************)
LEMMA InitInv == Init => IInv
<1> SUFFICES ASSUME Init PROVE IInv
  OBVIOUS
<1> USE DEF Init, StateInit
<1>1. sw \in [Ports -> PortState]
  <2>2. [vlan |-> Onboarding, tagged |-> {}, enabled |-> TRUE] \in PortState
    BY DEF PortState, Vlans
  <2>3. \A port \in PortState, r \in Role : RoleConfigured(port, r, {}) \in PortState
    BY DEF RoleConfigured, Access, Trunk, PortState, Vlans
  <2>4. QED
    BY <2>2, <2>3, RoleAssumption
<1>2. StateTypeOK
  <2>1. NoNetwork \in Network
    BY DEF NoNetwork, Network, None
  <2>2. /\ live \subseteq used /\ used \subseteq Ids /\ cred \subseteq Ids
        /\ net \in [Ids -> Network] /\ status \in [Ids -> Statuses]
    BY <2>1 DEF Statuses
  <2>3. /\ role \in [Ports -> Role] /\ owner \in [Ports -> Ids \cup {None}]
        /\ ap \in Document /\ want \in Document /\ known \in Document
        /\ stage \in Stages
    BY RoleAssumption DEF Document, Stages
  <2>4. /\ swq \in [Switches -> Seq(Workers)] /\ apq \in Seq(Workers)
        /\ job \in [Workers -> Job]
    BY IdleOK
  <2>5. QED
    BY <1>1, <2>2, <2>3, <2>4 DEF StateTypeOK
<1>3. Idle.pc = "idle" /\ \A w \in Workers : job[w] = Idle
  BY DEF Idle
<1>4. RequestsOK
  BY <1>3, IdleOK
     DEF RequestsOK, RowsGranted, JobsOK, FreshApart, RadioQueueOK, OnRadio, RadioWaits
<1>5. HardwareOK
  BY <1>2 DEF HardwareOK, StateTypeOK, DocOK
<1>6. QED
  BY <1>2, <1>4, <1>5 DEF IInv, TypeOK, AssignmentIntegrity, KeysKept

LEMMA StutterInv ==
  ASSUME IInv, UNCHANGED vars
  PROVE  IInv'
<1>1. HardwareOK'
  BY DEF vars, database, hardware, radio, IInv, HardwareOK, DocOK
<1>2. QED
  BY <1>1, DeviceInv DEF vars

\* Every kind of request, once sent.
LEMMA RequestInv ==
  ASSUME IInv, NEW w \in Workers, Request(w)
  PROVE  IInv'
<1>1. ASSUME NEW p \in Ports, NEW n \in Ids, NEW b \in BOOLEAN, AssignStart(w, p, n, b)
      PROVE  IInv'
  BY <1>1, AssignStartInv
<1>2. ASSUME NEW p \in Ports, NEW b \in BOOLEAN, ReturnStart(w, p, b)
      PROVE  IInv'
  BY <1>2, ReturnStartInv
<1>3. ASSUME NEW p \in Ports, NEW r \in AskedRoles, RoleStart(w, p, r)
      PROVE  IInv'
  BY <1>3, AskedAssumption, RoleStartInv
<1>4. ASSUME NEW p \in Ports, NEW e \in BOOLEAN, EnableStart(w, p, e)
      PROVE  IInv'
  BY <1>4, EnableStartInv
<1>5. ASSUME NEW p \in Ports, BounceStart(w, p)
      PROVE  IInv'
  BY <1>5, BounceStartInv
<1>6. ASSUME NEW number \in Numbers,
             NEW S \in {Slots} \cup {{s} : s \in Slots}, CreateStart(w, number, S)
      PROVE  IInv'
  BY <1>6, CreateStartInv
<1>7. ASSUME NEW n \in Ids, RemoveStart(w, n)
      PROVE  IInv'
  BY <1>7, RemoveStartInv
<1>8. QED
  BY <1>1, <1>2, <1>3, <1>4, <1>5, <1>6, <1>7, RefreshStartInv, ConnectStartInv
     DEF Request, PortRequest, TeamRequest

\* Every continuation of a request.
LEMMA ProgressInv ==
  ASSUME IInv, NEW w \in Workers, Progress(w)
  PROVE  IInv'
<1>1. CASE ReadSettles(w)
  BY <1>1, AssignCheckInv, ReturnCheckInv, RoleCheckInv, PortReadInv,
     PortUnreadableInv, CreateScanInv, RefreshRowInv, ConnectInv DEF ReadSettles
<1>2. ASSUME NEW o \in Outcomes, WriteSettles(w, o)
      PROVE  IInv'
  <2>1. ReturnVlan(w, o) \/ ReturnEnable(w, o) => IInv'
    BY ReturnWrittenInv DEF ReturnVlan, ReturnEnable, ReturnWaits
  <2>2. QED
    BY <1>2, <2>1, AssignWrittenInv, AssignUndoneInv, ReturnFlushInv, RoleWrittenInv,
       LastWriteInv, CreateTrunkedInv, RemoveTrunkedInv DEF WriteSettles
<1>3. CASE RadioMoves(w)
  BY <1>3, RadioStepInv, CreateConfiguredInv, RemoveClearedInv DEF RadioMoves
<1>4. QED
  BY <1>1, <1>2, <1>3 DEF Progress

LEMMA NextInv == IInv /\ [Next]_vars => IInv'
BY RequestInv, ProgressInv, RadioStepInv, CrashInv, StutterInv DEF Next

\* The inductive invariant holds in every reachable state, whatever the size
\* of the field and the number of requests in flight.
THEOREM Invariance == Spec => []IInv
BY InitInv, NextInv, PTL DEF Spec

\* Every variable keeps its type; no port is ever on a VLAN the settings do
\* not name, and no device queue holds anything but requests.
THEOREM TypeCorrect == Spec => []TypeOK
<1>1. IInv => TypeOK
  BY DEF IInv
<1>2. QED
  BY <1>1, Invariance, PTL

\* PortAssignmentService: only a client port has a team, and the team exists,
\* in every interleaving of assignments, role changes, returns and removals.
THEOREM IntegrityTheorem == Spec => []AssignmentIntegrity
<1>1. IInv => AssignmentIntegrity
  BY DEF IInv
<1>2. QED
  BY <1>1, Invariance, PTL

\* TeamNetworkService: the key of a network is there as long as its row is.
THEOREM KeysTheorem == Spec => []KeysKept
<1>1. IInv => KeysKept
  BY DEF IInv
<1>2. QED
  BY <1>1, Invariance, PTL
=============================================================================
