-------------------------- MODULE FieldTrunkProofs --------------------------
(***************************************************************************)
(* However many creates and removals overlap, over any number of switches, *)
(* the AP trunks come to carry the VLANs of the networks, while nothing    *)
(* takes a list off its way.                                               *)
(***************************************************************************)
EXTENDS FieldSerialProofs

\* No write to a trunk is rejected, no create ends before its trunks, and the
\* server does not crash.  What else fails does not matter.
TrunksServed ==
  /\ ~Crash
  /\ \A w \in Workers :
       /\ CreateConfigured(w) => Trunks = {} \/ job'[w].pc = "create.trunk"
       /\ job[w].port \in Trunks /\ (\E o \in Outcomes : WriteSettles(w, o))
            => WriteSettles(w, "ok")

(***************************************************************************)
(* One queue, when w leaves its head, joins its tail, or does both.        *)
(***************************************************************************)
Holds(q, v) == \E i \in 1 .. Len(q) : q[i] = v

Distinct(q) == \A i, k \in 1 .. Len(q) : q[i] = q[k] => i = k

LEMMA LeaveQueue ==
  ASSUME NEW q \in Seq(Workers), Distinct(q), NEW w \in Workers, Serves(q, w)
  PROVE  /\ Tail(q) \in Seq(Workers) /\ Distinct(Tail(q)) /\ ~Holds(Tail(q), w)
         /\ \A v \in Workers \ {w} : Holds(Tail(q), v) <=> Holds(q, v)
         /\ \A u, v \in Workers \ {w} : Before(q, u, v) => Before(Tail(q), u, v)
         /\ \A v : ~Before(q, v, w)
<1> DEFINE r == Tail(q)
<1>1. /\ q # <<>> /\ q[1] = w /\ Len(q) \in Nat \ {0} /\ Len(r) = Len(q) - 1
      /\ r \in Seq(Workers)
      /\ \A i \in 1 .. Len(r) : i + 1 \in 1 .. Len(q) /\ r[i] = q[i + 1]
  BY HeadTailProperties, LenProperties, EmptySeq DEF Serves
<1>2. \A k \in 1 .. Len(q) : q[k] # w => k - 1 \in 1 .. Len(r) /\ r[k - 1] = q[k]
  BY <1>1
<1> HIDE DEF r
<1>3. Distinct(r)
  BY <1>1 DEF Distinct
<1>4. ~Holds(r, w)
  BY <1>1 DEF Holds, Distinct
<1>5. \A v \in Workers \ {w} : Holds(r, v) <=> Holds(q, v)
  BY <1>1, <1>2 DEF Holds
<1>6. ASSUME NEW u \in Workers \ {w}, NEW v \in Workers \ {w}, Before(q, u, v)
      PROVE  Before(r, u, v)
  <2>1. PICK i \in 1 .. Len(q), k \in 1 .. Len(q) : i < k /\ q[i] = u /\ q[k] = v
    BY <1>6 DEF Before
  <2>2. /\ i - 1 \in 1 .. Len(r) /\ r[i - 1] = u
        /\ k - 1 \in 1 .. Len(r) /\ r[k - 1] = v
        /\ i - 1 < k - 1
    BY <1>2, <2>1
  <2>3. QED
    BY <2>2 DEF Before
<1>7. \A v : ~Before(q, v, w)
  BY <1>1 DEF Before, Distinct
<1>8. QED
  BY <1>1, <1>3, <1>4, <1>5, <1>6, <1>7 DEF r

LEMMA JoinQueue ==
  ASSUME NEW q \in Seq(Workers), Distinct(q), NEW w \in Workers, ~Holds(q, w)
  PROVE  /\ Append(q, w) \in Seq(Workers) /\ Distinct(Append(q, w))
         /\ Holds(Append(q, w), w)
         /\ \A v \in Workers \ {w} : Holds(Append(q, w), v) <=> Holds(q, v)
         /\ \A u, v : Before(q, u, v) => Before(Append(q, w), u, v)
         /\ \A v : Holds(q, v) => Before(Append(q, w), v, w)
<1> DEFINE t == Append(q, w)
<1>1. /\ t \in Seq(Workers) /\ Len(q) \in Nat /\ Len(t) = Len(q) + 1
      /\ t[Len(q) + 1] = w
      /\ \A i \in 1 .. Len(q) : i \in 1 .. Len(t) /\ t[i] = q[i]
  BY AppendProperties, LenProperties
<1>2. \A i \in 1 .. Len(t) : i \in 1 .. Len(q) \/ i = Len(q) + 1
  BY <1>1
<1>3. Len(q) + 1 \in 1 .. Len(t)
  BY <1>1
<1> HIDE DEF t
<1>4. Distinct(t)
  BY <1>1, <1>2 DEF Distinct, Holds
<1>5. Holds(t, w)
  BY <1>1, <1>3 DEF Holds
<1>6. \A v \in Workers \ {w} : Holds(t, v) <=> Holds(q, v)
  BY <1>1, <1>2 DEF Holds
<1>7. \A u, v : Before(q, u, v) => Before(t, u, v)
  BY <1>1 DEF Before
<1>8. ASSUME NEW v, Holds(q, v)
      PROVE  Before(t, v, w)
  <2>1. PICK i \in 1 .. Len(q) : q[i] = v
    BY <1>8 DEF Holds
  <2>2. i < Len(q) + 1 /\ i \in 1 .. Len(t) /\ t[i] = v
    BY <1>1, <2>1
  <2>3. QED
    BY <1>1, <1>3, <2>2 DEF Before
<1>9. QED
  BY <1>1, <1>4, <1>5, <1>6, <1>7, <1>8 DEF t

(***************************************************************************)
(* All queues, when w goes on.                                             *)
(***************************************************************************)
\* Whoever waited keeps its place, and w, if it waits again, is the last.
QueuesKept(w) ==
  /\ \A v \in Workers \ {w} : job'[v] = job[v]
  /\ \A s \in Switches : \A u, v \in Workers \ {w} :
       Before(swq[s], u, v) => Before(swq'[s], u, v)
  /\ OnSwitch(job[w]) => \A v : ~Before(swq[SwitchOf[job[w].port]], v, w)
  /\ OnSwitch(job'[w]) =>
       \A v \in Workers \ {w} :
         OnSwitch(job[v]) /\ SwitchOf[job[v].port] = SwitchOf[job'[w].port]
           => Before(swq'[SwitchOf[job'[w].port]], v, w)

LEMMA PortOfWait ==
  ASSUME IInv, NEW w \in Workers, OnSwitch(job[w])
  PROVE  job[w].port \in Ports /\ SwitchOf[job[w].port] \in Switches
BY TopologyAssumption DEF IInv, RequestsOK, JobsOK, JobOK, OnSwitch, PortWaits

LEMMA QueuesStep ==
  ASSUME IInv, IInv', SwitchQueueOK, NEW w \in Workers, Served(w), Become(w, job'[w])
  PROVE  SwitchQueueOK' /\ QueuesKept(w)
<1> DEFINE leaves(s) == OnSwitch(job[w]) /\ SwitchOf[job[w].port] = s
           joins(s) == OnSwitch(job'[w]) /\ SwitchOf[job'[w].port] = s
           r(s) == Dequeued(s, w)
<1>1. /\ \A v \in Workers \ {w} : job'[v] = job[v]
      /\ \A s \in Switches :
           /\ swq[s] \in Seq(Workers)
           /\ r(s) = IF leaves(s) THEN Tail(swq[s]) ELSE swq[s]
           /\ swq'[s] = IF joins(s) THEN Append(r(s), w) ELSE r(s)
           /\ leaves(s) => Serves(swq[s], w)
  BY DEF Become, Dequeued, Served, IInv, TypeOK, StateTypeOK
<1>2. \A s \in Switches :
        /\ Distinct(swq[s])
        /\ \A v \in Workers :
             Holds(swq[s], v) <=> OnSwitch(job[v]) /\ SwitchOf[job[v].port] = s
  BY DEF SwitchQueueOK, Distinct, Holds
<1>3. ASSUME NEW s \in Switches
      PROVE  /\ r(s) \in Seq(Workers) /\ Distinct(r(s)) /\ ~Holds(r(s), w)
             /\ \A v \in Workers \ {w} : Holds(r(s), v) <=> Holds(swq[s], v)
             /\ \A u, v \in Workers \ {w} : Before(swq[s], u, v) => Before(r(s), u, v)
             /\ leaves(s) => \A v : ~Before(swq[s], v, w)
  <2>1. CASE leaves(s)
    <3>1. PICK q : q = swq[s] /\ q \in Seq(Workers) /\ Distinct(q) /\ Serves(q, w)
      BY <1>1, <1>2, <2>1
    <3>2. r(s) = Tail(q)
      BY <1>1, <2>1, <3>1
    <3> HIDE DEF r
    <3>3. QED
      BY <3>1, <3>2, LeaveQueue
  <2>2. CASE ~leaves(s)
    <3>1. r(s) = swq[s] /\ swq[s] \in Seq(Workers)
      BY <1>1, <2>2
    <3> HIDE DEF r
    <3>2. QED
      BY <1>2, <2>2, <3>1
  <2>3. QED
    BY <2>1, <2>2
<1>4. ASSUME NEW s \in Switches
      PROVE  /\ Distinct(swq'[s])
             /\ Holds(swq'[s], w) <=> joins(s)
             /\ \A v \in Workers \ {w} : Holds(swq'[s], v) <=> Holds(swq[s], v)
             /\ \A u, v \in Workers \ {w} : Before(swq[s], u, v) => Before(swq'[s], u, v)
             /\ joins(s) => \A v \in Workers \ {w} :
                              Holds(swq[s], v) => Before(swq'[s], v, w)
  <2> HIDE DEF r, joins
  <2>1. CASE joins(s)
    BY <1>1, <1>3, <2>1, JoinQueue
  <2>2. CASE ~joins(s)
    BY <1>1, <1>3, <2>2
  <2>3. QED
    BY <2>1, <2>2
<1>5. \A s \in Switches : \A v \in Workers :
        Holds(swq'[s], v) <=> OnSwitch(job'[v]) /\ SwitchOf[job'[v].port] = s
  BY <1>1, <1>2, <1>4
<1>6. SwitchQueueOK'
  <2>1. ASSUME NEW s \in Switches, NEW v \in Workers
        PROVE  (\E i \in 1 .. Len(swq'[s]) : swq'[s][i] = v)
                 <=> OnSwitch(job[v])' /\ SwitchOf[job'[v].port] = s
    BY <1>5 DEF Holds, OnSwitch
  <2>2. ASSUME NEW s \in Switches
        PROVE  \A i, k \in 1 .. Len(swq'[s]) : swq'[s][i] = swq'[s][k] => i = k
    BY <1>4 DEF Distinct
  <2>3. QED
    BY <2>1, <2>2 DEF SwitchQueueOK
<1>7. OnSwitch(job[w]) => \A v : ~Before(swq[SwitchOf[job[w].port]], v, w)
  BY <1>3, PortOfWait
<1>8. OnSwitch(job'[w]) =>
        \A v \in Workers \ {w} :
          OnSwitch(job[v]) /\ SwitchOf[job[v].port] = SwitchOf[job'[w].port]
            => Before(swq'[SwitchOf[job'[w].port]], v, w)
  <2> SUFFICES ASSUME OnSwitch(job'[w]), NEW v \in Workers \ {w}, OnSwitch(job[v]),
                      SwitchOf[job[v].port] = SwitchOf[job'[w].port]
               PROVE  Before(swq'[SwitchOf[job'[w].port]], v, w)
    OBVIOUS
  <2>1. PICK s \in Switches : s = SwitchOf[job[v].port]
    BY PortOfWait
  <2>2. joins(s) /\ Holds(swq[s], v)
    BY <1>2, <2>1
  <2>3. QED
    BY <1>4, <2>1, <2>2
<1>9. QED
  BY <1>1, <1>4, <1>6, <1>7, <1>8 DEF QueuesKept

(***************************************************************************)
(* The order of the syncs.                                                 *)
(***************************************************************************)
LEMMA SyncWaits ==
  ASSUME NEW j, Syncs(j)
  PROVE  OnSwitch(j)
BY DEF Syncs, OnSwitch, SwitchWaits, VlanWaits

LEMMA BehindKept ==
  ASSUME IInv, NEW w \in Workers, QueuesKept(w),
         NEW u \in Workers \ {w}, NEW v \in Workers \ {w}, Syncs(job[v]), Behind(u, v)
  PROVE  Behind(u, v)'
<1>1. job'[u] = job[u] /\ job'[v] = job[v]
  BY DEF QueuesKept
<1>2. SwitchOf[job[v].port] \in Switches
  BY PortOfWait, SyncWaits
<1>3. Before(swq[SwitchOf[job[v].port]], v, u) => Before(swq'[SwitchOf[job[v].port]], v, u)
  BY <1>2 DEF QueuesKept
<1>4. QED
  BY <1>1, <1>3 DEF Behind, Syncs

\* A sync that has joined the queue of a trunk is behind those it finds there,
\* and behind those that are further.
LEMMA JoinsBehind ==
  ASSUME NEW w \in Workers, QueuesKept(w), Syncs(job'[w]),
         NEW v \in Workers \ {w}, Syncs(job[v]),
         job'[w].port < job[v].port \/ job'[w].port = job[v].port
  PROVE  Behind(w, v)'
<1>1. job'[v] = job[v] /\ OnSwitch(job'[w]) /\ OnSwitch(job[v])
  BY SyncWaits DEF QueuesKept
<1>2. CASE job'[w].port < job[v].port
  BY <1>1, <1>2 DEF Behind, Syncs
<1>3. CASE job'[w].port = job[v].port
  <2>1. Before(swq'[SwitchOf[job[v].port]], v, w)
    BY <1>1, <1>3 DEF QueuesKept
  <2>2. QED
    BY <1>1, <1>3, <2>1 DEF Behind, Syncs
<1>4. QED
  BY <1>2, <1>3

(***************************************************************************)
(* The lists, when w does not sync, begins to, goes on, or ends.           *)
(***************************************************************************)
ListsRight == LastListRight /\ VisitedRight

\* Where a request waits that may make a client port of its port.
ClientWaits == {"assign.vlan", "assign.undo", "return.vlan", "return.enable",
                "return.flush"}

TrunkVlansKept ==
  /\ Trunks' = Trunks
  /\ \A p \in Trunks : sw'[p].vlan = sw[p].vlan /\ sw'[p].tagged = sw[p].tagged

LEMMA OthersAhead ==
  ASSUME NEW w \in Workers, QueuesKept(w), job[w].pc # "create.config", ~RowAhead'
  PROVE  ~RowAhead
BY DEF RowAhead, QueuesKept

LEMMA NoSync ==
  ASSUME IInv, ListsRight, NEW w \in Workers, QueuesKept(w),
         ~Syncs(job[w]), ~Syncs(job'[w]), TrunkVlansKept,
         \/ job'[w].pc = "create.config"
         \/ job[w].pc # "create.config" /\ UNCHANGED <<live, net>>
  PROVE  ListsRight'
<1>1. CASE RowAhead'
  BY <1>1 DEF ListsRight, LastListRight, VisitedRight
<1>2. CASE ~RowAhead'
  <2>1. ~RowAhead /\ AllocatedVlans(live)' = AllocatedVlans(live)
    BY <1>2, OthersAhead DEF RowAhead, AllocatedVlans
  <2>2. \A v \in Workers \ {w} : job'[v] = job[v]
    BY DEF QueuesKept
  <2>3. ASSUME NEW v \in Workers, Syncs(job'[v])
        PROVE  \/ \E u \in Workers : Behind(u, v)'
               \/ job'[v].vlans = AllocatedVlans(live)'
    <3>1. v # w /\ Syncs(job[v])
      BY <2>2, <2>3
    <3>2. CASE \E u \in Workers : Behind(u, v)
      <4>1. PICK u \in Workers : Behind(u, v)
        BY <3>2
      <4>2. u # w
        BY <4>1 DEF Behind
      <4>3. QED
        BY <3>1, <4>1, <4>2, BehindKept
    <3>3. CASE ~\E u \in Workers : Behind(u, v)
      BY <2>1, <2>2, <3>1, <3>3 DEF ListsRight, LastListRight
    <3>4. QED
      BY <3>2, <3>3
  <2>4. ASSUME NEW p \in Trunks
        PROVE  \/ \E v \in Workers : Syncs(job'[v]) /\ job'[v].port <= p
               \/ sw'[p].vlan = Management /\ sw'[p].tagged = AllocatedVlans(live)'
    <3>1. CASE \E v \in Workers : Syncs(job[v]) /\ job[v].port <= p
      BY <2>2, <3>1
    <3>2. CASE ~\E v \in Workers : Syncs(job[v]) /\ job[v].port <= p
      BY <2>1, <3>2 DEF ListsRight, VisitedRight, TrunkVlansKept
    <3>3. QED
      BY <3>1, <3>2
  <2>5. LastListRight'
    BY <2>3 DEF LastListRight, Syncs
  <2>6. VisitedRight'
    BY <2>4 DEF VisitedRight, TrunkVlansKept, Syncs
  <2>7. QED
    BY <2>5, <2>6 DEF ListsRight
<1>3. QED
  BY <1>1, <1>2

LEMMA SyncBegins ==
  ASSUME SyncsOnTrunks, NEW w \in Workers, QueuesKept(w), ~Syncs(job[w]),
         Syncs(job'[w]), job'[w].port \in Trunks,
         \A p \in Trunks : job'[w].port <= p,
         job'[w].vlans = AllocatedVlans(live)', Trunks' = Trunks
  PROVE  ListsRight'
<1>1. \A p \in Trunks : p \in Nat
  BY TopologyAssumption DEF Trunks
<1>2. ASSUME NEW v \in Workers \ {w}, Syncs(job'[v])
      PROVE  Behind(w, v)'
  <2>1. job'[v] = job[v] /\ job[v].port \in Trunks
    BY <1>2 DEF QueuesKept, SyncsOnTrunks, OnTrunks
  <2>2. job'[w].port < job[v].port \/ job'[w].port = job[v].port
    BY <1>1, <2>1
  <2>3. QED
    BY <1>2, <2>1, <2>2, JoinsBehind
<1>3. LastListRight'
  BY <1>2 DEF LastListRight, Syncs
<1>4. VisitedRight'
  BY DEF VisitedRight, Syncs
<1>5. QED
  BY <1>3, <1>4 DEF ListsRight

\* What a sync has written is right, when no other comes after it.
Visits(w) ==
  /\ Syncs(job[w])
  /\ sw'[job[w].port].vlan = Management /\ sw'[job[w].port].tagged = job[w].vlans
  /\ \A p \in Trunks \ {job[w].port} : sw'[p] = sw[p]
  /\ Trunks' = Trunks /\ UNCHANGED <<live, net>>

LEMMA VisitRight ==
  ASSUME SyncsOnTrunks, ListsRight, NEW w \in Workers, QueuesKept(w), Visits(w),
         \A p \in Trunks : (Syncs(job'[w]) /\ job'[w].port <= p) \/ p <= job[w].port
  PROVE  VisitedRight'
<1>1. \A p \in Trunks : p \in Nat
  BY TopologyAssumption DEF Trunks
<1>2. /\ \A v \in Workers \ {w} : job'[v] = job[v]
      /\ AllocatedVlans(live)' = AllocatedVlans(live)
      /\ job[w].port \in Trunks /\ job[w].pc # "create.config"
  BY DEF QueuesKept, AllocatedVlans, Visits, SyncsOnTrunks, OnTrunks, Syncs
<1>3. ASSUME NEW p \in Trunks, ~RowAhead',
             ~\E v \in Workers : Syncs(job'[v]) /\ job'[v].port <= p
      PROVE  sw'[p].vlan = Management /\ sw'[p].tagged = AllocatedVlans(live)'
  <2>1. ~RowAhead /\ p <= job[w].port
    BY <1>2, <1>3, OthersAhead
  <2>2. \A v \in Workers \ {w} : ~(Syncs(job[v]) /\ job[v].port <= p)
    BY <1>2, <1>3
  <2>3. CASE p = job[w].port
    <3>1. \A v \in Workers \ {w} : ~Behind(v, w)
      <4> SUFFICES ASSUME NEW v \in Workers \ {w}, Behind(v, w)
                   PROVE  FALSE
        OBVIOUS
      <4>1. Syncs(job[v]) /\ job[v].port \in Trunks
        BY DEF Behind, SyncsOnTrunks, OnTrunks
      <4>2. job[v].port <= p
        BY <1>1, <2>3, <4>1 DEF Behind
      <4>3. QED
        BY <2>2, <4>1, <4>2
    <3>2. ~Behind(w, w)
      BY <1>1, <1>2, SyncWaits DEF Behind, QueuesKept, Visits
    <3>3. job[w].vlans = AllocatedVlans(live)
      BY <2>1, <3>1, <3>2 DEF ListsRight, LastListRight, Visits
    <3>4. QED
      BY <1>2, <2>3, <3>3 DEF Visits
  <2>4. CASE p # job[w].port
    <3>1. ~(job[w].port <= p)
      BY <1>1, <1>2, <2>1, <2>4
    <3>2. sw[p].vlan = Management /\ sw[p].tagged = AllocatedVlans(live)
      BY <2>1, <2>2, <3>1 DEF ListsRight, VisitedRight
    <3>3. QED
      BY <1>2, <2>4, <3>2 DEF Visits
  <2>5. QED
    BY <2>3, <2>4
<1>4. QED
  BY <1>3 DEF VisitedRight, Visits, Syncs

LEMMA SyncGoesOn ==
  ASSUME IInv, SyncsOnTrunks, ListsRight, NEW w \in Workers, QueuesKept(w), Visits(w),
         Syncs(job'[w]), job'[w].vlans = job[w].vlans, job'[w].port \in job[w].todo,
         \A p \in job[w].todo : job'[w].port <= p
  PROVE  ListsRight'
<1>1. \A p \in Trunks : p \in Nat
  BY TopologyAssumption DEF Trunks
<1>2. /\ \A v \in Workers \ {w} : job'[v] = job[v]
      /\ AllocatedVlans(live)' = AllocatedVlans(live)
      /\ job[w].port \in Trunks /\ job[w].pc # "create.config"
      /\ job[w].todo = {p \in Trunks : p > job[w].port}
  BY DEF QueuesKept, AllocatedVlans, Visits, SyncsOnTrunks, OnTrunks, Syncs
<1>3. job'[w].port \in Trunks /\ job[w].port < job'[w].port
  BY <1>1, <1>2
<1>4. \A p \in Trunks : job'[w].port <= p \/ p <= job[w].port
  BY <1>1, <1>2
<1>5. VisitedRight'
  BY <1>4, VisitRight
<1>6. ASSUME NEW v \in Workers, Syncs(job'[v]), ~RowAhead',
             ~\E u \in Workers : Behind(u, v)'
      PROVE  job'[v].vlans = AllocatedVlans(live)'
  <2>1. ~RowAhead
    BY <1>2, <1>6, OthersAhead
  <2>2. CASE v = w
    <3>1. ASSUME NEW u \in Workers, Behind(u, w)
          PROVE  Behind(u, w)'
      <4>1. u # w
        BY <1>1, <1>2, <3>1, SyncWaits DEF Behind, QueuesKept, Visits
      <4>2. job'[u] = job[u] /\ Syncs(job[u]) /\ job[u].port \in Trunks
        BY <1>2, <3>1, <4>1 DEF Behind, SyncsOnTrunks, OnTrunks
      <4>3. job[u].port < job'[w].port
        BY <1>1, <1>2, <1>3, <3>1, <4>2 DEF Behind
      <4>4. QED
        BY <4>2, <4>3 DEF Behind, Syncs
    <3>2. job[w].vlans = AllocatedVlans(live)
      BY <1>6, <2>1, <2>2, <3>1 DEF ListsRight, LastListRight, Visits
    <3>3. QED
      BY <1>2, <2>2, <3>2
  <2>3. CASE v # w
    <3>1. job'[v] = job[v] /\ Syncs(job[v]) /\ job[v].port \in Trunks
      BY <1>2, <1>6, <2>3 DEF SyncsOnTrunks, OnTrunks
    <3>2. ASSUME NEW u \in Workers
          PROVE  ~Behind(u, v)
      <4>1. CASE u # w
        BY <1>6, <2>3, <3>1, <4>1, BehindKept
      <4>2. CASE u = w
        <5>1. ~Before(swq[SwitchOf[job[v].port]], v, w) \/ job[w].port # job[v].port
          BY SyncWaits DEF QueuesKept, Visits
        <5>2. SUFFICES ASSUME job[w].port < job[v].port
                       PROVE  FALSE
          BY <4>2, <5>1 DEF Behind
        <5>3. job'[w].port <= job[v].port
          BY <1>1, <1>2, <3>1, <5>2
        <5>4. job'[w].port < job[v].port \/ job'[w].port = job[v].port
          BY <1>1, <1>3, <3>1, <5>3
        <5>5. Behind(w, v)'
          BY <2>3, <3>1, <5>4, JoinsBehind
        <5>6. QED
          BY <1>6, <5>5
      <4>3. QED
        BY <4>1, <4>2
    <3>3. QED
      BY <1>2, <2>1, <3>1, <3>2 DEF ListsRight, LastListRight
  <2>4. QED
    BY <2>2, <2>3
<1>7. LastListRight'
  BY <1>6 DEF LastListRight, Syncs
<1>8. QED
  BY <1>5, <1>7 DEF ListsRight

LEMMA SyncEnds ==
  ASSUME IInv, SyncsOnTrunks, ListsRight, NEW w \in Workers, QueuesKept(w), Visits(w),
         ~Syncs(job'[w]), job[w].todo = {}
  PROVE  ListsRight'
<1>1. \A p \in Trunks : p \in Nat
  BY TopologyAssumption DEF Trunks
<1>2. /\ \A v \in Workers \ {w} : job'[v] = job[v]
      /\ AllocatedVlans(live)' = AllocatedVlans(live)
      /\ job[w].port \in Trunks /\ job[w].pc # "create.config"
  BY DEF QueuesKept, AllocatedVlans, Visits, SyncsOnTrunks, OnTrunks, Syncs
<1>3. \A p \in Trunks : p <= job[w].port
  <2>1. {p \in Trunks : p > job[w].port} = {}
    BY DEF Visits, SyncsOnTrunks, OnTrunks
  <2>2. QED
    BY <1>1, <1>2, <2>1
<1>4. VisitedRight'
  BY <1>3, VisitRight
<1>5. ASSUME NEW v \in Workers, Syncs(job'[v]), ~RowAhead',
             ~\E u \in Workers : Behind(u, v)'
      PROVE  job'[v].vlans = AllocatedVlans(live)'
  <2>1. v # w /\ ~RowAhead
    BY <1>2, <1>5, OthersAhead
  <2>2. job'[v] = job[v] /\ Syncs(job[v]) /\ job[v].port \in Trunks
    BY <1>2, <1>5, <2>1 DEF SyncsOnTrunks, OnTrunks
  <2>3. ASSUME NEW u \in Workers
        PROVE  ~Behind(u, v)
    <3>1. CASE u # w
      BY <1>5, <2>1, <2>2, <3>1, BehindKept
    <3>2. CASE u = w
      <4>1. ~Before(swq[SwitchOf[job[v].port]], v, w) \/ job[w].port # job[v].port
        BY SyncWaits DEF QueuesKept, Visits
      <4>2. ~(job[w].port < job[v].port)
        BY <1>1, <1>2, <1>3, <2>2
      <4>3. QED
        BY <3>2, <4>1, <4>2 DEF Behind
    <3>3. QED
      BY <3>1, <3>2
  <2>4. QED
    BY <1>2, <2>1, <2>2, <2>3 DEF ListsRight, LastListRight
<1>6. LastListRight'
  BY <1>5 DEF LastListRight, Syncs
<1>7. QED
  BY <1>4, <1>6 DEF ListsRight

(***************************************************************************)
(* The steps.                                                              *)
(***************************************************************************)
LEMMA StepBecomes ==
  ASSUME IInv, NEW w \in Workers, Request(w) \/ Progress(w)
  PROVE  \/ RadioChecks(w) \/ RadioPosts(w)
         \/ Served(w) /\ Become(w, job'[w])
<1>1. ASSUME NEW j, Become(w, j)
      PROVE  Become(w, job'[w])
  BY <1>1, OnlyJob
<1>2. ASSUME Finish(w)
      PROVE  Become(w, job'[w])
  BY <1>1, <1>2 DEF Finish
<1>3. ASSUME NEW j, NextPort(w, j)
      PROVE  Become(w, job'[w])
  BY <1>1, <1>3 DEF NextPort
<1>4. ASSUME NextTrunk(w) \/ \E pc, L : BeginSync(w, pc, L)
      PROVE  Become(w, job'[w])
  BY <1>1, <1>4 DEF NextTrunk, BeginSync
<1>5. CASE Request(w)
  <2>1. Become(w, job'[w])
    BY <1>1, <1>3, <1>5
       DEF Request, PortRequest, TeamRequest, AssignStart, ReturnStart, RoleStart,
           EnableStart, BounceStart, CreateStart, RemoveStart, RefreshStart, ConnectStart
  <2>2. Served(w)
    BY <1>5
       DEF Request, PortRequest, TeamRequest, AssignStart, ReturnStart, RoleStart,
           EnableStart, BounceStart, CreateStart, RemoveStart, RefreshStart, ConnectStart,
           Ready, Served
  <2>3. QED
    BY <2>1, <2>2
<1>6. CASE ReadSettles(w)
  <2>1. Become(w, job'[w])
    BY <1>1, <1>2, <1>6
       DEF ReadSettles, AssignCheck, ReturnCheck, RoleCheck, PortRead, PortUnreadable,
           CreateScan, RefreshRow, ConnectFound, ConnectLost, Abort
  <2>2. Served(w)
    BY <1>6
       DEF ReadSettles, AssignCheck, ReturnCheck, RoleCheck, PortRead, PortUnreadable,
           CreateScan, RefreshRow, ConnectFound, ConnectLost, Ready, Served
  <2>3. QED
    BY <2>1, <2>2
<1>7. CASE CreateConfigured(w) \/ RemoveCleared(w)
  <2>1. Become(w, job'[w])
    BY <1>2, <1>4, <1>7 DEF CreateConfigured, RemoveCleared, CreateEnd, RemoveEnd, Abort
  <2>2. Served(w)
    BY <1>7 DEF CreateConfigured, RemoveCleared, Ready, Served
  <2>3. QED
    BY <2>1, <2>2
<1>8. ASSUME NEW o \in Outcomes, WriteSettles(w, o)
      PROVE  Served(w) /\ Become(w, job'[w])
  <2>1. Become(w, job'[w])
    BY <1>1, <1>2, <1>3, <1>4, <1>8
       DEF WriteSettles, AssignWritten, AssignUndone, ReturnVlan, ReturnEnable,
           ReturnWritten, ReturnFlush, RoleWritten, LastWrite, CreateTrunked,
           RemoveTrunked, CreateEnd, RemoveEnd, Abort
  <2>2. Served(w)
    BY <1>8
       DEF WriteSettles, AssignWritten, AssignUndone, ReturnVlan, ReturnEnable,
           ReturnWritten, ReturnFlush, RoleWritten, LastWrite, CreateTrunked,
           RemoveTrunked, Ready, Served
  <2>3. QED
    BY <2>1, <2>2
<1>9. QED
  BY <1>5, <1>6, <1>7, <1>8 DEF Progress, RadioMoves

\* Nothing the trunks rely on changes.
LEMMA TrunkSteady ==
  ASSUME TrunkInv, UNCHANGED <<job, swq, live, net, role, sw>>
  PROVE  TrunkInv'
BY DEF TrunkInv, SwitchQueueOK, SyncsOnTrunks, OnTrunks, LastListRight, VisitedRight,
       RowAhead, Behind, Before, Syncs, OnSwitch, Trunks, AllocatedVlans

\* The roles after a step that makes no trunk of a port and takes none away.
LEMMA OnTrunksStep ==
  ASSUME SyncsOnTrunks, NEW w \in Workers, QueuesKept(w), Trunks' = Trunks,
         OnTrunks(job[w])'
  PROVE  SyncsOnTrunks'
<1>1. \A p \in Ports : role'[p] = "ap-trunk" <=> role[p] = "ap-trunk"
  BY DEF Trunks
<1>2. \A v \in Workers \ {w} : OnTrunks(job[v])'
  BY DEF OnTrunks, SyncsOnTrunks, QueuesKept, Syncs
<1>3. QED
  BY <1>1, <1>2 DEF SyncsOnTrunks

LEMMA TrunkStep ==
  ASSUME IInv, IInv', TrunkInv, NEW w \in Workers, Served(w), Become(w, job'[w]),
         Trunks' = Trunks, OnTrunks(job[w])',
         QueuesKept(w) => ListsRight' \/ Trunks = {}
  PROVE  TrunkInv'
<1>1. SwitchQueueOK' /\ QueuesKept(w)
  BY QueuesStep DEF TrunkInv
<1>2. SyncsOnTrunks'
  BY <1>1, OnTrunksStep DEF TrunkInv
<1>3. ASSUME Trunks = {}
      PROVE  ListsRight'
  BY <1>2, <1>3
     DEF ListsRight, LastListRight, VisitedRight, SyncsOnTrunks, OnTrunks, Syncs
<1>4. ListsRight'
  BY <1>1, <1>3
<1>5. QED
  BY <1>1, <1>2, <1>4 DEF TrunkInv, ListsRight

\* A step of a request that neither comes from a sync nor begins one.
LEMMA OtherStep ==
  ASSUME IInv, IInv', TrunkInv, NEW w \in Workers, Served(w), Become(w, job'[w]),
         ~Syncs(job[w]), ~Syncs(job'[w]), TrunkVlansKept,
         \/ job'[w].pc = "create.config"
         \/ job[w].pc # "create.config" /\ UNCHANGED <<live, net>>,
         job'[w].role # "ap-trunk",
         job'[w].pc \in ClientWaits => job'[w].port \notin Trunks
  PROVE  TrunkInv'
<1>1. Trunks' = Trunks
  BY DEF TrunkVlansKept
<1>2. OnTrunks(job[w])'
  BY <1>1 DEF OnTrunks, Syncs, ClientWaits
<1>3. ASSUME QueuesKept(w)
      PROVE  ListsRight'
  BY <1>3, NoSync DEF TrunkInv, ListsRight
<1>4. QED
  BY <1>1, <1>2, <1>3, TrunkStep

LEMMA RoleAsked ==
  ASSUME IInv, SyncsOnTrunks, NoTrunkAsked, NEW w \in Workers, Request(w) \/ Progress(w)
  PROVE  job'[w].role # "ap-trunk"
<1>1. job[w].role # "ap-trunk"
  BY DEF SyncsOnTrunks, OnTrunks
<1>2. QED
  BY <1>1, RequestJob, ProgressJob DEF NoTrunkAsked, StartsAs, GoesOnAs

LEMMA NextPortWaits ==
  ASSUME IInv, NEW w \in Workers, NEW j \in Job, NextPort(w, j)
  PROVE  job'[w].pc \in {"remove.clear", "return.read"}
<1>1. \E k : Become(w, k) /\ k.pc \in {"remove.clear", "return.read"}
  <2>1. [j EXCEPT !.pc = "remove.clear", !.port = None].pc = "remove.clear"
    BY DEF Job
  <2>2. \A p : [j EXCEPT !.pc = "return.read", !.port = p, !.todo = @ \ {p}].pc = "return.read"
    BY DEF Job
  <2>3. QED
    BY <2>1, <2>2 DEF NextPort
<1>2. QED
  BY <1>1, OnlyJob

\* Where a request that has just been sent waits.
StartWaits == ReadWaits \cup {"remove.clear"}

LEMMA RequestWaits ==
  ASSUME IInv, NEW w \in Workers, Request(w)
  PROVE  /\ job[w].pc = "idle" /\ UNCHANGED <<database, hardware>>
         /\ job'[w].pc \in StartWaits
<1>1. job \in [Workers -> Job]
  BY Unchanged
<1>2. /\ job[w].pc = "idle" /\ UNCHANGED <<database, hardware>>
  BY DEF Request, PortRequest, TeamRequest, AssignStart, ReturnStart, RoleStart,
         EnableStart, BounceStart, CreateStart, RemoveStart, RefreshStart, ConnectStart,
         Ready
<1>3. ASSUME \/ \E p, n, b : AssignStart(w, p, n, b)
             \/ \E p, b : ReturnStart(w, p, b)
             \/ \E p, r : RoleStart(w, p, r)
             \/ \E p, e : EnableStart(w, p, e)
             \/ \E p : BounceStart(w, p)
             \/ \E number, S : CreateStart(w, number, S)
             \/ \E number : ConnectStart(w, number)
             \/ RefreshStart(w)
      PROVE  job'[w].pc \in ReadWaits
  <2>1. ASSUME NEW p, NEW n, NEW b, AssignStart(w, p, n, b)
        PROVE  job'[w].pc = "assign.read"
    BY <1>1, <2>1 DEF AssignStart, Become, Idle
  <2>2. ASSUME NEW p, NEW b, ReturnStart(w, p, b)
        PROVE  job'[w].pc = "return.read"
    BY <1>1, <2>2 DEF ReturnStart, Become, Idle
  <2>3. ASSUME NEW p, NEW r, RoleStart(w, p, r)
        PROVE  job'[w].pc = "role.read"
    BY <1>1, <2>3 DEF RoleStart, Become, Idle
  <2>4. ASSUME NEW p, NEW e, EnableStart(w, p, e)
        PROVE  job'[w].pc = "enable.read"
    BY <1>1, <2>4 DEF EnableStart, Become, Idle
  <2>5. ASSUME NEW p, BounceStart(w, p)
        PROVE  job'[w].pc = "bounce.read"
    BY <1>1, <2>5 DEF BounceStart, Become, Idle
  <2>6. ASSUME NEW number, NEW S, CreateStart(w, number, S)
        PROVE  job'[w].pc = "create.scan"
    BY <1>1, <2>6 DEF CreateStart, Become, Idle
  <2>7. ASSUME NEW number, ConnectStart(w, number)
        PROVE  job'[w].pc = "connect.find"
    BY <1>1, <2>7 DEF ConnectStart, Become, Idle
  <2>8. ASSUME RefreshStart(w)
        PROVE  job'[w].pc = "refresh"
    BY <1>1, <2>8 DEF RefreshStart, Become, Idle
  <2>9. QED
    BY <1>3, <2>1, <2>2, <2>3, <2>4, <2>5, <2>6, <2>7, <2>8 DEF ReadWaits
<1>4. ASSUME NEW n \in Ids, RemoveStart(w, n)
      PROVE  job'[w].pc \in StartWaits
  <2> DEFINE j == [Idle EXCEPT !.net = n, !.todo = {p \in Ports : owner[p] = n}]
  <2>1. j \in Job
    BY IdleOK DEF Job, Idle
  <2>2. NextPort(w, j)
    BY <1>4 DEF RemoveStart
  <2> HIDE DEF j
  <2>3. QED
    BY <2>1, <2>2, NextPortWaits DEF StartWaits, ReadWaits
<1>5. QED
  BY <1>2, <1>3, <1>4 DEF Request, PortRequest, TeamRequest, StartWaits

LEMMA RequestTrunk ==
  ASSUME IInv, IInv', TrunkInv, NoTrunkAsked, NEW w \in Workers, Request(w)
  PROVE  TrunkInv'
<1>1. /\ job[w].pc = "idle" /\ job'[w].pc \in StartWaits
      /\ UNCHANGED <<live, net, role, sw>>
  BY RequestWaits DEF database, hardware
<1>2. /\ ~Syncs(job[w]) /\ ~Syncs(job'[w]) /\ job[w].pc # "create.config"
      /\ job'[w].pc \notin ClientWaits /\ TrunkVlansKept
  BY <1>1 DEF Syncs, StartWaits, ReadWaits, ClientWaits, TrunkVlansKept, Trunks
<1>3. Served(w) /\ Become(w, job'[w])
  <2>1. ~RadioChecks(w) /\ ~RadioPosts(w)
    BY <1>1 DEF RadioChecks, RadioPosts, AtStage, OnRadio, RadioWaits
  <2>2. QED
    BY <2>1, StepBecomes
<1>4. job'[w].role # "ap-trunk"
  BY RoleAsked DEF TrunkInv
<1>5. QED
  BY <1>1, <1>2, <1>3, <1>4, OtherStep

\* A request that has read begins no sync, and makes a client port only of a
\* port that may be one.
ReadGoesOn(w) ==
  /\ job'[w].pc \notin {"create.trunk", "remove.trunk"}
  /\ job'[w].pc \in ClientWaits => job'[w].port = job[w].port /\ Assignable(job[w].port)
  /\ job'[w].pc = "create.config" \/ (live' = live /\ net' = net)

LEMMA ReadWaitsOn ==
  ASSUME IInv, NEW w \in Workers, ReadSettles(w)
  PROVE  job[w].pc \in ReadWaits /\ UNCHANGED <<role, sw>> /\ ReadGoesOn(w)
<1>1. job[w] \in Job
  BY Unchanged
<1>2. job[w].pc \in ReadWaits /\ UNCHANGED <<role, sw>>
  BY DEF ReadSettles, AssignCheck, ReturnCheck, RoleCheck, PortRead, PortUnreadable,
         CreateScan, RefreshRow, ConnectFound, ConnectLost, Ready, ReadWaits,
         database, hardware
<1> SUFFICES ReadGoesOn(w)
  BY <1>2
<1>3. ASSUME NEW pc \in ReadWaits \cup {"idle", "role.write", "enable.write", "bounce"},
             job'[w].pc = pc, live' = live, net' = net
      PROVE  ReadGoesOn(w)
  BY <1>3 DEF ReadGoesOn, ReadWaits, ClientWaits
<1>4. CASE Finish(w) /\ live' = live /\ net' = net
  <2>1. job'[w].pc = "idle"
    BY <1>4, OnlyJob DEF Finish, Idle
  <2>2. QED
    BY <1>3, <1>4, <2>1
<1>5. CASE AssignCheck(w) /\ ~Finish(w)
  <2>1. PICK v : Become(w, [job[w] EXCEPT !.pc = "assign.vlan", !.vlan = v])
    BY <1>5 DEF AssignCheck
  <2> DEFINE j == [job[w] EXCEPT !.pc = "assign.vlan", !.vlan = v]
  <2>2. j.pc = "assign.vlan" /\ j.port = job[w].port
    BY <1>1 DEF Job
  <2>3. Become(w, j) /\ Assignable(job[w].port) /\ UNCHANGED <<live, net>>
    BY <1>5, <2>1 DEF AssignCheck, database
  <2> HIDE DEF j
  <2>4. QED
    BY <2>2, <2>3, OnlyJob DEF ReadGoesOn
<1>6. CASE ReturnCheck(w) /\ ~Finish(w)
  <2> DEFINE j == [job[w] EXCEPT !.pc = "return.vlan"]
  <2>1. j.pc = "return.vlan" /\ j.port = job[w].port
    BY <1>1 DEF Job
  <2>2. Become(w, j) /\ Assignable(job[w].port) /\ UNCHANGED <<live, net>>
    BY <1>6 DEF ReturnCheck, Abort
  <2> HIDE DEF j
  <2>3. QED
    BY <2>1, <2>2, OnlyJob DEF ReadGoesOn
<1>7. CASE RoleCheck(w) /\ ~Finish(w)
  <2>1. PICK n, V :
          Become(w, [job[w] EXCEPT !.pc = "role.write", !.net = n, !.vlans = V])
    BY <1>7 DEF RoleCheck
  <2> DEFINE j == [job[w] EXCEPT !.pc = "role.write", !.net = n, !.vlans = V]
  <2>4. j.pc = "role.write" /\ Become(w, j)
    BY <1>1, <2>1 DEF Job
  <2> HIDE DEF j
  <2>2. job'[w].pc = "role.write"
    BY <2>4, OnlyJob
  <2>3. live' = live /\ net' = net
    BY <1>7 DEF RoleCheck, database
  <2>5. QED
    BY <1>3, <2>1, <2>2, <2>3
<1>8. CASE PortRead(w)
  <2>1. PICK pc \in {"enable.write", "bounce"} : Become(w, [job[w] EXCEPT !.pc = pc])
    BY <1>8 DEF PortRead
  <2>2. job'[w].pc = pc
    BY <1>1, <2>1, OnlyJob DEF Job
  <2>3. live' = live /\ net' = net
    BY <1>8 DEF PortRead, database
  <2>4. QED
    BY <1>3, <2>1, <2>2, <2>3
<1>9. CASE CreateScan(w) /\ ~Finish(w)
  <2>1. job[w].pc = "create.scan"
    BY <1>9 DEF CreateScan, Ready
  <2>2. \/ Become(w, [job[w] EXCEPT !.pc = "create.config", !.slots = {},
                                    !.number = None])
        \/ \E s : /\ Become(w, [job[w] EXCEPT !.slots = @ \ {s}])
                  /\ live' = live /\ net' = net
    BY <1>9 DEF CreateScan
  <2>3. ASSUME NEW s, Become(w, [job[w] EXCEPT !.slots = @ \ {s}]),
               live' = live, net' = net
        PROVE  ReadGoesOn(w)
    <3>1. job'[w].pc = "create.scan"
      BY <1>1, <2>1, <2>3, OnlyJob DEF Job
    <3>2. QED
      BY <1>3, <2>3, <3>1 DEF ReadWaits
  <2>4. ASSUME Become(w, [job[w] EXCEPT !.pc = "create.config", !.slots = {},
                                        !.number = None])
        PROVE  ReadGoesOn(w)
    <3> DEFINE j == [job[w] EXCEPT !.pc = "create.config", !.slots = {}, !.number = None]
    <3>1. j.pc = "create.config" /\ Become(w, j)
      BY <1>1, <2>4 DEF Job
    <3> HIDE DEF j
    <3>2. job'[w].pc = "create.config"
      BY <3>1, OnlyJob
    <3>3. QED
      BY <3>2 DEF ReadGoesOn, ClientWaits
  <2>5. QED
    BY <2>2, <2>3, <2>4
<1>10. CASE RefreshRow(w) /\ ~Finish(w)
  <2>1. job[w].pc = "refresh" /\ live' = live /\ net' = net
    BY <1>10 DEF RefreshRow, Ready
  <2>2. PICK n \in Ids : Become(w, [job[w] EXCEPT !.seen[n] = "-"])
    BY <1>10 DEF RefreshRow, Listed
  <2>3. job'[w].pc = "refresh"
    BY <1>1, <2>1, <2>2, OnlyJob DEF Job
  <2>4. QED
    BY <1>3, <2>1, <2>2, <2>3 DEF ReadWaits
<1>11. CASE ConnectFound(w) /\ ~Finish(w)
  <2>1. PICK p \in Ports :
          Become(w, [job[w] EXCEPT !.pc = "assign.read", !.port = p, !.flag = TRUE])
    BY <1>11 DEF ConnectFound
  <2> DEFINE j == [job[w] EXCEPT !.pc = "assign.read", !.port = p, !.flag = TRUE]
  <2>2. j.pc = "assign.read" /\ Become(w, j) /\ live' = live /\ net' = net
    BY <1>1, <1>11, <2>1 DEF Job, ConnectFound, database
  <2> HIDE DEF j
  <2>3. job'[w].pc = "assign.read"
    BY <2>2, OnlyJob
  <2>4. QED
    BY <1>3, <2>2, <2>3 DEF ReadWaits
<1>12. CASE Finish(w)
  <2>1. job'[w].pc = "idle"
    BY <1>12, OnlyJob DEF Finish, Idle
  <2>2. live' = live /\ net' = net
    <3>1. CASE CreateScan(w)
      <4> DEFINE j == [job[w] EXCEPT !.pc = "create.config", !.slots = {}, !.number = None]
      <4>1. j.pc = "create.config"
        BY <1>1 DEF Job
      <4>2. Become(w, j) \/ (live' = live /\ net' = net)
        BY <3>1 DEF CreateScan
      <4> HIDE DEF j
      <4>3. ~Become(w, j)
        BY <2>1, <4>1, OnlyJob
      <4>4. QED
        BY <4>2, <4>3
    <3>2. CASE ~CreateScan(w)
      BY <3>2
         DEF ReadSettles, AssignCheck, ReturnCheck, RoleCheck, PortRead, PortUnreadable,
             RefreshRow, ConnectFound, ConnectLost, database
    <3>3. QED
      BY <3>1, <3>2
  <2>3. QED
    BY <1>4, <1>12, <2>2
<1>13. QED
  BY <1>5, <1>6, <1>7, <1>8, <1>9, <1>10, <1>11, <1>12
     DEF ReadSettles, PortUnreadable, ConnectLost, Abort

LEMMA ReadTrunk ==
  ASSUME IInv, IInv', TrunkInv, NoTrunkAsked, NEW w \in Workers, ReadSettles(w)
  PROVE  TrunkInv'
<1>1. /\ job[w].pc \in ReadWaits /\ UNCHANGED <<role, sw>>
      /\ job'[w].pc \notin {"create.trunk", "remove.trunk"}
      /\ job'[w].pc \in ClientWaits =>
           job'[w].port = job[w].port /\ Assignable(job[w].port)
      /\ job'[w].pc = "create.config" \/ UNCHANGED <<live, net>>
  BY ReadWaitsOn DEF ReadGoesOn
<1>2. /\ ~Syncs(job[w]) /\ ~Syncs(job'[w]) /\ job[w].pc # "create.config"
      /\ TrunkVlansKept
      /\ job'[w].pc \in ClientWaits => job'[w].port \notin Trunks
  BY <1>1 DEF Syncs, ReadWaits, TrunkVlansKept, Trunks, Assignable
<1>3. Served(w) /\ Become(w, job'[w])
  <2>1. ~RadioChecks(w) /\ ~RadioPosts(w)
    BY <1>1 DEF RadioChecks, RadioPosts, AtStage, OnRadio, RadioWaits, ReadWaits
  <2>2. QED
    BY <2>1, StepBecomes DEF Progress
<1>4. job'[w].role # "ap-trunk"
  BY RoleAsked DEF TrunkInv, Progress
<1>5. QED
  BY <1>1, <1>2, <1>3, <1>4, OtherStep

(***************************************************************************)
(* Switch writes.                                                          *)
(***************************************************************************)
PortWrites(w, o) ==
  \/ AssignWritten(w, o) \/ AssignUndone(w, o)
  \/ ReturnVlan(w, o) \/ ReturnEnable(w, o) \/ ReturnFlush(w, o)
  \/ RoleWritten(w, o) \/ LastWrite(w, o)

\* After a write to one port the request begins no sync, makes a client port
\* only of the same port, and stores a role only for it.
WriteGoesOn(w, o) ==
  /\ job'[w].pc \notin {"create.trunk", "remove.trunk"}
  /\ job'[w].pc \in ClientWaits =>
       job'[w].port = job[w].port /\ job[w].pc \in ClientWaits
  /\ UNCHANGED <<live, net>>
  /\ \/ UNCHANGED role
     \/ /\ job[w].pc \in ClientWaits \cup {"role.write"} /\ o = "ok"
        /\ \E r \in {"client", job[w].role} : role' = [role EXCEPT ![job[w].port] = r]

LEMMA PortWriteGoesOn ==
  ASSUME IInv, NEW w \in Workers, NEW o \in Outcomes, PortWrites(w, o)
  PROVE  /\ job[w].pc \in ClientWaits \cup {"role.write", "enable.write", "bounce"}
         /\ SwitchSettles(w, o) /\ WriteGoesOn(w, o)
<1>1. job[w] \in Job
  BY Unchanged
<1>2. /\ job[w].pc \in ClientWaits \cup {"role.write", "enable.write", "bounce"}
      /\ SwitchSettles(w, o) /\ UNCHANGED <<live, net>>
  BY DEF PortWrites, AssignWritten, AssignUndone, ReturnVlan, ReturnEnable,
         ReturnWritten, ReturnFlush, RoleWritten, LastWrite, Ready, ClientWaits, database
<1> SUFFICES /\ job'[w].pc \notin {"create.trunk", "remove.trunk"}
             /\ job'[w].pc \in ClientWaits =>
                  job'[w].port = job[w].port /\ job[w].pc \in ClientWaits
             /\ \/ UNCHANGED role
                \/ /\ job[w].pc \in ClientWaits \cup {"role.write"} /\ o = "ok"
                   /\ \E r \in {"client", job[w].role} :
                        role' = [role EXCEPT ![job[w].port] = r]
  BY <1>2 DEF WriteGoesOn
<1>3. \/ UNCHANGED role
      \/ /\ job[w].pc \in ClientWaits \cup {"role.write"} /\ o = "ok"
         /\ \E r \in {"client", job[w].role} : role' = [role EXCEPT ![job[w].port] = r]
  BY DEF PortWrites, AssignWritten, AssignUndone, ReturnVlan, ReturnEnable, ReturnWritten,
         ReturnFlush, RoleWritten, LastWrite, UpsertPort, Ready, ClientWaits, database
<1>4. CASE Finish(w)
  <2>1. job'[w].pc = "idle"
    BY <1>4, OnlyJob DEF Finish, Idle
  <2>2. QED
    BY <1>3, <2>1 DEF ClientWaits
<1>5. ASSUME NEW pc \in ClientWaits \cup {"bounce"}, job[w].pc \in ClientWaits,
             Become(w, [job[w] EXCEPT !.pc = pc])
      PROVE  /\ job'[w].pc \notin {"create.trunk", "remove.trunk"}
             /\ job'[w].pc \in ClientWaits =>
                  job'[w].port = job[w].port /\ job[w].pc \in ClientWaits
  <2>1. job'[w].pc = pc /\ job'[w].port = job[w].port
    BY <1>1, <1>5, OnlyJob DEF Job
  <2>2. QED
    BY <1>5, <2>1 DEF ClientWaits
<1>6. ASSUME ReturnFlush(w, o), NextPort(w, job[w])
      PROVE  job'[w].pc \notin ClientWaits \cup {"create.trunk", "remove.trunk"}
  BY <1>1, <1>6, NextPortWaits DEF ClientWaits
<1>7. CASE ~Finish(w)
  <2>1. \/ ReturnFlush(w, o) /\ NextPort(w, job[w])
        \/ \E pc \in ClientWaits \cup {"bounce"} :
             job[w].pc \in ClientWaits /\ Become(w, [job[w] EXCEPT !.pc = pc])
    BY <1>7
       DEF PortWrites, AssignWritten, AssignUndone, ReturnVlan, ReturnEnable,
           ReturnWritten, ReturnFlush, RoleWritten, LastWrite, Abort, Ready, ClientWaits
  <2>2. QED
    BY <1>3, <1>5, <1>6, <2>1
<1>8. QED
  BY <1>4, <1>7

LEMMA PortWriteTrunk ==
  ASSUME IInv, IInv', TrunkInv, NoTrunkAsked, NEW w \in Workers, NEW o \in Outcomes,
         PortWrites(w, o), job[w].port \in Trunks => o = "ok"
  PROVE  TrunkInv'
<1>1. /\ job[w].pc \in ClientWaits \cup {"role.write", "enable.write", "bounce"}
      /\ SwitchSettles(w, o) /\ WriteGoesOn(w, o)
  BY PortWriteGoesOn
<1>2. PICK p \in Ports : p = job[w].port
  BY <1>1 DEF ClientWaits, IInv, RequestsOK, JobsOK, JobOK, PortWaits, SwitchWaits, VlanWaits
<1>3. /\ \A q \in Ports : role[q] = "ap-trunk" <=> PortRole[q] = "ap-trunk"
      /\ job[w].pc \in ClientWaits => p \notin Trunks
      /\ job[w].role # "ap-trunk"
  BY <1>2 DEF TrunkInv, SyncsOnTrunks, OnTrunks, ClientWaits
<1>4. role \in [Ports -> Role] /\ sw \in [Ports -> PortState]
  BY DEF IInv, TypeOK, StateTypeOK
<1>5. PICK r \in {"client", job[w].role} :
        role' = role \/ role' = [role EXCEPT ![p] = r]
  BY <1>1, <1>2 DEF WriteGoesOn
<1>6. \A q \in Ports \ {p} : sw'[q] = sw[q] /\ role'[q] = role[q]
  BY <1>1, <1>2, <1>4, <1>5 DEF SwitchSettles
<1>7. ASSUME p \notin Trunks
      PROVE  TrunkVlansKept
  <2>1. role'[p] # "ap-trunk"
    BY <1>2, <1>3, <1>4, <1>5, <1>7 DEF Trunks
  <2>2. QED
    BY <1>6, <1>7, <2>1 DEF TrunkVlansKept, Trunks
<1>8. TrunkVlansKept
  <2>1. CASE p \in Trunks
    <3>1. /\ o = "ok" /\ job[w].pc \in {"role.write", "enable.write", "bounce"}
          /\ PortRole[p] = "ap-trunk"
      BY <1>1, <1>2, <1>3, <2>1 DEF Trunks
    <3>2. job[w].pc # "role.write"
      BY <1>1, <1>2, <1>3, <3>1, AccessOk
    <3>3. sw'[p] = Written(sw[p], job[w]) /\ sw[p] \in PortState
      <4>1. job[w].pc \in SwitchWaits /\ SwitchSettles(w, "ok")
        BY <1>1, <3>1, <3>2 DEF SwitchWaits
      <4>2. QED
        BY <1>2, <1>4, <4>1, WriteOk
    <3>4. sw'[p].vlan = sw[p].vlan /\ sw'[p].tagged = sw[p].tagged
      BY <3>1, <3>2, <3>3 DEF Written, PortState
    <3>5. role' = role
      BY <1>1, <3>1, <3>2 DEF WriteGoesOn, ClientWaits
    <3>6. QED
      BY <1>6, <3>4, <3>5 DEF TrunkVlansKept, Trunks
  <2>2. CASE p \notin Trunks
    BY <1>7, <2>2
  <2>3. QED
    BY <2>1, <2>2
<1>9. /\ ~Syncs(job[w]) /\ ~Syncs(job'[w]) /\ job[w].pc # "create.config"
      /\ UNCHANGED <<live, net>>
      /\ job'[w].pc \in ClientWaits => job'[w].port \notin Trunks
  BY <1>1, <1>2, <1>3 DEF WriteGoesOn, Syncs, ClientWaits
<1>10. Served(w) /\ Become(w, job'[w])
  <2>1. ~RadioChecks(w) /\ ~RadioPosts(w)
    BY <1>1 DEF RadioChecks, RadioPosts, AtStage, OnRadio, RadioWaits, ClientWaits
  <2>2. QED
    BY <2>1, StepBecomes DEF Progress, WriteSettles, PortWrites
<1>11. job'[w].role # "ap-trunk"
  BY RoleAsked DEF TrunkInv, Progress, WriteSettles, PortWrites
<1>12. QED
  BY <1>8, <1>9, <1>10, <1>11, OtherStep

\* Where a sync goes on to.
LEMMA NextTrunkJob ==
  ASSUME IInv, SyncsOnTrunks, NEW w \in Workers, Syncs(job[w]), NextTrunk(w)
  PROVE  /\ job'[w].pc = job[w].pc /\ job'[w].net = job[w].net
         /\ job'[w].vlans = job[w].vlans /\ Syncs(job'[w])
         /\ job'[w].port \in Trunks /\ job'[w].port \in job[w].todo
         /\ job[w].port < job'[w].port
         /\ \A t \in job[w].todo : job'[w].port <= t
         /\ \A t \in Trunks : job'[w].port <= t \/ t <= job[w].port
         /\ job'[w].todo = {t \in Trunks : t > job'[w].port}
<1>1. PICK q \in Ports : /\ IsLeast(q, job[w].todo)
                         /\ Become(w, [job[w] EXCEPT !.port = q, !.todo = @ \ {q}])
  BY DEF NextTrunk
<1> DEFINE j == [job[w] EXCEPT !.port = q, !.todo = @ \ {q}]
<1>2. /\ j.pc = job[w].pc /\ j.net = job[w].net /\ j.port = q
      /\ j.vlans = job[w].vlans /\ j.todo = job[w].todo \ {q} /\ Become(w, j)
  BY <1>1, Unchanged DEF Job
<1> HIDE DEF j
<1>3. /\ job'[w].pc = job[w].pc /\ job'[w].net = job[w].net /\ job'[w].port = q
      /\ job'[w].vlans = job[w].vlans /\ job'[w].todo = job[w].todo \ {q}
  BY <1>2, OnlyJob
<1>4. /\ \A t \in Trunks : t \in Nat
      /\ job[w].port \in Trunks /\ job[w].todo = {t \in Trunks : t > job[w].port}
  BY TopologyAssumption DEF Trunks, SyncsOnTrunks, OnTrunks
<1>5. q \in job[w].todo /\ \A t \in job[w].todo : q <= t
  BY <1>1 DEF IsLeast
<1>6. \A t \in Trunks : (t > job[w].port /\ t # q) <=> t > q
  BY <1>4, <1>5
<1>7. job'[w].todo = {t \in Trunks : t > job'[w].port}
  BY <1>3, <1>4, <1>6
<1>8. \A t \in Trunks : q <= t \/ t <= job[w].port
  BY <1>4, <1>5
<1>9. QED
  BY <1>3, <1>4, <1>5, <1>7, <1>8 DEF Syncs

LEMMA SyncWriteTrunk ==
  ASSUME IInv, IInv', TrunkInv, NoTrunkAsked, NEW w \in Workers,
         CreateTrunked(w, "ok") \/ RemoveTrunked(w, "ok")
  PROVE  TrunkInv'
<1>1. /\ job[w].pc \in {"create.trunk", "remove.trunk"} /\ SwitchSettles(w, "ok")
      /\ UNCHANGED <<live, net, role>>
      /\ NextTrunk(w) \/ (Finish(w) /\ job[w].todo = {})
  BY DEF CreateTrunked, RemoveTrunked, CreateEnd, RemoveEnd, Ready
<1>2. PICK p \in Ports : p = job[w].port
  BY <1>1 DEF IInv, RequestsOK, JobsOK, JobOK, PortWaits, SwitchWaits, VlanWaits
<1>3. Syncs(job[w]) /\ p \in Trunks /\ job[w].todo = {q \in Trunks : q > p}
  BY <1>1, <1>2 DEF Syncs, TrunkInv, SyncsOnTrunks, OnTrunks
<1>4. job[w] \in Job /\ sw \in [Ports -> PortState] /\ "ok" \in Outcomes
  BY Unchanged DEF Outcomes
<1>5. Visits(w)
  <2>1. job[w].pc \in SwitchWaits
    BY <1>1 DEF SwitchWaits, VlanWaits
  <2>2. sw' = [sw EXCEPT ![p] = Trunk(sw[p], Management, job[w].vlans)]
    BY <1>1, <1>2, <2>1, WriteOk DEF Written
  <2>3. /\ sw'[p].vlan = Management /\ sw'[p].tagged = job[w].vlans
        /\ \A q \in Ports \ {p} : sw'[q] = sw[q]
    BY <1>4, <2>2 DEF Trunk, PortState
  <2>4. QED
    BY <1>1, <1>2, <1>3, <2>3 DEF Visits, Trunks
<1>6. Trunks' = Trunks
  BY <1>5 DEF Visits
<1>7. Served(w) /\ Become(w, job'[w])
  <2>1. ~RadioChecks(w) /\ ~RadioPosts(w)
    BY <1>1 DEF RadioChecks, RadioPosts, AtStage, OnRadio, RadioWaits
  <2>2. QED
    BY <1>4, <2>1, StepBecomes DEF Progress, WriteSettles
<1>8. job'[w].role # "ap-trunk"
  BY <1>4, RoleAsked DEF TrunkInv, Progress, WriteSettles
<1>9. CASE NextTrunk(w)
  <2>1. OnTrunks(job[w])'
    BY <1>3, <1>6, <1>8, <1>9, NextTrunkJob DEF TrunkInv, OnTrunks, Syncs
  <2>2. ASSUME QueuesKept(w)
        PROVE  ListsRight'
    BY <1>3, <1>5, <1>9, <2>2, NextTrunkJob, SyncGoesOn DEF TrunkInv, ListsRight
  <2>3. QED
    BY <1>6, <1>7, <2>1, <2>2, TrunkStep
<1>10. CASE Finish(w) /\ job[w].todo = {}
  <2>1. job'[w] = Idle
    BY <1>10, OnlyJob DEF Finish
  <2>2. ~Syncs(job'[w]) /\ OnTrunks(job[w])'
    BY <2>1 DEF Syncs, OnTrunks, Idle
  <2>3. ASSUME QueuesKept(w)
        PROVE  ListsRight'
    BY <1>5, <1>10, <2>2, <2>3, SyncEnds DEF TrunkInv, ListsRight
  <2>4. QED
    BY <1>6, <1>7, <2>2, <2>3, TrunkStep
<1>11. QED
  BY <1>1, <1>9, <1>10

LEMMA WriteTrunk ==
  ASSUME IInv, IInv', TrunkInv, NoTrunkAsked, NEW w \in Workers, TrunksServed,
         \E o \in Outcomes : WriteSettles(w, o)
  PROVE  TrunkInv'
<1>1. PICK o \in Outcomes : WriteSettles(w, o) /\ (job[w].port \in Trunks => o = "ok")
  BY DEF TrunksServed, Outcomes
<1>2. CASE PortWrites(w, o)
  BY <1>1, <1>2, PortWriteTrunk
<1>3. CASE CreateTrunked(w, o) \/ RemoveTrunked(w, o)
  <2>1. Syncs(job[w])
    BY <1>3 DEF CreateTrunked, RemoveTrunked, Ready, Syncs
  <2>2. o = "ok"
    BY <1>1, <2>1 DEF TrunkInv, SyncsOnTrunks, OnTrunks
  <2>3. QED
    BY <1>3, <2>2, SyncWriteTrunk
<1>4. QED
  BY <1>1, <1>2, <1>3 DEF WriteSettles, PortWrites

(***************************************************************************)
(* Radio writes.                                                           *)
(***************************************************************************)
\* Where a sync begins.
LEMMA BeginSyncJob ==
  ASSUME IInv, NEW w \in Workers, NEW pc \in {"create.trunk", "remove.trunk"}, NEW L,
         BeginSync(w, pc, L)
  PROVE  /\ job'[w].pc = pc /\ job'[w].net = job[w].net /\ Syncs(job'[w])
         /\ job'[w].port \in Trunks /\ \A q \in Trunks : job'[w].port <= q
         /\ job'[w].todo = {q \in Trunks : q > job'[w].port}
         /\ job'[w].vlans = AllocatedVlans(L)
<1>1. PICK p \in Ports :
        /\ IsLeast(p, Trunks)
        /\ Become(w, [job[w] EXCEPT !.pc = pc, !.port = p, !.todo = Trunks \ {p},
                                    !.vlans = AllocatedVlans(L)])
  BY DEF BeginSync
<1> DEFINE j == [job[w] EXCEPT !.pc = pc, !.port = p, !.todo = Trunks \ {p},
                               !.vlans = AllocatedVlans(L)]
<1>2. /\ j.pc = pc /\ j.net = job[w].net /\ j.port = p /\ j.todo = Trunks \ {p}
      /\ j.vlans = AllocatedVlans(L) /\ Become(w, j)
  BY <1>1, Unchanged DEF Job
<1> HIDE DEF j
<1>3. /\ job'[w].pc = pc /\ job'[w].net = job[w].net /\ job'[w].port = p
      /\ job'[w].todo = Trunks \ {p} /\ job'[w].vlans = AllocatedVlans(L)
  BY <1>2, OnlyJob
<1>4. p \in Trunks /\ \A q \in Trunks : p <= q
  BY <1>1 DEF IsLeast
<1>5. \A q \in Trunks : q \in Nat
  BY TopologyAssumption DEF Trunks
<1>6. Trunks \ {p} = {q \in Trunks : q > p}
  BY <1>4, <1>5
<1>7. QED
  BY <1>3, <1>4, <1>6 DEF Syncs

\* A sync that begins with the rows that are left.
LEMMA BeginSyncTrunk ==
  ASSUME IInv, IInv', TrunkInv, NoTrunkAsked, NEW w \in Workers,
         NEW pc \in {"create.trunk", "remove.trunk"}, BeginSync(w, pc, live'),
         OnRadio(job[w]), Served(w), Become(w, job'[w]), job'[w].role # "ap-trunk",
         UNCHANGED <<net, role>>
  PROVE  TrunkInv'
<1>1. Trunks' = Trunks /\ AllocatedVlans(live)' = AllocatedVlans(live')
  BY DEF Trunks, AllocatedVlans
<1>2. OnTrunks(job[w])'
  BY <1>1, BeginSyncJob DEF OnTrunks
<1>3. Syncs(job'[w]) /\ ~Syncs(job[w])
  BY BeginSyncJob DEF Syncs, OnRadio, RadioWaits
<1>4. ASSUME QueuesKept(w)
      PROVE  ListsRight'
  BY <1>1, <1>3, <1>4, BeginSyncJob, SyncBegins DEF TrunkInv
<1>5. QED
  BY <1>1, <1>2, <1>4, TrunkStep

LEMMA RadioTrunk ==
  ASSUME IInv, IInv', TrunkInv, NoTrunkAsked, NEW w \in Workers, TrunksServed,
         CreateConfigured(w) \/ RemoveCleared(w)
  PROVE  TrunkInv'
<1>1. /\ job[w].pc \in {"create.config", "remove.clear"} /\ UNCHANGED <<net, role, sw>>
  BY DEF CreateConfigured, RemoveCleared, Ready, RadioConfirms, RadioRejects
<1>2. OnRadio(job[w]) /\ Served(w) /\ Become(w, job'[w])
  <2>1. stage' = "status"
    BY DEF CreateConfigured, RemoveCleared, RadioConfirms, RadioRejects
  <2>2. ~RadioChecks(w) /\ ~RadioPosts(w)
    BY <2>1 DEF RadioChecks, RadioPosts
  <2>3. QED
    BY <1>1, <2>2, StepBecomes DEF Progress, RadioMoves, OnRadio, RadioWaits
<1>3. job'[w].role # "ap-trunk"
  BY RoleAsked DEF TrunkInv, Progress, RadioMoves
<1>4. Trunks' = Trunks
  BY <1>1 DEF Trunks
<1>5. ASSUME Finish(w)
      PROVE  ~Syncs(job'[w]) /\ OnTrunks(job[w])' /\ job'[w].pc = "idle"
  BY <1>5, OnlyJob DEF Finish, Syncs, OnTrunks, Idle
<1>6. ASSUME Finish(w), Trunks = {}
      PROVE  TrunkInv'
  BY <1>2, <1>4, <1>5, <1>6, TrunkStep
<1>7. CASE CreateConfigured(w)
  <2>1. live' = live
    BY <1>7 DEF CreateConfigured
  <2>2. \/ BeginSync(w, "create.trunk", live')
        \/ Finish(w)
    BY <1>7, <2>1 DEF CreateConfigured, CreateEnd
  <2>3. Finish(w) => Trunks = {}
    BY <1>5, <1>7 DEF TrunksServed
  <2>4. QED
    BY <1>1, <1>2, <1>3, <1>6, <2>2, <2>3, BeginSyncTrunk
<1>8. CASE RemoveCleared(w)
  <2>1. job[w].pc = "remove.clear"
    BY <1>8 DEF RemoveCleared, Ready
  <2>2. \/ BeginSync(w, "remove.trunk", live')
        \/ Finish(w) /\ Trunks = {}
        \/ Finish(w) /\ live' = live
    BY <1>8 DEF RemoveCleared, RemoveEnd, Abort, DeleteRow
  <2>3. ASSUME Finish(w), live' = live
        PROVE  TrunkInv'
    <3>1. TrunkVlansKept /\ ~Syncs(job[w]) /\ UNCHANGED <<live, net>>
      BY <1>1, <1>4, <2>1, <2>3 DEF TrunkVlansKept, Syncs
    <3>2. QED
      BY <1>2, <1>3, <1>5, <2>1, <2>3, <3>1, OtherStep DEF ClientWaits
  <2>4. QED
    BY <1>1, <1>2, <1>3, <1>6, <2>2, <2>3, BeginSyncTrunk
<1>9. QED
  BY <1>7, <1>8

(***************************************************************************)
(* The theorem.                                                            *)
(***************************************************************************)
LEMMA TrunkNext ==
  ASSUME IInv, TrunkInv, NoTrunkAsked, [Next]_vars, [TrunksServed]_vars
  PROVE  TrunkInv'
<1>1. IInv'
  BY NextInv
<1>2. CASE \/ UNCHANGED vars \/ RadioApplies \/ RadioDrops
           \/ \E w \in Workers : RadioChecks(w) \/ RadioPosts(w)
  <2>1. UNCHANGED <<job, swq, live, net, role, sw>>
    BY <1>2 DEF vars, database, hardware, requests, RadioApplies, RadioDrops, RadioChecks,
                RadioPosts
  <2>2. QED
    BY <2>1, TrunkSteady
<1>3. ASSUME ~UNCHANGED vars
      PROVE  TrunksServed /\ ~Crash /\ Next
  BY <1>3 DEF TrunksServed
<1>4. ASSUME TrunksServed, NEW w \in Workers, Request(w) \/ Progress(w)
      PROVE  TrunkInv'
  BY <1>1, <1>2, <1>4, RequestTrunk, ReadTrunk, WriteTrunk, RadioTrunk
     DEF Progress, RadioMoves
<1>5. QED
  BY <1>2, <1>3, <1>4 DEF Next

LEMMA TrunkInit == Init => TrunkInv
<1> SUFFICES ASSUME Init
             PROVE  TrunkInv
  OBVIOUS
<1>1. \A w \in Workers : job[w].pc = "idle" /\ job[w].role = "client"
  BY DEF Init, StateInit, Idle
<1>2. \A s \in Switches : 1 .. Len(swq[s]) = {}
  BY DEF Init, StateInit
<1>3. SwitchQueueOK
  BY <1>1, <1>2 DEF SwitchQueueOK, OnSwitch, SwitchWaits, VlanWaits
<1>4. SyncsOnTrunks
  BY <1>1 DEF Init, StateInit, SyncsOnTrunks, OnTrunks, Syncs
<1>5. LastListRight
  BY <1>1 DEF LastListRight, Syncs
<1>6. AllocatedVlans(live) = {}
  BY DEF Init, StateInit, AllocatedVlans
<1>7. ASSUME NEW p \in Trunks
      PROVE  sw[p].vlan = Management /\ sw[p].tagged = {}
  BY DEF Init, StateInit, Trunks, RoleConfigured, Trunk
<1>8. VisitedRight
  BY <1>6, <1>7 DEF VisitedRight
<1>9. QED
  BY <1>3, <1>4, <1>5, <1>8 DEF TrunkInv

LEMMA TrunksRight == TrunkInv => TrunksCarryTeams
<1> SUFFICES ASSUME TrunkInv, Quiet, NEW p \in Trunks
             PROVE  ~PortDrifts(p)
  BY DEF TrunksCarryTeams
<1>1. ~RowAhead /\ \A w \in Workers : ~Syncs(job[w])
  BY DEF Quiet, RowAhead, Syncs
<1>2. sw[p].vlan = Management /\ sw[p].tagged = AllocatedVlans(live)
  BY <1>1 DEF TrunkInv, VisitedRight
<1>3. p \in Ports /\ role[p] = "ap-trunk" /\ PortRole[p] = "ap-trunk"
  BY DEF Trunks, TrunkInv, SyncsOnTrunks
<1>4. InMode(p, "trunk")
  BY <1>3 DEF InMode, Shows
<1>5. PortDrifts(p) <=> \/ ~InMode(p, "trunk")
                        \/ sw[p].vlan # Management
                        \/ sw[p].tagged # AllocatedVlans(live)
  BY <1>3, Zenon DEF PortDrifts
<1>6. QED
  BY <1>2, <1>4, <1>5

\* TeamNetworkService: of the syncs under way on all switches the last carries the
\* present list, and no trunk it has left behind has another one, if no client asks
\* for another AP trunk and no step is one TrunksServed excludes.
THEOREM TrunkInvariance ==
  NoTrunkAsked => (Spec /\ [][TrunksServed]_vars => []TrunkInv)
<1> SUFFICES ASSUME NoTrunkAsked
             PROVE  Spec /\ [][TrunksServed]_vars => []TrunkInv
  OBVIOUS
<1>1. IInv /\ TrunkInv /\ [Next]_vars /\ [TrunksServed]_vars => TrunkInv'
  BY TrunkNext
<1>2. QED
  BY <1>1, TrunkInit, Invariance, PTL DEF Spec

\* TeamNetworkService: whenever no request is in flight, every AP trunk carries
\* the VLANs of the networks and is untagged for management, however many
\* creates and removals overlapped over however many switches, if no client
\* asks for another AP trunk and no step is one TrunksServed excludes.
THEOREM TrunksTheorem ==
  NoTrunkAsked => (Spec /\ [][TrunksServed]_vars => []TrunksCarryTeams)
BY TrunkInvariance, TrunksRight, PTL
=============================================================================
