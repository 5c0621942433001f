---------------------------- MODULE TeamNetwork -----------------------------
(***************************************************************************)
(* TeamNetworkService and VlanAllocator: creating a team network, removing *)
(* it, and refreshing the status column from the access point.             *)
(***************************************************************************)
EXTENDS PortAssignment, AccessPoint

\* Mistake: the list is taken before the row is deleted.
BeginSyncStale(w, pc, L) ==
  \E p \in Ports :
    /\ IsLeast(p, Trunks)
    /\ Become(w, [job[w] EXCEPT !.pc = pc, !.port = p, !.todo = Trunks \ {p},
                                !.vlans = AllocatedVlans(live)])

(***************************************************************************)
(* syncAccessPointTrunks: the VLAN list and the AP trunk ports are taken   *)
(* once, from the rows L, and written to one trunk after the other.        *)
(***************************************************************************)
BeginSync(w, pc, L) ==
  \E p \in Ports :
    /\ IsLeast(p, Trunks)
    /\ Become(w, [job[w] EXCEPT !.pc = pc, !.port = p, !.todo = Trunks \ {p},
                                !.vlans = AllocatedVlans(L)])

NextTrunk(w) ==
  \E p \in Ports :
    /\ IsLeast(p, job[w].todo)
    /\ Become(w, [job[w] EXCEPT !.port = p, !.todo = @ \ {p}])

(***************************************************************************)
(* create                                                                  *)
(***************************************************************************)
TakenNumbers == {net[n].number : n \in live}

TakenSlots == {net[n].slot : n \in live}

\* Mistake: two creates under way may be given the same id.
FreshIdsUsedOnly == Ids \ used

\* The ids not handed out yet, nor set aside for a create under way.
FreshIds == Ids \ (used \cup {job[w].net : w \in Workers})

\* The duplicate check; S is every station slot, or the one asked for.
CreateStart(w, number, S) ==
  /\ Ready(w, "idle")
  /\ number \notin TakenNumbers
  /\ \E n \in Ids :
       /\ IsLeast(n, FreshIds)
       /\ Become(w, [Idle EXCEPT !.pc = "create.scan", !.net = n,
                                 !.number = number, !.slots = S])
  /\ UNCHANGED <<database, hardware>>

\* Mistake: the VLANs already allocated are not excluded.
AllocatesBlindly(v, s) ==
  IsLeast(v, (SlotVlans[s] \cap Pool) \ {Management, Onboarding})

\* VlanAllocator.allocate for slot s: v is the lowest VLAN it may return.
Allocates(v, s) ==
  IsLeast(v, (SlotVlans[s] \cap Pool)
               \ (AllocatedVlans(live) \cup {Management, Onboarding}))

\* Mistake: two columns of the INSERT are given in the wrong order.
InsertsSwapped(n, number, s, v) ==
  /\ Allocates(v, s)
  /\ number \notin TakenNumbers
  /\ s \notin TakenSlots
  /\ live' = live \cup {n}
  /\ net' = [net EXCEPT ![n] = [number |-> number, vlan |-> s, slot |-> v]]
  /\ status' = [status EXCEPT ![n] = "provisioning"]

\* The transaction commits: a VLAN is free and no UNIQUE column clashes.
Inserts(n, number, s, v) ==
  /\ Allocates(v, s)
  /\ number \notin TakenNumbers
  /\ s \notin TakenSlots
  /\ live' = live \cup {n}
  /\ net' = [net EXCEPT ![n] = [number |-> number, vlan |-> v, slot |-> s]]
  /\ status' = [status EXCEPT ![n] = "provisioning"]

\* It does not: exhausted pool, or SQLite rejects the row.
CannotInsert(number, s) ==
  \/ ~\E v \in Pool : Allocates(v, s)
  \/ number \in TakenNumbers
  \/ s \in TakenSlots

\* The station of slot s answers.  If it is available the create takes it:
\* key stored, VLAN allocated, row inserted and the radio write queued.  If
\* not, the next one is asked; an answer that does not come ends a request
\* that named its access point.
CreateScan(w) ==
  /\ Ready(w, "create.scan")
  /\ LET j == job[w]
     IN  \E s \in Slots :
           /\ IsLeast(s, j.slots)
           /\ \/ /\ MayBeAvailable(s)
                 /\ cred' = cred \cup {j.net}
                 /\ used' = used \cup {j.net}
                 /\ \/ /\ \E v \in Pool : Inserts(j.net, j.number, s, v)
                       /\ Become(w, [j EXCEPT !.pc = "create.config",
                                              !.slots = {}, !.number = None])
                    \/ /\ CannotInsert(j.number, s)
                       /\ Finish(w)
                       /\ UNCHANGED <<live, net, status>>
              \/ /\ ~MustBeAvailable(s) \/ RadioUnreadable
                 /\ \/ /\ j.slots = {s} \/ RadioUnreadable
                       /\ Finish(w)
                    \/ /\ j.slots # {s}
                       /\ Become(w, [j EXCEPT !.slots = @ \ {s}])
                 /\ UNCHANGED <<live, net, status, cred, used>>
  /\ UNCHANGED <<role, owner, hardware>>

CreateEnd(w, s) == Finish(w) /\ SetStatus(job[w].net, s)

\* Mistake: a rejected radio write does not mark the network.
CreateConfiguredRegardless(w) ==
  /\ Ready(w, "create.config")
  /\ RadioConfirms(w) \/ RadioRejects(w)
  /\ \/ BeginSync(w, "create.trunk", live) /\ UNCHANGED status
     \/ Trunks = {} /\ CreateEnd(w, "waiting-for-robot")
  /\ UNCHANGED <<live, net, cred, used, role, owner>>

CreateConfigured(w) ==
  /\ Ready(w, "create.config")
  /\ \/ /\ RadioConfirms(w)
        /\ \/ BeginSync(w, "create.trunk", live) /\ UNCHANGED status
           \/ Trunks = {} /\ CreateEnd(w, "waiting-for-robot")
     \/ RadioRejects(w) /\ CreateEnd(w, "error")
  /\ UNCHANGED <<live, net, cred, used, role, owner>>

CreateTrunked(w, o) ==
  /\ Ready(w, "create.trunk")
  /\ SwitchSettles(w, o)
  /\ \/ o = "ok" /\ NextTrunk(w) /\ UNCHANGED status
     \/ o = "ok" /\ job[w].todo = {} /\ CreateEnd(w, "waiting-for-robot")
     \/ o # "ok" /\ CreateEnd(w, "error")
  /\ UNCHANGED <<live, net, cred, used, role, owner>>

(***************************************************************************)
(* remove                                                                  *)
(***************************************************************************)
\* Mistake: the key is deleted first.
RemoveStartKeyFirst(w, n) ==
  /\ Ready(w, "idle")
  /\ n \in live
  /\ NextPort(w, [Idle EXCEPT !.net = n, !.todo = {p \in Ports : owner[p] = n}])
  /\ cred' = cred \ {n}
  /\ UNCHANGED <<live, net, status, used, role, owner, hardware>>

RemoveStart(w, n) ==
  /\ Ready(w, "idle")
  /\ n \in live
  /\ NextPort(w, [Idle EXCEPT !.net = n, !.todo = {p \in Ports : owner[p] = n}])
  /\ UNCHANGED <<database, hardware>>

\* Mistake: no clearTeamFromPorts and no ON DELETE SET NULL.
DeleteRowOnly(n) == live' = live \ {n} /\ UNCHANGED owner

\* The second transaction: unassign whatever still names the network, delete it.
DeleteRow(n) ==
  /\ live' = live \ {n}
  /\ owner' = [p \in Ports |-> IF owner[p] = n THEN None ELSE owner[p]]

RemoveEnd(w) == Finish(w) /\ cred' = cred \ {job[w].net}

RemoveCleared(w) ==
  /\ Ready(w, "remove.clear")
  /\ LET n == job[w].net
     IN  \/ /\ RadioConfirms(w)
            /\ DeleteRow(n)
            /\ \/ BeginSync(w, "remove.trunk", live \ {n}) /\ UNCHANGED cred
               \/ Trunks = {} /\ RemoveEnd(w)
            /\ UNCHANGED status
         \/ /\ RadioRejects(w)
            /\ Abort(w)
            /\ UNCHANGED <<live, owner, cred>>
  /\ UNCHANGED <<net, used, role>>

RemoveTrunked(w, o) ==
  /\ Ready(w, "remove.trunk")
  /\ SwitchSettles(w, o)
  /\ \/ o = "ok" /\ NextTrunk(w) /\ UNCHANGED cred
     \/ o = "ok" /\ job[w].todo = {} /\ RemoveEnd(w)
     \/ o # "ok" /\ Finish(w) /\ UNCHANGED cred
  /\ UNCHANGED <<live, net, status, used, role, owner>>

(***************************************************************************)
(* refreshStatuses: the rows are listed once, then each station is asked,  *)
(* and the answer is compared with the status the row had in the list.     *)
(***************************************************************************)
RefreshStart(w) ==
  /\ Ready(w, "idle")
  /\ live # {}
  /\ Become(w, [Idle EXCEPT !.pc = "refresh",
                            !.seen = [n \in Ids |-> IF n \in live THEN status[n]
                                                                  ELSE "-"]])
  /\ UNCHANGED <<database, hardware>>

Listed(j) == {n \in Ids : j.seen[n] # "-"}

RefreshRow(w) ==
  /\ Ready(w, "refresh")
  /\ \E n \in Listed(job[w]) :
       /\ \A m \in Listed(job[w]) : net[n].number <= net[m].number
       /\ \/ \E s \in StationStatuses(net[n].slot) :
               IF job[w].seen[n] # s THEN SetStatus(n, s) ELSE UNCHANGED status
          \/ RadioUnreadable /\ SetStatus(n, "error")
       /\ IF Listed(job[w]) = {n} THEN Finish(w)
                                  ELSE Become(w, [job[w] EXCEPT !.seen[n] = "-"])
  /\ UNCHANGED <<live, net, cred, used, role, owner, hardware>>
=============================================================================
