--------------------------- MODULE PortAssignment ---------------------------
(***************************************************************************)
(* PortAssignmentService: assigning a switch port to a team network,       *)
(* returning it to the onboarding VLAN, changing its role, enabling,       *)
(* disabling and bouncing it.  Each operation is a chain of actions, one   *)
(* per await.  returnToOnboarding also runs inside TeamNetworkService's    *)
(* remove: then the job's net is the network being removed.                *)
(***************************************************************************)
EXTENDS FieldState

Assignable(p) == role[p] \in {"client", "unused"}

\* A read may be rejected only where writes may fail.
ReadsMayFail == Faults # {}

(***************************************************************************)
(* assignToTeam                                                            *)
(***************************************************************************)
AssignStart(w, p, n, bounce) ==
  /\ Ready(w, "idle")
  /\ n \in live
  /\ Become(w, [Idle EXCEPT !.pc = "assign.read", !.net = n, !.port = p,
                            !.flag = bounce])
  /\ UNCHANGED <<database, hardware>>

AssignCheck(w) ==
  /\ Ready(w, "assign.read")
  /\ LET p        == job[w].port
         previous == IF InMode(p, "access") /\ sw[p].vlan # None
                       THEN sw[p].vlan ELSE Onboarding
     IN  \/ /\ Assignable(p)
            /\ Become(w, [job[w] EXCEPT !.pc = "assign.vlan", !.vlan = previous])
         \/ ~Assignable(p) /\ Finish(w)
  /\ UNCHANGED <<database, hardware>>

AssignWritten(w, o) ==
  /\ Ready(w, "assign.vlan")
  /\ SwitchSettles(w, o)
  /\ LET j == job[w]
     IN  \/ /\ o = "ok"
            /\ ForeignKeyHolds(j.net)
            /\ UpsertPort(j.port, j.net, "client")
            /\ IF j.flag THEN Become(w, [j EXCEPT !.pc = "bounce"]) ELSE Finish(w)
         \/ /\ o = "ok"
            /\ ~ForeignKeyHolds(j.net)
            /\ Become(w, [j EXCEPT !.pc = "assign.undo"])
            /\ UNCHANGED <<owner, role>>
         \/ /\ o # "ok"
            /\ Finish(w)
            /\ UNCHANGED <<owner, role>>
  /\ UNCHANGED <<live, net, status, cred, used>>

AssignUndone(w, o) ==
  /\ Ready(w, "assign.undo")
  /\ SwitchSettles(w, o)
  /\ Finish(w)
  /\ UNCHANGED database

(***************************************************************************)
(* returnToOnboarding.  Abort is its rejection: standing alone it ends the *)
(* request, inside remove it lands in the catch that marks the network.    *)
(***************************************************************************)
Abort(w) ==
  /\ Finish(w)
  /\ IF job[w].net = None THEN UNCHANGED status ELSE SetStatus(job[w].net, "error")

ReturnStart(w, p, bounce) ==
  /\ Ready(w, "idle")
  /\ Become(w, [Idle EXCEPT !.pc = "return.read", !.port = p, !.flag = bounce])
  /\ UNCHANGED <<database, hardware>>

ReturnCheck(w) ==
  /\ Ready(w, "return.read")
  /\ \/ /\ Assignable(job[w].port)
        /\ Become(w, [job[w] EXCEPT !.pc = "return.vlan"])
        /\ UNCHANGED status
     \/ ~Assignable(job[w].port) /\ Abort(w)
  /\ UNCHANGED <<live, net, cred, used, role, owner, hardware>>

\* Mistake: a rejected write does not stop the sequence.
ReturnRegardless(w, o, pc, next) ==
  /\ Ready(w, pc)
  /\ SwitchSettles(w, o)
  /\ Become(w, [job[w] EXCEPT !.pc = next])
  /\ UNCHANGED <<database>>

\* The first two of its three consecutive writes: VLAN, then enable.
ReturnWritten(w, o, pc, next) ==
  /\ Ready(w, pc)
  /\ SwitchSettles(w, o)
  /\ \/ o = "ok" /\ Become(w, [job[w] EXCEPT !.pc = next]) /\ UNCHANGED status
     \/ o # "ok" /\ Abort(w)
  /\ UNCHANGED <<live, net, cred, used, role, owner>>

\* Mistake: the port is not enabled again.
ReturnVlanOnly(w, o) == ReturnWritten(w, o, "return.vlan", "return.flush")

ReturnVlan(w, o) == ReturnWritten(w, o, "return.vlan", "return.enable")

ReturnEnable(w, o) == ReturnWritten(w, o, "return.enable", "return.flush")

\* Mistakes: only the first listed port is returned; or the list never shrinks.
NextPortOnce(w, j) ==
  \/ /\ j.todo = {} \/ j.port # None
     /\ Become(w, [j EXCEPT !.pc = "remove.clear", !.port = None, !.todo = {}])
  \/ \E p \in Ports :
       /\ j.port = None
       /\ IsLeast(p, j.todo)
       /\ Become(w, [j EXCEPT !.pc = "return.read", !.port = p, !.todo = @ \ {p}])

NextPortAgain(w, j) ==
  \/ /\ j.todo = {}
     /\ Become(w, [j EXCEPT !.pc = "remove.clear", !.port = None])
  \/ \E p \in Ports :
       /\ IsLeast(p, j.todo)
       /\ Become(w, [j EXCEPT !.pc = "return.read", !.port = p])

\* In remove: on to the next listed port, or clear the AP slot.
NextPort(w, j) ==
  \/ /\ j.todo = {}
     /\ Become(w, [j EXCEPT !.pc = "remove.clear", !.port = None])
  \/ \E p \in Ports :
       /\ IsLeast(p, j.todo)
       /\ Become(w, [j EXCEPT !.pc = "return.read", !.port = p, !.todo = @ \ {p}])

ReturnFlush(w, o) ==
  /\ Ready(w, "return.flush")
  /\ SwitchSettles(w, o)
  /\ \/ /\ o = "ok"
        /\ UpsertPort(job[w].port, None, "client")
        /\ IF job[w].net # None THEN NextPort(w, job[w])
           ELSE IF job[w].flag THEN Become(w, [job[w] EXCEPT !.pc = "bounce"])
           ELSE Finish(w)
        /\ UNCHANGED status
     \/ o # "ok" /\ Abort(w) /\ UNCHANGED <<owner, role>>
  /\ UNCHANGED <<live, net, cred, used>>

(***************************************************************************)
(* setRole: the stored team is read before the write and stored after it.  *)
(***************************************************************************)
RoleStart(w, p, r) ==
  /\ Ready(w, "idle")
  /\ Become(w, [Idle EXCEPT !.pc = "role.read", !.port = p, !.role = r])
  /\ UNCHANGED <<database, hardware>>

RoleCheck(w) ==
  /\ Ready(w, "role.read")
  /\ LET j     == job[w]
         taken == owner[j.port] # None /\ j.role # "client"
     IN  \/ /\ ~taken
            /\ Become(w, [j EXCEPT !.pc = "role.write", !.net = owner[j.port],
                                   !.vlans = IF j.role = "ap-trunk"
                                               THEN AllocatedVlans(live) ELSE {}])
         \/ taken /\ Finish(w)
  /\ UNCHANGED <<database, hardware>>

RoleWritten(w, o) ==
  /\ Ready(w, "role.write")
  /\ SwitchSettles(w, o)
  /\ Finish(w)
  /\ \/ /\ o = "ok" /\ ForeignKeyHolds(job[w].net)
        /\ UpsertPort(job[w].port, job[w].net, job[w].role)
     \/ /\ o # "ok" \/ ~ForeignKeyHolds(job[w].net)
        /\ UNCHANGED <<owner, role>>
  /\ UNCHANGED <<live, net, status, cred, used>>

(***************************************************************************)
(* setEnabled and bounce: a read that only checks the port, then a write.  *)
(***************************************************************************)
EnableStart(w, p, enabled) ==
  /\ Ready(w, "idle")
  /\ Become(w, [Idle EXCEPT !.pc = "enable.read", !.port = p, !.flag = enabled])
  /\ UNCHANGED <<database, hardware>>

BounceStart(w, p) ==
  /\ Ready(w, "idle")
  /\ Become(w, [Idle EXCEPT !.pc = "bounce.read", !.port = p])
  /\ UNCHANGED <<database, hardware>>

PortRead(w) ==
  /\ \/ /\ Ready(w, "enable.read")
        /\ Become(w, [job[w] EXCEPT !.pc = "enable.write"])
     \/ /\ Ready(w, "bounce.read")
        /\ Become(w, [job[w] EXCEPT !.pc = "bounce"])
  /\ UNCHANGED <<database, hardware>>

\* The last await of setEnabled, of bounce, and of an assign or a return
\* that bounces: whatever its outcome, the request is over.
LastWrite(w, o) ==
  /\ \E pc \in {"enable.write", "bounce"} : Ready(w, pc)
  /\ SwitchSettles(w, o)
  /\ Finish(w)
  /\ UNCHANGED database

\* getPort is rejected: INVALID_PORT.
PortUnreadable(w) ==
  /\ ReadsMayFail
  /\ \E pc \in {"assign.read", "return.read", "role.read", "enable.read",
                "bounce.read"} : Ready(w, pc)
  /\ IF job[w].pc = "return.read" THEN Abort(w) ELSE Finish(w) /\ UNCHANGED status
  /\ UNCHANGED <<live, net, cred, used, role, owner, hardware>>
=============================================================================
