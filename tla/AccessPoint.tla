----------------------------- MODULE AccessPoint -----------------------------
(***************************************************************************)
(* VH113AccessPoint and the radio behind it.  The radio has no write for   *)
(* one slot: every write sends a document with all of them, rebuilt from   *)
(* the configurations the adapter remembers.  A write waits for its turn,  *)
(* reads the status, checks that it would not drop a station, posts the    *)
(* document, and polls until the radio is as posted or the time is up.     *)
(* The radio applies the document it accepted last when it is ready, even  *)
(* if the write gave up on it by then, or reports an error and drops it.   *)
(*                                                                         *)
(* RadioFaults: with "lost" a request may fail before the radio sees it,   *)
(* with "late" a poll may fail or run out of time after the radio did.     *)
(***************************************************************************)
EXTENDS FieldState

VlanBanks == {{10, 20, 30}, {40, 50, 60}, {70, 80, 90}}

SameBank(u, v) == \E bank \in VlanBanks : u \in bank /\ v \in bank

\* What apply insists on: one bank for each alliance, and not the same one.
BanksAllow(doc) ==
  \A s, t \in Slots :
    doc[s] # None /\ doc[t] # None =>
      (SameBank(net[doc[s]].vlan, net[doc[t]].vlan)
         <=> (s \in RedSlots <=> t \in RedSlots))

SlotOf(j) == net[j.net].slot

\* The document configureTeam or clearTeam sends for job j.
NextDocument(j) ==
  [known EXCEPT ![SlotOf(j)] = IF j.pc = "create.config" THEN j.net ELSE None]

\* Mistake: the other stations are not looked at.
PreservesNothing(s) == TRUE

\* assertCanPreserveOtherStations, when slot s is about to change.
CanPreserveOthers(s) == \A t \in Slots \ {s} : ap[t] # None => known[t] # None

\* The radio is serving the write of w, which has come to stage st.
AtStage(w, st) == OnRadio(job[w]) /\ Serves(apq, w) /\ stage = st

WriteAllowed(j) == CanPreserveOthers(SlotOf(j)) /\ BanksAllow(NextDocument(j))

RadioChecks(w) ==
  /\ AtStage(w, "status")
  /\ WriteAllowed(job[w])
  /\ stage' = "post"
  /\ UNCHANGED <<database, sw, ap, want, known, requests>>

RadioPosts(w) ==
  /\ AtStage(w, "post")
  /\ want' = NextDocument(job[w])
  /\ stage' = "apply"
  /\ UNCHANGED <<database, sw, ap, known, requests>>

RadioApplies ==
  /\ want # ap
  /\ ap' = want
  /\ UNCHANGED <<database, sw, want, known, stage, requests>>

RadioDrops ==
  /\ "late" \in RadioFaults
  /\ want # ap
  /\ want' = ap
  /\ UNCHANGED <<database, sw, ap, known, stage, requests>>

\* waitForApplied sees the document on the air: the adapter remembers it.
RadioConfirms(w) ==
  /\ AtStage(w, "apply")
  /\ ap = want /\ ap = NextDocument(job[w])
  /\ known' = ap
  /\ stage' = "status"
  /\ UNCHANGED <<sw, ap, want>>

\* Mistake: the poll for the document to be applied has no deadline.
RejectsBeforePost(w) ==
  /\ \/ AtStage(w, "status") /\ ~WriteAllowed(job[w])
     \/ "lost" \in RadioFaults /\ \E st \in {"status", "post"} : AtStage(w, st)
  /\ stage' = "status"
  /\ UNCHANGED <<sw, ap, want, known>>

\* The write is rejected: refused, unreachable, or given up after the post.
RadioRejects(w) ==
  /\ \/ AtStage(w, "status") /\ ~WriteAllowed(job[w])
     \/ "lost" \in RadioFaults /\ \E st \in {"status", "post"} : AtStage(w, st)
     \/ "late" \in RadioFaults /\ AtStage(w, "apply")
  /\ stage' = "status"
  /\ UNCHANGED <<sw, ap, want, known>>

(***************************************************************************)
(* getStationStatus.  While the radio has not applied its document, and    *)
(* where the adapter knows a team the radio does not show, the answer      *)
(* depends on the firmware: the practice one keeps placeholder stations.   *)
(***************************************************************************)
MayBeAvailable(s) == ap[s] = None /\ (want = ap \/ known[s] = None)

MustBeAvailable(s) == ap[s] = None /\ want = ap /\ known[s] = None

\* What a row whose slot is s may become.  "offline" stands for every state
\* but associated and configured: the slot is free, or reports an error.
StationStatuses(s) ==
  IF ap[s] = None THEN {"offline"} ELSE {"waiting-for-robot", "online", "offline"}

\* The status of the radio cannot be read.
RadioUnreadable == RadioFaults # {}

\* start-up: initialConfigurations has every row whose key is stored.
InitialConfigurations ==
  [s \in Slots |->
     IF \E n \in live \cap cred : net[n].slot = s
       THEN CHOOSE n \in live \cap cred : net[n].slot = s ELSE None]
=============================================================================
