--------------------------- MODULE VgPoll_proof ---------------------------
(***************************************************************************)
(* Proofs about VgPoll, for any bounds and process ids: the references to  *)
(* a group are those of the manager, the bus, sources, helpers, calls and  *)
(* volumes, and a poll applies no result but that of the last one, up to   *)
(* the reuse of process ids.                                               *)
(***************************************************************************)
EXTENDS VgPoll, FiniteSetTheorems, TLAPS

Records == [use : {"none", "poll", "update"}, pid : Pids \union {0},
            state : HelperStates, asOf : Nat]

(* Every helper was started for a request of its own. *)
StartsRequested == started + idles + Count(poll_requested) <= polls + updates

Bounded == polls <= MaxPolls /\ updates <= MaxUpdates

(* Helpers are numbered in order, one that is at work has a process id,    *)
(* and poll_pid is that of the poll started last. *)
HelpersInOrder ==
    /\ latest <= started
    /\ \A h \in Helpers : h > started => helper[h].state = "none"
    /\ \A h \in Undispatched : helper[h].pid \in Pids
    /\ poll_pid # 0 => latest # 0 /\ helper[latest].pid = poll_pid

(* The group is put on the bus once. *)
ShownOnce == ~(exported /\ need_publish)

Inv == /\ TypeOK /\ Bounded /\ StartsRequested /\ HelpersInOrder
       /\ RefsExact /\ ShownOnce
-----------------------------------------------------------------------------
LEMMA HelpersFinite ==
    /\ Helpers \subseteq Nat \ {0}
    /\ \A S \in SUBSET Helpers : IsFiniteSet(S) /\ Cardinality(S) \in Nat
<1>1. IsFiniteSet(Helpers) /\ Helpers \subseteq Nat \ {0}
  BY FS_Interval, BoundsAssumption DEF Helpers
<1> QED
  BY <1>1, FS_Subset, FS_CardinalityType

(* Some volumes of a result are a number of them. *)
LEMMA VolumesFinite == \A S \in SUBSET LVs : Cardinality(S) \in Nat
  BY VolumesAssumption, FS_Subset, FS_CardinalityType

(* What the bus, calls and volumes hold is a number, and changes with them. *)
LEMMA HoldersCounted ==
    ASSUME TypeOK
    PROVE  Holders \in Nat /\ (UNCHANGED object => Holders' = Holders)
  BY DEF TypeOK, Holders, Count, object

LEMMA InitInv == Init => Inv
<1> SUFFICES ASSUME Init PROVE Inv
  OBVIOUS
<1>1. helper \in [Helpers -> Records]
  BY DEF Init, Records, NoHelper, HelperStates
<1>2. \A h \in Helpers : helper[h].state = "none"
  BY DEF Init, NoHelper
<1>3. Cardinality(Undispatched) = 0
  BY <1>2, FS_EmptySet DEF Undispatched
<1> DEFINE JustMade == /\ need_publish = TRUE /\ exported = FALSE
                       /\ known = 0
                       /\ logical_volumes = {} /\ made = 0
                       /\ refs = 1
           OnTheBus == /\ need_publish = FALSE /\ exported = TRUE
                       /\ known = 1
                       /\ logical_volumes \in SUBSET LVs
                       /\ made = Cardinality(logical_volumes)
                       /\ refs = 2 + made
<1>9. JustMade \/ OnTheBus
  BY DEF Init
<1>10. made \in Nat
  BY <1>9, VolumesFinite
<1>4. TypeOK
  <2>1. /\ logical_volumes \in SUBSET LVs /\ known \in Nat
        /\ need_publish \in BOOLEAN /\ exported \in BOOLEAN /\ refs \in Nat
    <3>1. CASE JustMade
      BY <3>1
    <3>2. CASE OnTheBus
      <4>1. refs = 2 + made
        BY <3>2
      <4>2. refs \in Nat
        BY <1>10, <4>1
      <4> QED
        BY <3>2, <4>2
    <3> QED
      BY <1>9, <3>1, <3>2
  <2> QED
    BY <1>1, <1>10, <2>1 DEF Init, TypeOK, Records
<1>5. Bounded /\ StartsRequested
  BY BoundsAssumption DEF Init, Bounded, StartsRequested, Count
<1>7. RefsExact
  <2>1. Count(~disposed) = 1 /\ idles = 0 /\ Count(timer) = 0 /\ waits = 0
    BY DEF Init, Count
  <2>2. CASE JustMade
    <3>1. Count(exported) = 0
      BY <2>2 DEF Count
    <3> QED
      BY <1>3, <2>1, <2>2, <3>1 DEF RefsExact, Holders
  <2>3. CASE OnTheBus
    <3>1. Count(exported) = 1
      BY <2>3 DEF Count
    <3> QED
      BY <1>3, <1>10, <2>1, <2>3, <3>1 DEF RefsExact, Holders
  <2> QED
    BY <1>9, <2>2, <2>3
<1>6. HelpersInOrder
  BY <1>2 DEF Init, HelpersInOrder, Undispatched
<1>8. ShownOnce
  BY DEF Init, ShownOnce
<1> QED
  BY <1>4, <1>5, <1>6, <1>7, <1>8 DEF Inv

(* What interrupting helpers does not change. *)
LEMMA InterruptKeeps ==
    ASSUME helper \in [Helpers -> Records], NEW p
    PROVE  /\ Interrupt(p) \in [Helpers -> Records]
           /\ \A h \in Helpers :
                 /\ Interrupt(p)[h].pid = helper[h].pid
                 /\ Interrupt(p)[h].state \in {"none", "done", "lost"} <=>
                       helper[h].state \in {"none", "done", "lost"}
                 /\ helper[h].state = "none" => Interrupt(p)[h].state = "none"
<1>1. \A h \in Helpers : Interrupt(p)[h] \in Records
  BY DEF Interrupt, Records, Live, HelperStates
<1>2. Interrupt(p) \in [Helpers -> Records]
  BY <1>1 DEF Interrupt
<1> QED
  BY <1>2 DEF Interrupt, Live, Records

(* One more helper, at work or lost at once. *)
LEMMA OneMoreHelper ==
    ASSUME Inv, started + 1 \in Helpers,
           NEW hs \in [Helpers -> Records],
           \A h \in Helpers :
              /\ hs[h].pid = helper[h].pid
              /\ hs[h].state \in {"none", "done", "lost"} <=>
                    helper[h].state \in {"none", "done", "lost"}
              /\ helper[h].state = "none" => hs[h].state = "none",
           NEW u \in {"poll", "update"}
    PROVE  /\ \A p \in Pids : Spawn(hs, u, p) =>
                 /\ started' = started + 1
                 /\ helper' \in [Helpers -> Records]
                 /\ \A h \in Helpers \ {started + 1} : helper'[h].pid = helper[h].pid
                 /\ \A h \in Helpers : h > started' => helper'[h].state = "none"
                 /\ helper'[started'].pid = p
                 /\ Undispatched' = Undispatched \union {started'}
                 /\ started' \notin Undispatched
           /\ SpawnFails(hs, u) =>
                 /\ started' = started + 1
                 /\ helper' \in [Helpers -> Records]
                 /\ \A h \in Helpers \ {started + 1} : helper'[h].pid = helper[h].pid
                 /\ \A h \in Helpers : h > started' => helper'[h].state = "none"
                 /\ Undispatched' = Undispatched
<1>1. started \in Nat /\ \A h \in Helpers : h \in Nat
  BY HelpersFinite DEF Inv, TypeOK
<1>2. \A h \in Helpers : h > started => helper[h].state = "none"
  BY DEF Inv, HelpersInOrder
<1>3. started + 1 \notin Undispatched
  BY <1>1, <1>2 DEF Undispatched
<1>4. ASSUME NEW p \in Pids, Spawn(hs, u, p)
      PROVE  /\ started' = started + 1
             /\ helper' \in [Helpers -> Records]
             /\ \A h \in Helpers \ {started + 1} : helper'[h].pid = helper[h].pid
             /\ \A h \in Helpers : h > started' => helper'[h].state = "none"
             /\ helper'[started'].pid = p
             /\ Undispatched' = Undispatched \union {started'}
             /\ started' \notin Undispatched
  <2> DEFINE r == [use |-> u, pid |-> p, state |-> "running", asOf |-> 0]
  <2>1. r \in Records
    BY DEF Records, HelperStates
  <2>2. started' = started + 1 /\ helper' = [hs EXCEPT ![started + 1] = r]
    BY <1>4 DEF Spawn
  <2>3. helper' \in [Helpers -> Records]
    BY <2>1, <2>2
  <2>4. /\ helper'[started + 1] = r
        /\ \A h \in Helpers \ {started + 1} : helper'[h] = hs[h]
    BY <2>2
  <2>5. Undispatched' = Undispatched \union {started'}
    BY <2>2, <2>4 DEF Undispatched
  <2>6. \A h \in Helpers : h > started' => helper'[h].state = "none"
    BY <1>1, <1>2, <2>2, <2>4
  <2> QED
    BY <1>3, <2>2, <2>3, <2>4, <2>5, <2>6
<1>5. ASSUME SpawnFails(hs, u)
      PROVE  /\ started' = started + 1
             /\ helper' \in [Helpers -> Records]
             /\ \A h \in Helpers \ {started + 1} : helper'[h].pid = helper[h].pid
             /\ \A h \in Helpers : h > started' => helper'[h].state = "none"
             /\ Undispatched' = Undispatched
  <2> DEFINE r == [use |-> u, pid |-> 0, state |-> "lost", asOf |-> 0]
  <2>1. r \in Records
    BY DEF Records, HelperStates
  <2>2. started' = started + 1 /\ helper' = [hs EXCEPT ![started + 1] = r]
    BY <1>5 DEF SpawnFails
  <2>3. helper' \in [Helpers -> Records]
    BY <2>1, <2>2
  <2>4. /\ helper'[started + 1] = r
        /\ \A h \in Helpers \ {started + 1} : helper'[h] = hs[h]
    BY <2>2
  <2>5. Undispatched' = Undispatched
    BY <1>3, <2>2, <2>4 DEF Undispatched
  <2>6. \A h \in Helpers : h > started' => helper'[h].state = "none"
    BY <1>1, <1>2, <2>2, <2>4
  <2> QED
    BY <2>2, <2>3, <2>4, <2>5, <2>6
<1> QED
  BY <1>4, <1>5

(* A poll that starts leaves its timer and its helper, if it has one, to   *)
(* hold references, and gives back one. *)
LEMMA PollNowKeeps ==
    ASSUME Inv, started + 1 \in Helpers, PollNow(1)
    PROVE  /\ started' = started + 1 /\ latest' = started' /\ timer' = TRUE
           /\ helper' \in [Helpers -> Records]
           /\ poll_pid' \in Pids \union {0}
           /\ HelpersInOrder'
           /\ refs' = refs + Cardinality(Undispatched') - Cardinality(Undispatched)
<1> DEFINE hs == Interrupt(poll_pid)
<1>1. helper \in [Helpers -> Records] /\ refs \in Nat /\ started \in Nat
  BY HelpersFinite DEF Inv, TypeOK, Records
<1>2. Undispatched \in SUBSET Helpers /\ \A h \in Undispatched : helper[h].pid \in Pids
  BY DEF Undispatched, Inv, HelpersInOrder
<1>3. IsFiniteSet(Undispatched) /\ Cardinality(Undispatched) \in Nat
  BY <1>2, HelpersFinite
<1>4. /\ hs \in [Helpers -> Records]
      /\ \A h \in Helpers :
            /\ hs[h].pid = helper[h].pid
            /\ hs[h].state \in {"none", "done", "lost"} <=>
                  helper[h].state \in {"none", "done", "lost"}
            /\ helper[h].state = "none" => hs[h].state = "none"
  BY <1>1, InterruptKeeps
<1>5. FreePids(hs) \subseteq Pids
  BY DEF FreePids
<1> HIDE DEF hs
<1>6. CASE \E p \in FreePids(hs) : /\ Spawn(hs, "poll", p)
                                   /\ poll_pid' = p
                                   /\ refs' = refs + 2 - 1
  <2>1. PICK p \in FreePids(hs) : /\ Spawn(hs, "poll", p)
                                  /\ poll_pid' = p
                                  /\ refs' = refs + 2 - 1
    BY <1>6
  <2>2. p \in Pids /\ p # 0
    BY <1>5, PidsAssumption
  <2>3. /\ started' = started + 1
        /\ helper' \in [Helpers -> Records]
        /\ \A h \in Helpers \ {started + 1} : helper'[h].pid = helper[h].pid
        /\ \A h \in Helpers : h > started' => helper'[h].state = "none"
        /\ helper'[started'].pid = p
        /\ Undispatched' = Undispatched \union {started'}
        /\ started' \notin Undispatched
    BY <2>1, <2>2, <1>4, OneMoreHelper
  <2>4. latest' = started' /\ timer' = TRUE
    BY <2>3 DEF PollNow
  <2>5. Cardinality(Undispatched') = Cardinality(Undispatched) + 1
    BY <2>3, <1>3, FS_AddElement
  <2>6. \A h \in Undispatched' : helper'[h].pid \in Pids
    BY <2>2, <2>3, <1>2
  <2>7. HelpersInOrder'
    BY <2>1, <2>2, <2>3, <2>4, <2>6, <1>1 DEF HelpersInOrder
  <2> QED
    BY <2>1, <2>2, <2>3, <2>4, <2>5, <2>7, <1>1, <1>3
<1>7. CASE /\ SpawnFails(hs, "poll")
           /\ poll_pid' = 0
           /\ refs' = refs + 1 - 1
  <2>1. /\ started' = started + 1
        /\ helper' \in [Helpers -> Records]
        /\ \A h \in Helpers \ {started + 1} : helper'[h].pid = helper[h].pid
        /\ \A h \in Helpers : h > started' => helper'[h].state = "none"
        /\ Undispatched' = Undispatched
    BY <1>4, <1>7, OneMoreHelper
  <2>2. latest' = started' /\ timer' = TRUE
    BY <2>1 DEF PollNow
  <2>3. started + 1 \notin Undispatched
    BY <1>1 DEF Inv, HelpersInOrder, Undispatched
  <2>4. HelpersInOrder'
    BY <1>1, <1>2, <1>7, <2>1, <2>2, <2>3 DEF HelpersInOrder
  <2> QED
    BY <1>1, <1>3, <1>7, <2>1, <2>2, <2>4
<1> QED
  BY <1>6, <1>7 DEF PollNow, hs

(* There is room for the helper of every request. *)
LEMMA RoomForHelper ==
    ASSUME Inv, idles > 0 \/ poll_requested \/ updates < MaxUpdates
    PROVE  started + 1 \in Helpers
  BY BoundsAssumption, HelpersFinite
     DEF Inv, TypeOK, Bounded, StartsRequested, Count, Helpers

(* A helper that is still undispatched changes state. *)
LEMMA HelperMoves ==
    ASSUME Inv, NEW h \in Undispatched, NEW s \in HelperStates \ {"none"},
           NEW v \in Nat,
           helper' = [helper EXCEPT ![h] = [@ EXCEPT !.state = s, !.asOf = v]]
    PROVE  /\ helper' \in [Helpers -> Records]
           /\ \A g \in Helpers : helper'[g].pid = helper[g].pid
           /\ \A g \in Helpers : helper[g].state = "none" <=> helper'[g].state = "none"
           /\ Undispatched' = IF s \in {"done", "lost"}
                              THEN Undispatched \ {h} ELSE Undispatched
<1>1. helper \in [Helpers -> Records] /\ h \in Helpers /\ helper[h].state # "none"
  BY DEF Inv, TypeOK, Records, Undispatched
<1>2. /\ helper'[h] = [helper[h] EXCEPT !.state = s, !.asOf = v]
      /\ \A g \in Helpers \ {h} : helper'[g] = helper[g]
  BY <1>1
<1>3. helper'[h] \in Records
  BY <1>1, <1>2 DEF Records
<1>4. helper'[h].pid = helper[h].pid /\ helper'[h].state = s
  BY <1>1, <1>2 DEF Records
<1>5. helper' \in [Helpers -> Records]
  BY <1>1, <1>3
<1> QED
  BY <1>1, <1>2, <1>4, <1>5 DEF Undispatched
-----------------------------------------------------------------------------
(* Every step keeps the invariant. *)

LEMMA ChangeInv == Inv /\ Change => Inv'
<1> SUFFICES ASSUME Inv, Change PROVE Inv'
  OBVIOUS
<1>1. Undispatched' = Undispatched
  BY DEF Change, Undispatched
<1> QED
  BY <1>1
     DEF Change, Inv, TypeOK, Bounded, StartsRequested, HelpersInOrder, RefsExact,
         object, Holders, ShownOnce

(* A helper that stays undispatched disturbs nothing else. *)
LEMMA HelperStaysInv ==
    ASSUME Inv, NEW h \in Undispatched,
           NEW s \in HelperStates \ {"none", "done", "lost"}, NEW v \in Nat,
           helper' = [helper EXCEPT ![h] = [@ EXCEPT !.state = s, !.asOf = v]],
           UNCHANGED <<version, known, by, polls, updates, target, idles, timer,
                       poll_requested, poll_pid, started, latest, refs, disposed, object>>
    PROVE  Inv'
<1>1. /\ helper' \in [Helpers -> Records]
      /\ \A g \in Helpers : helper'[g].pid = helper[g].pid
      /\ \A g \in Helpers : helper[g].state = "none" <=> helper'[g].state = "none"
      /\ Undispatched' = Undispatched
  BY HelperMoves
<1>2. TypeOK'
  BY <1>1 DEF Inv, TypeOK, Records, object
<1>3. HelpersInOrder'
  <2>1. latest \in {0} \union Helpers
    BY DEF Inv, TypeOK
  <2> QED
    BY <1>1, <2>1, HelpersFinite DEF Inv, HelpersInOrder, Undispatched
<1> QED
  BY <1>1, <1>2, <1>3, HoldersCounted
     DEF Inv, Bounded, StartsRequested, RefsExact, ShownOnce, object

LEMMA HelperGoesInv == ASSUME Inv, NEW h \in Helpers, HelperGoes(h) PROVE Inv'
<1>1. helper \in [Helpers -> Records] /\ version \in Nat /\ helper[h].asOf \in Nat
  BY DEF Inv, TypeOK, Records
<1>2. h \in Undispatched
  BY DEF HelperGoes, Undispatched
<1>3. CASE helper' = [helper EXCEPT ![h].state = "exited", ![h].asOf = version]
  <2>1. helper' = [helper EXCEPT ![h] = [@ EXCEPT !.state = "exited", !.asOf = version]]
    BY <1>1, <1>3
  <2> QED
    BY <1>1, <1>2, <2>1, HelperStaysInv DEF HelperGoes, HelperStates
<1>4. CASE helper' = [helper EXCEPT ![h].state = "failed"]
  <2>1. helper' = [helper EXCEPT ![h] = [@ EXCEPT !.state = "failed", !.asOf = helper[h].asOf]]
    BY <1>1, <1>4 DEF Records
  <2> QED
    BY <1>1, <1>2, <2>1, HelperStaysInv DEF HelperGoes, HelperStates
<1> QED
  BY <1>3, <1>4 DEF HelperGoes

LEMMA ReapInv == ASSUME Inv, NEW h \in Helpers, Reap(h) PROVE Inv'
<1>1. helper \in [Helpers -> Records] /\ helper[h].asOf \in Nat
  BY DEF Inv, TypeOK, Records
<1>2. h \in Undispatched
  BY DEF Reap, Ended, Undispatched
<1>3. UNCHANGED <<version, known, by, polls, updates, target, idles, timer,
                  poll_requested, poll_pid, started, latest, refs, disposed, object>>
  BY DEF Reap
<1>4. PICK s \in {"reaped", "reaped-failed"} :
         helper' = [helper EXCEPT ![h] = [@ EXCEPT !.state = s, !.asOf = helper[h].asOf]]
  BY <1>1 DEF Reap, Records
<1>5. s \in HelperStates \ {"none", "done", "lost"}
  BY DEF HelperStates
<1> QED
  BY <1>1, <1>2, <1>3, <1>4, <1>5, HelperStaysInv

LEMMA PollInv == Inv /\ Poll => Inv'
<1> SUFFICES ASSUME Inv, Poll PROVE Inv'
  OBVIOUS
<1>1. Undispatched' = Undispatched /\ Cardinality(Undispatched) \in Nat
  BY HelpersFinite DEF Poll, Undispatched
<1>2. TypeOK' /\ Bounded'
  BY BoundsAssumption DEF Poll, Inv, TypeOK, Bounded, object
<1>3. StartsRequested' /\ HelpersInOrder'
  BY <1>1, HelpersFinite DEF Poll, Inv, TypeOK, StartsRequested, HelpersInOrder, Count
<1>4. RefsExact'
  <2>1. /\ Holders \in Nat /\ Holders' = Holders
        /\ idles \in Nat /\ refs' = refs + 1 /\ idles' = idles + 1
        /\ timer' = timer /\ disposed' = disposed
    BY HoldersCounted DEF Poll, Inv, TypeOK
  <2> QED
    BY <1>1, <2>1 DEF Inv, RefsExact, Count
<1> QED
  BY <1>2, <1>3, <1>4 DEF Inv, ShownOnce, Poll, object

(* The type of the variables a poll leaves alone, and of its own. *)
LEMMA PollStarts ==
    ASSUME Inv, started + 1 \in Helpers, PollNow(1),
           UNCHANGED <<version, known, by, polls, updates, target, disposed, object>>,
           \/ timer /\ poll_requested /\ idles' = idles /\ poll_requested' = FALSE
           \/ /\ ~timer /\ idles > 0 /\ idles' = idles - 1
              /\ poll_requested' = poll_requested
    PROVE  TypeOK' /\ Bounded' /\ StartsRequested' /\ HelpersInOrder'
<1>1. /\ started' = started + 1 /\ latest' = started' /\ timer' = TRUE
      /\ helper' \in [Helpers -> Records]
      /\ poll_pid' \in Pids \union {0}
      /\ HelpersInOrder'
      /\ refs' = refs + Cardinality(Undispatched') - Cardinality(Undispatched)
  BY PollNowKeeps
<1>2. refs' \in Nat
  <2>1. Cardinality(Undispatched) \in Nat /\ Cardinality(Undispatched') \in Nat
    <3>1. Undispatched \in SUBSET Helpers /\ Undispatched' \in SUBSET Helpers
      BY DEF Undispatched
    <3> QED
      BY <3>1, HelpersFinite
  <2>2. /\ refs = Count(~disposed) + idles + Count(timer) + Cardinality(Undispatched)
                  + Holders
        /\ idles \in Nat /\ Holders \in Nat
    BY HoldersCounted DEF Inv, RefsExact, TypeOK
  <2> QED
    BY <1>1, <2>1, <2>2 DEF Count
<1>3. poll_requested' \in BOOLEAN
  BY DEF Inv, TypeOK
<1>4. idles' \in Nat
  BY DEF Inv, TypeOK
<1>5. TypeOK'
  BY <1>1, <1>2, <1>3, <1>4 DEF Inv, TypeOK, Records, object
<1>6. Bounded' /\ StartsRequested'
  BY <1>1, HelpersFinite DEF Inv, TypeOK, Bounded, StartsRequested, Count
<1> QED
  BY <1>1, <1>5, <1>6

LEMMA PollInMainInv == Inv /\ PollInMain => Inv'
<1> SUFFICES ASSUME Inv, PollInMain PROVE Inv'
  OBVIOUS
<1>1. Undispatched \in SUBSET Helpers /\ Undispatched' \in SUBSET Helpers
  BY DEF Undispatched
<1>2. Cardinality(Undispatched) \in Nat /\ Cardinality(Undispatched') \in Nat
  BY <1>1, HelpersFinite
<1>3. /\ refs = Count(~disposed) + idles + Count(timer) + Cardinality(Undispatched)
                + Holders
      /\ idles \in Nat /\ Holders \in Nat
      /\ UNCHANGED object => Holders' = Holders
  BY HoldersCounted DEF Inv, RefsExact, TypeOK
<1>4. CASE timer
  <2>1. /\ Undispatched' = Undispatched /\ refs' = refs - 1 /\ poll_requested' = TRUE
        /\ UNCHANGED <<timer, poll_pid, started, latest, helper, version, known,
                       by, polls, updates, target, disposed, object>>
        /\ idles' = idles - 1 /\ idles > 0
    BY <1>4 DEF PollInMain, Undispatched
  <2>2. RefsExact'
    BY <1>2, <1>3, <2>1 DEF RefsExact, Count
  <2>3. refs' \in Nat
    BY <1>2, <1>3, <2>1, <1>4 DEF Count
  <2>4. TypeOK' /\ Bounded'
    BY <2>1, <2>3 DEF Inv, TypeOK, Bounded, object
  <2>5. StartsRequested' /\ HelpersInOrder'
    BY <2>1, HelpersFinite DEF Inv, TypeOK, StartsRequested, HelpersInOrder, Count
  <2> QED
    BY <2>1, <2>2, <2>4, <2>5 DEF Inv, ShownOnce, object
<1>5. CASE ~timer
  <2>1. /\ PollNow(1) /\ idles > 0 /\ idles' = idles - 1
        /\ UNCHANGED <<version, known, by, polls, updates, target, disposed, object,
                       poll_requested>>
    BY <1>5 DEF PollInMain
  <2>2. started + 1 \in Helpers
    BY <2>1, RoomForHelper
  <2>3. TypeOK' /\ Bounded' /\ StartsRequested' /\ HelpersInOrder'
    BY <1>5, <2>1, <2>2, PollStarts
  <2>4. refs' = refs + Cardinality(Undispatched') - Cardinality(Undispatched)
        /\ timer' = TRUE
    BY <2>1, <2>2, PollNowKeeps
  <2>5. RefsExact'
    BY <1>2, <1>3, <1>5, <2>1, <2>4 DEF RefsExact, Count
  <2> QED
    BY <2>1, <2>3, <2>5 DEF Inv, ShownOnce, object
<1> QED
  BY <1>4, <1>5

LEMMA PollTimeoutInv == Inv /\ PollTimeout => Inv'
<1> SUFFICES ASSUME Inv, PollTimeout PROVE Inv'
  OBVIOUS
<1>1. Undispatched \in SUBSET Helpers /\ Undispatched' \in SUBSET Helpers
  BY DEF Undispatched
<1>2. Cardinality(Undispatched) \in Nat /\ Cardinality(Undispatched') \in Nat
  BY <1>1, HelpersFinite
<1>3. /\ refs = Count(~disposed) + idles + Count(timer) + Cardinality(Undispatched)
                + Holders
      /\ idles \in Nat /\ Holders \in Nat
      /\ UNCHANGED object => Holders' = Holders
  BY HoldersCounted DEF Inv, RefsExact, TypeOK
<1>4. timer
  BY DEF PollTimeout
<1>5. CASE poll_requested
  <2>1. /\ PollNow(1) /\ poll_requested' = FALSE
        /\ UNCHANGED <<version, known, by, polls, updates, target, disposed, object,
                       idles>>
    BY <1>5 DEF PollTimeout
  <2>2. started + 1 \in Helpers
    BY <1>5, RoomForHelper
  <2>3. TypeOK' /\ Bounded' /\ StartsRequested' /\ HelpersInOrder'
    BY <1>4, <1>5, <2>1, <2>2, PollStarts
  <2>4. refs' = refs + Cardinality(Undispatched') - Cardinality(Undispatched)
        /\ timer' = TRUE
    BY <2>1, <2>2, PollNowKeeps
  <2>5. RefsExact'
    BY <1>2, <1>3, <1>4, <2>1, <2>4 DEF RefsExact, Count
  <2> QED
    BY <2>1, <2>3, <2>5 DEF Inv, ShownOnce, object
<1>6. CASE ~poll_requested
  <2>1. /\ Undispatched' = Undispatched /\ refs' = refs - 1 /\ timer' = FALSE
        /\ UNCHANGED <<poll_requested, poll_pid, started, latest, helper, version,
                       known, by, polls, updates, target, disposed, object, idles>>
    BY <1>6 DEF PollTimeout, Undispatched
  <2>2. RefsExact' /\ refs' \in Nat
    BY <1>2, <1>3, <1>4, <2>1 DEF RefsExact, Count
  <2>3. TypeOK' /\ Bounded' /\ StartsRequested' /\ HelpersInOrder'
    BY <2>1, <2>2, HelpersFinite
       DEF Inv, TypeOK, Bounded, StartsRequested, HelpersInOrder, Count, object
  <2> QED
    BY <2>1, <2>2, <2>3 DEF Inv, ShownOnce, object
<1> QED
  BY <1>5, <1>6

(* Putting the group on the bus adds the reference of the object there,    *)
(* unless it is there already. *)
LEMMA PublishKeeps ==
    ASSUME TypeOK, ShownOnce, Publish
    PROVE  /\ need_publish' \in BOOLEAN /\ exported' \in BOOLEAN
           /\ Count(exported') = Count(exported) + Count(need_publish)
           /\ Count(need_publish) \in Nat
<1>0. Count(TRUE) = 1 /\ Count(FALSE) = 0
  BY DEF Count
<1>1. need_publish' = FALSE /\ exported' = (exported \/ need_publish)
  BY DEF Publish
<1>2. \/ need_publish = TRUE /\ exported = FALSE
      \/ need_publish = FALSE /\ exported = TRUE
      \/ need_publish = FALSE /\ exported = FALSE
  BY DEF TypeOK, ShownOnce
<1>3. ASSUME need_publish = TRUE /\ exported = FALSE
      PROVE  /\ Count(exported') = Count(exported) + Count(need_publish)
             /\ Count(need_publish) \in Nat
  <2>1. exported' = TRUE
    BY <1>1, <1>3
  <2>2. Count(exported') = 1 /\ Count(exported) = 0 /\ Count(need_publish) = 1
    BY <1>0, <1>3, <2>1, Zenon
  <2> QED
    BY <2>2
<1>4. ASSUME need_publish = FALSE /\ exported = TRUE
      PROVE  /\ Count(exported') = Count(exported) + Count(need_publish)
             /\ Count(need_publish) \in Nat
  <2>1. exported' = TRUE
    BY <1>1, <1>4
  <2>2. Count(exported') = 1 /\ Count(exported) = 1 /\ Count(need_publish) = 0
    BY <1>0, <1>4, <2>1, Zenon
  <2> QED
    BY <2>2
<1>5. ASSUME need_publish = FALSE /\ exported = FALSE
      PROVE  /\ Count(exported') = Count(exported) + Count(need_publish)
             /\ Count(need_publish) \in Nat
  <2>1. exported' = FALSE
    BY <1>1, <1>5
  <2>2. Count(exported') = 0 /\ Count(exported) = 0 /\ Count(need_publish) = 0
    BY <1>0, <1>5, <2>1, Zenon
  <2> QED
    BY <2>2
<1>6. Count(exported') = Count(exported) + Count(need_publish) /\ Count(need_publish) \in Nat
  BY <1>2, <1>3, <1>4, <1>5
<1>7. need_publish' \in BOOLEAN /\ exported' \in BOOLEAN
  BY <1>1
<1> QED
  BY <1>6, <1>7

(* An update gives back the reference of its helper, and takes or gives    *)
(* back no other than those of the bus, of volumes and of calls. *)
LEMMA ShownKeeps ==
    ASSUME TypeOK, ShownOnce, NEW h \in Helpers, UpdateResult(h)
    PROVE  /\ refs' = refs - 1 + Holders' - Holders
           /\ Holders' \in Nat /\ Holders \in Nat
           /\ need_publish' \in BOOLEAN /\ exported' \in BOOLEAN
           /\ logical_volumes' \in SUBSET LVs /\ made' \in Nat /\ waits' \in Nat
           /\ ShownOnce'
<1>1. /\ need_publish' \in BOOLEAN /\ exported' \in BOOLEAN
      /\ Count(exported') = Count(exported) + Count(need_publish)
      /\ Count(need_publish) \in Nat /\ ShownOnce'
  BY PublishKeeps DEF UpdateResult, Publish, ShownOnce
<1>2. Count(exported) \in Nat /\ Count(exported') \in Nat
  BY <1>1 DEF Count
<1>3. refs \in Nat /\ made \in Nat /\ waits \in Nat /\ logical_volumes \in SUBSET LVs
  BY DEF TypeOK
<1>4. CASE /\ refs' = refs + Count(need_publish) - 1
           /\ UNCHANGED <<known, by, logical_volumes, made, waits>>
  BY <1>1, <1>2, <1>3, <1>4 DEF Holders
<1>5. CASE \E lvs \in SUBSET LVs, answered \in 0 .. waits :
              LET new == Cardinality(NewVolumes(lvs)) IN
              /\ answered > 0 => exported' /\ new > 0
              /\ logical_volumes' = lvs
              /\ made' = made + new
              /\ waits' = waits - answered
              /\ refs' = refs + Count(need_publish) + new - answered - 1
  <2>1. PICK lvs \in SUBSET LVs, answered \in 0 .. waits :
           /\ logical_volumes' = lvs
           /\ made' = made + Cardinality(lvs \ logical_volumes)
           /\ waits' = waits - answered
           /\ refs' = refs + Count(need_publish) + Cardinality(lvs \ logical_volumes)
                      - answered - 1
    BY <1>5 DEF NewVolumes
  <2>2. Cardinality(lvs \ logical_volumes) \in Nat
    BY VolumesFinite
  <2> QED
    BY <1>1, <1>2, <1>3, <2>1, <2>2 DEF Holders
<1> QED
  BY <1>4, <1>5 DEF UpdateResult

(* A result gives back the reference of its helper. *)
LEMMA ResultInv ==
    ASSUME Inv, NEW h \in Helpers, PollResult(h) \/ UpdateResult(h)
    PROVE  Inv'
<1>1. /\ helper \in [Helpers -> Records] /\ helper[h].asOf \in Nat
      /\ latest \in {0} \union Helpers
  BY DEF Inv, TypeOK, Records
<1>2. h \in Undispatched /\ Undispatched \in SUBSET Helpers
  BY DEF PollResult, UpdateResult, Dispatched, Reaped, Undispatched
<1>3. PICK s \in {"done", "lost"} :
         helper' = [helper EXCEPT ![h] = [@ EXCEPT !.state = s, !.asOf = helper[h].asOf]]
  BY <1>1 DEF PollResult, UpdateResult, Dispatched, Records
<1>4. s \in HelperStates \ {"none"}
  BY DEF HelperStates
<1>5. /\ helper' \in [Helpers -> Records]
      /\ \A g \in Helpers : helper'[g].pid = helper[g].pid
      /\ \A g \in Helpers : helper[g].state = "none" <=> helper'[g].state = "none"
      /\ Undispatched' = Undispatched \ {h}
  BY <1>1, <1>2, <1>3, <1>4, HelperMoves
<1>6. /\ Cardinality(Undispatched') = Cardinality(Undispatched) - 1
      /\ Cardinality(Undispatched) \in Nat /\ Cardinality(Undispatched') \in Nat
  <2>1. Undispatched' \in SUBSET Helpers
    BY <1>2, <1>5
  <2> QED
    BY <1>2, <1>5, <2>1, HelpersFinite, FS_RemoveElement
<1>7. /\ UNCHANGED <<version, polls, updates, target, idles, timer,
                     poll_requested, started, latest, disposed>>
      /\ PollResult(h) => UNCHANGED object /\ refs' = refs - 1
  BY DEF PollResult, UpdateResult
<1>8. /\ known' \in Nat /\ by' \in {"poll", "update", "nobody"}
      /\ poll_pid' \in {poll_pid, 0}
  <2>1. known \in Nat /\ by \in {"poll", "update", "nobody"}
    BY DEF Inv, TypeOK
  <2>2. CASE PollResult(h)
    BY <1>1, <2>1, <2>2 DEF PollResult
  <2>3. CASE UpdateResult(h)
    BY <1>1, <2>1, <2>3 DEF UpdateResult
  <2> QED
    BY <2>2, <2>3
<1>9. /\ refs' = refs - 1 + Holders' - Holders
      /\ Holders' \in Nat /\ Holders \in Nat
      /\ need_publish' \in BOOLEAN /\ exported' \in BOOLEAN
      /\ logical_volumes' \in SUBSET LVs /\ made' \in Nat /\ waits' \in Nat
      /\ ShownOnce'
  <2>1. TypeOK /\ refs \in Nat
    BY DEF Inv, TypeOK
  <2>2. CASE PollResult(h)
    BY <1>7, <2>1, <2>2, HoldersCounted DEF TypeOK, object, Inv, ShownOnce
  <2>3. CASE UpdateResult(h)
    BY <2>1, <2>3, ShownKeeps DEF Inv
  <2> QED
    BY <2>2, <2>3
<1>13. RefsExact' /\ refs' \in Nat
  <2>1. /\ refs = Count(~disposed) + idles + Count(timer) + Cardinality(Undispatched)
                  + Holders
        /\ idles \in Nat
    BY DEF Inv, RefsExact, TypeOK
  <2> QED
    BY <1>6, <1>7, <1>9, <2>1 DEF RefsExact, Count
<1>10. TypeOK'
  BY <1>5, <1>7, <1>8, <1>9, <1>13 DEF Inv, TypeOK, Records
<1>11. Bounded' /\ StartsRequested'
  BY <1>7 DEF Inv, Bounded, StartsRequested, Count
<1>12. HelpersInOrder'
  <2>1. /\ latest <= started
        /\ \A g \in Helpers : g > started => helper[g].state = "none"
        /\ \A g \in Undispatched : helper[g].pid \in Pids
        /\ poll_pid # 0 => latest # 0 /\ helper[latest].pid = poll_pid
    BY DEF Inv, HelpersInOrder
  <2>2. latest' = latest /\ started' = started
    BY <1>7
  <2>3. \A g \in Undispatched' : helper'[g].pid \in Pids
    BY <1>2, <1>5, <2>1
  <2>4. \A g \in Helpers : g > started' => helper'[g].state = "none"
    BY <1>5, <2>1, <2>2
  <2>5. poll_pid' # 0 => latest' # 0 /\ helper'[latest'].pid = poll_pid'
    BY <1>1, <1>5, <1>8, <2>1, <2>2
  <2> QED
    BY <2>1, <2>2, <2>3, <2>4, <2>5 DEF HelpersInOrder
<1> QED
  BY <1>9, <1>10, <1>11, <1>12, <1>13 DEF Inv

LEMMA StartUpdateInv == Inv /\ StartUpdate => Inv'
<1> SUFFICES ASSUME Inv, StartUpdate PROVE Inv'
  OBVIOUS
<1>1. /\ helper \in [Helpers -> Records]
      /\ refs = Count(~disposed) + idles + Count(timer) + Cardinality(Undispatched)
                + Holders
      /\ refs \in Nat /\ idles \in Nat /\ Holders \in Nat
  BY HoldersCounted DEF Inv, TypeOK, RefsExact, Records
<1>2. started + 1 \in Helpers /\ started \in Nat
  BY RoomForHelper, HelpersFinite DEF StartUpdate, Inv, TypeOK
<1>3. IsFiniteSet(Undispatched) /\ Cardinality(Undispatched) \in Nat
  BY HelpersFinite DEF Undispatched
<1>4. /\ UNCHANGED <<version, known, by, polls, target, idles, timer,
                     poll_requested, poll_pid, latest, disposed, logical_volumes, made, waits>>
      /\ updates' = updates + 1 /\ updates < MaxUpdates
  BY DEF StartUpdate
<1>5. \/ /\ \E p \in FreePids(helper) : Spawn(helper, "update", p)
         /\ refs' = refs + 1
         /\ UNCHANGED <<need_publish, exported>>
      \/ /\ SpawnFails(helper, "update")
         /\ Publish
         /\ refs' = refs + Count(need_publish)
  BY DEF StartUpdate
<1>6. /\ started' = started + 1
      /\ helper' \in [Helpers -> Records]
      /\ \A h \in Helpers \ {started + 1} : helper'[h].pid = helper[h].pid
      /\ \A h \in Helpers : h > started' => helper'[h].state = "none"
      /\ \A h \in Undispatched' : helper'[h].pid \in Pids
      /\ refs' = refs + Cardinality(Undispatched') - Cardinality(Undispatched)
                 + Holders' - Holders
      /\ refs' \in Nat /\ Cardinality(Undispatched') \in Nat
      /\ Holders' \in Nat
      /\ need_publish' \in BOOLEAN /\ exported' \in BOOLEAN /\ ShownOnce'
  <2>1. \A h \in Undispatched : helper[h].pid \in Pids /\ h \in Helpers
    BY DEF Inv, HelpersInOrder, Undispatched
  <2>2. CASE /\ \E p \in FreePids(helper) : Spawn(helper, "update", p)
             /\ refs' = refs + 1
             /\ UNCHANGED <<need_publish, exported>>
    <3>1. PICK p \in FreePids(helper) : Spawn(helper, "update", p)
      BY <2>2
    <3>5. /\ refs' = refs + 1 /\ Holders' = Holders
          /\ need_publish' \in BOOLEAN /\ exported' \in BOOLEAN /\ ShownOnce'
      BY <1>4, <2>2 DEF Holders, Inv, TypeOK, ShownOnce
    <3>2. p \in Pids
      BY DEF FreePids
    <3>3. /\ started' = started + 1
          /\ helper' \in [Helpers -> Records]
          /\ \A h \in Helpers \ {started + 1} : helper'[h].pid = helper[h].pid
          /\ \A h \in Helpers : h > started' => helper'[h].state = "none"
          /\ helper'[started'].pid = p
          /\ Undispatched' = Undispatched \union {started'}
          /\ started' \notin Undispatched
      BY <1>1, <1>2, <3>1, <3>2, OneMoreHelper
    <3>4. Cardinality(Undispatched') = Cardinality(Undispatched) + 1
      BY <1>3, <3>3, FS_AddElement
    <3> QED
      BY <1>1, <1>3, <2>1, <3>2, <3>3, <3>4, <3>5
  <2>3. CASE /\ SpawnFails(helper, "update")
             /\ Publish
             /\ refs' = refs + Count(need_publish)
    <3>1. /\ started' = started + 1
          /\ helper' \in [Helpers -> Records]
          /\ \A h \in Helpers \ {started + 1} : helper'[h].pid = helper[h].pid
          /\ \A h \in Helpers : h > started' => helper'[h].state = "none"
          /\ Undispatched' = Undispatched
      BY <1>1, <1>2, <2>3, OneMoreHelper
    <3>2. started + 1 \notin Undispatched
      BY <1>2 DEF Inv, HelpersInOrder, Undispatched
    <3>3. /\ need_publish' \in BOOLEAN /\ exported' \in BOOLEAN /\ ShownOnce'
          /\ Count(exported') = Count(exported) + Count(need_publish)
          /\ Count(need_publish) \in Nat
      BY <2>3, PublishKeeps DEF Inv, Publish, ShownOnce
    <3>4. Holders' = Holders + Count(need_publish)
      <4>1. Count(exported) \in Nat /\ made \in Nat /\ waits \in Nat
        BY DEF Count, Inv, TypeOK
      <4> QED
        BY <1>4, <3>3, <4>1 DEF Holders
    <3> QED
      BY <1>1, <1>3, <2>1, <2>3, <3>1, <3>2, <3>3, <3>4
  <2> QED
    BY <1>5, <2>2, <2>3
<1>7. TypeOK'
  BY <1>2, <1>4, <1>6 DEF Inv, TypeOK, Records
<1>8. Bounded' /\ StartsRequested'
  <2>1. polls \in Nat /\ updates \in Nat /\ polls <= MaxPolls
        /\ started + idles + Count(poll_requested) <= polls + updates
    BY DEF Inv, TypeOK, Bounded, StartsRequested
  <2> QED
    BY <1>1, <1>2, <1>4, <1>6, <2>1, BoundsAssumption
       DEF Bounded, StartsRequested, Count
<1>9. HelpersInOrder'
  <2>1. latest \in Nat /\ latest <= started /\ latest \in {0} \union Helpers
    BY HelpersFinite DEF Inv, TypeOK, HelpersInOrder
  <2> QED
    BY <1>2, <1>4, <1>6, <2>1 DEF Inv, HelpersInOrder
<1>10. RefsExact'
  BY <1>1, <1>3, <1>4, <1>6 DEF RefsExact, Count
<1> QED
  BY <1>6, <1>7, <1>8, <1>9, <1>10 DEF Inv

(* A call that waits for a volume takes a reference and gives it back. *)
LEMMA CallInv == Inv /\ (CallWaits \/ CallFails) => Inv'
<1> SUFFICES ASSUME Inv, CallWaits \/ CallFails PROVE Inv'
  OBVIOUS
<1>1. Undispatched' = Undispatched /\ Cardinality(Undispatched) \in Nat
  BY HelpersFinite DEF CallWaits, CallFails, Undispatched
<1>2. /\ Holders \in Nat /\ made \in Nat /\ waits \in Nat /\ refs \in Nat
      /\ idles \in Nat /\ Count(exported) \in Nat
  BY HoldersCounted DEF Inv, TypeOK, Count
<1>3. /\ exported' = exported /\ made' = made /\ waits' \in Nat
      /\ refs' = refs + waits' - waits
  BY <1>2 DEF CallWaits, CallFails
<1>4. Holders' = Holders + waits' - waits /\ Holders' \in Nat
  BY <1>2, <1>3 DEF Holders
<1>5. RefsExact' /\ refs' \in Nat
  <2>1. /\ refs = Count(~disposed) + idles + Count(timer) + Cardinality(Undispatched)
                  + Holders
        /\ UNCHANGED <<disposed, idles, timer>>
    BY DEF Inv, RefsExact, CallWaits, CallFails
  <2>2. Count(~disposed) \in Nat /\ Count(timer) \in Nat
    BY DEF Count
  <2>3. refs' = Count(~disposed) + idles + Count(timer) + Cardinality(Undispatched)
                + Holders'
    BY <1>1, <1>2, <1>3, <1>4, <2>1, <2>2
  <2> QED
    BY <1>1, <1>2, <1>4, <2>1, <2>2, <2>3 DEF RefsExact
<1>6. TypeOK'
  BY <1>3, <1>5 DEF CallWaits, CallFails, Inv, TypeOK
<1>7. Bounded' /\ StartsRequested' /\ HelpersInOrder' /\ ShownOnce'
  BY <1>1
     DEF CallWaits, CallFails, Inv, Bounded, StartsRequested, HelpersInOrder, ShownOnce
<1> QED
  BY <1>5, <1>6, <1>7 DEF Inv

LEMMA DisposeInv == Inv /\ Dispose => Inv'
<1> SUFFICES ASSUME Inv, Dispose PROVE Inv'
  OBVIOUS
<1>1. Undispatched' = Undispatched /\ Cardinality(Undispatched) \in Nat
  BY HelpersFinite DEF Dispose, Undispatched
<1>2. RefsExact' /\ refs' \in Nat
  BY <1>1 DEF Dispose, Inv, TypeOK, RefsExact, Holders, Count
<1>3. TypeOK' /\ Bounded' /\ StartsRequested' /\ HelpersInOrder' /\ ShownOnce'
  BY <1>1, <1>2
     DEF Dispose, Inv, TypeOK, Bounded, StartsRequested, HelpersInOrder, ShownOnce, Count
<1> QED
  BY <1>2, <1>3 DEF Inv

LEMMA StutterInv == Inv /\ UNCHANGED vars => Inv'
<1> SUFFICES ASSUME Inv, UNCHANGED vars PROVE Inv'
  OBVIOUS
<1>1. Undispatched' = Undispatched
  BY DEF vars, Undispatched
<1> QED
  BY <1>1
     DEF vars, object, Inv, TypeOK, Bounded, StartsRequested, HelpersInOrder,
         RefsExact, Holders, ShownOnce

LEMMA NextInv == Inv /\ [Next]_vars => Inv'
  BY ChangeInv, PollInv, PollInMainInv, PollTimeoutInv, StartUpdateInv,
     DisposeInv, CallInv, HelperGoesInv, ReapInv, ResultInv, StutterInv DEF Next

(* The inductive invariant holds in every state. *)
THEOREM Invariance == Spec => []Inv
<1>1. Init => Inv
  BY InitInv
<1>2. Inv /\ [Next]_vars => Inv'
  BY NextInv
<1> QED
  BY <1>1, <1>2, PTL DEF Spec
-----------------------------------------------------------------------------
(* Every variable of a polled group stays in its range: in particular a    *)
(* reference is never given back that is not held. *)
THEOREM TypeCorrect == Spec => []TypeOK
<1>1. Inv => TypeOK
  BY DEF Inv
<1> QED
  BY <1>1, Invariance, PTL

(* The references to a group are the manager's, that of its object on the  *)
(* bus, one for each idle source, timer and helper that will call back     *)
(* into it and for each call that waits for one of its volumes, and one,   *)
(* never given back, for each volume that was ever made for it. *)
THEOREM RefsCorrect == Spec => []RefsExact
<1>1. Inv => RefsExact
  BY DEF Inv
<1> QED
  BY <1>1, Invariance, PTL

(* No poll applies a result of another than the last one, unless they had  *)
(* the same process id. *)
THEOREM LatestApplied == Spec => AppliesLatest
<1> DEFINE A == \A h \in Helpers :
                   PollResult(h) /\ <<known, by>>' # <<known, by>> =>
                       helper[h].pid = helper[latest].pid
<1>1. Inv /\ [Next]_vars => [A]_vars
  <2> SUFFICES ASSUME Inv, NEW h \in Helpers, PollResult(h),
                      <<known, by>>' # <<known, by>>
               PROVE  helper[h].pid = helper[latest].pid
    OBVIOUS
  <2>1. h \in Undispatched
    BY DEF PollResult, Dispatched, Reaped, Undispatched
  <2>2. helper[h].pid # 0
    BY <2>1, PidsAssumption DEF Inv, HelpersInOrder
  <2>3. helper[h].pid = poll_pid
    BY DEF PollResult
  <2> QED
    BY <2>2, <2>3 DEF Inv, HelpersInOrder
<1> QED
  BY <1>1, Invariance, PTL DEF Spec, AppliesLatest
-----------------------------------------------------------------------------
(* Liveness is left to fairness, but what fairness acts on is proved here: *)
(* no request of a caller is lost between the idle source, the timer, the  *)
(* helper and its result.                                                  *)

(* No request is left in an idle source or with the timer. *)
Quiet == idles = 0 /\ ~poll_requested

(* Another poll had the process id of the last one. *)
Shared == \E h \in Helpers \ {latest} :
              helper[h].use = "poll" /\ helper[h].pid = helper[latest].pid

(* What Settles asks for in the end. *)
Shown ==
    \/ known >= target
    \/ by = "update"
    \/ latest # 0 /\ (helper[latest].state = "lost" \/ Shared)

(* The result of the last poll is still to come, and will be known for it. *)
Coming ==
    latest # 0 /\ helper[latest].state # "done" /\ poll_pid = helper[latest].pid

(* What the last poll has read is what its caller saw, or newer. *)
Recent ==
    latest # 0 /\ helper[latest].state \in {"exited", "reaped"} =>
        helper[latest].asOf >= target

PollsKnown ==
    /\ latest # 0 => helper[latest].use = "poll" /\ helper[latest].state # "none"
    /\ \A h \in Helpers : h > started => helper[h].use # "poll"

Serving ==
    /\ PollsKnown
    /\ target <= version
    /\ poll_requested => timer
    /\ Quiet => Recent /\ (Shown \/ Coming)

(* A helper that changes state leaves the others alone, and who it is. *)
LEMMA MoveServes ==
    ASSUME Inv, Serving, NEW h \in Undispatched, NEW s \in HelperStates \ {"none"},
           NEW v \in Nat,
           helper' = [helper EXCEPT ![h] = [@ EXCEPT !.state = s, !.asOf = v]],
           UNCHANGED <<version, target, idles, timer, poll_requested, started, latest>>
    PROVE  /\ h \in Helpers /\ helper'[h].state = s /\ helper'[h].asOf = v
           /\ \A g \in Helpers \ {h} : helper'[g] = helper[g]
           /\ PollsKnown' /\ (Shared' <=> Shared)
           /\ Quiet' = Quiet /\ target' <= version' /\ (poll_requested' => timer')
           /\ latest # 0 => latest \in Helpers /\ helper'[latest].pid = helper[latest].pid
<1>1. /\ helper \in [Helpers -> Records] /\ h \in Helpers
      /\ latest \in {0} \union Helpers
  BY DEF Inv, TypeOK, Records, Undispatched
<1>2. /\ helper'[h] = [helper[h] EXCEPT !.state = s, !.asOf = v]
      /\ \A g \in Helpers \ {h} : helper'[g] = helper[g]
  BY <1>1
<1>3. /\ helper'[h].pid = helper[h].pid /\ helper'[h].use = helper[h].use
      /\ helper'[h].state = s /\ helper'[h].asOf = v
  BY <1>1, <1>2 DEF Records
<1>4. \A g \in Helpers : /\ helper'[g].pid = helper[g].pid
                         /\ helper'[g].use = helper[g].use
                         /\ helper[g].state # "none" => helper'[g].state # "none"
  BY <1>2, <1>3
<1>5. PollsKnown'
  BY <1>1, <1>4 DEF Serving, PollsKnown
<1>6. Shared' <=> Shared
  <2>1. CASE latest = 0
    <3>1. 0 \notin Helpers
      BY HelpersFinite
    <3>2. helper'[0] = helper[0]
      BY <1>1, <3>1
    <3> QED
      BY <1>4, <2>1, <3>2 DEF Shared
  <2>2. CASE latest # 0
    BY <1>1, <1>4, <2>2 DEF Shared
  <2> QED
    BY <2>1, <2>2
<1> QED
  BY <1>1, <1>2, <1>3, <1>4, <1>5, <1>6 DEF Serving, Quiet

(* A helper that reads LVM reads what the caller of Poll saw, or newer. *)
LEMMA HelperServes ==
    ASSUME Inv, Serving, NEW h \in Undispatched, NEW s \in HelperStates \ {"none", "done"},
           NEW v \in Nat,
           s \in {"exited", "reaped"} =>
              v >= target \/ (helper[h].state \in {"exited", "reaped"} /\ v = helper[h].asOf),
           helper' = [helper EXCEPT ![h] = [@ EXCEPT !.state = s, !.asOf = v]],
           UNCHANGED <<version, known, by, target, idles, timer, poll_requested,
                       poll_pid, started, latest>>
    PROVE  Serving'
<1>1. /\ h \in Helpers /\ helper'[h].state = s /\ helper'[h].asOf = v
      /\ \A g \in Helpers \ {h} : helper'[g] = helper[g]
      /\ PollsKnown' /\ (Shared' <=> Shared)
      /\ Quiet' = Quiet /\ target' <= version' /\ (poll_requested' => timer')
      /\ latest # 0 => latest \in Helpers /\ helper'[latest].pid = helper[latest].pid
  BY MoveServes
<1>2. ASSUME Quiet PROVE Recent'
  BY <1>1, <1>2 DEF Serving, Recent
<1>3. ASSUME Quiet, Shown PROVE Shown'
  <2>1. CASE known >= target \/ by = "update"
    BY <2>1 DEF Shown
  <2>2. CASE latest # 0 /\ Shared
    BY <1>1, <2>2 DEF Shown
  <2>3. CASE latest # 0 /\ helper[latest].state = "lost"
    <3>1. latest # h
      BY <2>3 DEF Undispatched
    <3> QED
      BY <1>1, <2>3, <3>1 DEF Shown
  <2> QED
    BY <1>3, <2>1, <2>2, <2>3 DEF Shown
<1>4. ASSUME Quiet, Coming PROVE Coming'
  BY <1>1, <1>4 DEF Coming
<1> QED
  BY <1>1, <1>2, <1>3, <1>4 DEF Serving

(* The result of the last poll is applied, and is recent; that of another  *)
(* poll is applied only if they had the same process id. *)
LEMMA ResultServes ==
    ASSUME Inv, Serving, NEW h \in Helpers, PollResult(h) \/ UpdateResult(h)
    PROVE  Serving'
<1>1. /\ helper \in [Helpers -> Records] /\ helper[h].asOf \in Nat
      /\ latest \in {0} \union Helpers
  BY DEF Inv, TypeOK, Records
<1>2. /\ h \in Undispatched /\ helper[h].state \in {"reaped", "reaped-failed"}
      /\ helper[h].pid \in Pids /\ helper[h].pid # 0
  BY PidsAssumption
     DEF PollResult, UpdateResult, Dispatched, Reaped, Undispatched, Inv, HelpersInOrder
<1>3. PICK s \in {"done", "lost"} :
         /\ helper' = [helper EXCEPT ![h] = [@ EXCEPT !.state = s, !.asOf = helper[h].asOf]]
         /\ s = "done" <=> helper[h].state = "reaped"
  BY <1>1, <1>2 DEF PollResult, UpdateResult, Dispatched, Records
<1>4. UNCHANGED <<version, target, idles, timer, poll_requested, started, latest>>
  BY DEF PollResult, UpdateResult
<1>5. s \in HelperStates \ {"none"}
  BY DEF HelperStates
<1>6. /\ helper'[h].state = s
      /\ \A g \in Helpers \ {h} : helper'[g] = helper[g]
      /\ PollsKnown' /\ (Shared' <=> Shared)
      /\ Quiet' = Quiet /\ target' <= version' /\ (poll_requested' => timer')
      /\ latest # 0 => latest \in Helpers /\ helper'[latest].pid = helper[latest].pid
  BY <1>1, <1>2, <1>3, <1>4, <1>5, MoveServes
<1>7. ASSUME Quiet PROVE Recent'
  BY <1>4, <1>6, <1>7 DEF Serving, Recent
<1>8. ASSUME latest # 0, Shared PROVE Shown'
  BY <1>4, <1>6, <1>8 DEF Shown
<1>9. ASSUME latest # 0, latest # h, helper[latest].state = "lost" PROVE Shown'
  BY <1>4, <1>6, <1>9 DEF Shown
<1>10. ASSUME latest = h, s = "lost" PROVE Shown'
  <2>1. latest' # 0
    BY <1>4, <1>10, HelpersFinite
  <2> QED
    BY <1>4, <1>6, <1>10, <2>1 DEF Shown
<1>11. ASSUME Quiet, UpdateResult(h) PROVE Shown' \/ Coming'
  <2>1. helper[h].use = "update" /\ poll_pid' = poll_pid
    BY <1>11 DEF UpdateResult
  <2>2. latest # h
    BY <2>1, HelpersFinite DEF Serving, PollsKnown
  <2>3. CASE helper[h].state = "reaped"
    <3>1. by' = "update"
      BY <1>11, <2>3 DEF UpdateResult
    <3> QED
      BY <3>1 DEF Shown
  <2>4. CASE helper[h].state # "reaped"
    <3>1. known' = known /\ by' = by
      BY <1>11, <2>4 DEF UpdateResult
    <3>2. CASE Coming
      BY <1>4, <1>6, <2>1, <2>2, <3>2 DEF Coming
    <3>3. CASE known >= target \/ by = "update"
      BY <1>4, <3>1, <3>3 DEF Shown
    <3> QED
      BY <1>8, <1>9, <1>11, <2>2, <3>2, <3>3 DEF Serving, Shown
  <2> QED
    BY <2>3, <2>4
<1>12. ASSUME Quiet, PollResult(h), helper[h].pid # poll_pid PROVE Shown' \/ Coming'
  <2>1. UNCHANGED <<poll_pid, known, by>>
    BY <1>12 DEF PollResult
  <2>2. CASE Coming
    <3>1. latest # h
      BY <1>12, <2>2 DEF Coming
    <3> QED
      BY <1>4, <1>6, <2>1, <2>2, <3>1 DEF Coming
  <2>3. CASE known >= target \/ by = "update"
    BY <1>4, <2>1, <2>3 DEF Shown
  <2>4. latest = h => helper[latest].state # "lost"
    BY <1>2
  <2> QED
    BY <1>8, <1>9, <1>12, <2>2, <2>3, <2>4 DEF Serving, Shown
<1>13. ASSUME Quiet, PollResult(h), helper[h].pid = poll_pid PROVE Shown' \/ Coming'
  <2>1. latest # 0 /\ helper[latest].pid = poll_pid /\ latest \in Helpers
    BY <1>1, <1>2, <1>13 DEF Inv, HelpersInOrder
  <2>2. CASE latest # h
    <3>1. Shared
      BY <1>13, <2>1, <2>2 DEF Shared, PollResult
    <3> QED
      BY <1>8, <2>1, <3>1
  <2>3. CASE latest = h /\ s = "lost"
    BY <1>10, <2>3
  <2>4. CASE latest = h /\ s = "done"
    <3>1. helper[h].state = "reaped" /\ helper[h].asOf >= target
      BY <1>3, <1>13, <2>1, <2>4 DEF Serving, Recent
    <3>2. known' = helper[h].asOf
      BY <1>13, <3>1 DEF PollResult
    <3> QED
      BY <1>4, <3>1, <3>2 DEF Shown
  <2> QED
    BY <2>2, <2>3, <2>4
<1>14. ASSUME Quiet PROVE Shown' \/ Coming'
  BY <1>11, <1>12, <1>13, <1>14
<1> QED
  BY <1>6, <1>7, <1>14 DEF Serving

(* The helper that is started for a request is the last, and will be known *)
(* for it. *)
LEMMA PollNowServes ==
    ASSUME Inv, Serving, started + 1 \in Helpers, PollNow(1),
           version' = version, target' = target
    PROVE  PollsKnown' /\ target' <= version' /\ timer' /\ Recent' /\ (Shown' \/ Coming')
<1> DEFINE hs == Interrupt(poll_pid)
           n == started + 1
<1>1. helper \in [Helpers -> Records] /\ n # 0 /\ n \in Nat /\ started \in Nat
  BY HelpersFinite DEF Inv, TypeOK, Records
<1>2. /\ DOMAIN hs = Helpers
      /\ \A h \in Helpers : hs[h].use = helper[h].use
  <2>1. \A h \in Helpers : hs[h].use = helper[h].use
    BY <1>1 DEF Interrupt, Records
  <2> QED
    BY <2>1 DEF Interrupt
<1> HIDE DEF hs
<1>3. ASSUME NEW r, r.use = "poll", r.state # "none", started' = n,
             helper' = [hs EXCEPT ![n] = r]
      PROVE  PollsKnown'
  <2>1. helper'[n] = r /\ \A h \in Helpers \ {n} : helper'[h] = hs[h]
    BY <1>2, <1>3
  <2>2. latest' = n
    BY DEF PollNow
  <2>3. \A h \in Helpers : h > started' => h # n /\ h > started
    BY <1>1, <1>3, HelpersFinite
  <2>4. \A h \in Helpers : h > started' => helper'[h].use # "poll"
    BY <1>2, <2>1, <2>3 DEF Serving, PollsKnown
  <2> QED
    BY <1>3, <2>1, <2>2, <2>4 DEF PollsKnown
<1>4. timer' /\ latest' = n
  BY DEF PollNow
<1>5. target' <= version'
  BY DEF Serving
<1>6. CASE \E p \in FreePids(hs) : Spawn(hs, "poll", p) /\ poll_pid' = p
  <2> PICK p \in FreePids(hs) : Spawn(hs, "poll", p) /\ poll_pid' = p
    BY <1>6
  <2> DEFINE r == [use |-> "poll", pid |-> p, state |-> "running", asOf |-> 0]
  <2>1. started' = n /\ helper' = [hs EXCEPT ![n] = r]
    BY DEF Spawn
  <2>2. helper'[n] = r
    BY <1>2, <2>1
  <2>3. PollsKnown'
    <3>1. r.use = "poll" /\ r.state # "none"
      OBVIOUS
    <3> HIDE DEF r
    <3> QED
      BY <1>3, <2>1, <3>1
  <2>4. Recent' /\ Coming'
    BY <1>1, <1>4, <2>2 DEF Recent, Coming
  <2> QED
    BY <1>4, <1>5, <2>3, <2>4
<1>7. CASE SpawnFails(hs, "poll")
  <2> DEFINE r == [use |-> "poll", pid |-> 0, state |-> "lost", asOf |-> 0]
  <2>1. started' = n /\ helper' = [hs EXCEPT ![n] = r]
    BY <1>7 DEF SpawnFails
  <2>2. helper'[n] = r
    BY <1>2, <2>1
  <2>3. PollsKnown'
    <3>1. r.use = "poll" /\ r.state # "none"
      OBVIOUS
    <3> HIDE DEF r
    <3> QED
      BY <1>3, <2>1, <3>1
  <2>4. Recent' /\ Shown'
    BY <1>1, <1>4, <2>2 DEF Recent, Shown
  <2> QED
    BY <1>4, <1>5, <2>3, <2>4
<1> QED
  BY <1>6, <1>7 DEF PollNow, hs

(* The helper of an update is none of a poll. *)
LEMMA UpdateServes == ASSUME Inv, Serving, StartUpdate PROVE Serving'
<1> DEFINE n == started + 1
<1>1. /\ helper \in [Helpers -> Records] /\ started \in Nat /\ n \in Helpers
      /\ latest \in {0} \union Helpers /\ latest <= started
  BY RoomForHelper, HelpersFinite
     DEF StartUpdate, Inv, TypeOK, Records, HelpersInOrder
<1>2. UNCHANGED <<version, known, by, target, idles, timer, poll_requested, poll_pid, latest>>
  BY DEF StartUpdate
<1>3. PICK r : r.use = "update" /\ started' = n /\ helper' = [helper EXCEPT ![n] = r]
  BY DEF StartUpdate, Spawn, SpawnFails
<1>4. helper'[n] = r /\ \A h \in Helpers \ {n} : helper'[h] = helper[h]
  BY <1>1, <1>3
<1>5. latest # n
  BY <1>1, HelpersFinite
<1>6. helper'[latest] = helper[latest]
  BY <1>1, <1>3, <1>5
<1>7. helper[n].use # "poll" /\ helper'[n].use # "poll"
  BY <1>1, <1>3, <1>4 DEF Serving, PollsKnown
<1>8. Shared' <=> Shared
  <2>1. \A h \in Helpers : helper'[h].use = "poll" <=> helper[h].use = "poll"
    BY <1>4, <1>7
  <2>2. \A h \in Helpers : helper[h].use = "poll" => helper'[h] = helper[h]
    BY <1>4, <1>7
  <2> QED
    BY <1>2, <1>6, <2>1, <2>2 DEF Shared
<1>9. PollsKnown'
  <2>1. \A h \in Helpers : h > started' => h # n /\ h > started
    BY <1>1, <1>3, HelpersFinite
  <2> QED
    BY <1>2, <1>4, <1>6, <2>1 DEF Serving, PollsKnown
<1>10. Quiet' = Quiet /\ (Recent' <=> Recent) /\ (Coming' <=> Coming) /\ (Shown' <=> Shown)
  BY <1>2, <1>6, <1>8 DEF Quiet, Recent, Coming, Shown
<1> QED
  BY <1>2, <1>9, <1>10 DEF Serving

LEMMA NextServes == Inv /\ Serving /\ [Next]_vars => Serving'
<1> SUFFICES ASSUME Inv, Serving, [Next]_vars PROVE Serving'
  OBVIOUS
<1>0. /\ helper \in [Helpers -> Records] /\ idles \in Nat /\ polls \in Nat
      /\ version \in Nat /\ target \in Nat /\ timer \in BOOLEAN
      /\ \A h \in Helpers : helper[h].asOf \in Nat
  BY DEF Inv, TypeOK, Records
<1>1. ASSUME Change PROVE Serving'
  <2>1. version' = version + 1
    BY <1>1 DEF Change
  <2>2. target' <= version'
    BY <1>0, <1>1, <2>1 DEF Serving, Change
  <2> QED
    BY <1>1, <2>2 DEF Change, Serving, PollsKnown, Quiet, Recent, Shown, Shared, Coming
<1>2. ASSUME Poll PROVE Serving'
  <2>1. ~Quiet'
    BY <1>0, <1>2 DEF Poll, Quiet
  <2>2. PollsKnown' /\ target' <= version' /\ (poll_requested' => timer')
    BY <1>0, <1>2 DEF Poll, Serving, PollsKnown
  <2> QED
    BY <2>1, <2>2 DEF Serving
<1>3. ASSUME PollInMain PROVE Serving'
  <2>1. CASE timer
    <3>1. ~Quiet' /\ timer'
      BY <1>3, <2>1 DEF PollInMain, Quiet
    <3>2. PollsKnown' /\ target' <= version'
      BY <1>3, <2>1 DEF PollInMain, Serving, PollsKnown
    <3> QED
      BY <3>1, <3>2 DEF Serving
  <2>2. CASE ~timer
    <3>1. PollNow(1) /\ idles > 0 /\ version' = version /\ target' = target
      BY <1>3, <2>2 DEF PollInMain
    <3> QED
      BY <3>1, RoomForHelper, PollNowServes DEF Serving
  <2> QED
    BY <2>1, <2>2
<1>4. ASSUME PollTimeout PROVE Serving'
  <2>1. CASE poll_requested
    <3>1. PollNow(1) /\ version' = version /\ target' = target
      BY <1>4, <2>1 DEF PollTimeout
    <3> QED
      BY <2>1, <3>1, RoomForHelper, PollNowServes DEF Serving
  <2>2. CASE ~poll_requested
    BY <1>4, <2>2 DEF PollTimeout, Serving, PollsKnown, Quiet, Recent, Shown, Shared, Coming
  <2> QED
    BY <2>1, <2>2
<1>5. ASSUME NEW h \in Helpers, HelperGoes(h) PROVE Serving'
  <2>1. h \in Undispatched
    BY <1>5 DEF HelperGoes, Undispatched
  <2>2. UNCHANGED <<version, known, by, target, idles, timer, poll_requested, poll_pid,
                    started, latest>>
    BY <1>5 DEF HelperGoes
  <2>3. CASE helper' = [helper EXCEPT ![h].state = "exited", ![h].asOf = version]
    <3>1. helper' = [helper EXCEPT ![h] = [@ EXCEPT !.state = "exited", !.asOf = version]]
      BY <1>0, <2>3
    <3>2. version >= target
      BY <1>0 DEF Serving
    <3> QED
      BY <1>0, <2>1, <2>2, <3>1, <3>2, HelperServes DEF HelperStates
  <2>4. CASE helper' = [helper EXCEPT ![h].state = "failed"]
    <3>1. helper' = [helper EXCEPT ![h] = [@ EXCEPT !.state = "failed", !.asOf = helper[h].asOf]]
      BY <1>0, <2>4 DEF Records
    <3> QED
      BY <1>0, <2>1, <2>2, <3>1, HelperServes DEF HelperStates
  <2> QED
    BY <1>5, <2>3, <2>4 DEF HelperGoes
<1>6. ASSUME NEW h \in Helpers, Reap(h) PROVE Serving'
  <2>1. h \in Undispatched /\ helper[h].state \in {"exited", "failed"}
    BY <1>6 DEF Reap, Ended, Undispatched
  <2>2. UNCHANGED <<version, known, by, target, idles, timer, poll_requested, poll_pid,
                    started, latest>>
    BY <1>6 DEF Reap
  <2>3. PICK s \in {"reaped", "reaped-failed"} :
          /\ helper' = [helper EXCEPT ![h] = [@ EXCEPT !.state = s, !.asOf = helper[h].asOf]]
          /\ s = "reaped" => helper[h].state = "exited"
    BY <1>0, <1>6, <2>1 DEF Reap, Records
  <2>4. s \in HelperStates \ {"none", "done"}
    BY DEF HelperStates
  <2> QED
    BY <1>0, <2>1, <2>2, <2>3, <2>4, HelperServes
<1>7. ASSUME Dispose \/ CallWaits \/ CallFails \/ UNCHANGED vars PROVE Serving'
  BY <1>7 DEF Dispose, CallWaits, CallFails, vars, Serving, PollsKnown, Quiet, Recent, Shown, Shared, Coming
<1> QED
  BY <1>1, <1>2, <1>3, <1>4, <1>5, <1>6, <1>7, ResultServes, UpdateServes DEF Next

(* A request that found the timer running is kept with it; and once no     *)
(* request is left and every helper's result was dispatched, the group     *)
(* shows what the last caller of Poll had seen, with the excuses of        *)
(* Settles.                                                                *)
RequestsServed ==
    /\ poll_requested => timer
    /\ Quiet /\ Undispatched = {} => Shown

(* The safety part of Settles: a request of a caller is under way until it *)
(* is served, whatever polls, updates and process ids do.                  *)
THEOREM NoRequestLost == Spec => []RequestsServed
<1>1. Init => Serving
  <2> SUFFICES ASSUME Init PROVE Serving
    OBVIOUS
  <2>1. PollsKnown /\ Recent /\ Shown
    BY DEF Init, NoHelper, PollsKnown, Recent, Shown
  <2> QED
    BY <2>1 DEF Init, Serving
<1>2. Inv /\ Serving => RequestsServed
  <2> SUFFICES ASSUME Inv, Serving, Quiet, Undispatched = {}, Coming PROVE Shown
    BY DEF Serving, RequestsServed
  <2>1. latest # 0 /\ latest \in Helpers /\ helper[latest].state \in {"none", "done", "lost"}
    BY DEF Inv, TypeOK, Coming, Undispatched
  <2>2. helper[latest].state = "lost"
    BY <2>1 DEF Serving, PollsKnown, Coming
  <2> QED
    BY <2>1, <2>2 DEF Shown
<1> QED
  BY <1>1, <1>2, NextServes, Invariance, PTL DEF Spec
=============================================================================
