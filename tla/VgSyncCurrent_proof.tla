------------------------ MODULE VgSyncCurrent_proof ------------------------
(***************************************************************************)
(* Proofs about VgSync, continued: a daemon that has handled everything    *)
(* shows what LVM knows, for any groups, volumes, devices and bounds.      *)
(*                                                                         *)
(* The daemon is settled when no event is on its way to start an update    *)
(* and nothing excuses the tree.  It gets settled only when it starts a    *)
(* list, and stays so only while LVM does not change; so whatever the      *)
(* helpers of the last round report is what LVM knows.  Until the list is  *)
(* dispatched nothing has to hold of the tree; from then on each group     *)
(* LVM has is either shown as it is, or a helper of this round is about    *)
(* it, and no result of an earlier round is dispatched any more.           *)
(***************************************************************************)
EXTENDS VgSync_proof, FiniteSetTheorems

Settled == ~timer /\ excuse = {} /\ \A d \in Devices : uevents[d] = 0

(* A group has physical volumes, and shares none with another group. *)
LvmSound ==
    /\ \A v \in VGs : lvm[v].pvs = {} => lvm[v] = NoVG
    /\ \A v, w \in VGs : v # w => lvm[v].pvs \intersect lvm[w].pvs = {}

RoundsInOrder ==
    /\ applied \in Nat /\ applied <= round
    /\ \A h \in helpers : h.round <= round

(* An overlay that is not exported has no interface of a volume. *)
HiddenPlain == \A d \in Devices : ~overlay[d].exported => overlay[d].lv = "none"

(* The list of the last round is under way, and nothing else of it. *)
Listing ==
    \E h \in helpers :
        /\ h.kind = "list" /\ h.round = round
        /\ \A i \in helpers : i.round = round => i = h
        /\ h.state \in {"running", "done"}
        /\ h.state = "done" => h.groups = {v \in VGs : Exists(v)}

(* The tree shows group v as it is in LVM. *)
Shown(v) ==
    /\ group[v][table[v]] = [state |-> "exported", lvs |-> lvm[v].lvs]
    /\ \A d \in lvm[v].pvs : overlay[d].exported => overlay[d].pv = v
    /\ \A d \in {v} \X lvm[v].lvs : overlay[d].lv \in {"none", v}

(* A "show" of the last round, about the object of a group that exists. *)
RightShow(h) ==
    /\ h.kind = "show" /\ h.vg \in VGs
    /\ Exists(h.vg) /\ h.inc = table[h.vg]
    /\ \/ h.state = "running"
       \/ h.state = "done" /\ h.info = lvm[h.vg]

Awaited(v) == \E h \in helpers : h.round = round /\ h.vg = v

(* The list of the last round was dispatched. *)
Showing ==
    /\ applied = round
    /\ \A v \in VGs : Exists(v) <=> table[v] # 0
    /\ \A h \in helpers : h.round = round => RightShow(h)
    /\ \A v \in VGs : Exists(v) => Shown(v) \/ Awaited(v)

Current == Settled => Listing \/ Showing

(* Uevents that were not delivered, one by one. *)
Pending == {p \in Devices \X (Nat \ {0}) : p[2] <= uevents[p[1]]}

Budget ==
    /\ changes \in Nat /\ changes <= MaxChanges
    /\ failures \in 0..MaxFailures
    /\ labelled \subseteq PvDevs
    /\ excuse \subseteq {"unlisted", "failed", "overtaken"}
    /\ timer \in BOOLEAN
    /\ uevents \in [Devices -> Nat]
    /\ \A d \in Devices : uevents[d] <= changes
    /\ IsFiniteSet(Pending)
    /\ round + Cardinality(Pending) + (IF timer THEN 1 ELSE 0) <= changes
-----------------------------------------------------------------------------
(* What LVM's commands leave behind, and that they send a uevent. *)
LEMMA ChangeStep ==
  ASSUME Inv, LvmSound, NEW v \in VGs, NEW info \in Contents,
         NEW touched \in SUBSET Devices, Change(v, info, touched),
         info.pvs = {} => info = NoVG,
         \A w \in VGs : w # v => info.pvs \intersect lvm[w].pvs = {}
  PROVE  /\ LvmSound'
         /\ changes < MaxChanges /\ changes' = changes + 1
         /\ labelled \subseteq PvDevs => labelled' \subseteq PvDevs
         /\ \E d \in Devices : uevents' = [uevents EXCEPT ![d] = @ + 1]
         /\ UNCHANGED <<failures, timer, helpers, table, group, overlay, round,
                        applied, excuse>>
<1>1. lvm \in [VGs -> Contents] /\ lvm' = [lvm EXCEPT ![v] = info]
  BY DEF Inv, Typed, Change
<1>2. \A w \in VGs : lvm'[w] = IF w = v THEN info ELSE lvm[w]
  BY <1>1
<1>3. LvmSound'
  <2>1. \A w \in VGs : lvm'[w].pvs = {} => lvm'[w] = NoVG
    BY <1>2 DEF LvmSound
  <2>2. ASSUME NEW w \in VGs, NEW u \in VGs, w # u
        PROVE  lvm'[w].pvs \intersect lvm'[u].pvs = {}
    BY <1>2, <2>2 DEF LvmSound
  <2> QED
    BY <2>1, <2>2 DEF LvmSound
<1>4. info.pvs \subseteq PvDevs
  BY DEF Contents
<1> QED
  BY <1>3, <1>4 DEF Change, treeVars

LEMMA EnvironmentStep ==
  ASSUME Inv, LvmSound, Environment
  PROVE  /\ LvmSound'
         /\ changes < MaxChanges /\ changes' = changes + 1
         /\ labelled \subseteq PvDevs => labelled' \subseteq PvDevs
         /\ \E d \in Devices : uevents' = [uevents EXCEPT ![d] = @ + 1]
         /\ UNCHANGED <<failures, timer, helpers, table, group, overlay, round,
                        applied, excuse>>
<1>0. lvm \in [VGs -> Contents]
  BY DEF Inv, Typed
<1>1. \A v \in VGs : lvm[v] \in Contents /\ lvm[v].pvs \subseteq PvDevs /\ lvm[v].lvs \subseteq LVs
  BY <1>0 DEF Contents
<1>2. PvDevs \subseteq Devices
  BY DEF Devices
<1>3. \A v \in VGs, l \in LVs : <<v, l>> \in Devices
  BY DEF Devices, LvDevs
<1>4. CASE VgCreate
  <2> PICK v \in VGs, ps \in SUBSET (PvDevs \ UsedPvs) :
             ps # {} /\ Change(v, [pvs |-> ps, lvs |-> {}], ps)
    BY <1>4 DEF VgCreate
  <2>1. [pvs |-> ps, lvs |-> {}] \in Contents
    BY DEF Contents
  <2>2. \A w \in VGs : ps \intersect lvm[w].pvs = {}
    BY DEF UsedPvs
  <2> QED
    BY <1>2, <2>1, <2>2, ChangeStep
<1>5. CASE VgRemove
  <2> PICK v \in VGs : Change(v, NoVG, lvm[v].pvs \union ({v} \X lvm[v].lvs))
    BY <1>5 DEF VgRemove
  <2>1. NoVG \in Contents /\ NoVG.pvs = {}
    BY DEF NoVG, Contents
  <2>2. lvm[v].pvs \union ({v} \X lvm[v].lvs) \in SUBSET Devices
    BY <1>1, <1>2, <1>3
  <2> QED
    BY <2>1, <2>2, ChangeStep
<1>6. CASE VgExtend
  <2> PICK v \in VGs, e \in PvDevs \ UsedPvs :
             Change(v, [lvm[v] EXCEPT !.pvs = @ \union {e}], lvm[v].pvs \union {e})
    BY <1>6 DEF VgExtend
  <2> DEFINE info == [lvm[v] EXCEPT !.pvs = @ \union {e}]
  <2>1. info \in Contents /\ info.pvs = lvm[v].pvs \union {e}
    BY <1>1 DEF Contents
  <2>2. \A w \in VGs : w # v => info.pvs \intersect lvm[w].pvs = {}
    BY <2>1 DEF LvmSound, UsedPvs
  <2>3. lvm[v].pvs \union {e} \in SUBSET Devices /\ info.pvs # {}
    BY <1>1, <1>2, <2>1
  <2> QED
    BY <2>1, <2>2, <2>3, ChangeStep
<1>7. CASE VgReduce
  <2> PICK v \in VGs : \E e \in lvm[v].pvs :
             lvm[v].pvs # {e} /\ Change(v, [lvm[v] EXCEPT !.pvs = @ \ {e}], lvm[v].pvs)
    BY <1>7 DEF VgReduce
  <2> PICK e \in lvm[v].pvs :
             lvm[v].pvs # {e} /\ Change(v, [lvm[v] EXCEPT !.pvs = @ \ {e}], lvm[v].pvs)
    OBVIOUS
  <2> DEFINE info == [lvm[v] EXCEPT !.pvs = @ \ {e}]
  <2>1. info \in Contents /\ info.pvs = lvm[v].pvs \ {e}
    BY <1>1 DEF Contents
  <2>2. \A w \in VGs : w # v => info.pvs \intersect lvm[w].pvs = {}
    BY <2>1 DEF LvmSound
  <2>3. lvm[v].pvs \in SUBSET Devices /\ info.pvs # {}
    BY <1>1, <1>2, <2>1
  <2> QED
    BY <2>1, <2>2, <2>3, ChangeStep
<1>8. CASE LvCreate
  <2> PICK v \in VGs : \E l \in LVs \ lvm[v].lvs :
             Exists(v) /\ Change(v, [lvm[v] EXCEPT !.lvs = @ \union {l}], lvm[v].pvs \union {<<v, l>>})
    BY <1>8 DEF LvCreate
  <2> PICK l \in LVs \ lvm[v].lvs :
             Exists(v) /\ Change(v, [lvm[v] EXCEPT !.lvs = @ \union {l}], lvm[v].pvs \union {<<v, l>>})
    OBVIOUS
  <2> DEFINE info == [lvm[v] EXCEPT !.lvs = @ \union {l}]
  <2>1. info \in Contents /\ info.pvs = lvm[v].pvs
    BY <1>1 DEF Contents
  <2>2. \A w \in VGs : w # v => info.pvs \intersect lvm[w].pvs = {}
    BY <2>1 DEF LvmSound
  <2>3. lvm[v].pvs \union {<<v, l>>} \in SUBSET Devices /\ info.pvs # {}
    BY <1>1, <1>2, <1>3, <2>1 DEF Exists
  <2> QED
    BY <2>1, <2>2, <2>3, ChangeStep
<1>9. CASE LvRemove
  <2> PICK v \in VGs : \E l \in lvm[v].lvs :
             Change(v, [lvm[v] EXCEPT !.lvs = @ \ {l}], lvm[v].pvs \union {<<v, l>>})
    BY <1>9 DEF LvRemove
  <2> PICK l \in lvm[v].lvs :
             Change(v, [lvm[v] EXCEPT !.lvs = @ \ {l}], lvm[v].pvs \union {<<v, l>>})
    OBVIOUS
  <2> DEFINE info == [lvm[v] EXCEPT !.lvs = @ \ {l}]
  <2>1. info \in Contents /\ info.pvs = lvm[v].pvs
    BY <1>1 DEF Contents
  <2>2. \A w \in VGs : w # v => info.pvs \intersect lvm[w].pvs = {}
    BY <2>1 DEF LvmSound
  <2>3. lvm[v].pvs \union {<<v, l>>} \in SUBSET Devices
    BY <1>1, <1>2, <1>3
  <2>4. info.pvs # {}
    BY <2>1 DEF LvmSound, NoVG
  <2> QED
    BY <2>1, <2>2, <2>3, <2>4, ChangeStep
<1>10. CASE \E d \in PvDevs : Wipe(d)
  BY <1>2, <1>10 DEF Wipe, LvmSound, treeVars
<1> QED
  BY <1>4, <1>5, <1>6, <1>7, <1>8, <1>9, <1>10 DEF Environment-----------------------------------------------------------------------------
(* The number of pending uevents follows what is sent and delivered. *)
LEMMA UeventSent ==
  ASSUME uevents \in [Devices -> Nat], IsFiniteSet(Pending), NEW d \in Devices,
         uevents' = [uevents EXCEPT ![d] = @ + 1]
  PROVE  /\ IsFiniteSet(Pending')
         /\ Cardinality(Pending') = Cardinality(Pending) + 1
<1> DEFINE new == <<d, uevents[d] + 1>>
<1>1. \A e \in Devices : uevents'[e] = IF e = d THEN uevents[d] + 1 ELSE uevents[e]
  OBVIOUS
<1>2. new \in Devices \X (Nat \ {0}) /\ new \notin Pending
  BY DEF Pending
<1>3. ASSUME NEW e \in Devices, NEW i \in Nat \ {0}
      PROVE  <<e, i>> \in Pending' <=> <<e, i>> \in Pending \/ <<e, i>> = new
  BY <1>1 DEF Pending
<1>4. Pending \subseteq Devices \X (Nat \ {0}) /\ Pending' \subseteq Devices \X (Nat \ {0})
  BY DEF Pending
<1>5. Pending' = Pending \union {new}
  BY <1>2, <1>3, <1>4
<1> HIDE DEF new
<1> QED
  BY <1>2, <1>5, FS_AddElement

LEMMA UeventDelivered ==
  ASSUME uevents \in [Devices -> Nat], IsFiniteSet(Pending), NEW d \in Devices,
         uevents[d] > 0, uevents' = [uevents EXCEPT ![d] = @ - 1]
  PROVE  /\ IsFiniteSet(Pending')
         /\ Cardinality(Pending') = Cardinality(Pending) - 1
<1> DEFINE old == <<d, uevents[d]>>
<1>1. \A e \in Devices : uevents'[e] = IF e = d THEN uevents[d] - 1 ELSE uevents[e]
  OBVIOUS
<1>2. old \in Pending
  BY DEF Pending
<1>3. ASSUME NEW e \in Devices, NEW i \in Nat \ {0}
      PROVE  <<e, i>> \in Pending' <=> <<e, i>> \in Pending /\ <<e, i>> # old
  BY <1>1 DEF Pending
<1>4. Pending \subseteq Devices \X (Nat \ {0}) /\ Pending' \subseteq Devices \X (Nat \ {0})
  BY DEF Pending
<1>5. Pending' = Pending \ {old}
  BY <1>2, <1>3, <1>4
<1> HIDE DEF old
<1> QED
  BY <1>2, <1>5, FS_RemoveElement-----------------------------------------------------------------------------
(* The invariants that hold whether the daemon is settled or not.          *)
Sound == Inv /\ LvmSound /\ RoundsInOrder /\ HiddenPlain /\ Budget

LEMMA InitSound == Init => Sound /\ ~Settled
<1> SUFFICES ASSUME Init PROVE Sound /\ ~Settled
  OBVIOUS
<1>1. LvmSound /\ RoundsInOrder /\ ~Settled
  BY DEF Init, LvmSound, RoundsInOrder, Settled
<1>2. HiddenPlain
  BY DEF Init, HiddenPlain, NoOverlay, PlainOverlay
<1>3. Pending = {}
  BY DEF Init, Pending
<1>4. labelled \subseteq PvDevs
  BY DEF Init, UsedPvs
<1>5. IsFiniteSet(Pending) /\ Cardinality(Pending) = 0
  BY <1>3, FS_EmptySet
<1>6. uevents \in [Devices -> Nat] /\ \A d \in Devices : uevents[d] <= changes
  BY DEF Init
<1>7. Budget
  <2>1. /\ changes = 0 /\ failures = 0 /\ timer = FALSE /\ round = 0
        /\ excuse = {"unlisted"}
    BY DEF Init
  <2>2. round + Cardinality(Pending) + (IF timer THEN 1 ELSE 0) <= changes
    BY <1>5, <2>1
  <2>3. changes <= MaxChanges /\ failures \in 0..MaxFailures
    BY <2>1, BoundsAssumption
  <2> QED
    BY <1>4, <1>5, <1>6, <2>1, <2>2, <2>3 DEF Budget
<1> QED
  BY <1>1, <1>2, <1>7, InitInv DEF Sound

(* A change of LVM leaves an event pending. *)
LEMMA EnvironmentSound == ASSUME Sound, Environment PROVE Sound' /\ ~Settled'
<1>0. Inv /\ LvmSound
  BY DEF Sound
<1>1. /\ LvmSound'
      /\ changes < MaxChanges /\ changes' = changes + 1
      /\ labelled \subseteq PvDevs => labelled' \subseteq PvDevs
      /\ UNCHANGED <<failures, timer, helpers, table, group, overlay, round,
                     applied, excuse>>
  BY <1>0, EnvironmentStep
<1>2. PICK d \in Devices : uevents' = [uevents EXCEPT ![d] = @ + 1]
  BY <1>0, EnvironmentStep
<1>3. Inv'
  BY <1>0, EnvironmentInv
<1>4. Budget
  BY DEF Sound
<1>5. uevents' \in [Devices -> Nat] /\ uevents'[d] # 0
  BY <1>2, <1>4 DEF Budget
<1>6. ~Settled'
  BY <1>5 DEF Settled
<1>7. IsFiniteSet(Pending') /\ Cardinality(Pending') = Cardinality(Pending) + 1
  BY <1>2, <1>4, UeventSent DEF Budget
<1>8. Cardinality(Pending) \in Nat /\ round \in Nat
  BY <1>0, <1>4, FS_CardinalityType DEF Budget, Inv, Typed
<1>9. \A e \in Devices : uevents'[e] <= changes'
  BY <1>1, <1>2, <1>4 DEF Budget
<1>10. round' + Cardinality(Pending') + (IF timer' THEN 1 ELSE 0) <= changes'
  BY <1>1, <1>4, <1>7, <1>8 DEF Budget
<1>11. Budget'
  BY <1>1, <1>4, <1>5, <1>7, <1>9, <1>10, BoundsAssumption DEF Budget
<1>12. RoundsInOrder' /\ HiddenPlain'
  BY <1>1 DEF Sound, RoundsInOrder, HiddenPlain
<1> QED
  BY <1>1, <1>3, <1>6, <1>11, <1>12 DEF Sound

(* The other steps, but for the delivery of an event and the timer, change *)
(* nothing the budget is about.                                            *)
LEMMA BudgetKept ==
  ASSUME Budget, UNCHANGED <<changes, labelled, uevents, timer, round>>,
         failures' \in 0..MaxFailures,
         excuse' \subseteq {"unlisted", "failed", "overtaken"}
  PROVE  Budget'
<1>1. Pending' = Pending
  BY DEF Pending
<1> QED
  BY <1>1 DEF Budget

(* An event starts the timer, or is an excuse. *)
LEMMA OnUeventSound ==
  ASSUME Sound, NEW d \in Devices, OnUevent(d) PROVE Sound' /\ ~Settled'
<1>0. Inv /\ Budget
  BY DEF Sound
<1>1. /\ uevents[d] > 0 /\ uevents' = [uevents EXCEPT ![d] = @ - 1]
      /\ timer' = (timer \/ LooksLikeLvm(d))
      /\ excuse' = IF LooksLikeLvm(d) THEN excuse ELSE excuse \union {"unlisted"}
      /\ UNCHANGED <<lvm, labelled, changes, failures, helpers, table, group,
                     overlay, round, applied>>
  BY DEF OnUevent, lvmVars, treeVars
<1>2. Inv'
  BY <1>0, DeviceInv
<1>3. IsFiniteSet(Pending') /\ Cardinality(Pending') = Cardinality(Pending) - 1
  BY <1>0, <1>1, UeventDelivered DEF Budget
<1>4. Cardinality(Pending) \in Nat /\ round \in Nat
  BY <1>0, FS_CardinalityType DEF Budget, Inv, Typed
<1>5. timer' \in BOOLEAN
  <2>1. CASE LooksLikeLvm(d)
    BY <1>1, <2>1
  <2>2. CASE ~LooksLikeLvm(d)
    BY <1>0, <1>1, <2>2 DEF Budget
  <2> QED
    BY <2>1, <2>2
<1>6. ~Settled'
  BY <1>1 DEF Settled
<1>7. uevents' \in [Devices -> Nat] /\ \A e \in Devices : uevents'[e] <= changes'
  BY <1>0, <1>1 DEF Budget
<1>8. round' + Cardinality(Pending') + (IF timer' THEN 1 ELSE 0) <= changes'
  BY <1>0, <1>1, <1>3, <1>4 DEF Budget
<1>9. Budget'
  BY <1>0, <1>1, <1>3, <1>5, <1>7, <1>8 DEF Budget
<1>10. LvmSound' /\ RoundsInOrder' /\ HiddenPlain'
  BY <1>1 DEF Sound, LvmSound, RoundsInOrder, HiddenPlain
<1> QED
  BY <1>2, <1>6, <1>9, <1>10 DEF Sound

(* udisksd reports a volume. *)
LEMMA BlockSound ==
  ASSUME Sound, NEW d \in Devices, BlockAdded(d) \/ BlockRemoved(d) PROVE Sound'
<1>0. Inv /\ Budget
  BY DEF Sound
<1>1. UNCHANGED <<lvm, labelled, changes, uevents, timer, failures, helpers,
                  round, applied, excuse>>
  BY DEF BlockAdded, BlockRemoved, lvmVars
<1>2. Inv'
  BY <1>0, DeviceInv
<1>3. \A e \in Devices : overlay'[e] \in {overlay[e], PlainOverlay, NoOverlay}
  BY <1>0 DEF Inv, Typed, BlockAdded, BlockRemoved
<1>4. HiddenPlain'
  BY <1>3 DEF Sound, HiddenPlain, PlainOverlay, NoOverlay
<1>5. LvmSound' /\ RoundsInOrder'
  BY <1>1 DEF Sound, LvmSound, RoundsInOrder
<1>6. Budget'
  BY <1>0, <1>1, BudgetKept DEF Budget
<1> QED
  BY <1>2, <1>4, <1>5, <1>6 DEF Sound

(* The timer starts a round; nothing else is of it. *)
LEMMA TimerSound == ASSUME Sound, DelayedLvmUpdate PROVE Sound'
<1>0. Inv /\ Budget /\ RoundsInOrder
  BY DEF Sound
<1>1. /\ timer /\ timer' = FALSE /\ round' = round + 1 /\ excuse' = {}
      /\ helpers' = helpers \union {ListHelper(round + 1)}
      /\ UNCHANGED <<lvm, labelled, changes, uevents, failures, table, group,
                     overlay, applied>>
  BY DEF DelayedLvmUpdate, lvmVars, treeVars
<1>2. Inv'
  BY <1>0, TimerInv
<1>3. round \in Nat /\ \A h \in helpers : h.round \in Nat
  BY <1>0 DEF Inv, Typed, Helpers
<1>4. ListHelper(round + 1).round = round + 1
  BY DEF ListHelper
<1>5. RoundsInOrder'
  BY <1>0, <1>1, <1>3, <1>4 DEF RoundsInOrder
<1>6. Pending' = Pending
  BY <1>1 DEF Pending
<1>7. Cardinality(Pending) \in Nat
  BY <1>0, FS_CardinalityType DEF Budget
<1>8. round' + Cardinality(Pending') + (IF timer' THEN 1 ELSE 0) <= changes'
  BY <1>0, <1>1, <1>3, <1>6, <1>7 DEF Budget
<1>9. Budget'
  BY <1>0, <1>1, <1>6, <1>8 DEF Budget
<1>10. LvmSound' /\ HiddenPlain'
  BY <1>1 DEF Sound, LvmSound, HiddenPlain
<1> QED
  BY <1>2, <1>5, <1>9, <1>10 DEF Sound
(* What becomes of a helper that exits. *)
Exited(h, e) ==
    \/ /\ h.kind = "list" /\ excuse' = excuse
       /\ e.state = "done" /\ e.groups = {v \in VGs : Exists(v)}
    \/ /\ h.kind = "show" /\ Exists(h.vg) /\ excuse' = excuse
       /\ e.state = "done" /\ e.info = lvm[h.vg]
    \/ h.kind = "show" /\ ~Exists(h.vg) /\ excuse' = excuse
    \/ h.round = round /\ excuse' # {}
    \/ h.round # round /\ excuse' = excuse

LEMMA HelperStep ==
  ASSUME Inv, NEW h \in helpers, HelperReads(h) \/ HelperFails(h)
  PROVE  \E e : /\ helpers' = (helpers \ {h}) \union {e}
               /\ e.round = h.round /\ e.kind = h.kind
               /\ e.vg = h.vg /\ e.inc = h.inc
               /\ h.state = "running" /\ Exited(h, e)
<1>0. h \in Helpers
  BY DEF Inv, Typed
<1>1. CASE ListReads(h)
  <2> DEFINE e == [h EXCEPT !.state = "done", !.groups = {v \in VGs : Exists(v)}]
  <2>1. helpers' = (helpers \ {h}) \union {e} /\ h.state = "running"
    BY <1>1 DEF ListReads, HelperExits
  <2>2. /\ e.round = h.round /\ e.kind = h.kind /\ e.vg = h.vg /\ e.inc = h.inc
        /\ e.state = "done" /\ e.groups = {v \in VGs : Exists(v)}
    BY <1>0 DEF Helpers
  <2>3. h.kind = "list" /\ excuse' = excuse
    BY <1>1 DEF ListReads
  <2> HIDE DEF e
  <2>4. Exited(h, e)
    BY <2>2, <2>3 DEF Exited
  <2> QED
    BY <2>1, <2>2, <2>4
<1>2. CASE ShowReads(h) /\ Exists(h.vg)
  <2> DEFINE e == [h EXCEPT !.state = "done", !.info = lvm[h.vg]]
  <2>1. helpers' = (helpers \ {h}) \union {e} /\ h.state = "running"
    BY <1>2 DEF ShowReads, HelperExits
  <2>2. /\ e.round = h.round /\ e.kind = h.kind /\ e.vg = h.vg /\ e.inc = h.inc
        /\ e.state = "done" /\ e.info = lvm[h.vg]
    BY <1>0 DEF Helpers
  <2>3. h.kind = "show" /\ excuse' = excuse
    BY <1>2 DEF ShowReads
  <2> HIDE DEF e
  <2>4. Exited(h, e)
    BY <1>2, <2>2, <2>3 DEF Exited
  <2> QED
    BY <2>1, <2>2, <2>4
<1>3. CASE (ShowReads(h) /\ ~Exists(h.vg)) \/ HelperFails(h)
  <2> DEFINE e == [h EXCEPT !.state = "failed"]
  <2>1. helpers' = (helpers \ {h}) \union {e} /\ h.state = "running"
    BY <1>3 DEF ShowReads, HelperFails, HelperExits
  <2>2. e.round = h.round /\ e.kind = h.kind /\ e.vg = h.vg /\ e.inc = h.inc
    BY <1>0 DEF Helpers
  <2> HIDE DEF e
  <2>3. Exited(h, e)
    BY <1>3 DEF ShowReads, HelperFails, Exited
  <2> QED
    BY <2>1, <2>2, <2>3
<1> QED
  BY <1>1, <1>2, <1>3 DEF HelperReads

(* A helper that exits stays of its round. *)
LEMMA HelperSound ==
  ASSUME Sound, NEW h \in helpers, HelperReads(h) \/ HelperFails(h) PROVE Sound'
<1>0. Inv /\ Budget /\ RoundsInOrder
  BY DEF Sound
<1>1. UNCHANGED <<lvm, labelled, changes, uevents, timer, table, group, overlay,
                  round, applied>>
  BY DEF HelperReads, ListReads, ShowReads, HelperFails, HelperExits, lvmVars, treeVars
<1>2. failures' \in 0..MaxFailures
  BY <1>0, BoundsAssumption
  DEF Budget, HelperReads, ListReads, ShowReads, HelperFails
<1>3. excuse' \subseteq {"unlisted", "failed", "overtaken"}
  BY <1>0 DEF Budget, HelperReads, ListReads, ShowReads, HelperFails
<1>5. PICK e : helpers' = (helpers \ {h}) \union {e} /\ e.round = h.round
  BY <1>0, HelperStep
<1>6. RoundsInOrder'
  BY <1>0, <1>1, <1>5 DEF RoundsInOrder
<1>7. Inv'
  BY <1>0, HelperInv
<1>8. Budget'
  BY <1>0, <1>1, <1>2, <1>3, BudgetKept
<1>9. LvmSound' /\ HiddenPlain'
  BY <1>1 DEF Sound, LvmSound, HiddenPlain
<1> QED
  BY <1>6, <1>7, <1>8, <1>9 DEF Sound

(* Noting what was dispatched. *)
LEMMA NoteSound ==
  ASSUME Sound, NEW h \in helpers, NoteApplied(h), UNCHANGED round
  PROVE  /\ applied' \in Nat /\ applied' <= round'
         /\ excuse' \subseteq {"unlisted", "failed", "overtaken"}
<1>1. h \in Helpers /\ h.round <= round
  BY DEF Sound, Inv, Typed, RoundsInOrder
<1>2. h.round \in Nat
  BY <1>1 DEF Helpers
<1> QED
  BY <1>1, <1>2 DEF NoteApplied, Sound, Budget, RoundsInOrder

(* A list starts helpers of its own round. *)
LEMMA DispatchListSound ==
  ASSUME Sound, NEW h \in helpers, DispatchList(h) PROVE Sound'
<1>0. Inv /\ Budget /\ RoundsInOrder
  BY DEF Sound
<1>1. UNCHANGED <<lvm, labelled, changes, uevents, timer, failures, overlay, round>>
  BY DEF DispatchList, ApplyList, lvmVars
<1>2. /\ applied' \in Nat /\ applied' <= round'
      /\ excuse' \subseteq {"unlisted", "failed", "overtaken"}
  BY <1>1, NoteSound DEF DispatchList
<1>3. \A e \in helpers' : e \in helpers \/ e.round = h.round
  BY DEF DispatchList, ApplyList, ShowHelper
<1>4. RoundsInOrder'
  BY <1>0, <1>1, <1>2, <1>3 DEF RoundsInOrder
<1>5. Inv'
  BY <1>0, DispatchListInv
<1>6. Budget'
  BY <1>0, <1>1, <1>2, BudgetKept DEF Budget
<1>7. LvmSound' /\ HiddenPlain'
  BY <1>1 DEF Sound, LvmSound, HiddenPlain
<1> QED
  BY <1>4, <1>5, <1>6, <1>7 DEF Sound

LEMMA DispatchListErrorSound ==
  ASSUME Sound, NEW h \in helpers, DispatchListError(h) PROVE Sound'
<1>0. Inv /\ Budget /\ RoundsInOrder
  BY DEF Sound
<1>1. /\ helpers' = helpers \ {h}
      /\ UNCHANGED <<lvm, labelled, changes, uevents, timer, failures, table, group,
                     overlay, round, applied, excuse>>
  BY DEF DispatchListError, lvmVars, treeVars
<1>2. Inv'
  BY <1>0, <1>1 DEF Inv, Typed, ShowsAnObject, OneObjectPerGroup
<1>3. Budget'
  BY <1>0, <1>1, BudgetKept DEF Budget
<1>4. LvmSound' /\ HiddenPlain' /\ RoundsInOrder'
  BY <1>1 DEF Sound, LvmSound, HiddenPlain, RoundsInOrder
<1> QED
  BY <1>2, <1>3, <1>4 DEF Sound

LEMMA DispatchShowErrorSound ==
  ASSUME Sound, NEW h \in helpers, DispatchShowError(h) PROVE Sound'
<1>0. Inv /\ Budget /\ RoundsInOrder
  BY DEF Sound
<1>1. /\ helpers' = helpers \ {h}
      /\ UNCHANGED <<lvm, labelled, changes, uevents, timer, failures, table,
                     overlay, round>>
  BY DEF DispatchShowError, lvmVars
<1>2. /\ applied' \in Nat /\ applied' <= round'
      /\ excuse' \subseteq {"unlisted", "failed", "overtaken"}
  BY <1>1, NoteSound DEF DispatchShowError
<1>3. Inv'
  BY <1>0, DispatchShowErrorInv
<1>4. Budget'
  BY <1>0, <1>1, <1>2, BudgetKept DEF Budget
<1>5. LvmSound' /\ HiddenPlain' /\ RoundsInOrder'
  BY <1>1, <1>2 DEF Sound, LvmSound, HiddenPlain, RoundsInOrder
<1> QED
  BY <1>3, <1>4, <1>5 DEF Sound

(* A "show" changes exported overlays only.                                *)
LEMMA UpdateHidden ==
  ASSUME Inv, HiddenPlain, NEW d \in Devices, NEW v, NEW info, NEW path,
         ~UpdateBlock(d, v, info, path).exported
  PROVE  UpdateBlock(d, v, info, path).lv = "none"
<1> DEFINE o == overlay[d]
           p == UpdateLv(d, o, v, info, path)
           r == UpdatePv(d, p, info, path)
<1>1. o \in Overlays
  BY DEF Inv, Typed
<1>2. CASE ~o.exported
  BY <1>2 DEF UpdateBlock, HiddenPlain
<1>3. CASE o.exported
  <2>1. p \in {o, [o EXCEPT !.lv = path]}
    BY DEF UpdateLv
  <2> HIDE DEF p
  <2>2. r \in {p, [p EXCEPT !.pv = path], [p EXCEPT !.pv = "none"], NoOverlay}
    BY DEF UpdatePv, ClearPv
  <2> HIDE DEF r
  <2>3. UpdateBlock(d, v, info, path) = r
    BY <1>3 DEF UpdateBlock, r, p
  <2>4. [o EXCEPT !.lv = path].exported
    BY <1>1, <1>3 DEF Overlays
  <2>5. p.exported /\ DOMAIN p = {"exported", "pv", "lv"}
    BY <1>1, <1>3, <2>1, <2>4 DEF Overlays
  <2>6. [p EXCEPT !.pv = path].exported /\ [p EXCEPT !.pv = "none"].exported
    BY <2>5
  <2>7. NoOverlay.lv = "none"
    BY DEF NoOverlay
  <2> QED
    BY <2>2, <2>3, <2>5, <2>6, <2>7
<1> QED
  BY <1>2, <1>3

LEMMA DispatchShowSound ==
  ASSUME Sound, NEW h \in helpers, DispatchShow(h) PROVE Sound'
<1>0. Inv /\ Budget /\ RoundsInOrder /\ HiddenPlain
  BY DEF Sound
<1>1. /\ helpers' = helpers \ {h}
      /\ UNCHANGED <<lvm, labelled, changes, uevents, timer, failures, table, round>>
  BY DEF DispatchShow, ApplyShow, lvmVars
<1>2. /\ applied' \in Nat /\ applied' <= round'
      /\ excuse' \subseteq {"unlisted", "failed", "overtaken"}
  BY <1>1, NoteSound DEF DispatchShow
<1>3. Inv'
  BY <1>0, DispatchShowInv
<1>4. Budget'
  BY <1>0, <1>1, <1>2, BudgetKept DEF Budget
<1>5. LvmSound' /\ RoundsInOrder'
  BY <1>1, <1>2 DEF Sound, LvmSound, RoundsInOrder
<1>6. HiddenPlain'
  <2> SUFFICES ASSUME NEW d \in Devices, ~overlay'[d].exported
               PROVE  overlay'[d].lv = "none"
    BY DEF HiddenPlain
  <2>1. PICK path : overlay'[d] = UpdateBlock(d, h.vg, h.info, path)
    BY DEF DispatchShow, ApplyShow
  <2> QED
    BY <1>0, <2>1, UpdateHidden
<1> QED
  BY <1>3, <1>4, <1>5, <1>6 DEF Sound-----------------------------------------------------------------------------
(* A settled daemon and its last round: how each step preserves Current.   *)

(* The list that is started is the only helper of its round. *)
LEMMA TimerCurrent == ASSUME Sound, DelayedLvmUpdate PROVE Current'
<1> DEFINE h == ListHelper(round + 1)
<1>1. round' = round + 1 /\ helpers' = helpers \union {h}
  BY DEF DelayedLvmUpdate
<1>2. round \in Nat /\ \A i \in helpers : i.round \in Nat /\ i.round <= round
  BY DEF Sound, Inv, Typed, Helpers, RoundsInOrder
<1>3. h.kind = "list" /\ h.round = round + 1 /\ h.state = "running"
  BY DEF ListHelper
<1> HIDE DEF h
<1>4. \A i \in helpers' : i.round = round' => i = h
  BY <1>1, <1>2
<1>5. Listing'
  BY <1>1, <1>3, <1>4 DEF Listing
<1> QED
  BY <1>5 DEF Current

LEMMA HelperCurrent ==
  ASSUME Sound, Current, NEW h \in helpers, HelperReads(h) \/ HelperFails(h)
  PROVE  Current'
<1> SUFFICES ASSUME Settled' PROVE Listing' \/ Showing'
  BY DEF Current
<1>1. UNCHANGED <<lvm, uevents, timer, table, group, overlay, round, applied>>
  BY DEF HelperReads, ListReads, ShowReads, HelperFails, HelperExits, lvmVars, treeVars
<1>2. PICK e : /\ helpers' = (helpers \ {h}) \union {e}
               /\ e.round = h.round /\ e.kind = h.kind
               /\ e.vg = h.vg /\ e.inc = h.inc
               /\ h.state = "running" /\ Exited(h, e)
  BY HelperStep DEF Sound
<1>3. excuse' = {} /\ excuse = {}
  BY <1>2 DEF Settled, Exited
<1>4. Settled
  BY <1>1, <1>3 DEF Settled
<1>5. CASE Listing
  <2>1. PICK i \in helpers :
          /\ i.kind = "list" /\ i.round = round
          /\ \A j \in helpers : j.round = round => j = i
          /\ i.state \in {"running", "done"}
          /\ i.state = "done" => i.groups = {v \in VGs : Exists(v)}
    BY <1>5 DEF Listing
  <2>2. CASE h = i
    <3>1. e.state = "done" /\ e.groups = {v \in VGs : Exists(v)}
      BY <1>2, <1>3, <2>1, <2>2 DEF Exited
    <3>2. e \in helpers' /\ \A j \in helpers' : j.round = round => j = e
      BY <1>2, <2>1, <2>2
    <3>3. e.kind = "list" /\ e.round = round
      BY <1>2, <2>1, <2>2
    <3> QED
      BY <1>1, <3>1, <3>2, <3>3 DEF Listing, Exists
  <2>3. CASE h # i
    <3>1. h.round # round
      BY <2>1, <2>3
    <3>2. i \in helpers' /\ \A j \in helpers' : j.round = round => j = i
      BY <1>2, <2>1, <2>3, <3>1
    <3> QED
      BY <1>1, <2>1, <3>2 DEF Listing, Exists
  <2> QED
    BY <2>2, <2>3
<1>6. CASE Showing
  <2>1. ASSUME NEW i \in helpers', i.round = round PROVE RightShow(i)'
    <3>1. CASE i \in helpers
      BY <1>1, <1>6, <2>1, <3>1 DEF Showing, RightShow, Exists
    <3>2. CASE i = e
      <4>1. RightShow(h)
        BY <1>2, <1>6, <2>1, <3>2 DEF Showing
      <4>2. e.state = "done" /\ e.info = lvm[h.vg]
        BY <1>2, <1>3, <2>1, <3>2, <4>1 DEF Exited, RightShow
      <4> QED
        BY <1>1, <1>2, <3>2, <4>1, <4>2 DEF RightShow, Exists
    <3> QED
      BY <1>2, <3>1, <3>2
  <2>2. \A v \in VGs : Awaited(v) => Awaited(v)'
    BY <1>1, <1>2 DEF Awaited
  <2>3. \A v \in VGs : Shown(v)' <=> Shown(v)
    BY <1>1 DEF Shown
  <2> QED
    BY <1>1, <1>6, <2>1, <2>2, <2>3 DEF Showing, Exists
<1> QED
  BY <1>4, <1>5, <1>6 DEF Current

(* udisksd reports blocks of volumes only; a new overlay has no interface. *)
LEMMA BlockCurrent ==
  ASSUME Sound, Current, NEW d \in Devices, BlockAdded(d) \/ BlockRemoved(d)
  PROVE  Current'
<1>1. UNCHANGED <<lvm, uevents, timer, helpers, table, group, round, applied, excuse>>
  BY DEF BlockAdded, BlockRemoved, lvmVars
<1>2. d \in LvDevs
  BY DEF BlockAdded, BlockRemoved, DeviceExists
<1>3. \A e \in Devices : overlay'[e] = IF e = d THEN overlay'[d] ELSE overlay[e]
  BY DEF Sound, Inv, Typed, BlockAdded, BlockRemoved
<1>4. overlay'[d].lv = "none"
  BY DEF Sound, Inv, Typed, BlockAdded, BlockRemoved, PlainOverlay, NoOverlay
<1>5. ASSUME NEW v \in VGs, Shown(v) PROVE Shown(v)'
  <2>1. lvm[v].pvs \subseteq PvDevs /\ lvm[v].lvs \subseteq LVs
    BY DEF Sound, Inv, Typed, Contents
  <2>2. \A e \in lvm[v].pvs : e \in Devices /\ e # d
    BY <1>2, <2>1, NamesAssumption DEF Devices, LvDevs
  <2>3. \A e \in {v} \X lvm[v].lvs : e \in Devices
    BY <2>1 DEF Devices, LvDevs
  <2> QED
    BY <1>1, <1>3, <1>4, <1>5, <2>2, <2>3 DEF Shown
<1>6. Listing => Listing'
  BY <1>1 DEF Listing, Exists
<1>7. Showing => Showing'
  BY <1>1, <1>5 DEF Showing, RightShow, Exists, Awaited
<1> QED
  BY <1>1, <1>6, <1>7 DEF Current, Settled

(* The error of a list is of an earlier round, if the daemon is settled. *)
LEMMA DispatchListErrorCurrent ==
  ASSUME Sound, Current, NEW h \in helpers, DispatchListError(h) PROVE Current'
<1>1. /\ helpers' = helpers \ {h} /\ h.kind = "list" /\ h.state = "failed"
      /\ UNCHANGED <<lvm, uevents, timer, table, group, overlay, round, applied, excuse>>
  BY DEF DispatchListError, lvmVars, treeVars
<1>2. Listing => Listing'
  BY <1>1 DEF Listing, Exists
<1>3. ASSUME Showing PROVE Showing'
  <2>1. h.round # round
    BY <1>1, <1>3 DEF Showing, RightShow
  <2>2. \A v \in VGs : Awaited(v) => Awaited(v)'
    BY <1>1, <2>1 DEF Awaited
  <2>3. \A v \in VGs : Shown(v)' <=> Shown(v)
    BY <1>1 DEF Shown
  <2> QED
    BY <1>1, <1>3, <2>2, <2>3 DEF Showing, RightShow, Exists
<1> QED
  BY <1>1, <1>2, <1>3 DEF Current, Settled

(* What is dispatched without giving an excuse is not overtaken. *)
LEMMA NotOvertaken ==
  ASSUME Sound, NEW h \in helpers, NoteApplied(h), excuse' = {}
  PROVE  /\ excuse = {} /\ h.round >= applied
         /\ applied = round => h.round = round
<1>1. h.round \in Nat /\ h.round <= round /\ applied \in Nat /\ round \in Nat
  BY DEF Sound, Inv, Typed, Helpers, RoundsInOrder
<1> QED
  BY <1>1 DEF NoteApplied

LEMMA DispatchShowErrorCurrent ==
  ASSUME Sound, Current, NEW h \in helpers, DispatchShowError(h) PROVE Current'
<1> SUFFICES ASSUME Settled' PROVE Listing' \/ Showing'
  BY DEF Current
<1>1. /\ helpers' = helpers \ {h} /\ h.kind = "show" /\ h.state = "failed"
      /\ UNCHANGED <<lvm, uevents, timer, round>>
  BY DEF DispatchShowError, lvmVars
<1>2. excuse = {} /\ (applied = round => h.round = round)
  BY NotOvertaken DEF DispatchShowError, Settled
<1>3. Settled
  BY <1>1, <1>2 DEF Settled
<1>4. Listing => Listing'
  BY <1>1 DEF Listing, Exists
<1>5. ~Showing
  BY <1>1, <1>2 DEF Showing, RightShow
<1> QED
  BY <1>3, <1>4, <1>5 DEF Current
(* What a result that is right about group v makes of an overlay: it shows *)
(* v where v is, and does not touch what is right about another group.     *)
LEMMA RightUpdate ==
  ASSUME Sound, NEW v \in VGs, NEW d \in Devices,
         NEW r, r = UpdateBlock(d, v, lvm[v], v)
  PROVE  /\ d \in lvm[v].pvs /\ r.exported => r.pv = v
         /\ d \in {v} \X lvm[v].lvs => r.lv \in {"none", v}
         /\ \A w \in VGs \ {v} :
               /\ d \in lvm[w].pvs /\ (overlay[d].exported => overlay[d].pv = w)
                     => (r.exported => r.pv = w)
               /\ d \in {w} \X LVs /\ overlay[d].lv \in {"none", w}
                     => r.lv \in {"none", w}
<1> DEFINE o == overlay[d]
           p == UpdateLv(d, o, v, lvm[v], v)
<1>1. o \in Overlays
  BY DEF Sound, Inv, Typed
<1>2. v # "none" /\ v # "null"
  BY NamesAssumption
<1>3. CASE ~o.exported
  <2>1. r = o /\ r.lv = "none"
    BY <1>3 DEF UpdateBlock, Sound, HiddenPlain
  <2> QED
    BY <1>3, <2>1
<1>4. CASE o.exported
  <2>1. r = UpdatePv(d, p, lvm[v], v)
    BY <1>4 DEF UpdateBlock
  <2>2. /\ p \in Overlays /\ p.exported /\ p.pv = o.pv
        /\ p.lv = IF d \in {v} \X lvm[v].lvs THEN v ELSE o.lv
    BY <1>1, <1>2, <1>4 DEF UpdateLv, Overlays
  <2> HIDE DEF p
  <2>3. CASE d \in lvm[v].pvs
    <3>1. r = [p EXCEPT !.pv = v]
      BY <2>1, <2>3 DEF UpdatePv
    <3>2. r.pv = v /\ r.lv = p.lv
      BY <2>2, <3>1 DEF Overlays
    <3>3. \A w \in VGs \ {v} : d \notin lvm[w].pvs
      BY <2>3 DEF Sound, LvmSound
    <3> QED
      BY <2>2, <3>2, <3>3
  <2>4. CASE d \notin lvm[v].pvs /\ p.pv # v
    <3>1. r = p
      BY <2>1, <2>4 DEF UpdatePv
    <3> QED
      BY <1>4, <2>2, <2>4, <3>1
  <2>5. CASE d \notin lvm[v].pvs /\ p.pv = v
    <3>1. r = ClearPv(p)
      BY <2>1, <2>5 DEF UpdatePv
    <3>2. r.lv = p.lv
      BY <2>2, <3>1 DEF ClearPv, NoOverlay, Overlays
    <3> QED
      BY <1>4, <2>2, <2>5, <3>2
  <2> QED
    BY <2>3, <2>4, <2>5
<1> QED
  BY <1>3, <1>4

(* The "show" of a settled round publishes its group as it is. *)
LEMMA RightShowApplied ==
  ASSUME Sound, NEW h \in helpers, DispatchShow(h), RightShow(h)
  PROVE  /\ h.vg \in VGs /\ table[h.vg] \in Inc
         /\ group' = [group EXCEPT ![h.vg][table[h.vg]] =
                         [state |-> "exported", lvs |-> lvm[h.vg].lvs]]
         /\ overlay' = [d \in Devices |-> UpdateBlock(d, h.vg, lvm[h.vg], h.vg)]
<1> DEFINE v == h.vg
           n == h.inc
           g == Publish(group[v][n])
<1>1. v \in VGs /\ n \in Inc /\ n = table[v] /\ h.info = lvm[v]
  BY DEF RightShow, DispatchShow, Sound, Inv, ShowsAnObject
<1>2. group[v][n] \in GroupObjects /\ group[v][n].state \in {"new", "exported"}
  BY <1>1 DEF Sound, Inv, Typed, OneObjectPerGroup
<1>3. g.state = "exported" /\ [g EXCEPT !.lvs = lvm[v].lvs] = [state |-> "exported", lvs |-> lvm[v].lvs]
  BY <1>2 DEF Publish, GroupObjects
<1>4. PathOf(v, g) = v
  BY <1>3 DEF PathOf
<1>5. [state |-> "exported", lvs |-> lvm[v].lvs].state # "disposed"
  OBVIOUS
<1> HIDE DEF g
<1>6. /\ group' = [group EXCEPT ![v][n] =
                      Collect([g EXCEPT !.lvs = lvm[v].lvs], v, n, helpers \ {h})]
      /\ overlay' = [d \in Devices |-> UpdateBlock(d, v, lvm[v], PathOf(v, g))]
  BY <1>1 DEF DispatchShow, ApplyShow, LvsAfter, g
<1>7. Collect([g EXCEPT !.lvs = lvm[v].lvs], v, n, helpers \ {h}) =
        [state |-> "exported", lvs |-> lvm[v].lvs]
  BY <1>3, <1>5 DEF Collect
<1> QED
  BY <1>1, <1>4, <1>6, <1>7

LEMMA DispatchShowCurrent ==
  ASSUME Sound, Current, NEW h \in helpers, DispatchShow(h) PROVE Current'
<1> SUFFICES ASSUME Settled' PROVE Listing' \/ Showing'
  BY DEF Current
<1>1. /\ helpers' = helpers \ {h} /\ h.kind = "show" /\ h.state = "done"
      /\ UNCHANGED <<lvm, uevents, timer, table, round>>
  BY DEF DispatchShow, ApplyShow, lvmVars
<1>2. excuse = {} /\ (applied = round => h.round = round)
  BY NotOvertaken DEF DispatchShow, Settled
<1>3. Settled
  BY <1>1, <1>2 DEF Settled
<1>4. Listing => Listing'
  BY <1>1 DEF Listing, Exists
<1>5. ASSUME Showing PROVE Showing'
  <2>1. RightShow(h) /\ h.round = round /\ applied = round
    BY <1>2, <1>5 DEF Showing
  <2>2. applied' = round'
    <3>1. round \in Nat
      BY DEF Sound, Inv, Typed
    <3> QED
      BY <1>1, <2>1, <3>1 DEF DispatchShow, NoteApplied
  <2>3. /\ h.vg \in VGs /\ table[h.vg] \in Inc
        /\ group' = [group EXCEPT ![h.vg][table[h.vg]] =
                        [state |-> "exported", lvs |-> lvm[h.vg].lvs]]
        /\ overlay' = [d \in Devices |-> UpdateBlock(d, h.vg, lvm[h.vg], h.vg)]
    BY <2>1, RightShowApplied
  <2> DEFINE v == h.vg
  <2>4. \A w \in VGs : /\ lvm[w].pvs \subseteq Devices
                       /\ {w} \X lvm[w].lvs \subseteq Devices
                       /\ lvm[w].lvs \subseteq LVs
    BY DEF Sound, Inv, Typed, Contents, Devices, LvDevs
  <2>5. Shown(v)'
    <3>1. group'[v][table[v]] = [state |-> "exported", lvs |-> lvm[v].lvs]
      BY <2>3 DEF Sound, Inv, Typed
    <3>2. \A d \in lvm[v].pvs : overlay'[d].exported => overlay'[d].pv = v
      BY <2>3, <2>4, RightUpdate
    <3>3. \A d \in {v} \X lvm[v].lvs : overlay'[d].lv \in {"none", v}
      BY <2>3, <2>4, RightUpdate
    <3> QED
      BY <1>1, <3>1, <3>2, <3>3 DEF Shown
  <2>6. ASSUME NEW w \in VGs, w # v, Shown(w) PROVE Shown(w)'
    <3>1. group'[w] = group[w]
      BY <2>3, <2>6 DEF Sound, Inv, Typed
    <3>2. \A d \in lvm[w].pvs : overlay'[d].exported => overlay'[d].pv = w
      <4> SUFFICES ASSUME NEW d \in lvm[w].pvs PROVE overlay'[d].exported => overlay'[d].pv = w
        OBVIOUS
      <4>1. d \in Devices /\ overlay'[d] = UpdateBlock(d, v, lvm[v], v)
        BY <2>3, <2>4
      <4>2. overlay[d].exported => overlay[d].pv = w
        BY <2>6 DEF Shown
      <4> QED
        BY <2>3, <2>6, <4>1, <4>2, RightUpdate
    <3>3. \A d \in {w} \X lvm[w].lvs : overlay'[d].lv \in {"none", w}
      <4> SUFFICES ASSUME NEW d \in {w} \X lvm[w].lvs PROVE overlay'[d].lv \in {"none", w}
        OBVIOUS
      <4>1. /\ d \in Devices /\ d \in {w} \X LVs
            /\ overlay'[d] = UpdateBlock(d, v, lvm[v], v)
        BY <2>3, <2>4
      <4>2. overlay[d].lv \in {"none", w}
        BY <2>6 DEF Shown
      <4> QED
        BY <2>3, <2>6, <4>1, <4>2, RightUpdate
    <3> QED
      BY <1>1, <2>6, <3>1, <3>2, <3>3 DEF Shown
  <2>7. \A w \in VGs : w # v /\ Awaited(w) => Awaited(w)'
    BY <1>1 DEF Awaited
  <2>8. \A w \in VGs : Exists(w)' => Shown(w)' \/ Awaited(w)'
    <3>1. \A w \in VGs : Exists(w) => Shown(w) \/ Awaited(w)
      BY <1>5 DEF Showing
    <3> QED
      BY <1>1, <2>5, <2>6, <2>7, <3>1 DEF Exists
  <2>9. \A i \in helpers' : i.round = round' => RightShow(i)'
    BY <1>1, <1>5 DEF Showing, RightShow, Exists
  <2> QED
    BY <1>1, <1>5, <2>2, <2>8, <2>9 DEF Showing, Exists
<1> QED
  BY <1>3, <1>4, <1>5 DEF Current

(* The list of a settled round leaves a "show" for every group LVM has.    *)
LEMMA DispatchListCurrent ==
  ASSUME Sound, Current, NEW h \in helpers, DispatchList(h) PROVE Current'
<1> SUFFICES ASSUME Settled' PROVE Listing' \/ Showing'
  BY DEF Current
<1>1. /\ h.kind = "list" /\ h.state = "done"
      /\ UNCHANGED <<lvm, uevents, timer, overlay, round>>
  BY DEF DispatchList, ApplyList, lvmVars
<1> DEFINE shows == {ShowHelper(v, TableAfter(h.groups)[v], h.round) : v \in h.groups}
<1>2. helpers' = (helpers \ {h}) \union shows /\ table' = TableAfter(h.groups)
  BY DEF DispatchList, ApplyList
<1>3. excuse = {} /\ (applied = round => h.round = round)
  BY NotOvertaken DEF DispatchList, Settled
<1>4. Settled
  BY <1>1, <1>3 DEF Settled
<1>5. \A i \in shows : i.round = h.round
  BY DEF ShowHelper
<1>6. ~Showing
  BY <1>1, <1>3 DEF Showing, RightShow
<1>7. PICK l \in helpers :
        /\ l.kind = "list" /\ l.round = round
        /\ \A j \in helpers : j.round = round => j = l
        /\ l.state \in {"running", "done"}
        /\ l.state = "done" => l.groups = {v \in VGs : Exists(v)}
  BY <1>4, <1>6 DEF Current, Listing
<1>8. CASE h # l
  <2>1. h.round # round
    BY <1>7, <1>8
  <2>2. l \in helpers' /\ \A j \in helpers' : j.round = round => j = l
    <3> HIDE DEF shows
    <3> QED
      BY <1>2, <1>5, <1>7, <1>8, <2>1
  <2> QED
    BY <1>1, <1>7, <2>2 DEF Listing, Exists
<1>9. CASE h = l
  <2>1. h.round = round /\ h.groups = {v \in VGs : Exists(v)}
    BY <1>1, <1>7, <1>9
  <2>2. applied' = round'
    <3>1. round \in Nat /\ applied \in Nat /\ applied <= round
      BY DEF Sound, Inv, Typed, RoundsInOrder
    <3> QED
      BY <1>1, <2>1, <3>1 DEF DispatchList, NoteApplied
  <2>3. \A v \in h.groups : table'[v] \in Inc
    <3>1. h.groups \in SUBSET VGs
      BY <2>1
    <3>2. \A w \in h.groups : table[w] = 0 => \E n \in Inc : group[w][n].state = "free"
      BY DEF DispatchList
    <3> QED
      BY <1>2, <3>1, <3>2, ListLive DEF Sound
  <2>4. \A v \in VGs \ h.groups : table'[v] = 0
    BY <1>2 DEF TableAfter, Added, Removed
  <2>5. \A v \in VGs : Exists(v)' <=> table'[v] # 0
    BY <1>1, <2>1, <2>3, <2>4 DEF Exists, Inc
  <2>6. ASSUME NEW i \in helpers', i.round = round' PROVE RightShow(i)'
    <3>1. i \in shows
      BY <1>1, <1>2, <1>7, <1>9, <2>6
    <3>2. PICK v \in h.groups : i = ShowHelper(v, TableAfter(h.groups)[v], h.round)
      BY <3>1
    <3>3. i.kind = "show" /\ i.vg = v /\ i.inc = table'[v] /\ i.state = "running"
      BY <1>2, <3>2 DEF ShowHelper
    <3>4. v \in VGs /\ Exists(v)'
      BY <1>1, <2>1 DEF Exists
    <3> QED
      BY <3>3, <3>4 DEF RightShow, Exists
  <2>7. ASSUME NEW v \in VGs, Exists(v)' PROVE Awaited(v)'
    <3> DEFINE i == ShowHelper(v, TableAfter(h.groups)[v], h.round)
    <3>1. v \in h.groups
      BY <1>1, <2>1, <2>7 DEF Exists
    <3>2. i \in helpers'
      BY <1>2, <3>1
    <3>3. i.vg = v /\ i.round = round'
      BY <1>1, <2>1 DEF ShowHelper
    <3> HIDE DEF i
    <3> QED
      BY <3>2, <3>3 DEF Awaited
  <2>8. Showing'
    BY <2>2, <2>5, <2>6, <2>7 DEF Showing
  <2> QED
    BY <2>8
<1> QED
  BY <1>8, <1>9
-----------------------------------------------------------------------------
(* Both parts together are inductive. *)
CurrentInv == Sound /\ Current

LEMMA CurrentInit == Init => CurrentInv
  BY InitSound DEF CurrentInv, Current

LEMMA CurrentNext == CurrentInv /\ [Next]_vars => CurrentInv'
<1> SUFFICES ASSUME Sound, Current, [Next]_vars PROVE Sound' /\ Current'
  BY DEF CurrentInv
<1>1. CASE Environment
  BY <1>1, EnvironmentSound DEF Current
<1>2. ASSUME NEW d \in Devices, OnUevent(d) PROVE Sound' /\ Current'
  BY <1>2, OnUeventSound DEF Current
<1>3. ASSUME NEW d \in Devices, BlockAdded(d) \/ BlockRemoved(d) PROVE Sound' /\ Current'
  BY <1>3, BlockSound, BlockCurrent
<1>4. CASE DelayedLvmUpdate
  BY <1>4, TimerSound, TimerCurrent
<1>5. ASSUME NEW h \in helpers, HelperReads(h) \/ HelperFails(h) PROVE Sound' /\ Current'
  BY <1>5, HelperSound, HelperCurrent
<1>6. ASSUME NEW h \in helpers, DispatchList(h) PROVE Sound' /\ Current'
  BY <1>6, DispatchListSound, DispatchListCurrent
<1>7. ASSUME NEW h \in helpers, DispatchListError(h) PROVE Sound' /\ Current'
  BY <1>7, DispatchListErrorSound, DispatchListErrorCurrent
<1>8. ASSUME NEW h \in helpers, DispatchShow(h) PROVE Sound' /\ Current'
  BY <1>8, DispatchShowSound, DispatchShowCurrent
<1>9. ASSUME NEW h \in helpers, DispatchShowError(h) PROVE Sound' /\ Current'
  BY <1>9, DispatchShowErrorSound, DispatchShowErrorCurrent
<1>10. CASE UNCHANGED vars
  <2>0. /\ UNCHANGED <<lvm, labelled, uevents, changes, failures, timer, helpers, table>>
        /\ UNCHANGED <<group, overlay, round, applied, excuse>>
    BY <1>10 DEF vars
  <2>1. Inv'
    BY <1>10, NextInv DEF Sound
  <2>2. LvmSound' /\ RoundsInOrder' /\ HiddenPlain'
    BY <2>0 DEF Sound, LvmSound, RoundsInOrder, HiddenPlain
  <2>3. Budget'
    BY <2>0, BudgetKept DEF Sound, Budget
  <2>4. (Listing' <=> Listing) /\ (Settled' <=> Settled)
    BY <2>0 DEF Listing, Settled, Exists
  <2>5. Showing' <=> Showing
    BY <2>0 DEF Showing, Shown, Awaited, RightShow, Exists
  <2> QED
    BY <2>1, <2>2, <2>3, <2>4, <2>5 DEF Sound, Current
<1> QED
  BY <1>1, <1>2, <1>3, <1>4, <1>5, <1>6, <1>7, <1>8, <1>9, <1>10 DEF Next, Dispatch

LEMMA CurrentHolds == Spec => []CurrentInv
  BY CurrentInit, CurrentNext, PTL DEF Spec

(* When no event, timer or helper is left and nothing excuses it, the tree *)
(* shows the groups LVM has, each with its volumes and on the blocks of    *)
(* its physical volumes and volumes: for any number of changes, in any     *)
(* order of the helpers and of the dispatch of their results.              *)
THEOREM TreeCorrect == Spec => []QuietMeansCurrent
<1>1. CurrentInv => QuietMeansCurrent
  <2> SUFFICES ASSUME Sound, Current, Quiet, excuse = {} PROVE TreeCurrent
    BY DEF CurrentInv, QuietMeansCurrent
  <2>1. Showing
    BY DEF Quiet, Current, Settled, Listing
  <2>2. \A v \in VGs : Exists(v) => Shown(v)
    BY <2>1 DEF Quiet, Showing, Awaited
  <2>3. \A v \in VGs : lvm[v].pvs # {} => Exists(v)
    BY DEF Exists
  <2>4. \A v \in VGs : lvm[v].lvs # {} => Exists(v)
    BY DEF Exists, Sound, LvmSound, NoVG
  <2> QED
    BY <2>1, <2>2, <2>3, <2>4 DEF TreeCurrent, Showing, Shown
<1> QED
  BY <1>1, CurrentHolds, PTL

(* Every variable stays in its range: the daemon never starts more lists   *)
(* than LVM made changes, since each takes up at least one uevent, and it  *)
(* has no result of a list it did not start.                               *)
THEOREM TypeCorrect == Spec => []TypeOK
<1>1. CurrentInv => TypeOK
  <2> SUFFICES ASSUME Sound PROVE TypeOK
    BY DEF CurrentInv
  <2>1. Typed /\ Budget /\ RoundsInOrder
    BY DEF Sound, Inv
  <2>2. changes \in Round
    BY <2>1, BoundsAssumption DEF Budget, Round
  <2>3. round \in Round /\ round <= changes
    <3>1. Cardinality(Pending) \in Nat /\ round \in Nat
      BY <2>1, FS_CardinalityType DEF Budget, Typed
    <3> QED
      BY <2>1, <3>1, BoundsAssumption DEF Budget, Round
  <2>4. applied \in Round
    BY <2>1, <2>3, BoundsAssumption DEF RoundsInOrder, Round
  <2>5. uevents \in [Devices -> Round]
    BY <2>1, <2>2, BoundsAssumption DEF Budget, Round
  <2>6. ASSUME NEW h \in helpers
        PROVE  h \in [kind : {"list", "show"}, round : Round,
                      vg : VGs \union {"all"}, inc : 0..Incarnations,
                      state : {"running", "done", "failed"}, groups : SUBSET VGs,
                      info : [pvs : SUBSET PvDevs, lvs : SUBSET LVs]]
    <3>1. h \in Helpers /\ h.round <= round
      BY <2>1 DEF Typed, RoundsInOrder
    <3>2. h.round \in Nat
      BY <3>1 DEF Helpers
    <3>3. h.round \in Round
      BY <2>3, <3>1, <3>2, BoundsAssumption DEF Round
    <3> QED
      BY <3>1, <3>3 DEF Helpers, Contents
  <2> QED
    BY <2>1, <2>2, <2>3, <2>4, <2>5, <2>6
    DEF TypeOK, Typed, Budget, Contents, GroupObjects, Overlays
<1> QED
  BY <1>1, CurrentHolds, PTL
=============================================================================
