--------------------------- MODULE VgSync_proof ---------------------------
(***************************************************************************)
(* Proofs about VgSync, for any groups, volumes, devices and bounds: a     *)
(* volume group never has two objects that are or will be published, and   *)
(* a group does not take the physical volume of another.                   *)
(***************************************************************************)
EXTENDS VgSync, TLAPS

Contents == [pvs : SUBSET PvDevs, lvs : SUBSET LVs]
GroupObjects == [state : GroupStates, lvs : SUBSET LVs]
Overlays == [exported : BOOLEAN, pv : VGs \union {"none", "null"},
             lv : VGs \union {"none", "null"}]
Helpers == [kind : {"list", "show"}, round : Nat, vg : VGs \union {"all"},
            inc : 0..Incarnations, state : {"running", "done", "failed"},
            groups : SUBSET VGs, info : Contents]

(* The ranges of the variables the proofs are about.  TypeOK bounds some   *)
(* of them more tightly, by the number of changes.                         *)
Typed ==
    /\ lvm \in [VGs -> Contents]
    /\ round \in Nat
    /\ helpers \subseteq Helpers
    /\ table \in [VGs -> 0..Incarnations]
    /\ group \in [VGs -> [Inc -> GroupObjects]]
    /\ overlay \in [Devices -> Overlays]

(* A "show" is for one object of one group. *)
ShowsAnObject == \A h \in helpers : h.kind = "show" => h.vg \in VGs /\ h.inc \in Inc

Inv == Typed /\ ShowsAnObject /\ OneObjectPerGroup
-----------------------------------------------------------------------------
(* The initial state. *)
LEMMA InitInv == Init => Inv
<1> SUFFICES ASSUME Init PROVE Inv
  OBVIOUS
<1> USE BoundsAssumption
<1>1. lvm \in [VGs -> Contents] /\ round \in Nat /\ helpers \subseteq Helpers
  BY DEF Init, Contents
<1>2. table \in [VGs -> 0..Incarnations]
  BY DEF Init
<1>3. group \in [VGs -> [Inc -> GroupObjects]]
  BY DEF Init, NoGroup, GroupObjects, GroupStates
<1>4. overlay \in [Devices -> Overlays]
  <2>1. PlainOverlay \in Overlays /\ NoOverlay \in Overlays
    BY DEF PlainOverlay, NoOverlay, Overlays
  <2> QED
    BY <2>1 DEF Init
<1>5. ShowsAnObject
  BY DEF Init, ShowsAnObject
<1>6. OneObjectPerGroup
  BY DEF Init, OneObjectPerGroup, NoGroup, Inc
<1> QED
  BY <1>1, <1>2, <1>3, <1>4, <1>5, <1>6 DEF Inv, Typed

(* What LVM does is within its type, and leaves the daemon alone. *)
LEMMA EnvironmentInv == Inv /\ Environment => Inv'
<1> SUFFICES ASSUME Inv, Environment PROVE Inv'
  OBVIOUS
<1> USE DEF Inv, Typed
<1>1. UNCHANGED <<round, helpers, table, group, overlay>>
  BY DEF Environment, VgCreate, VgRemove, VgExtend, VgReduce, LvCreate, LvRemove,
         Change, Wipe, treeVars
<1>2. lvm' \in [VGs -> Contents]
  <2>1. ASSUME NEW v \in VGs, NEW info, NEW touched, Change(v, info, touched),
               info \in Contents
        PROVE  lvm' \in [VGs -> Contents]
    BY <2>1 DEF Change
  <2>2. NoVG \in Contents
    BY DEF NoVG, Contents
  <2>3. CASE VgCreate
    <3> PICK v \in VGs, ps \in SUBSET (PvDevs \ UsedPvs) :
               Change(v, [pvs |-> ps, lvs |-> {}], ps)
      BY <2>3 DEF VgCreate
    <3>1. [pvs |-> ps, lvs |-> {}] \in Contents
      BY DEF Contents
    <3> QED
      BY <2>1, <3>1
  <2>4. CASE VgRemove
    BY <2>1, <2>2, <2>4 DEF VgRemove
  <2>5. CASE VgExtend
    <3> PICK v \in VGs, d \in PvDevs \ UsedPvs :
               Change(v, [lvm[v] EXCEPT !.pvs = @ \union {d}], lvm[v].pvs \union {d})
      BY <2>5 DEF VgExtend
    <3>1. [lvm[v] EXCEPT !.pvs = @ \union {d}] \in Contents
      BY DEF Contents
    <3> QED
      BY <2>1, <3>1
  <2>6. CASE VgReduce
    <3> PICK v \in VGs : \E d \in lvm[v].pvs :
               Change(v, [lvm[v] EXCEPT !.pvs = @ \ {d}], lvm[v].pvs)
      BY <2>6 DEF VgReduce
    <3> PICK d \in lvm[v].pvs :
               Change(v, [lvm[v] EXCEPT !.pvs = @ \ {d}], lvm[v].pvs)
      OBVIOUS
    <3>1. [lvm[v] EXCEPT !.pvs = @ \ {d}] \in Contents
      BY DEF Contents
    <3> QED
      BY <2>1, <3>1
  <2>7. CASE LvCreate
    <3> PICK v \in VGs : \E l \in LVs \ lvm[v].lvs :
               Change(v, [lvm[v] EXCEPT !.lvs = @ \union {l}], lvm[v].pvs \union {<<v, l>>})
      BY <2>7 DEF LvCreate
    <3> PICK l \in LVs \ lvm[v].lvs :
               Change(v, [lvm[v] EXCEPT !.lvs = @ \union {l}], lvm[v].pvs \union {<<v, l>>})
      OBVIOUS
    <3>1. [lvm[v] EXCEPT !.lvs = @ \union {l}] \in Contents
      BY DEF Contents
    <3> QED
      BY <2>1, <3>1
  <2>8. CASE LvRemove
    <3> PICK v \in VGs : \E l \in lvm[v].lvs :
               Change(v, [lvm[v] EXCEPT !.lvs = @ \ {l}], lvm[v].pvs \union {<<v, l>>})
      BY <2>8 DEF LvRemove
    <3> PICK l \in lvm[v].lvs :
               Change(v, [lvm[v] EXCEPT !.lvs = @ \ {l}], lvm[v].pvs \union {<<v, l>>})
      OBVIOUS
    <3>1. [lvm[v] EXCEPT !.lvs = @ \ {l}] \in Contents
      BY DEF Contents
    <3> QED
      BY <2>1, <3>1
  <2>9. CASE \E d \in PvDevs : Wipe(d)
    BY <2>9 DEF Wipe
  <2> QED
    BY <2>3, <2>4, <2>5, <2>6, <2>7, <2>8, <2>9 DEF Environment
<1> QED
  BY <1>1, <1>2 DEF ShowsAnObject, OneObjectPerGroup

(* Uevents and overlays come and go. *)
LEMMA DeviceInv ==
  ASSUME Inv, NEW d \in Devices, OnUevent(d) \/ BlockAdded(d) \/ BlockRemoved(d)
  PROVE  Inv'
<1> USE DEF Inv, Typed
<1>1. UNCHANGED <<lvm, round, helpers, table, group>>
  BY DEF OnUevent, BlockAdded, BlockRemoved, lvmVars, treeVars
<1>2. overlay' \in [Devices -> Overlays]
  <2>1. PlainOverlay \in Overlays /\ NoOverlay \in Overlays
    BY DEF PlainOverlay, NoOverlay, Overlays
  <2> QED
    BY <2>1 DEF OnUevent, BlockAdded, BlockRemoved, treeVars
<1> QED
  BY <1>1, <1>2 DEF ShowsAnObject, OneObjectPerGroup

(* The timer starts one more list. *)
LEMMA TimerInv == ASSUME Inv, DelayedLvmUpdate PROVE Inv'
<1> USE DEF Inv, Typed
<1>1. UNCHANGED <<lvm, table, group, overlay>> /\ round' \in Nat
  BY DEF DelayedLvmUpdate, lvmVars, treeVars
<1>2. ListHelper(round + 1) \in Helpers
  BY BoundsAssumption DEF ListHelper, Helpers, NoVG, Contents
<1>3. helpers' \subseteq Helpers
  BY <1>2 DEF DelayedLvmUpdate
<1>4. ListHelper(round + 1).kind = "list"
  BY DEF ListHelper
<1>5. ShowsAnObject'
  BY <1>4 DEF DelayedLvmUpdate, ShowsAnObject
<1> QED
  BY <1>1, <1>3, <1>5 DEF OneObjectPerGroup

(* A helper that exits still is about the same object. *)
LEMMA HelperInv ==
  ASSUME Inv, NEW h \in helpers, HelperReads(h) \/ HelperFails(h)
  PROVE  Inv'
<1> USE DEF Inv, Typed
<1>1. UNCHANGED <<lvm, round, table, group, overlay>>
  BY DEF HelperReads, ListReads, ShowReads, HelperFails, HelperExits, lvmVars, treeVars
<1>2. PICK e : /\ helpers' = (helpers \ {h}) \union {e}
               /\ e \in Helpers
               /\ e.kind = h.kind /\ e.vg = h.vg /\ e.inc = h.inc
  <2>0. h \in Helpers
    OBVIOUS
  <2>1. CASE ListReads(h)
    <3> DEFINE e == [h EXCEPT !.state = "done", !.groups = {v \in VGs : Exists(v)}]
    <3>1. helpers' = (helpers \ {h}) \union {e}
      BY <2>1 DEF ListReads, HelperExits
    <3>2. e \in Helpers
      BY <2>0 DEF Helpers
    <3>3. e.kind = h.kind /\ e.vg = h.vg /\ e.inc = h.inc
      BY <2>0 DEF Helpers
    <3> QED
      BY <3>1, <3>2, <3>3
  <2>2. CASE ShowReads(h)
    <3> DEFINE e == IF Exists(h.vg)
                      THEN [h EXCEPT !.state = "done", !.info = lvm[h.vg]]
                      ELSE [h EXCEPT !.state = "failed"]
    <3>1. helpers' = (helpers \ {h}) \union {e}
      BY <2>2 DEF ShowReads, HelperExits
    <3>2. h.vg \in VGs
      BY <2>2 DEF ShowReads, ShowsAnObject
    <3>3. lvm[h.vg] \in Contents
      BY <3>2
    <3>4. [h EXCEPT !.state = "done", !.info = lvm[h.vg]] \in Helpers
      BY <2>0, <3>3 DEF Helpers
    <3>5. [h EXCEPT !.state = "failed"] \in Helpers
      BY <2>0 DEF Helpers
    <3>6. e \in Helpers
      BY <3>4, <3>5
    <3>7. e.kind = h.kind /\ e.vg = h.vg /\ e.inc = h.inc
      BY <2>0 DEF Helpers
    <3> QED
      BY <3>1, <3>6, <3>7
  <2>3. CASE HelperFails(h)
    <3> DEFINE e == [h EXCEPT !.state = "failed"]
    <3>1. helpers' = (helpers \ {h}) \union {e}
      BY <2>3 DEF HelperFails, HelperExits
    <3>2. e \in Helpers
      BY <2>0 DEF Helpers
    <3>3. e.kind = h.kind /\ e.vg = h.vg /\ e.inc = h.inc
      BY <2>0 DEF Helpers
    <3> QED
      BY <3>1, <3>2, <3>3
  <2> QED
    BY <2>1, <2>2, <2>3 DEF HelperReads
<1>3. helpers' \subseteq Helpers
  BY <1>2
<1>4. ShowsAnObject'
  BY <1>2 DEF ShowsAnObject
<1> QED
  BY <1>1, <1>3, <1>4 DEF OneObjectPerGroup
-----------------------------------------------------------------------------
(* Collecting a disposed object changes nothing for the objects that are   *)
(* or will be published.                                                   *)
Live(g) == g.state \in {"new", "exported"}

LEMMA CollectLive ==
  ASSUME NEW g \in GroupObjects, NEW v, NEW n, NEW hs
  PROVE  /\ Collect(g, v, n, hs) \in GroupObjects
         /\ Live(Collect(g, v, n, hs)) <=> Live(g)
  BY DEF Collect, NoGroup, GroupObjects, GroupStates, Live

(* Publishing neither makes nor ends an object. *)
LEMMA PublishLive ==
  ASSUME NEW g \in GroupObjects
  PROVE  Publish(g) \in GroupObjects /\ (Live(Publish(g)) <=> Live(g))
<1>1. [g EXCEPT !.state = "exported"] \in GroupObjects
  BY DEF GroupObjects, GroupStates
<1>2. [g EXCEPT !.state = "exported"].state = "exported"
  BY DEF GroupObjects
<1> QED
  BY <1>1, <1>2 DEF Publish, Live

(* A list leaves one live object for each group in it, and none for the    *)
(* others.                                                                 *)
LEMMA ListLive ==
  ASSUME Inv, NEW listed \in SUBSET VGs, NEW v \in VGs,
         \A w \in listed : table[w] = 0 => \E n \in Inc : group[w][n].state = "free"
  PROVE  /\ TableAfter(listed)[v] \in 0..Incarnations
         /\ v \in listed => TableAfter(listed)[v] \in Inc
         /\ \A n \in Inc : /\ GroupAfter(listed, v, n) \in GroupObjects
                           /\ Live(GroupAfter(listed, v, n)) <=> (TableAfter(listed)[v] = n)
<1> USE BoundsAssumption DEF Inv, Typed
<1>0. \A n \in Inc : /\ group[v][n] \in GroupObjects
                     /\ Live(group[v][n]) <=> (table[v] = n)
  BY DEF OneObjectPerGroup, Live
<1>1. table[v] \in 0..Incarnations /\ Inc \subseteq 0..Incarnations /\ 0 \notin Inc
  BY DEF Inc
<1>2. CASE v \in Added(listed)
  <2>1. FreshInc(v) \in Inc
    BY <1>2 DEF Added, FreshInc
  <2>2. table[v] = 0 /\ v \notin Removed(listed)
    BY <1>2 DEF Added, Removed
  <2>3. TableAfter(listed)[v] = FreshInc(v)
    BY <1>2, <2>2 DEF TableAfter
  <2>4. ASSUME NEW n \in Inc
        PROVE  /\ GroupAfter(listed, v, n) \in GroupObjects
               /\ Live(GroupAfter(listed, v, n)) <=> (n = FreshInc(v))
    <3>1. CASE n = FreshInc(v)
      <4>1. GroupAfter(listed, v, n) = [state |-> "new", lvs |-> {}]
        BY <1>2, <2>2, <3>1 DEF GroupAfter
      <4> QED
        BY <4>1, <3>1 DEF GroupObjects, GroupStates, Live
    <3>2. CASE n # FreshInc(v)
      <4>1. GroupAfter(listed, v, n) = group[v][n]
        BY <2>2, <3>2 DEF GroupAfter
      <4> QED
        BY <4>1, <3>2, <2>2, <1>0, <1>1
    <3> QED
      BY <3>1, <3>2
  <2> QED
    BY <2>1, <2>3, <2>4, <1>1
<1>3. CASE v \in Removed(listed)
  <2>1. v \notin listed /\ v \notin Added(listed)
    BY <1>3 DEF Added, Removed
  <2>2. TableAfter(listed)[v] = 0
    BY <1>3, <2>1 DEF TableAfter
  <2>3. ASSUME NEW n \in Inc
        PROVE  /\ GroupAfter(listed, v, n) \in GroupObjects
               /\ ~Live(GroupAfter(listed, v, n))
    <3>1. CASE n = table[v]
      <4>1. GroupAfter(listed, v, n) = [state |-> "disposed", lvs |-> {}]
        BY <1>3, <2>1, <3>1 DEF GroupAfter, Dispose
      <4> QED
        BY <4>1 DEF GroupObjects, GroupStates, Live
    <3>2. CASE n # table[v]
      <4>1. GroupAfter(listed, v, n) = group[v][n]
        BY <2>1, <3>2 DEF GroupAfter
      <4> QED
        BY <4>1, <3>2, <1>0
    <3> QED
      BY <3>1, <3>2
  <2> QED
    BY <2>1, <2>2, <2>3, <1>1
<1>4. CASE v \notin Added(listed) /\ v \notin Removed(listed)
  <2>1. TableAfter(listed)[v] = table[v]
    BY <1>4 DEF TableAfter
  <2>2. \A n \in Inc : GroupAfter(listed, v, n) = group[v][n]
    BY <1>4 DEF GroupAfter
  <2>3. v \in listed => table[v] \in Inc
    BY <1>4, <1>1 DEF Added, Inc
  <2> QED
    BY <2>1, <2>2, <2>3, <1>0, <1>1
<1> QED
  BY <1>2, <1>3, <1>4

(* Dispatching a list. *)
LEMMA DispatchListInv == ASSUME Inv, NEW h \in helpers, DispatchList(h) PROVE Inv'
<1> USE DEF Inv, Typed
<1> DEFINE listed == h.groups
           shows == {ShowHelper(v, TableAfter(listed)[v], h.round) : v \in listed}
           hs == (helpers \ {h}) \union shows
<1>1. UNCHANGED <<lvm, round, overlay>>
  BY DEF DispatchList, ApplyList, lvmVars
<1>2. /\ table' = TableAfter(listed)
      /\ group' = [v \in VGs |-> [n \in Inc |-> Collect(GroupAfter(listed, v, n), v, n, hs)]]
      /\ helpers' = hs
  BY DEF DispatchList, ApplyList
<1>3. h \in Helpers
  OBVIOUS
<1>4. listed \in SUBSET VGs /\ h.round \in Nat
  BY <1>3 DEF Helpers
<1>5. \A v \in VGs :
        /\ TableAfter(listed)[v] \in 0..Incarnations
        /\ v \in listed => TableAfter(listed)[v] \in Inc
        /\ \A n \in Inc : /\ GroupAfter(listed, v, n) \in GroupObjects
                          /\ Live(GroupAfter(listed, v, n)) <=> (TableAfter(listed)[v] = n)
  <2>1. \A w \in listed : table[w] = 0 => \E n \in Inc : group[w][n].state = "free"
    BY DEF DispatchList
  <2> HIDE DEF Inv, listed
  <2> QED
    BY <1>4, <2>1, ListLive
<1> HIDE DEF listed
<1>6. table' \in [VGs -> 0..Incarnations]
  BY <1>2, <1>5 DEF TableAfter
<1>7. \A v \in VGs, n \in Inc :
        /\ group'[v][n] \in GroupObjects
        /\ Live(group'[v][n]) <=> (table'[v] = n)
  <2> SUFFICES ASSUME NEW v \in VGs, NEW n \in Inc
               PROVE  /\ group'[v][n] \in GroupObjects
                      /\ Live(group'[v][n]) <=> (table'[v] = n)
    OBVIOUS
  <2>1. group'[v][n] = Collect(GroupAfter(listed, v, n), v, n, hs)
    BY <1>2
  <2>2. GroupAfter(listed, v, n) \in GroupObjects
    BY <1>5
  <2>3. /\ Collect(GroupAfter(listed, v, n), v, n, hs) \in GroupObjects
        /\ Live(Collect(GroupAfter(listed, v, n), v, n, hs)) <=> Live(GroupAfter(listed, v, n))
    BY <2>2, CollectLive
  <2> QED
    BY <1>2, <1>5, <2>1, <2>3
<1>8. group' \in [VGs -> [Inc -> GroupObjects]]
  BY <1>2, <1>7
<1>9. OneObjectPerGroup'
  BY <1>7 DEF OneObjectPerGroup, Live
<1>10. \A s \in shows : s \in Helpers /\ s.vg \in VGs /\ s.inc \in Inc
  <2> SUFFICES ASSUME NEW v \in listed
               PROVE  LET s == ShowHelper(v, TableAfter(listed)[v], h.round)
                      IN  s \in Helpers /\ s.vg \in VGs /\ s.inc \in Inc
    OBVIOUS
  <2>1. TableAfter(listed)[v] \in Inc /\ v \in VGs
    BY <1>4, <1>5
  <2>2. NoVG \in Contents
    BY DEF NoVG, Contents
  <2> QED
    BY <1>4, <2>1, <2>2, BoundsAssumption DEF ShowHelper, Helpers, Inc
<1>11. helpers' \subseteq Helpers
  BY <1>2, <1>10
<1>12. ShowsAnObject'
  BY <1>2, <1>10 DEF ShowsAnObject
<1> QED
  BY <1>1, <1>6, <1>8, <1>9, <1>11, <1>12

(* One object of one group is updated, and may be published or collected. *)
LEMMA OneUpdated ==
  ASSUME Inv, NEW v \in VGs, NEW n \in Inc, NEW g \in GroupObjects,
         Live(g) <=> Live(group[v][n]),
         group' = [group EXCEPT ![v][n] = g], table' = table
  PROVE  group' \in [VGs -> [Inc -> GroupObjects]] /\ OneObjectPerGroup'
<1> USE DEF Inv, Typed
<1>1. group' \in [VGs -> [Inc -> GroupObjects]]
  OBVIOUS
<1>2. ASSUME NEW w \in VGs, NEW m \in Inc
      PROVE  Live(group'[w][m]) <=> (table'[w] = m)
  <2>1. Live(group[w][m]) <=> (table[w] = m)
    BY DEF OneObjectPerGroup, Live
  <2>2. CASE w = v /\ m = n
    <3>1. group'[w][m] = g
      BY <2>2
    <3> QED
      BY <2>1, <2>2, <3>1
  <2>3. CASE ~(w = v /\ m = n)
    <3>1. group'[w][m] = group[w][m]
      BY <2>3
    <3> QED
      BY <2>1, <3>1
  <2> QED
    BY <2>2, <2>3
<1> QED
  BY <1>1, <1>2 DEF OneObjectPerGroup, Live

(* What an update makes of the overlay of a device, when path is the path  *)
(* of a group or null.                                                     *)
LEMMA BlockUpdated ==
  ASSUME Inv, NEW d \in Devices, NEW v \in VGs, NEW info \in Contents,
         NEW path \in VGs \union {"null"}
  PROVE  /\ UpdateBlock(d, v, info, path) \in Overlays
         /\ overlay[d].pv # "none" /\ UpdateBlock(d, v, info, path).pv = "none"
              => overlay[d].pv = path /\ d \notin info.pvs
<1> USE NamesAssumption
<1> DEFINE o == overlay[d]
           p == UpdateLv(d, o, v, info, path)
<1>1. o \in Overlays
  BY DEF Inv, Typed
<1> HIDE DEF o
<1>2. p \in Overlays /\ p.pv = o.pv
  <2>1. [o EXCEPT !.lv = path] \in Overlays
    BY <1>1 DEF Overlays
  <2>2. [o EXCEPT !.lv = path].pv = o.pv
    BY <1>1 DEF Overlays
  <2> QED
    BY <1>1, <2>1, <2>2 DEF UpdateLv
<1> HIDE DEF p
<1>3. ClearPv(p) \in Overlays
  <2>1. [p EXCEPT !.pv = "none"] \in Overlays
    BY <1>2 DEF Overlays
  <2>2. NoOverlay \in Overlays
    BY DEF NoOverlay, Overlays
  <2> QED
    BY <2>1, <2>2 DEF ClearPv
<1>4. [p EXCEPT !.pv = path] \in Overlays /\ [p EXCEPT !.pv = path].pv # "none"
  <2>1. [p EXCEPT !.pv = path] \in Overlays
    BY <1>2 DEF Overlays
  <2>2. [p EXCEPT !.pv = path].pv = path
    BY <1>2 DEF Overlays
  <2>3. path # "none"
    OBVIOUS
  <2> QED
    BY <2>1, <2>2, <2>3
<1>5. UpdatePv(d, p, info, path) \in Overlays
  BY <1>2, <1>3, <1>4 DEF UpdatePv
<1>6. p.pv # "none" /\ UpdatePv(d, p, info, path).pv = "none" => p.pv = path /\ d \notin info.pvs
  BY <1>2, <1>4 DEF UpdatePv
<1>7. UpdateBlock(d, v, info, path) = IF o.exported THEN UpdatePv(d, p, info, path) ELSE o
  BY DEF UpdateBlock, o, p
<1>8. CASE o.exported
  <2>1. UpdateBlock(d, v, info, path) = UpdatePv(d, p, info, path)
    BY <1>7, <1>8
  <2> QED
    BY <1>2, <1>5, <1>6, <2>1 DEF o
<1>9. CASE ~o.exported
  <2>1. UpdateBlock(d, v, info, path) = o
    BY <1>7, <1>9
  <2> QED
    BY <1>1, <2>1 DEF o
<1> QED
  BY <1>8, <1>9

(* Dispatching what a "show" found. *)
LEMMA DispatchShowInv == ASSUME Inv, NEW h \in helpers, DispatchShow(h) PROVE Inv'
<1> DEFINE v == h.vg
           n == h.inc
           g == Publish(group[v][n])
           g1 == [g EXCEPT !.lvs = h.info.lvs]
           hs == helpers \ {h}
           path == PathOf(v, g)
<1>1. UNCHANGED <<lvm, round, table>> /\ helpers' = hs
  BY DEF DispatchShow, ApplyShow, lvmVars
<1>2. /\ group' = [group EXCEPT ![v][n] = Collect(g1, v, n, hs)]
      /\ overlay' = [d \in Devices |-> UpdateBlock(d, v, h.info, path)]
  BY DEF DispatchShow, ApplyShow, LvsAfter
<1>3. v \in VGs /\ n \in Inc /\ h.info \in Contents
  BY DEF Inv, Typed, ShowsAnObject, DispatchShow, Helpers
<1>4. group[v][n] \in GroupObjects
  BY <1>3 DEF Inv, Typed
<1>5. g \in GroupObjects /\ (Live(g) <=> Live(group[v][n]))
  BY <1>4, PublishLive
<1>6. path \in VGs \union {"null"}
  BY <1>3 DEF PathOf
<1> HIDE DEF g, path, v, n, hs
<1>7. g1 \in GroupObjects /\ (Live(g1) <=> Live(g))
  <2>1. g1 \in GroupObjects
    BY <1>3, <1>5 DEF GroupObjects, Contents
  <2>2. g1.state = g.state
    BY <1>5 DEF GroupObjects
  <2> QED
    BY <2>1, <2>2 DEF Live
<1> HIDE DEF g1
<1>8. /\ Collect(g1, v, n, hs) \in GroupObjects
      /\ Live(Collect(g1, v, n, hs)) <=> Live(g1)
  BY <1>7, CollectLive
<1>9. group' \in [VGs -> [Inc -> GroupObjects]] /\ OneObjectPerGroup'
  BY <1>1, <1>2, <1>3, <1>5, <1>7, <1>8, OneUpdated
<1>10. \A d \in Devices : UpdateBlock(d, v, h.info, path) \in Overlays
  BY <1>3, <1>6, BlockUpdated
<1>11. overlay' \in [Devices -> Overlays]
  BY <1>2, <1>10
<1>12. ShowsAnObject' /\ helpers' \subseteq Helpers
  BY <1>1 DEF Inv, Typed, ShowsAnObject, hs
<1> QED
  BY <1>1, <1>9, <1>11, <1>12 DEF Inv, Typed

(* Dispatching the failure of a "show". *)
LEMMA DispatchShowErrorInv ==
  ASSUME Inv, NEW h \in helpers, DispatchShowError(h) PROVE Inv'
<1> DEFINE v == h.vg
           n == h.inc
           g == Publish(group[v][n])
<1>1. UNCHANGED <<lvm, round, table, overlay>> /\ helpers' = helpers \ {h}
  BY DEF DispatchShowError, lvmVars
<1>2. group' = [group EXCEPT ![v][n] = Collect(g, v, n, helpers')]
  BY DEF DispatchShowError
<1>3. v \in VGs /\ n \in Inc
  BY DEF Inv, Typed, ShowsAnObject, DispatchShowError
<1>4. group[v][n] \in GroupObjects
  BY <1>3 DEF Inv, Typed
<1>5. g \in GroupObjects /\ (Live(g) <=> Live(group[v][n]))
  BY <1>4, PublishLive
<1> HIDE DEF g, v, n
<1>6. /\ Collect(g, v, n, helpers') \in GroupObjects
      /\ Live(Collect(g, v, n, helpers')) <=> Live(g)
  BY <1>5, CollectLive
<1>7. group' \in [VGs -> [Inc -> GroupObjects]] /\ OneObjectPerGroup'
  BY <1>1, <1>2, <1>3, <1>5, <1>6, OneUpdated
<1>8. ShowsAnObject' /\ helpers' \subseteq Helpers
  BY <1>1 DEF Inv, Typed, ShowsAnObject
<1> QED
  BY <1>1, <1>7, <1>8 DEF Inv, Typed
-----------------------------------------------------------------------------
(* Every step preserves the invariant. *)
LEMMA NextInv == Inv /\ [Next]_vars => Inv'
<1> SUFFICES ASSUME Inv, [Next]_vars PROVE Inv'
  OBVIOUS
<1>1. CASE Environment
  BY <1>1, EnvironmentInv
<1>2. CASE \E d \in Devices : OnUevent(d) \/ BlockAdded(d) \/ BlockRemoved(d)
  BY <1>2, DeviceInv
<1>3. CASE DelayedLvmUpdate
  BY <1>3, TimerInv
<1>4. CASE \E h \in helpers : HelperReads(h) \/ HelperFails(h)
  BY <1>4, HelperInv
<1>5. CASE Dispatch
  <2>1. ASSUME NEW h \in helpers, DispatchListError(h) PROVE Inv'
    BY <2>1 DEF DispatchListError, Inv, Typed, ShowsAnObject, OneObjectPerGroup,
                lvmVars, treeVars
  <2> QED
    BY <1>5, <2>1, DispatchListInv, DispatchShowInv, DispatchShowErrorInv DEF Dispatch
<1>6. CASE UNCHANGED vars
  BY <1>6 DEF vars, Inv, Typed, ShowsAnObject, OneObjectPerGroup
<1> QED
  BY <1>1, <1>2, <1>3, <1>4, <1>5, <1>6 DEF Next

LEMMA InvHolds == Spec => []Inv
  BY InitInv, NextInv, PTL DEF Spec

(* At any time a volume group has at most one object that is or will be    *)
(* published, the one the manager's table refers to, however many updates  *)
(* are under way and in whichever order their results are dispatched.      *)
THEOREM GroupsCorrect == Spec => []OneObjectPerGroup
<1>1. Inv => OneObjectPerGroup
  BY DEF Inv
<1> QED
  BY <1>1, InvHolds, PTL

(* Only a result of its own group takes the PhysicalVolumeBlock interface  *)
(* away from the overlay of a device.                                      *)
THEOREM ReleasesCorrect == Spec => OwnerReleases
<1> DEFINE Releases ==
      \A d \in PvDevs, v \in VGs :
         overlay[d].pv = v /\ overlay'[d].pv = "none"
           => \E h \in helpers \ helpers' : h.vg = v /\ d \notin h.info.pvs
<1>1. ASSUME Inv, [Next]_vars PROVE [Releases]_vars
  <2> SUFFICES ASSUME NEW d \in PvDevs, NEW v \in VGs,
                      overlay[d].pv = v, overlay'[d].pv = "none"
               PROVE  \E h \in helpers \ helpers' : h.vg = v /\ d \notin h.info.pvs
    OBVIOUS
  <2>0. d \in Devices /\ d \notin LvDevs /\ v # "none" /\ v # "null"
    BY NamesAssumption DEF Devices, LvDevs
  <2>1. overlay' # overlay
    BY <2>0
  <2>2. ASSUME NEW e \in Devices, BlockAdded(e) \/ BlockRemoved(e) PROVE FALSE
    <3>1. e # d
      BY <2>0, <2>2 DEF BlockAdded, BlockRemoved, DeviceExists
    <3>2. overlay'[d] = overlay[d]
      BY <1>1, <2>0, <2>2, <3>1 DEF BlockAdded, BlockRemoved, Inv, Typed
    <3> QED
      BY <3>2, <2>0
  <2>3. PICK h \in helpers : DispatchShow(h)
    BY <1>1, <2>1, <2>2 DEF Next, Environment, VgCreate, VgRemove, VgExtend, VgReduce,
       LvCreate, LvRemove, Change, Wipe, OnUevent, DelayedLvmUpdate, HelperReads,
       ListReads, ShowReads, HelperFails, HelperExits, Dispatch, DispatchList, ApplyList,
       DispatchListError, DispatchShowError, treeVars, vars
  <2> DEFINE path == PathOf(h.vg, Publish(group[h.vg][h.inc]))
  <2>4. h.vg \in VGs /\ h.info \in Contents
    BY <1>1, <2>3 DEF Inv, Typed, ShowsAnObject, DispatchShow, Helpers
  <2>5. path \in {h.vg, "null"}
    BY DEF PathOf
  <2>6. overlay'[d] = UpdateBlock(d, h.vg, h.info, path) /\ helpers' = helpers \ {h}
    BY <2>0, <2>3 DEF DispatchShow, ApplyShow
  <2> HIDE DEF path
  <2>7. overlay[d].pv = path /\ d \notin h.info.pvs
    BY <1>1, <2>0, <2>4, <2>5, <2>6, BlockUpdated
  <2> QED
    BY <2>0, <2>5, <2>6, <2>7
<1> QED
  BY <1>1, InvHolds, PTL DEF Spec, OwnerReleases
=============================================================================
