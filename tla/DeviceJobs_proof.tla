------------------------- MODULE DeviceJobs_proof -------------------------
(***************************************************************************)
(* Proofs about DeviceJobs, for any jobs, devices and groups: what a job   *)
(* reports is what it did, its thread ends and gives back the devices it   *)
(* opened, and threaded jobs implement JobTable.                           *)
(***************************************************************************)
EXTENDS DeviceJobs, FiniteSetTheorems, TLAPS

Fresh(j) ==
    /\ stage[j] = None /\ kind[j] = None /\ devices[j] = <<>>
    /\ pos[j] = 1 /\ result[j] = None /\ erased[j] = {}
    /\ j \notin exported /\ j \notin cancelled /\ j \notin freed /\ j \notin removed

(* How far a job has got, as its function tells it. *)
Whereabouts(j) ==
    /\ j \notin launched => Fresh(j)
    /\ stage[j] = None => j \notin launched
    /\ j \in exported <=> stage[j] \notin {None, "over"}
    /\ result[j] # None <=> stage[j] \in {"done", "over"}
    /\ j \in freed => kind[j] = "create"
    /\ pos[j] # 0
    /\ stage[j] \in {"next", "open", "wipefs"} => kind[j] \in {"create", "delete"}
    /\ kind[j] \in {"create", "delete", "add"} => group[j] \in Names

(* What it has erased by then, and what it reports. *)
Work(j) ==
    /\ stage[j] = "pushed" => pos[j] = 1 /\ erased[j] = {} /\ j \notin removed
    /\ kind[j] = "add" => /\ erased[j] = DevicesOf(j)
                          /\ stage[j] \in {"command", "done", "over"}
                          /\ result[j] # "cancelled"
    /\ kind[j] = "remove" => erased[j] = {} /\ result[j] # "ok"
    /\ kind[j] = "delete" /\ j \notin removed =>
          /\ pos[j] = 1 /\ erased[j] = {} /\ result[j] # "ok"
          /\ stage[j] \in {"pushed", "command", "done", "over"}
    /\ kind[j] = "delete" /\ stage[j] = "command" => j \notin removed
    /\ kind[j] = "create" /\ stage[j] = "command" => erased[j] = DevicesOf(j)
    /\ kind[j] # "add" => /\ Prefix(j, pos[j] - 1) \subseteq erased[j]
                          /\ erased[j] \subseteq Prefix(j, pos[j])
    /\ result[j] = "ok" => erased[j] = DevicesOf(j)
    /\ result[j] = "cancelled" => erased[j] = {} /\ j \notin removed

JobOK(j) == Whereabouts(j) /\ Work(j)

Counted == IsFiniteSet(exported) /\ num_jobs = Cardinality(exported)

Inv == TypeOK /\ Counted /\ \A j \in Jobs : JobOK(j)
-----------------------------------------------------------------------------
LEMMA InitInv == Init => Inv
<1> SUFFICES ASSUME Init PROVE Inv
  OBVIOUS
<1>1. TypeOK
  BY DEF Init, TypeOK, Kinds, Stages, None
<1>2. Counted
  BY FS_EmptySet DEF Init, Counted
<1>3. ASSUME NEW j \in Jobs PROVE JobOK(j)
  <2>1. /\ stage[j] = None /\ kind[j] = None /\ devices[j] = <<>> /\ group[j] = None
        /\ pos[j] = 1 /\ result[j] = None /\ erased[j] = {}
        /\ j \notin launched /\ j \notin exported /\ j \notin cancelled
        /\ j \notin freed /\ j \notin removed
    BY DEF Init
  <2>2. Prefix(j, 0) = {}
    BY <2>1 DEF Prefix
  <2>3. Whereabouts(j)
    BY <2>1 DEF Whereabouts, Fresh, None
  <2>4. Work(j)
    BY <2>1, <2>2 DEF Work, None
  <2> QED
    BY <2>3, <2>4 DEF JobOK
<1> QED
  BY <1>1, <1>2, <1>3 DEF Inv

(* A step that does not touch a job leaves it in order. *)
LEMMA Untouched ==
    ASSUME NEW i \in Jobs, JobOK(i),
           kind'[i] = kind[i], group'[i] = group[i], devices'[i] = devices[i],
           stage'[i] = stage[i], pos'[i] = pos[i], result'[i] = result[i],
           erased'[i] = erased[i],
           i \in launched' <=> i \in launched, i \in exported' <=> i \in exported,
           i \in cancelled' => i \in cancelled \/ i \in launched,
           i \in freed' => i \in freed \/ kind[i] = "create",
           i \in removed' <=> i \in removed
    PROVE  JobOK(i)'
<1>1. \A n : Prefix(i, n)' = Prefix(i, n)
  BY DEF Prefix
<1>2. DevicesOf(i)' = DevicesOf(i)
  BY DEF DevicesOf
<1>3. Whereabouts(i)'
  BY DEF JobOK, Whereabouts, Fresh, None
<1>4. Work(i)'
  <2>1. /\ Prefix(i, pos[i] - 1)' = Prefix(i, pos[i] - 1)
        /\ Prefix(i, pos[i])' = Prefix(i, pos[i])
    BY DEF Prefix
  <2> QED
    BY <1>2, <2>1 DEF JobOK, Work
<1> QED
  BY <1>3, <1>4 DEF JobOK

(* A job is launched with nothing done, or, for AddDevice, with its device *)
(* wiped. *)
LEMMA LaunchInv ==
    ASSUME Inv, NEW j \in Jobs, NEW k \in {"create", "delete", "remove", "add"},
           NEW n \in Names \union Devices, NEW l \in Seq(Devices),
           k # "remove" => n \in Names,
           NEW s \in {"pushed", "command"}, s = "command" <=> k = "add",
           Launch(j, k, n, l, s),
           erased' = IF k = "add" THEN [erased EXCEPT ![j] = {l[i] : i \in DOMAIN l}]
                     ELSE erased,
           disk' \in [Devices -> {"data", "wiped", "orphan"} \union Names],
           held' = held
    PROVE  Inv'
<1>1. /\ j \notin launched /\ Fresh(j)
      /\ launched' = launched \union {j} /\ exported' = exported \union {j}
      /\ num_jobs' = num_jobs + 1
      /\ kind' = [kind EXCEPT ![j] = k] /\ group' = [group EXCEPT ![j] = n]
      /\ devices' = [devices EXCEPT ![j] = l] /\ stage' = [stage EXCEPT ![j] = s]
      /\ UNCHANGED <<up, pos, result, cancelled, freed, removed, shown>>
  BY DEF Launch, Inv, JobOK, Whereabouts
<1>2. Counted'
  <2>1. j \notin exported
    BY <1>1 DEF Fresh
  <2> QED
    BY <1>1, <2>1, FS_AddElement DEF Inv, Counted
<1>3. num_jobs' \in Nat
  BY <1>2, FS_CardinalityType DEF Counted
<1>4. erased' \in [Jobs -> SUBSET Devices]
  <2>1. {l[i] : i \in DOMAIN l} \subseteq Devices
    OBVIOUS
  <2> QED
    BY <2>1 DEF Inv, TypeOK
<1>5. TypeOK'
  <2>1. launched' \subseteq Jobs /\ exported' \subseteq Jobs /\ cancelled' \subseteq Jobs
        /\ freed' \subseteq Jobs /\ removed' \subseteq Jobs
    BY <1>1 DEF Inv, TypeOK
  <2>2. kind' \in [Jobs -> Kinds] /\ group' \in [Jobs -> {None} \union Names \union Devices]
    BY <1>1 DEF Inv, TypeOK, Kinds
  <2>3. devices' \in [Jobs -> Seq(Devices)] /\ stage' \in [Jobs -> Stages]
    BY <1>1 DEF Inv, TypeOK, Stages
  <2>4. \A i \in Jobs : stage'[i] \in {"open", "wipefs"} => pos'[i] \in DOMAIN devices'[i]
    BY <1>1 DEF Inv, TypeOK
  <2>5. up' \in BOOLEAN
    BY <1>1 DEF Inv, TypeOK
  <2>6. /\ pos' \in [Jobs -> Nat]
        /\ result' \in [Jobs -> {None, "ok", "failed", "cancelled"}]
        /\ held' \in [Devices -> {"free", "user"} \union Jobs]
        /\ shown' \in [Devices -> {None} \union Names]
    BY <1>1 DEF Inv, TypeOK
  <2> QED
    BY <1>3, <1>4, <2>1, <2>2, <2>3, <2>4, <2>5, <2>6 DEF TypeOK
<1>6. ASSUME NEW i \in Jobs, i # j PROVE JobOK(i)'
  <2>1. kind'[i] = kind[i] /\ group'[i] = group[i] /\ devices'[i] = devices[i]
        /\ stage'[i] = stage[i] /\ erased'[i] = erased[i]
    BY <1>1, <1>6 DEF Inv, TypeOK
  <2> QED
    BY <1>1, <1>6, <2>1, Untouched DEF Inv
<1>7. JobOK(j)'
  <2>1. /\ kind'[j] = k /\ group'[j] = n /\ devices'[j] = l /\ stage'[j] = s
        /\ pos'[j] = 1 /\ result'[j] = None
        /\ erased'[j] = IF k = "add" THEN {l[i] : i \in DOMAIN l} ELSE {}
        /\ j \notin removed' /\ j \notin freed' /\ j \in launched' /\ j \in exported'
    BY <1>1 DEF Fresh, Inv, TypeOK
  <2>2. Prefix(j, pos[j] - 1)' = {}
    <3>1. \A i \in DOMAIN l : ~(i <= 0)
      OBVIOUS
    <3> QED
      BY <2>1, <3>1 DEF Prefix
  <2>3. DevicesOf(j)' = {l[i] : i \in DOMAIN l}
    BY <2>1 DEF DevicesOf
  <2>4. Whereabouts(j)'
    BY <2>1 DEF Whereabouts, None
  <2>5. Work(j)'
    BY <2>1, <2>2, <2>3 DEF Work, None
  <2> QED
    BY <2>4, <2>5 DEF JobOK
<1> QED
  BY <1>2, <1>5, <1>6, <1>7 DEF Inv

(* The handlers of the methods. *)
LEMMA HandlerInv ==
    ASSUME Inv, NEW j \in Jobs,
           \/ \E n \in Names, l \in Lists :
                 VolumeGroupCreate(j, n, l) \/ Delete(j, n, l) \/ Delete(j, n, <<>>)
           \/ \E d \in Devices : RemoveDevice(j, d)
           \/ \E n \in Names, d \in Devices : AddDevice(j, n, d)
    PROVE  Inv'
<1>1. ASSUME NEW n \in Names, NEW l \in Seq(Devices), VolumeGroupCreate(j, n, l)
      PROVE  Inv'
  <2>1. Launch(j, "create", n, l, "pushed") /\ UNCHANGED <<erased, disk, held>>
    BY <1>1 DEF VolumeGroupCreate, deviceVars
  <2> QED
    BY <2>1, LaunchInv DEF Inv, TypeOK
<1>2. ASSUME NEW n \in Names, NEW l \in Seq(Devices), Delete(j, n, l)
      PROVE  Inv'
  <2>1. Launch(j, "delete", n, l, "pushed") /\ UNCHANGED <<erased, disk, held>>
    BY <1>2 DEF Delete, deviceVars
  <2> QED
    BY <2>1, LaunchInv DEF Inv, TypeOK
<1>3. ASSUME NEW d \in Devices, RemoveDevice(j, d) PROVE Inv'
  <2>1. Launch(j, "remove", d, <<>>, "pushed") /\ UNCHANGED <<erased, disk, held>>
    BY <1>3 DEF RemoveDevice, deviceVars
  <2>2. /\ <<>> \in Seq(Devices) /\ d \in Names \union Devices
        /\ disk \in [Devices -> {"data", "wiped", "orphan"} \union Names]
    BY DEF Inv, TypeOK
  <2> DEFINE l == <<>>
  <2>3. Launch(j, "remove", d, l, "pushed") /\ l \in Seq(Devices)
    BY <2>1, <2>2
  <2> HIDE DEF l
  <2> QED
    BY <2>1, <2>2, <2>3, LaunchInv
<1>4. ASSUME NEW n \in Names, NEW d \in Devices, AddDevice(j, n, d) PROVE Inv'
  <2>1. /\ Launch(j, "add", n, <<d>>, "command")
        /\ disk' = [disk EXCEPT ![d] = "wiped"]
        /\ erased' = [erased EXCEPT ![j] = {d}] /\ held' = held
    BY <1>4 DEF AddDevice
  <2>2. <<d>> \in Seq(Devices) /\ {<<d>>[i] : i \in DOMAIN <<d>>} = {d}
    OBVIOUS
  <2>3. disk' \in [Devices -> {"data", "wiped", "orphan"} \union Names]
    BY <2>1 DEF Inv, TypeOK
  <2> DEFINE l == <<d>>
  <2>4. /\ Launch(j, "add", n, l, "command") /\ l \in Seq(Devices)
        /\ erased' = [erased EXCEPT ![j] = {l[i] : i \in DOMAIN l}] /\ held' = held
    BY <2>1, <2>2
  <2> HIDE DEF l
  <2> QED
    BY <2>3, <2>4, LaunchInv
<1>5. <<>> \in Seq(Devices) /\ Lists \subseteq Seq(Devices)
  BY ListsAssumption
<1> QED
  BY <1>1, <1>2, <1>3, <1>4, <1>5

(* The thread of a job, and LVM's command, change only that job and the    *)
(* devices. *)
LEMMA StepInv ==
    ASSUME Inv, NEW j \in Jobs, JobOK(j)',
           UNCHANGED <<tableVars, callVars, cancelled, freed, shown>>,
           stage' \in [Jobs -> Stages], pos' \in [Jobs -> Nat],
           result' \in [Jobs -> {None, "ok", "failed", "cancelled"}],
           erased' \in [Jobs -> SUBSET Devices], removed' \subseteq Jobs,
           disk' \in [Devices -> {"data", "wiped", "orphan"} \union Names],
           held' \in [Devices -> {"free", "user"} \union Jobs],
           stage'[j] \in {"open", "wipefs"} => pos'[j] \in DOMAIN devices[j],
           \A i \in Jobs \ {j} :
              /\ stage'[i] = stage[i] /\ pos'[i] = pos[i] /\ result'[i] = result[i]
              /\ erased'[i] = erased[i] /\ (i \in removed' <=> i \in removed)
    PROVE  Inv'
<1>1. UNCHANGED <<launched, exported, num_jobs, up, kind, group, devices,
                  cancelled, freed, shown>>
  BY DEF tableVars, callVars
<1>2. TypeOK'
  <2>1. up' \in BOOLEAN
    BY <1>1 DEF Inv, TypeOK
  <2> QED
    BY <1>1, <2>1 DEF Inv, TypeOK
<1>3. Counted'
  BY <1>1 DEF Inv, Counted
<1>4. ASSUME NEW i \in Jobs \ {j} PROVE JobOK(i)'
  BY <1>1, <1>4, Untouched DEF Inv
<1> QED
  BY <1>2, <1>3, <1>4 DEF Inv

(* What a prefix of the devices of a job is. *)
LEMMA Prefixes ==
    ASSUME NEW j \in Jobs, devices[j] \in Seq(Devices), NEW n \in Nat
    PROVE  /\ Prefix(j, n) \subseteq DevicesOf(j)
           /\ Prefix(j, n) \subseteq Prefix(j, n + 1)
           /\ n > Len(devices[j]) => Prefix(j, n - 1) = DevicesOf(j)
           /\ n \in DOMAIN devices[j] =>
                 Prefix(j, n) = Prefix(j, n - 1) \union {devices[j][n]}
<1>1. DOMAIN devices[j] = 1 .. Len(devices[j]) /\ Len(devices[j]) \in Nat
  OBVIOUS
<1>2. Prefix(j, n) \subseteq DevicesOf(j) /\ Prefix(j, n) \subseteq Prefix(j, n + 1)
  BY <1>1 DEF Prefix, DevicesOf
<1>3. n > Len(devices[j]) => Prefix(j, n - 1) = DevicesOf(j)
  BY <1>1 DEF Prefix, DevicesOf
<1>4. n \in DOMAIN devices[j] => Prefix(j, n) = Prefix(j, n - 1) \union {devices[j][n]}
  BY <1>1 DEF Prefix
<1> QED
  BY <1>2, <1>3, <1>4

(* A step that does not move the loop. *)
LEMMA SamePlace ==
    ASSUME NEW j \in Jobs, devices' = devices, pos' = pos
    PROVE  /\ DevicesOf(j)' = DevicesOf(j)
           /\ Prefix(j, pos[j])' = Prefix(j, pos[j])
           /\ Prefix(j, pos[j] - 1)' = Prefix(j, pos[j] - 1)
  BY DEF DevicesOf, Prefix

(* A job that ends or goes on without having touched its devices. *)
LEMMA QuietStepInv ==
    ASSUME Inv, NEW j \in Jobs,
           UNCHANGED <<tableVars, callVars, pos, removed, erased, cancelled,
                       freed, disk, shown>>,
           held' \in [Devices -> {"free", "user"} \union Jobs],
           \/ /\ \E r \in {"ok", "failed", "cancelled"} : End(j, r)
              /\ result'[j] = "ok" =>
                    /\ erased[j] = DevicesOf(j) /\ kind[j] # "remove"
                    /\ kind[j] = "delete" => j \in removed
              /\ result'[j] = "cancelled" =>
                    erased[j] = {} /\ j \notin removed /\ kind[j] # "add"
           \/ \E s \in {"next", "open", "command"} :
                 /\ Goto(j, s)
                 /\ s = "open" => pos[j] \in DOMAIN devices[j]
                 /\ s # "command" => kind[j] \in {"create", "delete"}
                 /\ kind[j] # "add"
                 /\ kind[j] = "delete" =>
                       IF s = "command" THEN j \notin removed ELSE j \in removed
                 /\ kind[j] = "create" /\ s = "command" => erased[j] = DevicesOf(j),
           stage[j] \notin {None, "done", "over"}
    PROVE  Inv'
<1>1. UNCHANGED <<launched, exported, num_jobs, up, kind, group, devices, pos,
                  removed, erased, cancelled, freed, disk, shown>>
  BY DEF tableVars, callVars
<1>2. /\ DevicesOf(j)' = DevicesOf(j)
      /\ Prefix(j, pos[j])' = Prefix(j, pos[j])
      /\ Prefix(j, pos[j] - 1)' = Prefix(j, pos[j] - 1)
  BY <1>1, SamePlace
<1>3. /\ stage' \in [Jobs -> Stages]
      /\ result' \in [Jobs -> {None, "ok", "failed", "cancelled"}]
      /\ \A i \in Jobs \ {j} : stage'[i] = stage[i] /\ result'[i] = result[i]
  <2>1. /\ stage \in [Jobs -> Stages]
        /\ result \in [Jobs -> {None, "ok", "failed", "cancelled"}]
    BY DEF Inv, TypeOK
  <2>2. ASSUME NEW r \in {"ok", "failed", "cancelled"}, End(j, r)
        PROVE  /\ stage' \in [Jobs -> Stages]
               /\ result' \in [Jobs -> {None, "ok", "failed", "cancelled"}]
               /\ \A i \in Jobs \ {j} : stage'[i] = stage[i] /\ result'[i] = result[i]
    BY <2>1, <2>2 DEF End, Stages
  <2>3. ASSUME NEW s \in {"next", "open", "command"}, Goto(j, s)
        PROVE  /\ stage' \in [Jobs -> Stages]
               /\ result' \in [Jobs -> {None, "ok", "failed", "cancelled"}]
               /\ \A i \in Jobs \ {j} : stage'[i] = stage[i] /\ result'[i] = result[i]
    BY <2>1, <2>3 DEF Goto, Stages
  <2> QED
    BY <2>2, <2>3
<1>4. Whereabouts(j) /\ Work(j)
  BY DEF Inv, JobOK
<1>5. JobOK(j)'
  <2>1. CASE \E r \in {"ok", "failed", "cancelled"} : End(j, r)
    <3>1. stage'[j] = "done" /\ result'[j] \in {"ok", "failed", "cancelled"}
      BY <2>1 DEF End, Inv, TypeOK
    <3>2. Whereabouts(j)'
      BY <1>1, <1>4, <3>1 DEF Whereabouts, Fresh, None
    <3>3. Work(j)'
      BY <1>1, <1>2, <1>4, <3>1 DEF Work, End, Goto
    <3> QED
      BY <3>2, <3>3 DEF JobOK
  <2>2. CASE \E s \in {"next", "open", "command"} :
                 /\ Goto(j, s)
                 /\ s = "open" => pos[j] \in DOMAIN devices[j]
                 /\ s # "command" => kind[j] \in {"create", "delete"}
                 /\ kind[j] # "add"
                 /\ kind[j] = "delete" =>
                       IF s = "command" THEN j \notin removed ELSE j \in removed
                 /\ kind[j] = "create" /\ s = "command" => erased[j] = DevicesOf(j)
    <3>1. PICK s \in {"next", "open", "command"} :
                 /\ Goto(j, s)
                 /\ s # "command" => kind[j] \in {"create", "delete"}
                 /\ kind[j] # "add"
                 /\ kind[j] = "delete" =>
                       IF s = "command" THEN j \notin removed ELSE j \in removed
                 /\ kind[j] = "create" /\ s = "command" => erased[j] = DevicesOf(j)
      BY <2>2
    <3>2. stage'[j] = s /\ result' = result /\ result[j] = None
      BY <3>1, <1>4 DEF Goto, Inv, TypeOK, Whereabouts
    <3>3. Whereabouts(j)'
      BY <1>1, <1>4, <3>1, <3>2 DEF Whereabouts, Fresh, None
    <3>4. Work(j)'
      BY <1>1, <1>2, <1>4, <3>1, <3>2 DEF Work, None
    <3> QED
      BY <3>3, <3>4 DEF JobOK
  <2> QED
    BY <2>1, <2>2
<1>6. stage'[j] \in {"open", "wipefs"} => pos'[j] \in DOMAIN devices[j]
  BY <1>1 DEF Inv, TypeOK, End, Goto
<1>7. /\ pos' \in [Jobs -> Nat] /\ erased' \in [Jobs -> SUBSET Devices]
      /\ removed' \subseteq Jobs
      /\ disk' \in [Devices -> {"data", "wiped", "orphan"} \union Names]
  BY <1>1 DEF Inv, TypeOK
<1> QED
  BY <1>1, <1>3, <1>5, <1>6, <1>7, StepInv
-----------------------------------------------------------------------------
(* The steps of a job's function. *)

LEMMA BeginInv == ASSUME Inv, NEW j \in Jobs, FindCancelled(j) \/ Start(j) PROVE Inv'
<1>1. /\ stage[j] = "pushed" /\ held' = held
      /\ UNCHANGED <<tableVars, callVars, pos, removed, erased, cancelled,
                     freed, disk, shown>>
  BY DEF FindCancelled, Start, deviceVars
<1>2. Whereabouts(j) /\ Work(j)
  BY DEF Inv, JobOK
<1>3. pos[j] = 1 /\ erased[j] = {} /\ j \notin removed /\ kind[j] # "add"
  BY <1>1, <1>2 DEF Work
<1>4. held' \in [Devices -> {"free", "user"} \union Jobs]
  BY <1>1 DEF Inv, TypeOK
<1>5. CASE FindCancelled(j)
  <2>1. End(j, "cancelled") /\ result'[j] = "cancelled"
    BY <1>5 DEF FindCancelled, End, Inv, TypeOK
  <2> QED
    BY <1>1, <1>3, <1>4, <2>1, QuietStepInv DEF None
<1>6. CASE Start(j)
  <2>1. Goto(j, IF kind[j] = "create" THEN "next" ELSE "command")
    BY <1>6 DEF Start
  <2> QED
    BY <1>1, <1>3, <1>4, <2>1, QuietStepInv DEF None
<1> QED
  BY <1>5, <1>6

LEMMA AllWipedInv == ASSUME Inv, NEW j \in Jobs, AllWiped(j) PROVE Inv'
<1>1. /\ stage[j] = "next" /\ pos[j] > Len(devices[j]) /\ held' = held
      /\ UNCHANGED <<tableVars, callVars, pos, removed, erased, cancelled,
                     freed, disk, shown>>
      /\ \/ kind[j] = "create" /\ Goto(j, "command")
         \/ kind[j] = "delete" /\ End(j, "ok")
  BY DEF AllWiped, deviceVars
<1>2. Whereabouts(j) /\ Work(j) /\ devices[j] \in Seq(Devices) /\ pos[j] \in Nat
  BY DEF Inv, JobOK, TypeOK
<1>3. erased[j] = DevicesOf(j)
  <2>1. Prefix(j, pos[j] - 1) \subseteq erased[j] /\ erased[j] \subseteq Prefix(j, pos[j])
    BY <1>1, <1>2 DEF Work
  <2>2. Prefix(j, pos[j] - 1) = DevicesOf(j) /\ Prefix(j, pos[j]) \subseteq DevicesOf(j)
    BY <1>1, <1>2, Prefixes
  <2> QED
    BY <2>1, <2>2
<1>4. kind[j] = "delete" => j \in removed
  BY <1>1, <1>2 DEF Work
<1>5. held' \in [Devices -> {"free", "user"} \union Jobs]
  BY <1>1 DEF Inv, TypeOK
<1>6. CASE kind[j] = "create" /\ Goto(j, "command")
  BY <1>1, <1>3, <1>5, <1>6, QuietStepInv DEF None
<1>7. CASE kind[j] = "delete" /\ End(j, "ok")
  <2>1. result'[j] = "ok"
    BY <1>7 DEF End, Inv, TypeOK
  <2> QED
    BY <1>1, <1>3, <1>4, <1>5, <1>7, <2>1, QuietStepInv DEF None
<1> QED
  BY <1>1, <1>6, <1>7

LEMMA OpenDeviceInv == ASSUME Inv, NEW j \in Jobs, OpenDevice(j) PROVE Inv'
<1> DEFINE d == devices[j][pos[j]]
<1>1. /\ stage[j] = "next" /\ pos[j] <= Len(devices[j])
      /\ UNCHANGED <<tableVars, callVars, pos, removed, erased, cancelled,
                     freed, disk, shown>>
      /\ \/ held' = [held EXCEPT ![d] = j] /\ Goto(j, "open")
         \/ End(j, "failed") /\ held' = held
  BY DEF OpenDevice
<1>2. Whereabouts(j) /\ Work(j) /\ devices[j] \in Seq(Devices) /\ pos[j] \in Nat
  BY DEF Inv, JobOK, TypeOK
<1>3. pos[j] \in DOMAIN devices[j] /\ kind[j] \in {"create", "delete"}
  BY <1>1, <1>2 DEF Whereabouts
<1>4. kind[j] = "delete" => j \in removed
  BY <1>1, <1>2 DEF Work
<1>5. held' \in [Devices -> {"free", "user"} \union Jobs]
  BY <1>1 DEF Inv, TypeOK
<1>6. CASE Goto(j, "open")
  BY <1>1, <1>3, <1>4, <1>5, <1>6, QuietStepInv DEF None
<1>7. CASE End(j, "failed")
  <2>1. result'[j] = "failed"
    BY <1>7 DEF End, Inv, TypeOK
  <2> QED
    BY <1>1, <1>5, <1>7, <2>1, QuietStepInv DEF None
<1> QED
  BY <1>1, <1>6, <1>7

LEMMA CommandFailsInv == ASSUME Inv, NEW j \in Jobs, CommandFails(j) PROVE Inv'
<1>1. /\ stage[j] = "command" /\ End(j, "failed") /\ held' = held
      /\ UNCHANGED <<tableVars, callVars, pos, removed, erased, cancelled,
                     freed, disk, shown>>
  BY DEF CommandFails, deviceVars
<1>2. held' \in [Devices -> {"free", "user"} \union Jobs] /\ result'[j] = "failed"
  BY <1>1 DEF Inv, TypeOK, End
<1> QED
  BY <1>1, <1>2, QuietStepInv DEF None

(* Writing to the device a job's loop is at. *)
LEMMA ZeroInv == ASSUME Inv, NEW j \in Jobs, Zero(j) PROVE Inv'
<1> DEFINE d == devices[j][pos[j]]
<1>1. /\ stage[j] = "open"
      /\ UNCHANGED <<tableVars, callVars, pos, removed, cancelled, freed, shown>>
      /\ held' = [held EXCEPT ![d] = "free"]
      /\ \/ Goto(j, "wipefs") \/ End(j, "failed")
      /\ erased' = erased \/ erased' = [erased EXCEPT ![j] = @ \union {d}]
      /\ disk' = disk \/ disk' = [disk EXCEPT ![d] = Zeroed(@)]
  BY DEF Zero
<1>2. Whereabouts(j) /\ Work(j) /\ devices[j] \in Seq(Devices) /\ pos[j] \in Nat
  BY DEF Inv, JobOK, TypeOK
<1>3. pos[j] \in DOMAIN devices[j] /\ d \in Devices
  BY <1>1, <1>2 DEF Inv, TypeOK
<1>4. /\ UNCHANGED <<launched, exported, num_jobs, up, kind, group, devices, pos,
                     removed, cancelled, freed, shown>>
  BY <1>1 DEF tableVars, callVars
<1>5. /\ DevicesOf(j)' = DevicesOf(j)
      /\ Prefix(j, pos[j])' = Prefix(j, pos[j])
      /\ Prefix(j, pos[j] - 1)' = Prefix(j, pos[j] - 1)
      /\ Prefix(j, pos[j]) = Prefix(j, pos[j] - 1) \union {d}
  BY <1>2, <1>3, <1>4, SamePlace, Prefixes
<1>6. /\ stage' \in [Jobs -> Stages] /\ stage'[j] \in {"wipefs", "done"}
      /\ result' \in [Jobs -> {None, "ok", "failed", "cancelled"}]
      /\ stage'[j] = "wipefs" => result'[j] = result[j]
      /\ stage'[j] = "done" => result'[j] = "failed"
      /\ \A i \in Jobs \ {j} : stage'[i] = stage[i] /\ result'[i] = result[i]
  <2>1. /\ stage \in [Jobs -> Stages]
        /\ result \in [Jobs -> {None, "ok", "failed", "cancelled"}]
    BY DEF Inv, TypeOK
  <2> QED
    BY <1>1, <2>1 DEF End, Goto, Stages
<1>7. /\ erased' \in [Jobs -> SUBSET Devices]
      /\ erased[j] \subseteq erased'[j] /\ erased'[j] \subseteq erased[j] \union {d}
      /\ \A i \in Jobs \ {j} : erased'[i] = erased[i]
  <2>1. erased \in [Jobs -> SUBSET Devices]
    BY DEF Inv, TypeOK
  <2> QED
    BY <1>1, <1>3, <2>1
<1>8. Whereabouts(j)'
  BY <1>1, <1>2, <1>4, <1>6 DEF Whereabouts, Fresh, None
<1>9. Work(j)'
  BY <1>1, <1>2, <1>4, <1>5, <1>6, <1>7, <1>8 DEF Work, Whereabouts, None
<1>10. JobOK(j)'
  BY <1>8, <1>9 DEF JobOK
<1>11. /\ held' \in [Devices -> {"free", "user"} \union Jobs]
       /\ disk' \in [Devices -> {"data", "wiped", "orphan"} \union Names]
  <2>1. /\ disk \in [Devices -> {"data", "wiped", "orphan"} \union Names]
        /\ held \in [Devices -> {"free", "user"} \union Jobs]
    BY DEF Inv, TypeOK
  <2>2. Zeroed(disk[d]) \in {"data", "wiped", "orphan"} \union Names
    BY <1>3, <2>1 DEF Zeroed
  <2> QED
    BY <1>1, <2>1, <2>2
<1>12. pos' \in [Jobs -> Nat] /\ removed' \subseteq Jobs
  BY <1>4 DEF Inv, TypeOK
<1> QED
  BY <1>1, <1>3, <1>4, <1>6, <1>7, <1>10, <1>11, <1>12, StepInv

LEMMA WipeFsInv == ASSUME Inv, NEW j \in Jobs, WipeFs(j) PROVE Inv'
<1> DEFINE d == devices[j][pos[j]]
<1>1. /\ stage[j] = "wipefs"
      /\ UNCHANGED <<tableVars, callVars, removed, cancelled, freed, held, shown>>
      /\ \/ /\ disk' = [disk EXCEPT ![d] = "wiped"]
            /\ erased' = [erased EXCEPT ![j] = @ \union {d}]
            /\ pos' = [pos EXCEPT ![j] = @ + 1]
            /\ Goto(j, "next")
         \/ End(j, "failed") /\ UNCHANGED <<disk, erased, pos>>
  BY DEF WipeFs
<1>2. Whereabouts(j) /\ Work(j) /\ devices[j] \in Seq(Devices) /\ pos[j] \in Nat
  BY DEF Inv, JobOK, TypeOK
<1>3. pos[j] \in DOMAIN devices[j] /\ d \in Devices
  BY <1>1, <1>2 DEF Inv, TypeOK
<1>4. UNCHANGED <<launched, exported, num_jobs, up, kind, group, devices,
                  removed, cancelled, freed, held, shown>>
  BY <1>1 DEF tableVars, callVars
<1>5. held' \in [Devices -> {"free", "user"} \union Jobs]
  BY <1>4 DEF Inv, TypeOK
<1>6. CASE End(j, "failed") /\ UNCHANGED <<disk, erased, pos>>
  <2>1. result'[j] = "failed"
    BY <1>6 DEF End, Inv, TypeOK
  <2> QED
    BY <1>1, <1>4, <1>5, <1>6, <2>1, QuietStepInv DEF None
<1>7. CASE /\ disk' = [disk EXCEPT ![d] = "wiped"]
           /\ erased' = [erased EXCEPT ![j] = @ \union {d}]
           /\ pos' = [pos EXCEPT ![j] = @ + 1]
           /\ Goto(j, "next")
  <2>1. /\ stage \in [Jobs -> Stages] /\ pos \in [Jobs -> Nat]
        /\ erased \in [Jobs -> SUBSET Devices]
        /\ disk \in [Devices -> {"data", "wiped", "orphan"} \union Names]
    BY DEF Inv, TypeOK
  <2>2. /\ stage' \in [Jobs -> Stages] /\ stage'[j] = "next" /\ result' = result
        /\ pos' \in [Jobs -> Nat] /\ pos'[j] = pos[j] + 1
        /\ erased' \in [Jobs -> SUBSET Devices] /\ erased'[j] = erased[j] \union {d}
        /\ disk' \in [Devices -> {"data", "wiped", "orphan"} \union Names]
        /\ \A i \in Jobs \ {j} :
              stage'[i] = stage[i] /\ pos'[i] = pos[i] /\ erased'[i] = erased[i]
    BY <1>3, <1>7, <2>1 DEF Goto, Stages
  <2>3. /\ Prefix(j, pos[j]) = Prefix(j, pos[j] - 1) \union {d}
        /\ Prefix(j, pos[j]) \subseteq Prefix(j, pos[j] + 1)
    BY <1>2, <1>3, Prefixes
  <2>4. /\ Prefix(j, pos[j])' = Prefix(j, pos[j] + 1)
        /\ Prefix(j, pos[j] - 1)' = Prefix(j, pos[j])
    BY <1>2, <1>4, <2>2 DEF Prefix
  <2>5. Whereabouts(j)'
    BY <1>1, <1>2, <1>4, <2>2 DEF Whereabouts, Fresh, None
  <2>6. result[j] = None /\ kind[j] \in {"create", "delete"}
        /\ (kind[j] = "delete" => j \in removed)
        /\ Prefix(j, pos[j] - 1) \subseteq erased[j] /\ erased[j] \subseteq Prefix(j, pos[j])
    BY <1>1, <1>2 DEF Whereabouts, Work
  <2>7. Work(j)'
    BY <1>4, <2>2, <2>3, <2>4, <2>6 DEF Work, None
  <2>8. JobOK(j)'
    BY <2>5, <2>7 DEF JobOK
  <2>9. result' \in [Jobs -> {None, "ok", "failed", "cancelled"}] /\ removed' \subseteq Jobs
    BY <1>4, <2>2 DEF Inv, TypeOK
  <2> QED
    BY <1>1, <1>4, <1>5, <2>2, <2>8, <2>9, StepInv
<1> QED
  BY <1>1, <1>6, <1>7

(* The commands that change devices and succeed. *)
LEMMA CommandInv ==
    ASSUME Inv, NEW j \in Jobs, VgCreate(j) \/ VgRemove(j) \/ VgExtend(j)
    PROVE  Inv'
<1>1. /\ stage[j] = "command" /\ kind[j] \in {"create", "delete", "add"}
      /\ UNCHANGED <<tableVars, callVars, pos, erased, cancelled, freed, held, shown>>
      /\ \/ End(j, "ok") /\ kind[j] # "delete" /\ removed' = removed
         \/ Goto(j, "next") /\ kind[j] = "delete" /\ removed' = removed \union {j}
      /\ disk' \in [Devices -> {"data", "wiped", "orphan", group[j]} \union Names]
  <2>1. disk \in [Devices -> {"data", "wiped", "orphan"} \union Names]
    BY DEF Inv, TypeOK
  <2> QED
    BY <2>1 DEF VgCreate, VgRemove, VgExtend
<1>2. Whereabouts(j) /\ Work(j)
  BY DEF Inv, JobOK
<1>3. disk' \in [Devices -> {"data", "wiped", "orphan"} \union Names]
  BY <1>1, <1>2 DEF Whereabouts
<1>4. UNCHANGED <<launched, exported, num_jobs, up, kind, group, devices, pos,
                  erased, cancelled, freed, held, shown>>
  BY <1>1 DEF tableVars, callVars
<1>5. /\ DevicesOf(j)' = DevicesOf(j)
      /\ Prefix(j, pos[j])' = Prefix(j, pos[j])
      /\ Prefix(j, pos[j] - 1)' = Prefix(j, pos[j] - 1)
  BY <1>4, SamePlace
<1>6. result[j] = None /\ (kind[j] # "delete" => erased[j] = DevicesOf(j))
  BY <1>1, <1>2 DEF Whereabouts, Work
<1>7. /\ stage' \in [Jobs -> Stages]
      /\ stage'[j] = IF kind[j] = "delete" THEN "next" ELSE "done"
      /\ result' \in [Jobs -> {None, "ok", "failed", "cancelled"}]
      /\ result'[j] = IF kind[j] = "delete" THEN None ELSE "ok"
      /\ \A i \in Jobs \ {j} : stage'[i] = stage[i] /\ result'[i] = result[i]
  <2>1. /\ stage \in [Jobs -> Stages]
        /\ result \in [Jobs -> {None, "ok", "failed", "cancelled"}]
    BY DEF Inv, TypeOK
  <2> QED
    BY <1>1, <1>6, <2>1 DEF End, Goto, Stages
<1>8. /\ removed' \subseteq Jobs
      /\ kind[j] = "delete" => j \in removed'
      /\ \A i \in Jobs \ {j} : i \in removed' <=> i \in removed
  BY <1>1 DEF Inv, TypeOK
<1>9. Whereabouts(j)'
  <2>1. j \in launched /\ j \in exported
    BY <1>1, <1>2 DEF Whereabouts, Fresh, None
  <2> QED
    BY <1>1, <1>2, <1>4, <1>7, <2>1 DEF Whereabouts, None
<1>10. Work(j)'
  BY <1>1, <1>2, <1>4, <1>5, <1>6, <1>7, <1>8 DEF Work, None
<1>11. JobOK(j)'
  BY <1>9, <1>10 DEF JobOK
<1>12. /\ held' \in [Devices -> {"free", "user"} \union Jobs] /\ pos' \in [Jobs -> Nat]
       /\ erased' \in [Jobs -> SUBSET Devices]
  BY <1>4 DEF Inv, TypeOK
<1> QED
  BY <1>1, <1>3, <1>4, <1>7, <1>8, <1>11, <1>12, StepInv

(* A job completes. *)
LEMMA CompleteInv == ASSUME Inv, NEW j \in Jobs, Complete(j) PROVE Inv'
<1>1. /\ stage[j] = "done" /\ stage' = [stage EXCEPT ![j] = "over"]
      /\ exported' = exported \ {j} /\ num_jobs' = num_jobs - 1
      /\ UNCHANGED <<launched, up, kind, group, devices, pos, result, removed,
                     erased, cancelled, freed, disk, held, shown>>
  BY DEF Complete, callVars, deviceVars
<1>2. Whereabouts(j) /\ Work(j)
  BY DEF Inv, JobOK
<1>3. Counted'
  <2>1. j \in exported
    BY <1>1, <1>2 DEF Whereabouts, None
  <2> QED
    BY <1>1, <2>1, FS_RemoveElement DEF Inv, Counted
<1>4. num_jobs' \in Nat
  BY <1>3, FS_CardinalityType DEF Counted
<1>5. TypeOK'
  <2>1. up' \in BOOLEAN
    BY <1>1 DEF Inv, TypeOK
  <2>2. stage' \in [Jobs -> Stages] /\ exported' \subseteq Jobs
    BY <1>1 DEF Inv, TypeOK, Stages
  <2>3. \A i \in Jobs : stage'[i] \in {"open", "wipefs"} => pos'[i] \in DOMAIN devices'[i]
    BY <1>1 DEF Inv, TypeOK
  <2> QED
    BY <1>1, <1>4, <2>1, <2>2, <2>3 DEF Inv, TypeOK
<1>6. ASSUME NEW i \in Jobs, i # j PROVE JobOK(i)'
  <2>1. stage'[i] = stage[i]
    BY <1>1, <1>6 DEF Inv, TypeOK
  <2> QED
    BY <1>1, <1>6, <2>1, Untouched DEF Inv
<1>7. JobOK(j)'
  <2>1. stage'[j] = "over" /\ j \notin exported' /\ j \in launched
    BY <1>1, <1>2 DEF Inv, TypeOK, Whereabouts, Fresh, None
  <2>2. Whereabouts(j)'
    BY <1>1, <1>2, <2>1 DEF Whereabouts, None
  <2>3. /\ DevicesOf(j)' = DevicesOf(j)
        /\ Prefix(j, pos[j])' = Prefix(j, pos[j])
        /\ Prefix(j, pos[j] - 1)' = Prefix(j, pos[j] - 1)
    BY <1>1, SamePlace
  <2>4. Work(j)'
    BY <1>1, <1>2, <2>1, <2>3 DEF Work
  <2> QED
    BY <2>2, <2>4 DEF JobOK
<1> QED
  BY <1>3, <1>5, <1>6, <1>7 DEF Inv

(* Nothing else reaches into a job. *)
LEMMA EnvironmentInv ==
    ASSUME Inv,
           \/ \E j \in Jobs : Cancel(j) \/ ReadFreed(j)
           \/ \E d \in Devices : AddDeviceFails(d) \/ UserOpens(d) \/ UserCloses(d)
           \/ Update
           \/ UNCHANGED vars
    PROVE  Inv'
<1>1. /\ UNCHANGED <<launched, exported, num_jobs, kind, group, devices, stage,
                     pos, result, removed, erased>>
      /\ cancelled' \subseteq cancelled \union exported
      /\ \A j \in freed' : j \in freed \/ (j \in Jobs /\ kind[j] = "create")
  <2>1. UNCHANGED <<launched, exported, num_jobs, kind, group, devices, stage,
                    pos, result, removed, erased>>
    BY DEF Cancel, ReadFreed, AddDeviceFails, UserOpens, UserCloses, Update, vars,
           tableVars, callVars, threadVars
  <2>2. cancelled' \subseteq cancelled \union exported
    BY DEF Cancel, ReadFreed, AddDeviceFails, UserOpens, UserCloses, Update, vars
  <2>3. \A j \in freed' : j \in freed \/ (j \in exported /\ kind[j] = "create")
    <3>1. ASSUME Update
          PROVE  \A j \in freed' : j \in freed \/ (j \in exported /\ kind[j] = "create")
      <4>1. freed' = freed \union {j \in exported : /\ kind[j] = "create"
                                                   /\ group[j] \in Published}
        BY <3>1 DEF Update
      <4> QED
        BY <4>1
    <3>2. Update \/ freed' = freed
      BY DEF Cancel, ReadFreed, AddDeviceFails, UserOpens, UserCloses, vars
    <3> QED
      BY <3>1, <3>2
  <2>4. exported \subseteq Jobs
    BY DEF Inv, TypeOK
  <2> QED
    BY <2>1, <2>2, <2>3, <2>4
<1>2. up' \in BOOLEAN
  <2>1. up' = up \/ up' = FALSE
    BY DEF Cancel, ReadFreed, AddDeviceFails, UserOpens, UserCloses, Update, vars,
           tableVars, callVars, threadVars, deviceVars
  <2> QED
    BY <2>1 DEF Inv, TypeOK
<1>3. disk' \in [Devices -> {"data", "wiped", "orphan"} \union Names]
  <2>1. disk \in [Devices -> {"data", "wiped", "orphan"} \union Names]
    BY DEF Inv, TypeOK
  <2>2. \A d \in Devices : Zeroed(disk[d]) \in {"data", "wiped", "orphan"} \union Names
    BY <2>1 DEF Zeroed
  <2>3. disk' = disk \/ \E d \in Devices : disk' = [disk EXCEPT ![d] = Zeroed(@)]
    BY DEF Cancel, ReadFreed, AddDeviceFails, UserOpens, UserCloses, Update, vars,
           deviceVars
  <2> QED
    BY <2>1, <2>2, <2>3
<1>4. held' \in [Devices -> {"free", "user"} \union Jobs]
  <2>1. held \in [Devices -> {"free", "user"} \union Jobs]
    BY DEF Inv, TypeOK
  <2>2. held' = held \/ \E d \in Devices : \/ held' = [held EXCEPT ![d] = "user"]
                                          \/ held' = [held EXCEPT ![d] = "free"]
    BY DEF Cancel, ReadFreed, AddDeviceFails, UserOpens, UserCloses, Update, vars,
           deviceVars
  <2> QED
    BY <2>1, <2>2
<1>5. shown' \in [Devices -> {None} \union Names]
  <2>1. shown \in [Devices -> {None} \union Names]
    BY DEF Inv, TypeOK
  <2>2. Actual \in [Devices -> {None} \union Names]
    BY DEF Actual
  <2>3. shown' = shown \/ shown' = Actual
    BY DEF Cancel, ReadFreed, AddDeviceFails, UserOpens, UserCloses, Update, vars
  <2> QED
    BY <2>1, <2>2, <2>3
<1>6. TypeOK'
  <2>1. cancelled' \subseteq Jobs /\ freed' \subseteq Jobs
    BY <1>1 DEF Inv, TypeOK
  <2> QED
    BY <1>1, <1>2, <1>3, <1>4, <1>5, <2>1 DEF Inv, TypeOK
<1>7. Counted'
  BY <1>1 DEF Inv, Counted
<1>8. ASSUME NEW i \in Jobs PROVE JobOK(i)'
  <2>1. i \in exported => i \in launched
    BY DEF Inv, JobOK, Whereabouts, Fresh
  <2> QED
    BY <1>1, <2>1, Untouched DEF Inv
<1> QED
  BY <1>6, <1>7, <1>8 DEF Inv

LEMMA NextInv == Inv /\ [Next]_vars => Inv'
  BY HandlerInv, BeginInv, AllWipedInv, OpenDeviceInv, ZeroInv, WipeFsInv,
     CommandFailsInv, CommandInv, CompleteInv, EnvironmentInv
     DEF Next, Step, Command

THEOREM Invariance == Spec => []Inv
<1>1. Init => Inv
  BY InitInv
<1>2. Inv /\ [Next]_vars => Inv'
  BY NextInv
<1> QED
  BY <1>1, <1>2, PTL DEF Spec
-----------------------------------------------------------------------------
(* A new group keeps its devices until another job takes them.             *)

Blamed(j, d) == \E i \in Jobs \ {j} : \/ d \in DevicesOf(i)
                                      \/ group[i] = group[j] /\ i \in removed

Kept == \A j \in Jobs :
            kind[j] = "create" /\ result[j] = "ok" =>
                \A d \in DevicesOf(j) : disk[d] = group[j] \/ Blamed(j, d)

(* What a job was launched for does not change, and a group that it has    *)
(* removed remains removed by it. *)
LEMMA CallsKept ==
    ASSUME Inv, [Next]_vars, NEW j \in launched
    PROVE  /\ kind'[j] = kind[j] /\ group'[j] = group[j] /\ devices'[j] = devices[j]
           /\ j \in removed => j \in removed'
<1>1. kind \in [Jobs -> Kinds] /\ group \in [Jobs -> {None} \union Names \union Devices]
      /\ devices \in [Jobs -> Seq(Devices)] /\ j \in Jobs
  BY DEF Inv, TypeOK
<1>2. ASSUME NEW i \in Jobs, NEW k, NEW n, NEW l, NEW s, Launch(i, k, n, l, s)
      PROVE  /\ kind'[j] = kind[j] /\ group'[j] = group[j] /\ devices'[j] = devices[j]
             /\ removed' = removed
  BY <1>1, <1>2 DEF Launch
<1>3. \/ \E i \in Jobs : \E k, n, l, s : Launch(i, k, n, l, s)
      \/ UNCHANGED <<kind, group, devices>> /\ removed \subseteq removed'
  <2>1. ASSUME NEW i \in Jobs, NEW n \in Names, NEW l,
               VolumeGroupCreate(i, n, l) \/ Delete(i, n, l)
        PROVE  \E k, m, ll, s : Launch(i, k, m, ll, s)
    BY <2>1 DEF VolumeGroupCreate, Delete
  <2>2. ASSUME NEW i \in Jobs, NEW n \in Names, NEW d \in Devices,
               AddDevice(i, n, d)
        PROVE  \E k, m, ll, s : Launch(i, k, m, ll, s)
    BY <2>2 DEF AddDevice
  <2>3. ASSUME NEW i \in Jobs, NEW d \in Devices, RemoveDevice(i, d)
        PROVE  \E k, m, ll, s : Launch(i, k, m, ll, s)
    BY <2>3 DEF RemoveDevice
  <2>4. ASSUME NEW i \in Jobs, Cancel(i) \/ Step(i) \/ ReadFreed(i) \/ Complete(i)
        PROVE  UNCHANGED <<kind, group, devices>> /\ removed \subseteq removed'
    BY <2>4 DEF Cancel, Step, FindCancelled, Start, AllWiped, OpenDevice, Zero, WipeFs,
                Command, CommandFails, VgCreate, VgRemove, VgExtend, ReadFreed, Complete,
                callVars, threadVars
  <2>5. ASSUME NEW d \in Devices, AddDeviceFails(d) \/ UserOpens(d) \/ UserCloses(d)
        PROVE  UNCHANGED <<kind, group, devices>> /\ removed \subseteq removed'
    BY <2>5 DEF AddDeviceFails, UserOpens, UserCloses, callVars, threadVars
  <2>6. ASSUME Update \/ UNCHANGED vars
        PROVE  UNCHANGED <<kind, group, devices>> /\ removed \subseteq removed'
    BY <2>6 DEF Update, vars, callVars, threadVars
  <2> QED
    BY <2>1, <2>2, <2>3, <2>4, <2>5, <2>6 DEF Next
<1> QED
  BY <1>2, <1>3

LEMMA BlameStays ==
    ASSUME Inv, [Next]_vars, NEW j \in launched, NEW d, Blamed(j, d)
    PROVE  Blamed(j, d)'
<1>1. PICK i \in Jobs \ {j} : d \in DevicesOf(i) \/ (group[i] = group[j] /\ i \in removed)
  BY DEF Blamed
<1>2. i \in launched
  <2>1. i \notin launched => devices[i] = <<>> /\ i \notin removed
    BY DEF Inv, JobOK, Whereabouts, Fresh
  <2> QED
    BY <1>1, <2>1 DEF DevicesOf
<1>3. /\ devices'[i] = devices[i] /\ group'[i] = group[i] /\ group'[j] = group[j]
      /\ i \in removed => i \in removed'
  BY <1>2, CallsKept
<1> QED
  BY <1>1, <1>3 DEF Blamed, DevicesOf

(* Who changes what is on a device: a job that was given it or removed its *)
(* group, and has not ended; or the wiping that AddDevice gave up. *)
LEMMA WhoWrites ==
    ASSUME Inv, [Next]_vars, NEW d \in Devices, disk'[d] # disk[d]
    PROVE  \/ disk[d] = "data"
           \/ \E i \in Jobs :
                 /\ result[i] = None
                 /\ \/ d \in DevicesOf(i)'
                    \/ disk[d] = group'[i] /\ i \in removed'
<1>1. disk \in [Devices -> {"data", "wiped", "orphan"} \union Names]
  BY DEF Inv, TypeOK
<1>2. ASSUME NEW i \in Jobs, Step(i)
      PROVE  \E k \in Jobs : /\ result[k] = None
                            /\ \/ d \in DevicesOf(k)'
                               \/ disk[d] = group'[k] /\ k \in removed'
  <2>1. /\ devices' = devices /\ group' = group
        /\ stage[i] \in {"pushed", "next", "open", "wipefs", "command"}
    BY <1>2 DEF Step, FindCancelled, Start, AllWiped, OpenDevice, Zero, WipeFs,
                Command, CommandFails, VgCreate, VgRemove, VgExtend, callVars
  <2>2. result[i] = None /\ DevicesOf(i)' = DevicesOf(i)
    BY <2>1 DEF Inv, JobOK, Whereabouts, DevicesOf
  <2>3. CASE Zero(i) \/ WipeFs(i)
    <3>1. stage[i] \in {"open", "wipefs"}
      BY <2>3 DEF Zero, WipeFs
    <3>2. pos[i] \in DOMAIN devices[i]
      BY <3>1 DEF Inv, TypeOK
    <3>3. devices[i][pos[i]] \in DevicesOf(i)
      BY <3>2 DEF DevicesOf
    <3>4. disk' = disk \/ \E v : disk' = [disk EXCEPT ![devices[i][pos[i]]] = v]
      BY <2>3 DEF Zero, WipeFs
    <3>5. d = devices[i][pos[i]]
      BY <1>1, <3>4
    <3> QED
      BY <2>2, <3>3, <3>5
  <2>4. CASE VgCreate(i) \/ VgExtend(i)
    <3>1. disk' = [e \in Devices |-> IF e \in DevicesOf(i) THEN group[i] ELSE disk[e]]
      BY <2>4 DEF VgCreate, VgExtend
    <3>2. d \in DevicesOf(i)
      BY <1>1, <3>1
    <3> QED
      BY <2>2, <3>2
  <2>5. CASE VgRemove(i)
    <3>1. /\ disk' = [e \in Devices |-> IF disk[e] = group[i] THEN "orphan" ELSE disk[e]]
          /\ i \in removed'
      BY <2>5 DEF VgRemove
    <3>2. disk[d] = group[i]
      BY <1>1, <3>1
    <3> QED
      BY <2>1, <2>2, <3>1, <3>2
  <2>6. CASE FindCancelled(i) \/ Start(i) \/ AllWiped(i) \/ OpenDevice(i) \/ CommandFails(i)
    BY <2>6 DEF FindCancelled, Start, AllWiped, OpenDevice, CommandFails, deviceVars
  <2> QED
    BY <1>2, <2>3, <2>4, <2>5, <2>6 DEF Step, Command
<1>3. ASSUME NEW i \in Jobs, NEW n \in Names, NEW e \in Devices, AddDevice(i, n, e)
      PROVE  result[i] = None /\ d \in DevicesOf(i)'
  <2>1. /\ disk' = [disk EXCEPT ![e] = "wiped"] /\ Launch(i, "add", n, <<e>>, "command")
    BY <1>3 DEF AddDevice
  <2>2. d = e
    BY <1>1, <2>1
  <2>3. i \notin launched /\ devices'[i] = <<e>>
    BY <2>1 DEF Launch, Inv, TypeOK
  <2>4. result[i] = None
    BY <2>3 DEF Inv, JobOK, Whereabouts, Fresh
  <2> QED
    BY <2>2, <2>3, <2>4 DEF DevicesOf
<1>4. ASSUME NEW e \in Devices, AddDeviceFails(e) PROVE disk[d] = "data"
  BY <1>1, <1>4 DEF AddDeviceFails
<1>5. ASSUME NEW i \in Jobs, NEW n \in Names, NEW l,
             VolumeGroupCreate(i, n, l) \/ Delete(i, n, l)
      PROVE  FALSE
  BY <1>5 DEF VolumeGroupCreate, Delete, deviceVars
<1>6. ASSUME NEW i \in Jobs, NEW e \in Devices,
             \/ RemoveDevice(i, e) \/ Cancel(i) \/ ReadFreed(i) \/ Complete(i)
             \/ UserOpens(e) \/ UserCloses(e) \/ Update \/ UNCHANGED vars
      PROVE  FALSE
  BY <1>6 DEF RemoveDevice, Cancel, ReadFreed, Complete, UserOpens, UserCloses,
              Update, vars, deviceVars
<1>7. ~Update /\ ~UNCHANGED vars /\ \A e \in Devices : ~UserOpens(e) /\ ~UserCloses(e)
  BY DEF UserOpens, UserCloses, Update, vars, deviceVars
<1> QED
  BY <1>2, <1>3, <1>4, <1>5, <1>6, <1>7 DEF Next

(* A call to create a group reports success when vgcreate has made it. *)
LEMMA Created ==
    ASSUME Inv, [Next]_vars, NEW j \in Jobs, kind'[j] = "create",
           result'[j] = "ok", result[j] # "ok"
    PROVE  \A d \in DevicesOf(j)' : d \in Devices => disk'[d] = group'[j]
<1>1. result \in [Jobs -> {None, "ok", "failed", "cancelled"}]
  BY DEF Inv, TypeOK
<1>2. ASSUME NEW i \in Jobs, Step(i)
      PROVE  \A d \in DevicesOf(j)' : d \in Devices => disk'[d] = group'[j]
  <2>1. kind' = kind /\ devices' = devices /\ group' = group
    BY <1>2 DEF Step, FindCancelled, Start, AllWiped, OpenDevice, Zero, WipeFs,
                Command, CommandFails, VgCreate, VgRemove, VgExtend, callVars
  <2>2. ~FindCancelled(i) /\ ~Start(i) /\ ~OpenDevice(i) /\ ~Zero(i) /\ ~WipeFs(i)
        /\ ~CommandFails(i) /\ ~VgRemove(i)
    BY <1>1 DEF FindCancelled, Start, OpenDevice, Zero, WipeFs, CommandFails,
                VgRemove, End, Goto
  <2>3. ~AllWiped(i) /\ ~VgExtend(i)
    BY <1>1, <2>1 DEF AllWiped, VgExtend, End, Goto
  <2>4. VgCreate(i)
    BY <1>2, <2>2, <2>3 DEF Step, Command
  <2>5. i = j
    BY <1>1, <2>4 DEF VgCreate, End
  <2> QED
    BY <2>1, <2>4, <2>5 DEF VgCreate, DevicesOf
<1>3. ASSUME result' = result PROVE FALSE
  BY <1>3
<1>4. (\E i \in Jobs : Step(i)) \/ result' = result
  BY DEF Next, VolumeGroupCreate, Delete, RemoveDevice, AddDevice, Launch, Cancel,
         ReadFreed, Complete, AddDeviceFails, UserOpens, UserCloses, Update, vars,
         threadVars
<1> QED
  BY <1>2, <1>3, <1>4

LEMMA KeptInv == Inv /\ Kept /\ [Next]_vars => Kept'
<1> SUFFICES ASSUME Inv, Kept, [Next]_vars, NEW j \in Jobs,
                    kind'[j] = "create", result'[j] = "ok", NEW d \in DevicesOf(j)'
             PROVE  disk'[d] = group'[j] \/ Blamed(j, d)'
  BY DEF Kept
<1>1. Inv'
  BY NextInv
<1>2. d \in Devices
  BY <1>1 DEF Inv, TypeOK, DevicesOf
<1>3. CASE result[j] # "ok"
  BY <1>2, <1>3, Created
<1>4. CASE result[j] = "ok"
  <2>1. j \in launched /\ kind[j] # None
    BY <1>4, CallsKept DEF Inv, JobOK, Whereabouts, Fresh, None
  <2>2. kind[j] = "create" /\ group'[j] = group[j] /\ DevicesOf(j)' = DevicesOf(j)
    BY <2>1, CallsKept DEF DevicesOf
  <2>3. disk[d] = group[j] \/ Blamed(j, d)
    BY <1>4, <2>2 DEF Kept
  <2>4. CASE Blamed(j, d)
    BY <2>1, <2>4, BlameStays
  <2>5. CASE disk[d] = group[j] /\ disk'[d] # disk[d]
    <3>1. disk[d] # "data"
      BY <2>2, <2>5, NamesAssumption DEF Inv, JobOK, Whereabouts
    <3>2. PICK i \in Jobs : /\ result[i] = None
                            /\ \/ d \in DevicesOf(i)'
                               \/ disk[d] = group'[i] /\ i \in removed'
      BY <1>2, <2>5, <3>1, WhoWrites
    <3>3. i # j
      BY <1>4, <3>2 DEF None
    <3> QED
      BY <2>2, <2>5, <3>2, <3>3 DEF Blamed
  <2>6. CASE disk[d] = group[j] /\ disk'[d] = disk[d]
    BY <2>2, <2>6
  <2> QED
    BY <2>3, <2>4, <2>5, <2>6
<1> QED
  BY <1>3, <1>4

THEOREM KeptAlways == Spec => []Kept
<1>1. Init => Kept
  BY DEF Init, Kept, None
<1>2. Inv /\ Kept /\ [Next]_vars => Kept'
  BY KeptInv
<1> QED
  BY <1>1, <1>2, Invariance, PTL DEF Spec
-----------------------------------------------------------------------------
(* Every variable stays in its range; the daemon does not count more jobs  *)
(* out than in, and a thread only works on devices of its list. *)
THEOREM TypeCorrect == Spec => []TypeOK
<1>1. Inv => TypeOK
  BY DEF Inv
<1> QED
  BY <1>1, Invariance, PTL

(* What a job reports is what it did. *)
THEOREM ResultsCorrect == Spec => []ResultTold
<1>1. Inv => ResultTold
  <2> SUFFICES ASSUME Inv, NEW j \in Jobs
               PROVE  /\ result[j] = "ok" => /\ erased[j] = DevicesOf(j)
                                             /\ kind[j] # "remove"
                                             /\ kind[j] = "delete" => j \in removed
                      /\ result[j] = "cancelled" => erased[j] = {} /\ j \notin removed
    BY DEF ResultTold
  <2>1. Work(j)
    BY DEF Inv, JobOK
  <2> QED
    BY <2>1 DEF Work
<1> QED
  BY <1>1, Invariance, PTL

(* Devices are erased in order, after the group of Delete was removed, and *)
(* a new group loses a device only to another job. *)
THEOREM WipesCorrect == Spec => []WipesExplained
<1>1. Inv /\ Kept => WipesExplained
  <2> SUFFICES ASSUME Inv, Kept PROVE WipesExplained
    OBVIOUS
  <2>1. \A j \in Jobs : Work(j)
    BY DEF Inv, JobOK
  <2>2. \A j \in Jobs :
           /\ kind[j] # "add" => /\ Prefix(j, pos[j] - 1) \subseteq erased[j]
                                 /\ erased[j] \subseteq Prefix(j, pos[j])
           /\ kind[j] = "delete" /\ erased[j] # {} => j \in removed
    BY <2>1 DEF Work
  <2> QED
    BY <2>2 DEF WipesExplained, Kept, Blamed
<1> QED
  BY <1>1, Invariance, KeptAlways, PTL

(* The daemon dies of a device job only when the closure of a call to      *)
(* create a group was freed before its job was done. *)
THEOREM DeathsCorrect == Spec => []DeathExplained
<1>1. Init => DeathExplained
  BY DEF Init, DeathExplained
<1>2. Inv /\ Inv' /\ DeathExplained /\ [Next]_vars => DeathExplained'
  <2> SUFFICES ASSUME Inv, DeathExplained, [Next]_vars, up' = FALSE
               PROVE  \E j \in freed' : kind'[j] = "create" /\ result'[j] # "ok"
    BY DEF DeathExplained
  <2>1. CASE up = FALSE
    <3>1. UNCHANGED vars
      BY <2>1 DEF Next
    <3> QED
      BY <2>1, <3>1 DEF vars, DeathExplained
  <2>2. CASE up # FALSE
    <3>1. \E j \in Jobs : ReadFreed(j)
      BY <2>2 DEF Next, VolumeGroupCreate, Delete, RemoveDevice, AddDevice, Launch,
             Step, FindCancelled, Start, AllWiped, OpenDevice, Zero, WipeFs, Command,
             CommandFails, VgCreate, VgRemove, VgExtend, Cancel, Complete,
             AddDeviceFails, UserOpens, UserCloses, Update, vars, tableVars
    <3>2. PICK j \in Jobs : ReadFreed(j)
      BY <3>1
    <3>3. j \in freed /\ kind[j] = "create" /\ result[j] # "ok"
      BY <3>2 DEF ReadFreed, Inv, JobOK, Whereabouts, None
    <3>4. freed' = freed /\ kind' = kind /\ result' = result
      BY <3>2 DEF ReadFreed, callVars, threadVars
    <3> QED
      BY <3>3, <3>4
  <2> QED
    BY <2>1, <2>2
<1> QED
  BY <1>1, <1>2, Invariance, PTL DEF Spec

(* Device jobs implement JobTable: each step is one of its steps, or       *)
(* leaves the table alone. *)
THEOREM ImplementsJobTable == Spec => JobTablePromise
<1>1. Init => Table!Init
  BY DEF Init, Table!Init
<1>2. Inv /\ [Next]_vars => [Table!Next]_(Table!vars)
  <2> SUFFICES ASSUME Inv, [Next]_vars PROVE [Table!Next]_(Table!vars)
    OBVIOUS
  <2>1. ASSUME NEW j \in Jobs, NEW k, NEW n, NEW l, NEW s, up, Launch(j, k, n, l, s)
        PROVE  Table!Next
    <3>1. Table!Launch(j)
      BY <2>1 DEF Launch, Table!Launch
    <3> QED
      BY <3>1 DEF Table!Next
  <2>2. ASSUME NEW j \in Jobs, up, Complete(j) PROVE Table!Next
    <3>1. j \in exported
      BY <2>2 DEF Complete, Inv, JobOK, Whereabouts, None
    <3>2. Table!Complete(j)
      BY <2>2, <3>1 DEF Complete, Table!Complete
    <3> QED
      BY <3>2 DEF Table!Next
  <2>3. ASSUME NEW j \in Jobs, up, ReadFreed(j) PROVE Table!Next
    <3>1. Table!Fail
      BY <2>3 DEF ReadFreed, Table!Fail
    <3> QED
      BY <3>1 DEF Table!Next
  <2>4. ASSUME NEW j \in Jobs, Cancel(j) \/ Step(j) PROVE UNCHANGED Table!vars
    BY <2>4 DEF Cancel, Step, FindCancelled, Start, AllWiped, OpenDevice, Zero,
                WipeFs, Command, CommandFails, VgCreate, VgRemove, VgExtend,
                tableVars, Table!vars
  <2>5. ASSUME NEW d \in Devices, AddDeviceFails(d) \/ UserOpens(d) \/ UserCloses(d)
        PROVE  UNCHANGED Table!vars
    BY <2>5 DEF AddDeviceFails, UserOpens, UserCloses, tableVars, Table!vars
  <2>6. ASSUME Update \/ UNCHANGED vars PROVE UNCHANGED Table!vars
    BY <2>6 DEF Update, tableVars, vars, Table!vars
  <2>7. ASSUME NEW j \in Jobs, NEW n \in Names, NEW l, up,
               VolumeGroupCreate(j, n, l) \/ Delete(j, n, l)
        PROVE  Table!Next
    BY <2>1, <2>7 DEF VolumeGroupCreate, Delete
  <2>8. ASSUME NEW j \in Jobs, NEW d \in Devices, up, RemoveDevice(j, d) PROVE Table!Next
    BY <2>1, <2>8 DEF RemoveDevice
  <2>9. ASSUME NEW j \in Jobs, NEW n \in Names, NEW d \in Devices, up, AddDevice(j, n, d)
        PROVE  Table!Next
    BY <2>1, <2>9 DEF AddDevice
  <2> QED
    BY <2>2, <2>3, <2>4, <2>5, <2>6, <2>7, <2>8, <2>9 DEF Next
<1> QED
  BY <1>1, <1>2, Invariance, PTL DEF Spec, JobTablePromise, Table!Spec
-----------------------------------------------------------------------------
(* Liveness is left to fairness, but that a thread ends, and gives back    *)
(* what it opened, is proved here.                                         *)

(* The steps the thread of a job may take, from each stage to each. *)
Moves(j) ==
    \/ /\ stage[j] \in {"pushed", "next", "open", "wipefs", "command"}
       /\ stage'[j] = "done" /\ pos'[j] = pos[j]
    \/ /\ stage[j] = "pushed"
       /\ stage'[j] = (IF kind[j] = "create" THEN "next" ELSE "command")
       /\ pos'[j] = pos[j]
    \/ /\ stage[j] = "next" /\ stage'[j] = "command" /\ kind[j] = "create"
       /\ pos'[j] = pos[j]
    \/ stage[j] = "next" /\ stage'[j] = "open" /\ pos'[j] = pos[j]
    \/ stage[j] = "open" /\ stage'[j] = "wipefs" /\ pos'[j] = pos[j]
    \/ stage[j] = "wipefs" /\ stage'[j] = "next" /\ pos'[j] = pos[j] + 1
    \/ /\ stage[j] = "command" /\ stage'[j] = "next" /\ kind[j] = "delete"
       /\ pos'[j] = pos[j]

LEMMA StepMoves ==
    ASSUME Inv, NEW j \in Jobs, Step(j)
    PROVE  /\ UNCHANGED <<launched, kind, devices>>
           /\ \A i \in Jobs \ {j} : stage'[i] = stage[i] /\ pos'[i] = pos[i]
           /\ Moves(j)
<1>0. stage \in [Jobs -> Stages] /\ pos \in [Jobs -> Nat]
  BY DEF Inv, TypeOK
<1>1. UNCHANGED <<launched, kind, devices>>
  BY DEF Step, FindCancelled, Start, AllWiped, OpenDevice, Zero, WipeFs, Command,
         CommandFails, VgCreate, VgRemove, VgExtend, tableVars, callVars
<1>2. ASSUME NEW s, stage' = [stage EXCEPT ![j] = s]
      PROVE  stage'[j] = s /\ \A i \in Jobs \ {j} : stage'[i] = stage[i]
  BY <1>0, <1>2
<1>3. ASSUME NEW r, End(j, r)
      PROVE  stage'[j] = "done" /\ \A i \in Jobs \ {j} : stage'[i] = stage[i]
  BY <1>2, <1>3 DEF End
<1>4. ASSUME NEW s, Goto(j, s)
      PROVE  stage'[j] = s /\ \A i \in Jobs \ {j} : stage'[i] = stage[i]
  BY <1>2, <1>4 DEF Goto
<1>5. CASE FindCancelled(j) \/ Start(j)
  BY <1>1, <1>3, <1>4, <1>5 DEF FindCancelled, Start, Moves
<1>6. CASE AllWiped(j)
  BY <1>1, <1>3, <1>4, <1>6 DEF AllWiped, Moves
<1>7. CASE OpenDevice(j)
  BY <1>1, <1>3, <1>4, <1>7 DEF OpenDevice, Moves
<1>8. CASE Zero(j)
  BY <1>1, <1>3, <1>4, <1>8 DEF Zero, Moves
<1>9. CASE WipeFs(j)
  <2>1. CASE End(j, "failed") /\ pos' = pos
    BY <1>1, <1>3, <1>9, <2>1 DEF WipeFs, Moves
  <2>2. CASE Goto(j, "next") /\ pos' = [pos EXCEPT ![j] = @ + 1]
    BY <1>0, <1>1, <1>4, <1>9, <2>2 DEF WipeFs, Moves
  <2> QED
    BY <1>9, <2>1, <2>2 DEF WipeFs
<1>10. CASE CommandFails(j) \/ VgCreate(j) \/ VgExtend(j)
  BY <1>1, <1>3, <1>10 DEF CommandFails, VgCreate, VgExtend, Moves
<1>11. CASE VgRemove(j)
  BY <1>1, <1>4, <1>11 DEF VgRemove, Moves
<1> QED
  BY <1>5, <1>6, <1>7, <1>8, <1>9, <1>10, <1>11 DEF Step, Command

(* How many steps a thread still has to take, at most. *)
Ahead(j) == IF pos[j] <= Len(devices[j]) THEN 3 * (Len(devices[j]) + 1 - pos[j]) ELSE 0

Rank(j) ==
    CASE stage[j] = "pushed"  -> Ahead(j) + 4
      [] stage[j] = "command" -> IF kind[j] = "create" THEN 1 ELSE Ahead(j) + 3
      [] stage[j] = "next"    -> Ahead(j) + 2
      [] stage[j] = "open"    -> Ahead(j) + 1
      [] stage[j] = "wipefs"  -> Ahead(j)
      [] OTHER -> 0

(* Each step of a thread leaves it fewer steps to take, and nothing that   *)
(* others do adds one: it neither loops nor starts again.                  *)
ThreadsEnd ==
    [][\A j \in launched :
          /\ Rank(j) \in Nat
          /\ Rank(j)' <= Rank(j)
          /\ Step(j) => Rank(j)' < Rank(j)]_vars

LEMMA AheadType ==
    ASSUME Inv, NEW j \in Jobs
    PROVE  /\ Ahead(j) \in Nat /\ Rank(j) \in Nat
           /\ stage[j] = "wipefs" => Ahead(j) > 0
<1>1. devices[j] \in Seq(Devices) /\ pos[j] \in Nat
  BY DEF Inv, TypeOK
<1>2. Len(devices[j]) \in Nat /\ DOMAIN devices[j] = 1 .. Len(devices[j])
  BY <1>1
<1>3. Ahead(j) \in Nat
  BY <1>1, <1>2 DEF Ahead
<1>4. stage[j] = "wipefs" => pos[j] <= Len(devices[j])
  BY <1>2 DEF Inv, TypeOK
<1>5. stage[j] = "wipefs" => Ahead(j) > 0
  BY <1>1, <1>2, <1>4 DEF Ahead
<1> QED
  BY <1>3, <1>5 DEF Rank

(* The rank of a job, by stage. *)
LEMMA RankOf ==
    ASSUME NEW j \in Jobs
    PROVE  /\ stage[j] = "pushed"  => Rank(j) = Ahead(j) + 4
           /\ stage[j] = "next"    => Rank(j) = Ahead(j) + 2
           /\ stage[j] = "open"    => Rank(j) = Ahead(j) + 1
           /\ stage[j] = "wipefs"  => Rank(j) = Ahead(j)
           /\ stage[j] = "command" => Rank(j) \in {1, Ahead(j) + 3}
  BY DEF Rank

LEMMA StepRanks ==
    ASSUME Inv, NEW j \in Jobs, Step(j) PROVE Rank(j)' \in Nat /\ Rank(j)' < Rank(j)
<1>1. /\ devices' = devices /\ kind' = kind /\ Moves(j)
  BY StepMoves
<1>2. /\ Ahead(j) \in Nat /\ (stage[j] = "wipefs" => Ahead(j) > 0)
  BY AheadType
<1>3. devices[j] \in Seq(Devices) /\ Len(devices[j]) \in Nat /\ pos[j] \in Nat
  BY DEF Inv, TypeOK
<1>4. pos'[j] = pos[j] => Ahead(j)' = Ahead(j)
  BY <1>1 DEF Ahead
<1>5. stage[j] = "wipefs" => pos[j] <= Len(devices[j])
  BY <1>3 DEF Inv, TypeOK
<1>6. CASE stage[j] = "wipefs" /\ stage'[j] = "next" /\ pos'[j] = pos[j] + 1
  <2>1. Ahead(j) = 3 * (Len(devices[j]) + 1 - pos[j])
    BY <1>5, <1>6 DEF Ahead
  <2>2. Ahead(j)' = IF pos[j] + 1 <= Len(devices[j])
                    THEN 3 * (Len(devices[j]) + 1 - (pos[j] + 1)) ELSE 0
    BY <1>1, <1>6 DEF Ahead
  <2>3. Ahead(j)' + 3 <= Ahead(j) /\ Ahead(j)' \in Nat
    BY <1>3, <1>5, <1>6, <2>1, <2>2
  <2> QED
    BY <1>2, <1>6, <2>3 DEF Rank
<1>7. CASE pos'[j] = pos[j]
  <2>1. Ahead(j)' = Ahead(j) /\ kind'[j] = kind[j]
    BY <1>1, <1>4, <1>7
  <2>2. CASE stage'[j] = "done"
    <3>1. Rank(j)' = 0
      BY <2>2 DEF Rank
    <3>2. stage[j] \in {"pushed", "next", "open", "wipefs", "command"}
      BY <1>1, <2>2 DEF Moves
    <3>3. Rank(j) > 0
      BY <1>2, <3>2, RankOf
    <3> QED
      BY <3>1, <3>3
  <2>3. CASE stage[j] = "pushed" /\ stage'[j] = (IF kind[j] = "create" THEN "next" ELSE "command")
    <3>1. Rank(j) = Ahead(j) + 4
      BY <2>3, RankOf
    <3>2. Rank(j)' \in {Ahead(j) + 2, Ahead(j) + 3}
      BY <2>1, <2>3 DEF Rank
    <3> QED
      BY <1>2, <3>1, <3>2
  <2>4. CASE stage[j] = "next" /\ stage'[j] = "command" /\ kind[j] = "create"
    <3>1. Rank(j) = Ahead(j) + 2 /\ Rank(j)' = 1
      BY <2>1, <2>4 DEF Rank
    <3> QED
      BY <1>2, <3>1
  <2>5. CASE stage[j] = "next" /\ stage'[j] = "open"
    <3>1. Rank(j) = Ahead(j) + 2 /\ Rank(j)' = Ahead(j) + 1
      BY <2>1, <2>5 DEF Rank
    <3> QED
      BY <1>2, <3>1
  <2>6. CASE stage[j] = "open" /\ stage'[j] = "wipefs"
    <3>1. Rank(j) = Ahead(j) + 1 /\ Rank(j)' = Ahead(j)
      BY <2>1, <2>6 DEF Rank
    <3> QED
      BY <1>2, <3>1
  <2>7. CASE stage[j] = "command" /\ stage'[j] = "next" /\ kind[j] = "delete"
    <3>1. Rank(j) = Ahead(j) + 3 /\ Rank(j)' = Ahead(j) + 2
      BY <2>1, <2>7 DEF Rank
    <3> QED
      BY <1>2, <3>1
  <2>8. pos'[j] # pos[j] + 1
    BY <1>3, <1>7
  <2> QED
    BY <1>1, <2>2, <2>3, <2>4, <2>5, <2>6, <2>7, <2>8 DEF Moves
<1> QED
  BY <1>1, <1>6, <1>7 DEF Moves
(* A step that no thread takes moves no thread, but that a job may be      *)
(* launched and that one that is done may be completed. *)
Elsewhere ==
    \A i \in Jobs :
        /\ pos'[i] = pos[i]
        /\ stage[i] = "open" <=> stage'[i] = "open"
        /\ i \in launched => stage'[i] \in {stage[i], "over"}

LEMMA WhoMoves ==
    ASSUME Inv, [Next]_vars
    PROVE  \/ \E j \in Jobs : Step(j)
           \/ Elsewhere /\ held' = held
           \/ /\ Elsewhere /\ devices' = devices
              /\ \E d \in Devices : UserOpens(d) \/ UserCloses(d)
<1>1. stage \in [Jobs -> Stages]
  BY DEF Inv, TypeOK
<1>2. ASSUME NEW j \in Jobs, NEW k, NEW n, NEW l, NEW s \in {"pushed", "command"},
             Launch(j, k, n, l, s)
      PROVE  Elsewhere
  <2>1. /\ j \notin launched /\ pos' = pos /\ stage[j] = None
        /\ stage' = [stage EXCEPT ![j] = s]
    BY <1>2 DEF Launch, Inv, JobOK, Whereabouts, Fresh
  <2> QED
    BY <1>1, <2>1 DEF Elsewhere, None
<1>3. ASSUME NEW j \in Jobs, Complete(j) PROVE Elsewhere /\ held' = held
  <2>1. /\ stage[j] = "done" /\ stage' = [stage EXCEPT ![j] = "over"]
        /\ pos' = pos /\ held' = held
    BY <1>3 DEF Complete, deviceVars
  <2> QED
    BY <1>1, <2>1 DEF Elsewhere
<1>4. ASSUME stage' = stage, pos' = pos PROVE Elsewhere
  BY <1>4 DEF Elsewhere
<1>5. ASSUME NEW j \in Jobs, NEW n \in Names, NEW l,
             VolumeGroupCreate(j, n, l) \/ Delete(j, n, l)
      PROVE  Elsewhere /\ held' = held
  BY <1>2, <1>5 DEF VolumeGroupCreate, Delete, deviceVars
<1>6. ASSUME NEW j \in Jobs, NEW d \in Devices, RemoveDevice(j, d)
      PROVE  Elsewhere /\ held' = held
  BY <1>2, <1>6 DEF RemoveDevice, deviceVars
<1>7. ASSUME NEW j \in Jobs, NEW n \in Names, NEW d \in Devices, AddDevice(j, n, d)
      PROVE  Elsewhere /\ held' = held
  BY <1>2, <1>7 DEF AddDevice
<1>8. ASSUME NEW j \in Jobs, Cancel(j) \/ ReadFreed(j) PROVE Elsewhere /\ held' = held
  BY <1>4, <1>8 DEF Cancel, ReadFreed, threadVars, deviceVars
<1>9. ASSUME NEW d \in Devices, AddDeviceFails(d) PROVE Elsewhere /\ held' = held
  BY <1>4, <1>9 DEF AddDeviceFails, threadVars
<1>10. ASSUME NEW d \in Devices, UserOpens(d) \/ UserCloses(d)
       PROVE  Elsewhere /\ devices' = devices
  BY <1>4, <1>10 DEF UserOpens, UserCloses, threadVars, callVars
<1>11. ASSUME Update \/ UNCHANGED vars PROVE Elsewhere /\ held' = held
  BY <1>4, <1>11 DEF Update, vars, threadVars, deviceVars
<1> QED
  BY <1>3, <1>5, <1>6, <1>7, <1>8, <1>9, <1>10, <1>11 DEF Next

LEMMA RanksFall ==
    ASSUME Inv, [Next]_vars, NEW j \in launched
    PROVE  /\ Rank(j) \in Nat
           /\ Rank(j)' <= Rank(j)
           /\ Step(j) => Rank(j)' < Rank(j)
<1>1. j \in Jobs
  BY DEF Inv, TypeOK
<1>2. Rank(j) \in Nat
  BY <1>1, AheadType
<1>3. Step(j) => Rank(j)' \in Nat /\ Rank(j)' < Rank(j)
  BY <1>1, StepRanks
<1> SUFFICES Rank(j)' <= Rank(j)
  BY <1>2, <1>3
<1>4. kind'[j] = kind[j] /\ devices'[j] = devices[j]
  BY CallsKept
<1>5. ASSUME pos'[j] = pos[j], stage'[j] \in {stage[j], "over"}
      PROVE  Rank(j)' <= Rank(j)
  <2>1. Ahead(j)' = Ahead(j)
    BY <1>4, <1>5 DEF Ahead
  <2>2. CASE stage'[j] = stage[j]
    <3>1. Rank(j)' = Rank(j)
      BY <1>4, <2>1, <2>2 DEF Rank
    <3> QED
      BY <1>2, <3>1
  <2>3. CASE stage'[j] = "over"
    <3>1. Rank(j)' = 0
      BY <2>3 DEF Rank
    <3> QED
      BY <1>2, <3>1
  <2> QED
    BY <1>5, <2>2, <2>3
<1>6. CASE \E i \in Jobs : Step(i)
  <2>1. PICK i \in Jobs : Step(i)
    BY <1>6
  <2>2. CASE i = j
    BY <1>2, <1>3, <2>1, <2>2
  <2>3. CASE i # j
    <3>1. stage'[j] = stage[j] /\ pos'[j] = pos[j]
      BY <1>1, <2>1, <2>3, StepMoves
    <3> QED
      BY <1>5, <3>1
  <2> QED
    BY <2>2, <2>3
<1>7. CASE Elsewhere
  BY <1>1, <1>5, <1>7 DEF Elsewhere
<1> QED
  BY <1>2, <1>3, <1>6, <1>7, WhoMoves

(* The thread of a job takes a bounded number of steps, fixed when it is   *)
(* launched: whatever becomes of its devices, no path leads it back. *)
THEOREM ThreadsBounded == Spec => ThreadsEnd
<1>1. Inv /\ [Next]_vars =>
         [\A j \in launched : /\ Rank(j) \in Nat
                              /\ Rank(j)' <= Rank(j)
                              /\ Step(j) => Rank(j)' < Rank(j)]_vars
  BY RanksFall
<1> QED
  BY <1>1, Invariance, PTL DEF Spec, ThreadsEnd
-----------------------------------------------------------------------------
(* A job has a device open exactly while its loop is at that device to     *)
(* zero it: a job that failed has closed it, and two jobs never zero one   *)
(* device at a time, nor does a job while a user has it open. *)
HeldByOpener ==
    \A j \in Jobs, d \in Devices :
        held[d] = j <=> stage[j] = "open" /\ devices[j][pos[j]] = d

LEMMA StepHolds ==
    ASSUME Inv, HeldByOpener, NEW j \in Jobs, Step(j)
    PROVE  HeldByOpener'
<1>1. /\ devices' = devices /\ Moves(j)
      /\ \A i \in Jobs \ {j} : stage'[i] = stage[i] /\ pos'[i] = pos[i]
  BY StepMoves
<1>2. held \in [Devices -> {"free", "user"} \union Jobs]
  BY DEF Inv, TypeOK
<1>3. "free" \notin Jobs
  BY JobsAssumption
<1>4. ASSUME held' = held, stage[j] # "open", stage'[j] # "open" PROVE HeldByOpener'
  BY <1>1, <1>4 DEF HeldByOpener
<1>5. CASE OpenDevice(j)
  <2> DEFINE c == devices[j][pos[j]]
  <2>1. CASE End(j, "failed") /\ held' = held
    <3>1. stage[j] = "next" /\ stage'[j] = "done"
      BY <1>5, <2>1 DEF OpenDevice, End, Inv, TypeOK
    <3> QED
      BY <1>4, <2>1, <3>1
  <2>2. CASE held[c] = "free" /\ held' = [held EXCEPT ![c] = j] /\ Goto(j, "open")
    <3>1. /\ stage[j] = "next" /\ stage'[j] = "open" /\ pos'[j] = pos[j]
          /\ c \in Devices
      <4>1. stage[j] = "next" /\ pos' = pos /\ pos[j] <= Len(devices[j])
        BY <1>5 DEF OpenDevice
      <4>2. stage'[j] = "open"
        BY <2>2 DEF Goto, Inv, TypeOK
      <4>3. devices[j] \in Seq(Devices) /\ pos[j] \in Nat /\ pos[j] # 0
        BY DEF Inv, TypeOK, JobOK, Whereabouts
      <4>4. c \in Devices
        BY <4>1, <4>3
      <4> QED
        BY <4>1, <4>2, <4>4
    <3>2. ASSUME NEW d \in Devices
          PROVE  held'[d] = j <=> stage'[j] = "open" /\ devices'[j][pos'[j]] = d
      BY <1>1, <1>2, <2>2, <3>1 DEF HeldByOpener
    <3>3. ASSUME NEW i \in Jobs \ {j}, NEW d \in Devices
          PROVE  held'[d] = i <=> stage'[i] = "open" /\ devices'[i][pos'[i]] = d
      <4>1. held'[d] = i <=> held[d] = i
        BY <1>2, <1>3, <2>2, <3>1
      <4> QED
        BY <1>1, <4>1 DEF HeldByOpener
    <3> QED
      BY <3>2, <3>3 DEF HeldByOpener
  <2> QED
    BY <1>5, <2>1, <2>2 DEF OpenDevice
<1>6. CASE Zero(j)
  <2> DEFINE c == devices[j][pos[j]]
  <2>1. stage[j] = "open" /\ held' = [held EXCEPT ![c] = "free"]
    BY <1>6 DEF Zero
  <2>2. stage'[j] # "open"
    BY <1>1, <2>1 DEF Moves
  <2>3. c \in Devices
    BY <2>1 DEF Inv, TypeOK
  <2>4. held[c] = j
    BY <2>1, <2>3 DEF HeldByOpener
  <2>5. ASSUME NEW d \in Devices
        PROVE  held'[d] = j <=> stage'[j] = "open" /\ devices'[j][pos'[j]] = d
    BY <1>2, <1>3, <2>1, <2>2, <2>3 DEF HeldByOpener
  <2>6. ASSUME NEW i \in Jobs \ {j}, NEW d \in Devices
        PROVE  held'[d] = i <=> stage'[i] = "open" /\ devices'[i][pos'[i]] = d
    <3>1. held'[d] = i <=> held[d] = i
      BY <1>2, <1>3, <2>1, <2>3, <2>4
    <3> QED
      BY <1>1, <3>1 DEF HeldByOpener
  <2> QED
    BY <2>5, <2>6 DEF HeldByOpener
<1>7. CASE FindCancelled(j) \/ Start(j) \/ AllWiped(j) \/ WipeFs(j) \/ Command(j)
  <2>1. held' = held
    BY <1>7 DEF FindCancelled, Start, AllWiped, WipeFs, Command, CommandFails,
                VgCreate, VgRemove, VgExtend, deviceVars
  <2>2. stage[j] \in {"pushed", "next", "wipefs", "command"}
    BY <1>7 DEF FindCancelled, Start, AllWiped, WipeFs, Command, CommandFails,
                VgCreate, VgRemove, VgExtend
  <2>3. stage'[j] # "open"
    <3>1. stage \in [Jobs -> Stages]
      BY DEF Inv, TypeOK
    <3>2. ASSUME NEW r, End(j, r) PROVE stage'[j] # "open"
      BY <3>1, <3>2 DEF End
    <3>3. ASSUME NEW s, s # "open", Goto(j, s) PROVE stage'[j] # "open"
      BY <3>1, <3>3 DEF Goto
    <3> QED
      BY <1>7, <3>2, <3>3 DEF FindCancelled, Start, AllWiped, WipeFs, Command,
                              CommandFails, VgCreate, VgRemove, VgExtend
  <2> QED
    BY <1>4, <2>1, <2>2, <2>3
<1> QED
  BY <1>5, <1>6, <1>7 DEF Step

LEMMA HeldInv == Inv /\ HeldByOpener /\ [Next]_vars => HeldByOpener'
<1> SUFFICES ASSUME Inv, HeldByOpener, [Next]_vars PROVE HeldByOpener'
  OBVIOUS
<1>1. held \in [Devices -> {"free", "user"} \union Jobs] /\ launched \subseteq Jobs
  BY DEF Inv, TypeOK
<1>2. \A j \in Jobs : stage[j] = "open" => j \in launched
  BY DEF Inv, JobOK, Whereabouts, Fresh, None
<1>3. ASSUME Elsewhere, NEW j \in Jobs, NEW d \in Devices
      PROVE  stage'[j] = "open" /\ devices'[j][pos'[j]] = d
                <=> stage[j] = "open" /\ devices[j][pos[j]] = d
  <2>1. pos'[j] = pos[j] /\ (stage[j] = "open" <=> stage'[j] = "open")
    BY <1>3 DEF Elsewhere
  <2>2. stage[j] = "open" => devices'[j] = devices[j]
    BY <1>2, CallsKept
  <2> QED
    BY <2>1, <2>2
<1>4. CASE Elsewhere /\ held' = held
  BY <1>3, <1>4 DEF HeldByOpener
<1>5. CASE Elsewhere /\ \E c \in Devices : UserOpens(c) \/ UserCloses(c)
  <2>1. PICK c \in Devices : UserOpens(c) \/ UserCloses(c)
    BY <1>5
  <2>2. \A d \in Devices : d # c => held'[d] = held[d]
    BY <1>1, <2>1 DEF UserOpens, UserCloses
  <2>3. held[c] \in {"free", "user"} /\ held'[c] \in {"free", "user"}
    BY <1>1, <2>1 DEF UserOpens, UserCloses
  <2>4. \A j \in Jobs, d \in Devices : held'[d] = j <=> held[d] = j
    BY <2>2, <2>3, JobsAssumption
  <2> QED
    BY <1>3, <1>5, <2>4 DEF HeldByOpener
<1> QED
  BY <1>4, <1>5, StepHolds, WhoMoves

(* The devices a job opened are given back, each before wipefs opens it    *)
(* too and all before the job ends, and are its own while it has them. *)
THEOREM DevicesGivenBack == Spec => []HeldByOpener
<1>1. Init => HeldByOpener
  BY JobsAssumption DEF Init, HeldByOpener, None
<1>2. Inv /\ HeldByOpener /\ [Next]_vars => HeldByOpener'
  BY HeldInv
<1> QED
  BY <1>1, <1>2, Invariance, PTL DEF Spec
=============================================================================
