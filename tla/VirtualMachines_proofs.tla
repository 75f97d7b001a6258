------------------------ MODULE VirtualMachines_proofs ------------------------
(***************************************************************************)
(* The virtual machine tools, for any number of concurrent calls, disks,   *)
(* machines and tasks: what overlapping reads and writes cannot lose, and  *)
(* when a disk may shrink.                                                 *)
(***************************************************************************)
EXTENDS VirtualMachines, TLAPS

\* A call names a machine by a number of one, be it the 0 of a missing id.
LEMMA NamedIdsAreIds == NamedIds \subseteq Ids
BY VirtualMachinesAssumption DEF NamedIds, GetInt, Ids

\* What arguments come to gives values to some of the settings.
LEMMA PatchValues ==
    ASSUME NEW patch \in Patches
    PROVE  \A f \in DOMAIN patch : f \in Fields /\ patch[f] \in Vals
<1>1. \E D \in SUBSET Fields : \E args \in [D -> Vals \cup {Mistyped}] : patch = Overrides(args)
  BY DEF Patches
<1>2. 0 \in Vals
  BY DEF Vals
<1> QED BY <1>1, <1>2 DEF Overrides

\* What the tools that do more than name a machine find in their arguments.
LEMMA RequestFields ==
    ASSUME NEW r \in Requests \cup {NoRequest}
    PROVE  /\ r.tool \in {"start", "stop", "kill", "delete"} => r.id \in Ids
           /\ r.tool = "create" => r.disk \in Disks
           /\ r.tool = "update" => r.id \in Ids /\ r.patch \in Patches
           /\ r.tool = "disk_resize" =>
                r.id \in Ids /\ r.size \in HalfSizes /\ r.shrink \in BOOLEAN
           /\ r.tool = "disk_create" => r.disk \in Disks /\ r.size \in HalfSizes
           /\ r.tool = "task_delete" => r.task \in Task
BY NamedIdsAreIds DEF Requests, NoRequest

\* A machine is no empty id, and its record has the three fields.
LEMMA MachineFields ==
    ASSUME NEW vm \in VM \cup {NoVM}, vm.status # "none"
    PROVE  /\ vm \in VM /\ vm.status \in {"running", "stopped"}
           /\ vm.settings \in Settings /\ vm.disk \in Disks
BY DEF VM, NoVM

\* Settings that were patched are settings.
LEMMA PatchedSettings ==
    ASSUME NEW s \in Settings, NEW patch \in Patches
    PROVE  Patched(s, patch) \in Settings
<1>1. \A f \in Fields : f \in DOMAIN patch => patch[f] \in Vals
  BY PatchValues
<1>2. \A f \in Fields : s[f] \in Vals
  BY DEF Settings
<1> QED BY <1>1, <1>2 DEF Settings, Patched

\* A body that was read and patched has the disk it was read with.
LEMMA UpdatedMachine ==
    ASSUME NEW body \in Body, NEW patch \in Patches
    PROVE  /\ Updated(body, patch).settings = Patched(body.settings, patch)
           /\ Updated(body, patch).settings \in Settings
           /\ Updated(body, patch).disk \in Disks
<1>1. body.settings \in Settings /\ body.disk \in Disks
  BY DEF Body
<1>2. Patched(body.settings, patch) \in Settings
  BY <1>1, PatchedSettings
<1>3. body = [settings |-> body.settings, disk |-> body.disk]
  BY DEF Body
<1> QED BY <1>1, <1>2, <1>3 DEF Updated

\* Cutting half bytes to bytes stays within the sizes of a disk.
LEMMA BytesAreSizes == ASSUME NEW h \in HalfSizes PROVE Bytes(h) \in Sizes
BY VirtualMachinesAssumption DEF HalfSizes, Sizes, Bytes

\* IInv holds of a box without machines and before any call.
LEMMA InitIInv == Init => IInv
<1> SUFFICES ASSUME Init PROVE IInv
  OBVIOUS
<1> USE VirtualMachinesAssumption
<1>1. Initial \in Settings
  BY DEF Initial, Settings, Vals
<1>2. {Absent, 1} \subseteq Sizes \cup {Absent}
  BY DEF Sizes
<1>3. TypeOK
  BY <1>1, <1>2 DEF Init, TypeOK
<1>4. \A c \in Callers : pc[c] # "sending"
  BY DEF Init
<1>5. \A id \in Ids : vms[id] = NoVM /\ ~Exists(id) /\ asked[id] = Initial
  BY DEF Init, Exists, NoVM
<1>6. ReadBeforeSent /\ FreshIds /\ SteadyInv /\ ConsentInv /\ UpdatesAddUp
  BY <1>4, <1>5 DEF Init, ReadBeforeSent, FreshIds, SteadyInv, ConsentInv, UpdatesAddUp
<1> QED BY <1>3, <1>6 DEF IInv

-----------------------------------------------------------------------------
(* Steps of a call that the box does not see                               *)

\* A call that begins keeps IInv: it has read nothing, and is steady only where it says so.
LEMMA CallIInv == ASSUME IInv, NEW c \in Callers, Call(c) PROVE IInv'
<1> USE DEF IInv
<1>1. PICK r \in Requests :
        /\ Begin(c, r, IF r.tool \in {"update", "disk_resize"} THEN "reading" ELSE "sending")
        /\ steady' = IF r.tool = "disk_resize" /\ vms[r.id].status = "running"
                       THEN steady \cup {c} ELSE steady
  BY DEF Call
<1>2. pc[c] = "idle" /\ UNCHANGED <<boxVars, seen, asked, mixed>>
  BY DEF Call
<1>3. TypeOK'
  BY <1>1, <1>2 DEF TypeOK, Begin, boxVars
<1>4. ReadBeforeSent'
  BY <1>1, <1>2 DEF TypeOK, ReadBeforeSent, Begin
<1>5. c \notin steady
  BY <1>2 DEF SteadyInv
<1>6. SteadyInv'
  BY <1>1, <1>2, <1>5 DEF TypeOK, SteadyInv, Begin, boxVars
<1>7. FreshIds' /\ ConsentInv' /\ UpdatesAddUp'
  BY <1>2 DEF FreshIds, ConsentInv, UpdatesAddUp, Exists, boxVars
<1> QED BY <1>3, <1>4, <1>6, <1>7

\* A read keeps IInv: a steady resize would have been refused.
LEMMA ReadIInv == ASSUME IInv, NEW c \in Callers, Read(c) PROVE IInv'
<1> USE DEF IInv, Read, Used, history, boxVars
<1>1. req[c].id \in Ids /\ vms[req[c].id] \in VM
  <2>1. req[c].id \in Ids
    BY RequestFields DEF TypeOK, ReadBeforeSent
  <2> QED BY <2>1, MachineFields DEF TypeOK, Exists
<1>2. c \notin steady
  BY DEF SteadyInv, Refuses
<1> DEFINE vm == vms[req[c].id]
           body == Used(req[c], vm)
<1>0. body \in Body /\ seen' = [seen EXCEPT ![c] = body]
  <2>1. Initial \in Settings
    BY DEF Initial, Settings, Vals
  <2> QED BY <1>1, <2>1, MachineFields DEF Body, VM
<1> HIDE DEF body
<1>3. TypeOK'
  BY <1>0 DEF TypeOK
<1>4. ReadBeforeSent'
  BY <1>0 DEF ReadBeforeSent, TypeOK
<1>5. SteadyInv'
  BY <1>2 DEF SteadyInv, TypeOK
<1>6. FreshIds' /\ ConsentInv' /\ UpdatesAddUp'
  BY DEF FreshIds, ConsentInv, UpdatesAddUp, Exists
<1> QED BY <1>3, <1>4, <1>5, <1>6

\* A call that is over leaves nothing behind: what the box has done is up to its request.
LEMMA EndKeeps ==
    ASSUME IInv, NEW c \in Callers, End(c),
           steady' \subseteq steady, c \notin steady',
           \A d \in steady' : vms'[req[d].id].status = vms[req[d].id].status
    PROVE  /\ ReadBeforeSent' /\ SteadyInv' /\ steady' \subseteq Callers
           /\ pc' \in [Callers -> {"idle", "reading", "sending"}]
           /\ req' \in [Callers -> Requests \cup {NoRequest}]
           /\ seen' \in [Callers -> Body \cup {NoBody}]
<1> USE DEF IInv, End
<1>1. /\ pc' \in [Callers -> {"idle", "reading", "sending"}]
      /\ req' \in [Callers -> Requests \cup {NoRequest}]
      /\ seen' \in [Callers -> Body \cup {NoBody}]
  BY DEF TypeOK
<1>2. ReadBeforeSent'
  BY DEF ReadBeforeSent, TypeOK
<1>3. \A d \in steady' : d \in steady /\ d # c /\ req'[d] = req[d] /\ pc'[d] = pc[d]
  BY DEF TypeOK
<1>4. ASSUME NEW d \in steady' PROVE vms'[req'[d].id].status = "running"
  <2>1. vms[req[d].id].status = "running" /\ req'[d].id = req[d].id
    BY <1>3 DEF SteadyInv
  <2> QED BY <2>1
<1>5. SteadyInv'
  BY <1>3, <1>4 DEF SteadyInv
<1> QED BY <1>1, <1>2, <1>5 DEF TypeOK

\* A call that is refused or fails keeps IInv.
LEMMA ReturnIInv == ASSUME IInv, NEW c \in Callers, Return(c) PROVE IInv'
<1>1. End(c) /\ steady' = steady \ {c} /\ UNCHANGED <<vms, created, sizes, tasks, asked, mixed>>
  BY DEF Return, boxVars
<1>2. FreshIds' /\ ConsentInv' /\ UpdatesAddUp'
  BY <1>1 DEF FreshIds, ConsentInv, UpdatesAddUp, Exists, IInv
<1>3. TypeOK'
  BY <1>1, EndKeeps DEF TypeOK, IInv
<1> QED BY <1>1, <1>2, <1>3, EndKeeps DEF IInv

-----------------------------------------------------------------------------
(* The box runs the request of a call                                      *)

\* A call that the box has just answered was no steady resize.
LEMMA SendingIsNotSteady == ASSUME IInv, NEW c, pc[c] = "sending" PROVE c \notin steady
BY DEF IInv, SteadyInv

\* Machines that change status are not those of the resizes that stay steady.
LEMMA OthersStaySteady ==
    ASSUME IInv, NEW id, steady' = steady \ ResizesOf(id)
    PROVE  steady' \subseteq steady /\ \A d \in steady' : req[d].id # id
BY DEF IInv, TypeOK, SteadyInv, ResizesOf

\* A start keeps IInv.
LEMMA StartIInv == ASSUME IInv, NEW c \in Callers, RunStart(c) PROVE IInv'
<1> USE DEF IInv
<1>1. /\ End(c) /\ pc[c] = "sending" /\ req[c].tool = "start" /\ Exists(req[c].id)
      /\ vms' = [vms EXCEPT ![req[c].id].status = "running"]
      /\ UNCHANGED <<created, sizes, tasks, asked, mixed, steady>>
  BY DEF RunStart, Run, history
<1>2. req[c].id \in Ids /\ vms[req[c].id] \in VM
  <2>1. req[c].id \in Ids
    BY <1>1, RequestFields DEF TypeOK
  <2> QED BY <1>1, <2>1, MachineFields DEF TypeOK, Exists
<1>3. [vms[req[c].id] EXCEPT !.status = "running"] \in VM
  BY <1>2 DEF VM
<1>4. vms' \in [Ids -> VM \cup {NoVM}]
  BY <1>1, <1>3 DEF TypeOK
<1>5. \A id \in Ids : Exists(id)' => Exists(id) /\ vms'[id].settings = vms[id].settings
  BY <1>1, <1>2 DEF TypeOK, Exists, VM
<1>6. \A d \in steady' : vms'[req[d].id].status = vms[req[d].id].status
  BY <1>1, <1>2 DEF TypeOK, SteadyInv, VM
<1>7. c \notin steady'
  BY <1>1, SendingIsNotSteady
<1>8. TypeOK' /\ ReadBeforeSent' /\ SteadyInv'
  BY <1>1, <1>4, <1>6, <1>7, EndKeeps DEF TypeOK
<1>9. FreshIds'
  BY <1>1, <1>2 DEF FreshIds, TypeOK, Exists, NoVM
<1>10. ConsentInv' /\ UpdatesAddUp'
  BY <1>1, <1>5 DEF ConsentInv, UpdatesAddUp
<1> QED BY <1>8, <1>9, <1>10

\* A kill keeps IInv: resizes of that machine are no longer steady.
LEMMA KillIInv == ASSUME IInv, NEW c \in Callers, RunKill(c) PROVE IInv'
<1> USE DEF IInv
<1>1. /\ End(c) /\ pc[c] = "sending" /\ req[c].tool = "kill" /\ Exists(req[c].id)
      /\ vms' = [vms EXCEPT ![req[c].id].status = "stopped"]
      /\ steady' = steady \ ResizesOf(req[c].id)
      /\ UNCHANGED <<created, sizes, tasks, asked, mixed>>
  BY DEF RunKill, Run
<1>2. req[c].id \in Ids /\ vms[req[c].id] \in VM
  <2>1. req[c].id \in Ids
    BY <1>1, RequestFields DEF TypeOK
  <2> QED BY <1>1, <2>1, MachineFields DEF TypeOK, Exists
<1>3. [vms[req[c].id] EXCEPT !.status = "stopped"] \in VM
  BY <1>2 DEF VM
<1>4. vms' \in [Ids -> VM \cup {NoVM}]
  BY <1>1, <1>3 DEF TypeOK
<1>5. \A id \in Ids : Exists(id)' => Exists(id) /\ vms'[id].settings = vms[id].settings
  BY <1>1, <1>2 DEF TypeOK, Exists, VM
<1>6. steady' \subseteq steady /\ \A d \in steady' : vms'[req[d].id].status = vms[req[d].id].status
  BY <1>1, OthersStaySteady DEF TypeOK
<1>7. c \notin steady'
  BY <1>1, <1>6, SendingIsNotSteady
<1>8. TypeOK' /\ ReadBeforeSent' /\ SteadyInv'
  BY <1>1, <1>4, <1>6, <1>7, EndKeeps DEF TypeOK
<1>9. FreshIds'
  BY <1>1, <1>2 DEF FreshIds, TypeOK, Exists, NoVM
<1>10. ConsentInv' /\ UpdatesAddUp'
  BY <1>1, <1>5 DEF ConsentInv, UpdatesAddUp
<1> QED BY <1>8, <1>9, <1>10

\* A deletion keeps IInv.
LEMMA DeleteIInv == ASSUME IInv, NEW c \in Callers, RunDelete(c) PROVE IInv'
<1> USE DEF IInv
<1>1. /\ End(c) /\ pc[c] = "sending" /\ req[c].tool = "delete"
      /\ vms' = [vms EXCEPT ![req[c].id] = NoVM]
      /\ asked' = [asked EXCEPT ![req[c].id] = Initial]
      /\ sizes' \in {sizes, [sizes EXCEPT ![vms[req[c].id].disk] = Absent]}
      /\ mixed' = [mixed EXCEPT ![req[c].id] = {}]
      /\ steady' = steady \ ResizesOf(req[c].id)
      /\ UNCHANGED <<created, tasks>>
  BY DEF RunDelete, Run
<1>2. req[c].id \in Ids
  BY <1>1, RequestFields DEF TypeOK
<1>3. Initial \in Settings
  BY DEF Initial, Settings, Vals
<1>4. steady' \subseteq steady /\ \A d \in steady' : vms'[req[d].id].status = vms[req[d].id].status
  BY <1>1, OthersStaySteady DEF TypeOK
<1>5. c \notin steady'
  BY <1>1, <1>4, SendingIsNotSteady
<1>6. TypeOK' /\ ReadBeforeSent' /\ SteadyInv'
  BY <1>1, <1>3, <1>4, <1>5, EndKeeps DEF TypeOK
<1>7. FreshIds' /\ ConsentInv'
  BY <1>1 DEF FreshIds, ConsentInv, TypeOK
<1>8. UpdatesAddUp'
  BY <1>1, <1>2 DEF UpdatesAddUp, TypeOK, Exists, NoVM
<1> QED BY <1>6, <1>7, <1>8

\* A creation keeps IInv: the id it takes is no call's machine.
LEMMA CreateIInv == ASSUME IInv, NEW c \in Callers, RunCreate(c) PROVE IInv'
<1> USE VirtualMachinesAssumption DEF IInv
<1> DEFINE new == [status |-> "stopped", settings |-> Initial, disk |-> req[c].disk]
<1>1. /\ End(c) /\ pc[c] = "sending" /\ req[c].tool = "create"
      /\ created < MaxVms /\ created' = created + 1
      /\ vms' = [vms EXCEPT ![created] = new]
      /\ UNCHANGED <<sizes, tasks, asked, mixed, steady>>
  BY DEF RunCreate, Run, history
<1>2. created \in Ids /\ created >= created /\ created' \in 0..MaxVms
  BY <1>1 DEF TypeOK, Ids
<1>3. vms[created] = NoVM /\ asked[created] = Initial
  BY <1>2 DEF FreshIds
<1>4. Initial \in Settings
  BY DEF Initial, Settings, Vals
<1>5. new \in VM
  BY <1>1, <1>4, RequestFields DEF TypeOK, VM
<1>6. vms' \in [Ids -> VM \cup {NoVM}]
  BY <1>1, <1>5 DEF TypeOK
<1>7. \A d \in steady' : req[d].id # created
  BY <1>1, <1>3 DEF SteadyInv, NoVM
<1>8. \A d \in steady' : vms'[req[d].id].status = vms[req[d].id].status
  BY <1>1, <1>7 DEF TypeOK
<1>9. c \notin steady'
  BY <1>1, SendingIsNotSteady
<1>10. TypeOK' /\ ReadBeforeSent' /\ SteadyInv'
  BY <1>1, <1>2, <1>6, <1>8, <1>9, EndKeeps DEF TypeOK
<1>11. FreshIds'
  BY <1>1, <1>2 DEF FreshIds, TypeOK, Ids
<1>12. UpdatesAddUp'
  BY <1>1, <1>2, <1>3 DEF UpdatesAddUp, TypeOK, Exists
<1>13. ConsentInv'
  BY <1>1 DEF ConsentInv
<1> QED BY <1>10, <1>11, <1>12, <1>13

\* An update keeps IInv: where it was not overtaken, what it sends back is what was asked.
LEMMA UpdateIInv == ASSUME IInv, NEW c \in Callers, RunUpdate(c) PROVE IInv'
<1> USE DEF IInv
<1> DEFINE id == req[c].id
           patch == req[c].patch
           body == Updated(seen[c], patch)
           new == [status |-> vms[id].status, settings |-> body.settings, disk |-> body.disk]
           whole == Patched(asked[id], patch)
           stale == {f \in Fields \ DOMAIN patch :
                       f \in mixed[id] \/ seen[c].settings[f] # vms[id].settings[f]}
           wanted == [f \in Fields |-> IF f \in stale THEN Initial[f] ELSE whole[f]]
<1>1. /\ End(c) /\ pc[c] = "sending" /\ req[c].tool = "update" /\ Exists(id)
      /\ vms' = [vms EXCEPT ![id] = new]
      /\ asked' = [asked EXCEPT ![id] = wanted]
      /\ mixed' = [mixed EXCEPT ![id] = stale]
      /\ UNCHANGED <<created, sizes, tasks, steady>>
  BY DEF RunUpdate, Run
<1>2. id \in Ids /\ patch \in Patches /\ seen[c] \in Body
  BY <1>1, RequestFields DEF TypeOK, ReadBeforeSent
<1>3. vms[id] \in VM /\ vms[id].status \in {"running", "stopped"}
  BY <1>1, <1>2, MachineFields DEF TypeOK, Exists
<1>4. /\ body.settings = Patched(seen[c].settings, patch)
      /\ body.settings \in Settings /\ body.disk \in Disks
  BY <1>2, UpdatedMachine
<1>5. new \in VM /\ new.settings = body.settings /\ new.status = vms[id].status
  <2> HIDE DEF body
  <2> QED BY <1>3, <1>4 DEF VM
<1>6. wanted \in Settings /\ stale \subseteq Fields
  <2>1. whole \in Settings
    <3>1. asked[id] \in Settings
      BY <1>2 DEF TypeOK
    <3> QED BY <1>2, <3>1, PatchedSettings
  <2>2. Initial \in Settings
    BY DEF Initial, Settings, Vals
  <2> HIDE DEF whole, stale
  <2>3. wanted \in [Fields -> Vals]
    BY <2>1, <2>2 DEF Settings
  <2>4. stale \subseteq Fields
    BY DEF stale
  <2> QED BY <2>3, <2>4 DEF Settings
<1>7. vms' \in [Ids -> VM \cup {NoVM}]
  <2> HIDE DEF new
  <2> QED BY <1>1, <1>5 DEF TypeOK
<1>8. asked' \in [Ids -> Settings] /\ mixed' \in [Ids -> SUBSET Fields]
  <2> HIDE DEF wanted, stale
  <2> QED BY <1>1, <1>6 DEF TypeOK
<1>9. \A d \in steady' : vms'[req[d].id].status = vms[req[d].id].status
  <2> HIDE DEF new
  <2> QED BY <1>1, <1>2, <1>5 DEF TypeOK
<1>10. c \notin steady'
  BY <1>1, SendingIsNotSteady
<1>11. TypeOK' /\ ReadBeforeSent' /\ SteadyInv'
  <2> HIDE DEF wanted, new, stale
  <2> QED BY <1>1, <1>7, <1>8, <1>9, <1>10, EndKeeps DEF TypeOK
<1>12. FreshIds'
  <2>1. ~(id >= created)
    BY <1>2, <1>3 DEF FreshIds, NoVM
  <2> HIDE DEF wanted, new, stale
  <2> QED BY <1>1, <2>1 DEF FreshIds, TypeOK
<1>13. UpdatesAddUp'
  <2>1. ASSUME NEW f \in Fields \ stale PROVE new.settings[f] = wanted[f]
    <3>1. body.settings[f] = IF f \in DOMAIN patch THEN patch[f] ELSE seen[c].settings[f]
      BY <1>4 DEF Patched
    <3>2. wanted[f] = IF f \in DOMAIN patch THEN patch[f] ELSE asked[id][f]
      <4>1. wanted[f] = whole[f]
        <5> HIDE DEF whole, stale
        <5> QED BY <2>1
      <4> QED BY <4>1 DEF Patched
    <3>3. f \notin DOMAIN patch => seen[c].settings[f] = asked[id][f]
      BY <1>1, <1>2 DEF UpdatesAddUp
    <3> HIDE DEF body, new, wanted
    <3> QED BY <1>5, <3>1, <3>2, <3>3
  <2>2. vms'[id] = new /\ asked'[id] = wanted /\ mixed'[id] = stale
    <3> HIDE DEF wanted, new, stale
    <3> QED BY <1>1, <1>2 DEF TypeOK
  <2>3. \A i \in Ids : i # id =>
          vms'[i] = vms[i] /\ asked'[i] = asked[i] /\ mixed'[i] = mixed[i]
    <3> HIDE DEF wanted, new, stale
    <3> QED BY <1>1 DEF TypeOK
  <2> HIDE DEF wanted, new, stale
  <2> QED BY <2>1, <2>2, <2>3 DEF UpdatesAddUp, Exists
<1>14. ConsentInv'
  BY <1>1 DEF ConsentInv
<1> QED BY <1>11, <1>12, <1>13, <1>14

\* A step that leaves the machines alone keeps what is said of them.
LEMMA MachinesUntouched ==
    ASSUME IInv, UNCHANGED <<vms, created, asked, mixed>>
    PROVE  /\ FreshIds' /\ UpdatesAddUp'
           /\ \A d \in steady' : vms'[req[d].id].status = vms[req[d].id].status
BY DEF IInv, FreshIds, UpdatesAddUp, Exists

\* A stop signal keeps IInv.
LEMMA StopIInv == ASSUME IInv, NEW c \in Callers, RunStop(c) PROVE IInv'
<1> USE DEF IInv
<1>1. End(c) /\ pc[c] = "sending" /\ UNCHANGED <<vms, created, sizes, tasks, asked, mixed, steady>>
  BY DEF RunStop, Run, boxVars, history
<1>2. TypeOK' /\ ReadBeforeSent' /\ SteadyInv'
  BY <1>1, EndKeeps, MachinesUntouched, SendingIsNotSteady DEF TypeOK
<1>3. ConsentInv'
  BY <1>1 DEF ConsentInv
<1> QED BY <1>1, <1>2, <1>3, MachinesUntouched

\* A resize keeps IInv: its task carries the consent of its call.
LEMMA ResizeIInv == ASSUME IInv, NEW c \in Callers, RunResize(c) PROVE IInv'
<1> USE DEF IInv
<1> DEFINE task == [type |-> "resize_disk", disk |-> seen[c].disk, size |-> Bytes(req[c].size),
                    shrink |-> ShrinkAllow(req[c]), consent |-> req[c].shrink]
<1>1. /\ End(c) /\ pc[c] = "sending" /\ req[c].tool = "disk_resize"
      /\ tasks' = tasks \cup {task} /\ steady' = steady \ {c}
      /\ UNCHANGED <<vms, created, sizes, asked, mixed>>
  BY DEF RunResize, Run, NewTask
<1>2. /\ seen[c] \in Body /\ req[c].size \in HalfSizes /\ req[c].shrink \in BOOLEAN
  BY <1>1, RequestFields DEF TypeOK, ReadBeforeSent
<1>3. seen[c].disk \in Disks /\ Bytes(req[c].size) \in Sizes
  BY <1>2, BytesAreSizes DEF Body
<1>4. task \in Task /\ (task.shrink => task.consent)
  BY <1>2, <1>3 DEF Task, ShrinkAllow
<1>5. ConsentInv' /\ tasks' \subseteq Task
  <2> HIDE DEF task
  <2> QED BY <1>1, <1>4 DEF ConsentInv, TypeOK
<1>6. TypeOK' /\ ReadBeforeSent' /\ SteadyInv'
  <2> HIDE DEF task
  <2> QED BY <1>1, <1>5, EndKeeps, MachinesUntouched DEF TypeOK
<1> QED BY <1>1, <1>5, <1>6, MachinesUntouched

\* The creation of a disk keeps IInv.
LEMMA DiskCreateIInv == ASSUME IInv, NEW c \in Callers, RunDiskCreate(c) PROVE IInv'
<1> USE DEF IInv
<1> DEFINE task == [type |-> "create", disk |-> req[c].disk, size |-> Bytes(req[c].size),
                    shrink |-> FALSE, consent |-> FALSE]
<1>1. /\ End(c) /\ pc[c] = "sending" /\ req[c].tool = "disk_create"
      /\ tasks' = tasks \cup {task}
      /\ UNCHANGED <<vms, created, sizes, asked, mixed, steady>>
  BY DEF RunDiskCreate, Run, NewTask, history
<1>2. req[c].disk \in Disks /\ Bytes(req[c].size) \in Sizes
  BY <1>1, RequestFields, BytesAreSizes DEF TypeOK
<1>3. task \in Task /\ ~task.shrink
  BY <1>2 DEF Task
<1>4. ConsentInv' /\ tasks' \subseteq Task
  <2> HIDE DEF task
  <2> QED BY <1>1, <1>3 DEF ConsentInv, TypeOK
<1>5. TypeOK' /\ ReadBeforeSent' /\ SteadyInv'
  <2> HIDE DEF task
  <2> QED BY <1>1, <1>4, EndKeeps, MachinesUntouched, SendingIsNotSteady DEF TypeOK
<1> QED BY <1>1, <1>4, <1>5, MachinesUntouched

\* The deletion of a task keeps IInv.
LEMMA TaskDeleteIInv == ASSUME IInv, NEW c \in Callers, RunTaskDelete(c) PROVE IInv'
<1> USE DEF IInv
<1>1. /\ End(c) /\ pc[c] = "sending" /\ tasks' \subseteq tasks
      /\ UNCHANGED <<vms, created, sizes, asked, mixed, steady>>
  BY DEF RunTaskDelete, Run, history
<1>2. TypeOK' /\ ReadBeforeSent' /\ SteadyInv'
  BY <1>1, EndKeeps, MachinesUntouched, SendingIsNotSteady DEF TypeOK
<1>3. ConsentInv'
  BY <1>1 DEF ConsentInv
<1> QED BY <1>1, <1>2, <1>3, MachinesUntouched

-----------------------------------------------------------------------------
(* The box by itself                                                       *)

\* A guest that obeys a stop keeps IInv.
LEMMA GuestIInv == ASSUME IInv, NEW id \in Ids, GuestStops(id) PROVE IInv'
<1> USE DEF IInv
<1>1. /\ vms[id].status = "running"
      /\ vms' = [vms EXCEPT ![id].status = "stopped"]
      /\ steady' = steady \ ResizesOf(id)
      /\ UNCHANGED <<created, sizes, tasks, pc, req, seen, asked, mixed>>
  BY DEF GuestStops
<1>2. vms[id] \in VM
  BY <1>1, MachineFields DEF TypeOK
<1>3. [vms[id] EXCEPT !.status = "stopped"] \in VM
  BY <1>2 DEF VM
<1>4. TypeOK'
  BY <1>1, <1>3 DEF TypeOK
<1>5. steady' \subseteq steady /\ \A d \in steady' : req[d].id # id
  BY <1>1, OthersStaySteady
<1>6. SteadyInv'
  BY <1>1, <1>5 DEF SteadyInv, TypeOK
<1>7. ReadBeforeSent' /\ ConsentInv'
  BY <1>1 DEF ReadBeforeSent, ConsentInv
<1>8. \A i \in Ids : Exists(i)' => Exists(i) /\ vms'[i].settings = vms[i].settings
  BY <1>1, <1>2 DEF TypeOK, Exists, VM
<1>9. UpdatesAddUp'
  BY <1>1, <1>8 DEF UpdatesAddUp
<1>10. FreshIds'
  BY <1>1, <1>2 DEF FreshIds, TypeOK, NoVM
<1> QED BY <1>4, <1>6, <1>7, <1>9, <1>10

\* A task that runs keeps IInv.
LEMMA TaskIInv == ASSUME IInv, NEW t \in tasks, TaskRuns(t) PROVE IInv'
<1> USE DEF IInv
<1>1. /\ tasks' = tasks \ {t}
      /\ sizes' = IF TaskFails(t) THEN sizes ELSE [sizes EXCEPT ![t.disk] = t.size]
      /\ UNCHANGED <<vms, created, pc, req, seen, asked, mixed, steady>>
  BY DEF TaskRuns, history
<1>2. t \in Task
  BY DEF TypeOK
<1>4. ConsentInv' /\ tasks' \subseteq Task
  BY <1>1 DEF ConsentInv, TypeOK
<1>5. sizes' \in [Disks -> Sizes \cup {Absent}]
  BY <1>1, <1>2 DEF TypeOK, Task
<1>6. TypeOK'
  BY <1>1, <1>4, <1>5 DEF TypeOK
<1>7. ReadBeforeSent' /\ SteadyInv'
  BY <1>1 DEF ReadBeforeSent, SteadyInv
<1> QED BY <1>1, <1>4, <1>6, <1>7, MachinesUntouched

-----------------------------------------------------------------------------
(* The theorems                                                            *)

\* Every step keeps IInv.
LEMMA StepIInv == IInv /\ [Next]_vars => IInv'
<1> SUFFICES ASSUME IInv, [Next]_vars PROVE IInv'
  OBVIOUS
<1>1. ASSUME NEW c \in Callers, Call(c) \/ Read(c) \/ Return(c) PROVE IInv'
  BY <1>1, CallIInv, ReadIInv, ReturnIInv
<1>2. ASSUME NEW c \in Callers, BoxRuns(c) PROVE IInv'
  BY <1>2, StartIInv, StopIInv, KillIInv, DeleteIInv, CreateIInv, UpdateIInv, ResizeIInv,
     DiskCreateIInv, TaskDeleteIInv DEF BoxRuns
<1>3. ASSUME NEW id \in Ids, GuestStops(id) PROVE IInv'
  BY <1>3, GuestIInv
<1>4. ASSUME NEW t \in tasks, TaskRuns(t) PROVE IInv'
  BY <1>4, TaskIInv
<1>5. CASE UNCHANGED vars
  BY <1>5 DEF vars, IInv, TypeOK, ReadBeforeSent, FreshIds, SteadyInv, ConsentInv, UpdatesAddUp,
              Exists
<1> QED BY <1>1, <1>2, <1>3, <1>4, <1>5 DEF Next

\* IInv holds for any number of overlapping calls on any machines and disks.
THEOREM VmInvariant == Spec => []IInv
BY InitIInv, StepIInv, PTL DEF Spec

\* An update takes effect in full whatever overlaps it, and loses of what others asked
\* for only settings it was not asked to change and that changed between its GET and
\* its PUT.
THEOREM VmUpdatesAddUp == Spec => []UpdatesAddUp
<1>1. IInv => UpdatesAddUp
  BY DEF IInv
<1> QED BY <1>1, VmInvariant, PTL

\* Only a task whose caller gave allow_shrink makes a disk smaller, in whatever order
\* the box runs the waiting ones, and only the deletion of a machine removes its disk.
THEOREM VmShrinks == Spec => ShrinksOnlyIfAllowed
<1> DEFINE Ok == \A d \in Disks : sizes'[d] < sizes[d] =>
                   \/ \E t \in tasks : t.disk = d /\ t.consent /\ t.size = sizes'[d]
                   \/ /\ sizes'[d] = Absent
                      /\ \E c \in Callers : RunDelete(c) /\ vms[req[c].id].disk = d
<1>1. IInv /\ [Next]_vars => [Ok]_vars
  <2> DEFINE Allowed(d) == \E t \in tasks : t.disk = d /\ t.consent /\ t.size = sizes'[d]
             Freed(d) == /\ sizes'[d] = Absent
                         /\ \E c \in Callers : RunDelete(c) /\ vms[req[c].id].disk = d
  <2> SUFFICES ASSUME IInv, Next, NEW d \in Disks, sizes'[d] < sizes[d]
               PROVE  Allowed(d) \/ Freed(d)
    OBVIOUS
  <2>1. \A e \in Disks : sizes[e] \in Int /\ sizes[e] >= -1
    BY DEF IInv, TypeOK, Sizes, Absent
  <2>2. sizes' # sizes
    BY <2>1
  <2>3. (\E t \in tasks : TaskRuns(t)) \/ (\E c \in Callers : RunDelete(c))
    BY <2>2
    DEF Next, Call, Read, Return, BoxRuns, RunStart, RunStop, RunKill, RunCreate, RunUpdate,
        RunResize, RunDiskCreate, RunTaskDelete, GuestStops, boxVars
  <2>4. ASSUME NEW t \in tasks, TaskRuns(t) PROVE Allowed(d)
    <3>1. t \in Task /\ t.size \in Nat /\ t.disk \in Disks
      BY DEF IInv, TypeOK, Task, Sizes
    <3>2. ~TaskFails(t) /\ sizes' = [sizes EXCEPT ![t.disk] = t.size]
      BY <2>2, <2>4 DEF TaskRuns
    <3>3. t.disk = d /\ sizes'[d] = t.size
      BY <2>1, <3>2 DEF IInv, TypeOK
    <3>4. t.shrink
      BY <2>1, <3>1, <3>2, <3>3 DEF TaskFails, Absent
    <3> QED BY <3>3, <3>4 DEF IInv, ConsentInv
  <2>5. ASSUME NEW c \in Callers, RunDelete(c) PROVE Freed(d)
    <3>1. sizes' = [sizes EXCEPT ![vms[req[c].id].disk] = Absent]
      BY <2>2, <2>5 DEF RunDelete
    <3>2. vms[req[c].id].disk = d /\ sizes'[d] = Absent
      BY <2>1, <3>1 DEF IInv, TypeOK
    <3> QED BY <2>5, <3>2
  <2> HIDE DEF Allowed, Freed
  <2> QED BY <2>3, <2>4, <2>5
<1> HIDE DEF Ok
<1>2. Spec => [][Ok]_vars
  BY <1>1, VmInvariant, PTL DEF Spec
<1> QED BY <1>2 DEF ShrinksOnlyIfAllowed, Ok

\* A machine that runs from before the call until the box gets the resize is spared.
THEOREM VmSteadySpared == Spec => SteadyMachinesAreSpared
<1> DEFINE Ok == \A c \in steady : ~RunResize(c)
<1>1. IInv => Ok
  BY DEF IInv, SteadyInv, RunResize, Run
<1> HIDE DEF Ok
<1>2. Spec => [][Ok]_vars
  BY <1>1, VmInvariant, PTL
<1> QED BY <1>2 DEF SteadyMachinesAreSpared, Ok
=============================================================================
