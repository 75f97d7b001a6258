--------------------------- MODULE VirtualMachines ---------------------------
(***************************************************************************)
(* internal/tools/vm.go: the virtual machine tools and the box's machines, *)
(* virtual disks and disk tasks.                                           *)
(*                                                                         *)
(* Tool calls run concurrently.  vm_update reads a machine and sends a     *)
(* whole one back, vm_disk_resize reads it and acts on what it read; the   *)
(* other tools are one request.  Each request runs at most once            *)
(* (FreeboxClient).  Sizes are in bytes, size_gb in half bytes: a fraction *)
(* of a byte stands for any positive size that becomes 0 bytes.            *)
(***************************************************************************)
EXTENDS Integers, FiniteSets

CONSTANTS
    Callers,   \* concurrent tool calls
    Disks,     \* paths of virtual disks
    MaxVms,    \* bound: machines ever created; the box does not reuse their ids
    MaxSize,   \* bound: size of a disk
    MaxTasks   \* bound: disk tasks that wait on the box at a time

ASSUME VirtualMachinesAssumption ==
    MaxVms \in Nat \ {0} /\ MaxSize \in Nat \ {0} /\ MaxTasks \in Nat

Ids == 0..(MaxVms - 1)
NotGiven == -1         \* no id, or one that is no number

\* req.GetInt("id", 0)
GetInt(id) == IF id = NotGiven THEN 0 ELSE id
NamedIds == {GetInt(id) : id \in Ids \cup {NotGiven}}

Sizes == 0..MaxSize
HalfSizes == 0..(2 * MaxSize)
Absent == -1           \* the size of a disk that does not exist

\* A number and a switch stand for the settings that vm_update can change; an empty
\* name is ignored as a mistyped switch is.
Numbers == {"memory"}
Fields == Numbers \cup {"enable_cloudinit"}
Vals == 0..1
Mistyped == -1
Settings == [Fields -> Vals]
Initial == [f \in Fields |-> 0]   \* the settings of every new machine

\* int(toFloat(v)) makes 0 of a number that is given as text; a switch that is no
\* boolean is ignored.
Overrides(args) ==
    [f \in {g \in DOMAIN args : g \in Numbers \/ args[g] # Mistyped} |->
       IF args[f] = Mistyped THEN 0 ELSE args[f]]

\* What any arguments of vm_update come to.
Patches == {Overrides(args) : args \in UNION {[D -> Vals \cup {Mistyped}] : D \in SUBSET Fields}}

VM == [status : {"running", "stopped"}, settings : Settings, disk : Disks]
NoVM == [status |-> "none"]

\* Of a machine it has read a tool uses its settings and its disk; the box ignores the
\* status that a body repeats.
Body == [settings : Settings, disk : Disks]
NoBody == [disk |-> NoVM]

VARIABLES
    vms,      \* box: the machine under each id
    created,  \* box: how many it has created
    sizes,    \* box: the size of each disk
    tasks,    \* box: the disk tasks it has not run yet
    pc,       \* where each tool call is
    req,      \* its arguments
    seen,     \* what it has read of a machine
    asked,    \* history: the settings asked for, one update after the other
    mixed,    \* history: settings an update put back that had changed since its GET
    steady    \* history: resizes whose machine has run since they were called

vars == <<vms, created, sizes, tasks, pc, req, seen, asked, mixed, steady>>
boxVars == <<vms, created, sizes, tasks>>
history == <<asked, mixed, steady>>

Task == [type : {"create", "resize_disk"}, disk : Disks, size : Sizes,
         shrink : BOOLEAN, consent : BOOLEAN]   \* history: allow_shrink of the call

\* size_gb is any number of a size the box can hold.
Requests ==
    [tool : {"start", "stop", "kill", "delete"}, id : NamedIds]
    \cup [tool : {"create"}, disk : Disks]
    \cup [tool : {"update"}, id : NamedIds, patch : Patches]
    \cup [tool : {"disk_resize"}, id : NamedIds, size : HalfSizes, shrink : BOOLEAN]
    \cup [tool : {"disk_create"}, disk : Disks, size : HalfSizes]
    \cup [tool : {"task_delete"}, task : Task]

NoRequest == [tool |-> "none"]

Exists(id) == vms[id].status # "none"

Init ==
    /\ vms = [id \in Ids |-> NoVM]
    /\ created = 0
    /\ sizes \in [Disks -> {Absent, 1}]
    /\ tasks = {}
    /\ pc = [c \in Callers |-> "idle"]
    /\ req = [c \in Callers |-> NoRequest]
    /\ seen = [c \in Callers |-> NoBody]
    /\ asked = [id \in Ids |-> Initial]
    /\ mixed = [id \in Ids |-> {}]
    /\ steady = {}

-----------------------------------------------------------------------------
(* The handlers                                                            *)

Begin(c, r, where) ==
    /\ pc' = [pc EXCEPT ![c] = where]
    /\ req' = [req EXCEPT ![c] = r]

\* The call returns: an answer, a refusal or an error, which nothing remembers.
End(c) ==
    /\ pc' = [pc EXCEPT ![c] = "idle"]
    /\ req' = [req EXCEPT ![c] = NoRequest]
    /\ seen' = [seen EXCEPT ![c] = NoBody]

\* int64(sizeGB * bytesPerGB) cuts towards zero, after the check.
Bytes(size) == size \div 2

SizeRefused(r) == r.tool \in {"disk_resize", "disk_create"} /\ r.size <= 0

\* The arguments are checked; two tools then read the machine they name.
Call(c) ==
    /\ pc[c] = "idle"
    /\ \E r \in Requests :
         /\ ~SizeRefused(r)
         /\ r.tool = "task_delete" => r.task \in tasks
         /\ Begin(c, r, IF r.tool \in {"update", "disk_resize"} THEN "reading" ELSE "sending")
         /\ steady' = IF r.tool = "disk_resize" /\ vms[r.id].status = "running"
                        THEN steady \cup {c} ELSE steady
    /\ UNCHANGED <<boxVars, seen, asked, mixed>>

\* Faulty variant: a machine that runs is no obstacle.
RefusesNone(r, vm) == FALSE

\* vm_disk_resize refuses a machine it reads as running.
Refuses(r, vm) == r.tool = "disk_resize" /\ vm.status = "running"

\* What the tool goes on to use of the machine: the resize only its disk.
Used(r, vm) ==
    [settings |-> IF r.tool = "update" THEN vm.settings ELSE Initial, disk |-> vm.disk]

\* GET /vm/{id}.
Read(c) ==
    /\ pc[c] = "reading"
    /\ Exists(req[c].id) /\ ~Refuses(req[c], vms[req[c].id])
    /\ seen' = [seen EXCEPT ![c] = Used(req[c], vms[req[c].id])]
    /\ pc' = [pc EXCEPT ![c] = "sending"]
    /\ UNCHANGED <<boxVars, req, history>>

\* A machine that is missing or refused, or an exchange that fails before the
\* box runs the request; one that fails afterwards is like an answer here.
Return(c) ==
    /\ pc[c] \in {"reading", "sending"}
    /\ End(c)
    /\ steady' = steady \ {c}
    /\ UNCHANGED <<boxVars, asked, mixed>>

Patched(settings, patch) ==
    [f \in Fields |-> IF f \in DOMAIN patch THEN patch[f] ELSE settings[f]]

\* Faulty variant: what the call leaves out is reset, as a new struct would.
PatchOnly(body, patch) == [body EXCEPT !.settings = Patched(Initial, patch)]

\* The machine that vm_update sends: the one it read, with the given settings.
Updated(body, patch) == [body EXCEPT !.settings = Patched(@, patch)]

\* Faulty variant: the resize always allows shrinking.
AlwaysShrink(r) == TRUE

ShrinkAllow(r) == r.shrink

-----------------------------------------------------------------------------
(* The box runs the request of a call                                      *)

ResizesOf(id) == {c \in Callers : req[c].tool = "disk_resize" /\ req[c].id = id}

Run(c, tool) ==
    /\ pc[c] = "sending"
    /\ req[c].tool = tool
    /\ End(c)

\* The stop is a signal: the guest obeys later (GuestStops), or never.
RunStart(c) ==
    /\ Run(c, "start")
    /\ Exists(req[c].id) /\ sizes[vms[req[c].id].disk] # Absent
    /\ vms' = [vms EXCEPT ![req[c].id].status = "running"]
    /\ UNCHANGED <<created, sizes, tasks, history>>

RunStop(c) ==
    /\ Run(c, "stop")
    /\ Exists(req[c].id)
    /\ UNCHANGED <<boxVars, history>>

RunKill(c) ==
    /\ Run(c, "kill")
    /\ Exists(req[c].id)
    /\ vms' = [vms EXCEPT ![req[c].id].status = "stopped"]
    /\ steady' = steady \ ResizesOf(req[c].id)
    /\ UNCHANGED <<created, sizes, tasks, asked, mixed>>

\* The box may free the disk, as the tool's description says it does.
RunDelete(c) ==
    /\ Run(c, "delete")
    /\ Exists(req[c].id)
    /\ vms' = [vms EXCEPT ![req[c].id] = NoVM]
    /\ asked' = [asked EXCEPT ![req[c].id] = Initial]
    /\ sizes' \in {sizes, [sizes EXCEPT ![vms[req[c].id].disk] = Absent]}
    /\ mixed' = [mixed EXCEPT ![req[c].id] = {}]
    /\ steady' = steady \ ResizesOf(req[c].id)
    /\ UNCHANGED <<created, tasks>>

RunCreate(c) ==
    /\ Run(c, "create")
    /\ created < MaxVms
    /\ created' = created + 1
    /\ vms' = [vms EXCEPT ![created] =
         [status |-> "stopped", settings |-> Initial, disk |-> req[c].disk]]
    /\ UNCHANGED <<sizes, tasks, history>>

\* PUT /vm/{id}: a missing machine is an error.  What was asked of a setting that is
\* put back no longer matters and is forgotten.
RunUpdate(c) ==
    LET id == req[c].id
        body == Updated(seen[c], req[c].patch)
        back == {f \in Fields \ DOMAIN req[c].patch :
                   f \in mixed[id] \/ seen[c].settings[f] # vms[id].settings[f]}
    IN  /\ Run(c, "update")
        /\ Exists(id)
        /\ vms' = [vms EXCEPT ![id] =
             [status |-> @.status, settings |-> body.settings, disk |-> body.disk]]
        /\ asked' = [asked EXCEPT ![id] =
             [f \in Fields |-> IF f \in back THEN Initial[f] ELSE Patched(@, req[c].patch)[f]]]
        /\ mixed' = [mixed EXCEPT ![id] = back]
        /\ UNCHANGED <<created, sizes, tasks, steady>>

NewTask(type, disk, size, shrink, consent) ==
    /\ Cardinality(tasks) < MaxTasks
    /\ tasks' = tasks \cup {[type |-> type, disk |-> disk, size |-> size, shrink |-> shrink,
                             consent |-> consent]}

\* POST /vm/disk/resize names the disk by the path that was read.
RunResize(c) ==
    /\ Run(c, "disk_resize")
    /\ NewTask("resize_disk", seen[c].disk, Bytes(req[c].size), ShrinkAllow(req[c]), req[c].shrink)
    /\ steady' = steady \ {c}
    /\ UNCHANGED <<vms, created, sizes, asked, mixed>>

RunDiskCreate(c) ==
    /\ Run(c, "disk_create")
    /\ NewTask("create", req[c].disk, Bytes(req[c].size), FALSE, FALSE)
    /\ UNCHANGED <<vms, created, sizes, history>>

\* A task that has run meanwhile leaves nothing but its outcome to delete.
RunTaskDelete(c) ==
    /\ Run(c, "task_delete")
    /\ tasks' = tasks \ {req[c].task}
    /\ UNCHANGED <<vms, created, sizes, history>>

-----------------------------------------------------------------------------
(* The box by itself                                                       *)

GuestStops(id) ==
    /\ vms[id].status = "running"
    /\ vms' = [vms EXCEPT ![id].status = "stopped"]
    /\ steady' = steady \ ResizesOf(id)
    /\ UNCHANGED <<created, sizes, tasks, pc, req, seen, asked, mixed>>

\* A resize fails on a missing disk, or where it would shrink one unasked; a
\* creation fails on a disk that exists.
TaskFails(t) ==
    IF t.type = "create" THEN sizes[t.disk] # Absent
    ELSE sizes[t.disk] = Absent \/ (t.size < sizes[t.disk] /\ ~t.shrink)

TaskRuns(t) ==
    /\ tasks' = tasks \ {t}
    /\ sizes' = IF TaskFails(t) THEN sizes ELSE [sizes EXCEPT ![t.disk] = t.size]
    /\ UNCHANGED <<vms, created, pc, req, seen, history>>

BoxRuns(c) ==
    \/ RunStart(c) \/ RunStop(c) \/ RunKill(c) \/ RunDelete(c) \/ RunCreate(c)
    \/ RunUpdate(c) \/ RunResize(c) \/ RunDiskCreate(c) \/ RunTaskDelete(c)

Next ==
    \/ \E c \in Callers : Call(c) \/ Read(c) \/ BoxRuns(c) \/ Return(c)
    \/ \E id \in Ids : GuestStops(id)
    \/ \E t \in tasks : TaskRuns(t)

Spec == Init /\ [][Next]_vars

-----------------------------------------------------------------------------
(* Properties                                                              *)

\* Types of the box's and the calls' state; a machine that is updated keeps a disk.
TypeOK ==
    /\ vms \in [Ids -> VM \cup {NoVM}]
    /\ created \in 0..MaxVms
    /\ sizes \in [Disks -> Sizes \cup {Absent}]
    /\ tasks \subseteq Task
    /\ pc \in [Callers -> {"idle", "reading", "sending"}]
    /\ req \in [Callers -> Requests \cup {NoRequest}]
    /\ seen \in [Callers -> Body \cup {NoBody}]
    /\ asked \in [Ids -> Settings] /\ mixed \in [Ids -> SUBSET Fields] /\ steady \subseteq Callers

\* vm_update sends a whole machine back, and each setting is yet what the updates have
\* asked for, one after the other.  An update that overlaps others takes effect in full
\* and can only put back settings that it was not asked to change and that changed
\* between its GET and its PUT.  A memory given as text asks for 0.
UpdatesAddUp ==
    \A id \in Ids : Exists(id) =>
        \A f \in Fields \ mixed[id] : vms[id].settings[f] = asked[id][f]

\* A virtual disk gets smaller only through a resize whose caller gave
\* allow_shrink, in whatever order the box runs the resizes and creations that wait
\* and however small a size_gb passes for positive; and it goes only with a machine.
ShrinksOnlyIfAllowed ==
    [][\A d \in Disks : sizes'[d] < sizes[d] =>
         \/ \E t \in tasks : t.disk = d /\ t.consent /\ t.size = sizes'[d]
         \/ /\ sizes'[d] = Absent
            /\ \E c \in Callers : RunDelete(c) /\ vms[req[c].id].disk = d]_vars

\* What vm_disk_resize's look at the status is worth: a machine that runs from
\* before the call until the box gets the resize is never resized.
SteadyMachinesAreSpared ==
    [][\A c \in steady : ~RunResize(c)]_vars

\* "Refuse si la VM est running" (CHANGELOG.md, 0.37.0): no resize reaches the
\* box while the machine it names is running.
ResizeRefusedWhileRunning ==
    [][\A c \in Callers : RunResize(c) => vms[req[c].id].status # "running"]_vars

-----------------------------------------------------------------------------
(* Why UpdatesAddUp and the action properties hold                         *)

\* Two tools read a machine, and have read one when they are about to send.
ReadBeforeSent ==
    \A c \in Callers :
      /\ pc[c] = "reading" => req[c].tool \in {"update", "disk_resize"}
      /\ pc[c] = "sending" /\ req[c].tool \in {"update", "disk_resize"} => seen[c] \in Body

\* Ids the box has not used yet are those of no machine, and nobody updated one.
FreshIds == \A id \in Ids : id >= created => vms[id] = NoVM /\ asked[id] = Initial

\* A resize that found its machine running when it was called has not read it yet:
\* the status it is about to read makes it refuse.
SteadyInv ==
    \A c \in steady :
      req[c].tool = "disk_resize" /\ pc[c] = "reading" /\ vms[req[c].id].status = "running"

\* The box only holds a task that may shrink a disk if its caller said so.
ConsentInv == \A t \in tasks : t.shrink => t.consent

\* The inductive invariant: the machines the box holds have the settings asked for,
\* and what that rests on.
IInv == TypeOK /\ ReadBeforeSent /\ FreshIds /\ SteadyInv /\ ConsentInv /\ UpdatesAddUp

=============================================================================
