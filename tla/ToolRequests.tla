---------------------------- MODULE ToolRequests ----------------------------
(***************************************************************************)
(* A call of a tool that checks its arguments and sends one request, from  *)
(* its arguments (ToolArguments) over its request (FileRequests,           *)
(* BoxRequests) to what the box then holds.  Handlers keep nothing and     *)
(* touch nothing shared before they send, so a handler up to its request   *)
(* is one step.                                                            *)
(*                                                                         *)
(* The box merges the payload of a PUT into the object.  Its numbered      *)
(* entries may have any id, 0 among them, and no entry has the empty id.   *)
(***************************************************************************)
EXTENDS BoxRequests, FiniteSetsExt

CONSTANTS
    Paths,     \* path arguments: sequences of components
    Dirs,      \* path arguments for destinations and parents
    FileNames, \* name arguments of mkdir and rename
    Switches,  \* JSON values given for booleans
    Numbers,   \* for settings that are numbers
    Texts,     \* for settings that are texts
    Ports,     \* for the ports of a rule
    NumberIds, \* for the ids of numbered entries
    TextIds,   \* for the ids of the others
    Old        \* what the box holds at first, whatever it is

ASSUME PathsAssumption ==
    /\ Paths \cup Dirs \subseteq Seq(STRING) /\ FileNames \subseteq STRING
    /\ Absent \notin Seq(STRING) /\ NotText \notin Seq(STRING)

ASSUME NumbersAssumption ==
    \A v \in Ports \cup NumberIds :
      (Is(v, "number") => v.number \in Int) /\ (Is(v, "digits") => v.digits \in Int)

VARIABLES
    pc,    \* idle, refused, sent or done
    call,  \* the tool call and its arguments
    sent,  \* the request that leaves for the box
    box    \* the settings of each of the box's objects

vars == <<pc, call, sent, box>>

Entries == (NumberedKinds \X (0..2)) \cup (NamedKinds \X {"e1", "e2"})
Objects == {<<s>> : s \in Sections} \cup Entries

\* An entry that was deleted.
Gone == [gone |-> TRUE]

SettingsOf(o) ==
    UNION {DOMAIN Updates[t].by : t \in {t \in DOMAIN Updates : Updates[t].of = o[1]}}

-----------------------------------------------------------------------------
(* Calls                                                                   *)

PathArgs == Paths \cup {Absent}
DirArgs == Dirs \cup {Absent}
NameArgs == FileNames \cup {Absent}

ArgsRead(how) ==
    CASE how \in {"switch", "flag", "toggle"} -> Switches
      [] how \in {"port", "percent", "count"} -> Numbers
      [] how \in {"text", "name", "word", "mode"} -> Texts
      [] how = "dir" -> DirArgs

\* Every combination of the arguments of an update.
UpdateArgs(by) ==
    FoldSet(LAMBDA f, some : {[g \in DOMAIN s \cup {f} |-> IF g = f THEN v ELSE s[g]] :
                              s \in some, v \in ArgsRead(by[f])},
            {<<>>}, DOMAIN by)

IdsOf(kind) ==
    CASE kind \in Sections -> {Absent}
      [] kind \in NumberedKinds -> NumberIds
      [] OTHER -> TextIds

FileCalls ==
    [tool : {"info", "list", "rm"}, path : PathArgs]
      \cup [tool : {"mv", "cp"}, srcs : BoundedSeq(Paths \cup {NotText}, 2), dst : DirArgs,
            mode : {Absent, "overwrite", "bad"}]
      \cup [tool : {"mkdir", "rename"}, path : PathArgs, name : NameArgs]
      \cup [tool : {"disk_create"}, path : DirArgs, name : NameArgs, size : Numbers]
      \cup [tool : {"vm_create"}, path : DirArgs, name : NameArgs, cd : DirArgs,
            userdata : {Absent, "", "short", "long"}]

BoxCalls ==
    (UNION {[tool : {t}, id : IdsOf(Updates[t].of), args : UpdateArgs(Updates[t].by)] :
            t \in DOMAIN Updates})
      \cup (UNION {[tool : {t}, id : IdsOf(Deletions[t].of)] : t \in DOMAIN Deletions})

IPs == {<<"192", "168", "1", "50">>, <<"192", "168", "1", "254">>, <<"172", "32", "0", "1">>, <<"">>}
MACs == {"aa:bb:cc:dd:ee:ff", "aa:bb", ""}

Creations ==
    [tool : {"nat_create"}, ip : IPs, lan : Ports, start : Ports, end : Ports,
     enabled : {Absent, Truth(TRUE), Truth(FALSE)}]
      \cup [tool : {"dhcp_static_create"}, mac : MACs, ip : IPs]
      \cup [tool : {"wol"}, mac : MACs, password : MACs, iface : {Absent, "guest"}]
      \cup [tool : {"download_add"}, dir : DirArgs,
            url : [scheme : {"http", "magnet", "file"}, host : {"example.org", "localhost"}]]
      \cup [tool : {"route_add", "reboot"}]

Calls == FileCalls \cup BoxCalls \cup Creations

Request(c) ==
    CASE c.tool \in {"info", "list", "rm"} -> OnePath(c)
      [] c.tool \in {"mv", "cp"} -> Transfer(c)
      [] c.tool = "mkdir" -> MakeDirectory(c)
      [] c.tool = "rename" -> Rename(c)
      [] c.tool = "disk_create" -> CreateDisk(c)
      [] c.tool = "vm_create" -> CreateVM(c)
      [] c.tool \in DOMAIN Updates -> Update(c)
      [] c.tool \in DOMAIN Deletions -> Delete(c)
      [] c.tool = "nat_create" -> CreateRule(c)
      [] c.tool = "dhcp_static_create" -> CreateLease(c)
      [] c.tool = "wol" -> WakeUp(c)
      [] c.tool = "download_add" -> AddDownload(c)
      [] c.tool = "route_add" -> AddRoute
      [] c.tool = "reboot" -> Reboot

-----------------------------------------------------------------------------

NoCall == [tool |-> "none"]
NotSent == [op |-> "none"]
OldSettings == [o \in Objects |-> [f \in SettingsOf(o) |-> Old]]

Init ==
    /\ pc = "idle" /\ call = NoCall /\ sent = NotSent
    /\ box = OldSettings

\* The handler refuses the arguments: no request leaves.
Refuse ==
    /\ pc = "idle"
    /\ \E c \in Calls : Request(c) = Refused /\ call' = c
    /\ pc' = "refused"
    /\ UNCHANGED <<sent, box>>

Send ==
    /\ pc = "idle"
    /\ \E c \in Calls : Request(c) # Refused /\ call' = c /\ sent' = Request(c)
    /\ pc' = "sent"
    /\ UNCHANGED box

\* Where a path leads by the rules of a file system: ".." goes up.
Resolve(p) ==
    LET at[n \in 0..Len(p)] ==
          IF n = 0 THEN Root
          ELSE IF p[n] \in Nothing THEN at[n - 1]
          ELSE IF p[n] = ".." THEN SubSeq(at[n - 1], 1, Len(at[n - 1]) - 1)
          ELSE Append(at[n - 1], p[n])
    IN  at[Len(p)]

\* The box's object at a path, in which a box may take "." and ".." for what they mean.
Reached(path) ==
    (IF path[1] \in NumberedKinds THEN {path} ELSE {path, Resolve(path)}) \cap Objects

BoxUpdates ==
    /\ pc = "sent" /\ sent.op = "put"
    /\ \E o \in Reached(sent.object) :
         box' = [box EXCEPT ![o] =
                   [f \in DOMAIN @ |-> IF f \in DOMAIN sent.body THEN sent.body[f] ELSE @[f]]]
    /\ pc' = "done"
    /\ UNCHANGED <<call, sent>>

BoxDeletes ==
    /\ pc = "sent" /\ sent.op = "delete"
    /\ \E o \in Reached(sent.object) : box' = [box EXCEPT ![o] = Gone]
    /\ pc' = "done"
    /\ UNCHANGED <<call, sent>>

\* The box has no such object, refuses, creates something, or the request is lost
\* (which of these a caller is told is RemoteCall's concern).
Answer ==
    /\ pc = "sent"
    /\ pc' = "done"
    /\ UNCHANGED <<call, sent, box>>

Next == Refuse \/ Send \/ BoxUpdates \/ BoxDeletes \/ Answer

Spec == Init /\ [][Next]_vars

-----------------------------------------------------------------------------
(* Properties                                                              *)

Clear(p) == \A i \in DOMAIN p : p[i] \notin Nothing \cup {".."}
Components == (UNION {Range(q) : q \in Paths \cup Dirs}) \cup FileNames \cup {"Freebox"}
Encoded == [b64 : {p \in Seq(Components) : Clear(p)}]
FileOps == {"info", "list", "rm", "mv", "cp", "mkdir", "rename", "disk_create", "vm_create"}

\* Types of the call; every path in a request is encoded and clean.
TypeOK ==
    /\ pc \in {"idle", "refused", "sent", "done"}
    /\ (call = NoCall) <=> (pc = "idle")
    /\ (sent # NotSent) <=> pc \in {"sent", "done"}
    /\ sent.op \in FileOps => sent.files \in Seq(Encoded)
    /\ DOMAIN box = Objects

DiskOps == {"disk_create", "vm_create"}

\* The paths a call names: the sources that are texts, a directory, or the file of a
\* disk in one.
PathsOf(c) ==
    CASE c.tool \in {"mv", "cp"} -> Sources(c)
      [] c.tool \in DiskOps -> <<IF c.path = Absent THEN Absent ELSE c.path \o <<c.name>>>>
      [] OTHER -> <<c.path>>

\* A file or disk tool acts on exactly the files that the texts in its arguments
\* denote, in their order, however they are spelled: a path that would need ".." is
\* refused and never turned into another one, and one such source refuses all.  (A
\* source that is no text refuses nothing: filesystem.go:237 and 292 drop it.)
NamedPathsAreUsed ==
    sent.op \in FileOps =>
      /\ Len(sent.files) = Len(PathsOf(call))
      /\ \A i \in DOMAIN sent.files :
           PathsOf(call)[i] # Absent => sent.files[i] = Encode(Resolve(PathsOf(call)[i]))
      /\ sent.op \in {"mv", "cp"} => sent.dst = Encode(Resolve(call.dst))
      /\ sent.op = "vm_create" /\ sent.cd # {} => sent.cd = {Encode(Resolve(call.cd))}

\* No spelling of the storage's root gets through (filesystem.go:99), be it the file
\* to act on, a destination or the directory of a disk.
RootIsSpared ==
    sent.op \in FileOps =>
      /\ \A i \in DOMAIN sent.files :
           Len(sent.files[i].b64) > (IF sent.op \in DiskOps THEN 1 ELSE 0)
      /\ sent.op \in {"mv", "cp"} => sent.dst # Encode(Root)

\* list and mkdir have a default directory, the tools that remove, move, copy or
\* rename, or create a disk, must not: without a path they send nothing.
NoDefaultForChanges ==
    sent.op \in FileOps \ {"info", "list", "mkdir"} =>
      /\ Absent \notin Range(PathsOf(call))
      /\ sent.op \in {"mv", "cp"} => call.dst # Absent

Split(name) ==
    CASE name = "a/b" -> <<"a", "b">>
      [] name = "../b" -> <<"..", "b">>
      [] name = "../b.raw" -> <<"..", "b.raw">>
      [] OTHER -> <<name>>

\* A new name cannot take the directory, the renamed file or the disk out of the
\* directory it is to be in.
NewNameStaysInParent ==
    sent.op \in {"mkdir", "rename"} \cup DiskOps =>
      LET path == sent.files[1].b64
          parent == IF sent.op = "mkdir" THEN path ELSE SubSeq(path, 1, Len(path) - 1)
      IN  IsPrefix(parent, Resolve(parent \o Split(sent.name)))

\* What a JSON number, or a number in a text, denotes.
Denotes(v) == Truncated(IF Is(v, "number") THEN v.number ELSE v.digits)

\* A forwarding rule opens the ports that were asked for and no others, whatever
\* JSON the numbers come as; without an end it opens one port.
RuleOpensWhatWasAsked ==
    sent.op = "nat_create" =>
      /\ sent.lan = Denotes(call.lan) /\ sent.start = Denotes(call.start)
      /\ sent.end = IF call.end = Absent THEN sent.start ELSE Denotes(call.end)
      /\ \A n \in {sent.lan, sent.start, sent.end} : 1 <= n /\ n <= 65535

\* Arguments that the tool's schema declares required.
RequiredArgs == {"toggle", "percent", "word"}

\* Arguments that a partial update passes over: what is missing, what is of another
\* type for the ways that look at it, the empty text as a name, a mode or a
\* directory, and a count that is not positive.
PassedOver(how, v) ==
    \/ v = Absent /\ how \notin RequiredArgs
    \/ how = "switch" /\ ~Is(v, "truth")
    \/ how \in {"text", "name", "mode"} /\ ~Is(v, "text")
    \/ how \in {"name", "mode"} /\ Is(v, "text") /\ v.text = ""
    \/ how = "dir" /\ v = <<"">>
    \/ how = "count" /\ Is(v, "number") /\ ~(Truncated(v.number) > 0)

\* Once the box has run a partial update, each setting whose argument is passed over
\* is what it was, and each other one that is given as a value of its type has that
\* value, FALSE and the empty logon_user among them, a directory the one it denotes.
SettingsChangeAsGiven ==
    [][BoxUpdates /\ sent.object \in Objects =>
         LET by == Updates[call.tool].by
             new == box'[sent.object]
         IN  \A f \in DOMAIN by :
               LET v == call.args[f]
                   how == by[f]
               IN  IF PassedOver(how, v) THEN new[f] = Old
                   ELSE /\ how \in {"switch", "flag", "toggle"} /\ Is(v, "truth") =>
                             new[f] = v.truth
                        /\ how \in {"port", "percent", "count"} /\ Is(v, "number") =>
                             new[f] = Truncated(v.number)
                        /\ how \in {"text", "word", "name", "mode"} /\ Is(v, "text") =>
                             new[f] = v.text
                        /\ how = "dir" /\ v \in Dirs => new[f] = Encode(Resolve(v))]_vars

KindOf(c) == IF c.tool \in DOMAIN Updates THEN Updates[c.tool].of ELSE Deletions[c.tool].of

\* An id that is one component of a path and no step in it.
IsComponent(id) == Parts(id) = <<id>> /\ id \notin Nothing \cup {".."}

IsInteger(v) == Is(v, "number") \/ (Is(v, "digits") /\ v.digits % 2 = 0)

\* A call changes or deletes the section its tool is for, or the entry its id names.
\* Two things soften that: what is no number names the entry 0 (vm.go:351, and the
\* machines of vm_test.go:98 have one), and a text with "/", "?" or ".." in it, which
\* nobody escapes (dhcp.go:113), may lead elsewhere; but a missing text, or an empty
\* one, changes nothing.
OtherObjectsStay ==
    [][\A o \in Objects : box'[o] # box[o] =>
         LET kind == KindOf(call)
             id == call.id
         IN  /\ kind \in Sections => o = <<kind>>
             /\ kind \in NumberedKinds => o = <<kind, IF IsInteger(id) THEN Denotes(id) ELSE 0>>
             /\ kind \in NamedKinds =>
                  /\ Is(id, "text") /\ id.text # ""
                  /\ IsComponent(id.text) => o = <<kind, id.text>>]_vars

-----------------------------------------------------------------------------
(* Why these hold                                                          *)

\* What leaves for the box is made of the arguments of the call and of nothing else,
\* and the box is as it was until it runs it.
SentInv ==
    /\ pc \in {"sent", "done"} => call \in Calls /\ sent = Request(call) /\ sent # Refused
    /\ pc # "done" => box = OldSettings

\* The inductive invariant.
IInv == TypeOK /\ SentInv

=============================================================================
