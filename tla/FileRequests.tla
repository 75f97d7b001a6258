---------------------------- MODULE FileRequests ----------------------------
(***************************************************************************)
(* internal/tools/filesystem.go and the disks of vm.go: what becomes of    *)
(* the paths and names in a call.                                          *)
(*                                                                         *)
(* A path is the sequence of what stands between its slashes; a leading or *)
(* doubled slash is an empty component, and so is the whole of "".         *)
(***************************************************************************)
EXTENDS ToolArguments, SequencesExt

Root == <<>>

\* strings.Contains(x, ".."), ContainsAny(x, "/\\"), ContainsAny(x, "/\\..")
HasTwoDots(x) == x \in {"..", "a..b", "../b", "../b.raw"}
HasSeparator(x) == x \in {"a/b", "../b", "../b.raw"}
HasDotOrSeparator(x) ==
    HasSeparator(x) \/ HasTwoDots(x) \/ x \in {".", "a.b", "a.raw", "b.qcow2"}

\* Faulty variant: only doubled slashes are removed.
CleanSlashes(p) == SelectSeq(p, LAMBDA x : x # "")

\* Components that path.Clean removes.
Nothing == {"", "."}

\* path.Clean of an absolute path without "..".
Clean(p) == Dropping(Nothing, p)

\* Faulty variant: ".." is dropped with the other components that say nothing.
SanitizeSilently(p) ==
    LET clean == SelectSeq(p, LAMBDA x : x \notin {"", ".", ".."})
    IN  IF clean = Root THEN Refused ELSE clean

\* Faulty variant: the root is looked for before the path is cleaned.
SanitizeTooEarly(p) ==
    IF p \in {<<"">>, <<"", "">>} \/ \E i \in DOMAIN p : HasTwoDots(p[i]) THEN Refused ELSE Clean(p)

Sanitize(p) ==
    IF Clean(p) = Root \/ \E i \in DOMAIN p : HasTwoDots(p[i]) THEN Refused ELSE Clean(p)

Encode(p) == [b64 |-> p]

\* Faulty variant: every tool falls back on the usual directory.
SameDefault(tool) == <<"Freebox">>

\* What GetString yields for a missing path.
DefaultPath(tool) == IF tool \in {"list", "mkdir"} THEN <<"Freebox">> ELSE <<"">>

PathOf(tool, arg) == Sanitize(IF arg = Absent THEN DefaultPath(tool) ELSE arg)

-----------------------------------------------------------------------------
(* Requests of the file tools: Refused, or what goes to the box            *)

\* info, list, rm
OnePath(c) ==
    LET p == PathOf(c.tool, c.path)
    IN  IF p = Refused THEN Refused
        ELSE [op |-> c.tool, files |-> <<Encode(p)>>]

\* The sources of mv and cp: the items of src_paths that are texts.
Sources(c) == GetStringSlice(c.srcs)

\* mv, cp: one bad path among the sources refuses the whole call, an item that is no
\* text is as if it were not there.
Transfer(c) ==
    LET dst == PathOf(c.tool, c.dst)
        srcs == Sources(c)
        src(i) == PathOf(c.tool, srcs[i])
    IN  IF \/ srcs = <<>> \/ dst = Refused \/ c.mode = "bad"
           \/ \E i \in DOMAIN srcs : src(i) = Refused
          THEN Refused
        ELSE [op |-> c.tool, files |-> [i \in DOMAIN srcs |-> Encode(src(i))],
              dst |-> Encode(dst), mode |-> IF c.mode = Absent THEN "skip" ELSE c.mode]

\* A missing name is the empty one, which mkdir lets through.
MakeDirectory(c) ==
    LET parent == PathOf(c.tool, c.path)
        name == IF c.name = Absent THEN "" ELSE c.name
    IN  IF parent = Refused \/ HasDotOrSeparator(name) THEN Refused
        ELSE [op |-> "mkdir", files |-> <<Encode(parent)>>, name |-> name]

\* Faulty variant: only separators are looked for in the new name.
RenameAnywhere(c) ==
    LET src == PathOf(c.tool, c.path)
    IN  IF src = Refused \/ c.name \in {Absent, ""} \/ HasSeparator(c.name) THEN Refused
        ELSE [op |-> "rename", files |-> <<Encode(src)>>, name |-> c.name]

Rename(c) ==
    LET src == PathOf(c.tool, c.path)
    IN  IF \/ src = Refused \/ c.name \in {Absent, ""}
           \/ HasSeparator(c.name) \/ HasTwoDots(c.name)
          THEN Refused
        ELSE [op |-> "rename", files |-> <<Encode(src)>>, name |-> c.name]

-----------------------------------------------------------------------------
(* vm_create, vm_disk_create: the file of a disk in a directory            *)

\* The disk is the file of this name in the directory.
DiskPath(c) == PathOf(c.tool, c.path) \o <<c.name>>

DiskRefused(c) ==
    c.name = Absent \/ ~ValidDiskName(c.name) \/ PathOf(c.tool, c.path) = Refused

\* A positive size is all that is asked of size_gb.
CreateDisk(c) ==
    IF DiskRefused(c) \/ ~Is(c.size, "number") \/ c.size.number <= 0 THEN Refused
    ELSE [op |-> "disk_create", files |-> <<Encode(DiskPath(c))>>, name |-> c.name]

\* An image to mount and cloud-init data are optional; "long" data is refused.
CreateVM(c) ==
    LET cd == IF c.cd \in {Absent, <<"">>} THEN {} ELSE {Sanitize(c.cd)}
    IN  IF DiskRefused(c) \/ c.userdata = "long" \/ cd = {Refused} THEN Refused
        ELSE [op |-> "vm_create", files |-> <<Encode(DiskPath(c))>>, name |-> c.name,
              cd |-> {Encode(p) : p \in cd},
              cloudinit |-> c.userdata \notin {Absent, ""}]

=============================================================================
