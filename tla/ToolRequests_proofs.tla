------------------------- MODULE ToolRequests_proofs -------------------------
(***************************************************************************)
(* The tools of one request, for any paths, names, numbers, ids and        *)
(* settings in their arguments: what their requests name, and what the box *)
(* changes when it runs them.                                              *)
(*                                                                         *)
(* The first part is about the loops over the items of a list or the       *)
(* components of a path: what is left out of it (Dropping, of which        *)
(* path.Clean and GetStringSlice are made), and the way it leads (Resolve).*)
(***************************************************************************)
EXTENDS ToolRequests, Loops, SequenceTheorems

\* What Dropping has kept after n turns.
KeptFrom(D, p, f, n) ==
    IF n = 0 THEN <<>>
    ELSE IF p[n] \in D THEN f[n - 1]
    ELSE Append(f[n - 1], p[n])

\* Where Resolve is after n turns.
ResolveFrom(p, f, n) ==
    IF n = 0 THEN Root
    ELSE IF p[n] \in Nothing THEN f[n - 1]
    ELSE IF p[n] = ".." THEN SubSeq(f[n - 1], 1, Len(f[n - 1]) - 1)
    ELSE Append(f[n - 1], p[n])

\* f is the loop of Dropping, or of Resolve, over p.
Keeps(D, p, f) == f = [n \in 0..Len(p) |-> KeptFrom(D, p, f, n)]
Resolves(p, f) == f = [n \in 0..Len(p) |-> ResolveFrom(p, f, n)]

\* The loop of Dropping defines a function.
LEMMA KeepsExists == ASSUME NEW S, NEW D, NEW p \in Seq(S) PROVE \E f : Keeps(D, p, f)
<1> DEFINE L == Len(p)
           A == Seq(S)
           kept(x) == IF p[x[1]] \in D THEN x[2] ELSE Append(x[2], p[x[1]])
           turn == [x \in (1..L) \X A |-> kept(x)]
<1>1. L \in Nat /\ (\A n \in 1..L : p[n] \in S) /\ <<>> \in A
  OBVIOUS
<1>2. turn \in Turns(L, A)
  <2>1. \A x \in (1..L) \X A : x[1] \in 1..L /\ x[2] \in A
    OBVIOUS
  <2>2. \A x \in (1..L) \X A : kept(x) \in A
    BY <1>1, <2>1
  <2> HIDE DEF kept
  <2> QED BY <2>2 DEF Turns
<1>3. PICK f : IsLoop(f, L, A, <<>>, turn)
  <2> HIDE DEF turn, L, A
  <2> QED BY <1>1, <1>2, LoopExists
<1>4. ASSUME NEW n \in 0..L PROVE f[n] = KeptFrom(D, p, f, n)
  <2>1. CASE n = 0
    BY <1>3, <2>1 DEF KeptFrom, IsLoop
  <2>2. CASE n # 0
    <3>1. n \in 1..L /\ f[n - 1] \in A /\ <<n, f[n - 1]>> \in (1..L) \X A
      BY <1>1, <1>3, <2>2 DEF IsLoop
    <3>2. f[n] = kept(<<n, f[n - 1]>>)
      BY <1>3, <3>1 DEF IsLoop
    <3> QED BY <2>2, <3>2 DEF KeptFrom
  <2> QED BY <2>1, <2>2
<1> QED BY <1>3, <1>4 DEF IsLoop, Keeps

\* It keeps the items that are not to be dropped.
LEMMA KeepsTypes ==
    ASSUME NEW S, NEW D, NEW p \in Seq(S), NEW f, Keeps(D, p, f), NEW n \in 0..Len(p)
    PROVE  f[n] \in Seq(S \ D)
<1> DEFINE L == Len(p)
           T == {k \in Nat : f[k] \in Seq(S \ D)}
<1>1. L \in Nat /\ \A k \in 1..L : p[k] \in S
  OBVIOUS
<1>2. 0 \in T
  <2>1. f[0] = <<>>
    BY <1>1 DEF Keeps, KeptFrom
  <2>2. <<>> \in Seq(S \ D)
    OBVIOUS
  <2> QED BY <2>1, <2>2
<1>3. ASSUME NEW k \in 0..L, k \in T, k < L PROVE k + 1 \in T
  <2>1. k + 1 \in 0..L /\ k + 1 # 0 /\ (k + 1) - 1 = k /\ p[k + 1] \in S
    BY <1>1, <1>3
  <2>2. f[k + 1] = IF p[k + 1] \in D THEN f[k] ELSE Append(f[k], p[k + 1])
    BY <2>1 DEF Keeps, KeptFrom
  <2>3. CASE p[k + 1] \in D
    BY <1>1, <1>3, <2>2, <2>3
  <2>4. CASE p[k + 1] \notin D
    <3>1. p[k + 1] \in S \ D
      BY <2>1, <2>4
    <3>2. f[k + 1] \in Seq(S \ D)
      BY <1>3, <2>2, <2>4, <3>1
    <3> QED BY <1>1, <3>2
  <2> QED BY <2>3, <2>4
<1>4. n \in T
  <2> HIDE DEF T
  <2>1. L \in Nat /\ \A k \in 0..L : k \in T /\ k < L => k + 1 \in T
    BY <1>1, <1>3
  <2> HIDE DEF L
  <2>2. 0..L \subseteq T
    BY <1>2, <2>1, TurnInduction
  <2> QED BY <2>2 DEF L
<1> QED BY <1>4

\* Two loops over lists that begin alike agree as far as that.
LEMMA KeepsAgree ==
    ASSUME NEW D, NEW p, NEW q, NEW f, NEW g, Keeps(D, p, f), Keeps(D, q, g),
           Len(p) \in Nat, Len(q) \in Nat, Len(p) <= Len(q), \A i \in 1..Len(p) : p[i] = q[i]
    PROVE  f[Len(p)] = g[Len(p)]
<1> DEFINE L == Len(p)
           T == {k \in Nat : f[k] = g[k]}
<1>1. 0 \in T
  BY DEF Keeps, KeptFrom
<1>2. ASSUME NEW k \in 0..L, k \in T, k < L PROVE k + 1 \in T
  <2>1. k + 1 \in 0..Len(p) /\ k + 1 \in 0..Len(q) /\ k + 1 # 0 /\ (k + 1) - 1 = k
    BY <1>2
  <2>2. f[k + 1] = KeptFrom(D, p, f, k + 1) /\ g[k + 1] = KeptFrom(D, q, g, k + 1)
    BY <2>1 DEF Keeps
  <2>3. p[k + 1] = q[k + 1] /\ f[k] = g[k]
    BY <1>2, <2>1
  <2>4. f[k + 1] = g[k + 1]
    BY <2>1, <2>2, <2>3 DEF KeptFrom
  <2> QED BY <1>2, <2>4
<1>3. L \in T
  <2> HIDE DEF T
  <2>1. L \in Nat /\ \A k \in 0..L : k \in T /\ k < L => k + 1 \in T
    BY <1>2
  <2> HIDE DEF L
  <2>2. 0..L \subseteq T
    BY <1>1, <2>1, TurnInduction
  <2> QED BY <2>1, <2>2
<1> QED BY <1>3

\* The loop that Dropping is.
LEMMA DroppingIsLoop ==
    ASSUME NEW S, NEW D, NEW p \in Seq(S)
    PROVE  \E f : Keeps(D, p, f) /\ Dropping(D, p) = f[Len(p)]
<1> DEFINE f == CHOOSE g : Keeps(D, p, g)
<1>1. Keeps(D, p, f)
  BY KeepsExists
<1>2. Dropping(D, p) = f[Len(p)]
  BY DEF Dropping, Keeps, KeptFrom
<1> QED BY <1>1, <1>2

\* What is dropped is not returned, and everything returned was given.
LEMMA DroppingTypes == ASSUME NEW S, NEW D, NEW p \in Seq(S) PROVE Dropping(D, p) \in Seq(S \ D)
<1>1. PICK f : Keeps(D, p, f) /\ Dropping(D, p) = f[Len(p)]
  BY DroppingIsLoop
<1>2. Len(p) \in 0..Len(p)
  OBVIOUS
<1> QED BY <1>1, <1>2, KeepsTypes

\* One more item.
LEMMA DroppingAppend ==
    ASSUME NEW S, NEW D, NEW p \in Seq(S), NEW x \in S
    PROVE  Dropping(D, Append(p, x)) =
             IF x \in D THEN Dropping(D, p) ELSE Append(Dropping(D, p), x)
<1> DEFINE q == Append(p, x)
<1>1. /\ q \in Seq(S) /\ Len(p) \in Nat /\ Len(q) = Len(p) + 1 /\ q[Len(p) + 1] = x
      /\ \A i \in 1..Len(p) : p[i] = q[i]
  OBVIOUS
<1> HIDE DEF q
<1>2. PICK f : Keeps(D, p, f) /\ Dropping(D, p) = f[Len(p)]
  BY DroppingIsLoop
<1>3. PICK g : Keeps(D, q, g) /\ Dropping(D, q) = g[Len(q)]
  BY <1>1, DroppingIsLoop
<1>4. f[Len(p)] = g[Len(p)]
  BY <1>1, <1>2, <1>3, KeepsAgree
<1>5. /\ Len(q) \in 0..Len(q) /\ Len(q) # 0 /\ Len(q) - 1 = Len(p) /\ q[Len(q)] = x
  BY <1>1
<1>6. Dropping(D, q) = IF x \in D THEN g[Len(p)] ELSE Append(g[Len(p)], x)
  BY <1>3, <1>5 DEF Keeps, KeptFrom
<1>7. Dropping(D, q) = IF x \in D THEN Dropping(D, p) ELSE Append(Dropping(D, p), x)
  BY <1>2, <1>4, <1>6
<1> QED BY <1>7 DEF q

\* A list with nothing to drop stays as it is.
LEMMA DroppingNothing ==
    ASSUME NEW S, NEW D, NEW p \in Seq(S \ D) PROVE Dropping(D, p) = p
<1> DEFINE L == Len(p)
<1>1. PICK f : Keeps(D, p, f) /\ Dropping(D, p) = f[Len(p)]
  BY DroppingIsLoop
<1> DEFINE Same(s, k) == s \in Seq(S \ D) /\ Len(s) = k /\ \A i \in 1..k : s[i] = p[i]
           T == {k \in Nat : Same(f[k], k)}
<1>2. L \in Nat /\ DOMAIN p = 1..L /\ \A k \in 1..L : p[k] \in S \ D
  OBVIOUS
<1>3. 0 \in T
  <2>1. f[0] = <<>>
    BY <1>1, <1>2 DEF Keeps, KeptFrom
  <2>2. <<>> \in Seq(S \ D) /\ Len(<<>>) = 0
    OBVIOUS
  <2>3. Same(f[0], 0)
    BY <2>1, <2>2
  <2> QED BY <2>3
<1>4. ASSUME NEW k \in 0..L, k \in T, k < L PROVE k + 1 \in T
  <2>1. k + 1 \in 0..L /\ k + 1 \in 1..L /\ k + 1 # 0 /\ (k + 1) - 1 = k /\ p[k + 1] \in S \ D
    BY <1>2, <1>4
  <2>2. f[k + 1] = Append(f[k], p[k + 1])
    BY <1>1, <2>1 DEF Keeps, KeptFrom
  <2>3. f[k] \in Seq(S \ D) /\ Len(f[k]) = k /\ \A i \in 1..k : f[k][i] = p[i]
    BY <1>4
  <2>4. f[k + 1] \in Seq(S \ D) /\ Len(f[k + 1]) = k + 1 /\ f[k + 1][k + 1] = p[k + 1]
        /\ \A i \in 1..k : f[k + 1][i] = f[k][i]
    BY <2>1, <2>2, <2>3
  <2>5. \A i \in 1..(k + 1) : i \in 1..k \/ i = k + 1
    BY <1>2, <1>4
  <2>6. Same(f[k + 1], k + 1)
    BY <2>3, <2>4, <2>5
  <2> QED BY <1>2, <1>4, <2>6
<1>5. L \in T
  <2> HIDE DEF T
  <2>1. L \in Nat /\ \A k \in 0..L : k \in T /\ k < L => k + 1 \in T
    BY <1>2, <1>4
  <2> HIDE DEF L
  <2>2. 0..L \subseteq T
    BY <1>3, <2>1, TurnInduction
  <2> QED BY <2>1, <2>2
<1>6. f[L] \in Seq(S \ D) /\ Len(f[L]) = L /\ \A i \in 1..L : f[L][i] = p[i]
  BY <1>5
<1>7. f[L] = p
  BY <1>2, <1>6
<1> QED BY <1>1, <1>7

-----------------------------------------------------------------------------
(* path.Clean, and where a path leads                                      *)

Plain(S) == S \ Nothing

\* path.Clean returns components that were given, without those that say nothing.
LEMMA CleanTypes == ASSUME NEW S, NEW p \in Seq(S) PROVE Clean(p) \in Seq(Plain(S))
BY DroppingTypes DEF Clean, Plain

\* One more component.
LEMMA CleanAppend ==
    ASSUME NEW S, NEW p \in Seq(S), NEW x \in S
    PROVE  Clean(Append(p, x)) = IF x \in Nothing THEN Clean(p) ELSE Append(Clean(p), x)
BY DroppingAppend DEF Clean

\* A path in which every component says something stays as it is.
LEMMA CleanKeeps == ASSUME NEW S, NEW p \in Seq(Plain(S)) PROVE Clean(p) = p
BY DroppingNothing DEF Clean, Plain

\* A path that never goes up leads where path.Clean says.
LEMMA ResolveIsClean ==
    ASSUME NEW S, NEW p \in Seq(S), \A i \in DOMAIN p : p[i] # ".."
    PROVE  Resolve(p) = Clean(p)
<1>1. DOMAIN p = 1..Len(p) /\ Len(p) \in Nat
  OBVIOUS
<1>2. ASSUME NEW f, NEW n \in 0..Len(p)
      PROVE  ResolveFrom(p, f, n) = KeptFrom(Nothing, p, f, n)
  <2>1. n = 0 \/ n \in DOMAIN p
    BY <1>1
  <2> QED BY <2>1 DEF ResolveFrom, KeptFrom, Root
<1>3. \A f : Resolves(p, f) <=> Keeps(Nothing, p, f)
  BY <1>2 DEF Resolves, Keeps
<1>4. PICK f : Keeps(Nothing, p, f) /\ Clean(p) = f[Len(p)]
  BY DroppingIsLoop DEF Clean
<1> DEFINE g == CHOOSE h : Resolves(p, h)
<1>5. Resolve(p) = g[Len(p)]
  BY DEF Resolve, Resolves, ResolveFrom
<1>6. Keeps(Nothing, p, g)
  BY <1>3, <1>4
<1> HIDE DEF g
<1>7. f[Len(p)] = g[Len(p)]
  BY <1>1, <1>4, <1>6, KeepsAgree
<1> QED BY <1>4, <1>5, <1>7

-----------------------------------------------------------------------------
(* What is sent for a path or a name                                       *)

\* A path that is not refused is the one its argument denotes: without "..",
\* cleaned, and not the root.
LEMMA SanitizeResolves ==
    ASSUME NEW S, NEW p \in Seq(S), Sanitize(p) # Refused
    PROVE  /\ Sanitize(p) = Resolve(p) /\ Sanitize(p) = Clean(p)
           /\ Sanitize(p) \in Seq(Plain(S)) /\ Clear(Sanitize(p))
           /\ Len(Sanitize(p)) > 0
<1> DEFINE R == {x \in S : x # ".."}
<1>1. Sanitize(p) = Clean(p) /\ Clean(p) # Root /\ \A i \in DOMAIN p : ~HasTwoDots(p[i])
  BY DEF Sanitize
<1>2. \A i \in DOMAIN p : p[i] # ".."
  BY <1>1 DEF HasTwoDots
<1>3. p \in Seq(R)
  BY <1>2
<1>4. Clean(p) \in Seq(Plain(R)) /\ Clean(p) \in Seq(Plain(S))
  <2> HIDE DEF R
  <2> QED BY <1>3, CleanTypes
<1>5. \A x \in Plain(R) : x \notin Nothing \cup {".."}
  BY DEF Plain
<1>6. Clear(Clean(p))
  BY <1>4, <1>5 DEF Clear
<1>7. Len(Clean(p)) > 0
  BY <1>1, <1>4 DEF Root
<1> QED BY <1>1, <1>2, <1>4, <1>6, <1>7, ResolveIsClean

\* The empty path is the root.
LEMMA EmptyIsRefused == Sanitize(<<"">>) = Refused
<1>1. <<>> \in Seq({""}) /\ "" \in {""} /\ Append(<<>>, "") = <<"">>
  OBVIOUS
<1>2. "" \in Nothing
  BY Zenon DEF Nothing
<1>3. <<>> \in Seq(Plain({""}))
  OBVIOUS
<1>4. Clean(<<"">>) = Clean(<<>>)
  BY <1>1, <1>2, CleanAppend
<1>5. Clean(<<>>) = <<>>
  BY <1>3, CleanKeeps
<1> QED BY <1>4, <1>5 DEF Sanitize, Root

\* The components of a path that is given, and of one that is sent.
LEMMA GivenPaths ==
    \A p \in Paths \cup Dirs : p \in Seq(Components) /\ p \in Seq(STRING) /\ p # Absent
<1>1. ASSUME NEW p \in Paths \cup Dirs PROVE p \in Seq(Components)
  <2>1. p \in Seq(STRING)
    BY PathsAssumption
  <2>2. Range(p) \subseteq Components
    BY DEF Components
  <2>3. \A i \in DOMAIN p : p[i] \in Range(p)
    BY DEF Range
  <2> QED BY <2>1, <2>2, <2>3
<1> QED BY <1>1, PathsAssumption

\* What PathOf yields when it does not refuse: an argument that is missing is
\* made up for by the tools that have a default only.
LEMMA PathOfResolves ==
    ASSUME NEW tool, NEW arg \in PathArgs \cup DirArgs, PathOf(tool, arg) # Refused
    PROVE  /\ PathOf(tool, arg) \in Seq(Plain(Components)) /\ Clear(PathOf(tool, arg))
           /\ Len(PathOf(tool, arg)) > 0
           /\ arg # Absent => PathOf(tool, arg) = Resolve(arg) /\ PathOf(tool, arg) = Clean(arg)
           /\ arg = Absent => tool \in {"list", "mkdir"}
<1>1. CASE arg # Absent
  <2>1. arg \in Seq(Components)
    BY <1>1, GivenPaths DEF PathArgs, DirArgs
  <2>2. PathOf(tool, arg) = Sanitize(arg)
    BY <1>1 DEF PathOf
  <2> QED BY <1>1, <2>1, <2>2, SanitizeResolves
<1>2. CASE arg = Absent
  <2>1. PathOf(tool, arg) = Sanitize(DefaultPath(tool))
    BY <1>2 DEF PathOf
  <2>2. tool \in {"list", "mkdir"}
    BY <2>1, EmptyIsRefused DEF DefaultPath
  <2>3. DefaultPath(tool) = <<"Freebox">>
    BY <2>2 DEF DefaultPath
  <2>4. <<"Freebox">> \in Seq(Components)
    <3>1. "Freebox" \in Components
      BY Zenon DEF Components
    <3> QED BY <3>1
  <2> QED BY <1>2, <2>1, <2>2, <2>3, <2>4, SanitizeResolves
<1> QED BY <1>1, <1>2

\* A name without a separator that is not ".." leads into the directory it is in.
LEMMA NameStays ==
    ASSUME NEW S, NEW parent \in Seq(Plain(S)), Clear(parent), NEW name \in S,
           name # "..", ~HasSeparator(name)
    PROVE  IsPrefix(parent, Resolve(parent \o Split(name)))
<1> DEFINE q == Append(parent, name)
<1>1. parent \in Seq(S)
  BY DEF Plain
<1>2. parent \o Split(name) = q
  <2>1. Split(name) = <<name>>
    BY DEF Split, HasSeparator
  <2> QED BY <1>1, <2>1, AppendIsConcat
<1>3. q \in Seq(S) /\ \A i \in DOMAIN q : q[i] # ".."
  BY <1>1 DEF Clear
<1>4. Resolve(q) = Clean(q)
  <2> HIDE DEF q
  <2> QED BY <1>3, ResolveIsClean
<1>5. Clean(q) = IF name \in Nothing THEN Clean(parent) ELSE Append(Clean(parent), name)
  BY <1>1, CleanAppend
<1>6. Clean(parent) = parent
  BY CleanKeeps
<1>7. IsPrefix(parent, parent) /\ IsPrefix(parent, Append(parent, name))
  BY <1>1 DEF IsPrefix
<1>8. CASE name \in Nothing
  BY <1>2, <1>4, <1>5, <1>6, <1>7, <1>8
<1>9. CASE name \notin Nothing
  BY <1>2, <1>4, <1>5, <1>6, <1>7, <1>9
<1> QED BY <1>8, <1>9

-----------------------------------------------------------------------------
(* Calls and their requests                                                *)

UpdateTools == {"connection_config_set", "samba_config_set", "download_config_set",
                "wifi_toggle", "lcd_brightness", "nat_toggle", "download_toggle",
                "wifi_ssid_toggle", "lan_host_rename", "lan_host_update"}
DeletionTools == {"nat_delete", "download_delete", "vm_delete", "dhcp_static_delete",
                  "route_delete"}
CreationTools == {"nat_create", "dhcp_static_create", "wol", "download_add", "route_add",
                  "reboot"}

\* The tools of partial updates and of deletions.
LEMMA TableTools == DOMAIN Updates = UpdateTools /\ DOMAIN Deletions = DeletionTools
<1>1. DOMAIN Updates = UpdateTools
  BY DEF Updates, UpdateTools
<1>2. DOMAIN Deletions = DeletionTools
  BY DEF Deletions, DeletionTools
<1> QED BY <1>1, <1>2

\* Every call is of one of the tools.
LEMMA ToolsOfCalls ==
    ASSUME NEW c \in Calls
    PROVE  /\ c.tool \in FileOps \cup UpdateTools \cup DeletionTools \cup CreationTools
           /\ c.tool \in FileOps => c \in FileCalls
           /\ c.tool \in UpdateTools \cup DeletionTools => c \in BoxCalls
           /\ c.tool \in CreationTools => c \in Creations
<1>1. CASE c \in FileCalls
  <2>1. c.tool \in FileOps
    BY <1>1 DEF FileCalls, FileOps
  <2> QED BY <1>1, <2>1 DEF FileOps, UpdateTools, DeletionTools, CreationTools
<1>2. CASE c \in BoxCalls
  <2>1. c.tool \in UpdateTools \cup DeletionTools
    BY <1>2, TableTools DEF BoxCalls
  <2> QED BY <1>2, <2>1 DEF FileOps, UpdateTools, DeletionTools, CreationTools
<1>3. CASE c \in Creations
  <2>1. c.tool \in CreationTools
    BY <1>3 DEF Creations, CreationTools
  <2> QED BY <1>3, <2>1 DEF FileOps, UpdateTools, DeletionTools, CreationTools
<1> QED BY <1>1, <1>2, <1>3 DEF Calls

\* The handler of each tool.
LEMMA Handlers ==
    ASSUME NEW c
    PROVE  /\ c.tool \in {"info", "list", "rm"} => Request(c) = OnePath(c)
           /\ c.tool \in {"mv", "cp"} => Request(c) = Transfer(c)
           /\ c.tool = "mkdir" => Request(c) = MakeDirectory(c)
           /\ c.tool = "rename" => Request(c) = Rename(c)
           /\ c.tool = "disk_create" => Request(c) = CreateDisk(c)
           /\ c.tool = "vm_create" => Request(c) = CreateVM(c)
           /\ c.tool \in UpdateTools => Request(c) = Update(c)
           /\ c.tool \in DeletionTools => Request(c) = Delete(c)
           /\ c.tool = "nat_create" => Request(c) = CreateRule(c)
           /\ c.tool = "dhcp_static_create" => Request(c) = CreateLease(c)
           /\ c.tool = "wol" => Request(c) = WakeUp(c)
           /\ c.tool = "download_add" => Request(c) = AddDownload(c)
           /\ c.tool = "route_add" => Request(c) = AddRoute
           /\ c.tool = "reboot" => Request(c) = Reboot
BY TableTools DEF Request, UpdateTools, DeletionTools

\* The arguments of the file tools.
LEMMA FileArguments ==
    ASSUME NEW c \in FileCalls
    PROVE  /\ c.tool \in FileOps \ {"mv", "cp"} => c.path \in PathArgs \cup DirArgs
           /\ c.tool \in {"mv", "cp"} => c.srcs \in Seq(Paths \cup {NotText}) /\ c.dst \in DirArgs
           /\ c.tool \in {"mkdir", "rename"} \cup DiskOps => c.name \in NameArgs
           /\ c.tool = "vm_create" => c.cd \in DirArgs
<1> DEFINE Items == Paths \cup {NotText}
<1>1. BoundedSeq(Items, 2) \subseteq Seq(Items)
  <2> HIDE DEF Items
  <2>1. ASSUME NEW s \in BoundedSeq(Items, 2) PROVE s \in Seq(Items)
    <3>1. PICK m \in 0..2 : s \in [1..m -> Items]
      BY DEF BoundedSeq, SeqOf
    <3> QED BY <3>1
  <2> QED BY <2>1
<1>2. c.tool \in {"mv", "cp"} => c.srcs \in Seq(Items) /\ c.dst \in DirArgs
  BY <1>1 DEF FileCalls
<1>3. c.tool \in FileOps \ {"mv", "cp"} => c.path \in PathArgs \cup DirArgs
  BY DEF FileCalls, FileOps
<1>4. c.tool \in {"mkdir", "rename"} \cup DiskOps => c.name \in NameArgs
  BY DEF FileCalls, DiskOps
<1>5. c.tool = "vm_create" => c.cd \in DirArgs
  BY DEF FileCalls
<1> QED BY <1>2, <1>3, <1>4, <1>5

\* The items that are texts are paths that were given.
LEMMA SourcesArePaths ==
    ASSUME NEW srcs \in Seq(Paths \cup {NotText}) PROVE GetStringSlice(srcs) \in Seq(Paths)
<1>1. GetStringSlice(srcs) \in Seq((Paths \cup {NotText}) \ {NotText})
  BY DroppingTypes DEF GetStringSlice
<1>2. (Paths \cup {NotText}) \ {NotText} = Paths
  BY PathsAssumption
<1> QED BY <1>1, <1>2

\* What is sent for the path arg of a tool that has a default, or has none.
Leads(arg, q) ==
    /\ q \in Seq(Plain(Components)) /\ Clear(q) /\ Len(q) > 0
    /\ arg # Absent => q = Resolve(arg) /\ q = Clean(arg)

\* Such a path is sent as Encoded says.
LEMMA LeadsIsEncoded ==
    ASSUME NEW arg, NEW q, Leads(arg, q)
    PROVE  /\ Encode(q) \in Encoded /\ Encode(q).b64 = q
           /\ q \in Seq(Components) /\ Len(q) > 0
<1>1. q \in Seq(Components)
  BY DEF Leads, Plain
<1> QED BY <1>1 DEF Leads, Encode, Encoded

\* info, list and rm.
LEMMA OnePathRequests ==
    ASSUME NEW c \in FileCalls, c.tool \in {"info", "list", "rm"}, OnePath(c) # Refused
    PROVE  \E q : /\ Leads(c.path, q)
                  /\ OnePath(c) = [op |-> c.tool, files |-> <<Encode(q)>>]
                  /\ c.path = Absent => c.tool = "list"
<1> DEFINE q == PathOf(c.tool, c.path)
<1>1. q # Refused /\ OnePath(c) = [op |-> c.tool, files |-> <<Encode(q)>>]
  BY DEF OnePath
<1>2. c.path \in PathArgs \cup DirArgs
  BY FileArguments DEF FileOps
<1>3. Leads(c.path, q) /\ (c.path = Absent => c.tool \in {"list", "mkdir"})
  BY <1>1, <1>2, PathOfResolves DEF Leads
<1> HIDE DEF q
<1> QED BY <1>1, <1>3

\* Names that are sent: a missing one is the empty name.
SentNames == FileNames \cup {""}

\* mkdir and rename.
LEMMA NameRequests ==
    ASSUME NEW c \in FileCalls, c.tool \in {"mkdir", "rename"}, Request(c) # Refused
    PROVE  \E q, name :
             /\ Leads(c.path, q)
             /\ Request(c) = [op |-> c.tool, files |-> <<Encode(q)>>, name |-> name]
             /\ c.path = Absent => c.tool = "mkdir"
             /\ name \in SentNames /\ name # ".." /\ ~HasSeparator(name)
<1> DEFINE q == PathOf(c.tool, c.path)
<1>1. c.path \in PathArgs \cup DirArgs /\ c.name \in NameArgs
  BY FileArguments DEF FileOps
<1>2. CASE c.tool = "mkdir"
  <2> DEFINE name == IF c.name = Absent THEN "" ELSE c.name
  <2>1. Request(c) = MakeDirectory(c)
    BY <1>2, Handlers
  <2>2. /\ q # Refused /\ ~HasDotOrSeparator(name)
        /\ Request(c) = [op |-> "mkdir", files |-> <<Encode(q)>>, name |-> name]
    BY <1>2, <2>1 DEF MakeDirectory
  <2>3. Leads(c.path, q)
    BY <1>1, <2>2, PathOfResolves DEF Leads
  <2>4. name \in SentNames
    BY <1>1 DEF NameArgs, SentNames
  <2> HIDE DEF q, name
  <2>5. name # ".." /\ ~HasSeparator(name)
    BY <2>2 DEF HasDotOrSeparator, HasTwoDots
  <2> QED BY <1>2, <2>2, <2>3, <2>4, <2>5
<1>3. CASE c.tool = "rename"
  <2>1. Request(c) = Rename(c)
    BY <1>3, Handlers
  <2>2. /\ q # Refused /\ c.name # Absent /\ ~HasSeparator(c.name) /\ ~HasTwoDots(c.name)
        /\ Request(c) = [op |-> "rename", files |-> <<Encode(q)>>, name |-> c.name]
    BY <1>3, <2>1 DEF Rename
  <2>3. Leads(c.path, q) /\ (c.path = Absent => c.tool \in {"list", "mkdir"})
    BY <1>1, <2>2, PathOfResolves DEF Leads
  <2>4. c.name \in SentNames
    BY <1>1, <2>2 DEF NameArgs, SentNames
  <2> HIDE DEF q
  <2>5. c.name # ".."
    BY <2>2 DEF HasTwoDots
  <2> QED BY <1>3, <2>2, <2>3, <2>4, <2>5
<1> QED BY <1>2, <1>3

\* vm_create: the image to mount is the one that was given, if one was.
LEMMA MachineRequests ==
    ASSUME NEW c \in FileCalls, c.tool = "vm_create", Request(c) # Refused
    PROVE  /\ ~DiskRefused(c)
           /\ Request(c).op = c.tool /\ Request(c).name = c.name
           /\ Request(c).files = <<Encode(DiskPath(c))>>
           /\ Request(c).cd # {} => Request(c).cd = {Encode(Resolve(c.cd))}
<1> DEFINE given == c.cd \notin {Absent, <<"">>}
           cd == IF c.cd \in {Absent, <<"">>} THEN {} ELSE {Sanitize(c.cd)}
           sentCd == {Encode(p) : p \in cd}
           cloudinit == c.userdata \notin {Absent, ""}
<1>1. Request(c) = CreateVM(c)
  BY Handlers
<1>2. Request(c) = IF DiskRefused(c) \/ c.userdata = "long" \/ cd = {Refused} THEN Refused
                   ELSE [op |-> "vm_create", files |-> <<Encode(DiskPath(c))>>,
                         name |-> c.name, cd |-> sentCd, cloudinit |-> cloudinit]
  BY <1>1 DEF CreateVM
<1>3. ~given => sentCd = {}
  OBVIOUS
<1>4. given => cd = {Sanitize(c.cd)} /\ sentCd = {Encode(Sanitize(c.cd))}
  OBVIOUS
<1>5. given /\ Sanitize(c.cd) # Refused => Sanitize(c.cd) = Resolve(c.cd)
  BY FileArguments, GivenPaths, SanitizeResolves DEF DirArgs
<1> HIDE DEF cd, sentCd, cloudinit, given
<1>6. /\ ~DiskRefused(c) /\ cd # {Refused}
      /\ Request(c) = [op |-> "vm_create", files |-> <<Encode(DiskPath(c))>>,
                       name |-> c.name, cd |-> sentCd, cloudinit |-> cloudinit]
  BY <1>2
<1>7. Request(c).cd = sentCd
  BY <1>6
<1>8. sentCd # {} => sentCd = {Encode(Resolve(c.cd))}
  BY <1>3, <1>4, <1>5, <1>6
<1> QED BY <1>6, <1>7, <1>8

\* disk_create and vm_create: the file of the disk is in the directory of the call.
LEMMA DiskRequests ==
    ASSUME NEW c \in FileCalls, c.tool \in DiskOps, Request(c) # Refused
    PROVE  /\ c.path # Absent /\ c.name \in FileNames /\ ValidDiskName(c.name)
           /\ Leads(c.path, Resolve(c.path))
           /\ Request(c).op = c.tool /\ Request(c).name = c.name
           /\ Request(c).files = <<Encode(Resolve(c.path) \o <<c.name>>)>>
<1> DEFINE q == PathOf(c.tool, c.path)
<1>1. c.path \in PathArgs \cup DirArgs /\ c.name \in NameArgs
  BY FileArguments DEF FileOps, DiskOps
<1>2. ~DiskRefused(c) /\ Request(c).op = c.tool /\ Request(c).name = c.name
      /\ Request(c).files = <<Encode(DiskPath(c))>>
  <2>1. CASE c.tool = "disk_create"
    <3>1. Request(c) = CreateDisk(c)
      BY <2>1, Handlers
    <3> QED BY <2>1, <3>1 DEF CreateDisk
  <2>2. CASE c.tool = "vm_create"
    BY <2>2, MachineRequests
  <2> QED BY <2>1, <2>2 DEF DiskOps
<1>3. q # Refused /\ c.name \in FileNames /\ ValidDiskName(c.name)
  BY <1>1, <1>2 DEF DiskRefused, NameArgs
<1>4. Leads(c.path, q) /\ c.path # Absent
  BY <1>1, <1>3, PathOfResolves DEF Leads, DiskOps
<1>5. q = Resolve(c.path) /\ DiskPath(c) = Resolve(c.path) \o <<c.name>>
  BY <1>4 DEF Leads, DiskPath
<1> HIDE DEF q
<1> QED BY <1>2, <1>3, <1>4, <1>5

\* mv and cp: every source is one of the texts that were given.
LEMMA TransferRequests ==
    ASSUME NEW c \in FileCalls, c.tool \in {"mv", "cp"}, Request(c) # Refused
    PROVE  /\ c.dst # Absent /\ Leads(c.dst, Resolve(c.dst))
           /\ Request(c).op = c.tool /\ Request(c).dst = Encode(Resolve(c.dst))
           /\ LET srcs == Sources(c)
              IN  /\ srcs \in Seq(Paths)
                  /\ \A i \in DOMAIN srcs : Leads(srcs[i], Resolve(srcs[i]))
                  /\ Request(c).files = [i \in DOMAIN srcs |-> Encode(Resolve(srcs[i]))]
<1> DEFINE q == PathOf(c.tool, c.dst)
           srcs == Sources(c)
           src(i) == PathOf(c.tool, srcs[i])
<1>1. srcs \in Seq(Paths) /\ c.dst \in PathArgs \cup DirArgs
  BY FileArguments, SourcesArePaths DEF Sources
<1>2. Request(c) = Transfer(c)
  BY Handlers
<1>3. /\ q # Refused /\ \A i \in DOMAIN srcs : src(i) # Refused
      /\ Request(c).op = c.tool /\ Request(c).dst = Encode(q)
      /\ Request(c).files = [i \in DOMAIN srcs |-> Encode(src(i))]
  BY <1>2 DEF Transfer
<1>4. Leads(c.dst, q) /\ c.dst # Absent
  BY <1>1, <1>3, PathOfResolves DEF Leads
<1>5. ASSUME NEW i \in DOMAIN srcs
      PROVE  Leads(srcs[i], src(i)) /\ src(i) = Resolve(srcs[i])
  <2>1. srcs[i] \in Paths
    BY <1>1
  <2>2. srcs[i] \in PathArgs \cup DirArgs /\ srcs[i] # Absent
    BY <2>1, GivenPaths DEF PathArgs
  <2> QED BY <1>3, <2>2, PathOfResolves DEF Leads
<1>6. q = Resolve(c.dst)
  BY <1>4 DEF Leads
<1> HIDE DEF q, src, srcs
<1>7. /\ srcs \in Seq(Paths) /\ \A i \in DOMAIN srcs : Leads(srcs[i], Resolve(srcs[i]))
      /\ Request(c).files = [i \in DOMAIN srcs |-> Encode(Resolve(srcs[i]))]
  BY <1>1, <1>3, <1>5
<1> QED BY <1>3, <1>4, <1>6, <1>7 DEF srcs

\* Partial updates: what goes to the object is what was read of the arguments.
LEMMA UpdateRequests ==
    ASSUME NEW c, c.tool \in UpdateTools, Request(c) # Refused
    PROVE  LET by == Updates[c.tool].by
               given == {f \in DOMAIN by : Read(by[f], c.args[f]) # {}}
           IN  /\ \A f \in given : Read(by[f], c.args[f]) # {Refused}
               /\ Request(c).op = "put"
               /\ Request(c).object = Object(Updates[c.tool].of, c.id)
               /\ Request(c).body = [f \in given |-> CHOOSE x \in Read(by[f], c.args[f]) : TRUE]
<1> DEFINE by == Updates[c.tool].by
           given == {f \in DOMAIN by : Read(by[f], c.args[f]) # {}}
           refused == \/ \E f \in given : Read(by[f], c.args[f]) = {Refused}
                      \/ given = {} /\ c.tool \in RefuseNothing
                      \/ c.tool = "lan_host_update" /\ GetString(c.id, "") = ""
           object == Object(Updates[c.tool].of, c.id)
           body == [f \in given |-> CHOOSE x \in Read(by[f], c.args[f]) : TRUE]
<1>1. Request(c) = Update(c)
  BY Handlers
<1>2. Request(c) = IF refused THEN Refused ELSE [op |-> "put", object |-> object, body |-> body]
  BY <1>1, Zenon DEF Update
<1>3. ~refused /\ Request(c).op = "put" /\ Request(c).object = object /\ Request(c).body = body
  <2> HIDE DEF refused, object, body
  <2> QED BY <1>2
<1>4. \A f \in given : Read(by[f], c.args[f]) # {Refused}
  BY <1>3, Zenon
<1> QED BY <1>3, <1>4, Zenon

\* Deletions: the object the id leads to.
LEMMA DeleteRequests ==
    ASSUME NEW c, c.tool \in DeletionTools
    PROVE  /\ Request(c).op = "delete"
           /\ Request(c).object = Object(Deletions[c.tool].of, c.id)
<1>1. Request(c) = Delete(c)
  BY Handlers
<1> QED BY <1>1 DEF Delete

\* Creations.
LEMMA CreationRequests ==
    ASSUME NEW c, c.tool \in CreationTools, Request(c) # Refused
    PROVE  /\ Request(c).op \in {"nat_create", "lease_create", "wol", "download_add",
                                 "route_add", "reboot"}
           /\ Request(c).op = "nat_create" => c.tool = "nat_create"
<1>1. CASE c.tool = "nat_create"
  <2> DEFINE lan == GetInt(c.lan, 0)
             start == GetInt(c.start, 0)
             end == IF c.end = Absent THEN start ELSE ToInt(c.end)
             refused == ~ValidPrivateIP(c.ip) \/ ~ValidPorts(lan, start, end)
             enabled == Switch(c.enabled) # {FALSE}
  <2>1. Request(c) = CreateRule(c)
    BY <1>1, Handlers
  <2>2. Request(c) = IF refused THEN Refused
                     ELSE [op |-> "nat_create", lan |-> lan, start |-> start, end |-> end,
                           enabled |-> enabled]
    BY <2>1, Zenon DEF CreateRule
  <2> HIDE DEF lan, start, end, refused, enabled
  <2>3. Request(c).op = "nat_create"
    BY <2>2
  <2> QED BY <1>1, <2>3
<1>2. CASE c.tool = "dhcp_static_create"
  <2>1. Request(c).op = "lease_create"
    BY <1>2, Handlers DEF CreateLease
  <2> QED BY <2>1
<1>3. CASE c.tool = "wol"
  <2>1. Request(c).op = "wol"
    BY <1>3, Handlers DEF WakeUp
  <2> QED BY <2>1
<1>4. CASE c.tool = "download_add"
  <2> DEFINE dir == IF c.dir \in {Absent, <<"">>} THEN <<>> ELSE <<Encode(c.dir)>>
  <2>1. Request(c) = IF ~ValidDownload(c.url) THEN Refused
                     ELSE [op |-> "download_add", url |-> c.url, dir |-> dir]
    BY <1>4, Handlers DEF AddDownload
  <2> HIDE DEF dir
  <2>2. Request(c).op = "download_add"
    BY <2>1
  <2> QED BY <2>2
<1>5. CASE c.tool \in {"route_add", "reboot"}
  <2>1. Request(c).op = c.tool
    BY <1>5, Handlers DEF AddRoute, Reboot
  <2> QED BY <1>5, <2>1
<1> QED BY <1>1, <1>2, <1>3, <1>4, <1>5 DEF CreationTools

\* Which tool a request came from.
LEMMA RequestOps ==
    ASSUME NEW c \in Calls, Request(c) # Refused
    PROVE  /\ Request(c).op \in FileOps => c \in FileCalls /\ Request(c).op = c.tool
           /\ Request(c).op = "put" => c.tool \in UpdateTools
           /\ Request(c).op = "delete" => c.tool \in DeletionTools
           /\ Request(c).op = "nat_create" => c.tool = "nat_create"
           /\ Request(c).op # "none"
<1>1. CASE c.tool \in FileOps
  <2>1. c \in FileCalls
    BY <1>1, ToolsOfCalls
  <2>2. Request(c).op = c.tool
    <3>1. CASE c.tool \in {"info", "list", "rm"}
      BY <2>1, <3>1, Handlers, OnePathRequests
    <3>2. CASE c.tool \in {"mkdir", "rename"}
      <4>1. PICK q, name :
              Request(c) = [op |-> c.tool, files |-> <<Encode(q)>>, name |-> name]
        BY <2>1, <3>2, NameRequests, Zenon
      <4> QED BY <4>1
    <3>3. CASE c.tool \in DiskOps
      BY <2>1, <3>3, DiskRequests
    <3>4. CASE c.tool \in {"mv", "cp"}
      BY <2>1, <3>4, TransferRequests
    <3> QED BY <1>1, <3>1, <3>2, <3>3, <3>4 DEF FileOps, DiskOps
  <2> QED BY <1>1, <2>1, <2>2 DEF FileOps
<1>2. CASE c.tool \in UpdateTools
  BY <1>2, UpdateRequests DEF FileOps
<1>3. CASE c.tool \in DeletionTools
  BY <1>3, DeleteRequests DEF FileOps
<1>4. CASE c.tool \in CreationTools
  <2>1. Request(c).op \in {"nat_create", "lease_create", "wol", "download_add", "route_add",
                          "reboot"}
        /\ (Request(c).op = "nat_create" => c.tool = "nat_create")
    BY <1>4, CreationRequests
  <2> QED BY <2>1 DEF FileOps
<1> QED BY <1>1, <1>2, <1>3, <1>4, ToolsOfCalls

\* The paths in a request are encoded and clean.
LEMMA FilesAreEncoded ==
    ASSUME NEW c \in Calls, Request(c) # Refused, Request(c).op \in FileOps
    PROVE  Request(c).files \in Seq(Encoded)
<1>1. c \in FileCalls /\ c.tool \in FileOps
  BY RequestOps
<1>2. CASE c.tool \in {"info", "list", "rm"}
  <2>1. PICK q : Leads(c.path, q) /\ Request(c).files = <<Encode(q)>>
    BY <1>1, <1>2, Handlers, OnePathRequests
  <2> QED BY <2>1, LeadsIsEncoded
<1>3. CASE c.tool \in {"mkdir", "rename"}
  <2>1. PICK q, name :
          /\ Leads(c.path, q)
          /\ Request(c) = [op |-> c.tool, files |-> <<Encode(q)>>, name |-> name]
    BY <1>1, <1>3, NameRequests, Zenon
  <2>2. Request(c).files = <<Encode(q)>>
    BY <2>1
  <2> QED BY <2>1, <2>2, LeadsIsEncoded
<1>4. CASE c.tool \in DiskOps
  <2> DEFINE q == Resolve(c.path)
             path == q \o <<c.name>>
  <2>1. /\ Leads(c.path, q) /\ Request(c).files = <<Encode(path)>>
        /\ ValidDiskName(c.name) /\ c.name \in Components
    BY <1>1, <1>4, DiskRequests DEF Components
  <2> HIDE DEF q
  <2>2. q \in Seq(Components) /\ Clear(q)
    BY <2>1 DEF Leads, Plain
  <2>3. c.name \notin Nothing /\ c.name # ".."
    BY <2>1, Zenon DEF ValidDiskName, Nothing
  <2>4. path \in Seq(Components) /\ Clear(path)
    BY <2>1, <2>2, <2>3 DEF Clear
  <2>5. Encode(path) \in Encoded
    BY <2>4 DEF Encode, Encoded
  <2> QED BY <2>1, <2>5
<1>5. CASE c.tool \in {"mv", "cp"}
  <2>1. /\ Sources(c) \in Seq(Paths)
        /\ \A i \in DOMAIN Sources(c) : Encode(Resolve(Sources(c)[i])) \in Encoded
        /\ Request(c).files = [i \in DOMAIN Sources(c) |-> Encode(Resolve(Sources(c)[i]))]
    BY <1>1, <1>5, TransferRequests, LeadsIsEncoded
  <2> QED BY <2>1
<1> QED BY <1>1, <1>2, <1>3, <1>4, <1>5 DEF FileOps, DiskOps

-----------------------------------------------------------------------------
(* The invariant                                                           *)

\* Before the first call nothing is sent and the box is as it was.
LEMMA InitIInv == Init => IInv
BY DEF Init, IInv, TypeOK, SentInv, NotSent, FileOps, OldSettings

\* Only Send makes a request, only the box's steps change the box.
LEMMA StepIInv == ASSUME IInv, [Next]_vars PROVE IInv'
<1> USE DEF IInv, TypeOK, SentInv
<1>1. CASE Refuse
  <2>1. PICK c \in Calls : Request(c) = Refused /\ call' = c
    BY <1>1 DEF Refuse
  <2>2. call' # NoCall
    BY <2>1, ToolsOfCalls
       DEF NoCall, FileOps, UpdateTools, DeletionTools, CreationTools
  <2> QED BY <1>1, <2>2 DEF Refuse
<1>2. CASE Send
  <2>1. PICK c \in Calls : Request(c) # Refused /\ call' = c /\ sent' = Request(c)
    BY <1>2 DEF Send
  <2>2. call' # NoCall
    BY <2>1, ToolsOfCalls
       DEF NoCall, FileOps, UpdateTools, DeletionTools, CreationTools
  <2>3. sent' # NotSent
    BY <2>1, RequestOps DEF NotSent
  <2>4. sent'.op \in FileOps => sent'.files \in Seq(Encoded)
    BY <2>1, FilesAreEncoded
  <2> QED BY <1>2, <2>1, <2>2, <2>3, <2>4 DEF Send
<1>3. CASE BoxUpdates
  BY <1>3 DEF BoxUpdates
<1>4. CASE BoxDeletes
  BY <1>4 DEF BoxDeletes
<1>5. CASE Answer
  BY <1>5 DEF Answer
<1>6. CASE UNCHANGED vars
  BY <1>6 DEF vars
<1> QED BY <1>1, <1>2, <1>3, <1>4, <1>5, <1>6 DEF Next

\* What leaves for the box is what the handler makes of the call's arguments, every
\* path in it is encoded and clean, and the box is as it was until it has run it.
THEOREM RequestInvariant == Spec => []IInv
<1>1. IInv /\ [Next]_vars => IInv'
  BY StepIInv
<1> QED BY InitIInv, <1>1, PTL DEF Spec

-----------------------------------------------------------------------------
(* Files                                                                   *)

\* Where a request comes from.
LEMMA SentForCall ==
    ASSUME IInv, sent.op # "none"
    PROVE  call \in Calls /\ sent = Request(call) /\ Request(call) # Refused
BY DEF IInv, TypeOK, SentInv, NotSent

\* A request for files comes from a call of one of the file tools.
LEMMA SentForFiles ==
    ASSUME IInv, sent.op \in FileOps
    PROVE  /\ call \in FileCalls /\ call.tool = sent.op /\ call.tool \in FileOps
           /\ sent = Request(call) /\ Request(call) # Refused
<1>1. sent.op # "none"
  BY DEF FileOps
<1> QED BY <1>1, SentForCall, RequestOps

\* The tools of one path.
LEMMA SentForPath ==
    ASSUME IInv, sent.op \in FileOps \ ({"mv", "cp"} \cup DiskOps)
    PROVE  \E q : /\ Leads(call.path, q) /\ sent.files = <<Encode(q)>>
                  /\ call.path = Absent => sent.op \in {"list", "mkdir"}
<1>1. /\ call \in FileCalls /\ call.tool = sent.op /\ sent = Request(call)
      /\ Request(call) # Refused
  BY SentForFiles
<1>2. CASE call.tool \in {"info", "list", "rm"}
  <2>1. PICK q : /\ Leads(call.path, q)
                 /\ OnePath(call) = [op |-> call.tool, files |-> <<Encode(q)>>]
                 /\ call.path = Absent => call.tool = "list"
    BY <1>1, <1>2, Handlers, OnePathRequests
  <2>2. sent.files = <<Encode(q)>>
    BY <1>1, <1>2, <2>1, Handlers
  <2> QED BY <1>1, <2>1, <2>2
<1>3. CASE call.tool \in {"mkdir", "rename"}
  <2>1. PICK q, name :
          /\ Leads(call.path, q)
          /\ Request(call) = [op |-> call.tool, files |-> <<Encode(q)>>, name |-> name]
          /\ call.path = Absent => call.tool = "mkdir"
    BY <1>1, <1>3, NameRequests, Zenon
  <2>2. sent.files = <<Encode(q)>>
    BY <1>1, <2>1
  <2> QED BY <1>1, <2>1, <2>2
<1> QED BY <1>1, <1>2, <1>3 DEF FileOps, DiskOps

\* The file of a disk is where the directory and the name of the call lead.
LEMMA DiskLeads ==
    ASSUME NEW c \in FileCalls, c.tool \in DiskOps, Request(c) # Refused
    PROVE  Resolve(c.path \o <<c.name>>) = Resolve(c.path) \o <<c.name>>
<1>1. /\ c.path \in PathArgs \cup DirArgs /\ c.path # Absent /\ c.name \in FileNames
      /\ ValidDiskName(c.name) /\ Leads(c.path, Resolve(c.path))
  BY FileArguments, DiskRequests DEF FileOps, DiskOps
<1> DEFINE p == c.path
           q == Append(p, c.name)
<1>2. p \in Seq(Components) /\ c.name \in Components
  BY <1>1, GivenPaths DEF PathArgs, DirArgs, Components
<1>3. Clean(p) = Resolve(p) /\ Clean(p) \in Seq(Plain(Components))
  BY <1>1 DEF Leads
<1>4. c.name \notin Nothing /\ c.name # ".."
  BY <1>1, Zenon DEF ValidDiskName, Nothing
<1>5. \A i \in DOMAIN p : p[i] # ".."
  <2>1. PathOf(c.tool, p) # Refused
    <3>1. CASE c.tool = "disk_create"
      BY <3>1, Handlers DEF CreateDisk, DiskRefused
    <3>2. CASE c.tool = "vm_create"
      BY <3>2, MachineRequests DEF DiskRefused
    <3> QED BY <3>1, <3>2 DEF DiskOps
  <2> QED BY <1>1, <2>1 DEF PathOf, Sanitize, HasTwoDots
<1>6. q \in Seq(Components) /\ \A i \in DOMAIN q : q[i] # ".."
  BY <1>2, <1>4, <1>5
<1>7. Resolve(q) = Clean(q)
  <2> HIDE DEF q
  <2> QED BY <1>6, ResolveIsClean
<1>8. Clean(q) = Append(Clean(p), c.name)
  BY <1>2, <1>4, CleanAppend
<1>9. q = p \o <<c.name>>
  BY <1>2, AppendIsConcat
<1>10. Append(Clean(p), c.name) = Clean(p) \o <<c.name>>
  <2>1. Clean(p) \in Seq(Components)
    BY <1>3 DEF Plain
  <2> QED BY <1>2, <2>1, AppendIsConcat
<1> HIDE DEF q
<1> QED BY <1>3, <1>7, <1>8, <1>9, <1>10

\* The paths of the tools of several paths, of a disk and of one path.
LEMMA PathsOfCalls ==
    ASSUME NEW c
    PROVE  /\ c.tool \in {"mv", "cp"} => PathsOf(c) = Sources(c)
           /\ c.tool \in DiskOps /\ c.path # Absent =>
                PathsOf(c) = <<c.path \o <<c.name>>>>
           /\ c.tool \notin {"mv", "cp"} \cup DiskOps => PathsOf(c) = <<c.path>>
<1> DEFINE disk == <<IF c.path = Absent THEN Absent ELSE c.path \o <<c.name>>>>
           srcs == Sources(c)
           path == <<c.path>>
<1>1. PathsOf(c) = CASE c.tool \in {"mv", "cp"} -> srcs
                     [] c.tool \in DiskOps -> disk
                     [] OTHER -> path
  BY DEF PathsOf
<1>2. c.path # Absent => disk = <<c.path \o <<c.name>>>>
  OBVIOUS
<1> HIDE DEF disk, srcs, path
<1>3. /\ c.tool \in {"mv", "cp"} => PathsOf(c) = srcs
      /\ c.tool \in DiskOps => PathsOf(c) = disk
      /\ c.tool \notin {"mv", "cp"} \cup DiskOps => PathsOf(c) = path
  BY <1>1 DEF DiskOps
<1> QED BY <1>2, <1>3 DEF srcs, path

\* From the invariant: what is sent for files.
LEMMA FilesAreNamed == IInv => NamedPathsAreUsed
<1> SUFFICES ASSUME IInv, sent.op \in FileOps
             PROVE  /\ Len(sent.files) = Len(PathsOf(call))
                    /\ \A i \in DOMAIN sent.files :
                         PathsOf(call)[i] # Absent =>
                           sent.files[i] = Encode(Resolve(PathsOf(call)[i]))
                    /\ sent.op \in {"mv", "cp"} => sent.dst = Encode(Resolve(call.dst))
                    /\ sent.op = "vm_create" /\ sent.cd # {} =>
                         sent.cd = {Encode(Resolve(call.cd))}
  BY DEF NamedPathsAreUsed
<1>1. /\ call \in FileCalls /\ call.tool = sent.op /\ sent = Request(call)
      /\ Request(call) # Refused
  BY SentForFiles
<1>2. CASE sent.op \in {"mv", "cp"}
  <2>1. PathsOf(call) = Sources(call)
    BY <1>1, <1>2, PathsOfCalls
  <2>2. /\ sent.dst = Encode(Resolve(call.dst)) /\ Sources(call) \in Seq(Paths)
        /\ sent.files = [i \in DOMAIN Sources(call) |-> Encode(Resolve(Sources(call)[i]))]
    BY <1>1, <1>2, TransferRequests
  <2>3. sent.op # "vm_create"
    BY <1>2
  <2>4. Len(sent.files) = Len(Sources(call))
    BY <2>2
  <2>5. \A i \in DOMAIN sent.files : sent.files[i] = Encode(Resolve(Sources(call)[i]))
    BY <2>2
  <2> QED BY <2>1, <2>2, <2>3, <2>4, <2>5
<1>3. CASE sent.op \in DiskOps
  <2>1. call.path # Absent /\ sent.files = <<Encode(Resolve(call.path) \o <<call.name>>)>>
    BY <1>1, <1>3, DiskRequests
  <2>2. PathsOf(call) = <<call.path \o <<call.name>>>>
    BY <1>1, <1>3, <2>1, PathsOfCalls
  <2> DEFINE path == call.path \o <<call.name>>
  <2>3. sent.files = <<Encode(Resolve(path))>> /\ PathsOf(call) = <<path>>
    BY <1>1, <1>3, <2>1, <2>2, DiskLeads
  <2>4. sent.op = "vm_create" /\ sent.cd # {} => sent.cd = {Encode(Resolve(call.cd))}
    BY <1>1, MachineRequests
  <2>5. sent.op \notin {"mv", "cp"}
    BY <1>3 DEF DiskOps
  <2> HIDE DEF path
  <2> QED BY <2>3, <2>4, <2>5
<1>4. CASE sent.op \notin {"mv", "cp"} \cup DiskOps
  <2>1. PICK q : Leads(call.path, q) /\ sent.files = <<Encode(q)>>
    BY <1>4, SentForPath
  <2>2. PathsOf(call) = <<call.path>>
    BY <1>1, <1>4, PathsOfCalls
  <2>3. call.path # Absent => q = Resolve(call.path)
    BY <2>1 DEF Leads
  <2> QED BY <1>4, <2>1, <2>2, <2>3 DEF DiskOps
<1> QED BY <1>2, <1>3, <1>4

\* From the invariant: no path that is sent is empty, a disk has a directory.
LEMMA RootIsNotSent == IInv => RootIsSpared
<1> SUFFICES ASSUME IInv, sent.op \in FileOps
             PROVE  /\ \A i \in DOMAIN sent.files :
                         Len(sent.files[i].b64) > (IF sent.op \in DiskOps THEN 1 ELSE 0)
                    /\ sent.op \in {"mv", "cp"} => sent.dst # Encode(Root)
  BY DEF RootIsSpared
<1>1. /\ call \in FileCalls /\ call.tool = sent.op /\ sent = Request(call)
      /\ Request(call) # Refused
  BY SentForFiles
<1>2. \A arg, q : Leads(arg, q) => Encode(q).b64 = q /\ Len(q) > 0 /\ q \in Seq(Components)
  BY LeadsIsEncoded
<1>3. CASE sent.op \in {"mv", "cp"}
  <2>1. /\ Leads(call.dst, Resolve(call.dst)) /\ sent.dst = Encode(Resolve(call.dst))
        /\ \A i \in DOMAIN Sources(call) : Leads(Sources(call)[i], Resolve(Sources(call)[i]))
        /\ sent.files = [i \in DOMAIN Sources(call) |-> Encode(Resolve(Sources(call)[i]))]
    BY <1>1, <1>3, TransferRequests
  <2>2. \A i \in DOMAIN sent.files :
          /\ Leads(Sources(call)[i], Resolve(Sources(call)[i]))
          /\ sent.files[i] = Encode(Resolve(Sources(call)[i]))
    BY <2>1
  <2>3. \A i \in DOMAIN sent.files : Len(sent.files[i].b64) > 0
    BY <1>2, <2>2
  <2>4. Len(sent.dst.b64) > 0
    BY <1>2, <2>1
  <2>5. Encode(Root).b64 = Root /\ Len(Root) = 0
    BY DEF Encode, Root
  <2>6. sent.dst # Encode(Root) /\ sent.op \notin DiskOps
    BY <1>3, <2>4, <2>5 DEF DiskOps
  <2> QED BY <2>3, <2>6
<1>4. CASE sent.op \in DiskOps
  <2> DEFINE q == Resolve(call.path)
             path == q \o <<call.name>>
  <2>1. Leads(call.path, q) /\ sent.files = <<Encode(path)>> /\ call.name \in FileNames
    BY <1>1, <1>4, DiskRequests
  <2>2. q \in Seq(Components) /\ Len(q) > 0 /\ call.name \in Components
    BY <1>2, <2>1 DEF Components
  <2> HIDE DEF q
  <2>3. Len(path) > 1 /\ Encode(path).b64 = path
    BY <2>2 DEF Encode
  <2>4. sent.op \notin {"mv", "cp"}
    BY <1>4 DEF DiskOps
  <2> HIDE DEF path
  <2> QED BY <2>1, <2>3, <2>4
<1>5. CASE sent.op \notin {"mv", "cp"} \cup DiskOps
  <2>1. PICK q : Leads(call.path, q) /\ sent.files = <<Encode(q)>>
    BY <1>5, SentForPath
  <2>2. Len(Encode(q).b64) > 0
    BY <1>2, <2>1
  <2> QED BY <1>5, <2>1, <2>2
<1> QED BY <1>3, <1>4, <1>5

\* From the invariant: what was sent to change something was given.
LEMMA DefaultsAreHarmless == IInv => NoDefaultForChanges
<1> SUFFICES ASSUME IInv, sent.op \in FileOps \ {"info", "list", "mkdir"}
             PROVE  /\ Absent \notin Range(PathsOf(call))
                    /\ sent.op \in {"mv", "cp"} => call.dst # Absent
  BY DEF NoDefaultForChanges
<1>1. /\ call \in FileCalls /\ call.tool = sent.op /\ sent = Request(call)
      /\ Request(call) # Refused
  BY SentForFiles
<1>2. CASE sent.op \in {"mv", "cp"}
  <2>1. call.dst # Absent /\ Sources(call) \in Seq(Paths)
    BY <1>1, <1>2, TransferRequests
  <2>2. PathsOf(call) = Sources(call)
    BY <1>1, <1>2, PathsOfCalls
  <2>3. Absent \notin Paths
    BY GivenPaths
  <2>4. Absent \notin Range(Sources(call))
    <3>1. \A i \in DOMAIN Sources(call) : Sources(call)[i] \in Paths
      BY <2>1
    <3> QED BY <2>3, <3>1 DEF Range
  <2> QED BY <2>1, <2>2, <2>4
<1>3. CASE sent.op \in DiskOps
  <2>1. call.path # Absent /\ call.name \in FileNames
    BY <1>1, <1>3, DiskRequests
  <2>2. call.path \in Seq(STRING) /\ call.name \in STRING
    BY <1>1, <1>3, <2>1, FileArguments, GivenPaths, PathsAssumption
       DEF PathArgs, DirArgs, FileOps, DiskOps
  <2> DEFINE path == call.path \o <<call.name>>
  <2>3. path \in Seq(STRING)
    BY <2>2
  <2>4. PathsOf(call) = <<path>>
    BY <1>1, <1>3, <2>1, PathsOfCalls
  <2>5. sent.op \notin {"mv", "cp"}
    BY <1>3 DEF DiskOps
  <2> HIDE DEF path
  <2>6. Absent # path
    BY <2>3, PathsAssumption
  <2> QED BY <2>4, <2>5, <2>6 DEF Range
<1>4. CASE sent.op \notin {"mv", "cp"} \cup DiskOps
  <2>1. call.path # Absent
    BY <1>4, SentForPath
  <2>2. PathsOf(call) = <<call.path>>
    BY <1>1, <1>4, PathsOfCalls
  <2> QED BY <1>4, <2>1, <2>2 DEF Range
<1> QED BY <1>2, <1>3, <1>4

\* From the invariant: a new name leads into the directory that was sent.
LEMMA NamesStay == IInv => NewNameStaysInParent
<1> DEFINE path == sent.files[1].b64
           parent == IF sent.op = "mkdir" THEN path ELSE SubSeq(path, 1, Len(path) - 1)
           S == Components \cup {""}
<1> SUFFICES ASSUME IInv, sent.op \in {"mkdir", "rename"} \cup DiskOps
             PROVE  IsPrefix(parent, Resolve(parent \o Split(sent.name)))
  BY DEF NewNameStaysInParent
<1>1. /\ call \in FileCalls /\ call.tool = sent.op /\ sent = Request(call)
      /\ Request(call) # Refused
  <2>1. sent.op \in FileOps
    BY DEF FileOps, DiskOps
  <2> QED BY <2>1, SentForFiles
<1>2. /\ sent.op = "mkdir" => parent = path
      /\ sent.op # "mkdir" => parent = SubSeq(path, 1, Len(path) - 1)
  OBVIOUS
<1>3. \A x : x \in Plain(Components) => x \in Plain(S) /\ x \in S
  BY DEF Plain
<1>4. SentNames \subseteq S /\ FileNames \subseteq S
  BY DEF Components, SentNames
<1> HIDE DEF path, parent, S
<1>5. \A q \in Seq(Plain(Components)) : q \in Seq(Plain(S)) /\ q \in Seq(S)
  BY <1>3
<1>6. CASE sent.op \in {"mkdir", "rename"}
  <2>1. PICK q, name :
          /\ Leads(call.path, q)
          /\ Request(call) = [op |-> call.tool, files |-> <<Encode(q)>>, name |-> name]
          /\ call.path = Absent => call.tool = "mkdir"
          /\ name \in SentNames /\ name # ".." /\ ~HasSeparator(name)
    BY <1>1, <1>6, NameRequests, Zenon
  <2>2. sent.files = <<Encode(q)>> /\ sent.name = name
    BY <1>1, <2>1
  <2>3. path = q
    BY <2>1, <2>2, LeadsIsEncoded DEF path
  <2>4. q \in Seq(Plain(S)) /\ Len(q) > 0 /\ name \in S
    BY <1>4, <1>5, <2>1 DEF Leads
  <2>5. \A i \in DOMAIN q : q[i] \notin Nothing \cup {".."}
    BY <2>1 DEF Leads, Clear
  <2> DEFINE up == SubSeq(q, 1, Len(q) - 1)
  <2>6. up \in Seq(Plain(S))
    BY <2>4
  <2>7. \A i \in DOMAIN up : i \in DOMAIN q /\ up[i] = q[i]
    BY <2>4
  <2> HIDE DEF up
  <2>8. Clear(q) /\ Clear(up)
    BY <2>5, <2>7 DEF Clear
  <2>9. parent \in {q, up}
    BY <1>2, <2>3 DEF up
  <2>10. parent \in Seq(Plain(S)) /\ Clear(parent)
    BY <2>4, <2>6, <2>8, <2>9
  <2> QED BY <2>1, <2>2, <2>4, <2>10, NameStays
<1>7. CASE sent.op \in DiskOps
  <2> DEFINE q == Resolve(call.path)
             name == call.name
             file == q \o <<name>>
  <2>1. /\ Leads(call.path, q) /\ sent.files = <<Encode(file)>>
        /\ name \in FileNames /\ ValidDiskName(name) /\ sent.name = name
    BY <1>1, <1>7, DiskRequests
  <2> HIDE DEF q, name
  <2>2. q \in Seq(Plain(S)) /\ q \in Seq(S) /\ Clear(q) /\ name \in S
    BY <1>4, <1>5, <2>1 DEF Leads
  <2>3. path = file
    <3> HIDE DEF file
    <3> QED BY <2>1 DEF Encode, path
  <2>4. SubSeq(file, 1, Len(file) - 1) = q
    BY <2>2
  <2>5. sent.op # "mkdir"
    BY <1>7 DEF DiskOps
  <2> HIDE DEF file
  <2>6. parent = q
    BY <1>2, <2>3, <2>4, <2>5
  <2>7. name # ".." /\ ~HasSeparator(name)
    BY <2>1 DEF ValidDiskName, HasSeparator
  <2> QED BY <2>1, <2>2, <2>6, <2>7, NameStays
<1> QED BY <1>6, <1>7

-----------------------------------------------------------------------------
(* Numbers and settings                                                    *)

\* A number, or the text of an integer, is what it denotes, and the rest is 0.
LEMMA NumberIsDenoted ==
    ASSUME NEW v \in Ports \cup NumberIds
    PROVE  GetInt(v, 0) = IF IsInteger(v) THEN Denotes(v) ELSE 0
<1> DEFINE number == Truncated(v.number)
           half == v.digits \div 2
           even == v.digits % 2 = 0
<1>1. GetInt(v, 0) = IF Is(v, "number") THEN number
                     ELSE IF Is(v, "digits") /\ even THEN half
                     ELSE 0
  BY DEF GetInt
<1>2. ~Is(v, "number") => Denotes(v) = Truncated(v.digits)
  BY DEF Denotes
<1>3. Is(v, "number") => Denotes(v) = number
  BY DEF Denotes
<1>4. Is(v, "digits") /\ even => half = Truncated(v.digits)
  <2>1. Is(v, "digits") => v.digits \in Int
    BY NumbersAssumption
  <2>2. \A n \in Int : n % 2 = 0 => n \div 2 = Truncated(n)
    BY DEF Truncated
  <2> QED BY <2>1, <2>2
<1>5. IsInteger(v) <=> Is(v, "number") \/ (Is(v, "digits") /\ even)
  BY DEF IsInteger
<1> HIDE DEF number, half, even
<1> QED BY <1>1, <1>2, <1>3, <1>4, <1>5

\* From the invariant: the numbers of a rule are those its call denotes.
LEMMA RulesOpen == IInv => RuleOpensWhatWasAsked
<1> DEFINE inner == GetInt(call.lan, 0)
           first == GetInt(call.start, 0)
           last == IF call.end = Absent THEN first ELSE ToInt(call.end)
           refused == ~ValidPrivateIP(call.ip) \/ ~ValidPorts(inner, first, last)
           enabled == Switch(call.enabled) # {FALSE}
<1> SUFFICES ASSUME IInv, sent.op = "nat_create"
             PROVE  /\ sent.lan = Denotes(call.lan) /\ sent.start = Denotes(call.start)
                    /\ sent.end = IF call.end = Absent THEN sent.start ELSE Denotes(call.end)
                    /\ \A n \in {sent.lan, sent.start, sent.end} : 1 <= n /\ n <= 65535
  BY DEF RuleOpensWhatWasAsked
<1>1. call \in Calls /\ sent = Request(call) /\ Request(call) # Refused
  BY SentForCall
<1>2. call.tool = "nat_create"
  BY <1>1, RequestOps
<1>3. call.lan \in Ports /\ call.start \in Ports /\ call.end \in Ports
  <2>1. call \in Creations
    BY <1>1, <1>2, ToolsOfCalls DEF CreationTools
  <2> QED BY <1>2, <2>1 DEF Creations
<1>4. Request(call) = CreateRule(call)
  BY <1>2, Handlers
<1>5. sent = IF refused THEN Refused
             ELSE [op |-> "nat_create", lan |-> inner, start |-> first, end |-> last,
                   enabled |-> enabled]
  BY <1>1, <1>4, Zenon DEF CreateRule
<1>6. ~refused => ValidPorts(inner, first, last)
  OBVIOUS
<1>7. call.end = Absent => last = first
  OBVIOUS
<1>8. call.end # Absent => last = ToInt(call.end)
  OBVIOUS
<1> HIDE DEF inner, first, last, refused, enabled
<1>9. sent.lan = inner /\ sent.start = first /\ sent.end = last /\ ~refused
  BY <1>1, <1>5
<1>10. \A n \in {inner, first, last} : 1 <= n /\ n <= 65535
  BY <1>6, <1>9 DEF ValidPorts, ValidPort
<1>11. inner # 0 /\ first # 0 /\ last # 0
  BY <1>10
<1>12. inner = Denotes(call.lan) /\ first = Denotes(call.start)
  BY <1>3, <1>11, NumberIsDenoted DEF inner, first
<1>13. call.end # Absent => last = Denotes(call.end)
  <2>1. ToInt(call.end) # 0 => Is(call.end, "number")
    BY DEF ToInt
  <2>2. Is(call.end, "number") => ToInt(call.end) = Denotes(call.end)
    BY DEF ToInt, Denotes
  <2> QED BY <1>8, <1>11, <2>1, <2>2
<1> QED BY <1>7, <1>9, <1>10, <1>12, <1>13

\* The ways arguments are read.
Ways == {"switch", "flag", "toggle", "port", "percent", "count", "text", "word", "name",
         "mode", "dir"}

\* Every setting of every tool is read in one of these ways.
LEMMA WaysOfTools ==
    \A t \in UpdateTools : \A f \in DOMAIN Updates[t].by : Updates[t].by[f] \in Ways
<1> SUFFICES ASSUME NEW t \in UpdateTools, NEW f \in DOMAIN Updates[t].by
             PROVE  Updates[t].by[f] \in Ways
  OBVIOUS
<1>1. CASE t = "connection_config_set"
  BY <1>1 DEF Updates, Ways, ConnectionConfigSet
<1>2. CASE t = "samba_config_set"
  BY <1>2 DEF Updates, Ways, SambaConfigSet
<1>3. CASE t = "download_config_set"
  BY <1>3 DEF Updates, Ways, DownloadConfigSet
<1>4. CASE t = "wifi_toggle"
  BY <1>4 DEF Updates, Ways, WifiToggle
<1>5. CASE t = "lcd_brightness"
  BY <1>5 DEF Updates, Ways, LcdBrightness
<1>6. CASE t = "nat_toggle"
  BY <1>6 DEF Updates, Ways, NatToggle
<1>7. CASE t = "download_toggle"
  BY <1>7 DEF Updates, Ways, DownloadToggle
<1>8. CASE t = "wifi_ssid_toggle"
  BY <1>8 DEF Updates, Ways, WifiSsidToggle
<1>9. CASE t = "lan_host_rename"
  BY <1>9 DEF Updates, Ways, LanHostRename
<1>10. CASE t = "lan_host_update"
  BY <1>10 DEF Updates, Ways, LanHostUpdate
<1> QED BY <1>1, <1>2, <1>3, <1>4, <1>5, <1>6, <1>7, <1>8, <1>9, <1>10 DEF UpdateTools

\* What each way makes of an argument.
LEMMA Readers ==
    ASSUME NEW how, NEW v
    PROVE  /\ how = "switch" => Read(how, v) = Switch(v)
           /\ how = "flag" => Read(how, v) = IF v = Absent THEN {} ELSE {GetBool(v, FALSE)}
           /\ how = "toggle" => Read(how, v) = {GetBool(v, FALSE)}
           /\ how = "port" => Read(how, v) = IF v \in {Absent, Null} THEN {} ELSE {ToInt(v)}
           /\ how = "percent" => Read(how, v) = {GetInt(v, 50)}
           /\ how = "count" => Read(how, v) = {n \in {GetInt(v, 0)} : n > 0}
           /\ how = "text" => Read(how, v) = IF Is(v, "text") THEN {v.text} ELSE {}
           /\ how = "word" => Read(how, v) = {GetString(v, "")}
           /\ how = "name" => Read(how, v) = {GetString(v, "")} \ {""}
           /\ how = "mode" => Read(how, v) = {IF s = "bad" THEN Refused ELSE s :
                                             s \in {GetString(v, "")} \ {""}}
           /\ how = "dir" /\ v \in {Absent, <<"">>} => Read(how, v) = {}
           /\ how = "dir" /\ v \notin {Absent, <<"">>} =>
                Read(how, v) = {IF Sanitize(v) = Refused THEN Refused ELSE Encode(Sanitize(v))}
<1> DEFINE flag == IF v = Absent THEN {} ELSE {GetBool(v, FALSE)}
           toggle == {GetBool(v, FALSE)}
           port == IF v \in {Absent, Null} THEN {} ELSE {ToInt(v)}
           percent == {GetInt(v, 50)}
           count == {n \in {GetInt(v, 0)} : n > 0}
           text == IF Is(v, "text") THEN {v.text} ELSE {}
           word == {GetString(v, "")}
           name == {GetString(v, "")} \ {""}
           mode == {IF s = "bad" THEN Refused ELSE s : s \in {GetString(v, "")} \ {""}}
           dir == IF v \in {Absent, <<"">>} THEN {}
                  ELSE {IF p = Refused THEN Refused ELSE Encode(p) : p \in {Sanitize(v)}}
<1>1. Read(how, v) =
        CASE how = "switch" -> Switch(v)
          [] how = "flag" -> flag
          [] how = "toggle" -> toggle
          [] how = "port" -> port
          [] how = "percent" -> percent
          [] how = "count" -> count
          [] how = "text" -> text
          [] how = "word" -> word
          [] how = "name" -> name
          [] how = "mode" -> mode
          [] how = "dir" -> dir
  BY Zenon DEF Read
<1>2. /\ v \in {Absent, <<"">>} => dir = {}
      /\ v \notin {Absent, <<"">>} =>
           dir = {IF Sanitize(v) = Refused THEN Refused ELSE Encode(Sanitize(v))}
  OBVIOUS
<1> HIDE DEF flag, toggle, port, percent, count, text, word, name, mode, dir
<1>3. /\ how = "switch" => Read(how, v) = Switch(v)
      /\ how = "flag" => Read(how, v) = flag
      /\ how = "toggle" => Read(how, v) = toggle
      /\ how = "port" => Read(how, v) = port
      /\ how = "percent" => Read(how, v) = percent
      /\ how = "count" => Read(how, v) = count
      /\ how = "text" => Read(how, v) = text
      /\ how = "word" => Read(how, v) = word
      /\ how = "name" => Read(how, v) = name
      /\ how = "mode" => Read(how, v) = mode
      /\ how = "dir" => Read(how, v) = dir
  BY <1>1
<1> QED BY <1>2, <1>3, Zenon
        DEF flag, toggle, port, percent, count, text, word, name, mode

\* What is passed over sends nothing.
LEMMA NothingIsRead ==
    ASSUME NEW how \in Ways, NEW v, PassedOver(how, v) PROVE Read(how, v) = {}
<1> DEFINE texts == {GetString(v, "")} \ {""}
<1>1. CASE how = "switch"
  <2>1. ~Is(v, "truth")
    BY <1>1 DEF PassedOver, Is
  <2> QED BY <1>1, <2>1, Readers DEF Switch
<1>2. CASE how \in {"flag", "port"}
  <2>1. v = Absent
    BY <1>2 DEF PassedOver
  <2>2. CASE how = "flag"
    BY <2>1, <2>2, Readers
  <2>3. CASE how = "port"
    BY <2>1, <2>3, Readers
  <2> QED BY <1>2, <2>2, <2>3
<1>3. CASE how = "count"
  <2>1. v = Absent \/ (Is(v, "number") /\ ~(Truncated(v.number) > 0))
    BY <1>3 DEF PassedOver
  <2>2. ~(GetInt(v, 0) > 0)
    <3>1. v = Absent => GetInt(v, 0) = 0
      BY DEF GetInt, Is
    <3>2. Is(v, "number") => GetInt(v, 0) = Truncated(v.number)
      BY DEF GetInt
    <3> QED BY <2>1, <3>1, <3>2
  <2>3. Read(how, v) = {n \in {GetInt(v, 0)} : n > 0}
    BY <1>3, Readers, Zenon
  <2> QED BY <2>2, <2>3
<1>4. CASE how = "text"
  <2>1. ~Is(v, "text")
    BY <1>4 DEF PassedOver, Is
  <2> QED BY <1>4, <2>1, Readers
<1>5. how \in {"name", "mode"} => texts = {}
  <2>1. how \in {"name", "mode"} => ~Is(v, "text") \/ v.text = ""
    BY DEF PassedOver, Is
  <2> QED BY <2>1 DEF GetString
<1>6. CASE how = "name"
  BY <1>5, <1>6, Readers
<1>7. CASE how = "mode"
  <2>1. Read(how, v) = {IF s = "bad" THEN Refused ELSE s : s \in texts}
    BY <1>7, Readers, Zenon
  <2> HIDE DEF texts
  <2> QED BY <1>5, <1>7, <2>1
<1>8. CASE how = "dir"
  <2>1. v \in {Absent, <<"">>}
    BY <1>8 DEF PassedOver
  <2> QED BY <1>8, <2>1, Readers
<1>9. how \notin {"toggle", "percent", "word"}
  BY DEF PassedOver, RequiredArgs
<1> QED BY <1>1, <1>2, <1>3, <1>4, <1>6, <1>7, <1>8, <1>9 DEF Ways

\* A value of the type of an argument is what is read, unless it is passed over or
\* the call is refused for it.
LEMMA ValueIsRead ==
    ASSUME NEW how, NEW v, ~PassedOver(how, v), Read(how, v) # {Refused}
    PROVE  /\ how \in {"switch", "flag", "toggle"} /\ Is(v, "truth") =>
                Read(how, v) = {v.truth}
           /\ how \in {"port", "percent", "count"} /\ Is(v, "number") =>
                Read(how, v) = {Truncated(v.number)}
           /\ how \in {"text", "word", "name", "mode"} /\ Is(v, "text") =>
                Read(how, v) = {v.text}
           /\ how = "dir" /\ v \in Dirs => Read(how, v) = {Encode(Resolve(v))}
<1>1. ASSUME how \in {"switch", "flag", "toggle"}, Is(v, "truth")
      PROVE  Read(how, v) = {v.truth}
  <2>1. v # Absent /\ Switch(v) = {v.truth}
    BY <1>1 DEF Switch, Is
  <2>2. GetBool(v, FALSE) = v.truth
    BY <1>1 DEF GetBool
  <2>3. CASE how = "switch"
    BY <2>1, <2>3, Readers
  <2>4. CASE how = "flag"
    BY <2>1, <2>2, <2>4, Readers
  <2>5. CASE how = "toggle"
    BY <2>2, <2>5, Readers
  <2> QED BY <1>1, <2>3, <2>4, <2>5
<1>2. ASSUME how \in {"port", "percent", "count"}, Is(v, "number")
      PROVE  Read(how, v) = {Truncated(v.number)}
  <2>1. v # Absent /\ v # Null
    BY <1>2 DEF Is, Null
  <2>2. ToInt(v) = Truncated(v.number)
    BY <1>2 DEF ToInt
  <2>3. GetInt(v, 50) = Truncated(v.number) /\ GetInt(v, 0) = Truncated(v.number)
    BY <1>2 DEF GetInt
  <2>4. CASE how = "port"
    BY <2>1, <2>2, <2>4, Readers
  <2>5. CASE how = "percent"
    BY <2>3, <2>5, Readers
  <2>6. CASE how = "count"
    <3>1. Truncated(v.number) > 0
      BY <1>2, <2>6 DEF PassedOver
    <3>2. Read(how, v) = {n \in {GetInt(v, 0)} : n > 0}
      BY <2>6, Readers, Zenon
    <3> QED BY <2>3, <3>1, <3>2
  <2> QED BY <1>2, <2>4, <2>5, <2>6
<1>3. ASSUME how \in {"text", "word", "name", "mode"}, Is(v, "text")
      PROVE  Read(how, v) = {v.text}
  <2>1. GetString(v, "") = v.text
    BY <1>3 DEF GetString
  <2>2. how \in {"name", "mode"} => v.text # ""
    BY <1>3 DEF PassedOver
  <2>3. CASE how = "mode"
    <3> DEFINE texts == {GetString(v, "")} \ {""}
               mode(s) == IF s = "bad" THEN Refused ELSE s
    <3>1. texts = {v.text}
      BY <2>1, <2>2, <2>3
    <3>2. Read(how, v) = {mode(s) : s \in texts}
      BY <2>3, Readers, Zenon
    <3> HIDE DEF texts, mode
    <3>3. Read(how, v) = {mode(v.text)}
      BY <3>1, <3>2
    <3>4. mode(v.text) \in {Refused, v.text}
      BY DEF mode
    <3> QED BY <3>3, <3>4
  <2>4. CASE how = "name"
    <3>1. Read(how, v) = {GetString(v, "")} \ {""}
      BY <2>4, Readers, Zenon
    <3> QED BY <2>1, <2>2, <2>4, <3>1
  <2>5. CASE how = "text"
    <3>1. Read(how, v) = IF Is(v, "text") THEN {v.text} ELSE {}
      BY <2>5, Readers, Zenon
    <3> QED BY <1>3, <3>1
  <2>6. CASE how = "word"
    <3>1. Read(how, v) = {GetString(v, "")}
      BY <2>6, Readers, Zenon
    <3> QED BY <2>1, <3>1
  <2> QED BY <1>3, <2>3, <2>4, <2>5, <2>6
<1>4. ASSUME how = "dir", v \in Dirs PROVE Read(how, v) = {Encode(Resolve(v))}
  <2>1. v \in Seq(STRING) /\ v # Absent
    BY <1>4, GivenPaths
  <2>2. v \notin {Absent, <<"">>}
    BY <1>4, <2>1 DEF PassedOver
  <2>3. Read(how, v) = {IF Sanitize(v) = Refused THEN Refused ELSE Encode(Sanitize(v))}
    BY <1>4, <2>2, Readers
  <2>4. Sanitize(v) # Refused
    BY <2>3
  <2> QED BY <2>1, <2>3, <2>4, SanitizeResolves
<1> QED BY <1>1, <1>2, <1>3, <1>4

-----------------------------------------------------------------------------
(* The box                                                                 *)

\* The ids of the tools that change an object.
LEMMA BoxArguments ==
    ASSUME NEW c \in BoxCalls
    PROVE  /\ c.tool \in UpdateTools => c.id \in IdsOf(Updates[c.tool].of)
           /\ c.tool \in DeletionTools => c.id \in IdsOf(Deletions[c.tool].of)
<1>1. CASE \E t \in UpdateTools : c \in [tool : {t}, id : IdsOf(Updates[t].of),
                                        args : UpdateArgs(Updates[t].by)]
  <2>1. PICK t \in UpdateTools : c \in [tool : {t}, id : IdsOf(Updates[t].of),
                                       args : UpdateArgs(Updates[t].by)]
    BY <1>1
  <2>2. c.tool = t /\ c.id \in IdsOf(Updates[t].of)
    BY <2>1
  <2>3. c.tool \notin DeletionTools
    BY <2>2 DEF UpdateTools, DeletionTools
  <2> QED BY <2>2, <2>3
<1>2. CASE \E t \in DeletionTools : c \in [tool : {t}, id : IdsOf(Deletions[t].of)]
  <2>1. PICK t \in DeletionTools : c \in [tool : {t}, id : IdsOf(Deletions[t].of)]
    BY <1>2
  <2>2. c.tool = t /\ c.id \in IdsOf(Deletions[t].of)
    BY <2>1
  <2>3. c.tool \notin UpdateTools
    BY <2>2 DEF UpdateTools, DeletionTools
  <2> QED BY <2>2, <2>3
<1> QED BY <1>1, <1>2, TableTools, Zenon DEF BoxCalls

\* The kinds of objects, none of which is a step in a path.
LEMMA Kinds ==
    /\ Sections \cap NumberedKinds = {} /\ Sections \cap NamedKinds = {}
    /\ NumberedKinds \cap NamedKinds = {}
    /\ \A kind \in Sections \cup NamedKinds : kind \notin Nothing /\ kind # ".."
<1>1. /\ Sections \cap NumberedKinds = {} /\ Sections \cap NamedKinds = {}
      /\ NumberedKinds \cap NamedKinds = {}
  BY DEF Sections, NumberedKinds, NamedKinds
<1>2. \A kind \in Sections \cup NamedKinds : kind \notin Nothing
  BY Zenon DEF Sections, NamedKinds, Nothing
<1>3. \A kind \in Sections \cup NamedKinds : kind # ".."
  BY DEF Sections, NamedKinds
<1> QED BY <1>1, <1>2, <1>3

\* What the tools change.
LEMMA KindsOfTools ==
    ASSUME NEW c
    PROVE  /\ c.tool \in UpdateTools => KindOf(c) = Updates[c.tool].of
           /\ c.tool \in DeletionTools => KindOf(c) = Deletions[c.tool].of
           /\ c.tool \in UpdateTools \cup DeletionTools =>
                KindOf(c) \in Sections \cup NumberedKinds \cup NamedKinds
<1>1. c.tool \in UpdateTools => KindOf(c) = Updates[c.tool].of
  BY TableTools DEF KindOf
<1>2. c.tool \in DeletionTools => KindOf(c) = Deletions[c.tool].of
  BY TableTools DEF KindOf, UpdateTools, DeletionTools
<1>3. c.tool \in UpdateTools =>
        Updates[c.tool].of \in Sections \cup NumberedKinds \cup NamedKinds
  BY DEF UpdateTools, Updates, Sections, NumberedKinds, NamedKinds, ConnectionConfigSet,
         SambaConfigSet, DownloadConfigSet, WifiToggle, LcdBrightness, NatToggle,
         DownloadToggle, WifiSsidToggle, LanHostRename, LanHostUpdate
<1>4. c.tool \in DeletionTools =>
        Deletions[c.tool].of \in Sections \cup NumberedKinds \cup NamedKinds
  BY DEF DeletionTools, Deletions, Sections, NumberedKinds, NamedKinds, NatDelete,
         DownloadDelete, VMDelete, DHCPStaticDelete, RouteDelete
<1> QED BY <1>1, <1>2, <1>3, <1>4

\* A path without steps leads where it says.
LEMMA ResolveKeeps ==
    ASSUME NEW S, NEW p \in Seq(S), \A x \in S : x \notin Nothing /\ x # ".."
    PROVE  Resolve(p) = p
<1>1. \A i \in DOMAIN p : p[i] # ".."
  OBVIOUS
<1>2. p \in Seq(Plain(S))
  BY DEF Plain
<1> QED BY <1>1, <1>2, ResolveIsClean, CleanKeeps

\* Paths of one and of two components.
LEMMA ShortPaths ==
    ASSUME NEW a, NEW b
    PROVE  /\ <<a>> \in Seq({a, b}) /\ <<a, b>> \in Seq({a, b})
           /\ Append(<<a>>, b) = <<a, b>> /\ <<a>> \o <<b>> = <<a, b>>
           /\ Len(<<a>>) = 1 /\ Len(<<a, b>>) = 2
           /\ \A i \in DOMAIN <<a, b>> : <<a, b>>[i] \in {a, b}
<1>1. /\ <<a>> \in Seq({a, b}) /\ <<a, b>> \in Seq({a, b})
      /\ Len(<<a>>) = 1 /\ Len(<<a, b>>) = 2
  OBVIOUS
<1>2. Append(<<a>>, b) = <<a, b>>
  <2> DEFINE p == Append(<<a>>, b)
             q == <<a, b>>
             S == {a, b}
  <2>1. p \in Seq(S) /\ Len(p) = 2 /\ p[1] = a /\ p[2] = b
    <3>1. <<a>> \in Seq(S) /\ b \in S /\ Len(<<a>>) = 1 /\ <<a>>[1] = a
      BY <1>1
    <3> QED BY <3>1, AppendProperties
  <2>2. q \in Seq(S) /\ Len(q) = 2 /\ q[1] = a /\ q[2] = b
    BY <1>1
  <2> HIDE DEF p, q, S
  <2>3. \A i \in 1..2 : p[i] = q[i]
    <3>1. \A i \in 1..2 : i = 1 \/ i = 2
      OBVIOUS
    <3> QED BY <2>1, <2>2, <3>1
  <2>4. p = q
    BY <2>1, <2>2, <2>3, SeqEqual
  <2> QED BY <2>4 DEF p, q
<1>3. Append(<<a>>, b) = <<a>> \o <<b>>
  BY <1>1, AppendIsConcat
<1>4. \A i \in DOMAIN <<a, b>> : <<a, b>>[i] \in {a, b}
  OBVIOUS
<1> QED BY <1>1, <1>2, <1>3, <1>4

\* The path of a section or of a named entry is no other object's.
LEMMA ResolveObject ==
    /\ \A kind \in Sections \cup NamedKinds : Resolve(<<kind>>) = <<kind>>
    /\ \A kind \in NamedKinds : \A name : name \notin Nothing /\ name # ".." =>
         Resolve(<<kind, name>>) = <<kind, name>>
<1>1. ASSUME NEW kind \in Sections \cup NamedKinds PROVE Resolve(<<kind>>) = <<kind>>
  <2> DEFINE p == <<kind>>
             S == {kind, kind}
  <2>1. p \in Seq(S) /\ \A x \in S : x \notin Nothing /\ x # ".."
    BY Kinds, ShortPaths
  <2> HIDE DEF p, S
  <2>2. Resolve(p) = p
    BY <2>1, ResolveKeeps
  <2> QED BY <2>2 DEF p
<1>2. ASSUME NEW kind \in NamedKinds, NEW name, name \notin Nothing, name # ".."
      PROVE  Resolve(<<kind, name>>) = <<kind, name>>
  <2> DEFINE p == <<kind, name>>
             S == {kind, name}
  <2>1. p \in Seq(S) /\ \A x \in S : x \notin Nothing /\ x # ".."
    BY <1>2, Kinds, ShortPaths
  <2> HIDE DEF p, S
  <2>2. Resolve(p) = p
    BY <2>1, ResolveKeeps
  <2> QED BY <2>2 DEF p
<1> QED BY <1>1, <1>2

\* A name that says nothing leads to the collection, which is no object, nor is what
\* such a name would name.
LEMMA NoEntry ==
    ASSUME NEW kind \in NamedKinds, NEW name \in Nothing, name # "..", name \notin {"e1", "e2"}
    PROVE  Reached(<<kind, name>>) = {}
<1>1. kind \notin Sections /\ kind \notin NumberedKinds
  BY Kinds
<1>2. Resolve(<<kind, name>>) = <<kind>>
  <2> DEFINE p == <<kind, name>>
             q == <<kind>>
             S == {kind, name}
  <2>1. /\ p \in Seq(S) /\ q \in Seq(S) /\ name \in S /\ p = Append(q, name)
        /\ \A i \in DOMAIN p : p[i] # ".."
    BY Kinds, ShortPaths
  <2>2. Resolve(q) = q /\ \A i \in DOMAIN q : q[i] # ".."
    BY Kinds, ResolveObject
  <2> HIDE DEF p, q, S
  <2>3. Resolve(p) = Clean(p) /\ Resolve(q) = Clean(q)
    BY <2>1, <2>2, ResolveIsClean
  <2>4. Clean(p) = Clean(q)
    BY <2>1, CleanAppend
  <2> QED BY <2>2, <2>3, <2>4 DEF p, q
<1>3. ASSUME NEW x \in Objects PROVE x # <<kind>> /\ x # <<kind, name>>
  <2>1. CASE x \in {<<s>> : s \in Sections}
    BY <1>1, <2>1
  <2>2. CASE x \in NumberedKinds \X (0..2)
    BY <1>1, <2>2
  <2>3. CASE x \in NamedKinds \X {"e1", "e2"}
    BY <2>3
  <2> QED BY <2>1, <2>2, <2>3 DEF Objects, Entries
<1> QED BY <1>2, <1>3 DEF Reached

\* An object's own path leads to it alone.
LEMMA ReachedObject == ASSUME NEW o \in Objects PROVE Reached(o) = {o}
<1>1. CASE o[1] \in NumberedKinds
  BY <1>1 DEF Reached
<1>2. CASE o[1] \notin NumberedKinds
  <2>1. Resolve(o) = o
    <3>1. CASE \E kind \in Sections : o = <<kind>>
      BY <3>1, ResolveObject
    <3>2. CASE o \in NamedKinds \X {"e1", "e2"}
      <4>1. PICK kind \in NamedKinds, name \in {"e1", "e2"} : o = <<kind, name>>
        BY <3>2
      <4>2. name \notin Nothing
        BY <4>1, Zenon DEF Nothing
      <4>3. name # ".."
        BY <4>1
      <4> QED BY <4>1, <4>2, <4>3, ResolveObject
    <3> QED BY <1>2, <3>1, <3>2 DEF Objects, Entries
  <2> QED BY <1>2, <2>1 DEF Reached
<1> QED BY <1>1, <1>2

\* The parts of a text, whatever it is.
LEMMA PartsOfText ==
    /\ \A id : \E S : Parts(id) \in Seq(S)
    /\ Parts("") = <<"">>
<1> DEFINE slash == <<"e1", "">>
           away == <<"..", "route", "e1">>
           query == <<"e2">>
<1>1. /\ slash \in Seq({"e1", ""}) /\ away \in Seq({"..", "route", "e1"})
      /\ query \in Seq({"e2"})
  <2>1. slash \in Seq({"e1", ""})
    OBVIOUS
  <2>2. away \in Seq({"..", "route", "e1"})
    OBVIOUS
  <2>3. query \in Seq({"e2"})
    OBVIOUS
  <2> QED BY <2>1, <2>2, <2>3, Zenon
<1>2. \A id : Parts(id) = CASE id = "e1/" -> slash
                           [] id = "../route/e1" -> away
                           [] id = "e2?" -> query
                           [] OTHER -> <<id>>
  BY Zenon DEF Parts
<1> HIDE DEF slash, away, query
<1>3. \A id : /\ Parts(id) \in {slash, away, query, <<id>>}
              /\ id \notin {"e1/", "../route/e1", "e2?"} => Parts(id) = <<id>>
  BY <1>2
<1>4. \A id : <<id>> \in Seq({id})
  OBVIOUS
<1>5. \A id : \E S : Parts(id) \in Seq(S)
  BY <1>1, <1>3, <1>4
<1>6. "" \notin {"e1/", "../route/e1", "e2?"}
  BY Zenon
<1> QED BY <1>3, <1>5, <1>6, Zenon

\* The path that is made of an id begins with the kind of the object.
LEMMA ObjectPath ==
    ASSUME NEW kind \in Sections \cup NumberedKinds \cup NamedKinds, NEW id
    PROVE  /\ kind \in Sections => Object(kind, id) = <<kind>>
           /\ kind \in NumberedKinds => Object(kind, id) = <<kind, GetInt(id, 0)>>
           /\ kind \in NamedKinds =>
                /\ Object(kind, id) = <<kind>> \o Parts(GetString(id, ""))
                /\ \A name : Parts(GetString(id, "")) = <<name>> =>
                     Object(kind, id) = <<kind, name>>
           /\ Object(kind, id)[1] = kind
<1> DEFINE number == GetInt(id, 0)
           text == GetString(id, "")
           path == <<kind>> \o Parts(text)
<1>1. Object(kind, id) = CASE kind \in Sections -> <<kind>>
                           [] kind \in NumberedKinds -> <<kind, number>>
                           [] OTHER -> path
  BY Zenon DEF Object
<1>2. path[1] = kind
  <2>1. PICK S : Parts(text) \in Seq(S)
    BY PartsOfText
  <2> DEFINE parts == Parts(text)
             q == <<kind>>
             T == S \cup {kind}
  <2>2. q \in Seq(T) /\ Len(q) = 1 /\ q[1] = kind
    OBVIOUS
  <2>3. parts \in Seq(T)
    <3>1. \A x : x \in S => x \in T
      OBVIOUS
    <3>2. parts \in Seq(S)
      BY <2>1
    <3> HIDE DEF parts, T
    <3>3. \A s \in Seq(S) : s \in Seq(T)
      BY <3>1
    <3> QED BY <3>2, <3>3
  <2> HIDE DEF parts, q, T
  <2>4. 1 \in 1..Len(q)
    BY <2>2
  <2>5. (q \o parts)[1] = kind
    BY <2>2, <2>3, <2>4, ConcatProperties
  <2> QED BY <2>5 DEF q, parts
<1>3. \A name : Parts(text) = <<name>> => path = <<kind, name>>
  BY ShortPaths
<1> HIDE DEF number, text, path
<1>4. /\ kind \in Sections => Object(kind, id) = <<kind>>
      /\ kind \in NumberedKinds => Object(kind, id) = <<kind, number>>
      /\ kind \in NamedKinds => Object(kind, id) = path
  BY <1>1, Kinds
<1>5. Object(kind, id)[1] = kind
  BY <1>2, <1>4
<1> QED BY <1>3, <1>4, <1>5 DEF number, text, path

\* The object that is reached by the path made of an id.
LEMMA EntryOfId ==
    ASSUME NEW kind \in Sections \cup NumberedKinds \cup NamedKinds, NEW id \in IdsOf(kind),
           NEW o \in Reached(Object(kind, id))
    PROVE  /\ kind \in Sections => o = <<kind>>
           /\ kind \in NumberedKinds => o = <<kind, IF IsInteger(id) THEN Denotes(id) ELSE 0>>
           /\ kind \in NamedKinds =>
                /\ Is(id, "text") /\ id.text # ""
                /\ IsComponent(id.text) => o = <<kind, id.text>>
<1> DEFINE path == Object(kind, id)
<1>1. path[1] = kind
  BY ObjectPath
<1> HIDE DEF path
<1>2. /\ o \in Objects
      /\ kind \in NumberedKinds => o = path
      /\ kind \notin NumberedKinds => o \in {path, Resolve(path)}
  BY <1>1 DEF Reached, path
<1>3. ASSUME kind \in Sections PROVE o = <<kind>>
  <2>1. path = <<kind>> /\ Resolve(path) = path /\ kind \notin NumberedKinds
    BY <1>3, ObjectPath, ResolveObject, Kinds DEF path
  <2> QED BY <1>2, <2>1
<1>4. ASSUME kind \in NumberedKinds
      PROVE  o = <<kind, IF IsInteger(id) THEN Denotes(id) ELSE 0>>
  <2>1. o = <<kind, GetInt(id, 0)>>
    BY <1>2, <1>4, ObjectPath DEF path
  <2>2. id \in NumberIds
    BY <1>4 DEF IdsOf, NumberedKinds, Sections
  <2> QED BY <2>1, <2>2, NumberIsDenoted
<1>5. ASSUME kind \in NamedKinds
      PROVE  /\ Is(id, "text") /\ id.text # ""
             /\ IsComponent(id.text) => o = <<kind, id.text>>
  <2> DEFINE text == GetString(id, "")
  <2>1. kind \notin NumberedKinds /\ kind \notin Sections
    BY <1>5, Kinds
  <2>2. \A name : Parts(text) = <<name>> => path = <<kind, name>>
    BY <1>5, ObjectPath DEF path
  <2>3. Is(id, "text") => text = id.text
    BY DEF GetString
  <2>4. ~Is(id, "text") => text = ""
    BY DEF GetString
  <2> HIDE DEF text
  <2>5. text # ""
    <3> SUFFICES ASSUME text = "" PROVE FALSE
      OBVIOUS
    <3>1. path = <<kind, text>>
      BY <2>2, PartsOfText
    <3>2. text \in Nothing /\ text # ".." /\ text \notin {"e1", "e2"}
      <4>1. "" \in Nothing
        BY Zenon DEF Nothing
      <4>2. "" # ".." /\ "" # "e1" /\ "" # "e2"
        BY Zenon
      <4> QED BY <4>1, <4>2, Zenon
    <3>3. Reached(path) = {}
      BY <1>5, <3>1, <3>2, NoEntry
    <3> QED BY <3>3 DEF path
  <2>6. Is(id, "text") /\ text = id.text
    BY <2>3, <2>4, <2>5
  <2>7. ASSUME IsComponent(text) PROVE o = <<kind, text>>
    <3>1. Parts(text) = <<text>> /\ text \notin Nothing /\ text # ".."
      BY <2>7, Zenon DEF IsComponent
    <3>2. path = <<kind, text>> /\ Resolve(path) = path
      BY <1>5, <2>2, <3>1, ResolveObject
    <3> QED BY <1>2, <2>1, <3>2
  <2> QED BY <2>5, <2>6, <2>7
<1> QED BY <1>3, <1>4, <1>5

\* From the invariant: the step of the box changes what the call's id leads to.
LEMMA OthersStay ==
    ASSUME IInv, [Next]_vars, NEW o \in Objects, box'[o] # box[o]
    PROVE  LET kind == KindOf(call)
               id == call.id
           IN  /\ kind \in Sections => o = <<kind>>
               /\ kind \in NumberedKinds =>
                    o = <<kind, IF IsInteger(id) THEN Denotes(id) ELSE 0>>
               /\ kind \in NamedKinds =>
                    /\ Is(id, "text") /\ id.text # ""
                    /\ IsComponent(id.text) => o = <<kind, id.text>>
<1>1. DOMAIN box = Objects
  BY DEF IInv, TypeOK
<1>2. CASE BoxUpdates
  <2>1. o \in Reached(sent.object) /\ sent.op = "put"
    BY <1>1, <1>2 DEF BoxUpdates
  <2>2. call \in Calls /\ sent = Request(call) /\ Request(call) # Refused
    BY <2>1, SentForCall
  <2>3. call.tool \in UpdateTools
    BY <2>1, <2>2, RequestOps
  <2>4. sent.object = Object(KindOf(call), call.id)
    BY <2>2, <2>3, UpdateRequests, KindsOfTools
  <2>5. call.id \in IdsOf(KindOf(call))
    BY <2>2, <2>3, ToolsOfCalls, BoxArguments, KindsOfTools
  <2>6. KindOf(call) \in Sections \cup NumberedKinds \cup NamedKinds
    BY <2>3, KindsOfTools
  <2> QED BY <2>1, <2>4, <2>5, <2>6, EntryOfId
<1>3. CASE BoxDeletes
  <2>1. o \in Reached(sent.object) /\ sent.op = "delete"
    BY <1>1, <1>3 DEF BoxDeletes
  <2>2. call \in Calls /\ sent = Request(call) /\ Request(call) # Refused
    BY <2>1, SentForCall
  <2>3. call.tool \in DeletionTools
    BY <2>1, <2>2, RequestOps
  <2>4. sent.object = Object(KindOf(call), call.id)
    BY <2>2, <2>3, DeleteRequests, KindsOfTools
  <2>5. call.id \in IdsOf(KindOf(call))
    BY <2>2, <2>3, ToolsOfCalls, BoxArguments, KindsOfTools
  <2>6. KindOf(call) \in Sections \cup NumberedKinds \cup NamedKinds
    BY <2>3, KindsOfTools
  <2> QED BY <2>1, <2>4, <2>5, <2>6, EntryOfId
<1>4. ~BoxUpdates /\ ~BoxDeletes => box' = box
  BY DEF Next, Refuse, Send, Answer, vars
<1> QED BY <1>2, <1>3, <1>4

\* From the invariant: what a partial update leaves and what it sets.
LEMMA UpdatedAsGiven ==
    ASSUME IInv, BoxUpdates, sent.object \in Objects, NEW f \in DOMAIN Updates[call.tool].by
    PROVE  LET by == Updates[call.tool].by
               new == box'[sent.object]
               v == call.args[f]
               how == by[f]
           IN  IF PassedOver(how, v) THEN new[f] = Old
               ELSE /\ how \in {"switch", "flag", "toggle"} /\ Is(v, "truth") =>
                         new[f] = v.truth
                    /\ how \in {"port", "percent", "count"} /\ Is(v, "number") =>
                         new[f] = Truncated(v.number)
                    /\ how \in {"text", "word", "name", "mode"} /\ Is(v, "text") =>
                         new[f] = v.text
                    /\ how = "dir" /\ v \in Dirs => new[f] = Encode(Resolve(v))
<1> DEFINE by == Updates[call.tool].by
           o == sent.object
           new == box'[o]
           v == call.args[f]
           how == by[f]
           read == Read(how, v)
           given == {g \in DOMAIN by : Read(by[g], call.args[g]) # {}}
<1>1. pc = "sent" /\ sent.op = "put" /\ o \in Objects
  BY DEF BoxUpdates
<1>2. call \in Calls /\ sent = Request(call) /\ Request(call) # Refused
  BY <1>1, SentForCall
<1>3. call.tool \in UpdateTools
  BY <1>1, <1>2, RequestOps
<1>4. /\ \A g \in given : Read(by[g], call.args[g]) # {Refused}
      /\ o = Object(Updates[call.tool].of, call.id)
      /\ sent.body = [g \in given |-> CHOOSE x \in Read(by[g], call.args[g]) : TRUE]
  BY <1>2, <1>3, UpdateRequests
<1>5. box = OldSettings
  BY <1>1 DEF IInv, SentInv
<1>6. f \in SettingsOf(o)
  <2>1. o[1] = Updates[call.tool].of
    <3> DEFINE kind == Updates[call.tool].of
    <3>1. kind \in Sections \cup NumberedKinds \cup NamedKinds
      BY <1>3, KindsOfTools
    <3>2. o = Object(kind, call.id)
      BY <1>4
    <3> HIDE DEF kind, o
    <3>3. o[1] = kind
      BY <3>1, <3>2, ObjectPath
    <3> QED BY <3>3 DEF kind
  <2>2. call.tool \in DOMAIN Updates
    BY <1>3, TableTools
  <2> QED BY <2>1, <2>2 DEF SettingsOf
<1>7. box[o] = [g \in SettingsOf(o) |-> Old]
  BY <1>1, <1>5 DEF OldSettings
<1>8. new = [g \in DOMAIN box[o] |-> IF g \in DOMAIN sent.body THEN sent.body[g] ELSE box[o][g]]
  <2>1. DOMAIN box = Objects
    BY DEF IInv, TypeOK
  <2>2. Reached(o) = {o}
    BY <1>1, ReachedObject
  <2> HIDE DEF o
  <2>3. box' = [box EXCEPT ![o] =
                  [g \in DOMAIN @ |-> IF g \in DOMAIN sent.body THEN sent.body[g] ELSE @[g]]]
    BY <2>2 DEF BoxUpdates, o
  <2> QED BY <1>1, <2>1, <2>3
<1>9. how \in Ways
  BY <1>3, WaysOfTools
<1>10. read = {} => new[f] = Old
  <2>1. read = {} => f \notin given
    OBVIOUS
  <2>2. DOMAIN sent.body = given
    BY <1>4
  <2> HIDE DEF given, read
  <2> QED BY <1>6, <1>7, <1>8, <2>1, <2>2
<1>11. ASSUME NEW x, read = {x} PROVE new[f] = x
  <2>1. f \in given
    BY <1>11
  <2>2. DOMAIN sent.body = given /\ sent.body[f] = CHOOSE y \in read : TRUE
    BY <1>4, <2>1
  <2>3. (CHOOSE y \in read : TRUE) = x
    BY <1>11
  <2> HIDE DEF given, read
  <2> QED BY <1>6, <1>7, <1>8, <2>1, <2>2, <2>3
<1>12. read # {Refused}
  <2>1. read # {} => f \in given
    OBVIOUS
  <2> QED BY <1>4, <2>1
<1>13. PassedOver(how, v) => read = {}
  BY <1>9, NothingIsRead
<1>14. ~PassedOver(how, v) =>
         /\ how \in {"switch", "flag", "toggle"} /\ Is(v, "truth") => read = {v.truth}
         /\ how \in {"port", "percent", "count"} /\ Is(v, "number") =>
              read = {Truncated(v.number)}
         /\ how \in {"text", "word", "name", "mode"} /\ Is(v, "text") => read = {v.text}
         /\ how = "dir" /\ v \in Dirs => read = {Encode(Resolve(v))}
  BY <1>12, ValueIsRead
<1> HIDE DEF by, o, new, v, how, read
<1>15. IF PassedOver(how, v) THEN new[f] = Old
       ELSE /\ how \in {"switch", "flag", "toggle"} /\ Is(v, "truth") => new[f] = v.truth
            /\ how \in {"port", "percent", "count"} /\ Is(v, "number") =>
                 new[f] = Truncated(v.number)
            /\ how \in {"text", "word", "name", "mode"} /\ Is(v, "text") => new[f] = v.text
            /\ how = "dir" /\ v \in Dirs => new[f] = Encode(Resolve(v))
  BY <1>10, <1>11, <1>13, <1>14
<1> QED BY <1>15, Zenon DEF by, o, new, v, how

-----------------------------------------------------------------------------
(* Theorems                                                                *)

\* A file or disk tool acts on exactly the files that the texts in its arguments
\* denote, in their order.
THEOREM NamedPaths == Spec => []NamedPathsAreUsed
BY RequestInvariant, FilesAreNamed, PTL

\* No spelling of the root of the storage gets through.
THEOREM RootSpared == Spec => []RootIsSpared
BY RequestInvariant, RootIsNotSent, PTL

\* Without a path the tools that change something send nothing.
THEOREM NoDefaults == Spec => []NoDefaultForChanges
BY RequestInvariant, DefaultsAreHarmless, PTL

\* A new name stays in the directory it is given for.
THEOREM NamesStayInParent == Spec => []NewNameStaysInParent
BY RequestInvariant, NamesStay, PTL

\* A forwarding rule opens the ports that were asked for and no others.
THEOREM RulesOpenWhatWasAsked == Spec => []RuleOpensWhatWasAsked
BY RequestInvariant, RulesOpen, PTL

\* A call changes the section its tool is for, or the entry its id names, which is
\* the entry 0 for an id that is no number; only a text with "/", "?" or ".." in it may
\* lead elsewhere.
THEOREM OthersAreSpared == Spec => OtherObjectsStay
<1>1. IInv /\ [Next]_vars => [\A o \in Objects : box'[o] # box[o] =>
         LET kind == KindOf(call)
             id == call.id
         IN  /\ kind \in Sections => o = <<kind>>
             /\ kind \in NumberedKinds => o = <<kind, IF IsInteger(id) THEN Denotes(id) ELSE 0>>
             /\ kind \in NamedKinds =>
                  /\ Is(id, "text") /\ id.text # ""
                  /\ IsComponent(id.text) => o = <<kind, id.text>>]_vars
  BY OthersStay, Zenon
<1> QED BY RequestInvariant, <1>1, PTL DEF Spec, OtherObjectsStay

\* A partial update sets what was given and leaves what was not, or is passed over.
THEOREM SettingsAsGiven == Spec => SettingsChangeAsGiven
<1>1. IInv /\ [Next]_vars => [BoxUpdates /\ sent.object \in Objects =>
         LET by == Updates[call.tool].by
             new == box'[sent.object]
         IN  \A f \in DOMAIN by :
               LET v == call.args[f]
                   how == by[f]
               IN  IF PassedOver(how, v) THEN new[f] = Old
                   ELSE /\ how \in {"switch", "flag", "toggle"} /\ Is(v, "truth") =>
                             new[f] = v.truth
                        /\ how \in {"port", "percent", "count"} /\ Is(v, "number") =>
                             new[f] = Truncated(v.number)
                        /\ how \in {"text", "word", "name", "mode"} /\ Is(v, "text") =>
                             new[f] = v.text
                        /\ how = "dir" /\ v \in Dirs => new[f] = Encode(Resolve(v))]_vars
  BY UpdatedAsGiven, Zenon
<1> QED BY RequestInvariant, <1>1, PTL DEF Spec, SettingsChangeAsGiven

=============================================================================
