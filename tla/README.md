# A TLA+ model of mcp-freebox

mcp-freebox is an MCP server: a host program starts it on stdin and stdout, a language model
calls its tools, and each tool is one or two requests to the HTTPS API of a Freebox. This
directory models the parts of it that are hard to test (sessions and retries, pairing and
restarts, configurations that are read, changed and written back, the requests that tools make
of their arguments), checks them with TLC and proves the main results with TLAPS.

## 1. The system

```
 MCP host --stdio--> MCP library --(5 workers)--> tool handlers (internal/tools)
                                                     |
                     main: token, pairing -----> lazyClient (cmd/freebox-mcp)
                        |         |                  |
                    wincred   internal/pair   client.Client --- auth.Manager (mutex, session)
                                  |                  |              |
                                  +---------- HTTPS -+--------------+----> Freebox
```

| Component | State | Operations | What makes it correct |
|---|---|---|---|
| `auth.Manager` | mutex, app token, cached session | `Token`, `Invalidate`, `refresh` (challenge, login) | callers share a login, a failure frees the mutex, no login storm, a session is never used too old |
| `client.Client` | none of its own | `Get`, `Post`, `PostForm`, `Put`, `Delete` through `do` and `attempt`; `DiscoverAPI` | a request runs at most once, the result is the truth, one loss of sessions is masked |
| `main`, `lazyClient` | the installed client (atomic pointer under a lock), the pairing goroutine | `tryExistingToken`, `autoPair`, `setClient`, `get` | only approved tokens are used or stored, a stored token the box accepts comes first, tools work once the user has approved |
| `freebox-pair`, `pair-and-save.ps1` | none | two questions, a pairing in the foreground, the token printed; the script stores what is pasted | it prints approved tokens only, and ends |
| `pair` | none | `Start`, `WaitForGrant` | the wait ends, an approval that can be seen is used |
| `wincred` | one credential, outside the process | `Read`, `Write`, `Delete`, each of which may fail | what is stored survives restarts and is deleted only when refused |
| `config`, `mdns` | read once at start | `Load`, `Discover` | the box is addressed on the right host and port |
| DHCP configuration tools | a copy per call | `config_set`, `option_set`, `option_delete` | a call changes what it says and nothing else |
| VM tools | a copy per call; machines, disks and tasks on the box | `start` ... `disk_task_delete` | updates add up, disks of running machines are left alone |
| the other tools: filesystem, NAT, leases, routes, shares, downloads, LAN, Wi-Fi, connection, screen, wake-on-LAN, system | none | one request each, made of the arguments | the request says what the arguments say, and reaches the object they name |

The full list, with what is left out of each, is in `PROJECT.json` (`components`).

Where it is hard:

* **Concurrency.** The MCP library runs tool calls in parallel; all share one `auth.Manager`.
  A session is read under the mutex, used outside it, and may have been invalidated, expired or
  replaced when its request is answered. Two read-modify-write tools can overlap.
* **Failure.** Any exchange can fail before or after the box has run it. `http.Client.Timeout`
  ends the caller's wait, not the request.
* **Restart.** The process can end at any point of a pairing; the box keeps pending requests,
  the credential store keeps tokens. Several processes share both.
* **Arguments.** A handler reads JSON by accessors that never fail and by type assertions, each
  with its own idea of a missing, null or mistyped value; which settings a partial update carries,
  and which entry an id names, depends on them.
* **Time.** A session is kept for 25 of its 30 minutes, a pairing is polled every two seconds
  for `pairTimeout`.

Each hazard is listed at its line, with the properties aimed at it, in `PROJECT.json`
(`hazards`).

## 2. The modules

| Module | Models | EXTENDS / INSTANCE |
|---|---|---|
| `RemoteCall` | what a tool is promised: a request that runs at most once | |
| `SessionManager` | `auth.Manager` and the box's login side | |
| `FreeboxClient` | `client.do`, `client.attempt`, the box's request side | extends `SessionManager`, instantiates `RemoteCall` |
| `FreeboxClient_proofs` | theorems, the refinement of `RemoteCall` among them | extends `FreeboxClient` |
| `SessionClock`, `SessionClock_proofs` | the 25-minute margin, with time | |
| `Startup`, `Startup_proofs` | `main`, `lazyClient`, `freebox-pair`, `pair`, `wincred`, the user | |
| `DhcpConfig` | `internal/tools/dhcpconfig.go` | instantiates `RemoteCall` |
| `DhcpConfig_proofs` | theorems | extends `DhcpConfig`, `Loops` |
| `VirtualMachines`, `VirtualMachines_proofs` | `internal/tools/vm.go` | |
| `Discovery`, `Discovery_proofs` | `internal/mdns`, `internal/config` and the start of both commands | the proofs extend `Loops` |
| `ToolArguments` | JSON values, how handlers read them, `validate.go` | |
| `FileRequests` | requests of `filesystem.go` and of the tools of `vm.go` that make disks | extends `ToolArguments` |
| `BoxRequests` | requests of the other tools that change the box in one request | extends `FileRequests` |
| `ToolRequests` | one such call, from its arguments to what the box then holds | extends `BoxRequests` |
| `ToolRequests_proofs` | theorems | extends `ToolRequests`, `Loops` |
| `Loops` | lemmas: induction over the turns of a loop | |
| `MC...` | model values and symmetry for TLC | the module they are named after |

Several modules hold operators commented *Faulty variant*: the same step with a plausible bug
(a check dropped, a reset forgotten). No specification uses them; substituted for the correct
step, each must make TLC report the property listed with it in `PROJECT.json` (`mutants`).

### SessionManager and FreeboxClient

A call `c` is one tool's request. `pc[c]` is its place: `token` (in `Manager.Token`), the login
steps of `refresh` (with `lock = c`), `opened`, `send`, `waiting`, `refused` (an `auth_required`
before `Invalidate`), `done`. `session` is the cache, `expired` says that its 25 minutes are
over. A session is a record of its number (`id`) and of how many losses the box had had when it
opened (`at`); box tokens are taken to be distinct. `live` is what the box accepts, `drops` counts
what it lost (logout, reboot). `req[c]` is a request that may still be run, also after its caller
has timed out; `executed[c]` counts its runs.

| Action | Code |
|---|---|
| `TokenCached`, `TokenRefresh` | `Token`: lock, valid session or `refresh` |
| `GotChallenge`, `LoginDone`, `LoginError`, `LoginFails`, `LoginRevoked`, `LoginReplyLost` | `getChallenge`, `openSession` and each way they fail |
| `Invalidate` | `Invalidate`, between the two attempts |
| `Start`, `Send`, `AuthFailed`, `RequestFails`, `ReceiveSuccess`, `ReceiveError` | `attempt` |
| `ReceiveDenied`, `Retry`, `ReceiveDeniedAgain` | the `auth_required` branch of `do` |
| `BoxExecutes`, `BoxRejects`, `BoxDenies`, `BoxOpensSession`, `BoxDropsSessions`, `BoxRevokes`, `Expire` | the Freebox and the clock (external) |

Left out: an empty session token, the resending of idempotent requests by Go's HTTP transport on
a broken idle connection (GET only; `AtMostOnce` matters for the other methods), and the
contents of requests. A login whose answer is lost leaves a session on the box that nobody uses.

### SessionClock

One session on a clock: opened by the box, stored when the answer arrives, taken, sent. `TTL`,
`BoxTTL` and `Timeout` are parameters in one unit.

### Startup

Processes `p` with `phase[p]`, the token `cur[p]` in hand and the token `client[p]` of the
installed client; `store` is the credential, `status[t]` the box's state of app token `t`
(`refused` is the API's `denied` or `timeout`, which the code treats alike). Those in `Commands`
run `freebox-pair`: the same pairing, between two questions (`asking`, `confirming`), in which the
user may answer at any time or never, and which ends by printing the token (`done`).
`pair-and-save.ps1` may then store the text it is given, the printed token or another (`pasted`),
next to a running server. A command runs once; running it again is another process. A function
that returns forgets its locals (`Forget`).

A server is started with any text in `FREEBOX_APP_TOKEN`, or none: tokens that were printed or
stored, and `Foreign`, which stands for every text that is no token of this box. A credential that
is there may not be readable (`ReadFails`): the code goes on as if there were none. A refused one
may not be deletable (`TokenRevoked` ignores that), and a new one may not be written
(`SaveFails`). `Faults` says which kinds of operations may fail, `faults` which have.

Time passes in the sleep between polls only; a tick is a second of `WaitForGrant`, scaled down.
`validateToken` and the tool calls stand for a login each; how a login fails is in
`SessionManager`. `created` is bounded by `MaxTokens`; a pairing that would need one more token
ends as if the exchange had failed (`PairStartFails`).

### DhcpConfig

`settings` and `options` are the box's; each tool call has a `copy`. Three groups of settings
differ in which payload carries them: main fields (range, DNS, switches), boot fields, and the
options. The GET and the PUT of call `c` are the exchanges `Get(c)` and `Put(c)` of `RemoteCall`,
whose `status` and `runs` this module shares: a PUT with an `unknown` answer may run after the
call has returned, and its copy is kept for that. A GET run so late has no effect and is left out.
`FreeboxClient` is shown to implement `RemoteCall`, so what is found here holds over the real
sessions and retries. Values of a field are `Ignored` (of the wrong type, or empty where the
code asks for more), `Zero` and another.

The answer to a GET need not have every field, nor its options as an array: `Read` takes any
decoding of it (`Decoded`) in which fields have become `Zero` and options none, and that is what
will be written back. `seen[c]`, a history variable, is the configuration a call was shown, if it
was shown all of it.

### VirtualMachines

`vms`, `sizes` and `tasks` are the box's. `update` and `disk_resize` read (`seen[c]`) and then
send; the other tools send at once. What the box does with a request is assumed: ids are not
reused, the status a PUT repeats is ignored, a task that would shrink a disk without
`shrink_allow` fails, a resize is not refused because a machine runs. The code knows two
statuses, `running` and `stopped`; a box that reports others (starting, stopping) weakens the
check further, as only `running` is refused. A call that ends in `sending` did not run; one that
ran and lost its answer ends like one that was answered, since nothing is kept of it. A deletion
may free the machine's disk, as the tool's description says. Only tasks that wait are kept: any
number of them up to `MaxTasks`, run in any order.

The first machine has id 0, which is what a missing or mistyped id names (`GetInt`). Of the five
settings of `vm_update` the model has a number and a switch: a number given as text is 0, a
mistyped switch is ignored, as an empty name is (`Overrides`). Sizes are in bytes and `size_gb` in
half bytes, so that a positive size which the conversion to bytes makes 0 is among the cases.

`asked` (what the updates have asked for, one after the other, until it is put back), `mixed` (the settings that an
update put back although they had changed since its GET and it was not asked for them), `steady`
(resizes whose machine has run since they were called) and the field `consent` of a task (its
caller gave `allow_shrink`) are history variables for the properties.

### Discovery

The start of either command: `phase` goes from `config` (Load) over `scan`, `listening` and
`found` to `ready` (what follows is `Startup`) or `exit`. A datagram is a sequence of records of
one box, of any kinds and also of one kind several times; a host name is told by the box, the kind
and the place of the record it came from, so that host and port can be traced. The last
`api_domain` counts, be it empty, but the first address and the first target. `buf` is the last
datagram, as in the code. Any datagram may arrive at any time; time passes in ticks up to the
deadline of the socket.

### ToolArguments, FileRequests, BoxRequests and ToolRequests

`ToolArguments` gives each kind of JSON value its constructor (`Number`, `Truth`, `Digits` for a
number in a text, `Null`, ...) and models what the accessors of the MCP library and Go's type
assertions make of it, and the checks of `validate.go`. Numbers are counted in halves, to have
fractions.

`FileRequests` is a function from a call to its request, or `Refused`, for each file tool. A path
is the sequence of its components and `Encode` is base64, which keeps it; `Resolve` is the
reference that cleaning is compared with. An item of `src_paths` that is no text (`NotText`) is
dropped before anything looks at it (`GetStringSlice`).

`BoxRequests` does so for the other tools. Ten of them are partial updates and differ only in the
object they update and in how they read each argument, so each is a table row
(`ConnectionConfigSet`, `LanHostUpdate`, ...) read by `Read` and assembled by `Update`. Five
delete an entry (`Delete`). An object is named by the path its URL ends in: a section, or a kind
of entry with its id. A number that is missing or is none is 0. A text is not escaped by the code:
`Parts` says which components of the path it becomes, where a slash separates and a question mark
ends the path.

`ToolRequests` is one call with its arguments drawn from every combination of the constants.
Handlers touch nothing shared before they send, so checks and request are one action (`Send`,
`Refuse`); then the box merges the payload into the object (`BoxUpdates`), deletes it
(`BoxDeletes`) or does anything else (`Answer`). A box may take `..` in a path for what it means,
so that it reaches the entry where the path leads (`Reached`). What a caller is told is
`RemoteCall`'s concern.

## 3. The runs

| Run | Instance | What it shows |
|---|---|---|
| `client_safety` | 3 calls, 2 losses, an expiry, a revocation, symmetric (4.9 million states) | `AtMostOnce`, `OutcomeIsTruthful`, `RetryUsesNewerSession`, `OneDropIsMasked`, `LoginsAreCaused`, and `IInv` |
| `client_live` | 2 calls, fairness, no symmetry | `EveryCallReturns`; `ImplementsRemoteCall` with its liveness |
| `session_clock` | 25/30/2 minutes | `NeverTooOld` |
| `startup` | 1 server, 1 restart, 1 `freebox-pair` with its script, any failures of exchanges and of the store, 3 tokens, deadlines of 3 and 1 ticks with pauses of 2 (350 000 states) | `OnlyGrantedTokens`, `AcceptedTokenComesFirst`, `ClientTokenIsStored`, `DeletesOnlyRefusedTokens`, `PairingEnds`, `GrantLeadsToTools`, and `IInv` |
| `dhcp` | 2 calls, a boot field and a main field, 2 identifiers, 2 values (3.5 million states) | `OneEntryPerOption`, `UndoesOnlyWhatItOverlaps`, `OptionToolsKeepMainFields`, `ReportsAreTrue`, and `IInv` |
| `vm` | 2 calls, 1 machine (id 0), 1 disk, sizes of 0 and 1 byte asked for in half bytes, 2 waiting tasks (3.3 million states) | `UpdatesAddUp`, `ShrinksOnlyIfAllowed`, `SteadyMachinesAreSpared`, and `IInv` |
| `discovery` | 2 boxes (one on port 42460, one on 443), packets of up to 3 records of 10 kinds, repeated ones included, 3 ticks (14 000 states) | `BestHostIsUsed`, `PortBelongsToHost`, `AnnouncedPortIsUsed`, `ScanEnds`, and `IInv` |
| `tool_requests` | one call of each of 30 tools, 45 paths over 6 components, up to 2 sources, 10 names, 8 halves, other JSON values, 12 numbers and 10 texts as ids (257 000 states) | files: `NamedPathsAreUsed`, `RootIsSpared`, `NoDefaultForChanges`, `NewNameStaysInParent`; rules: `RuleOpensWhatWasAsked`; updates and deletions: `SettingsChangeAsGiven`, `OtherObjectsStay`; and `IInv` |
| `pairing_failed` | 1 server, 2 restarts | **violated**: `ErrPairingMeansPairing` |
| `revoked_kept` | 1 server, 2 restarts | **violated**: `RevokedTokenIsDeleted` |
| `vm_resize` | as `vm` | **violated**: `ResizeRefusedWhileRunning` |
| `discovery_plain` | as `discovery` | **violated**: `DiscoveryURLIsPlain` |

Why the bounds are enough. A call interferes with another only through the cache and the mutex;
three calls give a holder of the mutex, a waiter, and a third with a stale token, and two losses
are what `auth_required` needs to reach a caller. The theorems have no such bound. In `startup`
the exit allows a crash at any point of a pairing and a second pairing by the next process, next
to a command whose token the script may store at any moment of these; of the three tokens one may
have been stored earlier and the others are made by these, and a pairing beyond them ends as
failed. A pause that does not divide the deadline makes the last sleep overshoot it. The two-call
instances of `dhcp` and `vm` hold every overlap of two read-modify-write calls, and a third call
only repeats the role of the second (it is another write between the read and the write of the
first). With one machine `vm` does not see a disk that two machines share, which the code does not
look at (`hazards`). Three records hold a host, its port and a rival of either; two boxes are what
a mixture needs. The checks of `ToolRequests` look at one component, name or number at a time and
compare sources pairwise at most. Its numbers are the two ends of the range of ports, what lies
half a unit and one unit beyond them, and a fraction; its other arguments are each kind of JSON
value, missing and null included. Entries 0, 1 and 2 exist of each numbered kind, `e1` and `e2` of
each other one; ids name these and others, and texts that are two components or none.

Divergences found (`PROJECT.json`, `findings`): the four violated runs. After a failed pairing the
tools go on asking for an approval that nobody waits for; a token revoked while the server runs is
not deleted by it, because a tool's error never reaches `ServeStdio`; the resize's look at the
status does not hold until the resize; after discovery `freebox_discover` speaks plain HTTP to the
HTTPS port.

Observed and not given a run. About tokens: `main.go:208` calls the environment an override, and
`CYBER_AUDIT.md` (D3) a way around the Credential Manager, while `README.md:59` calls it the
fallback, which is what the code makes of it, also when the credential cannot be read
(`main.go:194`) or, refused, cannot be deleted (`main.go:200`); that deletion removes whatever is
stored by then, so also what `pair-and-save.ps1` has stored while the box was asked. About
arguments: a missing or mistyped id is the entry 0, which for machines exists (`vm.go:351`,
`vm_test.go:98`); a text id goes unescaped into the URL (`dhcp.go:113`, `network.go:108`,
`lanconfig.go:65`, `wifibss.go:87`), so that one with `/`, `?` or `..` can name another entry;
items of `src_paths` that are no texts are dropped and the others go on (`filesystem.go:237`,
`:292`); a memory or a number of CPUs given as text is sent as 0 (`vm.go:322`); DHCP fields that
an answer leaves out, and options that are no array (`dhcpconfig.go:38`), are written back as
empty. Overlapping updates of one configuration or one machine lose what was written in between:
what the properties exclude (`mixed`), or state as such (`UndoesOnlyWhatItOverlaps`). A `size_gb`
beyond `int64` is converted as the machine pleases (`vm.go:393`), which is not modelled. Further:
an approval given during the last sleep is reported as a time-out (`pair.go:71`, `pair.go:101`);
the comment at `main.go:191` says a network error yields no token while `main.go:201` keeps it;
outside Windows the log says the token was saved (`main.go:256`) although `Write` stores nothing;
two processes can delete each other's token (`main.go:200`); `freebox_fs_mkdir` refuses any name
with a dot though its message speaks of `..`, and lets the empty name through
(`filesystem.go:175`); the "partial" update of the DHCP options carries the boot fields as they
were read (`dhcpconfig.go:77`) and so undoes a concurrent change of them; the end of a NAT range
may lie before its start (`nat.go:89`); an IPv6 host from mDNS is not bracketed; `README.md:52`
says `freebox-pair` saves the token in the Credential Manager, which it only prints
(`freebox-pair/main.go:113`); a toggle called without `enabled` switches off (`wifi.go:85`,
`wifibss.go:85`, `nat.go:133`); a null `use_watch_dir` counts as given and switches it off
(`downloadconfig.go:90`); the brightness of the screen is not checked (`lcd.go:47`);
`validate.go:8` calls itself the single source of truth but `freebox_connection_config_set` does
not use `validatePort`, and a port that is not a number becomes 0; a tiny positive `size_gb`
passes the check "doit être > 0" and becomes 0 bytes (`vm.go:377`); `validateDHCPIP` compares
text, so that a last part of `01` passes; the pattern of private addresses lets parts above 255
through; the directory of `freebox_download_add` is not cleaned as other paths are; a `dns` of
commas only clears the list of servers.

## 4. Fairness

* `FreeboxClient`: weak fairness of each call's own steps, and of the mutex through them: a
  goroutine runs, and every exchange ends because `http.Client.Timeout` is set (30 s unless
  `FREEBOX_TIMEOUT` says otherwise). An exchange that the box never answers ends by
  `RequestFails` or `LoginReplyLost`. Nothing is assumed of the box. The Go mutex hands over to
  waiters that have waited long, which the fairness of `TokenStep` stands for: with finitely many
  calls, each of which takes the mutex at most twice, weak fairness is enough.
* `Startup`: weak fairness of `main`, of the pairing goroutine (of `freebox-pair` too) and of tool
  calls; the user owes no answer to the box or to the command, and the host owes nothing.
* `Discovery`: weak fairness of the program's steps and of the clock; no datagram is owed.
* `DhcpConfig`, `VirtualMachines`, `SessionClock`, `ToolRequests`: safety only. A handler of these
  is a straight line of blocking calls, each of which returns (`EveryCallReturns`).

## 5. What is proved

All theorems are about the safety specification (`SafeSpec`, or `Spec` where that has no fairness)
and hold for every value of the constants under the assumptions named in the modules. These say
that bounds are numbers, that model values such as "missing" or "no call" are none of the values
they stand beside, and what kind of data an argument is (`PathsAssumption`: a path is a sequence of
texts; `NumbersAssumption`: the number in a JSON value is one). For each component an invariant
`IInv` is inductive, is an invariant of the component's run, and implies the properties.

* **`FreeboxClient_proofs`.** `AtMostOnce` and the others are not inductive. `IInv` adds what they
  rest on: `LockInv` (the mutex is held exactly during a login, and only when no session is valid:
  otherwise two logins could overlap), `TokenInv` (a token the box refuses was lost *after* it was
  opened), `RetryInv` (whatever a waiting retry can be given, be it the cache or another call's
  new session, is newer than what was refused), `ExecInv` (a request that may still run has not
  run), `CauseInv` (a session beyond those accounted for is in the cache or on its way). Each
  action preserves each part; the properties follow. `ClientRefinesRemoteCall`: under the mapping
  that sends `executed` to `runs` and the outcomes to `ok`, `refused` or `unknown`, every step is a
  step of `RemoteCall` or a stutter; `IInv` supplies that a success was run once and a refusal
  never.
* **`SessionClock_proofs`.** `SessionsAreNeverTooOld`: if `TTL + 2 * Timeout <= BoxTTL`, the box
  never refuses a session for its age, by bounding the age leg by leg (`AgeInv`). The defaults
  satisfy it; a `FREEBOX_TIMEOUT` above 150 s does not.
* **`Startup_proofs`.** `OnlyApprovedTokens` for any number of servers and commands: what is
  stored, installed or printed is approved because everything on its way there is (`TokenInv`), and
  approval is never undone except by a revocation. `StartupTypes` needs `SleepInv` (a sleeper has
  time left). Three properties are about a server that shares the store with no other one, and are
  proved under `OneServer`, with any number of `freebox-pair` commands and of stored printed tokens
  next to it: `AcceptedTokenComesFirst`, `ClientTokenIsStored`, `DeletesOnlyRefusedTokens`. They
  follow from `StoreInv`, which says at each phase what such a server knows of the store, and from
  `RoleInv` (a process stays in the code of its command, and has a client only when it is ready).
  `PastedStays` and `RefusalStays` are why it goes on knowing it: what the script stored was
  stored, and the box does not take a refusal back. Two servers on one store can break these
  properties (`hazards`), hence the hypothesis; so can a credential that cannot be read or
  written, which the properties name.
* **`DhcpConfig_proofs`.** `OneEntryPerOption`, `UndoesOnlyWhatItOverlaps`,
  `OptionToolsKeepMainFields` and `ReportsAreTrue` for any number of overlapping calls. `IInv` says
  what a copy is at each point (`CopyInv`): until it is changed, what the call was shown; a PUT that
  may still run, be it after its call has returned, carries exactly that with the whole change, and
  distinct ids. So nothing has to be said of what the others do meanwhile. `ChangedRight`
  shows that each tool makes such a copy of one that was read;
  `option_delete` does so by a loop over the options (`DeleteOptionRight`).
* **`VirtualMachines_proofs`.** `UpdatesAddUp`, `ShrinksOnlyIfAllowed` and
  `SteadyMachinesAreSpared` for any number of calls, machines, disks, tasks and sizes. `IInv` adds
  that a call about to send has read a machine (`ReadBeforeSent`), that an id not yet given out has
  no history (`FreshIds`), that a task which may shrink a disk has its caller's consent, however
  long it waits on the box (`ConsentInv`), and that a resize whose machine has run since the call is
  not yet past the check (`SteadyInv`).
* **`Discovery_proofs`.** `BestHostIsUsed`, `PortBelongsToHost` and `AnnouncedPortIsUsed` for any
  boxes, packets of any length and any time-out. `FoundInv` says that the command uses what one
  packet says and nothing else; what a packet says is a loop over its records, about which
  `HostIsBest` and `PortIsAnnounced` are proved by induction over the turns.
* **`ToolRequests_proofs`.** The seven properties of `tool_requests`, for paths of any length over
  any names, any numbers, ids and settings. `IInv` is short, since handlers keep no state: what
  leaves is what the handler makes of the arguments (`SentInv`), encoded and clean. The work is in
  the operators: `ResolveIsClean` (without `..`, the path that `path.Clean` makes leads where the
  given path leads), the lemmas on `Dropping`, the loop behind `Clean` and `GetStringSlice`;
  `NameStays` (a name without a separator stays in its directory); `NumberIsDenoted` (a number
  that is not the default is the one that was given); `EntryOfId` (what an id names, also where
  the box resolves the path); `Readers`, `NothingIsRead` and `ValueIsRead` (what each way of
  reading an argument makes of it); and one lemma for the requests of each group of tools. What
  `Sanitize` and `Rename` look for in a text stays a matter of the few texts that stand for the
  cases (`HasTwoDots`, `HasSeparator`, `Parts`): any other text counts as a plain one. The entries
  of the box are the few that `Entries` lists.
* **`Loops`.** The models write a loop over a sequence as a recursive function of the number of
  turns. The library's induction theorems take an operator, which the provers cannot instantiate,
  but its `WFMin` takes a set: `SetInduction` and `TurnInduction` follow from it, and `LoopExists`
  (such a function exists, which is what its recursive definition needs).

Only model-checked: liveness (`EveryCallReturns`, `PairingEnds`,
`GrantLeadsToTools`, the liveness part of the refinement, `ScanEnds`), since fairness and `ENABLED`
are beyond the prover. All other properties of passing runs are theorems.

## 6. Not modelled, and the plan

Not modelled: the JSON of the API's answers and the tolerance for its variants (but for the DHCP
configuration, where what was decoded is written back), the Win32 calls and TLS (libraries), logs,
the read-only tools (one GET, whose answer is formatted), the registration of tools, the diagnostic
commands and the scripts but for `pair-and-save.ps1` (and `load-token.ps1`, as a way to the
environment's token), sizes beyond `int64`.

In order:

1. Theorems: `DhcpConfig` over `RemoteCall` step by step, as `FreeboxClient` is.
2. Composition: the VM tools over `RemoteCall` in place of their own lossy request; two machines
   on one disk.
3. `FileTasks`, if it says more than `VirtualMachines` does of tasks: overlapping mv, cp and rm.
4. `Startup` over `SessionManager`, so that validation and tool calls are logins of the model.
