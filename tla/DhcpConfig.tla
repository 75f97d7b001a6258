----------------------------- MODULE DhcpConfig -----------------------------
(***************************************************************************)
(* internal/tools/dhcpconfig.go: three tools that read the DHCP server's   *)
(* configuration, change their copy of it and write back a part of it.     *)
(* Tool calls run concurrently and nothing ties the PUT to the GET.        *)
(*                                                                         *)
(* Both requests are calls of the client, so each is an exchange of        *)
(* RemoteCall: it runs at most once, and one whose answer is unknown may   *)
(* still run later.  The box merges a PUT: fields that are absent from the *)
(* payload keep their value.                                               *)
(***************************************************************************)
EXTENDS Sequences, Naturals

CONSTANTS
    Callers,     \* tool calls, each made once
    BootFields,  \* boot_server, boot_file
    MainFields,  \* enabled, sticky_assign, ip_range_start, ..., dns
    Vals,        \* values of fields and of options
    Ids,         \* DHCP option identifiers
    Zero,        \* "" or false: what a field that the box leaves out decodes to
    Ignored      \* an argument of the wrong type, or an empty range or dns

Fields == BootFields \cup MainFields

ASSUME DhcpAssumption ==
    Zero \in Vals /\ Ignored \notin Vals /\ BootFields \cap MainFields = {}

VARIABLES
    settings,  \* box: the fields of the configuration
    options,   \* box: its custom options, in order
    status,    \* what the client has answered to each exchange (RemoteCall)
    runs,      \* how often the box has run it (RemoteCall)
    pc,        \* where each tool call is
    args,      \* what it was asked
    copy,      \* the DHCPConfig the box sends it, then its changed copy
    seen       \* history: the configuration each call has been shown, in full

boxVars == <<settings, options>>
vars == <<boxVars, status, runs, pc, args, copy, seen>>

\* The two exchanges of a tool call.
Get(c) == <<c, "get">>
Put(c) == <<c, "put">>

Exchanges == Callers \X {"get", "put"}

RC == INSTANCE RemoteCall WITH Calls <- Exchanges

Option == [id : Ids, val : Vals]
Config == [settings : [Fields -> Vals], options : Seq(Option)]

\* The arguments of freebox_dhcp_config_set: any of the known fields.
Patches == UNION {[F -> Vals \cup {Ignored}] : F \in SUBSET Fields}

Requests ==
    [tool : {"config_set"}, patch : Patches]
      \cup [tool : {"option_set"}, id : Ids, val : Vals]
      \cup [tool : {"option_delete"}, id : Ids]

NoRequest == [tool |-> "none"]
NoCopy == [settings |-> <<>>, options |-> <<>>]

-----------------------------------------------------------------------------
(* What each handler makes of its copy                                     *)

\* Faulty variant: an argument of the wrong type is stored all the same.
PatchedUnchecked(s, patch) ==
    [f \in Fields |-> IF f \in DOMAIN patch THEN patch[f] ELSE s[f]]

\* Faulty variant: the update is filled in from the arguments alone.
PatchedAlone(s, patch) ==
    [f \in Fields |-> IF f \in DOMAIN patch /\ patch[f] # Ignored THEN patch[f] ELSE Zero]

\* Fields that are present, of the right type and not empty where that matters.
Patched(s, patch) ==
    [f \in Fields |-> IF f \in DOMAIN patch /\ patch[f] # Ignored THEN patch[f] ELSE s[f]]

Has(opts, id) == \E i \in DOMAIN opts : opts[i].id = id

\* Faulty variant: the option is always appended.
AppendOption(opts, id, val) == Append(opts, [id |-> id, val |-> val])

\* The first option with this id gets the value, or a new one is appended.
SetOption(opts, id, val) ==
    IF Has(opts, id)
      THEN LET first == CHOOSE i \in DOMAIN opts :
                          opts[i].id = id /\ \A j \in 1..(i - 1) : opts[j].id # id
           IN  [opts EXCEPT ![first].val = val]
      ELSE Append(opts, [id |-> id, val |-> val])

\* Faulty variant: the filter keeps what it should remove.
KeepOnlyOption(opts, id) == SelectSeq(opts, LAMBDA o : o.id = id)

\* Every option with this id is left out.
DeleteOption(opts, id) ==
    LET kept[n \in 0..Len(opts)] ==
          IF n = 0 THEN <<>>
          ELSE IF opts[n].id = id THEN kept[n - 1]
          ELSE Append(kept[n - 1], opts[n])
    IN  kept[Len(opts)]

Changed(cfg, req) ==
    CASE req.tool = "config_set" -> [cfg EXCEPT !.settings = Patched(cfg.settings, req.patch)]
      [] req.tool = "option_set" ->
           [cfg EXCEPT !.options = SetOption(cfg.options, req.id, req.val)]
      [] req.tool = "option_delete" ->
           [cfg EXCEPT !.options = DeleteOption(cfg.options, req.id)]

\* Faulty variant: the option tools send the whole configuration back.
WholePayload(tool) == Fields

\* Faulty variant: config_set sends the update of the option tools.
OptionsPayload(tool) == BootFields

\* dhcpConfigUpdate carries every field, dhcpOptionsUpdate the boot fields; the
\* options go with both.
Payload(tool) == IF tool = "config_set" THEN Fields ELSE BootFields

-----------------------------------------------------------------------------

\* The box holds at most one option at first (any configuration it accepts has
\* distinct ids).
Init ==
    /\ RC!Init
    /\ settings \in [Fields -> Vals]
    /\ options \in {<<>>} \cup {<<o>> : o \in Option}
    /\ pc = [c \in Callers |-> "idle"]
    /\ args = [c \in Callers |-> NoRequest]
    /\ copy = [c \in Callers |-> NoCopy]
    /\ seen = [c \in Callers |-> NoCopy]

\* The handler returns and forgets; only a PUT that may still run is kept.
Return(c, result) ==
    /\ pc' = [pc EXCEPT ![c] = result]
    /\ args' = [args EXCEPT ![c] = NoRequest]
    /\ copy' = [copy EXCEPT ![c] = NoCopy]
    /\ seen' = [seen EXCEPT ![c] = NoCopy]

\* config_set without a known field, and an option tool without an id, are
\* refused before any exchange.
Refuse(c) ==
    /\ pc[c] = "idle"
    /\ Return(c, "refused")
    /\ UNCHANGED <<boxVars, status, runs>>

Call(c) ==
    /\ pc[c] = "idle"
    /\ \E req \in Requests : /\ req.tool = "config_set" => req.patch # <<>>
                            /\ args' = [args EXCEPT ![c] = req]
    /\ pc' = [pc EXCEPT ![c] = "reading"]
    /\ RC!Begin(Get(c))
    /\ UNCHANGED <<boxVars, copy, seen>>

\* The box answers GET /dhcp/config/ with its configuration at this moment; a GET
\* that runs after its caller has given up leaves no trace and is left out.
BoxReads(c) ==
    /\ pc[c] = "reading"
    /\ RC!Run(Get(c))
    /\ copy' = [copy EXCEPT ![c] = [settings |-> settings, options |-> options]]
    /\ UNCHANGED <<boxVars, pc, args, seen>>

\* What the answer may decode to: a field it does not have becomes its zero value,
\* and options that come as an object, which stands for none, become none.
Decoded(cfg) ==
    [settings : {s \in [Fields -> Vals] : \A f \in Fields : s[f] \in {cfg.settings[f], Zero}},
     options : {cfg.options, <<>>}]

\* The answer is decoded into the handler's copy, which will be written back.
Read(c) ==
    /\ pc[c] = "reading"
    /\ RC!Answer(Get(c), "ok")
    /\ \E cfg \in Decoded(copy[c]) :
         /\ copy' = [copy EXCEPT ![c] = cfg]
         /\ seen' = [seen EXCEPT ![c] = IF cfg = copy[c] THEN cfg ELSE NoCopy]
    /\ pc' = [pc EXCEPT ![c] = "changing"]
    /\ UNCHANGED <<boxVars, args>>

ReadFails(c) ==
    /\ pc[c] = "reading"
    /\ \E a \in {"refused", "unknown"} : RC!Answer(Get(c), a)
    /\ Return(c, "failed")
    /\ UNCHANGED boxVars

\* The copy is changed and sent; deleting an absent option is an error.
Write(c) ==
    /\ pc[c] = "changing"
    /\ args[c].tool = "option_delete" => Has(copy[c].options, args[c].id)
    /\ copy' = [copy EXCEPT ![c] = Changed(copy[c], args[c])]
    /\ RC!Begin(Put(c))
    /\ pc' = [pc EXCEPT ![c] = "writing"]
    /\ UNCHANGED <<boxVars, args, seen>>

NothingToDelete(c) ==
    /\ pc[c] = "changing"
    /\ args[c].tool = "option_delete"
    /\ ~Has(copy[c].options, args[c].id)
    /\ Return(c, "refused")
    /\ UNCHANGED <<boxVars, status, runs>>

\* The box applies the PUT, possibly after its caller has given up.
BoxApplies(c) ==
    /\ RC!Run(Put(c))
    /\ settings' = [f \in Fields |-> IF f \in Payload(args[c].tool)
                                       THEN copy[c].settings[f] ELSE settings[f]]
    /\ options' = copy[c].options
    /\ UNCHANGED <<pc, args, copy, seen>>

Answered(c) ==
    /\ pc[c] = "writing"
    /\ RC!Answer(Put(c), "ok")
    /\ Return(c, "done")
    /\ UNCHANGED boxVars

\* The PUT is refused by the box, lost, or its answer is.
WriteFails(c) ==
    /\ pc[c] = "writing"
    /\ \/ RC!Answer(Put(c), "refused") /\ Return(c, "failed")
       \/ /\ RC!Answer(Put(c), "unknown")
          /\ pc' = [pc EXCEPT ![c] = "failed"]
          /\ UNCHANGED <<args, copy, seen>>
    /\ UNCHANGED boxVars

\* What the handler does by itself once it has been called.
Continue(c) ==
    \/ Read(c) \/ ReadFails(c) \/ Write(c) \/ NothingToDelete(c)
    \/ Answered(c) \/ WriteFails(c)

Next == \E c \in Callers :
    \/ Refuse(c) \/ Call(c) \/ Continue(c)
    \/ BoxReads(c) \/ BoxApplies(c)

Spec == Init /\ [][Next]_vars

-----------------------------------------------------------------------------
(* Properties                                                              *)

\* Types of the configuration and of the calls.
TypeOK ==
    /\ settings \in [Fields -> Vals]
    /\ options \in Seq(Option)
    /\ status \in [Exchanges -> {"idle", "pending"} \cup RC!Answers]
    /\ runs \in [Exchanges -> 0..1]
    /\ pc \in [Callers -> {"idle", "reading", "changing", "writing", "done", "refused", "failed"}]
    /\ args \in [Callers -> Requests \cup {NoRequest}]
    /\ copy \in [Callers -> Config \cup {NoCopy}]
    /\ seen \in [Callers -> Config \cup {NoCopy}]

DistinctIds(opts) ==
    \A i, j \in DOMAIN opts : opts[i].id = opts[j].id => i = j

\* The option array never holds two entries for one identifier, whatever calls
\* overlap: option_set looks the id up in the copy it is about to write back.
OneEntryPerOption == DistinctIds(options)

Holds(opts, o) == \E i \in DOMAIN opts : opts[i] = o

\* These settings and options are s and opts after the change req and no other.
Exact(req, s, opts, newSettings, newOptions) ==
    /\ \A f \in Fields :
         newSettings[f] =
           IF req.tool = "config_set" /\ f \in DOMAIN req.patch /\ req.patch[f] # Ignored
             THEN req.patch[f] ELSE s[f]
    /\ \A o \in Option :
         Holds(newOptions, o) <=>
           CASE req.tool # "config_set" /\ req.id = o.id -> req.tool = "option_set" /\ req.val = o.val
             [] OTHER -> Holds(opts, o)

\* The fields that call c works from: those it was shown, or for the main fields of
\* an option tool those of the box.
Basis(c) ==
    [f \in Fields |-> IF args[c].tool = "config_set" \/ f \in BootFields
                        THEN seen[c].settings[f] ELSE settings[f]]

\* Whatever calls overlap and however late a PUT is run, a call that was shown the
\* whole configuration leaves the box as it was shown, with the change it was asked
\* for and no other; an option tool leaves the main fields as they are.  So it undoes
\* only what was written between its GET and its PUT, and nothing if nothing was.
UndoesOnlyWhatItOverlaps ==
    [][\A c \in Callers :
         BoxApplies(c) /\ seen[c] # NoCopy =>
           Exact(args[c], Basis(c), seen[c].options, settings', options')]_vars

\* An option tool may race freebox_dhcp_config_set and still never undoes a change
\* of the range, the DNS servers or the switches: its payload leaves them out.
OptionToolsKeepMainFields ==
    [][\A c \in Callers :
         BoxApplies(c) /\ args[c].tool # "config_set" =>
           \A f \in MainFields : settings'[f] = settings[f]]_vars

\* What the call was asked is so in this configuration of the box.
InForce(req, s, opts) ==
    CASE req.tool = "config_set" ->
           \A f \in DOMAIN req.patch : req.patch[f] # Ignored => s[f] = req.patch[f]
      [] req.tool = "option_set" -> Holds(opts, [id |-> req.id, val |-> req.val])
      [] req.tool = "option_delete" -> ~Has(opts, req.id)

\* Whatever overlaps, a call that reports success made its own change, in full, at
\* the moment the box ran its PUT, and a call that refuses has not written and
\* never will.
ReportsAreTrue ==
    [][\A c \in Callers :
         /\ BoxApplies(c) => InForce(args[c], settings', options') /\ pc[c] # "refused"
         /\ pc'[c] = "done" => runs[Put(c)] = 1]_vars

-----------------------------------------------------------------------------
(* Why they hold                                                           *)

\* The box may still run this PUT.
Open(c) == status[Put(c)] \in {"pending", "unknown"} /\ runs[Put(c)] = 0

\* Until it is changed, the copy is what the call was shown; what may still be run is
\* the whole of the change asked for.
CopyInv(c) ==
    /\ DistinctIds(copy[c].options)
    /\ pc[c] = "changing" \/ (pc[c] = "reading" /\ runs[Get(c)] = 1) => copy[c] \in Config
    /\ pc[c] = "changing" /\ seen[c] # NoCopy => copy[c] = seen[c]
    /\ Open(c) =>
         /\ args[c] \in Requests /\ copy[c] \in Config
         /\ InForce(args[c], copy[c].settings, copy[c].options)
         /\ seen[c] # NoCopy =>
              Exact(args[c], seen[c].settings, seen[c].options, copy[c].settings, copy[c].options)

CallInv(c) ==
    /\ pc[c] = "idle" => runs[Get(c)] = 0
    /\ pc[c] \in {"idle", "reading", "changing", "refused"} => status[Put(c)] = "idle"
    /\ pc[c] \in {"reading", "changing"} => args[c] \in Requests
    /\ pc[c] = "done" => runs[Put(c)] = 1

\* The inductive invariant behind the four properties above.
IInv ==
    /\ TypeOK /\ OneEntryPerOption
    /\ \A c \in Callers : CopyInv(c) /\ CallInv(c)

=============================================================================
