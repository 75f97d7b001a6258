----------------------------- MODULE BoxRequests -----------------------------
(***************************************************************************)
(* The tools that change a setting or an entry of the box in one request:  *)
(* partial updates (connectionconfig.go, downloadconfig.go, netshare.go,   *)
(* lanconfig.go, wifi.go, wifibss.go, lcd.go, nat.go, downloads.go),       *)
(* deletions and creations (nat.go, dhcp.go, network.go, downloads.go,     *)
(* wol.go, vm.go, sysaction.go).                                           *)
(*                                                                         *)
(* An object of the box is named by its path: <<"wifi">> for a section of  *)
(* the configuration, <<"rule", 0>> or <<"lease", "e1">> for an entry of a *)
(* collection, by the number or the text that is its id.  Where a          *)
(* collection stands in the box's tree of paths is left out.               *)
(***************************************************************************)
EXTENDS FileRequests

-----------------------------------------------------------------------------
(* Partial updates                                                         *)

\* For each tool the object it updates, the arguments it reads, under the names the
\* box gives to the settings, and the way it reads each (Read).
ConnectionConfigSet ==
    [of |-> "connection",
     by |-> [ping |-> "switch", remote_access |-> "switch", remote_access_port |-> "port",
             wol_port |-> "port", adblock |-> "switch"]]
SambaConfigSet ==
    [of |-> "samba",
     by |-> [file_share_enabled |-> "switch", print_share_enabled |-> "switch",
             logon_enabled |-> "switch", logon_user |-> "text", workgroup |-> "name"]]
DownloadConfigSet ==
    [of |-> "downloads",
     by |-> [download_dir |-> "dir", watch_dir |-> "dir", use_watch_dir |-> "flag",
             max_downloading_tasks |-> "count", throttling |-> "mode"]]
WifiToggle == [of |-> "wifi", by |-> [enabled |-> "toggle"]]
LcdBrightness == [of |-> "lcd", by |-> [brightness |-> "percent"]]
NatToggle == [of |-> "rule", by |-> [enabled |-> "toggle"]]
DownloadToggle == [of |-> "download", by |-> [status |-> "word"]]
WifiSsidToggle == [of |-> "bss", by |-> [enabled |-> "toggle"]]
LanHostRename == [of |-> "host", by |-> [primary_name |-> "name"]]
LanHostUpdate == [of |-> "host", by |-> [primary_name |-> "name", host_type |-> "name"]]

Updates == [
    connection_config_set |-> ConnectionConfigSet, samba_config_set |-> SambaConfigSet,
    download_config_set |-> DownloadConfigSet, wifi_toggle |-> WifiToggle,
    lcd_brightness |-> LcdBrightness, nat_toggle |-> NatToggle,
    download_toggle |-> DownloadToggle, wifi_ssid_toggle |-> WifiSsidToggle,
    lan_host_rename |-> LanHostRename, lan_host_update |-> LanHostUpdate]

\* The entry each of these tools deletes.
NatDelete == [of |-> "rule"]
DownloadDelete == [of |-> "download"]
VMDelete == [of |-> "vm"]
DHCPStaticDelete == [of |-> "lease"]
RouteDelete == [of |-> "route"]

Deletions == [
    nat_delete |-> NatDelete, download_delete |-> DownloadDelete, vm_delete |-> VMDelete,
    dhcp_static_delete |-> DHCPStaticDelete, route_delete |-> RouteDelete]

Sections == {"connection", "samba", "downloads", "wifi", "lcd"}
NumberedKinds == {"rule", "download", "vm"}
NamedKinds == {"lease", "route", "bss", "host"}

\* What a text is in the path of a request: nothing in it is escaped, so a slash
\* separates components and what follows a question mark is no part of the path.
Parts(id) ==
    CASE id = "e1/" -> <<"e1", "">>
      [] id = "../route/e1" -> <<"..", "route", "e1">>
      [] id = "e2?" -> <<"e2">>
      [] OTHER -> <<id>>

\* Faulty variant: entries are counted from 1, which is the default.
FirstObject(kind, id) ==
    CASE kind \in Sections -> <<kind>>
      [] kind \in NumberedKinds -> <<kind, GetInt(id, 1)>>
      [] OTHER -> <<kind>> \o Parts(GetString(id, ""))

\* The path that is made of a call's id: a missing one is 0 or the empty text.
Object(kind, id) ==
    CASE kind \in Sections -> <<kind>>
      [] kind \in NumberedKinds -> <<kind, GetInt(id, 0)>>
      [] OTHER -> <<kind>> \o Parts(GetString(id, ""))

\* Faulty variant: a switch that is not given is sent as FALSE.
SwitchOrFalse(v) == {GetBool(v, FALSE)}

\* Only a boolean is taken for one.
Switch(v) == IF Is(v, "truth") THEN {v.truth} ELSE {}

\* What an argument puts into the payload: nothing, or one value.
Read(how, v) ==
    CASE how = "switch" -> Switch(v)
      [] how = "flag" -> IF v = Absent THEN {} ELSE {GetBool(v, FALSE)}
      [] how = "toggle" -> {GetBool(v, FALSE)}
      [] how = "port" -> IF v \in {Absent, Null} THEN {} ELSE {ToInt(v)}
      [] how = "percent" -> {GetInt(v, 50)}
      [] how = "count" -> {n \in {GetInt(v, 0)} : n > 0}
      [] how = "text" -> IF Is(v, "text") THEN {v.text} ELSE {}
      [] how = "word" -> {GetString(v, "")}
      [] how = "name" -> {GetString(v, "")} \ {""}
      [] how = "mode" -> {IF s = "bad" THEN Refused ELSE s : s \in {GetString(v, "")} \ {""}}
      [] how = "dir" -> IF v \in {Absent, <<"">>} THEN {} ELSE
                          {IF p = Refused THEN Refused ELSE Encode(p) : p \in {Sanitize(v)}}

\* The tools that refuse a call which would change nothing.
RefuseNothing == {"connection_config_set", "samba_config_set", "download_config_set",
                  "lan_host_update"}

\* PUT: a payload of the settings that were read.
Update(c) ==
    LET by == Updates[c.tool].by
        payload(f) == Read(by[f], c.args[f])
        given == {f \in DOMAIN by : payload(f) # {}}
    IN  IF \/ \E f \in given : payload(f) = {Refused}
           \/ given = {} /\ c.tool \in RefuseNothing
           \/ c.tool = "lan_host_update" /\ GetString(c.id, "") = ""
          THEN Refused
        ELSE [op |-> "put", object |-> Object(Updates[c.tool].of, c.id),
              body |-> [f \in given |-> CHOOSE x \in payload(f) : TRUE]]

\* DELETE, without any check of the id.
Delete(c) == [op |-> "delete", object |-> Object(Deletions[c.tool].of, c.id)]

-----------------------------------------------------------------------------
(* Creations                                                               *)

\* Faulty variant: the end of the range is sent unchecked.
ValidStart(lan, start, end) == ValidPort(lan) /\ ValidPort(start)

ValidPorts(lan, start, end) == ValidPort(lan) /\ ValidPort(start) /\ ValidPort(end)

\* The end is the start unless given; a rule is enabled unless told otherwise.
CreateRule(c) ==
    LET lan == GetInt(c.lan, 0)
        start == GetInt(c.start, 0)
        end == IF c.end = Absent THEN start ELSE ToInt(c.end)
    IN  IF ~ValidPrivateIP(c.ip) \/ ~ValidPorts(lan, start, end) THEN Refused
        ELSE [op |-> "nat_create", lan |-> lan, start |-> start, end |-> end,
              enabled |-> Switch(c.enabled) # {FALSE}]

CreateLease(c) ==
    IF ~ValidMAC(c.mac) \/ ~ValidDHCPIP(c.ip) THEN Refused
    ELSE [op |-> "lease_create", mac |-> c.mac, ip |-> c.ip]

WakeUp(c) ==
    IF ~ValidMAC(c.mac) \/ ~ValidSecureOn(c.password) THEN Refused
    ELSE [op |-> "wol", mac |-> c.mac, iface |-> IF c.iface = Absent THEN "pub" ELSE c.iface]

\* The directory is encoded as it is.
AddDownload(c) ==
    IF ~ValidDownload(c.url) THEN Refused
    ELSE [op |-> "download_add", url |-> c.url,
          dir |-> IF c.dir \in {Absent, <<"">>} THEN <<>> ELSE <<Encode(c.dir)>>]

\* These check nothing.
AddRoute == [op |-> "route_add"]
Reboot == [op |-> "reboot"]

=============================================================================
