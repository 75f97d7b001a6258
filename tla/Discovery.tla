----------------------------- MODULE Discovery ------------------------------
(***************************************************************************)
(* The choice of the box and of its URLs: config.Load, mdns.Discover and   *)
(* the first lines of both commands (freebox-mcp and freebox-pair).        *)
(*                                                                         *)
(* Freeboxes answer the multicast query with any of their records in any   *)
(* order; other datagrams reach the socket too.  The strings of a TXT      *)
(* record are flattened into the packet, each of them a record.  Records   *)
(* of one kind may come several times, with other contents: host names and *)
(* addresses are told apart by the box, the kind and the place of the      *)
(* record they came from.                                                  *)
(***************************************************************************)
EXTENDS Naturals, SequencesExt

CONSTANTS
    Boxes,       \* Freeboxes on the LAN
    HttpsPort,   \* the port on which each serves HTTPS
    Timeout,     \* DefaultTimeout of the scan, in ticks
    MaxRecords,  \* bound on the records of a packet
    Default,     \* mafreebox.freebox.fr
    Given,       \* the host in FREEBOX_HOST
    None

HTTP == 80
HTTPS == 443

ASSUME DiscoveryAssumption ==
    /\ HttpsPort \in [Boxes -> Nat \ {0, HTTP}]
    /\ Timeout \in Nat /\ MaxRecords \in Nat

VARIABLES
    phase,   \* of the command that starts
    clock,   \* time since the query was sent
    buf,     \* the last datagram read
    info,    \* what Discover returned
    host     \* Config.Host: a name and perhaps a port

vars == <<phase, clock, buf, info, host>>

\* "port0" and "port_bad" are https_port strings with the value 0 and with one
\* that Atoi refuses, "no_domain" an api_domain string with an empty value; "other" is
\* a string without '=' or with an unknown key.
DomainKinds == {"api_domain", "no_domain"}
AddressKinds == {"a", "aaaa"}
PortKinds == {"https_port", "port0"}
Kinds == DomainKinds \cup AddressKinds \cup PortKinds
           \cup {"srv", "aaaa_local", "port_bad", "other"}

Record == [kind : Kinds, of : Boxes, place : 1..MaxRecords]

ASSUME NamesAssumption ==
    /\ None \notin Record \cup Nat
    /\ Default \notin Record /\ Given \notin Record

\* The datagrams that can arrive: answers of one box, and what Unpack refuses.
Answers(b) ==
    {[i \in DOMAIN s |-> [kind |-> s[i], of |-> b, place |-> i]] :
       s \in UNION {[1..n -> Kinds] : n \in 0..MaxRecords}}

Garbage == <<>>

Datagrams == {Garbage} \cup UNION {Answers(b) : b \in Boxes}

-----------------------------------------------------------------------------
(* parseResponse                                                           *)

NothingYet == [domain |-> None, addr |-> None, srv |-> None, port |-> HTTPS]

FirstOf(old, r) == IF old = None THEN r ELSE old

\* Faulty variant: the SRV record's port is taken for the HTTPS port, and one that
\* cannot be read is stored.
AbsorbAnyPort(acc, r) ==
    CASE r.kind = "api_domain" -> [acc EXCEPT !.domain = r]
      [] r.kind = "no_domain" -> [acc EXCEPT !.domain = None]
      [] r.kind \in AddressKinds -> [acc EXCEPT !.addr = FirstOf(@, r)]
      [] r.kind = "srv" -> [acc EXCEPT !.srv = FirstOf(@, r), !.port = HTTP]
      [] r.kind = "https_port" -> [acc EXCEPT !.port = HttpsPort[r.of]]
      [] r.kind = "port0" -> [acc EXCEPT !.port = 0]
      [] r.kind = "port_bad" -> [acc EXCEPT !.port = None]
      [] OTHER -> acc

\* One record of the answer. The first address and the first SRV target count, the
\* last api_domain, be it empty, and the last https_port; a link-local address does
\* not, nor does the port of an SRV record.
Absorb(acc, r) ==
    CASE r.kind = "api_domain" -> [acc EXCEPT !.domain = r]
      [] r.kind = "no_domain" -> [acc EXCEPT !.domain = None]
      [] r.kind \in AddressKinds -> [acc EXCEPT !.addr = FirstOf(@, r)]
      [] r.kind = "srv" -> [acc EXCEPT !.srv = FirstOf(@, r)]
      [] r.kind = "https_port" -> [acc EXCEPT !.port = HttpsPort[r.of]]
      [] r.kind = "port0" -> [acc EXCEPT !.port = 0]
      [] OTHER -> acc

\* Faulty variant: addresses come before the certified name.
AddressFirst(acc) == FirstOf(FirstOf(acc.addr, acc.domain), acc.srv)

HostOf(acc) == FirstOf(FirstOf(acc.domain, acc.addr), acc.srv)

\* None when the answer names no host.
ParseResponse(packet) ==
    LET acc[n \in 0..Len(packet)] ==
          IF n = 0 THEN NothingYet ELSE Absorb(acc[n - 1], packet[n])
        all == acc[Len(packet)]
    IN  IF HostOf(all) = None THEN None ELSE [host |-> HostOf(all), port |-> all.port]

-----------------------------------------------------------------------------

Init ==
    /\ phase = "config"
    /\ clock = 0
    /\ buf = Garbage
    /\ info = None
    /\ host = [name |-> Default, port |-> None]

\* config.Load: with FREEBOX_HOST nothing is searched; an APIBase without a leading
\* slash ends the program.
Load ==
    /\ phase = "config"
    /\ \/ /\ host' = [name |-> Given, port |-> None]
          /\ phase' = "ready"
       \/ /\ phase' = "scan"
          /\ UNCHANGED host
       \/ /\ phase' = "exit"
          /\ UNCHANGED host
    /\ UNCHANGED <<clock, buf, info>>

\* The socket is opened and the query sent; the deadline is set once.
Query ==
    /\ phase = "scan"
    /\ phase' = "listening"
    /\ UNCHANGED <<clock, buf, info, host>>

\* Listening, sending or reading fails: the default host stays.
ScanFails ==
    /\ phase \in {"scan", "listening"}
    /\ phase' = "ready"
    /\ UNCHANGED <<clock, buf, info, host>>

\* Faulty variant: every datagram renews the deadline.
IgnoreAndWait(p) ==
    /\ phase = "listening"
    /\ clock < Timeout
    /\ ParseResponse(p) = None
    /\ buf' = p
    /\ clock' = 0
    /\ UNCHANGED <<phase, info, host>>

\* A datagram that cannot be unpacked or names no host is passed over.
Ignore(p) ==
    /\ phase = "listening"
    /\ clock < Timeout
    /\ ParseResponse(p) = None
    /\ buf' = p
    /\ UNCHANGED <<phase, clock, info, host>>

\* Faulty variant: what the datagram before it said is not forgotten.
FindInBoth(p) ==
    /\ phase = "listening"
    /\ clock < Timeout
    /\ ParseResponse(p) # None
    /\ buf' = p
    /\ info' = ParseResponse(buf \o p)
    /\ phase' = "found"
    /\ UNCHANGED <<clock, host>>

\* The first datagram that names a host ends the scan.
Find(p) ==
    /\ phase = "listening"
    /\ clock < Timeout
    /\ ParseResponse(p) # None
    /\ buf' = p
    /\ info' = ParseResponse(p)
    /\ phase' = "found"
    /\ UNCHANGED <<clock, host>>

GiveUp ==
    /\ phase = "listening"
    /\ clock = Timeout
    /\ phase' = "ready"
    /\ UNCHANGED <<clock, buf, info, host>>

Tick ==
    /\ phase = "listening"
    /\ clock < Timeout
    /\ clock' = clock + 1
    /\ UNCHANGED <<phase, buf, info, host>>

\* main of both commands: the port goes into the host unless it is 443 or 0.
UseFound ==
    /\ phase = "found"
    /\ host' = [name |-> info.host,
                port |-> IF info.port \in {0, HTTPS} THEN None ELSE info.port]
    /\ phase' = "ready"
    /\ UNCHANGED <<clock, buf, info>>

Receive == \E p \in Datagrams : Ignore(p) \/ Find(p)

\* A command that is ready goes on to what Startup models.
Next == Load \/ Query \/ ScanFails \/ Receive \/ GiveUp \/ Tick \/ UseFound

\* Time passes and the program runs; no datagram is owed.
Fairness == WF_vars(Load \/ Query \/ GiveUp \/ UseFound) /\ WF_vars(Tick)

Spec == Init /\ [][Next]_vars /\ Fairness

-----------------------------------------------------------------------------
(* The URLs made of Config.Host                                            *)

URL(scheme, default) ==
    [scheme |-> scheme, name |-> host.name,
     port |-> IF host.port = None THEN default ELSE host.port]

BaseURL == URL("https", HTTPS)
DiscoveryURL == URL("http", HTTP)

-----------------------------------------------------------------------------
(* Properties                                                              *)

\* Types of the scan and of the configured host.
TypeOK ==
    /\ phase \in {"config", "scan", "listening", "found", "ready", "exit"}
    /\ clock \in 0..Timeout
    /\ buf \in Datagrams
    /\ info = None \/ info \in [host : Record, port : Nat]
    /\ host \in [name : {Default, Given} \cup Record, port : {None} \cup Nat]

Discovered == host.name \notin {Default, Given}

\* Where the packet has records of these kinds.
Places(kinds) == {i \in DOMAIN buf : buf[i].kind \in kinds}

\* The last api_domain string of the packet, if there is one, is empty.
NamesNoDomain ==
    \A i \in Places({"api_domain"}) : \E j \in Places({"no_domain"}) : i < j

\* "Host priority: api_domain (TXT) > A/AAAA record > SRV target" (discover.go:99),
\* whatever records the packet repeats and wherever they stand: the host is that of the
\* last api_domain string, else the first address that is not link-local, else the
\* first SRV target, of the packet that was used.
BestHostIsUsed ==
    info # None =>
      \E i \in DOMAIN buf :
        /\ buf[i] = info.host
        /\ \/ buf[i].kind = "api_domain" /\ \A j \in Places(DomainKinds) : j <= i
           \/ /\ buf[i].kind \in AddressKinds /\ \A j \in Places(AddressKinds) : i <= j
              /\ NamesNoDomain
           \/ /\ buf[i].kind = "srv" /\ \A j \in Places({"srv"}) : i <= j
              /\ NamesNoDomain /\ Places(AddressKinds) = {}

\* With several boxes and answers that are cut into several packets, requests under
\* BaseURL go to a port that the named box announced or to the default, never to
\* the port of another box and never to the plain HTTP port of an SRV record.
PortBelongsToHost ==
    Discovered => BaseURL.port \in {HTTPS, HttpsPort[host.name.of]}

\* The port is the one the packet announced, also when the record that carries it
\* comes after the record that names the host.
AnnouncedPortIsUsed ==
    Discovered /\ (\E i \in DOMAIN buf : buf[i].kind = "https_port")
      /\ (\A i \in DOMAIN buf : buf[i].kind # "port0")
      => BaseURL.port = HttpsPort[host.name.of]

\* The command starts within the scan's time-out whatever arrives: datagrams that
\* name no host do not put the deadline off.
ScanEnds == <>(phase \in {"ready", "exit"})

\* "the unauthenticated API version endpoint (HTTP, no /api/v4 prefix)" (config.go:50):
\* DiscoveryURL speaks plain HTTP, so it must not name a port that serves HTTPS.
DiscoveryURLIsPlain ==
    Discovered => DiscoveryURL.port # HttpsPort[host.name.of]

-----------------------------------------------------------------------------
(* Why these hold                                                          *)

\* The scan returns what the packet it stopped at says, and the command uses nothing
\* but that: no field of another packet, box or record gets into the host.
FoundInv ==
    /\ phase = "found" => info # None
    /\ info # None => phase \in {"found", "ready"} /\ info = ParseResponse(buf)
    /\ Discovered =>
         /\ info # None /\ host.name = info.host
         /\ host.port = IF info.port \in {0, HTTPS} THEN None ELSE info.port

\* The inductive invariant.
IInv == TypeOK /\ FoundInv

=============================================================================
