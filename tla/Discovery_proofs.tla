--------------------------- MODULE Discovery_proofs ---------------------------
(***************************************************************************)
(* What parseResponse makes of a packet, proved by induction over its      *)
(* records, and what becomes of it in the host of the configuration: for   *)
(* any boxes, ports and length of the packets.                             *)
(***************************************************************************)
EXTENDS Discovery, Loops

\* What the loop of parseResponse collects.
Collected == [domain : Record \cup {None}, addr : Record \cup {None}, srv : Record \cup {None},
              port : Nat]

\* r is the first of the first n records that is of these kinds, None if there is none.
FirstIn(packet, kinds, n, r) ==
    IF r = None THEN \A i \in 1..n : packet[i].kind \notin kinds
    ELSE \E i \in 1..n :
           /\ packet[i] = r /\ r.kind \in kinds
           /\ \A j \in 1..(i - 1) : packet[j].kind \notin kinds

\* r is the last of them.
LastIn(packet, kinds, n, r) ==
    IF r = None THEN \A i \in 1..n : packet[i].kind \notin kinds
    ELSE \E i \in 1..n :
           /\ packet[i] = r /\ r.kind \in kinds
           /\ \A j \in (i + 1)..n : packet[j].kind \notin kinds

\* The domain and the port of a record.
DomainIn(r) == IF r = None THEN None ELSE IF r.kind = "api_domain" THEN r ELSE None
PortIn(r) == IF r = None THEN HTTPS ELSE IF r.kind = "https_port" THEN HttpsPort[r.of] ELSE 0

\* What the first n records of a packet say.
Says(packet, n, acc) ==
    /\ acc \in Collected
    /\ \E r \in Record \cup {None} : LastIn(packet, DomainKinds, n, r) /\ acc.domain = DomainIn(r)
    /\ FirstIn(packet, AddressKinds, n, acc.addr)
    /\ FirstIn(packet, {"srv"}, n, acc.srv)
    /\ \E r \in Record \cup {None} : LastIn(packet, PortKinds, n, r) /\ acc.port = PortIn(r)

\* One more record, when the first is wanted.
LEMMA FirstStep ==
    ASSUME NEW packet, NEW kinds, NEW n \in Nat, NEW r, FirstIn(packet, kinds, n, r),
           packet[n + 1] \in Record,
           NEW s, s = IF packet[n + 1].kind \in kinds THEN FirstOf(r, packet[n + 1]) ELSE r
    PROVE  FirstIn(packet, kinds, n + 1, s)
<1>0. packet[n + 1] # None
  BY NamesAssumption
<1>1. CASE r = None
  <2>1. \A i \in 1..n : packet[i].kind \notin kinds
    BY <1>1 DEF FirstIn
  <2>2. CASE packet[n + 1].kind \in kinds
    <3>1. s = packet[n + 1] /\ s # None
      BY <1>0, <1>1, <2>2 DEF FirstOf
    <3>2. n + 1 \in 1..(n + 1) /\ \A j \in 1..((n + 1) - 1) : packet[j].kind \notin kinds
      BY <2>1
    <3> QED BY <2>2, <3>1, <3>2 DEF FirstIn
  <2>3. CASE packet[n + 1].kind \notin kinds
    <3>1. \A i \in 1..(n + 1) : i \in 1..n \/ i = n + 1
      OBVIOUS
    <3> QED BY <1>1, <2>1, <2>3, <3>1 DEF FirstIn
  <2> QED BY <2>2, <2>3
<1>2. CASE r # None
  <2>1. s = r
    BY <1>2 DEF FirstOf
  <2>2. \A i \in 1..n : i \in 1..(n + 1)
    OBVIOUS
  <2> QED BY <1>2, <2>1, <2>2 DEF FirstIn
<1> QED BY <1>1, <1>2

\* One more record, when the last is wanted.
LEMMA LastStep ==
    ASSUME NEW packet, NEW kinds, NEW n \in Nat, NEW r, LastIn(packet, kinds, n, r),
           packet[n + 1] \in Record,
           NEW s, s = IF packet[n + 1].kind \in kinds THEN packet[n + 1] ELSE r
    PROVE  LastIn(packet, kinds, n + 1, s)
<1>0. packet[n + 1] # None
  BY NamesAssumption
<1>1. CASE packet[n + 1].kind \in kinds
  <2>1. s = packet[n + 1] /\ n + 1 \in 1..(n + 1) /\ \A j \in ((n + 1) + 1)..(n + 1) : FALSE
    BY <1>1
  <2> QED BY <1>0, <1>1, <2>1 DEF LastIn
<1>2. CASE packet[n + 1].kind \notin kinds
  <2>1. s = r /\ \A i \in 1..(n + 1) : i \in 1..n \/ i = n + 1
    BY <1>2
  <2>2. CASE r = None
    BY <1>2, <2>1, <2>2 DEF LastIn
  <2>3. CASE r # None
    <3>1. PICK i \in 1..n : /\ packet[i] = r /\ r.kind \in kinds
                            /\ \A j \in (i + 1)..n : packet[j].kind \notin kinds
      BY <2>3 DEF LastIn
    <3>2. i \in 1..(n + 1) /\ \A j \in (i + 1)..(n + 1) : j \in (i + 1)..n \/ j = n + 1
      OBVIOUS
    <3>3. \A j \in (i + 1)..(n + 1) : packet[j].kind \notin kinds
      BY <1>2, <3>1, <3>2
    <3> QED BY <2>1, <2>3, <3>1, <3>2, <3>3 DEF LastIn
  <2> QED BY <2>2, <2>3
<1> QED BY <1>1, <1>2

\* What Absorb does to each of the fields.
LEMMA AbsorbFields ==
    ASSUME NEW acc \in Collected, NEW r \in Record, NEW new, new = Absorb(acc, r)
    PROVE  /\ new \in Collected
           /\ new.domain = IF r.kind \in DomainKinds THEN DomainIn(r) ELSE acc.domain
           /\ new.addr = IF r.kind \in AddressKinds THEN FirstOf(acc.addr, r) ELSE acc.addr
           /\ new.srv = IF r.kind \in {"srv"} THEN FirstOf(acc.srv, r) ELSE acc.srv
           /\ new.port = IF r.kind \in PortKinds THEN PortIn(r) ELSE acc.port
<1>1. r # None /\ r.kind \in Kinds /\ HttpsPort[r.of] \in Nat
  BY NamesAssumption, DiscoveryAssumption DEF Record
<1>2. /\ FirstOf(acc.addr, r) \in Record \cup {None}
      /\ FirstOf(acc.srv, r) \in Record \cup {None}
  BY DEF Collected, FirstOf
<1> USE <1>1, <1>2 DEF Collected, Absorb, DomainKinds, AddressKinds, PortKinds, DomainIn, PortIn
<1>3. CASE r.kind = "api_domain"
  BY <1>3
<1>4. CASE r.kind \in {"a", "aaaa"}
  BY <1>4
<1>5. CASE r.kind = "srv"
  BY <1>5
<1>6. CASE r.kind = "https_port"
  BY <1>6
<1>7. CASE r.kind = "port0"
  BY <1>7
<1>9. CASE r.kind = "no_domain"
  BY <1>9
<1>8. CASE r.kind \notin {"api_domain", "no_domain", "a", "aaaa", "srv", "https_port", "port0"}
  BY <1>8
<1> QED BY <1>3, <1>4, <1>5, <1>6, <1>7, <1>8, <1>9

\* One turn of the loop of parseResponse.
LEMMA SaysStep ==
    ASSUME NEW packet \in Seq(Record), NEW n \in Nat, n < Len(packet),
           NEW acc, Says(packet, n, acc), NEW new, new = Absorb(acc, packet[n + 1])
    PROVE  Says(packet, n + 1, new)
<1>1. packet[n + 1] \in Record
  OBVIOUS
<1>2. acc \in Collected
  BY DEF Says
<1>3. \E r \in Record \cup {None} :
        LastIn(packet, DomainKinds, n + 1, r) /\ new.domain = DomainIn(r)
  <2>1. PICK r \in Record \cup {None} :
          LastIn(packet, DomainKinds, n, r) /\ acc.domain = DomainIn(r)
    BY DEF Says
  <2> DEFINE s == IF packet[n + 1].kind \in DomainKinds THEN packet[n + 1] ELSE r
  <2>2. s \in Record \cup {None} /\ new.domain = DomainIn(s)
    BY <1>1, <1>2, <2>1, AbsorbFields
  <2>3. LastIn(packet, DomainKinds, n + 1, s)
    BY <1>1, <2>1, LastStep
  <2> QED BY <2>2, <2>3
<1>4. FirstIn(packet, AddressKinds, n + 1, new.addr)
  <2>1. new.addr = IF packet[n + 1].kind \in AddressKinds THEN FirstOf(acc.addr, packet[n + 1])
                   ELSE acc.addr
    BY <1>1, <1>2, AbsorbFields
  <2>2. FirstIn(packet, AddressKinds, n, acc.addr)
    BY DEF Says
  <2> QED BY <1>1, <2>1, <2>2, FirstStep
<1>5. FirstIn(packet, {"srv"}, n + 1, new.srv)
  <2>1. new.srv = IF packet[n + 1].kind \in {"srv"} THEN FirstOf(acc.srv, packet[n + 1])
                  ELSE acc.srv
    BY <1>1, <1>2, AbsorbFields
  <2>2. FirstIn(packet, {"srv"}, n, acc.srv)
    BY DEF Says
  <2> QED BY <1>1, <2>1, <2>2, FirstStep
<1>6. \E r \in Record \cup {None} : LastIn(packet, PortKinds, n + 1, r) /\ new.port = PortIn(r)
  <2>1. PICK r \in Record \cup {None} : LastIn(packet, PortKinds, n, r) /\ acc.port = PortIn(r)
    BY DEF Says
  <2> DEFINE s == IF packet[n + 1].kind \in PortKinds THEN packet[n + 1] ELSE r
  <2>2. s \in Record \cup {None} /\ new.port = PortIn(s)
    BY <1>1, <1>2, <2>1, AbsorbFields
  <2>3. LastIn(packet, PortKinds, n + 1, s)
    BY <1>1, <2>1, LastStep
  <2> QED BY <2>2, <2>3
<1>7. new \in Collected
  BY <1>1, <1>2, AbsorbFields
<1> QED BY <1>3, <1>4, <1>5, <1>6, <1>7 DEF Says

\* What parseResponse has collected after n turns.
AbsorbedFrom(packet, f, n) == IF n = 0 THEN NothingYet ELSE Absorb(f[n - 1], packet[n])

\* Nothing is said before the loop.
LEMMA SaysNothing == ASSUME NEW packet PROVE Says(packet, 0, NothingYet)
BY DEF Says, NothingYet, Collected, LastIn, FirstIn, DomainIn, PortIn, HTTPS

\* The loop of parseResponse defines a function.
LEMMA AbsorbExists ==
    ASSUME NEW packet \in Seq(Record)
    PROVE  \E f : f = [n \in 0..Len(packet) |-> AbsorbedFrom(packet, f, n)]
<1> DEFINE L == Len(packet)
           turn == [x \in (1..L) \X Collected |-> Absorb(x[2], packet[x[1]])]
<1>1. L \in Nat /\ \A n \in 1..L : packet[n] \in Record
  OBVIOUS
<1>2. NothingYet \in Collected
  BY SaysNothing DEF Says
<1>3. turn \in Turns(L, Collected)
  <2>1. \A x \in (1..L) \X Collected : x[1] \in 1..L /\ x[2] \in Collected
    OBVIOUS
  <2>2. \A x \in (1..L) \X Collected : Absorb(x[2], packet[x[1]]) \in Collected
    BY <1>1, <2>1, AbsorbFields
  <2> QED BY <2>2 DEF Turns
<1>4. PICK f : IsLoop(f, L, Collected, NothingYet, turn)
  <2> HIDE DEF turn, L
  <2> QED BY <1>1, <1>2, <1>3, LoopExists
<1>5. ASSUME NEW n \in 0..L PROVE f[n] = AbsorbedFrom(packet, f, n)
  <2>1. CASE n = 0
    BY <1>4, <2>1 DEF IsLoop, AbsorbedFrom
  <2>2. CASE n # 0
    <3>1. n \in 1..L /\ f[n - 1] \in Collected /\ <<n, f[n - 1]>> \in (1..L) \X Collected
      BY <1>1, <1>4, <2>2 DEF IsLoop
    <3>2. f[n] = Absorb(f[n - 1], packet[n])
      BY <1>4, <3>1 DEF IsLoop
    <3> QED BY <2>2, <3>2 DEF AbsorbedFrom
  <2> QED BY <2>1, <2>2
<1> QED BY <1>4, <1>5 DEF IsLoop

\* parseResponse returns the host and the port of what the whole packet says.
LEMMA ParseLoop ==
    ASSUME NEW packet \in Seq(Record)
    PROVE  \E acc : /\ Says(packet, Len(packet), acc)
                    /\ ParseResponse(packet) = IF HostOf(acc) = None THEN None
                                               ELSE [host |-> HostOf(acc), port |-> acc.port]
<1> DEFINE L == Len(packet)
           f == CHOOSE g : g = [n \in 0..L |-> AbsorbedFrom(packet, g, n)]
           T == {n \in Nat : Says(packet, n, f[n])}
<1>1. f = [n \in 0..L |-> AbsorbedFrom(packet, f, n)]
  BY AbsorbExists
<1>2. ParseResponse(packet) = IF HostOf(f[L]) = None THEN None
                              ELSE [host |-> HostOf(f[L]), port |-> f[L].port]
  BY DEF ParseResponse, AbsorbedFrom
<1> HIDE DEF f
<1>3. L \in Nat
  OBVIOUS
<1>4. 0 \in T
  BY <1>1, SaysNothing DEF AbsorbedFrom
<1>5. ASSUME NEW n \in 0..L, n \in T, n < L PROVE n + 1 \in T
  <2>1. n \in Nat /\ n + 1 \in 0..L /\ n + 1 # 0 /\ (n + 1) - 1 = n
    BY <1>5
  <2>2. f[n + 1] = Absorb(f[n], packet[n + 1])
    BY <1>1, <2>1 DEF AbsorbedFrom
  <2>3. Says(packet, n + 1, f[n + 1])
    BY <1>5, <2>1, <2>2, SaysStep
  <2> QED BY <2>1, <2>3
<1>6. L \in T
  <2> HIDE DEF T, L
  <2>1. 0..L \subseteq T
    BY <1>3, <1>4, <1>5, TurnInduction
  <2> QED BY <1>3, <2>1
<1> QED BY <1>2, <1>6

-----------------------------------------------------------------------------
(* Packets and what is made of them                                        *)

\* A packet is a sequence of records of one box.
LEMMA PacketRecords ==
    ASSUME NEW packet \in Datagrams
    PROVE  /\ packet \in Seq(Record)
           /\ \A i, j \in DOMAIN packet : packet[i].of = packet[j].of
<1>1. CASE packet = <<>>
  BY <1>1
<1>2. ASSUME NEW b \in Boxes, packet \in Answers(b)
      PROVE  /\ packet \in Seq(Record)
             /\ \A i, j \in DOMAIN packet : packet[i].of = packet[j].of
  <2>0. PICK s \in UNION {[1..n -> Kinds] : n \in 0..MaxRecords} :
          packet = [i \in DOMAIN s |-> [kind |-> s[i], of |-> b, place |-> i]]
    BY <1>2 DEF Answers
  <2>1. PICK n \in 0..MaxRecords : s \in [1..n -> Kinds]
    OBVIOUS
  <2>2. n \in Nat /\ DOMAIN packet = 1..n /\ \A i \in 1..n : i \in 1..MaxRecords
    BY <2>0, <2>1, DiscoveryAssumption
  <2>3. \A i \in 1..n : packet[i] = [kind |-> s[i], of |-> b, place |-> i] /\ packet[i] \in Record
    BY <2>0, <2>1, <2>2 DEF Record
  <2>4. packet \in [1..n -> Record]
    BY <2>0, <2>2, <2>3
  <2>5. packet \in Seq(Record)
    BY <2>2, <2>4
  <2> QED BY <2>2, <2>3, <2>5
<1> QED BY <1>1, <1>2 DEF Datagrams, Garbage

\* Where a packet has records of these kinds.
PlacesIn(packet, kinds) == {i \in DOMAIN packet : packet[i].kind \in kinds}

\* Its last api_domain string, if there is one, is empty.
DomainTakenBack(packet) ==
    \A i \in PlacesIn(packet, {"api_domain"}) : \E j \in PlacesIn(packet, {"no_domain"}) : i < j

\* The last domain, the first address or the first target.
IsBest(packet, r) ==
    \E i \in DOMAIN packet :
      /\ packet[i] = r
      /\ \/ packet[i].kind = "api_domain" /\ \A j \in PlacesIn(packet, DomainKinds) : j <= i
         \/ /\ packet[i].kind \in AddressKinds /\ \A j \in PlacesIn(packet, AddressKinds) : i <= j
            /\ DomainTakenBack(packet)
         \/ /\ packet[i].kind = "srv" /\ \A j \in PlacesIn(packet, {"srv"}) : i <= j
            /\ DomainTakenBack(packet) /\ PlacesIn(packet, AddressKinds) = {}

\* The certified name counts before an address, an address before an SRV target.
LEMMA HostIsBest ==
    ASSUME NEW packet \in Datagrams, NEW acc, Says(packet, Len(packet), acc),
           NEW r, r = HostOf(acc), r # None
    PROVE  r \in Record /\ IsBest(packet, r)
<1> DEFINE L == Len(packet)
<1>1. L \in Nat /\ DOMAIN packet = 1..L /\ \A i \in 1..L : packet[i] \in Record
  <2>1. packet \in Seq(Record)
    BY PacketRecords
  <2> QED BY <2>1
<1>2. PICK d \in Record \cup {None} : LastIn(packet, DomainKinds, L, d) /\ acc.domain = DomainIn(d)
  BY DEF Says
<1>3. FirstIn(packet, AddressKinds, L, acc.addr) /\ FirstIn(packet, {"srv"}, L, acc.srv)
  BY DEF Says
<1> HIDE DEF L
<1>4. r = IF acc.domain # None THEN acc.domain ELSE IF acc.addr # None THEN acc.addr ELSE acc.srv
  BY DEF HostOf, FirstOf
<1>5. CASE acc.domain # None
  <2>0. d # None /\ r = d /\ r.kind = "api_domain"
    BY <1>2, <1>4, <1>5 DEF DomainIn
  <2>1. PICK i \in 1..L : packet[i] = r /\ \A j \in (i + 1)..L : packet[j].kind \notin DomainKinds
    BY <1>2, <2>0 DEF LastIn
  <2>2. \A j \in 1..L : packet[j].kind \in DomainKinds => j <= i
    BY <1>1, <2>1
  <2> QED BY <1>1, <2>0, <2>1, <2>2 DEF IsBest, PlacesIn
<1>6. ASSUME acc.domain = None PROVE DomainTakenBack(packet)
  <2>1. CASE d = None
    BY <1>1, <1>2, <2>1 DEF LastIn, DomainKinds, DomainTakenBack, PlacesIn
  <2>2. CASE d # None
    <3>1. PICK j \in 1..L : /\ packet[j] = d /\ d.kind \in DomainKinds
                            /\ \A i \in (j + 1)..L : packet[i].kind \notin DomainKinds
      BY <1>2, <2>2 DEF LastIn
    <3>2. d.kind = "no_domain"
      BY <1>2, <1>6, <2>2, <3>1 DEF DomainIn, DomainKinds
    <3>3. \A i \in 1..L : packet[i].kind = "api_domain" => i < j
      <4>1. SUFFICES ASSUME NEW i \in 1..L, packet[i].kind = "api_domain", ~(i < j) PROVE FALSE
        OBVIOUS
      <4>2. i \notin (j + 1)..L
        BY <3>1, <4>1 DEF DomainKinds
      <4>3. i = j
        BY <1>1, <4>1, <4>2
      <4> QED BY <3>1, <3>2, <4>1, <4>3
    <3> QED BY <1>1, <3>1, <3>2, <3>3 DEF DomainTakenBack, PlacesIn
  <2> QED BY <2>1, <2>2
<1>7. CASE acc.domain = None /\ acc.addr # None
  <2>1. PICK i \in 1..L : /\ packet[i] = r /\ r.kind \in AddressKinds
                          /\ \A j \in 1..(i - 1) : packet[j].kind \notin AddressKinds
    BY <1>3, <1>4, <1>7 DEF FirstIn
  <2>2. \A j \in 1..L : packet[j].kind \in AddressKinds => i <= j
    BY <1>1, <2>1
  <2> QED BY <1>1, <1>6, <1>7, <2>1, <2>2 DEF IsBest, PlacesIn
<1>8. CASE acc.domain = None /\ acc.addr = None
  <2>1. PICK i \in 1..L : /\ packet[i] = r /\ r.kind = "srv"
                          /\ \A j \in 1..(i - 1) : packet[j].kind # "srv"
    BY <1>3, <1>4, <1>8 DEF FirstIn
  <2>2. \A j \in 1..L : packet[j].kind = "srv" => i <= j
    BY <1>1, <2>1
  <2>3. \A j \in 1..L : packet[j].kind \notin AddressKinds
    BY <1>3, <1>8 DEF FirstIn
  <2> QED BY <1>1, <1>6, <1>8, <2>1, <2>2, <2>3 DEF IsBest, PlacesIn
<1> QED BY <1>5, <1>7, <1>8

\* The port of a host is the one its packet announces.
LEMMA PortIsAnnounced ==
    ASSUME NEW packet \in Datagrams, NEW acc, Says(packet, Len(packet), acc),
           NEW k \in DOMAIN packet
    PROVE  LET own == HttpsPort[packet[k].of]
           IN  /\ acc.port \in {HTTPS, 0, own}
               /\ (\E i \in DOMAIN packet : packet[i].kind = "https_port")
                  /\ (\A i \in DOMAIN packet : packet[i].kind # "port0") => acc.port = own
<1> DEFINE L == Len(packet)
           own == HttpsPort[packet[k].of]
<1>1. L \in Nat /\ DOMAIN packet = 1..L
  BY PacketRecords
<1>2. PICK r \in Record \cup {None} : LastIn(packet, PortKinds, L, r) /\ acc.port = PortIn(r)
  BY DEF Says
<1> HIDE DEF L
<1>3. CASE r = None
  <2>1. acc.port = HTTPS /\ \A i \in 1..L : packet[i].kind \notin PortKinds
    BY <1>2, <1>3 DEF LastIn, PortIn
  <2> QED BY <1>1, <2>1 DEF PortKinds
<1>4. CASE r # None
  <2>1. PICK i \in 1..L : packet[i] = r /\ r.kind \in PortKinds
    BY <1>2, <1>4 DEF LastIn
  <2>2. r.of = packet[k].of
    BY <1>1, <2>1, PacketRecords
  <2>3. acc.port = IF r.kind = "https_port" THEN own ELSE 0
    BY <1>2, <1>4, <2>2 DEF PortIn
  <2>4. r.kind # "https_port" => packet[i].kind = "port0"
    BY <2>1 DEF PortKinds
  <2> QED BY <1>1, <2>1, <2>3, <2>4
<1> QED BY <1>3, <1>4

\* What parseResponse returns, if anything: the best host of the packet, with the port
\* that the same box announced in the same packet.
LEMMA ParseRight ==
    ASSUME NEW packet \in Datagrams, NEW found, found = ParseResponse(packet), found # None
    PROVE  /\ found \in [host : Record, port : Nat]
           /\ IsBest(packet, found.host)
           /\ found.port \in {HTTPS, 0, HttpsPort[found.host.of]}
           /\ (\E i \in DOMAIN packet : packet[i].kind = "https_port")
              /\ (\A i \in DOMAIN packet : packet[i].kind # "port0")
              => found.port = HttpsPort[found.host.of]
<1>1. PICK acc : /\ Says(packet, Len(packet), acc)
                 /\ ParseResponse(packet) = IF HostOf(acc) = None THEN None
                                            ELSE [host |-> HostOf(acc), port |-> acc.port]
  BY PacketRecords, ParseLoop
<1>2. HostOf(acc) # None /\ found = [host |-> HostOf(acc), port |-> acc.port]
  BY <1>1
<1>3. found.host = HostOf(acc) /\ found.port = acc.port
  BY <1>2
<1>4. found.host \in Record /\ IsBest(packet, found.host)
  BY <1>1, <1>2, <1>3, HostIsBest
<1>5. acc.port \in Nat
  BY <1>1 DEF Says, Collected
<1>6. found \in [host : Record, port : Nat]
  BY <1>2, <1>3, <1>4, <1>5
<1>7. PICK i \in DOMAIN packet : packet[i] = found.host
  BY <1>4 DEF IsBest
<1>8. /\ found.port \in {HTTPS, 0, HttpsPort[found.host.of]}
      /\ (\E j \in DOMAIN packet : packet[j].kind = "https_port")
         /\ (\A j \in DOMAIN packet : packet[j].kind # "port0")
         => found.port = HttpsPort[found.host.of]
  BY <1>1, <1>3, <1>7, PortIsAnnounced
<1> QED BY <1>4, <1>6, <1>8

-----------------------------------------------------------------------------
(* The scan and the configured host                                        *)

\* IInv holds before the configuration is loaded.
LEMMA InitIInv == Init => IInv
<1> SUFFICES ASSUME Init PROVE IInv
  OBVIOUS
<1>1. TypeOK
  BY DiscoveryAssumption DEF Init, TypeOK, Datagrams
<1>2. FoundInv
  BY DEF Init, FoundInv, Discovered
<1> QED BY <1>1, <1>2 DEF IInv

\* A datagram that is read ends the scan with what it says, or is passed over.
LEMMA ReceiveIInv == ASSUME IInv, NEW p \in Datagrams, Ignore(p) \/ Find(p) PROVE IInv'
<1> USE DEF IInv
<1>1. CASE Ignore(p)
  <2>1. info = None
    BY <1>1 DEF Ignore, FoundInv
  <2> QED BY <1>1, <2>1 DEF Ignore, TypeOK, FoundInv, Discovered
<1>2. CASE Find(p)
  <2>1. info' = ParseResponse(p) /\ info' # None /\ buf' = p /\ phase' = "found"
        /\ UNCHANGED <<clock, host>> /\ phase = "listening"
    BY <1>2 DEF Find
  <2>2. info' \in [host : Record, port : Nat]
    BY <2>1, ParseRight
  <2>3. TypeOK'
    BY <2>1, <2>2 DEF TypeOK
  <2>4. ~Discovered
    BY <2>1 DEF FoundInv
  <2> QED BY <2>1, <2>3, <2>4 DEF FoundInv, Discovered
<1> QED BY <1>1, <1>2

\* Every step keeps IInv.
LEMMA StepIInv == IInv /\ [Next]_vars => IInv'
<1> SUFFICES ASSUME IInv, [Next]_vars PROVE IInv'
  OBVIOUS
<1> USE DiscoveryAssumption, NamesAssumption DEF IInv, TypeOK, FoundInv, Discovered
<1>1. CASE Load
  BY <1>1 DEF Load
<1>2. CASE Query
  BY <1>2 DEF Query
<1>3. CASE ScanFails
  BY <1>3 DEF ScanFails
<1>4. CASE Receive
  BY <1>4, ReceiveIInv DEF Receive
<1>5. CASE GiveUp
  BY <1>5 DEF GiveUp
<1>6. CASE Tick
  BY <1>6 DEF Tick
<1>7. CASE UseFound
  BY <1>7 DEF UseFound
<1>8. CASE UNCHANGED vars
  BY <1>8 DEF vars
<1> QED BY <1>1, <1>2, <1>3, <1>4, <1>5, <1>6, <1>7, <1>8 DEF Next

\* IInv holds for any boxes, ports, time-out and length of the packets.
THEOREM DiscoveryInvariant == Spec => []IInv
BY InitIInv, StepIInv, PTL DEF Spec

\* The host found is the last domain, else the first address, else the first target
\* of the packet (discover.go:99), for any packet, repeated records included.
THEOREM FindsBestHost == Spec => []BestHostIsUsed
<1>1. IInv => BestHostIsUsed
  <2> SUFFICES ASSUME IInv, info # None PROVE IsBest(buf, info.host)
    BY DEF BestHostIsUsed, IsBest, Places, PlacesIn, NamesNoDomain, DomainTakenBack
  <2> QED BY ParseRight DEF IInv, TypeOK, FoundInv
<1> QED BY <1>1, DiscoveryInvariant, PTL

\* Requests go to a port the named box announced or to the default.
THEOREM FindsOwnPort == Spec => []PortBelongsToHost
<1>1. IInv => PortBelongsToHost
  <2> SUFFICES ASSUME IInv, Discovered PROVE BaseURL.port \in {HTTPS, HttpsPort[host.name.of]}
    BY DEF PortBelongsToHost
  <2>1. /\ info.port \in {HTTPS, 0, HttpsPort[host.name.of]}
        /\ host.port = IF info.port \in {0, HTTPS} THEN None ELSE info.port
    BY ParseRight DEF IInv, TypeOK, FoundInv
  <2>2. BaseURL.port = IF host.port = None THEN HTTPS ELSE host.port
    BY DEF BaseURL, URL
  <2> QED BY <2>1, <2>2
<1> QED BY <1>1, DiscoveryInvariant, PTL

\* The port is the one the packet announced, wherever in the packet it stands.
THEOREM UsesAnnouncedPort == Spec => []AnnouncedPortIsUsed
<1>1. IInv => AnnouncedPortIsUsed
  <2> SUFFICES ASSUME IInv, Discovered,
                      \E i \in DOMAIN buf : buf[i].kind = "https_port",
                      \A i \in DOMAIN buf : buf[i].kind # "port0"
               PROVE  BaseURL.port = HttpsPort[host.name.of]
    BY DEF AnnouncedPortIsUsed
  <2>1. info # None /\ host.name = info.host /\ info = ParseResponse(buf) /\ buf \in Datagrams
        /\ host.port = IF info.port \in {0, HTTPS} THEN None ELSE info.port
    BY DEF IInv, TypeOK, FoundInv
  <2>2. info.port = HttpsPort[host.name.of] /\ host.name \in Record
    BY <2>1, ParseRight
  <2>3. HttpsPort[host.name.of] \in Nat \ {0} /\ None \notin Nat
    BY <2>2, DiscoveryAssumption, NamesAssumption DEF Record
  <2>4. BaseURL.port = IF host.port = None THEN HTTPS ELSE host.port
    BY DEF BaseURL, URL
  <2> QED BY <2>1, <2>2, <2>3, <2>4
<1> QED BY <1>1, DiscoveryInvariant, PTL
=============================================================================
