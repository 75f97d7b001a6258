-------------------------- MODULE DhcpConfig_proofs --------------------------
(***************************************************************************)
(* The DHCP configuration tools, for any number of overlapping calls, any  *)
(* fields, options and values.                                             *)
(*                                                                         *)
(* DeleteOption is a loop over the options: what it returns is proved by   *)
(* induction over its turns (Loops).                                       *)
(***************************************************************************)
EXTENDS DhcpConfig, Loops

\* What DeleteOption has kept of the first n options.
KeptFrom(opts, id, f, n) ==
    IF n = 0 THEN <<>>
    ELSE IF opts[n].id = id THEN f[n - 1]
    ELSE Append(f[n - 1], opts[n])

\* The loop of DeleteOption defines a function.
LEMMA KeptExists ==
    ASSUME NEW opts \in Seq(Option), NEW id
    PROVE  \E f : f = [n \in 0..Len(opts) |-> KeptFrom(opts, id, f, n)]
<1> DEFINE L == Len(opts)
           A == Seq(Option)
           kept(x) == IF opts[x[1]].id = id THEN x[2] ELSE Append(x[2], opts[x[1]])
           turn == [x \in (1..L) \X A |-> kept(x)]
<1>1. L \in Nat /\ (\A n \in 1..L : opts[n] \in Option) /\ <<>> \in A
  OBVIOUS
<1>2. turn \in Turns(L, A)
  <2>1. \A x \in (1..L) \X A : x[1] \in 1..L /\ x[2] \in A
    OBVIOUS
  <2>2. \A x \in (1..L) \X A : kept(x) \in A
    BY <1>1, <2>1
  <2> HIDE DEF kept
  <2> QED BY <2>2 DEF Turns
<1>3. PICK f : IsLoop(f, L, A, <<>>, turn)
  <2> HIDE DEF turn, L, A
  <2> QED BY <1>1, <1>2, LoopExists
<1>4. ASSUME NEW n \in 0..L PROVE f[n] = KeptFrom(opts, id, f, n)
  <2>1. CASE n = 0
    BY <1>3, <2>1 DEF KeptFrom, IsLoop
  <2>2. CASE n # 0
    <3>1. n \in 1..L /\ f[n - 1] \in A /\ <<n, f[n - 1]>> \in (1..L) \X A
      BY <1>1, <1>3, <2>2 DEF IsLoop
    <3>2. f[n] = kept(<<n, f[n - 1]>>)
      BY <1>3, <3>1 DEF IsLoop
    <3> QED BY <2>2, <3>2 DEF KeptFrom
  <2> QED BY <2>1, <2>2
<1> QED BY <1>3, <1>4 DEF IsLoop

\* The sequence s holds the options among the first n that are to be kept.
KeptRight(opts, id, s, n) ==
    /\ s \in Seq(Option)
    /\ \A i \in DOMAIN s : s[i].id # id /\ \E j \in 1..n : opts[j] = s[i]
    /\ \A j \in 1..n : opts[j].id # id => \E i \in DOMAIN s : s[i] = opts[j]
    /\ DistinctIds(opts) => DistinctIds(s)

\* One turn of the loop.
LEMMA KeptStep ==
    ASSUME NEW opts \in Seq(Option), NEW id, NEW n \in Nat, n < Len(opts),
           NEW s, KeptRight(opts, id, s, n),
           NEW t, t = IF opts[n + 1].id = id THEN s ELSE Append(s, opts[n + 1])
    PROVE  KeptRight(opts, id, t, n + 1)
<1>0. /\ Len(opts) \in Nat /\ n + 1 \in 1..Len(opts) /\ opts[n + 1] \in Option
      /\ DOMAIN opts = 1..Len(opts) /\ s \in Seq(Option)
  BY DEF KeptRight
<1>1. CASE opts[n + 1].id = id
  <2>1. \A j \in 1..(n + 1) : opts[j].id # id => j \in 1..n
    BY <1>1
  <2> QED BY <1>1, <2>1 DEF KeptRight
<1>2. CASE opts[n + 1].id # id
  <2>0. /\ t = Append(s, opts[n + 1]) /\ t \in Seq(Option)
        /\ Len(s) \in Nat /\ Len(t) = Len(s) + 1 /\ DOMAIN s = 1..Len(s) /\ DOMAIN t = 1..Len(t)
        /\ t[Len(t)] = opts[n + 1]
        /\ \A i \in DOMAIN s : i \in DOMAIN t /\ t[i] = s[i]
    BY <1>0, <1>2
  <2>1. \A i \in DOMAIN t : i = Len(t) \/ i \in DOMAIN s
    BY <2>0
  <2>2. ASSUME NEW i \in DOMAIN t
        PROVE  t[i].id # id /\ \E j \in 1..(n + 1) : opts[j] = t[i]
    <3>1. CASE i = Len(t)
      BY <1>0, <1>2, <2>0, <3>1
    <3>2. CASE i \in DOMAIN s
      BY <2>0, <3>2 DEF KeptRight
    <3> QED BY <2>1, <3>1, <3>2
  <2>3. ASSUME NEW j \in 1..(n + 1), opts[j].id # id
        PROVE  \E i \in DOMAIN t : t[i] = opts[j]
    <3>1. CASE j = n + 1
      BY <2>0, <3>1
    <3>2. CASE j \in 1..n
      BY <2>0, <2>3, <3>2 DEF KeptRight
    <3> QED BY <3>1, <3>2
  <2>4. ASSUME DistinctIds(opts) PROVE DistinctIds(t)
    <3>1. DistinctIds(s)
      BY <2>4 DEF KeptRight
    <3>2. \A i \in DOMAIN s : s[i].id # opts[n + 1].id
      <4>1. SUFFICES ASSUME NEW i \in DOMAIN s, s[i].id = opts[n + 1].id PROVE FALSE
        OBVIOUS
      <4>2. PICK j \in 1..n : opts[j] = s[i]
        BY DEF KeptRight
      <4>3. j = n + 1
        BY <1>0, <2>4, <4>1, <4>2 DEF DistinctIds
      <4> QED BY <4>3
    <3> QED BY <2>0, <2>1, <3>1, <3>2 DEF DistinctIds
  <2> QED BY <2>0, <2>2, <2>3, <2>4 DEF KeptRight
<1> QED BY <1>1, <1>2

\* DeleteOption leaves out the options with this id and nothing else.
LEMMA DeleteOptionRight ==
    ASSUME NEW opts \in Seq(Option), NEW id
    PROVE  KeptRight(opts, id, DeleteOption(opts, id), Len(opts))
<1> DEFINE kept == CHOOSE f : f = [n \in 0..Len(opts) |-> KeptFrom(opts, id, f, n)]
           T == {n \in Nat : KeptRight(opts, id, kept[n], n)}
<1>1. kept = [n \in 0..Len(opts) |-> KeptFrom(opts, id, kept, n)]
  BY KeptExists
<1>2. DeleteOption(opts, id) = kept[Len(opts)]
  BY DEF DeleteOption, KeptFrom
<1> HIDE DEF kept
<1>3. Len(opts) \in Nat
  OBVIOUS
<1>4. 0 \in T
  <2>1. kept[0] = <<>>
    BY <1>1 DEF KeptFrom
  <2>2. KeptRight(opts, id, <<>>, 0)
    BY DEF KeptRight, DistinctIds
  <2> QED BY <2>1, <2>2
<1>5. ASSUME NEW n \in 0..Len(opts), n \in T, n < Len(opts) PROVE n + 1 \in T
  <2>1. n \in Nat /\ n + 1 \in 0..Len(opts) /\ n + 1 # 0 /\ (n + 1) - 1 = n
    BY <1>5
  <2>2. kept[n + 1] = IF opts[n + 1].id = id THEN kept[n] ELSE Append(kept[n], opts[n + 1])
    BY <1>1, <2>1 DEF KeptFrom
  <2>3. KeptRight(opts, id, kept[n + 1], n + 1)
    BY <1>5, <2>1, <2>2, KeptStep
  <2> QED BY <2>1, <2>3
<1>6. Len(opts) \in T
  <2> DEFINE L == Len(opts)
  <2>1. L \in Nat /\ \A n \in 0..L : n \in T /\ n < L => n + 1 \in T
    BY <1>3, <1>5
  <2> HIDE DEF T, L
  <2>2. 0..L \subseteq T
    BY <1>4, <2>1, TurnInduction
  <2> QED BY <2>1, <2>2 DEF L
<1> QED BY <1>2, <1>6

\* SetOption gives the option with this id the value, adds it if there is none, and
\* leaves the others.
LEMMA SetOptionRight ==
    ASSUME NEW opts \in Seq(Option), DistinctIds(opts), NEW id \in Ids, NEW val \in Vals,
           NEW s, s = SetOption(opts, id, val)
    PROVE  /\ s \in Seq(Option) /\ DistinctIds(s)
           /\ \A o \in Option :
                Holds(s, o) <=> IF o.id = id THEN o.val = val ELSE Holds(opts, o)
<1> DEFINE new == [id |-> id, val |-> val]
<1>0. /\ new \in Option /\ Len(opts) \in Nat /\ DOMAIN opts = 1..Len(opts)
      /\ \A i \in DOMAIN opts : opts[i] \in Option
      /\ \A o \in Option : o = [id |-> o.id, val |-> o.val] /\ o.id \in Ids
  <2>1. /\ Len(opts) \in Nat /\ DOMAIN opts = 1..Len(opts)
        /\ \A i \in DOMAIN opts : opts[i] \in Option
    OBVIOUS
  <2>2. /\ new \in Option
        /\ \A o \in Option : o = [id |-> o.id, val |-> o.val] /\ o.id \in Ids
    BY DEF Option
  <2> QED BY <2>1, <2>2
<1>1. CASE Has(opts, id)
  <2> DEFINE IsFirst(i) == opts[i].id = id /\ \A j \in 1..(i - 1) : opts[j].id # id
             first == CHOOSE i \in DOMAIN opts : IsFirst(i)
  <2>1. \E i \in DOMAIN opts : IsFirst(i)
    <3>1. PICK i \in DOMAIN opts : opts[i].id = id
      BY <1>1 DEF Has
    <3>2. \A j \in 1..(i - 1) : j \in DOMAIN opts /\ j # i
      BY <1>0
    <3>3. \A j \in 1..(i - 1) : opts[j].id # id
      BY <3>1, <3>2 DEF DistinctIds
    <3> QED BY <3>1, <3>3
  <2>2. first \in DOMAIN opts /\ opts[first].id = id
    BY <2>1
  <2>3. s = [opts EXCEPT ![first].val = val]
    BY <1>1 DEF SetOption
  <2> HIDE DEF first
  <2>4. /\ DOMAIN s = DOMAIN opts /\ s[first] = new
        /\ \A i \in DOMAIN opts : i # first => s[i] = opts[i]
    <3>1. opts[first] = [id |-> id, val |-> opts[first].val]
      BY <1>0, <2>2
    <3>2. [opts[first] EXCEPT !.val = val] = new
      BY <3>1
    <3> QED BY <2>2, <2>3, <3>2
  <2>5. \A i \in DOMAIN opts : i # first => opts[i].id # id
    BY <2>2 DEF DistinctIds
  <2>6. \A i \in DOMAIN s : s[i] \in Option /\ s[i].id = opts[i].id
    BY <1>0, <2>2, <2>4
  <2>7. s \in Seq(Option)
    <3>1. s \in [1..Len(opts) -> Option]
      BY <1>0, <2>3, <2>4, <2>6
    <3> QED BY <1>0, <3>1
  <2>8. DistinctIds(s)
    BY <2>4, <2>6 DEF DistinctIds
  <2>9. ASSUME NEW o \in Option
        PROVE  Holds(s, o) <=> IF o.id = id THEN o.val = val ELSE Holds(opts, o)
    <3>1. CASE o.id = id
      <4>1. o.val = val => o = new
        BY <1>0, <3>1
      <4>2. ASSUME Holds(s, o) PROVE o.val = val
        <5>1. PICK i \in DOMAIN s : s[i] = o
          BY <4>2 DEF Holds
        <5>2. i = first
          BY <2>4, <2>5, <3>1, <5>1
        <5> QED BY <2>4, <5>1, <5>2
      <4> QED BY <2>2, <2>4, <3>1, <4>1, <4>2 DEF Holds
    <3>2. CASE o.id # id
      BY <2>2, <2>4, <3>2 DEF Holds
    <3> QED BY <3>1, <3>2
  <2> QED BY <2>7, <2>8, <2>9
<1>2. CASE ~Has(opts, id)
  <2>1. /\ s = Append(opts, new) /\ s \in Seq(Option)
        /\ Len(s) = Len(opts) + 1 /\ DOMAIN s = 1..Len(s) /\ s[Len(s)] = new
        /\ \A i \in DOMAIN opts : i \in DOMAIN s /\ s[i] = opts[i]
    BY <1>0, <1>2 DEF SetOption
  <2>2. \A i \in DOMAIN s : i = Len(s) \/ i \in DOMAIN opts
    BY <1>0, <2>1
  <2>3. \A i \in DOMAIN opts : opts[i].id # id
    BY <1>2 DEF Has
  <2>4. DistinctIds(s)
    BY <2>1, <2>2, <2>3 DEF DistinctIds
  <2>5. ASSUME NEW o \in Option
        PROVE  Holds(s, o) <=> IF o.id = id THEN o.val = val ELSE Holds(opts, o)
    <3>1. Holds(s, o) <=> o = new \/ Holds(opts, o)
      <4>1. Len(s) \in DOMAIN s
        BY <1>0, <2>1
      <4> QED BY <2>1, <2>2, <4>1 DEF Holds
    <3>2. o = new <=> o.id = id /\ o.val = val
      BY <1>0
    <3>3. o.id = id => ~Holds(opts, o)
      BY <2>3 DEF Holds
    <3> QED BY <3>1, <3>2, <3>3
  <2> QED BY <2>1, <2>4, <2>5
<1> QED BY <1>1, <1>2

\* Each tool makes of its copy what it was asked, and no more (Changed).
LEMMA ChangedRight ==
    ASSUME NEW cfg \in Config, DistinctIds(cfg.options), NEW req \in Requests
    PROVE  LET new == Changed(cfg, req)
           IN  /\ new \in Config /\ DistinctIds(new.options)
               /\ InForce(req, new.settings, new.options)
               /\ Exact(req, cfg.settings, cfg.options, new.settings, new.options)
<1> DEFINE new == Changed(cfg, req)
<1>0. /\ cfg = [settings |-> cfg.settings, options |-> cfg.options]
      /\ cfg.settings \in [Fields -> Vals] /\ cfg.options \in Seq(Option)
      /\ \A o \in Option : o.id \in Ids /\ o.val \in Vals /\ o = [id |-> o.id, val |-> o.val]
  BY DEF Config, Option
<1>1. CASE req.tool = "config_set"
  <2>0. req.patch \in Patches
    BY <1>1 DEF Requests
  <2>1. \A f \in DOMAIN req.patch : f \in Fields /\ req.patch[f] \in Vals \cup {Ignored}
    BY <2>0 DEF Patches
  <2>2. new.settings = Patched(cfg.settings, req.patch) /\ new.options = cfg.options
        /\ new = [settings |-> new.settings, options |-> new.options]
    BY <1>0, <1>1 DEF Changed
  <2>3. new.settings \in [Fields -> Vals]
    BY <1>0, <2>1, <2>2 DEF Patched
  <2>4. new \in Config
    BY <1>0, <2>2, <2>3 DEF Config
  <2>5. InForce(req, new.settings, new.options)
    BY <1>1, <2>1, <2>2 DEF InForce, Patched
  <2>6. Exact(req, cfg.settings, cfg.options, new.settings, new.options)
    BY <1>1, <2>2 DEF Exact, Patched
  <2> QED BY <2>2, <2>4, <2>5, <2>6
<1>2. CASE req.tool = "option_set"
  <2>0. req.id \in Ids /\ req.val \in Vals
    BY <1>2 DEF Requests
  <2>1. new.settings = cfg.settings /\ new.options = SetOption(cfg.options, req.id, req.val)
        /\ new = [settings |-> new.settings, options |-> new.options]
    BY <1>0, <1>2 DEF Changed
  <2>2. /\ new.options \in Seq(Option) /\ DistinctIds(new.options)
        /\ \A o \in Option :
             Holds(new.options, o) <=> IF o.id = req.id THEN o.val = req.val ELSE Holds(cfg.options, o)
    <3> HIDE DEF new
    <3> QED BY <1>0, <2>0, <2>1, SetOptionRight
  <2>3. new \in Config
    BY <1>0, <2>1, <2>2 DEF Config
  <2>4. Holds(new.options, [id |-> req.id, val |-> req.val])
    BY <2>0, <2>2 DEF Option
  <2>5. InForce(req, new.settings, new.options)
    BY <1>2, <2>4 DEF InForce, Holds
  <2>6. Exact(req, cfg.settings, cfg.options, new.settings, new.options)
    BY <1>2, <2>1, <2>2 DEF Exact
  <2> QED BY <2>2, <2>3, <2>5, <2>6
<1>3. CASE req.tool = "option_delete"
  <2>0. req.id \in Ids
    BY <1>3 DEF Requests
  <2>1. new.settings = cfg.settings /\ new.options = DeleteOption(cfg.options, req.id)
        /\ new = [settings |-> new.settings, options |-> new.options]
    BY <1>0, <1>3 DEF Changed
  <2>2. KeptRight(cfg.options, req.id, new.options, Len(cfg.options))
    BY <1>0, <2>1, DeleteOptionRight
  <2>3. DOMAIN cfg.options = 1..Len(cfg.options)
    BY <1>0
  <2>4. new \in Config /\ DistinctIds(new.options)
    BY <1>0, <2>1, <2>2 DEF Config, KeptRight
  <2>5. InForce(req, new.settings, new.options)
    BY <1>3, <2>2 DEF InForce, KeptRight, Has
  <2>6. \A o \in Option : Holds(new.options, o) <=> o.id # req.id /\ Holds(cfg.options, o)
    BY <2>2, <2>3 DEF KeptRight, Holds
  <2>7. Exact(req, cfg.settings, cfg.options, new.settings, new.options)
    BY <1>3, <2>1, <2>6 DEF Exact
  <2> QED BY <2>4, <2>5, <2>7
<1> QED BY <1>1, <1>2, <1>3 DEF Requests

-----------------------------------------------------------------------------
(* The inductive invariant                                                 *)

\* Nothing has been asked of the client at first.
THEOREM DhcpInit == Init => IInv
<1> SUFFICES ASSUME Init PROVE IInv
  OBVIOUS
<1>1. DistinctIds(options) /\ options \in Seq(Option) /\ DistinctIds(<<>>)
  <2>1. options = <<>> \/ \E o \in Option : options = <<o>>
    BY DEF Init
  <2>2. DistinctIds(<<>>) /\ <<>> \in Seq(Option)
    BY DEF DistinctIds
  <2>3. \A o \in Option : DistinctIds(<<o>>) /\ <<o>> \in Seq(Option)
    <3>1. \A o \in Option : DOMAIN <<o>> = {1} /\ <<o>> \in Seq(Option)
      OBVIOUS
    <3> QED BY <3>1 DEF DistinctIds
  <2> QED BY <2>1, <2>2, <2>3
<1>2. TypeOK
  BY <1>1 DEF Init, RC!Init, RC!Answers, TypeOK
<1>3. \A c \in Callers : Get(c) \in Exchanges /\ Put(c) \in Exchanges
  BY DEF Get, Put, Exchanges
<1>4. \A c \in Callers : CopyInv(c) /\ CallInv(c)
  BY <1>1, <1>3 DEF Init, RC!Init, CopyInv, CallInv, Open, NoCopy
<1> QED BY <1>1, <1>2, <1>4 DEF IInv, OneEntryPerOption

\* The state that belongs to call d, and the box's.
Same(d) ==
    /\ pc'[d] = pc[d] /\ args'[d] = args[d] /\ copy'[d] = copy[d] /\ seen'[d] = seen[d]
    /\ status'[Put(d)] = status[Put(d)]
    /\ runs'[Put(d)] = runs[Put(d)] /\ runs'[Get(d)] = runs[Get(d)]
    /\ settings' = settings /\ options' = options

\* A step that leaves these alone keeps the invariants of call d.
LEMMA SameKeeps ==
    ASSUME NEW d \in Callers, CopyInv(d), CallInv(d), Same(d)
    PROVE  CopyInv(d)' /\ CallInv(d)'
<1>1. Open(d)' <=> Open(d)
  BY DEF Same, Open, Put
<1>2. CopyInv(d)'
  BY <1>1 DEF Same, CopyInv, Get
<1>3. CallInv(d)'
  BY DEF Same, CallInv, Get, Put
<1> QED BY <1>2, <1>3

\* The two exchanges of a call, and those of two calls, are different.
LEMMA ExchangesApart ==
    /\ \A c \in Callers : Get(c) \in Exchanges /\ Put(c) \in Exchanges
    /\ \A c, d \in Callers : Get(c) # Put(d) /\ (c # d => Get(c) # Get(d) /\ Put(c) # Put(d))
BY DEF Get, Put, Exchanges

\* What GET /dhcp/config/ answers.
LEMMA ConfigOfBox ==
    ASSUME TypeOK PROVE [settings |-> settings, options |-> options] \in Config
BY DEF TypeOK, Config

\* Whatever the answer leaves out, what it decodes to is a configuration with
\* distinct ids.
LEMMA DecodedRight ==
    ASSUME NEW cfg \in Config, DistinctIds(cfg.options), NEW dec \in Decoded(cfg)
    PROVE  dec \in Config /\ DistinctIds(dec.options)
<1>1. /\ dec = [settings |-> dec.settings, options |-> dec.options]
      /\ dec.settings \in [Fields -> Vals] /\ dec.options \in {cfg.options, <<>>}
  BY DEF Decoded
<1>2. cfg.options \in Seq(Option) /\ <<>> \in Seq(Option)
  BY DEF Config
<1>3. DistinctIds(<<>>)
  BY DEF DistinctIds
<1>4. dec.options \in Seq(Option) /\ DistinctIds(dec.options)
  BY <1>1, <1>2, <1>3
<1> QED BY <1>1, <1>4 DEF Config

\* A step of call c that leaves the other calls and the box alone.
LEMMA Assemble ==
    ASSUME IInv, TypeOK', OneEntryPerOption',
           NEW c \in Callers, CopyInv(c)', CallInv(c)', \A d \in Callers \ {c} : Same(d)
    PROVE  IInv'
<1>1. \A d \in Callers : CopyInv(d)' /\ CallInv(d)'
  BY SameKeeps DEF IInv
<1> QED BY <1>1 DEF IInv

\* What a return does to the invariants.
LEMMA ReturnKeeps ==
    ASSUME IInv, NEW c \in Callers, NEW r, Return(c, r), r \in {"done", "refused", "failed"},
           ~Open(c)', r = "done" => runs'[Put(c)] = 1, r = "refused" => status'[Put(c)] = "idle"
    PROVE  /\ pc' \in [Callers -> {"idle", "reading", "changing", "writing", "done", "refused",
                                   "failed"}]
           /\ args' \in [Callers -> Requests \cup {NoRequest}]
           /\ copy' \in [Callers -> Config \cup {NoCopy}]
           /\ seen' \in [Callers -> Config \cup {NoCopy}]
           /\ CopyInv(c)' /\ CallInv(c)'
           /\ \A d \in Callers \ {c} :
                pc'[d] = pc[d] /\ args'[d] = args[d] /\ copy'[d] = copy[d] /\ seen'[d] = seen[d]
<1>1. /\ pc'[c] = r /\ copy'[c] = NoCopy
      /\ pc' \in [Callers -> {"idle", "reading", "changing", "writing", "done", "refused", "failed"}]
      /\ args' \in [Callers -> Requests \cup {NoRequest}]
      /\ copy' \in [Callers -> Config \cup {NoCopy}]
      /\ seen' \in [Callers -> Config \cup {NoCopy}]
      /\ \A d \in Callers \ {c} :
           pc'[d] = pc[d] /\ args'[d] = args[d] /\ copy'[d] = copy[d] /\ seen'[d] = seen[d]
  BY DEF Return, IInv, TypeOK
<1>2. CopyInv(c)'
  BY <1>1 DEF CopyInv, NoCopy, DistinctIds
<1>3. CallInv(c)'
  BY <1>1 DEF CallInv
<1> QED BY <1>1, <1>2, <1>3

\* A handler that refuses its arguments keeps the invariant.
LEMMA RefuseKeeps ==
    ASSUME IInv, NEW c \in Callers, Refuse(c) PROVE IInv'
<1>1. ~Open(c)' /\ status'[Put(c)] = "idle"
  BY DEF Refuse, IInv, CallInv, Open
<1>2. UNCHANGED <<settings, options, status, runs>>
  BY DEF Refuse, boxVars
<1>3. TypeOK' /\ OneEntryPerOption'
  BY <1>1, <1>2, ReturnKeeps DEF Refuse, IInv, TypeOK, OneEntryPerOption
<1>4. CopyInv(c)' /\ CallInv(c)' /\ \A d \in Callers \ {c} : Same(d)
  BY <1>1, <1>2, ReturnKeeps DEF Refuse, Same
<1> QED BY <1>3, <1>4, Assemble

\* So does a tool call that sends its GET,
LEMMA CallKeeps ==
    ASSUME IInv, NEW c \in Callers, Call(c) PROVE IInv'
<1>1. /\ pc[c] = "idle" /\ pc' = [pc EXCEPT ![c] = "reading"]
      /\ status' = [status EXCEPT ![Get(c)] = "pending"]
      /\ UNCHANGED <<settings, options, runs, copy, seen>>
      /\ args' \in [Callers -> Requests \cup {NoRequest}] /\ args'[c] \in Requests
      /\ \A d \in Callers \ {c} : args'[d] = args[d]
  BY DEF Call, RC!Begin, boxVars, IInv, TypeOK
<1>2. TypeOK' /\ OneEntryPerOption'
  BY <1>1, ExchangesApart DEF IInv, TypeOK, OneEntryPerOption, RC!Answers, Exchanges
<1>3. status'[Put(c)] = "idle"
  BY <1>1, ExchangesApart DEF IInv, CallInv, TypeOK, Exchanges
<1>4. CopyInv(c)' /\ CallInv(c)'
  <2>1. copy'[c] = copy[c] /\ pc'[c] = "reading" /\ runs'[Get(c)] = 0
    BY <1>1 DEF IInv, TypeOK, CallInv, Get
  <2>2. DistinctIds(copy[c].options)
    BY DEF IInv, CopyInv
  <2> QED BY <1>1, <1>3, <2>1, <2>2 DEF CopyInv, CallInv, Open
<1>5. \A d \in Callers \ {c} : Same(d)
  BY <1>1, ExchangesApart DEF IInv, TypeOK, Same, Exchanges
<1> QED BY <1>2, <1>4, <1>5, Assemble

\* the box's answer to it,
LEMMA BoxReadsKeeps ==
    ASSUME IInv, NEW c \in Callers, BoxReads(c) PROVE IInv'
<1> DEFINE cfg == [settings |-> settings, options |-> options]
<1>0. cfg \in Config /\ DistinctIds(cfg.options) /\ cfg.options = options
  BY ConfigOfBox DEF IInv, OneEntryPerOption
<1>1. /\ pc[c] = "reading" /\ copy' = [copy EXCEPT ![c] = cfg]
      /\ runs' = [runs EXCEPT ![Get(c)] = 1]
      /\ UNCHANGED <<settings, options, status, pc, args, seen>>
  BY DEF BoxReads, RC!Run, boxVars
<1> HIDE DEF cfg
<1>2. TypeOK' /\ OneEntryPerOption'
  BY <1>0, <1>1, ExchangesApart DEF IInv, TypeOK, OneEntryPerOption, Exchanges
<1>3. status'[Put(c)] = "idle" /\ args[c] \in Requests
  BY <1>1 DEF IInv, CallInv, Put
<1>4. copy'[c] = cfg
  BY <1>1 DEF IInv, TypeOK
<1>5. CopyInv(c)'
  BY <1>0, <1>1, <1>3, <1>4 DEF CopyInv, Open, cfg
<1>6. CallInv(c)'
  BY <1>1, <1>3 DEF CallInv
<1>7. \A d \in Callers \ {c} : Same(d)
  BY <1>1, ExchangesApart DEF IInv, TypeOK, Same, Exchanges
<1> QED BY <1>2, <1>5, <1>6, <1>7, Assemble

\* its arrival,
LEMMA ReadKeeps ==
    ASSUME IInv, NEW c \in Callers, Read(c) PROVE IInv'
<1>1. /\ pc[c] = "reading" /\ pc' = [pc EXCEPT ![c] = "changing"]
      /\ runs[Get(c)] = 1 /\ status' = [status EXCEPT ![Get(c)] = "ok"]
      /\ UNCHANGED <<settings, options, runs, args>>
  BY DEF Read, RC!Answer, boxVars
<1>2. PICK cfg \in Decoded(copy[c]) :
        /\ copy' = [copy EXCEPT ![c] = cfg]
        /\ seen' = [seen EXCEPT ![c] = IF cfg = copy[c] THEN cfg ELSE NoCopy]
  BY DEF Read
<1>3. cfg \in Config /\ DistinctIds(cfg.options)
  BY <1>1, DecodedRight DEF IInv, CopyInv
<1>4. copy'[c] = cfg /\ seen'[c] \in {cfg, NoCopy}
  BY <1>2 DEF IInv, TypeOK
<1>5. TypeOK' /\ OneEntryPerOption'
  BY <1>1, <1>2, <1>3, ExchangesApart
  DEF IInv, TypeOK, OneEntryPerOption, RC!Answers, Exchanges
<1>6. status'[Put(c)] = "idle" /\ args[c] \in Requests /\ pc'[c] = "changing"
  BY <1>1, ExchangesApart DEF IInv, CallInv, TypeOK, Exchanges
<1>7. CopyInv(c)'
  BY <1>1, <1>3, <1>4, <1>6 DEF CopyInv, Open
<1>8. CallInv(c)'
  BY <1>1, <1>6 DEF CallInv
<1>9. \A d \in Callers \ {c} : Same(d)
  BY <1>1, <1>2, ExchangesApart DEF IInv, TypeOK, Same, Exchanges
<1> QED BY <1>5, <1>7, <1>8, <1>9, Assemble

\* its loss,
LEMMA ReadFailsKeeps ==
    ASSUME IInv, NEW c \in Callers, ReadFails(c) PROVE IInv'
<1>1. PICK a \in {"refused", "unknown"} : RC!Answer(Get(c), a)
  BY DEF ReadFails
<1>2. /\ pc[c] = "reading" /\ Return(c, "failed") /\ status' = [status EXCEPT ![Get(c)] = a]
      /\ UNCHANGED <<settings, options, runs>>
  BY <1>1 DEF ReadFails, RC!Answer, boxVars
<1>3. status'[Put(c)] = "idle" /\ ~Open(c)'
  BY <1>2, ExchangesApart DEF IInv, CallInv, TypeOK, Open, Exchanges
<1>4. TypeOK' /\ OneEntryPerOption'
  BY <1>2, <1>3, ReturnKeeps, ExchangesApart DEF IInv, TypeOK, OneEntryPerOption, RC!Answers, Exchanges
<1>5. CopyInv(c)' /\ CallInv(c)' /\ \A d \in Callers \ {c} : Same(d)
  BY <1>2, <1>3, ReturnKeeps, ExchangesApart DEF IInv, TypeOK, Same, Exchanges
<1> QED BY <1>4, <1>5, Assemble

\* the PUT of the changed copy,
LEMMA WriteKeeps ==
    ASSUME IInv, NEW c \in Callers, Write(c) PROVE IInv'
<1> DEFINE new == Changed(copy[c], args[c])
<1>1. /\ pc[c] = "changing" /\ pc' = [pc EXCEPT ![c] = "writing"]
      /\ copy' = [copy EXCEPT ![c] = new] /\ status' = [status EXCEPT ![Put(c)] = "pending"]
      /\ UNCHANGED <<settings, options, runs, args, seen>>
  BY DEF Write, RC!Begin, boxVars
<1>2. copy[c] \in Config /\ DistinctIds(copy[c].options) /\ args[c] \in Requests
  BY <1>1 DEF IInv, CopyInv, CallInv
<1>3. /\ new \in Config /\ DistinctIds(new.options)
      /\ InForce(args[c], new.settings, new.options)
      /\ Exact(args[c], copy[c].settings, copy[c].options, new.settings, new.options)
  BY <1>2, ChangedRight
<1> HIDE DEF new
<1>4. TypeOK' /\ OneEntryPerOption'
  BY <1>1, <1>3, ExchangesApart DEF IInv, TypeOK, OneEntryPerOption, RC!Answers, Exchanges
<1>5. copy'[c] = new /\ pc'[c] = "writing"
  BY <1>1 DEF IInv, TypeOK
<1>6. CopyInv(c)'
  <2>1. seen[c] # NoCopy => copy[c] = seen[c]
    BY <1>1 DEF IInv, CopyInv
  <2> QED BY <1>1, <1>2, <1>3, <1>5, <2>1 DEF CopyInv
<1>7. CallInv(c)'
  BY <1>5 DEF CallInv
<1>8. \A d \in Callers \ {c} : Same(d)
  BY <1>1, ExchangesApart DEF IInv, TypeOK, Same, Exchanges
<1> QED BY <1>4, <1>6, <1>7, <1>8, Assemble

\* the refusal to delete what is not there,
LEMMA NothingToDeleteKeeps ==
    ASSUME IInv, NEW c \in Callers, NothingToDelete(c) PROVE IInv'
<1>1. ~Open(c)' /\ status'[Put(c)] = "idle"
  BY DEF NothingToDelete, IInv, CallInv, Open
<1>2. UNCHANGED <<settings, options, status, runs>>
  BY DEF NothingToDelete, boxVars
<1>3. TypeOK' /\ OneEntryPerOption'
  BY <1>1, <1>2, ReturnKeeps DEF NothingToDelete, IInv, TypeOK, OneEntryPerOption
<1>4. CopyInv(c)' /\ CallInv(c)' /\ \A d \in Callers \ {c} : Same(d)
  BY <1>1, <1>2, ReturnKeeps DEF NothingToDelete, Same
<1> QED BY <1>3, <1>4, Assemble

\* What the box makes of a PUT: the whole change, and only it where nothing came
\* between.
LEMMA AppliedRight ==
    ASSUME IInv, NEW c \in Callers, BoxApplies(c)
    PROVE  /\ Open(c)
           /\ settings' \in [Fields -> Vals]
           /\ options' = copy[c].options /\ options' \in Seq(Option) /\ DistinctIds(options')
           /\ InForce(args[c], settings', options')
           /\ seen[c] # NoCopy => Exact(args[c], Basis(c), seen[c].options, settings', options')
<1>1. Open(c) /\ copy[c] \in Config /\ args[c] \in Requests /\ options' = copy[c].options
  BY DEF BoxApplies, RC!Run, Open, IInv, CopyInv
<1>2. /\ copy[c].settings \in [Fields -> Vals] /\ copy[c].options \in Seq(Option)
      /\ DistinctIds(copy[c].options)
  BY <1>1 DEF Config, IInv, CopyInv
<1>3. /\ settings' \in [Fields -> Vals]
      /\ args[c].tool = "config_set" => settings' = copy[c].settings
      /\ \A f \in Fields : settings'[f] \in {copy[c].settings[f], settings[f]}
  BY <1>2 DEF BoxApplies, Payload, IInv, TypeOK
<1>4. InForce(args[c], copy[c].settings, copy[c].options)
  BY <1>1 DEF IInv, CopyInv
<1>5. InForce(args[c], settings', options')
  <2>1. CASE args[c].tool = "config_set"
    BY <1>1, <1>3, <1>4, <2>1
  <2>2. CASE args[c].tool = "option_set"
    BY <1>1, <1>4, <2>2 DEF InForce
  <2>3. CASE args[c].tool = "option_delete"
    BY <1>1, <1>4, <2>3 DEF InForce
  <2> QED BY <1>1, <2>1, <2>2, <2>3 DEF Requests
<1>6. ASSUME seen[c] # NoCopy
      PROVE  Exact(args[c], Basis(c), seen[c].options, settings', options')
  <2>1. Exact(args[c], seen[c].settings, seen[c].options, copy[c].settings, copy[c].options)
    BY <1>1, <1>6 DEF IInv, CopyInv
  <2>2. CASE args[c].tool = "config_set"
    BY <1>1, <1>3, <2>1, <2>2 DEF Exact, Basis
  <2>3. CASE args[c].tool # "config_set"
    <3>1. \A f \in Fields :
            settings'[f] = IF f \in BootFields THEN copy[c].settings[f] ELSE settings[f]
      BY <1>2, <2>3 DEF BoxApplies, Payload
    <3> QED BY <1>1, <2>1, <2>3, <3>1 DEF Exact, Basis
  <2> QED BY <2>2, <2>3
<1> QED BY <1>1, <1>2, <1>3, <1>5, <1>6

\* the box's run of a PUT, early or late,
LEMMA BoxAppliesKeeps ==
    ASSUME IInv, NEW c \in Callers, BoxApplies(c) PROVE IInv'
<1>1. /\ runs' = [runs EXCEPT ![Put(c)] = 1]
      /\ UNCHANGED <<status, pc, args, copy, seen>>
  BY DEF BoxApplies, RC!Run
<1>2. TypeOK' /\ OneEntryPerOption'
  BY <1>1, AppliedRight, ExchangesApart DEF IInv, TypeOK, OneEntryPerOption, Exchanges
<1>3. ASSUME NEW d \in Callers PROVE CopyInv(d)' /\ CallInv(d)'
  <2>1. CopyInv(d) /\ CallInv(d)
    BY DEF IInv
  <2>2. /\ runs'[Get(d)] = runs[Get(d)] /\ runs'[Put(d)] \in {runs[Put(d)], 1}
        /\ (Open(d)' => Open(d))
    BY <1>1, ExchangesApart DEF IInv, TypeOK, Open, Exchanges
  <2>3. CopyInv(d)'
    BY <1>1, <2>1, <2>2 DEF CopyInv
  <2>4. CallInv(d)'
    BY <1>1, <2>1, <2>2 DEF CallInv
  <2> QED BY <2>3, <2>4
<1> QED BY <1>2, <1>3 DEF IInv

\* its answer,
LEMMA AnsweredKeeps ==
    ASSUME IInv, NEW c \in Callers, Answered(c) PROVE IInv'
<1>1. /\ Return(c, "done") /\ runs[Put(c)] = 1 /\ status' = [status EXCEPT ![Put(c)] = "ok"]
      /\ UNCHANGED <<settings, options, runs>>
  BY DEF Answered, RC!Answer, boxVars
<1>2. ~Open(c)' /\ runs'[Put(c)] = 1
  BY <1>1 DEF Open, Put
<1>3. TypeOK' /\ OneEntryPerOption'
  BY <1>1, <1>2, ReturnKeeps, ExchangesApart DEF IInv, TypeOK, OneEntryPerOption, RC!Answers, Exchanges
<1>4. CopyInv(c)' /\ CallInv(c)' /\ \A d \in Callers \ {c} : Same(d)
  BY <1>1, <1>2, ReturnKeeps, ExchangesApart DEF IInv, TypeOK, Same, Exchanges
<1> QED BY <1>3, <1>4, Assemble

\* and its loss.
LEMMA WriteFailsKeeps ==
    ASSUME IInv, NEW c \in Callers, WriteFails(c) PROVE IInv'
<1>0. pc[c] = "writing" /\ UNCHANGED <<settings, options>>
  BY DEF WriteFails, boxVars
<1>1. CASE RC!Answer(Put(c), "refused") /\ Return(c, "failed")
  <2>1. status' = [status EXCEPT ![Put(c)] = "refused"] /\ UNCHANGED runs
    BY <1>1 DEF RC!Answer
  <2>2. ~Open(c)'
    BY <2>1, ExchangesApart DEF Open, IInv, TypeOK, Exchanges, Put
  <2>3. TypeOK' /\ OneEntryPerOption'
    BY <1>0, <1>1, <2>1, <2>2, ReturnKeeps, ExchangesApart
    DEF IInv, TypeOK, OneEntryPerOption, RC!Answers, Exchanges
  <2>4. CopyInv(c)' /\ CallInv(c)' /\ \A d \in Callers \ {c} : Same(d)
    BY <1>0, <1>1, <2>1, <2>2, ReturnKeeps, ExchangesApart DEF IInv, TypeOK, Same, Exchanges
  <2> QED BY <2>3, <2>4, Assemble
<1>2. CASE /\ RC!Answer(Put(c), "unknown")
           /\ pc' = [pc EXCEPT ![c] = "failed"] /\ UNCHANGED <<args, copy, seen>>
  <2>1. /\ status[Put(c)] = "pending" /\ status' = [status EXCEPT ![Put(c)] = "unknown"]
        /\ UNCHANGED runs
    BY <1>2 DEF RC!Answer
  <2>2. TypeOK' /\ OneEntryPerOption'
    BY <1>0, <1>2, <2>1, ExchangesApart DEF IInv, TypeOK, OneEntryPerOption, RC!Answers, Exchanges
  <2>3. pc'[c] = "failed" /\ (Open(c)' => Open(c))
    BY <1>2, <2>1 DEF IInv, TypeOK, Open, Put
  <2>4. CopyInv(c)' /\ CallInv(c)'
    <3>1. CopyInv(c)
      BY DEF IInv
    <3> QED BY <1>0, <1>2, <2>1, <2>3, <3>1 DEF CopyInv, CallInv
  <2>5. \A d \in Callers \ {c} : Same(d)
    BY <1>0, <1>2, <2>1, ExchangesApart DEF IInv, TypeOK, Same, Exchanges
  <2> QED BY <2>2, <2>4, <2>5, Assemble
<1> QED BY <1>1, <1>2 DEF WriteFails

\* Every step keeps the invariant.
THEOREM DhcpStep == IInv /\ [Next]_vars => IInv'
<1> SUFFICES ASSUME IInv, [Next]_vars PROVE IInv'
  OBVIOUS
<1>1. CASE UNCHANGED vars
  <2>1. TypeOK' /\ OneEntryPerOption'
    BY <1>1 DEF vars, boxVars, IInv, TypeOK, OneEntryPerOption
  <2>2. \A d \in Callers : Same(d)
    BY <1>1 DEF vars, boxVars, Same
  <2> QED BY <2>1, <2>2, SameKeeps DEF IInv
<1>2. ASSUME NEW c \in Callers,
             Refuse(c) \/ Call(c) \/ Continue(c) \/ BoxReads(c) \/ BoxApplies(c)
      PROVE  IInv'
  BY <1>2, RefuseKeeps, CallKeeps, BoxReadsKeeps, ReadKeeps, ReadFailsKeeps, WriteKeeps,
     NothingToDeleteKeeps, BoxAppliesKeeps, AnsweredKeeps, WriteFailsKeeps DEF Continue
<1> QED BY <1>1, <1>2 DEF Next

\* IInv always holds: types, distinct ids, and copies that are what they should be.
THEOREM DhcpInvariant == Spec => []IInv
BY DhcpInit, DhcpStep, PTL DEF Spec

-----------------------------------------------------------------------------
(* The results                                                             *)

\* The option array never holds two entries for one identifier, however many
\* set and delete calls overlap (SetOption, DeleteOption).
THEOREM OptionsStayDistinct == Spec => []OneEntryPerOption
<1>1. IInv => OneEntryPerOption
  BY DEF IInv
<1> QED BY <1>1, DhcpInvariant, PTL

\* However many calls overlap and however late a PUT is run, a call leaves the box as
\* it was shown, with its own change and no other: it undoes only what was written
\* between its GET and its PUT.
THEOREM OnlyOverlapsAreUndone == Spec => UndoesOnlyWhatItOverlaps
<1>1. IInv /\ [Next]_vars =>
        [\A c \in Callers :
           BoxApplies(c) /\ seen[c] # NoCopy =>
             Exact(args[c], Basis(c), seen[c].options, settings', options')]_vars
  BY AppliedRight
<1> QED BY <1>1, DhcpInvariant, PTL DEF Spec, UndoesOnlyWhatItOverlaps

\* Whatever overlaps, success means that the box has run the whole change, and a
\* refusal that it never will.
THEOREM ReportsAreAlwaysTrue == Spec => ReportsAreTrue
<1>1. IInv /\ IInv' /\ [Next]_vars =>
        [\A c \in Callers :
           /\ BoxApplies(c) => InForce(args[c], settings', options') /\ pc[c] # "refused"
           /\ pc'[c] = "done" => runs[Put(c)] = 1]_vars
  <2> SUFFICES ASSUME IInv, IInv', Next, NEW c \in Callers
               PROVE  /\ BoxApplies(c) => InForce(args[c], settings', options') /\ pc[c] # "refused"
                      /\ pc'[c] = "done" => runs[Put(c)] = 1
    OBVIOUS
  <2>1. ASSUME BoxApplies(c) PROVE InForce(args[c], settings', options') /\ pc[c] # "refused"
    BY <2>1, AppliedRight DEF IInv, CallInv, Open
  <2>2. ASSUME pc'[c] = "done" PROVE runs[Put(c)] = 1
    <3>1. CASE pc[c] = "done"
      BY <3>1 DEF IInv, CallInv
    <3>2. CASE pc[c] # "done"
      <4>1. PICK d \in Callers :
              Refuse(d) \/ Call(d) \/ Continue(d) \/ BoxReads(d) \/ BoxApplies(d)
        BY DEF Next
      <4>2. pc \in [Callers -> {"idle", "reading", "changing", "writing", "done", "refused", "failed"}]
        BY DEF IInv, TypeOK
      <4>3. Answered(d) /\ d = c
        BY <2>2, <3>2, <4>1, <4>2
        DEF Refuse, Call, Continue, BoxReads, BoxApplies, Read, ReadFails, Write, NothingToDelete,
            Answered, WriteFails, Return
      <4> QED BY <4>3 DEF Answered, RC!Answer
    <3> QED BY <3>1, <3>2
  <2> QED BY <2>1, <2>2
<1> QED BY <1>1, DhcpInvariant, PTL DEF Spec, ReportsAreTrue

\* An option tool never changes a main field of the box.
THEOREM OptionToolsKeepMain == Spec => OptionToolsKeepMainFields
<1>1. IInv /\ [Next]_vars =>
        [\A c \in Callers :
           BoxApplies(c) /\ args[c].tool # "config_set" =>
             \A f \in MainFields : settings'[f] = settings[f]]_vars
  BY DhcpAssumption DEF BoxApplies, Payload, Fields
<1> QED BY <1>1, DhcpInvariant, PTL DEF Spec, OptionToolsKeepMainFields

=============================================================================
