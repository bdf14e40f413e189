------------------------ MODULE HostBootstrapProofs -------------------------
(***************************************************************************)
(* Proofs about HostBootstrap, for any addresses, devices, keys and        *)
(* interruptions.                                                          *)
(***************************************************************************)
EXTENDS HostBootstrap, TLAPS

-----------------------------------------------------------------------------
\* What the table holds is signed with the CA of the table, and nothing is there before it.
StoredFits ==
    /\ stored.ca_cert = None => stored = NoConfig
    /\ stored.ca_key # None => stored.ca_key = stored.ca_cert
    /\ stored.server_cert # None => stored.ca_key # None /\ stored.server_cert.issuer = stored.ca_cert

\* What a start has put together is whole, but for the secret.
MemoryFits ==
    host.pc \in {"save", "saving", "secret", "running"} =>
        /\ host.address \in Address
        /\ host.mem.ca_cert # None /\ host.mem.ca_key = host.mem.ca_cert
        /\ host.mem.server_key # None
        /\ host.mem.server_cert = [key |-> host.mem.server_key, issuer |-> host.mem.ca_cert,
                                   name |-> host.address]

\* A first start: which values are stored when these are left to be saved.
FirstSaves ==
    /\ host.mem.jwt_secret # None
    /\ \/ /\ host.pc = "save"
          /\ host.saves = <<"ca_cert", "ca_key", "server_cert", "server_key", "jwt_secret">>
          /\ stored = NoConfig
       \/ /\ host.pc = "saving"
          /\ host.saves = <<"ca_key", "server_cert", "server_key", "jwt_secret">>
          /\ stored = [NoConfig EXCEPT !.ca_cert = host.mem.ca_cert]
       \/ /\ host.pc = "saving"
          /\ host.saves = <<"server_cert", "server_key", "jwt_secret">>
          /\ stored = [host.mem EXCEPT !.server_cert = None, !.server_key = None, !.jwt_secret = None]
       \/ /\ host.pc = "saving"
          /\ host.saves = <<"server_key", "jwt_secret">>
          /\ stored = [host.mem EXCEPT !.server_key = None, !.jwt_secret = None]
       \/ /\ host.pc = "saving"
          /\ host.saves = <<"jwt_secret">>
          /\ stored = [host.mem EXCEPT !.jwt_secret = None]

\* A later start under another address: the certificate, then its key.
LaterSaves ==
    /\ stored.ca_cert = host.mem.ca_cert /\ stored.ca_key = host.mem.ca_key
    /\ stored.jwt_secret = None => torn
    /\ \/ host.pc = "save" /\ host.saves = <<"server_cert", "server_key">>
       \/ /\ host.pc = "saving" /\ host.saves = <<"server_key">>
          /\ stored.server_cert = host.mem.server_cert

SavesFit == host.pc \in {"save", "saving"} => FirstSaves \/ LaterSaves

\* Once all is saved, the memory is the table's, but for a secret that is not read yet.
SavedFits ==
    /\ host.pc = "secret" => stored = [host.mem EXCEPT !.jwt_secret = stored.jwt_secret]
    /\ host.pc = "running" => stored = host.mem /\ stored.jwt_secret # None

\* Unless a start was interrupted half way, the table has nothing or all of it.
WholeUnlessTorn ==
    ~torn /\ host.pc # "saving" => stored.ca_cert = None \/ (Loadable /\ stored.jwt_secret # None)

\* A refused start is a host with a torn table.
RefusalFits == RefusedOnlyWhenTorn /\ (host.pc = "secret" => stored.ca_cert # None)

\* No device was paired with another CA.
TrustFits == \A d \in Device : trusted[d] # None =>
                stored.ca_cert # None /\ stored.ca_cert = trusted[d].ca

IInv == TypeOK /\ StoredFits /\ MemoryFits /\ SavesFit /\ SavedFits /\ WholeUnlessTorn
        /\ RefusalFits /\ TrustFits

-----------------------------------------------------------------------------
\* The values there are.
LEMMA Values == DOMAIN NoConfig = {"ca_cert", "ca_key", "server_cert", "server_key", "jwt_secret"}
  BY DEF NoConfig

\* What saving one value leaves of the two plans.
LEMMA FirstPlan ==
    LET plan == <<"ca_cert", "ca_key", "server_cert", "server_key", "jwt_secret">>
    IN  /\ plan \in Seq(DOMAIN NoConfig)
        /\ Head(plan) = "ca_cert" /\ Len(plan) # 1
        /\ Tail(plan) = <<"ca_key", "server_cert", "server_key", "jwt_secret">>
        /\ Tail(plan) \in Seq(DOMAIN NoConfig)
  BY Values

LEMMA SecondPlan ==
    LET plan == <<"ca_key", "server_cert", "server_key", "jwt_secret">>
    IN  /\ Head(plan) = "ca_key" /\ Len(plan) # 1
        /\ Tail(plan) = <<"server_cert", "server_key", "jwt_secret">>
        /\ Tail(plan) \in Seq(DOMAIN NoConfig)
  BY Values

LEMMA ThirdPlan ==
    LET plan == <<"server_cert", "server_key", "jwt_secret">>
    IN  /\ Head(plan) = "server_cert" /\ Len(plan) # 1
        /\ Tail(plan) = <<"server_key", "jwt_secret">>
        /\ Tail(plan) \in Seq(DOMAIN NoConfig)
  BY Values

LEMMA FourthPlan ==
    LET plan == <<"server_key", "jwt_secret">>
    IN  /\ Head(plan) = "server_key" /\ Len(plan) # 1
        /\ Tail(plan) = <<"jwt_secret">>
        /\ Tail(plan) \in Seq(DOMAIN NoConfig)
  BY Values

LEMMA CertPlan ==
    LET plan == <<"server_cert", "server_key">>
    IN  /\ plan \in Seq(DOMAIN NoConfig)
        /\ Head(plan) = "server_cert" /\ Len(plan) # 1
        /\ Tail(plan) = <<"server_key">>
        /\ Tail(plan) \in Seq(DOMAIN NoConfig)
  BY Values

LEMMA LastPlan ==
    ASSUME NEW f \in DOMAIN NoConfig
    PROVE  /\ Head(<<f>>) = f /\ Len(<<f>>) = 1
           /\ Tail(<<f>>) = <<>>
           /\ <<>> \in Seq(DOMAIN NoConfig)
  BY Values

LEMMA Generated ==
    ASSUME NEW config \in Config, NEW key \in Key, NEW a \in Address, config.ca_key \in Key
    PROVE  LET g == GenerateServerCert(config, key, a)
           IN  /\ g \in Config
               /\ g.ca_cert = config.ca_cert /\ g.ca_key = config.ca_key
               /\ g.jwt_secret = config.jwt_secret
               /\ g.server_key = key
               /\ g.server_cert = [key |-> key, issuer |-> config.ca_key, name |-> a]
  BY DEF GenerateServerCert, Config, ServerCert

-----------------------------------------------------------------------------
LEMMA InitIInv == ASSUME Init PROVE IInv
<1>1. stored = NoConfig /\ stored.ca_cert = None /\ stored.ca_key = None /\ stored.server_cert = None
  BY DEF Init, NoConfig
<1>2. TypeOK
  <2>1. torn \in BOOLEAN
    BY Zenon DEF Init
  <2>2. /\ host \in [pc : {"off", "refused", "save", "saving", "secret", "running"},
                     address : Address \cup {None}, mem : Config, saves : Seq(DOMAIN NoConfig)]
        /\ stored \in Config
    BY Values DEF Init, NoConfig, Config, Exited
  <2>3. /\ keys \in 0 .. MaxKeys /\ faults \in 0 .. MaxFaults
        /\ trusted \in [Device -> [ca : Key, address : Address] \cup {None}]
    BY BoundAssumption DEF Init
  <2>4. host.pc \in {"off", "refused"} => host = Exited(host.pc)
    BY DEF Init, Exited
  <2> QED
    BY <2>1, <2>2, <2>3, <2>4 DEF TypeOK
<1>3. StoredFits /\ MemoryFits /\ SavesFit /\ SavedFits /\ WholeUnlessTorn
  BY <1>1 DEF Init, StoredFits, MemoryFits, SavesFit, SavedFits, WholeUnlessTorn, Exited
<1>4. RefusalFits /\ TrustFits
  BY DEF Init, RefusalFits, RefusedOnlyWhenTorn, TrustFits, Exited
<1> QED
  BY <1>2, <1>3, <1>4 DEF IInv

\* One lemma for each action, or group of actions, that keeps the invariant. A start that has
\* put together its values and will save them.
LEMMA FirstStartKeeps ==
    ASSUME IInv, NEW a \in Address, FirstStart(a)
    PROVE  IInv'
<1> DEFINE ca == [NoConfig EXCEPT !.ca_cert = keys + 1, !.ca_key = keys + 1, !.jwt_secret = keys + 3]
<1> DEFINE mem == GenerateServerCert(ca, keys + 2, a)
<1>1. /\ stored = NoConfig /\ UNCHANGED <<stored, trusted, faults, torn>>
      /\ keys' \in 0 .. MaxKeys
      /\ host' = [pc |-> "save", address |-> a, mem |-> mem,
                  saves |-> <<"ca_cert", "ca_key", "server_cert", "server_key", "jwt_secret">>]
  BY BoundAssumption DEF IInv, TypeOK, StoredFits, FirstStart, Generate
<1>2. /\ keys + 1 \in Key /\ keys + 2 \in Key /\ keys + 3 \in Key
  BY BoundAssumption DEF IInv, TypeOK, FirstStart, Generate, Key
<1>3. /\ ca \in Config
      /\ ca.ca_cert = keys + 1 /\ ca.ca_key = keys + 1 /\ ca.jwt_secret = keys + 3
  BY <1>2 DEF Config, NoConfig
<1> HIDE DEF ca
<1>4. /\ mem \in Config
      /\ mem.ca_cert = keys + 1 /\ mem.ca_key = keys + 1 /\ mem.jwt_secret = keys + 3
      /\ mem.server_key = keys + 2
      /\ mem.server_cert = [key |-> keys + 2, issuer |-> keys + 1, name |-> a]
  BY <1>2, <1>3, Generated
<1> HIDE DEF mem
<1>5. TypeOK'
  BY <1>1, <1>4, FirstPlan DEF IInv, TypeOK, Config
<1>6. MemoryFits'
  BY <1>1, <1>2, <1>4, NoneAssumption DEF MemoryFits
<1>7. SavesFit'
  BY <1>1, <1>2, <1>4, NoneAssumption DEF SavesFit, FirstSaves
<1>8. StoredFits' /\ SavedFits' /\ WholeUnlessTorn' /\ RefusalFits' /\ TrustFits'
  BY <1>1 DEF IInv, StoredFits, SavedFits, WholeUnlessTorn, RefusalFits, RefusedOnlyWhenTorn,
              TrustFits, NoConfig
<1> QED
  BY <1>5, <1>6, <1>7, <1>8 DEF IInv

LEMMA RegenerateKeeps ==
    ASSUME IInv, NEW a \in Address, Regenerate(a)
    PROVE  IInv'
<1> DEFINE old == [stored EXCEPT !.jwt_secret = None]
<1> DEFINE mem == GenerateServerCert(old, keys + 1, a)
<1>1. /\ UNCHANGED <<stored, trusted, faults, torn>>
      /\ keys' \in 0 .. MaxKeys /\ keys + 1 \in Key
      /\ host' = [pc |-> "save", address |-> a, mem |-> mem, saves |-> <<"server_cert", "server_key">>]
  BY BoundAssumption DEF IInv, TypeOK, Regenerate, Key
<1>2. /\ stored.ca_cert # None /\ Loadable /\ host.pc # "saving"
      /\ stored.ca_key = stored.ca_cert /\ stored.ca_key \in Key
  BY DEF IInv, TypeOK, StoredFits, Config, Loadable, Regenerate
<1>3. /\ old \in Config
      /\ old.ca_cert = stored.ca_cert /\ old.ca_key = stored.ca_key /\ old.jwt_secret = None
  BY DEF IInv, TypeOK, Config
<1> HIDE DEF old
<1>4. /\ mem \in Config
      /\ mem.ca_cert = stored.ca_cert /\ mem.ca_key = stored.ca_key /\ mem.jwt_secret = None
      /\ mem.server_key = keys + 1
      /\ mem.server_cert = [key |-> keys + 1, issuer |-> stored.ca_key, name |-> a]
  BY <1>1, <1>2, <1>3, Generated
<1> HIDE DEF mem
<1>5. TypeOK'
  BY <1>1, <1>4, CertPlan DEF IInv, TypeOK
<1>6. MemoryFits'
  BY <1>1, <1>2, <1>4, NoneAssumption DEF MemoryFits
<1>7. SavesFit'
  BY <1>1, <1>2, <1>4 DEF IInv, WholeUnlessTorn, SavesFit, LaterSaves
<1>8. StoredFits' /\ SavedFits' /\ WholeUnlessTorn' /\ RefusalFits' /\ TrustFits'
  BY <1>1, <1>2 DEF IInv, StoredFits, SavedFits, WholeUnlessTorn, RefusalFits, RefusedOnlyWhenTorn,
                    TrustFits, Loadable
<1> QED
  BY <1>5, <1>6, <1>7, <1>8 DEF IInv

LEMMA LoadKeeps ==
    ASSUME IInv, NEW a \in Address, Load(a)
    PROVE  IInv'
<1>1. /\ UNCHANGED <<stored, keys, trusted, faults, torn>>
      /\ host' = [pc |-> "secret", address |-> a, saves |-> <<>>,
                  mem |-> [stored EXCEPT !.jwt_secret = None]]
      /\ host.pc # "saving" /\ stored.ca_cert # None /\ Loadable /\ stored.server_cert.name = a
  BY DEF Load
<1>2. stored \in Config /\ stored.server_cert \in ServerCert
  BY <1>1 DEF IInv, TypeOK, Loadable, Config
<1>3. TypeOK'
  BY <1>1, <1>2, Values DEF IInv, TypeOK, Config
<1>4. MemoryFits'
  BY <1>1, <1>2 DEF IInv, StoredFits, MemoryFits, Loadable, ServerCert, Config
<1>5. stored = [host'.mem EXCEPT !.jwt_secret = stored.jwt_secret]
  BY <1>1, <1>2 DEF Config
<1>6. SavesFit' /\ SavedFits'
  BY <1>1, <1>5 DEF SavesFit, SavedFits
<1>7. StoredFits' /\ WholeUnlessTorn' /\ RefusalFits' /\ TrustFits'
  BY <1>1 DEF IInv, StoredFits, WholeUnlessTorn, RefusalFits, RefusedOnlyWhenTorn, TrustFits, Loadable
<1> QED
  BY <1>3, <1>4, <1>6, <1>7 DEF IInv

LEMMA InterruptKeeps == ASSUME IInv, Interrupt PROVE IInv'
<1>1. /\ UNCHANGED <<stored, keys, trusted>> /\ host' = Exited("off")
      /\ faults' \in 0 .. MaxFaults
  BY BoundAssumption DEF IInv, TypeOK, Interrupt
<1>2. torn' \in BOOLEAN /\ (torn => torn') /\ (host.pc = "saving" => torn')
  BY Zenon DEF Interrupt, IInv, TypeOK
<1>3. TypeOK'
  BY <1>1, <1>2, Values DEF IInv, TypeOK, Exited, NoConfig, Config
<1>4. WholeUnlessTorn'
  BY <1>1, <1>2 DEF IInv, WholeUnlessTorn, Loadable
<1>5. StoredFits' /\ MemoryFits' /\ SavesFit' /\ SavedFits' /\ RefusalFits' /\ TrustFits'
  BY <1>1 DEF IInv, StoredFits, MemoryFits, SavesFit, SavedFits, RefusalFits, RefusedOnlyWhenTorn,
              TrustFits, Exited
<1> QED
  BY <1>3, <1>4, <1>5 DEF IInv

LEMMA LoadSecretKeeps == ASSUME IInv, LoadSecret PROVE IInv'
<1>1. /\ host.pc = "secret" /\ UNCHANGED <<stored, keys, trusted, faults, torn>>
      /\ stored = [host.mem EXCEPT !.jwt_secret = stored.jwt_secret]
  BY DEF IInv, SavedFits, LoadSecret
<1>2. CASE stored.jwt_secret = None
  <2>1. host' = Exited("refused") /\ torn
    BY <1>1, <1>2 DEF LoadSecret, IInv, RefusalFits, WholeUnlessTorn
  <2>2. TypeOK'
    BY <1>1, <2>1, Values DEF IInv, TypeOK, Exited, NoConfig, Config
  <2>3. RefusalFits' /\ WholeUnlessTorn'
    BY <1>1, <2>1 DEF RefusalFits, RefusedOnlyWhenTorn, WholeUnlessTorn, Exited
  <2>4. StoredFits' /\ MemoryFits' /\ SavesFit' /\ SavedFits' /\ TrustFits'
    BY <1>1, <2>1 DEF IInv, StoredFits, MemoryFits, SavesFit, SavedFits, TrustFits, Exited
  <2> QED BY <2>2, <2>3, <2>4 DEF IInv
<1>3. CASE stored.jwt_secret # None
  <2>1. /\ host' = [host EXCEPT !.mem.jwt_secret = stored.jwt_secret, !.pc = "running"]
    BY <1>1, <1>3 DEF LoadSecret
  <2>2. /\ host'.mem = stored /\ host'.pc = "running"
        /\ host'.address = host.address /\ host'.saves = host.saves
    BY <1>1, <2>1 DEF IInv, TypeOK
  <2>3. host' \in [pc : {"off", "refused", "save", "saving", "secret", "running"},
                   address : Address \cup {None}, mem : Config, saves : Seq(DOMAIN NoConfig)]
    BY <2>1, <2>2 DEF IInv, TypeOK
  <2>4. TypeOK'
    BY <1>1, <2>2, <2>3 DEF IInv, TypeOK
  <2>5. MemoryFits'
    BY <1>1, <2>2 DEF IInv, TypeOK, Config, MemoryFits
  <2>6. StoredFits' /\ SavesFit' /\ SavedFits' /\ RefusalFits' /\ TrustFits' /\ WholeUnlessTorn'
    BY <1>1, <1>3, <2>2 DEF IInv, StoredFits, SavesFit, SavedFits, RefusalFits, RefusedOnlyWhenTorn,
                            TrustFits, WholeUnlessTorn, Loadable
  <2> QED BY <2>4, <2>5, <2>6 DEF IInv
<1> QED BY <1>2, <1>3

\* The seven saves: five of a first start, two of a later one.
LEMMA SaveKeeps == ASSUME IInv, Save PROVE IInv'
<1> DEFINE Done == /\ stored' \in Config /\ host'.saves \in Seq(DOMAIN NoConfig)
                   /\ host'.pc \in {"saving", "secret"}
                   /\ stored'.ca_cert = host.mem.ca_cert
                   /\ stored.ca_cert # None => stored'.ca_cert = stored.ca_cert
                   /\ SavesFit' /\ SavedFits' /\ StoredFits' /\ WholeUnlessTorn'
<1>1. /\ stored \in Config /\ host.mem \in Config /\ host.pc \in {"save", "saving"}
      /\ UNCHANGED <<keys, trusted, faults, torn>>
      /\ MemoryFits /\ (FirstSaves \/ LaterSaves) /\ StoredFits /\ TrustFits
  BY DEF IInv, TypeOK, SavesFit, Save
<1>2. /\ stored' = [stored EXCEPT ![Head(host.saves)] = host.mem[Head(host.saves)]]
      /\ host' = [host EXCEPT !.saves = Tail(host.saves),
                              !.pc = IF Len(host.saves) = 1 THEN "secret" ELSE "saving"]
  BY DEF Save
<1>3. /\ host'.mem = host.mem /\ host'.address = host.address
      /\ host'.pc = (IF Len(host.saves) = 1 THEN "secret" ELSE "saving")
      /\ host'.saves = Tail(host.saves)
  BY <1>2 DEF IInv, TypeOK
<1>4. /\ host.mem.ca_cert # None /\ host.mem.ca_key = host.mem.ca_cert /\ host.mem.server_key # None
      /\ host.mem.server_cert # None /\ host.mem.server_cert.issuer = host.mem.ca_cert
      /\ host.mem.server_cert.key = host.mem.server_key
  <2>1. /\ host.mem.ca_cert \in Key /\ host.mem.server_key \in Key /\ host.address \in Address
        /\ host.mem.server_cert = [key |-> host.mem.server_key, issuer |-> host.mem.ca_cert,
                                   name |-> host.address]
    BY <1>1 DEF MemoryFits, Config
  <2>2. host.mem.server_cert \in ServerCert
    BY <2>1 DEF ServerCert
  <2> QED
    BY <1>1, <2>1, <2>2, NoneAssumption DEF MemoryFits
<1>5. ASSUME FirstSaves,
             host.saves = <<"ca_cert", "ca_key", "server_cert", "server_key", "jwt_secret">>
      PROVE  Done
  <2>1. /\ host'.pc = "saving" /\ host'.saves = <<"ca_key", "server_cert", "server_key", "jwt_secret">>
        /\ host'.saves \in Seq(DOMAIN NoConfig)
        /\ stored' = [stored EXCEPT !.ca_cert = host.mem.ca_cert]
    BY <1>2, <1>3, <1>5, FirstPlan
  <2>2. stored = NoConfig /\ host.mem.jwt_secret # None
    BY <1>5 DEF FirstSaves
  <2>3. SavesFit'
    BY <1>3, <2>1, <2>2 DEF SavesFit, FirstSaves
  <2>4. /\ stored' \in Config /\ stored'.ca_cert = host.mem.ca_cert
        /\ stored.ca_cert # None => stored'.ca_cert = stored.ca_cert
    BY <1>1, <1>4, <2>1, <2>2, <2>3 DEF Config, NoConfig
  <2>5. StoredFits'
    BY <1>1, <1>4, <2>1, <2>2, <2>3 DEF Config, NoConfig, StoredFits
  <2>6. SavedFits' /\ WholeUnlessTorn'
    BY <1>1, <1>4, <2>1, <2>2, <2>3 DEF SavedFits, WholeUnlessTorn
  <2> QED
    BY <2>1, <2>3, <2>4, <2>5, <2>6
<1>6. ASSUME FirstSaves /\ host.saves = <<"ca_key", "server_cert", "server_key", "jwt_secret">>
      PROVE  Done
  <2>1. /\ host'.pc = "saving" /\ host'.saves = <<"server_cert", "server_key", "jwt_secret">>
        /\ host'.saves \in Seq(DOMAIN NoConfig)
        /\ stored' = [stored EXCEPT !.ca_key = host.mem.ca_key]
    BY <1>2, <1>3, <1>6, SecondPlan
  <2>2. stored = [NoConfig EXCEPT !.ca_cert = host.mem.ca_cert] /\ host.mem.jwt_secret # None
    BY <1>6 DEF FirstSaves
  <2>3. stored' = [host.mem EXCEPT !.server_cert = None, !.server_key = None, !.jwt_secret = None]
    <3> DEFINE r == [host.mem EXCEPT !.server_cert = None, !.server_key = None, !.jwt_secret = None]
    <3>1. /\ r \in Config
          /\ r.ca_cert = host.mem.ca_cert /\ r.ca_key = host.mem.ca_key
          /\ r.server_cert = None /\ r.server_key = None /\ r.jwt_secret = None
      BY <1>1 DEF Config
    <3>2. /\ stored' \in Config
          /\ stored'.ca_cert = host.mem.ca_cert /\ stored'.ca_key = host.mem.ca_key
          /\ stored'.server_cert = None /\ stored'.server_key = None /\ stored'.jwt_secret = None
      BY <1>1, <2>1, <2>2 DEF Config, NoConfig
    <3> HIDE DEF r
    <3>3. stored' = r
      BY <3>1, <3>2 DEF Config
    <3> QED
      BY <3>3 DEF r
  <2>4. SavesFit'
    BY <1>3, <2>1, <2>2, <2>3 DEF SavesFit, FirstSaves
  <2>5. /\ stored' \in Config /\ stored'.ca_cert = host.mem.ca_cert
        /\ stored.ca_cert # None => stored'.ca_cert = stored.ca_cert
    BY <1>1, <1>4, <2>1, <2>2, <2>3, <2>4 DEF Config, NoConfig
  <2>6. StoredFits'
    BY <1>1, <1>4, <2>1, <2>2, <2>3, <2>4 DEF Config, NoConfig, StoredFits
  <2>7. SavedFits' /\ WholeUnlessTorn'
    BY <1>1, <1>4, <2>1, <2>2, <2>3, <2>4 DEF SavedFits, WholeUnlessTorn
  <2> QED
    BY <2>1, <2>4, <2>5, <2>6, <2>7
<1>7. ASSUME FirstSaves /\ host.saves = <<"server_cert", "server_key", "jwt_secret">>
      PROVE  Done
  <2>1. /\ host'.pc = "saving" /\ host'.saves = <<"server_key", "jwt_secret">>
        /\ host'.saves \in Seq(DOMAIN NoConfig)
        /\ stored' = [stored EXCEPT !.server_cert = host.mem.server_cert]
    BY <1>2, <1>3, <1>7, ThirdPlan
  <2>2. /\ stored = [host.mem EXCEPT !.server_cert = None, !.server_key = None, !.jwt_secret = None]
        /\ host.mem.jwt_secret # None
    BY <1>7 DEF FirstSaves
  <2>3. stored' = [host.mem EXCEPT !.server_key = None, !.jwt_secret = None]
    BY <1>1, <2>1, <2>2 DEF Config
  <2>4. SavesFit'
    BY <1>3, <2>1, <2>2, <2>3 DEF SavesFit, FirstSaves
  <2>5. /\ stored' \in Config /\ stored'.ca_cert = host.mem.ca_cert
        /\ stored.ca_cert # None => stored'.ca_cert = stored.ca_cert
    BY <1>1, <1>4, <2>1, <2>2, <2>3, <2>4 DEF Config
  <2>6. StoredFits'
    BY <1>1, <1>4, <2>1, <2>2, <2>3, <2>4 DEF Config, StoredFits
  <2>7. SavedFits' /\ WholeUnlessTorn'
    BY <1>1, <1>4, <2>1, <2>2, <2>3, <2>4 DEF SavedFits, WholeUnlessTorn
  <2> QED
    BY <2>1, <2>4, <2>5, <2>6, <2>7
<1>8. ASSUME FirstSaves /\ host.saves = <<"server_key", "jwt_secret">>
      PROVE  Done
  <2>1. /\ host'.pc = "saving" /\ host'.saves = <<"jwt_secret">>
        /\ host'.saves \in Seq(DOMAIN NoConfig)
        /\ stored' = [stored EXCEPT !.server_key = host.mem.server_key]
    BY <1>2, <1>3, <1>8, FourthPlan
  <2>2. stored = [host.mem EXCEPT !.server_key = None, !.jwt_secret = None] /\ host.mem.jwt_secret # None
    BY <1>8 DEF FirstSaves
  <2>3. stored' = [host.mem EXCEPT !.jwt_secret = None]
    BY <1>1, <2>1, <2>2 DEF Config
  <2>4. SavesFit'
    BY <1>3, <2>1, <2>2, <2>3 DEF SavesFit, FirstSaves
  <2>5. /\ stored' \in Config /\ stored'.ca_cert = host.mem.ca_cert
        /\ stored.ca_cert # None => stored'.ca_cert = stored.ca_cert
    BY <1>1, <1>4, <2>1, <2>2, <2>3, <2>4 DEF Config
  <2>6. StoredFits'
    BY <1>1, <1>4, <2>1, <2>2, <2>3, <2>4 DEF Config, StoredFits
  <2>7. SavedFits' /\ WholeUnlessTorn'
    BY <1>1, <1>4, <2>1, <2>2, <2>3, <2>4 DEF SavedFits, WholeUnlessTorn
  <2> QED
    BY <2>1, <2>4, <2>5, <2>6, <2>7
<1>9. ASSUME FirstSaves /\ host.saves = <<"jwt_secret">>
      PROVE  Done
  <2>1. /\ host'.pc = "secret" /\ host'.saves = <<>>
        /\ host'.saves \in Seq(DOMAIN NoConfig)
        /\ stored' = [stored EXCEPT !.jwt_secret = host.mem.jwt_secret]
    BY <1>2, <1>3, <1>9, LastPlan, Values
  <2>2. stored = [host.mem EXCEPT !.jwt_secret = None] /\ host.mem.jwt_secret # None
    BY <1>9 DEF FirstSaves
  <2>3. stored' = host.mem
    BY <1>1, <2>1, <2>2 DEF Config
  <2>4. Loadable' /\ stored'.jwt_secret # None
    BY <1>4, <2>2, <2>3 DEF Loadable
  <2>5. /\ stored' \in Config /\ stored'.ca_cert = host.mem.ca_cert
        /\ stored.ca_cert # None => stored'.ca_cert = stored.ca_cert
    BY <1>1, <1>3, <1>4, <2>1, <2>2, <2>3, <2>4 DEF Config
  <2>6. StoredFits'
    BY <1>1, <1>3, <1>4, <2>1, <2>2, <2>3, <2>4 DEF Config, StoredFits
  <2>7. SavesFit' /\ SavedFits' /\ WholeUnlessTorn'
    BY <1>1, <1>3, <1>4, <2>1, <2>2, <2>3, <2>4 DEF SavesFit, SavedFits, WholeUnlessTorn
  <2> QED
    BY <2>1, <2>5, <2>6, <2>7
<1>10. ASSUME LaterSaves /\ host.saves = <<"server_cert", "server_key">>
      PROVE  Done
  <2>1. /\ host'.pc = "saving" /\ host'.saves = <<"server_key">>
        /\ host'.saves \in Seq(DOMAIN NoConfig)
        /\ stored' = [stored EXCEPT !.server_cert = host.mem.server_cert]
    BY <1>2, <1>3, <1>10, CertPlan
  <2>2. /\ stored.ca_cert = host.mem.ca_cert /\ stored.ca_key = host.mem.ca_key
        /\ stored.jwt_secret = None => torn
    BY <1>10 DEF LaterSaves
  <2>3. SavesFit'
    BY <1>1, <1>3, <2>1, <2>2 DEF Config, SavesFit, LaterSaves
  <2>4. /\ stored' \in Config /\ stored'.ca_cert = host.mem.ca_cert
        /\ stored.ca_cert # None => stored'.ca_cert = stored.ca_cert
    BY <1>1, <1>4, <2>1, <2>2, <2>3 DEF Config
  <2>5. StoredFits'
    BY <1>1, <1>4, <2>1, <2>2, <2>3 DEF Config, StoredFits
  <2>6. SavedFits' /\ WholeUnlessTorn'
    BY <1>1, <1>4, <2>1, <2>2, <2>3 DEF SavedFits, WholeUnlessTorn
  <2> QED
    BY <2>1, <2>3, <2>4, <2>5, <2>6
<1>11. ASSUME LaterSaves /\ host.saves = <<"server_key">>
      PROVE  Done
  <2>1. /\ host'.pc = "secret" /\ host'.saves = <<>>
        /\ host'.saves \in Seq(DOMAIN NoConfig)
        /\ stored' = [stored EXCEPT !.server_key = host.mem.server_key]
    BY <1>2, <1>3, <1>11, LastPlan, Values
  <2>2. /\ stored.ca_cert = host.mem.ca_cert /\ stored.ca_key = host.mem.ca_key
        /\ stored.server_cert = host.mem.server_cert
        /\ stored.jwt_secret = None => torn
    BY <1>11, LastPlan, Values, CertPlan DEF LaterSaves
  <2>3. /\ stored' = [host.mem EXCEPT !.jwt_secret = stored'.jwt_secret]
        /\ stored'.jwt_secret = stored.jwt_secret
    BY <1>1, <2>1, <2>2 DEF Config
  <2>4. Loadable'
    BY <1>1, <1>4, <2>1, <2>2 DEF Config, Loadable
  <2>5. /\ stored' \in Config /\ stored'.ca_cert = host.mem.ca_cert
        /\ stored.ca_cert # None => stored'.ca_cert = stored.ca_cert
    BY <1>1, <1>3, <1>4, <2>1, <2>2, <2>3, <2>4 DEF Config
  <2>6. StoredFits'
    BY <1>1, <1>3, <1>4, <2>1, <2>2, <2>3, <2>4 DEF Config, StoredFits
  <2>7. SavesFit' /\ SavedFits' /\ WholeUnlessTorn'
    BY <1>1, <1>3, <1>4, <2>1, <2>2, <2>3, <2>4 DEF SavesFit, SavedFits, WholeUnlessTorn
  <2> QED
    BY <2>1, <2>5, <2>6, <2>7
<1> HIDE DEF Done
<1>12. Done
  BY <1>1, <1>5, <1>6, <1>7, <1>8, <1>9, <1>10, <1>11 DEF FirstSaves, LaterSaves
<1>13. TypeOK'
  BY <1>1, <1>2, <1>12 DEF Done, IInv, TypeOK
<1>14. MemoryFits'
  BY <1>1, <1>3 DEF MemoryFits
<1>15. RefusalFits' /\ TrustFits'
  BY <1>1, <1>4, <1>12 DEF Done, RefusalFits, RefusedOnlyWhenTorn, TrustFits
<1> QED
  BY <1>12, <1>13, <1>14, <1>15 DEF Done, IInv

-----------------------------------------------------------------------------
LEMMA EndKeeps == ASSUME IInv, Refuse \/ ReadFails \/ Stop PROVE IInv'
<1>1. /\ UNCHANGED <<stored, keys, trusted, torn>> /\ faults' \in 0 .. MaxFaults
      /\ host' = Exited("off") \/ (host' = Exited("refused") /\ stored.ca_cert # None /\ ~Loadable)
      /\ host.pc # "saving"
  BY BoundAssumption DEF IInv, TypeOK, Refuse, ReadFails, Stop
<1>2. TypeOK'
  <2>1. CASE host' = Exited("off")
    BY <1>1, <2>1, Values DEF IInv, TypeOK, Exited, NoConfig, Config
  <2>2. CASE host' = Exited("refused")
    BY <1>1, <2>2, Values DEF IInv, TypeOK, Exited, NoConfig, Config
  <2> QED
    BY <1>1, <2>1, <2>2
<1>3. RefusalFits' /\ WholeUnlessTorn'
  BY <1>1 DEF IInv, RefusalFits, RefusedOnlyWhenTorn, WholeUnlessTorn, Loadable, Exited
<1>4. StoredFits' /\ MemoryFits' /\ SavesFit' /\ SavedFits' /\ TrustFits'
  BY <1>1 DEF IInv, StoredFits, MemoryFits, SavesFit, SavedFits, TrustFits, Exited
<1> QED
  BY <1>2, <1>3, <1>4 DEF IInv

LEMMA AuthenticateKeeps == ASSUME IInv, NEW d \in Device, Authenticate(d) PROVE IInv'
<1>1. /\ host.pc = "running" /\ UNCHANGED <<stored, host, keys, faults, torn>>
      /\ trusted' = [trusted EXCEPT ![d] = [ca |-> host.mem.ca_cert, address |-> host.address]]
  BY DEF Authenticate
<1>2. /\ stored.ca_cert = host.mem.ca_cert /\ stored.ca_cert # None /\ host.address \in Address
      /\ stored.ca_cert \in Key
  BY <1>1 DEF IInv, TypeOK, MemoryFits, SavedFits, Config
<1>3. TypeOK'
  BY <1>1, <1>2 DEF IInv, TypeOK
<1>4. TrustFits'
  BY <1>1, <1>2 DEF IInv, TypeOK, TrustFits
<1>5. StoredFits' /\ MemoryFits' /\ SavesFit' /\ SavedFits' /\ WholeUnlessTorn' /\ RefusalFits'
  BY <1>1 DEF IInv, StoredFits, MemoryFits, SavesFit, FirstSaves, LaterSaves, SavedFits,
              WholeUnlessTorn, RefusalFits, RefusedOnlyWhenTorn, Loadable
<1> QED
  BY <1>3, <1>4, <1>5 DEF IInv

LEMMA StutterKeeps == ASSUME IInv, UNCHANGED vars PROVE IInv'
  BY DEF vars, IInv, TypeOK, StoredFits, MemoryFits, SavesFit, FirstSaves, LaterSaves, SavedFits,
         WholeUnlessTorn, RefusalFits, RefusedOnlyWhenTorn, TrustFits, Loadable

THEOREM Invariant == Spec => []IInv
<1>1. Init => IInv
  BY InitIInv
<1>2. IInv /\ [Next]_vars => IInv'
  <2> SUFFICES ASSUME IInv, [Next]_vars PROVE IInv'
    OBVIOUS
  <2>1. CASE \E a \in Address : FirstStart(a) \/ Load(a) \/ Regenerate(a)
    BY <2>1, FirstStartKeeps, LoadKeeps, RegenerateKeeps
  <2>2. CASE Refuse \/ ReadFails \/ Stop
    BY <2>2, EndKeeps
  <2>3. CASE Save
    BY <2>3, SaveKeeps
  <2>4. CASE LoadSecret
    BY <2>4, LoadSecretKeeps
  <2>5. CASE Interrupt
    BY <2>5, InterruptKeeps
  <2>6. CASE \E d \in Device : Authenticate(d)
    BY <2>6, AuthenticateKeeps
  <2>7. CASE UNCHANGED vars
    BY <2>7, StutterKeeps
  <2> QED
    BY <2>1, <2>2, <2>3, <2>4, <2>5, <2>6, <2>7 DEF Next
<1> QED
  BY <1>1, <1>2, PTL DEF Spec

-----------------------------------------------------------------------------
\* The variables have their types (HostBootstrap).
THEOREM TypeCorrect == Spec => []TypeOK
<1>1. IInv => TypeOK
  BY DEF IInv
<1> QED
  BY <1>1, Invariant, PTL

\* A host that serves holds what is stored, all of it, and it fits together, however often
\* its starts were interrupted (New, generate, GetJWTSecret).
THEOREM ServesWhole == Spec => []RunningIsWhole
<1>1. IInv => RunningIsWhole
  <2> SUFFICES ASSUME IInv, host.pc = "running"
               PROVE  /\ host.mem = stored
                      /\ \A f \in DOMAIN stored : stored[f] # None
                      /\ stored.ca_key = stored.ca_cert
                      /\ stored.server_cert = [key |-> stored.server_key, issuer |-> stored.ca_cert,
                                               name |-> host.address]
    BY DEF RunningIsWhole
  <2>1. /\ stored \in Config /\ host.mem = stored /\ stored.jwt_secret # None
        /\ stored.ca_cert # None /\ stored.ca_key = stored.ca_cert /\ stored.server_key # None
        /\ host.address \in Address
        /\ stored.server_cert = [key |-> stored.server_key, issuer |-> stored.ca_cert,
                                 name |-> host.address]
    BY DEF IInv, TypeOK, MemoryFits, SavedFits
  <2>2. stored.server_cert \in ServerCert
    BY <2>1 DEF Config, ServerCert
  <2>3. stored.server_cert # None
    BY <2>2, NoneAssumption
  <2>4. DOMAIN stored = {"ca_cert", "ca_key", "server_cert", "server_key", "jwt_secret"}
    BY <2>1 DEF Config
  <2> QED
    BY <2>1, <2>3, <2>4
<1> QED
  BY <1>1, Invariant, PTL

\* A start is refused only after one that was interrupted between two saves (New).
THEOREM RefusalMeansTorn == Spec => []RefusedOnlyWhenTorn
<1>1. IInv => RefusedOnlyWhenTorn
  BY DEF IInv, RefusalFits
<1> QED
  BY <1>1, Invariant, PTL

\* A host that serves is accepted by every device it was ever paired with (New, Authenticate).
THEOREM DevicesStayAccepted == Spec => []DevicesAccept
<1>1. IInv => DevicesAccept
  BY DEF IInv, MemoryFits, SavedFits, TrustFits, DevicesAccept
<1> QED
  BY <1>1, Invariant, PTL
=============================================================================
