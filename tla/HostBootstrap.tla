--------------------------- MODULE HostBootstrap ----------------------------
(***************************************************************************)
(* The start of a host: the five values it keeps in its database, each in  *)
(* a statement of its own, and what a start makes of those it finds. A     *)
(* host whose CA certificate is stored takes the other four for granted; a *)
(* host that is started under another address replaces its server          *)
(* certificate. Devices keep the CA certificate and the address that the   *)
(* running host has given them.                                            *)
(*                                                                         *)
(* A key pair is a number; a certificate names the pairs it is of and is   *)
(* signed with.                                                            *)
(***************************************************************************)
EXTENDS Naturals, Sequences

CONSTANTS
    Address,       \* the values of --host-address
    Device,
    None,
    MaxKeys,       \* bound: key pairs and secrets made
    MaxFaults      \* bound: starts that are interrupted, reads that fail

ASSUME BoundAssumption == MaxKeys \in Nat /\ MaxFaults \in Nat

Key == 1 .. MaxKeys

ServerCert == [key : Key, issuer : Key, name : Address]

ASSUME NoneAssumption == None \notin Address \cup Key \cup ServerCert

VARIABLES
    stored,        \* the table service_config
    host,          \* the process: its memory and where it is in main
    keys,          \* the key pairs made so far
    trusted,       \* what each device keeps of its pairing
    faults,
    torn           \* history: a start was interrupted after a save and before its last

vars == <<stored, host, keys, trusted, faults, torn>>

-----------------------------------------------------------------------------
Config == [ca_cert : Key \cup {None}, ca_key : Key \cup {None},
           server_cert : ServerCert \cup {None}, server_key : Key \cup {None},
           jwt_secret : Key \cup {None}]

NoConfig == [ca_cert |-> None, ca_key |-> None, server_cert |-> None,
             server_key |-> None, jwt_secret |-> None]

\* A host that is not running: it was ended, or a fatal error ended it ("refused").
Exited(pc) == [pc |-> pc, address |-> None, mem |-> NoConfig, saves |-> <<>>]

Init ==
    /\ stored = NoConfig
    /\ host = Exited("off")
    /\ keys = 0
    /\ trusted = [d \in Device |-> None]
    /\ faults = 0
    /\ torn = FALSE

-----------------------------------------------------------------------------
\* generateServerCert: a new key pair, a certificate of it for the address.
GenerateServerCert(config, key, a) ==
    [config EXCEPT !.server_cert = [key |-> key, issuer |-> config.ca_key, name |-> a],
                   !.server_key = key]

\* generate, up to its first save: a CA, a server certificate and a secret.
Generate(a) ==
    LET ca == [NoConfig EXCEPT !.ca_cert = keys + 1, !.ca_key = keys + 1, !.jwt_secret = keys + 3]
    IN  /\ keys + 3 <= MaxKeys /\ keys' = keys + 3
        /\ host' = [pc |-> "save", address |-> a,
                    mem |-> GenerateServerCert(ca, keys + 2, a),
                    saves |-> <<"ca_cert", "ca_key", "server_cert", "server_key", "jwt_secret">>]

\* Mutant: whatever the error of the read, the start is taken for the first one.
FirstStartOnError(a) ==
    /\ host.pc \in {"off", "refused"}
    /\ IF stored.ca_cert = None THEN UNCHANGED faults ELSE faults < MaxFaults /\ faults' = faults + 1
    /\ Generate(a)
    /\ UNCHANGED <<stored, trusted, torn>>

\* New, a first start: no CA certificate is stored.
FirstStart(a) ==
    /\ host.pc \in {"off", "refused"}
    /\ stored.ca_cert = None
    /\ Generate(a)
    /\ UNCHANGED <<stored, trusted, faults, torn>>

\* What a later start insists on: the other values, and a server key that is the certificate's.
Loadable ==
    /\ \A f \in {"ca_key", "server_cert", "server_key"} : stored[f] # None
    /\ stored.server_cert.key = stored.server_key

\* New, a later start with the address of the server certificate. The secret is not read yet.
Load(a) ==
    /\ host.pc \in {"off", "refused"}
    /\ stored.ca_cert # None /\ Loadable
    /\ stored.server_cert.name = a
    /\ host' = [pc |-> "secret", address |-> a, saves |-> <<>>,
                mem |-> [stored EXCEPT !.jwt_secret = None]]
    /\ UNCHANGED <<stored, keys, trusted, faults, torn>>

\* Mutant: the certificate is stored, its key is not.
RegenerateCertOnly(a) ==
    /\ host.pc \in {"off", "refused"}
    /\ stored.ca_cert # None /\ Loadable
    /\ stored.server_cert.name # a
    /\ keys < MaxKeys /\ keys' = keys + 1
    /\ host' = [pc |-> "save", address |-> a, saves |-> <<"server_cert">>,
                mem |-> GenerateServerCert([stored EXCEPT !.jwt_secret = None], keys + 1, a)]
    /\ UNCHANGED <<stored, trusted, faults, torn>>

\* New, a later start with another address, up to its first save.
Regenerate(a) ==
    /\ host.pc \in {"off", "refused"}
    /\ stored.ca_cert # None /\ Loadable
    /\ stored.server_cert.name # a
    /\ keys < MaxKeys /\ keys' = keys + 1
    /\ host' = [pc |-> "save", address |-> a, saves |-> <<"server_cert", "server_key">>,
                mem |-> GenerateServerCert([stored EXCEPT !.jwt_secret = None], keys + 1, a)]
    /\ UNCHANGED <<stored, trusted, faults, torn>>

\* New, a later start that does not find what it insists on: a fatal error.
Refuse ==
    /\ host.pc \in {"off", "refused"}
    /\ stored.ca_cert # None /\ ~Loadable
    /\ host' = Exited("refused")
    /\ UNCHANGED <<stored, keys, trusted, faults, torn>>

\* New: the CA certificate cannot be read. Only an absent row means a first start.
ReadFails ==
    /\ host.pc \in {"off", "refused"}
    /\ faults < MaxFaults /\ faults' = faults + 1
    /\ host' = Exited("off")
    /\ UNCHANGED <<stored, keys, trusted, torn>>

\* SetConfig, of the next value to be saved.
Save ==
    /\ host.pc \in {"save", "saving"}
    /\ stored' = [stored EXCEPT ![Head(host.saves)] = host.mem[Head(host.saves)]]
    /\ host' = [host EXCEPT !.saves = Tail(@), !.pc = IF Len(host.saves) = 1 THEN "secret" ELSE "saving"]
    /\ UNCHANGED <<keys, trusted, faults, torn>>

\* Mutant: the error of GetJWTSecret is not looked at.
LoadAnySecret ==
    /\ host.pc = "secret"
    /\ host' = [host EXCEPT !.mem.jwt_secret = stored.jwt_secret, !.pc = "running"]
    /\ UNCHANGED <<stored, keys, trusted, faults, torn>>

\* GetJWTSecret, in every start: the secret in use is the stored one.
LoadSecret ==
    /\ host.pc = "secret"
    /\ host' = IF stored.jwt_secret = None THEN Exited("refused")
               ELSE [host EXCEPT !.mem.jwt_secret = stored.jwt_secret, !.pc = "running"]
    /\ UNCHANGED <<stored, keys, trusted, faults, torn>>

\* A crash in the middle of a start, or a save that fails and ends it.
Interrupt ==
    /\ host.pc \in {"save", "saving", "secret"}
    /\ faults < MaxFaults /\ faults' = faults + 1
    /\ torn' = (torn \/ host.pc = "saving")
    /\ host' = Exited("off")
    /\ UNCHANGED <<stored, keys, trusted>>

\* Mutant: the process goes on with what it has in memory.
StopInPlace ==
    /\ host.pc = "running"
    /\ host' = [host EXCEPT !.pc = "off"]
    /\ UNCHANGED <<stored, keys, trusted, faults, torn>>

\* The host is shut down, or crashes, while it runs: nothing of its start is under way.
Stop ==
    /\ host.pc = "running"
    /\ host' = Exited("off")
    /\ UNCHANGED <<stored, keys, trusted, faults, torn>>

\* AuthenticatePairingCode of a claimed device: it keeps the CA certificate and the address.
Authenticate(d) ==
    /\ host.pc = "running"
    /\ trusted[d] = None
    /\ trusted' = [trusted EXCEPT ![d] = [ca |-> host.mem.ca_cert, address |-> host.address]]
    /\ UNCHANGED <<stored, host, keys, faults, torn>>

Next ==
    \/ \E a \in Address : FirstStart(a) \/ Load(a) \/ Regenerate(a)
    \/ Refuse \/ ReadFails \/ Save \/ LoadSecret \/ Interrupt \/ Stop
    \/ \E d \in Device : Authenticate(d)

Spec == Init /\ [][Next]_vars

-----------------------------------------------------------------------------
\* Types: the values are of their kinds, and a process that is not running has no memory.
TypeOK ==
    /\ stored \in Config
    /\ host \in [pc : {"off", "refused", "save", "saving", "secret", "running"},
                 address : Address \cup {None}, mem : Config, saves : Seq(DOMAIN NoConfig)]
    /\ keys \in 0 .. MaxKeys
    /\ trusted \in [Device -> [ca : Key, address : Address] \cup {None}]
    /\ faults \in 0 .. MaxFaults
    /\ torn \in BOOLEAN
    /\ host.pc \in {"off", "refused"} => host = Exited(host.pc)

\* A host that serves has in memory what it will find at its next start, and all of it fits:
\* its server key is the certificate's, the certificate is for the address it was started
\* with and signed by the CA that devices are given, whose key it holds
\* (New, generate, generateServerCert).
RunningIsWhole ==
    host.pc = "running" =>
        /\ host.mem = stored
        /\ \A f \in DOMAIN stored : stored[f] # None
        /\ stored.ca_key = stored.ca_cert
        /\ stored.server_cert = [key |-> stored.server_key, issuer |-> stored.ca_cert, name |-> host.address]

\* A start ends for what it finds in the database only if an earlier one, the first or one
\* under a new address, was interrupted between two of its saves (New, generate).
RefusedOnlyWhenTorn == host.pc = "refused" => torn

\* Devices outlive the host's restarts: a host that serves has a server certificate of the
\* CA that every device was given at its pairing, and one for the address that the device
\* dials if the host is started with it (New loads the CA, and makes a server certificate
\* for a new address with it).
DevicesAccept ==
    \A d \in Device : host.pc = "running" /\ trusted[d] # None =>
        /\ host.mem.server_cert.issuer = trusted[d].ca
        /\ host.address = trusted[d].address => host.mem.server_cert.name = trusted[d].address

\* "Subsequent runs load all credentials from the database" (host/README.md): no start ends
\* because the credentials in the database cannot be used.
StartsAgain == host.pc # "refused"
=============================================================================
