-------------------------- MODULE CredentialData ---------------------------
(***************************************************************************)
(* The data of the credential store: the files of one host's directory,    *)
(* what a pairing delivers and what a rotation message carries.            *)
(***************************************************************************)
CONSTANTS
    File,          \* ca_cert, device_cert, priv_key, connection_settings, host_settings
    CaCert,        \* the file that ReadFromFilesystem takes for "credentials exist"
    DeviceCert,
    ConnSettings,
    Content,       \* what a complete file can hold
    Absent,        \* in place of a content: the file does not exist
    Torn,          \* the content of a file whose write was cut short
    Bundles,       \* what WriteToFilesystem may be asked to store: a content for every file
    Payloads       \* what a rotation message may carry

ASSUME FileAssumption ==
    /\ {CaCert, DeviceCert, ConnSettings} \subseteq File
    /\ CaCert # DeviceCert /\ CaCert # ConnSettings /\ DeviceCert # ConnSettings

ASSUME ContentAssumption ==
    /\ Absent \notin Content
    /\ Torn \notin Content
    /\ Absent # Torn

ASSUME InputAssumption ==
    /\ Bundles \subseteq [File -> Content]
    /\ Payloads \subseteq [cert : Content, ca : Content \cup {Absent}, conn : Content]

\* What is under the final names; a .new file that was left behind torn can get there.
Creds == [File -> Content \cup {Absent, Torn}]

NoCreds == [f \in File |-> Absent]

\* The credentials after rotating c by payload p. A payload without a CA keeps
\* the one on disk; renewConn says whether the connection settings are renewed.
Rotation(c, p, renewConn) ==
    [f \in File |->
        IF f = DeviceCert THEN p.cert
        ELSE IF f = CaCert /\ p.ca # Absent THEN p.ca
        ELSE IF f = ConnSettings /\ renewConn THEN p.conn
        ELSE c[f]]
=============================================================================
